-------------------------- MODULE ServingContract --------------------------
(***************************************************************************)
(* What users and operators of playgrounds may rely on, wherever they run: *)
(* docs/deployments.md as a state machine.  A user sees the status and the *)
(* lease; the operator of a target sees what a playground holds there.     *)
(***************************************************************************)
CONSTANT Playgrounds

VARIABLES
  status,    \* deployments.status
  due,       \* playgrounds whose lease has ended
  held,      \* playgrounds of which something exists at their target
  launched   \* playgrounds of which something has existed there

contractVars == <<status, due, held, launched>>

Absent == "ABSENT"

\* What a launch passes through, and what is shown of a server.
Shown == {"STARTING", "RUNNING"}
Started == {"PREPARING"} \cup Shown

Init ==
  /\ status \in [Playgrounds -> {Absent, "QUEUED"}]
  /\ due = {} /\ held = {} /\ launched = {}

Becomes(d, s) == status' = [status EXCEPT ![d] = s]

Create(d) ==
  /\ status[d] = Absent /\ Becomes(d, "QUEUED")
  /\ UNCHANGED <<due, held, launched>>

\* A lease that has ended stays so: no action revives it.
Expire(ds) ==
  /\ \A d \in ds : status[d] # Absent
  /\ due' = due \cup ds
  /\ UNCHANGED <<status, held, launched>>

\* A user asks, or the lease has ended.  Nothing but STOPPED follows.
AskToStop(d) ==
  /\ status[d] \in Started \cup {"QUEUED"} /\ Becomes(d, "STOP_REQUESTED")
  /\ UNCHANGED <<due, held, launched>>

\* No launch begins after its lease.
Prepare(d) ==
  /\ status[d] = "QUEUED" /\ d \notin due /\ Becomes(d, "PREPARING")
  /\ UNCHANGED <<due, held, launched>>

\* A playground is launched once, and for a row that is neither new nor over.
Occupy(d) ==
  /\ status[d] \in {"PREPARING", "STOP_REQUESTED"} /\ d \notin launched
  /\ held' = held \cup {d} /\ launched' = launched \cup {d}
  /\ UNCHANGED <<status, due>>

Release(d) == held' = held \ {d} /\ UNCHANGED <<status, due, launched>>

\* A server is shown only of a playground that was launched.
Observe(d) ==
  /\ status[d] \in Started /\ d \in launched
  /\ \E s \in Shown \ {status[d]} : Becomes(d, s)
  /\ UNCHANGED <<due, held, launched>>

\* What is over holds nothing.
End(d) ==
  /\ d \notin held
  /\ \/ status[d] = "STOP_REQUESTED" /\ Becomes(d, "STOPPED")
     \/ status[d] \in Started /\ Becomes(d, "FAILED")
     \/ status[d] \in Shown /\ Becomes(d, "LOST")
  /\ UNCHANGED <<due, held, launched>>

Next ==
  \/ \E ds \in SUBSET Playgrounds : Expire(ds)
  \/ \E d \in Playgrounds :
       \/ Create(d) \/ AskToStop(d) \/ Prepare(d) \/ Occupy(d)
       \/ Release(d) \/ Observe(d) \/ End(d)

Spec == Init /\ [][Next]_contractVars
=============================================================================
