-------------------------- MODULE TrainingContract --------------------------
(***************************************************************************)
(* What the clients of training runs may rely on, whatever the processes   *)
(* and the executor go through: docs/jobs.md as a state machine.  A client *)
(* sees the status of a run, its event history, and the model versions;    *)
(* the operator of the GPU host sees when training starts.                 *)
(***************************************************************************)
EXTENDS JobStates

contractVars == <<status, log, starts, registered>>

Init ==
  /\ status = [r \in Runs |-> Absent]
  /\ log = [r \in Runs |-> <<>>]
  /\ starts = [r \in Runs |-> 0]
  /\ registered = {}

\* What one transaction may do to a run in state s: one, two or three edges.
Commits(s) ==
  LET Then(paths) == UNION {{Append(p, t) : t \in TRANSITIONS[p[Len(p)]]} : p \in paths}
      one == {<<t>> : t \in TRANSITIONS[s]}
  IN one \cup Then(one) \cup Then(Then(one))

Advance(r, path) ==
  /\ status' = [status EXCEPT ![r] = path[Len(path)]]
  /\ log' = [log EXCEPT ![r] = @ \o path]

Insert(r) ==
  /\ status[r] = Absent
  /\ Advance(r, <<"QUEUED">>)
  /\ UNCHANGED <<starts, registered>>

Change(r) ==
  /\ status[r] # Absent
  /\ \E path \in Commits(status[r]) :
       path[Len(path)] # "SUCCEEDED" /\ Advance(r, path)
  /\ UNCHANGED <<starts, registered>>

\* Training starts only for a run in preparation, and only once.
Start(r) ==
  /\ status[r] \in {"PREPARING", "CANCEL_REQUESTED"}
  /\ starts[r] = 0
  /\ starts' = [starts EXCEPT ![r] = 1]
  /\ UNCHANGED <<status, log, registered>>

\* Success and the model version are one step, of a run that was trained.
Publish(r) ==
  /\ status[r] = "POSTPROCESSING" /\ starts[r] = 1
  /\ Advance(r, <<"SUCCEEDED">>)
  /\ registered' = registered \cup {r}
  /\ UNCHANGED starts

Next == \E r \in Runs : Insert(r) \/ Change(r) \/ Start(r) \/ Publish(r)

Spec == Init /\ [][Next]_contractVars
=============================================================================
