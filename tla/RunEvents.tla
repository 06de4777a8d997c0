----------------------------- MODULE RunEvents -----------------------------
(***************************************************************************)
(* The live view of one training run: the server-sent-event stream of      *)
(* GET /api/v1/training-runs/{id}/events (app/api/runs.py) and the page    *)
(* that listens to it (app/ui/static/training-runs.js).  The run itself is *)
(* any behaviour of TrainingContract; it moves while the stream reads.     *)
(*                                                                         *)
(* Event n of a run, counted from 0, is log[n + 1].                        *)
(***************************************************************************)
EXTENDS JobStates, Integers, FiniteSets

CONSTANTS
  Watched,   \* the run whose page is open
  PageSize,  \* LIMIT of the event query (100 in the code)
  Rounds,    \* polls of one connection before the server ends it (30)
  MaxDrops   \* how often the network may drop the connection

\* The longest history the state machine admits: it is acyclic.
LongestHistory == 7

ASSUME StreamAssumption ==
  /\ Watched \in Runs
  /\ PageSize \in Nat /\ PageSize >= LongestHistory
  /\ Rounds \in Nat \ {0} /\ MaxDrops \in Nat

VARIABLES
  conn,     \* what the server's generator does next
  cursor,   \* the last event it has read from the database
  snap,     \* the run's status in its last snapshot
  round,    \* polls made on this connection
  wire,     \* frames sent and not yet received, in order
  watching, \* the page still holds an EventSource
  shown,    \* event numbers in the page's history, in display order
  lastId,   \* Last-Event-ID of the browser
  drops

runVars    == <<status, log, starts, registered>>
serverVars == <<conn, cursor, snap, round>>
pageVars   == <<watching, shown, lastId>>
streamVars == <<runVars, serverVars, wire, pageVars, drops>>

Job == INSTANCE TrainingContract

StreamTypes ==
  /\ conn \in {"none", "query", "snapshot", "drain", "status", "wait", "ended"}
  /\ cursor \in Int /\ lastId \in Int
  /\ snap \in JobState \cup {Absent}
  /\ round \in 0..Rounds /\ drops \in 0..MaxDrops
  /\ wire \in Seq([kind : {"transition"}, id : Nat] \cup [kind : {"status"}, state : JobState])
  /\ watching \in BOOLEAN
  /\ shown \in Seq(Nat)

PageInit ==
  /\ conn = "none" /\ cursor = -1 /\ snap = Absent /\ round = 0
  /\ wire = <<>>
  /\ watching = TRUE /\ shown = <<>> /\ lastId = -1
  /\ drops = MaxDrops

StreamInit == Job!Init /\ PageInit

\* Events after the cursor, at most a page of them.
Fetch == [i \in 1..(IF Len(log[Watched]) - 1 - cursor > PageSize
                      THEN PageSize ELSE Len(log[Watched]) - 1 - cursor)
            |-> [kind |-> "transition", id |-> cursor + i]]

ReadEvents ==
  /\ wire' = wire \o Fetch
  /\ cursor' = cursor + Len(Fetch)

-----------------------------------------------------------------------------
(* The connection.                                                         *)

\* Mutation: the page connects for runs that are not final only.
Open_OnlyActive ==
  /\ watching /\ conn = "none" /\ wire = <<>>
  /\ status[Watched] \notin TERMINAL \cup {Absent}
  /\ conn' = "query" /\ cursor' = lastId /\ round' = 0
  /\ UNCHANGED <<runVars, snap, wire, pageVars, drops>>

\* Mutation: the server ignores Last-Event-ID and goes on from its own cursor.
Open_KeepsCursor ==
  /\ watching /\ conn = "none" /\ wire = <<>>
  /\ status[Watched] # Absent
  /\ conn' = "query" /\ round' = 0
  /\ UNCHANGED <<runVars, cursor, snap, wire, pageVars, drops>>

\* The browser connects, and reconnects with Last-Event-ID.
Open ==
  /\ watching /\ conn = "none" /\ wire = <<>>
  /\ status[Watched] # Absent
  /\ conn' = "query" /\ cursor' = lastId /\ round' = 0
  /\ UNCHANGED <<runVars, snap, wire, pageVars, drops>>

Query ==
  /\ conn = "query"
  /\ ReadEvents
  /\ conn' = "snapshot"
  /\ UNCHANGED <<runVars, snap, round, pageVars, drops>>

\* Mutation: no second query before the final status is sent.
Snapshot_NoDrain ==
  /\ conn = "snapshot"
  /\ snap' = status[Watched]
  /\ conn' = "status"
  /\ UNCHANGED <<runVars, cursor, round, wire, pageVars, drops>>

\* A transition can commit between the event query and this read.
Snapshot ==
  /\ conn = "snapshot"
  /\ snap' = status[Watched]
  /\ conn' = IF status[Watched] \in TERMINAL THEN "drain" ELSE "status"
  /\ UNCHANGED <<runVars, cursor, round, wire, pageVars, drops>>

Drain ==
  /\ conn = "drain"
  /\ ReadEvents
  /\ conn' = "status"
  /\ UNCHANGED <<runVars, snap, round, pageVars, drops>>

SendStatus ==
  /\ conn = "status"
  /\ wire' = Append(wire, [kind |-> "status", state |-> snap])
  /\ conn' = IF snap \in TERMINAL THEN "ended" ELSE "wait"
  /\ UNCHANGED <<runVars, cursor, snap, round, pageVars, drops>>

\* A publication or two seconds later; after the last round the server ends.
NextRound ==
  /\ conn = "wait"
  /\ round' = round + 1
  /\ conn' = IF round + 1 < Rounds THEN "query" ELSE "ended"
  /\ UNCHANGED <<runVars, cursor, snap, wire, pageVars, drops>>

\* The browser sees the end of the stream once it has read all of it.
EndSeen ==
  /\ watching /\ conn = "ended" /\ wire = <<>>
  /\ conn' = "none"
  /\ UNCHANGED <<runVars, cursor, snap, round, wire, pageVars, drops>>

Drop ==
  /\ watching /\ conn # "none" /\ drops > 0
  /\ drops' = drops - 1
  /\ conn' = "none" /\ wire' = <<>>
  /\ UNCHANGED <<runVars, cursor, snap, round, pageVars>>

-----------------------------------------------------------------------------
(* The page.                                                               *)

\* An event number already in the list is not added again.
ReceiveTransition ==
  /\ watching /\ wire # <<>> /\ Head(wire).kind = "transition"
  /\ LET n == Head(wire).id IN
       /\ lastId' = n
       /\ shown' = IF \E i \in 1..Len(shown) : shown[i] = n THEN shown ELSE Append(shown, n)
  /\ wire' = Tail(wire)
  /\ UNCHANGED <<runVars, serverVars, watching, drops>>

\* A terminal snapshot closes the EventSource for good.
ReceiveStatus ==
  /\ watching /\ wire # <<>> /\ Head(wire).kind = "status"
  /\ IF Head(wire).state \in TERMINAL
       THEN watching' = FALSE /\ conn' = "none" /\ wire' = <<>>
       ELSE wire' = Tail(wire) /\ UNCHANGED <<watching, conn>>
  /\ UNCHANGED <<runVars, cursor, snap, round, shown, lastId, drops>>

-----------------------------------------------------------------------------
RunMoves ==
  /\ Job!Next
  /\ UNCHANGED <<serverVars, wire, pageVars, drops>>

Stream == \/ Open \/ Query \/ Snapshot \/ Drain \/ SendStatus \/ NextRound \/ EndSeen
          \/ ReceiveTransition \/ ReceiveStatus

StreamNext == RunMoves \/ Stream \/ Drop

\* The server and the browser go on; runs and the network promise nothing.
StreamSpec == StreamInit /\ [][StreamNext]_streamVars /\ WF_streamVars(Stream)

-----------------------------------------------------------------------------
\* The page lists the history in order, without a gap and without a duplicate,
\* through every reconnection.
HistoryIsAPrefix == \A i \in 1..Len(shown) : shown[i] = i - 1

\* Every state the stream and the page reach is one their code can be in, and what the
\* page shows is always the beginning of the run's history.
Consistent == StreamTypes /\ HistoryIsAPrefix

\* When the page stops listening it has the whole history, the final event too,
\* although that may have been committed after the last regular query.
HistoryIsComplete == ~watching => Len(shown) = Len(log[Watched])

\* The page of a run that is final learns so.
PageLearnsTheEnd == (status[Watched] \in TERMINAL) ~> ~watching
=============================================================================
