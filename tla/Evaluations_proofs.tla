------------------------- MODULE Evaluations_proofs -------------------------
(***************************************************************************)
(* Theorems about Evaluations, for any prompts, preferences and concurrent *)
(* requests, any number of attempts and any number of faults.              *)
(***************************************************************************)
EXTENDS Evaluations, TLAPS

-----------------------------------------------------------------------------
(* The inductive invariant.                                                *)

Asking  == {"ask", "save", "view", "write", "point"}
Working == {"recover", "prepare", "generate", "await", "stop", "quit", "store", "answer",
            "succeed"}
ClientSteps == {"idle", "insert"} \cup Asking
WorkerSteps == {"idle", "view", "write", "point", "fail"} \cup Working
Steps == ClientSteps \cup WorkerSteps

\* The steps that are taken under the claim, and those at which the worker's container
\* is gone or given up.
Holding == {"insert", "save", "view", "write", "point", "fail"} \cup Working
Cleared == {"prepare", "generate", "store", "answer", "succeed", "fail", "view", "write", "point"}
Generates == {"await", "stop", "quit", "store", "answer"}

\* What an actor holds while the others go on: the claim, a preference that cannot change
\* meanwhile, answers that stay.
ActorInv(a) ==
  /\ pc[a] \in (IF a = "worker" THEN WorkerSteps ELSE ClientSteps)
  /\ pc[a] \in Holding => claim = a
  /\ pc[a] \in Asking \cup {"succeed"} => Missing = {}
  /\ pc[a] \in Asking \cup Working \cup {"fail"} => cur[a] \in Attempts
  /\ pc[a] = "ask" => held[a] \in Reviews \cup {<<>>}
  /\ pc[a] = "save" => held[a] \in Reviews
  /\ pc[a] \in {"write", "point"} => held[a] = preference
  /\ pc[a] \in Generates => held[a] \in Pairs
  /\ pc[a] = "answer" => held[a] \in objects

\* A container that was not given up is that of the attempt under way, and the worker
\* that goes on from it has seen it removed.
WorkerInv ==
  /\ pc["worker"] \in Working => tasks[cur["worker"]] = "RUNNING"
  /\ \A t \in containers \ abandoned :
       tasks[t] = "RUNNING" /\ (pc["worker"] \in Cleared => t # cur["worker"])

Things == Views \cup Reviews \cup Pairs \cup {<<>>}

TaskTypes == tasks \in Seq(Active \cup Over) /\ Len(tasks) <= MaxAttempts
ReportTypes == report \in Seq(Views \cup {<<>>}) /\ Len(report) = Len(tasks)
EvidenceTypes == answers \subseteq Pairs /\ objects \subseteq Pairs /\ preference \in Views
DockerTypes == containers \subseteq Attempts /\ abandoned \subseteq Attempts
ProcTypes ==
  /\ claim \in Actors \cup {"nobody"} /\ pc \in [Actors -> Steps]
  /\ cur \in [Actors -> 0..MaxAttempts] /\ held \in [Actors -> Things]
DataTypes == TaskTypes /\ ReportTypes /\ EvidenceTypes /\ DockerTypes

DataInv == OneAttemptAtATime /\ ReportIsCurrent /\ SuccessIsComplete

IInv ==
  /\ DataTypes /\ ProcTypes /\ faults \in 0..MaxFaults
  /\ DataInv /\ WorkerInv
  /\ \A a \in Actors : ActorInv(a)

-----------------------------------------------------------------------------
(* How actors move.                                                        *)

Same(b) == pc'[b] = pc[b] /\ cur'[b] = cur[b] /\ held'[b] = held[b]
Others(a) == \A b \in Actors \ {a} : Same(b)

LEMMA NamesDiffer ==
  /\ "worker" \in Actors /\ "nobody" \notin Actors
  /\ \A c \in Clients : c \in Actors /\ c # "worker" /\ c # "nobody"
BY ClientsAssumption DEF Actors

LEMMA GotoMoves ==
  ASSUME IInv, NEW a \in Actors, NEW step \in Steps, Goto(a, step)
  PROVE  /\ ProcTypes' /\ Others(a) /\ pc'[a] = step
         /\ UNCHANGED <<claim, cur, held>>
BY DEF IInv, ProcTypes, Goto, Others, Same

LEMMA CarryMoves ==
  ASSUME IInv, NEW a \in Actors, NEW step \in Steps, NEW thing \in Things, Carry(a, step, thing)
  PROVE  /\ ProcTypes' /\ Others(a) /\ pc'[a] = step /\ held'[a] = thing
         /\ UNCHANGED <<claim, cur>>
BY DEF IInv, ProcTypes, Carry, Others, Same

LEMMA LeaveMoves ==
  ASSUME IInv, NEW a \in Actors, Leave(a)
  PROVE  /\ ProcTypes' /\ Others(a) /\ pc'[a] = "idle"
         /\ claim' = IF claim = a THEN "nobody" ELSE claim
<1>1. claim' = IF claim = a THEN "nobody" ELSE claim
  BY DEF Leave
<1>2. pc' \in [Actors -> Steps] /\ Others(a) /\ pc'[a] = "idle"
  BY DEF IInv, ProcTypes, Leave, Others, Same, Steps, ClientSteps
<1>3. cur' \in [Actors -> 0..MaxAttempts]
  BY BoundsAssumption DEF IInv, ProcTypes, Leave
<1>4. held' \in [Actors -> Things]
  BY DEF IInv, ProcTypes, Leave, Things
<1> QED
  BY <1>1, <1>2, <1>3, <1>4 DEF IInv, ProcTypes

\* While one actor moves, what the others rely on stays: only the holder of the claim
\* records preferences, answers are only added, attempts too.
LEMMA OthersKeep ==
  ASSUME IInv, NEW a \in Actors, Others(a),
         claim' = claim \/ claim = "nobody" \/ claim = a,
         preference' = preference \/ claim = a,
         answers \subseteq answers', objects \subseteq objects', Len(tasks) <= Len(tasks'),
         Len(tasks') \in Nat
  PROVE  \A b \in Actors \ {a} : ActorInv(b)'
<1> SUFFICES ASSUME NEW b \in Actors \ {a}
             PROVE  ActorInv(b)'
  OBVIOUS
<1>1. ActorInv(b) /\ Same(b)
  BY DEF IInv, Others
<1>2. pc[b] \in Holding => claim' = b /\ preference' = preference
  BY <1>1, NamesDiffer DEF ActorInv
<1>3. Missing' \subseteq Missing
  BY DEF Missing
<1>4. Attempts \subseteq Attempts'
  BY DEF IInv, DataTypes, TaskTypes, Attempts
<1> QED
  BY <1>1, <1>2, <1>3, <1>4 DEF ActorInv, Same, Holding

\* A step of actor a, put together.
LEMMA Together ==
  ASSUME IInv, NEW a \in Actors, Others(a), ProcTypes', DataTypes', faults' \in 0..MaxFaults,
         claim' = claim \/ claim = "nobody" \/ claim = a,
         preference' = preference \/ claim = a,
         answers \subseteq answers', objects \subseteq objects', Len(tasks) <= Len(tasks'),
         ActorInv(a)', DataInv', WorkerInv'
  PROVE  IInv'
<1>1. Len(tasks') \in Nat
  BY DEF DataTypes, TaskTypes
<1>2. \A b \in Actors \ {a} : ActorInv(b)'
  BY <1>1, OthersKeep
<1> QED
  BY <1>2 DEF IInv

\* An actor that has left relies on nothing.
LEMMA IdleFits ==
  ASSUME NEW a, pc'[a] = "idle"
  PROVE  ActorInv(a)'
BY DEF ActorInv, Asking, Working, ClientSteps, WorkerSteps, Holding, Generates

\* The status of one attempt changes.
LEMMA BecomesOnly ==
  ASSUME IInv, NEW t \in Attempts, NEW s \in Active \cup Over, Becomes(t, s)
  PROVE  /\ TaskTypes' /\ Attempts' = Attempts /\ Len(tasks') = Len(tasks)
         /\ \A u \in Attempts : tasks'[u] = IF u = t THEN s ELSE tasks[u]
<1>1. tasks \in Seq(Active \cup Over) /\ Len(tasks) \in Nat /\ t \in 1..Len(tasks)
      /\ Len(tasks) <= MaxAttempts
  BY DEF IInv, DataTypes, TaskTypes, Attempts
<1>2. tasks' = [tasks EXCEPT ![t] = s]
  BY DEF Becomes
<1>3. tasks' \in Seq(Active \cup Over) /\ Len(tasks') = Len(tasks)
  BY <1>1, <1>2
<1>4. \A u \in 1..Len(tasks) : tasks'[u] = IF u = t THEN s ELSE tasks[u]
  BY <1>1, <1>2
<1> QED
  BY <1>1, <1>3, <1>4 DEF TaskTypes, Attempts

LEMMA TasksStay ==
  ASSUME IInv, UNCHANGED tasks
  PROVE  TaskTypes' /\ Attempts' = Attempts /\ Len(tasks) <= Len(tasks')
BY DEF IInv, DataTypes, TaskTypes, Attempts

\* Requests leave the worker's attempt alone.
LEMMA WorkerKeeps ==
  ASSUME IInv, pc'["worker"] = pc["worker"], cur'["worker"] = cur["worker"],
         UNCHANGED dockerVars, Attempts \subseteq Attempts',
         \A t \in Attempts : tasks'[t] = tasks[t]
  PROVE  WorkerInv'
<1>1. pc["worker"] \in Working => cur["worker"] \in Attempts
  BY NamesDiffer DEF IInv, ActorInv
<1>2. containers \ abandoned \subseteq Attempts
  BY DEF IInv, DataTypes, DockerTypes
<1> QED
  BY <1>1, <1>2 DEF IInv, WorkerInv, dockerVars

\* A step that leaves the database and the answers alone.
LEMMA DataKeeps ==
  ASSUME IInv, UNCHANGED <<tasks, report, evidenceVars, preference>>, DockerTypes'
  PROVE  /\ DataTypes' /\ DataInv' /\ Attempts' = Attempts /\ Missing' = Missing
         /\ answers \subseteq answers' /\ objects \subseteq objects'
         /\ Len(tasks) <= Len(tasks') /\ preference' = preference
<1>1. TaskTypes' /\ Attempts' = Attempts /\ Len(tasks) <= Len(tasks')
  BY TasksStay
<1>2. ReportTypes' /\ EvidenceTypes' /\ Missing' = Missing
  BY DEF IInv, DataTypes, ReportTypes, EvidenceTypes, evidenceVars, Missing
<1>3. DataInv'
  BY <1>1, <1>2 DEF IInv, DataInv, OneAttemptAtATime, ReportIsCurrent, SuccessIsComplete,
                    evidenceVars
<1> QED
  BY <1>1, <1>2, <1>3 DEF DataTypes, evidenceVars

LEMMA DockerKeeps ==
  ASSUME IInv, UNCHANGED dockerVars, Attempts \subseteq Attempts'
  PROVE  DockerTypes'
BY DEF IInv, DataTypes, DockerTypes, dockerVars

\* A request's step that only moves the request.
LEMMA RequestMoves ==
  ASSUME IInv, NEW c \in Clients, Others(c), ProcTypes', faults' \in 0..MaxFaults,
         UNCHANGED <<tasks, report, evidenceVars, preference, dockerVars>>,
         claim' = claim \/ claim = "nobody" \/ claim = c, ActorInv(c)'
  PROVE  IInv'
<1>1. Attempts' = Attempts
  BY DEF Attempts
<1>2. DockerTypes'
  BY <1>1, DockerKeeps
<1>3. DataTypes' /\ DataInv' /\ answers \subseteq answers' /\ objects \subseteq objects'
      /\ Len(tasks) <= Len(tasks') /\ preference' = preference
  BY <1>2, DataKeeps
<1>4. c \in Actors /\ Same("worker")
  BY NamesDiffer DEF Others
<1>5. WorkerInv'
  BY <1>1, <1>4, WorkerKeeps DEF Same
<1> QED
  BY <1>3, <1>4, <1>5, Together

LEMMA CalmKeeps ==
  ASSUME IInv, UNCHANGED faults \/ (\E f \in FaultKinds : Fault(f))
  PROVE  faults' \in 0..MaxFaults
<1>1. faults \in 0..MaxFaults /\ MaxFaults \in Nat
  BY BoundsAssumption DEF IInv
<1>2. CASE UNCHANGED faults
  BY <1>1, <1>2
<1>3. CASE \E f \in FaultKinds : Fault(f)
  BY <1>1, <1>3 DEF Fault
<1> QED
  BY <1>2, <1>3

-----------------------------------------------------------------------------
(* Requests.                                                               *)

LEMMA BeginCreateKeeps ==
  ASSUME IInv, NEW c \in Clients, BeginCreate(c)
  PROVE  IInv'
<1>1. c \in Actors /\ c # "worker"
  BY NamesDiffer
<1>2. Others(c) /\ pc'[c] = "insert" /\ ProcTypes'
  BY <1>1 DEF BeginCreate, IInv, ProcTypes, Others, Same, Steps, ClientSteps
<1>3. claim = "nobody" /\ claim' = c /\ faults' \in 0..MaxFaults
      /\ UNCHANGED <<tasks, report, evidenceVars, preference, dockerVars>>
  BY DEF BeginCreate, IInv
<1>4. ActorInv(c)'
  BY <1>1, <1>2, <1>3 DEF ActorInv, ClientSteps, Asking, Working, Generates
<1> QED
  BY <1>2, <1>3, <1>4, RequestMoves

LEMMA AskKeeps ==
  ASSUME IInv, NEW c \in Clients, Ask(c)
  PROVE  IInv'
<1>1. c \in Actors /\ c # "worker"
  BY NamesDiffer
<1>2. PICK t \in Attempts, thing \in Reviews \cup {<<>>} :
        /\ tasks[t] = "SUCCEEDED"
        /\ pc' = [pc EXCEPT ![c] = "ask"] /\ cur' = [cur EXCEPT ![c] = t]
        /\ held' = [held EXCEPT ![c] = thing]
  BY DEF Ask
<1>3. UNCHANGED <<tasks, report, evidenceVars, preference, dockerVars>> /\ claim' = claim
      /\ faults' \in 0..MaxFaults
  BY DEF Ask, IInv
<1>4. t \in 0..MaxAttempts /\ thing \in Things
  BY <1>2, BoundsAssumption DEF IInv, DataTypes, TaskTypes, Attempts, Things
<1>5. Others(c) /\ ProcTypes' /\ pc'[c] = "ask" /\ cur'[c] = t /\ held'[c] = thing
  BY <1>1, <1>2, <1>3, <1>4 DEF IInv, ProcTypes, Others, Same, Steps, ClientSteps, Asking
<1>6. Missing' = {} /\ Attempts' = Attempts
  BY <1>2, <1>3 DEF IInv, DataInv, SuccessIsComplete, Missing, evidenceVars, Attempts
<1>7. ActorInv(c)'
  BY <1>1, <1>5, <1>6 DEF ActorInv, ClientSteps, Asking, Working, Generates, Holding
<1> QED
  BY <1>3, <1>5, <1>7, RequestMoves

LEMMA BeginWriteKeeps ==
  ASSUME IInv, NEW c \in Clients, BeginWrite(c)
  PROVE  IInv'
<1>1. c \in Actors /\ c # "worker" /\ pc[c] = "ask" /\ ActorInv(c)
  BY NamesDiffer DEF BeginWrite, IInv
<1>2. UNCHANGED <<tasks, report, evidenceVars, preference, dockerVars>>
      /\ faults' \in 0..MaxFaults
  BY DEF BeginWrite, IInv
<1>3. CASE claim = "nobody"
  <2>1. Missing' = {} /\ Attempts' = Attempts /\ cur[c] \in Attempts
    BY <1>1, <1>2 DEF ActorInv, Missing, evidenceVars, Attempts, Asking
  <2>2. held[c] \in Reviews \cup {<<>>}
    BY <1>1 DEF ActorInv
  <2>3. claim' = c /\ UNCHANGED <<cur, held>>
        /\ pc' = [pc EXCEPT ![c] = IF held[c] = <<>> THEN "view" ELSE "save"]
    BY <1>3 DEF BeginWrite
  <2>4. Others(c) /\ ProcTypes'
        /\ pc'[c] = IF held[c] = <<>> THEN "view" ELSE "save"
    BY <1>1, <2>3 DEF IInv, ProcTypes, Others, Same, Steps, ClientSteps, Asking
  <2>5. ActorInv(c)'
    BY <1>1, <2>1, <2>2, <2>3, <2>4 DEF ActorInv, ClientSteps, Asking, Working, Generates
  <2> QED
    BY <1>2, <1>3, <2>4, <2>5, RequestMoves
<1>4. CASE claim # "nobody"
  <2>1. Leave(c)
    BY <1>4 DEF BeginWrite
  <2>2. ProcTypes' /\ Others(c) /\ pc'[c] = "idle"
        /\ claim' = IF claim = c THEN "nobody" ELSE claim
    BY <1>1, <2>1, LeaveMoves
  <2>3. ActorInv(c)'
    BY <2>2, IdleFits
  <2> QED
    BY <1>2, <2>2, <2>3, RequestMoves
<1> QED
  BY <1>3, <1>4

LEMMA InsertTaskKeeps ==
  ASSUME IInv, NEW c \in Clients, InsertTask(c)
  PROVE  IInv'
<1>1. c \in Actors /\ c # "worker" /\ claim = c
  BY NamesDiffer DEF InsertTask, IInv, ActorInv, Holding
<1>2. Leave(c) /\ UNCHANGED <<evidenceVars, preference, dockerVars>> /\ faults' \in 0..MaxFaults
  BY DEF InsertTask, IInv
<1>3. ProcTypes' /\ Others(c) /\ pc'[c] = "idle"
      /\ claim' = IF claim = c THEN "nobody" ELSE claim
  BY <1>1, <1>2, LeaveMoves
<1>4. ActorInv(c)'
  BY <1>3, IdleFits
<1>5. CASE UNCHANGED <<tasks, report>>
  BY <1>1, <1>2, <1>3, <1>4, <1>5, RequestMoves
<1>6. CASE ~ UNCHANGED <<tasks, report>>
  <2>1. Reused = {} /\ Len(tasks) # MaxAttempts
        /\ tasks' = Append(tasks, "QUEUED") /\ report' = Append(report, <<>>)
    BY <1>6 DEF InsertTask
  <2>2. tasks \in Seq(Active \cup Over) /\ Len(tasks) \in Nat /\ Len(tasks) <= MaxAttempts
        /\ MaxAttempts \in Nat
    BY BoundsAssumption DEF IInv, DataTypes, TaskTypes
  <2>3. report \in Seq(Views \cup {<<>>}) /\ Len(report) = Len(tasks)
    BY DEF IInv, DataTypes, ReportTypes
  <2>4. "QUEUED" \in Active \cup Over /\ <<>> \in Views \cup {<<>>}
    BY DEF Active
  <2>5. tasks' \in Seq(Active \cup Over) /\ Len(tasks') = Len(tasks) + 1
        /\ \A t \in 1..Len(tasks) : tasks'[t] = tasks[t]
    BY <2>1, <2>2, <2>4
  <2>6. tasks'[Len(tasks) + 1] = "QUEUED"
    BY <2>1, <2>2, <2>4
  <2>7. report' \in Seq(Views \cup {<<>>}) /\ Len(report') = Len(tasks')
        /\ \A t \in 1..Len(tasks) : report'[t] = report[t]
    BY <2>1, <2>2, <2>3, <2>4, <2>5
  <2>8. report'[Len(tasks) + 1] = <<>>
    BY <2>1, <2>2, <2>3, <2>4
  <2>9. Attempts' = 1..(Len(tasks) + 1) /\ Attempts = 1..Len(tasks) /\ Attempts \subseteq Attempts'
    BY <2>2, <2>5 DEF Attempts
  <2>10. DataTypes'
    <3>1. TaskTypes' /\ ReportTypes'
      BY <2>1, <2>2, <2>5, <2>7 DEF TaskTypes, ReportTypes
    <3>2. EvidenceTypes'
      BY <1>2 DEF IInv, DataTypes, EvidenceTypes, evidenceVars
    <3>3. DockerTypes'
      BY <1>2, <2>9, DockerKeeps
    <3> QED
      BY <3>1, <3>2, <3>3 DEF DataTypes
  <2>11. \A t \in Attempts : tasks[t] \notin Active
    BY <2>1 DEF Reused
  <2>12. \A t \in Attempts' : t \in Attempts \/ t = Len(tasks) + 1
    BY <2>2, <2>9
  <2>13. OneAttemptAtATime'
    BY <2>5, <2>9, <2>11, <2>12 DEF OneAttemptAtATime
  <2>14. ReportIsCurrent'
    BY <1>2, <2>7, <2>8, <2>9, <2>12
       DEF ReportIsCurrent, IInv, DataInv, Missing, evidenceVars
  <2>15. SuccessIsComplete'
    BY <1>2, <2>5, <2>6, <2>9, <2>12
       DEF SuccessIsComplete, IInv, DataInv, Missing, evidenceVars
  <2>16. WorkerInv'
    BY <1>1, <1>2, <1>3, <2>5, <2>9, NamesDiffer, WorkerKeeps DEF Others, Same
  <2>17. answers \subseteq answers' /\ objects \subseteq objects' /\ preference' = preference
         /\ Len(tasks) <= Len(tasks')
    BY <1>2, <2>2, <2>5 DEF evidenceVars
  <2>18. DataInv'
    BY <2>13, <2>14, <2>15 DEF DataInv
  <2> QED
    BY <1>1, <1>2, <1>3, <1>4, <2>10, <2>16, <2>17, <2>18, Together
<1> QED
  BY <1>5, <1>6

\* A preference withdraws every report while nobody else can write one.
LEMMA SavePreferenceKeeps ==
  ASSUME IInv, NEW c \in Clients, SavePreference(c)
  PROVE  IInv'
<1>1. c \in Actors /\ c # "worker" /\ pc[c] = "save" /\ ActorInv(c)
  BY NamesDiffer DEF SavePreference, IInv
<1>2. claim = c /\ cur[c] \in Attempts /\ Missing = {} /\ held[c] \in Reviews
  BY <1>1 DEF ActorInv, Holding, Asking
<1>3. UNCHANGED <<tasks, evidenceVars, dockerVars>> /\ faults' \in 0..MaxFaults
      /\ preference' = [preference EXCEPT ![held[c][1]] = held[c][2]]
      /\ report' = [t \in Attempts |-> <<>>] /\ Goto(c, "view")
  BY DEF SavePreference, IInv
<1>4. ProcTypes' /\ Others(c) /\ pc'[c] = "view" /\ UNCHANGED <<claim, cur, held>>
  BY <1>1, <1>3, GotoMoves DEF Steps, ClientSteps, Asking
<1>5. TaskTypes' /\ Attempts' = Attempts /\ Len(tasks) <= Len(tasks')
  BY <1>3, TasksStay
<1>6. Len(tasks) \in Nat /\ Attempts = 1..Len(tasks)
  BY DEF IInv, DataTypes, TaskTypes, Attempts
<1>7. report' \in Seq(Views \cup {<<>>}) /\ Len(report') = Len(tasks)
      /\ \A t \in Attempts : report'[t] = <<>>
  <2>1. report' = [t \in 1..Len(tasks) |-> <<>>]
    BY <1>3, <1>6
  <2>2. \A t \in 1..Len(tasks) : <<>> \in Views \cup {<<>>}
    OBVIOUS
  <2> QED
    BY <1>6, <2>1, <2>2
<1>8. preference' \in Views
  <2>1. held[c][1] \in Prompts /\ held[c][2] \in Preferences \cup {"unreviewed"}
    BY <1>2 DEF Reviews
  <2> QED
    BY <1>3, <2>1 DEF IInv, DataTypes, EvidenceTypes, Views
<1>9. DataTypes'
  <2>1. ReportTypes' /\ EvidenceTypes'
    BY <1>3, <1>7, <1>8 DEF IInv, DataTypes, ReportTypes, EvidenceTypes, evidenceVars
  <2>2. DockerTypes'
    BY <1>3, <1>5, DockerKeeps
  <2> QED
    BY <1>5, <2>1, <2>2 DEF DataTypes
<1>10. DataInv'
  BY <1>3, <1>5, <1>7 DEF IInv, DataInv, OneAttemptAtATime, ReportIsCurrent, SuccessIsComplete,
                          Missing, evidenceVars
<1>11. Missing' = {} /\ answers \subseteq answers' /\ objects \subseteq objects'
  BY <1>2, <1>3 DEF Missing, evidenceVars
<1>12. ActorInv(c)'
  BY <1>1, <1>2, <1>4, <1>5, <1>11
     DEF ActorInv, ClientSteps, Asking, Working, Generates, Holding
<1>13. WorkerInv'
  BY <1>1, <1>3, <1>4, <1>5, NamesDiffer, WorkerKeeps DEF Others, Same
<1> QED
  BY <1>1, <1>2, <1>3, <1>4, <1>5, <1>9, <1>10, <1>11, <1>12, <1>13, Together

-----------------------------------------------------------------------------
(* The report, for a request or at the end of an attempt.                  *)

\* A step of the worker or of a request that leaves the database and the containers alone:
\* it must not turn a cleared step into one of an attempt's own.
LEMMA MovesOnly ==
  ASSUME IInv, NEW a \in Actors, Others(a), ProcTypes', faults' \in 0..MaxFaults,
         UNCHANGED <<tasks, report, evidenceVars, preference, dockerVars>>,
         claim' = claim \/ claim = "nobody" \/ claim = a, ActorInv(a)',
         a = "worker" => WorkerInv'
  PROVE  IInv'
<1>1. CASE a = "worker"
  <2>1. Attempts' = Attempts
    BY DEF Attempts
  <2>2. DockerTypes'
    BY <2>1, DockerKeeps
  <2>3. DataTypes' /\ DataInv' /\ answers \subseteq answers' /\ objects \subseteq objects'
        /\ Len(tasks) <= Len(tasks') /\ preference' = preference
    BY <2>2, DataKeeps
  <2> QED
    BY <1>1, <2>3, Together
<1>2. CASE a # "worker"
  <2>1. a \in Clients
    BY <1>2 DEF Actors
  <2> QED
    BY <2>1, RequestMoves
<1> QED
  BY <1>1, <1>2

\* The steps of a report, also for the worker, whose container is long gone.
Reporting == {"view", "write", "point"}

LEMMA ReporterSteps ==
  ASSUME IInv, NEW a \in Actors, pc[a] \in Reporting
  PROVE  /\ claim = a /\ Missing = {} /\ cur[a] \in Attempts
         /\ pc[a] \in {"write", "point"} => held[a] = preference
         /\ a = "worker" => \A t \in containers \ abandoned :
                              tasks[t] = "RUNNING" /\ t # cur["worker"]
BY DEF IInv, ActorInv, WorkerInv, Reporting, Holding, Asking, Cleared

\* The worker's attempt has no container, so the worker may go on.
LEMMA ClearedFits ==
  ASSUME IInv, \A t \in containers \ abandoned : tasks[t] = "RUNNING" /\ t # cur["worker"],
         UNCHANGED <<tasks, dockerVars>>, cur'["worker"] = cur["worker"],
         pc'["worker"] \notin Working
  PROVE  WorkerInv'
BY DEF WorkerInv, dockerVars

LEMMA FailsFits ==
  ASSUME IInv, NEW a \in Actors, Fails(a), claim = a, cur[a] \in Attempts, 
         UNCHANGED <<tasks, report, evidenceVars, preference, dockerVars>>,
         faults' \in 0..MaxFaults,
         a = "worker" => \A t \in containers \ abandoned :
                           tasks[t] = "RUNNING" /\ t # cur["worker"]
  PROVE  IInv'
<1>1. CASE a = "worker"
  <2>1. Goto(a, "fail")
    BY <1>1 DEF Fails
  <2>2. ProcTypes' /\ Others(a) /\ pc'[a] = "fail" /\ UNCHANGED <<claim, cur, held>>
    BY <2>1, GotoMoves DEF Steps, WorkerSteps
  <2>3. Attempts' = Attempts
    BY DEF Attempts
  <2>4. ActorInv(a)'
    BY <1>1, <2>2, <2>3 DEF ActorInv, WorkerSteps, Asking, Working, Generates, Holding
  <2>5. WorkerInv'
    BY <1>1, <2>2, ClearedFits DEF Working
  <2> QED
    BY <2>2, <2>4, <2>5, MovesOnly
<1>2. CASE a # "worker"
  <2>1. Leave(a)
    BY <1>2 DEF Fails
  <2>2. ProcTypes' /\ Others(a) /\ pc'[a] = "idle"
        /\ claim' = IF claim = a THEN "nobody" ELSE claim
    BY <2>1, LeaveMoves
  <2>3. ActorInv(a)'
    BY <2>2, IdleFits
  <2> QED
    BY <1>2, <2>2, <2>3, MovesOnly
<1> QED
  BY <1>1, <1>2

LEMMA ViewKeeps ==
  ASSUME IInv, NEW a \in Actors, View(a)
  PROVE  IInv'
<1>1. pc[a] = "view" /\ UNCHANGED <<tasks, report, evidenceVars, preference, dockerVars>>
  BY DEF View, Generating, InDatabase, evidenceVars
<1>2. /\ claim = a /\ Missing = {} /\ cur[a] \in Attempts
      /\ a = "worker" => \A t \in containers \ abandoned : tasks[t] = "RUNNING" /\ t # cur["worker"]
  BY <1>1, ReporterSteps DEF Reporting
<1>3. CASE Carry(a, "write", preference) /\ Calm
  <2>1. preference \in Things /\ faults' \in 0..MaxFaults
    BY <1>3 DEF IInv, DataTypes, EvidenceTypes, Things, Calm
  <2>2. ProcTypes' /\ Others(a) /\ pc'[a] = "write" /\ held'[a] = preference
        /\ UNCHANGED <<claim, cur>>
    BY <1>3, <2>1, CarryMoves DEF Steps, WorkerSteps
  <2>3. Missing' = {} /\ Attempts' = Attempts
    BY <1>1, <1>2 DEF Missing, evidenceVars, Attempts
  <2>4. ActorInv(a)'
    BY <1>1, <1>2, <2>2, <2>3
       DEF ActorInv, ClientSteps, WorkerSteps, Asking, Working, Generates, Holding
  <2>5. a = "worker" => WorkerInv'
    BY <1>1, <1>2, <2>2, ClearedFits DEF Working
  <2> QED
    BY <1>1, <2>1, <2>2, <2>4, <2>5, MovesOnly
<1>4. CASE Fault("store") /\ Fails(a)
  <2>1. faults' \in 0..MaxFaults
    BY <1>4, CalmKeeps DEF Fault
  <2> QED
    BY <1>1, <1>2, <1>4, <2>1, FailsFits
<1> QED
  BY <1>3, <1>4 DEF View

LEMMA WriteReportKeeps ==
  ASSUME IInv, NEW a \in Actors, WriteReport(a)
  PROVE  IInv'
<1>1. pc[a] = "write" /\ UNCHANGED <<tasks, report, evidenceVars, preference, dockerVars>>
  BY DEF WriteReport, Generating, InDatabase, evidenceVars
<1>2. /\ claim = a /\ Missing = {} /\ cur[a] \in Attempts /\ held[a] = preference
      /\ a = "worker" => \A t \in containers \ abandoned : tasks[t] = "RUNNING" /\ t # cur["worker"]
  BY <1>1, ReporterSteps DEF Reporting
<1>3. CASE Goto(a, "point") /\ Calm
  <2>1. faults' \in 0..MaxFaults
    BY <1>3 DEF IInv, Calm
  <2>2. ProcTypes' /\ Others(a) /\ pc'[a] = "point" /\ UNCHANGED <<claim, cur, held>>
    BY <1>3, GotoMoves DEF Steps, WorkerSteps
  <2>3. Missing' = {} /\ Attempts' = Attempts
    BY <1>1, <1>2 DEF Missing, evidenceVars, Attempts
  <2>4. ActorInv(a)'
    BY <1>1, <1>2, <2>2, <2>3
       DEF ActorInv, ClientSteps, WorkerSteps, Asking, Working, Generates, Holding
  <2>5. a = "worker" => WorkerInv'
    BY <1>1, <1>2, <2>2, ClearedFits DEF Working
  <2> QED
    BY <1>1, <2>1, <2>2, <2>4, <2>5, MovesOnly
<1>4. CASE Fault("store") /\ Fails(a)
  <2>1. faults' \in 0..MaxFaults
    BY <1>4, CalmKeeps DEF Fault
  <2> QED
    BY <1>1, <1>2, <1>4, <2>1, FailsFits
<1> QED
  BY <1>3, <1>4 DEF WriteReport

\* What is written was read under the claim, so it is still what the person thinks.
LEMMA PointReportKeeps ==
  ASSUME IInv, NEW a \in Actors, PointReport(a)
  PROVE  IInv'
<1>1. pc[a] = "point" /\ Leave(a) /\ report' = [report EXCEPT ![cur[a]] = held[a]]
      /\ UNCHANGED <<tasks, evidenceVars, preference, dockerVars>> /\ faults' \in 0..MaxFaults
  BY DEF PointReport, IInv
<1>2. /\ claim = a /\ Missing = {} /\ cur[a] \in Attempts /\ held[a] = preference
      /\ a = "worker" => \A t \in containers \ abandoned : tasks[t] = "RUNNING" /\ t # cur["worker"]
  BY <1>1, ReporterSteps DEF Reporting
<1>3. ProcTypes' /\ Others(a) /\ pc'[a] = "idle"
      /\ claim' = IF claim = a THEN "nobody" ELSE claim
  BY <1>1, LeaveMoves
<1>4. TaskTypes' /\ Attempts' = Attempts /\ Len(tasks) <= Len(tasks')
  BY <1>1, TasksStay
<1>5. report' \in Seq(Views \cup {<<>>}) /\ Len(report') = Len(tasks)
      /\ \A t \in Attempts : report'[t] = IF t = cur[a] THEN preference ELSE report[t]
  <2>1. report \in Seq(Views \cup {<<>>}) /\ Len(report) = Len(tasks)
        /\ preference \in Views \cup {<<>>} /\ Len(tasks) \in Nat
    BY DEF IInv, DataTypes, TaskTypes, ReportTypes, EvidenceTypes
  <2> QED
    BY <1>1, <1>2, <2>1 DEF Attempts
<1>6. DataTypes'
  <2>1. ReportTypes' /\ EvidenceTypes'
    BY <1>1, <1>5 DEF IInv, DataTypes, ReportTypes, EvidenceTypes, evidenceVars
  <2>2. DockerTypes'
    BY <1>1, <1>4, DockerKeeps
  <2> QED
    BY <1>4, <2>1, <2>2 DEF DataTypes
<1>7. Missing' = {} /\ answers \subseteq answers' /\ objects \subseteq objects'
  BY <1>1, <1>2 DEF Missing, evidenceVars
<1>8. DataInv'
  <2>1. OneAttemptAtATime' /\ SuccessIsComplete'
    BY <1>1, <1>4 DEF IInv, DataInv, OneAttemptAtATime, SuccessIsComplete, Missing, evidenceVars
  <2>2. ReportIsCurrent'
    BY <1>1, <1>4, <1>5, <1>7 DEF IInv, DataInv, ReportIsCurrent
  <2> QED
    BY <2>1, <2>2 DEF DataInv
<1>9. ActorInv(a)'
  BY <1>3, IdleFits
<1>10. WorkerInv'
  <2>1. CASE a = "worker"
    BY <1>1, <1>2, <1>3, <2>1 DEF WorkerInv, Cleared, Working, dockerVars
  <2>2. CASE a # "worker"
    BY <1>1, <1>3, <1>4, <2>2, NamesDiffer, WorkerKeeps DEF Others, Same
  <2> QED
    BY <2>1, <2>2
<1>11. preference' = preference
  BY <1>1
<1> QED
  BY <1>1, <1>3, <1>4, <1>6, <1>7, <1>8, <1>9, <1>10, <1>11, Together

-----------------------------------------------------------------------------
(* The worker.                                                             *)

\* The worker's claim keeps other hands from its attempt.
LEMMA WorkerHolds ==
  ASSUME IInv, pc["worker"] \in Working \cup {"fail"}
  PROVE  /\ "worker" \in Actors /\ ActorInv("worker")
         /\ claim = "worker" /\ cur["worker"] \in Attempts
         /\ pc["worker"] \in Working => tasks[cur["worker"]] = "RUNNING"
BY NamesDiffer DEF IInv, ActorInv, WorkerInv, Holding

\* A step of the worker that changes the status of its attempt at most.
LEMMA StatusMoves ==
  ASSUME IInv, Others("worker"), ProcTypes', faults' \in 0..MaxFaults,
         NEW t \in Attempts, NEW s \in Active \cup Over, Becomes(t, s),
         tasks[t] \in Active \/ s \notin Active, s = "SUCCEEDED" => Missing = {},
         UNCHANGED <<report, evidenceVars, preference>>, DockerTypes',
         claim' = claim \/ claim = "nobody" \/ claim = "worker", ActorInv("worker")', WorkerInv'
  PROVE  IInv'
<1>1. TaskTypes' /\ Attempts' = Attempts /\ Len(tasks') = Len(tasks)
      /\ \A u \in Attempts : tasks'[u] = IF u = t THEN s ELSE tasks[u]
  BY BecomesOnly
<1>2. DataTypes'
  BY <1>1 DEF IInv, DataTypes, ReportTypes, EvidenceTypes, evidenceVars
<1>3. OneAttemptAtATime'
  BY <1>1 DEF IInv, DataInv, OneAttemptAtATime
<1>4. Missing' = Missing
  BY DEF Missing, evidenceVars
<1>5. ReportIsCurrent'
  BY <1>1, <1>4 DEF IInv, DataInv, ReportIsCurrent
<1>6. SuccessIsComplete'
  BY <1>1, <1>4 DEF IInv, DataInv, SuccessIsComplete, evidenceVars
<1>7. answers \subseteq answers' /\ objects \subseteq objects' /\ preference' = preference
      /\ Len(tasks) <= Len(tasks')
  BY <1>1 DEF IInv, DataTypes, TaskTypes, evidenceVars
<1>8. DataInv'
  BY <1>3, <1>5, <1>6 DEF DataInv
<1> QED
  BY <1>2, <1>7, <1>8, NamesDiffer, Together

LEMMA TakeKeeps ==
  ASSUME IInv, Take
  PROVE  IInv'
<1>1. "worker" \in Actors /\ pc["worker"] = "idle" /\ claim = "nobody" /\ claim' = "worker"
      /\ UNCHANGED <<report, evidenceVars, preference, dockerVars, held>>
      /\ faults' \in 0..MaxFaults
  BY NamesDiffer DEF Take, IInv
<1>2. PICK t \in Attempts :
        /\ tasks[t] \in Active /\ cur' = [cur EXCEPT !["worker"] = t]
        /\ \/ /\ tasks[t] = "QUEUED" /\ Becomes(t, "RUNNING")
              /\ pc' = [pc EXCEPT !["worker"] = "prepare"]
           \/ /\ tasks[t] = "RUNNING" /\ UNCHANGED tasks
              /\ pc' = [pc EXCEPT !["worker"] = "recover"]
  BY DEF Take
<1>3. t \in 0..MaxAttempts
  BY BoundsAssumption DEF IInv, DataTypes, TaskTypes, Attempts
<1>4. Others("worker") /\ ProcTypes' /\ pc'["worker"] \in {"prepare", "recover"}
      /\ cur'["worker"] = t
  BY <1>1, <1>2, <1>3 DEF IInv, ProcTypes, Others, Same, Steps, WorkerSteps, Working
<1>5. \A u \in containers \ abandoned : u \in Attempts /\ tasks[u] = "RUNNING"
  BY DEF IInv, WorkerInv, DataTypes, DockerTypes
<1>6. CASE tasks[t] = "QUEUED" /\ Becomes(t, "RUNNING") /\ pc' = [pc EXCEPT !["worker"] = "prepare"]
  <2>1. Attempts' = Attempts
        /\ \A u \in Attempts : tasks'[u] = IF u = t THEN "RUNNING" ELSE tasks[u]
    BY <1>6, BecomesOnly DEF Active
  <2>2. pc'["worker"] = "prepare"
    BY <1>1, <1>6 DEF IInv, ProcTypes
  <2>3. ActorInv("worker")'
    BY <1>1, <1>2, <1>4, <2>1, <2>2
       DEF ActorInv, WorkerSteps, Working, Asking, Generates
  <2>4. t \notin containers \ abandoned
    BY <1>5, <1>6
  <2>5. WorkerInv'
    BY <1>1, <1>4, <1>5, <2>1, <2>2, <2>4 DEF WorkerInv, dockerVars
  <2>6. DockerTypes'
    BY <1>1, <2>1, DockerKeeps
  <2>7. "RUNNING" \in Active \cup Over /\ tasks[t] \in Active
    BY <1>6 DEF Active
  <2> QED
    BY <1>1, <1>4, <1>6, <2>3, <2>5, <2>6, <2>7, StatusMoves DEF Active
<1>7. CASE tasks[t] = "RUNNING" /\ UNCHANGED tasks /\ pc' = [pc EXCEPT !["worker"] = "recover"]
  <2>1. pc'["worker"] = "recover" /\ Attempts' = Attempts
    BY <1>1, <1>7 DEF IInv, ProcTypes, Attempts
  <2>2. ActorInv("worker")'
    BY <1>1, <1>2, <1>4, <2>1 DEF ActorInv, WorkerSteps, Working, Asking, Generates
  <2>3. WorkerInv'
    BY <1>1, <1>4, <1>5, <1>7, <2>1 DEF WorkerInv, dockerVars, Cleared
  <2> QED
    BY <1>1, <1>4, <1>7, <2>2, <2>3, MovesOnly
<1> QED
  BY <1>2, <1>6, <1>7

\* A step of the worker that touches its container at most.
LEMMA ContainerMoves ==
  ASSUME IInv, Others("worker"), ProcTypes', faults' \in 0..MaxFaults,
         UNCHANGED <<tasks, report, evidenceVars, preference>>, DockerTypes',
         claim' = claim \/ claim = "nobody" \/ claim = "worker", ActorInv("worker")', WorkerInv'
  PROVE  IInv'
<1>1. DataTypes' /\ DataInv' /\ answers \subseteq answers' /\ objects \subseteq objects'
      /\ Len(tasks) <= Len(tasks') /\ preference' = preference
  BY DataKeeps
<1> QED
  BY <1>1, NamesDiffer, Together

LEMMA Running ==
  ASSUME IInv, NEW t \in containers \ abandoned
  PROVE  /\ t \in Attempts /\ tasks[t] = "RUNNING"
         /\ pc["worker"] \in Cleared => t # cur["worker"]
BY DEF IInv, WorkerInv, DataTypes, DockerTypes

LEMMA RecoverKeeps ==
  ASSUME IInv, Recover
  PROVE  IInv'
<1>1. pc["worker"] = "recover" /\ Leave("worker")
      /\ UNCHANGED <<report, evidenceVars, preference, abandoned>>
  BY DEF Recover
<1>2. "worker" \in Actors /\ claim = "worker" /\ cur["worker"] \in Attempts
      /\ tasks[cur["worker"]] = "RUNNING"
  BY <1>1, WorkerHolds DEF Working
<1>3. ProcTypes' /\ Others("worker") /\ pc'["worker"] = "idle"
      /\ claim' = IF claim = "worker" THEN "nobody" ELSE claim
  BY <1>1, <1>2, LeaveMoves
<1>4. ActorInv("worker")'
  BY <1>3, IdleFits
<1>5. CASE containers' = containers \ {cur["worker"]} /\ Becomes(cur["worker"], "FAILED") /\ Calm
  <2>1. "FAILED" \in Active \cup Over /\ "FAILED" # "SUCCEEDED"
    BY DEF Over
  <2>2. Attempts' = Attempts
        /\ \A u \in Attempts : tasks'[u] = IF u = cur["worker"] THEN "FAILED" ELSE tasks[u]
    BY <1>2, <1>5, <2>1, BecomesOnly
  <2>3. DockerTypes'
    BY <1>1, <1>5, <2>2 DEF IInv, DataTypes, DockerTypes
  <2>4. \A t \in containers' \ abandoned' : tasks'[t] = "RUNNING"
    BY <1>1, <1>5, <2>2, Running
  <2>5. WorkerInv'
    BY <1>3, <2>4 DEF WorkerInv, Working, Cleared
  <2>6. faults' \in 0..MaxFaults
    BY <1>5, CalmKeeps DEF Calm
  <2>7. tasks[cur["worker"]] \in Active
    BY <1>2 DEF Active
  <2> QED
    BY <1>1, <1>2, <1>3, <1>4, <1>5, <2>1, <2>3, <2>5, <2>6, <2>7, StatusMoves
<1>6. CASE Fault("docker") /\ UNCHANGED <<containers, tasks>>
  <2>1. UNCHANGED <<tasks, report, evidenceVars, preference, dockerVars>>
    BY <1>1, <1>6 DEF dockerVars
  <2>2. faults' \in 0..MaxFaults
    BY <1>6, CalmKeeps DEF Fault
  <2>3. WorkerInv'
    BY <1>3, <2>1, Running DEF WorkerInv, Working, Cleared, dockerVars
  <2> QED
    BY <1>2, <1>3, <1>4, <2>1, <2>2, <2>3, MovesOnly
<1> QED
  BY <1>5, <1>6 DEF Recover

\* A step of the worker that goes on with its attempt, touching nothing else.
LEMMA WorkerGoes ==
  ASSUME IInv, pc["worker"] \in Working, NEW step \in Working \cup {"fail"},
         Goto("worker", step), faults' \in 0..MaxFaults,
         UNCHANGED <<tasks, report, evidenceVars, preference, dockerVars>>,
         step = "succeed" => Missing = {},
         step \in Generates => held["worker"] \in Pairs,
         step = "answer" => held["worker"] \in objects,
         step \in Cleared => \A t \in containers \ abandoned : t # cur["worker"]
  PROVE  IInv'
<1>1. "worker" \in Actors /\ claim = "worker" /\ cur["worker"] \in Attempts
      /\ tasks[cur["worker"]] = "RUNNING"
  BY WorkerHolds
<1>2. ProcTypes' /\ Others("worker") /\ pc'["worker"] = step /\ UNCHANGED <<claim, cur, held>>
  BY <1>1, GotoMoves DEF Steps, WorkerSteps
<1>3. Missing' = Missing /\ objects' = objects /\ Attempts' = Attempts
  BY DEF Missing, evidenceVars, Attempts
<1>4. ActorInv("worker")'
  BY <1>1, <1>2, <1>3 DEF ActorInv, WorkerSteps, Working, Asking
<1>5. WorkerInv'
  BY <1>1, <1>2, Running DEF WorkerInv, dockerVars
<1> QED
  BY <1>1, <1>2, <1>4, <1>5, MovesOnly

LEMMA PrepareKeeps ==
  ASSUME IInv, Prepare
  PROVE  IInv'
<1>1. pc["worker"] = "prepare" /\ UNCHANGED <<tasks, report, evidenceVars, preference, dockerVars>>
  BY DEF Prepare, Generating, InDatabase, evidenceVars
<1>2. \A t \in containers \ abandoned : t # cur["worker"]
  BY <1>1, Running DEF Cleared
<1>3. CASE Goto("worker", IF Outstanding = {} THEN "succeed" ELSE "generate") /\ Calm
  <2> DEFINE step == IF Outstanding = {} THEN "succeed" ELSE "generate"
  <2>1. step \in Working \cup {"fail"} /\ step \notin Generates /\ step # "answer"
        /\ (step = "succeed" => Missing = {})
    BY DEF Working, Generates, Outstanding
  <2>2. Goto("worker", step) /\ faults' \in 0..MaxFaults
    BY <1>3, CalmKeeps DEF Calm
  <2>3. pc["worker"] \in Working
    BY <1>1 DEF Working
  <2> HIDE DEF step
  <2> QED
    BY <1>1, <1>2, <2>1, <2>2, <2>3, WorkerGoes
<1>4. CASE Fault("work") /\ Goto("worker", "fail")
  <2>1. pc["worker"] \in Working /\ "fail" \in Working \cup {"fail"} /\ "fail" \notin Generates
    BY <1>1 DEF Working, Generates
  <2>2. faults' \in 0..MaxFaults
    BY <1>4, CalmKeeps DEF Fault
  <2> QED
    BY <1>1, <1>2, <1>4, <2>1, <2>2, WorkerGoes
<1> QED
  BY <1>3, <1>4 DEF Prepare

LEMMA StartContainerKeeps ==
  ASSUME IInv, StartContainer
  PROVE  IInv'
<1>1. pc["worker"] = "generate" /\ UNCHANGED <<tasks, report, evidenceVars, preference, abandoned>>
  BY DEF StartContainer, Generating
<1>2. "worker" \in Actors /\ claim = "worker" /\ cur["worker"] \in Attempts
      /\ tasks[cur["worker"]] = "RUNNING"
  BY <1>1, WorkerHolds DEF Working
<1>3. PICK x \in Outstanding, step \in {"await", "quit"} :
        /\ Carry("worker", step, x)
        /\ containers' = containers \/ containers' = containers \cup {cur["worker"]}
        /\ Calm \/ Fault("docker")
  BY DEF StartContainer
<1>4. x \in Pairs /\ x \in Things /\ step \in Steps
  BY DEF Outstanding, Missing, Things, Steps, WorkerSteps, Working
<1>5. ProcTypes' /\ Others("worker") /\ pc'["worker"] = step /\ held'["worker"] = x
      /\ UNCHANGED <<claim, cur>>
  BY <1>2, <1>3, <1>4, CarryMoves
<1>6. faults' \in 0..MaxFaults
  BY <1>3, CalmKeeps DEF Calm, Fault
<1>7. Attempts' = Attempts
  BY <1>1 DEF Attempts
<1>8. DockerTypes'
  BY <1>1, <1>2, <1>3, <1>7 DEF IInv, DataTypes, DockerTypes
<1>9. ActorInv("worker")'
  BY <1>2, <1>4, <1>5, <1>7 DEF ActorInv, WorkerSteps, Working, Asking, Holding
<1>10. \A t \in containers' \ abandoned' : tasks'[t] = "RUNNING"
  BY <1>1, <1>2, <1>3, Running
<1>11. WorkerInv'
  BY <1>1, <1>2, <1>5, <1>10 DEF WorkerInv, Cleared
<1> QED
  BY <1>1, <1>5, <1>6, <1>8, <1>9, <1>11, ContainerMoves

LEMMA AwaitAnswerKeeps ==
  ASSUME IInv, AwaitAnswer
  PROVE  IInv'
<1>1. pc["worker"] = "await" /\ UNCHANGED <<tasks, report, evidenceVars, preference, dockerVars>>
  BY DEF AwaitAnswer, Generating, InDatabase, evidenceVars
<1>2. PICK step \in {"stop", "quit"} : Goto("worker", step) /\ (Calm \/ \E f \in FaultKinds : Fault(f))
  BY DEF AwaitAnswer, RunnerFails, Fault
<1>3. faults' \in 0..MaxFaults
  BY <1>2, CalmKeeps DEF Calm
<1>4. pc["worker"] \in Working /\ step \in Working \cup {"fail"} /\ step \notin Cleared
      /\ step # "answer" /\ step # "succeed"
  BY <1>1 DEF Working, Cleared
<1>5. held["worker"] \in Pairs
  BY <1>1, WorkerHolds DEF ActorInv, Working, Generates
<1> QED
  BY <1>1, <1>2, <1>3, <1>4, <1>5, WorkerGoes

LEMMA StopContainerKeeps ==
  ASSUME IInv, StopContainer
  PROVE  IInv'
<1>1. pc["worker"] \in {"stop", "quit"} /\ UNCHANGED <<tasks, report, evidenceVars, preference>>
  BY DEF StopContainer, Generating
<1>2. "worker" \in Actors /\ claim = "worker" /\ cur["worker"] \in Attempts
      /\ tasks[cur["worker"]] = "RUNNING" /\ held["worker"] \in Pairs
  BY <1>1, WorkerHolds DEF Working, ActorInv, Generates
<1>3. PICK step \in {"store", "fail"} :
        /\ Goto("worker", step)
        /\ \/ containers' = containers \ {cur["worker"]} /\ UNCHANGED abandoned
           \/ UNCHANGED containers /\ abandoned' = abandoned \cup {cur["worker"]}
        /\ Calm \/ Fault("docker")
  BY DEF StopContainer
<1>4. step \in Steps
  BY DEF Steps, WorkerSteps, Working
<1>5. ProcTypes' /\ Others("worker") /\ pc'["worker"] = step /\ UNCHANGED <<claim, cur, held>>
  BY <1>2, <1>3, <1>4, GotoMoves
<1>6. faults' \in 0..MaxFaults
  BY <1>3, CalmKeeps DEF Calm, Fault
<1>7. Attempts' = Attempts
  BY <1>1 DEF Attempts
<1>8. DockerTypes'
  BY <1>2, <1>3, <1>7 DEF IInv, DataTypes, DockerTypes
<1>9. ActorInv("worker")'
  BY <1>2, <1>5, <1>7 DEF ActorInv, WorkerSteps, Working, Asking, Holding
<1>10. \A t \in containers' \ abandoned' : t \in containers \ abandoned /\ t # cur["worker"]
  BY <1>3
<1>11. WorkerInv'
  BY <1>1, <1>2, <1>5, <1>10, Running DEF WorkerInv
<1> QED
  BY <1>1, <1>5, <1>6, <1>8, <1>9, <1>11, ContainerMoves

LEMMA StoreAnswerKeeps ==
  ASSUME IInv, StoreAnswer
  PROVE  IInv'
<1>1. pc["worker"] = "store" /\ UNCHANGED <<tasks, report, preference, answers, dockerVars>>
  BY DEF StoreAnswer, Generating
<1>2. "worker" \in Actors /\ claim = "worker" /\ cur["worker"] \in Attempts
      /\ tasks[cur["worker"]] = "RUNNING" /\ held["worker"] \in Pairs
  BY <1>1, WorkerHolds DEF Working, ActorInv, Generates
<1>3. \A t \in containers \ abandoned : t # cur["worker"]
  BY <1>1, Running DEF Cleared
<1>4. CASE objects' = objects \cup {held["worker"]} /\ Goto("worker", "answer") /\ Calm
  <2>1. ProcTypes' /\ Others("worker") /\ pc'["worker"] = "answer" /\ UNCHANGED <<claim, cur, held>>
    BY <1>2, <1>4, GotoMoves DEF Steps, WorkerSteps, Working
  <2>2. faults' \in 0..MaxFaults
    BY <1>4, CalmKeeps DEF Calm
  <2>3. TaskTypes' /\ Attempts' = Attempts /\ Len(tasks) <= Len(tasks')
    BY <1>1, TasksStay
  <2>4. DataTypes'
    <3>1. ReportTypes' /\ EvidenceTypes'
      BY <1>1, <1>2, <1>4 DEF IInv, DataTypes, ReportTypes, EvidenceTypes
    <3>2. DockerTypes'
      BY <1>1, <2>3, DockerKeeps
    <3> QED
      BY <2>3, <3>1, <3>2 DEF DataTypes
  <2>5. DataInv'
    BY <1>1, <1>4, <2>3 DEF IInv, DataInv, OneAttemptAtATime, ReportIsCurrent,
                            SuccessIsComplete, Missing
  <2>6. ActorInv("worker")'
    BY <1>2, <1>4, <2>1, <2>3 DEF ActorInv, WorkerSteps, Working, Asking, Holding
  <2>7. WorkerInv'
    BY <1>1, <1>2, <1>3, <2>1, Running DEF WorkerInv, dockerVars
  <2>8. answers \subseteq answers' /\ objects \subseteq objects' /\ preference' = preference
    BY <1>1, <1>4
  <2> QED
    BY <1>2, <2>1, <2>2, <2>3, <2>4, <2>5, <2>6, <2>7, <2>8, Together
<1>5. CASE Fault("store") /\ Goto("worker", "fail") /\ UNCHANGED objects
  <2>1. pc["worker"] \in Working /\ "fail" \in Working \cup {"fail"} /\ "fail" \notin Generates
    BY <1>1 DEF Working, Generates
  <2>2. faults' \in 0..MaxFaults
    BY <1>5, CalmKeeps DEF Fault
  <2>3. UNCHANGED <<tasks, report, evidenceVars, preference, dockerVars>>
    BY <1>1, <1>5 DEF evidenceVars
  <2> QED
    BY <1>3, <1>5, <2>1, <2>2, <2>3, WorkerGoes
<1> QED
  BY <1>4, <1>5 DEF StoreAnswer

\* The answer that is registered is in the store, and the attempt succeeds after the last.
LEMMA CommitAnswerKeeps ==
  ASSUME IInv, CommitAnswer
  PROVE  IInv'
<1> DEFINE step == IF Outstanding \ {held["worker"]} = {} THEN "succeed" ELSE "generate"
<1>1. pc["worker"] = "answer" /\ UNCHANGED <<tasks, report, preference, objects, dockerVars>>
      /\ Goto("worker", step) /\ answers' = answers \cup {held["worker"]} /\ Calm
  BY DEF CommitAnswer, Generating, InDatabase
<1>2. "worker" \in Actors /\ claim = "worker" /\ cur["worker"] \in Attempts
      /\ tasks[cur["worker"]] = "RUNNING" /\ held["worker"] \in Pairs /\ held["worker"] \in objects
  BY <1>1, WorkerHolds DEF Working, ActorInv, Generates
<1>3. \A t \in containers \ abandoned : t # cur["worker"]
  BY <1>1, Running DEF Cleared
<1>4. step \in {"succeed", "generate"} /\ step \in Steps
  BY DEF Steps, WorkerSteps, Working
<1>5. Missing' \subseteq Missing /\ (step = "succeed" => Missing' = {})
  BY <1>1 DEF Missing, Outstanding
<1> HIDE DEF step
<1>6. ProcTypes' /\ Others("worker") /\ pc'["worker"] = step /\ UNCHANGED <<claim, cur, held>>
  BY <1>1, <1>2, <1>4, GotoMoves
<1>7. faults' \in 0..MaxFaults
  BY <1>1, CalmKeeps DEF Calm
<1>8. TaskTypes' /\ Attempts' = Attempts /\ Len(tasks) <= Len(tasks')
  BY <1>1, TasksStay
<1>9. DataTypes'
  <2>1. ReportTypes' /\ EvidenceTypes'
    BY <1>1, <1>2 DEF IInv, DataTypes, ReportTypes, EvidenceTypes
  <2>2. DockerTypes'
    BY <1>1, <1>8, DockerKeeps
  <2> QED
    BY <1>8, <2>1, <2>2 DEF DataTypes
<1>10. DataInv'
  <2>1. OneAttemptAtATime' /\ ReportIsCurrent'
    BY <1>1, <1>5, <1>8 DEF IInv, DataInv, OneAttemptAtATime, ReportIsCurrent
  <2>2. SuccessIsComplete'
    BY <1>1, <1>2, <1>5, <1>8 DEF IInv, DataInv, SuccessIsComplete
  <2> QED
    BY <2>1, <2>2 DEF DataInv
<1>11. ActorInv("worker")'
  BY <1>2, <1>4, <1>5, <1>6, <1>8 DEF ActorInv, WorkerSteps, Working, Asking, Holding, Generates
<1>12. WorkerInv'
  BY <1>1, <1>2, <1>3, <1>6, Running DEF WorkerInv, dockerVars
<1>13. answers \subseteq answers' /\ objects \subseteq objects' /\ preference' = preference
  BY <1>1
<1> QED
  BY <1>2, <1>6, <1>7, <1>8, <1>9, <1>10, <1>11, <1>12, <1>13, Together

LEMMA SucceedKeeps ==
  ASSUME IInv, Succeed
  PROVE  IInv'
<1>1. pc["worker"] = "succeed" /\ Becomes(cur["worker"], "SUCCEEDED") /\ Goto("worker", "view")
      /\ UNCHANGED <<report, evidenceVars, preference, dockerVars>> /\ faults' \in 0..MaxFaults
  BY DEF Succeed, IInv
<1>2. "worker" \in Actors /\ claim = "worker" /\ cur["worker"] \in Attempts
      /\ tasks[cur["worker"]] = "RUNNING" /\ Missing = {}
  BY <1>1, WorkerHolds DEF Working, ActorInv
<1>3. ProcTypes' /\ Others("worker") /\ pc'["worker"] = "view" /\ UNCHANGED <<claim, cur, held>>
  BY <1>1, <1>2, GotoMoves DEF Steps, WorkerSteps
<1>4. "SUCCEEDED" \in Active \cup Over /\ tasks[cur["worker"]] \in Active
  BY <1>2 DEF Active, Over
<1>5. Attempts' = Attempts
      /\ \A u \in Attempts : tasks'[u] = IF u = cur["worker"] THEN "SUCCEEDED" ELSE tasks[u]
  BY <1>1, <1>2, <1>4, BecomesOnly
<1>6. Missing' = {}
  BY <1>1, <1>2 DEF Missing, evidenceVars
<1>7. ActorInv("worker")'
  BY <1>2, <1>3, <1>5, <1>6 DEF ActorInv, WorkerSteps, Holding, Generates
<1>8. WorkerInv'
  BY <1>1, <1>3, <1>5, Running DEF WorkerInv, Working, Cleared, dockerVars
<1>9. DockerTypes'
  BY <1>1, <1>5, DockerKeeps
<1> QED
  BY <1>1, <1>2, <1>3, <1>4, <1>7, <1>8, <1>9, StatusMoves

LEMMA FailKeeps ==
  ASSUME IInv, Fail
  PROVE  IInv'
<1>1. pc["worker"] = "fail" /\ Becomes(cur["worker"], "FAILED") /\ Leave("worker")
      /\ UNCHANGED <<report, evidenceVars, preference, dockerVars>> /\ faults' \in 0..MaxFaults
  BY DEF Fail, IInv
<1>2. "worker" \in Actors /\ claim = "worker" /\ cur["worker"] \in Attempts
  BY <1>1, WorkerHolds
<1>3. ProcTypes' /\ Others("worker") /\ pc'["worker"] = "idle"
      /\ claim' = IF claim = "worker" THEN "nobody" ELSE claim
  BY <1>1, <1>2, LeaveMoves
<1>4. "FAILED" \in Active \cup Over /\ "FAILED" \notin Active /\ "FAILED" # "SUCCEEDED"
  BY DEF Active, Over
<1>5. Attempts' = Attempts
      /\ \A u \in Attempts : tasks'[u] = IF u = cur["worker"] THEN "FAILED" ELSE tasks[u]
  BY <1>1, <1>2, <1>4, BecomesOnly
<1>6. ActorInv("worker")'
  BY <1>3, IdleFits
<1>7. WorkerInv'
  BY <1>1, <1>3, <1>5, Running DEF WorkerInv, Working, Cleared, dockerVars
<1>8. DockerTypes'
  BY <1>1, <1>5, DockerKeeps
<1> QED
  BY <1>1, <1>2, <1>3, <1>4, <1>6, <1>7, <1>8, StatusMoves

\* Whoever dies gives up the claim and what it held.
LEMMA CrashKeeps ==
  ASSUME IInv, NEW a \in Actors, Crash(a)
  PROVE  IInv'
<1>1. Fault("crash") /\ Leave(a) /\ UNCHANGED <<tasks, report, evidenceVars, preference, dockerVars>>
  BY DEF Crash
<1>2. ProcTypes' /\ Others(a) /\ pc'[a] = "idle"
      /\ claim' = IF claim = a THEN "nobody" ELSE claim
  BY <1>1, LeaveMoves
<1>3. ActorInv(a)'
  BY <1>2, IdleFits
<1>4. faults' \in 0..MaxFaults
  BY <1>1, CalmKeeps DEF Fault
<1>5. a = "worker" => WorkerInv'
  BY <1>1, <1>2, Running DEF WorkerInv, Working, Cleared, dockerVars
<1> QED
  BY <1>1, <1>2, <1>3, <1>4, <1>5, MovesOnly

-----------------------------------------------------------------------------
(* The theorems.                                                           *)

LEMMA InitInv == Init => IInv
<1> SUFFICES ASSUME Init
             PROVE  IInv
  OBVIOUS
<1>1. tasks = <<>> /\ report = <<>> /\ Len(tasks) = 0 /\ Attempts = {}
  BY DEF Init, Attempts
<1>2. DataTypes
  <2>1. TaskTypes /\ ReportTypes
    BY <1>1, BoundsAssumption DEF TaskTypes, ReportTypes
  <2>2. EvidenceTypes /\ DockerTypes
    BY DEF Init, EvidenceTypes, DockerTypes, Views
  <2> QED
    BY <2>1, <2>2 DEF DataTypes
<1>3. ProcTypes /\ faults \in 0..MaxFaults
  BY BoundsAssumption DEF Init, ProcTypes, Things, Steps, ClientSteps
<1>4. DataInv
  BY <1>1 DEF Init, DataInv, OneAttemptAtATime, ReportIsCurrent, SuccessIsComplete
<1>5. \A a \in Actors : pc[a] = "idle"
  BY DEF Init
<1>6. WorkerInv
  BY <1>5, NamesDiffer DEF Init, WorkerInv, Working
<1>7. \A a \in Actors : ActorInv(a)
  BY <1>5 DEF ActorInv, Asking, Working, ClientSteps, WorkerSteps, Holding, Generates
<1> QED
  BY <1>2, <1>3, <1>4, <1>6, <1>7 DEF IInv

LEMMA FinishKeeps ==
  ASSUME IInv, NEW a \in Actors, Finish(a)
  PROVE  IInv'
BY ViewKeeps, WriteReportKeeps, PointReportKeeps DEF Finish

LEMMA NextInv == IInv /\ Next => IInv'
<1> SUFFICES ASSUME IInv, Next
             PROVE  IInv'
  OBVIOUS
<1>1. ASSUME NEW c \in Clients, BeginCreate(c) \/ Ask(c) \/ Serve(c)
      PROVE  IInv'
  BY <1>1, NamesDiffer, BeginCreateKeeps, AskKeeps, InsertTaskKeeps, BeginWriteKeeps,
     SavePreferenceKeeps, FinishKeeps DEF Serve
<1>2. CASE Take
  BY <1>2, TakeKeeps
<1>3. CASE Work
  BY <1>3, RecoverKeeps, PrepareKeeps, StartContainerKeeps, AwaitAnswerKeeps, StopContainerKeeps,
     StoreAnswerKeeps, CommitAnswerKeeps, SucceedKeeps, FailKeeps DEF Work
<1>4. CASE Finish("worker")
  BY <1>4, NamesDiffer, FinishKeeps
<1>5. ASSUME NEW a \in Actors, Crash(a)
      PROVE  IInv'
  BY <1>5, CrashKeeps
<1> QED
  BY <1>1, <1>2, <1>3, <1>4, <1>5 DEF Next

LEMMA StutterInv == IInv /\ UNCHANGED vars => IInv'
<1> SUFFICES ASSUME IInv, UNCHANGED vars
             PROVE  IInv'
  OBVIOUS
<1>1. UNCHANGED <<tasks, report, answers, objects, preference, containers, abandoned,
                  claim, pc, cur, held, faults>>
  BY DEF vars, evidenceVars, dockerVars, procVars
<1>2. DataTypes' /\ ProcTypes' /\ faults' \in 0..MaxFaults
  BY <1>1 DEF IInv, DataTypes, TaskTypes, ReportTypes, EvidenceTypes, DockerTypes, ProcTypes, Attempts
<1>3. Missing' = Missing /\ Attempts' = Attempts
  BY <1>1 DEF Missing, Attempts
<1>4. DataInv' /\ WorkerInv'
  BY <1>1, <1>3 DEF IInv, DataInv, OneAttemptAtATime, ReportIsCurrent, SuccessIsComplete, WorkerInv
<1>5. \A a \in Actors : ActorInv(a)'
  BY <1>1, <1>3 DEF IInv, ActorInv
<1> QED
  BY <1>2, <1>4, <1>5 DEF IInv

\* Whoever asks, whatever dies and whichever calls fail: the run's claim is held by the one
\* who writes, what it read stays true until it has written, and the worker's container is
\* the only one that nobody has given up.
THEOREM Invariance == Spec => []IInv
<1>1. IInv /\ [Next]_vars => IInv'
  BY NextInv, StutterInv
<1> QED
  BY InitInv, <1>1, PTL DEF Spec

\* For any number of requests, attempts and faults, one attempt at a time is under way, and
\* no attempt that is over has a container that nobody has given up: create() reuses the
\* attempt under way, process() removes what it started before it goes on, and whoever
\* finds an attempt running removes its container before closing it.
THEOREM StaysConsistent == Spec => []Consistent
<1>1. IInv => TypeOK
  BY DEF IInv, DataTypes, TaskTypes, ReportTypes, EvidenceTypes, DockerTypes, ProcTypes, TypeOK,
         Things, Steps, ClientSteps, WorkerSteps, Asking, Working
<1>2. IInv => OneAttemptAtATime
  BY DEF IInv, DataInv
<1>3. IInv => OverIsFree
  BY DEF IInv, WorkerInv, OverIsFree, Over
<1>4. IInv => Consistent
  BY <1>1, <1>2, <1>3 DEF Consistent
<1> QED
  BY Invariance, <1>4, PTL

\* A report that an attempt points to says what the person thinks now, about a complete set
\* of answers: preference() withdraws every report under the claim under which write_report()
\* reads, writes and points.
THEOREM ReportsStayCurrent == Spec => []ReportIsCurrent
<1>1. IInv => ReportIsCurrent
  BY DEF IInv, DataInv
<1> QED
  BY Invariance, <1>1, PTL

\* An attempt that succeeded has every answer of both models, and each registered answer is
\* in the store: process() registers an answer after its object, never removes one, and
\* succeeds after the last.
THEOREM SuccessStaysComplete == Spec => []SuccessIsComplete
<1>1. IInv => SuccessIsComplete
  BY DEF IInv, DataInv
<1> QED
  BY Invariance, <1>1, PTL
=============================================================================
