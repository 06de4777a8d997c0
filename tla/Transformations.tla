---------------------------- MODULE Transformations ----------------------------
(***************************************************************************)
(* One artifact transformation (app/services/transformations.py and        *)
(* app/transformations): identical requests become one row, a container    *)
(* merges or quantizes the model, and its verified output is registered.   *)
(*                                                                         *)
(* Worker and reconciler handle the row one at a time under its claim, so  *)
(* one handler is modelled; it may die between any two steps.  Requests    *)
(* come from several transactions of the web process.                      *)
(***************************************************************************)
EXTENDS Naturals, FiniteSets

CONSTANTS
  Requests,    \* requests for the same transformation
  FaultKinds,  \* which faults can happen
  MaxFaults    \* how many of them can happen in one behaviour

\* crash: a process dies; api: a call to Docker, the store or the database fails without
\* effect; answer: it had its effect, the answer is lost; late: the daemon creates the
\* container after its client gave up; vanish: someone else removes the container.
ASSUME RequestsAssumption == "nobody" \notin Requests
ASSUME FaultsAssumption ==
  FaultKinds \subseteq {"crash", "api", "answer", "late", "vanish"} /\ MaxFaults \in Nat

VARIABLES
  web,        \* what became of each request
  inserter,   \* the request whose insertion is not committed
  status,     \* artifact_transformations.status, "none" without a row
  output,     \* the row names its registered output
  object,     \* the output's archive is in the store
  workspace,  \* the job's directory exists
  container,  \* the job's container
  coming,     \* the daemon may still create it
  overdue,    \* a day has passed since the request
  pc,         \* the handler's next step, "idle" without a handler
  goal,       \* the status it will record once it has cleaned up
  faults      \* how many faults may still happen

rowVars == <<status, output>>
dockerVars == <<workspace, container, coming>>
procVars == <<pc, goal>>
vars == <<web, inserter, rowVars, object, dockerVars, overdue, procVars, faults>>

TERMINAL == {"SUCCEEDED", "FAILED", "LOST"}
Pending == {"QUEUED", "PREPARING", "RUNNING", "POSTPROCESSING"}

\* good and bad: it exited with success, and its output does or does not verify.
Containers == {"none", "created", "late", "running", "good", "bad", "failed"}

TypeOK ==
  /\ web \in [Requests -> {"idle", "inserted", "answered", "failed"}]
  /\ inserter \in Requests \cup {"nobody"}
  /\ status \in Pending \cup TERMINAL \cup {"none"}
  /\ output \in BOOLEAN /\ object \in BOOLEAN /\ workspace \in BOOLEAN /\ coming \in BOOLEAN
  /\ container \in Containers /\ overdue \in BOOLEAN
  /\ pc \in {"idle", "mkdir", "fill", "create", "start", "look", "register", "put", "commit",
             "remove", "rmtree", "write"}
  /\ goal \in TERMINAL \cup {"RUNNING", "none"} /\ faults \in 0..MaxFaults

Init ==
  /\ web = [r \in Requests |-> "idle"] /\ inserter = "nobody"
  /\ status = "none" /\ output = FALSE /\ object = FALSE
  /\ workspace = FALSE /\ container = "none" /\ coming = FALSE /\ overdue = FALSE
  /\ pc = "idle" /\ goal = "none" /\ faults = MaxFaults

-----------------------------------------------------------------------------
(* Helpers.                                                                *)

Fault(f) == f \in FaultKinds /\ faults > 0 /\ faults' = faults - 1
Calm == UNCHANGED faults

Goto(step) == pc' = step /\ UNCHANGED goal
Turn(step, s) == pc' = step /\ goal' = s
Leave == Turn("idle", "none")

\* The container and its directory go before the row says how the job ended.
CleanUp(s) == Turn("remove", s)

InDocker == UNCHANGED <<web, inserter, rowVars, object, overdue>>
InRow == UNCHANGED <<web, inserter, object, dockerVars, overdue>>

-----------------------------------------------------------------------------
(* create(): an insertion that does nothing on a conflict, and a read.     *)

\* Mutation: the row is looked for, and inserted unless it is seen.
Insert_Unserialized(r) ==
  /\ web[r] = "idle" /\ web' = [web EXCEPT ![r] = "inserted"]
  /\ inserter' = (IF status = "none" /\ inserter = "nobody" THEN r ELSE inserter)
  /\ UNCHANGED <<rowVars, object, dockerVars, overdue, procVars, faults>>

\* The unique hash makes a second insertion wait for the first one's transaction.
Insert(r) ==
  /\ web[r] = "idle" /\ inserter = "nobody" /\ web' = [web EXCEPT ![r] = "inserted"]
  /\ inserter' = (IF status = "none" THEN r ELSE inserter)
  /\ UNCHANGED <<rowVars, object, dockerVars, overdue, procVars, faults>>

\* The row that is answered is the one the hash names, whoever inserted it.
Answer(r) ==
  /\ web[r] = "inserted" /\ web' = [web EXCEPT ![r] = "answered"]
  /\ IF inserter = r
       THEN inserter' = "nobody" /\ status' = "QUEUED"
       ELSE UNCHANGED <<inserter, status>>
  /\ UNCHANGED <<output, object, dockerVars, overdue, procVars, faults>>

RollBack(r) ==
  /\ web[r] = "inserted" /\ web' = [web EXCEPT ![r] = "failed"] /\ Fault("api")
  /\ inserter' = (IF inserter = r THEN "nobody" ELSE inserter)
  /\ UNCHANGED <<rowVars, object, dockerVars, overdue, procVars>>

Expire ==
  /\ ~overdue /\ overdue' = TRUE
  /\ UNCHANGED <<web, inserter, rowVars, object, dockerVars, procVars, faults>>

-----------------------------------------------------------------------------
(* process().                                                              *)

Take ==
  /\ pc = "idle" /\ status \in Pending
  /\ IF status = "QUEUED"
       THEN status' = "PREPARING" /\ Goto("mkdir")
       ELSE UNCHANGED status /\ Goto(IF status = "POSTPROCESSING" THEN "register" ELSE "look")
  /\ UNCHANGED <<web, inserter, output, object, dockerVars, overdue, faults>>

\* start(): whatever fails, the handler cleans up and the job has failed.
MakeWorkspace ==
  /\ pc = "mkdir" /\ InDocker /\ UNCHANGED <<container, coming>>
  /\ \/ workspace' = TRUE /\ Goto("fill") /\ Calm
     \/ Fault("api") /\ CleanUp("FAILED") /\ UNCHANGED workspace

MaterializeInputs ==
  /\ pc = "fill" /\ InDocker /\ UNCHANGED dockerVars
  /\ \/ Goto("create") /\ Calm
     \/ Fault("api") /\ CleanUp("FAILED")

CreateContainer ==
  /\ pc = "create" /\ InDocker /\ UNCHANGED workspace
  /\ \/ container' = "created" /\ Goto("start") /\ UNCHANGED coming /\ Calm
     \/ container' = "created" /\ CleanUp("FAILED") /\ UNCHANGED coming /\ Fault("answer")
     \/ Fault("api") /\ CleanUp("FAILED") /\ UNCHANGED <<container, coming>>
     \/ Fault("late") /\ CleanUp("FAILED") /\ coming' = TRUE /\ UNCHANGED container

StartContainer ==
  /\ pc = "start" /\ InDocker /\ UNCHANGED <<workspace, coming>>
  /\ \/ container = "created" /\ container' = "running" /\ Turn("write", "RUNNING") /\ Calm
     \/ container = "created" /\ container' = "running" /\ CleanUp("FAILED") /\ Fault("answer")
     \/ Fault("api") /\ CleanUp("FAILED") /\ UNCHANGED container

\* status(): a container that was created and never started has failed, too.
Observed ==
  CASE container = "none"            -> "LOST"
    [] container = "running"         -> "RUNNING"
    [] container \in {"good", "bad"} -> "SUCCEEDED"
    [] OTHER                         -> "FAILED"

Outcome == IF Observed = "LOST" THEN "LOST" ELSE "FAILED"

\* A recovered preparation is adopted if its container runs or has finished.
Look ==
  /\ pc = "look" /\ InRow /\ UNCHANGED output
  /\ \/ Fault("api") /\ Leave /\ UNCHANGED status
     \/ /\ Calm
        /\ CASE Observed = "RUNNING" /\ ~overdue ->
                   /\ UNCHANGED status
                   /\ IF status = "PREPARING" THEN Turn("write", "RUNNING") ELSE Leave
             [] Observed = "SUCCEEDED" -> status' = "POSTPROCESSING" /\ Goto("register")
             [] OTHER -> CleanUp(Outcome) /\ UNCHANGED status

\* output(): only a container that exited with success is exported, and only what its
\* own inventory describes is registered; anything else is an invalid output.
Export ==
  /\ pc = "register" /\ InRow /\ UNCHANGED rowVars
  /\ \/ output /\ CleanUp("SUCCEEDED") /\ Calm
     \/ ~output /\ Observed # "SUCCEEDED" /\ Leave /\ Calm
     \/ ~output /\ container = "good" /\ Goto("put") /\ Calm
     \/ ~output /\ container = "bad" /\ CleanUp("FAILED") /\ Calm
     \/ ~output /\ Fault("api") /\ Leave

\* Mutation: the archive is left to be stored after the registration.
PutArchive_Deferred ==
  /\ pc = "put" /\ Goto("commit") /\ Calm
  /\ UNCHANGED <<web, inserter, rowVars, object, dockerVars, overdue>>

PutArchive ==
  /\ pc = "put" /\ UNCHANGED <<web, inserter, rowVars, dockerVars, overdue>>
  /\ \/ object' = TRUE /\ Goto("commit") /\ Calm
     \/ object' = TRUE /\ Leave /\ Fault("answer")
     \/ Fault("api") /\ Leave /\ UNCHANGED object

\* The artifact, its derivations and the row's output are one transaction.
RegisterOutput ==
  /\ pc = "commit" /\ InRow /\ UNCHANGED status
  /\ \/ output' = TRUE /\ CleanUp("SUCCEEDED") /\ Calm
     \/ output' = TRUE /\ Leave /\ Fault("answer")
     \/ Fault("api") /\ Leave /\ UNCHANGED output

\* Mutation: a removal that fails is not repeated.
RemoveContainer_Unchecked ==
  /\ pc = "remove" /\ InDocker /\ UNCHANGED <<workspace, coming>> /\ Goto("rmtree")
  /\ \/ container' = "none" /\ Calm
     \/ Fault("api") /\ UNCHANGED container

\* cleanup().
RemoveContainer ==
  /\ pc = "remove" /\ InDocker /\ UNCHANGED <<workspace, coming>>
  /\ \/ container' = "none" /\ Goto("rmtree") /\ Calm
     \/ container' = "none" /\ Leave /\ Fault("answer")
     \/ Fault("api") /\ Leave /\ UNCHANGED container

RemoveWorkspace ==
  /\ pc = "rmtree" /\ InDocker /\ UNCHANGED <<container, coming>>
  /\ workspace' = FALSE /\ Goto("write") /\ Calm

\* Mutation: the guard knows no lost preparation.
Allowed_NotLost(s, t) ==
  \/ s = "PREPARING" /\ t \in {"RUNNING", "FAILED"}
  \/ s = "RUNNING" /\ t \in {"FAILED", "LOST"}
  \/ s = "POSTPROCESSING" /\ t \in {"SUCCEEDED", "FAILED"}

\* The database's guard on the transitions that update() makes.
Allowed(s, t) ==
  \/ s = "PREPARING" /\ t \in {"RUNNING", "FAILED", "LOST"}
  \/ s = "RUNNING" /\ t \in {"FAILED", "LOST"}
  \/ s = "POSTPROCESSING" /\ t \in {"SUCCEEDED", "FAILED"}

Write ==
  /\ pc = "write" /\ Leave /\ Calm
  /\ status' = (IF Allowed(status, goal) THEN goal ELSE status)
  /\ InRow /\ UNCHANGED output

-----------------------------------------------------------------------------
(* Docker, the container, and crashes.                                     *)

Unhandled == UNCHANGED <<web, inserter, rowVars, object, overdue, procVars>>

ContainerExits ==
  /\ container = "running" /\ container' \in {"good", "bad", "failed"}
  /\ Unhandled /\ UNCHANGED <<workspace, coming>> /\ Calm

ContainerAppears ==
  /\ coming /\ coming' = FALSE /\ container' = "late"
  /\ Unhandled /\ UNCHANGED workspace /\ Calm

ContainerVanishes ==
  /\ container # "none" /\ container' = "none" /\ Fault("vanish")
  /\ Unhandled /\ UNCHANGED <<workspace, coming>>

Crash ==
  /\ pc # "idle" /\ Fault("crash") /\ Leave
  /\ UNCHANGED <<web, inserter, rowVars, object, dockerVars, overdue>>

Handler ==
  \/ MakeWorkspace \/ MaterializeInputs \/ CreateContainer \/ StartContainer \/ Look
  \/ Export \/ PutArchive \/ RegisterOutput \/ RemoveContainer \/ RemoveWorkspace \/ Write

Next ==
  \/ \E r \in Requests : Insert(r) \/ Answer(r) \/ RollBack(r)
  \/ Take \/ Handler \/ Expire
  \/ ContainerExits \/ ContainerAppears \/ ContainerVanishes \/ Crash

Spec == Init /\ [][Next]_vars

\* Scans come round, handlers finish, and a container that is not stopped exits.
FairSpec == Spec /\ WF_vars(Take) /\ WF_vars(Handler) /\ WF_vars(ContainerExits)

-----------------------------------------------------------------------------
(* Properties.                                                             *)

\* A request that was answered is answered by a row that stays, however requests overlap
\* and whichever of their transactions is rolled back (on_conflict_do_nothing, 0018).
AnswersAreKept == \A r \in Requests : web[r] = "answered" => status # "none"

\* A job that is over holds no GPU and no disk: cleanup comes before the outcome, on every
\* path, whatever was interrupted.  Only a container that the daemon created after its
\* client gave up, and that nobody starts, can be left.
OverIsFree == status \in TERMINAL => container \in {"none", "late"} /\ ~workspace

\* What the person was told, the row and what is on the host agree, however requests
\* overlap and wherever the work was interrupted.
Consistent == TypeOK /\ AnswersAreKept /\ OverIsFree

\* The outcome tells whether there is an output: success has a registered one, whose bytes
\* were stored before, and a job that failed or was lost registered nothing, although a
\* registration and the row's outcome are committed apart.
OutcomeMatchesOutput ==
  /\ output => object /\ status \in {"POSTPROCESSING", "SUCCEEDED"}
  /\ status = "SUCCEEDED" => output

\* Every request is decided.  A job whose container is gone before its output was
\* registered is not: in POSTPROCESSING neither its absence nor the end of its day is
\* looked at, and a crash between cleanup and outcome is enough to get there.
RequestsAreDecided ==
  status = "QUEUED" ~>
    \/ status \in TERMINAL
    \/ status = "POSTPROCESSING" /\ ~output /\ container = "none"
=============================================================================
