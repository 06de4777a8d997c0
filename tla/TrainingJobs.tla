---------------------------- MODULE TrainingJobs ----------------------------
(***************************************************************************)
(* Training runs as the web process, the workers and the reconcilers drive *)
(* them (app/services/runs.py, app/jobs), with the local Docker executor   *)
(* (app/executors/local_docker.py) and the registration of outputs         *)
(* (app/services/outputs.py).                                              *)
(*                                                                         *)
(* PostgreSQL owns status and log.  A per-run advisory claim serializes    *)
(* the external effects of background processes; row locks serialize       *)
(* transactions; a workspace flock serializes the Docker adapter.  A step  *)
(* is one committed transaction, one Docker command or one file operation, *)
(* so that crashes, cancel requests and the container itself interleave    *)
(* with a process between any two of them.                                 *)
(***************************************************************************)
EXTENDS JobStates, FiniteSets

CONSTANTS
  Workers,     \* processes running `background worker`
  Reconcilers, \* processes running `background reconciler`
  NoProc,      \* nobody holds a claim or a workspace lock
  NoRun,       \* an idle process works on no run
  FaultKinds,  \* which faults of the environment can happen
  MaxFaults    \* how many of them can happen in one behaviour

Procs == Workers \cup Reconcilers

\* crash: a background process dies and restarts; claim: the connection that
\* holds a claim dies while its process goes on; daemon: a Docker command fails
\* or times out, with or without its effect; storage: artifact storage or the
\* preparation of inputs fails; removal: somebody else removes a container.
Kinds == {"crash", "claim", "daemon", "storage", "removal"}

ASSUME RolesAssumption == Workers \cap Reconcilers = {}
ASSUME NullsAssumption == NoProc \notin Procs /\ NoRun \notin Runs
ASSUME FaultsAssumption == FaultKinds \subseteq Kinds /\ MaxFaults \in Nat

VARIABLES
  stored,      \* runs whose adapter.zip is in artifact storage
  container,   \* what the Docker daemon has under the run's container name
  workspace,   \* the run's workspace directory exists
  canceled,    \* the `canceled` marker file exists in it
  claim,       \* holder of pg_try_advisory_xact_lock for the run
  flock,       \* holder of the workspace lock file
  hints,       \* run identifiers waiting in the Valkey list
  todo,        \* identifiers the current tick of a process has still to process
  pc, at, goal, obs, \* a process: its next step, run, purpose, last observation
  completed,   \* history: runs whose training completed, verified, by itself
  asked,       \* history: runs for which a user asked for cancellation
  lost,        \* history: runs whose claim was lost under a working process
  faults       \* how many faults may still happen

dbVars   == <<status, log, registered>>
hostVars == <<container, workspace, canceled, stored, starts, completed>>
lockVars == <<claim, flock>>
procVars == <<pc, at, goal, obs, todo>>
envVars  == <<hints, asked, lost, faults>>
vars     == <<dbVars, hostVars, lockVars, procVars, envVars>>

Observations == {"MISSING", "PREPARING", "RUNNING", "SUCCEEDED", "FAILED", "CANCELED"}
ContainerState == {"none", "created", "running", "complete", "failed"}
Goals == {"none", "recover", "cancel", "watch"}
Submitting == {"materialize", "create", "start"}
Steps == Submitting \cup {"idle", "prepare", "mkdir", "submitted", "inspect", "cancel",
                          "touch", "stop", "restat", "observe", "finish", "put", "commit"}

TypeOK ==
  /\ status \in [Runs -> JobState \cup {Absent}]
  /\ log \in [Runs -> Seq(JobState)]
  /\ registered \subseteq Runs /\ stored \subseteq Runs
  /\ container \in [Runs -> ContainerState]
  /\ workspace \in [Runs -> BOOLEAN] /\ canceled \in [Runs -> BOOLEAN]
  /\ claim \in [Runs -> Procs \cup {NoProc}]
  /\ flock \in [Runs -> Procs \cup {NoProc}]
  /\ hints \subseteq Runs
  /\ todo \in [Procs -> SUBSET Runs]
  /\ pc \in [Procs -> Steps]
  /\ at \in [Procs -> Runs \cup {NoRun}]
  /\ goal \in [Procs -> Goals]
  /\ obs \in [Procs -> Observations \cup {"none"}]
  /\ starts \in [Runs -> Nat]
  /\ completed \subseteq Runs /\ asked \subseteq Runs /\ lost \subseteq Runs
  /\ faults \in Nat

Init ==
  /\ status = [r \in Runs |-> Absent]
  /\ log = [r \in Runs |-> <<>>]
  /\ registered = {} /\ stored = {}
  /\ container = [r \in Runs |-> "none"]
  /\ workspace = [r \in Runs |-> FALSE] /\ canceled = [r \in Runs |-> FALSE]
  /\ claim = [r \in Runs |-> NoProc] /\ flock = [r \in Runs |-> NoProc]
  /\ hints = {}
  /\ todo = [p \in Procs |-> {}]
  /\ pc = [p \in Procs |-> "idle"] /\ at = [p \in Procs |-> NoRun]
  /\ goal = [p \in Procs |-> "none"] /\ obs = [p \in Procs |-> "none"]
  /\ starts = [r \in Runs |-> 0]
  /\ completed = {} /\ asked = {} /\ lost = {}
  /\ faults = MaxFaults

-----------------------------------------------------------------------------
(* Helpers.                                                                *)

Fault(kind) == kind \in FaultKinds /\ faults > 0 /\ faults' = faults - 1

\* The changes of one transaction on a run's row; the trigger appends one event
\* per change in the same transaction.
Record(r, path) ==
  /\ status' = [status EXCEPT ![r] = IF path = <<>> THEN @ ELSE path[Len(path)]]
  /\ log' = [log EXCEPT ![r] = @ \o path]

\* A wakeup is pushed, or lost when Valkey is unavailable or trims its list.
Notify(r) == hints' \in {hints, hints \cup {r}}

\* SELECT ... FOR UPDATE waits for the transaction that registers the output.
RowFree(r) == ~ \E p \in Procs : at[p] = r /\ pc[p] \in {"put", "commit"}

\* What the executor reports of the container and the workspace.
StatusOf(r) ==
  CASE container[r] = "none"     -> "MISSING"
    [] container[r] = "running"  -> "RUNNING"
    [] container[r] \notin {"none", "running"} /\ canceled[r] -> "CANCELED"
    [] container[r] = "created"  /\ ~canceled[r] -> "PREPARING"
    [] container[r] = "complete" /\ ~canceled[r] -> "SUCCEEDED"
    [] container[r] = "failed"   /\ ~canceled[r] -> "FAILED"

Goto(p, step) == pc' = [pc EXCEPT ![p] = step]

\* The process lets go of the workspace lock it may hold for its run.
Unlock(p) == flock' = [r \in Runs |-> IF flock[r] = p THEN NoProc ELSE flock[r]]

\* The process works on no run any more; its claim ends with its transaction.
Leave(p) ==
  /\ pc' = [pc EXCEPT ![p] = "idle"] /\ at' = [at EXCEPT ![p] = NoRun]
  /\ goal' = [goal EXCEPT ![p] = "none"] /\ obs' = [obs EXCEPT ![p] = "none"]
  /\ claim' = [r \in Runs |-> IF claim[r] = p THEN NoProc ELSE claim[r]]

\* An exception that the loop does not handle inside the tick ends the tick.
AbortTick(p) == Leave(p) /\ todo' = [todo EXCEPT ![p] = {}]

\* process() returns.  If the connection of its claim has died in the meantime,
\* ending the claim's transaction raises a database error.
Return(p) ==
  \/ claim[at[p]] = p /\ Leave(p) /\ UNCHANGED todo
  \/ claim[at[p]] # p /\ AbortTick(p)

\* ExecutorError, StorageError or SourceError inside process(): durable state is
\* left as it is and the next scan retries.
GiveUp(p) == Return(p) /\ Unlock(p)

-----------------------------------------------------------------------------
(* The web process.                                                        *)

Insert(r) ==
  /\ status[r] = Absent
  /\ Record(r, <<"QUEUED">>)
  /\ Notify(r)
  /\ UNCHANGED <<registered, hostVars, lockVars, procVars, asked, lost, faults>>

Create(r) == Insert(r)

\* "Retry as a new run": only a terminal run can be cloned.
Clone(original, r) ==
  /\ RowFree(original)
  /\ status[original] \in TERMINAL
  /\ Insert(r)

CancelPath(s) ==
  CASE s = "QUEUED" -> <<"CANCELED">>
    [] s \in {"PREPARING", "SUBMITTED", "RUNNING"} -> <<"CANCEL_REQUESTED">>
    [] OTHER -> <<>>

\* The request takes the row lock, never the claim.
Cancel(r) ==
  /\ status[r] # Absent
  /\ RowFree(r)
  /\ Record(r, CancelPath(status[r]))
  /\ asked' = asked \cup {r}
  /\ Notify(r)
  /\ UNCHANGED <<registered, hostVars, lockVars, procVars, lost, faults>>

\* DELETE .../container, under the claim and both locks for all its length.
Cleanup(r) ==
  /\ claim[r] = NoProc /\ flock[r] = NoProc /\ RowFree(r)
  /\ status[r] \in TERMINAL
  /\ \/ container[r] \in {"complete", "failed"}
     \/ container[r] = "created" /\ canceled[r]
  /\ container' = [container EXCEPT ![r] = "none"]
  /\ UNCHANGED <<dbVars, workspace, canceled, stored, starts, completed,
                 lockVars, procVars, envVars>>

-----------------------------------------------------------------------------
(* The loop of a background process: a hint, then a scan, then each run.   *)

\* Mutation: the worker looks for new runs only and forgets the ones under way.
ScanStates_OnlyQueued(p) ==
  IF p \in Workers THEN {"QUEUED"} ELSE {"SUBMITTED", "RUNNING", "POSTPROCESSING"}

ScanStates(p) ==
  IF p \in Workers THEN {"QUEUED", "PREPARING", "CANCEL_REQUESTED"}
                   ELSE {"SUBMITTED", "RUNNING", "POSTPROCESSING"}

PopHint(p, r) ==
  /\ p \in Workers
  /\ pc[p] = "idle" /\ todo[p] = {}
  /\ r \in hints
  /\ hints' = hints \ {r}
  /\ todo' = [todo EXCEPT ![p] = {r}]
  /\ UNCHANGED <<dbVars, hostVars, lockVars, pc, at, goal, obs, asked, lost, faults>>

Scan(p) ==
  /\ pc[p] = "idle" /\ todo[p] = {}
  /\ todo' = [todo EXCEPT ![p] = {r \in Runs : status[r] \in ScanStates(p)}]
  /\ UNCHANGED <<dbVars, hostVars, lockVars, pc, at, goal, obs, envVars>>

\* Which branch of process() a role takes for a run in state s.
Route(p, s) ==
  CASE s = "POSTPROCESSING"                              -> "finish"
    [] p \in Workers /\ s = "QUEUED"                     -> "prepare"
    [] p \in Workers /\ s = "PREPARING"                  -> "inspect"
    [] p \in Workers /\ s = "CANCEL_REQUESTED"           -> "cancel"
    [] p \in Reconcilers /\ s \in {"SUBMITTED", "RUNNING"} -> "inspect"
    [] OTHER                                             -> "idle"

Purpose(s) ==
  CASE s \in {"QUEUED", "PREPARING"} -> "recover"
    [] s = "CANCEL_REQUESTED"        -> "cancel"
    [] OTHER                         -> "watch"

\* The run is claimed by somebody else, or this role has nothing to do for it.
Skip(p, r) ==
  /\ pc[p] = "idle" /\ r \in todo[p]
  /\ claim[r] # NoProc \/ Route(p, status[r]) = "idle"
  /\ todo' = [todo EXCEPT ![p] = @ \ {r}]
  /\ UNCHANGED <<dbVars, hostVars, lockVars, pc, at, goal, obs, envVars>>

\* Mutation: the answer of pg_try_advisory_xact_lock is ignored.
Claim_Unchecked(p, r) ==
  /\ pc[p] = "idle" /\ r \in todo[p]
  /\ Route(p, status[r]) # "idle"
  /\ claim' = [claim EXCEPT ![r] = p]
  /\ Goto(p, Route(p, status[r]))
  /\ at' = [at EXCEPT ![p] = r]
  /\ goal' = [goal EXCEPT ![p] = Purpose(status[r])]
  /\ todo' = [todo EXCEPT ![p] = @ \ {r}]
  /\ UNCHANGED <<dbVars, hostVars, flock, obs, envVars>>

Claim(p, r) ==
  /\ pc[p] = "idle" /\ r \in todo[p]
  /\ claim[r] = NoProc /\ Route(p, status[r]) # "idle"
  /\ claim' = [claim EXCEPT ![r] = p]
  /\ Goto(p, Route(p, status[r]))
  /\ at' = [at EXCEPT ![p] = r]
  /\ goal' = [goal EXCEPT ![p] = Purpose(status[r])]
  /\ todo' = [todo EXCEPT ![p] = @ \ {r}]
  /\ UNCHANGED <<dbVars, hostVars, flock, obs, envVars>>

-----------------------------------------------------------------------------
(* The worker prepares and submits a queued run.                           *)

\* Mutation: PREPARING is written from the status read before the row was locked.
Prepare_Stale(p) ==
  /\ pc[p] = "prepare" /\ RowFree(at[p])
  /\ Record(at[p], <<"PREPARING">>)
  /\ Notify(at[p])
  /\ Goto(p, "mkdir")
  /\ UNCHANGED <<registered, hostVars, lockVars, at, goal, obs, todo, asked, lost, faults>>

Prepare(p) ==
  LET r == at[p] IN
  /\ pc[p] = "prepare" /\ RowFree(r)
  /\ \/ /\ status[r] = "QUEUED"
        /\ Record(r, <<"PREPARING">>)
        /\ Notify(r)
        /\ Goto(p, "mkdir")
        /\ UNCHANGED <<at, goal, obs, todo, claim>>
     \/ /\ status[r] # "QUEUED"
        /\ Return(p)
        /\ UNCHANGED <<status, log, hints>>
  /\ UNCHANGED <<registered, hostVars, flock, asked, lost, faults>>

\* submit() refuses a workspace that exists: an attempt is never repeated.
MakeWorkspace(p) ==
  LET r == at[p] IN
  /\ pc[p] = "mkdir"
  /\ \/ /\ flock[r] = NoProc /\ ~workspace[r]
        /\ flock' = [flock EXCEPT ![r] = p]
        /\ workspace' = [workspace EXCEPT ![r] = TRUE]
        /\ Goto(p, "materialize")
     \/ /\ flock[r] # NoProc \/ workspace[r]
        /\ Goto(p, "inspect")
        /\ UNCHANGED <<flock, workspace>>
  /\ UNCHANGED <<dbVars, container, canceled, stored, starts, completed,
                 claim, at, goal, obs, todo, envVars>>

Materialize(p) ==
  /\ pc[p] = "materialize"
  /\ \/ Goto(p, "create") /\ UNCHANGED <<flock, faults>>
     \/ Fault("storage") /\ Goto(p, "inspect") /\ Unlock(p)
  /\ UNCHANGED <<dbVars, hostVars, claim, at, goal, obs, todo, hints, asked, lost>>

CreateContainer(r) ==
  container' = [container EXCEPT ![r] = IF @ = "none" THEN "created" ELSE @]

\* docker create.  The name is taken when a container of this run still exists.
DockerCreate(p) ==
  LET r == at[p] IN
  /\ pc[p] = "create"
  /\ \/ /\ container[r] = "none"
        /\ CreateContainer(r)
        /\ Goto(p, "start")
        /\ UNCHANGED <<flock, faults>>
     \/ /\ container[r] # "none" /\ Goto(p, "inspect") /\ Unlock(p)
        /\ UNCHANGED <<container, faults>>
     \/ /\ Fault("daemon") /\ Goto(p, "inspect") /\ Unlock(p)
        /\ CreateContainer(r) \/ UNCHANGED container
  /\ UNCHANGED <<dbVars, workspace, canceled, stored, starts, completed,
                 claim, at, goal, obs, todo, hints, asked, lost>>

\* The daemon starts any container that is there, one that has exited again.
StartContainer(r) ==
  /\ container[r] # "none"
  /\ container' = [container EXCEPT ![r] = "running"]
  /\ starts' = [starts EXCEPT ![r] = IF container[r] = "running" THEN @ ELSE @ + 1]

\* docker start, the last command of submit().
DockerStart(p) ==
  LET r == at[p] IN
  /\ pc[p] = "start" /\ Unlock(p)
  /\ \/ StartContainer(r) /\ Goto(p, "submitted") /\ UNCHANGED faults
     \/ /\ container[r] = "none" /\ Goto(p, "inspect")
        /\ UNCHANGED <<container, starts, faults>>
     \/ /\ Fault("daemon") /\ Goto(p, "inspect")
        /\ StartContainer(r) \/ UNCHANGED <<container, starts>>
  /\ UNCHANGED <<dbVars, workspace, canceled, stored, completed,
                 claim, at, goal, obs, todo, hints, asked, lost>>

\* Mutation: the row is not looked at again when submit() returns.
RecordSubmitted_Blind(p) ==
  /\ pc[p] = "submitted" /\ RowFree(at[p])
  /\ Record(at[p], <<"SUBMITTED">>)
  /\ Return(p)
  /\ UNCHANGED <<registered, hostVars, flock, envVars>>

\* The row is read again: a cancel request may have arrived during submit().
RecordSubmitted(p) ==
  LET r == at[p] IN
  /\ pc[p] = "submitted" /\ RowFree(r)
  /\ Record(r, IF status[r] = "PREPARING" THEN <<"SUBMITTED">> ELSE <<>>)
  /\ Return(p)
  /\ UNCHANGED <<registered, hostVars, flock, envVars>>

-----------------------------------------------------------------------------
(* Observation: recover() of a preparation, and the reconciler's status(). *)

Observed(p, o) ==
  /\ obs' = [obs EXCEPT ![p] = o]
  /\ Goto(p, "observe")
  /\ UNCHANGED <<claim, at, goal, todo>>

\* Mutation: recovery starts a container that is there and does not run.
Inspect_ReplaysStart(p) ==
  LET s == StatusOf(at[p])
      again == goal[p] = "recover" /\ s \notin {"MISSING", "RUNNING", "SUCCEEDED"}
  IN
  /\ pc[p] = "inspect"
  /\ \/ again /\ Goto(p, "start") /\ UNCHANGED <<claim, at, goal, obs, todo>>
     \/ ~again /\ Observed(p, s)
  /\ UNCHANGED <<dbVars, hostVars, flock, envVars>>

\* Mutation: a failing docker inspect is taken for an absent container.
Inspect_ErrorIsAbsence(p) ==
  LET s == StatusOf(at[p]) IN
  /\ pc[p] = "inspect"
  /\ \/ /\ goal[p] = "recover" /\ s = "PREPARING"
        /\ Goto(p, "cancel")
        /\ UNCHANGED <<claim, at, goal, obs, todo, faults>>
     \/ /\ goal[p] # "recover" \/ s # "PREPARING"
        /\ Observed(p, s)
        /\ UNCHANGED faults
     \/ Fault("daemon") /\ Observed(p, "MISSING")
  /\ UNCHANGED <<dbVars, hostVars, flock, hints, asked, lost>>

Inspect(p) ==
  LET s == StatusOf(at[p]) IN
  /\ pc[p] = "inspect"
  /\ \/ /\ goal[p] = "recover" /\ s = "PREPARING"
        /\ Goto(p, "cancel")
        /\ UNCHANGED <<claim, at, goal, obs, todo, faults>>
     \/ /\ goal[p] # "recover" \/ s # "PREPARING"
        /\ Observed(p, s)
        /\ UNCHANGED faults
     \/ Fault("daemon") /\ Return(p)
  /\ UNCHANGED <<dbVars, hostVars, flock, hints, asked, lost>>

\* What cancel() returned is used: recover() fails the abandoned attempt unless
\* it turned out complete, and leaves it when it still runs.
CancelReturned(p, s) ==
  \/ goal[p] = "cancel" /\ Observed(p, s)
  \/ /\ goal[p] = "recover" /\ s \notin {"RUNNING", "PREPARING"}
     /\ Observed(p, IF s = "SUCCEEDED" THEN s ELSE "FAILED")
  \/ goal[p] = "recover" /\ s \in {"RUNNING", "PREPARING"} /\ Return(p)

\* executor.cancel(), part 1: take the workspace lock and look.
CancelInspect(p) ==
  LET r == at[p] s == StatusOf(at[p]) IN
  /\ pc[p] = "cancel"
  /\ \/ /\ flock[r] = NoProc /\ s \in {"RUNNING", "PREPARING"}
        /\ flock' = [flock EXCEPT ![r] = p]
        /\ Goto(p, "touch")
        /\ UNCHANGED <<claim, at, goal, obs, todo, faults>>
     \/ /\ flock[r] = NoProc /\ s \notin {"RUNNING", "PREPARING"}
        /\ CancelReturned(p, s)
        /\ UNCHANGED <<flock, faults>>
     \/ flock[r] # NoProc /\ Return(p) /\ UNCHANGED <<flock, faults>>
     \/ Fault("daemon") /\ Return(p) /\ UNCHANGED flock
  /\ UNCHANGED <<dbVars, hostVars, hints, asked, lost>>

\* Part 2: leave the marker.
CancelTouch(p) ==
  /\ pc[p] = "touch"
  /\ canceled' = [canceled EXCEPT ![at[p]] = TRUE]
  /\ Goto(p, "stop")
  /\ UNCHANGED <<dbVars, container, workspace, stored, starts, completed,
                 lockVars, at, goal, obs, todo, envVars>>

\* A container stopped while it trains may still complete in its grace period.
StopContainer(r) ==
  \/ /\ container[r] = "running"
     /\ \E end \in {"complete", "failed"} : container' = [container EXCEPT ![r] = end]
  \/ container[r] # "running" /\ UNCHANGED container

\* Part 3: docker stop, which succeeds on a container that does not run.
DockerStop(p) ==
  LET r == at[p] IN
  /\ pc[p] = "stop"
  /\ \/ /\ container[r] # "none"
        /\ StopContainer(r)
        /\ Goto(p, "restat")
        /\ UNCHANGED <<lockVars, at, goal, obs, todo, faults>>
     \/ container[r] = "none" /\ GiveUp(p) /\ UNCHANGED <<container, faults>>
     \/ Fault("daemon") /\ GiveUp(p) /\ (StopContainer(r) \/ UNCHANGED container)
  /\ UNCHANGED <<dbVars, workspace, canceled, stored, starts, completed, hints, asked, lost>>

\* Part 4: look again, and let the lock go.
CancelRestat(p) ==
  /\ pc[p] = "restat" /\ Unlock(p)
  /\ \/ CancelReturned(p, StatusOf(at[p])) /\ UNCHANGED faults
     \/ Fault("daemon") /\ Return(p)
  /\ UNCHANGED <<dbVars, hostVars, hints, asked, lost>>

-----------------------------------------------------------------------------
(* One observation changes the row, in one transaction.                    *)

\* Mutation: the process that died before it recorded SUBMITTED is forgotten.
Adopted_Submitted(s) == IF s \in {"PREPARING", "SUBMITTED"} THEN <<"RUNNING">> ELSE <<>>

\* A container that runs, or ran, takes its run along to RUNNING.
Adopted(s) ==
  IF s = "PREPARING" THEN <<"SUBMITTED", "RUNNING">>
  ELSE IF s = "SUBMITTED" THEN <<"RUNNING">> ELSE <<>>

Verified(s, o) ==
  IF o = "SUCCEEDED" /\ s \in {"PREPARING", "SUBMITTED", "RUNNING", "CANCEL_REQUESTED"}
    THEN <<"POSTPROCESSING">> ELSE <<>>

ObservedPath(s, o, purpose) ==
  CASE o = "MISSING" ->
         <<IF purpose = "cancel" THEN "CANCELED"
           ELSE IF purpose = "recover" \/ s = "POSTPROCESSING" THEN "FAILED" ELSE "LOST">>
    [] o = "FAILED" -> <<"FAILED">>
    [] o = "CANCELED" ->
         IF s = "CANCEL_REQUESTED" THEN <<"CANCELED">> ELSE <<"CANCEL_REQUESTED", "CANCELED">>
    [] o \in {"RUNNING", "SUCCEEDED"} -> Adopted(s) \o Verified(s, o)
    [] o = "PREPARING" -> <<>>

\* The row is final, or a cancel request waits for the worker: nothing to do.
Superseded(s, purpose) ==
  s \in TERMINAL \/ (s = "CANCEL_REQUESTED" /\ purpose # "cancel")

\* A path the state machine refuses raises ValueError, which no handler of the
\* loop catches: the transaction is rolled back and the process ends.
Observe(p) ==
  LET r == at[p]
      path == ObservedPath(status[r], obs[p], goal[p])
  IN
  /\ pc[p] = "observe" /\ RowFree(r)
  /\ \/ /\ Superseded(status[r], goal[p])
        /\ Return(p)
        /\ UNCHANGED <<status, log>>
     \/ /\ ~Superseded(status[r], goal[p]) /\ LegalFrom(status[r], path)
        /\ Record(r, path)
        /\ IF obs[p] = "SUCCEEDED"
             THEN Goto(p, "finish") /\ UNCHANGED <<claim, at, goal, obs, todo>>
             ELSE Return(p)
     \/ /\ ~Superseded(status[r], goal[p]) /\ ~LegalFrom(status[r], path)
        /\ AbortTick(p)
        /\ UNCHANGED <<status, log>>
  /\ UNCHANGED <<registered, hostVars, flock, envVars>>

-----------------------------------------------------------------------------
(* finish(): register the output and succeed, in one transaction that      *)
(* holds the row lock from the first step to the last.  A model version    *)
(* found at the beginning would be kept; there is none before SUCCEEDED.   *)

FinishBegin(p) ==
  LET r == at[p] IN
  /\ pc[p] = "finish" /\ RowFree(r)
  /\ \/ /\ status[r] = "POSTPROCESSING" /\ flock[r] = NoProc /\ StatusOf(r) = "SUCCEEDED"
        /\ flock' = [flock EXCEPT ![r] = p]
        /\ Goto(p, "put")
        /\ UNCHANGED <<claim, at, goal, obs, todo, faults>>
     \/ /\ status[r] # "POSTPROCESSING" \/ flock[r] # NoProc \/ StatusOf(r) # "SUCCEEDED"
        /\ Return(p)
        /\ UNCHANGED <<flock, faults>>
     \/ Fault("daemon") /\ Return(p) /\ UNCHANGED flock
  /\ UNCHANGED <<dbVars, hostVars, hints, asked, lost>>

\* Mutation: registration goes on although the upload failed.
FinishPut_ErrorIgnored(p) ==
  /\ pc[p] = "put" /\ Unlock(p)
  /\ \/ stored' = stored \cup {at[p]} /\ UNCHANGED faults
     \/ Fault("storage") /\ UNCHANGED stored
  /\ Goto(p, "commit")
  /\ UNCHANGED <<dbVars, container, workspace, canceled, starts, completed,
                 claim, at, goal, obs, todo, hints, asked, lost>>

\* The object's key is derived from the run: a retry overwrites the same key.
FinishPut(p) ==
  LET r == at[p] IN
  /\ pc[p] = "put" /\ Unlock(p)
  /\ \/ /\ stored' = stored \cup {r}
        /\ Goto(p, "commit")
        /\ UNCHANGED <<claim, at, goal, obs, todo, faults>>
     \/ /\ Fault("storage") /\ Return(p)
        /\ stored' \in {stored, stored \cup {r}}
  /\ UNCHANGED <<dbVars, container, workspace, canceled, starts, completed, hints, asked, lost>>

FinishCommit(p) ==
  LET r == at[p] IN
  /\ pc[p] = "commit"
  /\ registered' = registered \cup {r}
  /\ Record(r, <<"SUCCEEDED">>)
  /\ Return(p)
  /\ UNCHANGED <<hostVars, flock, envVars>>

-----------------------------------------------------------------------------
(* The environment.                                                        *)

TrainingEnds(r) ==
  /\ container[r] = "running"
  /\ \/ /\ container' = [container EXCEPT ![r] = "complete"]
        /\ completed' = completed \cup {r}
     \/ /\ container' = [container EXCEPT ![r] = "failed"]
        /\ UNCHANGED completed
  /\ UNCHANGED <<dbVars, workspace, canceled, stored, starts, lockVars, procVars, envVars>>

ContainerRemoved(r) ==
  /\ container[r] # "none"
  /\ Fault("removal")
  /\ container' = [container EXCEPT ![r] = "none"]
  /\ UNCHANGED <<dbVars, workspace, canceled, stored, starts, completed,
                 lockVars, procVars, hints, asked, lost>>

\* Process death releases the claim, the workspace lock and any transaction.
Crash(p) ==
  /\ pc[p] # "idle" \/ todo[p] # {}
  /\ Fault("crash")
  /\ AbortTick(p)
  /\ Unlock(p)
  /\ UNCHANGED <<dbVars, hostVars, hints, asked, lost>>

ClaimLost(p) ==
  /\ pc[p] # "idle" /\ claim[at[p]] = p
  /\ Fault("claim")
  /\ claim' = [claim EXCEPT ![at[p]] = NoProc]
  /\ lost' = lost \cup {at[p]}
  /\ UNCHANGED <<dbVars, hostVars, flock, procVars, hints, asked>>

-----------------------------------------------------------------------------
(* The system.                                                             *)

Web ==
  \/ \E r \in Runs : Create(r) \/ Cancel(r) \/ Cleanup(r)
  \/ \E original, r \in Runs : Clone(original, r)

Tick(p) == \/ Scan(p)
           \/ \E r \in Runs : PopHint(p, r) \/ Skip(p, r) \/ Claim(p, r)

Submit(p) == \/ Prepare(p) \/ MakeWorkspace(p) \/ Materialize(p) \/ DockerCreate(p)
             \/ DockerStart(p) \/ RecordSubmitted(p)

Examine(p) == \/ Inspect(p) \/ CancelInspect(p) \/ CancelTouch(p) \/ DockerStop(p)
              \/ CancelRestat(p) \/ Observe(p)

Finish(p) == FinishBegin(p) \/ FinishPut(p) \/ FinishCommit(p)

Process(p) == Tick(p) \/ Submit(p) \/ Examine(p) \/ Finish(p)

Environment ==
  \/ \E r \in Runs : TrainingEnds(r) \/ ContainerRemoved(r)
  \/ \E p \in Procs : Crash(p) \/ ClaimLost(p)

Next == Web \/ Environment \/ \E p \in Procs : Process(p)

Spec == Init /\ [][Next]_vars

\* Background processes loop for ever and scan the database every two seconds.
LoopSpec == Spec /\ \A p \in Procs : WF_vars(Process(p))

\* The runner's own timeout ends every training.
FairSpec == LoopSpec /\ \A r \in Runs : WF_vars(TrainingEnds(r))

-----------------------------------------------------------------------------
(* Properties.                                                             *)

\* Training is started at most once in the life of a run, whatever crashes, is
\* retried or loses its claim: "the worker never replays submit".
LaunchedOnce == \A r \in Runs : starts[r] <= 1

\* A run that is final, and is said so to its user, trains no more, and no
\* process is still on its way to start it.  The claim is what ensures it: it
\* can fail for a run whose claim was lost under the process that submits it.
QuietWhenTerminal ==
  \A r \in Runs \ lost : status[r] \in TERMINAL =>
    /\ container[r] # "running"
    /\ \A p \in Procs : at[p] = r => pc[p] \notin Submitting

\* LOST records a confirmed absence: daemon errors never lose a run, and what
\* was lost never comes back.
LostMeansAbsent == \A r \in Runs : status[r] = "LOST" => container[r] = "none"

\* A model version exists exactly for the runs that succeeded; its bytes are in
\* the store, and they come from a container that really was started.
SuccessIsBacked ==
  \A r \in Runs :
    /\ status[r] = "SUCCEEDED" <=> r \in registered
    /\ r \in registered => r \in stored /\ starts[r] > 0

\* The observation a process is about to record is one the state machine
\* accepts from the row it finds, although the row may have moved since the
\* observation was made: while claims hold, no process dies of an invalid
\* transition.
ObservationsFit ==
  \A p \in Procs :
    pc[p] = "observe" /\ at[p] \notin lost =>
      LET s == status[at[p]] IN
      Superseded(s, goal[p]) \/ LegalFrom(s, ObservedPath(s, obs[p], goal[p]))

\* Every variable has its type, and what a process is about to write into a row fits it.
WellFormed == TypeOK /\ ObservationsFit

\* Once a user has asked for cancellation no process brings the run back into
\* preparation or training, however late its own answer arrives.
CancelIsNotUndone ==
  [][\A r \in asked :
       status'[r] # status[r] => status'[r] \notin {"PREPARING", "SUBMITTED", "RUNNING"}]_vars

\* The output of a run vanished before it was registered.
OutputGone(r) == status[r] = "POSTPROCESSING" /\ container[r] = "none"

\* Two processes on one run: a cancellation in the hands of the one that lost its
\* claim marks the container as canceled while the other records its completion;
\* output() refuses the marked container on every scan.
Contradicted(r) == status[r] = "POSTPROCESSING" /\ r \in lost /\ canceled[r]

\* Every run that was accepted reaches a final state if its training ends,
\* although wakeups are lost, processes die between any two steps and commands
\* fail after taking effect.  The exceptions are a vanished output and a completion
\* that a process without its claim has marked as canceled.
EveryRunSettles ==
  \A r \in Runs :
    []<>(container[r] # "running") =>
      (status[r] # Absent ~> status[r] \in TERMINAL \/ OutputGone(r) \/ Contradicted(r))

\* docs/jobs.md: "A successful completion that wins the cancellation race is
\* retained as SUCCEEDED".
CompletionIsRetained == \A r \in completed : status[r] # "CANCELED"

\* The processes, the executor and the registrar together keep the contract
\* clients rely on: what they see of a run is its row, its events, the starts of
\* its container and its model version; all else is the implementation's.
Contract == INSTANCE TrainingContract
              WITH Runs <- Runs, status <- status, log <- log, starts <- starts,
                   registered <- registered
KeepsContract == Contract!Spec
=============================================================================
