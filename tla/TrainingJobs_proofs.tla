------------------------ MODULE TrainingJobs_proofs ------------------------
(***************************************************************************)
(* Theorems about TrainingJobs, for any sets of runs, workers and          *)
(* reconcilers, any kinds of faults and any number of them; then about     *)
(* RunEvents, and about the page of a run that these processes drive.      *)
(***************************************************************************)
EXTENDS TrainingJobs, RunEvents, SequenceTheorems, TLAPS

-----------------------------------------------------------------------------
(* The inductive invariant.                                                *)

\* A process is idle exactly when it has no run, and records only what it saw.
Bookkeeping ==
  \A p \in Procs :
    /\ pc[p] = "idle" <=> at[p] = NoRun
    /\ pc[p] = "observe" => obs[p] \in Observations

TypeInv == TypeOK /\ Bookkeeping

\* Whoever submits a run holds its workspace lock, over a workspace of its own
\* making from which nothing was started yet.
SubmissionIsExclusive ==
  \A p \in Procs : pc[p] \in Submitting =>
    flock[at[p]] = p /\ workspace[at[p]] /\ starts[at[p]] = 0

StartNeedsWorkspace == \A r \in Runs : ~workspace[r] => starts[r] = 0

LaunchInv == SubmissionIsExclusive /\ StartNeedsWorkspace /\ LaunchedOnce

\* A working process holds the claim of its run, unless that claim was lost.
ClaimIsHeld == \A p \in Procs : pc[p] # "idle" /\ at[p] \notin lost => claim[at[p]] = p

\* What the holder of a claim may rely on although users cancel at any time.
Protected(p) ==
  /\ pc[p] = "prepare" => status[at[p]] \in {"QUEUED", "CANCELED"}
  /\ pc[p] \notin {"idle", "prepare"} => status[at[p]] \notin {Absent, "QUEUED"}
  /\ pc[p] \in Submitting \cup {"mkdir", "submitted"} =>
       status[at[p]] \in {"PREPARING", "CANCEL_REQUESTED"}
  /\ pc[p] = "observe" /\ obs[p] # "RUNNING" => container[at[p]] # "running"
  /\ pc[p] \in {"finish", "put", "commit"} => status[at[p]] = "POSTPROCESSING"

ClaimProtects == \A p \in Procs : at[p] \notin lost => Protected(p)

\* A container that trains belongs to a run that is on its way.
Underway == {"PREPARING", "SUBMITTED", "RUNNING", "CANCEL_REQUESTED"}
TrainsUnderway == \A r \in Runs \ lost : container[r] = "running" => status[r] \in Underway

QuietInv == ClaimIsHeld /\ ClaimProtects /\ TrainsUnderway

\* One process at a time registers the output of a run, of a run that was
\* started and is not published yet, and commits only what it has stored.
Registering == {"put", "commit"}
OneRegistrar ==
  \A p, q \in Procs :
    pc[p] \in Registering /\ pc[q] \in Registering /\ at[p] = at[q] => p = q
Registers(p) ==
  /\ status[at[p]] = "POSTPROCESSING" /\ starts[at[p]] > 0
  /\ pc[p] = "commit" => at[p] \in stored
RegistersTraining == \A p \in Procs : pc[p] \in Registering => Registers(p)
RanMeansStarted ==
  \A r \in Runs : container[r] \in {"running", "complete", "failed"} => starts[r] > 0

\* A run whose user asked for cancellation is out of preparation and training.
Decided == TERMINAL \cup {"CANCEL_REQUESTED", "POSTPROCESSING"}
AskedInv == \A r \in asked : status[r] \in Decided

SuccessInv == OneRegistrar /\ RegistersTraining /\ RanMeansStarted /\ SuccessIsBacked

-----------------------------------------------------------------------------
(* Lemmas about the helpers of the specification.                          *)

\* A path of states appended to a run's history keeps the types of both.
LEMMA RecordKeepsTypes ==
  ASSUME TypeOK, NEW r \in Runs, NEW path \in Seq(JobState), Record(r, path)
  PROVE  /\ status' \in [Runs -> JobState \cup {Absent}]
         /\ log' \in [Runs -> Seq(JobState)]
<1>1. path # <<>> => path[Len(path)] \in JobState
  OBVIOUS
<1>2. status' \in [Runs -> JobState \cup {Absent}]
  BY <1>1 DEF TypeOK, Record
<1>3. log[r] \o path \in Seq(JobState)
  BY DEF TypeOK
<1> QED
  BY <1>2, <1>3 DEF TypeOK, Record

\* What an observation does to a row is a sequence of states.
LEMMA ObservedPathIsAPath ==
  ASSUME NEW s, NEW o \in Observations, NEW purpose
  PROVE  ObservedPath(s, o, purpose) \in Seq(JobState)
<1>1. /\ <<>> \in Seq(JobState)
      /\ \A x \in JobState : <<x>> \in Seq(JobState)
      /\ \A x, y \in JobState : <<x, y>> \in Seq(JobState)
  OBVIOUS
<1>2. Adopted(s) \in Seq(JobState) /\ Verified(s, o) \in Seq(JobState)
  BY <1>1 DEF Adopted, Verified, JobState
<1>3. CASE o \in {"RUNNING", "SUCCEEDED"}
  <2>1. ObservedPath(s, o, purpose) = Adopted(s) \o Verified(s, o)
    BY <1>3 DEF ObservedPath
  <2> QED
    BY <2>1, <1>2
<1>4. CASE o = "MISSING"
  <2>1. ObservedPath(s, o, purpose) \in {<<"CANCELED">>, <<"FAILED">>, <<"LOST">>}
    BY <1>4 DEF ObservedPath
  <2> QED
    BY <1>1, <2>1 DEF JobState, TERMINAL
<1>5. CASE o \in {"FAILED", "CANCELED", "PREPARING"}
  <2>1. ObservedPath(s, o, purpose)
          \in {<<>>, <<"FAILED">>, <<"CANCELED">>, <<"CANCEL_REQUESTED", "CANCELED">>}
    BY <1>5 DEF ObservedPath
  <2> QED
    BY <1>1, <2>1 DEF JobState, TERMINAL
<1> QED
  BY <1>3, <1>4, <1>5 DEF Observations

\* A container that runs leaves its run where it is or brings it to RUNNING.
LEMMA ObservedRunning ==
  ASSUME NEW s, NEW purpose
  PROVE  LET path == ObservedPath(s, "RUNNING", purpose)
         IN path # <<>> => path[Len(path)] = "RUNNING"
<1>1. ObservedPath(s, "RUNNING", purpose) = Adopted(s) \o <<>>
  BY DEF ObservedPath, Verified
<1>2. Adopted(s) \in {<<>>, <<"RUNNING">>, <<"SUBMITTED", "RUNNING">>}
  BY DEF Adopted
<1> QED
  BY <1>1, <1>2

\* Verified output brings a run that is on its way to POSTPROCESSING.
LEMMA ObservedSuccess ==
  ASSUME NEW s, NEW purpose
  PROVE  LET path == ObservedPath(s, "SUCCEEDED", purpose)
         IN s \in {"PREPARING", "SUBMITTED", "RUNNING", "CANCEL_REQUESTED"} =>
              path # <<>> /\ path[Len(path)] = "POSTPROCESSING"
<1>1. ObservedPath(s, "SUCCEEDED", purpose) = Adopted(s) \o Verified(s, "SUCCEEDED")
  BY DEF ObservedPath
<1>2. s \in {"PREPARING", "SUBMITTED", "RUNNING", "CANCEL_REQUESTED"} =>
        Verified(s, "SUCCEEDED") = <<"POSTPROCESSING">>
  BY DEF Verified
<1>3. Adopted(s) \in Seq(JobState)
  <2>1. Adopted(s) \in {<<>>, <<"RUNNING">>, <<"SUBMITTED", "RUNNING">>}
    BY DEF Adopted
  <2>2. /\ <<>> \in Seq(JobState) /\ <<"RUNNING">> \in Seq(JobState)
        /\ <<"SUBMITTED", "RUNNING">> \in Seq(JobState)
    BY DEF JobState
  <2> QED
    BY <2>1, <2>2
<1>4. \A a \in Seq(JobState) :
        LET path == a \o <<"POSTPROCESSING">>
        IN path # <<>> /\ path[Len(path)] = "POSTPROCESSING"
  OBVIOUS
<1> QED
  BY <1>1, <1>2, <1>3, <1>4

\* What a process does first with a run it has claimed.
LEMMA RouteIs ==
  ASSUME NEW p \in Procs, NEW s
  PROVE  /\ Route(p, s) \in {"idle", "prepare", "inspect", "cancel", "finish"}
         /\ Route(p, s) = "prepare" => s = "QUEUED"
         /\ Route(p, s) = "finish" => s = "POSTPROCESSING"
         /\ Route(p, s) = "cancel" => s = "CANCEL_REQUESTED"
         /\ Route(p, s) = "inspect" => s \in {"PREPARING", "SUBMITTED", "RUNNING"}
<1>1. CASE s \in {"POSTPROCESSING", "QUEUED", "PREPARING", "CANCEL_REQUESTED"}
  BY <1>1 DEF Route
<1>2. CASE s \notin {"POSTPROCESSING", "QUEUED", "PREPARING", "CANCEL_REQUESTED"}
  BY <1>2 DEF Route
<1> QED
  BY <1>1, <1>2

\* What a cancel request does to a row: one edge, or none.
LEMMA CancelPathIs ==
  ASSUME NEW s
  PROVE  \/ s = "QUEUED" /\ CancelPath(s) = <<"CANCELED">>
         \/ s \in {"PREPARING", "SUBMITTED", "RUNNING"} /\ CancelPath(s) = <<"CANCEL_REQUESTED">>
         \/ s \notin {"QUEUED", "PREPARING", "SUBMITTED", "RUNNING"} /\ CancelPath(s) = <<>>
<1>1. CASE s \in {"QUEUED", "PREPARING", "SUBMITTED", "RUNNING"}
  BY <1>1 DEF CancelPath
<1>2. CASE s \notin {"QUEUED", "PREPARING", "SUBMITTED", "RUNNING"}
  BY <1>2 DEF CancelPath
<1> QED
  BY <1>1, <1>2

\* A cancel request writes states of the table only.
LEMMA CancelPathIsAPath ==
  ASSUME NEW s PROVE CancelPath(s) \in Seq(JobState)
<1>1. CancelPath(s) \in {<<>>, <<"CANCELED">>, <<"CANCEL_REQUESTED">>}
  BY CancelPathIs
<1>2. <<>> \in Seq(JobState) /\ \A x \in JobState : <<x>> \in Seq(JobState)
  OBVIOUS
<1> QED
  BY <1>1, <1>2 DEF JobState, TERMINAL

\* What a process writes about itself keeps its types.
ProcTypes ==
  /\ pc \in [Procs -> Steps] /\ at \in [Procs -> Runs \cup {NoRun}]
  /\ goal \in [Procs -> Goals] /\ obs \in [Procs -> Observations \cup {"none"}]
  /\ claim \in [Runs -> Procs \cup {NoProc}]
  /\ todo \in [Procs -> SUBSET Runs]
  /\ Bookkeeping

\* However process() returns, the process leaves its run.
LEMMA ReturnLeaves ==
  ASSUME NEW p, Return(p) \/ AbortTick(p) \/ GiveUp(p) PROVE Leave(p)
  BY DEF Return, AbortTick, GiveUp

\* A process that leaves its run keeps the types of what it knows.
LEMMA ReturnKeepsTypes ==
  ASSUME TypeInv, NEW p \in Procs, Return(p) \/ AbortTick(p) \/ GiveUp(p)
  PROVE  ProcTypes'
<1>1. Leave(p) /\ todo' \in [Procs -> SUBSET Runs]
  BY DEF Return, AbortTick, GiveUp, TypeInv, TypeOK
<1> QED
  BY <1>1 DEF ProcTypes, TypeInv, TypeOK, Bookkeeping, Leave, Goals, Steps

\* What the database and the executor's host hold keeps its types.
DbTypes ==
  /\ status \in [Runs -> JobState \cup {Absent}] /\ log \in [Runs -> Seq(JobState)]
  /\ registered \subseteq Runs /\ stored \subseteq Runs
  /\ hints \subseteq Runs
  /\ completed \subseteq Runs /\ asked \subseteq Runs /\ lost \subseteq Runs

HostTypes ==
  /\ container \in [Runs -> ContainerState]
  /\ workspace \in [Runs -> BOOLEAN] /\ canceled \in [Runs -> BOOLEAN]
  /\ flock \in [Runs -> Procs \cup {NoProc}]
  /\ starts \in [Runs -> Nat]
  /\ faults \in Nat

\* A process that goes on with an observation has one.
LEMMA ObservedKeepsTypes ==
  ASSUME TypeInv, NEW p \in Procs, pc[p] # "idle", NEW o \in Observations, Observed(p, o)
  PROVE  ProcTypes'
  BY DEF ProcTypes, TypeInv, TypeOK, Bookkeeping, Observed, Goto, Steps

\* So does one that uses what cancel() returned.
LEMMA CancelReturnedKeepsTypes ==
  ASSUME TypeInv, NEW p \in Procs, pc[p] # "idle", NEW s \in Observations,
         CancelReturned(p, s)
  PROVE  ProcTypes'
<1>1. ProcTypes' \/ \E o \in Observations : Observed(p, o)
  BY ReturnKeepsTypes DEF CancelReturned, Observations
<1> QED
  BY <1>1, ObservedKeepsTypes

\* Letting the workspace lock go.
LEMMA UnlockKeepsTypes ==
  ASSUME TypeOK, NEW p, Unlock(p)
  PROVE  flock' \in [Runs -> Procs \cup {NoProc}]
  BY DEF TypeOK, Unlock

\* A fault uses up one of the faults left.
LEMMA FaultKeepsTypes ==
  ASSUME TypeOK, NEW kind, Fault(kind) PROVE faults' \in Nat
  BY DEF TypeOK, Fault

\* A process that is at work has a run.
LEMMA BusyHasARun ==
  ASSUME TypeInv, NEW p \in Procs, pc[p] # "idle" PROVE at[p] \in Runs
  BY DEF TypeInv, TypeOK, Bookkeeping

\* The executor's answer is one of six.
LEMMA StatusOfIsAnObservation ==
  ASSUME TypeOK, NEW r \in Runs
  PROVE  StatusOf(r) \in Observations
<1>1. container[r] \in {"none", "created", "running", "complete", "failed"}
      /\ canceled[r] \in BOOLEAN
  BY DEF TypeOK, ContainerState
<1> QED
  BY <1>1 DEF StatusOf, Observations

-----------------------------------------------------------------------------
(* Types.                                                                  *)

\* The initial state has the types.
LEMMA TypeInit == Init => TypeInv
<1> SUFFICES ASSUME Init PROVE TypeInv
  OBVIOUS
<1>1. <<>> \in Seq(JobState)
  OBVIOUS
<1>2. TypeOK
  BY <1>1, FaultsAssumption
     DEF Init, TypeOK, ContainerState, Goals, Steps
<1>3. Bookkeeping
  BY DEF Init, Bookkeeping
<1> QED
  BY <1>2, <1>3 DEF TypeInv

\* The requests of users keep the types.
LEMMA TypeWeb ==
  ASSUME TypeInv, Web PROVE TypeInv'
<1>1. \A t \in JobState : <<t>> \in Seq(JobState)
  OBVIOUS
<1>2. ASSUME NEW r \in Runs, Insert(r) PROVE TypeInv'
  <2>1. Record(r, <<"QUEUED">>) /\ <<"QUEUED">> \in Seq(JobState)
    BY <1>1, <1>2 DEF Insert, JobState
  <2> QED
    BY <1>2, <2>1, RecordKeepsTypes
       DEF TypeInv, TypeOK, Bookkeeping, Insert, Notify, hostVars, lockVars, procVars
<1>3. ASSUME NEW r \in Runs, Cancel(r) PROVE TypeInv'
  <2>1. CancelPath(status[r]) \in Seq(JobState)
    BY CancelPathIsAPath
  <2> QED
    BY <1>3, <2>1, RecordKeepsTypes
       DEF TypeInv, TypeOK, Bookkeeping, Cancel, Notify, hostVars, lockVars, procVars
<1>4. ASSUME NEW r \in Runs, Cleanup(r) PROVE TypeInv'
  BY <1>4 DEF TypeInv, TypeOK, Bookkeeping, Cleanup, ContainerState,
              dbVars, lockVars, procVars, envVars
<1> QED
  BY <1>2, <1>3, <1>4 DEF Web, Create, Clone

\* Finding and claiming runs keeps the types.
LEMMA TypeTick ==
  ASSUME TypeInv, NEW p \in Procs, Tick(p) PROVE TypeInv'
<1>1. ASSUME Scan(p) PROVE TypeInv'
  BY <1>1 DEF TypeInv, TypeOK, Bookkeeping, Scan, dbVars, hostVars, lockVars, envVars
<1>2. ASSUME NEW r \in Runs, PopHint(p, r) PROVE TypeInv'
  BY <1>2 DEF TypeInv, TypeOK, Bookkeeping, PopHint, dbVars, hostVars, lockVars
<1>3. ASSUME NEW r \in Runs, Skip(p, r) PROVE TypeInv'
  BY <1>3 DEF TypeInv, TypeOK, Bookkeeping, Skip, dbVars, hostVars, lockVars, envVars
<1>4. ASSUME NEW r \in Runs, Claim(p, r) PROVE TypeInv'
  <2>1. Route(p, status[r]) \in Steps \ {"idle", "observe"}
    BY <1>4 DEF Claim, Route, Steps
  <2>2. Purpose(status[r]) \in Goals
    BY DEF Purpose, Goals
  <2> QED
    BY <1>4, <2>1, <2>2, NullsAssumption
       DEF TypeInv, TypeOK, Bookkeeping, Claim, Goto, dbVars, hostVars, envVars
<1> QED
  BY <1>1, <1>2, <1>3, <1>4 DEF Tick

\* Preparing and submitting a run keeps the types.
LEMMA TypeSubmit ==
  ASSUME TypeInv, NEW p \in Procs, Submit(p) PROVE TypeInv'
<1>1. ASSUME Prepare(p) PROVE TypeInv'
  <2>1. pc[p] # "idle" /\ at[p] \in Runs
    BY <1>1, BusyHasARun DEF Prepare
  <2>2. ProcTypes'
    BY <1>1, <2>1, ReturnKeepsTypes DEF Prepare, Goto, Steps, Submitting,
       TypeInv, TypeOK, Bookkeeping, ProcTypes, lockVars
  <2>a. <<"PREPARING">> \in Seq(JobState)
    BY DEF JobState
  <2>3. DbTypes'
    BY <1>1, <2>1, <2>a, RecordKeepsTypes DEF DbTypes, TypeInv, TypeOK, Prepare, Notify,
         hostVars, envVars
  <2>4. HostTypes'
    BY <1>1, <2>1, UnlockKeepsTypes, FaultKeepsTypes
       DEF HostTypes, TypeInv, TypeOK, Prepare, GiveUp, dbVars, hostVars, lockVars, envVars
  <2> QED
    BY <1>1, <2>2, <2>3, <2>4 DEF TypeInv, TypeOK, ProcTypes, DbTypes, HostTypes, Prepare
<1>2. ASSUME MakeWorkspace(p) PROVE TypeInv'
  <2>1. pc[p] # "idle" /\ at[p] \in Runs
    BY <1>2, BusyHasARun DEF MakeWorkspace
  <2>2. ProcTypes'
    BY <1>2, <2>1, ReturnKeepsTypes DEF MakeWorkspace, Goto, Steps, Submitting,
       TypeInv, TypeOK, Bookkeeping, ProcTypes, lockVars
  <2>3. DbTypes'
    BY <1>2 DEF DbTypes, TypeInv, TypeOK, MakeWorkspace, dbVars, hostVars, envVars
  <2>a. \/ /\ flock' = [flock EXCEPT ![at[p]] = p]
           /\ workspace' = [workspace EXCEPT ![at[p]] = TRUE]
        \/ UNCHANGED <<flock, workspace>>
    BY <1>2, ZenonT(30) DEF MakeWorkspace
  <2>b. flock' \in [Runs -> Procs \cup {NoProc}] /\ workspace' \in [Runs -> BOOLEAN]
    <3>1. flock \in [Runs -> Procs \cup {NoProc}] /\ workspace \in [Runs -> BOOLEAN]
      BY DEF TypeInv, TypeOK
    <3>2. flock' \in [Runs -> Procs \cup {NoProc}]
      BY <2>a, <2>1, <3>1
    <3>3. workspace' \in [Runs -> BOOLEAN]
      BY <2>a, <2>1, <3>1
    <3> QED
      BY <3>2, <3>3
  <2>4. HostTypes'
    BY <1>2, <2>b DEF HostTypes, TypeInv, TypeOK, MakeWorkspace, envVars
  <2> QED
    BY <1>2, <2>2, <2>3, <2>4 DEF TypeInv, TypeOK, ProcTypes, DbTypes, HostTypes, MakeWorkspace
<1>3. ASSUME Materialize(p) PROVE TypeInv'
  <2>1. pc[p] # "idle" /\ at[p] \in Runs
    BY <1>3, BusyHasARun DEF Materialize
  <2>2. ProcTypes'
    BY <1>3, <2>1, ReturnKeepsTypes DEF Materialize, Goto, Steps, Submitting,
       TypeInv, TypeOK, Bookkeeping, ProcTypes, lockVars
  <2>3. DbTypes'
    BY <1>3 DEF DbTypes, TypeInv, TypeOK, Materialize, dbVars, hostVars, envVars
  <2>4. HostTypes'
    BY <1>3, <2>1, UnlockKeepsTypes, FaultKeepsTypes
       DEF HostTypes, TypeInv, TypeOK, Materialize, GiveUp, dbVars, hostVars, lockVars, envVars
  <2> QED
    BY <1>3, <2>2, <2>3, <2>4 DEF TypeInv, TypeOK, ProcTypes, DbTypes, HostTypes, Materialize
<1>4. ASSUME DockerCreate(p) PROVE TypeInv'
  <2>1. pc[p] # "idle" /\ at[p] \in Runs
    BY <1>4, BusyHasARun DEF DockerCreate
  <2>2. ProcTypes'
    BY <1>4, <2>1, ReturnKeepsTypes DEF DockerCreate, Goto, Steps, Submitting,
       TypeInv, TypeOK, Bookkeeping, ProcTypes, lockVars
  <2>3. DbTypes'
    BY <1>4 DEF DbTypes, TypeInv, TypeOK, DockerCreate, dbVars, hostVars, envVars
  <2>4. HostTypes'
    BY <1>4, <2>1, UnlockKeepsTypes, FaultKeepsTypes
       DEF HostTypes, TypeInv, TypeOK, DockerCreate, GiveUp, dbVars, hostVars, lockVars,
       envVars, CreateContainer, ContainerState
  <2> QED
    BY <1>4, <2>2, <2>3, <2>4 DEF TypeInv, TypeOK, ProcTypes, DbTypes, HostTypes, DockerCreate
<1>5. ASSUME DockerStart(p) PROVE TypeInv'
  <2>1. pc[p] # "idle" /\ at[p] \in Runs
    BY <1>5, BusyHasARun DEF DockerStart
  <2>2. ProcTypes'
    BY <1>5, <2>1, ReturnKeepsTypes DEF DockerStart, Goto, Steps, Submitting,
       TypeInv, TypeOK, Bookkeeping, ProcTypes, lockVars
  <2>3. DbTypes'
    BY <1>5 DEF DbTypes, TypeInv, TypeOK, DockerStart, dbVars, hostVars, envVars
  <2>4. HostTypes'
    BY <1>5, <2>1, UnlockKeepsTypes, FaultKeepsTypes
       DEF HostTypes, TypeInv, TypeOK, DockerStart, GiveUp, dbVars, hostVars, lockVars,
       envVars, StartContainer, ContainerState
  <2> QED
    BY <1>5, <2>2, <2>3, <2>4 DEF TypeInv, TypeOK, ProcTypes, DbTypes, HostTypes, DockerStart
<1>6. ASSUME RecordSubmitted(p) PROVE TypeInv'
  <2>1. pc[p] # "idle" /\ at[p] \in Runs
    BY <1>6, BusyHasARun DEF RecordSubmitted
  <2>2. ProcTypes'
    BY <1>6, <2>1, ReturnKeepsTypes DEF RecordSubmitted, Goto, Steps, Submitting,
       TypeInv, TypeOK, Bookkeeping, ProcTypes, lockVars
  <2>a. <<>> \in Seq(JobState) /\ <<"SUBMITTED">> \in Seq(JobState)
    BY DEF JobState
  <2>3. DbTypes'
    BY <1>6, <2>1, <2>a, RecordKeepsTypes DEF DbTypes, TypeInv, TypeOK, RecordSubmitted,
         Notify, hostVars, envVars
  <2>4. HostTypes'
    BY <1>6, <2>1, UnlockKeepsTypes, FaultKeepsTypes
       DEF HostTypes, TypeInv, TypeOK, RecordSubmitted, GiveUp, dbVars, hostVars, lockVars,
       envVars
  <2> QED
    BY <1>6, <2>2, <2>3, <2>4 DEF TypeInv, TypeOK, ProcTypes, DbTypes, HostTypes, RecordSubmitted
<1> QED
  BY <1>1, <1>2, <1>3, <1>4, <1>5, <1>6 DEF Submit

\* Observing and stopping a run keeps the types.
LEMMA TypeExamine ==
  ASSUME TypeInv, NEW p \in Procs, Examine(p) PROVE TypeInv'
<1>1. ASSUME Inspect(p) PROVE TypeInv'
  <2>1. pc[p] # "idle" /\ at[p] \in Runs
    BY <1>1, BusyHasARun DEF Inspect
  <2>2. ProcTypes'
    BY <1>1, <2>1, ReturnKeepsTypes, StatusOfIsAnObservation,
       ObservedKeepsTypes DEF Inspect, Goto, Steps, Submitting,
       TypeInv, TypeOK, Bookkeeping, ProcTypes, lockVars
  <2>3. DbTypes'
    BY <1>1 DEF DbTypes, TypeInv, TypeOK, Inspect, dbVars, hostVars, envVars
  <2>4. HostTypes'
    BY <1>1, <2>1, UnlockKeepsTypes, FaultKeepsTypes
       DEF HostTypes, TypeInv, TypeOK, Inspect, GiveUp, dbVars, hostVars, lockVars, envVars
  <2> QED
    BY <1>1, <2>2, <2>3, <2>4 DEF TypeInv, TypeOK, ProcTypes, DbTypes, HostTypes, Inspect
<1>2. ASSUME CancelInspect(p) PROVE TypeInv'
  <2>1. pc[p] # "idle" /\ at[p] \in Runs
    BY <1>2, BusyHasARun DEF CancelInspect
  <2>2. ProcTypes'
    BY <1>2, <2>1, ReturnKeepsTypes, StatusOfIsAnObservation,
       CancelReturnedKeepsTypes DEF CancelInspect, Goto, Steps, Submitting,
       TypeInv, TypeOK, Bookkeeping, ProcTypes, lockVars
  <2>3. DbTypes'
    BY <1>2 DEF DbTypes, TypeInv, TypeOK, CancelInspect, dbVars, hostVars, envVars
  <2>4. HostTypes'
    BY <1>2, <2>1, UnlockKeepsTypes, FaultKeepsTypes
       DEF HostTypes, TypeInv, TypeOK, CancelInspect, GiveUp, dbVars, hostVars, lockVars, envVars
  <2> QED
    BY <1>2, <2>2, <2>3, <2>4 DEF TypeInv, TypeOK, ProcTypes, DbTypes, HostTypes, CancelInspect
<1>3. ASSUME CancelTouch(p) PROVE TypeInv'
  <2>1. pc[p] # "idle" /\ at[p] \in Runs
    BY <1>3, BusyHasARun DEF CancelTouch
  <2>2. ProcTypes'
    BY <1>3, <2>1, ReturnKeepsTypes DEF CancelTouch, Goto, Steps, Submitting,
       TypeInv, TypeOK, Bookkeeping, ProcTypes, lockVars
  <2>3. DbTypes'
    BY <1>3 DEF DbTypes, TypeInv, TypeOK, CancelTouch, dbVars, hostVars, envVars
  <2>4. HostTypes'
    BY <1>3, <2>1, UnlockKeepsTypes, FaultKeepsTypes
       DEF HostTypes, TypeInv, TypeOK, CancelTouch, GiveUp, dbVars, hostVars, lockVars, envVars
  <2> QED
    BY <1>3, <2>2, <2>3, <2>4 DEF TypeInv, TypeOK, ProcTypes, DbTypes, HostTypes, CancelTouch
<1>4. ASSUME DockerStop(p) PROVE TypeInv'
  <2>1. pc[p] # "idle" /\ at[p] \in Runs
    BY <1>4, BusyHasARun DEF DockerStop
  <2>2. ProcTypes'
    BY <1>4, <2>1, ReturnKeepsTypes DEF DockerStop, Goto, Steps, Submitting,
       TypeInv, TypeOK, Bookkeeping, ProcTypes, lockVars
  <2>3. DbTypes'
    BY <1>4 DEF DbTypes, TypeInv, TypeOK, DockerStop, dbVars, hostVars, envVars
  <2>a. container' \in [Runs -> ContainerState]
    BY <1>4, <2>1 DEF TypeInv, TypeOK, DockerStop, StopContainer, ContainerState
  <2>b. flock' \in [Runs -> Procs \cup {NoProc}]
    BY <1>4, UnlockKeepsTypes DEF TypeInv, TypeOK, DockerStop, GiveUp, lockVars
  <2>4. HostTypes'
    BY <1>4, <2>a, <2>b, FaultKeepsTypes DEF HostTypes, TypeInv, TypeOK, DockerStop
  <2> QED
    BY <1>4, <2>2, <2>3, <2>4 DEF TypeInv, TypeOK, ProcTypes, DbTypes, HostTypes, DockerStop
<1>5. ASSUME CancelRestat(p) PROVE TypeInv'
  <2>1. pc[p] # "idle" /\ at[p] \in Runs
    BY <1>5, BusyHasARun DEF CancelRestat
  <2>2. ProcTypes'
    BY <1>5, <2>1, ReturnKeepsTypes, StatusOfIsAnObservation,
       CancelReturnedKeepsTypes DEF CancelRestat, Goto, Steps, Submitting,
       TypeInv, TypeOK, Bookkeeping, ProcTypes, lockVars
  <2>3. DbTypes'
    BY <1>5 DEF DbTypes, TypeInv, TypeOK, CancelRestat, dbVars, hostVars, envVars
  <2>4. HostTypes'
    BY <1>5, <2>1, UnlockKeepsTypes, FaultKeepsTypes
       DEF HostTypes, TypeInv, TypeOK, CancelRestat, GiveUp, dbVars, hostVars, lockVars, envVars
  <2> QED
    BY <1>5, <2>2, <2>3, <2>4 DEF TypeInv, TypeOK, ProcTypes, DbTypes, HostTypes, CancelRestat
<1>6. ASSUME Observe(p) PROVE TypeInv'
  <2>1. pc[p] # "idle" /\ at[p] \in Runs
    BY <1>6, BusyHasARun DEF Observe
  <2>2. ProcTypes'
    BY <1>6, <2>1, ReturnKeepsTypes DEF Observe, Goto, Steps, Submitting,
       TypeInv, TypeOK, Bookkeeping, ProcTypes, lockVars
  <2>a. ObservedPath(status[at[p]], obs[p], goal[p]) \in Seq(JobState)
    BY <1>6, ObservedPathIsAPath DEF Observe, TypeInv, Bookkeeping
  <2>3. DbTypes'
    BY <1>6, <2>1, <2>a, RecordKeepsTypes DEF DbTypes, TypeInv, TypeOK, Observe, Notify,
         hostVars, envVars
  <2>4. HostTypes'
    BY <1>6, <2>1, UnlockKeepsTypes, FaultKeepsTypes
       DEF HostTypes, TypeInv, TypeOK, Observe, GiveUp, dbVars, hostVars, lockVars, envVars
  <2> QED
    BY <1>6, <2>2, <2>3, <2>4 DEF TypeInv, TypeOK, ProcTypes, DbTypes, HostTypes, Observe
<1> QED
  BY <1>1, <1>2, <1>3, <1>4, <1>5, <1>6 DEF Examine

\* Registering the output keeps the types.
LEMMA TypeFinish ==
  ASSUME TypeInv, NEW p \in Procs, Finish(p) PROVE TypeInv'
<1>1. ASSUME FinishBegin(p) PROVE TypeInv'
  <2>1. pc[p] # "idle" /\ at[p] \in Runs
    BY <1>1, BusyHasARun DEF FinishBegin
  <2>2. ProcTypes'
    BY <1>1, <2>1, ReturnKeepsTypes DEF FinishBegin, Goto, Steps, Submitting,
       TypeInv, TypeOK, Bookkeeping, ProcTypes, lockVars
  <2>3. DbTypes'
    BY <1>1 DEF DbTypes, TypeInv, TypeOK, FinishBegin, dbVars, hostVars, envVars
  <2>4. HostTypes'
    BY <1>1, <2>1, UnlockKeepsTypes, FaultKeepsTypes
       DEF HostTypes, TypeInv, TypeOK, FinishBegin, GiveUp, dbVars, hostVars, lockVars, envVars
  <2> QED
    BY <1>1, <2>2, <2>3, <2>4 DEF TypeInv, TypeOK, ProcTypes, DbTypes, HostTypes, FinishBegin
<1>2. ASSUME FinishPut(p) PROVE TypeInv'
  <2>1. pc[p] # "idle" /\ at[p] \in Runs
    BY <1>2, BusyHasARun DEF FinishPut
  <2>2. ProcTypes'
    BY <1>2, <2>1, ReturnKeepsTypes DEF FinishPut, Goto, Steps, Submitting,
       TypeInv, TypeOK, Bookkeeping, ProcTypes, lockVars
  <2>3. DbTypes'
    BY <1>2, <2>1 DEF DbTypes, TypeInv, TypeOK, FinishPut, dbVars, hostVars, envVars
  <2>4. HostTypes'
    BY <1>2, <2>1, UnlockKeepsTypes, FaultKeepsTypes
       DEF HostTypes, TypeInv, TypeOK, FinishPut, GiveUp, dbVars, hostVars, lockVars, envVars
  <2> QED
    BY <1>2, <2>2, <2>3, <2>4 DEF TypeInv, TypeOK, ProcTypes, DbTypes, HostTypes, FinishPut
<1>3. ASSUME FinishCommit(p) PROVE TypeInv'
  <2>1. pc[p] # "idle" /\ at[p] \in Runs
    BY <1>3, BusyHasARun DEF FinishCommit
  <2>2. ProcTypes'
    BY <1>3, <2>1, ReturnKeepsTypes DEF FinishCommit, Goto, Steps, Submitting,
       TypeInv, TypeOK, Bookkeeping, ProcTypes, lockVars
  <2>a. <<"SUCCEEDED">> \in Seq(JobState)
    BY DEF JobState, TERMINAL
  <2>3. DbTypes'
    BY <1>3, <2>1, <2>a, RecordKeepsTypes DEF DbTypes, TypeInv, TypeOK, FinishCommit, Notify,
         hostVars, envVars
  <2>4. HostTypes'
    BY <1>3, <2>1, UnlockKeepsTypes, FaultKeepsTypes
       DEF HostTypes, TypeInv, TypeOK, FinishCommit, GiveUp, dbVars, hostVars, lockVars, envVars
  <2> QED
    BY <1>3, <2>2, <2>3, <2>4 DEF TypeInv, TypeOK, ProcTypes, DbTypes, HostTypes, FinishCommit
<1> QED
  BY <1>1, <1>2, <1>3 DEF Finish

\* What happens around the processes keeps the types.
LEMMA TypeEnvironment ==
  ASSUME TypeInv, Environment PROVE TypeInv'
<1>1. ASSUME NEW r \in Runs, TrainingEnds(r) PROVE TypeInv'
  BY <1>1 DEF TypeInv, TypeOK, Bookkeeping, TrainingEnds, ContainerState,
              dbVars, lockVars, procVars, envVars
<1>2. ASSUME NEW r \in Runs, ContainerRemoved(r) PROVE TypeInv'
  BY <1>2, FaultKeepsTypes
     DEF TypeInv, TypeOK, Bookkeeping, ContainerRemoved, ContainerState,
         dbVars, lockVars, procVars
<1>3. ASSUME NEW p \in Procs, Crash(p) PROVE TypeInv'
  BY <1>3, ReturnKeepsTypes, UnlockKeepsTypes, FaultKeepsTypes
     DEF TypeInv, TypeOK, ProcTypes, Crash, dbVars, hostVars
<1>4. ASSUME NEW p \in Procs, ClaimLost(p) PROVE TypeInv'
  BY <1>4, BusyHasARun, FaultKeepsTypes
     DEF TypeInv, TypeOK, Bookkeeping, ClaimLost, dbVars, hostVars, procVars
<1> QED
  BY <1>1, <1>2, <1>3, <1>4 DEF Environment

\* Every step keeps the types.
LEMMA TypeStep == TypeInv /\ [Next]_vars => TypeInv'
<1> SUFFICES ASSUME TypeInv, [Next]_vars PROVE TypeInv'
  OBVIOUS
<1>1. CASE UNCHANGED vars
  BY <1>1 DEF TypeInv, TypeOK, Bookkeeping, vars, dbVars, hostVars, lockVars, procVars, envVars
<1>2. CASE Next
  BY <1>2, TypeWeb, TypeEnvironment, TypeTick, TypeSubmit, TypeExamine, TypeFinish
     DEF Next, Process
<1> QED
  BY <1>1, <1>2

\* Type correctness: every variable keeps the range that TypeOK gives it, and a
\* process records an observation only when it has made one.
THEOREM TypeCorrect == Spec => []TypeOK
<1>1. TypeInv => TypeOK
  BY DEF TypeInv
<1> QED
  BY TypeInit, TypeStep, <1>1, PTL DEF Spec

-----------------------------------------------------------------------------
(* Training is started at most once.                                       *)

\* Nothing is started initially.
LEMMA LaunchInit == Init => LaunchInv
  BY DEF Init, LaunchInv, SubmissionIsExclusive, StartNeedsWorkspace, LaunchedOnce, Submitting

\* A step in which p submits nothing, and takes no lock from another process,
\* leaves every submission as exclusive as it was.
LEMMA OthersSubmit ==
  ASSUME TypeInv, LaunchInv, NEW p \in Procs,
         pc' = [pc EXCEPT ![p] = pc'[p]], pc'[p] \notin Submitting,
         at' = [at EXCEPT ![p] = at'[p]],
         \A r \in Runs : flock'[r] # flock[r] => flock[r] = p,
         workspace' = workspace, starts' = starts
  PROVE  LaunchInv'
<1>1. SubmissionIsExclusive'
  <2> SUFFICES ASSUME NEW q \in Procs, pc'[q] \in Submitting
               PROVE  flock'[at'[q]] = q /\ workspace'[at'[q]] /\ starts'[at'[q]] = 0
    BY DEF SubmissionIsExclusive
  <2>1. q # p /\ pc[q] \in Submitting /\ at'[q] = at[q] /\ at[q] \in Runs
    BY BusyHasARun DEF TypeInv, TypeOK, Submitting
  <2> QED
    BY <2>1 DEF LaunchInv, SubmissionIsExclusive
<1> QED
  BY <1>1 DEF LaunchInv, StartNeedsWorkspace, LaunchedOnce

\* Every step keeps submissions exclusive and starts at one.
LEMMA LaunchStep ==
  ASSUME TypeInv, LaunchInv, [Next]_vars PROVE LaunchInv'
<1>1. CASE UNCHANGED vars
  BY <1>1 DEF LaunchInv, SubmissionIsExclusive, StartNeedsWorkspace, LaunchedOnce, Submitting,
       TypeInv, TypeOK, Bookkeeping, vars, dbVars, hostVars, lockVars, procVars, envVars
<1>2. ASSUME NEW r \in Runs, Insert(r) PROVE LaunchInv'
  BY <1>2, BusyHasARun, NullsAssumption
     DEF LaunchInv, SubmissionIsExclusive, StartNeedsWorkspace, LaunchedOnce, Submitting,
     TypeInv, TypeOK, Bookkeeping, Insert, hostVars, lockVars, procVars
<1>3. ASSUME NEW r \in Runs, Cancel(r) PROVE LaunchInv'
  BY <1>3, BusyHasARun, NullsAssumption
     DEF LaunchInv, SubmissionIsExclusive, StartNeedsWorkspace, LaunchedOnce, Submitting,
     TypeInv, TypeOK, Bookkeeping, Cancel, hostVars, lockVars, procVars
<1>4. ASSUME NEW r \in Runs, Cleanup(r) PROVE LaunchInv'
  BY <1>4, BusyHasARun, NullsAssumption
     DEF LaunchInv, SubmissionIsExclusive, StartNeedsWorkspace, LaunchedOnce, Submitting,
     TypeInv, TypeOK, Bookkeeping, Cleanup, dbVars, lockVars, procVars, envVars
<1>5. ASSUME NEW r \in Runs, TrainingEnds(r) PROVE LaunchInv'
  BY <1>5, BusyHasARun, NullsAssumption
     DEF LaunchInv, SubmissionIsExclusive, StartNeedsWorkspace, LaunchedOnce, Submitting,
     TypeInv, TypeOK, Bookkeeping, TrainingEnds, dbVars, lockVars, procVars, envVars
<1>6. ASSUME NEW r \in Runs, ContainerRemoved(r) PROVE LaunchInv'
  BY <1>6, BusyHasARun, NullsAssumption
     DEF LaunchInv, SubmissionIsExclusive, StartNeedsWorkspace, LaunchedOnce, Submitting,
     TypeInv, TypeOK, Bookkeeping, ContainerRemoved, dbVars, lockVars, procVars
<1>7. ASSUME NEW p \in Procs, Crash(p) PROVE LaunchInv'
  BY <1>7, BusyHasARun, NullsAssumption
     DEF LaunchInv, SubmissionIsExclusive, StartNeedsWorkspace, LaunchedOnce, Submitting,
     TypeInv, TypeOK, Bookkeeping, Crash, Leave, AbortTick, Unlock, dbVars, hostVars
<1>8. ASSUME NEW p \in Procs, ClaimLost(p) PROVE LaunchInv'
  BY <1>8, BusyHasARun, NullsAssumption
     DEF LaunchInv, SubmissionIsExclusive, StartNeedsWorkspace, LaunchedOnce, Submitting,
     TypeInv, TypeOK, Bookkeeping, ClaimLost, dbVars, hostVars, procVars
<1>9. ASSUME NEW p \in Procs, Scan(p) PROVE LaunchInv'
  BY <1>9, BusyHasARun, NullsAssumption
     DEF LaunchInv, SubmissionIsExclusive, StartNeedsWorkspace, LaunchedOnce, Submitting,
     TypeInv, TypeOK, Bookkeeping, Scan, dbVars, hostVars, lockVars, envVars
<1>10. ASSUME NEW p \in Procs, NEW r \in Runs, PopHint(p, r) PROVE LaunchInv'
  BY <1>10, BusyHasARun, NullsAssumption
     DEF LaunchInv, SubmissionIsExclusive, StartNeedsWorkspace, LaunchedOnce, Submitting,
     TypeInv, TypeOK, Bookkeeping, PopHint, dbVars, hostVars, lockVars
<1>11. ASSUME NEW p \in Procs, NEW r \in Runs, Skip(p, r) PROVE LaunchInv'
  BY <1>11, BusyHasARun, NullsAssumption
     DEF LaunchInv, SubmissionIsExclusive, StartNeedsWorkspace, LaunchedOnce, Submitting,
     TypeInv, TypeOK, Bookkeeping, Skip, dbVars, hostVars, lockVars, envVars
<1>12. ASSUME NEW p \in Procs, NEW r \in Runs, Claim(p, r) PROVE LaunchInv'
  BY <1>12, BusyHasARun, NullsAssumption
     DEF LaunchInv, SubmissionIsExclusive, StartNeedsWorkspace, LaunchedOnce, Submitting,
     TypeInv, TypeOK, Bookkeeping, Claim, Goto, Route, dbVars, hostVars, envVars
<1>13. ASSUME NEW p \in Procs, Prepare(p) PROVE LaunchInv'
  <2>1. /\ pc' = [pc EXCEPT ![p] = pc'[p]] /\ pc'[p] \notin Submitting
        /\ at' = [at EXCEPT ![p] = at'[p]]
    BY <1>13, ReturnLeaves DEF Prepare, Leave, Goto, Submitting, TypeInv, TypeOK
  <2>2. /\ \A r \in Runs : flock'[r] # flock[r] => flock[r] = p
        /\ workspace' = workspace /\ starts' = starts
    BY <1>13 DEF Prepare, hostVars, dbVars, lockVars, envVars, TypeInv, TypeOK
  <2> QED
    BY <2>1, <2>2, OthersSubmit
<1>14. ASSUME NEW p \in Procs, MakeWorkspace(p) PROVE LaunchInv'
  BY <1>14, BusyHasARun, NullsAssumption
     DEF LaunchInv, SubmissionIsExclusive, StartNeedsWorkspace, LaunchedOnce, Submitting,
     TypeInv, TypeOK, Bookkeeping, MakeWorkspace, Goto, dbVars, envVars
<1>15. ASSUME NEW p \in Procs, Materialize(p) PROVE LaunchInv'
  BY <1>15, BusyHasARun, NullsAssumption
     DEF LaunchInv, SubmissionIsExclusive, StartNeedsWorkspace, LaunchedOnce, Submitting,
     TypeInv, TypeOK, Bookkeeping, Materialize, Goto, Unlock, dbVars, hostVars
<1>16. ASSUME NEW p \in Procs, DockerCreate(p) PROVE LaunchInv'
  BY <1>16, BusyHasARun, NullsAssumption
     DEF LaunchInv, SubmissionIsExclusive, StartNeedsWorkspace, LaunchedOnce, Submitting,
     TypeInv, TypeOK, Bookkeeping, DockerCreate, Goto, Unlock, CreateContainer, dbVars
<1>17. ASSUME NEW p \in Procs, DockerStart(p) PROVE LaunchInv'
  <2>1. /\ at[p] \in Runs /\ flock[at[p]] = p /\ workspace[at[p]] /\ starts[at[p]] = 0
    BY <1>17, BusyHasARun DEF DockerStart, LaunchInv, SubmissionIsExclusive, Submitting
  <2>2. \A q \in Procs \ {p} : pc[q] \in Submitting => at[q] # at[p]
    BY <2>1 DEF LaunchInv, SubmissionIsExclusive
  <2>3. /\ at' = at /\ workspace' = workspace
        /\ pc' = [pc EXCEPT ![p] = pc'[p]] /\ pc'[p] \notin Submitting
        /\ \A r \in Runs : flock'[r] # flock[r] => flock[r] = p
    BY <1>17 DEF DockerStart, Goto, Unlock, Submitting, TypeInv, TypeOK
  <2>4. \/ starts' = starts
        \/ starts' = [starts EXCEPT ![at[p]] = starts[at[p]] + 1]
    BY <1>17, <2>1 DEF DockerStart, StartContainer, TypeInv, TypeOK
  <2>5. \A r \in Runs : r # at[p] => starts'[r] = starts[r]
    BY <2>4 DEF TypeInv, TypeOK
  <2>6. starts'[at[p]] \in {0, 1}
    BY <2>1, <2>4 DEF TypeInv, TypeOK
  <2>7. SubmissionIsExclusive'
    <3> SUFFICES ASSUME NEW q \in Procs, pc'[q] \in Submitting
                 PROVE  flock'[at'[q]] = q /\ workspace'[at'[q]] /\ starts'[at'[q]] = 0
      BY DEF SubmissionIsExclusive
    <3>1. q # p /\ pc[q] \in Submitting /\ at[q] \in Runs
      BY <2>3, BusyHasARun DEF TypeInv, TypeOK, Submitting
    <3> QED
      BY <3>1, <2>2, <2>3, <2>5 DEF LaunchInv, SubmissionIsExclusive
  <2> QED
    BY <2>1, <2>3, <2>5, <2>6, <2>7 DEF LaunchInv, StartNeedsWorkspace, LaunchedOnce
<1>18. ASSUME NEW p \in Procs, RecordSubmitted(p) PROVE LaunchInv'
  <2>1. /\ pc' = [pc EXCEPT ![p] = pc'[p]] /\ pc'[p] \notin Submitting
        /\ at' = [at EXCEPT ![p] = at'[p]]
    BY <1>18, ReturnLeaves DEF RecordSubmitted, Leave, Goto, Submitting, TypeInv, TypeOK
  <2>2. /\ \A r \in Runs : flock'[r] # flock[r] => flock[r] = p
        /\ workspace' = workspace /\ starts' = starts
    BY <1>18 DEF RecordSubmitted, hostVars, dbVars, lockVars, envVars, TypeInv, TypeOK
  <2> QED
    BY <2>1, <2>2, OthersSubmit
<1>19. ASSUME NEW p \in Procs, Inspect(p) PROVE LaunchInv'
  BY <1>19, BusyHasARun, NullsAssumption
     DEF LaunchInv, SubmissionIsExclusive, StartNeedsWorkspace, LaunchedOnce, Submitting,
     TypeInv, TypeOK, Bookkeeping, Inspect, Goto, Observed, Leave, AbortTick, Return, dbVars,
     hostVars
<1>20. ASSUME NEW p \in Procs, CancelInspect(p) PROVE LaunchInv'
  BY <1>20, BusyHasARun, NullsAssumption
     DEF LaunchInv, SubmissionIsExclusive, StartNeedsWorkspace, LaunchedOnce, Submitting,
     TypeInv, TypeOK, Bookkeeping, CancelInspect, Goto, CancelReturned, Observed, Leave,
     AbortTick, Return, dbVars, hostVars
<1>21. ASSUME NEW p \in Procs, CancelTouch(p) PROVE LaunchInv'
  BY <1>21, BusyHasARun, NullsAssumption
     DEF LaunchInv, SubmissionIsExclusive, StartNeedsWorkspace, LaunchedOnce, Submitting,
     TypeInv, TypeOK, Bookkeeping, CancelTouch, Goto, dbVars, lockVars, envVars
<1>22. ASSUME NEW p \in Procs, DockerStop(p) PROVE LaunchInv'
  <2>1. /\ pc' = [pc EXCEPT ![p] = pc'[p]] /\ pc'[p] \notin Submitting
        /\ at' = [at EXCEPT ![p] = at'[p]]
    BY <1>22, ReturnLeaves DEF DockerStop, Leave, Goto, Submitting, TypeInv, TypeOK
  <2>2. /\ \A r \in Runs : flock'[r] # flock[r] => flock[r] = p
        /\ workspace' = workspace /\ starts' = starts
    BY <1>22 DEF DockerStop, GiveUp, Unlock, hostVars, dbVars, lockVars, envVars, TypeInv, TypeOK
  <2> QED
    BY <2>1, <2>2, OthersSubmit
<1>23. ASSUME NEW p \in Procs, CancelRestat(p) PROVE LaunchInv'
  <2>1. /\ pc' = [pc EXCEPT ![p] = pc'[p]] /\ pc'[p] \notin Submitting
        /\ at' = [at EXCEPT ![p] = at'[p]]
    BY <1>23, ReturnLeaves DEF CancelRestat, Leave, Goto, CancelReturned, Observed, Submitting,
         TypeInv, TypeOK
  <2>2. /\ \A r \in Runs : flock'[r] # flock[r] => flock[r] = p
        /\ workspace' = workspace /\ starts' = starts
    BY <1>23 DEF CancelRestat, Unlock, hostVars, dbVars, lockVars, envVars, TypeInv, TypeOK
  <2> QED
    BY <2>1, <2>2, OthersSubmit
<1>24. ASSUME NEW p \in Procs, Observe(p) PROVE LaunchInv'
  BY <1>24, BusyHasARun, NullsAssumption
     DEF LaunchInv, SubmissionIsExclusive, StartNeedsWorkspace, LaunchedOnce, Submitting,
     TypeInv, TypeOK, Bookkeeping, Observe, Goto, Leave, AbortTick, Return, hostVars, envVars
<1>25. ASSUME NEW p \in Procs, FinishBegin(p) PROVE LaunchInv'
  BY <1>25, BusyHasARun, NullsAssumption
     DEF LaunchInv, SubmissionIsExclusive, StartNeedsWorkspace, LaunchedOnce, Submitting,
     TypeInv, TypeOK, Bookkeeping, FinishBegin, Goto, Leave, AbortTick, Return, dbVars, hostVars
<1>26. ASSUME NEW p \in Procs, FinishPut(p) PROVE LaunchInv'
  BY <1>26, BusyHasARun, NullsAssumption
     DEF LaunchInv, SubmissionIsExclusive, StartNeedsWorkspace, LaunchedOnce, Submitting,
     TypeInv, TypeOK, Bookkeeping, FinishPut, Goto, Unlock, Leave, AbortTick, Return, dbVars
<1>27. ASSUME NEW p \in Procs, FinishCommit(p) PROVE LaunchInv'
  <2>1. /\ pc' = [pc EXCEPT ![p] = pc'[p]] /\ pc'[p] \notin Submitting
        /\ at' = [at EXCEPT ![p] = at'[p]]
    BY <1>27, ReturnLeaves DEF FinishCommit, Leave, Goto, Submitting, TypeInv, TypeOK
  <2>2. /\ \A r \in Runs : flock'[r] # flock[r] => flock[r] = p
        /\ workspace' = workspace /\ starts' = starts
    BY <1>27 DEF FinishCommit, hostVars, dbVars, lockVars, envVars, TypeInv, TypeOK
  <2> QED
    BY <2>1, <2>2, OthersSubmit
<1> QED
  BY <1>1, <1>2, <1>3, <1>4, <1>5, <1>6, <1>7, <1>8, <1>9, <1>10, <1>11, <1>12, <1>13, <1>14,
       <1>15, <1>16, <1>17, <1>18, <1>19, <1>20, <1>21, <1>22, <1>23, <1>24, <1>25, <1>26, <1>27
     DEF Next, Web, Create, Clone, Environment, Process, Tick, Submit, Examine, Finish

\* The executor is told to start the container of a run at most once, whatever
\* crashes, is retried or loses its claim: submit() refuses a workspace that
\* exists, and recovery never replays docker start.
THEOREM TrainingStartsOnce == Spec => []LaunchedOnce
<1>1. Init => TypeInv /\ LaunchInv
  BY TypeInit, LaunchInit
<1>2. TypeInv /\ LaunchInv /\ [Next]_vars => (TypeInv /\ LaunchInv)'
  BY TypeStep, LaunchStep
<1>3. LaunchInv => LaunchedOnce
  BY DEF LaunchInv
<1> QED
  BY <1>1, <1>2, <1>3, PTL DEF Spec

-----------------------------------------------------------------------------
(* Final runs are quiet.                                                   *)

\* Initially nobody works.
LEMMA QuietInit == Init => QuietInv
  BY DEF Init, QuietInv, ClaimIsHeld, ClaimProtects, Protected, TrainsUnderway, Submitting

\* The executor reports RUNNING exactly for a running container.
LEMMA RunningIsSeen ==
  ASSUME TypeInv, NEW r \in Runs
  PROVE  StatusOf(r) = "RUNNING" <=> container[r] = "running"
<1>1. container[r] \in ContainerState /\ canceled[r] \in BOOLEAN
  BY DEF TypeInv, TypeOK
<1> QED
  BY <1>1 DEF StatusOf, ContainerState

\* Process p moves on or leaves: it touches no run but its own.
Moves(p) ==
  /\ pc' = [pc EXCEPT ![p] = pc'[p]] /\ obs' = [obs EXCEPT ![p] = obs'[p]]
  /\ \/ at' = at /\ claim' = claim
     \/ /\ at' = [at EXCEPT ![p] = NoRun] /\ pc'[p] = "idle"
        /\ claim' = [r \in Runs |-> IF claim[r] = p THEN NoProc ELSE claim[r]]
  /\ lost' = lost
  /\ \A r \in Runs : r # at[p] => status'[r] = status[r] /\ container'[r] = container[r]

\* What p must establish about its own run.
Own(p) ==
  /\ container'[at[p]] = "running" => status'[at[p]] \in Underway
  /\ at'[p] = at[p] => Protected(p)'

\* A step of a process about its own run leaves what other holders rely on.
LEMMA HolderMoves ==
  ASSUME TypeInv, QuietInv, NEW p \in Procs, pc[p] # "idle", at[p] \in Runs,
         Moves(p), at[p] \notin lost => Own(p)
  PROVE  QuietInv'
<1>1. \A q \in Procs \ {p} : pc[q] # "idle" /\ at[p] \notin lost => at[q] # at[p]
  BY DEF QuietInv, ClaimIsHeld
<1>2. ClaimIsHeld'
  <2> SUFFICES ASSUME NEW q \in Procs, pc'[q] # "idle", at'[q] \notin lost'
               PROVE  claim'[at'[q]] = q
    BY DEF ClaimIsHeld
  <2>1. CASE q = p
    BY <2>1 DEF QuietInv, ClaimIsHeld, Moves
  <2>2. CASE q # p
    <3>1. pc[q] # "idle" /\ at'[q] = at[q] /\ at[q] \in Runs /\ claim[at[q]] = q
      BY <2>2, BusyHasARun DEF QuietInv, ClaimIsHeld, Moves, TypeInv, TypeOK
    <3> QED
      BY <2>2, <3>1 DEF Moves
  <2> QED
    BY <2>1, <2>2
<1>3. ClaimProtects'
  <2> SUFFICES ASSUME NEW q \in Procs, at'[q] \notin lost' PROVE Protected(q)'
    BY DEF ClaimProtects
  <2>1. CASE pc'[q] = "idle"
    BY <2>1 DEF Protected, Submitting
  <2>2. CASE q = p /\ pc'[q] # "idle"
    BY <2>2 DEF Moves, Own
  <2>3. CASE q # p /\ pc'[q] # "idle"
    <3>1. /\ pc'[q] = pc[q] /\ obs'[q] = obs[q] /\ at'[q] = at[q]
          /\ at[q] \in Runs /\ at[q] \notin lost
      BY <2>3, BusyHasARun DEF Moves, TypeInv, TypeOK
    <3>2. status'[at[q]] = status[at[q]] /\ container'[at[q]] = container[at[q]]
      BY <1>1, <2>3, <3>1 DEF Moves
    <3>3. Protected(q)
      BY <3>1 DEF QuietInv, ClaimProtects
    <3> QED
      BY <3>1, <3>2, <3>3 DEF Protected
  <2> QED
    BY <2>1, <2>2, <2>3
<1>4. TrainsUnderway'
  BY DEF TrainsUnderway, QuietInv, Moves, Own
<1> QED
  BY <1>2, <1>3, <1>4 DEF QuietInv

\* Every step keeps claims held, what they protect, and final runs quiet.
LEMMA QuietStep ==
  ASSUME TypeInv, QuietInv, [Next]_vars PROVE QuietInv'
<1>1. CASE UNCHANGED vars
  BY <1>1 DEF QuietInv, ClaimIsHeld, ClaimProtects, Protected, TrainsUnderway, Underway,
       Submitting, TypeInv, TypeOK, Bookkeeping, Record, vars, dbVars, hostVars, lockVars,
       procVars, envVars
<1>2. ASSUME NEW r \in Runs, Insert(r) PROVE QuietInv'
  <2>1. status' = [status EXCEPT ![r] = "QUEUED"] /\ status[r] = Absent
    BY <1>2 DEF Insert, Record
  <2> QED
    BY <1>2, <2>1, BusyHasARun
       DEF Insert, QuietInv, ClaimIsHeld, ClaimProtects, Protected, TrainsUnderway, Underway,
           Submitting, TypeInv, TypeOK, Bookkeeping, Absent, hostVars, lockVars, procVars
<1>3. ASSUME NEW r \in Runs, Cancel(r) PROVE QuietInv'
  <2>1. \/ status'[r] = status[r]
        \/ status[r] = "QUEUED" /\ status'[r] = "CANCELED"
        \/ /\ status[r] \in {"PREPARING", "SUBMITTED", "RUNNING"}
           /\ status'[r] = "CANCEL_REQUESTED"
    BY <1>3, CancelPathIs DEF Cancel, Record, TypeInv, TypeOK
  <2>2. /\ \A q \in Runs : q # r => status'[q] = status[q]
        /\ UNCHANGED <<container, claim, pc, at, obs, lost>>
    BY <1>3 DEF Cancel, Record, TypeInv, TypeOK, hostVars, lockVars, procVars
  <2>3. \A q \in Runs : status[q] \in Underway => status'[q] \in Underway
    BY <2>1, <2>2 DEF Underway
  <2>4. ClaimProtects'
    <3> SUFFICES ASSUME NEW p \in Procs, at[p] \notin lost, Protected(p) PROVE Protected(p)'
      BY <2>2 DEF ClaimProtects, QuietInv
    <3>1. CASE pc[p] = "idle"
      BY <3>1, <2>2 DEF Protected, Submitting
    <3>2. CASE pc[p] # "idle" /\ at[p] # r
      BY <3>2, <2>2, BusyHasARun DEF Protected
    <3>3. CASE pc[p] # "idle" /\ at[p] = r
      BY <3>3, <2>1, <2>2 DEF Protected, Submitting, Absent
    <3> QED
      BY <3>1, <3>2, <3>3
  <2> QED
    BY <2>2, <2>3, <2>4 DEF QuietInv, ClaimIsHeld, TrainsUnderway
<1>4. ASSUME NEW r \in Runs, Cleanup(r) PROVE QuietInv'
  BY <1>4, BusyHasARun, NullsAssumption
     DEF QuietInv, ClaimIsHeld, ClaimProtects, Protected, TrainsUnderway, Underway, Submitting,
     TypeInv, TypeOK, Bookkeeping, Record, Cleanup, dbVars, lockVars, procVars, envVars
<1>5. ASSUME NEW r \in Runs, TrainingEnds(r) PROVE QuietInv'
  BY <1>5, BusyHasARun, NullsAssumption
     DEF QuietInv, ClaimIsHeld, ClaimProtects, Protected, TrainsUnderway, Underway, Submitting,
     TypeInv, TypeOK, Bookkeeping, Record, TrainingEnds, dbVars, lockVars, procVars, envVars
<1>6. ASSUME NEW r \in Runs, ContainerRemoved(r) PROVE QuietInv'
  BY <1>6, BusyHasARun, NullsAssumption
     DEF QuietInv, ClaimIsHeld, ClaimProtects, Protected, TrainsUnderway, Underway, Submitting,
     TypeInv, TypeOK, Bookkeeping, Record, ContainerRemoved, dbVars, lockVars, procVars
<1>7. ASSUME NEW p \in Procs, Crash(p) PROVE QuietInv'
  BY <1>7, BusyHasARun, NullsAssumption
     DEF QuietInv, ClaimIsHeld, ClaimProtects, Protected, TrainsUnderway, Underway, Submitting,
     TypeInv, TypeOK, Bookkeeping, Record, Crash, Leave, AbortTick, Unlock, dbVars, hostVars
<1>8. ASSUME NEW p \in Procs, ClaimLost(p) PROVE QuietInv'
  BY <1>8, BusyHasARun, NullsAssumption
     DEF QuietInv, ClaimIsHeld, ClaimProtects, Protected, TrainsUnderway, Underway, Submitting,
     TypeInv, TypeOK, Bookkeeping, Record, ClaimLost, dbVars, hostVars, procVars
<1>9. ASSUME NEW p \in Procs, Scan(p) PROVE QuietInv'
  BY <1>9, BusyHasARun, NullsAssumption
     DEF QuietInv, ClaimIsHeld, ClaimProtects, Protected, TrainsUnderway, Underway, Submitting,
     TypeInv, TypeOK, Bookkeeping, Record, Scan, dbVars, hostVars, lockVars, envVars
<1>10. ASSUME NEW p \in Procs, NEW r \in Runs, PopHint(p, r) PROVE QuietInv'
  BY <1>10, BusyHasARun, NullsAssumption
     DEF QuietInv, ClaimIsHeld, ClaimProtects, Protected, TrainsUnderway, Underway, Submitting,
     TypeInv, TypeOK, Bookkeeping, Record, PopHint, dbVars, hostVars, lockVars
<1>11. ASSUME NEW p \in Procs, NEW r \in Runs, Skip(p, r) PROVE QuietInv'
  BY <1>11, BusyHasARun, NullsAssumption
     DEF QuietInv, ClaimIsHeld, ClaimProtects, Protected, TrainsUnderway, Underway, Submitting,
     TypeInv, TypeOK, Bookkeeping, Record, Skip, dbVars, hostVars, lockVars, envVars
<1>12. ASSUME NEW p \in Procs, NEW r \in Runs, Claim(p, r) PROVE QuietInv'
  <2>1. /\ claim[r] = NoProc /\ pc[p] = "idle"
        /\ pc' = [pc EXCEPT ![p] = Route(p, status[r])] /\ Route(p, status[r]) # "idle"
        /\ at' = [at EXCEPT ![p] = r] /\ claim' = [claim EXCEPT ![r] = p]
        /\ UNCHANGED <<status, container, obs, lost>>
    BY <1>12 DEF Claim, Goto, dbVars, hostVars, envVars
  <2>2. \A q \in Procs : pc[q] # "idle" /\ r \notin lost => at[q] # r
    BY <2>1, NullsAssumption DEF QuietInv, ClaimIsHeld
  <2>3. ClaimIsHeld'
    BY <2>1, <2>2, BusyHasARun DEF QuietInv, ClaimIsHeld, TypeInv, TypeOK
  <2>4. ClaimProtects'
    <3> SUFFICES ASSUME NEW q \in Procs, at'[q] \notin lost' PROVE Protected(q)'
      BY DEF ClaimProtects
    <3>1. CASE q = p
      <4>1. pc'[p] = Route(p, status[r]) /\ at'[p] = r /\ status' = status
        BY <2>1 DEF TypeInv, TypeOK
      <4> QED
        BY <3>1, <4>1, RouteIs DEF Protected, Submitting, Absent
    <3>2. CASE q # p
      <4>1. pc'[q] = pc[q] /\ at'[q] = at[q]
        BY <2>1, <3>2 DEF TypeInv, TypeOK
      <4> QED
        BY <2>1, <4>1 DEF QuietInv, ClaimProtects, Protected
    <3> QED
      BY <3>1, <3>2
  <2> QED
    BY <2>1, <2>3, <2>4 DEF QuietInv, TrainsUnderway
<1>13. ASSUME NEW p \in Procs, Prepare(p) PROVE QuietInv'
  <2>1. pc[p] # "idle" /\ at[p] \in Runs
    BY <1>13, BusyHasARun DEF Prepare, Submitting
  <2>2. Moves(p)
    BY <1>13, <2>1, ReturnLeaves
       DEF Prepare, Moves, Leave, Goto, TypeInv, TypeOK, dbVars, hostVars, lockVars, envVars,
       Record
  <2>3. ASSUME at[p] \notin lost PROVE Own(p)
    <3>1. Protected(p) /\ (container[at[p]] = "running" => status[at[p]] \in Underway)
          /\ container' = container
      BY <1>13, <2>1, <2>3 DEF Prepare, QuietInv, ClaimProtects, TrainsUnderway, hostVars
    <3>2. CASE status[at[p]] = "QUEUED"
      <4>1. status'[at[p]] = "PREPARING" /\ pc'[p] = "mkdir" /\ at' = at
        BY <1>13, <2>1, <3>2 DEF Prepare, Record, Goto, TypeInv, TypeOK
      <4> QED
        BY <4>1, <3>1, <3>2 DEF Own, Protected, Underway, Absent
    <3>3. CASE status[at[p]] # "QUEUED"
      <4>1. status' = status /\ at'[p] = NoRun
        BY <1>13, <2>1, <3>3, ReturnLeaves DEF Prepare, Leave, TypeInv, TypeOK
      <4> QED
        BY <4>1, <2>1, <3>1, NullsAssumption DEF Own
    <3> QED
      BY <3>2, <3>3
  <2> QED
    BY <2>1, <2>2, <2>3, HolderMoves
<1>14. ASSUME NEW p \in Procs, MakeWorkspace(p) PROVE QuietInv'
  BY <1>14, BusyHasARun, NullsAssumption
     DEF QuietInv, ClaimIsHeld, ClaimProtects, Protected, TrainsUnderway, Underway, Submitting,
     TypeInv, TypeOK, Bookkeeping, Record, MakeWorkspace, Goto, dbVars, envVars
<1>15. ASSUME NEW p \in Procs, Materialize(p) PROVE QuietInv'
  BY <1>15, BusyHasARun, NullsAssumption
     DEF QuietInv, ClaimIsHeld, ClaimProtects, Protected, TrainsUnderway, Underway, Submitting,
     TypeInv, TypeOK, Bookkeeping, Record, Materialize, Goto, Unlock, dbVars, hostVars
<1>16. ASSUME NEW p \in Procs, DockerCreate(p) PROVE QuietInv'
  BY <1>16, BusyHasARun, NullsAssumption
     DEF QuietInv, ClaimIsHeld, ClaimProtects, Protected, TrainsUnderway, Underway, Submitting,
     TypeInv, TypeOK, Bookkeeping, Record, DockerCreate, Goto, Unlock, CreateContainer, dbVars
<1>17. ASSUME NEW p \in Procs, DockerStart(p) PROVE QuietInv'
  <2>1. pc[p] # "idle" /\ at[p] \in Runs
    BY <1>17, BusyHasARun DEF DockerStart, Submitting
  <2>2. Moves(p)
    BY <1>17, <2>1, ReturnLeaves
       DEF DockerStart, Moves, Leave, Goto, TypeInv, TypeOK, dbVars, hostVars, lockVars,
       envVars, StartContainer
  <2>3. at[p] \notin lost => Own(p)
    BY <1>17, <2>1, <2>2, ReturnLeaves, NullsAssumption
       DEF DockerStart, Own, Moves, Leave, Goto, QuietInv, ClaimProtects, Protected,
       TrainsUnderway,
           Underway, Submitting, TypeInv, TypeOK, dbVars, hostVars, lockVars, envVars,
           StartContainer
  <2> QED
    BY <2>1, <2>2, <2>3, HolderMoves
<1>18. ASSUME NEW p \in Procs, RecordSubmitted(p) PROVE QuietInv'
  <2>1. pc[p] # "idle" /\ at[p] \in Runs
    BY <1>18, BusyHasARun DEF RecordSubmitted, Submitting
  <2>2. Moves(p)
    BY <1>18, <2>1, ReturnLeaves
       DEF RecordSubmitted, Moves, Leave, Goto, TypeInv, TypeOK, dbVars, hostVars, lockVars,
       envVars, Record
  <2>3. at[p] \notin lost => Own(p)
    BY <1>18, <2>1, <2>2, ReturnLeaves, NullsAssumption
       DEF RecordSubmitted, Own, Moves, Leave, Goto, QuietInv, ClaimProtects, Protected,
       TrainsUnderway,
           Underway, Submitting, TypeInv, TypeOK, dbVars, hostVars, lockVars, envVars, Record
  <2> QED
    BY <2>1, <2>2, <2>3, HolderMoves
<1>19. ASSUME NEW p \in Procs, Inspect(p) PROVE QuietInv'
  <2>1. pc[p] # "idle" /\ at[p] \in Runs
    BY <1>19, BusyHasARun DEF Inspect, Submitting
  <2>2. Moves(p)
    BY <1>19, <2>1, ReturnLeaves
       DEF Inspect, Moves, Leave, Goto, TypeInv, TypeOK, dbVars, hostVars, lockVars, envVars,
       Observed, CancelReturned
  <2>3. at[p] \notin lost => Own(p)
    BY <1>19, <2>1, <2>2, ReturnLeaves, NullsAssumption, RunningIsSeen
       DEF Inspect, Own, Moves, Leave, Goto, QuietInv, ClaimProtects, Protected, TrainsUnderway,
           Underway, Submitting, TypeInv, TypeOK, dbVars, hostVars, lockVars, envVars,
           Observed, CancelReturned
  <2> QED
    BY <2>1, <2>2, <2>3, HolderMoves
<1>20. ASSUME NEW p \in Procs, CancelInspect(p) PROVE QuietInv'
  <2>1. pc[p] # "idle" /\ at[p] \in Runs
    BY <1>20, BusyHasARun DEF CancelInspect, Submitting
  <2>2. Moves(p)
    BY <1>20, <2>1, ReturnLeaves
       DEF CancelInspect, Moves, Leave, Goto, TypeInv, TypeOK, dbVars, hostVars, lockVars,
       envVars, Observed, CancelReturned
  <2>3. ASSUME at[p] \notin lost PROVE Own(p)
    <3>1. /\ status[at[p]] \notin {Absent, "QUEUED"}
          /\ container[at[p]] = "running" => status[at[p]] \in Underway
          /\ status' = status /\ container' = container
      BY <1>20, <2>1, <2>3
         DEF CancelInspect, QuietInv, ClaimProtects, Protected, TrainsUnderway, hostVars, dbVars
    <3>2. \/ at'[p] = NoRun
          \/ at'[p] = at[p] /\ pc'[p] = "touch"
          \/ /\ at'[p] = at[p] /\ pc'[p] = "observe"
             /\ container[at[p]] = "running" => obs'[p] = "RUNNING"
      BY <1>20, <2>1, ReturnLeaves, RunningIsSeen
         DEF CancelInspect, CancelReturned, Observed, Leave, Goto, TypeInv, TypeOK
    <3> QED
      BY <2>1, <3>1, <3>2, NullsAssumption DEF Own, Protected, Submitting
  <2> QED
    BY <2>1, <2>2, <2>3, HolderMoves
<1>21. ASSUME NEW p \in Procs, CancelTouch(p) PROVE QuietInv'
  BY <1>21, BusyHasARun, NullsAssumption
     DEF QuietInv, ClaimIsHeld, ClaimProtects, Protected, TrainsUnderway, Underway, Submitting,
     TypeInv, TypeOK, Bookkeeping, Record, CancelTouch, Goto, dbVars, lockVars, envVars
<1>22. ASSUME NEW p \in Procs, DockerStop(p) PROVE QuietInv'
  <2>1. pc[p] # "idle" /\ at[p] \in Runs
    BY <1>22, BusyHasARun DEF DockerStop, Submitting
  <2>2. Moves(p)
    BY <1>22, <2>1, ReturnLeaves
       DEF DockerStop, Moves, Leave, Goto, TypeInv, TypeOK, dbVars, hostVars, lockVars,
       envVars, GiveUp, StopContainer
  <2>3. at[p] \notin lost => Own(p)
    BY <1>22, <2>1, <2>2, ReturnLeaves, NullsAssumption
       DEF DockerStop, Own, Moves, Leave, Goto, QuietInv, ClaimProtects, Protected,
       TrainsUnderway,
           Underway, Submitting, TypeInv, TypeOK, dbVars, hostVars, lockVars, envVars, GiveUp,
           StopContainer
  <2> QED
    BY <2>1, <2>2, <2>3, HolderMoves
<1>23. ASSUME NEW p \in Procs, CancelRestat(p) PROVE QuietInv'
  <2>1. pc[p] # "idle" /\ at[p] \in Runs
    BY <1>23, BusyHasARun DEF CancelRestat, Submitting
  <2>2. Moves(p)
    BY <1>23, <2>1, ReturnLeaves
       DEF CancelRestat, Moves, Leave, Goto, TypeInv, TypeOK, dbVars, hostVars, lockVars,
       envVars, Observed, CancelReturned
  <2>3. at[p] \notin lost => Own(p)
    BY <1>23, <2>1, <2>2, ReturnLeaves, NullsAssumption, RunningIsSeen
       DEF CancelRestat, Own, Moves, Leave, Goto, QuietInv, ClaimProtects, Protected,
       TrainsUnderway,
           Underway, Submitting, TypeInv, TypeOK, dbVars, hostVars, lockVars, envVars,
           Observed, CancelReturned
  <2> QED
    BY <2>1, <2>2, <2>3, HolderMoves
<1>24. ASSUME NEW p \in Procs, Observe(p) PROVE QuietInv'
  <2>1. pc[p] # "idle" /\ at[p] \in Runs
    BY <1>24, BusyHasARun DEF Observe, Submitting
  <2>2. Moves(p)
    BY <1>24, <2>1, ReturnLeaves
       DEF Observe, Moves, Leave, Goto, TypeInv, TypeOK, dbVars, hostVars, lockVars, envVars,
       Record
  <2> DEFINE path == ObservedPath(status[at[p]], obs[p], goal[p])
  <2>3. ASSUME at[p] \notin lost PROVE Own(p)
    <3>1. /\ status[at[p]] \notin {Absent, "QUEUED"} /\ status[at[p]] \in JobState \cup {Absent}
          /\ obs[p] # "RUNNING" => container[at[p]] # "running"
          /\ container[at[p]] = "running" => status[at[p]] \in Underway
          /\ container' = container
      BY <1>24, <2>1, <2>3 DEF Observe, QuietInv, ClaimProtects, Protected, TrainsUnderway,
                              TypeInv, TypeOK, hostVars
    <3>2. status'[at[p]] \in {status[at[p]], path[Len(path)]}
          /\ (path = <<>> => status'[at[p]] = status[at[p]])
      BY <1>24, <2>1 DEF Observe, Record, TypeInv, TypeOK
    <3>3. container'[at[p]] = "running" => status'[at[p]] \in Underway
      BY <3>1, <3>2, ObservedRunning DEF Underway
    <3>4. ASSUME at'[p] = at[p] PROVE Protected(p)'
      <4>1. /\ obs[p] = "SUCCEEDED" /\ pc'[p] = "finish" /\ Record(at[p], path)
            /\ ~Superseded(status[at[p]], goal[p])
        BY <1>24, <2>1, <3>4, ReturnLeaves, NullsAssumption
           DEF Observe, Leave, Goto, TypeInv, TypeOK
      <4>2. \/ status[at[p]] \in {"PREPARING", "SUBMITTED", "RUNNING", "CANCEL_REQUESTED"}
            \/ status[at[p]] = "POSTPROCESSING"
        BY <3>1, <4>1 DEF Superseded, JobState
      <4>3. status'[at[p]] = "POSTPROCESSING"
        <5>1. CASE status[at[p]] = "POSTPROCESSING"
          <6>1. path = <<>> \o <<>>
            BY <4>1, <5>1 DEF ObservedPath, Adopted, Verified
          <6> QED
            BY <6>1, <5>1, <3>2
        <5>2. CASE status[at[p]] # "POSTPROCESSING"
          BY <5>2, <4>1, <4>2, <2>1, ObservedSuccess DEF Record, TypeInv, TypeOK
        <5> QED
          BY <5>1, <5>2
      <4> QED
        BY <4>1, <4>3, <3>4, <2>1 DEF Protected, Submitting, Absent
    <3> QED
      BY <3>3, <3>4 DEF Own
  <2> QED
    BY <2>1, <2>2, <2>3, HolderMoves
<1>25. ASSUME NEW p \in Procs, FinishBegin(p) PROVE QuietInv'
  <2>1. pc[p] # "idle" /\ at[p] \in Runs
    BY <1>25, BusyHasARun DEF FinishBegin, Submitting
  <2>2. Moves(p)
    BY <1>25, <2>1, ReturnLeaves
       DEF FinishBegin, Moves, Leave, Goto, TypeInv, TypeOK, dbVars, hostVars, lockVars, envVars
  <2>3. at[p] \notin lost => Own(p)
    BY <1>25, <2>1, <2>2, ReturnLeaves, NullsAssumption
       DEF FinishBegin, Own, Moves, Leave, Goto, QuietInv, ClaimProtects, Protected,
       TrainsUnderway,
           Underway, Submitting, TypeInv, TypeOK, dbVars, hostVars, lockVars, envVars
  <2> QED
    BY <2>1, <2>2, <2>3, HolderMoves
<1>26. ASSUME NEW p \in Procs, FinishPut(p) PROVE QuietInv'
  <2>1. pc[p] # "idle" /\ at[p] \in Runs
    BY <1>26, BusyHasARun DEF FinishPut, Submitting
  <2>2. Moves(p)
    BY <1>26, <2>1, ReturnLeaves
       DEF FinishPut, Moves, Leave, Goto, TypeInv, TypeOK, dbVars, hostVars, lockVars, envVars
  <2>3. at[p] \notin lost => Own(p)
    BY <1>26, <2>1, <2>2, ReturnLeaves, NullsAssumption
       DEF FinishPut, Own, Moves, Leave, Goto, QuietInv, ClaimProtects, Protected, TrainsUnderway,
           Underway, Submitting, TypeInv, TypeOK, dbVars, hostVars, lockVars, envVars
  <2> QED
    BY <2>1, <2>2, <2>3, HolderMoves
<1>27. ASSUME NEW p \in Procs, FinishCommit(p) PROVE QuietInv'
  <2>1. pc[p] # "idle" /\ at[p] \in Runs
    BY <1>27, BusyHasARun DEF FinishCommit, Submitting
  <2>2. Moves(p)
    BY <1>27, <2>1, ReturnLeaves
       DEF FinishCommit, Moves, Leave, Goto, TypeInv, TypeOK, dbVars, hostVars, lockVars,
       envVars, Record
  <2>3. ASSUME at[p] \notin lost PROVE Own(p)
    <3>1. container[at[p]] # "running" /\ container' = container
      BY <1>27, <2>1, <2>3 DEF FinishCommit, QuietInv, ClaimProtects, Protected, TrainsUnderway,
                              Underway, hostVars
    <3>2. at'[p] = NoRun
      BY <1>27, ReturnLeaves DEF FinishCommit, Leave, TypeInv, TypeOK
    <3> QED
      BY <2>1, <3>1, <3>2, NullsAssumption DEF Own
  <2> QED
    BY <2>1, <2>2, <2>3, HolderMoves
<1> QED
  BY <1>1, <1>2, <1>3, <1>4, <1>5, <1>6, <1>7, <1>8, <1>9, <1>10, <1>11, <1>12, <1>13, <1>14,
       <1>15, <1>16, <1>17, <1>18, <1>19, <1>20, <1>21, <1>22, <1>23, <1>24, <1>25, <1>26, <1>27
     DEF Next, Web, Create, Clone, Environment, Process, Tick, Submit, Examine, Finish

\* A run that its user sees as final trains no more and is not about to be
\* started, unless its claim was lost: observations are recorded under the claim
\* they were made under, and submission happens under the same claim.
THEOREM FinalRunsAreQuiet == Spec => []QuietWhenTerminal
<1>1. Init => TypeInv /\ QuietInv
  BY TypeInit, QuietInit
<1>2. TypeInv /\ QuietInv /\ [Next]_vars => (TypeInv /\ QuietInv)'
  BY TypeStep, QuietStep
<1>3. TypeInv /\ QuietInv => QuietWhenTerminal
  <2> SUFFICES ASSUME QuietInv, NEW r \in Runs \ lost, status[r] \in TERMINAL
               PROVE  /\ container[r] # "running"
                      /\ \A p \in Procs : at[p] = r => pc[p] \notin Submitting
    BY DEF QuietWhenTerminal
  <2> QED
    BY DEF QuietInv, ClaimProtects, Protected, TrainsUnderway, Underway, TERMINAL
<1> QED
  BY <1>1, <1>2, <1>3, PTL DEF Spec

-----------------------------------------------------------------------------
(* Success is backed by a registered output.                               *)

\* Initially nothing is registered.
LEMMA SuccessInit == Init => SuccessInv
  BY DEF Init, SuccessInv, OneRegistrar, RegistersTraining, RanMeansStarted, SuccessIsBacked,
         Registering, Absent

\* Verified output comes from a container that was started.
LEMMA SuccessMeansStarted ==
  ASSUME TypeInv, SuccessInv, NEW r \in Runs, StatusOf(r) = "SUCCEEDED"
  PROVE  starts[r] > 0
<1>1. container[r] \in ContainerState /\ canceled[r] \in BOOLEAN
  BY DEF TypeInv, TypeOK
<1>2. container[r] = "complete"
  BY <1>1 DEF StatusOf, ContainerState
<1> QED
  BY <1>2 DEF SuccessInv, RanMeansStarted

\* No observation makes a run SUCCEEDED: only the registration does.
LEMMA ObservedIsNotSuccess ==
  ASSUME NEW s, NEW o \in Observations, NEW purpose
  PROVE  LET path == ObservedPath(s, o, purpose)
         IN path # <<>> => path[Len(path)] # "SUCCEEDED"
<1> DEFINE path == ObservedPath(s, o, purpose)
<1>1. CASE o \in {"RUNNING", "SUCCEEDED"}
  <2>1. path = Adopted(s) \o Verified(s, o)
    BY <1>1 DEF ObservedPath
  <2>2. /\ Adopted(s) \in {<<>>, <<"RUNNING">>, <<"SUBMITTED", "RUNNING">>}
        /\ Verified(s, o) \in {<<>>, <<"POSTPROCESSING">>}
    BY DEF Adopted, Verified
  <2>3. CASE Verified(s, o) = <<>>
    BY <2>1, <2>2, <2>3
  <2>4. CASE Verified(s, o) = <<"POSTPROCESSING">>
    <3>1. Adopted(s) \in Seq(JobState)
      <4>1. /\ <<>> \in Seq(JobState) /\ <<"RUNNING">> \in Seq(JobState)
            /\ <<"SUBMITTED", "RUNNING">> \in Seq(JobState)
        BY DEF JobState
      <4> QED
        BY <2>2, <4>1
    <3>2. \A a \in Seq(JobState) :
            LET end == a \o <<"POSTPROCESSING">> IN end[Len(end)] = "POSTPROCESSING"
      OBVIOUS
    <3> QED
      BY <2>1, <2>4, <3>1, <3>2
  <2> QED
    BY <2>2, <2>3, <2>4
<1>2. CASE o \notin {"RUNNING", "SUCCEEDED"}
  <2>1. path \in {<<>>, <<"CANCELED">>, <<"FAILED">>, <<"LOST">>,
                  <<"CANCEL_REQUESTED", "CANCELED">>}
    <3>1. CASE o = "MISSING"
      BY <3>1 DEF ObservedPath
    <3>2. CASE o \in {"FAILED", "CANCELED", "PREPARING"}
      BY <3>2 DEF ObservedPath
    <3> QED
      BY <1>2, <3>1, <3>2 DEF Observations
  <2> HIDE DEF path
  <2> QED
    BY <2>1 DEF path
<1> QED
  BY <1>1, <1>2

\* What registration relies on besides the rows is kept.
Kept ==
  /\ stored \subseteq stored' /\ registered' = registered
  /\ \A r \in Runs : starts[r] > 0 => starts'[r] > 0
  /\ RanMeansStarted'

\* A process that keeps it, and changes its own run's row only when nobody
\* registers that run, leaves every registration in order.
LEMMA RegistrationSurvives ==
  ASSUME TypeInv, SuccessInv, NEW p \in Procs, at[p] \in Runs, Kept,
         pc' = [pc EXCEPT ![p] = pc'[p]], at' = [at EXCEPT ![p] = at'[p]],
         pc'[p] \in Registering =>
           /\ at'[p] = at[p] /\ Registers(p)'
           /\ pc[p] \in Registering \/ RowFree(at[p]),
         \A r \in Runs : r # at[p] => status'[r] = status[r],
         status'[at[p]] # status[at[p]] =>
           RowFree(at[p]) /\ status[at[p]] # "SUCCEEDED" /\ status'[at[p]] # "SUCCEEDED"
  PROVE  SuccessInv'
<1>1. OneRegistrar'
  <2> SUFFICES ASSUME NEW q1 \in Procs, NEW q2 \in Procs, q1 # q2,
                      pc'[q1] \in Registering, pc'[q2] \in Registering,
                      at'[q1] = at'[q2], q2 # p
               PROVE  FALSE
    BY DEF OneRegistrar
  <2>1. pc'[q2] = pc[q2] /\ at'[q2] = at[q2]
    BY DEF TypeInv, TypeOK
  <2>2. CASE q1 = p
    BY <2>1, <2>2 DEF SuccessInv, OneRegistrar, RowFree, Registering
  <2>3. CASE q1 # p
    <3>1. pc'[q1] = pc[q1] /\ at'[q1] = at[q1]
      BY <2>3 DEF TypeInv, TypeOK
    <3> QED
      BY <2>1, <3>1 DEF SuccessInv, OneRegistrar
  <2> QED
    BY <2>2, <2>3
<1>2. RegistersTraining'
  <2> SUFFICES ASSUME NEW q \in Procs, pc'[q] \in Registering PROVE Registers(q)'
    BY DEF RegistersTraining
  <2>1. CASE q # p
    <3>1. /\ pc'[q] = pc[q] /\ at'[q] = at[q] /\ at[q] \in Runs
          /\ status'[at[q]] = status[at[q]]
      BY <2>1, BusyHasARun DEF RowFree, Registering, TypeInv, TypeOK
    <3>2. Registers(q)
      BY <3>1 DEF SuccessInv, RegistersTraining
    <3> QED
      BY <3>1, <3>2 DEF Registers, Kept
  <2> QED
    BY <2>1
<1>3. SuccessIsBacked'
  <2>1. \A r \in Runs : status'[r] = "SUCCEEDED" <=> status[r] = "SUCCEEDED"
    OBVIOUS
  <2> QED
    BY <2>1 DEF SuccessInv, SuccessIsBacked, Kept
<1> QED
  BY <1>1, <1>2, <1>3 DEF SuccessInv, Kept

\* Every step keeps registrations in order and successes backed.
LEMMA SuccessStep ==
  ASSUME TypeInv, SuccessInv, [Next]_vars PROVE SuccessInv'
<1>1. CASE UNCHANGED vars
  BY <1>1 DEF SuccessInv, OneRegistrar, RegistersTraining, Registers, RanMeansStarted,
       SuccessIsBacked, Registering, TypeInv, TypeOK, Bookkeeping, Record, RowFree, Absent,
       vars, dbVars, hostVars, lockVars, procVars, envVars
<1>2. ASSUME NEW r \in Runs, Insert(r) PROVE SuccessInv'
  BY <1>2, BusyHasARun, NullsAssumption
     DEF SuccessInv, OneRegistrar, RegistersTraining, Registers, RanMeansStarted,
     SuccessIsBacked, Registering, TypeInv, TypeOK, Bookkeeping, Record, RowFree, Absent,
     Insert, hostVars, lockVars, procVars
<1>3. ASSUME NEW r \in Runs, Cancel(r) PROVE SuccessInv'
  <2>a. \/ status'[r] = status[r]
        \/ status[r] = "QUEUED" /\ status'[r] = "CANCELED"
        \/ /\ status[r] \in {"PREPARING", "SUBMITTED", "RUNNING"}
           /\ status'[r] = "CANCEL_REQUESTED"
    BY <1>3, CancelPathIs DEF Cancel, Record, TypeInv, TypeOK
  <2>b. \A q \in Runs : q # r => status'[q] = status[q]
    BY <1>3 DEF Cancel, Record, TypeInv, TypeOK
  <2>1. /\ \A q \in Runs : q # r => status'[q] = status[q]
        /\ status'[r] # status[r] => status[r] # "SUCCEEDED" /\ status'[r] # "SUCCEEDED"
    BY <2>a, <2>b
  <2>2. RowFree(r) /\ Kept /\ UNCHANGED <<pc, at>>
    BY <1>3 DEF Cancel, Kept, RanMeansStarted, SuccessInv, hostVars, procVars,
       TypeInv, TypeOK
  <2>3. RegistersTraining'
    <3> SUFFICES ASSUME NEW q \in Procs, pc[q] \in Registering PROVE Registers(q)'
      BY <2>2 DEF RegistersTraining
    <3>1. at[q] # r /\ at[q] \in Runs
      BY <2>2, BusyHasARun DEF RowFree, Registering
    <3> QED
      BY <2>1, <2>2, <3>1 DEF SuccessInv, RegistersTraining, Registers, Kept
  <2>4. SuccessIsBacked'
    BY <2>1, <2>2 DEF SuccessInv, SuccessIsBacked, Kept
  <2> QED
    BY <2>2, <2>3, <2>4 DEF SuccessInv, OneRegistrar, Kept
<1>4. ASSUME NEW r \in Runs, Cleanup(r) PROVE SuccessInv'
  BY <1>4, BusyHasARun, NullsAssumption
     DEF SuccessInv, OneRegistrar, RegistersTraining, Registers, RanMeansStarted,
     SuccessIsBacked, Registering, TypeInv, TypeOK, Bookkeeping, Record, RowFree, Absent,
     Cleanup, dbVars, lockVars, procVars, envVars
<1>5. ASSUME NEW r \in Runs, TrainingEnds(r) PROVE SuccessInv'
  BY <1>5, BusyHasARun, NullsAssumption
     DEF SuccessInv, OneRegistrar, RegistersTraining, Registers, RanMeansStarted,
     SuccessIsBacked, Registering, TypeInv, TypeOK, Bookkeeping, Record, RowFree, Absent,
     TrainingEnds, dbVars, lockVars, procVars, envVars
<1>6. ASSUME NEW r \in Runs, ContainerRemoved(r) PROVE SuccessInv'
  BY <1>6, BusyHasARun, NullsAssumption
     DEF SuccessInv, OneRegistrar, RegistersTraining, Registers, RanMeansStarted,
     SuccessIsBacked, Registering, TypeInv, TypeOK, Bookkeeping, Record, RowFree, Absent,
     ContainerRemoved, dbVars, lockVars, procVars
<1>7. ASSUME NEW p \in Procs, Crash(p) PROVE SuccessInv'
  BY <1>7, BusyHasARun, NullsAssumption
     DEF SuccessInv, OneRegistrar, RegistersTraining, Registers, RanMeansStarted,
     SuccessIsBacked, Registering, TypeInv, TypeOK, Bookkeeping, Record, RowFree, Absent,
     Crash, Leave, AbortTick, Unlock, dbVars, hostVars
<1>8. ASSUME NEW p \in Procs, ClaimLost(p) PROVE SuccessInv'
  BY <1>8, BusyHasARun, NullsAssumption
     DEF SuccessInv, OneRegistrar, RegistersTraining, Registers, RanMeansStarted,
     SuccessIsBacked, Registering, TypeInv, TypeOK, Bookkeeping, Record, RowFree, Absent,
     ClaimLost, dbVars, hostVars, procVars
<1>9. ASSUME NEW p \in Procs, Scan(p) PROVE SuccessInv'
  BY <1>9, BusyHasARun, NullsAssumption
     DEF SuccessInv, OneRegistrar, RegistersTraining, Registers, RanMeansStarted,
     SuccessIsBacked, Registering, TypeInv, TypeOK, Bookkeeping, Record, RowFree, Absent, Scan,
     dbVars, hostVars, lockVars, envVars
<1>10. ASSUME NEW p \in Procs, NEW r \in Runs, PopHint(p, r) PROVE SuccessInv'
  BY <1>10, BusyHasARun, NullsAssumption
     DEF SuccessInv, OneRegistrar, RegistersTraining, Registers, RanMeansStarted,
     SuccessIsBacked, Registering, TypeInv, TypeOK, Bookkeeping, Record, RowFree, Absent,
     PopHint, dbVars, hostVars, lockVars
<1>11. ASSUME NEW p \in Procs, NEW r \in Runs, Skip(p, r) PROVE SuccessInv'
  BY <1>11, BusyHasARun, NullsAssumption
     DEF SuccessInv, OneRegistrar, RegistersTraining, Registers, RanMeansStarted,
     SuccessIsBacked, Registering, TypeInv, TypeOK, Bookkeeping, Record, RowFree, Absent, Skip,
     dbVars, hostVars, lockVars, envVars
<1>12. ASSUME NEW p \in Procs, NEW r \in Runs, Claim(p, r) PROVE SuccessInv'
  BY <1>12, BusyHasARun, NullsAssumption
     DEF SuccessInv, OneRegistrar, RegistersTraining, Registers, RanMeansStarted,
     SuccessIsBacked, Registering, TypeInv, TypeOK, Bookkeeping, Record, RowFree, Absent,
     Claim, Goto, Route, dbVars, hostVars, envVars
<1>13. ASSUME NEW p \in Procs, Prepare(p) PROVE SuccessInv'
  <2>1. pc[p] # "idle" /\ at[p] \in Runs
    BY <1>13, BusyHasARun DEF Prepare, Submitting
  <2>2. /\ pc' = [pc EXCEPT ![p] = pc'[p]] /\ at' = [at EXCEPT ![p] = at'[p]]
        /\ pc'[p] \notin Registering
    BY <1>13, <2>1, ReturnLeaves DEF Prepare, Leave, Goto, Registering, TypeInv, TypeOK
  <2>3. Kept /\ RowFree(at[p])
    BY <1>13, <2>1 DEF Prepare, Kept, RanMeansStarted, SuccessInv, hostVars,
       TypeInv, TypeOK
  <2>4. \A r \in Runs : r # at[p] => status'[r] = status[r]
    BY <1>13, <2>1 DEF Prepare, Record, TypeInv, TypeOK
  <2>5. status'[at[p]] # status[at[p]] =>
          status[at[p]] # "SUCCEEDED" /\ status'[at[p]] # "SUCCEEDED"
    BY <1>13, <2>1 DEF Prepare, Record, TypeInv, TypeOK
  <2> QED
    BY <2>1, <2>2, <2>3, <2>4, <2>5, RegistrationSurvives
<1>14. ASSUME NEW p \in Procs, MakeWorkspace(p) PROVE SuccessInv'
  <2>1. pc[p] # "idle" /\ at[p] \in Runs
    BY <1>14, BusyHasARun DEF MakeWorkspace, Submitting
  <2>2. /\ pc' = [pc EXCEPT ![p] = pc'[p]] /\ at' = [at EXCEPT ![p] = at'[p]]
        /\ pc'[p] \notin Registering
    BY <1>14, <2>1, ReturnLeaves DEF MakeWorkspace, Leave, Goto, Registering, TypeInv, TypeOK
  <2>3. Kept /\ UNCHANGED status
    BY <1>14, <2>1 DEF MakeWorkspace, Kept, RanMeansStarted, SuccessInv, TypeInv, TypeOK,
                      dbVars, hostVars
  <2> QED
    BY <2>1, <2>2, <2>3, RegistrationSurvives DEF RowFree
<1>15. ASSUME NEW p \in Procs, Materialize(p) PROVE SuccessInv'
  <2>1. pc[p] # "idle" /\ at[p] \in Runs
    BY <1>15, BusyHasARun DEF Materialize, Submitting
  <2>2. /\ pc' = [pc EXCEPT ![p] = pc'[p]] /\ at' = [at EXCEPT ![p] = at'[p]]
        /\ pc'[p] \notin Registering
    BY <1>15, <2>1, ReturnLeaves DEF Materialize, Leave, Goto, Registering, TypeInv, TypeOK
  <2>3. Kept /\ UNCHANGED status
    BY <1>15, <2>1 DEF Materialize, Kept, RanMeansStarted, SuccessInv, TypeInv, TypeOK,
                      dbVars, hostVars
  <2> QED
    BY <2>1, <2>2, <2>3, RegistrationSurvives DEF RowFree
<1>16. ASSUME NEW p \in Procs, DockerCreate(p) PROVE SuccessInv'
  <2>1. pc[p] # "idle" /\ at[p] \in Runs
    BY <1>16, BusyHasARun DEF DockerCreate, Submitting
  <2>2. /\ pc' = [pc EXCEPT ![p] = pc'[p]] /\ at' = [at EXCEPT ![p] = at'[p]]
        /\ pc'[p] \notin Registering
    BY <1>16, <2>1, ReturnLeaves DEF DockerCreate, Leave, Goto, Registering, TypeInv, TypeOK
  <2>3. Kept /\ UNCHANGED status
    BY <1>16, <2>1 DEF DockerCreate, Kept, RanMeansStarted, SuccessInv, TypeInv, TypeOK,
                      dbVars, hostVars, CreateContainer
  <2> QED
    BY <2>1, <2>2, <2>3, RegistrationSurvives DEF RowFree
<1>17. ASSUME NEW p \in Procs, DockerStart(p) PROVE SuccessInv'
  <2>1. pc[p] # "idle" /\ at[p] \in Runs
    BY <1>17, BusyHasARun DEF DockerStart, Submitting
  <2>2. /\ pc' = [pc EXCEPT ![p] = pc'[p]] /\ at' = [at EXCEPT ![p] = at'[p]]
        /\ pc'[p] \notin Registering
    BY <1>17, <2>1, ReturnLeaves DEF DockerStart, Leave, Goto, Registering, TypeInv, TypeOK
  <2>a. \/ UNCHANGED <<container, starts>>
        \/ /\ container' = [container EXCEPT ![at[p]] = "running"]
           /\ \/ container[at[p]] = "running" /\ starts' = starts
              \/ starts' = [starts EXCEPT ![at[p]] = starts[at[p]] + 1]
    BY <1>17, <2>1 DEF DockerStart, StartContainer, TypeInv, TypeOK
  <2>b. \A r \in Runs : starts[r] > 0 => starts'[r] > 0
    <3>1. starts' = starts \/ starts' = [starts EXCEPT ![at[p]] = starts[at[p]] + 1]
      BY <2>a
    <3>2. starts \in [Runs -> Nat]
      BY DEF TypeInv, TypeOK
    <3> QED
      BY <2>1, <3>1, <3>2
  <2>c. RanMeansStarted'
    BY <2>a, <2>1 DEF SuccessInv, RanMeansStarted, TypeInv, TypeOK
  <2>3. Kept /\ UNCHANGED status
    BY <1>17, <2>b, <2>c DEF DockerStart, Kept, dbVars
  <2> QED
    BY <2>1, <2>2, <2>3, RegistrationSurvives DEF RowFree
<1>18. ASSUME NEW p \in Procs, RecordSubmitted(p) PROVE SuccessInv'
  <2>1. pc[p] # "idle" /\ at[p] \in Runs
    BY <1>18, BusyHasARun DEF RecordSubmitted, Submitting
  <2>2. /\ pc' = [pc EXCEPT ![p] = pc'[p]] /\ at' = [at EXCEPT ![p] = at'[p]]
        /\ pc'[p] \notin Registering
    BY <1>18, <2>1, ReturnLeaves DEF RecordSubmitted, Leave, Goto, Registering, TypeInv, TypeOK
  <2>3. Kept /\ RowFree(at[p])
    BY <1>18, <2>1 DEF RecordSubmitted, Kept, RanMeansStarted, SuccessInv, hostVars,
       TypeInv, TypeOK
  <2>4. \A r \in Runs : r # at[p] => status'[r] = status[r]
    BY <1>18, <2>1 DEF RecordSubmitted, Record, TypeInv, TypeOK
  <2>5. status'[at[p]] # status[at[p]] =>
          status[at[p]] # "SUCCEEDED" /\ status'[at[p]] # "SUCCEEDED"
    BY <1>18, <2>1 DEF RecordSubmitted, Record, TypeInv, TypeOK
  <2> QED
    BY <2>1, <2>2, <2>3, <2>4, <2>5, RegistrationSurvives
<1>19. ASSUME NEW p \in Procs, Inspect(p) PROVE SuccessInv'
  <2>1. pc[p] # "idle" /\ at[p] \in Runs
    BY <1>19, BusyHasARun DEF Inspect, Submitting
  <2>2. /\ pc' = [pc EXCEPT ![p] = pc'[p]] /\ at' = [at EXCEPT ![p] = at'[p]]
        /\ pc'[p] \notin Registering
    BY <1>19, <2>1, ReturnLeaves DEF Inspect, Leave, Goto, Registering, TypeInv, TypeOK,
         Observed, CancelReturned
  <2>3. Kept /\ UNCHANGED status
    BY <1>19, <2>1 DEF Inspect, Kept, RanMeansStarted, SuccessInv, TypeInv, TypeOK,
                      dbVars, hostVars
  <2> QED
    BY <2>1, <2>2, <2>3, RegistrationSurvives DEF RowFree
<1>20. ASSUME NEW p \in Procs, CancelInspect(p) PROVE SuccessInv'
  <2>1. pc[p] # "idle" /\ at[p] \in Runs
    BY <1>20, BusyHasARun DEF CancelInspect, Submitting
  <2>2. /\ pc' = [pc EXCEPT ![p] = pc'[p]] /\ at' = [at EXCEPT ![p] = at'[p]]
        /\ pc'[p] \notin Registering
    BY <1>20, <2>1, ReturnLeaves DEF CancelInspect, Leave, Goto, Registering, TypeInv, TypeOK,
         Observed, CancelReturned
  <2>3. Kept /\ UNCHANGED status
    BY <1>20, <2>1 DEF CancelInspect, Kept, RanMeansStarted, SuccessInv, TypeInv, TypeOK,
                      dbVars, hostVars
  <2> QED
    BY <2>1, <2>2, <2>3, RegistrationSurvives DEF RowFree
<1>21. ASSUME NEW p \in Procs, CancelTouch(p) PROVE SuccessInv'
  <2>1. pc[p] # "idle" /\ at[p] \in Runs
    BY <1>21, BusyHasARun DEF CancelTouch, Submitting
  <2>2. /\ pc' = [pc EXCEPT ![p] = pc'[p]] /\ at' = [at EXCEPT ![p] = at'[p]]
        /\ pc'[p] \notin Registering
    BY <1>21, <2>1, ReturnLeaves DEF CancelTouch, Leave, Goto, Registering, TypeInv, TypeOK,
         lockVars
  <2>3. Kept /\ UNCHANGED status
    BY <1>21, <2>1 DEF CancelTouch, Kept, RanMeansStarted, SuccessInv, TypeInv, TypeOK,
                      dbVars, hostVars
  <2> QED
    BY <2>1, <2>2, <2>3, RegistrationSurvives DEF RowFree
<1>22. ASSUME NEW p \in Procs, DockerStop(p) PROVE SuccessInv'
  <2>1. pc[p] # "idle" /\ at[p] \in Runs
    BY <1>22, BusyHasARun DEF DockerStop, Submitting
  <2>2. /\ pc' = [pc EXCEPT ![p] = pc'[p]] /\ at' = [at EXCEPT ![p] = at'[p]]
        /\ pc'[p] \notin Registering
    BY <1>22, <2>1, ReturnLeaves DEF DockerStop, Leave, Goto, Registering, TypeInv, TypeOK, GiveUp
  <2>3. Kept /\ UNCHANGED status
    BY <1>22, <2>1 DEF DockerStop, Kept, RanMeansStarted, SuccessInv, TypeInv, TypeOK,
                      dbVars, hostVars, StopContainer
  <2> QED
    BY <2>1, <2>2, <2>3, RegistrationSurvives DEF RowFree
<1>23. ASSUME NEW p \in Procs, CancelRestat(p) PROVE SuccessInv'
  <2>1. pc[p] # "idle" /\ at[p] \in Runs
    BY <1>23, BusyHasARun DEF CancelRestat, Submitting
  <2>2. /\ pc' = [pc EXCEPT ![p] = pc'[p]] /\ at' = [at EXCEPT ![p] = at'[p]]
        /\ pc'[p] \notin Registering
    BY <1>23, <2>1, ReturnLeaves DEF CancelRestat, Leave, Goto, Registering, TypeInv, TypeOK,
         Observed, CancelReturned
  <2>3. Kept /\ UNCHANGED status
    BY <1>23, <2>1 DEF CancelRestat, Kept, RanMeansStarted, SuccessInv, TypeInv, TypeOK,
                      dbVars, hostVars
  <2> QED
    BY <2>1, <2>2, <2>3, RegistrationSurvives DEF RowFree
<1>24. ASSUME NEW p \in Procs, Observe(p) PROVE SuccessInv'
  <2>1. pc[p] # "idle" /\ at[p] \in Runs
    BY <1>24, BusyHasARun DEF Observe, Submitting
  <2>2. /\ pc' = [pc EXCEPT ![p] = pc'[p]] /\ at' = [at EXCEPT ![p] = at'[p]]
        /\ pc'[p] \notin Registering
    BY <1>24, <2>1, ReturnLeaves DEF Observe, Leave, Goto, Registering, TypeInv, TypeOK
  <2>3. Kept /\ RowFree(at[p])
    BY <1>24, <2>1 DEF Observe, Kept, RanMeansStarted, SuccessInv, hostVars,
       TypeInv, TypeOK
  <2>4. \A r \in Runs : r # at[p] => status'[r] = status[r]
    BY <1>24, <2>1 DEF Observe, Record, TypeInv, TypeOK
  <2>5. status'[at[p]] # status[at[p]] =>
          status[at[p]] # "SUCCEEDED" /\ status'[at[p]] # "SUCCEEDED"
    <3> DEFINE path == ObservedPath(status[at[p]], obs[p], goal[p])
    <3> SUFFICES ASSUME status'[at[p]] # status[at[p]]
                 PROVE  status[at[p]] # "SUCCEEDED" /\ status'[at[p]] # "SUCCEEDED"
      OBVIOUS
    <3>1. ~Superseded(status[at[p]], goal[p]) /\ path # <<>>
          /\ status'[at[p]] = path[Len(path)]
      BY <1>24, <2>1 DEF Observe, Record, TypeInv, TypeOK
    <3>2. path # <<>> => path[Len(path)] # "SUCCEEDED"
      BY <1>24, ObservedIsNotSuccess DEF Observe, TypeInv, Bookkeeping
    <3> QED
      BY <3>1, <3>2 DEF Superseded, TERMINAL
  <2> QED
    BY <2>1, <2>2, <2>3, <2>4, <2>5, RegistrationSurvives
<1>25. ASSUME NEW p \in Procs, FinishBegin(p) PROVE SuccessInv'
  <2>1. pc[p] # "idle" /\ at[p] \in Runs /\ pc[p] \notin Registering /\ RowFree(at[p])
    BY <1>25, BusyHasARun DEF FinishBegin, Registering
  <2>2. /\ pc' = [pc EXCEPT ![p] = pc'[p]] /\ at' = [at EXCEPT ![p] = at'[p]]
        /\ pc'[p] \in Registering => pc'[p] = "put" /\ at'[p] = at[p]
    BY <1>25, <2>1, ReturnLeaves DEF FinishBegin, Leave, Goto, Registering, TypeInv, TypeOK
  <2>3. Kept /\ UNCHANGED status
    BY <1>25 DEF FinishBegin, Kept, RanMeansStarted, SuccessInv, dbVars, hostVars,
       TypeInv, TypeOK
  <2>4. pc'[p] \in Registering =>
          status[at[p]] = "POSTPROCESSING" /\ StatusOf(at[p]) = "SUCCEEDED"
    BY <1>25, <2>1, ReturnLeaves DEF FinishBegin, Leave, Goto, Registering, TypeInv, TypeOK
  <2>5. pc'[p] \in Registering => Registers(p)'
    BY <2>1, <2>2, <2>3, <2>4, SuccessMeansStarted DEF Registers, Kept
  <2> QED
    BY <2>1, <2>2, <2>3, <2>5, RegistrationSurvives DEF RowFree
<1>26. ASSUME NEW p \in Procs, FinishPut(p) PROVE SuccessInv'
  <2>1. pc[p] # "idle" /\ at[p] \in Runs /\ pc[p] \in Registering /\ Registers(p)
    BY <1>26, BusyHasARun DEF FinishPut, Registering, SuccessInv, RegistersTraining
  <2>2. /\ pc' = [pc EXCEPT ![p] = pc'[p]] /\ at' = [at EXCEPT ![p] = at'[p]]
        /\ pc'[p] \in Registering => at'[p] = at[p]
    BY <1>26, <2>1, ReturnLeaves DEF FinishPut, Leave, Goto, Registering, TypeInv, TypeOK
  <2>3. Kept /\ UNCHANGED status
    BY <1>26 DEF FinishPut, Kept, RanMeansStarted, SuccessInv, dbVars,
       TypeInv, TypeOK
  <2>4. pc'[p] \in Registering => at[p] \in stored'
    BY <1>26, <2>1, ReturnLeaves DEF FinishPut, Leave, Goto, Registering, TypeInv, TypeOK
  <2>5. pc'[p] \in Registering => Registers(p)'
    BY <2>1, <2>2, <2>3, <2>4 DEF Registers, Kept
  <2> QED
    BY <2>1, <2>2, <2>3, <2>5, RegistrationSurvives DEF RowFree
<1>27. ASSUME NEW p \in Procs, FinishCommit(p) PROVE SuccessInv'
  <2>1. /\ pc[p] \in Registering /\ at[p] \in Runs /\ Registers(p) /\ at[p] \in stored
    BY <1>27, BusyHasARun
       DEF FinishCommit, Registering, SuccessInv, RegistersTraining, Registers
  <2>2. \A q \in Procs \ {p} : pc[q] \in Registering => at[q] # at[p]
    BY <2>1 DEF SuccessInv, OneRegistrar
  <2>3. /\ pc' = [pc EXCEPT ![p] = "idle"] /\ at' = [at EXCEPT ![p] = NoRun]
        /\ status' = [status EXCEPT ![at[p]] = "SUCCEEDED"]
        /\ registered' = registered \cup {at[p]}
        /\ UNCHANGED <<stored, starts, container>>
    BY <1>27, <2>1, ReturnLeaves DEF FinishCommit, Leave, Record, hostVars, TypeInv, TypeOK
  <2>4. OneRegistrar'
    BY <2>3 DEF SuccessInv, OneRegistrar, Registering, TypeInv, TypeOK
  <2>5. RegistersTraining'
    <3> SUFFICES ASSUME NEW q \in Procs, pc'[q] \in Registering PROVE Registers(q)'
      BY DEF RegistersTraining
    <3>1. q # p /\ pc[q] \in Registering /\ at'[q] = at[q] /\ pc'[q] = pc[q] /\ at[q] \in Runs
      BY <2>3, BusyHasARun DEF Registering, TypeInv, TypeOK
    <3>2. status'[at[q]] = status[at[q]]
      BY <2>2, <2>3, <3>1 DEF TypeInv, TypeOK
    <3> QED
      BY <2>3, <3>1, <3>2 DEF SuccessInv, RegistersTraining, Registers
  <2>6. SuccessIsBacked'
    BY <2>1, <2>3 DEF SuccessInv, SuccessIsBacked, Registers, TypeInv, TypeOK
  <2> QED
    BY <2>3, <2>4, <2>5, <2>6 DEF SuccessInv, RanMeansStarted
<1> QED
  BY <1>1, <1>2, <1>3, <1>4, <1>5, <1>6, <1>7, <1>8, <1>9, <1>10, <1>11, <1>12, <1>13, <1>14,
       <1>15, <1>16, <1>17, <1>18, <1>19, <1>20, <1>21, <1>22, <1>23, <1>24, <1>25, <1>26, <1>27
     DEF Next, Web, Create, Clone, Environment, Process, Tick, Submit, Examine, Finish

\* A run is SUCCEEDED exactly when it owns a model version, whose bytes were
\* stored before, and only if its training was started: storing, registering and
\* succeeding happen under the row lock that the user's requests need too.
THEOREM SuccessIsAlwaysBacked == Spec => []SuccessIsBacked
<1>1. Init => TypeInv /\ SuccessInv
  BY TypeInit, SuccessInit
<1>2. TypeInv /\ SuccessInv /\ [Next]_vars => (TypeInv /\ SuccessInv)'
  BY TypeStep, SuccessStep
<1>3. SuccessInv => SuccessIsBacked
  BY DEF SuccessInv
<1> QED
  BY <1>1, <1>2, <1>3, PTL DEF Spec

-----------------------------------------------------------------------------
(* A cancel request is never undone.                                       *)

\* No observation brings a decided run back.
LEMMA DecidedStaysDecided ==
  ASSUME NEW s \in Decided, NEW o \in Observations, NEW purpose
  PROVE  LET path == ObservedPath(s, o, purpose)
         IN path # <<>> => path[Len(path)] \in Decided
<1> DEFINE path == ObservedPath(s, o, purpose)
<1>1. path \in {<<>>, <<"CANCELED">>, <<"FAILED">>, <<"LOST">>, <<"POSTPROCESSING">>,
                <<"CANCEL_REQUESTED", "CANCELED">>}
  <2>1. CASE o = "MISSING"
    BY <2>1 DEF ObservedPath
  <2>2. CASE o \in {"FAILED", "CANCELED", "PREPARING"}
    BY <2>2 DEF ObservedPath
  <2>3. CASE o \in {"RUNNING", "SUCCEEDED"}
    <3>1. path = Adopted(s) \o Verified(s, o)
      BY <2>3 DEF ObservedPath
    <3>2. Adopted(s) = <<>> /\ Verified(s, o) \in {<<>>, <<"POSTPROCESSING">>}
      BY DEF Adopted, Verified, Decided, TERMINAL
    <3>3. <<>> \o <<>> = <<>> /\ <<>> \o <<"POSTPROCESSING">> = <<"POSTPROCESSING">>
      OBVIOUS
    <3> QED
      BY <3>1, <3>2, <3>3
  <2> QED
    BY <2>1, <2>2, <2>3 DEF Observations
<1> QED
  BY <1>1 DEF Decided, TERMINAL

\* Every step leaves the runs that users asked to cancel decided.
LEMMA AskedStep ==
  ASSUME TypeInv, AskedInv, [Next]_vars PROVE AskedInv'
<1>1. CASE UNCHANGED vars
  BY <1>1 DEF AskedInv, TypeInv, TypeOK, vars, dbVars, hostVars, lockVars, procVars, envVars
<1>2. ASSUME NEW r \in Runs, Insert(r) PROVE AskedInv'
  <2>1. /\ asked' = asked /\ \A q \in Runs : q # r => status'[q] = status[q]
    BY <1>2 DEF Insert, Record, TypeInv, TypeOK
  <2>2. status[r] = Absent
    BY <1>2 DEF Insert
  <2> QED
    BY <2>1, <2>2 DEF AskedInv, Decided, TERMINAL, Absent, TypeInv, TypeOK
<1>3. ASSUME NEW r \in Runs, Cancel(r) PROVE AskedInv'
  <2>1. /\ asked' = asked \cup {r}
        /\ \A q \in Runs : q # r => status'[q] = status[q]
        /\ status[r] \in JobState
    BY <1>3 DEF Cancel, Record, TypeInv, TypeOK
  <2>2. \/ status'[r] = status[r]
           /\ status[r] \notin {"QUEUED", "PREPARING", "SUBMITTED", "RUNNING"}
        \/ status'[r] \in {"CANCELED", "CANCEL_REQUESTED"}
    <3> DEFINE path == CancelPath(status[r])
    <3>1. status'[r] = IF path = <<>> THEN status[r] ELSE path[Len(path)]
      BY <1>3 DEF Cancel, Record, TypeInv, TypeOK
    <3>2. path \in {<<"CANCELED">>, <<"CANCEL_REQUESTED">>} => path # <<>>
      BY CancelPathIs
    <3> QED
      BY <3>1, <3>2, CancelPathIs
  <2> QED
    BY <2>1, <2>2 DEF AskedInv, Decided, TERMINAL, JobState, TypeInv, TypeOK
<1>4. ASSUME NEW r \in Runs, Cleanup(r) PROVE AskedInv'
  BY <1>4, BusyHasARun, NullsAssumption
     DEF AskedInv, TypeInv, TypeOK, Cleanup, dbVars, lockVars, procVars, envVars
<1>5. ASSUME NEW r \in Runs, TrainingEnds(r) PROVE AskedInv'
  BY <1>5, BusyHasARun, NullsAssumption
     DEF AskedInv, TypeInv, TypeOK, TrainingEnds, dbVars, lockVars, procVars, envVars
<1>6. ASSUME NEW r \in Runs, ContainerRemoved(r) PROVE AskedInv'
  BY <1>6, BusyHasARun, NullsAssumption
     DEF AskedInv, TypeInv, TypeOK, ContainerRemoved, dbVars, lockVars, procVars
<1>7. ASSUME NEW p \in Procs, Crash(p) PROVE AskedInv'
  BY <1>7, BusyHasARun, NullsAssumption
     DEF AskedInv, TypeInv, TypeOK, Crash, Leave, AbortTick, Unlock, dbVars, hostVars
<1>8. ASSUME NEW p \in Procs, ClaimLost(p) PROVE AskedInv'
  BY <1>8, BusyHasARun, NullsAssumption
     DEF AskedInv, TypeInv, TypeOK, ClaimLost, dbVars, hostVars, procVars
<1>9. ASSUME NEW p \in Procs, Scan(p) PROVE AskedInv'
  BY <1>9, BusyHasARun, NullsAssumption
     DEF AskedInv, TypeInv, TypeOK, Scan, dbVars, hostVars, lockVars, envVars
<1>10. ASSUME NEW p \in Procs, NEW r \in Runs, PopHint(p, r) PROVE AskedInv'
  BY <1>10, BusyHasARun, NullsAssumption
     DEF AskedInv, TypeInv, TypeOK, PopHint, dbVars, hostVars, lockVars
<1>11. ASSUME NEW p \in Procs, NEW r \in Runs, Skip(p, r) PROVE AskedInv'
  BY <1>11, BusyHasARun, NullsAssumption
     DEF AskedInv, TypeInv, TypeOK, Skip, dbVars, hostVars, lockVars, envVars
<1>12. ASSUME NEW p \in Procs, NEW r \in Runs, Claim(p, r) PROVE AskedInv'
  BY <1>12, BusyHasARun, NullsAssumption
     DEF AskedInv, TypeInv, TypeOK, Claim, Goto, Route, dbVars, hostVars, envVars
<1>13. ASSUME NEW p \in Procs, Prepare(p) PROVE AskedInv'
  <2>1. /\ asked' = asked /\ \A q \in Runs : q # at[p] => status'[q] = status[q]
    BY <1>13 DEF Prepare, Record, envVars, TypeInv, TypeOK
  <2>2. status[at[p]] # "QUEUED" => status'[at[p]] = status[at[p]]
    BY <1>13 DEF Prepare, Record, TypeInv, TypeOK
  <2> QED
    BY <2>1, <2>2 DEF AskedInv, Decided, TERMINAL, TypeInv, TypeOK
<1>14. ASSUME NEW p \in Procs, MakeWorkspace(p) PROVE AskedInv'
  BY <1>14, BusyHasARun, NullsAssumption
     DEF AskedInv, TypeInv, TypeOK, MakeWorkspace, Goto, dbVars, envVars
<1>15. ASSUME NEW p \in Procs, Materialize(p) PROVE AskedInv'
  BY <1>15, BusyHasARun, NullsAssumption
     DEF AskedInv, TypeInv, TypeOK, Materialize, Goto, Unlock, dbVars, hostVars
<1>16. ASSUME NEW p \in Procs, DockerCreate(p) PROVE AskedInv'
  BY <1>16, BusyHasARun, NullsAssumption
     DEF AskedInv, TypeInv, TypeOK, DockerCreate, Goto, Unlock, CreateContainer, dbVars
<1>17. ASSUME NEW p \in Procs, DockerStart(p) PROVE AskedInv'
  BY <1>17, BusyHasARun, NullsAssumption
     DEF AskedInv, TypeInv, TypeOK, DockerStart, Goto, Unlock, StartContainer, dbVars
<1>18. ASSUME NEW p \in Procs, RecordSubmitted(p) PROVE AskedInv'
  <2>1. /\ asked' = asked /\ \A q \in Runs : q # at[p] => status'[q] = status[q]
    BY <1>18 DEF RecordSubmitted, Record, envVars, TypeInv, TypeOK
  <2>2. status[at[p]] # "PREPARING" => status'[at[p]] = status[at[p]]
    BY <1>18 DEF RecordSubmitted, Record, TypeInv, TypeOK
  <2> QED
    BY <2>1, <2>2 DEF AskedInv, Decided, TERMINAL, TypeInv, TypeOK
<1>19. ASSUME NEW p \in Procs, Inspect(p) PROVE AskedInv'
  BY <1>19, BusyHasARun, NullsAssumption
     DEF AskedInv, TypeInv, TypeOK, Inspect, Goto, Observed, Leave, AbortTick, Return, dbVars,
     hostVars
<1>20. ASSUME NEW p \in Procs, CancelInspect(p) PROVE AskedInv'
  BY <1>20, BusyHasARun, NullsAssumption
     DEF AskedInv, TypeInv, TypeOK, CancelInspect, Goto, CancelReturned, Observed, Leave,
     AbortTick, Return, dbVars, hostVars
<1>21. ASSUME NEW p \in Procs, CancelTouch(p) PROVE AskedInv'
  BY <1>21, BusyHasARun, NullsAssumption
     DEF AskedInv, TypeInv, TypeOK, CancelTouch, Goto, dbVars, lockVars, envVars
<1>22. ASSUME NEW p \in Procs, DockerStop(p) PROVE AskedInv'
  BY <1>22, BusyHasARun, NullsAssumption
     DEF AskedInv, TypeInv, TypeOK, DockerStop, Goto, StopContainer, GiveUp, Unlock, Leave,
     AbortTick, Return, dbVars, lockVars
<1>23. ASSUME NEW p \in Procs, CancelRestat(p) PROVE AskedInv'
  BY <1>23, BusyHasARun, NullsAssumption
     DEF AskedInv, TypeInv, TypeOK, CancelRestat, Goto, CancelReturned, Observed, Unlock,
     Leave, AbortTick, Return, dbVars, hostVars
<1>24. ASSUME NEW p \in Procs, Observe(p) PROVE AskedInv'
  <2>1. /\ asked' = asked /\ \A q \in Runs : q # at[p] => status'[q] = status[q]
    BY <1>24 DEF Observe, Record, envVars, TypeInv, TypeOK
  <2>2. ASSUME at[p] \in asked PROVE status'[at[p]] \in Decided
    <3> DEFINE path == ObservedPath(status[at[p]], obs[p], goal[p])
    <3>1. /\ at[p] \in Runs /\ obs[p] \in Observations /\ status[at[p]] \in Decided
      BY <1>24, <2>2, BusyHasARun DEF Observe, AskedInv, TypeInv, Bookkeeping
    <3>2. path # <<>> => path[Len(path)] \in Decided
      BY <3>1, DecidedStaysDecided
    <3>3. \/ status'[at[p]] = status[at[p]]
          \/ path # <<>> /\ status'[at[p]] = path[Len(path)]
      BY <1>24, <3>1 DEF Observe, Record, TypeInv, TypeOK
    <3> QED
      BY <3>1, <3>2, <3>3
  <2> QED
    BY <2>1, <2>2 DEF AskedInv, TypeInv, TypeOK
<1>25. ASSUME NEW p \in Procs, FinishBegin(p) PROVE AskedInv'
  BY <1>25, BusyHasARun, NullsAssumption
     DEF AskedInv, TypeInv, TypeOK, FinishBegin, Goto, Leave, AbortTick, Return, dbVars, hostVars
<1>26. ASSUME NEW p \in Procs, FinishPut(p) PROVE AskedInv'
  BY <1>26, BusyHasARun, NullsAssumption
     DEF AskedInv, TypeInv, TypeOK, FinishPut, Goto, Unlock, Leave, AbortTick, Return, dbVars
<1>27. ASSUME NEW p \in Procs, FinishCommit(p) PROVE AskedInv'
  <2>1. /\ asked' = asked /\ \A q \in Runs : q # at[p] => status'[q] = status[q]
    BY <1>27 DEF FinishCommit, Record, envVars, TypeInv, TypeOK
  <2>2. status'[at[p]] = "SUCCEEDED" \/ status'[at[p]] = status[at[p]]
    BY <1>27, BusyHasARun DEF FinishCommit, Record, TypeInv, TypeOK
  <2> QED
    BY <2>1, <2>2 DEF AskedInv, Decided, TERMINAL, TypeInv, TypeOK
<1> QED
  BY <1>1, <1>2, <1>3, <1>4, <1>5, <1>6, <1>7, <1>8, <1>9, <1>10, <1>11, <1>12, <1>13, <1>14,
       <1>15, <1>16, <1>17, <1>18, <1>19, <1>20, <1>21, <1>22, <1>23, <1>24, <1>25, <1>26, <1>27
     DEF Next, Web, Create, Clone, Environment, Process, Tick, Submit, Examine, Finish

\* Once a user has asked for cancellation no process brings the run back into
\* preparation or training: every transaction reads the row again, under its
\* lock, before it writes what was decided without it.
THEOREM CancelIsNeverUndone == Spec => CancelIsNotUndone
<1>1. Init => TypeInv /\ AskedInv
  BY TypeInit DEF Init, AskedInv
<1>2. TypeInv /\ AskedInv /\ [Next]_vars => (TypeInv /\ AskedInv)'
  BY TypeStep, AskedStep
<1>3. TypeInv /\ AskedInv /\ [Next]_vars =>
        [\A r \in asked :
           status'[r] # status[r] => status'[r] \notin {"PREPARING", "SUBMITTED", "RUNNING"}]_vars
  <2> SUFFICES ASSUME TypeInv, AskedInv, Next, NEW r \in asked
               PROVE  status'[r] \notin {"PREPARING", "SUBMITTED", "RUNNING"}
    OBVIOUS
  <2>1. asked \subseteq asked'
    BY DEF Next, Web, Environment, Process, Tick, Submit, Examine, Finish, Create, Clone,
           Insert, Cancel, Cleanup, TrainingEnds, ContainerRemoved, Crash, ClaimLost, Scan,
           PopHint, Skip, Claim, Prepare, MakeWorkspace, Materialize, DockerCreate,
           DockerStart, RecordSubmitted, Inspect, CancelInspect, CancelTouch, DockerStop,
           CancelRestat, Observe, FinishBegin, FinishPut, FinishCommit, envVars
  <2>2. AskedInv'
    BY AskedStep
  <2> QED
    BY <2>1, <2>2 DEF AskedInv, Decided, TERMINAL
<1> QED
  BY <1>1, <1>2, <1>3, PTL DEF Spec, CancelIsNotUndone

-----------------------------------------------------------------------------
(* A lost run is absent.                                                   *)

\* A row that says that training was submitted, or a process that acts on it, knows of
\* a run that was started: the one container it may have was created before, and nobody
\* creates a second one.
Launched == {"SUBMITTED", "RUNNING", "POSTPROCESSING", "LOST"}
LaunchedWasStarted == \A r \in Runs : status[r] \in Launched => starts[r] > 0

Watches(p) ==
  \/ pc[p] = "submitted"
  \/ pc[p] # "idle" /\ goal[p] = "watch"
  \/ pc[p] = "observe" /\ obs[p] \in {"RUNNING", "SUCCEEDED"}
Watcher(p) ==
  /\ pc[p] # "idle" => goal[p] # "none"
  /\ Watches(p) => starts[at[p]] > 0
  /\ pc[p] = "observe" /\ obs[p] = "MISSING" /\ goal[p] = "watch" => container[at[p]] = "none"

LostInv == LaunchedWasStarted /\ LostMeansAbsent /\ \A p \in Procs : Watcher(p)

\* What a step of the executor may do: a run that was started stays so, and a container
\* of it that is gone stays gone.
StaysGone ==
  \A r \in Runs : starts[r] > 0 =>
    starts'[r] > 0 /\ (container[r] = "none" => container'[r] = "none")

Unmoved(q) == pc'[q] = pc[q] /\ at'[q] = at[q] /\ goal'[q] = goal[q] /\ obs'[q] = obs[q]

\* Initially nothing was launched and nobody works.
LEMMA LostInit == Init => LostInv
  BY DEF Init, LostInv, LaunchedWasStarted, Launched, LostMeansAbsent, Watcher, Watches, Absent

\* A step that brings runs to launched states only if they were started, and to LOST only
\* if their container is gone, keeps the invariant.
LEMMA LostStays ==
  ASSUME TypeInv, LostInv, StaysGone,
         \A q \in Procs : Unmoved(q) \/ Watcher(q)',
         \A r \in Runs : status'[r] # status[r] =>
           /\ status'[r] \in Launched => starts[r] > 0
           /\ status'[r] = "LOST" => container[r] = "none"
  PROVE  LostInv'
<1>1. LaunchedWasStarted'
  BY DEF LostInv, LaunchedWasStarted, StaysGone
<1>2. LostMeansAbsent'
  <2> SUFFICES ASSUME NEW r \in Runs, status'[r] = "LOST" PROVE container'[r] = "none"
    BY DEF LostMeansAbsent
  <2>1. starts[r] > 0 /\ container[r] = "none"
    BY DEF LostInv, LaunchedWasStarted, LostMeansAbsent, Launched
  <2> QED
    BY <2>1 DEF StaysGone
<1>3. ASSUME NEW q \in Procs, Unmoved(q) PROVE Watcher(q)'
  <2>1. Watcher(q)
    BY DEF LostInv
  <2>2. pc[q] # "idle" => at[q] \in Runs
    BY BusyHasARun
  <2>3. Watches(q)' => Watches(q)
    BY <1>3 DEF Unmoved, Watches
  <2>4. Watches(q) => pc[q] # "idle"
    BY DEF Watches
  <2>5. Watches(q)' => starts'[at'[q]] > 0
    BY <1>3, <2>1, <2>2, <2>3, <2>4 DEF Unmoved, Watcher, StaysGone
  <2>6. ASSUME pc'[q] = "observe" /\ obs'[q] = "MISSING" /\ goal'[q] = "watch"
        PROVE  container'[at'[q]] = "none"
    <3>1. pc[q] = "observe" /\ obs[q] = "MISSING" /\ goal[q] = "watch" /\ at'[q] = at[q]
      BY <1>3, <2>6 DEF Unmoved
    <3>2. starts[at[q]] > 0 /\ container[at[q]] = "none" /\ at[q] \in Runs
      BY <2>1, <2>2, <3>1 DEF Watcher, Watches
    <3> QED
      BY <3>1, <3>2 DEF StaysGone
  <2>7. pc'[q] # "idle" => goal'[q] # "none"
    BY <1>3, <2>1 DEF Unmoved, Watcher
  <2> QED
    BY <2>5, <2>6, <2>7 DEF Watcher
<1> QED
  BY <1>1, <1>2, <1>3 DEF LostInv

\* A process that leaves its run watches nothing.
LEMMA LeaverFits ==
  ASSUME TypeInv, NEW p \in Procs, Leave(p)
  PROVE  \A q \in Procs : Unmoved(q) \/ Watcher(q)'
<1>1. pc'[p] = "idle" /\ \A q \in Procs \ {p} : Unmoved(q)
  BY DEF Leave, Unmoved, TypeInv, TypeOK
<1> QED
  BY <1>1 DEF Watcher, Watches

\* A process that goes on with the same purpose, to a step that asks for nothing new.
LEMMA WatcherGoes ==
  ASSUME TypeInv, LostInv, NEW p \in Procs, pc[p] # "idle",
         NEW step \in Steps \ {"idle", "observe"}, Goto(p, step),
         UNCHANGED <<at, goal, obs>>, StaysGone,
         step = "submitted" => starts'[at[p]] > 0
  PROVE  \A q \in Procs : Unmoved(q) \/ Watcher(q)'
<1>1. pc'[p] = step /\ \A q \in Procs \ {p} : Unmoved(q)
  BY DEF Goto, Unmoved, TypeInv, TypeOK
<1>2. Watcher(p) /\ at[p] \in Runs
  BY BusyHasARun DEF LostInv
<1>3. goal'[p] # "none" /\ (goal'[p] = "watch" => starts'[at'[p]] > 0)
  BY <1>2 DEF Watcher, Watches, StaysGone
<1>4. Watcher(p)'
  BY <1>1, <1>3 DEF Watcher, Watches
<1> QED
  BY <1>1, <1>4

\* A process that records what it saw: a container that ran was started.
LEMMA WatcherSees ==
  ASSUME TypeInv, SuccessInv, LostInv, NEW p \in Procs, pc[p] # "idle", NEW o \in Observations,
         Observed(p, o), UNCHANGED <<container, starts>>,
         o \in {"RUNNING", "SUCCEEDED", "MISSING"} => o = StatusOf(at[p])
  PROVE  \A q \in Procs : Unmoved(q) \/ Watcher(q)'
<1>1. pc'[p] = "observe" /\ obs'[p] = o /\ \A q \in Procs \ {p} : Unmoved(q)
  BY DEF Observed, Goto, Unmoved, TypeInv, TypeOK
<1>2. Watcher(p) /\ at[p] \in Runs /\ at' = at /\ goal' = goal
  BY BusyHasARun DEF LostInv, Observed
<1>3. container[at[p]] \in ContainerState /\ canceled[at[p]] \in BOOLEAN
  BY <1>2 DEF TypeInv, TypeOK
<1>4. StatusOf(at[p]) = "MISSING" => container[at[p]] = "none"
  BY <1>3 DEF StatusOf, ContainerState
<1>5. StatusOf(at[p]) \in {"RUNNING", "SUCCEEDED"} => container[at[p]] \in {"running", "complete"}
  BY <1>3 DEF StatusOf, ContainerState
<1>6. o \in {"RUNNING", "SUCCEEDED"} => starts[at[p]] > 0
  BY <1>2, <1>5 DEF SuccessInv, RanMeansStarted
<1>7. goal'[p] # "none" /\ (goal'[p] = "watch" => starts[at[p]] > 0)
  BY <1>2 DEF Watcher, Watches
<1>8. o = "MISSING" => container'[at'[p]] = "none"
  BY <1>2, <1>4
<1>9. Watcher(p)'
  BY <1>1, <1>2, <1>6, <1>7, <1>8 DEF Watcher, Watches
<1> QED
  BY <1>1, <1>9

\* So does one that uses what cancel() returned.
LEMMA CancelerSees ==
  ASSUME TypeInv, SuccessInv, LostInv, NEW p \in Procs, pc[p] # "idle",
         CancelReturned(p, StatusOf(at[p])), UNCHANGED <<container, starts>>
  PROVE  \A q \in Procs : Unmoved(q) \/ Watcher(q)'
<1> DEFINE s == StatusOf(at[p])
<1>1. s \in Observations /\ "FAILED" \in Observations
  BY BusyHasARun, StatusOfIsAnObservation DEF TypeInv, Observations
<1>2. \/ Observed(p, s)
      \/ s = "SUCCEEDED" /\ Observed(p, "SUCCEEDED")
      \/ Observed(p, "FAILED")
      \/ Return(p)
  BY DEF CancelReturned
<1>3. CASE Observed(p, s)
  BY <1>1, <1>3, WatcherSees
<1>4. CASE Observed(p, "FAILED")
  BY <1>1, <1>4, WatcherSees
<1>5. CASE Return(p)
  BY <1>5, ReturnLeaves, LeaverFits
<1> QED
  BY <1>2, <1>3, <1>4, <1>5

\* An observation launches a run only when a container was seen to run or to have run,
\* and loses it only when it was watched and is missing.
LEMMA ObservedLaunches ==
  ASSUME NEW s, NEW o \in Observations, NEW purpose
  PROVE  LET path == ObservedPath(s, o, purpose)
         IN /\ path # <<>> /\ path[Len(path)] \in Launched =>
                 o \in {"RUNNING", "SUCCEEDED"} \/ path[Len(path)] = "LOST"
            /\ path # <<>> /\ path[Len(path)] = "LOST" =>
                 o = "MISSING" /\ purpose \notin {"cancel", "recover"}
<1> DEFINE path == ObservedPath(s, o, purpose)
<1>1. CASE o \in {"RUNNING", "SUCCEEDED"}
  <2>1. path = Adopted(s) \o Verified(s, o)
    BY <1>1 DEF ObservedPath
  <2>2. /\ Adopted(s) \in {<<>>, <<"RUNNING">>, <<"SUBMITTED", "RUNNING">>}
        /\ Verified(s, o) \in {<<>>, <<"POSTPROCESSING">>}
    BY DEF Adopted, Verified
  <2>3. Adopted(s) \in Seq(JobState)
    <3>1. /\ <<>> \in Seq(JobState) /\ <<"RUNNING">> \in Seq(JobState)
          /\ <<"SUBMITTED", "RUNNING">> \in Seq(JobState)
      BY DEF JobState
    <3> QED
      BY <2>2, <3>1
  <2>4. path # <<>> => path[Len(path)] # "LOST"
    <3>1. CASE Verified(s, o) = <<>>
      BY <2>1, <2>2, <3>1
    <3>2. CASE Verified(s, o) = <<"POSTPROCESSING">>
      <4>1. \A a \in Seq(JobState) :
              LET end == a \o <<"POSTPROCESSING">> IN end[Len(end)] = "POSTPROCESSING"
        OBVIOUS
      <4> QED
        BY <2>1, <2>3, <3>2, <4>1
    <3> QED
      BY <2>2, <3>1, <3>2
  <2> QED
    BY <1>1, <2>4 DEF path
<1>2. CASE o = "MISSING"
  <2>1. path = <<IF purpose = "cancel" THEN "CANCELED"
                 ELSE IF purpose = "recover" \/ s = "POSTPROCESSING" THEN "FAILED" ELSE "LOST">>
    BY <1>2 DEF ObservedPath
  <2> HIDE DEF path
  <2>2. path[Len(path)] = "LOST" => purpose \notin {"cancel", "recover"}
    BY <2>1
  <2>3. path[Len(path)] \in {"CANCELED", "FAILED", "LOST"}
    BY <2>1
  <2> QED
    BY <1>2, <2>2, <2>3 DEF path, Launched
<1>3. CASE o \in {"FAILED", "CANCELED", "PREPARING"}
  <2>1. path \in {<<>>, <<"FAILED">>, <<"CANCELED">>, <<"CANCEL_REQUESTED", "CANCELED">>}
    BY <1>3 DEF ObservedPath
  <2> HIDE DEF path
  <2>2. path # <<>> => path[Len(path)] \in {"FAILED", "CANCELED"}
    BY <2>1
  <2> QED
    BY <2>2 DEF path, Launched
<1> QED
  BY <1>1, <1>2, <1>3 DEF Observations

\* The host does not bring a container of a started run back: only submission creates one,
\* and it submits nothing that was started.
LEMMA GoneStaysGone ==
  ASSUME TypeInv, NEW r \in Runs, \A q \in Runs : q # r => container'[q] = container[q],
         UNCHANGED starts,
         (container[r] # "none" \/ starts[r] = 0) \/ container'[r] = container[r]
  PROVE  StaysGone
  BY DEF StaysGone, TypeInv, TypeOK

\* Every step keeps lost runs absent.
LEMMA LostStep ==
  ASSUME TypeInv, LaunchInv, SuccessInv, LostInv, [Next]_vars PROVE LostInv'
<1>a. ASSUME UNCHANGED <<container, starts>> PROVE StaysGone
  BY <1>a DEF StaysGone
<1>b. ASSUME UNCHANGED <<pc, at, goal, obs>> PROVE \A q \in Procs : Unmoved(q) \/ Watcher(q)'
  BY <1>b DEF Unmoved
<1>1. CASE UNCHANGED vars
  BY <1>1, <1>a, <1>b, LostStays DEF vars, dbVars, hostVars, procVars
<1>2. ASSUME NEW r \in Runs, Insert(r) PROVE LostInv'
  <2>1. status' = [status EXCEPT ![r] = "QUEUED"]
    BY <1>2 DEF Insert, Record
  <2>2. UNCHANGED <<container, starts, pc, at, goal, obs>>
    BY <1>2 DEF Insert, hostVars, procVars
  <2>3. \A q \in Runs : status'[q] # status[q] => status'[q] = "QUEUED"
    BY <2>1 DEF TypeInv, TypeOK
  <2> QED
    BY <2>2, <2>3, <1>a, <1>b, LostStays DEF Launched
<1>3. ASSUME NEW r \in Runs, Cancel(r) PROVE LostInv'
  <2>1. status'[r] = status[r] \/ status'[r] \in {"CANCELED", "CANCEL_REQUESTED"}
    BY <1>3, CancelPathIs DEF Cancel, Record, TypeInv, TypeOK
  <2>2. UNCHANGED <<container, starts, pc, at, goal, obs>>
    BY <1>3 DEF Cancel, hostVars, procVars
  <2>3. \A q \in Runs : q # r => status'[q] = status[q]
    BY <1>3 DEF Cancel, Record, TypeInv, TypeOK
  <2> QED
    BY <2>1, <2>2, <2>3, <1>a, <1>b, LostStays DEF Launched
<1>4. ASSUME NEW r \in Runs, Cleanup(r) PROVE LostInv'
  <2>1. container[r] # "none" /\ container' = [container EXCEPT ![r] = "none"]
        /\ UNCHANGED <<status, starts, pc, at, goal, obs>>
    BY <1>4 DEF Cleanup, dbVars, procVars
  <2>2. StaysGone
    BY <2>1, GoneStaysGone DEF TypeInv, TypeOK
  <2> QED
    BY <2>1, <2>2, <1>b, LostStays
<1>5. ASSUME NEW r \in Runs, TrainingEnds(r) PROVE LostInv'
  <2>1. container[r] # "none" /\ UNCHANGED <<status, starts, pc, at, goal, obs>>
        /\ \A q \in Runs : q # r => container'[q] = container[q]
    BY <1>5 DEF TrainingEnds, dbVars, procVars, TypeInv, TypeOK
  <2>2. StaysGone
    BY <2>1, GoneStaysGone
  <2> QED
    BY <2>1, <2>2, <1>b, LostStays
<1>6. ASSUME NEW r \in Runs, ContainerRemoved(r) PROVE LostInv'
  <2>1. container[r] # "none" /\ UNCHANGED <<status, starts, pc, at, goal, obs>>
        /\ \A q \in Runs : q # r => container'[q] = container[q]
    BY <1>6 DEF ContainerRemoved, dbVars, procVars, TypeInv, TypeOK
  <2>2. StaysGone
    BY <2>1, GoneStaysGone
  <2> QED
    BY <2>1, <2>2, <1>b, LostStays
<1>7. ASSUME NEW p \in Procs, Crash(p) PROVE LostInv'
  <2>1. Leave(p) /\ UNCHANGED <<status, container, starts>>
    BY <1>7, ReturnLeaves DEF Crash, dbVars, hostVars
  <2> QED
    BY <2>1, <1>a, LeaverFits, LostStays
<1>8. ASSUME NEW p \in Procs, ClaimLost(p) PROVE LostInv'
  BY <1>8, <1>a, <1>b, LostStays DEF ClaimLost, dbVars, hostVars, procVars
<1>9. ASSUME NEW p \in Procs, Scan(p) PROVE LostInv'
  BY <1>9, <1>a, <1>b, LostStays DEF Scan, dbVars, hostVars
<1>10. ASSUME NEW p \in Procs, NEW r \in Runs, PopHint(p, r) PROVE LostInv'
  BY <1>10, <1>a, <1>b, LostStays DEF PopHint, dbVars, hostVars
<1>11. ASSUME NEW p \in Procs, NEW r \in Runs, Skip(p, r) PROVE LostInv'
  BY <1>11, <1>a, <1>b, LostStays DEF Skip, dbVars, hostVars
<1>12. ASSUME NEW p \in Procs, NEW r \in Runs, Claim(p, r) PROVE LostInv'
  <2>1. UNCHANGED <<status, container, starts>> /\ Route(p, status[r]) # "idle"
    BY <1>12 DEF Claim, dbVars, hostVars
  <2>2. pc'[p] = Route(p, status[r]) /\ at'[p] = r /\ goal'[p] = Purpose(status[r])
        /\ \A q \in Procs \ {p} : Unmoved(q)
    BY <1>12 DEF Claim, Goto, Unmoved, TypeInv, TypeOK
  <2>3. status[r] \in {"QUEUED", "PREPARING", "CANCEL_REQUESTED"} \cup Launched
    BY <2>1, RouteIs DEF Launched
  <2>4. Purpose(status[r]) # "none"
        /\ (Purpose(status[r]) = "watch" => status[r] \in Launched)
    BY <2>3 DEF Purpose
  <2>5. pc'[p] \notin {"submitted", "observe"}
    BY <2>2, RouteIs
  <2>6. goal'[p] # "none" /\ (goal'[p] = "watch" => starts'[at'[p]] > 0)
    BY <2>1, <2>2, <2>4 DEF LostInv, LaunchedWasStarted
  <2>7. Watcher(p)'
    BY <2>5, <2>6 DEF Watcher, Watches
  <2> QED
    BY <2>1, <2>2, <2>7, <1>a, LostStays
<1>13. ASSUME NEW p \in Procs, Prepare(p) PROVE LostInv'
  <2>1. pc[p] # "idle" /\ at[p] \in Runs /\ UNCHANGED <<container, starts>>
    BY <1>13, BusyHasARun DEF Prepare, hostVars
  <2>2. \A r \in Runs : status'[r] # status[r] => status'[r] = "PREPARING"
    BY <1>13, <2>1 DEF Prepare, Record, TypeInv, TypeOK
  <2>3. Leave(p) \/ (Goto(p, "mkdir") /\ UNCHANGED <<at, goal, obs>>)
    BY <1>13, ReturnLeaves DEF Prepare
  <2>4. \A q \in Procs : Unmoved(q) \/ Watcher(q)'
    BY <2>1, <2>3, <1>a, LeaverFits, WatcherGoes DEF Steps
  <2> QED
    BY <2>1, <2>2, <2>4, <1>a, LostStays DEF Launched
<1>14. ASSUME NEW p \in Procs, MakeWorkspace(p) PROVE LostInv'
  <2>1. pc[p] # "idle" /\ UNCHANGED <<status, container, starts>>
    BY <1>14 DEF MakeWorkspace, dbVars
  <2>2. PICK step \in {"materialize", "inspect"} : Goto(p, step) /\ UNCHANGED <<at, goal, obs>>
    BY <1>14 DEF MakeWorkspace
  <2>3. step \in Steps \ {"idle", "observe"} /\ step # "submitted"
    BY DEF Steps, Submitting
  <2>4. \A q \in Procs : Unmoved(q) \/ Watcher(q)'
    BY <2>1, <2>2, <2>3, <1>a, WatcherGoes
  <2> QED
    BY <2>1, <2>4, <1>a, LostStays
<1>15. ASSUME NEW p \in Procs, Materialize(p) PROVE LostInv'
  <2>1. pc[p] # "idle" /\ UNCHANGED <<status, container, starts>>
    BY <1>15 DEF Materialize, dbVars, hostVars
  <2>2. PICK step \in {"create", "inspect"} : Goto(p, step) /\ UNCHANGED <<at, goal, obs>>
    BY <1>15 DEF Materialize
  <2>3. step \in Steps \ {"idle", "observe"} /\ step # "submitted"
    BY DEF Steps, Submitting
  <2>4. \A q \in Procs : Unmoved(q) \/ Watcher(q)'
    BY <2>1, <2>2, <2>3, <1>a, WatcherGoes
  <2> QED
    BY <2>1, <2>4, <1>a, LostStays
<1>16. ASSUME NEW p \in Procs, DockerCreate(p) PROVE LostInv'
  <2>1. pc[p] # "idle" /\ at[p] \in Runs /\ UNCHANGED <<status, starts>> /\ starts[at[p]] = 0
    BY <1>16, BusyHasARun
       DEF DockerCreate, dbVars, LaunchInv, SubmissionIsExclusive, Submitting
  <2>2. \A q \in Runs : q # at[p] => container'[q] = container[q]
    BY <1>16 DEF DockerCreate, CreateContainer, TypeInv, TypeOK
  <2>3. StaysGone
    BY <2>1, <2>2, GoneStaysGone
  <2>4. PICK step \in {"start", "inspect"} : Goto(p, step) /\ UNCHANGED <<at, goal, obs>>
    BY <1>16 DEF DockerCreate
  <2>5. step \in Steps \ {"idle", "observe"} /\ step # "submitted"
    BY DEF Steps, Submitting
  <2>6. \A q \in Procs : Unmoved(q) \/ Watcher(q)'
    BY <2>1, <2>3, <2>4, <2>5, WatcherGoes
  <2> QED
    BY <2>1, <2>3, <2>6, LostStays
<1>17. ASSUME NEW p \in Procs, DockerStart(p) PROVE LostInv'
  <2>1. pc[p] # "idle" /\ at[p] \in Runs /\ UNCHANGED status /\ starts[at[p]] = 0
    BY <1>17, BusyHasARun
       DEF DockerStart, dbVars, LaunchInv, SubmissionIsExclusive, Submitting
  <2>2. container[at[p]] # "running"
    BY <2>1 DEF SuccessInv, RanMeansStarted
  <2>3. \/ UNCHANGED <<container, starts>>
        \/ /\ container' = [container EXCEPT ![at[p]] = "running"]
           /\ starts' = [starts EXCEPT ![at[p]] = starts[at[p]] + 1]
    BY <1>17, <2>1, <2>2 DEF DockerStart, StartContainer
  <2>4. starts \in [Runs -> Nat] /\ container \in [Runs -> ContainerState]
    BY DEF TypeInv, TypeOK
  <2>5. \A q \in Runs : q # at[p] => container'[q] = container[q] /\ starts'[q] = starts[q]
    BY <2>1, <2>3, <2>4
  <2>6. StaysGone
    BY <2>1, <2>5 DEF StaysGone
  <2>7. PICK step \in {"submitted", "inspect"} : 
          Goto(p, step) /\ UNCHANGED <<at, goal, obs>> /\ (step = "submitted" => StartContainer(at[p]))
    BY <1>17 DEF DockerStart
  <2>8. StartContainer(at[p]) => starts'[at[p]] > 0
    BY <2>1, <2>2, <2>4 DEF StartContainer
  <2>9. step \in Steps \ {"idle", "observe"}
    BY DEF Steps, Submitting
  <2>10. \A q \in Procs : Unmoved(q) \/ Watcher(q)'
    BY <2>1, <2>6, <2>7, <2>8, <2>9, WatcherGoes
  <2> QED
    BY <2>1, <2>6, <2>10, LostStays
<1>18. ASSUME NEW p \in Procs, RecordSubmitted(p) PROVE LostInv'
  <2>1. pc[p] = "submitted" /\ at[p] \in Runs /\ UNCHANGED <<container, starts>> /\ Leave(p)
    BY <1>18, BusyHasARun, ReturnLeaves DEF RecordSubmitted, hostVars
  <2>2. starts[at[p]] > 0
    BY <2>1 DEF LostInv, Watcher, Watches
  <2>3. \A r \in Runs : status'[r] # status[r] => r = at[p] /\ status'[r] = "SUBMITTED"
    BY <1>18, <2>1 DEF RecordSubmitted, Record, TypeInv, TypeOK
  <2> QED
    BY <2>1, <2>2, <2>3, <1>a, LeaverFits, LostStays
<1>19. ASSUME NEW p \in Procs, Inspect(p) PROVE LostInv'
  <2>1. pc[p] # "idle" /\ at[p] \in Runs /\ UNCHANGED <<status, container, starts>>
    BY <1>19, BusyHasARun DEF Inspect, dbVars, hostVars
  <2>2. StatusOf(at[p]) \in Observations
    BY <2>1, StatusOfIsAnObservation DEF TypeInv
  <2>3. \/ Goto(p, "cancel") /\ UNCHANGED <<at, goal, obs>>
        \/ Observed(p, StatusOf(at[p]))
        \/ Return(p)
    BY <1>19 DEF Inspect
  <2>4. CASE Goto(p, "cancel") /\ UNCHANGED <<at, goal, obs>>
    <3>1. \A q \in Procs : Unmoved(q) \/ Watcher(q)'
      BY <2>1, <2>4, <1>a, WatcherGoes DEF Steps
    <3> QED
      BY <2>1, <3>1, <1>a, LostStays
  <2>5. CASE Observed(p, StatusOf(at[p]))
    BY <2>1, <2>2, <2>5, <1>a, WatcherSees, LostStays
  <2>6. CASE Return(p)
    BY <2>1, <2>6, <1>a, ReturnLeaves, LeaverFits, LostStays
  <2> QED
    BY <2>3, <2>4, <2>5, <2>6
<1>20. ASSUME NEW p \in Procs, CancelInspect(p) PROVE LostInv'
  <2>1. pc[p] # "idle" /\ UNCHANGED <<status, container, starts>>
    BY <1>20 DEF CancelInspect, dbVars, hostVars
  <2>2. \/ Goto(p, "touch") /\ UNCHANGED <<at, goal, obs>>
        \/ CancelReturned(p, StatusOf(at[p]))
        \/ Return(p)
    BY <1>20 DEF CancelInspect
  <2>3. \A q \in Procs : Unmoved(q) \/ Watcher(q)'
    BY <2>1, <2>2, <1>a, WatcherGoes, CancelerSees, ReturnLeaves, LeaverFits DEF Steps
  <2> QED
    BY <2>1, <2>3, <1>a, LostStays
<1>21. ASSUME NEW p \in Procs, CancelTouch(p) PROVE LostInv'
  <2>1. pc[p] # "idle" /\ UNCHANGED <<status, container, starts, at, goal, obs>> /\ Goto(p, "stop")
    BY <1>21 DEF CancelTouch, dbVars
  <2>2. \A q \in Procs : Unmoved(q) \/ Watcher(q)'
    BY <2>1, <1>a, WatcherGoes DEF Steps
  <2> QED
    BY <2>1, <2>2, <1>a, LostStays
<1>22. ASSUME NEW p \in Procs, DockerStop(p) PROVE LostInv'
  <2>1. pc[p] # "idle" /\ at[p] \in Runs /\ UNCHANGED <<status, starts>>
    BY <1>22, BusyHasARun DEF DockerStop, dbVars
  <2>2. /\ \A q \in Runs : q # at[p] => container'[q] = container[q]
        /\ container[at[p]] # "none" \/ container'[at[p]] = container[at[p]]
    BY <1>22, <2>1 DEF DockerStop, StopContainer, TypeInv, TypeOK
  <2>3. StaysGone
    BY <2>1, <2>2, GoneStaysGone
  <2>4. (Goto(p, "restat") /\ UNCHANGED <<at, goal, obs>>) \/ Leave(p)
    BY <1>22, ReturnLeaves DEF DockerStop
  <2>5. \A q \in Procs : Unmoved(q) \/ Watcher(q)'
    BY <2>1, <2>3, <2>4, WatcherGoes, LeaverFits DEF Steps
  <2> QED
    BY <2>1, <2>3, <2>5, LostStays
<1>23. ASSUME NEW p \in Procs, CancelRestat(p) PROVE LostInv'
  <2>1. pc[p] # "idle" /\ UNCHANGED <<status, container, starts>>
    BY <1>23 DEF CancelRestat, dbVars, hostVars
  <2>2. CancelReturned(p, StatusOf(at[p])) \/ Leave(p)
    BY <1>23, ReturnLeaves DEF CancelRestat
  <2>3. \A q \in Procs : Unmoved(q) \/ Watcher(q)'
    BY <2>1, <2>2, CancelerSees, LeaverFits
  <2> QED
    BY <2>1, <2>3, <1>a, LostStays
<1>24. ASSUME NEW p \in Procs, Observe(p) PROVE LostInv'
  <2> DEFINE path == ObservedPath(status[at[p]], obs[p], goal[p])
  <2>1. /\ pc[p] = "observe" /\ at[p] \in Runs /\ obs[p] \in Observations
        /\ goal[p] \in Goals \ {"none"} /\ Watcher(p) /\ UNCHANGED <<container, starts>>
    BY <1>24, BusyHasARun DEF Observe, hostVars, TypeInv, TypeOK, Bookkeeping, LostInv, Watcher
  <2>2. \A r \in Runs : status'[r] # status[r] =>
          r = at[p] /\ path # <<>> /\ status'[r] = path[Len(path)]
    BY <1>24, <2>1 DEF Observe, Record, TypeInv, TypeOK
  <2>3. /\ path # <<>> /\ path[Len(path)] \in Launched =>
             obs[p] \in {"RUNNING", "SUCCEEDED"} \/ path[Len(path)] = "LOST"
        /\ path # <<>> /\ path[Len(path)] = "LOST" =>
             obs[p] = "MISSING" /\ goal[p] \notin {"cancel", "recover"}
    BY <2>1, ObservedLaunches
  <2>4. (Goto(p, "finish") /\ UNCHANGED <<at, goal, obs>>) \/ Leave(p)
    BY <1>24, ReturnLeaves DEF Observe
  <2> HIDE DEF path
  <2>5. \A q \in Procs : Unmoved(q) \/ Watcher(q)'
    BY <2>1, <2>4, <1>a, WatcherGoes, LeaverFits DEF Steps
  <2>6. goal[p] \notin {"cancel", "recover"} => goal[p] = "watch"
    BY <2>1 DEF Goals
  <2>7. path # <<>> /\ path[Len(path)] = "LOST" => starts[at[p]] > 0 /\ container[at[p]] = "none"
    BY <2>1, <2>3, <2>6 DEF Watcher, Watches
  <2>8. path # <<>> /\ path[Len(path)] \in Launched => starts[at[p]] > 0
    BY <2>1, <2>3, <2>7 DEF Watcher, Watches
  <2> QED
    BY <2>1, <2>2, <2>5, <2>7, <2>8, <1>a, LostStays
<1>25. ASSUME NEW p \in Procs, FinishBegin(p) PROVE LostInv'
  <2>1. pc[p] # "idle" /\ UNCHANGED <<status, container, starts>>
    BY <1>25 DEF FinishBegin, dbVars, hostVars
  <2>2. (Goto(p, "put") /\ UNCHANGED <<at, goal, obs>>) \/ Leave(p)
    BY <1>25, ReturnLeaves DEF FinishBegin
  <2>3. \A q \in Procs : Unmoved(q) \/ Watcher(q)'
    BY <2>1, <2>2, <1>a, WatcherGoes, LeaverFits DEF Steps
  <2> QED
    BY <2>1, <2>3, <1>a, LostStays
<1>26. ASSUME NEW p \in Procs, FinishPut(p) PROVE LostInv'
  <2>1. pc[p] # "idle" /\ UNCHANGED <<status, container, starts>>
    BY <1>26 DEF FinishPut, dbVars
  <2>2. (Goto(p, "commit") /\ UNCHANGED <<at, goal, obs>>) \/ Leave(p)
    BY <1>26, ReturnLeaves DEF FinishPut
  <2>3. \A q \in Procs : Unmoved(q) \/ Watcher(q)'
    BY <2>1, <2>2, <1>a, WatcherGoes, LeaverFits DEF Steps
  <2> QED
    BY <2>1, <2>3, <1>a, LostStays
<1>27. ASSUME NEW p \in Procs, FinishCommit(p) PROVE LostInv'
  <2>1. Leave(p) /\ UNCHANGED <<container, starts>>
    BY <1>27, ReturnLeaves DEF FinishCommit, hostVars
  <2>2. \A r \in Runs : status'[r] # status[r] => status'[r] = "SUCCEEDED"
    BY <1>27, BusyHasARun DEF FinishCommit, Record, TypeInv, TypeOK
  <2> QED
    BY <2>1, <2>2, <1>a, LeaverFits, LostStays DEF Launched
<1> QED
  BY <1>1, <1>2, <1>3, <1>4, <1>5, <1>6, <1>7, <1>8, <1>9, <1>10, <1>11, <1>12, <1>13, <1>14,
       <1>15, <1>16, <1>17, <1>18, <1>19, <1>20, <1>21, <1>22, <1>23, <1>24, <1>25, <1>26, <1>27
     DEF Next, Web, Create, Clone, Environment, Process, Tick, Submit, Examine, Finish

\* A run is LOST only while no container of it exists, and forever after: status() tells
\* an absent container from a daemon that does not answer, and submit(), which alone
\* creates containers, is never repeated for a run that was launched.  It holds for runs
\* whose claim was lost, too.
THEOREM LostRunsAreAbsent == Spec => []LostMeansAbsent
<1>1. Init => TypeInv /\ LaunchInv /\ SuccessInv /\ LostInv
  BY TypeInit, LaunchInit, SuccessInit, LostInit
<1>2. TypeInv /\ LaunchInv /\ SuccessInv /\ LostInv /\ [Next]_vars =>
        (TypeInv /\ LaunchInv /\ SuccessInv /\ LostInv)'
  BY TypeStep, LaunchStep, SuccessStep, LostStep
<1>3. LostInv => LostMeansAbsent
  BY DEF LostInv
<1> QED
  BY <1>1, <1>2, <1>3, PTL DEF Spec

-----------------------------------------------------------------------------
(* Observations fit the row they are recorded in.                          *)

\* The statuses a process can find with the purpose it took a run for, as long as its
\* claim holds: its own writes and the requests of users go no further.
Found(g) ==
  IF g = "recover" THEN {"QUEUED", "CANCELED", "PREPARING", "CANCEL_REQUESTED"}
  ELSE IF g = "watch" THEN {"SUBMITTED", "RUNNING", "CANCEL_REQUESTED"}
  ELSE {"CANCEL_REQUESTED"}

Asks(p) == pc[p] \notin {"idle", "finish", "put", "commit"}
FoundInv == \A p \in Procs : Asks(p) /\ at[p] \notin lost => status[at[p]] \in Found(goal[p])

\* A process goes on asking for the run, and for the purpose, it asked for before.
Continues(q) == Asks(q)' => Asks(q) /\ at'[q] = at[q] /\ goal'[q] = goal[q]

\* A step leaves a row where every purpose that could find it before can find it, or it is
\* the step of a process that has finished with the row and held its claim.
LEMMA FoundStays ==
  ASSUME TypeInv, QuietInv, FoundInv, lost \subseteq lost', \A q \in Procs : Continues(q),
         \A r \in Runs :
           \/ \A g : status[r] \in Found(g) => status'[r] \in Found(g)
           \/ \E p \in Procs : pc[p] # "idle" /\ at[p] = r /\ ~Asks(p)'
  PROVE  FoundInv'
<1> SUFFICES ASSUME NEW q \in Procs, Asks(q)', at'[q] \notin lost'
             PROVE  status'[at'[q]] \in Found(goal'[q])
  BY DEF FoundInv
<1>1. Asks(q) /\ at'[q] = at[q] /\ goal'[q] = goal[q] /\ at[q] \notin lost /\ pc[q] # "idle"
  BY DEF Continues, Asks
<1>2. at[q] \in Runs /\ status[at[q]] \in Found(goal[q]) /\ claim[at[q]] = q
  BY <1>1, BusyHasARun DEF FoundInv, QuietInv, ClaimIsHeld
<1>3. ASSUME NEW p \in Procs, pc[p] # "idle", at[p] = at[q], ~Asks(p)' PROVE FALSE
  BY <1>1, <1>2, <1>3 DEF QuietInv, ClaimIsHeld
<1> QED
  BY <1>1, <1>2, <1>3

\* A process that leaves asks for nothing.
LEMMA LeaverContinues ==
  ASSUME TypeInv, NEW p \in Procs, Leave(p)
  PROVE  ~Asks(p)' /\ \A q \in Procs : Continues(q)
  BY DEF Leave, Continues, Asks, TypeInv, TypeOK

\* Nor does one that goes on, to register what it found, ask for anything new.
LEMMA GoerContinues ==
  ASSUME TypeInv, NEW p \in Procs, NEW step, Goto(p, step), UNCHANGED <<at, goal>>,
         Asks(p) \/ step \in {"put", "commit"}
  PROVE  \A q \in Procs : Continues(q)
  BY DEF Goto, Continues, Asks, TypeInv, TypeOK

\* The steps of a process that works on a run.
LEMMA WorkerContinues ==
  ASSUME TypeInv, NEW p \in Procs, Submit(p) \/ Examine(p) \/ Finish(p) \/ Crash(p)
  PROVE  \A q \in Procs : Continues(q)
<1>1. ASSUME Submit(p)
      PROVE  Leave(p) \/ (\E step : Goto(p, step) /\ UNCHANGED <<at, goal>> /\ Asks(p))
  BY <1>1, ReturnLeaves DEF Submit, Prepare, MakeWorkspace, Materialize, DockerCreate, DockerStart,
     RecordSubmitted, Asks
<1>2. ASSUME Examine(p)
      PROVE  Leave(p) \/ (\E step : Goto(p, step) /\ UNCHANGED <<at, goal>> /\ Asks(p))
  <2>1. Asks(p)
    BY <1>2 DEF Examine, Inspect, CancelInspect, CancelTouch, DockerStop, CancelRestat, Observe, Asks
  <2>2. Leave(p) \/ (\E step : Goto(p, step) /\ UNCHANGED <<at, goal>>)
    BY <1>2, ReturnLeaves DEF Examine, Inspect, CancelInspect, CancelTouch, DockerStop,
       CancelRestat, Observe, Observed, CancelReturned
  <2> QED
    BY <2>1, <2>2
<1>3. ASSUME Finish(p)
      PROVE  Leave(p) \/ (\E step \in {"put", "commit"} : Goto(p, step) /\ UNCHANGED <<at, goal>>)
  BY <1>3, ReturnLeaves DEF Finish, FinishBegin, FinishPut, FinishCommit
<1>4. Crash(p) => Leave(p)
  BY ReturnLeaves DEF Crash
<1> QED
  BY <1>1, <1>2, <1>3, <1>4, LeaverContinues, GoerContinues

\* A worker or reconciler takes a run for what its row says.
LEMMA PurposeIsFound ==
  ASSUME NEW p \in Procs, NEW s, Route(p, s) \notin {"idle", "finish"}
  PROVE  s \in Found(Purpose(s))
<1>1. s \in {"QUEUED", "PREPARING", "SUBMITTED", "RUNNING", "CANCEL_REQUESTED"}
  BY RouteIs
<1> QED
  BY <1>1 DEF Found, Purpose

LEMMA FoundStep ==
  ASSUME TypeInv, QuietInv, FoundInv, [Next]_vars PROVE FoundInv'
<1>1. CASE UNCHANGED vars
  BY <1>1 DEF FoundInv, Asks, vars, dbVars, procVars, envVars
<1>2. ASSUME NEW r \in Runs, Insert(r) \/ Cancel(r) PROVE FoundInv'
  <2>1. UNCHANGED <<pc, at, goal, lost>> /\ \A q \in Runs : q # r => status'[q] = status[q]
    BY <1>2 DEF Insert, Cancel, Record, TypeInv, TypeOK, procVars
  <2>2. \/ status'[r] = status[r] \/ status[r] = Absent
        \/ status[r] = "QUEUED" /\ status'[r] = "CANCELED"
        \/ status[r] \in {"PREPARING", "SUBMITTED", "RUNNING"} /\ status'[r] = "CANCEL_REQUESTED"
    BY <1>2, CancelPathIs DEF Insert, Cancel, Record, TypeInv, TypeOK
  <2>3. \A g : status[r] \in Found(g) => status'[r] \in Found(g)
    BY <2>2 DEF Found, Absent
  <2>4. \A q \in Procs : Continues(q)
    BY <2>1 DEF Continues, Asks
  <2> QED
    BY <2>1, <2>3, <2>4, FoundStays
<1>3. ASSUME \/ \E r \in Runs : Cleanup(r) \/ TrainingEnds(r) \/ ContainerRemoved(r)
             \/ \E p \in Procs : ClaimLost(p) \/ Scan(p)
             \/ \E p \in Procs, r \in Runs : PopHint(p, r) \/ Skip(p, r)
      PROVE  FoundInv'
  <2>1. UNCHANGED <<status, pc, at, goal>> /\ lost \subseteq lost'
    BY <1>3 DEF Cleanup, TrainingEnds, ContainerRemoved, ClaimLost, Scan, PopHint, Skip, dbVars,
       procVars, envVars
  <2> QED
    BY <2>1 DEF FoundInv, Asks
<1>4. ASSUME NEW p \in Procs, NEW r \in Runs, Claim(p, r) PROVE FoundInv'
  <2>1. /\ UNCHANGED <<status, lost>>
        /\ pc'[p] = Route(p, status[r]) /\ at'[p] = r /\ goal'[p] = Purpose(status[r])
        /\ \A q \in Procs : q # p => pc'[q] = pc[q] /\ at'[q] = at[q] /\ goal'[q] = goal[q]
    BY <1>4 DEF Claim, Goto, TypeInv, TypeOK, dbVars, envVars
  <2>2. Asks(p)' => status'[at'[p]] \in Found(goal'[p])
    BY <2>1, PurposeIsFound DEF Asks
  <2> QED
    BY <2>1, <2>2 DEF FoundInv, Asks
<1>5. ASSUME NEW p \in Procs, Submit(p) \/ Examine(p) \/ Finish(p) \/ Crash(p) PROVE FoundInv'
  <2>1. \A q \in Procs : Continues(q)
    BY <1>5, WorkerContinues
  <2>2. UNCHANGED lost
    BY <1>5 DEF Submit, Examine, Finish, Crash, Prepare, MakeWorkspace, Materialize, DockerCreate,
       DockerStart, RecordSubmitted, Inspect, CancelInspect, CancelTouch, DockerStop,
       CancelRestat, Observe, FinishBegin, FinishPut, FinishCommit, envVars
  <2>3. CASE UNCHANGED status
    BY <2>1, <2>2, <2>3, FoundStays
  <2>4. CASE Prepare(p) /\ status[at[p]] = "QUEUED"
    <3>1. at[p] \in Runs
      BY <2>4, BusyHasARun DEF Prepare
    <3>2. status'[at[p]] = "PREPARING" /\ \A q \in Runs : q # at[p] => status'[q] = status[q]
      BY <2>4, <3>1 DEF Prepare, Record, TypeInv, TypeOK
    <3>3. \A g : "QUEUED" \in Found(g) => "PREPARING" \in Found(g)
      BY DEF Found
    <3> QED
      BY <2>1, <2>2, <2>4, <3>1, <3>2, <3>3, FoundStays
  <2>5. CASE RecordSubmitted(p) \/ Observe(p) \/ FinishCommit(p)
    <3>1. pc[p] # "idle" /\ at[p] \in Runs
      BY <2>5, BusyHasARun DEF RecordSubmitted, Observe, FinishCommit
    <3>2. \A q \in Runs : q # at[p] => status'[q] = status[q]
      BY <2>5 DEF RecordSubmitted, Observe, FinishCommit, Record, TypeInv, TypeOK
    <3>3. Leave(p) \/ Goto(p, "finish")
      BY <2>5, ReturnLeaves DEF RecordSubmitted, Observe, FinishCommit
    <3>4. ~Asks(p)'
      BY <3>3, LeaverContinues DEF Goto, Asks, TypeInv, TypeOK
    <3> QED
      BY <2>1, <2>2, <3>1, <3>2, <3>4, FoundStays
  <2> QED
    BY <1>5, <2>3, <2>4, <2>5
       DEF Submit, Examine, Finish, Crash, Prepare, MakeWorkspace, Materialize, DockerCreate,
           DockerStart, Inspect, CancelInspect, CancelTouch, DockerStop, CancelRestat,
           FinishBegin, FinishPut, dbVars
<1> QED
  BY <1>1, <1>2, <1>3, <1>4, <1>5
     DEF Next, Web, Create, Clone, Environment, Process, Tick

\* Whatever is observed, the path it writes from what its purpose can find is legal.
LEMMA FoundIsLegal ==
  ASSUME NEW o \in Observations, NEW g \in Goals \ {"none"},
         NEW s \in Found(g) \ {"QUEUED"}, ~Superseded(s, g)
  PROVE  LegalFrom(s, ObservedPath(s, o, g))
<1> DEFINE path == ObservedPath(s, o, g)
<1>1. /\ s \in {"PREPARING", "SUBMITTED", "RUNNING", "CANCEL_REQUESTED"}
      /\ g = "recover" => s = "PREPARING"
      /\ g = "watch" => s \in {"SUBMITTED", "RUNNING"}
      /\ g = "cancel" => s = "CANCEL_REQUESTED"
  BY DEF Found, Superseded, TERMINAL, Goals
<1>2. /\ TRANSITIONS["PREPARING"] = {"SUBMITTED", "FAILED", "CANCEL_REQUESTED"}
      /\ TRANSITIONS["SUBMITTED"] = {"RUNNING", "FAILED", "CANCEL_REQUESTED", "LOST"}
      /\ TRANSITIONS["RUNNING"] = {"POSTPROCESSING", "FAILED", "CANCEL_REQUESTED", "LOST"}
      /\ TRANSITIONS["CANCEL_REQUESTED"] = {"CANCELED", "POSTPROCESSING", "FAILED", "LOST"}
  <2>1. {"PREPARING", "SUBMITTED", "RUNNING", "CANCEL_REQUESTED"} \subseteq JobState
    BY DEF JobState
  <2>2. TRANSITIONS["PREPARING"] = {"SUBMITTED", "FAILED", "CANCEL_REQUESTED"}
    BY <2>1 DEF TRANSITIONS, TERMINAL
  <2>3. TRANSITIONS["SUBMITTED"] = {"RUNNING", "FAILED", "CANCEL_REQUESTED", "LOST"}
    BY <2>1 DEF TRANSITIONS, TERMINAL
  <2>4. TRANSITIONS["RUNNING"] = {"POSTPROCESSING", "FAILED", "CANCEL_REQUESTED", "LOST"}
    BY <2>1 DEF TRANSITIONS, TERMINAL
  <2>5. TRANSITIONS["CANCEL_REQUESTED"] = {"CANCELED", "POSTPROCESSING", "FAILED", "LOST"}
    BY <2>1 DEF TRANSITIONS, TERMINAL
  <2> QED
    BY <2>2, <2>3, <2>4, <2>5
<1>3. CASE o = "PREPARING"
  <2>1. path = <<>>
    BY <1>3 DEF ObservedPath
  <2> QED
    BY <2>1 DEF LegalFrom
<1>4. CASE o \in {"MISSING", "FAILED"} \/ (o = "CANCELED" /\ s = "CANCEL_REQUESTED")
  <2>1. PICK t \in TRANSITIONS[s] : path = <<t>>
    BY <1>1, <1>2, <1>4 DEF ObservedPath, Goals
  <2> QED
    BY <2>1 DEF LegalFrom
<1>5. CASE o = "CANCELED" /\ s # "CANCEL_REQUESTED"
  <2>1. path = <<"CANCEL_REQUESTED", "CANCELED">>
    BY <1>5 DEF ObservedPath
  <2> QED
    BY <1>1, <1>2, <1>5, <2>1 DEF LegalFrom
<1>6. CASE o \in {"RUNNING", "SUCCEEDED"}
  <2>1. path = Adopted(s) \o Verified(s, o)
    BY <1>6 DEF ObservedPath
  <2>2. \/ s = "PREPARING" /\ Adopted(s) = <<"SUBMITTED", "RUNNING">>
        \/ s = "SUBMITTED" /\ Adopted(s) = <<"RUNNING">>
        \/ s \in {"RUNNING", "CANCEL_REQUESTED"} /\ Adopted(s) = <<>>
    BY <1>1 DEF Adopted
  <2>3. Verified(s, o) = <<>> \/ Verified(s, o) = <<"POSTPROCESSING">>
    BY DEF Verified
  <2> HIDE DEF path
  <2>4. ASSUME NEW a \in Seq(JobState), NEW v \in Seq(JobState), path = a \o v,
               Len(v) = 0 \/ (Len(v) = 1 /\ v[1] = "POSTPROCESSING"),
               \/ s = "PREPARING" /\ Len(a) = 2 /\ a[1] = "SUBMITTED" /\ a[2] = "RUNNING"
               \/ s = "SUBMITTED" /\ Len(a) = 1 /\ a[1] = "RUNNING"
               \/ s \in {"RUNNING", "CANCEL_REQUESTED"} /\ Len(a) = 0
        PROVE  LegalFrom(s, path)
    BY <1>2, <2>4 DEF LegalFrom
  <2>5. Adopted(s) \in Seq(JobState) /\ Verified(s, o) \in Seq(JobState)
    <3>1. <<>> \in Seq(JobState) /\ <<"SUBMITTED", "RUNNING">> \in Seq(JobState)
          /\ <<"RUNNING">> \in Seq(JobState) /\ <<"POSTPROCESSING">> \in Seq(JobState)
      BY DEF JobState
    <3> QED
      BY <2>2, <2>3, <3>1
  <2>6. Len(Verified(s, o)) = 0 \/ (Len(Verified(s, o)) = 1 /\ Verified(s, o)[1] = "POSTPROCESSING")
    BY <2>3
  <2>7. \/ s = "PREPARING" /\ Len(Adopted(s)) = 2 /\ Adopted(s)[1] = "SUBMITTED"
           /\ Adopted(s)[2] = "RUNNING"
        \/ s = "SUBMITTED" /\ Len(Adopted(s)) = 1 /\ Adopted(s)[1] = "RUNNING"
        \/ s \in {"RUNNING", "CANCEL_REQUESTED"} /\ Len(Adopted(s)) = 0
    BY <2>2
  <2> QED
    BY <2>1, <2>4, <2>5, <2>6, <2>7 DEF path
<1> QED
  BY <1>3, <1>4, <1>5, <1>6 DEF Observations

\* While claims hold no process dies of an invalid transition: whatever happened to the row
\* between the look at the executor and the write, the write is legal or not made.
THEOREM ObservationsAreLegal == Spec => []ObservationsFit
<1>1. Init => TypeInv /\ LaunchInv /\ QuietInv /\ SuccessInv /\ LostInv /\ FoundInv
  BY TypeInit, LaunchInit, QuietInit, SuccessInit, LostInit DEF Init, FoundInv, Asks
<1>2. TypeInv /\ LaunchInv /\ QuietInv /\ SuccessInv /\ LostInv /\ FoundInv /\ [Next]_vars =>
        (TypeInv /\ LaunchInv /\ QuietInv /\ SuccessInv /\ LostInv /\ FoundInv)'
  BY TypeStep, LaunchStep, QuietStep, SuccessStep, LostStep, FoundStep
<1>3. TypeInv /\ QuietInv /\ LostInv /\ FoundInv => ObservationsFit
  <2> SUFFICES ASSUME TypeInv, QuietInv, LostInv, FoundInv,
                      NEW p \in Procs, pc[p] = "observe", at[p] \notin lost,
                      ~Superseded(status[at[p]], goal[p])
               PROVE  LegalFrom(status[at[p]], ObservedPath(status[at[p]], obs[p], goal[p]))
    BY DEF ObservationsFit
  <2>1. obs[p] \in Observations /\ goal[p] \in Goals \ {"none"}
    BY DEF TypeInv, TypeOK, Bookkeeping, LostInv, Watcher
  <2>2. status[at[p]] \in Found(goal[p]) \ {"QUEUED"}
    BY DEF FoundInv, Asks, QuietInv, ClaimProtects, Protected
  <2> QED
    BY <2>1, <2>2, FoundIsLegal
<1> QED
  BY <1>1, <1>2, <1>3, PTL DEF Spec

\* Every reachable state is well typed, and what a process is about to record of the
\* executor (JobProcessor.observe) fits the row it finds, while claims hold.
THEOREM StaysWellFormed == Spec => []WellFormed
<1>1. TypeOK /\ ObservationsFit => WellFormed
  BY DEF WellFormed
<1> QED
  BY <1>1, TypeCorrect, ObservationsAreLegal, PTL

-----------------------------------------------------------------------------
(* The contract is kept.                                                   *)

\* The contract's table is the program's.
LEMMA SameTable ==
  /\ Contract!TRANSITIONS = TRANSITIONS /\ Contract!JobState = JobState
  /\ Contract!Absent = Absent /\ Contract!TERMINAL = TERMINAL
<1>1. Contract!TERMINAL = TERMINAL /\ Contract!Absent = Absent
  BY DEF Contract!TERMINAL, TERMINAL, Contract!Absent, Absent
<1>2. Contract!JobState = JobState
  BY <1>1 DEF Contract!JobState, JobState
<1>3. Contract!TRANSITIONS = TRANSITIONS
  BY <1>1, <1>2 DEF Contract!TRANSITIONS, TRANSITIONS
<1> QED
  BY <1>1, <1>2, <1>3

\* The edges of the table lead from states to states.
LEMMA TableIsClosed ==
  ASSUME NEW s \in JobState
  PROVE  TRANSITIONS[s] \subseteq JobState
  BY DEF TRANSITIONS, JobState, TERMINAL

\* Paths of one edge more than the given ones.
Edge(s) == {<<t>> : t \in TRANSITIONS[s]}
Longer(paths) == UNION {{Append(p, t) : t \in TRANSITIONS[p[Len(p)]]} : p \in paths}

LEMMA CommitsAre ==
  ASSUME NEW s
  PROVE  Contract!Commits(s) = Edge(s) \cup Longer(Edge(s)) \cup Longer(Longer(Edge(s)))
  BY SameTable DEF Contract!Commits, Edge, Longer

LEMMA LongerHas ==
  ASSUME NEW paths, NEW p \in paths, NEW t \in TRANSITIONS[p[Len(p)]]
  PROVE  Append(p, t) \in Longer(paths)
<1>1. Append(p, t) \in {Append(p, u) : u \in TRANSITIONS[p[Len(p)]]}
  OBVIOUS
<1>2. {Append(p, u) : u \in TRANSITIONS[p[Len(p)]]}
        \in {{Append(q, u) : u \in TRANSITIONS[q[Len(q)]]} : q \in paths}
  OBVIOUS
<1> QED
  BY <1>1, <1>2 DEF Longer

\* A path of up to three legal edges is one that the contract lets a transaction commit.
LEMMA LegalCommits ==
  ASSUME NEW s \in JobState, NEW path \in Seq(JobState), Len(path) \in 1..3, LegalFrom(s, path)
  PROVE  path \in Contract!Commits(s)
<1>1. path[1] \in TRANSITIONS[s] /\ <<path[1]>> \in Edge(s)
  BY DEF LegalFrom, Edge
<1>2. CASE Len(path) = 1
  <2>1. path = <<path[1]>>
    BY <1>2
  <2> QED
    BY <1>1, <2>1, CommitsAre
<1>3. ASSUME Len(path) \in 2..3
      PROVE  Append(<<path[1]>>, path[2]) \in Longer(Edge(s))
  <2>1. path[2] \in TRANSITIONS[path[1]]
    <3>1. 2 \in 1..Len(path) /\ 2 # 1 /\ 2 - 1 = 1
      BY <1>3
    <3>2. path[2] \in TRANSITIONS[path[2 - 1]]
      BY <3>1 DEF LegalFrom
    <3> QED
      BY <3>1, <3>2
  <2>2. \A x : <<x>>[Len(<<x>>)] = x
    OBVIOUS
  <2> QED
    BY <1>1, <2>1, <2>2, LongerHas
<1>4. CASE Len(path) = 2
  <2> DEFINE two == Append(<<path[1]>>, path[2])
  <2>1. path = two
    BY <1>4
  <2>2. two \in Longer(Edge(s))
    BY <1>3, <1>4
  <2> HIDE DEF two
  <2> QED
    BY <2>1, <2>2, CommitsAre
<1>5. CASE Len(path) = 3
  <2> DEFINE two == Append(<<path[1]>>, path[2])
  <2>1. path[1] \in JobState /\ path[2] \in JobState /\ path[3] \in TRANSITIONS[path[2]]
    BY <1>5 DEF LegalFrom
  <2>2. \A x, y \in JobState : Append(<<x>>, y)[Len(Append(<<x>>, y))] = y
    OBVIOUS
  <2>3. two[Len(two)] = path[2]
    BY <2>1, <2>2
  <2>4. path = Append(two, path[3])
    BY <1>5
  <2>5. two \in Longer(Edge(s))
    BY <1>3, <1>5
  <2> HIDE DEF two
  <2>6. Append(two, path[3]) \in Longer(Longer(Edge(s)))
    BY <2>1, <2>3, <2>5, LongerHas
  <2> QED
    BY <2>4, <2>6, CommitsAre
<1> QED
  BY <1>2, <1>4, <1>5

\* Observations change a row by three edges at most.
LEMMA ObservedPathIsShort ==
  ASSUME NEW s, NEW o \in Observations, NEW purpose
  PROVE  Len(ObservedPath(s, o, purpose)) \in 0..3
<1> DEFINE path == ObservedPath(s, o, purpose)
<1>1. CASE o \in {"RUNNING", "SUCCEEDED"}
  <2>1. path = Adopted(s) \o Verified(s, o)
    BY <1>1 DEF ObservedPath
  <2>2. /\ Adopted(s) \in {<<>>, <<"RUNNING">>, <<"SUBMITTED", "RUNNING">>}
        /\ Verified(s, o) \in {<<>>, <<"POSTPROCESSING">>}
    BY DEF Adopted, Verified
  <2>3. /\ <<>> \in Seq(JobState) /\ <<"RUNNING">> \in Seq(JobState)
        /\ <<"SUBMITTED", "RUNNING">> \in Seq(JobState) /\ <<"POSTPROCESSING">> \in Seq(JobState)
    BY DEF JobState
  <2>4. Adopted(s) \in Seq(JobState) /\ Verified(s, o) \in Seq(JobState)
    BY <2>2, <2>3
  <2>5. /\ Len(<<>>) = 0 /\ Len(<<"RUNNING">>) = 1 /\ Len(<<"POSTPROCESSING">>) = 1
        /\ Len(<<"SUBMITTED", "RUNNING">>) = 2
    OBVIOUS
  <2>6. Len(Adopted(s)) \in 0..2 /\ Len(Verified(s, o)) \in 0..1
    BY <2>2, <2>5
  <2>7. \A a, b \in Seq(JobState) : Len(a \o b) = Len(a) + Len(b)
    OBVIOUS
  <2>8. \A m \in 0..2, n \in 0..1 : m + n \in 0..3
    OBVIOUS
  <2> HIDE DEF path
  <2> QED
    BY <2>1, <2>4, <2>6, <2>7, <2>8 DEF path
<1>2. CASE o \notin {"RUNNING", "SUCCEEDED"}
  <2>1. path \in {<<>>, <<"CANCELED">>, <<"FAILED">>, <<"LOST">>,
                  <<"CANCEL_REQUESTED", "CANCELED">>}
    <3>1. CASE o = "MISSING"
      BY <3>1 DEF ObservedPath
    <3>2. CASE o \in {"FAILED", "CANCELED", "PREPARING"}
      BY <3>2 DEF ObservedPath
    <3> QED
      BY <1>2, <3>1, <3>2 DEF Observations
  <2> HIDE DEF path
  <2>2. /\ Len(<<>>) = 0 /\ Len(<<"CANCELED">>) = 1 /\ Len(<<"FAILED">>) = 1
        /\ Len(<<"LOST">>) = 1 /\ Len(<<"CANCEL_REQUESTED", "CANCELED">>) = 2
    OBVIOUS
  <2>3. Len(path) \in 0..3
    BY <2>1, <2>2
  <2> QED
    BY <2>3 DEF path
<1> QED
  BY <1>1, <1>2

\* The edges that users, submissions and preparations take.
LEMMA EdgesUsed ==
  /\ "PREPARING" \in TRANSITIONS["QUEUED"] /\ "CANCELED" \in TRANSITIONS["QUEUED"]
  /\ "SUBMITTED" \in TRANSITIONS["PREPARING"]
  /\ "CANCEL_REQUESTED" \in TRANSITIONS["PREPARING"]
  /\ "CANCEL_REQUESTED" \in TRANSITIONS["SUBMITTED"]
  /\ "CANCEL_REQUESTED" \in TRANSITIONS["RUNNING"]
<1>1. {"QUEUED", "PREPARING", "SUBMITTED", "RUNNING"} \subseteq JobState
  BY DEF JobState
<1>2. TRANSITIONS["QUEUED"] = {"PREPARING", "CANCELED"}
  BY <1>1 DEF TRANSITIONS, TERMINAL
<1>3. TRANSITIONS["PREPARING"] = {"SUBMITTED", "FAILED", "CANCEL_REQUESTED"}
  BY <1>1 DEF TRANSITIONS, TERMINAL
<1>4. TRANSITIONS["SUBMITTED"] = {"RUNNING", "FAILED", "CANCEL_REQUESTED", "LOST"}
  BY <1>1 DEF TRANSITIONS, TERMINAL
<1>5. TRANSITIONS["RUNNING"] = {"POSTPROCESSING", "FAILED", "CANCEL_REQUESTED", "LOST"}
  BY <1>1 DEF TRANSITIONS, TERMINAL
<1> QED
  BY <1>2, <1>3, <1>4, <1>5

\* What a client sees of a step.
Unseen == UNCHANGED <<status, log, starts, registered>>
Seen == [Contract!Next]_Contract!contractVars

LEMMA UnseenStutters == Unseen => Seen
  BY DEF Unseen, Seen, Contract!contractVars

\* An empty path leaves the row and its history alone.
LEMMA EmptyRecord ==
  ASSUME TypeInv, NEW r \in Runs, Record(r, <<>>)
  PROVE  status' = status /\ log' = log
<1>1. status' = status
  BY DEF Record, TypeInv, TypeOK
<1>2. log[r] \in Seq(JobState) /\ log \in [Runs -> Seq(JobState)]
  BY DEF TypeInv, TypeOK
<1>3. log[r] \o <<>> = log[r]
  BY <1>2
<1>4. log' = [log EXCEPT ![r] = log[r]]
  BY <1>3 DEF Record
<1> QED
  BY <1>1, <1>2, <1>4

\* A transaction that takes a run along legal edges, short of success, is a change.
LEMMA LegalChange ==
  ASSUME TypeInv, NEW r \in Runs, status[r] \in JobState,
         NEW path \in Seq(JobState), path # <<>>, Len(path) \in 0..3, LegalFrom(status[r], path),
         path[Len(path)] # "SUCCEEDED", Record(r, path), UNCHANGED <<starts, registered>>
  PROVE  Seen
<1>1. Len(path) \in 1..3
  <2>1. Len(path) # 0
    OBVIOUS
  <2>2. \A n \in 0..3 : n # 0 => n \in 1..3
    OBVIOUS
  <2> QED
    BY <2>1, <2>2
<1>2. path \in Contract!Commits(status[r])
  BY <1>1, LegalCommits
<1>3. Contract!Advance(r, path)
  BY DEF Record, Contract!Advance
<1>4. status[r] # Contract!Absent
  BY SameTable DEF JobState, TERMINAL, Absent
<1>5. Contract!Change(r)
  BY <1>2, <1>3, <1>4 DEF Contract!Change
<1> QED
  BY <1>5 DEF Seen, Contract!Next

\* One legal edge.
LEMMA EdgeChange ==
  ASSUME TypeInv, NEW r \in Runs, status[r] \in JobState, NEW s \in TRANSITIONS[status[r]],
         s # "SUCCEEDED", Record(r, <<s>>), UNCHANGED <<starts, registered>>
  PROVE  Seen
<1>1. s \in JobState
  BY TableIsClosed
<1>2. <<s>> \in Seq(JobState) /\ <<s>> # <<>> /\ Len(<<s>>) \in 0..3 /\ <<s>>[Len(<<s>>)] = s
  BY <1>1
<1>3. LegalFrom(status[r], <<s>>)
  BY DEF LegalFrom
<1> QED
  BY <1>2, <1>3, LegalChange

\* Every step is one of the contract's, or shows nothing to its clients, except perhaps one
\* that starts a container; rows that are observed were inserted.
LEMMA HistoryStep ==
  ASSUME TypeInv, LaunchInv, SuccessInv, [Next]_vars,
         \A p \in Procs : pc[p] = "observe" => status[at[p]] # Absent
  PROVE  Seen \/ \E p \in Procs : DockerStart(p)
<1>1. CASE UNCHANGED vars
  BY <1>1, UnseenStutters DEF Unseen, vars, dbVars, hostVars
<1>2. ASSUME NEW r \in Runs, Insert(r) PROVE Seen
  <2>1. Contract!Advance(r, <<"QUEUED">>)
    <3>1. <<"QUEUED">> # <<>> /\ <<"QUEUED">>[Len(<<"QUEUED">>)] = "QUEUED"
      OBVIOUS
    <3> QED
      BY <1>2, <3>1 DEF Insert, Record, Contract!Advance
  <2>2. Contract!Insert(r)
    BY <1>2, <2>1, SameTable DEF Insert, hostVars, Contract!Insert
  <2> QED
    BY <2>2 DEF Seen, Contract!Next
<1>3. ASSUME NEW r \in Runs, Cancel(r) PROVE Seen
  <2>1. Record(r, CancelPath(status[r])) /\ UNCHANGED <<starts, registered>>
        /\ status[r] \in JobState
    BY <1>3 DEF Cancel, hostVars, TypeInv, TypeOK
  <2>2. CASE CancelPath(status[r]) = <<>>
    BY <2>1, <2>2, EmptyRecord, UnseenStutters DEF Unseen
  <2>3. CASE status[r] = "QUEUED" /\ CancelPath(status[r]) = <<"CANCELED">>
    <3>1. "CANCELED" \in TRANSITIONS[status[r]]
      BY <2>3, EdgesUsed
    <3> QED
      BY <2>1, <2>3, <3>1, EdgeChange
  <2>4. CASE status[r] \in {"PREPARING", "SUBMITTED", "RUNNING"}
             /\ CancelPath(status[r]) = <<"CANCEL_REQUESTED">>
    <3>1. "CANCEL_REQUESTED" \in TRANSITIONS[status[r]]
      BY <2>4, EdgesUsed
    <3> QED
      BY <2>1, <2>4, <3>1, EdgeChange
  <2> QED
    BY <2>2, <2>3, <2>4, CancelPathIs
<1>4. ASSUME NEW r \in Runs, Cleanup(r) PROVE Seen
  BY <1>4, UnseenStutters DEF Unseen, Cleanup, dbVars
<1>5. ASSUME NEW r \in Runs, TrainingEnds(r) \/ ContainerRemoved(r) PROVE Seen
  BY <1>5, UnseenStutters DEF Unseen, TrainingEnds, ContainerRemoved, dbVars
<1>6. ASSUME NEW p \in Procs, Crash(p) \/ ClaimLost(p) PROVE Seen
  BY <1>6, UnseenStutters DEF Unseen, Crash, ClaimLost, dbVars, hostVars
<1>7. ASSUME NEW p \in Procs, Tick(p) PROVE Seen
  BY <1>7, UnseenStutters DEF Unseen, Tick, Scan, PopHint, Skip, Claim, dbVars, hostVars
<1>8. ASSUME NEW p \in Procs, Prepare(p) PROVE Seen
  <2>1. at[p] \in Runs /\ UNCHANGED <<starts, registered>>
    BY <1>8, BusyHasARun DEF Prepare, hostVars
  <2>2. CASE status[at[p]] = "QUEUED" /\ Record(at[p], <<"PREPARING">>)
    <3>1. status[at[p]] \in JobState /\ "PREPARING" \in TRANSITIONS[status[at[p]]]
      BY <2>2, EdgesUsed DEF JobState
    <3> QED
      BY <2>1, <2>2, <3>1, EdgeChange
  <2>3. CASE UNCHANGED <<status, log>>
    BY <2>1, <2>3, UnseenStutters DEF Unseen
  <2> QED
    BY <1>8, <2>2, <2>3 DEF Prepare
<1>9. ASSUME NEW p \in Procs, MakeWorkspace(p) \/ Materialize(p) \/ DockerCreate(p) PROVE Seen
  BY <1>9, UnseenStutters DEF Unseen, MakeWorkspace, Materialize, DockerCreate, dbVars, hostVars
<1>10. ASSUME NEW p \in Procs, RecordSubmitted(p) PROVE Seen
  <2>1. at[p] \in Runs /\ UNCHANGED <<starts, registered>>
    BY <1>10, BusyHasARun DEF RecordSubmitted, hostVars
  <2>2. CASE status[at[p]] = "PREPARING"
    <3>1. status[at[p]] \in JobState /\ "SUBMITTED" \in TRANSITIONS[status[at[p]]]
      BY <2>2, EdgesUsed DEF JobState
    <3>2. Record(at[p], <<"SUBMITTED">>)
      BY <1>10, <2>2 DEF RecordSubmitted
    <3> QED
      BY <2>1, <3>1, <3>2, EdgeChange
  <2>3. CASE status[at[p]] # "PREPARING"
    <3>1. Record(at[p], <<>>)
      BY <1>10, <2>3 DEF RecordSubmitted
    <3> QED
      BY <2>1, <3>1, EmptyRecord, UnseenStutters DEF Unseen
  <2> QED
    BY <2>2, <2>3
<1>11. ASSUME NEW p \in Procs,
              Inspect(p) \/ CancelInspect(p) \/ CancelTouch(p) \/ DockerStop(p) \/ CancelRestat(p)
       PROVE  Seen
  BY <1>11, UnseenStutters
     DEF Unseen, Inspect, CancelInspect, CancelTouch, DockerStop, CancelRestat, dbVars, hostVars
<1>12. ASSUME NEW p \in Procs, Observe(p) PROVE Seen
  <2> DEFINE path == ObservedPath(status[at[p]], obs[p], goal[p])
  <2>1. at[p] \in Runs /\ obs[p] \in Observations /\ UNCHANGED <<starts, registered>>
    BY <1>12, BusyHasARun DEF Observe, hostVars, TypeInv, Bookkeeping
  <2>2. status[at[p]] \in JobState
    BY <1>12, <2>1 DEF Observe, TypeInv, TypeOK
  <2>3. UNCHANGED <<status, log>> \/ (Record(at[p], path) /\ LegalFrom(status[at[p]], path))
    BY <1>12 DEF Observe
  <2>4. path \in Seq(JobState) /\ Len(path) \in 0..3
    BY <2>1, ObservedPathIsAPath, ObservedPathIsShort
  <2>5. path # <<>> => path[Len(path)] # "SUCCEEDED"
    BY <2>1, ObservedIsNotSuccess
  <2> HIDE DEF path
  <2>6. CASE UNCHANGED <<status, log>>
    BY <2>1, <2>6, UnseenStutters DEF Unseen
  <2>7. CASE Record(at[p], path) /\ path = <<>>
    BY <2>1, <2>7, EmptyRecord, UnseenStutters DEF Unseen
  <2>8. CASE Record(at[p], path) /\ LegalFrom(status[at[p]], path) /\ path # <<>>
    BY <2>1, <2>2, <2>4, <2>5, <2>8, LegalChange
  <2> QED
    BY <2>3, <2>6, <2>7, <2>8
<1>13. ASSUME NEW p \in Procs, FinishBegin(p) \/ FinishPut(p) PROVE Seen
  BY <1>13, UnseenStutters DEF Unseen, FinishBegin, FinishPut, dbVars, hostVars
<1>14. ASSUME NEW p \in Procs, FinishCommit(p) PROVE Seen
  <2>1. at[p] \in Runs /\ Registers(p)
    BY <1>14, BusyHasARun DEF FinishCommit, SuccessInv, RegistersTraining, Registering
  <2>2. starts[at[p]] = 1 /\ status[at[p]] = "POSTPROCESSING"
    BY <2>1 DEF Registers, LaunchInv, LaunchedOnce, TypeInv, TypeOK
  <2>3. <<"SUCCEEDED">> # <<>>
    OBVIOUS
  <2>4. Contract!Advance(at[p], <<"SUCCEEDED">>)
    BY <1>14, <2>3 DEF FinishCommit, Record, Contract!Advance
  <2>5. Contract!Publish(at[p])
    BY <1>14, <2>2, <2>4 DEF FinishCommit, hostVars, Contract!Publish
  <2> QED
    BY <2>1, <2>5 DEF Seen, Contract!Next
<1> QED
  BY <1>1, <1>2, <1>3, <1>4, <1>5, <1>6, <1>7, <1>8, <1>9, <1>10, <1>11, <1>12, <1>13, <1>14
     DEF Next, Web, Create, Clone, Environment, Process, Submit, Examine, Finish

\* While claims hold, containers are started only as the contract allows.
LEMMA ContractStep ==
  ASSUME TypeInv, LaunchInv, QuietInv, SuccessInv, lost = {}, [Next]_vars PROVE Seen
<1>1. \A p \in Procs : pc[p] = "observe" => status[at[p]] # Absent
  BY DEF QuietInv, ClaimProtects, Protected
<1>2. ASSUME NEW p \in Procs, DockerStart(p) PROVE Seen
  <2>1. at[p] \in Runs /\ starts[at[p]] = 0 /\ UNCHANGED <<status, log, registered>>
    BY <1>2, BusyHasARun
       DEF DockerStart, dbVars, LaunchInv, SubmissionIsExclusive, Submitting
  <2>2. status[at[p]] \in {"PREPARING", "CANCEL_REQUESTED"}
    BY <1>2 DEF DockerStart, QuietInv, ClaimProtects, Protected, Submitting
  <2>3. starts' = starts \/ starts' = [starts EXCEPT ![at[p]] = starts[at[p]] + 1]
    BY <1>2, <2>1 DEF DockerStart, StartContainer, TypeInv, TypeOK
  <2>4. CASE starts' = starts
    BY <2>1, <2>4, UnseenStutters DEF Unseen
  <2>5. CASE starts' = [starts EXCEPT ![at[p]] = starts[at[p]] + 1]
    <3>1. starts' = [starts EXCEPT ![at[p]] = 1]
      BY <2>1, <2>5
    <3>2. Contract!Start(at[p])
      BY <2>1, <2>2, <3>1 DEF Contract!Start
    <3> QED
      BY <2>1, <3>2 DEF Seen, Contract!Next
  <2> QED
    BY <2>3, <2>4, <2>5
<1> QED
  BY <1>1, <1>2, HistoryStep

\* As long as no claim is lost under a working process, the web process, the workers, the
\* reconcilers and the executor implement the contract of docs/jobs.md: a row moves along
\* edges of the table, each of which is an event; training starts once, during preparation;
\* success and the model version are one step, of a run that was trained.  A lost claim can
\* start training for a run that another process has just failed.
THEOREM ContractIsKept == Spec /\ [](lost = {}) => KeepsContract
<1>1. Init => TypeInv /\ LaunchInv /\ QuietInv /\ SuccessInv
  BY TypeInit, LaunchInit, QuietInit, SuccessInit
<1>2. TypeInv /\ LaunchInv /\ QuietInv /\ SuccessInv /\ [Next]_vars =>
        (TypeInv /\ LaunchInv /\ QuietInv /\ SuccessInv)'
  BY TypeStep, LaunchStep, QuietStep, SuccessStep
<1>3. Init => Contract!Init
  BY SameTable DEF Init, Contract!Init
<1>4. TypeInv /\ LaunchInv /\ QuietInv /\ SuccessInv /\ lost = {} /\ [Next]_vars =>
        [Contract!Next]_Contract!contractVars
  BY ContractStep DEF Seen
<1> QED
  BY <1>1, <1>2, <1>3, <1>4, PTL DEF Spec, KeepsContract, Contract!Spec

\* The contract holds outright where the connections that hold claims do not die; this is
\* the system that the run `contract` checks on two training runs.
COROLLARY ContractIsKeptByHeldClaims == "claim" \notin FaultKinds /\ Spec => KeepsContract
<1> DEFINE Held == "claim" \notin FaultKinds
<1>1. Init => lost = {}
  BY DEF Init
<1>2. Held /\ lost = {} /\ [Next]_vars => Held' /\ (lost = {})'
  <2> SUFFICES ASSUME Held, [Next]_vars PROVE UNCHANGED lost
    OBVIOUS
  <2>1. CASE UNCHANGED vars
    BY <2>1 DEF vars, envVars
  <2>2. CASE Web
    BY <2>2 DEF Web, Create, Clone, Cancel, Cleanup, Insert, envVars
  <2>3. CASE Environment
    <3>1. ASSUME NEW p \in Procs, Crash(p) PROVE UNCHANGED lost
      BY <3>1 DEF Crash
    <3>2. ASSUME NEW r \in Runs, TrainingEnds(r) \/ ContainerRemoved(r) PROVE UNCHANGED lost
      BY <3>2 DEF TrainingEnds, ContainerRemoved, envVars
    <3>3. \A p \in Procs : ~ClaimLost(p)
      BY DEF ClaimLost, Fault
    <3> QED
      BY <2>3, <3>1, <3>2, <3>3 DEF Environment
  <2>4. ASSUME NEW p \in Procs, Process(p) PROVE UNCHANGED lost
    BY <2>4 DEF Process, Tick, Submit, Examine, Finish, Scan, PopHint, Skip, Claim, Prepare,
       MakeWorkspace, Materialize, DockerCreate, DockerStart, RecordSubmitted, Inspect,
       CancelInspect, CancelTouch, DockerStop, CancelRestat, Observe, FinishBegin, FinishPut,
       FinishCommit, envVars
  <2> QED
    BY <2>1, <2>2, <2>3, <2>4 DEF Next
<1> HIDE DEF Held
<1>3. Held /\ Spec => [](lost = {})
  BY <1>1, <1>2, PTL DEF Spec
<1>4. Held /\ Spec => KeepsContract
  BY <1>3, ContractIsKept, PTL
<1> QED
  BY <1>4 DEF Held
-----------------------------------------------------------------------------
(***************************************************************************)
(* RunEvents, for any set of runs, any page size that holds a whole        *)
(* history, any number of polls and of dropped connections: the inductive  *)
(* invariant.                                                              *)
(***************************************************************************)

Frame == [kind : {"transition"}, id : Nat] \cup [kind : {"status"}, state : JobState]

\* The edges between states lead upwards: no run has more events than this.
Height ==
  [s \in JobState \cup {Absent} |->
     CASE s = Absent             -> 0
       [] s = "QUEUED"           -> 1
       [] s = "PREPARING"        -> 2
       [] s = "SUBMITTED"        -> 3
       [] s = "RUNNING"          -> 4
       [] s = "CANCEL_REQUESTED" -> 5
       [] s = "POSTPROCESSING"   -> 6
       [] s \in TERMINAL         -> LongestHistory]

RunInv ==
  /\ status \in [Runs -> JobState \cup {Absent}]
  /\ log \in [Runs -> Seq(JobState)]
  /\ \A r \in Runs : Len(log[r]) <= Height[status[r]]

\* The page is not ahead of the server, the server not ahead of the run, and a
\* connection ends with its last round.
PlaceInv ==
  /\ lastId = Len(shown) - 1
  /\ lastId <= cursor /\ cursor < Len(log[Watched])
  /\ conn \notin {"none", "ended"} => round < Rounds

IsEvent(f) == f.kind = "transition"
IsFinal(f) == f.kind = "status" /\ f.state \in TERMINAL

\* On an open connection the wire carries each event between the page and the cursor
\* once, in order.
WireInv ==
  /\ conn = "none" => wire = <<>>
  /\ \A i \in 1..Len(wire) : IsEvent(wire[i]) => wire[i].id \in (lastId + 1)..cursor
  /\ \A i, j \in 1..Len(wire) :
       i < j /\ IsEvent(wire[i]) /\ IsEvent(wire[j]) => wire[i].id < wire[j].id
  /\ conn # "none" =>
       \A n \in (lastId + 1)..cursor :
         \E i \in 1..Len(wire) : IsEvent(wire[i]) /\ wire[i].id = n

\* Nothing is left to read: the run is final and the cursor at its last event.
AllRead == status[Watched] \in TERMINAL /\ cursor = Len(log[Watched]) - 1

\* A final status is sent, and is the last frame, only when all was read.
EndInv ==
  /\ conn = "drain" => status[Watched] \in TERMINAL
  /\ conn = "status" /\ snap \in TERMINAL => AllRead
  /\ conn \in {"drain", "status"} => snap # Absent
  /\ \A i \in 1..Len(wire) : IsFinal(wire[i]) => i = Len(wire) /\ conn = "ended" /\ AllRead
  /\ conn # "none" => status[Watched] # Absent
  /\ ~watching => conn = "none" /\ lastId = cursor /\ AllRead

StreamInv ==
  /\ StreamTypes /\ HistoryIsAPrefix
  /\ RunInv /\ PlaceInv /\ WireInv /\ EndInv

-----------------------------------------------------------------------------
(* The runs.                                                               *)

LEMMA EdgesLeadUp ==
  ASSUME NEW s \in JobState, NEW t \in Job!TRANSITIONS[s]
  PROVE  t \in JobState /\ Height[t] > Height[s] /\ s \notin TERMINAL
  BY DEF Job!TRANSITIONS, Job!JobState, Job!TERMINAL, JobState, TERMINAL, Absent, Height,
         LongestHistory

LEMMA HeightBounds ==
  ASSUME NEW s \in JobState \cup {Absent}
  PROVE  Height[s] \in 0..LongestHistory
  BY DEF JobState, TERMINAL, Absent, Height, LongestHistory

\* A path climbs at least one step with each of its edges.
Climbs(path, s) ==
  /\ path \in Seq(JobState) /\ Len(path) \in Nat \ {0}
  /\ Height[path[Len(path)]] >= Height[s] + Len(path)

LEMMA ClimbsOn ==
  ASSUME NEW s \in JobState, NEW p, Climbs(p, s), NEW t \in Job!TRANSITIONS[p[Len(p)]]
  PROVE  Climbs(Append(p, t), s)
<1>1. p[Len(p)] \in JobState
  BY ElementOfSeq DEF Climbs
<1>2. t \in JobState /\ Height[t] > Height[p[Len(p)]]
  BY <1>1, EdgesLeadUp
<1>3. /\ Append(p, t) \in Seq(JobState)
      /\ Len(Append(p, t)) = Len(p) + 1
      /\ Append(p, t)[Len(p) + 1] = t
  BY <1>2, AppendProperties DEF Climbs
<1>4. Height[t] \in Nat /\ Height[p[Len(p)]] \in Nat /\ Height[s] \in Nat
  BY <1>1, <1>2, HeightBounds
<1> QED
  BY <1>2, <1>3, <1>4 DEF Climbs

LEMMA CommitsClimb ==
  ASSUME NEW s \in JobState, NEW path \in Job!Commits(s)
  PROVE  Climbs(path, s) /\ s \notin TERMINAL
<1> DEFINE Then(paths) == UNION {{Append(p, t) : t \in Job!TRANSITIONS[p[Len(p)]]} : p \in paths}
           one == {<<t>> : t \in Job!TRANSITIONS[s]}
<1>1. path \in one \cup Then(one) \cup Then(Then(one))
  BY Zenon DEF Job!Commits
<1>2. \A p \in one : Climbs(p, s) /\ s \notin TERMINAL
  <2> SUFFICES ASSUME NEW t \in Job!TRANSITIONS[s]
               PROVE  Climbs(<<t>>, s) /\ s \notin TERMINAL
    OBVIOUS
  <2>1. t \in JobState /\ Height[t] > Height[s] /\ s \notin TERMINAL
    BY EdgesLeadUp
  <2>2. Height[t] \in Nat /\ Height[s] \in Nat
    BY <2>1, HeightBounds
  <2> QED
    BY <2>1, <2>2 DEF Climbs
<1>3. ASSUME NEW paths, \A p \in paths : Climbs(p, s) /\ s \notin TERMINAL
      PROVE  \A p \in Then(paths) : Climbs(p, s) /\ s \notin TERMINAL
  <2> TAKE x \in Then(paths)
  <2>1. PICK p \in paths : x \in {Append(p, t) : t \in Job!TRANSITIONS[p[Len(p)]]}
    OBVIOUS
  <2>2. PICK t \in Job!TRANSITIONS[p[Len(p)]] : x = Append(p, t)
    BY <2>1
  <2>3. Climbs(p, s) /\ s \notin TERMINAL
    BY <1>3
  <2> QED
    BY <2>2, <2>3, ClimbsOn
<1> HIDE DEF Then, one
<1>4. \A p \in Then(one) : Climbs(p, s) /\ s \notin TERMINAL
  BY <1>2, <1>3
<1>5. \A p \in Then(Then(one)) : Climbs(p, s) /\ s \notin TERMINAL
  BY <1>4, <1>3
<1> QED
  BY <1>1, <1>2, <1>4, <1>5

\* A run that moves writes its history on, and a final run never does.
LEMMA RunAdvances ==
  ASSUME RunInv, NEW r \in Runs, NEW path, path \in Seq(JobState), Len(path) \in Nat \ {0},
         Height[path[Len(path)]] >= Height[status[r]] + Len(path),
         status[r] \notin TERMINAL, Job!Advance(r, path)
  PROVE  /\ RunInv'
         /\ Len(log'[r]) >= Len(log[r]) /\ status'[r] # Absent
         /\ \A q \in Runs : status[q] \in TERMINAL => status'[q] = status[q] /\ log'[q] = log[q]
         /\ \A q \in Runs \ {r} : status'[q] = status[q] /\ log'[q] = log[q]
<1>1. path[Len(path)] \in JobState
  BY ElementOfSeq
<1>2. /\ log[r] \o path \in Seq(JobState)
      /\ Len(log[r] \o path) = Len(log[r]) + Len(path)
  BY ConcatProperties DEF RunInv
<1>3. /\ status' = [status EXCEPT ![r] = path[Len(path)]]
      /\ log' = [log EXCEPT ![r] = log[r] \o path]
  BY DEF Job!Advance
<1>4. /\ Len(log[r]) \in Nat
      /\ Height[status[r]] \in Nat /\ Height[path[Len(path)]] \in Nat
  BY <1>1, HeightBounds, LenProperties DEF RunInv
<1>5. Absent \notin JobState
  BY DEF Absent, JobState, TERMINAL
<1>6. RunInv'
  BY <1>1, <1>2, <1>3, <1>4 DEF RunInv
<1>7. status'[r] = path[Len(path)] /\ log'[r] = log[r] \o path
  BY <1>3 DEF RunInv
<1>8. \A q \in Runs \ {r} : status'[q] = status[q] /\ log'[q] = log[q]
  BY <1>3 DEF RunInv
<1> QED
  BY <1>1, <1>2, <1>4, <1>5, <1>6, <1>7, <1>8

\* What the stream may rely on while a run moves.
Moved ==
  /\ RunInv'
  /\ Len(log'[Watched]) \in Nat /\ Len(log'[Watched]) >= Len(log[Watched])
  /\ \A r \in Runs : status[r] # Absent => status'[r] # Absent
  /\ status[Watched] \in TERMINAL => status'[Watched] = status[Watched] /\ log'[Watched] = log[Watched]

LEMMA RunMovesOn ==
  ASSUME RunInv, Job!Next
  PROVE  Moved
<1>1. Watched \in Runs /\ Len(log[Watched]) \in Nat
  BY StreamAssumption, LenProperties DEF RunInv
<1>2. RunInv' => Len(log'[Watched]) \in Nat
  BY <1>1, LenProperties DEF RunInv
<1>3. ASSUME NEW r \in Runs, NEW path, path \in Seq(JobState), Len(path) \in Nat \ {0},
             Height[path[Len(path)]] >= Height[status[r]] + Len(path),
             status[r] \notin TERMINAL, Job!Advance(r, path)
      PROVE  Moved
  <2>1. /\ RunInv' /\ Len(log'[r]) >= Len(log[r]) /\ status'[r] # Absent
        /\ \A q \in Runs : status[q] \in TERMINAL => status'[q] = status[q] /\ log'[q] = log[q]
        /\ \A q \in Runs \ {r} : status'[q] = status[q] /\ log'[q] = log[q]
    BY <1>3, RunAdvances
  <2>2. Len(log'[Watched]) \in Nat /\ Len(log'[Watched]) >= Len(log[Watched])
    BY <1>1, <1>2, <2>1
  <2>3. \A q \in Runs : status[q] # Absent => status'[q] # Absent
    BY <2>1
  <2> QED
    BY <1>1, <2>1, <2>2, <2>3 DEF Moved
<1>4. ASSUME NEW r \in Runs, NEW t \in JobState, Job!Advance(r, <<t>>),
             Height[t] >= Height[status[r]] + 1, status[r] \notin TERMINAL
      PROVE  Moved
  <2>1. PICK path : path = <<t>>
    OBVIOUS
  <2>2. path \in Seq(JobState) /\ Len(path) = 1 /\ path[Len(path)] = t
    BY <2>1
  <2>3. Job!Advance(r, path)
    BY <1>4, <2>1
  <2>4. Len(path) \in Nat \ {0} /\ Height[path[Len(path)]] >= Height[status[r]] + Len(path)
    BY <1>4, <2>2
  <2> QED
    BY <1>3, <1>4, <2>2, <2>3, <2>4
<1>5. PICK r \in Runs : Job!Insert(r) \/ Job!Change(r) \/ Job!Start(r) \/ Job!Publish(r)
  BY DEF Job!Next
<1>6. CASE Job!Insert(r)
  <2>1. /\ "QUEUED" \in JobState /\ Absent \notin TERMINAL
        /\ Height["QUEUED"] = 1 /\ Height[Absent] = 0
    BY DEF JobState, Height, Absent, TERMINAL, LongestHistory
  <2>2. status[r] = Absent /\ Job!Advance(r, <<"QUEUED">>)
    BY <1>6 DEF Job!Insert, Job!Absent, Absent
  <2>3. Height["QUEUED"] >= Height[status[r]] + 1 /\ status[r] \notin TERMINAL
    BY <2>1, <2>2
  <2> QED
    BY <1>4, <2>1, <2>2, <2>3
<1>7. CASE Job!Change(r)
  <2>1. PICK path \in Job!Commits(status[r]) : Job!Advance(r, path)
    BY <1>7 DEF Job!Change
  <2>2. status[r] \in JobState
    BY <1>7 DEF Job!Change, Job!Absent, Absent, RunInv
  <2>3. Climbs(path, status[r]) /\ status[r] \notin TERMINAL
    BY <2>2, CommitsClimb
  <2> QED
    BY <2>1, <2>3, <1>3 DEF Climbs
<1>8. CASE Job!Start(r)
  BY <1>1, <1>8 DEF Job!Start, Moved, RunInv
<1>9. CASE Job!Publish(r)
  <2>1. /\ "SUCCEEDED" \in JobState /\ "POSTPROCESSING" \notin TERMINAL
        /\ Height["SUCCEEDED"] = 7 /\ Height["POSTPROCESSING"] = 6
    BY DEF JobState, Height, Absent, TERMINAL, LongestHistory
  <2>2. status[r] = "POSTPROCESSING" /\ Job!Advance(r, <<"SUCCEEDED">>)
    BY <1>9 DEF Job!Publish
  <2>3. Height["SUCCEEDED"] >= Height[status[r]] + 1 /\ status[r] \notin TERMINAL
    BY <2>1, <2>2
  <2> QED
    BY <1>4, <2>1, <2>2, <2>3
<1> QED
  BY <1>5, <1>6, <1>7, <1>8, <1>9

-----------------------------------------------------------------------------
(* Reading events and sending frames.                                      *)

LEMMA Basics ==
  ASSUME StreamInv
  PROVE  /\ Watched \in Runs /\ wire \in Seq(Frame) /\ shown \in Seq(Nat)
         /\ Len(wire) \in Nat /\ Len(shown) \in Nat /\ Len(log[Watched]) \in Nat
         /\ \A i \in 1..Len(wire) : wire[i] \in Frame
         /\ cursor \in Int /\ lastId \in Int /\ status[Watched] \in JobState \cup {Absent}
         /\ Len(log[Watched]) <= LongestHistory
<1>1. Watched \in Runs /\ wire \in Seq(Frame) /\ shown \in Seq(Nat)
  BY StreamAssumption DEF StreamInv, StreamTypes, Frame
<1>2. log[Watched] \in Seq(JobState) /\ status[Watched] \in JobState \cup {Absent}
  BY <1>1 DEF StreamInv, RunInv
<1>3. Len(wire) \in Nat /\ Len(shown) \in Nat /\ Len(log[Watched]) \in Nat
  BY <1>1, <1>2, LenProperties
<1>4. Height[status[Watched]] \in 0..LongestHistory
  BY <1>2, HeightBounds
<1>5. Len(log[Watched]) <= LongestHistory
  BY <1>1, <1>3, <1>4 DEF StreamInv, RunInv, LongestHistory
<1>6. \A i \in 1..Len(wire) : wire[i] \in Frame
  BY <1>1, ElementOfSeq
<1> QED
  BY <1>1, <1>2, <1>3, <1>5, <1>6 DEF StreamInv, StreamTypes

\* A query reads to the end of the history, since a page holds all of it.
LEMMA ReadsAll ==
  ASSUME StreamInv, ReadEvents
  PROVE  /\ cursor' = Len(log[Watched]) - 1
         /\ wire' \in Seq(Frame)
         /\ Len(wire') = Len(wire) + (cursor' - cursor)
         /\ \A i \in 1..Len(wire) : wire'[i] = wire[i]
         /\ \A i \in (Len(wire) + 1)..Len(wire') :
              wire'[i] = [kind |-> "transition", id |-> cursor + (i - Len(wire))]
<1> DEFINE k == Len(log[Watched]) - 1 - cursor
<1>1. /\ Len(wire) \in Nat /\ wire \in Seq(Frame) /\ cursor \in Int
      /\ k \in Nat /\ k <= PageSize /\ -1 <= cursor
  <2>1. Len(wire) \in Nat /\ wire \in Seq(Frame) /\ cursor \in Int /\ Len(log[Watched]) \in Nat
    BY Basics
  <2>2. Len(shown) \in Nat /\ Len(log[Watched]) <= 7 /\ PageSize \in Nat /\ PageSize >= 7
    BY Basics, StreamAssumption DEF LongestHistory
  <2>3. lastId = Len(shown) - 1 /\ lastId <= cursor /\ cursor < Len(log[Watched])
    BY DEF StreamInv, PlaceInv
  <2> QED
    BY <2>1, <2>2, <2>3
<1>2. Fetch = [i \in 1..k |-> [kind |-> "transition", id |-> cursor + i]]
  BY <1>1, StreamAssumption DEF Fetch
<1> HIDE DEF k
<1>3. \A i \in 1..k : [kind |-> "transition", id |-> cursor + i] \in Frame
  BY <1>1 DEF Frame
<1>4. Fetch \in Seq(Frame)
  <2>1. Fetch \in [1..k -> Frame]
    BY <1>2, <1>3
  <2> QED
    BY <1>1, <2>1, SeqDef
<1>5. Len(Fetch) = k
  BY <1>1, <1>2, <1>4, LenProperties
<1>6. /\ wire \o Fetch \in Seq(Frame)
      /\ Len(wire \o Fetch) = Len(wire) + k
      /\ \A i \in 1..Len(wire) + k :
           (wire \o Fetch)[i] = IF i <= Len(wire) THEN wire[i] ELSE Fetch[i - Len(wire)]
  BY <1>1, <1>4, <1>5, ConcatProperties
<1>7. wire' = wire \o Fetch /\ cursor' = cursor + k
  BY <1>5 DEF ReadEvents
<1>8. \A i \in 1..Len(wire) : wire'[i] = wire[i]
  BY <1>1, <1>6, <1>7
<1>9. \A i \in (Len(wire) + 1)..Len(wire') : wire'[i] = Fetch[i - Len(wire)] /\ i - Len(wire) \in 1..k
  BY <1>1, <1>6, <1>7
<1>10. cursor' = Len(log[Watched]) - 1
  BY <1>1, <1>7, Basics DEF k
<1>11. ASSUME NEW i \in (Len(wire) + 1)..Len(wire')
       PROVE  wire'[i] = [kind |-> "transition", id |-> cursor + (i - Len(wire))]
  BY <1>2, <1>9
<1>12. wire' \in Seq(Frame) /\ Len(wire') = Len(wire) + (cursor' - cursor)
  BY <1>1, <1>6, <1>7
<1> QED
  BY <1>8, <1>10, <1>11, <1>12

LEMMA ReadKeepsWire ==
  ASSUME StreamInv, ReadEvents, conn \notin {"none", "ended"}, conn' # "none",
         UNCHANGED <<status, log, round, pageVars>>
  PROVE  /\ PlaceInv' /\ WireInv'
         /\ \A i \in 1..Len(wire') : ~IsFinal(wire'[i])
         /\ cursor' = Len(log[Watched]) - 1
<1>1. /\ cursor' = Len(log[Watched]) - 1
      /\ Len(wire') = Len(wire) + (cursor' - cursor)
      /\ \A i \in 1..Len(wire) : wire'[i] = wire[i]
      /\ \A i \in (Len(wire) + 1)..Len(wire') :
           wire'[i].kind = "transition" /\ wire'[i].id = cursor + (i - Len(wire))
  <2>1. ASSUME NEW i \in (Len(wire) + 1)..Len(wire')
        PROVE  wire'[i].kind = "transition" /\ wire'[i].id = cursor + (i - Len(wire))
    <3>1. wire'[i] = [kind |-> "transition", id |-> cursor + (i - Len(wire))]
      BY ReadsAll
    <3> QED
      BY <3>1
  <2> QED
    BY <2>1, ReadsAll
<1>2. /\ Len(wire) \in Nat /\ Len(log[Watched]) \in Nat /\ cursor \in Int /\ lastId \in Int
      /\ cursor <= cursor' /\ cursor' \in Int /\ lastId <= cursor
  BY <1>1, Basics DEF StreamInv, PlaceInv
<1>3. PlaceInv'
  <2>1. /\ lastId' = lastId /\ Len(shown') = Len(shown) /\ round' = round
        /\ Len(log'[Watched]) = Len(log[Watched])
    BY DEF pageVars
  <2>2. lastId = Len(shown) - 1 /\ round < Rounds
    BY DEF StreamInv, PlaceInv
  <2>3. lastId <= cursor' /\ cursor' < Len(log[Watched])
    BY <1>1, <1>2
  <2> QED
    BY <2>1, <2>2, <2>3 DEF PlaceInv
<1>4. \A i \in 1..Len(wire') :
        \/ i \in 1..Len(wire) /\ wire'[i] = wire[i]
        \/ i > Len(wire) /\ IsEvent(wire'[i]) /\ wire'[i].id = cursor + (i - Len(wire))
  <2> TAKE i \in 1..Len(wire')
  <2>1. i \in 1..Len(wire) \/ i \in (Len(wire) + 1)..Len(wire')
    BY <1>1, <1>2
  <2> QED
    BY <1>1, <1>2, <2>1 DEF IsEvent
<1>5. \A i \in 1..Len(wire) :
        IsEvent(wire[i]) => wire[i].id \in (lastId + 1)..cursor
  BY DEF StreamInv, WireInv
<1>6. \A i \in 1..Len(wire') : IsEvent(wire'[i]) => wire'[i].id \in (lastId + 1)..cursor'
  <2> SUFFICES ASSUME NEW i \in 1..Len(wire'), IsEvent(wire'[i])
               PROVE  wire'[i].id \in (lastId + 1)..cursor'
    BY Zenon
  <2>1. CASE i \in 1..Len(wire) /\ wire'[i] = wire[i]
    <3>1. wire[i].id \in (lastId + 1)..cursor
      BY <1>5, <2>1
    <3> QED
      BY <1>2, <2>1, <3>1
  <2>2. CASE i > Len(wire) /\ wire'[i].id = cursor + (i - Len(wire))
    BY <1>1, <1>2, <2>2
  <2> QED
    BY <1>4, <2>1, <2>2
<1>7. ASSUME NEW i \in 1..Len(wire'), NEW j \in 1..Len(wire'),
             i < j, IsEvent(wire'[i]), IsEvent(wire'[j])
      PROVE  wire'[i].id < wire'[j].id
  <2>1. CASE j \in 1..Len(wire)
    <3>1. i \in 1..Len(wire) /\ wire'[i] = wire[i] /\ wire'[j] = wire[j]
      BY <1>1, <1>2, <1>7, <2>1
    <3> QED
      BY <1>7, <2>1, <3>1 DEF StreamInv, WireInv
  <2>2. CASE j > Len(wire) /\ i \in 1..Len(wire)
    BY <1>2, <1>4, <1>5, <1>7, <2>2
  <2>3. CASE i > Len(wire)
    BY <1>2, <1>4, <1>7, <2>3
  <2> QED
    BY <1>2, <1>4, <2>1, <2>2, <2>3
<1>8. ASSUME NEW n \in (lastId + 1)..cursor'
      PROVE  \E i \in 1..Len(wire') : IsEvent(wire'[i]) /\ wire'[i].id = n
  <2>1. CASE n <= cursor
    <3>1. PICK i \in 1..Len(wire) : IsEvent(wire[i]) /\ wire[i].id = n
      BY <1>2, <2>1 DEF StreamInv, WireInv
    <3>2. wire'[i] = wire[i] /\ i \in 1..Len(wire')
      BY <1>1, <1>2
    <3>3. IsEvent(wire'[i]) /\ wire'[i].id = n
      BY <3>1, <3>2
    <3> QED
      BY <3>2, <3>3, Zenon
  <2>2. CASE n > cursor
    <3>1. Len(wire) + (n - cursor) \in (Len(wire) + 1)..Len(wire')
      BY <1>1, <1>2, <2>2
    <3>2. PICK m \in (Len(wire) + 1)..Len(wire') : m = Len(wire) + (n - cursor)
      BY <3>1
    <3>3. wire'[m].kind = "transition" /\ wire'[m].id = cursor + (m - Len(wire))
      BY <1>1
    <3>4. m \in 1..Len(wire') /\ cursor + (m - Len(wire)) = n
      BY <1>2, <3>2
    <3> QED
      BY <3>3, <3>4 DEF IsEvent
  <2> QED
    BY <1>2, <2>1, <2>2
<1>9. \A i \in 1..Len(wire') : ~IsFinal(wire'[i])
  BY <1>1, <1>4 DEF StreamInv, EndInv, IsFinal, IsEvent
<1> QED
  BY <1>1, <1>3, <1>6, <1>7, <1>8, <1>9 DEF WireInv, pageVars

LEMMA QueryKeeps ==
  ASSUME StreamInv, Query
  PROVE  StreamInv'
<1> USE DEF Query, runVars
<1>1. /\ PlaceInv' /\ WireInv' /\ \A i \in 1..Len(wire') : ~IsFinal(wire'[i])
  BY ReadKeepsWire
<1>2. wire' \in Seq(Frame) /\ cursor' \in Int
  BY ReadsAll, Basics
<1>3. StreamTypes' /\ HistoryIsAPrefix' /\ RunInv'
  BY <1>2 DEF StreamInv, StreamTypes, HistoryIsAPrefix, RunInv, pageVars, Frame
<1>4. EndInv'
  BY <1>1 DEF StreamInv, EndInv, pageVars, AllRead
<1> QED
  BY <1>1, <1>3, <1>4 DEF StreamInv

LEMMA DrainKeeps ==
  ASSUME StreamInv, Drain
  PROVE  StreamInv'
<1> USE DEF Drain, runVars
<1>1. /\ PlaceInv' /\ WireInv' /\ \A i \in 1..Len(wire') : ~IsFinal(wire'[i])
      /\ cursor' = Len(log[Watched]) - 1
  BY ReadKeepsWire
<1>2. wire' \in Seq(Frame) /\ cursor' \in Int
  BY ReadsAll, Basics
<1>3. StreamTypes' /\ HistoryIsAPrefix' /\ RunInv'
  BY <1>2 DEF StreamInv, StreamTypes, HistoryIsAPrefix, RunInv, pageVars, Frame
<1>4. EndInv'
  BY <1>1 DEF StreamInv, EndInv, pageVars, AllRead
<1> QED
  BY <1>1, <1>3, <1>4 DEF StreamInv

\* The status that the stream sends: a final one only after all was read.
LEMMA SendStatusKeeps ==
  ASSUME StreamInv, SendStatus
  PROVE  StreamInv'
<1> USE DEF SendStatus, runVars
<1> DEFINE f == [kind |-> "status", state |-> snap]
<1>1. f \in Frame /\ ~IsEvent(f) /\ (IsFinal(f) <=> snap \in TERMINAL)
  BY DEF StreamInv, StreamTypes, EndInv, Frame, IsEvent, IsFinal
<1>2. wire' = Append(wire, f)
  OBVIOUS
<1> HIDE DEF f
<1>3. /\ wire' \in Seq(Frame) /\ Len(wire') = Len(wire) + 1
      /\ \A i \in 1..Len(wire) : wire'[i] = wire[i]
      /\ wire'[Len(wire) + 1] = f
  BY <1>1, <1>2, Basics, AppendProperties
<1>4. Len(wire) \in Nat /\ cursor \in Int /\ lastId \in Int
  BY Basics
<1>5. \A i \in 1..Len(wire') :
        \/ i \in 1..Len(wire) /\ wire'[i] = wire[i]
        \/ i = Len(wire') /\ wire'[i] = f
  BY <1>3, <1>4
<1>6. StreamTypes' /\ HistoryIsAPrefix' /\ RunInv' /\ PlaceInv'
  BY <1>3 DEF StreamInv, StreamTypes, HistoryIsAPrefix, RunInv, PlaceInv, pageVars, Frame
<1>7. WireInv'
  <2>1. \A i \in 1..Len(wire') : IsEvent(wire'[i]) => i \in 1..Len(wire) /\ wire'[i] = wire[i]
    BY <1>1, <1>5
  <2>2. \A n \in (lastId + 1)..cursor :
          \E i \in 1..Len(wire') : IsEvent(wire'[i]) /\ wire'[i].id = n
    BY <1>3, <1>4 DEF StreamInv, WireInv
  <2>3. conn' # "none"
    OBVIOUS
  <2>4. /\ \A i \in 1..Len(wire') : IsEvent(wire'[i]) => wire'[i].id \in (lastId + 1)..cursor
        /\ \A i, j \in 1..Len(wire') :
             i < j /\ IsEvent(wire'[i]) /\ IsEvent(wire'[j]) => wire'[i].id < wire'[j].id
    BY <2>1 DEF StreamInv, WireInv
  <2> QED
    BY <2>2, <2>3, <2>4 DEF WireInv, pageVars
<1>8. EndInv'
  <2>1. \A i \in 1..Len(wire) : ~IsFinal(wire[i])
    BY DEF StreamInv, EndInv
  <2>2. \A i \in 1..Len(wire') : IsFinal(wire'[i]) => i = Len(wire') /\ snap \in TERMINAL
    BY <1>1, <1>5, <2>1
  <2> QED
    BY <2>2 DEF StreamInv, EndInv, AllRead, pageVars
<1> QED
  BY <1>6, <1>7, <1>8 DEF StreamInv

LEMMA SnapshotKeeps ==
  ASSUME StreamInv, Snapshot
  PROVE  StreamInv'
<1> USE DEF Snapshot, runVars, pageVars
<1>1. StreamTypes' /\ HistoryIsAPrefix' /\ RunInv' /\ PlaceInv'
  BY Basics DEF StreamInv, StreamTypes, HistoryIsAPrefix, RunInv, PlaceInv
<1>2. WireInv'
  BY DEF StreamInv, WireInv
<1>3. EndInv'
  BY DEF StreamInv, EndInv, AllRead
<1> QED
  BY <1>1, <1>2, <1>3 DEF StreamInv

-----------------------------------------------------------------------------
(* The connection and the page.                                            *)

\* A connection begins where the page is: there is nothing in between.
LEMMA OpenKeeps ==
  ASSUME StreamInv, Open
  PROVE  StreamInv'
<1> USE DEF Open, runVars, pageVars
<1>1. Len(shown) \in Nat /\ lastId \in Int /\ cursor \in Int /\ Len(log[Watched]) \in Nat
  BY Basics
<1>2. Len(wire') = 0 /\ 1..Len(wire') = {}
  BY DEF StreamInv, StreamTypes
<1>3. StreamTypes' /\ HistoryIsAPrefix' /\ RunInv' /\ PlaceInv'
  BY <1>1, StreamAssumption DEF StreamInv, StreamTypes, HistoryIsAPrefix, RunInv, PlaceInv
<1>4. WireInv'
  BY <1>1, <1>2 DEF StreamInv, WireInv
<1>5. EndInv'
  BY <1>2 DEF StreamInv, EndInv, AllRead
<1> QED
  BY <1>3, <1>4, <1>5 DEF StreamInv

LEMMA NextRoundKeeps ==
  ASSUME StreamInv, NextRound
  PROVE  StreamInv'
<1> USE DEF NextRound, runVars, pageVars
<1>1. StreamTypes' /\ HistoryIsAPrefix' /\ RunInv' /\ PlaceInv'
  BY StreamAssumption DEF StreamInv, StreamTypes, HistoryIsAPrefix, RunInv, PlaceInv
<1>2. WireInv' /\ EndInv'
  BY DEF StreamInv, WireInv, EndInv, AllRead
<1> QED
  BY <1>1, <1>2 DEF StreamInv

LEMMA EndSeenKeeps ==
  ASSUME StreamInv, EndSeen
  PROVE  StreamInv'
<1> USE DEF EndSeen, runVars, pageVars
<1>1. StreamTypes' /\ HistoryIsAPrefix' /\ RunInv' /\ PlaceInv'
  BY DEF StreamInv, StreamTypes, HistoryIsAPrefix, RunInv, PlaceInv
<1>2. Len(wire') = 0 /\ 1..Len(wire') = {}
  BY DEF StreamInv, StreamTypes
<1>3. WireInv' /\ EndInv'
  BY <1>2 DEF StreamInv, WireInv, EndInv, AllRead
<1> QED
  BY <1>1, <1>3 DEF StreamInv

LEMMA DropKeeps ==
  ASSUME StreamInv, Drop
  PROVE  StreamInv'
<1> USE DEF Drop, runVars, pageVars
<1>1. StreamTypes' /\ HistoryIsAPrefix' /\ RunInv' /\ PlaceInv'
  BY StreamAssumption DEF StreamInv, StreamTypes, HistoryIsAPrefix, RunInv, PlaceInv
<1>2. wire' = <<>> /\ Len(wire') = 0 /\ 1..Len(wire') = {}
  OBVIOUS
<1>3. WireInv' /\ EndInv'
  BY <1>2 DEF StreamInv, WireInv, EndInv, AllRead
<1> QED
  BY <1>1, <1>3 DEF StreamInv

\* The first frame of the wire goes.
LEMMA FrameTaken ==
  ASSUME StreamInv, wire # <<>>, wire' = Tail(wire)
  PROVE  /\ wire[1] = Head(wire) /\ Head(wire) \in Frame /\ 1 \in 1..Len(wire)
         /\ wire' \in Seq(Frame) /\ Len(wire') = Len(wire) - 1 /\ Len(wire) \in Nat
         /\ \A i \in 1..Len(wire') : i + 1 \in 1..Len(wire) /\ wire'[i] = wire[i + 1]
         /\ conn # "none"
<1>1. wire \in Seq(Frame) /\ Len(wire) \in Nat
  BY Basics
<1>2. Len(wire) > 0
  BY <1>1, EmptySeq
<1>3. /\ wire' \in Seq(Frame) /\ Len(wire') = Len(wire) - 1
      /\ \A i \in 1..Len(wire') : wire'[i] = wire[i + 1]
      /\ Head(wire) \in Frame
  BY <1>1, HeadTailProperties
<1>4. wire[1] = Head(wire)
  BY <1>1
<1>5. conn # "none"
  BY DEF StreamInv, WireInv
<1> QED
  BY <1>1, <1>2, <1>3, <1>4, <1>5

\* The event at the head of the wire is the one the page misses.
LEMMA NextEvent ==
  ASSUME StreamInv, wire # <<>>, IsEvent(Head(wire))
  PROVE  Head(wire).id = lastId + 1 /\ lastId + 1 <= cursor
<1>1. /\ wire[1] = Head(wire) /\ 1 \in 1..Len(wire) /\ Len(wire) \in Nat
      /\ cursor \in Int /\ lastId \in Int /\ conn # "none"
  BY Basics, EmptySeq DEF StreamInv, WireInv
<1>2. wire[1].id \in (lastId + 1)..cursor
  BY <1>1 DEF StreamInv, WireInv
<1>3. lastId + 1 \in (lastId + 1)..cursor
  BY <1>1, <1>2
<1>4. PICK i \in 1..Len(wire) : IsEvent(wire[i]) /\ wire[i].id = lastId + 1
  BY <1>1, <1>3 DEF StreamInv, WireInv
<1>5. i # 1 => 1 < i
  BY <1>1
<1>6. i # 1 => wire[1].id < wire[i].id
  BY <1>1, <1>4, <1>5 DEF StreamInv, WireInv
<1> QED
  BY <1>1, <1>2, <1>3, <1>4, <1>6

LEMMA ReceiveTransitionKeeps ==
  ASSUME StreamInv, ReceiveTransition
  PROVE  StreamInv'
<1> USE DEF ReceiveTransition, runVars, serverVars
<1>1. /\ wire[1] = Head(wire) /\ Head(wire) \in Frame /\ 1 \in 1..Len(wire)
      /\ wire' \in Seq(Frame) /\ Len(wire') = Len(wire) - 1 /\ Len(wire) \in Nat
      /\ \A i \in 1..Len(wire') : i + 1 \in 1..Len(wire) /\ wire'[i] = wire[i + 1]
      /\ conn # "none"
  BY FrameTaken
<1>2. Head(wire).id = lastId + 1 /\ lastId + 1 <= cursor
  BY NextEvent DEF IsEvent
<1>3. /\ Len(shown) \in Nat /\ shown \in Seq(Nat) /\ lastId \in Int /\ cursor \in Int
      /\ lastId = Len(shown) - 1
  BY Basics DEF StreamInv, PlaceInv
<1>4. lastId' = Len(shown) /\ lastId' = lastId + 1
  BY <1>2, <1>3
<1>5. shown' = Append(shown, Len(shown))
  <2>1. \A i \in 1..Len(shown) : shown[i] # Len(shown)
    BY <1>3 DEF StreamInv, HistoryIsAPrefix
  <2> QED
    BY <1>4, <2>1
<1>6. /\ shown' \in Seq(Nat) /\ Len(shown') = Len(shown) + 1
      /\ \A i \in 1..Len(shown) : shown'[i] = shown[i]
      /\ shown'[Len(shown) + 1] = Len(shown)
  BY <1>3, <1>5, AppendProperties
<1>7. HistoryIsAPrefix'
  BY <1>3, <1>6 DEF StreamInv, HistoryIsAPrefix
<1>8. StreamTypes' /\ RunInv' /\ PlaceInv'
  BY <1>1, <1>2, <1>3, <1>4, <1>6 DEF StreamInv, StreamTypes, RunInv, PlaceInv, Frame
<1>9. WireInv'
  <2>1. \A i \in 1..Len(wire') :
          IsEvent(wire'[i]) => wire'[i].id > lastId + 1 /\ wire'[i].id \in (lastId + 1)..cursor
    <3> SUFFICES ASSUME NEW i \in 1..Len(wire'), IsEvent(wire'[i])
                 PROVE  wire'[i].id > lastId + 1 /\ wire'[i].id \in (lastId + 1)..cursor
      BY Zenon
    <3>1. i + 1 \in 1..Len(wire) /\ wire'[i] = wire[i + 1] /\ 1 < i + 1
      BY <1>1
    <3>2. wire[1].id < wire[i + 1].id /\ wire[i + 1].id \in (lastId + 1)..cursor
      BY <1>1, <3>1 DEF StreamInv, WireInv, IsEvent
    <3> QED
      BY <1>1, <1>2, <1>3, <3>1, <3>2
  <2>2. \A i \in 1..Len(wire') : IsEvent(wire'[i]) => wire'[i].id \in (lastId' + 1)..cursor'
    <3> SUFFICES ASSUME NEW i \in 1..Len(wire'), IsEvent(wire'[i])
                 PROVE  wire'[i].id \in (lastId' + 1)..cursor'
      BY Zenon
    <3>1. wire'[i].id > lastId + 1 /\ wire'[i].id \in (lastId + 1)..cursor /\ cursor' = cursor
      BY <2>1
    <3> QED
      BY <1>3, <1>4, <3>1
  <2>3. ASSUME NEW i \in 1..Len(wire'), NEW j \in 1..Len(wire'),
               i < j, IsEvent(wire'[i]), IsEvent(wire'[j])
        PROVE  wire'[i].id < wire'[j].id
    <3>1. i + 1 < j + 1
      BY <1>1, <2>3
    <3> QED
      BY <1>1, <2>3, <3>1 DEF StreamInv, WireInv
  <2>4. ASSUME NEW n \in (lastId' + 1)..cursor'
        PROVE  \E i \in 1..Len(wire') : IsEvent(wire'[i]) /\ wire'[i].id = n
    <3>1. n \in (lastId + 1)..cursor /\ n # lastId + 1
      BY <1>3, <1>4
    <3>2. PICK i \in 1..Len(wire) : IsEvent(wire[i]) /\ wire[i].id = n
      BY <1>1, <3>1 DEF StreamInv, WireInv
    <3>3. i # 1
      BY <1>1, <1>2, <3>1, <3>2
    <3>4. PICK m \in 1..Len(wire') : m + 1 = i
      <4>1. i - 1 \in 1..Len(wire') /\ (i - 1) + 1 = i
        BY <1>1, <3>3
      <4> QED
        BY <4>1
    <3> QED
      BY <1>1, <3>2, <3>4
  <2> QED
    BY <1>1, <2>2, <2>3, <2>4 DEF WireInv
<1>10. EndInv'
  <2>1. ASSUME NEW i \in 1..Len(wire'), IsFinal(wire'[i])
        PROVE  i = Len(wire') /\ conn = "ended" /\ AllRead
    <3>1. i + 1 \in 1..Len(wire) /\ IsFinal(wire[i + 1])
      BY <1>1, <2>1
    <3>2. i + 1 = Len(wire) /\ conn = "ended" /\ AllRead
      BY <3>1 DEF StreamInv, EndInv
    <3>3. Len(wire') = Len(wire) - 1 /\ Len(wire) \in Nat /\ i \in Int
      BY <1>1
    <3>4. i = Len(wire')
      BY <3>2, <3>3
    <3> QED
      BY <3>2, <3>4
  <2> QED
    BY <2>1 DEF StreamInv, EndInv, AllRead
<1> QED
  BY <1>7, <1>8, <1>9, <1>10 DEF StreamInv

\* A final status is the last frame: whoever reads it has nothing left to read.
LEMMA ReceiveStatusKeeps ==
  ASSUME StreamInv, ReceiveStatus
  PROVE  StreamInv'
<1> USE DEF ReceiveStatus, runVars
<1>1. CASE IsFinal(Head(wire))
  <2>1. /\ wire[1] = Head(wire) /\ 1 \in 1..Len(wire) /\ Len(wire) \in Nat
        /\ conn # "none" /\ cursor \in Int /\ lastId \in Int
    BY Basics, EmptySeq DEF StreamInv, WireInv
  <2>2. 1 = Len(wire) /\ AllRead
    BY <1>1, <2>1 DEF StreamInv, EndInv
  <2>3. \A i \in 1..Len(wire) : ~IsEvent(wire[i])
    <3> TAKE i \in 1..Len(wire)
    <3>1. i = 1
      <4>1. Len(wire) = 1 /\ i \in 1..1
        BY <2>2
      <4> QED
        BY <4>1
    <3> QED
      BY <1>1, <2>1, <3>1 DEF IsEvent, IsFinal
  <2>4. ~ (cursor \in (lastId + 1)..cursor)
    BY <2>1, <2>3 DEF StreamInv, WireInv
  <2>5. lastId = cursor
    <3>1. lastId <= cursor
      BY DEF StreamInv, PlaceInv
    <3> QED
      BY <2>1, <2>4, <3>1
  <2>6. watching' = FALSE /\ conn' = "none" /\ wire' = <<>> /\ Len(wire') = 0 /\ 1..Len(wire') = {}
    BY <1>1 DEF IsFinal
  <2>7. StreamTypes' /\ HistoryIsAPrefix' /\ RunInv' /\ PlaceInv'
    <3>1. <<>> \in Seq(Frame)
      OBVIOUS
    <3>2. StreamTypes'
      BY <2>6, <3>1 DEF StreamInv, StreamTypes, Frame
    <3>3. HistoryIsAPrefix' /\ RunInv'
      BY DEF StreamInv, HistoryIsAPrefix, RunInv
    <3>4. PlaceInv'
      BY <2>6 DEF StreamInv, PlaceInv
    <3> QED
      BY <3>2, <3>3, <3>4
  <2>8. WireInv' /\ EndInv'
    BY <2>2, <2>5, <2>6 DEF StreamInv, WireInv, EndInv, AllRead
  <2> QED
    BY <2>7, <2>8 DEF StreamInv
<1>2. CASE ~IsFinal(Head(wire))
  <2>0. wire' = Tail(wire) /\ UNCHANGED <<watching, conn>>
    BY <1>2 DEF IsFinal
  <2>1. /\ wire[1] = Head(wire) /\ 1 \in 1..Len(wire)
        /\ wire' \in Seq(Frame) /\ Len(wire') = Len(wire) - 1 /\ Len(wire) \in Nat
        /\ \A i \in 1..Len(wire') : i + 1 \in 1..Len(wire) /\ wire'[i] = wire[i + 1]
        /\ conn # "none"
    BY <2>0, FrameTaken
  <2>2. StreamTypes' /\ HistoryIsAPrefix' /\ RunInv' /\ PlaceInv'
    BY <2>0, <2>1 DEF StreamInv, StreamTypes, HistoryIsAPrefix, RunInv, PlaceInv, Frame
  <2>3. WireInv'
    <3>1. \A i \in 1..Len(wire') : IsEvent(wire'[i]) => wire'[i].id \in (lastId + 1)..cursor
      BY <2>1 DEF StreamInv, WireInv
    <3>2. ASSUME NEW i \in 1..Len(wire'), NEW j \in 1..Len(wire'),
                 i < j, IsEvent(wire'[i]), IsEvent(wire'[j])
          PROVE  wire'[i].id < wire'[j].id
      <4>1. i + 1 < j + 1
        BY <2>1, <3>2
      <4> QED
        BY <2>1, <3>2, <4>1 DEF StreamInv, WireInv
    <3>3. ASSUME NEW n \in (lastId + 1)..cursor
          PROVE  \E i \in 1..Len(wire') : IsEvent(wire'[i]) /\ wire'[i].id = n
      <4>1. PICK i \in 1..Len(wire) : IsEvent(wire[i]) /\ wire[i].id = n
        BY <2>1 DEF StreamInv, WireInv
      <4>2. i # 1
        BY <2>1, <4>1 DEF IsEvent
      <4>3. PICK m \in 1..Len(wire') : m + 1 = i
        <5>1. i - 1 \in 1..Len(wire') /\ (i - 1) + 1 = i
          BY <2>1, <4>2
        <5> QED
          BY <5>1
      <4> QED
        BY <2>1, <4>1, <4>3
    <3> QED
      BY <2>0, <2>1, <3>1, <3>2, <3>3 DEF WireInv
  <2>4. EndInv'
    <3>1. ASSUME NEW i \in 1..Len(wire'), IsFinal(wire'[i])
          PROVE  i = Len(wire') /\ conn = "ended" /\ AllRead
      <4>1. i + 1 \in 1..Len(wire) /\ IsFinal(wire[i + 1])
        BY <2>1, <3>1
      <4>2. i + 1 = Len(wire) /\ conn = "ended" /\ AllRead
        BY <4>1 DEF StreamInv, EndInv
      <4>3. Len(wire') = Len(wire) - 1 /\ Len(wire) \in Nat /\ i \in Int
        BY <2>1
      <4>4. i = Len(wire')
        BY <4>2, <4>3
      <4> QED
        BY <4>2, <4>4
    <3> QED
      BY <2>0, <3>1 DEF StreamInv, EndInv, AllRead
  <2> QED
    BY <2>2, <2>3, <2>4 DEF StreamInv
<1> QED
  BY <1>1, <1>2

\* While a run moves and neither server nor page does anything, both stay right about it.
LEMMA MovedKeeps ==
  ASSUME StreamInv, Moved, UNCHANGED <<serverVars, wire, pageVars, drops>>
  PROVE  StreamInv'
<1> USE DEF serverVars, pageVars
<1>1. StreamTypes' /\ HistoryIsAPrefix' /\ RunInv'
  BY DEF StreamInv, StreamTypes, HistoryIsAPrefix, Moved
<1>2. PlaceInv'
  BY Basics DEF StreamInv, PlaceInv, Moved
<1>3. WireInv'
  BY DEF StreamInv, WireInv
<1>4. AllRead => AllRead'
  BY DEF AllRead, Moved
<1>5. EndInv'
  BY <1>4, Basics DEF StreamInv, EndInv, Moved
<1> QED
  BY <1>1, <1>2, <1>3, <1>5 DEF StreamInv

LEMMA RunMovesKeeps ==
  ASSUME StreamInv, RunMoves
  PROVE  StreamInv'
  BY RunMovesOn, MovedKeeps DEF StreamInv, RunMoves

-----------------------------------------------------------------------------
(* The theorems.                                                           *)

LEMMA StreamInitInv == StreamInit => StreamInv
<1> SUFFICES ASSUME StreamInit PROVE StreamInv
  OBVIOUS
<1> USE DEF StreamInit, PageInit
<1>1. /\ status = [r \in Runs |-> Absent] /\ log = [r \in Runs |-> <<>>]
  BY DEF Job!Init, Job!Absent, Absent
<1>2. Height[Absent] = 0
  BY DEF Height, Absent, JobState, TERMINAL
<1>3. RunInv
  BY <1>1, <1>2 DEF RunInv
<1>4. Len(log[Watched]) = 0 /\ Len(shown) = 0 /\ Len(wire) = 0
  BY <1>1, StreamAssumption
<1>5. StreamTypes /\ HistoryIsAPrefix
  BY <1>4, StreamAssumption DEF StreamTypes, HistoryIsAPrefix
<1>6. PlaceInv /\ WireInv /\ EndInv
  BY <1>4 DEF PlaceInv, WireInv, EndInv
<1> QED
  BY <1>3, <1>5, <1>6 DEF StreamInv

LEMMA StreamNextInv == StreamInv /\ [StreamNext]_streamVars => StreamInv'
<1> SUFFICES ASSUME StreamInv, [StreamNext]_streamVars PROVE StreamInv'
  OBVIOUS
<1>1. CASE RunMoves
  BY <1>1, RunMovesKeeps
<1>2. CASE Drop
  BY <1>2, DropKeeps
<1>3. CASE Stream
  <2>1. CASE Open
    BY <2>1, OpenKeeps
  <2>2. CASE Query
    BY <2>2, QueryKeeps
  <2>3. CASE Snapshot
    BY <2>3, SnapshotKeeps
  <2>4. CASE Drain
    BY <2>4, DrainKeeps
  <2>5. CASE SendStatus
    BY <2>5, SendStatusKeeps
  <2>6. CASE NextRound
    BY <2>6, NextRoundKeeps
  <2>7. CASE EndSeen
    BY <2>7, EndSeenKeeps
  <2>8. CASE ReceiveTransition
    BY <2>8, ReceiveTransitionKeeps
  <2>9. CASE ReceiveStatus
    BY <2>9, ReceiveStatusKeeps
  <2> QED
    BY <1>3, <2>1, <2>2, <2>3, <2>4, <2>5, <2>6, <2>7, <2>8, <2>9 DEF Stream
<1>4. CASE UNCHANGED streamVars
  BY <1>4 DEF streamVars, runVars, serverVars, pageVars, StreamInv, StreamTypes, HistoryIsAPrefix, RunInv,
              PlaceInv, WireInv, EndInv, AllRead
<1> QED
  BY <1>1, <1>2, <1>3, <1>4 DEF StreamNext

LEMMA StreamInvHolds == StreamSpec => []StreamInv
  BY StreamInitInv, StreamNextInv, PTL DEF StreamSpec

\* Through every reconnection and every lost frame the page shows the beginning of the
\* history, without a gap and without a duplicate: WireInv says that an open connection
\* carries exactly the events between the page and the server's cursor.
THEOREM PageShowsAPrefix == StreamSpec => []Consistent
<1>1. StreamInv => Consistent
  BY DEF StreamInv, Consistent
<1> QED
  BY <1>1, StreamInvHolds, PTL

\* A page that stopped listening shows all of the history.  This needs the second query
\* of a final run (EndInv) and that a page of the query holds a whole history (Height).
THEOREM ClosedPageIsComplete == StreamSpec => []HistoryIsComplete
<1>1. StreamInv => HistoryIsComplete
  BY Basics DEF StreamInv, EndInv, PlaceInv, AllRead, HistoryIsComplete
<1> QED
  BY <1>1, StreamInvHolds, PTL

-----------------------------------------------------------------------------
(***************************************************************************)
(* The page of a run that the web process, the workers and the reconcilers *)
(* drive: TrainingJobs and the stream of RunEvents together.               *)
(***************************************************************************)

SystemNext ==
  \/ Next /\ UNCHANGED <<serverVars, wire, pageVars, drops>>
  \/ (Stream \/ Drop) /\ UNCHANGED vars

SystemSpec == Init /\ PageInit /\ [][SystemNext]_<<vars, streamVars>>

\* Both modules name the same contract.
LEMMA SameContract == Contract!Next => Job!Next
  BY DEF Contract!Next, Contract!Insert, Contract!Change, Contract!Start, Contract!Publish,
         Contract!Advance, Contract!Commits, Contract!TRANSITIONS, Contract!JobState,
         Contract!TERMINAL, Contract!Absent,
         Job!Next, Job!Insert, Job!Change, Job!Start, Job!Publish, Job!Advance, Job!Commits,
         Job!TRANSITIONS, Job!JobState, Job!TERMINAL, Job!Absent

\* Nobody works on a run that was not inserted, claims lost or not.
RowsInv == \A p \in Procs : pc[p] # "idle" => status[at[p]] # Absent

\* A process works on the run it worked on before, or on one whose row it has just read.
LEMMA WorkersRead ==
  ASSUME TypeInv, [Next]_vars, NEW p \in Procs, pc'[p] # "idle"
  PROVE  \/ pc[p] # "idle" /\ at'[p] = at[p]
         \/ status[at'[p]] # Absent /\ at'[p] \in Runs
<1> DEFINE Goal == \/ pc[p] # "idle" /\ at'[p] = at[p]
                   \/ status[at'[p]] # Absent /\ at'[p] \in Runs
<1>1. CASE UNCHANGED <<pc, at>>
  BY <1>1
<1>2. ASSUME NEW r \in Runs, Insert(r) \/ Cancel(r) \/ Cleanup(r) \/ TrainingEnds(r)
                               \/ ContainerRemoved(r)
      PROVE  UNCHANGED <<pc, at>>
  BY <1>2 DEF Insert, Cancel, Cleanup, TrainingEnds, ContainerRemoved, procVars
<1>3. ASSUME NEW q \in Procs, ClaimLost(q) \/ Scan(q) \/ \E r \in Runs : PopHint(q, r) \/ Skip(q, r)
      PROVE  UNCHANGED <<pc, at>>
  BY <1>3 DEF ClaimLost, Scan, PopHint, Skip, procVars
<1>4. ASSUME NEW q \in Procs, NEW r \in Runs, Claim(q, r) PROVE Goal
  <2>1. status[r] # Absent
    BY <1>4, RouteIs DEF Claim, Absent
  <2> QED
    BY <1>4, <2>1 DEF Claim, Goto, TypeInv, TypeOK
<1>5. ASSUME NEW q \in Procs, Submit(q) \/ Examine(q) \/ Finish(q) \/ Crash(q) PROVE Goal
  <2>1. CASE Leave(q)
    BY <2>1 DEF Leave, TypeInv, TypeOK
  <2>2. ASSUME NEW step, Goto(q, step), UNCHANGED at, pc[q] # "idle" PROVE Goal
    BY <2>2 DEF Goto, TypeInv, TypeOK
  <2>3. Submit(q) => Leave(q) \/ (pc[q] # "idle" /\ \E step : Goto(q, step) /\ UNCHANGED at)
    BY ReturnLeaves DEF Submit, Prepare, MakeWorkspace, Materialize, DockerCreate, DockerStart,
                        RecordSubmitted
  <2>4. Examine(q) => Leave(q) \/ (pc[q] # "idle" /\ \E step : Goto(q, step) /\ UNCHANGED at)
    BY ReturnLeaves DEF Examine, Inspect, CancelInspect, CancelTouch, DockerStop, CancelRestat,
                        Observe, Observed, CancelReturned
  <2>5. Finish(q) => Leave(q) \/ (pc[q] # "idle" /\ \E step : Goto(q, step) /\ UNCHANGED at)
    BY ReturnLeaves DEF Finish, FinishBegin, FinishPut, FinishCommit
  <2>6. Crash(q) => Leave(q)
    BY DEF Crash, AbortTick
  <2> HIDE DEF Goal
  <2> QED
    BY <1>5, <2>1, <2>2, <2>3, <2>4, <2>5, <2>6
<1> QED
  BY <1>1, <1>2, <1>3, <1>4, <1>5
     DEF Next, Web, Create, Clone, Environment, Process, Tick, vars, procVars

\* Whatever step the processes take, the watched history only goes on, and ends for good
\* with a final state.
LEMMA ProcessesMoveOn ==
  ASSUME TypeInv, LaunchInv, SuccessInv, RowsInv, RunInv, [Next]_vars
  PROVE  Moved
<1>1. \A p \in Procs : pc[p] = "observe" => status[at[p]] # Absent
  BY DEF RowsInv
<1>2. Seen \/ \E p \in Procs : DockerStart(p)
  BY <1>1, HistoryStep
<1>3. CASE UNCHANGED <<status, log>>
  <2>1. Watched \in Runs /\ Len(log[Watched]) \in Nat
    BY StreamAssumption, LenProperties DEF RunInv
  <2> QED
    BY <1>3, <2>1 DEF Moved, RunInv
<1>4. CASE Contract!Next
  BY <1>4, SameContract, RunMovesOn
<1> QED
  BY <1>2, <1>3, <1>4 DEF Seen, Contract!contractVars, DockerStart, dbVars

LEMMA RowsStep ==
  ASSUME TypeInv, LaunchInv, SuccessInv, RowsInv, RunInv, [Next]_vars
  PROVE  RowsInv'
<1> SUFFICES ASSUME NEW p \in Procs, pc'[p] # "idle" PROVE status'[at'[p]] # Absent
  BY DEF RowsInv
<1>1. status[at'[p]] # Absent /\ at'[p] \in Runs
  BY WorkersRead, BusyHasARun DEF RowsInv
<1> QED
  BY <1>1, ProcessesMoveOn DEF Moved

\* Everything the page of a run promises holds of the runs that the processes drive:
\* through crashes, lost claims, failing commands and dropped connections it shows the
\* run's history in order, without gap or duplicate, and when it stops listening it has
\* all of it.  Nothing is assumed about claims: a process that lost its own may start a
\* container it should not, but it writes no history the page could miss.
THEOREM PageOfTheSystem == SystemSpec => [](Consistent /\ HistoryIsComplete)
<1> DEFINE I == TypeInv /\ LaunchInv /\ QuietInv /\ SuccessInv /\ RowsInv /\ StreamInv
<1>1. Init /\ PageInit => I
  <2> SUFFICES ASSUME Init, PageInit PROVE I
    OBVIOUS
  <2>1. TypeInv /\ LaunchInv /\ QuietInv /\ SuccessInv
    BY TypeInit, LaunchInit, QuietInit, SuccessInit
  <2>2. RowsInv
    BY DEF Init, RowsInv
  <2>3. StreamInit
    BY DEF Init, StreamInit, Job!Init, Job!Absent, Absent
  <2> QED
    BY <2>1, <2>2, <2>3, StreamInitInv
<1>2. I /\ [SystemNext]_<<vars, streamVars>> => I'
  <2> SUFFICES ASSUME I, [SystemNext]_<<vars, streamVars>> PROVE I'
    OBVIOUS
  <2>1. RunInv
    BY DEF StreamInv
  <2>2. [Next]_vars
    BY DEF SystemNext
  <2>3. (TypeInv /\ LaunchInv /\ QuietInv /\ SuccessInv)'
    BY <2>2, TypeStep, LaunchStep, QuietStep, SuccessStep
  <2>4. RowsInv'
    BY <2>1, <2>2, RowsStep
  <2>5. StreamInv'
    <3>1. CASE Next /\ UNCHANGED <<serverVars, wire, pageVars, drops>>
      BY <2>1, <2>2, <3>1, ProcessesMoveOn, MovedKeeps
    <3>2. CASE Stream \/ Drop
      BY <3>2, StreamNextInv DEF StreamNext
    <3>3. CASE UNCHANGED <<vars, streamVars>>
      BY <3>3, StreamNextInv
    <3> QED
      BY <3>1, <3>2, <3>3 DEF SystemNext
  <2> QED
    BY <2>3, <2>4, <2>5
<1>3. I => Consistent /\ HistoryIsComplete
  BY Basics DEF StreamInv, Consistent, EndInv, PlaceInv, AllRead, HistoryIsComplete
<1> HIDE DEF I
<1> QED
  BY <1>1, <1>2, <1>3, PTL DEF SystemSpec
=============================================================================
