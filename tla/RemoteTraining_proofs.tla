------------------------- MODULE RemoteTraining_proofs -------------------------
(***************************************************************************)
(* What RemoteTraining promises, for every set of targets and any number   *)
(* of crashes, failed requests, lost answers, late jobs, evictions and     *)
(* damaged outputs: the row, the run's directory and the target agree,     *)
(* nothing at the target is beyond the reach of clean-up, and training     *)
(* that completed is not reported as lost.                                 *)
(***************************************************************************)
EXTENDS RemoteTraining, TLAPS

-----------------------------------------------------------------------------
(* The inductive invariant.                                                *)

\* The steps of submit().
Submits == {"mkdir", "save", "pieces", "wait", "intent", "create", "start", "submitted"}

Away == {"none", "gone"}

\* Nothing trains, and nothing will.
Quiet == job \notin Training \cup {"coming"}

\* A completed training whose output is still whole.
Good == job = "done" /\ output = "valid"

\* The states a target of kind k can have its job in.
JobsOf(k) ==
  CASE k = "kubernetes" -> {"none", "running", "done", "failed", "gone"}
    [] k = "sagemaker"  -> {"none", "coming", "running", "stopping", "done", "failed", "stopped"}
    [] k = "ssh"        -> {"none", "created", "running", "done", "failed", "gone"}

\* Each target has its own jobs and its own ways to end them.
KindInv ==
  /\ job \in JobsOf(kind)
  /\ deleting \/ pc = "delete" => kind = "kubernetes"
  /\ deleting => job # "none"
  /\ pc = "mark" => kind # "sagemaker"
  /\ pc = "stop" => kind # "kubernetes"
  /\ mode = "abandoning" => kind = "ssh" /\ job = "created"
  /\ mode = "stopped" => kind = "ssh"

\* A handler takes only the steps of the purpose it was called for.
ModeInv ==
  /\ pc = "idle" <=> mode = "none"
  /\ mode = "submit" <=> pc \in Submits
  /\ pc = "observe" => mode \in {"preparing", "watching", "canceling"}
  /\ pc \in {"mark", "stop"} => mode \in {"abandoning", "canceling"}
  /\ pc = "delete" => mode \in {"canceling", "cleanup"}
  /\ pc = "commit" => mode = "register"
  /\ pc = "remove" => mode = "cleanup"

\* Only clean-up works on a run that is over, and nothing on one that is cleaned.
StatusInv ==
  /\ status = "QUEUED" => pc = "idle" /\ job = "none"
  /\ mode = "cleanup" <=> pc # "idle" /\ status \in Final
  /\ "cleaned" \in disk => status \in Final /\ pc = "idle"

\* What the workspace says of the target: the launch identity is there before anything
\* else is, the intent before a SageMaker job can be, and a manifest after its files.
DiskInv ==
  /\ pc \in Submits \ {"mkdir", "save"} => "launch" \in disk
  /\ kind = "sagemaker" =>
       /\ job # "none" \/ pc = "create" => "intent" \in disk
       /\ "canceled" \in disk => job = "stopped"
  /\ "manifest" \in disk \/ pc = "manifest" => "adapter" \in disk

\* submit() creates one job, and starts only the container it created.
SubmitInv ==
  /\ pc \in Submits \ {"start", "submitted"} => job = "none"
  /\ pc = "start" => job = "created"

\* What the answer r of status() says of the target, now and from now on.
Means(r) ==
  ~missed /\ r \in {"MISSING", "FAILED", "CANCELED", "SUCCEEDED"} =>
    /\ Quiet
    /\ r \in {"MISSING", "FAILED"} \/ (r = "CANCELED" /\ kind = "sagemaker") => ~Good

\* What a handler saw some steps ago still holds of the target when it acts on it.
LookInv ==
  /\ pc \in {"collect", "manifest", "commit"} => Quiet
  /\ pc = "observe" => Means(result)
  /\ pc = "mark" /\ kind = "kubernetes" => job \in Away
  /\ pc = "remove" => (~missed => Quiet) /\ (kind = "kubernetes" => job \in Away)

IInv ==
  /\ TypeOK /\ KindInv /\ ModeInv /\ StatusInv /\ DiskInv /\ SubmitInv /\ LookInv
  /\ NothingIsOrphaned /\ FinalIsQuiet /\ WorkIsNotWasted

LEMMA InitInv == Init => IInv
<1> SUFFICES ASSUME Init PROVE IInv
  OBVIOUS
<1>1. Remaining = {}
  BY DEF Init, Remaining, There
<1>2. TypeOK
  <2>1. faults \in 0..MaxFaults
    BY FaultsAssumption DEF Init
  <2>2. part \in [Parts -> There \cup {"none", "gone"}]
    BY DEF Init
  <2> QED
    BY <2>1, <2>2 DEF Init, TypeOK, Status, Files, JobStates, Outputs, Results, Steps, Modes
<1>3. KindInv /\ ModeInv /\ StatusInv /\ DiskInv /\ SubmitInv /\ LookInv
  BY ExecutorsAssumption
     DEF Init, KindInv, ModeInv, StatusInv, DiskInv, SubmitInv, LookInv, JobsOf, Submits
<1>4. NothingIsOrphaned /\ FinalIsQuiet /\ WorkIsNotWasted
  BY <1>1 DEF Init, NothingIsOrphaned, FinalIsQuiet, WorkIsNotWasted, Final
<1> QED
  BY <1>2, <1>3, <1>4 DEF IInv

-----------------------------------------------------------------------------
(* The steps.  Each of them is checked against the whole invariant; a leaf *)
(* names what of the model it needs besides the invariant's own words.     *)

USE ExecutorsAssumption, FaultsAssumption
    DEF IInv, TypeOK, KindInv, ModeInv, StatusInv, DiskInv, SubmitInv, LookInv, Means,
        NothingIsOrphaned, FinalIsQuiet, WorkIsNotWasted, JobsOf, Submits, Away, Quiet, Good,
        Remaining, There, Parts, Training, Files, JobStates, Damage, Outputs, Results, Steps,
        Modes,
        Turn, Leave, runnerVars, remoteVars, procVars

\* The requests of the web and the scans of the processor.
LEMMA WebKeeps == ASSUME IInv, Cancel \/ Take \/ TakeCleanup PROVE IInv'
<1>1. CASE Cancel
  <2>1. status' \in Status /\ status' # "QUEUED" /\ status' \notin {"FAILED", "LOST"}
    BY <1>1 DEF Cancel, Status, Active, Final
  <2>2. status' \in Final => status = "QUEUED"
    BY <1>1 DEF Cancel, Active, Final
  <2>3. status \notin Final
    BY <1>1 DEF Cancel, Active, Final
  <2>4. status = "QUEUED" => status' \in Final
    BY <1>1 DEF Cancel, Active, Final
  <2> QED
    BY <1>1, <2>1, <2>2, <2>3 DEF Cancel
<1>2. CASE Take
  <2>1. status' \in Status \ Final /\ status' # "QUEUED"
    BY <1>2 DEF Take, Status, Active, Final
  <2>2. status \notin Final
    BY <1>2 DEF Take, Active, Final
  <2> QED
    BY <1>2, <2>1, <2>2 DEF Take
<1>3. CASE TakeCleanup
  BY <1>3 DEF TakeCleanup, Final
<1> QED
  BY <1>1, <1>2, <1>3

\* submit(): a lost answer leaves what it would have left with it.
LEMMA SubmitKeeps == ASSUME IInv, Submit PROVE IInv'
<1>1. CASE MakeWorkspace
  BY <1>1 DEF MakeWorkspace, Write, Calm, Local, Abort, Goto
<1>2. CASE SaveLaunch
  BY <1>2 DEF SaveLaunch, Local, Write, Goto, Calm, Fault, Abort
<1>3. CASE CreateResource
  BY <1>3 DEF CreateResource, At, Pieces, Fresh, Creates, Goto, Calm, Abort, Fault, Remote
<1>4. CASE UploadObjects
  BY <1>4 DEF UploadObjects, At, Creates, Goto, Calm, Abort, Fault, Remote
<1>5. CASE UploadDirectory
  BY <1>5 DEF UploadDirectory, At, Creates, Goto, Calm, Abort, Fault, Remote
<1>6. CASE AwaitPod
  BY <1>6 DEF AwaitPod, At, Local, Goto, Calm, Abort, Fault
<1>7. CASE TouchIntent
  BY <1>7 DEF TouchIntent, At, Write, Goto, Calm, Local
<1>8. CASE CreateJob
  BY <1>8 DEF CreateJob, At, Launches, Goto, Calm, Abort, Fault, Remote
<1>9. CASE CreateTrainingJob
  BY <1>9 DEF CreateTrainingJob, At, Launches, Goto, Calm, Abort, Fault, Remote
<1>10. CASE CreateContainer
  BY <1>10 DEF CreateContainer, At, Launches, Goto, Calm, Abort, Fault, Remote
<1>11. CASE StartContainer
  BY <1>11 DEF StartContainer, At, Launches, Goto, Calm, Abort, Fault, Remote
<1>12. CASE Submitted
  <2>1. status' \in Status /\ status' # "QUEUED" /\ (status' \in Final <=> status \in Final)
    BY <1>12 DEF Submitted, Status, Active, Final
  <2> QED
    BY <1>12, <2>1 DEF Submitted
<1> QED
  BY <1>1, <1>2, <1>3, <1>4, <1>5, <1>6, <1>7, <1>8, <1>9, <1>10, <1>11, <1>12 DEF Submit

\* cancel() and cleanup().
LEMMA EndKeeps == ASSUME IInv, End PROVE IInv'
<1>1. CASE DeleteJob
  <2>1. deleting' = deleting \/ (deleting' = TRUE /\ job # "none")
    BY <1>1, Zenon DEF DeleteJob
  <2>2. /\ pc' \in {"idle", "delete", "remove", "mark"} /\ faults' \in 0..MaxFaults
        /\ UNCHANGED <<part, job>> /\ Remote /\ At("delete", "kubernetes")
    BY <1>1 DEF DeleteJob, At, Remote, Goto, Calm, Fault
  <2>3. \/ Turn("idle", "none", "none") \/ UNCHANGED procVars
        \/ job \in Away /\ Goto(IF mode = "cleanup" THEN "remove" ELSE "mark")
    BY <1>1 DEF DeleteJob
  <2>4. deleting' \in BOOLEAN
    BY <2>1
  <2>5. deleting' => kind = "kubernetes" /\ job # "none"
    BY <2>1, <2>2 DEF At
  <2> QED
    BY <2>2, <2>3, <2>4, <2>5 DEF At, Remote, Goto
<1>2. CASE MarkDeleted
  BY <1>2 DEF MarkDeleted, At, Write, Calm, Local
<1>3. CASE MarkStopping
  BY <1>3 DEF MarkStopping, At, Write, Goto, Calm, Local
<1>4. CASE StopContainer
  BY <1>4 DEF StopContainer, At, Remote, Calm, Fault
<1>5. CASE StopTrainingJob
  BY <1>5 DEF StopTrainingJob, At, Remote, Goto, Calm, Fault
<1>6. CASE RemoveResources
  BY <1>6 DEF RemoveResources, Pieces, At, Touched, Write, Calm, Local, Remote, Fault
<1>7. CASE RemoveObjects
  BY <1>7 DEF RemoveObjects, At, Touched, Write, Calm, Local, Remote, Fault
<1>8. CASE RemoveContainer
  BY <1>8 DEF RemoveContainer, At, Remote, Calm, Fault
<1>9. CASE RemoveDirectory
  BY <1>9 DEF RemoveDirectory, At, Touched, Write, Calm, Local, Remote, Fault
<1> QED
  BY <1>1, <1>2, <1>3, <1>4, <1>5, <1>6, <1>7, <1>8, <1>9 DEF End

\* What the runner and the services of the target do.
LEMMA TargetKeeps == ASSUME IInv, Target PROVE IInv'
<1>1. CASE PodStarts
  BY <1>1 DEF PodStarts, Unmoved
<1>2. CASE PieceGoes
  BY <1>2 DEF PieceGoes, Unmoved
<1>3. CASE VerifyBundle
  BY <1>3 DEF VerifyBundle, Advances, Runs, Ran, Unmoved
<1>4. CASE Prepare
  BY <1>4 DEF Prepare, Advances, Runs, Ran, Unmoved
<1>5. CASE InvokeCli
  BY <1>5 DEF InvokeCli, Runs, Ran, Unmoved
<1>6. CASE Publish
  BY <1>6 DEF Publish, Runs, Ran, Unmoved
<1>7. CASE RunnerExits
  BY <1>7 DEF RunnerExits, Runs, Ran, Unmoved, Final
<1>8. CASE JobIsKilled
  BY <1>8 DEF JobIsKilled, Runs, Ran, Unmoved
<1>9. CASE JobAppears
  BY <1>9 DEF JobAppears, Unmoved
<1>10. CASE JobGoes
  BY <1>10 DEF JobGoes, Unmoved
<1> QED
  BY <1>1, <1>2, <1>3, <1>4, <1>5, <1>6, <1>7, <1>8, <1>9, <1>10 DEF Target, Runner

\* Evictions, damage and crashes.
LEMMA FaultsKeep == ASSUME IInv, PodIsEvicted \/ OutputIsCorrupted \/ Crash PROVE IInv'
<1>1. CASE PodIsEvicted
  BY <1>1 DEF PodIsEvicted, Fault, Unmoved
<1>2. CASE OutputIsCorrupted
  BY <1>2 DEF OutputIsCorrupted, Fault, Unmoved
<1>3. CASE Crash
  BY <1>3 DEF Crash, Fault
<1> QED
  BY <1>1, <1>2, <1>3

-----------------------------------------------------------------------------
(* status() and what its callers make of the answer.                       *)

\* What is left in the workspace and remembered while a handler looks.
Looking ==
  /\ UNCHANGED <<kind, status, remoteVars>>
  /\ disk \ {"manifest"} \subseteq disk' /\ disk' \subseteq Files
  /\ "cleaned" \in disk' => "cleaned" \in disk
  /\ kind = "sagemaker" /\ "canceled" \in disk' => job = "stopped"
  /\ "manifest" \in disk' => "adapter" \in disk'
  /\ missed' \in BOOLEAN /\ (missed => missed')
  /\ faults' \in 0..MaxFaults

\* Where a handler that looks can go by itself: away, or on to collect the output.
LEMMA LookGoesOn ==
  ASSUME IInv, Looking, pc \in {"status", "collect", "manifest"},
         Leave \/ (Quiet /\ Goto("collect")) \/ UNCHANGED procVars
  PROVE  IInv'
  BY DEF Looking, Goto

\* An answer that was true when it was given leads to no wrong step, whoever asked for it.
LEMMA ReportKeeps ==
  ASSUME IInv, Looking, pc \in {"status", "collect", "manifest"},
         NEW r \in Results \ {"none"}, Report(r),
         r = "PREPARING" => kind = "ssh" /\ job = "created",
         r = "SUCCEEDED" => Quiet,
         missed' \/ Means(r)
  PROVE  IInv'
<1>1. mode \in {"preparing", "abandoning", "watching", "stopped", "register", "cleanup",
                "canceling"}
  OBVIOUS
<1>2. CASE mode = "preparing"
  BY <1>2 DEF Looking, Report, Recover
<1>3. CASE mode = "abandoning"
  BY <1>3 DEF Looking, Report, Abandon
<1>4. CASE mode = "watching"
  BY <1>4 DEF Looking, Report
<1>5. CASE mode = "stopped"
  BY <1>5 DEF Looking, Report
<1>6. CASE mode = "register"
  BY <1>6 DEF Looking, Report, Goto
<1>7. CASE mode = "cleanup"
  BY <1>7 DEF Looking, Report, Clean, Goto
<1>8. CASE mode = "canceling"
  <2>1. CASE kind = "kubernetes"
    BY <1>8, <2>1 DEF Looking, Report, CancelJob, Goto
  <2>2. CASE kind = "ssh"
    BY <1>8, <2>2 DEF Looking, Report, CancelContainer
  <2>3. CASE kind = "sagemaker"
    BY <1>8, <2>3 DEF Looking, Report
  <2> QED
    BY <2>1, <2>2, <2>3
<1> QED
  BY <1>1, <1>2, <1>3, <1>4, <1>5, <1>6, <1>7, <1>8

LEMMA InspectJobKeeps == ASSUME IInv, InspectJob PROVE IInv'
<1> USE DEF InspectJob, At
<1>1. CASE Unavailable
  BY <1>1, LookGoesOn DEF Unavailable, Fault, Looking
<1>2. CASE ~Unavailable
  <2>0. Calm /\ UNCHANGED <<kind, status, disk, remoteVars, missed>>
    BY <1>2
  <2>1. Looking
    BY <2>0 DEF Calm, Looking
  <2>2. CASE Report("MISSING") /\ ("launch" \notin disk \/ job \in Away)
    BY <2>1, <2>2, ReportKeeps
  <2>3. CASE Report("RUNNING")
    BY <2>1, <2>3, ReportKeeps
  <2>4. CASE job = "done" /\ Goto("collect")
    BY <2>1, <2>4, LookGoesOn
  <2>5. CASE job = "failed" /\ Report(Exited)
    BY <2>1, <2>5, ReportKeeps DEF Exited
  <2> QED
    BY <1>2, <2>2, <2>3, <2>4, <2>5
<1> QED
  BY <1>1, <1>2

\* What was not found may still appear: missed remembers it.
LEMMA DescribeKeeps == ASSUME IInv, DescribeTrainingJob PROVE IInv'
<1> USE DEF DescribeTrainingJob, At
<1>1. CASE Unavailable
  BY <1>1, LookGoesOn DEF Unavailable, Fault, Looking
<1>2. CASE ~Unavailable
  <2>0. /\ Calm /\ UNCHANGED <<kind, status, remoteVars>>
        /\ disk' = disk \/ (disk' = disk \cup {"canceled"} /\ job = "stopped")
        /\ missed' = (missed \/ job = "coming")
    BY <1>2
  <2>1. Looking
    BY <2>0 DEF Calm, Looking
  <2>2. CASE Report("MISSING") /\ ("intent" \notin disk \/ job \in {"none", "coming"})
    BY <1>2, <2>1, <2>2, ReportKeeps
  <2>3. CASE Report("RUNNING")
    BY <2>1, <2>3, ReportKeeps
  <2>4. CASE job = "done" /\ Goto("collect")
    BY <2>1, <2>4, LookGoesOn
  <2>5. CASE job = "stopped" /\ Report("CANCELED")
    BY <2>1, <2>5, ReportKeeps
  <2>6. CASE job = "failed" /\ Report(Exited)
    BY <2>1, <2>6, ReportKeeps DEF Exited
  <2> QED
    BY <1>2, <2>2, <2>3, <2>4, <2>5, <2>6
<1> QED
  BY <1>1, <1>2

LEMMA InspectContainerKeeps == ASSUME IInv, InspectContainer PROVE IInv'
<1> USE DEF InspectContainer, At
<1>1. CASE Unavailable
  BY <1>1, LookGoesOn DEF Unavailable, Fault, Looking
<1>2. CASE Calm /\ ~Unavailable
  <2>1. Looking
    BY <1>2 DEF Calm, Looking
  <2>2. CASE Report("MISSING") /\ job \in Away
    BY <2>1, <2>2, ReportKeeps
  <2>3. CASE Report("RUNNING")
    BY <2>1, <2>3, ReportKeeps
  <2>4. CASE Report("CANCELED") /\ Quiet
    BY <2>1, <2>4, ReportKeeps
  <2>5. CASE Report("PREPARING") /\ job = "created"
    BY <2>1, <2>5, ReportKeeps
  <2>6. CASE Quiet /\ Goto("collect")
    BY <2>1, <2>6, LookGoesOn
  <2> QED
    BY <1>2, <2>2, <2>3, <2>4, <2>5, <2>6
<1> QED
  BY <1>1, <1>2

\* A verification never fails a training that is complete and whole: the manifest of
\* the local copy is there only with its files.
LEMMA OutcomeIsTrue ==
  ASSUME IInv, pc \in {"collect", "manifest"},
         output = "valid" => {"adapter", "manifest"} \subseteq disk'
  PROVE  /\ Outcome \in {"CANCELED", "SUCCEEDED", "FAILED"}
         /\ Means(Outcome)
  BY DEF Outcome, Verified

LEMMA CopyKeeps ==
  ASSUME IInv, pc = "collect", CopyFiles, UNCHANGED <<kind, status, remoteVars, missed>>
  PROVE  IInv'
<1>1. CASE Collectable /\ Write("adapter") /\ Goto("manifest") /\ Calm
  BY <1>1 DEF Write, Goto, Calm
<1>2. CASE Uncollectable /\ Leave /\ UNCHANGED disk /\ Calm
  BY <1>2, LookGoesOn DEF Calm, Looking
<1>3. CASE Rejects
  <2>1. output # "valid"
    BY <1>3 DEF Rejects, Collectable
  <2>2. Looking
    BY <1>3 DEF Rejects, Calm, Looking
  <2>3. Outcome \in {"CANCELED", "SUCCEEDED", "FAILED"} /\ Means(Outcome)
    BY <2>1, OutcomeIsTrue
  <2>4. CASE Report(Outcome)
    BY <2>2, <2>3, <2>4, ReportKeeps
  <2>5. CASE Report("FAILED")
    <3>1. Means("FAILED")
      BY <2>1
    <3> QED
      BY <2>2, <2>5, <3>1, ReportKeeps
  <2> QED
    BY <1>3, <2>4, <2>5 DEF Rejects
<1>4. CASE Fault("api") /\ Leave /\ UNCHANGED disk
  BY <1>4, LookGoesOn DEF Fault, Looking
<1> QED
  BY <1>1, <1>2, <1>3, <1>4 DEF CopyFiles

LEMMA CollectKeeps ==
  ASSUME IInv, CollectFromPod \/ CollectArchive \/ CollectOverSsh \/ WriteManifest
  PROVE  IInv'
<1> USE DEF At, Local
<1>1. CASE CollectFromPod
  <2>1. CASE CopyFiles
    BY <1>1, <2>1, CopyKeeps DEF CollectFromPod
  <2>2. CASE Leave /\ UNCHANGED disk /\ Calm
    BY <1>1, <2>2, LookGoesOn DEF CollectFromPod, Calm, Looking
  <2> QED
    BY <1>1, <2>1, <2>2 DEF CollectFromPod
<1>2. CASE CollectArchive
  <2>1. CASE CopyFiles
    BY <1>2, <2>1, CopyKeeps DEF CollectArchive
  <2>2. CASE "manifest" \in disk /\ UNCHANGED disk /\ Report(Outcome) /\ Calm
    <3>1. Looking
      BY <1>2, <2>2 DEF CollectArchive, Calm, Looking
    <3>2. Outcome \in {"CANCELED", "SUCCEEDED", "FAILED"} /\ Means(Outcome)
      BY <1>2, <2>2, OutcomeIsTrue DEF CollectArchive
    <3> QED
      BY <1>2, <2>2, <3>1, <3>2, ReportKeeps DEF CollectArchive
  <2> QED
    BY <1>2, <2>1, <2>2 DEF CollectArchive
<1>3. CASE CollectOverSsh
  BY <1>3, CopyKeeps DEF CollectOverSsh
<1>4. CASE WriteManifest
  <2>1. Looking
    BY <1>4 DEF WriteManifest, Write, Calm, Looking
  <2>2. Outcome \in {"CANCELED", "SUCCEEDED", "FAILED"} /\ Means(Outcome)
    BY <1>4, OutcomeIsTrue DEF WriteManifest, Write
  <2> QED
    BY <1>4, <2>1, <2>2, ReportKeeps DEF WriteManifest
<1> QED
  BY <1>1, <1>2, <1>3, <1>4

\* The row takes from an observation only what it meant.
LEMMA RecordedIs ==
  ASSUME NEW s \in Status \ (Final \cup {"QUEUED"}),
         NEW m \in {"preparing", "watching", "canceling"}, NEW r \in Results
  PROVE  /\ Recorded(s, m, r) \in Status \ {"QUEUED"}
         /\ Recorded(s, m, r) \in Final => r \in {"MISSING", "FAILED", "CANCELED"}
         /\ Recorded(s, m, r) \in {"FAILED", "LOST"} => r \in {"MISSING", "FAILED"}
  BY DEF Recorded, Status, Active, Final

LEMMA ObserveKeeps == ASSUME IInv, Observe \/ Commit PROVE IInv'
<1>1. CASE Observe
  <2> DEFINE t == Recorded(status, mode, result)
  <2>1. status \in Status \ (Final \cup {"QUEUED"}) /\ pc = "observe"
    BY <1>1 DEF Observe
  <2>2. /\ t \in Status \ {"QUEUED"}
        /\ t \in Final => result \in {"MISSING", "FAILED", "CANCELED"}
        /\ t \in {"FAILED", "LOST"} => result \in {"MISSING", "FAILED"}
    BY <2>1, RecordedIs
  <2>3. /\ status' = t /\ ((t = "POSTPROCESSING" /\ Turn("status", "register", "none")) \/ Leave)
        /\ UNCHANGED <<kind, disk, remoteVars, missed, faults>>
    BY <1>1 DEF Observe
  <2>4. "POSTPROCESSING" \notin Final /\ {"CANCELED", "FAILED", "LOST"} \subseteq Final
    BY DEF Final
  <2> HIDE DEF t
  <2> QED
    BY <2>1, <2>2, <2>3, <2>4
<1>2. CASE Commit
  <2>1. /\ status' \in Status \ {"QUEUED"}
        /\ status' \in Final => status \in Final \/ status' = "SUCCEEDED"
    BY <1>2 DEF Commit, Status, Active, Final
  <2>2. pc = "commit" /\ Leave /\ faults' \in 0..MaxFaults
    BY <1>2 DEF Commit, Calm, Fault
  <2> QED
    BY <1>2, <2>1, <2>2 DEF Commit
<1> QED
  BY <1>1, <1>2

-----------------------------------------------------------------------------
(* Every behaviour.                                                        *)

HIDE DEF IInv, TypeOK, KindInv, ModeInv, StatusInv, DiskInv, SubmitInv, LookInv, Means,
         NothingIsOrphaned, FinalIsQuiet, WorkIsNotWasted

LEMMA NextInv == IInv /\ [Next]_vars => IInv'
<1> SUFFICES ASSUME IInv, [Next]_vars PROVE IInv'
  OBVIOUS
<1>1. CASE UNCHANGED vars
  BY <1>1 DEF vars, IInv, TypeOK, KindInv, ModeInv, StatusInv, DiskInv, SubmitInv, LookInv,
              Means, NothingIsOrphaned, FinalIsQuiet, WorkIsNotWasted
<1>2. CASE Next
  BY <1>2, WebKeeps, SubmitKeeps, InspectJobKeeps, DescribeKeeps, InspectContainerKeeps,
     CollectKeeps, ObserveKeeps, EndKeeps, TargetKeeps, FaultsKeep
     DEF Next, Handler, Look
<1> QED
  BY <1>1, <1>2

LEMMA InvHolds == Spec => []IInv
  BY InitInv, NextInv, PTL DEF Spec

\* The row, the run's directory and the target agree: a run that is over trains nothing
\* and will train nothing, unless a SageMaker job appears after it was looked for.  The
\* argument is LookInv: what a handler saw some steps ago is still true when the row
\* follows from it, because only submit() makes a job and the claim keeps it away.
THEOREM TargetsAgree == Spec => []Consistent
<1>1. IInv => Consistent
  BY DEF IInv, Consistent
<1> QED
  BY <1>1, InvHolds, PTL

\* Clean-up can find everything that exists at a target, and what it called cleaned is
\* gone: the launch identity is on disk before the first request (DiskInv).
THEOREM CleanupFindsAll == Spec => []NothingIsOrphaned
<1>1. IInv => NothingIsOrphaned
  BY DEF IInv
<1> QED
  BY <1>1, InvHolds, PTL

\* A training that is complete with a whole output is not recorded as failed or lost: a
\* transfer that fails leaves either no manifest or a manifest with its files (DiskInv),
\* so no verification refuses what the runner published.
THEOREM CompletedIsNotLost == Spec => []WorkIsNotWasted
<1>1. IInv => WorkIsNotWasted
  BY DEF IInv
<1> QED
  BY <1>1, InvHolds, PTL

-----------------------------------------------------------------------------
(* The contract of training runs.  RemoteTraining keeps no history, so it  *)
(* is added here: a run enters the queue, each change of its row writes    *)
(* its events, and a job that is asked to train for the first time counts. *)

VARIABLES
  log,    \* job_events of the run
  starts  \* how often training was asked for at the target

histVars == <<vars, log, starts>>

\* The states that one change of the row passes, each of them an event.
Events(s, t) ==
  CASE s = "PREPARING" /\ t = "RUNNING"        -> <<"SUBMITTED", "RUNNING">>
    [] s = "PREPARING" /\ t = "POSTPROCESSING" -> <<"SUBMITTED", "RUNNING", "POSTPROCESSING">>
    [] s = "SUBMITTED" /\ t = "POSTPROCESSING" -> <<"RUNNING", "POSTPROCESSING">>
    [] s \in Active /\ t = "CANCELED"          -> <<"CANCEL_REQUESTED", "CANCELED">>
    [] OTHER                                   -> <<t>>

Idle == {"none", "created"}

Enter == log = <<>> /\ log' = <<"QUEUED">> /\ UNCHANGED <<vars, starts>>

Counts ==
  starts' = IF job \in Idle /\ job' \in {"coming", "running"} THEN starts + 1 ELSE starts

Continue ==
  /\ log # <<>> /\ Next
  /\ log' = IF status' = status THEN log ELSE log \o Events(status, status')
  /\ Counts

HistorySpec == Init /\ log = <<>> /\ starts = 0 /\ [][Enter \/ Continue]_histVars

Contract == INSTANCE TrainingContract WITH
  Runs <- {"run"},
  status <- [r \in {"run"} |-> IF log = <<>> THEN "ABSENT" ELSE status],
  log <- [r \in {"run"} |-> log],
  starts <- [r \in {"run"} |-> starts],
  registered <- {r \in {"run"} : status = "SUCCEEDED"}

\* For which rows a handler of each purpose works; only a cancel request moves the row
\* under it.
PurposeInv ==
  /\ mode \in {"submit", "preparing", "abandoning"} =>
       status \in {"PREPARING", "CANCEL_REQUESTED"}
  /\ mode = "watching" => status \in {"SUBMITTED", "RUNNING", "CANCEL_REQUESTED"}
  /\ mode \in {"canceling", "stopped"} => status = "CANCEL_REQUESTED"
  /\ mode = "register" => status = "POSTPROCESSING"

\* Training is asked for once, and what succeeds was asked for.
StartsInv ==
  /\ starts \in {0, 1}
  /\ job \in Idle => starts = 0
  /\ job \notin Idle \cup {"gone"} => starts = 1
  /\ status \in {"POSTPROCESSING", "SUCCEEDED"} => starts = 1
  /\ pc = "observe" /\ result = "SUCCEEDED" => starts = 1

\* Nothing happens to a run before it is in the queue.
LogInv == log \in Seq(Status) /\ (log = <<>> => status = "QUEUED")

\* What handlers may count on when they change the row.
RowInv == PurposeInv /\ StartsInv

USE DEF IInv, TypeOK, KindInv, ModeInv, StatusInv, SubmitInv, LookInv, RowInv, PurposeInv,
        StartsInv, Counts, Idle, Active, Final, JobsOf, Submits, Results, JobStates, Modes,
        Steps, Training, Turn, Leave, runnerVars, remoteVars, procVars

LEMMA RowAtWeb == ASSUME IInv, RowInv, Counts, Cancel \/ Take \/ TakeCleanup PROVE RowInv'
  BY DEF Cancel, Take, TakeCleanup

LEMMA RowAtSubmit == ASSUME IInv, RowInv, Counts, Submit PROVE RowInv'
<1>1. CASE MakeWorkspace \/ SaveLaunch \/ AwaitPod \/ TouchIntent \/ Submitted
  BY <1>1 DEF MakeWorkspace, SaveLaunch, AwaitPod, TouchIntent, Submitted, At, Local, Goto, Abort
<1>2. CASE CreateResource \/ UploadObjects \/ UploadDirectory
  BY <1>2 DEF CreateResource, UploadObjects, UploadDirectory, Creates, At, Remote, Goto, Abort
<1>3. CASE CreateJob \/ CreateTrainingJob
  BY <1>3 DEF CreateJob, CreateTrainingJob, Launches, At, Remote, Goto, Abort
<1>4. CASE CreateContainer \/ StartContainer
  BY <1>4 DEF CreateContainer, StartContainer, Launches, At, Remote, Goto, Abort
<1> QED
  BY <1>1, <1>2, <1>3, <1>4 DEF Submit

LEMMA RowAtEnd == ASSUME IInv, RowInv, Counts, End PROVE RowInv'
<1>1. CASE DeleteJob \/ MarkDeleted \/ MarkStopping
  BY <1>1 DEF DeleteJob, MarkDeleted, MarkStopping, At, Local, Remote, Goto
<1>2. CASE StopContainer \/ StopTrainingJob
  BY <1>2 DEF StopContainer, StopTrainingJob, At, Remote, Goto
<1>3. CASE RemoveResources \/ RemoveObjects \/ RemoveContainer \/ RemoveDirectory
  BY <1>3 DEF RemoveResources, RemoveObjects, RemoveContainer, RemoveDirectory, Touched, At,
              Local, Remote
<1> QED
  BY <1>1, <1>2, <1>3 DEF End

LEMMA RowAtTarget ==
  ASSUME IInv, RowInv, Counts, Target \/ PodIsEvicted \/ OutputIsCorrupted \/ Crash
  PROVE  RowInv'
  BY DEF Target, PodStarts, PieceGoes, Runner, VerifyBundle, Prepare, Advances, InvokeCli,
         Publish, RunnerExits, JobIsKilled, Runs, Ran, JobAppears, JobGoes, Unmoved,
         PodIsEvicted, OutputIsCorrupted, Crash

LEMMA RowAtObserve == ASSUME IInv, RowInv, Counts, Observe \/ Commit PROVE RowInv'
<1>1. CASE Observe
  BY <1>1 DEF Observe, Recorded
<1>2. CASE Commit
  BY <1>2 DEF Commit
<1> QED
  BY <1>1, <1>2

LEMMA RowAtReport ==
  ASSUME IInv, RowInv, Counts, UNCHANGED <<kind, status, remoteVars>>,
         pc \in {"status", "collect", "manifest"}, NEW r \in Results \ {"none"}, Report(r),
         r = "SUCCEEDED" => job = "done"
  PROVE  RowInv'
<1>1. mode \in {"preparing", "abandoning", "watching", "stopped", "register", "cleanup",
                "canceling"}
  OBVIOUS
<1>2. UNCHANGED starts
  BY DEF Counts
<1>3. CASE mode = "preparing"
  BY <1>2, <1>3 DEF Report, Recover
<1>4. CASE mode = "abandoning"
  BY <1>2, <1>4 DEF Report, Abandon
<1>5. CASE mode = "watching"
  BY <1>2, <1>5 DEF Report
<1>6. CASE mode = "stopped"
  BY <1>2, <1>6 DEF Report
<1>7. CASE mode = "register"
  BY <1>2, <1>7 DEF Report, Goto
<1>8. CASE mode = "cleanup"
  BY <1>2, <1>8 DEF Report, Clean, Goto
<1>9. CASE mode = "canceling"
  BY <1>2, <1>9 DEF Report, CancelJob, CancelContainer, Goto
<1> QED
  BY <1>1, <1>3, <1>4, <1>5, <1>6, <1>7, <1>8, <1>9

LEMMA RowAtLook ==
  ASSUME IInv, RowInv, Counts, Look, ~Observe, ~Commit
  PROVE RowInv'
<1>1. /\ UNCHANGED <<kind, status, remoteVars>>
      /\ pc \in {"status", "collect", "manifest"}
  BY DEF Look, InspectJob, DescribeTrainingJob, InspectContainer, CollectFromPod,
         CollectArchive, CollectOverSsh, CopyFiles, Rejects, WriteManifest, At, Local
<1>2. \/ Leave \/ Goto("manifest") \/ Goto("collect")
      \/ \E r \in {"MISSING", "PREPARING", "RUNNING", "FAILED", "CANCELED"} : Report(r)
      \/ Report("SUCCEEDED") /\ job = "done"
  BY DEF Look, InspectJob, DescribeTrainingJob, InspectContainer, CollectFromPod,
         CollectArchive, CollectOverSsh, CopyFiles, Rejects, WriteManifest, At, Local, Unavailable,
         Exited, Outcome, Verified
<1>3. CASE Leave \/ Goto("manifest") \/ Goto("collect")
  BY <1>1, <1>3 DEF Goto, Counts
<1> QED
  BY <1>1, <1>2, <1>3, RowAtReport

LEMMA RowStep ==
  ASSUME IInv, RowInv, Counts, Next
  PROVE  RowInv'
<1>1. CASE Look
  BY <1>1, RowAtLook, RowAtObserve
<1> QED
  BY <1>1, RowAtWeb, RowAtSubmit, RowAtEnd, RowAtTarget DEF Next, Handler

\* The edges of the contract that the changes below go along.
Edge(s, t) == t \in Contract!TRANSITIONS[s]

LEMMA EdgesAre ==
  /\ Edge("QUEUED", "PREPARING") /\ Edge("QUEUED", "CANCELED")
  /\ Edge("PREPARING", "SUBMITTED") /\ Edge("PREPARING", "FAILED")
  /\ Edge("PREPARING", "CANCEL_REQUESTED")
  /\ Edge("SUBMITTED", "RUNNING") /\ Edge("SUBMITTED", "FAILED")
  /\ Edge("SUBMITTED", "CANCEL_REQUESTED") /\ Edge("SUBMITTED", "LOST")
  /\ Edge("RUNNING", "POSTPROCESSING") /\ Edge("RUNNING", "FAILED")
  /\ Edge("RUNNING", "CANCEL_REQUESTED") /\ Edge("RUNNING", "LOST")
  /\ Edge("CANCEL_REQUESTED", "CANCELED") /\ Edge("CANCEL_REQUESTED", "POSTPROCESSING")
  /\ Edge("CANCEL_REQUESTED", "FAILED")
<1> USE DEF Edge, Contract!TRANSITIONS, Contract!JobState, Contract!TERMINAL
<1>1. Contract!TRANSITIONS["QUEUED"] = {"PREPARING", "CANCELED"}
  OBVIOUS
<1>2. Contract!TRANSITIONS["PREPARING"] = {"SUBMITTED", "FAILED", "CANCEL_REQUESTED"}
  OBVIOUS
<1>3. Contract!TRANSITIONS["SUBMITTED"] = {"RUNNING", "FAILED", "CANCEL_REQUESTED", "LOST"}
  OBVIOUS
<1>4. Contract!TRANSITIONS["RUNNING"] = {"POSTPROCESSING", "FAILED", "CANCEL_REQUESTED", "LOST"}
  OBVIOUS
<1>5. Contract!TRANSITIONS["CANCEL_REQUESTED"] = {"CANCELED", "POSTPROCESSING", "FAILED", "LOST"}
  OBVIOUS
<1> HIDE DEF Contract!TRANSITIONS
<1> QED
  BY <1>1, <1>2, <1>3, <1>4, <1>5

LEMMA TwoElements == ASSUME NEW a, NEW b PROVE Append(<<a>>, b) = <<a, b>>
<1>1. /\ <<a, b>> \in Seq({a, b}) /\ Len(<<a, b>>) = 2
      /\ <<a, b>>[1] = a /\ <<a, b>>[2] = b
  OBVIOUS
<1>2. \A p \in Seq({a, b}) : Len(p) = 2 => p = Append(<<p[1]>>, p[2])
  OBVIOUS
<1> QED
  BY <1>1, <1>2, Zenon

LEMMA ThreeElements == ASSUME NEW a, NEW b, NEW c PROVE Append(<<a, b>>, c) = <<a, b, c>>
<1>1. /\ <<a, b, c>> \in Seq({a, b, c}) /\ Len(<<a, b, c>>) = 3
      /\ <<a, b, c>>[1] = a /\ <<a, b, c>>[2] = b /\ <<a, b, c>>[3] = c
  OBVIOUS
<1>2. \A p \in Seq({a, b, c}) : Len(p) = 3 => p = Append(Append(<<p[1]>>, p[2]), p[3])
  OBVIOUS
<1>3. <<a, b, c>> = Append(Append(<<a>>, b), c)
  BY <1>1, <1>2, Zenon
<1>4. Append(<<a>>, b) = <<a, b>>
  BY TwoElements
<1> QED
  BY <1>3, <1>4, Zenon

\* One, two or three edges are what a transaction may commit.
LEMMA WalksAre ==
  ASSUME NEW s, NEW a, Edge(s, a)
  PROVE  /\ <<a>> \in Contract!Commits(s)
         /\ \A b : Edge(a, b) => <<a, b>> \in Contract!Commits(s)
         /\ \A b, c : Edge(a, b) /\ Edge(b, c) => <<a, b, c>> \in Contract!Commits(s)
<1> DEFINE Longer(paths) ==
      UNION {{Append(p, t) : t \in Contract!TRANSITIONS[p[Len(p)]]} : p \in paths}
<1> DEFINE one == {<<t>> : t \in Contract!TRANSITIONS[s]}
<1>1. Contract!Commits(s) = one \cup Longer(one) \cup Longer(Longer(one))
  BY DEF Contract!Commits
<1>2. ASSUME NEW paths, NEW p \in paths, NEW t, Edge(p[Len(p)], t)
      PROVE  Append(p, t) \in Longer(paths)
  <2>1. Append(p, t) \in {Append(p, u) : u \in Contract!TRANSITIONS[p[Len(p)]]}
    BY <1>2 DEF Edge
  <2>2. {Append(p, u) : u \in Contract!TRANSITIONS[p[Len(p)]]}
          \in {{Append(q, u) : u \in Contract!TRANSITIONS[q[Len(q)]]} : q \in paths}
    BY <1>2
  <2> QED
    BY <2>1, <2>2
<1>3. <<a>> \in one
  BY DEF Edge
<1> HIDE DEF one, Longer
<1>4. ASSUME NEW b, Edge(a, b) PROVE <<a, b>> \in Longer(one)
  <2>1. <<a>>[Len(<<a>>)] = a /\ Append(<<a>>, b) = <<a, b>>
    BY TwoElements
  <2> QED
    BY <1>2, <1>3, <1>4, <2>1
<1>5. ASSUME NEW b, NEW c, Edge(a, b), Edge(b, c) PROVE <<a, b, c>> \in Longer(Longer(one))
  <2>1. <<a, b>>[Len(<<a, b>>)] = b /\ Append(<<a, b>>, c) = <<a, b, c>>
    BY ThreeElements
  <2>2. <<a, b>> \in Longer(one)
    BY <1>4, <1>5
  <2> QED
    BY <1>2, <1>5, <2>1, <2>2
<1> QED
  BY <1>1, <1>3, <1>4, <1>5

\* The changes of the row, and what else a step that makes them does.
RowMoves ==
  \/ status = "QUEUED" /\ status' \in {"PREPARING", "CANCELED"}
  \/ status \in Active /\ status' \in {"CANCEL_REQUESTED", "CANCELED", "FAILED", "POSTPROCESSING"}
  \/ status = "PREPARING" /\ status' \in {"SUBMITTED", "RUNNING"}
  \/ status = "SUBMITTED" /\ status' \in {"RUNNING", "LOST"}
  \/ status = "RUNNING" /\ status' = "LOST"
  \/ status = "CANCEL_REQUESTED" /\ status' \in {"CANCELED", "FAILED", "POSTPROCESSING"}
  \/ status = "POSTPROCESSING" /\ status' = "SUCCEEDED"

LEMMA RowMovesLegally ==
  ASSUME IInv, RowInv, Next, status' # status
  PROVE  RowMoves /\ UNCHANGED job
<1>1. CASE Cancel
  BY <1>1 DEF Cancel, RowMoves
<1>2. CASE Take
  BY <1>2 DEF Take, RowMoves
<1>3. CASE Submitted
  BY <1>3 DEF Submitted, RowMoves
<1>4. CASE Observe
  <2>1. /\ mode \in {"preparing", "watching", "canceling"} /\ result \in Results
        /\ status' = Recorded(status, mode, result)
    BY <1>4 DEF Observe
  <2>2. UNCHANGED job
    BY <1>4 DEF Observe
  <2>3. CASE status = "CANCEL_REQUESTED"
    BY <2>1, <2>2, <2>3 DEF Recorded, RowMoves
  <2>4. CASE status = "PREPARING" /\ mode = "preparing"
    BY <2>1, <2>2, <2>4 DEF Recorded, RowMoves
  <2>5. CASE status \in {"SUBMITTED", "RUNNING"} /\ mode = "watching"
    BY <2>1, <2>2, <2>5 DEF Recorded, RowMoves
  <2> QED
    BY <2>1, <2>3, <2>4, <2>5
<1>5. CASE Commit
  BY <1>5 DEF Commit, RowMoves
<1> QED
  BY <1>1, <1>2, <1>3, <1>4, <1>5
     DEF Next, TakeCleanup, Handler, Submit, MakeWorkspace, SaveLaunch, CreateResource,
         UploadObjects, UploadDirectory, AwaitPod, TouchIntent, CreateJob, CreateTrainingJob,
         CreateContainer, StartContainer, Creates, Launches, Local, Remote, Look, InspectJob,
         DescribeTrainingJob, InspectContainer, CollectFromPod, CollectArchive, CollectOverSsh,
         WriteManifest, End, DeleteJob, MarkDeleted, MarkStopping, StopContainer,
         StopTrainingJob, RemoveResources, RemoveObjects, RemoveContainer, RemoveDirectory,
         Touched, Target, PodStarts, PieceGoes, Runner, VerifyBundle, Prepare, Advances,
         InvokeCli, Publish, RunnerExits, JobIsKilled, Ran, JobAppears, JobGoes, Unmoved,
         PodIsEvicted, OutputIsCorrupted, Crash

\* Training is asked for by submit(), of a run in preparation.
LEMMA StartsInPreparation ==
  ASSUME IInv, RowInv, Next, job \in Idle, job' \in {"coming", "running"}
  PROVE  status \in {"PREPARING", "CANCEL_REQUESTED"}
<1>1. Cancel \/ Take \/ TakeCleanup \/ PodIsEvicted \/ OutputIsCorrupted \/ Crash => job' = job
  BY DEF Cancel, Take, TakeCleanup, PodIsEvicted, OutputIsCorrupted, Crash
<1>2. Look => job' = job
  BY DEF Look, InspectJob, DescribeTrainingJob, InspectContainer, CollectFromPod,
         CollectArchive, CollectOverSsh, WriteManifest, Observe, Commit, Local
<1>3. End => job' \notin {"coming", "running"} \/ job' = job
  BY DEF End, DeleteJob, MarkDeleted, MarkStopping, StopContainer, StopTrainingJob,
         RemoveResources, RemoveObjects, RemoveContainer, RemoveDirectory, Touched, Local
<1>4. Target => job' \notin {"coming", "running"} \/ job' = job \/ job = "coming"
  BY DEF Target, PodStarts, PieceGoes, Runner, VerifyBundle, Prepare, Advances, InvokeCli,
         Publish, RunnerExits, JobIsKilled, JobAppears, JobGoes
<1>5. Submit => pc \in Submits
  BY DEF Submit, MakeWorkspace, SaveLaunch, CreateResource, UploadObjects, UploadDirectory,
         AwaitPod, TouchIntent, CreateJob, CreateTrainingJob, CreateContainer, StartContainer,
         Submitted, At
<1>6. pc \in Submits
  BY <1>1, <1>2, <1>3, <1>4, <1>5 DEF Next, Handler
<1> QED
  BY <1>6

\* What a change writes is a walk along the edges to its state.
LEMMA EventsAreAWalk ==
  ASSUME RowMoves
  PROVE  LET path == Events(status, status') IN
         path \in Contract!Commits(status) /\ path[Len(path)] = status'
<1> USE DEF RowMoves, Events
<1>1. \A a, b, c : /\ <<a>>[Len(<<a>>)] = a /\ <<a, b>>[Len(<<a, b>>)] = b
                   /\ <<a, b, c>>[Len(<<a, b, c>>)] = c
  OBVIOUS
<1>2. CASE status = "PREPARING" /\ status' = "RUNNING"
  BY <1>1, <1>2, EdgesAre, WalksAre
<1>3. CASE status = "PREPARING" /\ status' = "POSTPROCESSING"
  BY <1>1, <1>3, EdgesAre, WalksAre
<1>4. CASE status = "SUBMITTED" /\ status' = "POSTPROCESSING"
  BY <1>1, <1>4, EdgesAre, WalksAre
<1>5. CASE status \in Active /\ status' = "CANCELED"
  BY <1>1, <1>5, EdgesAre, WalksAre
<1>6. CASE Events(status, status') = <<status'>> /\ Edge(status, status')
  BY <1>1, <1>6, WalksAre
<1>7. CASE status = "POSTPROCESSING" /\ status' = "SUCCEEDED"
  <2>1. Edge("POSTPROCESSING", "SUCCEEDED")
    BY DEF Edge, Contract!TRANSITIONS, Contract!JobState, Contract!TERMINAL
  <2> QED
    BY <1>1, <1>7, <2>1, WalksAre
<1> QED
  BY <1>2, <1>3, <1>4, <1>5, <1>6, <1>7, EdgesAre

HIDE DEF IInv, TypeOK, KindInv, ModeInv, StatusInv, SubmitInv, LookInv, RowInv, PurposeInv,
         StartsInv

\* An event is never taken back.
LEMMA LogGrows ==
  ASSUME LogInv, log # <<>>, RowMoves
  PROVE  /\ log \o Events(status, status') \in Seq(Status)
         /\ log \o Events(status, status') # <<>>
<1>1. Events(status, status') \in Seq(Status)
  <2>1. status' \in Status /\ {"SUBMITTED", "RUNNING", "POSTPROCESSING", "CANCEL_REQUESTED",
                               "CANCELED"} \subseteq Status
    BY DEF RowMoves, Status, Active, Final
  <2>2. /\ <<status'>> \in Seq(Status) /\ <<"SUBMITTED", "RUNNING">> \in Seq(Status)
        /\ <<"SUBMITTED", "RUNNING", "POSTPROCESSING">> \in Seq(Status)
        /\ <<"RUNNING", "POSTPROCESSING">> \in Seq(Status)
        /\ <<"CANCEL_REQUESTED", "CANCELED">> \in Seq(Status)
    BY <2>1
  <2> QED
    BY <2>2 DEF Events
<1>2. \A l, m \in Seq(Status) : l # <<>> => l \o m \in Seq(Status) /\ l \o m # <<>>
  OBVIOUS
<1> QED
  BY <1>1, <1>2 DEF LogInv

\* Every step of a run at a target is a step of the contract, or none that it sees.
LEMMA ContractStep ==
  ASSUME IInv, RowInv, LogInv,
         [Enter \/ Continue]_histVars
  PROVE  Contract!Next \/ UNCHANGED Contract!contractVars
<1> USE DEF Contract!contractVars
<1>1. CASE Enter
  <2>1. log = <<>> /\ log' = <<"QUEUED">> /\ status = "QUEUED" /\ UNCHANGED <<status, starts>>
    BY <1>1 DEF Enter, LogInv, vars
  <2>2. <<"QUEUED">> # <<>> /\ <<"QUEUED">>[Len(<<"QUEUED">>)] = "QUEUED"
    OBVIOUS
  <2>3. <<>> \o <<"QUEUED">> = <<"QUEUED">>
    <3>1. \A l \in Seq({"QUEUED"}) : <<>> \o l = l
      OBVIOUS
    <3> QED
      BY <3>1
  <2>4. Contract!Insert("run")
    BY <2>1, <2>2, <2>3 DEF Contract!Insert, Contract!Advance, Contract!Absent
  <2> QED
    BY <2>4 DEF Contract!Next
<1>2. CASE Continue /\ status' # status
  <2> DEFINE path == Events(status, status')
  <2>1. RowMoves /\ UNCHANGED <<job, starts>>
    BY <1>2, RowMovesLegally DEF Continue, Counts
  <2>2. path \in Contract!Commits(status) /\ path[Len(path)] = status'
    BY <2>1, EventsAreAWalk
  <2>3. log # <<>> /\ log' = log \o path
    BY <1>2 DEF Continue
  <2>4. log' # <<>>
    BY <2>1, <2>3, LogGrows
  <2>5. CASE status' = "SUCCEEDED"
    <3>1. status = "POSTPROCESSING" /\ starts = 1 /\ path = <<"SUCCEEDED">>
      BY <2>1, <2>5 DEF RowMoves, RowInv, StartsInv, Events
    <3>2. Contract!Publish("run")
      BY <2>1, <2>3, <2>4, <2>5, <3>1 DEF Contract!Publish, Contract!Advance
    <3> QED
      BY <3>2 DEF Contract!Next
  <2>6. CASE status' # "SUCCEEDED"
    <3>1. status # "SUCCEEDED" /\ status # "ABSENT"
      BY <2>1 DEF RowMoves
    <3> HIDE DEF path
    <3>2. Contract!Change("run")
      BY <2>1, <2>2, <2>3, <2>4, <2>6, <3>1
         DEF Contract!Change, Contract!Advance, Contract!Absent
    <3> QED
      BY <3>2 DEF Contract!Next
  <2> QED
    BY <2>5, <2>6
<1>3. CASE Continue /\ status' = status
  <2>1. log' = log /\ log # <<>>
    BY <1>3 DEF Continue
  <2>2. CASE starts' = starts
    BY <1>3, <2>1, <2>2
  <2>3. CASE job \in Idle /\ job' \in {"coming", "running"} /\ starts' = starts + 1
    <3>1. starts = 0 /\ status \in {"PREPARING", "CANCEL_REQUESTED"}
      BY <1>3, <2>3, StartsInPreparation DEF Continue, RowInv, StartsInv
    <3>2. Contract!Start("run")
      BY <1>3, <2>1, <2>3, <3>1 DEF Contract!Start
    <3> QED
      BY <3>2 DEF Contract!Next
  <2> QED
    BY <1>3, <2>2, <2>3 DEF Continue, Counts
<1>4. CASE UNCHANGED histVars
  BY <1>4 DEF histVars, vars
<1> QED
  BY <1>1, <1>2, <1>3, <1>4

\* Runs on Kubernetes, SageMaker and remote Docker hosts keep the contract of local runs:
\* their rows go along the edges of the state machine, their events tell each state,
\* training is asked for once and only in preparation, and only a trained run succeeds.
THEOREM RemoteRunsKeepContract == HistorySpec => Contract!Spec
<1> DEFINE I == IInv /\ RowInv /\ LogInv
<1>1. Init /\ log = <<>> /\ starts = 0 => I /\ Contract!Init
  <2> SUFFICES ASSUME Init, log = <<>>, starts = 0 PROVE I /\ Contract!Init
    OBVIOUS
  <2>1. IInv
    BY InitInv
  <2>2. RowInv /\ status = "QUEUED"
    BY DEF Init, RowInv, PurposeInv, StartsInv, Idle
  <2>3. <<>> \in Seq(Status)
    OBVIOUS
  <2> QED
    BY <2>1, <2>2, <2>3 DEF LogInv, Contract!Init, Contract!Absent
<1>2. I /\ [Enter \/ Continue]_histVars => I' /\ [Contract!Next]_(Contract!contractVars)
  <2> SUFFICES ASSUME I, [Enter \/ Continue]_histVars
               PROVE  I' /\ [Contract!Next]_(Contract!contractVars)
    OBVIOUS
  <2>1. Contract!Next \/ UNCHANGED Contract!contractVars
    BY ContractStep
  <2>2. CASE Continue
    <3>1. IInv' /\ RowInv'
      BY <2>2, NextInv, RowStep DEF Continue
    <3>2. LogInv'
      <4>1. CASE status' = status
        BY <2>2, <4>1 DEF Continue, LogInv
      <4>2. CASE status' # status
        BY <2>2, <4>2, RowMovesLegally, LogGrows DEF Continue, LogInv
      <4> QED
        BY <4>1, <4>2
    <3> QED
      BY <2>1, <3>1, <3>2
  <2>3. CASE UNCHANGED <<vars, starts>> /\ (log' = log \/ log' = <<"QUEUED">>)
    <3>1. IInv'
      BY <2>3, NextInv
    <3>2. RowInv'
      BY <2>3 DEF RowInv, PurposeInv, StartsInv, vars, procVars, remoteVars
    <3>3. LogInv'
      <4>1. <<"QUEUED">> \in Seq(Status) /\ <<"QUEUED">> # <<>>
        BY DEF Status
      <4>2. CASE log' = log
        BY <2>3, <4>2 DEF LogInv, vars
      <4>3. CASE log' = <<"QUEUED">>
        <5>1. log' \in Seq(Status) /\ log' # <<>>
          BY <4>1, <4>3
        <5> QED
          BY <5>1 DEF LogInv
      <4> QED
        BY <2>3, <4>2, <4>3
    <3> QED
      BY <2>1, <3>1, <3>2, <3>3
  <2> QED
    BY <2>2, <2>3 DEF Enter, histVars
<1> HIDE DEF I
<1> QED
  BY <1>1, <1>2, PTL DEF HistorySpec, Contract!Spec
=============================================================================
