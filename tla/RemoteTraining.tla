----------------------------- MODULE RemoteTraining -----------------------------
(***************************************************************************)
(* One training run on an execution target: the executors for Kubernetes,  *)
(* SageMaker and Docker over SSH (app/executors), driven by the handlers   *)
(* of app/jobs/processor.py and by the clean-up request of the web.        *)
(*                                                                         *)
(* The handlers hold the run's claim (TrainingJobs shows what happens when *)
(* a claim is lost), so one of them works at a time; it may die between    *)
(* any two steps, requests fail with and without effect, and what runs at  *)
(* the target goes on meanwhile.  What a handler has to go by is the row,  *)
(* the files of the run's workspace and the names it derives from the run. *)
(***************************************************************************)
EXTENDS Naturals, Sequences, FiniteSets

CONSTANTS
  Executors,   \* the kinds of target the run may be planned for
  FaultKinds,  \* which faults can happen
  MaxFaults    \* how many of them can happen in one behaviour

\* crash: the process dies; api: a request fails without effect; answer: it had its
\* effect but the answer is lost; late: a SageMaker job appears after a lost answer;
\* evict: Kubernetes evicts the staging Pod;
\* corrupt: an output is damaged after its runner ended.
ASSUME ExecutorsAssumption == Executors \subseteq {"kubernetes", "sagemaker", "ssh"}
ASSUME FaultsAssumption ==
  FaultKinds \subseteq {"crash", "api", "answer", "late", "evict", "corrupt"} /\ MaxFaults \in Nat

VARIABLES
  kind,    \* the target's kind
  status,  \* training_runs.status
  disk,    \* what the local workspace holds
  part,    \* the state of each resource the run stages its input with
  job,     \* the Job, the training job or the container that trains
  deleting, \* the Kubernetes Job is being deleted
  stage,   \* how far the runner in the job has come
  output,  \* what it has published, and the damage that came to it (Damage)
  pc,      \* the handler's next step, "idle" without a handler
  mode,    \* why it takes it
  result,  \* what it observed
  missed,  \* history: an uncertain SageMaker job was looked for before it appeared
  faults   \* how many faults may still happen

runnerVars == <<stage, output>>
remoteVars == <<part, job, deleting, runnerVars>>
procVars == <<pc, mode, result>>
vars == <<kind, status, disk, remoteVars, procVars, missed, faults>>

Final  == {"SUCCEEDED", "FAILED", "CANCELED", "LOST"}
Active == {"PREPARING", "SUBMITTED", "RUNNING"}
Status == Final \cup Active \cup {"QUEUED", "CANCEL_REQUESTED", "POSTPROCESSING"}

Files == {"workspace", "launch", "intent", "adapter", "manifest", "canceled", "cleaned"}

\* What is created for a run before its job, in this order.
Pieces == [kubernetes |-> <<"policy", "pvc", "pod">>,
           sagemaker  |-> <<"staging">>,
           ssh        |-> <<"directory">>]
Parts == {"policy", "pvc", "pod", "staging", "directory"}
There == {"pending", "up", "ending"}

\* coming: accepted but not visible; done: exit code 0; failed: any other.
Training == {"running", "stopping"}
JobStates == Training \cup {"none", "coming", "created", "done", "failed", "stopped", "gone"}

\* illegible: the manifest is gone or does not parse; unlawful: it names too much, or files
\* outside the adapter; altered: a file has other bytes; partial: a file is missing or has
\* another size, at SageMaker the archive is missing.
Damage == {"illegible", "unlawful", "altered", "partial"}
Outputs == Damage \cup {"none", "adapter", "valid", "failed"}

Results == {"none", "MISSING", "PREPARING", "RUNNING", "SUCCEEDED", "FAILED", "CANCELED"}
Steps == {"idle", "mkdir", "save", "pieces", "wait", "intent", "create", "start", "submitted",
          "status", "collect", "manifest", "observe", "mark", "stop", "delete", "remove",
          "commit"}
Modes == {"none", "submit", "preparing", "abandoning", "watching", "canceling", "stopped",
          "register", "cleanup"}

TypeOK ==
  /\ kind \in Executors /\ status \in Status /\ disk \subseteq Files
  /\ part \in [Parts -> There \cup {"none", "gone"}] /\ job \in JobStates
  /\ deleting \in BOOLEAN /\ stage \in {"preflight", "verified", "training", "complete"}
  /\ output \in Outputs
  /\ pc \in Steps /\ mode \in Modes /\ result \in Results
  /\ missed \in BOOLEAN /\ faults \in 0..MaxFaults

Init ==
  /\ kind \in Executors /\ status = "QUEUED" /\ disk = {}
  /\ part = [x \in Parts |-> "none"] /\ job = "none" /\ deleting = FALSE
  /\ stage = "preflight" /\ output = "none"
  /\ pc = "idle" /\ mode = "none" /\ result = "none"
  /\ missed = FALSE /\ faults = MaxFaults

-----------------------------------------------------------------------------
(* Helpers.                                                                *)

Fault(k) == k \in FaultKinds /\ faults > 0 /\ faults' = faults - 1
Calm == UNCHANGED faults

At(step, k) == pc = step /\ kind = k
Turn(step, m, r) == pc' = step /\ mode' = m /\ result' = r
Goto(step) == Turn(step, mode, result)

\* The handler returns or raises; the claim ends with it.
Leave == Turn("idle", "none", "none")

\* submit() failed: recover() looks at what there is and never submits again.
Abort == Turn("status", "preparing", "none")

Write(file) == disk' = disk \cup {file}
Local == UNCHANGED <<kind, status, remoteVars, missed>>
Remote == UNCHANGED <<kind, status, disk, runnerVars, missed>>

-----------------------------------------------------------------------------
(* The web process and the scans of the processor.                         *)

Cancel ==
  /\ \/ status = "QUEUED" /\ status' = "CANCELED"
     \/ status \in Active /\ status' = "CANCEL_REQUESTED"
  /\ UNCHANGED <<kind, disk, remoteVars, procVars, missed, faults>>

Take ==
  /\ pc = "idle"
  /\ \/ status = "QUEUED" /\ status' = "PREPARING" /\ Turn("mkdir", "submit", "none")
     \/ /\ UNCHANGED status
        /\ \/ status = "PREPARING" /\ Turn("status", "preparing", "none")
           \/ status \in {"SUBMITTED", "RUNNING"} /\ Turn("status", "watching", "none")
           \/ /\ status = "CANCEL_REQUESTED"
              /\ Turn(IF kind = "sagemaker" THEN "stop" ELSE "status", "canceling", "none")
           \/ status = "POSTPROCESSING" /\ Turn("status", "register", "none")
  /\ UNCHANGED <<kind, disk, remoteVars, missed, faults>>

\* The owner asks to clean up a run that is over.
TakeCleanup ==
  /\ pc = "idle" /\ status \in Final /\ "cleaned" \notin disk
  /\ (IF kind = "ssh" THEN "workspace" ELSE "launch") \in disk
  /\ Turn("status", "cleanup", "none")
  /\ UNCHANGED <<kind, status, disk, remoteVars, missed, faults>>

-----------------------------------------------------------------------------
(* submit().                                                               *)

MakeWorkspace ==
  /\ pc = "mkdir" /\ Write("workspace") /\ Calm /\ Local
  /\ IF "workspace" \in disk THEN Abort ELSE Goto("save")

\* The input is materialized and the identity of the launch saved, before anything
\* is created at the target.
SaveLaunch ==
  /\ pc = "save" /\ Local
  /\ \/ Write("launch") /\ Goto("pieces") /\ Calm
     \/ Fault("api") /\ Abort /\ UNCHANGED disk

\* A request that creates x: done, done without an answer, or not done.
Creates(x, state, next) ==
  /\ \/ part' = [part EXCEPT ![x] = state] /\ Goto(next) /\ Calm
     \/ part' = [part EXCEPT ![x] = state] /\ Abort /\ Fault("answer")
     \/ Abort /\ Fault("api") /\ UNCHANGED part
  /\ Remote /\ UNCHANGED <<job, deleting>>

Fresh(x) == part[x] = "none"

\* Policy, claim and staging Pod, each only after the one before it.
CreateResource ==
  /\ At("pieces", "kubernetes")
  /\ \E i \in 1..3 :
       LET x == Pieces.kubernetes[i] IN
       /\ Fresh(x) /\ \A j \in 1..(i - 1) : ~Fresh(Pieces.kubernetes[j])
       /\ Creates(x, IF x = "pod" THEN "pending" ELSE "up", IF x = "pod" THEN "wait" ELSE "pieces")

UploadObjects == At("pieces", "sagemaker") /\ Creates("staging", "up", "intent")
UploadDirectory == At("pieces", "ssh") /\ Creates("directory", "up", "create")

\* The staging Pod runs and takes the input, or the preparation is given up.
AwaitPod ==
  /\ At("wait", "kubernetes") /\ Local /\ UNCHANGED disk
  /\ \/ part["pod"] = "up" /\ Goto("create") /\ Calm
     \/ part["pod"] # "up" /\ Abort /\ Calm
     \/ Fault("api") /\ Abort

TouchIntent ==
  At("intent", "sagemaker") /\ Write("intent") /\ Goto("create") /\ Calm /\ Local

\* A request that makes the job state: done, done without an answer, or not done.
Launches(state, next) ==
  /\ \/ job' = state /\ Goto(next) /\ Calm
     \/ job' = state /\ Abort /\ Fault("answer")
     \/ Abort /\ Fault("api") /\ UNCHANGED job
  /\ Remote /\ UNCHANGED <<part, deleting>>

CreateJob == At("create", "kubernetes") /\ Launches("running", "submitted")

\* An unanswered request may also take effect later.
CreateTrainingJob ==
  /\ At("create", "sagemaker")
  /\ \/ Launches("running", "submitted")
     \/ job' = "coming" /\ Abort /\ Fault("late") /\ Remote /\ UNCHANGED <<part, deleting>>

CreateContainer == At("create", "ssh") /\ Launches("created", "start")
StartContainer == At("start", "ssh") /\ Launches("running", "submitted")

Submitted ==
  /\ pc = "submitted" /\ Leave
  /\ status' = IF status = "PREPARING" THEN "SUBMITTED" ELSE status
  /\ UNCHANGED <<kind, disk, remoteVars, missed, faults>>

-----------------------------------------------------------------------------
(* status(): inspect, collect, verify.                                     *)

\* Mutation: recovery waits for a container that nobody starts.
Recover_Waits(r) == IF r = "PREPARING" THEN Leave ELSE Turn("observe", "preparing", r)

\* What the caller of status() does with r.
Recover(r) ==
  IF r = "PREPARING" THEN Turn("mark", "abandoning", r) ELSE Turn("observe", "preparing", r)

\* recover() after the cancellation of a container that was never started.
Abandon(r) ==
  IF r \in {"RUNNING", "PREPARING"} THEN Leave
  ELSE Turn("observe", "preparing", IF r = "SUCCEEDED" THEN r ELSE "FAILED")

CancelJob(r) ==
  IF r \in {"SUCCEEDED", "FAILED"} \/ "launch" \notin disk
  THEN Turn("observe", mode, r) ELSE Goto("delete")

CancelContainer(r) ==
  IF r \in {"RUNNING", "PREPARING"} THEN Turn("mark", mode, r) ELSE Turn("observe", mode, r)

\* Nothing is removed under a job that is under way, nor an output nobody verified.
Clean(r) ==
  IF \/ r \in {"RUNNING", "PREPARING"}
     \/ kind = "sagemaker" /\ job = "done" /\ r # "SUCCEEDED"
  THEN Leave
  ELSE Goto(IF kind = "kubernetes" THEN "delete" ELSE "remove")

Report(r) ==
  CASE mode = "preparing"  -> Recover(r)
    [] mode = "abandoning" -> Abandon(r)
    [] mode = "watching"   -> Turn("observe", mode, r)
    [] mode = "stopped"    -> Turn("observe", "canceling", r)
    [] mode = "register"   -> IF r = "SUCCEEDED" THEN Goto("commit") ELSE Leave
    [] mode = "cleanup"    -> Clean(r)
    [] mode = "canceling"  -> CASE kind = "kubernetes" -> CancelJob(r)
                                [] kind = "ssh"        -> CancelContainer(r)
                                [] kind = "sagemaker"  -> Turn("observe", mode, r)

Exited == IF "canceled" \in disk THEN "CANCELED" ELSE "FAILED"

\* The target does not answer: nothing is concluded.
Unavailable == Fault("api") /\ Leave /\ UNCHANGED <<disk, missed>>

InspectJob ==
  /\ At("status", "kubernetes") /\ UNCHANGED <<kind, status, remoteVars>>
  /\ \/ Unavailable
     \/ /\ Calm /\ UNCHANGED <<disk, missed>>
        /\ IF "launch" \notin disk \/ job \in {"none", "gone"} THEN Report("MISSING") ELSE
           CASE job = "running" -> Report("RUNNING")
             [] job = "done"    -> Goto("collect")
             [] OTHER           -> Report(Exited)

\* A job that is not listed is absent, also when its creation was uncertain.
DescribeTrainingJob ==
  /\ At("status", "sagemaker") /\ UNCHANGED <<kind, status, remoteVars>>
  /\ \/ Unavailable
     \/ /\ Calm
        /\ disk' = IF job = "stopped" /\ mode # "cleanup" THEN disk \cup {"canceled"} ELSE disk
        /\ missed' = (missed \/ job = "coming")
        /\ IF "intent" \notin disk \/ job \in {"none", "coming"} THEN Report("MISSING") ELSE
           CASE job \in Training -> Report("RUNNING")
             [] job = "done"     -> Goto("collect")
             [] job = "stopped"  -> Report("CANCELED")
             [] OTHER            -> Report(Exited)

InspectContainer ==
  /\ At("status", "ssh") /\ UNCHANGED <<kind, status, remoteVars>>
  /\ \/ Unavailable
     \/ /\ Calm /\ UNCHANGED <<disk, missed>>
        /\ CASE job \in {"none", "gone"}  -> Report("MISSING")
             [] job = "running"           -> Report("RUNNING")
             [] OTHER                     ->
                  IF "canceled" \in disk THEN Report("CANCELED")
                  ELSE IF job = "created" THEN Report("PREPARING") ELSE Goto("collect")

\* An exit code 0 and a manifest that lists exactly the files that were collected.
Verified ==
  IF job = "done" /\ {"adapter", "manifest"} \subseteq disk' THEN "SUCCEEDED" ELSE "FAILED"
Outcome == IF "canceled" \in disk THEN "CANCELED" ELSE Verified

\* A file whose local copy is good is not read again; the archive is, as a whole.
Copied == "adapter" \in disk /\ kind # "sagemaker"
Collectable == output = "valid" \/ (output \in {"altered", "partial"} /\ Copied)

\* SSH raises on what does not fit its manifest, SageMaker on a missing archive, at every
\* look: the error is the same as that of a target that does not answer.
Uncollectable ==
  \/ kind = "ssh" /\ output \in {"unlawful", "partial"} /\ ~Collectable
  \/ kind = "sagemaker" /\ output = "partial" /\ "manifest" \notin disk

\* An unlawful manifest fails the run whatever was copied before; one that does not parse
\* replaces the local one, so that the verification fails; without a manifest the local
\* files decide.  A manifest of a failure lists no files, and a copy that differs from its
\* manifest is no copy.
Rejects ==
  /\ ~Collectable /\ ~Uncollectable /\ Calm
  /\ \/ UNCHANGED disk
     \/ output = "illegible" /\ disk' = disk \ {"manifest"}
  /\ Report(IF output = "unlawful" THEN "FAILED" ELSE Outcome)

\* Mutation: the manifest is written before the files it lists.
CopyFiles_ManifestFirst ==
  \/ /\ Collectable /\ Calm
     /\ \/ "manifest" \notin disk /\ Write("manifest") /\ UNCHANGED procVars
        \/ "manifest" \in disk /\ Write("adapter") /\ Goto("manifest")
  \/ Uncollectable /\ Leave /\ UNCHANGED disk /\ Calm
  \/ Rejects
  \/ Fault("api") /\ Leave /\ UNCHANGED disk

\* The files come first; each look takes up what an earlier one left.
CopyFiles ==
  \/ Collectable /\ Write("adapter") /\ Goto("manifest") /\ Calm
  \/ Uncollectable /\ Leave /\ UNCHANGED disk /\ Calm
  \/ Rejects
  \/ Fault("api") /\ Leave /\ UNCHANGED disk

CollectFromPod ==
  /\ At("collect", "kubernetes") /\ Local
  /\ IF part["pod"] = "up" THEN CopyFiles ELSE Leave /\ UNCHANGED disk /\ Calm

CollectArchive ==
  /\ At("collect", "sagemaker") /\ Local
  /\ IF "manifest" \in disk THEN UNCHANGED disk /\ Report(Outcome) /\ Calm ELSE CopyFiles

CollectOverSsh == At("collect", "ssh") /\ CopyFiles /\ Local

\* The manifest is written last; the local copy is verified against it.
WriteManifest ==
  /\ pc = "manifest" /\ Write("manifest") /\ Report(Outcome) /\ Calm /\ Local

-----------------------------------------------------------------------------
(* What the processor makes of it.                                         *)

Recorded(s, m, r) ==
  IF s \in Final \/ (s = "CANCEL_REQUESTED" /\ m # "canceling") THEN s ELSE
  CASE r = "MISSING"   -> IF m = "canceling" THEN "CANCELED"
                          ELSE IF m = "preparing" THEN "FAILED" ELSE "LOST"
    [] r \in {"FAILED", "CANCELED"}              -> r
    [] r = "RUNNING" /\ s \in Active             -> "RUNNING"
    [] r = "SUCCEEDED"                           -> "POSTPROCESSING"
    [] OTHER                                     -> s

Observe ==
  LET t == Recorded(status, mode, result) IN
  /\ pc = "observe" /\ status' = t
  /\ IF t = "POSTPROCESSING" THEN Turn("status", "register", "none") ELSE Leave
  /\ UNCHANGED <<kind, disk, remoteVars, missed, faults>>

\* finish(): the output is registered and the run succeeds in one transaction.
Commit ==
  /\ pc = "commit" /\ Leave
  /\ \/ status' = (IF status = "POSTPROCESSING" THEN "SUCCEEDED" ELSE status) /\ Calm
     \/ Fault("api") /\ UNCHANGED status
  /\ UNCHANGED <<kind, disk, remoteVars, missed>>

-----------------------------------------------------------------------------
(* cancel().                                                               *)

\* Mutation: an accepted deletion is taken for the end of the Job.
DeleteJob_Accepted ==
  /\ At("delete", "kubernetes") /\ UNCHANGED <<part, job>> /\ Remote
  /\ deleting' = (job \notin {"none", "gone"})
  /\ Goto(IF mode = "cleanup" THEN "remove" ELSE "mark") /\ Calm

\* Kubernetes: foreground deletion, then absence, then the marker.
DeleteJob ==
  /\ At("delete", "kubernetes") /\ UNCHANGED <<part, job>> /\ Remote
  /\ \/ /\ job \in {"none", "gone"} /\ Goto(IF mode = "cleanup" THEN "remove" ELSE "mark")
        /\ UNCHANGED deleting /\ Calm
     \/ /\ job \notin {"none", "gone"}
        /\ \/ ~deleting /\ deleting' = TRUE /\ Calm /\ UNCHANGED procVars
           \/ deleting' = TRUE /\ Leave /\ Fault("answer")
           \/ deleting /\ Leave /\ UNCHANGED deleting /\ Calm
     \/ Fault("api") /\ Leave /\ UNCHANGED deleting

MarkDeleted ==
  /\ At("mark", "kubernetes") /\ Write("canceled") /\ Turn("observe", mode, "CANCELED")
  /\ Calm /\ Local

\* Docker over SSH: the marker, then stop, then another look.
MarkStopping == At("mark", "ssh") /\ Write("canceled") /\ Goto("stop") /\ Calm /\ Local

StopContainer ==
  LET stopped == IF job = "running" THEN "failed" ELSE job
      after == IF mode = "abandoning" THEN mode ELSE "stopped"
  IN
  /\ At("stop", "ssh") /\ UNCHANGED <<part, deleting>> /\ Remote
  /\ \/ job' = stopped /\ Turn("status", after, result) /\ Calm
     \/ job' = stopped /\ Leave /\ Fault("answer")
     \/ UNCHANGED job /\ Leave /\ Fault("api")

\* SageMaker: only a job in progress is stopped; the service decides how it ends.
StopTrainingJob ==
  LET asked == IF "intent" \in disk /\ job = "running" THEN "stopping" ELSE job IN
  /\ At("stop", "sagemaker") /\ UNCHANGED <<part, deleting>> /\ Remote
  /\ \/ job' = asked /\ Goto("status") /\ Calm
     \/ job' = asked /\ Leave /\ Fault("answer")
     \/ UNCHANGED job /\ Leave /\ Fault("api")

-----------------------------------------------------------------------------
(* cleanup(): what was created last is removed first.                      *)

Remaining == {x \in Parts : part[x] \in There}

Touched == Write("cleaned") /\ Leave /\ Calm /\ Local

\* Mutation: the Pod is deleted and its clean-up called done without confirmation.
RemoveResources_Unconfirmed ==
  /\ At("remove", "kubernetes")
  /\ \/ Remaining \ {"pod"} = {} /\ Touched
     \/ \E x \in Remaining :
          /\ part' = [part EXCEPT ![x] = IF x = "pod" THEN "ending" ELSE "gone"]
          /\ UNCHANGED <<procVars, job, deleting>> /\ Calm /\ Remote

\* Each deletion is confirmed before the next one is asked for.
RemoveResources ==
  LET order == Pieces.kubernetes
      Last(x) == \E i \in 1..3 : order[i] = x /\ \A j \in (i + 1)..3 : order[j] \notin Remaining
  IN
  /\ At("remove", "kubernetes")
  /\ \/ Remaining = {} /\ Touched
     \/ \E x \in Remaining :
          /\ Last(x) /\ UNCHANGED <<job, deleting>> /\ Remote
          /\ \/ part[x] # "ending" /\ part' = [part EXCEPT ![x] = "ending"] /\ Calm
                /\ UNCHANGED procVars
             \/ part' = [part EXCEPT ![x] = "ending"] /\ Leave /\ Fault("answer")
             \/ part[x] = "ending" /\ Leave /\ UNCHANGED part /\ Calm
             \/ Fault("api") /\ Leave /\ UNCHANGED part

\* Multipart uploads are aborted, then objects deleted, under the run's prefix.
RemoveObjects ==
  /\ At("remove", "sagemaker")
  /\ \/ Remaining = {} /\ Touched
     \/ /\ Remaining # {} /\ UNCHANGED <<job, deleting>> /\ Remote
        /\ \/ part' = [part EXCEPT !["staging"] = "gone"] /\ Calm /\ UNCHANGED procVars
           \/ Fault("api") /\ Leave /\ UNCHANGED part

\* The container is removed, then the directory.  (That it has ended is asked again
\* here; status() has just seen it, and nobody starts it any more.)
RemoveContainer ==
  /\ At("remove", "ssh") /\ job \notin {"none", "gone"} /\ UNCHANGED <<part, deleting>> /\ Remote
  /\ \/ job' = "gone" /\ UNCHANGED procVars /\ Calm
     \/ job' = "gone" /\ Leave /\ Fault("answer")
     \/ Fault("api") /\ Leave /\ UNCHANGED job

RemoveDirectory ==
  /\ At("remove", "ssh") /\ job \in {"none", "gone"}
  /\ \/ Remaining = {} /\ Touched
     \/ /\ Remaining # {} /\ UNCHANGED <<job, deleting>> /\ Remote
        /\ \/ part' = [part EXCEPT !["directory"] = "gone"] /\ Calm /\ UNCHANGED procVars
           \/ Fault("api") /\ Leave /\ UNCHANGED part

-----------------------------------------------------------------------------
(* The target, and crashes.                                                *)

Unmoved == UNCHANGED <<kind, status, disk, procVars>>

PodStarts ==
  /\ part["pod"] = "pending" /\ part' = [part EXCEPT !["pod"] = "up"]
  /\ Unmoved /\ UNCHANGED <<job, deleting, runnerVars, missed, faults>>

PodIsEvicted ==
  /\ part["pod"] = "up" /\ Fault("evict") /\ part' = [part EXCEPT !["pod"] = "gone"]
  /\ Unmoved /\ UNCHANGED <<job, deleting, runnerVars, missed>>

PieceGoes ==
  /\ \E x \in Parts : part[x] = "ending" /\ part' = [part EXCEPT ![x] = "gone"]
  /\ Unmoved /\ UNCHANGED <<job, deleting, runnerVars, missed, faults>>

Runs == job \in Training
Ran == Unmoved /\ UNCHANGED <<part, deleting, missed, faults>>

\* The runner verifies the bundle, tokenizes, trains, and publishes: files first, then
\* the manifest under its final name.  Whatever fails ends in the manifest of a failure.
Advances(from, to) ==
  /\ Runs /\ stage = from /\ output = "none"
  /\ \/ stage' = to /\ UNCHANGED output
     \/ output' = "failed" /\ UNCHANGED stage
  /\ UNCHANGED job /\ Ran

VerifyBundle == Advances("preflight", "verified")
Prepare == Advances("verified", "training")

InvokeCli ==
  /\ Runs /\ stage = "training" /\ output = "none"
  /\ output' \in {"adapter", "failed"} /\ UNCHANGED <<stage, job>> /\ Ran

Publish ==
  /\ Runs /\ output = "adapter"
  /\ \/ output' = "valid" /\ stage' = "complete"
     \/ output' = "failed" /\ UNCHANGED stage
  /\ UNCHANGED job /\ Ran

\* The process ends with the code of its manifest.
RunnerExits ==
  /\ Runs /\ output \in {"valid", "failed"}
  /\ job' = (IF output = "valid" THEN "done" ELSE "failed")
  /\ UNCHANGED runnerVars /\ Ran

\* Out of memory or time, or, at SageMaker, asked to stop.
JobIsKilled ==
  /\ \/ Runs /\ job' = "failed"
     \/ Runs /\ kind = "sagemaker" /\ job' = "stopped"
  /\ UNCHANGED runnerVars /\ Ran

\* What arrives is not what was published.
OutputIsCorrupted ==
  /\ job \in {"done", "failed"} /\ output = "valid" /\ output' \in Damage /\ Fault("corrupt")
  /\ Unmoved /\ UNCHANGED <<part, job, deleting, stage, missed>>

JobAppears ==
  /\ job = "coming" /\ job' = "running"
  /\ Unmoved /\ UNCHANGED <<part, deleting, runnerVars, missed, faults>>

\* The deletion of a Job ends its Pods first.
JobGoes ==
  /\ deleting /\ job # "gone"
  /\ job' = (IF job = "running" THEN "failed" ELSE "gone")
  /\ Unmoved /\ UNCHANGED <<part, deleting, runnerVars, missed, faults>>

Crash ==
  /\ pc # "idle" /\ Fault("crash") /\ Leave
  /\ UNCHANGED <<kind, status, disk, remoteVars, missed>>

Submit ==
  \/ MakeWorkspace \/ SaveLaunch \/ CreateResource \/ UploadObjects \/ UploadDirectory
  \/ AwaitPod \/ TouchIntent \/ CreateJob \/ CreateTrainingJob \/ CreateContainer
  \/ StartContainer \/ Submitted

Look ==
  \/ InspectJob \/ DescribeTrainingJob \/ InspectContainer
  \/ CollectFromPod \/ CollectArchive \/ CollectOverSsh \/ WriteManifest
  \/ Observe \/ Commit

End ==
  \/ DeleteJob \/ MarkDeleted \/ MarkStopping \/ StopContainer \/ StopTrainingJob
  \/ RemoveResources \/ RemoveObjects \/ RemoveContainer \/ RemoveDirectory

Handler == Submit \/ Look \/ End
Runner == VerifyBundle \/ Prepare \/ InvokeCli \/ Publish \/ RunnerExits \/ JobIsKilled
Target == PodStarts \/ PieceGoes \/ Runner \/ JobAppears \/ JobGoes

Next ==
  \/ Cancel \/ Take \/ TakeCleanup \/ Handler \/ Target
  \/ PodIsEvicted \/ OutputIsCorrupted \/ Crash

Spec == Init /\ [][Next]_vars

\* Scans come round, handlers finish, and the target ends what it began.
FairSpec == Spec /\ WF_vars(Take) /\ WF_vars(Handler) /\ WF_vars(Target)

-----------------------------------------------------------------------------
(* Properties.                                                             *)

\* Clean-up finds everything by the launch identity on disk and the run's name: nothing
\* exists at a target before that identity is saved, whatever request was lost, and
\* "remote-cleaned" is left only when nothing of the run exists there any more.
NothingIsOrphaned ==
  /\ Remaining # {} \/ job \notin {"none", "gone"} => "launch" \in disk
  /\ "cleaned" \in disk /\ ~missed =>
       Remaining = {} /\ job \notin Training \cup {"coming", "created"}

\* A run that is over trains nothing and will train nothing, unless a SageMaker job
\* appears after it was looked for and not found.
FinalIsQuiet == status \in Final /\ ~missed => job \notin Training \cup {"coming"}

\* The row, the run's directory and the target agree, whatever was interrupted or lost.
Consistent == TypeOK /\ FinalIsQuiet

\* Training that completed with a valid output is not reported as failed or lost, through
\* failed transfers, crashes and recoveries, and on SageMaker not as canceled either (on
\* the other targets a cancellation may overtake a completion).
WorkIsNotWasted ==
  job = "done" /\ output = "valid" /\ ~missed =>
    /\ status \notin {"FAILED", "LOST"}
    /\ kind = "sagemaker" => status # "CANCELED"

\* Every run that left the queue is decided, with two exceptions: its staging Pod was
\* evicted, or its output was damaged so that the executor raises whenever it collects it.
\* cancel() takes the same look, so that cancellation does not get through either.
RunIsDecided ==
  status \in Active \cup {"CANCEL_REQUESTED"} ~>
    status \in Final \cup {"POSTPROCESSING"} \/ part["pod"] = "gone" \/ Uncollectable
=============================================================================
