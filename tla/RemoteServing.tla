----------------------------- MODULE RemoteServing -----------------------------
(***************************************************************************)
(* One playground on Kubernetes or SageMaker (app/deployments), driven by  *)
(* the handlers of app/services/deployments.py.                            *)
(*                                                                         *)
(* A Kubernetes request takes effect when it is made or not at all.  At    *)
(* SageMaker what was accepted becomes visible later, and a request whose  *)
(* answer was lost may still be accepted: the executor keeps a journal of  *)
(* what it was about to create, what it saw and what it saw gone, and      *)
(* calls nothing absent that it never saw.  As in RemoteTraining the       *)
(* handlers work one at a time under the claim and may die between steps.  *)
(***************************************************************************)
EXTENDS Naturals, Sequences, FiniteSets

CONSTANTS
  Executors,   \* the kinds of target the playground may run on
  FaultKinds,  \* which faults can happen
  MaxFaults    \* how many of them can happen in one behaviour

\* crash: the process dies; api: a request fails without effect; answer: it had its
\* effect, or may still have it, but the answer is lost; replace: another Pod takes the
\* place of the one that was prepared; server: the server exits.
ASSUME ExecutorsAssumption == Executors \subseteq {"kubernetes", "sagemaker"}
ASSUME FaultsAssumption ==
  FaultKinds \subseteq {"crash", "api", "answer", "replace", "server"} /\ MaxFaults \in Nat

VARIABLES
  kind,      \* the target's kind
  status,    \* deployments.status
  due,       \* the lease has ended
  disk,      \* the workspace, the launch identity or journal in it, the model's files
  intents,   \* journal: what was about to be created
  observed,  \* journal: what was seen
  rejected,  \* journal: what was definitively refused
  deleted,   \* journal: what was seen gone after its deletion
  resource,  \* what exists at the target
  server,    \* the server's Pod or endpoint
  bound,     \* the launch identity names the Pod that was prepared
  pc,        \* the handler's next step, "idle" without a handler
  result,    \* the status it looked at, or will record
  faults     \* how many faults may still happen

journalVars == <<intents, observed, rejected, deleted>>
targetVars == <<resource, server>>
procVars == <<pc, result>>
vars == <<kind, status, due, disk, journalVars, targetVars, bound, procVars, faults>>

Over == {"STOPPED", "FAILED", "LOST"}
Live == {"QUEUED", "PREPARING", "STARTING", "RUNNING"}

\* What a playground consists of, in the order of creation.
Manifests == <<"policy", "service", "deployment">>
Requests == <<"model", "endpoint_config", "endpoint">>
Hosted == {"model", "endpoint_config", "endpoint"}
Resources == Hosted \cup {"policy", "service", "deployment", "object"}

\* coming: accepted, or perhaps still to be accepted, and not visible.
Exists == {"coming", "up", "ending"}
Visible(k) == resource[k] \in {"up", "ending"}

TypeOK ==
  /\ kind \in Executors /\ status \in Over \cup Live \cup {"STOP_REQUESTED"}
  /\ due \in BOOLEAN /\ bound \in BOOLEAN
  /\ disk \subseteq {"workspace", "journal", "model"}
  /\ intents \cup observed \cup rejected \cup deleted \subseteq Hosted
  /\ resource \in [Resources -> Exists \cup {"none", "gone"}]
  /\ server \in {"none", "init", "starting", "ready", "failed", "other"}
  /\ pc \in {"idle", "mkdir", "pack", "save", "stage", "upload", "create", "request", "await", "bind",
             "copy", "look", "stop", "empty", "rmtree", "write"}
  /\ result \in Over \cup Live \cup {"none"} /\ faults \in 0..MaxFaults

Init ==
  /\ kind \in Executors /\ status = "QUEUED" /\ due = FALSE /\ disk = {}
  /\ intents = {} /\ observed = {} /\ rejected = {} /\ deleted = {}
  /\ resource = [k \in Resources |-> "none"] /\ server = "none" /\ bound = FALSE
  /\ pc = "idle" /\ result = "none" /\ faults = MaxFaults

-----------------------------------------------------------------------------
(* Helpers.                                                                *)

Fault(f) == f \in FaultKinds /\ faults > 0 /\ faults' = faults - 1
Calm == UNCHANGED faults

At(step, k) == pc = step /\ kind = k
Goto(step) == pc' = step /\ UNCHANGED result
Turn(step, r) == pc' = step /\ result' = r
Leave == Turn("idle", "none")

\* deploy() failed: what exists is stopped, and the playground has failed.
Abort == Turn("stop", "FAILED")
Writes(s) == Turn("write", s)
Stops(s) == Turn("stop", s)

Becomes(k, state) == resource' = [resource EXCEPT ![k] = state]

OnDisk == UNCHANGED <<kind, status, due, journalVars, targetVars, bound>>
AtTarget == UNCHANGED <<kind, status, due, disk, journalVars, bound>>
InJournal == UNCHANGED <<kind, status, due, disk, targetVars, bound>>

-----------------------------------------------------------------------------
(* The web process and the scans.                                          *)

Stop ==
  /\ status \in Live /\ status' = "STOP_REQUESTED"
  /\ UNCHANGED <<kind, due, disk, journalVars, targetVars, bound, procVars, faults>>

Expire ==
  /\ ~due /\ due' = TRUE
  /\ UNCHANGED <<kind, status, disk, journalVars, targetVars, bound, procVars, faults>>

\* Mutation: only a request stops a playground.
Take_Unleased ==
  /\ pc = "idle"
  /\ \/ status = "STOP_REQUESTED" /\ Stops("STOPPED") /\ UNCHANGED status
     \/ status = "QUEUED" /\ status' = "PREPARING" /\ Turn("mkdir", "STARTING")
     \/ status \in Live \ {"QUEUED"} /\ Turn("look", status) /\ UNCHANGED status
  /\ UNCHANGED <<kind, due, disk, journalVars, targetVars, bound, faults>>

Take ==
  /\ pc = "idle"
  /\ \/ /\ status = "STOP_REQUESTED" \/ (status \in Live /\ due)
        /\ status' = "STOP_REQUESTED" /\ Stops("STOPPED")
     \/ /\ status \in Live /\ ~due
        /\ \/ status = "QUEUED" /\ status' = "PREPARING" /\ Turn("mkdir", "STARTING")
           \/ status # "QUEUED" /\ Turn("look", status) /\ UNCHANGED status
  /\ UNCHANGED <<kind, due, disk, journalVars, targetVars, bound, faults>>

-----------------------------------------------------------------------------
(* deploy().                                                               *)

\* The workspace is made once: what an earlier process began is not begun again.
MakeWorkspace ==
  /\ pc = "mkdir" /\ OnDisk /\ Calm
  /\ disk' = disk \cup {"workspace"} /\ Goto(IF kind = "sagemaker" THEN "pack" ELSE "save")

SaveLaunch ==
  /\ At("save", "kubernetes") /\ OnDisk
  /\ disk' = disk \cup {"journal"} /\ Goto("stage") /\ Calm

Materialize ==
  /\ At("stage", "kubernetes") /\ OnDisk
  /\ \/ disk' = disk \cup {"model"} /\ Goto("create") /\ Calm
     \/ Fault("api") /\ Abort /\ UNCHANGED disk

\* The model is materialized, checked against the instance and archived.
Archive ==
  /\ At("pack", "sagemaker") /\ OnDisk /\ disk' = disk \cup {"model"}
  /\ \/ Goto("save") /\ Calm
     \/ Abort /\ Fault("api")

\* The journal is durable before anything exists at SageMaker.
SaveJournal ==
  /\ At("save", "sagemaker") /\ OnDisk
  /\ disk' = disk \cup {"journal"} /\ Goto("upload") /\ Calm

\* stop_requested: the row was moved on or its lease has ended.
StopRequested == status # "PREPARING" \/ due

UploadArchive ==
  /\ At("upload", "sagemaker") /\ AtTarget /\ UNCHANGED server
  /\ \/ StopRequested /\ Abort /\ UNCHANGED resource /\ Calm
     \/ ~StopRequested /\ Becomes("object", "up") /\ Goto("create") /\ Calm
     \/ ~StopRequested /\ Becomes("object", "up") /\ Abort /\ Fault("answer")

\* Policy, service and deployment.
CreateResource ==
  /\ At("create", "kubernetes") /\ AtTarget /\ UNCHANGED server
  /\ \E i \in 1..3 :
       LET k == Manifests[i] IN
       /\ resource[k] = "none" /\ \A j \in 1..(i - 1) : resource[Manifests[j]] # "none"
       /\ \/ Becomes(k, "up") /\ Goto(IF i = 3 THEN "await" ELSE "create") /\ Calm
          \/ Becomes(k, "up") /\ Abort /\ Fault("answer")
          \/ Fault("api") /\ Abort /\ UNCHANGED resource

\* Mutation: what is not visible is absent.
Uncertain_IsAbsent(k) == FALSE

\* describe(): never seen is not absent, unless its creation was refused.
Uncertain(k) == ~Visible(k) /\ k \in intents \ (observed \cup rejected)
Sees(ks) == observed' = observed \cup {k \in ks : Visible(k)}

\* The intent is durable before the request; an endpoint waits for its configuration.
SaveIntent ==
  /\ At("create", "sagemaker") /\ InJournal /\ UNCHANGED <<rejected, deleted>>
  /\ \E i \in 1..3 :
       LET k == Requests[i]
           waits == k = "endpoint" /\ ~Visible("endpoint_config")
       IN
       /\ k \notin intents /\ \A j \in 1..(i - 1) : Requests[j] \in intents
       /\ \/ StopRequested /\ Abort /\ UNCHANGED <<intents, observed>> /\ Calm
          \/ waits /\ Abort /\ UNCHANGED <<intents, observed>> /\ Calm
          \/ /\ ~StopRequested /\ ~waits
             /\ intents' = intents \cup {k} /\ Goto("request") /\ Calm
             /\ Sees(IF k = "endpoint" THEN {"endpoint_config"} ELSE {})

\* The last intent is requested, once.
RequestHosted ==
  /\ At("request", "sagemaker") /\ UNCHANGED <<kind, status, due, disk, bound, server>>
  /\ UNCHANGED <<intents, observed, deleted>>
  /\ \E k \in intents :
       /\ resource[k] = "none" /\ k \notin rejected
       /\ \A i, j \in 1..3 : Requests[i] = k /\ j > i => Requests[j] \notin intents
       /\ \/ Becomes(k, "coming") /\ UNCHANGED rejected /\ Calm
             /\ IF k = "endpoint" THEN Writes("STARTING") ELSE Goto("create")
          \/ Becomes(k, "coming") /\ Abort /\ UNCHANGED rejected /\ Fault("answer")
          \/ Fault("api") /\ Abort /\ UNCHANGED <<resource, rejected>>
          \/ Fault("api") /\ Abort /\ rejected' = rejected \cup {k} /\ UNCHANGED resource

\* The Pod that waits for its model is named in the identity before anything is copied.
AwaitPod ==
  /\ At("await", "kubernetes") /\ OnDisk /\ UNCHANGED disk
  /\ \/ server = "init" /\ Goto("bind") /\ Calm
     \/ server # "init" /\ Abort /\ Calm
     \/ Fault("api") /\ Abort

BindPod ==
  /\ At("bind", "kubernetes") /\ bound' = TRUE /\ Goto("copy") /\ Calm
  /\ UNCHANGED <<kind, status, due, disk, journalVars, targetVars>>

\* Every file, then the marker the Pod waits for.
CopyModel ==
  /\ At("copy", "kubernetes") /\ AtTarget /\ UNCHANGED resource
  /\ \/ server = "init" /\ server' = "starting" /\ Writes("STARTING") /\ Calm
     \/ server = "init" /\ server' = "starting" /\ Abort /\ Fault("answer")
     \/ server # "init" /\ Abort /\ UNCHANGED server /\ Calm
     \/ Fault("api") /\ Abort /\ UNCHANGED server

-----------------------------------------------------------------------------
(* status(), and what process() makes of it.                               *)

\* A preparation found by recovery is kept only when it serves.
Judge(s) ==
  \/ /\ result = "PREPARING"
     /\ IF s = "RUNNING" THEN Writes(s) ELSE Stops("FAILED")
  \/ result # "PREPARING" /\ (IF s \in Over THEN Stops(s) ELSE Writes(s))
  \* fifteen minutes after its creation a playground must have answered
  \/ result # "PREPARING" /\ s = "STARTING" /\ Stops("FAILED")

\* The Pod that the identity names, alone behind its service.
OwnPod == Visible("deployment") /\ server \notin {"none", "other"}
Binding == "journal" \in disk /\ Visible("service") /\ bound /\ OwnPod

LookPod ==
  /\ At("look", "kubernetes") /\ OnDisk /\ UNCHANGED disk
  /\ \/ Fault("api") /\ Leave
     \/ /\ Calm
        /\ CASE ~Binding                      -> Judge("LOST")
             [] Binding /\ server = "failed" -> Judge("FAILED")
             [] Binding /\ server = "ready"  -> Judge("RUNNING")
             [] OTHER                        -> Judge("STARTING")

\* Without a journal, what cannot be seen is taken for absent.
ConfirmAbsent == \A k \in Hosted : ~Visible(k)

LookEndpoint ==
  LET asked == IF Visible("endpoint") THEN Hosted ELSE {"endpoint"} IN
  /\ At("look", "sagemaker") /\ InJournal /\ UNCHANGED <<intents, rejected, deleted>>
  /\ \/ Fault("api") /\ Leave /\ UNCHANGED observed
     \/ /\ "journal" \notin disk \/ "endpoint" \notin intents
        /\ Judge("LOST") /\ UNCHANGED observed /\ Calm
     \/ /\ "journal" \in disk /\ "endpoint" \in intents
        /\ Sees(asked) /\ Calm
        /\ IF \E k \in asked : Uncertain(k) THEN Leave
           ELSE IF ~Visible("endpoint") THEN Judge("LOST")
           ELSE IF \E k \in Hosted : ~Visible(k) \/ resource["endpoint"] # "up" THEN Judge("FAILED")
           ELSE Judge(CASE server = "ready" -> "RUNNING" [] server = "init" -> "STARTING"
                        [] OTHER -> "FAILED")

\* update() yields to a stop request.
Write ==
  /\ pc = "write" /\ Leave
  /\ status' = (IF status # "STOP_REQUESTED" \/ result = "STOPPED" THEN result ELSE status)
  /\ UNCHANGED <<kind, due, disk, journalVars, targetVars, bound, faults>>

-----------------------------------------------------------------------------
(* stop().                                                                 *)

\* Without the identity nothing may exist; a workspace without it is not removed.
Absent == \A i \in 1..3 : ~Visible(Manifests[i])
StopUnknown ==
  /\ At("stop", "kubernetes") /\ "journal" \notin disk /\ OnDisk /\ UNCHANGED disk
  /\ \/ ("workspace" \in disk \/ ~Absent) /\ Leave /\ Calm
     \/ "workspace" \notin disk /\ Absent /\ Goto("write") /\ Calm
     \/ Fault("api") /\ Leave

\* Mutation: an accepted deletion is taken for the end of the resource.
DeleteResources_Accepted ==
  /\ At("stop", "kubernetes") /\ "journal" \in disk /\ AtTarget /\ UNCHANGED server
  /\ resource' = [k \in Resources |-> IF Visible(k) THEN "ending" ELSE resource[k]]
  /\ Goto("rmtree") /\ Calm

\* Deployment, service, policy: each is seen gone before the next.
DeleteResources ==
  /\ At("stop", "kubernetes") /\ "journal" \in disk /\ AtTarget /\ UNCHANGED server
  /\ \/ /\ \A i \in 1..3 : ~Visible(Manifests[i])
        /\ Goto("rmtree") /\ UNCHANGED resource /\ Calm
     \/ \E i \in 1..3 :
          LET k == Manifests[i] IN
          /\ Visible(k) /\ \A j \in (i + 1)..3 : ~Visible(Manifests[j])
          /\ \/ resource[k] = "up" /\ Becomes(k, "ending") /\ UNCHANGED procVars /\ Calm
             \/ resource[k] = "ending" /\ Leave /\ UNCHANGED resource /\ Calm
             \/ Becomes(k, "ending") /\ Leave /\ Fault("answer")
             \/ Fault("api") /\ Leave /\ UNCHANGED resource

RemoveWorkspace ==
  /\ At("rmtree", "kubernetes")
  /\ disk' = {} /\ bound' = FALSE /\ Goto("write") /\ Calm
  /\ UNCHANGED <<kind, status, due, journalVars, targetVars>>

\* Without a journal nothing may exist at SageMaker; then the workspace is removed.
StopUnjournaled ==
  /\ At("stop", "sagemaker") /\ "journal" \notin disk /\ OnDisk
  /\ \/ ConfirmAbsent /\ disk' = {} /\ Goto("write") /\ Calm
     \/ Fault("api") /\ Leave /\ UNCHANGED disk

Stopping == intents \ deleted

\* Endpoint, configuration, model: each is deleted, seen gone and recorded.
DeleteHosted ==
  /\ At("stop", "sagemaker") /\ "journal" \in disk
  /\ UNCHANGED <<kind, status, due, disk, bound, intents, rejected, server>>
  /\ \/ Stopping = {} /\ Goto("empty") /\ UNCHANGED <<resource, observed, deleted>> /\ Calm
     \/ Fault("api") /\ Leave /\ UNCHANGED <<resource, observed, deleted>>
     \/ \E i \in 1..3 :
          LET k == Requests[i] IN
          /\ k \in Stopping /\ \A j \in (i + 1)..3 : Requests[j] \notin Stopping
          /\ \/ Uncertain(k) /\ Leave /\ UNCHANGED <<resource, observed, deleted>> /\ Calm
             \/ /\ ~Uncertain(k) /\ ~Visible(k) /\ deleted' = deleted \cup {k}
                /\ UNCHANGED <<procVars, resource, observed>> /\ Calm
             \/ /\ resource[k] = "up" /\ Becomes(k, "ending") /\ Sees({k})
                /\ UNCHANGED <<procVars, deleted>> /\ Calm
             \/ /\ resource[k] = "up" /\ Becomes(k, "ending") /\ Sees({k})
                /\ Leave /\ UNCHANGED deleted /\ Fault("answer")
             \/ resource[k] = "ending" /\ Sees({k}) /\ Leave
                /\ UNCHANGED <<resource, deleted>> /\ Calm

\* Uploads and the archive under the playground's key, then the local copies; the
\* journal stays.
EmptyBucket ==
  /\ At("empty", "sagemaker") /\ UNCHANGED <<kind, status, due, journalVars, bound, server>>
  /\ \/ Becomes("object", "gone") /\ disk' = disk \ {"model"} /\ Goto("write") /\ Calm
     \/ Fault("api") /\ Leave /\ UNCHANGED <<resource, disk>>

-----------------------------------------------------------------------------
(* The target, and crashes.                                                *)

Unmoved == UNCHANGED <<kind, status, due, disk, journalVars, bound, procVars>>

Appears ==
  /\ \E k \in Hosted : resource[k] = "coming" /\ Becomes(k, "up")
        /\ server' = (IF k = "endpoint" THEN "init" ELSE server)
  /\ Unmoved /\ Calm

Goes ==
  /\ \E k \in Resources : resource[k] = "ending" /\ Becomes(k, "gone")
        /\ server' = (IF k \in {"endpoint", "deployment"} THEN "none" ELSE server)
  /\ Unmoved /\ Calm

PodStarts ==
  /\ \/ resource["deployment"] = "up" /\ server = "none" /\ server' = "init"
     \/ kind = "kubernetes" /\ server = "starting" /\ server' = "ready"
  /\ Unmoved /\ UNCHANGED resource /\ Calm

\* The container checks the archive against its manifest before it serves it.
EndpointServes ==
  /\ kind = "sagemaker" /\ server = "init" /\ server' \in {"ready", "failed"}
  /\ Unmoved /\ UNCHANGED resource /\ Calm

ServerFails ==
  /\ server \in {"starting", "ready"} /\ server' = "failed" /\ Fault("server")
  /\ Unmoved /\ UNCHANGED resource

\* Another Pod waits for a model that nobody copies to it.
PodIsReplaced ==
  /\ bound /\ server \in {"init", "starting", "ready"} /\ server' = "other" /\ Fault("replace")
  /\ Unmoved /\ UNCHANGED resource

Crash ==
  /\ pc # "idle" /\ Fault("crash") /\ Leave
  /\ UNCHANGED <<kind, status, due, disk, journalVars, targetVars, bound>>

Handler ==
  \/ MakeWorkspace \/ SaveLaunch \/ Materialize \/ Archive \/ SaveJournal \/ UploadArchive
  \/ CreateResource \/ SaveIntent \/ RequestHosted \/ AwaitPod \/ BindPod \/ CopyModel
  \/ LookPod \/ LookEndpoint \/ Write \/ StopUnknown \/ DeleteResources \/ RemoveWorkspace
  \/ StopUnjournaled \/ DeleteHosted \/ EmptyBucket
Target == Appears \/ Goes \/ PodStarts \/ EndpointServes

Next == Stop \/ Expire \/ Take \/ Handler \/ Target \/ ServerFails \/ PodIsReplaced \/ Crash

Spec == Init /\ [][Next]_vars

\* Scans come round, handlers finish, leases end, and the target ends what it accepted.
FairSpec == Spec /\ WF_vars(Take) /\ WF_vars(Handler) /\ WF_vars(Target) /\ WF_vars(Expire)

-----------------------------------------------------------------------------
(* Properties.                                                             *)

Left == {k \in Resources : resource[k] \in Exists}

\* A playground that is over has nothing left at its target, and nothing that is still to
\* appear: neither a lost answer nor a slow service is taken for absence.
OverIsFree == status \in Over => Left = {}

\* The row, the workspace and the target agree, whatever was interrupted or lost.
Consistent == TypeOK /\ OverIsFree

\* Whatever exists can be found by a later process: the identity is on disk before the
\* first request, an intent before its request, and it is closed only after its resource
\* was seen gone.
NothingIsOrphaned ==
  /\ Left # {} => "journal" \in disk
  /\ Left \cap Hosted \subseteq intents \ deleted

\* Every stop request and every ended lease ends the playground, except for what the
\* executors leave to the operator: a creation that may still happen and never does, and
\* a workspace whose process died before it saved its identity.
LeaseEnds ==
  due ~>
    \/ status \in Over
    \/ \E k \in Hosted : Uncertain(k) /\ resource[k] = "none"
    \/ kind = "kubernetes" /\ disk = {"workspace"}
=============================================================================
