------------------------ MODULE RemoteServing_proofs ------------------------
(***************************************************************************)
(* Theorems about RemoteServing, for both kinds of targets, any kinds of   *)
(* faults and any number of them.                                          *)
(***************************************************************************)
EXTENDS RemoteServing, TLAPS

-----------------------------------------------------------------------------
(* The inductive invariant.                                                *)

\* deploy() runs once, before anything was refused or deleted; from "upload" and "stage"
\* on it may create.
Deploying == {"mkdir", "pack", "save", "stage", "upload", "create", "request", "await", "bind",
              "copy"}
Placing == Deploying \ {"mkdir", "pack", "save"}

Free == \A k \in Resources : resource[k] \notin Exists

\* Each kind of target has its own resources, and only SageMaker's are late.
AtSageMaker == Hosted \cup {"object"}
TargetInv ==
  /\ kind = "kubernetes" => /\ \A k \in AtSageMaker : resource[k] = "none"
                            /\ \A k \in Resources : resource[k] # "coming"
  /\ kind = "sagemaker" => \A k \in Resources \ AtSageMaker : resource[k] = "none"

\* The journal knows what may exist, what did appear and what never will.
JournalInv ==
  /\ \A k \in Resources : resource[k] \in Exists =>
       "journal" \in disk /\ (k \in Hosted => k \in intents /\ k \notin deleted)
  /\ \A k \in observed : resource[k] \in {"up", "ending", "gone"}
  /\ \A k \in rejected : resource[k] = "none"

\* What the next step of the handler relies on.
ProgressInv ==
  /\ status = "QUEUED" => pc = "idle"
  /\ status = "QUEUED" \/ pc \in Deploying => deleted = {} /\ rejected = {}
  /\ pc \in Placing => "journal" \in disk
  /\ pc \in {"stop", "rmtree", "empty"} => result \in Over
  /\ pc = "rmtree" => Free
  /\ pc = "empty" => \A k \in Hosted : resource[k] \notin Exists
  /\ pc = "write" => result \in Over \cup {"STARTING", "RUNNING"} /\ (result \in Over => Free)
  /\ status \in Over => pc = "idle" /\ Free

IInv == TypeOK /\ TargetInv /\ JournalInv /\ ProgressInv

-----------------------------------------------------------------------------
(* Lemmas.                                                                 *)

LEMMA InOrder ==
  /\ Requests \in [1..3 -> Hosted] /\ \A k \in Hosted : \E i \in 1..3 : Requests[i] = k
  /\ Manifests \in [1..3 -> Resources \ AtSageMaker]
  /\ \A k \in Resources \ AtSageMaker : \E i \in 1..3 : Manifests[i] = k
  /\ Hosted \subseteq Resources /\ AtSageMaker \subseteq Resources
BY DEF Requests, Manifests, Hosted, Resources, AtSageMaker

\* Nothing is created or deleted, and the journal stays.
LEMMA NothingMoves ==
  ASSUME TargetInv, JournalInv, UNCHANGED <<kind, journalVars, resource>>, disk \subseteq disk'
  PROVE  TargetInv' /\ JournalInv'
BY DEF TargetInv, JournalInv, journalVars

\* What exists at the target may only become visible or go.
LEMMA TargetMoves ==
  ASSUME TargetInv, JournalInv, UNCHANGED <<kind, journalVars, disk>>,
         resource' \in [Resources -> Exists \cup {"none", "gone"}],
         \A k \in Resources :
           \/ resource'[k] = resource[k]
           \/ resource[k] = "coming" /\ resource'[k] = "up"
           \/ resource[k] \in {"up", "ending"} /\ resource'[k] \in {"ending", "gone"},
         observed \subseteq Resources, rejected \subseteq Resources
  PROVE  TargetInv' /\ JournalInv'
<1>1. TargetInv'
  BY InOrder DEF TargetInv
<1>2. \A k \in Resources : resource'[k] \in Exists => resource[k] \in Exists
  BY DEF Exists
<1>3. JournalInv'
  BY <1>2 DEF JournalInv, journalVars
<1> QED
  BY <1>1, <1>3

-----------------------------------------------------------------------------
(* The web process and the scans.                                          *)

LEMMA StopInv == IInv /\ Stop => IInv'
<1> SUFFICES ASSUME IInv, Stop
             PROVE  IInv'
  OBVIOUS
<1>1. TypeOK'
  BY DEF IInv, TypeOK, Stop, journalVars, targetVars, procVars
<1>2. TargetInv' /\ JournalInv'
  BY NothingMoves DEF IInv, Stop, targetVars
<1>3. ProgressInv'
  BY DEF IInv, ProgressInv, Stop, journalVars, targetVars, procVars, Free, Live, Over
<1> QED
  BY <1>1, <1>2, <1>3 DEF IInv

LEMMA ExpireInv == IInv /\ Expire => IInv'
<1> SUFFICES ASSUME IInv, Expire
             PROVE  IInv'
  OBVIOUS
<1>1. TypeOK'
  BY DEF IInv, TypeOK, Expire, journalVars, targetVars, procVars
<1>2. TargetInv' /\ JournalInv'
  BY NothingMoves DEF IInv, Expire, targetVars
<1>3. ProgressInv'
  BY DEF IInv, ProgressInv, Expire, journalVars, targetVars, procVars, Free
<1> QED
  BY <1>1, <1>2, <1>3 DEF IInv

LEMMA TakeInv == IInv /\ Take => IInv'
<1> SUFFICES ASSUME IInv, Take
             PROVE  IInv'
  OBVIOUS
<1>1. TypeOK'
  BY DEF IInv, TypeOK, Take, Stops, Turn, journalVars, targetVars, Live, Over
<1>2. TargetInv' /\ JournalInv'
  BY NothingMoves DEF IInv, Take, targetVars
<1>3. ProgressInv'
  BY DEF IInv, ProgressInv, Take, Stops, Turn, journalVars, targetVars, Free, Live, Over,
         Deploying, Placing
<1> QED
  BY <1>1, <1>2, <1>3 DEF IInv

-----------------------------------------------------------------------------
(* deploy().                                                               *)

LEMMA MakeWorkspaceInv == IInv /\ MakeWorkspace => IInv'
<1> SUFFICES ASSUME IInv, MakeWorkspace
             PROVE  IInv'
  OBVIOUS
<1>1. TypeOK'
  BY FaultsAssumption DEF IInv, TypeOK, MakeWorkspace, OnDisk, journalVars, targetVars, Goto,
    Calm, Over, Live
<1>2. TargetInv' /\ JournalInv'
  <2>1. UNCHANGED <<kind, journalVars, resource>> /\ disk \subseteq disk'
    BY DEF MakeWorkspace, OnDisk, AtTarget, targetVars
  <2> QED
    BY <2>1, NothingMoves DEF IInv
<1>3. ProgressInv'
  BY DEF IInv, ProgressInv, MakeWorkspace, OnDisk, journalVars, targetVars, Goto, Over, Live,
    Free, Deploying, Placing
<1> QED
  BY <1>1, <1>2, <1>3 DEF IInv

LEMMA SaveLaunchInv == IInv /\ SaveLaunch => IInv'
<1> SUFFICES ASSUME IInv, SaveLaunch
             PROVE  IInv'
  OBVIOUS
<1>1. TypeOK'
  BY FaultsAssumption DEF IInv, TypeOK, SaveLaunch, OnDisk, journalVars, targetVars, Goto,
    Calm, Over, Live
<1>2. TargetInv' /\ JournalInv'
  <2>1. UNCHANGED <<kind, journalVars, resource>> /\ disk \subseteq disk'
    BY DEF SaveLaunch, OnDisk, AtTarget, targetVars
  <2> QED
    BY <2>1, NothingMoves DEF IInv
<1>3. ProgressInv'
  BY DEF IInv, ProgressInv, SaveLaunch, OnDisk, At, journalVars, targetVars, Goto, Over, Live,
    Free, Deploying, Placing
<1> QED
  BY <1>1, <1>2, <1>3 DEF IInv

LEMMA MaterializeInv == IInv /\ Materialize => IInv'
<1> SUFFICES ASSUME IInv, Materialize
             PROVE  IInv'
  OBVIOUS
<1>1. TypeOK'
  <2>1. faults' \in 0..MaxFaults
    BY FaultsAssumption DEF IInv, TypeOK, Materialize, Calm, Fault
  <2>2. /\ disk' \subseteq {"workspace", "journal", "model"}
        /\ pc' \in {"create", "stop"} /\ result' \in Over \cup Live \cup {"none"}
    BY DEF IInv, TypeOK, Materialize, Goto, Turn, Abort, Over
  <2>3. UNCHANGED <<kind, status, due, journalVars, resource, server, bound>>
    BY DEF Materialize, OnDisk, targetVars
  <2> QED
    BY <2>1, <2>2, <2>3 DEF IInv, TypeOK, journalVars
<1>2. TargetInv' /\ JournalInv'
  <2>1. UNCHANGED <<kind, journalVars, resource>> /\ disk \subseteq disk'
    BY DEF Materialize, OnDisk, AtTarget, targetVars
  <2> QED
    BY <2>1, NothingMoves DEF IInv
<1>3. ProgressInv'
  BY DEF IInv, ProgressInv, Materialize, OnDisk, At, journalVars, targetVars, Goto, Turn,
    Abort, Over, Live, Free, Deploying, Placing
<1> QED
  BY <1>1, <1>2, <1>3 DEF IInv

LEMMA ArchiveInv == IInv /\ Archive => IInv'
<1> SUFFICES ASSUME IInv, Archive
             PROVE  IInv'
  OBVIOUS
<1>1. TypeOK'
  BY FaultsAssumption DEF IInv, TypeOK, Archive, OnDisk, journalVars, targetVars, Goto, Turn,
    Abort, Fault, Calm, Over, Live
<1>2. TargetInv' /\ JournalInv'
  <2>1. UNCHANGED <<kind, journalVars, resource>> /\ disk \subseteq disk'
    BY DEF Archive, OnDisk, AtTarget, targetVars
  <2> QED
    BY <2>1, NothingMoves DEF IInv
<1>3. ProgressInv'
  BY DEF IInv, ProgressInv, Archive, OnDisk, At, journalVars, targetVars, Goto, Turn, Abort,
    Over, Live, Free, Deploying, Placing
<1> QED
  BY <1>1, <1>2, <1>3 DEF IInv

LEMMA SaveJournalInv == IInv /\ SaveJournal => IInv'
<1> SUFFICES ASSUME IInv, SaveJournal
             PROVE  IInv'
  OBVIOUS
<1>1. TypeOK'
  BY FaultsAssumption DEF IInv, TypeOK, SaveJournal, OnDisk, journalVars, targetVars, Goto,
    Calm, Over, Live
<1>2. TargetInv' /\ JournalInv'
  <2>1. UNCHANGED <<kind, journalVars, resource>> /\ disk \subseteq disk'
    BY DEF SaveJournal, OnDisk, AtTarget, targetVars
  <2> QED
    BY <2>1, NothingMoves DEF IInv
<1>3. ProgressInv'
  BY DEF IInv, ProgressInv, SaveJournal, OnDisk, At, journalVars, targetVars, Goto, Over,
    Live, Free, Deploying, Placing
<1> QED
  BY <1>1, <1>2, <1>3 DEF IInv

LEMMA AwaitPodInv == IInv /\ AwaitPod => IInv'
<1> SUFFICES ASSUME IInv, AwaitPod
             PROVE  IInv'
  OBVIOUS
<1>1. TypeOK'
  BY FaultsAssumption DEF IInv, TypeOK, AwaitPod, OnDisk, journalVars, targetVars, Goto, Turn,
    Abort, Fault, Calm, Over, Live
<1>2. TargetInv' /\ JournalInv'
  <2>1. UNCHANGED <<kind, journalVars, resource>> /\ disk \subseteq disk'
    BY DEF AwaitPod, OnDisk, AtTarget, targetVars
  <2> QED
    BY <2>1, NothingMoves DEF IInv
<1>3. ProgressInv'
  BY DEF IInv, ProgressInv, AwaitPod, OnDisk, At, journalVars, targetVars, Goto, Turn, Abort,
    Over, Live, Free, Deploying, Placing
<1> QED
  BY <1>1, <1>2, <1>3 DEF IInv

LEMMA BindPodInv == IInv /\ BindPod => IInv'
<1> SUFFICES ASSUME IInv, BindPod
             PROVE  IInv'
  OBVIOUS
<1>1. TypeOK'
  BY FaultsAssumption DEF IInv, TypeOK, BindPod, journalVars, targetVars, Goto, Calm, Over,
    Live
<1>2. TargetInv' /\ JournalInv'
  <2>1. UNCHANGED <<kind, journalVars, resource>> /\ disk \subseteq disk'
    BY DEF BindPod, OnDisk, AtTarget, targetVars
  <2> QED
    BY <2>1, NothingMoves DEF IInv
<1>3. ProgressInv'
  BY DEF IInv, ProgressInv, BindPod, At, journalVars, targetVars, Goto, Over, Live, Free,
    Deploying, Placing
<1> QED
  BY <1>1, <1>2, <1>3 DEF IInv

LEMMA CopyModelInv == IInv /\ CopyModel => IInv'
<1> SUFFICES ASSUME IInv, CopyModel
             PROVE  IInv'
  OBVIOUS
<1>1. TypeOK'
  BY FaultsAssumption DEF IInv, TypeOK, CopyModel, AtTarget, journalVars, Turn, Abort, Writes,
    Fault, Calm, Over, Live
<1>2. TargetInv' /\ JournalInv'
  <2>1. UNCHANGED <<kind, journalVars, resource>> /\ disk \subseteq disk'
    BY DEF CopyModel, OnDisk, AtTarget, targetVars
  <2> QED
    BY <2>1, NothingMoves DEF IInv
<1>3. ProgressInv'
  BY DEF IInv, ProgressInv, CopyModel, AtTarget, At, journalVars, Turn, Abort, Writes, Over,
    Live, Free, Deploying, Placing
<1> QED
  BY <1>1, <1>2, <1>3 DEF IInv

\* The archive is the first thing at SageMaker, after the journal.
LEMMA UploadArchiveInv == IInv /\ UploadArchive => IInv'
<1> SUFFICES ASSUME IInv, UploadArchive
             PROVE  IInv'
  OBVIOUS
<1>1. /\ UNCHANGED <<kind, status, due, disk, journalVars, bound, server>>
      /\ kind = "sagemaker" /\ "journal" \in disk /\ deleted = {} /\ rejected = {}
      /\ status # "QUEUED" /\ status \notin Over
  BY DEF IInv, UploadArchive, AtTarget, At, ProgressInv, Placing, Deploying
<1>2. \/ pc' = "stop" /\ result' = "FAILED" 
      \/ pc' = "create" /\ result' = result
  BY DEF UploadArchive, Goto, Abort, Turn
<1>3. faults' \in 0..MaxFaults
  BY FaultsAssumption DEF IInv, TypeOK, UploadArchive, Calm, Fault
<1>4. /\ resource' \in [Resources -> Exists \cup {"none", "gone"}]
      /\ \A k \in Resources : resource'[k] = resource[k] \/ (k = "object" /\ resource'[k] = "up")
  BY DEF IInv, TypeOK, UploadArchive, Becomes, Exists
<1>5. TypeOK'
  BY <1>1, <1>2, <1>3, <1>4 DEF IInv, TypeOK, journalVars, Over
<1>6. TargetInv'
  BY <1>1, <1>4 DEF IInv, TargetInv, AtSageMaker
<1>7. JournalInv'
  BY <1>1, <1>4, InOrder DEF IInv, TypeOK, JournalInv, journalVars, Hosted
<1>8. ProgressInv'
  BY <1>1, <1>2 DEF IInv, ProgressInv, Over, Deploying, Placing, journalVars
<1> QED
  BY <1>5, <1>6, <1>7, <1>8 DEF IInv

LEMMA CreateResourceInv == IInv /\ CreateResource => IInv'
<1> SUFFICES ASSUME IInv, CreateResource
             PROVE  IInv'
  OBVIOUS
<1>1. /\ UNCHANGED <<kind, status, due, disk, journalVars, bound, server>>
      /\ kind = "kubernetes" /\ "journal" \in disk /\ deleted = {} /\ rejected = {}
      /\ status # "QUEUED" /\ status \notin Over
  BY DEF IInv, CreateResource, AtTarget, At, ProgressInv, Placing, Deploying
<1>2. PICK i \in 1..3 :
        LET k == Manifests[i] IN
        \/ Becomes(k, "up") /\ Goto(IF i = 3 THEN "await" ELSE "create") /\ Calm
        \/ Becomes(k, "up") /\ Abort /\ Fault("answer")
        \/ Fault("api") /\ Abort /\ UNCHANGED resource
  BY DEF CreateResource
<1>3. \/ pc' = "stop" /\ result' = "FAILED"
      \/ pc' \in {"create", "await"} /\ result' = result
  BY <1>2 DEF Goto, Abort, Turn
<1>4. faults' \in 0..MaxFaults
  BY <1>2, FaultsAssumption DEF IInv, TypeOK, Calm, Fault
<1>5. /\ resource' \in [Resources -> Exists \cup {"none", "gone"}]
      /\ \A k \in Resources : \/ resource'[k] = resource[k]
                              \/ k \notin AtSageMaker /\ resource'[k] = "up"
  <2>1. Manifests[i] \in Resources \ AtSageMaker
    BY InOrder
  <2> QED
    BY <1>2, <2>1 DEF IInv, TypeOK, Becomes, Exists
<1>6. TypeOK'
  BY <1>1, <1>3, <1>4, <1>5 DEF IInv, TypeOK, journalVars, Over
<1>7. TargetInv'
  BY <1>1, <1>5, InOrder DEF IInv, TargetInv
<1>8. JournalInv'
  BY <1>1, <1>5, InOrder DEF IInv, TypeOK, JournalInv, journalVars, AtSageMaker
<1>9. ProgressInv'
  BY <1>1, <1>3 DEF IInv, ProgressInv, Over, Deploying, Placing, journalVars
<1> QED
  BY <1>6, <1>7, <1>8, <1>9 DEF IInv

\* What was seen exists, or existed.
LEMMA Seeing ==
  ASSUME IInv, NEW ks \in SUBSET Hosted, Sees(ks)
  PROVE  observed' \subseteq Hosted /\ \A k \in observed' : resource[k] \in {"up", "ending", "gone"}
BY DEF IInv, TypeOK, JournalInv, Sees, Visible

LEMMA SaveIntentInv == IInv /\ SaveIntent => IInv'
<1> SUFFICES ASSUME IInv, SaveIntent
             PROVE  IInv'
  OBVIOUS
<1>1. /\ UNCHANGED <<kind, status, due, disk, resource, server, bound, rejected, deleted>>
      /\ "journal" \in disk /\ deleted = {} /\ rejected = {}
      /\ status # "QUEUED" /\ status \notin Over
  BY DEF IInv, SaveIntent, InJournal, targetVars, At, ProgressInv, Placing, Deploying
<1>2. PICK i \in 1..3 :
        LET k == Requests[i]
            waits == k = "endpoint" /\ ~Visible("endpoint_config")
        IN
        \/ StopRequested /\ Abort /\ UNCHANGED <<intents, observed>> /\ Calm
        \/ waits /\ Abort /\ UNCHANGED <<intents, observed>> /\ Calm
        \/ /\ intents' = intents \cup {k} /\ Goto("request") /\ Calm
           /\ Sees(IF k = "endpoint" THEN {"endpoint_config"} ELSE {})
  BY DEF SaveIntent
<1>3. /\ \/ pc' = "stop" /\ result' = "FAILED"
         \/ pc' = "request" /\ result' = result
      /\ UNCHANGED faults
  BY <1>2 DEF Goto, Abort, Turn, Calm
<1>4. intents \subseteq intents' /\ intents' \subseteq Hosted
  BY <1>2, InOrder DEF IInv, TypeOK
<1>5. observed' \subseteq Hosted /\ \A k \in observed' : resource[k] \in {"up", "ending", "gone"}
  <2>1. CASE UNCHANGED observed
    BY <2>1 DEF IInv, TypeOK, JournalInv
  <2>2. CASE Sees(IF Requests[i] = "endpoint" THEN {"endpoint_config"} ELSE {})
    <3>1. (IF Requests[i] = "endpoint" THEN {"endpoint_config"} ELSE {}) \in SUBSET Hosted
      BY DEF Hosted
    <3> QED
      BY <2>2, <3>1, Seeing
  <2> QED
    BY <1>2, <2>1, <2>2
<1>6. TypeOK'
  BY <1>1, <1>3, <1>4, <1>5 DEF IInv, TypeOK, Over
<1>7. TargetInv'
  BY <1>1 DEF IInv, TargetInv
<1>8. JournalInv'
  BY <1>1, <1>4, <1>5 DEF IInv, JournalInv
<1>9. ProgressInv'
  BY <1>1, <1>3 DEF IInv, ProgressInv, Over, Deploying, Placing
<1> QED
  BY <1>6, <1>7, <1>8, <1>9 DEF IInv

\* Only what was never refused and has an intent is requested.
LEMMA RequestHostedInv == IInv /\ RequestHosted => IInv'
<1> SUFFICES ASSUME IInv, RequestHosted
             PROVE  IInv'
  OBVIOUS
<1>1. /\ UNCHANGED <<kind, status, due, disk, server, bound, intents, observed, deleted>>
      /\ kind = "sagemaker" /\ "journal" \in disk /\ deleted = {} /\ rejected = {}
      /\ status # "QUEUED" /\ status \notin Over
  BY DEF IInv, RequestHosted, At, ProgressInv, Placing, Deploying
<1>2. PICK k \in intents :
        /\ resource[k] = "none"
        /\ \/ Becomes(k, "coming") /\ UNCHANGED rejected /\ Calm
              /\ IF k = "endpoint" THEN Writes("STARTING") ELSE Goto("create")
           \/ Becomes(k, "coming") /\ Abort /\ UNCHANGED rejected /\ Fault("answer")
           \/ Fault("api") /\ Abort /\ UNCHANGED <<resource, rejected>>
           \/ Fault("api") /\ Abort /\ rejected' = rejected \cup {k} /\ UNCHANGED resource
  BY DEF RequestHosted
<1>3. k \in Hosted /\ k \in Resources
  BY InOrder DEF IInv, TypeOK
<1>4. \/ pc' = "stop" /\ result' = "FAILED"
      \/ pc' = "create" /\ result' = result /\ rejected' = rejected
      \/ pc' = "write" /\ result' = "STARTING"
  BY <1>2 DEF Goto, Abort, Turn, Writes
<1>5. faults' \in 0..MaxFaults
  BY <1>2, FaultsAssumption DEF IInv, TypeOK, Calm, Fault
<1>6. /\ resource' \in [Resources -> Exists \cup {"none", "gone"}] /\ rejected' \subseteq Hosted
      /\ \/ resource' = resource /\ rejected' \subseteq rejected \cup {k}
         \/ /\ resource'[k] = "coming" /\ rejected' = rejected
            /\ \A j \in Resources \ {k} : resource'[j] = resource[j]
  BY <1>2, <1>3 DEF IInv, TypeOK, Becomes, Exists
<1>7. TypeOK'
  BY <1>1, <1>4, <1>5, <1>6 DEF IInv, TypeOK, Over, Live
<1>8. TargetInv'
  BY <1>1, <1>3, <1>6 DEF IInv, TargetInv, AtSageMaker
<1>9. JournalInv'
  <2>1. \A j \in Resources : resource'[j] \in Exists =>
          "journal" \in disk' /\ (j \in Hosted => j \in intents' /\ j \notin deleted')
    BY <1>1, <1>2, <1>3, <1>6 DEF IInv, JournalInv
  <2>2. \A j \in observed' : resource'[j] \in {"up", "ending", "gone"}
    BY <1>1, <1>2, <1>3, <1>6, InOrder DEF IInv, TypeOK, JournalInv
  <2>3. \A j \in rejected' : resource'[j] = "none"
    BY <1>1, <1>2, <1>6 DEF IInv, JournalInv
  <2> QED
    BY <2>1, <2>2, <2>3 DEF JournalInv
<1>10. ProgressInv'
  BY <1>1, <1>4 DEF IInv, ProgressInv, Over, Deploying, Placing
<1> QED
  BY <1>7, <1>8, <1>9, <1>10 DEF IInv

-----------------------------------------------------------------------------
(* status(), and the end of a handler.                                     *)

\* Whatever is found, the handler stops the playground or writes that it goes on.
LEMMA Judged ==
  ASSUME NEW s \in {"LOST", "FAILED", "STARTING", "RUNNING"}, Judge(s)
  PROVE  \/ pc' = "stop" /\ result' \in Over
         \/ pc' = "write" /\ result' \in {"STARTING", "RUNNING"}
BY DEF Judge, Writes, Stops, Turn, Over

\* A handler that only looked.
LEMMA Looked ==
  ASSUME IInv, pc = "look", UNCHANGED <<kind, status, disk, resource, rejected, deleted>>,
         pc' = "idle" \/ \E s \in {"LOST", "FAILED", "STARTING", "RUNNING"} : Judge(s)
  PROVE  ProgressInv'
<1>1. \/ pc' = "idle"
      \/ pc' = "stop" /\ result' \in Over
      \/ pc' = "write" /\ result' \in {"STARTING", "RUNNING"}
  BY Judged
<1> QED
  BY <1>1 DEF IInv, ProgressInv, Over, Deploying, Placing

LEMMA LookPodInv == IInv /\ LookPod => IInv'
<1> SUFFICES ASSUME IInv, LookPod
             PROVE  IInv'
  OBVIOUS
<1>1. pc = "look" /\ UNCHANGED <<kind, status, due, disk, journalVars, resource, server, bound>>
  BY DEF LookPod, At, OnDisk, targetVars
<1>2. \/ Leave /\ Fault("api")
      \/ Calm /\ \E s \in {"LOST", "FAILED", "STARTING", "RUNNING"} : Judge(s)
  BY DEF LookPod
<1>3. /\ pc' \in {"idle", "stop", "write"} /\ result' \in Over \cup Live \cup {"none"}
      /\ pc' = "idle" \/ \E s \in {"LOST", "FAILED", "STARTING", "RUNNING"} : Judge(s)
  BY <1>2, Judged DEF Leave, Turn, Over, Live
<1>4. faults' \in 0..MaxFaults
  BY <1>2, FaultsAssumption DEF IInv, TypeOK, Calm, Fault
<1>5. TypeOK'
  BY <1>1, <1>3, <1>4 DEF IInv, TypeOK, journalVars
<1>6. TargetInv' /\ JournalInv'
  BY <1>1, NothingMoves DEF IInv
<1>7. ProgressInv'
  BY <1>1, <1>3, Looked DEF journalVars
<1> QED
  BY <1>5, <1>6, <1>7 DEF IInv

LEMMA LookEndpointInv == IInv /\ LookEndpoint => IInv'
<1> SUFFICES ASSUME IInv, LookEndpoint
             PROVE  IInv'
  OBVIOUS
<1> DEFINE asked == IF Visible("endpoint") THEN Hosted ELSE {"endpoint"}
<1>1. /\ pc = "look"
      /\ UNCHANGED <<kind, status, due, disk, resource, server, bound, intents, rejected, deleted>>
  BY DEF LookEndpoint, At, InJournal, targetVars
<1>2. \/ Leave /\ Fault("api")
      \/ Calm /\ (Leave \/ \E s \in {"LOST", "FAILED", "STARTING", "RUNNING"} : Judge(s))
  BY DEF LookEndpoint
<1>3. UNCHANGED observed \/ Sees(asked)
  BY DEF LookEndpoint
<1>4. observed' \subseteq Hosted /\ \A k \in observed' : resource[k] \in {"up", "ending", "gone"}
  <2>1. asked \in SUBSET Hosted
    BY DEF Hosted
  <2>2. CASE UNCHANGED observed
    BY <2>2 DEF IInv, TypeOK, JournalInv
  <2> HIDE DEF asked
  <2> QED
    BY <1>3, <2>1, <2>2, Seeing
<1>5. /\ pc' \in {"idle", "stop", "write"} /\ result' \in Over \cup Live \cup {"none"}
      /\ pc' = "idle" \/ \E s \in {"LOST", "FAILED", "STARTING", "RUNNING"} : Judge(s)
  BY <1>2, Judged DEF Leave, Turn, Over, Live
<1>6. faults' \in 0..MaxFaults
  BY <1>2, FaultsAssumption DEF IInv, TypeOK, Calm, Fault
<1>7. TypeOK'
  BY <1>1, <1>4, <1>5, <1>6 DEF IInv, TypeOK
<1>8. TargetInv' /\ JournalInv'
  BY <1>1, <1>4 DEF IInv, TargetInv, JournalInv
<1>9. ProgressInv'
  BY <1>1, <1>5, Looked
<1> QED
  BY <1>7, <1>8, <1>9 DEF IInv

\* A playground is over when its handler has freed the target, and not before.
LEMMA WriteInv == IInv /\ Write => IInv'
<1> SUFFICES ASSUME IInv, Write
             PROVE  IInv'
  OBVIOUS
<1>1. /\ pc = "write" /\ pc' = "idle" /\ result' = "none"
      /\ UNCHANGED <<kind, due, disk, journalVars, resource, server, bound, faults>>
      /\ status' = result \/ status' = status
  BY DEF Write, Leave, Turn, targetVars
<1>2. /\ result \in Over \cup {"STARTING", "RUNNING"} /\ (result \in Over => Free)
      /\ status # "QUEUED" /\ status \notin Over
  BY <1>1 DEF IInv, ProgressInv
<1>3. TypeOK'
  BY <1>1, <1>2 DEF IInv, TypeOK, journalVars, Live
<1>4. TargetInv' /\ JournalInv'
  BY <1>1, NothingMoves DEF IInv
<1>5. ProgressInv'
  BY <1>1, <1>2 DEF ProgressInv, Over, Deploying, Placing, Free
<1> QED
  BY <1>3, <1>4, <1>5 DEF IInv

-----------------------------------------------------------------------------
(* stop().                                                                 *)

\* Nothing is late on Kubernetes: what is not visible is not there.
LEMMA AbsentIsFree ==
  ASSUME IInv, kind = "kubernetes", \A i \in 1..3 : ~Visible(Manifests[i])
  PROVE  Free
<1> SUFFICES ASSUME NEW k \in Resources
             PROVE  resource[k] \notin Exists
  BY DEF Free
<1>1. CASE k \in AtSageMaker
  BY <1>1 DEF IInv, TargetInv, Exists
<1>2. CASE k \notin AtSageMaker
  <2>1. PICK i \in 1..3 : Manifests[i] = k
    BY <1>2, InOrder
  <2> QED
    BY <2>1 DEF IInv, TargetInv, Visible, Exists
<1> QED
  BY <1>1, <1>2

\* Without a journal nothing was ever created.
LEMMA UnjournaledIsFree ==
  ASSUME IInv, "journal" \notin disk
  PROVE  Free
BY DEF IInv, JournalInv, Free

LEMMA StopUnknownInv == IInv /\ StopUnknown => IInv'
<1> SUFFICES ASSUME IInv, StopUnknown
             PROVE  IInv'
  OBVIOUS
<1>1. /\ pc = "stop" /\ UNCHANGED <<kind, status, due, disk, journalVars, resource, server, bound>>
      /\ Free
  BY UnjournaledIsFree DEF StopUnknown, At, OnDisk, targetVars
<1>2. (pc' = "idle" /\ result' = "none") \/ (pc' = "write" /\ result' = result)
  BY DEF StopUnknown, Leave, Goto, Turn
<1>3. faults' \in 0..MaxFaults
  BY FaultsAssumption DEF IInv, TypeOK, StopUnknown, Calm, Fault
<1>4. TypeOK'
  BY <1>1, <1>2, <1>3 DEF IInv, TypeOK, journalVars
<1>5. TargetInv' /\ JournalInv'
  BY <1>1, NothingMoves DEF IInv
<1>6. ProgressInv'
  BY <1>1, <1>2 DEF IInv, ProgressInv, Free, Deploying, Placing
<1> QED
  BY <1>4, <1>5, <1>6 DEF IInv

\* The files go when the last resource was seen gone.
LEMMA DeleteResourcesInv == IInv /\ DeleteResources => IInv'
<1> SUFFICES ASSUME IInv, DeleteResources
             PROVE  IInv'
  OBVIOUS
<1>1. /\ pc = "stop" /\ kind = "kubernetes"
      /\ UNCHANGED <<kind, status, due, disk, journalVars, bound, server>>
      /\ status # "QUEUED" /\ status \notin Over /\ result \in Over
  BY DEF IInv, DeleteResources, At, AtTarget, ProgressInv
<1>2. faults' \in 0..MaxFaults
  BY FaultsAssumption DEF IInv, TypeOK, DeleteResources, Calm, Fault
<1>3. CASE /\ \A i \in 1..3 : ~Visible(Manifests[i])
           /\ Goto("rmtree") /\ UNCHANGED resource
  <2>1. pc' = "rmtree" /\ result' = result /\ resource' = resource /\ Free
    BY <1>1, <1>3, AbsentIsFree DEF Goto
  <2>2. TypeOK'
    BY <1>1, <1>2, <2>1 DEF IInv, TypeOK, journalVars
  <2>3. TargetInv' /\ JournalInv'
    BY <1>1, <2>1, NothingMoves DEF IInv
  <2>4. ProgressInv'
    BY <1>1, <2>1 DEF ProgressInv, Free, Deploying, Placing
  <2> QED
    BY <2>2, <2>3, <2>4 DEF IInv
<1>4. CASE \E i \in 1..3 :
             LET k == Manifests[i] IN
             /\ Visible(k)
             /\ Becomes(k, "ending") \/ UNCHANGED resource
             /\ Leave \/ UNCHANGED procVars
  <2>1. PICK i \in 1..3 :
          /\ Visible(Manifests[i])
          /\ Becomes(Manifests[i], "ending") \/ UNCHANGED resource
          /\ Leave \/ UNCHANGED procVars
    BY <1>4
  <2>2. Manifests[i] \in Resources
    BY InOrder
  <2>3. (pc' = "idle" /\ result' = "none") \/ (pc' = pc /\ result' = result)
    BY <2>1 DEF Leave, Turn, procVars
  <2>4. /\ resource' \in [Resources -> Exists \cup {"none", "gone"}]
        /\ \A k \in Resources :
             \/ resource'[k] = resource[k]
             \/ resource[k] \in {"up", "ending"} /\ resource'[k] = "ending"
    BY <2>1, <2>2 DEF IInv, TypeOK, Becomes, Visible, Exists
  <2>5. TypeOK'
    BY <1>1, <1>2, <2>3, <2>4 DEF IInv, TypeOK, journalVars
  <2>6. TargetInv' /\ JournalInv'
    <3>1. observed \subseteq Resources /\ rejected \subseteq Resources
      BY InOrder DEF IInv, TypeOK
    <3> QED
      BY <1>1, <2>4, <3>1, TargetMoves DEF IInv
  <2>7. ProgressInv'
    BY <1>1, <2>3 DEF ProgressInv, Deploying, Placing
  <2> QED
    BY <2>5, <2>6, <2>7 DEF IInv
<1> QED
  BY <1>3, <1>4 DEF DeleteResources

LEMMA RemoveWorkspaceInv == IInv /\ RemoveWorkspace => IInv'
<1> SUFFICES ASSUME IInv, RemoveWorkspace
             PROVE  IInv'
  OBVIOUS
<1>1. /\ pc = "rmtree" /\ disk' = {} /\ bound' = FALSE /\ pc' = "write" /\ result' = result
      /\ UNCHANGED <<kind, status, due, journalVars, resource, server, faults>>
  BY DEF RemoveWorkspace, At, Goto, Calm, targetVars
<1>2. Free /\ result \in Over /\ status # "QUEUED" /\ status \notin Over
  BY <1>1 DEF IInv, ProgressInv
<1>3. TypeOK'
  BY <1>1 DEF IInv, TypeOK, journalVars
<1>4. TargetInv' /\ JournalInv'
  BY <1>1, <1>2 DEF IInv, TargetInv, JournalInv, journalVars, Free
<1>5. ProgressInv'
  BY <1>1, <1>2 DEF ProgressInv, Free, Deploying, Placing
<1> QED
  BY <1>3, <1>4, <1>5 DEF IInv

LEMMA StopUnjournaledInv == IInv /\ StopUnjournaled => IInv'
<1> SUFFICES ASSUME IInv, StopUnjournaled
             PROVE  IInv'
  OBVIOUS
<1>1. /\ pc = "stop" /\ UNCHANGED <<kind, status, due, journalVars, resource, server, bound>>
      /\ Free /\ disk' \subseteq disk
  BY UnjournaledIsFree DEF StopUnjournaled, At, OnDisk, targetVars
<1>2. (pc' = "idle" /\ result' = "none") \/ (pc' = "write" /\ result' = result)
  BY DEF StopUnjournaled, Leave, Goto, Turn
<1>3. faults' \in 0..MaxFaults
  BY FaultsAssumption DEF IInv, TypeOK, StopUnjournaled, Calm, Fault
<1>4. TypeOK'
  BY <1>1, <1>2, <1>3 DEF IInv, TypeOK, journalVars
<1>5. TargetInv' /\ JournalInv'
  BY <1>1 DEF IInv, TargetInv, JournalInv, journalVars, Free
<1>6. ProgressInv'
  BY <1>1, <1>2 DEF IInv, ProgressInv, Free, Deploying, Placing
<1> QED
  BY <1>4, <1>5, <1>6 DEF IInv

\* A resource is recorded as deleted when it was seen before and is not seen any more, or
\* when its creation was refused: it does not exist and never will.
LEMMA DeletedIsGone ==
  ASSUME IInv, NEW k \in intents, ~Uncertain(k), ~Visible(k)
  PROVE  resource[k] \notin Exists
BY DEF IInv, TypeOK, JournalInv, Uncertain, Visible, Exists

LEMMA DeleteHostedInv == IInv /\ DeleteHosted => IInv'
<1> SUFFICES ASSUME IInv, DeleteHosted
             PROVE  IInv'
  OBVIOUS
<1>1. /\ pc = "stop" /\ kind = "sagemaker" /\ "journal" \in disk
      /\ UNCHANGED <<kind, status, due, disk, bound, intents, rejected, server>>
      /\ status # "QUEUED" /\ status \notin Over /\ result \in Over
  BY DEF IInv, DeleteHosted, At, ProgressInv
<1>2. faults' \in 0..MaxFaults
  BY FaultsAssumption DEF IInv, TypeOK, DeleteHosted, Calm, Fault
<1>3. \A k \in Hosted : k \in Resources
  BY InOrder
<1>4. CASE Stopping = {} /\ Goto("empty") /\ UNCHANGED <<resource, observed, deleted>>
  <2>1. pc' = "empty" /\ result' = result
    BY <1>4 DEF Goto
  <2>2. \A k \in Hosted : resource[k] \notin Exists
    BY <1>3, <1>4 DEF IInv, JournalInv, Stopping
  <2>3. TypeOK'
    BY <1>1, <1>2, <1>4, <2>1 DEF IInv, TypeOK
  <2>4. TargetInv' /\ JournalInv'
    BY <1>1, <1>4 DEF IInv, TargetInv, JournalInv
  <2>5. ProgressInv'
    BY <1>1, <1>4, <2>1, <2>2 DEF ProgressInv, Deploying, Placing
  <2> QED
    BY <2>3, <2>4, <2>5 DEF IInv
<1>5. CASE Leave /\ UNCHANGED <<resource, observed, deleted>>
  <2>1. pc' = "idle" /\ result' = "none"
    BY <1>5 DEF Leave, Turn
  <2>2. TypeOK'
    BY <1>1, <1>2, <1>5, <2>1 DEF IInv, TypeOK
  <2>3. TargetInv' /\ JournalInv'
    BY <1>1, <1>5 DEF IInv, TargetInv, JournalInv
  <2>4. ProgressInv'
    BY <1>1, <2>1 DEF ProgressInv, Deploying, Placing
  <2> QED
    BY <2>2, <2>3, <2>4 DEF IInv
<1>6. CASE \E k \in Stopping :
             /\ ~Uncertain(k) /\ ~Visible(k) /\ deleted' = deleted \cup {k}
             /\ UNCHANGED <<procVars, resource, observed>>
  <2>1. PICK k \in Stopping :
          /\ ~Uncertain(k) /\ ~Visible(k) /\ deleted' = deleted \cup {k}
          /\ UNCHANGED <<pc, result, resource, observed>>
    BY <1>6 DEF procVars
  <2>2. k \in Hosted /\ resource[k] \notin Exists
    BY <2>1, DeletedIsGone DEF Stopping, IInv, TypeOK
  <2>3. TypeOK'
    BY <1>1, <1>2, <2>1, <2>2 DEF IInv, TypeOK
  <2>4. TargetInv' /\ JournalInv'
    BY <1>1, <2>1, <2>2 DEF IInv, TargetInv, JournalInv
  <2>5. ProgressInv'
    BY <1>1, <2>1 DEF ProgressInv, Deploying, Placing
  <2> QED
    BY <2>3, <2>4, <2>5 DEF IInv
<1>7. CASE \E k \in Stopping :
             /\ (resource[k] \in {"up", "ending"} /\ Becomes(k, "ending")) \/ UNCHANGED resource
             /\ Sees({k}) /\ UNCHANGED deleted /\ (Leave \/ UNCHANGED procVars)
  <2>1. PICK k \in Stopping :
          /\ (resource[k] \in {"up", "ending"} /\ Becomes(k, "ending")) \/ UNCHANGED resource
          /\ Sees({k}) /\ UNCHANGED deleted /\ (Leave \/ UNCHANGED procVars)
    BY <1>7
  <2>2. (pc' = "idle" /\ result' = "none") \/ (pc' = pc /\ result' = result)
    BY <2>1 DEF Leave, Turn, procVars
  <2>3. k \in Hosted /\ k \in Resources
    BY <1>3 DEF IInv, TypeOK, Stopping
  <2>4. /\ resource' \in [Resources -> Exists \cup {"none", "gone"}]
        /\ \A j \in Resources :
             \/ resource'[j] = resource[j]
             \/ j = k /\ resource[j] \in {"up", "ending"} /\ resource'[j] = "ending"
    BY <2>1, <2>3 DEF IInv, TypeOK, Becomes, Exists
  <2>5. observed' \subseteq Hosted /\ \A j \in observed' : resource[j] \in {"up", "ending", "gone"}
    BY <2>1, <2>3, Seeing
  <2>6. TypeOK'
    BY <1>1, <1>2, <2>1, <2>2, <2>4, <2>5 DEF IInv, TypeOK
  <2>7. TargetInv'
    BY <1>1, <2>3, <2>4 DEF IInv, TargetInv, AtSageMaker
  <2>8. JournalInv'
    <3>1. \A j \in Resources : resource'[j] \in Exists => resource[j] \in Exists
      BY <2>4 DEF Exists
    <3>2. \A j \in observed' : resource'[j] \in {"up", "ending", "gone"}
      BY <1>3, <2>4, <2>5
    <3>3. \A j \in rejected : resource'[j] = "none"
      BY <1>3, <2>4 DEF IInv, TypeOK, JournalInv
    <3> QED
      BY <1>1, <2>1, <3>1, <3>2, <3>3 DEF IInv, JournalInv
  <2>9. ProgressInv'
    BY <1>1, <2>2 DEF ProgressInv, Deploying, Placing
  <2> QED
    BY <2>6, <2>7, <2>8, <2>9 DEF IInv
<1>8. \/ Stopping = {} /\ Goto("empty") /\ UNCHANGED <<resource, observed, deleted>>
      \/ Leave /\ UNCHANGED <<resource, observed, deleted>>
      \/ \E k \in Stopping :
           \/ /\ ~Uncertain(k) /\ ~Visible(k) /\ deleted' = deleted \cup {k}
              /\ UNCHANGED <<procVars, resource, observed>>
           \/ /\ (resource[k] \in {"up", "ending"} /\ Becomes(k, "ending")) \/ UNCHANGED resource
              /\ Sees({k}) /\ UNCHANGED deleted /\ (Leave \/ UNCHANGED procVars)
  BY DEF DeleteHosted
<1> QED
  BY <1>4, <1>5, <1>6, <1>7, <1>8

LEMMA EmptyBucketInv == IInv /\ EmptyBucket => IInv'
<1> SUFFICES ASSUME IInv, EmptyBucket
             PROVE  IInv'
  OBVIOUS
<1>1. /\ pc = "empty" /\ kind = "sagemaker"
      /\ UNCHANGED <<kind, status, due, journalVars, bound, server>>
      /\ status # "QUEUED" /\ status \notin Over /\ result \in Over
      /\ \A k \in Hosted : resource[k] \notin Exists
  BY DEF IInv, EmptyBucket, At, ProgressInv
<1>2. faults' \in 0..MaxFaults
  BY FaultsAssumption DEF IInv, TypeOK, EmptyBucket, Calm, Fault
<1>3. CASE Becomes("object", "gone") /\ disk' = disk \ {"model"} /\ Goto("write")
  <2>1. pc' = "write" /\ result' = result
    BY <1>3 DEF Goto
  <2>2. /\ resource' \in [Resources -> Exists \cup {"none", "gone"}]
        /\ resource'["object"] = "gone" /\ \A k \in Resources \ {"object"} : resource'[k] = resource[k]
    BY <1>3 DEF IInv, TypeOK, Becomes, Resources
  <2>3. TypeOK'
    BY <1>1, <1>2, <1>3, <2>1, <2>2 DEF IInv, TypeOK, journalVars
  <2>4. TargetInv'
    BY <1>1, <2>2 DEF IInv, TargetInv, AtSageMaker
  <2>5. Free'
    BY <1>1, <2>2, <2>4 DEF Free, Exists, TargetInv, AtSageMaker
  <2>6. JournalInv'
    BY <1>1, <2>2, <2>5, InOrder DEF IInv, TypeOK, JournalInv, Free, journalVars, Hosted
  <2>7. ProgressInv'
    BY <1>1, <2>1, <2>5 DEF ProgressInv, Deploying, Placing
  <2> QED
    BY <2>3, <2>4, <2>6, <2>7 DEF IInv
<1>4. CASE Leave /\ UNCHANGED <<resource, disk>>
  <2>1. pc' = "idle" /\ result' = "none"
    BY <1>4 DEF Leave, Turn
  <2>2. TypeOK'
    BY <1>1, <1>2, <1>4, <2>1 DEF IInv, TypeOK, journalVars
  <2>3. TargetInv' /\ JournalInv'
    BY <1>1, <1>4, NothingMoves DEF IInv
  <2>4. ProgressInv'
    BY <1>1, <2>1 DEF ProgressInv, Deploying, Placing
  <2> QED
    BY <2>2, <2>3, <2>4 DEF IInv
<1> QED
  BY <1>3, <1>4 DEF EmptyBucket

-----------------------------------------------------------------------------
(* The target, and crashes.                                                *)

\* The target never makes more than there is.
LEMMA TargetKeeps ==
  ASSUME IInv, Unmoved, Calm, server' \in {"none", "init", "starting", "ready", "failed", "other"},
         NEW k \in Resources,
         \/ resource[k] = "coming" /\ Becomes(k, "up")
         \/ resource[k] = "ending" /\ Becomes(k, "gone")
  PROVE  IInv'
<1>1. UNCHANGED <<kind, status, due, disk, intents, observed, rejected, deleted, bound, pc,
                  result, faults>>
  BY DEF Unmoved, Calm, journalVars, procVars
<1>2. /\ resource' \in [Resources -> Exists \cup {"none", "gone"}]
      /\ \A j \in Resources :
           \/ resource'[j] = resource[j]
           \/ resource[j] = "coming" /\ resource'[j] = "up"
           \/ resource[j] \in {"up", "ending"} /\ resource'[j] \in {"ending", "gone"}
  BY DEF IInv, TypeOK, Becomes, Exists
<1>3. \A j \in Resources : resource[j] \notin Exists => resource'[j] \notin Exists
  BY <1>2 DEF Exists
<1>4. TypeOK'
  BY <1>1, <1>2 DEF IInv, TypeOK
<1>5. TargetInv' /\ JournalInv'
  <2>1. /\ observed \subseteq Resources /\ rejected \subseteq Resources
        /\ UNCHANGED <<kind, journalVars, disk>>
    BY <1>1, InOrder DEF IInv, TypeOK, journalVars
  <2> QED
    BY <1>2, <2>1, TargetMoves DEF IInv
<1>6. ProgressInv'
  BY <1>1, <1>3, InOrder DEF IInv, ProgressInv, Free
<1> QED
  BY <1>4, <1>5, <1>6 DEF IInv

LEMMA TargetStepInv == IInv /\ (Appears \/ Goes) => IInv'
<1>1. ASSUME IInv, Appears
      PROVE  IInv'
  <2>1. PICK k \in Hosted : resource[k] = "coming" /\ Becomes(k, "up")
    BY <1>1 DEF Appears
  <2>2. /\ Unmoved /\ Calm
        /\ server' \in {"none", "init", "starting", "ready", "failed", "other"}
    BY <1>1 DEF Appears, IInv, TypeOK
  <2>3. k \in Resources
    BY InOrder
  <2> QED
    BY <1>1, <2>1, <2>2, <2>3, TargetKeeps
<1>2. ASSUME IInv, Goes
      PROVE  IInv'
  <2>1. PICK k \in Resources : resource[k] = "ending" /\ Becomes(k, "gone")
    BY <1>2 DEF Goes
  <2>2. /\ Unmoved /\ Calm
        /\ server' \in {"none", "init", "starting", "ready", "failed", "other"}
    BY <1>2 DEF Goes, IInv, TypeOK
  <2> QED
    BY <1>2, <2>1, <2>2, TargetKeeps
<1> QED
  BY <1>1, <1>2

\* Servers start, fail and are replaced.
LEMMA ServerInv == IInv /\ (PodStarts \/ EndpointServes \/ ServerFails \/ PodIsReplaced) => IInv'
<1> SUFFICES ASSUME IInv, PodStarts \/ EndpointServes \/ ServerFails \/ PodIsReplaced
             PROVE  IInv'
  OBVIOUS
<1>1. UNCHANGED <<kind, status, due, disk, journalVars, resource, bound, pc, result>>
  BY DEF PodStarts, EndpointServes, ServerFails, PodIsReplaced, Unmoved, procVars
<1>2. server' \in {"init", "ready", "failed", "other"}
  BY DEF PodStarts, EndpointServes, ServerFails, PodIsReplaced
<1>3. faults' \in 0..MaxFaults
  BY FaultsAssumption
     DEF IInv, TypeOK, PodStarts, EndpointServes, ServerFails, PodIsReplaced, Calm, Fault
<1>4. TypeOK'
  BY <1>1, <1>2, <1>3 DEF IInv, TypeOK, journalVars
<1>5. TargetInv' /\ JournalInv'
  BY <1>1, NothingMoves DEF IInv
<1>6. ProgressInv'
  BY <1>1 DEF IInv, ProgressInv, Free, journalVars
<1> QED
  BY <1>4, <1>5, <1>6 DEF IInv

LEMMA CrashInv == IInv /\ Crash => IInv'
<1> SUFFICES ASSUME IInv, Crash
             PROVE  IInv'
  OBVIOUS
<1>1. /\ UNCHANGED <<kind, status, due, disk, journalVars, resource, server, bound>>
      /\ pc # "idle" /\ pc' = "idle" /\ result' = "none"
  BY DEF Crash, Leave, Turn, targetVars
<1>2. faults' \in 0..MaxFaults
  BY FaultsAssumption DEF IInv, TypeOK, Crash, Fault
<1>3. TypeOK'
  BY <1>1, <1>2 DEF IInv, TypeOK, journalVars
<1>4. TargetInv' /\ JournalInv'
  BY <1>1, NothingMoves DEF IInv
<1>5. ProgressInv'
  BY <1>1 DEF IInv, ProgressInv, Deploying, Placing
<1> QED
  BY <1>3, <1>4, <1>5 DEF IInv

-----------------------------------------------------------------------------
(* The theorems.                                                           *)

LEMMA InitInv == Init => IInv
<1> SUFFICES ASSUME Init
             PROVE  IInv
  OBVIOUS
<1>1. TypeOK
  <2>1. faults \in 0..MaxFaults
    BY FaultsAssumption DEF Init
  <2>2. resource \in [Resources -> Exists \cup {"none", "gone"}]
    BY DEF Init
  <2>3. status \in Over \cup Live \cup {"STOP_REQUESTED"}
    BY DEF Init, Live
  <2>4. intents \cup observed \cup rejected \cup deleted \subseteq Hosted
    BY DEF Init
  <2> QED
    BY <2>1, <2>2, <2>3, <2>4 DEF Init, TypeOK
<1>2. TargetInv
  BY InOrder DEF Init, TargetInv
<1>3. JournalInv
  BY DEF Init, JournalInv, Exists
<1>4. ProgressInv
  BY DEF Init, ProgressInv, Over, Deploying, Placing
<1> QED
  BY <1>1, <1>2, <1>3, <1>4 DEF IInv

LEMMA StutterInv == IInv /\ UNCHANGED vars => IInv'
<1> SUFFICES ASSUME IInv, UNCHANGED vars
             PROVE  IInv'
  OBVIOUS
<1>1. UNCHANGED <<kind, status, due, disk, intents, observed, rejected, deleted, resource,
                  server, bound, pc, result, faults>>
  BY DEF vars, journalVars, targetVars, procVars
<1>2. TypeOK' /\ TargetInv' /\ JournalInv'
  BY <1>1 DEF IInv, TypeOK, TargetInv, JournalInv
<1>3. ProgressInv'
  BY <1>1 DEF IInv, ProgressInv, Free
<1> QED
  BY <1>2, <1>3 DEF IInv

LEMMA HandlerInv == IInv /\ Handler => IInv'
BY MakeWorkspaceInv, SaveLaunchInv, MaterializeInv, ArchiveInv, SaveJournalInv, UploadArchiveInv,
   CreateResourceInv, SaveIntentInv, RequestHostedInv, AwaitPodInv, BindPodInv, CopyModelInv,
   LookPodInv, LookEndpointInv, WriteInv, StopUnknownInv, DeleteResourcesInv, RemoveWorkspaceInv,
   StopUnjournaledInv, DeleteHostedInv, EmptyBucketInv DEF Handler

LEMMA NextInv == IInv /\ [Next]_vars => IInv'
BY StopInv, ExpireInv, TakeInv, HandlerInv, TargetStepInv, ServerInv, CrashInv, StutterInv
   DEF Next, Target

\* The invariant the other theorems follow from: the journal accounts for what exists or
\* may still come, and the handler goes on only from what it has seen.
THEOREM Invariance == Spec => []IInv
BY InitInv, NextInv, PTL DEF Spec

\* A playground's row is over only when nothing of it exists or may still appear at its
\* target: stop() sees each resource gone, and never takes a late one for absent.
THEOREM StaysConsistent == Spec => []Consistent
<1>1. IInv => Consistent
  BY DEF IInv, ProgressInv, Free, Consistent, OverIsFree, Left
<1> QED
  BY <1>1, Invariance, PTL

\* Whatever was created can be found by the next process: the launch identity or the
\* journal is written first, and an intent is closed last.
THEOREM NothingOrphaned == Spec => []NothingIsOrphaned
<1>1. IInv => NothingIsOrphaned
  BY DEF IInv, JournalInv, NothingIsOrphaned, Left
<1> QED
  BY <1>1, Invariance, PTL

-----------------------------------------------------------------------------
(* The contract of playgrounds.  RemoteServing does not remember what has  *)
(* existed at its target, so that is added here.                           *)

VARIABLE launched  \* something of the playground has existed at its target

histVars == <<vars, launched>>

Counts == launched' = (launched \/ Left' # {})
Continue == Next /\ Counts

HistorySpec == Init /\ launched = FALSE /\ [][Continue]_histVars

Contract == INSTANCE ServingContract WITH
  Playgrounds <- {"playground"},
  status <- [d \in {"playground"} |-> status],
  due <- {d \in {"playground"} : due},
  held <- {d \in {"playground"} : Left # {}},
  launched <- {d \in {"playground"} : launched}

\* The rows in which a handler that is about to write s can find a playground, although
\* it may be asked to stop at any time.
From(s) ==
  IF s = "STOPPED" THEN {"STOP_REQUESTED"}
  ELSE IF s = "LOST" THEN {"STARTING", "RUNNING", "STOP_REQUESTED"}
  ELSE {"PREPARING", "STARTING", "RUNNING", "STOP_REQUESTED"}

Removing == {"stop", "empty", "rmtree", "write"}

RowInv ==
  /\ pc \in Deploying => status \in {"PREPARING", "STOP_REQUESTED"}
  /\ pc = "look" => /\ result \in {"PREPARING", "STARTING", "RUNNING"}
                    /\ status \in {result, "STOP_REQUESTED"}
  /\ pc \in Removing => status \in From(result)

\* A launch creates what did not exist, and nothing ends before it is over.
LaunchInv ==
  /\ launched \in BOOLEAN
  /\ launched => status # "QUEUED"
  /\ Left # {} => launched
  /\ pc \in Deploying => \A k \in Resources : resource[k] \in {"none", "coming", "up"}
  /\ status = "QUEUED" => \A k \in Resources : resource[k] = "none"
  /\ pc \in Deploying /\ launched => Left # {}
  /\ pc = "mkdir" => ~launched
  /\ pc \in {"await", "bind", "copy"} => launched
  /\ pc = "write" /\ result \in {"STARTING", "RUNNING"} => launched

\* The web and the scans.
LEMMA RowAtWeb == ASSUME IInv, RowInv, LaunchInv, Counts, Stop \/ Expire \/ Take
                  PROVE  RowInv' /\ LaunchInv'
<1>1. UNCHANGED resource /\ Left' = Left /\ launched' = launched
  BY DEF Stop, Expire, Take, targetVars, Left, Counts, LaunchInv
<1>2. CASE Stop
  <2>1. UNCHANGED <<pc, result>> /\ status \in Live /\ status' = "STOP_REQUESTED"
    BY <1>2 DEF Stop, procVars
  <2> QED
    BY <1>1, <2>1 DEF RowInv, LaunchInv, From, Live, Removing
<1>3. CASE Expire
  BY <1>1, <1>3 DEF Expire, procVars, RowInv, LaunchInv
<1>4. CASE Take
  <2>1. CASE pc' = "stop"
    BY <1>1, <1>4, <2>1 DEF Take, Turn, RowInv, LaunchInv, From, Live, Removing, Deploying
  <2>2. CASE pc' = "mkdir"
    BY <1>1, <1>4, <2>2 DEF Take, Turn, Stops, RowInv, LaunchInv, Live, Removing, Deploying
  <2>3. CASE pc' = "look"
    BY <1>1, <1>4, <2>3 DEF Take, Turn, Stops, RowInv, LaunchInv, Live, Removing, Deploying
  <2> QED
    BY <1>4, <2>1, <2>2, <2>3 DEF Take, Turn, Stops
<1> QED
  BY <1>2, <1>3, <1>4

\* The steps of deploy() and stop() that leave the target alone: they go on, or leave.
LEMMA RowGoesOn ==
  ASSUME IInv, RowInv, LaunchInv, Counts, UNCHANGED <<status, resource>>,
         \/ /\ pc \in Deploying /\ pc' \in Deploying \ {"mkdir"}
            /\ pc' \in {"await", "bind", "copy"} => pc \in {"await", "bind"}
         \/ pc \in Deploying /\ pc' = "stop" /\ result' = "FAILED"
         \/ pc \in Removing /\ pc' \in Removing /\ result' = result /\ result \in Over
         \/ pc' = "idle"
  PROVE  RowInv' /\ LaunchInv'
<1>1. Left' = Left /\ launched' = launched
  BY DEF Left, Counts, LaunchInv
<1> QED
  BY <1>1 DEF RowInv, LaunchInv, From, Removing, Deploying, Over

\* The steps of deploy() that create something.
LEMMA RowAtCreation ==
  ASSUME IInv, RowInv, LaunchInv, Counts, UNCHANGED status, pc \in Deploying,
         NEW k \in Resources, Becomes(k, "up") \/ Becomes(k, "coming"),
         \/ pc' \in Deploying \ {"mkdir"}
         \/ pc' = "stop" /\ result' = "FAILED"
         \/ pc' = "write" /\ result' = "STARTING"
  PROVE  RowInv' /\ LaunchInv'
<1>1. /\ \A j \in Resources : resource'[j] = IF j = k THEN resource'[k] ELSE resource[j]
      /\ resource'[k] \in {"up", "coming"}
  BY DEF Becomes, IInv, TypeOK
<1>2. k \in Left'
  BY <1>1 DEF Left, Exists
<1>3. launched' = TRUE
  BY <1>2 DEF Counts
<1>4. RowInv'
  BY DEF RowInv, From, Removing, Deploying
<1>5. status # "QUEUED"
  BY DEF RowInv
<1>6. \A j \in Resources : resource'[j] \in {"none", "coming", "up"}
  BY <1>1 DEF LaunchInv
<1>7. LaunchInv'
  BY <1>2, <1>3, <1>5, <1>6 DEF LaunchInv, Deploying
<1> QED
  BY <1>4, <1>7

\* The steps of stop() that delete something, and what the target does by itself.
LEMMA RowAtChange ==
  ASSUME IInv, RowInv, LaunchInv, Counts, UNCHANGED status,
         NEW k \in Resources, NEW s \in {"up", "ending", "gone"}, Becomes(k, s),
         s # "gone" => resource[k] \in Exists,
         \/ pc \in Removing /\ pc' = "idle"
         \/ pc \in Removing /\ pc' \in Removing /\ result' = result /\ result \in Over
         \/ UNCHANGED procVars /\ resource[k] = "coming" /\ s = "up"
         \/ UNCHANGED procVars /\ resource[k] = "ending"
  PROVE  RowInv' /\ LaunchInv'
<1>1. \A j \in Resources : resource'[j] = IF j = k THEN s ELSE resource[j]
  BY DEF Becomes, IInv, TypeOK
<1>2. Left' \subseteq Left
  BY <1>1 DEF Left, Exists
<1>3. launched' = launched
  BY <1>2 DEF Counts, LaunchInv
<1>4. RowInv'
  BY DEF RowInv, Removing, Deploying, procVars
<1>5. status # "QUEUED"
  BY DEF RowInv, LaunchInv, Removing, From
<1>6. CASE pc \in Removing
  BY <1>2, <1>3, <1>4, <1>5, <1>6 DEF LaunchInv, Removing, Deploying, procVars, Over
<1>7. CASE UNCHANGED procVars /\ resource[k] = "coming" /\ s = "up"
  <2>1. k \in Left'
    BY <1>1, <1>7 DEF Left, Exists
  <2>2. pc \in Deploying => \A j \in Resources : resource'[j] \in {"none", "coming", "up"}
    BY <1>1, <1>7 DEF LaunchInv
  <2> QED
    BY <1>2, <1>3, <1>4, <1>5, <1>7, <2>1, <2>2 DEF LaunchInv, procVars
<1>8. CASE UNCHANGED procVars /\ resource[k] = "ending"
  <2>1. pc \notin Deploying
    BY <1>8 DEF LaunchInv
  <2> QED
    BY <1>2, <1>3, <1>4, <1>5, <1>8, <2>1 DEF LaunchInv, procVars, Deploying
<1> QED
  BY <1>6, <1>7, <1>8

\* deploy().
LEMMA RowAtDeploy ==
  ASSUME IInv, RowInv, LaunchInv, Counts,
         \/ MakeWorkspace \/ SaveLaunch \/ Materialize \/ Archive \/ SaveJournal
         \/ UploadArchive \/ CreateResource \/ SaveIntent \/ RequestHosted
         \/ AwaitPod \/ BindPod
  PROVE  RowInv' /\ LaunchInv'
<1>1. CASE MakeWorkspace \/ SaveLaunch \/ Materialize \/ Archive \/ SaveJournal \/ AwaitPod \/ BindPod
  BY <1>1, RowGoesOn
     DEF MakeWorkspace, SaveLaunch, Materialize, Archive, SaveJournal, AwaitPod, BindPod,
         OnDisk, targetVars, At, Goto, Turn, Abort, Deploying
<1>2. CASE SaveIntent
  BY <1>2, RowGoesOn DEF SaveIntent, InJournal, targetVars, At, Goto, Turn, Abort, Deploying
<1>3. CASE UploadArchive
  <2>1. "object" \in Resources /\ UNCHANGED status /\ pc \in Deploying
    BY <1>3 DEF UploadArchive, AtTarget, At, Resources, Deploying
  <2>2. \/ pc' \in Deploying \ {"mkdir"}
        \/ pc' = "stop" /\ result' = "FAILED"
    BY <1>3 DEF UploadArchive, Goto, Turn, Abort, Deploying
  <2>3. CASE UNCHANGED resource /\ Abort
    BY <2>1, <2>3, RowGoesOn DEF Abort, Turn
  <2>4. CASE Becomes("object", "up")
    BY <2>1, <2>2, <2>4, RowAtCreation
  <2> QED
    BY <1>3, <2>3, <2>4 DEF UploadArchive
<1>4. CASE CreateResource
  <2>1. UNCHANGED status /\ pc \in Deploying
    BY <1>4 DEF CreateResource, AtTarget, At, Deploying
  <2>2. \/ pc' \in Deploying \ {"mkdir"}
        \/ pc' = "stop" /\ result' = "FAILED"
    BY <1>4 DEF CreateResource, Goto, Turn, Abort, Deploying
  <2>3. (UNCHANGED resource /\ Abort) \/ \E k \in Resources : Becomes(k, "up")
    BY <1>4, InOrder DEF CreateResource
  <2> QED
    BY <2>1, <2>2, <2>3, RowGoesOn, RowAtCreation DEF Abort, Turn
<1>5. CASE RequestHosted
  <2>1. UNCHANGED status /\ pc \in Deploying
    BY <1>5 DEF RequestHosted, At, Deploying
  <2>2. PICK k \in intents :
          \/ Becomes(k, "coming") /\ (IF k = "endpoint" THEN Writes("STARTING") ELSE Goto("create"))
          \/ Becomes(k, "coming") /\ Abort
          \/ Abort /\ UNCHANGED resource
    BY <1>5 DEF RequestHosted
  <2>3. k \in Resources
    BY InOrder DEF IInv, TypeOK
  <2>4. CASE Becomes(k, "coming")
    <3>1. \/ pc' \in Deploying \ {"mkdir"}
          \/ pc' = "stop" /\ result' = "FAILED"
          \/ pc' = "write" /\ result' = "STARTING"
      BY <2>2 DEF Writes, Goto, Turn, Abort, Deploying
    <3> QED
      BY <2>1, <2>3, <2>4, <3>1, RowAtCreation
  <2>5. CASE Abort /\ UNCHANGED resource
    BY <2>1, <2>5, RowGoesOn DEF Turn, Abort
  <2> QED
    BY <2>2, <2>4, <2>5
<1> QED
  BY <1>1, <1>2, <1>3, <1>4, <1>5

\* What a step of stop() changes at the target.
LEMMA DeletionIs ==
  ASSUME IInv,
         \/ StopUnknown \/ DeleteResources \/ RemoveWorkspace
         \/ StopUnjournaled \/ DeleteHosted \/ EmptyBucket
  PROVE  \/ UNCHANGED resource
         \/ \E k \in Resources : resource[k] \in {"up", "ending"} /\ Becomes(k, "ending")
         \/ Becomes("object", "gone")
<1>1. CASE DeleteResources
  BY <1>1, InOrder DEF DeleteResources, Visible
<1>2. CASE DeleteHosted
  BY <1>2, InOrder DEF DeleteHosted
<1> QED
  BY <1>1, <1>2 DEF StopUnknown, RemoveWorkspace, StopUnjournaled, EmptyBucket, OnDisk, targetVars

LEMMA RowAtStop ==
  ASSUME IInv, RowInv, LaunchInv, Counts,
         \/ StopUnknown \/ DeleteResources \/ RemoveWorkspace
         \/ StopUnjournaled \/ DeleteHosted \/ EmptyBucket
  PROVE  RowInv' /\ LaunchInv'
<1>1. UNCHANGED status /\ pc \in Removing /\ result \in Over
  BY DEF StopUnknown, DeleteResources, RemoveWorkspace, StopUnjournaled, DeleteHosted, EmptyBucket,
         OnDisk, AtTarget, At, Removing, IInv, ProgressInv
<1>2. \/ pc' = "idle"
      \/ pc' \in Removing /\ result' = result
  BY DEF StopUnknown, DeleteResources, RemoveWorkspace, StopUnjournaled, DeleteHosted, EmptyBucket,
         At, Goto, Turn, Leave, procVars, Removing
<1>3. CASE UNCHANGED resource
  BY <1>1, <1>2, <1>3, RowGoesOn
<1>4. CASE \E k \in Resources : resource[k] \in {"up", "ending"} /\ Becomes(k, "ending")
  BY <1>1, <1>2, <1>4, RowAtChange DEF Exists
<1>5. CASE Becomes("object", "gone")
  <2>1. "object" \in Resources
    BY DEF Resources
  <2> QED
    BY <1>1, <1>2, <1>5, <2>1, RowAtChange
<1>6. \/ UNCHANGED resource
      \/ \E k \in Resources : resource[k] \in {"up", "ending"} /\ Becomes(k, "ending")
      \/ Becomes("object", "gone")
  BY DeletionIs
<1> QED
  BY <1>3, <1>4, <1>5, <1>6

\* The last copy, and what a look leads to: a server is shown only where something exists.
LEMMA RowAtCopy == ASSUME IInv, RowInv, LaunchInv, Counts, CopyModel PROVE RowInv' /\ LaunchInv'
<1>1. UNCHANGED <<status, resource>> /\ pc = "copy"
  BY DEF CopyModel, AtTarget, At
<1>2. Left' = Left /\ launched' = launched
  BY <1>1 DEF Left, Counts, LaunchInv
<1>3. CASE Abort
  BY <1>1, <1>3, RowGoesOn DEF Abort, Turn, Deploying
<1>4. CASE pc' = "write" /\ result' = "STARTING" /\ server = "init"
  <2>1. launched
    BY <1>1 DEF LaunchInv
  <2> QED
    BY <1>1, <1>2, <1>4, <2>1 DEF RowInv, LaunchInv, From, Removing, Deploying
<1> QED
  BY <1>3, <1>4 DEF CopyModel, Writes, Turn

\* What Judge makes of an answer: the row may be as it was looked at, or be asked to stop.
LEMMA RowAtJudge ==
  ASSUME IInv, RowInv, LaunchInv, Counts, UNCHANGED <<status, resource>>, pc = "look",
         NEW s \in {"LOST", "FAILED", "STARTING", "RUNNING"}, Judge(s),
         s \in {"STARTING", "RUNNING"} => Left # {}
  PROVE  RowInv' /\ LaunchInv'
<1>1. Left' = Left /\ launched' = launched
  BY DEF Left, Counts, LaunchInv
<1>2. result \in {"PREPARING", "STARTING", "RUNNING"} /\ status \in {result, "STOP_REQUESTED"}
  BY DEF RowInv
<1>3. \/ pc' = "stop" /\ result' = "FAILED"
      \/ pc' = "stop" /\ result' = "LOST" /\ result # "PREPARING"
      \/ pc' = "write" /\ result' \in {"STARTING", "RUNNING"} /\ Left # {}
  BY DEF Judge, Writes, Stops, Turn, Over
<1> QED
  BY <1>1, <1>2, <1>3 DEF RowInv, LaunchInv, From, Removing, Deploying

LEMMA RowAtLook ==
  ASSUME IInv, RowInv, LaunchInv, Counts, LookPod \/ LookEndpoint
  PROVE  RowInv' /\ LaunchInv'
<1>1. UNCHANGED <<status, resource>> /\ pc = "look"
  BY DEF LookPod, LookEndpoint, OnDisk, InJournal, targetVars, At
<1>2. Visible("service") \/ Visible("endpoint") => Left # {}
  BY DEF Visible, Left, Exists, Resources, Hosted
<1>3. \/ Leave
      \/ \E s \in {"LOST", "FAILED", "STARTING", "RUNNING"} :
           Judge(s) /\ (s \in {"STARTING", "RUNNING"} => Left # {})
  <2>1. CASE LookPod
    BY <1>2, <2>1 DEF LookPod, Binding
  <2>2. CASE LookEndpoint
    BY <1>2, <2>2 DEF LookEndpoint
  <2> QED
    BY <2>1, <2>2
<1>4. CASE Leave
  BY <1>1, <1>4, RowGoesOn DEF Leave, Turn
<1> QED
  BY <1>1, <1>3, <1>4, RowAtJudge

LEMMA RowAtEnd == ASSUME IInv, RowInv, LaunchInv, Counts, Write \/ Crash PROVE RowInv' /\ LaunchInv'
<1>1. UNCHANGED resource /\ pc' = "idle"
  BY DEF Write, Crash, Leave, Turn, targetVars
<1>2. Left' = Left /\ launched' = launched
  BY <1>1 DEF Left, Counts, LaunchInv
<1>3. status' # "QUEUED" \/ status' = status
  <2>1. CASE Write
    BY <2>1 DEF Write, IInv, ProgressInv, Over
  <2> QED
    BY <2>1 DEF Crash
<1> QED
  BY <1>1, <1>2, <1>3 DEF RowInv, LaunchInv, Deploying, Removing

LEMMA RowAtTarget ==
  ASSUME IInv, RowInv, LaunchInv, Counts, Target \/ ServerFails \/ PodIsReplaced
  PROVE  RowInv' /\ LaunchInv'
<1>1. UNCHANGED <<status, pc, result>>
  BY DEF Target, Appears, Goes, PodStarts, EndpointServes, ServerFails, PodIsReplaced, Unmoved, procVars
<1>2. CASE UNCHANGED resource
  <2>1. Left' = Left /\ launched' = launched
    BY <1>2 DEF Left, Counts, LaunchInv
  <2> QED
    BY <1>1, <1>2, <2>1 DEF RowInv, LaunchInv
<1> DEFINE Changes(k) ==
             \/ resource[k] = "coming" /\ Becomes(k, "up")
             \/ resource[k] = "ending" /\ Becomes(k, "gone")
<1>3. ASSUME NEW k \in Resources, Changes(k) PROVE RowInv' /\ LaunchInv'
  BY <1>1, <1>3, RowAtChange DEF procVars, Exists
<1>4. UNCHANGED resource \/ \E k \in Resources : Changes(k)
  <2>1. CASE Appears
    BY <2>1, InOrder DEF Appears
  <2>2. CASE Goes
    BY <2>2 DEF Goes
  <2> QED
    BY <2>1, <2>2 DEF Target, PodStarts, EndpointServes, ServerFails, PodIsReplaced
<1> QED
  BY <1>2, <1>3, <1>4

LEMMA RowStep == ASSUME IInv, RowInv, LaunchInv, Continue PROVE RowInv' /\ LaunchInv'
BY RowAtWeb, RowAtDeploy, RowAtStop, RowAtCopy, RowAtLook, RowAtEnd, RowAtTarget
   DEF Continue, Next, Handler

-----------------------------------------------------------------------------
(* The refinement.                                                         *)

\* The row moves only as the contract says, and only Expire ends the lease.
RowMoves ==
  \/ UNCHANGED <<status, due>>
  \/ status = status' /\ due' /\ ~due
  \/ UNCHANGED due /\ status \in Live /\ status' = "STOP_REQUESTED"
  \/ UNCHANGED due /\ status = "QUEUED" /\ status' = "PREPARING" /\ ~due
  \/ /\ UNCHANGED due /\ launched
     /\ status \in Live \ {"QUEUED"} /\ status' \in {"STARTING", "RUNNING"}
  \/ /\ UNCHANGED due /\ Left = {}
     /\ \/ status = "STOP_REQUESTED" /\ status' = "STOPPED"
        \/ status \in Live \ {"QUEUED"} /\ status' = "FAILED"
        \/ status \in {"STARTING", "RUNNING"} /\ status' = "LOST"

\* A step changes the row or what exists at the target, not both; only a launch begins
\* to hold something there, once and for a row in preparation or asked to stop.
LEMMA StepMoves ==
  ASSUME IInv, RowInv, LaunchInv, Continue
  PROVE  /\ RowMoves
         /\ status' # status \/ due' # due => UNCHANGED resource
         /\ Left = {} /\ Left' # {} => ~launched /\ status \in {"PREPARING", "STOP_REQUESTED"}
<1>1. CASE Stop \/ Expire
  BY <1>1 DEF Stop, Expire, RowMoves, targetVars, Left
<1>2. CASE Take
  BY <1>2 DEF Take, RowMoves, targetVars, Left, Live
<1>3. CASE Write
  <2>1. UNCHANGED <<due, resource>> /\ pc = "write"
    BY <1>3 DEF Write, targetVars
  <2>2. status \in From(result) /\ (result \in {"STARTING", "RUNNING"} => launched)
        /\ result \in Over \cup {"STARTING", "RUNNING"}
        /\ (result \in Over => Left = {})
    BY <2>1 DEF RowInv, LaunchInv, Removing, IInv, ProgressInv, Free, Left
  <2>3. status' = (IF status # "STOP_REQUESTED" \/ result = "STOPPED" THEN result ELSE status)
    BY <1>3 DEF Write
  <2> QED
    BY <2>1, <2>2, <2>3 DEF RowMoves, From, Over, Live, Left
<1>4. CASE UNCHANGED <<status, due>> /\ pc \in Deploying
  BY <1>4 DEF RowMoves, RowInv, LaunchInv
<1>5. CASE UNCHANGED <<status, due>> /\ Left' \subseteq Left
  BY <1>5 DEF RowMoves
<1>6. CASE \/ MakeWorkspace \/ SaveLaunch \/ Materialize \/ Archive \/ SaveJournal
           \/ UploadArchive \/ CreateResource \/ SaveIntent \/ RequestHosted
           \/ AwaitPod \/ BindPod \/ CopyModel
  <2>1. UNCHANGED <<status, due>> /\ pc \in Deploying
    BY <1>6 DEF MakeWorkspace, SaveLaunch, Materialize, Archive, SaveJournal, UploadArchive,
                CreateResource, SaveIntent, RequestHosted, AwaitPod, BindPod, CopyModel,
                OnDisk, AtTarget, InJournal, At, Deploying
  <2> QED
    BY <2>1, <1>4
<1>7. CASE StopUnknown \/ DeleteResources \/ RemoveWorkspace \/ StopUnjournaled \/ DeleteHosted \/ EmptyBucket
  <2>1. UNCHANGED <<status, due>>
    BY <1>7 DEF StopUnknown, DeleteResources, RemoveWorkspace, StopUnjournaled, DeleteHosted,
                EmptyBucket, OnDisk, AtTarget
  <2>2. \/ UNCHANGED resource
        \/ \E k \in Resources, t \in {"ending", "gone"} :
             Becomes(k, t) /\ (t = "ending" => resource[k] \in Exists)
    <3>1. "object" \in Resources
      BY DEF Resources
    <3> QED
      BY <1>7, <3>1, DeletionIs DEF Exists
  <2>3. Left' \subseteq Left
    BY <2>2 DEF Left, Becomes, Exists, IInv, TypeOK
  <2> QED
    BY <1>5, <2>1, <2>3
<1>8. CASE LookPod \/ LookEndpoint \/ Crash \/ PodStarts \/ EndpointServes \/ ServerFails \/ PodIsReplaced
  <2>1. UNCHANGED <<status, due, resource>>
    BY <1>8 DEF LookPod, LookEndpoint, Crash, PodStarts, EndpointServes, ServerFails, PodIsReplaced,
                OnDisk, InJournal, targetVars, Unmoved
  <2> QED
    BY <1>5, <2>1 DEF Left
<1>9. CASE Appears \/ Goes
  <2>1. UNCHANGED <<status, due>>
    BY <1>9 DEF Appears, Goes, Unmoved
  <2>2. \E k \in Resources, t \in {"up", "gone"} :
          Becomes(k, t) /\ (t = "up" => resource[k] \in Exists)
    <3>1. CASE Appears
      BY <3>1, InOrder DEF Appears, Exists
    <3>2. CASE Goes
      BY <3>2 DEF Goes
    <3> QED
      BY <1>9, <3>1, <3>2
  <2>3. Left' \subseteq Left
    BY <2>2 DEF Left, Becomes, Exists, IInv, TypeOK
  <2> QED
    BY <1>5, <2>1, <2>3
<1> QED
  BY <1>1, <1>2, <1>3, <1>6, <1>7, <1>8, <1>9 DEF Continue, Next, Handler, Target

\* Every step of a remote playground is a step of the contract, or none that it sees.
LEMMA ContractStep ==
  ASSUME IInv, RowInv, LaunchInv, [Continue]_histVars
  PROVE  Contract!Next \/ UNCHANGED Contract!contractVars
<1> USE DEF Contract!contractVars
<1>1. CASE UNCHANGED histVars
  BY <1>1 DEF histVars, vars, targetVars, Left
<1>2. CASE Continue /\ (status' # status \/ due' # due)
  <2>1. RowMoves /\ Left' = Left /\ launched' = launched
    BY <1>2, StepMoves DEF Left, Continue, Counts, LaunchInv
  <2>2. CASE status' = status
    <3>1. Contract!Expire({"playground"})
      BY <1>2, <2>1, <2>2 DEF RowMoves, Contract!Expire, Contract!Absent, IInv, TypeOK, Live, Over
    <3> QED
      BY <3>1 DEF Contract!Next
  <2>3. CASE status' # status
    <3> USE DEF Contract!Started, Contract!Shown, Contract!Becomes
    <3>1. UNCHANGED <<due, launched, Left>>
      BY <2>1, <2>3 DEF RowMoves
    <3>2. CASE status \in Live /\ status' = "STOP_REQUESTED"
      <4>1. Contract!AskToStop("playground")
        BY <3>1, <3>2 DEF Live, Contract!AskToStop
      <4> QED
        BY <4>1 DEF Contract!Next
    <3>3. CASE status = "QUEUED" /\ status' = "PREPARING" /\ ~due
      <4>1. Contract!Prepare("playground")
        BY <3>1, <3>3 DEF Contract!Prepare
      <4> QED
        BY <4>1 DEF Contract!Next
    <3>4. CASE launched /\ status \in Live \ {"QUEUED"} /\ status' \in {"STARTING", "RUNNING"}
      <4>1. Contract!Observe("playground")
        BY <2>3, <3>1, <3>4 DEF Live, Contract!Observe
      <4> QED
        BY <4>1 DEF Contract!Next
    <3>5. CASE /\ Left = {}
               /\ \/ status = "STOP_REQUESTED" /\ status' = "STOPPED"
                  \/ status \in Live \ {"QUEUED"} /\ status' = "FAILED"
                  \/ status \in {"STARTING", "RUNNING"} /\ status' = "LOST"
      <4>1. Contract!End("playground")
        BY <3>1, <3>5 DEF Live, Contract!End
      <4> QED
        BY <4>1 DEF Contract!Next
    <3> QED
      BY <2>1, <2>3, <3>2, <3>3, <3>4, <3>5 DEF RowMoves
  <2> QED
    BY <2>2, <2>3
<1>3. CASE Continue /\ UNCHANGED <<status, due>>
  <2>1. CASE Left = {} /\ Left' # {}
    <3>1. launched = FALSE /\ launched' = TRUE /\ status \in {"PREPARING", "STOP_REQUESTED"}
      BY <1>3, <2>1, StepMoves DEF Continue, Counts, LaunchInv
    <3>2. Contract!Occupy("playground")
      BY <1>3, <2>1, <3>1 DEF Contract!Occupy
    <3> QED
      BY <3>2 DEF Contract!Next
  <2>2. CASE Left # {} /\ Left' = {}
    <3>1. launched' = launched
      BY <1>3, <2>2 DEF Continue, Counts, LaunchInv
    <3>2. Contract!Release("playground")
      BY <1>3, <2>2, <3>1 DEF Contract!Release
    <3> QED
      BY <3>2 DEF Contract!Next
  <2>3. CASE (Left = {}) <=> (Left' = {})
    <3>1. launched' = launched
      BY <1>3, <2>3 DEF Continue, Counts, LaunchInv
    <3> QED
      BY <1>3, <2>3, <3>1
  <2> QED
    BY <2>1, <2>2, <2>3
<1> QED
  BY <1>1, <1>2, <1>3

\* Playgrounds on Kubernetes and SageMaker keep the contract of playgrounds: an ended lease
\* is not revived, a launch happens once and not for a row that is over, a server is shown
\* only of a playground that was launched, and what is over holds nothing.
THEOREM RemotePlaygroundsKeepContract == HistorySpec => Contract!Spec
<1> DEFINE I == IInv /\ RowInv /\ LaunchInv
<1>1. Init /\ launched = FALSE => I /\ Contract!Init
  <2> SUFFICES ASSUME Init, launched = FALSE PROVE I /\ Contract!Init
    OBVIOUS
  <2>1. IInv
    BY InitInv
  <2>2. Left = {}
    BY DEF Init, Left, Exists
  <2>3. RowInv /\ LaunchInv
    BY <2>2 DEF Init, RowInv, LaunchInv, Deploying, Removing
  <2>4. Contract!Init
    BY <2>2 DEF Init, Contract!Init
  <2> QED
    BY <2>1, <2>3, <2>4
<1>2. I /\ [Continue]_histVars => I' /\ [Contract!Next]_(Contract!contractVars)
  <2> SUFFICES ASSUME I, [Continue]_histVars
               PROVE  I' /\ [Contract!Next]_(Contract!contractVars)
    OBVIOUS
  <2>1. Contract!Next \/ UNCHANGED Contract!contractVars
    BY ContractStep
  <2>2. CASE Continue
    BY <2>1, <2>2, NextInv, RowStep DEF Continue
  <2>3. CASE UNCHANGED histVars
    <3>1. IInv' /\ Left' = Left
      BY <2>3, NextInv DEF histVars, vars, targetVars, Left
    <3>2. RowInv' /\ LaunchInv'
      BY <2>3, <3>1 DEF RowInv, LaunchInv, histVars, vars, targetVars, procVars
    <3> QED
      BY <2>1, <3>1, <3>2
  <2> QED
    BY <2>2, <2>3
<1> HIDE DEF I
<1> QED
  BY <1>1, <1>2, PTL DEF HistorySpec, Contract!Spec
=============================================================================
