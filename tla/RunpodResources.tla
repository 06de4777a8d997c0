--------------------------- MODULE RunpodResources ---------------------------
(***************************************************************************)
(* Rented GPUs: the resource rows of app/targets/runpod_lifecycle.py, the  *)
(* training executor (app/executors/runpod.py) and the serving executor    *)
(* (app/deployments/runpod.py) that share them, and the background         *)
(* processes that drive both.                                              *)
(*                                                                         *)
(* A Pod is billed from the moment the provider accepts the one POST until *)
(* its deletion is confirmed.  The answer may be lost, the Pod may appear  *)
(* late, processes die between any two steps; the row is written before    *)
(* the POST and given up only after the Pod is known to be gone.           *)
(***************************************************************************)
EXTENDS Naturals, FiniteSets

CONSTANTS
  Runs,        \* training runs planned for a Runpod target
  Plays,       \* playgrounds on a Runpod target
  Target,      \* the target of each of them
  TargetLimit, \* max_concurrent_pods of a target
  GlobalLimit, \* runpod_max_concurrent_pods of the operator
  Workers,     \* processes running `background worker`
  Reconcilers, \* processes running `background reconciler`
  NoProc,      \* nobody holds a claim
  None,        \* an idle process works on nothing
  Enabled,     \* the execution kinds the operator switched on
  FaultKinds,  \* which faults of the environment can happen
  MaxFaults,   \* how many of them can happen in one behaviour
  MaxOwners    \* how many runs and playgrounds are created in one behaviour

Owners == Runs \cup Plays
Procs == Workers \cup Reconcilers

\* crash: a background process dies and restarts; claim: the connection that
\* holds a claim dies while its process goes on; api: a request to the provider
\* or over SSH fails without effect, or an allocation is refused; answer: the
\* answer to a request that may have had its effect is lost; removal: a Pod ends
\* without us; server: what runs in the Pod exits.
Kinds == {"crash", "claim", "api", "answer", "removal", "server"}

ASSUME RolesAssumption == Workers \cap Reconcilers = {} /\ Runs \cap Plays = {}
ASSUME NullsAssumption == NoProc \notin Procs /\ None \notin Owners
ASSUME LimitsAssumption == TargetLimit \in Nat /\ GlobalLimit \in Nat
ASSUME FaultsAssumption == FaultKinds \subseteq Kinds /\ {MaxFaults, MaxOwners} \subseteq Nat

VARIABLES
  status,      \* training_runs.status or deployments.status
  due,         \* owners whose deadline (a run) or lease (a playground) has passed
  state,       \* runpod_resources.state, or "NONE" without a row
  cleanup,     \* runpod_resources.cleanup
  outcome,     \* runpod_resources.outcome
  bound,       \* owners whose row names its Pod (pod_ids)
  pod,         \* what the provider has for the owner's request
  job,         \* what runs in the Pod
  workspace,   \* owners with a local workspace
  intent,      \* owners with the launch-intent file
  collected,   \* runs whose verified output is retained locally
  claim,       \* holder of the advisory lock of the owner
  pc, at,      \* a process: its next step and the owner it works on
  mode,        \* why it works on it
  result,      \* what it observed, will record, or will write
  lost,        \* history: owners whose claim was lost under its holder
  faults       \* how many faults may still happen

resVars  == <<state, cleanup, outcome, bound>>
podVars  == <<pod, job>>
fileVars == <<workspace, intent, collected>>
procVars == <<pc, at, mode, result>>
vars == <<status, due, resVars, podVars, fileVars, claim, procVars, lost, faults>>

RunFinal  == {"SUCCEEDED", "FAILED", "CANCELED", "LOST"}
RunLive   == {"QUEUED", "PREPARING", "SUBMITTED", "RUNNING", "CANCEL_REQUESTED",
              "POSTPROCESSING"}
PlayFinal == {"STOPPED", "FAILED", "LOST"}
PlayLive  == {"QUEUED", "PREPARING", "STARTING", "RUNNING", "STOP_REQUESTED"}
Status    == {"ABSENT"} \cup RunFinal \cup RunLive \cup PlayFinal \cup PlayLive

Verdicts == {"SUCCEEDED", "FAILED", "CANCELED"}
Results  == Verdicts \cup {"none", "RUNNING", "MISSING", "LOST", "STOPPED", "STARTING"}
Steps == {"idle", "mkdir", "reserve", "post", "bind", "wait", "touch", "launch", "launched",
          "abort", "status", "pending", "cleanup", "confirm", "release", "observe",
          "register", "look", "rmtree", "write"}
Modes == {"none", "submit", "rejected", "aborted", "abandon", "preparing", "watching",
          "serving", "canceling", "sweep"}

\* The provider: nothing, accepted but not listed yet, there, being deleted, gone.
Billed == {"coming", "up", "ending"}

TypeOK ==
  /\ status \in [Owners -> Status]
  /\ due \subseteq Owners /\ bound \subseteq Owners /\ lost \subseteq Owners
  /\ state \in [Owners -> {"NONE", "INTENT", "BOUND", "RELEASED"}]
  /\ cleanup \in [Owners -> {"NONE", "PENDING", "CONFIRMED"}]
  /\ outcome \in [Owners -> Verdicts \cup {"none"}]
  /\ pod \in [Owners -> {"none", "gone"} \cup Billed]
  /\ job \in [Owners -> {"none", "running", "done", "failed"}]
  /\ workspace \subseteq Owners /\ intent \subseteq Owners /\ collected \subseteq Runs
  /\ claim \in [Owners -> Procs \cup {NoProc}]
  /\ pc \in [Procs -> Steps] /\ at \in [Procs -> Owners \cup {None}]
  /\ mode \in [Procs -> Modes] /\ result \in [Procs -> Results]
  /\ faults \in Nat

Init ==
  /\ status = [o \in Owners |-> "ABSENT"]
  /\ state = [o \in Owners |-> "NONE"] /\ cleanup = [o \in Owners |-> "NONE"]
  /\ outcome = [o \in Owners |-> "none"] /\ pod = [o \in Owners |-> "none"]
  /\ job = [o \in Owners |-> "none"]
  /\ due = {} /\ bound = {} /\ workspace = {} /\ intent = {} /\ collected = {} /\ lost = {}
  /\ claim = [o \in Owners |-> NoProc]
  /\ pc = [p \in Procs |-> "idle"] /\ at = [p \in Procs |-> None]
  /\ mode = [p \in Procs |-> "none"] /\ result = [p \in Procs |-> "none"]
  /\ faults = MaxFaults

-----------------------------------------------------------------------------
(* Helpers.                                                                *)

Fault(kind) == kind \in FaultKinds /\ faults > 0 /\ faults' = faults - 1

\* background.py builds the deployment service for these kinds only.
Serves == Enabled \cap {"local", "ssh", "kubernetes"} # {}

Enter(p, o, step, m, r) ==
  /\ pc[p] = "idle" /\ claim[o] = NoProc
  /\ claim' = [claim EXCEPT ![o] = p]
  /\ at' = [at EXCEPT ![p] = o]
  /\ pc' = [pc EXCEPT ![p] = step]
  /\ mode' = [mode EXCEPT ![p] = m] /\ result' = [result EXCEPT ![p] = r]

Goto(p, step) == pc' = [pc EXCEPT ![p] = step] /\ UNCHANGED <<claim, at, mode, result>>

\* Goes on with another purpose m and another result r.
Turn(p, step, m, r) ==
  /\ pc' = [pc EXCEPT ![p] = step]
  /\ mode' = [mode EXCEPT ![p] = m] /\ result' = [result EXCEPT ![p] = r]
  /\ UNCHANGED <<claim, at>>

\* The handler returns or raises to its tick; the claim ends with it.
Leave(p) ==
  /\ pc' = [pc EXCEPT ![p] = "idle"] /\ at' = [at EXCEPT ![p] = None]
  /\ mode' = [mode EXCEPT ![p] = "none"] /\ result' = [result EXCEPT ![p] = "none"]
  /\ claim' = [o \in Owners |-> IF claim[o] = p THEN NoProc ELSE claim[o]]

At(p, step) == pc[p] = step

\* finish(): record a verdict and terminate; for a playground, stop().
Finish(p, m, verdict) == Turn(p, "pending", m, verdict)
StopPlay(p, m, s) == Turn(p, IF state[at[p]] = "NONE" THEN "rmtree" ELSE "pending", m, s)

Row(o, s) == status' = [status EXCEPT ![o] = s]
Bind(o) == bound' = bound \cup {o} /\ state' = [state EXCEPT ![o] = "BOUND"]

\* What the inventory of the provider shows.
Listed(o) == pod[o] \in {"up", "ending"}

Rowless == UNCHANGED <<status, due>>
Local == UNCHANGED <<status, due, podVars, lost>>

\* A preparation that failed.  Before the launch intent nothing can run in the Pod:
\* the run is finished as FAILED; after it, the next look decides.
Abort(p) ==
  LET o == at[p] seen == state[o] = "NONE" \/ o \in intent IN
  CASE o \in Plays             -> StopPlay(p, "submit", "FAILED")
    [] o \notin Plays /\ seen  -> Turn(p, "status", "preparing", "none")
    [] o \notin Plays /\ ~seen -> Finish(p, "aborted", "FAILED")

-----------------------------------------------------------------------------
(* The web process.                                                        *)

Create(o) ==
  /\ status[o] = "ABSENT"
  /\ Cardinality({x \in Owners : status[x] # "ABSENT"}) < MaxOwners
  /\ Row(o, "QUEUED")
  /\ UNCHANGED <<due, resVars, podVars, fileVars, claim, procVars, lost, faults>>

Cancel(o) ==
  /\ o \in Runs
  /\ \/ status[o] = "QUEUED" /\ Row(o, "CANCELED")
     \/ status[o] \in {"PREPARING", "SUBMITTED", "RUNNING"} /\ Row(o, "CANCEL_REQUESTED")
  /\ UNCHANGED <<due, resVars, podVars, fileVars, claim, procVars, lost, faults>>

Stop(o) ==
  /\ o \in Plays
  /\ status[o] \in PlayLive \ {"STOP_REQUESTED"}
  /\ Row(o, "STOP_REQUESTED")
  /\ UNCHANGED <<due, resVars, podVars, fileVars, claim, procVars, lost, faults>>

-----------------------------------------------------------------------------
(* Taking an owner: the row is read under the claim.                       *)

TakeRun(p, o) ==
  /\ o \in Runs
  /\ \/ /\ p \in Workers /\ status[o] = "QUEUED"
        /\ Row(o, "PREPARING") /\ Enter(p, o, "mkdir", "submit", "none")
     \/ /\ p \in Workers /\ status[o] = "PREPARING"
        /\ Enter(p, o, "status", "preparing", "none") /\ UNCHANGED status
     \/ /\ p \in Workers /\ status[o] = "CANCEL_REQUESTED"
        /\ CASE state[o] = "NONE"     -> Enter(p, o, "observe", "canceling", "MISSING")
             [] outcome[o] # "none"   -> Enter(p, o, "observe", "canceling", outcome[o])
             [] OTHER                 -> Enter(p, o, "pending", "canceling", "CANCELED")
        /\ UNCHANGED status
     \/ /\ p \in Reconcilers /\ status[o] \in {"SUBMITTED", "RUNNING"}
        /\ Enter(p, o, "status", "watching", "none") /\ UNCHANGED status
     \/ /\ status[o] = "POSTPROCESSING"
        /\ Enter(p, o, "register", "watching", "none") /\ UNCHANGED status
  /\ UNCHANGED <<due, resVars, podVars, fileVars, lost, faults>>

\* Whatever is due or asked to stop is stopped by either role; the rest is the
\* worker's or the reconciler's.
Ends(o) == status[o] = "STOP_REQUESTED" \/ (status[o] \in PlayLive /\ o \in due)

TakeLivePlay(p, o) ==
  /\ o \in Plays /\ Serves
  /\ \/ /\ Ends(o) /\ Row(o, "STOP_REQUESTED")
        /\ Enter(p, o, IF state[o] = "NONE" THEN "rmtree" ELSE "pending", "none", "STOPPED")
     \/ /\ p \in Workers /\ status[o] = "QUEUED" /\ ~Ends(o)
        /\ Row(o, "PREPARING") /\ Enter(p, o, "mkdir", "submit", "none")
     \/ /\ p \in Workers /\ status[o] = "PREPARING" /\ ~Ends(o)
        /\ Enter(p, o, "look", "preparing", "none") /\ UNCHANGED status
     \/ /\ p \in Reconcilers /\ status[o] \in {"STARTING", "RUNNING"} /\ ~Ends(o)
        /\ Enter(p, o, "look", IF status[o] = "RUNNING" THEN "serving" ELSE "watching", "none")
        /\ UNCHANGED status
  /\ UNCHANGED <<due, resVars, podVars, fileVars, lost, faults>>

\* A terminal playground whose Pod is not released is stopped again.
StopAgain(p, o) ==
  /\ o \in Plays /\ Serves
  /\ p \in Reconcilers /\ status[o] \in PlayFinal /\ state[o] \in {"INTENT", "BOUND"}
  /\ Enter(p, o, "pending", "sweep", "CANCELED")
  /\ UNCHANGED <<status, due, resVars, podVars, fileVars, lost, faults>>

\* Mutation: only the resources of runs under way are looked at.
Sweep_LiveOnly(p, o) ==
  /\ o \in Runs /\ p \in Reconcilers /\ status[o] \in RunLive
  /\ state[o] \in {"INTENT", "BOUND"}
  /\ cleanup[o] = "PENDING" \/ o \in due
  /\ Enter(p, o, IF outcome[o] = "none" THEN "pending" ELSE "cleanup", "sweep", "FAILED")
  /\ UNCHANGED <<status, due, resVars, podVars, fileVars, lost, faults>>

\* reconcile_runpod(): termination is retried whatever the run's status is.
Sweep(p, o) ==
  /\ o \in Runs /\ p \in Reconcilers
  /\ state[o] \in {"INTENT", "BOUND"}
  /\ cleanup[o] = "PENDING" \/ o \in due
  /\ Enter(p, o, IF outcome[o] = "none" THEN "pending" ELSE "cleanup", "sweep", "FAILED")
  /\ UNCHANGED <<status, due, resVars, podVars, fileVars, lost, faults>>

-----------------------------------------------------------------------------
(* submit() and deploy(): one Pod is reserved, allocated, awaited and used. *)

MakeWorkspace(p) ==
  LET o == at[p] IN
  /\ At(p, "mkdir")
  /\ IF o \in workspace THEN Abort(p) ELSE Goto(p, "reserve")
  /\ workspace' = workspace \cup {o}
  /\ UNCHANGED <<resVars, intent, collected, faults>> /\ Local

\* Every row that is not released counts, an uncertain or a dying Pod included.
Held == {o \in Owners : state[o] \in {"INTENT", "BOUND"}}

\* Mutation: a Pod whose termination is under way is not counted any more.
Fits_PendingIsFree(o) ==
  LET active == {x \in Held : cleanup[x] = "NONE"} IN
  /\ Cardinality(active) < GlobalLimit
  /\ Cardinality({x \in active : Target[x] = Target[o]}) < TargetLimit

Fits(o) ==
  /\ Cardinality(Held) < GlobalLimit
  /\ Cardinality({x \in Held : Target[x] = Target[o]}) < TargetLimit

Reserve(p) ==
  LET o == at[p]
      allowed == state[o] = "NONE" /\ Fits(o) /\ ~(o \in Plays \cap due)
  IN
  /\ At(p, "reserve")
  /\ \/ allowed /\ state' = [state EXCEPT ![o] = "INTENT"] /\ Goto(p, "post")
        /\ UNCHANGED faults
     \/ ~allowed /\ Abort(p) /\ UNCHANGED <<state, faults>>
     \/ Fault("api") /\ Abort(p) /\ UNCHANGED state
  /\ UNCHANGED <<cleanup, outcome, bound, fileVars>> /\ Local

\* The one POST.  A lost answer never becomes a second one.
Post(p) ==
  LET o == at[p] IN
  /\ At(p, "post")
  /\ \/ /\ pod' = [pod EXCEPT ![o] = "up"] /\ Goto(p, "bind") /\ UNCHANGED faults
     \/ /\ Fault("answer") /\ Abort(p)
        /\ \E there \in {"coming", "up"} : pod' = [pod EXCEPT ![o] = there]
     \/ Fault("api") /\ Abort(p) /\ UNCHANGED pod
     \/ Fault("api") /\ Turn(p, "pending", "rejected", "FAILED") /\ UNCHANGED pod
  /\ UNCHANGED <<resVars, fileVars, job, lost>> /\ Rowless

\* The Pod's identifier is recorded.  The trigger refuses a row that was released
\* meanwhile; a Pod of another shape or price is given back at once.
BindPod(p) ==
  LET o == at[p] IN
  /\ At(p, "bind")
  /\ \/ state[o] # "RELEASED" /\ Bind(o) /\ Goto(p, "wait") /\ UNCHANGED faults
     \/ state[o] # "RELEASED" /\ Fault("api") /\ Bind(o) /\ Abort(p)
     \/ state[o] = "RELEASED" /\ Abort(p) /\ UNCHANGED <<state, bound, faults>>
  /\ UNCHANGED <<cleanup, outcome, fileVars>> /\ Local

\* The loop that waits for SSH: stop and cancel requests first, then the Pod.
StopSeen(o) ==
  IF o \in Runs THEN status[o] \in {"CANCEL_REQUESTED", "CANCELED"}
                ELSE status[o] = "STOP_REQUESTED" \/ o \in due

\* One look at the Pod: it answers over SSH, or it is given up.
Reach(p) ==
  \/ pod[at[p]] = "up" /\ Goto(p, "touch") /\ UNCHANGED faults
  \/ pod[at[p]] # "up" /\ Abort(p) /\ UNCHANGED faults
  \/ Fault("api") /\ Abort(p)

AwaitTraining(p) ==
  /\ At(p, "wait") /\ at[p] \in Runs
  /\ IF StopSeen(at[p]) THEN Finish(p, "submit", "CANCELED") /\ UNCHANGED faults ELSE Reach(p)
  /\ UNCHANGED <<resVars, fileVars>> /\ Local

AwaitServing(p) ==
  /\ At(p, "wait") /\ at[p] \in Plays
  /\ IF StopSeen(at[p]) THEN Abort(p) /\ UNCHANGED faults ELSE Reach(p)
  /\ UNCHANGED <<resVars, fileVars>> /\ Local

\* The bundle is uploaded, the deadline looked at and the intent left on disk.
Touch(p, late) ==
  /\ \/ ~late /\ intent' = intent \cup {at[p]} /\ Goto(p, "launch") /\ UNCHANGED faults
     \/ late /\ Abort(p) /\ UNCHANGED <<intent, faults>>
     \/ Fault("api") /\ Abort(p) /\ UNCHANGED intent
  /\ UNCHANGED <<resVars, workspace, collected>> /\ Local

TouchTraining(p) == At(p, "touch") /\ at[p] \in Runs /\ Touch(p, at[p] \in due)
TouchServing(p) == At(p, "touch") /\ at[p] \in Plays /\ Touch(p, StopSeen(at[p]))

\* The helper in the Pod claims its one launch before it starts anything.
Starts(o) ==
  /\ pod[o] = "up" /\ job[o] = "none"
  /\ job' = [job EXCEPT ![o] = "running"]

Launch(p) ==
  LET o == at[p] IN
  /\ At(p, "launch")
  /\ \/ Starts(o) /\ Goto(p, "launched") /\ UNCHANGED faults
     \/ Fault("answer") /\ Starts(o) /\ Abort(p)
     \/ Fault("api") /\ Abort(p) /\ UNCHANGED job
     \/ pod[o] # "up" /\ Abort(p) /\ UNCHANGED <<job, faults>>
  /\ UNCHANGED <<resVars, fileVars, pod, lost>> /\ Rowless

\* The row is read again: a run whose cancellation was asked keeps that state.
Launched(p) ==
  LET o == at[p] IN
  /\ At(p, "launched")
  /\ IF o \in Runs
     THEN /\ Row(o, IF status[o] = "PREPARING" THEN "SUBMITTED" ELSE status[o])
          /\ Leave(p)
     ELSE Turn(p, "write", mode[p], "STARTING") /\ UNCHANGED status
  /\ UNCHANGED <<due, resVars, podVars, fileVars, lost, faults>>

-----------------------------------------------------------------------------
(* Termination: pending(), cleanup(), release().                           *)

\* Mutation: a later verdict replaces the recorded one.
Pending_Last(p) ==
  LET o == at[p] open == state[o] \in {"INTENT", "BOUND"} IN
  /\ At(p, "pending")
  /\ outcome' = [outcome EXCEPT ![o] = IF open THEN
                   (IF o \in Plays THEN "CANCELED" ELSE result[p]) ELSE @]
  /\ cleanup' = [cleanup EXCEPT ![o] = IF open THEN "PENDING" ELSE @]
  /\ Goto(p, IF mode[p] = "rejected" THEN "release" ELSE "cleanup")
  /\ UNCHANGED <<state, bound, fileVars, faults>> /\ Local

\* The first verdict is kept; a released row is left alone.
Pending(p) ==
  LET o == at[p] open == state[o] \in {"INTENT", "BOUND"} IN
  /\ At(p, "pending")
  /\ outcome' = [outcome EXCEPT ![o] = IF open /\ @ = "none" THEN
                   (IF o \in Plays THEN "CANCELED" ELSE result[p]) ELSE @]
  /\ cleanup' = [cleanup EXCEPT ![o] = IF open THEN "PENDING" ELSE @]
  /\ Goto(p, IF mode[p] = "rejected" THEN "release" ELSE "cleanup")
  /\ UNCHANGED <<state, bound, fileVars, faults>> /\ Local

\* What the caller of cleanup() does next.  A run goes by the recorded verdict;
\* an abandoned preparation has failed unless its work was complete.
Proceed(p) ==
  LET o == at[p] m == mode[p] IN
  IF o \in Plays THEN Goto(p, "rmtree") ELSE
  CASE m = "sweep"       -> Leave(p)
    [] m = "submit"      -> Goto(p, "launched")
    [] m = "aborted"     -> Turn(p, "status", "preparing", "none")
    [] m = "abandon"     -> Turn(p, "observe", "preparing",
                                 IF outcome[o] = "SUCCEEDED" THEN "SUCCEEDED" ELSE "FAILED")
    [] OTHER             -> Turn(p, "observe", m, outcome[o])

\* Mutation: stop() swallows the error of a termination like finish() does.
CleanupFails_Swallowed(p) == Proceed(p)

\* An error ends the tick, except that finish() swallows it: the verdict is durable
\* and the reconciler retries the termination.
CleanupFails(p) ==
  IF at[p] \in Runs /\ mode[p] # "sweep" THEN Proceed(p) ELSE Leave(p)

\* cleanup() up to the DELETE.  An unbound row is bound to the Pod the inventory
\* shows; without one nothing is known, and the reservation stays.
Terminate(p) ==
  LET o == at[p] IN
  /\ At(p, "cleanup")
  /\ \/ /\ state[o] \in {"NONE", "RELEASED"} /\ Proceed(p)
        /\ UNCHANGED <<state, bound, pod, faults>>
     \/ /\ state[o] = "INTENT" /\ Listed(o) /\ Bind(o) /\ UNCHANGED <<procVars, claim, pod, faults>>
     \/ /\ state[o] = "INTENT" /\ ~Listed(o) /\ CleanupFails(p)
        /\ UNCHANGED <<state, bound, pod, faults>>
     \/ /\ state[o] = "BOUND" /\ pod[o] = "gone" /\ Goto(p, "release")
        /\ UNCHANGED <<state, bound, pod, faults>>
     \/ /\ state[o] = "BOUND" /\ pod[o] \in {"up", "ending"}
        /\ pod' = [pod EXCEPT ![o] = "ending"] /\ Goto(p, "confirm")
        /\ UNCHANGED <<state, bound, faults>>
     \/ /\ state[o] = "BOUND" /\ Fault("answer")
        /\ pod' = [pod EXCEPT ![o] = IF @ = "up" THEN "ending" ELSE @] /\ CleanupFails(p)
        /\ UNCHANGED <<state, bound>>
     \/ /\ state[o] \in {"INTENT", "BOUND"} /\ Fault("api") /\ CleanupFails(p)
        /\ UNCHANGED <<state, bound, pod>>
  /\ UNCHANGED <<cleanup, outcome, fileVars, job, lost>> /\ Rowless

\* Mutation: an accepted DELETE is taken for the end of the Pod.
Confirm_Accepted(p) ==
  /\ At(p, "confirm") /\ Goto(p, "release")
  /\ UNCHANGED <<resVars, fileVars, faults>> /\ Local

\* Only a Pod the provider no longer knows is gone.
Confirm(p) ==
  /\ At(p, "confirm")
  /\ \/ pod[at[p]] = "gone" /\ Goto(p, "release") /\ UNCHANGED faults
     \/ pod[at[p]] # "gone" /\ CleanupFails(p) /\ UNCHANGED faults
     \/ Fault("api") /\ CleanupFails(p)
  /\ UNCHANGED <<resVars, fileVars>> /\ Local

Release(p) ==
  LET o == at[p] IN
  /\ At(p, "release")
  /\ state' = [state EXCEPT ![o] = "RELEASED"]
  /\ cleanup' = [cleanup EXCEPT ![o] = "CONFIRMED"]
  /\ IF mode[p] = "rejected" THEN Abort(p) ELSE Proceed(p)
  /\ UNCHANGED <<outcome, bound, fileVars, faults>> /\ Local

-----------------------------------------------------------------------------
(* status() of a run, and what the processor makes of it.                  *)

Observed(p, r) == Turn(p, "observe", mode[p], r)

\* PREPARING: recovery gives the attempt up and cancels it; a watch waits.
Idle(p) == IF mode[p] = "preparing" THEN Finish(p, "abandon", "CANCELED") ELSE Leave(p)

\* What the row and the files decide without the provider.
StatusKnown(p) ==
  LET o == at[p] open == state[o] # "NONE" /\ outcome[o] = "none" IN
  /\ At(p, "status")
  /\ \/ state[o] = "NONE" /\ Observed(p, "MISSING")
     \/ outcome[o] # "none" /\ Observed(p, outcome[o])
     \/ open /\ o \in due /\ Finish(p, mode[p], "FAILED")
     \/ open /\ o \notin due \cup intent /\ Idle(p)
  /\ UNCHANGED <<resVars, fileVars, faults>> /\ Local

\* What the Pod shows.  Output is collected before a success is recorded.
StatusAsked(p) ==
  LET o == at[p] IN
  /\ At(p, "status")
  /\ state[o] # "NONE" /\ outcome[o] = "none" /\ o \in intent \ due
  /\ \/ pod[o] = "gone" /\ Finish(p, mode[p], "FAILED") /\ UNCHANGED <<collected, faults>>
     \/ pod[o] = "ending" /\ Leave(p) /\ UNCHANGED <<collected, faults>>
     \/ Fault("api") /\ Leave(p) /\ UNCHANGED collected
     \/ /\ pod[o] = "up" /\ UNCHANGED faults
        /\ CASE job[o] = "none"    -> Idle(p)
             [] job[o] = "running" -> Observed(p, "RUNNING")
             [] job[o] = "done"    -> Finish(p, mode[p], "SUCCEEDED")
             [] job[o] = "failed"  -> Finish(p, mode[p], "FAILED")
        /\ collected' = IF job[o] = "done" THEN collected \cup {o} ELSE collected
  /\ UNCHANGED <<resVars, workspace, intent>> /\ Local

Active == {"PREPARING", "SUBMITTED", "RUNNING"}

\* The row after observe() recorded r on it.
Recorded(s, m, r) ==
  IF s \in RunFinal \/ (s = "CANCEL_REQUESTED" /\ m # "canceling") THEN s ELSE
  CASE r = "MISSING" /\ m = "canceling"               -> "CANCELED"
    [] r = "MISSING" /\ m # "canceling"               -> IF m = "preparing" THEN "FAILED" ELSE "LOST"
    [] r \in {"FAILED", "CANCELED"}                   -> r
    [] r = "RUNNING" /\ s \in Active                  -> "RUNNING"
    [] r = "SUCCEEDED" /\ s \in Active \cup {"CANCEL_REQUESTED"} -> "POSTPROCESSING"
    [] OTHER                                          -> s

Observe(p) ==
  LET s == status[at[p]] t == Recorded(s, mode[p], result[p]) IN
  /\ At(p, "observe")
  /\ Row(at[p], t)
  /\ IF t = "POSTPROCESSING" THEN Goto(p, "register") ELSE Leave(p)
  /\ UNCHANGED <<due, resVars, podVars, fileVars, lost, faults>>

\* finish() of the processor: output() trusts the recorded verdict and the files.
Register(p) ==
  LET o == at[p] ready == outcome[o] = "SUCCEEDED" /\ o \in collected IN
  /\ At(p, "register") /\ Leave(p)
  /\ \/ status[o] = "POSTPROCESSING" /\ ready /\ Row(o, "SUCCEEDED") /\ UNCHANGED faults
     \/ status[o] = "POSTPROCESSING" /\ Fault("api") /\ UNCHANGED status
     \/ status[o] # "POSTPROCESSING" /\ UNCHANGED <<status, faults>>
  /\ UNCHANGED <<due, resVars, podVars, fileVars, lost>>

-----------------------------------------------------------------------------
(* status() of a playground, and what process() makes of it.               *)

Writes(p, s) == Turn(p, "write", mode[p], s)

\* A preparation is adopted only when it serves; a server that stops serving, or
\* that never starts in time, is stopped.
Judge(p, s) ==
  IF mode[p] = "preparing"
  THEN IF s = "RUNNING" THEN Writes(p, s) ELSE StopPlay(p, mode[p], "FAILED")
  ELSE CASE s \in {"FAILED", "LOST"}              -> StopPlay(p, mode[p], s)
         [] s = "STARTING" /\ mode[p] = "serving" -> StopPlay(p, mode[p], "FAILED")
         [] OTHER                                 -> Writes(p, s)

Look(p) ==
  LET o == at[p] present == state[o] = "BOUND" /\ o \in intent IN
  /\ At(p, "look")
  /\ \/ state[o] = "NONE" /\ Judge(p, "LOST") /\ UNCHANGED faults
     \/ state[o] # "NONE" /\ o \notin intent /\ Judge(p, "FAILED") /\ UNCHANGED faults
     \/ state[o] = "RELEASED" /\ o \in intent /\ Judge(p, "LOST") /\ UNCHANGED faults
     \/ present /\ pod[o] = "gone" /\ Judge(p, "LOST") /\ UNCHANGED faults
     \/ present /\ pod[o] = "ending" /\ Leave(p) /\ UNCHANGED faults
     \/ present /\ Fault("api") /\ Leave(p)
     \/ /\ present /\ pod[o] = "up" /\ UNCHANGED faults
        /\ \/ job[o] \in {"done", "failed"} /\ Judge(p, "FAILED")
           \/ job[o] \in {"none", "running"} /\ cleanup[o] # "NONE" /\ Leave(p)
           \/ job[o] \in {"none", "running"} /\ cleanup[o] = "NONE" /\ Judge(p, "STARTING")
           \/ job[o] = "running" /\ cleanup[o] = "NONE" /\ Judge(p, "RUNNING")
     \* Fifteen minutes after its creation a server must answer.
     \/ /\ present /\ pod[o] = "up" /\ mode[p] = "watching" /\ cleanup[o] = "NONE"
        /\ StopPlay(p, mode[p], "FAILED") /\ UNCHANGED faults
  /\ UNCHANGED <<resVars, fileVars>> /\ Local

RemoveFiles(p) ==
  LET o == at[p] IN
  /\ At(p, "rmtree")
  /\ workspace' = workspace \ {o} /\ intent' = intent \ {o}
  /\ IF mode[p] = "sweep" THEN Leave(p) ELSE Goto(p, "write")
  /\ UNCHANGED <<resVars, collected, faults>> /\ Local

\* update() and the trigger of the table.
Accepts(s, t) ==
  \/ s = "PREPARING" /\ t \in {"STARTING", "RUNNING", "FAILED"}
  \/ s = "STARTING" /\ t \in {"STARTING", "RUNNING", "FAILED", "LOST"}
  \/ s = "RUNNING" /\ t \in {"STARTING", "RUNNING", "FAILED", "LOST"}
  \/ s = "STOP_REQUESTED" /\ t = "STOPPED"

Write(p) ==
  LET o == at[p] IN
  /\ At(p, "write") /\ Leave(p)
  /\ Row(o, IF Accepts(status[o], result[p]) THEN result[p] ELSE status[o])
  /\ UNCHANGED <<due, resVars, podVars, fileVars, lost, faults>>

-----------------------------------------------------------------------------
(* The environment.                                                        *)

PodAppears(o) ==
  /\ pod[o] = "coming" /\ pod' = [pod EXCEPT ![o] = "up"]
  /\ UNCHANGED <<status, due, resVars, job, fileVars, claim, procVars, lost, faults>>

PodEnds(o) ==
  /\ pod[o] = "ending" /\ pod' = [pod EXCEPT ![o] = "gone"]
  /\ UNCHANGED <<status, due, resVars, job, fileVars, claim, procVars, lost, faults>>

PodDies(o) ==
  /\ pod[o] = "up" /\ Fault("removal") /\ pod' = [pod EXCEPT ![o] = "gone"]
  /\ UNCHANGED <<status, due, resVars, job, fileVars, claim, procVars, lost>>

\* Training ends by itself or at its own time limit; a server does not.
JobEnds(o) ==
  /\ job[o] = "running" /\ pod[o] = "up"
  /\ \/ o \in Runs /\ \E r \in {"done", "failed"} : job' = [job EXCEPT ![o] = r]
        /\ UNCHANGED faults
     \/ o \in Plays /\ Fault("server") /\ job' = [job EXCEPT ![o] = "failed"]
  /\ UNCHANGED <<status, due, resVars, pod, fileVars, claim, procVars, lost>>

\* The deadline of a run's resource, the lease of a playground.
Expire(o) ==
  /\ o \notin due
  /\ IF o \in Runs THEN state[o] # "NONE" ELSE status[o] # "ABSENT"
  /\ due' = due \cup {o}
  /\ UNCHANGED <<status, resVars, podVars, fileVars, claim, procVars, lost, faults>>

Crash(p) ==
  /\ pc[p] # "idle" /\ Fault("crash") /\ Leave(p)
  /\ UNCHANGED <<status, due, resVars, podVars, fileVars, lost>>

ClaimLost(p) ==
  LET o == at[p] IN
  /\ pc[p] # "idle" /\ claim[o] = p /\ Fault("claim")
  /\ claim' = [claim EXCEPT ![o] = NoProc] /\ lost' = lost \cup {o}
  /\ UNCHANGED <<status, due, resVars, podVars, fileVars, procVars>>

Step(p) ==
  \/ MakeWorkspace(p) \/ Reserve(p) \/ Post(p) \/ BindPod(p) \/ AwaitTraining(p) \/ AwaitServing(p)
  \/ TouchTraining(p) \/ TouchServing(p) \/ Launch(p) \/ Launched(p)
  \/ Pending(p) \/ Terminate(p) \/ Confirm(p) \/ Release(p)
  \/ StatusKnown(p) \/ StatusAsked(p) \/ Observe(p) \/ Register(p)
  \/ Look(p) \/ RemoveFiles(p) \/ Write(p)

Take(p, o) == TakeRun(p, o) \/ TakeLivePlay(p, o) \/ StopAgain(p, o) \/ Sweep(p, o)

Next ==
  \/ \E o \in Owners : Create(o) \/ Cancel(o) \/ Stop(o)
  \/ \E p \in Procs : Step(p) \/ Crash(p) \/ ClaimLost(p) \/ \E o \in Owners : Take(p, o)
  \/ \E o \in Owners : PodAppears(o) \/ PodEnds(o) \/ PodDies(o) \/ JobEnds(o) \/ Expire(o)

Spec == Init /\ [][Next]_vars

\* The loops keep running, every scan tries every owner, and the provider finishes
\* what it accepted.
Fairness ==
  /\ \A p \in Procs : WF_vars(Step(p))
  /\ \A p \in Procs, o \in Owners : SF_vars(Take(p, o))
  /\ \A o \in Owners : WF_vars(PodAppears(o)) /\ WF_vars(PodEnds(o)) /\ WF_vars(Expire(o))

FairSpec == Spec /\ Fairness

-----------------------------------------------------------------------------
(* Properties.                                                             *)

\* What is billed is on record: a lost answer, a crash or a lost claim never leaves a
\* Pod whose row was given up (the INTENT before the POST, the confirmation before
\* RELEASED).
EveryPodIsOwned == \A o \in Owners : pod[o] \in Billed => o \in Held

\* The operator's ceiling holds for what is billed, not only for what is recorded.
CapacityHolds ==
  LET billed == {o \in Owners : pod[o] \in Billed} IN
  /\ Cardinality(billed) <= GlobalLimit
  /\ \A t \in {Target[o] : o \in Owners} :
       Cardinality({o \in billed : Target[o] = t}) <= TargetLimit

\* Deadline, cancellation, disappearance and verified completion race for one verdict:
\* a run succeeds only with the recorded success and the collected output, and a
\* recorded success is never turned into another end.  The latter needs the claim: a
\* worker that lost it may still be about to reserve the Pod of a run that a second
\* worker, finding no row, has failed, and then train to a success nobody records.
VerdictIsKept ==
  \A r \in Runs :
    /\ status[r] = "SUCCEEDED" => outcome[r] = "SUCCEEDED" /\ r \in collected
    /\ r \notin lost /\ status[r] \in RunFinal /\ outcome[r] = "SUCCEEDED" =>
         status[r] = "SUCCEEDED"

\* A playground that is over no longer costs anything.
OverIsFree == \A o \in Plays \ lost : status[o] \in PlayFinal => pod[o] \notin Billed

\* Rows, requests and Pods agree, whatever answers, crashes and claims are lost: no row
\* holds a value its column refuses, and what is over is paid for no longer.
Consistent == TypeOK /\ OverIsFree

\* Every Pod the provider listed is returned, whatever became of its owner.
PodsAreReturned == \A o \in Owners : pod[o] = "up" ~> pod[o] = "gone"
=============================================================================
