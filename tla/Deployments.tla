---------------------------- MODULE Deployments ----------------------------
(***************************************************************************)
(* Temporary playgrounds: the rows the web process creates and changes     *)
(* (app/services/deployments.py), the ticks of the workers and reconcilers *)
(* over them, and the local vLLM containers, networks and workspaces they  *)
(* own (app/deployments/local.py).                                         *)
(*                                                                         *)
(* As for training, a per-deployment advisory claim serializes external    *)
(* effects, and every transaction is short: a user's stop, keep or extend  *)
(* interleaves with the process that holds the claim.  The current time is *)
(* not a variable: `left` is how much of the lease remains, `age` how old  *)
(* the deployment is, and Elapse moves both.                               *)
(***************************************************************************)
EXTENDS Naturals, FiniteSets

CONSTANTS
  Playgrounds, \* identifiers of deployments
  Workers,     \* processes running `background worker`
  Reconcilers, \* processes running `background reconciler`
  Chat,        \* a web request that holds a claim to chat
  NoProc,      \* nobody holds a claim
  None,        \* an idle process works on no deployment
  Leases,      \* lease and extension lengths a user may ask for
  Day,         \* the longest a lease can reach into the future
  Deadline,    \* the age after which a server must be ready
  FaultKinds,  \* which faults of the environment can happen
  MaxFaults    \* how many of them can happen in one behaviour

Procs == Workers \cup Reconcilers

\* crash: a background process dies and restarts; claim: the connection that
\* holds a claim dies while its process goes on; daemon: a Docker command fails
\* or times out, with or without its effect; storage: the workspace or the model
\* bytes cannot be written or removed; removal: somebody else removes a
\* container; server: vLLM exits or stops answering its health check.
Kinds == {"crash", "claim", "daemon", "storage", "removal", "server"}

ASSUME RolesAssumption == Workers \cap Reconcilers = {}
ASSUME NullsAssumption ==
  /\ NoProc \notin Procs /\ Chat \notin Procs /\ Chat # NoProc
  /\ None \notin Playgrounds
ASSUME TimesAssumption ==
  Day \in Nat /\ Deadline \in Nat /\ Leases \subseteq 1..Day
ASSUME FaultsAssumption == FaultKinds \subseteq Kinds /\ MaxFaults \in Nat

VARIABLES
  status,      \* deployments.status
  keep,        \* keep_running
  left,        \* expires_at - now, or 0 once it has passed
  age,         \* now - created_at, or Deadline + 1 once it is larger
  container,   \* what the Docker daemon has under the deployment's name
  network,     \* the deployment's private network exists
  workspace,   \* the deployment's workspace directory exists
  claim,       \* holder of pg_try_advisory_xact_lock for the deployment
  pc, at,      \* a process: its next step and the deployment it works on
  result,      \* the status its update() is going to write
  served,      \* history: deployments whose server has been healthy
  lost,        \* history: deployments whose claim was lost under its holder
  faults       \* how many faults may still happen

rowVars  == <<status, keep, left>>
hostVars == <<container, network, workspace>>
procVars == <<pc, at, result>>
histVars == <<served, lost>>
vars     == <<rowVars, age, hostVars, claim, procVars, histVars, faults>>

Absent == "ABSENT"
TERMINAL == {"STOPPED", "FAILED", "LOST"}
State == TERMINAL \cup {"QUEUED", "PREPARING", "STARTING", "RUNNING", "STOP_REQUESTED"}
Live == State \ TERMINAL

\* The trigger kitchensoup_guard_deployment.  A row may be written unchanged.
GUARD ==
  [s \in State |->
     CASE s = "QUEUED"         -> {"PREPARING", "STOP_REQUESTED"}
       [] s = "PREPARING"      -> {"STARTING", "RUNNING", "FAILED", "STOP_REQUESTED"}
       [] s = "STARTING"       -> {"RUNNING", "FAILED", "LOST", "STOP_REQUESTED"}
       [] s = "RUNNING"        -> {"STARTING", "FAILED", "LOST", "STOP_REQUESTED"}
       [] s = "STOP_REQUESTED" -> {"STOPPED"}
       [] s \in TERMINAL       -> {}]

\* A container that runs is loading its model or serving.
Up == {"loading", "serving"}
Deploying == {"mkdir", "materialize", "network", "create", "start"}
Removing == {"rm", "network rm", "rmtree"}
Steps == Deploying \cup Removing \cup {"idle", "recover", "watch", "update"}

TypeOK ==
  /\ status \in [Playgrounds -> State \cup {Absent}]
  /\ keep \in [Playgrounds -> BOOLEAN]
  /\ left \in [Playgrounds -> 0..Day]
  /\ age \in [Playgrounds -> 0..(Deadline + 1)]
  /\ container \in [Playgrounds -> {"none", "created", "exited"} \cup Up]
  /\ network \in [Playgrounds -> BOOLEAN] /\ workspace \in [Playgrounds -> BOOLEAN]
  /\ claim \in [Playgrounds -> Procs \cup {Chat, NoProc}]
  /\ pc \in [Procs -> Steps]
  /\ at \in [Procs -> Playgrounds \cup {None}]
  /\ result \in [Procs -> State \cup {"none"}]
  /\ served \subseteq Playgrounds
  /\ lost \subseteq Playgrounds
  /\ faults \in Nat

Init ==
  /\ status = [d \in Playgrounds |-> Absent] /\ keep = [d \in Playgrounds |-> FALSE]
  /\ left = [d \in Playgrounds |-> 0] /\ age = [d \in Playgrounds |-> 0]
  /\ container = [d \in Playgrounds |-> "none"]
  /\ network = [d \in Playgrounds |-> FALSE] /\ workspace = [d \in Playgrounds |-> FALSE]
  /\ claim = [d \in Playgrounds |-> NoProc]
  /\ pc = [p \in Procs |-> "idle"] /\ at = [p \in Procs |-> None]
  /\ result = [p \in Procs |-> "none"]
  /\ served = {} /\ lost = {}
  /\ faults = MaxFaults

-----------------------------------------------------------------------------
(* Helpers.                                                                *)

Fault(kind) == kind \in FaultKinds /\ faults > 0 /\ faults' = faults - 1

Expired(d) == ~keep[d] /\ left[d] = 0

Goto(p, step) == pc' = [pc EXCEPT ![p] = step]

\* The process goes on to its next step with the result it has.
Proceed(p, step) == Goto(p, step) /\ UNCHANGED <<claim, at, result>>

\* The process will write s, in update(), after the steps from `step` on.
Settle(p, s, step) ==
  /\ Goto(p, step)
  /\ result' = [result EXCEPT ![p] = s]
  /\ UNCHANGED <<claim, at>>

\* process() returns or raises: the claim ends with its transaction.  tick()
\* goes on after ExecutorError; an OSError or a database error ends the tick or
\* the process, and the next scan finds the row as it is.
Leave(p) ==
  /\ pc' = [pc EXCEPT ![p] = "idle"] /\ at' = [at EXCEPT ![p] = None]
  /\ result' = [result EXCEPT ![p] = "none"]
  /\ claim' = [d \in Playgrounds |-> IF claim[d] = p THEN NoProc ELSE claim[d]]

-----------------------------------------------------------------------------
(* The web process.                                                        *)

Create(d, minutes) ==
  /\ status[d] = Absent
  /\ status' = [status EXCEPT ![d] = "QUEUED"]
  /\ left' = [left EXCEPT ![d] = minutes]
  /\ UNCHANGED <<keep, age, hostVars, claim, procVars, histVars, faults>>

\* The row is locked for the whole action, and the claim is not taken.
Open(d) == status[d] \in Live \ {"STOP_REQUESTED"}

Stop(d) ==
  /\ Open(d)
  /\ status' = [status EXCEPT ![d] = "STOP_REQUESTED"]
  /\ UNCHANGED <<keep, left, age, hostVars, claim, procVars, histVars, faults>>

\* Mutation: keep revives an expired lease.
Keep_Revives(d) ==
  /\ Open(d)
  /\ keep' = [keep EXCEPT ![d] = TRUE]
  /\ UNCHANGED <<status, left, age, hostVars, claim, procVars, histVars, faults>>

Keep(d) ==
  /\ Open(d) /\ ~Expired(d)
  /\ keep' = [keep EXCEPT ![d] = TRUE]
  /\ UNCHANGED <<status, left, age, hostVars, claim, procVars, histVars, faults>>

\* Mutation: extensions add up without the ceiling of one day from now.
Extend_Uncapped(d, minutes) ==
  /\ Open(d) /\ ~Expired(d)
  /\ keep' = [keep EXCEPT ![d] = FALSE]
  /\ left' = [left EXCEPT ![d] = @ + minutes]
  /\ UNCHANGED <<status, age, hostVars, claim, procVars, histVars, faults>>

\* min(max(expires_at, now) + minutes, now + one day), counted from now.
Extend(d, minutes) ==
  /\ Open(d) /\ ~Expired(d)
  /\ keep' = [keep EXCEPT ![d] = FALSE]
  /\ left' = [left EXCEPT ![d] = IF @ + minutes <= Day THEN @ + minutes ELSE Day]
  /\ UNCHANGED <<status, age, hostVars, claim, procVars, histVars, faults>>

\* A chat, streaming or not, holds the claim until the server answers or the
\* request fails; either way it leaves a local deployment as it is.
ChatBegins(d) ==
  /\ claim[d] = NoProc
  /\ status[d] = "RUNNING" /\ ~Expired(d)
  /\ claim' = [claim EXCEPT ![d] = Chat]
  /\ UNCHANGED <<rowVars, age, hostVars, procVars, histVars, faults>>

ChatEnds(d) ==
  /\ claim[d] = Chat
  /\ claim' = [claim EXCEPT ![d] = NoProc]
  /\ UNCHANGED <<rowVars, age, hostVars, procVars, histVars, faults>>

-----------------------------------------------------------------------------
(* tick() and process(): every scan tries each deployment that is not      *)
(* terminal; process() takes the claim, locks the row and reads it again.  *)

\* What a role does for a deployment in state s, as its next step.
Route(p, s) ==
  CASE s = "STOP_REQUESTED"                             -> "rm"
    [] p \in Workers /\ s = "QUEUED"                    -> "mkdir"
    [] p \in Workers /\ s = "PREPARING"                 -> "recover"
    [] p \in Reconcilers /\ s \in {"STARTING", "RUNNING"} -> "watch"
    [] OTHER                                            -> "idle"

\* Mutation: the answer of pg_try_advisory_xact_lock is ignored.
Take_Unclaimed(p, d) ==
  LET s == IF Expired(d) THEN "STOP_REQUESTED" ELSE status[d] IN
  /\ pc[p] = "idle"
  /\ status[d] \in Live /\ Route(p, s) # "idle"
  /\ status' = [status EXCEPT ![d] = IF s = "QUEUED" THEN "PREPARING" ELSE s]
  /\ claim' = [claim EXCEPT ![d] = p]
  /\ at' = [at EXCEPT ![p] = d]
  /\ Goto(p, Route(p, s))
  /\ result' = [result EXCEPT ![p] = IF s = "STOP_REQUESTED" THEN "STOPPED" ELSE "none"]
  /\ UNCHANGED <<keep, left, age, hostVars, histVars, faults>>

\* A lease that is over asks for the stop itself; QUEUED becomes PREPARING in
\* the same transaction.  A role with nothing to do leaves the row as it is.
Take(p, d) ==
  LET s == IF Expired(d) THEN "STOP_REQUESTED" ELSE status[d] IN
  /\ pc[p] = "idle"
  /\ claim[d] = NoProc
  /\ status[d] \in Live /\ Route(p, s) # "idle"
  /\ status' = [status EXCEPT ![d] = IF s = "QUEUED" THEN "PREPARING" ELSE s]
  /\ claim' = [claim EXCEPT ![d] = p]
  /\ at' = [at EXCEPT ![p] = d]
  /\ Goto(p, Route(p, s))
  /\ result' = [result EXCEPT ![p] = IF s = "STOP_REQUESTED" THEN "STOPPED" ELSE "none"]
  /\ UNCHANGED <<keep, left, age, hostVars, histVars, faults>>

-----------------------------------------------------------------------------
(* executor.deploy(): an ExecutorError stops the deployment and fails it.  *)

DeployFailed(p) == Settle(p, "FAILED", "rm")

\* Nothing may be there yet.  A directory that cannot be made raises OSError,
\* which nothing on the way out of the process catches.
MakeWorkspace(p) ==
  LET d == at[p] free == ~workspace[at[p]] /\ container[at[p]] = "none" IN
  /\ pc[p] = "mkdir"
  /\ \/ /\ free
        /\ workspace' = [workspace EXCEPT ![d] = TRUE]
        /\ Proceed(p, "materialize")
        /\ UNCHANGED faults
     \/ ~free /\ DeployFailed(p) /\ UNCHANGED <<workspace, faults>>
     \/ Fault("daemon") /\ DeployFailed(p) /\ UNCHANGED workspace
     \/ Fault("storage") /\ Leave(p) /\ UNCHANGED workspace
  /\ UNCHANGED <<rowVars, age, container, network, histVars>>

Materialize(p) ==
  /\ pc[p] = "materialize"
  /\ \/ workspace[at[p]] /\ Proceed(p, "network") /\ UNCHANGED faults
     \/ ~workspace[at[p]] /\ DeployFailed(p) /\ UNCHANGED faults
     \/ Fault("storage") /\ DeployFailed(p)
  /\ UNCHANGED <<rowVars, age, hostVars, histVars>>

\* network(create=True) takes a network of its own that is there already.
CreateNetwork(p) ==
  LET d == at[p] IN
  /\ pc[p] = "network"
  /\ \/ network' = [network EXCEPT ![d] = TRUE] /\ Proceed(p, "create") /\ UNCHANGED faults
     \/ /\ Fault("daemon") /\ DeployFailed(p)
        /\ network' \in {network, [network EXCEPT ![d] = TRUE]}
  /\ UNCHANGED <<rowVars, age, container, workspace, histVars>>

\* docker create needs the name to be free and the mounted directory to be there.
DockerCreate(p) ==
  LET d == at[p]
      free == container[d] = "none" /\ workspace[d]
      made == [container EXCEPT ![d] = "created"]
  IN
  /\ pc[p] = "create"
  /\ \/ free /\ container' = made /\ Proceed(p, "start") /\ UNCHANGED faults
     \/ ~free /\ DeployFailed(p) /\ UNCHANGED <<container, faults>>
     \/ Fault("daemon") /\ DeployFailed(p) /\ (UNCHANGED container \/ (free /\ container' = made))
  /\ UNCHANGED <<rowVars, age, network, workspace, histVars>>

\* docker start needs the container's network.
DockerStart(p) ==
  LET d == at[p]
      able == container[d] \in {"created", "exited"} /\ network[d]
      started == [container EXCEPT ![d] = "loading"]
  IN
  /\ pc[p] = "start"
  /\ \/ able /\ container' = started /\ Settle(p, "STARTING", "update") /\ UNCHANGED faults
     \/ /\ container[d] \in Up
        /\ Settle(p, "STARTING", "update")
        /\ UNCHANGED <<container, faults>>
     \/ ~able /\ container[d] \notin Up /\ DeployFailed(p) /\ UNCHANGED <<container, faults>>
     \/ Fault("daemon") /\ DeployFailed(p) /\ (UNCHANGED container \/ (able /\ container' = started))
  /\ UNCHANGED <<rowVars, age, network, workspace, histVars>>

-----------------------------------------------------------------------------
(* executor.status(), and what process() concludes from it.                *)

Observed(d) ==
  CASE container[d] = "none"                  -> "LOST"
    [] container[d] \in {"created", "exited"} -> "FAILED"
    [] container[d] = "loading"               -> "STARTING"
    [] container[d] = "serving"               -> "RUNNING"

\* Mutation: recovery adopts any container that runs.
Recover_Unhealthy(p) ==
  LET d == at[p] IN
  /\ pc[p] = "recover"
  /\ \/ container[d] \in Up /\ Settle(p, "RUNNING", "update") /\ UNCHANGED faults
     \/ container[d] \notin Up /\ Settle(p, "FAILED", "rm") /\ UNCHANGED faults
     \/ Fault("daemon") /\ Leave(p)
  /\ UNCHANGED <<rowVars, age, hostVars, histVars>>

\* A worker that finds PREPARING adopts a healthy server and never replays the
\* launch.
Recover(p) ==
  LET d == at[p] IN
  /\ pc[p] = "recover"
  /\ \/ Observed(d) = "RUNNING" /\ Settle(p, "RUNNING", "update") /\ UNCHANGED faults
     \/ Observed(d) # "RUNNING" /\ Settle(p, "FAILED", "rm") /\ UNCHANGED faults
     \/ Fault("daemon") /\ Leave(p)
  /\ UNCHANGED <<rowVars, age, hostVars, histVars>>

\* Mutation: a server may load for ever.
TooLate_Never(d) == FALSE

TooLate(d) == age[d] > Deadline

\* The deadline counts for a server that has been ready before, too.
Watch(p) ==
  LET d == at[p]
      s == Observed(d)
      over == s \in {"FAILED", "LOST"} \/ (s = "STARTING" /\ TooLate(d))
  IN
  /\ pc[p] = "watch"
  /\ \/ over /\ Settle(p, IF s = "LOST" THEN s ELSE "FAILED", "rm") /\ UNCHANGED faults
     \/ ~over /\ Settle(p, s, "update") /\ UNCHANGED faults
     \/ Fault("daemon") /\ Leave(p)
  /\ UNCHANGED <<rowVars, age, hostVars, histVars>>

-----------------------------------------------------------------------------
(* executor.stop() and update().  Each step of stop() looks first and does *)
(* nothing when its resource is gone; an ExecutorError leaves the row as   *)
(* it is.                                                                  *)

\* Mutation: a container that is not there cannot be removed.
RemoveContainer_MustExist(p) ==
  LET d == at[p] gone == [container EXCEPT ![d] = "none"] IN
  /\ pc[p] = "rm"
  /\ \/ /\ container[d] # "none"
        /\ container' = gone /\ Proceed(p, "network rm") /\ UNCHANGED faults
     \/ container[d] = "none" /\ Leave(p) /\ UNCHANGED <<container, faults>>
     \/ Fault("daemon") /\ Leave(p) /\ container' \in {container, gone}
  /\ UNCHANGED <<rowVars, age, network, workspace, histVars>>

RemoveContainer(p) ==
  LET d == at[p] gone == [container EXCEPT ![d] = "none"] IN
  /\ pc[p] = "rm"
  /\ \/ container' = gone /\ Proceed(p, "network rm") /\ UNCHANGED faults
     \/ Fault("daemon") /\ Leave(p) /\ container' \in {container, gone}
  /\ UNCHANGED <<rowVars, age, network, workspace, histVars>>

\* Docker does not remove the network of a container that runs.
RemoveNetwork(p) ==
  LET d == at[p]
      idle == container[d] \notin Up
      gone == [network EXCEPT ![d] = FALSE]
  IN
  /\ pc[p] = "network rm"
  /\ \/ /\ idle \/ ~network[d]
        /\ network' = gone /\ Proceed(p, "rmtree") /\ UNCHANGED faults
     \/ ~idle /\ network[d] /\ Leave(p) /\ UNCHANGED <<network, faults>>
     \/ Fault("daemon") /\ Leave(p) /\ (UNCHANGED network \/ (idle /\ network' = gone))
  /\ UNCHANGED <<rowVars, age, container, workspace, histVars>>

\* Mutation: a failing rmtree is ignored.
RemoveWorkspace_ErrorIgnored(p) ==
  /\ pc[p] = "rmtree"
  /\ \/ workspace' = [workspace EXCEPT ![at[p]] = FALSE] /\ UNCHANGED faults
     \/ Fault("storage") /\ UNCHANGED workspace
  /\ Proceed(p, "update")
  /\ UNCHANGED <<rowVars, age, container, network, histVars>>

\* A removal that fails half-way leaves the directory.
RemoveWorkspace(p) ==
  /\ pc[p] = "rmtree"
  /\ \/ /\ workspace' = [workspace EXCEPT ![at[p]] = FALSE]
        /\ Proceed(p, "update")
        /\ UNCHANGED faults
     \/ Fault("storage") /\ Leave(p) /\ UNCHANGED workspace
  /\ UNCHANGED <<rowVars, age, container, network, histVars>>

\* A stop request during preparation or observation always wins.
Written(s, new) == IF s = "STOP_REQUESTED" /\ new # "STOPPED" THEN s ELSE new

Allowed(s, new) == new = s \/ new \in GUARD[s]

\* A write the guard refuses raises a database error: main() logs it and the
\* next scan finds the row as it was.
Update(p) ==
  LET d == at[p] new == Written(status[at[p]], result[p]) IN
  /\ pc[p] = "update"
  /\ \/ Allowed(status[d], new) /\ status' = [status EXCEPT ![d] = new]
     \/ ~Allowed(status[d], new) /\ UNCHANGED status
  /\ Leave(p)
  /\ UNCHANGED <<keep, left, age, hostVars, histVars, faults>>

-----------------------------------------------------------------------------
(* The environment.                                                        *)

\* Time passes, for every deployment that exists.
Elapse ==
  LET Exists(d) == status[d] # Absent IN
  /\ left' = [d \in Playgrounds |->
                IF Exists(d) /\ left[d] > 0 THEN left[d] - 1 ELSE left[d]]
  /\ age' = [d \in Playgrounds |->
               IF Exists(d) /\ age[d] <= Deadline THEN age[d] + 1 ELSE age[d]]
  /\ UNCHANGED <<status, keep, hostVars, claim, procVars, histVars, faults>>

ServerReady(d) ==
  /\ container[d] = "loading"
  /\ container' = [container EXCEPT ![d] = "serving"]
  /\ served' = served \cup {d}
  /\ UNCHANGED <<rowVars, age, network, workspace, claim, procVars, lost, faults>>

\* vLLM exits, or its health check times out for a while.
ServerFails(d) ==
  /\ container[d] \in Up
  /\ Fault("server")
  /\ \/ container' = [container EXCEPT ![d] = "exited"]
     \/ container[d] = "serving" /\ container' = [container EXCEPT ![d] = "loading"]
  /\ UNCHANGED <<rowVars, age, network, workspace, claim, procVars, histVars>>

ContainerRemoved(d) ==
  /\ container[d] # "none"
  /\ Fault("removal")
  /\ container' = [container EXCEPT ![d] = "none"]
  /\ UNCHANGED <<rowVars, age, network, workspace, claim, procVars, histVars>>

Crash(p) ==
  /\ pc[p] # "idle"
  /\ Fault("crash")
  /\ Leave(p)
  /\ UNCHANGED <<rowVars, age, hostVars, histVars>>

ClaimLost(d) ==
  /\ claim[d] # NoProc
  /\ Fault("claim")
  /\ claim' = [claim EXCEPT ![d] = NoProc]
  /\ lost' = lost \cup {d}
  /\ UNCHANGED <<rowVars, age, hostVars, procVars, served>>

-----------------------------------------------------------------------------
(* The system.                                                             *)

Web(d) ==
  \/ Stop(d) \/ Keep(d) \/ ChatBegins(d) \/ ChatEnds(d)
  \/ \E minutes \in Leases : Create(d, minutes) \/ Extend(d, minutes)

Deploy(p) == \/ MakeWorkspace(p) \/ Materialize(p) \/ CreateNetwork(p)
             \/ DockerCreate(p) \/ DockerStart(p)

Remove(p) == RemoveContainer(p) \/ RemoveNetwork(p) \/ RemoveWorkspace(p)

\* The next step of a process that works on a deployment.
Step(p) == Deploy(p) \/ Recover(p) \/ Watch(p) \/ Remove(p) \/ Update(p)

Environment ==
  \/ Elapse
  \/ \E d \in Playgrounds : ServerReady(d) \/ ServerFails(d) \/ ContainerRemoved(d) \/ ClaimLost(d)
  \/ \E p \in Procs : Crash(p)

Next ==
  \/ \E d \in Playgrounds : Web(d)
  \/ \E p \in Procs : Step(p) \/ (\E d \in Playgrounds : Take(p, d))
  \/ Environment

Spec == Init /\ [][Next]_vars

\* Every scan of a process tries every live deployment, commands return or time
\* out, and chats are answered or time out.
FairSpec ==
  /\ Spec
  /\ WF_vars(Elapse)
  /\ \A p \in Procs : WF_vars(Step(p))
  /\ \A p \in Procs, d \in Playgrounds : WF_vars(Take(p, d))
  /\ \A d \in Playgrounds : WF_vars(ChatEnds(d))

-----------------------------------------------------------------------------
(* Properties.                                                             *)

\* A deployment that is over has given everything back: no container that may
\* hold a GPU, no network, no copy of the model.  It can fail for a deployment
\* whose claim was lost under the process that launches it.
TerminalIsFree ==
  \A d \in Playgrounds \ lost : status[d] \in TERMINAL =>
    /\ container[d] = "none" /\ ~network[d] /\ ~workspace[d]
    /\ \A p \in Procs : at[p] = d => pc[p] \notin Deploying

\* Whatever users did to the row since a process took it, the guard accepts what
\* the process is going to write: while claims hold no tick dies of it.
UpdatesFit ==
  \A p \in Procs :
    pc[p] = "update" /\ at[p] \notin lost =>
      Allowed(status[at[p]], Written(status[at[p]], result[p]))

\* RUNNING is shown only for a server that has answered its health check, also
\* when a worker adopts what a dead one left ("adopt only a verified healthy
\* server").
RunningWasHealthy ==
  \A d \in Playgrounds : status[d] = "RUNNING" => d \in served

\* While a chat waits for its answer no process works on its deployment: stopping
\* and expiry wait for the claim.
ChatIsUndisturbed ==
  \A d \in Playgrounds \ lost : claim[d] = Chat => \A p \in Procs : at[p] # d

\* A stop request is carried out, whatever holds the claim and whatever fails.
StopIsDone ==
  \A d \in Playgrounds : status[d] = "STOP_REQUESTED" ~> status[d] = "STOPPED"

\* A lease that is over ends the deployment: no action revives it.
LeaseEnds ==
  \A d \in Playgrounds : status[d] \in Live /\ Expired(d) ~> status[d] \in TERMINAL

\* A launch is decided: the server becomes ready or the deployment ends, also
\* when it is kept running and its server would load for ever.
LaunchIsDecided ==
  \A d \in Playgrounds :
    status[d] \in {"QUEUED", "PREPARING", "STARTING"} ~> status[d] \in TERMINAL \cup {"RUNNING"}

\* Whatever a playground was asked, a launch or a stop, is carried out, although
\* processes die, commands fail and claims are lost on the way.
RequestsAreDecided == StopIsDone /\ LaunchIsDecided
=============================================================================
