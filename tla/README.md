# KitchenSoup, modelled and checked

KitchenSoup turns documents and conversations into datasets, fine-tunes models
on them with containers that run for hours, registers the results, evaluates,
transforms and serves them. A web process accepts requests; any number of
`worker` and `reconciler` processes do the work; PostgreSQL owns every state;
Valkey carries hints; object storage holds the bytes; Docker, SSH hosts,
Kubernetes, SageMaker or Runpod run the containers. None of the effects outside
PostgreSQL is part of a transaction, and that is what these modules are about.

All paths below are relative to `src/`.

## 1. Inventory

| Component | State it keeps | Operations | Interacts with |
|---|---|---|---|
| Training runs (`app/services/runs.py`) | `training_runs`, one row per attempt | create, clone, cancel, container cleanup, list, logs | row locks against the processor, claim for cleanup, hint per change |
| Jobs (`app/jobs`) | none of its own: claims and hints | tick, process, recover, observe, finish | row, advisory claim, executor, registrar |
| State guard (`app/jobs/states.py`, `alembic/versions/0010_job_state_guards.py`) | `job_events` | validate, append an event per change | every writer of a run |
| Local Docker executor (`app/executors/local_docker.py`) | workspace directory, `launch.json`, `canceled` marker, container | submit, status, cancel, cleanup, output, logs | Docker daemon, workspace lock |
| Output registration (`app/services/outputs.py`) | `model_versions`, `artifacts`, derivations, one stored object | register, inside the transaction that succeeds the run | executor output, object storage |
| Event stream (`app/api/runs.py`, `app/ui/static/training-runs.js`) | a cursor per connection, the list on the page | query, snapshot, drain, reconnect | `job_events`, the browser |
| Background loop (`app/background.py`) | none | one tick of each service every two seconds | all services |
| Deployments (`app/services/deployments.py`, `app/deployments`) | `deployments` rows with leases, serving containers | create, stop, keep, extend, chat, stream, process | claim, row lock, executors |
| Runpod resources (`app/targets/runpod_lifecycle.py`, `app/executors/runpod.py`) | `runpod_resources`: intent, bound Pods, outcome, cleanup | reserve, create, bind, inspect, pending, cleanup, release | provider API, training and deployment states |
| Transformations (`app/services/transformations.py`) | `artifact_transformations`, output artifact | create (deduplicated), process, register | claim, container, storage |
| Evaluations (`app/services/evaluations.py`) | tasks, responses, preferences, reports | submit, process, preference, report | the run's claim, GPU container, storage |
| Artifacts and retention (`app/services/artifacts.py`, `app/storage`) | uploads, artifacts, raw deletions, objects | initiate, complete, sweep, request and perform deletion | object storage without transactions |
| Documents, conversations, dataset versions (`app/services/documents.py`, `conversations.py`, `versions.py`) | numbered extractions, imports, immutable versions | extract, import, snapshot | row locks on datasets and originals |
| Lineage (`app/services/lineage.py`) | two acyclic graphs | insert an edge | advisory lock |
| SSH, Kubernetes, SageMaker training (`app/executors`) | staged input, Jobs, create markers, files of the run's workspace | the executor port of training | remote services that refuse, lose or delay |
| Kubernetes, SageMaker, Runpod playgrounds (`app/deployments`) | resources at the target, a journal of intents | the executor port of deployments | the same |
| Everything else | plans, recipes, models, providers, targets, parsing, pages | single transactions and pure functions | |

What is hard, and what makes each component correct:

- **Training.** A cancel request races every step of a submission that takes
  minutes. A process may die between creating the workspace, creating the
  container, starting it and writing the row; a command may fail after taking
  effect; wakeups are lost and duplicated; the claim is held by a connection
  that can die alone. Correct means: training starts at most once per run; a
  final run is quiet; an error is never taken for absence; success, the model
  version and its bytes come together; a cancel request is never undone; every
  run settles.
- **Event stream.** The run moves between the two reads of one poll, the server
  ends a connection after thirty polls, the network at any time. Correct means:
  the page shows a gapless history once, complete when it stops listening.
- **Deployments.** Stop always wins; a lease ends service even if a client holds
  a stream open; a terminal deployment occupies no GPU.
- **Runpod.** A billed Pod must be known before it exists; capacity is given back
  only after confirmed termination; the first recorded outcome stays.
- **Transformations and evaluations.** Work found under way after a crash is
  adopted or stopped, never repeated blindly; registration can be retried.
- **Remote targets.** A create request whose answer is lost may have worked, may
  still work, or never will; staging Pods are evicted; outputs are damaged. Correct
  means: nothing is left at a target that nobody can find, nothing runs for a row
  that is over, and finished work is not thrown away.
- **Artifacts and datasets.** A copied object is registered or collected, never
  both; an original under deletion is attached to nothing new, and one that
  something was derived from is not deleted; numbers have no gap or duplicate.

`PROJECT.json` lists these hazards at their lines, with the properties that
would catch each of them.

## 2. Modules

| Module | Models | Uses |
|---|---|---|
| `JobStates` | the runs and what others see of them (`status`, `log`, `registered`, `starts`), the ten states, the transition table, legal paths of one transaction | |
| `TrainingContract` | abstract specification: what a client may rely on | `JobStates` |
| `TrainingJobs` | web process, workers, reconcilers, Docker executor, registrar, faults | `JobStates`, `TrainingContract` |
| `TrainingJobs_proofs` | theorems about `TrainingJobs`, about `RunEvents`, and about the processes with a page open on their history | `TrainingJobs`, `RunEvents`, `TLAPS` |
| `MCTrainingJobs` | symmetry of the checked instances | `TrainingJobs` |
| `RunEvents` | one event stream and its page over any behaviour of the contract | `TrainingContract` |
| `Deployments` | playgrounds: users, leases, workers, reconcilers, chats, local vLLM containers, faults | |
| `ServingContract` | abstract specification: what users and operators of playgrounds may rely on | |
| `Deployments_proofs` | theorems about `Deployments`, and that it keeps that contract | `Deployments`, `ServingContract`, `TLAPS` |
| `RunpodResources` | Runpod rows and Pods under training runs and playgrounds | |
| `RunpodResources_proofs` | theorems about `RunpodResources` | `RunpodResources`, `TLAPS` |
| `MCRunpodResources` | the targets of the checked instances | `RunpodResources` |
| `RemoteTraining` | a run on Kubernetes, SageMaker or SSH, with the runner in its job | |
| `RemoteTraining_proofs` | theorems about `RemoteTraining`, and that it keeps the contract too | `RemoteTraining`, `TrainingContract`, `TLAPS` |
| `RemoteServing` | a playground on Kubernetes or SageMaker | |
| `RemoteServing_proofs` | theorems about `RemoteServing`, and that it keeps the same contract | `RemoteServing`, `ServingContract`, `TLAPS` |
| `Transformations` | requests, handler, container and output of one transformation | |
| `Transformations_proofs` | theorems about `Transformations` | `Transformations`, `TLAPS` |
| `Evaluations` | attempts, answers, preferences and reports of one run | |
| `Evaluations_proofs` | theorems about `Evaluations` | `Evaluations`, `TLAPS` |
| `Library` | uploads, datasets, extraction, import, versions, deletion, sweep | |
| `Library_proofs` | theorems about `Library` | `Library`, `TLAPS` |
| `MCLibrary` | symmetry of the checked instance | `Library` |

### State and code

`status` and `log` are the row and its `job_events`; `Record` changes both at
once because the trigger of migration 0010 does. `registered` and `stored` are
the model version and the object. `container`, `workspace` and `canceled` are
what the executor can look at. `claim` is the advisory lock and `flock` the
workspace lock file. A background process has a program counter `pc`, the run it
works `at`, the `goal` of its observation (the flags `preparing` and `canceling`
of `observe`), the last observation `obs`, and the identifiers `todo` that its
scan returned. `starts`, `completed`, `asked` and `lost` are history variables.

One action is one transaction, one Docker command or one file operation.
`submit` is `MakeWorkspace`, `Materialize`, `DockerCreate`, `DockerStart` and
then `RecordSubmitted`, which reads the row again; `cancel` is `CancelInspect`,
`CancelTouch`, `DockerStop`, `CancelRestat`; `finish` is `FinishBegin`,
`FinishPut`, `FinishCommit`, and the row lock held in between is `RowFree`. An
exception leads where the code's handler leads: an executor error during
submission to recovery, elsewhere to the next scan (`GiveUp`, `Return`); a
database error or an invalid transition ends the tick (`AbortTick`).

Simplifications, all of them on the side of fewer names rather than fewer
behaviours:

- Taking the claim and reading the row are one step (`Claim`). Nothing but a
  cancel request can move the row in between, and it can as well come before.
- A database outage in the middle of a step is a crash of the process: both
  release the locks and leave committed state.
- A Docker command takes effect when it is issued or not at all. A `docker stop`
  or `docker start` that the daemon carries out after its client was killed is
  not modelled.
- Configuration errors that refuse a run before anything happens (no executor,
  no pinned image, a root user) are not modelled.
- The check that the container belongs to the run is not modelled: names are
  derived from run identifiers and nothing here forges them.

### Deployments

`status`, `keep` and `left` are the row: `left` is `expires_at - now`, cut off at
0, and `age` is `now - created_at`, cut off above the deadline, so that time
passes for ever (`Elapse`) in finitely many states and every comparison the code
makes with the clock keeps its outcome. `container`, `network` and `workspace`
are what the executor can look at; `claim` is the advisory lock, held by a
background process or by a chat. A process has a next step `pc`, the deployment
it is `at` and the `result` its `update()` will write. `served` and `lost` are
history variables.

`Take` is the scan, the claim and the locked read of `process()`, with the two
writes that read may make (an expired lease becomes STOP_REQUESTED, QUEUED
becomes PREPARING). `deploy()` is `MakeWorkspace` to `DockerStart`, `status()`
with the branch that follows it is `Recover` or `Watch`, `stop()` is
`RemoveContainer`, `RemoveNetwork`, `RemoveWorkspace`, and `Update` applies the
rule that a stop request wins (`Written`) and the database guard (`GUARD`).
The list of identifiers a tick works through is not kept: `process()` reads the
row again anyway, and fairness of `Take` per deployment says that each scan
tries each of them. A chat is two steps, the claim with the check of row and
lease and the end; a refused chat changes nothing. `status()` is one look,
although the code inspects first and probes the health of the server after. The
choice of an artifact in `create()` and the copied bytes are abstracted.

### Runpod

`state`, `cleanup`, `outcome` and `bound` are the row of `runpod_resources`; `pod`
is what the provider has for the owner's one request (`coming` is accepted and
not listed yet) and `job` what runs in it. `reserve` counts under the global lock
and inserts the INTENT in one transaction (`Fits`), `Post` may be refused, succeed
or lose its answer, and the next process looks for the Pod by name before it does
anything else. `pending` records the verdict unless there is one, `cleanup`
terminates, `Confirm` asks whether the Pod is gone and `Release` gives the slot
back. `Sweep` is `reconcile_runpod()`. Training rows and playground rows are in
one module because they share the rows, the limits and the processes; their own
states are those of `TrainingJobs` and `Deployments` as far as these executors
take them.

### Remote training and serving

The handlers of `processor.py` and `services/deployments.py` work one at a time
under the claim (what a lost claim does is shown by `TrainingJobs` and
`Deployments`), so one handler is modelled with its steps, its death at any of
them, and a target that goes on meanwhile. In `RemoteTraining` `disk` is what the
run's workspace holds (launch identity, create marker, adapter, manifest, markers
of cancellation and clean-up), `part` the staged input, `job` and `stage` the
runner. In `RemoteServing` `intents`, `observed`, `rejected` and `deleted` are the
SageMaker journal. A request may fail without effect (`api`) or with it
(`answer`); at SageMaker it may have its effect later.

### Transformations and evaluations

`Insert` and `Answer` are the conflict-free insertion and the read of `create()`;
the rest of `Transformations` is `process()` with `start`, `status`, `export`,
`register` and `cleanup` of the local executor. In `Evaluations` each actor holds
the run's claim while it writes, as the code does; `held` is what it read before
and will write after. Prompts and answers are abstracted to pairs of prompt and
model, a report to the preferences it shows.

### Library

Every request is a process; a step is one call to the object store, one row lock
to wait for, or one commit. A request may fail at any step (`Fail` is unlimited).
Objects that a transaction puts under ids that did not exist before are folded
into its commit: until then nobody knows the ids. Attaching, deleting and
importing take their two locks in one step. The age `old` merges "past
`complete_by`" with "a day later".

## 3. Runs

| Run | Instance | What it shows |
|---|---|---|
| `safety` | 1 run, 2 workers, 1 reconciler, up to 3 faults of any kind, fair loops | five state invariants, one action property, `EveryRunSettles` |
| `contract` | 2 runs, 1 worker, 1 reconciler, one crash or Docker error | `TrainingJobs` implements `TrainingContract` |
| `events` | 1 run, 2 polls per connection, 2 drops | the page's history |
| `playgrounds` | 1 playground, 2 workers, 1 reconciler, leases of 1 or 2, at most 2 ahead, deadline 1, up to 2 faults of any kind | `Deployments`: four state invariants, two liveness properties |
| `pods` | 1 run and 1 playground for one Pod, 1 worker, 1 reconciler, 1 fault of any kind | `CapacityHolds` |
| `pods_live` | one of the two at a time, up to 2 faults, fair loops | `RunpodResources`: ownership, verdicts, return of every Pod |
| `remotes` | 1 run on each of three kinds of target, up to 3 faults | `RemoteTraining` |
| `endpoints` | 1 playground on each of two kinds of target, up to 3 faults | `RemoteServing` |
| `transformations` | 2 requests, 1 handler, up to 3 faults | `Transformations` |
| `evaluations` | 2 prompts, 2 attempts, 2 web requests at once, up to 2 faults | `Evaluations` |
| `library` | 1 new and 1 registered original, 2 datasets, 2 requests at once, 2 rows | `Library` |
| `race` | 1 run, 1 worker, 1 reconciler | a disagreement between document and code |

Each module has one type invariant. Where a run also has a shorter state
invariant about the agreement of the same variables the two are one property,
`Consistent`.

- `safety`: `LaunchedOnce`, `QuietWhenTerminal`, `SuccessIsBacked`,
  `LostMeansAbsent`, `CancelIsNotUndone`, `EveryRunSettles`, and in `WellFormed`, beside
  `TypeOK`, that what a process is about to record of the executor is a legal change of
  the row it finds (`ObservationsFit`).
- `playgrounds`: `TerminalIsFree` (what is over holds no container, network or
  workspace), `RunningWasHealthy`, `ChatIsUndisturbed`, `RequestsAreDecided`
  (launches and stops), `LeaseEnds`, beside `TypeOK`, whose range of `left` is the
  ceiling of one day on extensions. The first and the third say nothing of a
  playground whose claim was lost: a worker that copies a model while its
  connection dies goes on to start a server for a row that another worker has
  already failed, and no scan looks at it again. The code has no second line of
  defence there, and the hazard list says so. The liveness properties hold
  nevertheless.
- `pods`, `pods_live`: `CapacityHolds` counts what is billed, not what is recorded;
  `EveryPodIsOwned` holds through lost answers and lost claims; `VerdictIsKept`
  decides the race of deadline, cancellation and completion; `PodsAreReturned` says
  that every listed Pod goes in the end, whatever became of its owner. A run that
  is final with a recorded success has succeeded unless its claim was lost: the worker
  that lost it may still be about to reserve the Pod of a run that a second worker,
  finding no resource, has failed, and train to a success that nobody registers. That
  a SUCCEEDED run has that outcome and its output holds for lost claims, too.
- `remotes`: `NothingIsOrphaned`, `WorkIsNotWasted` and `RunIsDecided`, and in
  `Consistent` that a final run trains nothing (`FinalIsQuiet`). An output is damaged in
  four ways, since the executors answer them differently: a manifest that is gone or does
  not parse, one that names too much, a file with other bytes, a file that is missing or
  has another size.
- `endpoints`: in `Consistent` that what is over has nothing left (`OverIsFree`),
  `NothingIsOrphaned`, `LeaseEnds`.
- `transformations`: in `Consistent` that an answered request has a row that stays
  and that what is over holds nothing; `OutcomeMatchesOutput`,
  `RequestsAreDecided`.
- `evaluations`: in `Consistent` one attempt at a time and no container of an
  attempt that is over; `ReportIsCurrent`, `SuccessIsComplete`, `AttemptsEnd`.
- `library`: `OriginalsAreKept`, `ProvenanceIsKept`, `NothingIsLeftBehind`, and in
  `Consistent` that numbers and canonical extractions are whole.

Why the bounds are enough. Runs share nothing but the processes, the hint list
and the scan, so that one run with three competing processes shows every
conflict over its claim, row, lock and container; the second run of `contract`
adds cloning and a process that leaves one run for another. Two workers and one
reconciler give a holder of the claim, a competitor with the same duties and one
with the others. Three faults are enough for a failure inside the recovery of a
failure, and were enough for `Contradicted` (section 4), which needs all three.
In `events` the history of a run has at most seven events (`LongestHistory`: the
state machine is acyclic), so `PageSize = 7` stands for the hundred of the code,
and two polls for its thirty: the first is followed by another, the last is not.
One playground is enough because deployments share nothing but the processes,
which pass from one to the next without memory. Leases of 1 and 2 with a ceiling
of 2 give an extension that is cut and one that is not, and a deadline of 1 gives
a launch in time, at the limit and late. In `pods` two owners and one slot are the
smallest competition; ownership and liveness concern one owner. In `library` two
requests at once show every pair of operations, one registered and one new
original every stage of an original's life, two datasets the sharing that
forbids deletion, and two rows a second number. In `evaluations` a second attempt
resumes the first.

Fairness. `LoopSpec` asks that each background process keeps taking its steps:
the loop of `app/background.py` runs for ever, each command and connection has
a timeout, a supervisor restarts what dies. Faults are bounded in
number and never forced. Fairness of `PopHint` is not needed and lost hints are
allowed: the scans alone carry the liveness. `EveryRunSettles` takes the end of a
training as an assumption inside the property; `FairSpec` justifies it by the
runner's own timeout (`app/training/runner.py`). `RunEvents` asks only that server
and browser go on. `Deployments` adds that time passes and that a chat comes to an
end: its request times out after 120 seconds (`app/deployments/local.py:276-287`),
and a local answer is a single chunk. Nothing is assumed of users or of the
server: a model that loads for ever is ended by the deadline, also under
keep-running. `RunpodResources`, `RemoteTraining` and `RemoteServing` ask the same of
scans and handlers, and of the target that it ends what it accepted: a Pod that is
being deleted goes, a Job runs to its end or to its own timeout. `Transformations`
asks that a container that is not stopped exits; past its day it is stopped
anyway. `Evaluations` asks strong fairness of `Take`: the worker tries every two
seconds, and web requests hold the claim for moments. `Library` states no
liveness: a request may fail at any step, and nothing retries it but its client.

## 4. Disagreements and remarks

`race` is a disagreement: *"A successful completion that wins the cancellation race
is retained as SUCCEEDED"* (`docs/jobs.md:94`). If the training completes after
`cancel()` saw it running and before it writes its marker, `docker stop` succeeds
on the exited container and `status()` looks at the marker first: the run is
CANCELED and its verified output is never registered.

Behaviour that the modules contain and their properties except by name, or that
was met while modelling:

- **Vanished output.** `docs/jobs.md:59` draws `POSTPROCESSING --> FAILED`, and
  `observe()` has the branch (`app/jobs/processor.py:182`). `process()` sends every
  POSTPROCESSING run to `finish()` instead, which fails for ever once the container
  is gone. `EveryRunSettles` excepts it.
- **Contradicted output.** When a claim is lost under `cancel()`, its marker can be
  written for a run that another process has moved to POSTPROCESSING; `output()`
  then refuses for ever. `EveryRunSettles` excepts it (`Contradicted`).
- **Unasked cancellation.** *"An unstarted created container is stopped and the
  attempt fails"* (`docs/jobs.md:88`). If stopping fails after the marker was
  written, the next look reports CANCELED, and a run nobody canceled ends so.
- **Cleaned playground.** *"Startup failure or a 15-minute readiness timeout stops
  the resources and records FAILED. Confirmed disappearance records LOST"*
  (`docs/deployments.md:41`). The container is removed first and the row written
  last; a process that dies in between leaves LOST to its successor.
- **Deadline.** It is compared with the age of the deployment and not of its
  launch, so that after fifteen minutes a ready server that misses one two-second
  probe is stopped and FAILED, although the guard has an edge RUNNING to STARTING.
- **Runpod alone.** `app/background.py:94` builds the deployment service only if
  local, SSH or Kubernetes execution is enabled. An operator who enables Runpod or
  SageMaker alone has playgrounds that no process looks at, against *"keep the
  reconciler running"* (`docs/runpod-serving.md:102`). The runs therefore set
  `Enabled` to Runpod and SSH; `Serves` is the condition.
- **Uncertain allocation.** An INTENT for which no Pod is ever listed keeps its
  slot, and its playground stays STOP_REQUESTED, until the operator decides. That
  is by design, as is the journal entry of a SageMaker resource that never appears.
- **Late SageMaker job.** A training job that appears after it was looked for and
  not found is not looked for again (`missed`).
- **Evicted staging Pod.** Without it neither the output of a finished Kubernetes
  Job nor its cancellation gets through; `RunIsDecided` excepts it, and
  POSTPROCESSING, which has the vanished-output problem above.
- **Damaged output.** Kubernetes turns a damaged output into FAILED, and so does
  SageMaker a damaged archive. Over SSH a listed file that is missing or has another size
  (`app/targets/ssh.py:255`, `264`, `270`), or a manifest that names too much
  (`app/executors/ssh_docker.py:73`, `82`), raises ExecutorError, as on SageMaker a missing
  archive does (`app/executors/sagemaker.py:283`). The next look raises again: the run stays
  RUNNING, its cancellation and its clean-up, which look first, do not get through, and no
  scan tells it from a target that does not answer. `RunIsDecided` excepts it
  (`Uncollectable`). A file with other bytes of the same size is copied and fails the run,
  and damage that comes after a good local copy changes nothing.
- **Transformations.** A crash after the clean-up of a bad output and before the
  row is written leaves POSTPROCESSING for ever (excepted in
  `RequestsAreDecided`); after the clean-up of a failed container it records LOST
  for a failure. An OSError of `rmtree` leaves the handler by way of the tick.
- **Evaluations.** An attempt whose container the daemon refuses to remove ends all
  the same, and nobody looks for the container again (`abandoned`). An attempt that
  succeeded becomes FAILED when its report cannot be written.
- **Extractions.** Two extractions of different datasets that share originals lock
  them in the order of their sources and can wait for each other; PostgreSQL aborts
  one (`Victim`), which the client sees as an error.

## 5. Proofs

`TrainingJobs_proofs` proves, for any sets of runs, workers and reconcilers and
any number of faults, from `NullsAssumption` and `FaultsAssumption` alone:

| Theorem | Property | Inductive invariant |
|---|---|---|
| `TypeCorrect` | `TypeOK` | `TypeInv` = `TypeOK` and `Bookkeeping`: an idle process is at no run, a busy one is at one |
| `TrainingStartsOnce` | `LaunchedOnce` | `LaunchInv`: at most one process has the submission of a run behind its `mkdir`, a start needs the workspace, which is made once and never removed |
| `FinalRunsAreQuiet` | `QuietWhenTerminal` | `QuietInv`: whoever works on a run whose claim was never lost holds the claim; what the holder found true of the row and the container stays true at each of its steps although users cancel at any time; a container that trains belongs to a run under way |
| `SuccessIsAlwaysBacked` | `SuccessIsBacked` | `SuccessInv`: at most one registrar per run, its run is POSTPROCESSING, its container was started, its bytes are stored before it commits |
| `CancelIsNeverUndone` | `CancelIsNotUndone` | `AskedInv`: a run for which cancellation was asked is in one of the states decided about |
| `LostRunsAreAbsent` | `LostMeansAbsent` | `LostInv`: a row that says that training was submitted, and a process that watches it, know of a run that was started; a run is started after its one container was created, so that a container that is gone stays gone |
| `ObservationsAreLegal` | `ObservationsFit` | `FoundInv`: which statuses a process can find with the purpose for which it took the run |
| `StaysWellFormed` | `WellFormed` | the theorems `TypeCorrect` and `ObservationsAreLegal` together |
| `ContractIsKept` | `KeepsContract` | `TypeInv`, `LaunchInv`, `QuietInv` and `SuccessInv` together |
| `ContractIsKeptByHeldClaims` | `KeepsContract` | the same, where claims are not lost |

The argument common to the first of them is that a claim serializes *effects* and
the row lock serializes *writes*, and that neither alone is enough: `LaunchInv`
needs neither (it holds even for lost claims, because of the directory),
`QuietInv` needs the claim, `SuccessInv` needs the row lock. Each inductive
invariant was checked by TLC before its proof was written.

`ContractIsKept` is the refinement, `Spec /\ [](lost = {}) => KeepsContract`: the
initial states map to initial states (`SameTable`: the contract reads the same
transition table), and `ContractStep` maps every step to a step of the contract or
to a stutter. What makes it more than bookkeeping is that the contract starts
training only during preparation (`QuietInv`), only once (`LaunchInv`), and
publishes only from POSTPROCESSING (`SuccessInv`), and that several changes written
in one transaction are a path along edges of at most three (`ObservedPathIsShort`,
`LegalCommits`). The hypothesis is needed: with `claim` among the faults TLC finds a
worker that starts a container for a run another process has already failed.
`ContractIsKeptByHeldClaims` replaces it by an assumption on the environment
(`"claim" \notin FaultKinds`), under which the run `contract` checks two runs.

`ObservationsFit` says that a process that looked at the executor, was overtaken by
users, and then writes, writes a legal change or drops what it saw as superseded. It
is what keeps the background loop alive, because an invalid transition ends the tick
of every run behind it. `FoundIsLegal` goes through the observations; the state part
is that only the holder of the claim and `cancel` move a row, and `cancel` only to
where every purpose can find it. Like `UpdatesFit` below it is proved and not run.

`Deployments_proofs` proves, for any sets of playgrounds, workers and reconcilers,
any lease lengths, ceiling and deadline and any number of faults, from
`NullsAssumption`, `TimesAssumption` and `FaultsAssumption`:

| Theorem | Property |
|---|---|
| `TypeCorrect` | `TypeOK` |
| `OverMeansReleased` | `TerminalIsFree` |
| `ResultsAreAccepted` | `UpdatesFit`: whatever users did to the row since a process took it, the guard accepts what the process writes |
| `ChatsAreExclusive` | `ChatIsUndisturbed` |
| `ShownRunningWasHealthy` | `RunningWasHealthy` |
| `LocalPlaygroundsKeepContract` | `Contract!Spec`, of `HistorySpec` |

One inductive invariant carries the first four, `IInv`: `ClaimIsHeld` (whoever works on
a playground holds its claim unless it was lost), `FitInv` (which statuses each
step may find, given that users can only ask for a stop) and `CleanInv` (a row
that is not launched yet, or over, has no resources, and how far each process has
come with removing them). `TerminalIsFree` alone is not inductive: the row becomes
final two steps after the last resource goes, and only the claim keeps others from
making new ones meanwhile. `Advance` and `Away` prove preservation once for a step
that goes on and for one that leaves, and the lemma of each action only shows
which of the two it is and what holds at the process's next step. The fifth theorem
needs no claims: `HealthInv` follows the evidence from the container that serves
through the result a process carries to the row.

`TrainingJobs_proofs` also proves of `RunEvents`, for any runs, any number of polls and of
dropped connections, from `StreamAssumption`, and of the two together:

| Theorem | Property |
|---|---|
| `PageShowsAPrefix` | `Consistent`: the page shows a prefix of the history |
| `ClosedPageIsComplete` | `HistoryIsComplete` |
| `PageOfTheSystem` | both, of a page open on the history that the processes of `TrainingJobs` write |

What the page shows is not inductive: it depends on what is on its way. `WireInv`
says that an open connection carries exactly the events after the page's last one
up to the server's cursor, each once and in order, and `EndInv` that a final status
is sent only when nothing is left to read, and is the last frame. That nothing can
be left after one query is `RunInv`: `Height` numbers the states along the edges of
the transition table, so a history has at most seven events and fits in a page of
the query (`StreamAssumption`; 100 in the code), and a final run has no edge.

The first two are about a page over any behaviour of the contract. `PageOfTheSystem`
is about the code end to end: a step of `SystemSpec` is a step of a web process, a
worker or a reconciler, or one of the stream. `ContractIsKept` cannot simply be
composed with the others, because it needs claims that are held. The page needs
less: `ProcessesMoveOn` shows that each step of the processes leaves the history or
lets it go on along edges of the table, whatever became of claims, because each
transaction reads the row again under its lock. `RowsInv` is what that rests on:
nobody works on a run whose row does not exist yet. TLC searched `SystemSpec` for
one run, one worker and one reconciler with lost claims, crashes and a failing
daemon (2,337,900 states) before the proof was written.

`Transformations_proofs` proves, for any set of requests, any kinds and number of
faults, from `RequestsAssumption` and `FaultsAssumption`:

| Theorem | Property |
|---|---|
| `RequestsAndHostAgree` | `Consistent`: answers are kept, a job that is over left nothing behind |
| `OutcomesTellTheOutput` | `OutcomeMatchesOutput` |

The inductive invariant says what each position of the handler tells: which status
the row has (`StepInv`), that the outcome about to be written agrees with what was
registered (`GoalInv`, needed because registration and outcome are two
transactions with the clean-up in between), and how far clean-up has come
(`CleanInv`).

`RunpodResources_proofs` proves, for any sets of runs, playgrounds, workers and
reconcilers, any targets and limits and any number of faults, from
`RolesAssumption`, `NullsAssumption`, `LimitsAssumption` and `FaultsAssumption`:

| Theorem | Property |
|---|---|
| `StaysConsistent` | `Consistent` |
| `PodsAreOwned` | `EveryPodIsOwned` |
| `CeilingsHold` | `CapacityHolds` |
| `VerdictStays` | `VerdictIsKept` |

The inductive invariant is in two halves. `OwnerSafe`, `ProcSafe`, `OnePoster` and
`CapacityInv` hold whatever becomes of claims: a billed Pod has a reservation, the
process about to send the one request for it is alone, and a slot is released only
over a Pod that is gone. They rest on the transactions that count, reserve and
release under one lock and on the one intent an owner ever has, and carry ownership
and capacity. `OwnerHeld` and `ProcHeld` hold for owners whose claim
was never lost: the verdict about to be written agrees with the outcome recorded, and
a playground that is over is not billed. They carry the rest.

`RemoteServing_proofs` proves, for any choice among the two kinds of target and any
kinds and number of faults, from `ExecutorsAssumption` and `FaultsAssumption`:

| Theorem | Property |
|---|---|
| `StaysConsistent` | `Consistent`: what is over has nothing left |
| `NothingOrphaned` | `NothingIsOrphaned` |
| `RemotePlaygroundsKeepContract` | `Contract!Spec`, of `HistorySpec` |

`JournalInv` says that what exists at the target has an intent that was written
before the request, and `ProgressInv` how much each step of a removal has confirmed:
requests that have their effect late keep the journal open until they are observed.

`LocalPlaygroundsKeepContract` and `RemotePlaygroundsKeepContract` are one refinement
proved twice, of `ServingContract`: wherever a playground runs, its lease ends once and
no action revives it; no launch begins after it; a playground is launched at most once,
and never for a row that is new or over; a server is shown only of a playground that was
launched; and a row ends only when nothing is held. `due` maps to the leases that have
ended, `held` to a container, network or workspace (`Deployments`), or to any resource
that exists or may still appear (`RemoteServing`, `Left`). What has ever existed is not
kept by either module, so that each `HistorySpec` adds the history variable `launched`,
which constrains nothing (`Counts`). Keep, extend, chats and the steps of handlers that
create or remove a further resource are stutters.

The part that is not in the invariants above is *once*: nothing in the row says whether
a launch was begun before, since PREPARING is what a worker writes when it begins and
what another one finds after its death. `LaunchInv` says that a process about to begin
is at a playground of which nothing has ever existed, that a launch goes on in the
workspace it made, and that a process about to show a server is at one that was
launched. `FitInv` (`RowInv` in `RemoteServing_proofs`) gives the rows each step may
find. The local theorem assumes `[](lost = {})`: with `claim` among the faults TLC finds
a worker whose connection dies before it makes the workspace; another worker recovers,
the row becomes terminal, and then the first makes a workspace nobody will remove. The
remote module has one handler and no lost claims. TLC checked invariants and contract on
each `HistorySpec` before the proofs: `Deployments` with 1 playground, 2 workers, 1
reconciler and two faults other than `claim` (14,925 states), `RemoteServing` with both
targets and three faults (9,796 states).

`Evaluations_proofs` proves, for any sets of prompts, clients and preferences, any
number of attempts and faults, from `PreferencesAssumption`, `ClientsAssumption` and
`BoundsAssumption`:

| Theorem | Property |
|---|---|
| `StaysConsistent` | `Consistent` |
| `ReportsStayCurrent` | `ReportIsCurrent` |
| `SuccessStaysComplete` | `SuccessIsComplete` |

`ActorInv` says for each position of a worker or request what it has read and nobody
else can change, because all of them take the one claim; without it the report
written from an earlier read of the preferences could be stale. `WorkerInv` ties
containers to the attempt under way.

`Library_proofs` proves, for any sets of clients, originals and datasets and any
contents, from `LibraryAssumption`:

| Theorem | Property |
|---|---|
| `StaysConsistent` | `Consistent`: numbers have no gap, the canonical extraction is the first good one |
| `OriginalsStay` | `OriginalsAreKept` |
| `ProvenanceStays` | `ProvenanceIsKept` |
| `NothingStays` | `NothingIsLeftBehind` |

`LockInv` says that row locks exclude each other, and `ClientInv` what each request in
progress relies on under the locks it holds; `OriginalInv`, `ProvenanceInv` and
`DatasetInv` relate rows to objects. `Steady` is the interface between requests: what a
step of one leaves of what another one relies on. That numbers have no gap
rests on a lemma about cardinalities: the next number of a finite set of rows numbered
without a gap is one more than their count (`NextIsFresh`).

`RemoteTraining_proofs` proves, for any choice among the three kinds of target and any
kinds and number of faults, from `ExecutorsAssumption` and `FaultsAssumption`:

| Theorem | Property |
|---|---|
| `TargetsAgree` | `Consistent`: what the row says and what is at the target and in the files agree |
| `CleanupFindsAll` | `NothingIsOrphaned` |
| `CompletedIsNotLost` | `WorkIsNotWasted` |
| `RemoteRunsKeepContract` | `Contract!Spec`, of `HistorySpec` |

A handler looks, and acts later on what it saw, while the target goes on. `LookInv` says
what of each look is still true at the step that acts on it; `DiskInv` gives the order
in which identity, intent and manifest are written, so that what a crash leaves can be
read; `SubmitInv` ties each position of a submission to what can exist at the target.

The fourth is a refinement: a run on a remote target keeps the promises of
`TrainingContract`, those that `TrainingJobs` keeps for the local executor.
`RemoteTraining` keeps no history, so `HistorySpec` adds two history variables that
constrain nothing: `log`, the events that the trigger of migration 0010 writes, and
`starts`, how often the runner was started. The initial states map to initial states,
and `ContractStep` maps each step to one of the contract or a stutter. The second is
more than the state machine of the row. `PurposeInv` says with which purpose
a handler can look at a run in which state, so that what it writes is a path along
edges; `StartsInv` that the runner was not started before its job existed and not
twice, which depends on how each target repeats a create request whose answer was lost.
TLC checked the inductive invariant and the contract on `HistorySpec` first, for all
targets and faults and up to three of them (62,835 states).

Only model-checked: the liveness properties, which are out of the prover's reach.
`CompletionIsRetained` is false (section 4).

## 6. Plan and what is not modelled

Modelled: training with its contract and proofs, the event stream, playgrounds on
every executor, Runpod resources, training on every executor, transformations,
evaluations, originals and what is derived from them.

Every safety property that a passing run checks is proved. What would come next: the
bounds that the liveness properties rest on (a process that works comes to an end of
its work), and playgrounds on Runpod under `ServingContract`.

Left out of components that are modelled otherwise: chat proxies of remote
playgrounds and SSH playgrounds (their Docker commands are those of the local
executor), log reading, previews, listings and downloads, the selection of
conversations, single inserts (`create_suite`, dataset creation), the heartbeat.
Lineage graphs only ever grow by new nodes, in transactions that are one step
here; the trigger that refuses cycles has nothing to refuse.

Not modelled, and not planned: parsing and extraction of documents and
conversations, recipes and plan translation, registry and provider clients,
request handling, rendering, packaging. They are sequential functions of their
inputs or I/O without state of their own; their tests reach them well.
