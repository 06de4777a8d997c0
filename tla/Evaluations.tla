------------------------------ MODULE Evaluations ------------------------------
(***************************************************************************)
(* The paired evaluation of one successful run                             *)
(* (app/services/evaluations.py and app/evaluation): attempts, answers of  *)
(* the base and of the tuned model, a person's preferences, and the report *)
(* that shows them.                                                        *)
(*                                                                         *)
(* The worker generates, web requests create attempts, record preferences  *)
(* and export reports; each holds the run's claim while it writes.  A      *)
(* process may die between two steps, and its claim ends with it.          *)
(***************************************************************************)
EXTENDS Naturals, Sequences, FiniteSets

CONSTANTS
  Prompts,      \* the suite's prompts
  Preferences,  \* what a person can say of a pair of answers
  Clients,      \* concurrent web requests
  MaxAttempts,  \* bounds the attempts at the evaluation
  FaultKinds,   \* which faults can happen
  MaxFaults     \* how many of them can happen in one behaviour

\* crash: a process dies; work: generation fails; store: the object store fails;
\* docker: the daemon does not answer.
ASSUME PreferencesAssumption == "unreviewed" \notin Preferences
ASSUME ClientsAssumption == Clients \cap {"worker", "nobody"} = {}
ASSUME BoundsAssumption ==
  /\ MaxAttempts \in Nat /\ MaxFaults \in Nat
  /\ FaultKinds \subseteq {"crash", "work", "store", "docker"}

VARIABLES
  tasks,       \* the statuses of the attempts, in the order of their creation
  report,      \* for each attempt what its current report says, <<>> without one
  answers,     \* the pairs of prompt and model that have a registered answer
  objects,     \* the pairs whose answer is in the store
  preference,  \* the person's preference for each prompt
  containers,  \* attempts whose container exists
  abandoned,   \* attempts that ended although their container could not be removed
  claim,       \* who holds the run's claim
  pc,          \* each actor's next step, "idle" outside of a handler
  cur,         \* the attempt each actor works on
  held,        \* what each actor holds: a pair, a preference to record, a report's content
  faults       \* how many faults may still happen

evidenceVars == <<answers, objects>>
dockerVars == <<containers, abandoned>>
procVars == <<claim, pc, cur, held>>
vars == <<tasks, report, evidenceVars, preference, dockerVars, procVars, faults>>

Actors == Clients \cup {"worker"}
Models == {"base", "tuned"}
Pairs == Prompts \X Models
Active == {"QUEUED", "RUNNING"}
Over == {"SUCCEEDED", "FAILED"}
Attempts == 1..Len(tasks)
Views == [Prompts -> Preferences \cup {"unreviewed"}]
Reviews == Prompts \X Preferences

TypeOK ==
  /\ tasks \in Seq(Active \cup Over) /\ Len(tasks) <= MaxAttempts
  /\ report \in Seq(Views \cup {<<>>}) /\ Len(report) = Len(tasks)
  /\ answers \subseteq Pairs /\ objects \subseteq Pairs /\ preference \in Views
  /\ containers \subseteq Attempts /\ abandoned \subseteq Attempts
  /\ claim \in Actors \cup {"nobody"}
  /\ pc \in [Actors -> {"idle", "insert", "recover", "prepare", "generate", "await", "stop",
                        "quit", "store", "answer", "succeed", "fail", "ask", "save", "view",
                        "write", "point"}]
  /\ cur \in [Actors -> 0..MaxAttempts]
  /\ \A a \in Actors : held[a] \in Views \cup Reviews \cup Pairs \cup {<<>>}
  /\ faults \in 0..MaxFaults

Init ==
  /\ tasks = <<>> /\ report = <<>> /\ answers = {} /\ objects = {}
  /\ preference = [p \in Prompts |-> "unreviewed"]
  /\ containers = {} /\ abandoned = {} /\ claim = "nobody"
  /\ pc = [a \in Actors |-> "idle"] /\ cur = [a \in Actors |-> 0]
  /\ held = [a \in Actors |-> <<>>] /\ faults = MaxFaults

-----------------------------------------------------------------------------
(* Helpers.                                                                *)

Fault(f) == f \in FaultKinds /\ faults > 0 /\ faults' = faults - 1
Calm == UNCHANGED faults

Goto(a, step) == pc' = [pc EXCEPT ![a] = step] /\ UNCHANGED <<claim, cur, held>>
Carry(a, step, thing) ==
  pc' = [pc EXCEPT ![a] = step] /\ held' = [held EXCEPT ![a] = thing] /\ UNCHANGED <<claim, cur>>
Leave(a) ==
  /\ pc' = [pc EXCEPT ![a] = "idle"] /\ cur' = [cur EXCEPT ![a] = 0]
  /\ held' = [held EXCEPT ![a] = <<>>] /\ claim' = (IF claim = a THEN "nobody" ELSE claim)

\* What an error does: the worker's attempt has failed, a request is refused.
Fails(a) == IF a = "worker" THEN Goto(a, "fail") ELSE Leave(a)

Becomes(t, s) == tasks' = [tasks EXCEPT ![t] = s]
Missing == Pairs \ answers

InDatabase == UNCHANGED <<objects, dockerVars>>
Generating == UNCHANGED <<tasks, report, preference>>

-----------------------------------------------------------------------------
(* Web requests: create(), preference() and report().                      *)

BeginCreate(c) ==
  /\ pc[c] = "idle" /\ claim = "nobody" /\ claim' = c
  /\ pc' = [pc EXCEPT ![c] = "insert"]
  /\ UNCHANGED <<tasks, report, evidenceVars, preference, dockerVars, cur, held, faults>>

\* Mutation: only an attempt that has begun is reused.
Reused_Running == {t \in Attempts : tasks[t] = "RUNNING"}

Reused == {t \in Attempts : tasks[t] \in Active}

InsertTask(c) ==
  /\ pc[c] = "insert" /\ Leave(c)
  /\ IF Reused # {} \/ Len(tasks) = MaxAttempts
       THEN UNCHANGED <<tasks, report>>
       ELSE tasks' = Append(tasks, "QUEUED") /\ report' = Append(report, <<>>)
  /\ UNCHANGED <<evidenceVars, preference, dockerVars, faults>>

\* The attempt's status is read before the claim is asked for.
Ask(c) ==
  /\ pc[c] = "idle"
  /\ \E t \in Attempts, thing \in Reviews \cup {<<>>} :
       /\ tasks[t] = "SUCCEEDED"
       /\ pc' = [pc EXCEPT ![c] = "ask"] /\ cur' = [cur EXCEPT ![c] = t]
       /\ held' = [held EXCEPT ![c] = thing]
  /\ UNCHANGED <<tasks, report, evidenceVars, preference, dockerVars, claim, faults>>

BeginWrite(c) ==
  /\ pc[c] = "ask"
  /\ IF claim = "nobody"
       THEN /\ claim' = c /\ UNCHANGED <<cur, held>>
            /\ pc' = [pc EXCEPT ![c] = IF held[c] = <<>> THEN "view" ELSE "save"]
       ELSE Leave(c)
  /\ UNCHANGED <<tasks, report, evidenceVars, preference, dockerVars, faults>>

\* Mutation: only the reviewed attempt's report is withdrawn.
SavePreference_OwnReport(c) ==
  /\ pc[c] = "save" /\ Goto(c, "view")
  /\ preference' = [preference EXCEPT ![held[c][1]] = held[c][2]]
  /\ report' = [report EXCEPT ![cur[c]] = <<>>]
  /\ UNCHANGED <<tasks, evidenceVars, dockerVars, faults>>

\* A preference withdraws the report of every attempt at the run.
SavePreference(c) ==
  /\ pc[c] = "save" /\ Goto(c, "view")
  /\ preference' = [preference EXCEPT ![held[c][1]] = held[c][2]]
  /\ report' = [t \in Attempts |-> <<>>]
  /\ UNCHANGED <<tasks, evidenceVars, dockerVars, faults>>

-----------------------------------------------------------------------------
(* write_report(), for a request or at the end of an attempt.              *)

\* get() reads every answer back from the store.
View(a) ==
  /\ pc[a] = "view" /\ Generating /\ InDatabase /\ UNCHANGED answers
  /\ \/ Carry(a, "write", preference) /\ Calm
     \/ Fault("store") /\ Fails(a)

WriteReport(a) ==
  /\ pc[a] = "write" /\ Generating /\ InDatabase /\ UNCHANGED answers
  /\ \/ Goto(a, "point") /\ Calm
     \/ Fault("store") /\ Fails(a)

PointReport(a) ==
  /\ pc[a] = "point" /\ Leave(a) /\ report' = [report EXCEPT ![cur[a]] = held[a]]
  /\ UNCHANGED <<tasks, evidenceVars, preference, dockerVars, faults>>

-----------------------------------------------------------------------------
(* The worker: tick() and process().                                       *)

\* Mutation: an attempt that was begun is left to the worker that began it.
Take_QueuedOnly ==
  /\ pc["worker"] = "idle" /\ claim = "nobody" /\ claim' = "worker"
  /\ \E t \in Attempts :
       /\ tasks[t] = "QUEUED" /\ cur' = [cur EXCEPT !["worker"] = t]
       /\ Becomes(t, "RUNNING") /\ pc' = [pc EXCEPT !["worker"] = "prepare"]
  /\ UNCHANGED <<report, evidenceVars, preference, dockerVars, held, faults>>

\* An attempt found running was begun by a worker that died.
Take ==
  /\ pc["worker"] = "idle" /\ claim = "nobody" /\ claim' = "worker"
  /\ \E t \in Attempts :
       /\ tasks[t] \in Active /\ cur' = [cur EXCEPT !["worker"] = t]
       /\ \/ /\ tasks[t] = "QUEUED" /\ Becomes(t, "RUNNING")
             /\ pc' = [pc EXCEPT !["worker"] = "prepare"]
          \/ /\ tasks[t] = "RUNNING" /\ UNCHANGED tasks
             /\ pc' = [pc EXCEPT !["worker"] = "recover"]
  /\ UNCHANGED <<report, evidenceVars, preference, dockerVars, held, faults>>

\* Mutation: a recovered attempt is closed without a look for its container.
Recover_Closes ==
  /\ pc["worker"] = "recover" /\ Becomes(cur["worker"], "FAILED") /\ Leave("worker") /\ Calm
  /\ UNCHANGED <<report, evidenceVars, preference, dockerVars>>

\* Uncertain work is stopped and not repeated.
Recover ==
  /\ pc["worker"] = "recover" /\ Leave("worker")
  /\ \/ containers' = containers \ {cur["worker"]} /\ Becomes(cur["worker"], "FAILED") /\ Calm
     \/ Fault("docker") /\ UNCHANGED <<containers, tasks>>
  /\ UNCHANGED <<report, evidenceVars, preference, abandoned>>

\* Mutation: a prompt that one of the models answered counts as answered.
Outstanding_AnyModel == {x \in Pairs : \A m \in Models : <<x[1], m>> \notin answers}

\* Answers of earlier attempts are kept.
Outstanding == Missing

Prepare ==
  /\ pc["worker"] = "prepare" /\ Generating /\ InDatabase /\ UNCHANGED answers
  /\ \/ Goto("worker", IF Outstanding = {} THEN "succeed" ELSE "generate") /\ Calm
     \/ Outstanding # {} /\ Fault("work") /\ Goto("worker", "fail")

\* A container of its own for each answer.
StartContainer ==
  /\ pc["worker"] = "generate" /\ Generating /\ UNCHANGED <<evidenceVars, abandoned>>
  /\ \E x \in Outstanding :
       \/ containers' = containers \cup {cur["worker"]} /\ Carry("worker", "await", x) /\ Calm
       \/ containers' = containers \cup {cur["worker"]} /\ Carry("worker", "quit", x) /\ Fault("docker")
       \/ Fault("docker") /\ Carry("worker", "quit", x) /\ UNCHANGED containers

\* Inputs that do not verify, too long a prompt, no GPU: the container exits with an error.
RunnerFails == Fault("work")

AwaitAnswer ==
  /\ pc["worker"] = "await" /\ Generating /\ InDatabase /\ UNCHANGED answers
  /\ \/ Goto("worker", "stop") /\ Calm
     \/ Goto("worker", "quit") /\ (RunnerFails \/ Fault("docker"))

\* The container is removed whatever became of the answer.
StopContainer ==
  /\ pc["worker"] \in {"stop", "quit"} /\ Generating /\ UNCHANGED evidenceVars
  /\ \/ /\ containers' = containers \ {cur["worker"]} /\ UNCHANGED abandoned /\ Calm
        /\ IF pc["worker"] = "stop" THEN Goto("worker", "store") ELSE Goto("worker", "fail")
     \/ /\ Fault("docker") /\ Goto("worker", "fail") /\ UNCHANGED containers
        /\ abandoned' = abandoned \cup {cur["worker"]}

StoreAnswer ==
  /\ pc["worker"] = "store" /\ Generating /\ UNCHANGED <<answers, dockerVars>>
  /\ \/ objects' = objects \cup {held["worker"]} /\ Goto("worker", "answer") /\ Calm
     \/ Fault("store") /\ Goto("worker", "fail") /\ UNCHANGED objects

CommitAnswer ==
  /\ pc["worker"] = "answer" /\ Generating /\ InDatabase /\ Calm
  /\ answers' = answers \cup {held["worker"]}
  /\ Goto("worker", IF Outstanding \ {held["worker"]} = {} THEN "succeed" ELSE "generate")

Succeed ==
  /\ pc["worker"] = "succeed" /\ Becomes(cur["worker"], "SUCCEEDED") /\ Goto("worker", "view")
  /\ UNCHANGED <<report, evidenceVars, preference, dockerVars, faults>>

\* Also after success, if the report cannot be written.
Fail ==
  /\ pc["worker"] = "fail" /\ Becomes(cur["worker"], "FAILED") /\ Leave("worker")
  /\ UNCHANGED <<report, evidenceVars, preference, dockerVars, faults>>

Crash(a) ==
  /\ pc[a] # "idle" /\ Fault("crash") /\ Leave(a)
  /\ UNCHANGED <<tasks, report, evidenceVars, preference, dockerVars>>

-----------------------------------------------------------------------------

Work ==
  \/ Recover \/ Prepare \/ StartContainer \/ AwaitAnswer \/ StopContainer
  \/ StoreAnswer \/ CommitAnswer \/ Succeed \/ Fail

Finish(a) == View(a) \/ WriteReport(a) \/ PointReport(a)
Serve(c) == InsertTask(c) \/ BeginWrite(c) \/ SavePreference(c) \/ Finish(c)

Next ==
  \/ \E c \in Clients : BeginCreate(c) \/ Ask(c) \/ Serve(c)
  \/ Take \/ Work \/ Finish("worker")
  \/ \E a \in Actors : Crash(a)

Spec == Init /\ [][Next]_vars

\* Requests and attempts that began go on; the worker, whose scans come round every two
\* seconds, does not meet a short-lived claim every single time.
FairSpec ==
  /\ Spec /\ SF_vars(Take) /\ WF_vars(Work) /\ WF_vars(Finish("worker"))
  /\ \A c \in Clients : WF_vars(Serve(c))

-----------------------------------------------------------------------------
(* Properties.                                                             *)

\* Whoever asks, one attempt at a time is under way, and it is the last one.
OneAttemptAtATime == \A t \in Attempts : tasks[t] \in Active => t = Len(tasks)

\* A report that an attempt points to says what the person thinks now, about answers that
\* exist: a change withdraws every report before another is written, and no request writes
\* what it read before someone else's change.
ReportIsCurrent ==
  \A t \in Attempts : report[t] # <<>> => report[t] = preference /\ Missing = {}

\* An attempt succeeds with every answer of both models, whichever attempt generated it,
\* and each of them can be read back.
SuccessIsComplete ==
  /\ answers \subseteq objects
  /\ (\E t \in Attempts : tasks[t] = "SUCCEEDED") => Missing = {}

\* An attempt that is over has left no container on the GPU, unless the daemon refused to
\* remove it: then the attempt is closed all the same, and nobody looks for it again.
OverIsFree == \A t \in Attempts : tasks[t] \in Over => t \notin containers \ abandoned

\* Attempts, requests and containers agree: whoever asks and whatever dies, there is one
\* attempt to look after and what came before it is cleared away.
Consistent == TypeOK /\ OneAttemptAtATime /\ OverIsFree

In(t, statuses) == t \in Attempts /\ tasks[t] \in statuses

\* Every attempt ends, also after its worker's death.
AttemptsEnd == \A t \in 1..MaxAttempts : In(t, Active) ~> In(t, Over)
=============================================================================
