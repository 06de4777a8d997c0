----------------------------- MODULE JobStates -----------------------------
(***************************************************************************)
(* The runs, what others see of them, their normalized control-plane       *)
(* states and the edges between them.  The table is written twice in the   *)
(* program, once in Python (app/jobs/states.py) and once in the PostgreSQL *)
(* trigger kitchensoup_job_state of migration 0010; the two agree, and     *)
(* this is it.                                                             *)
(***************************************************************************)
EXTENDS Sequences, Naturals

CONSTANT Runs \* identifiers of training runs

VARIABLES
  status,      \* training_runs.status
  log,         \* job_events of each run, in sequence order
  registered,  \* runs that own a model_versions row
  starts       \* history: how often training was started for the run

\* A run that has not been inserted yet.
Absent == "ABSENT"

TERMINAL == {"SUCCEEDED", "FAILED", "CANCELED", "LOST"}

JobState == TERMINAL \cup {"QUEUED", "PREPARING", "SUBMITTED", "RUNNING",
                           "POSTPROCESSING", "CANCEL_REQUESTED"}

TRANSITIONS ==
  [s \in JobState |->
     CASE s = "QUEUED"           -> {"PREPARING", "CANCELED"}
       [] s = "PREPARING"        -> {"SUBMITTED", "FAILED", "CANCEL_REQUESTED"}
       [] s = "SUBMITTED"        -> {"RUNNING", "FAILED", "CANCEL_REQUESTED", "LOST"}
       [] s = "RUNNING"          -> {"POSTPROCESSING", "FAILED", "CANCEL_REQUESTED", "LOST"}
       [] s = "POSTPROCESSING"   -> {"SUCCEEDED", "FAILED"}
       [] s = "CANCEL_REQUESTED" -> {"CANCELED", "POSTPROCESSING", "FAILED", "LOST"}
       [] s \in TERMINAL         -> {}]

\* The changes of one transaction, in order, are legal from state s: this is
\* validate_transition, called for each of them before the row is flushed.  It
\* also lets a state be written over itself; no path of the program does that.
LegalFrom(s, path) ==
  \A i \in 1..Len(path) :
    path[i] \in TRANSITIONS[IF i = 1 THEN s ELSE path[i - 1]]
=============================================================================
