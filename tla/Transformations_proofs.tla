------------------------ MODULE Transformations_proofs ------------------------
(***************************************************************************)
(* Theorems about Transformations, for any set of requests, any kinds and  *)
(* any number of faults.                                                   *)
(***************************************************************************)
EXTENDS Transformations, TLAPS

-----------------------------------------------------------------------------
(* The inductive invariant.                                                *)

\* An insertion under way has no row yet, and whoever did not insert has found one.
RequestInv ==
  /\ inserter # "nobody" => status = "none" /\ web[inserter] = "inserted"
  /\ \A r \in Requests :
       /\ web[r] = "inserted" /\ inserter # r => status # "none"
       /\ web[r] = "answered" => status # "none"

\* Where the handler stands tells which status the row has: nobody else moves it.
StepInv ==
  /\ pc # "idle" => status \in {"PREPARING", "RUNNING", "POSTPROCESSING"}
  /\ pc \in {"mkdir", "fill", "create", "start"} => status = "PREPARING"
  /\ pc = "look" => status # "POSTPROCESSING"
  /\ pc \in {"register", "put", "commit"} => status = "POSTPROCESSING"
  /\ pc \in {"put", "commit"} => ~output
  /\ pc = "commit" => object

\* What the handler is going to record fits what was registered, and a running job is
\* recorded without a clean-up.
GoalInv ==
  /\ pc \in {"remove", "rmtree"} => goal \in TERMINAL
  /\ pc = "write" => goal \in TERMINAL \cup {"RUNNING"}
  /\ pc \in {"remove", "rmtree", "write"} =>
       /\ goal = "SUCCEEDED" => output
       /\ goal \in {"FAILED", "LOST"} => ~output

\* The bytes come before the row that names them, and that row is about to succeed.
OutputInv ==
  /\ output => object /\ status \in {"POSTPROCESSING", "SUCCEEDED"}
  /\ status = "SUCCEEDED" => output

Gone == container \in {"none", "late"}

\* How far the handler has come with cleaning up.
CleanInv ==
  /\ pc = "rmtree" => Gone
  /\ pc = "write" /\ goal \in TERMINAL => Gone /\ ~workspace
  /\ status \in TERMINAL => Gone /\ ~workspace

IInv == TypeOK /\ RequestInv /\ StepInv /\ GoalInv /\ OutputInv /\ CleanInv

-----------------------------------------------------------------------------
(* Requests.                                                               *)

LEMMA FaultTypes ==
  ASSUME TypeOK, NEW f, Fault(f)
  PROVE  faults' \in 0..MaxFaults
  BY FaultsAssumption DEF TypeOK, Fault

LEMMA InsertKeeps ==
  ASSUME IInv, NEW r \in Requests, Insert(r)
  PROVE  IInv'
<1> USE DEF Insert, IInv, rowVars, dockerVars, procVars
<1>1. TypeOK'
  BY DEF TypeOK
<1>2. RequestInv'
  BY RequestsAssumption DEF TypeOK, RequestInv
<1>3. StepInv' /\ GoalInv' /\ OutputInv' /\ CleanInv'
  BY DEF StepInv, GoalInv, OutputInv, CleanInv, Gone
<1> QED
  BY <1>1, <1>2, <1>3

LEMMA AnswerKeeps ==
  ASSUME IInv, NEW r \in Requests, Answer(r)
  PROVE  IInv'
<1> USE DEF Answer, IInv, dockerVars, procVars
<1>1. TypeOK'
  BY DEF TypeOK, Pending
<1>2. RequestInv'
  BY RequestsAssumption DEF TypeOK, RequestInv
<1>3. inserter = r => status = "none"
  BY RequestsAssumption DEF RequestInv
<1>4. StepInv' /\ GoalInv' /\ OutputInv' /\ CleanInv'
  BY <1>3 DEF StepInv, GoalInv, OutputInv, CleanInv, Gone, TERMINAL
<1> QED
  BY <1>1, <1>2, <1>4

LEMMA RollBackKeeps ==
  ASSUME IInv, NEW r \in Requests, RollBack(r)
  PROVE  IInv'
<1> USE DEF RollBack, IInv, rowVars, dockerVars, procVars
<1>1. TypeOK'
  BY FaultTypes DEF TypeOK
<1>2. RequestInv'
  BY RequestsAssumption DEF TypeOK, RequestInv
<1>3. StepInv' /\ GoalInv' /\ OutputInv' /\ CleanInv'
  BY DEF StepInv, GoalInv, OutputInv, CleanInv, Gone
<1> QED
  BY <1>1, <1>2, <1>3

-----------------------------------------------------------------------------
(* The handler.                                                            *)

\* Nothing but a request writes the first status, and no status is taken back.
LEMMA RequestsStay ==
  ASSUME RequestInv, UNCHANGED <<web, inserter>>,
         status = "none" <=> status' = "none"
  PROVE  RequestInv'
  BY DEF RequestInv

LEMMA TakeKeeps ==
  ASSUME IInv, Take
  PROVE  IInv'
<1> USE DEF Take, IInv, Goto, rowVars, dockerVars, Pending
<1>1. TypeOK'
  BY DEF TypeOK, TERMINAL
<1>2. RequestInv'
  BY RequestsStay DEF StepInv
<1>3. StepInv' /\ GoalInv' /\ OutputInv' /\ CleanInv'
  BY DEF StepInv, GoalInv, OutputInv, CleanInv, Gone, TERMINAL, TypeOK
<1> QED
  BY <1>1, <1>2, <1>3

LEMMA MakeWorkspaceKeeps ==
  ASSUME IInv, MakeWorkspace
  PROVE  IInv'
<1> USE DEF MakeWorkspace, IInv, InDocker, dockerVars, rowVars, Goto, Turn, CleanUp, Calm
<1>1. TypeOK'
  <2>1. faults' \in 0..MaxFaults
    BY FaultTypes DEF TypeOK
  <2>2. workspace' \in BOOLEAN /\ coming' \in BOOLEAN /\ container' \in Containers
    BY DEF TypeOK, Containers
  <2> QED
    BY <2>1, <2>2 DEF TypeOK, TERMINAL
<1>2. RequestInv'
  BY RequestsStay DEF StepInv
<1>3. StepInv' /\ GoalInv' /\ OutputInv' /\ CleanInv'
  BY DEF StepInv, GoalInv, OutputInv, CleanInv, Gone, TERMINAL, TypeOK
<1> QED
  BY <1>1, <1>2, <1>3

LEMMA MaterializeInputsKeeps ==
  ASSUME IInv, MaterializeInputs
  PROVE  IInv'
<1> USE DEF MaterializeInputs, IInv, InDocker, dockerVars, rowVars, Goto, Turn, CleanUp, Calm
<1>1. TypeOK'
  BY FaultTypes DEF TypeOK, TERMINAL, Containers
<1>2. RequestInv'
  BY RequestsStay DEF StepInv
<1>3. StepInv' /\ GoalInv' /\ OutputInv' /\ CleanInv'
  BY DEF StepInv, GoalInv, OutputInv, CleanInv, Gone, TERMINAL, TypeOK
<1> QED
  BY <1>1, <1>2, <1>3

LEMMA CreateContainerKeeps ==
  ASSUME IInv, CreateContainer
  PROVE  IInv'
<1> USE DEF CreateContainer, IInv, InDocker, dockerVars, rowVars, Goto, Turn, CleanUp, Calm
<1>1. TypeOK'
  <2>1. faults' \in 0..MaxFaults
    BY FaultTypes DEF TypeOK
  <2>2. workspace' \in BOOLEAN /\ coming' \in BOOLEAN /\ container' \in Containers
    BY DEF TypeOK, Containers
  <2> QED
    BY <2>1, <2>2 DEF TypeOK, TERMINAL
<1>2. RequestInv'
  BY RequestsStay DEF StepInv
<1>3. StepInv' /\ GoalInv' /\ OutputInv' /\ CleanInv'
  BY DEF StepInv, GoalInv, OutputInv, CleanInv, Gone, TERMINAL, TypeOK
<1> QED
  BY <1>1, <1>2, <1>3

LEMMA StartContainerKeeps ==
  ASSUME IInv, StartContainer
  PROVE  IInv'
<1> USE DEF StartContainer, IInv, InDocker, dockerVars, rowVars, Goto, Turn, CleanUp, Calm
<1>1. TypeOK'
  BY FaultTypes DEF TypeOK, TERMINAL, Containers
<1>2. RequestInv'
  BY RequestsStay DEF StepInv
<1>3. StepInv' /\ GoalInv' /\ OutputInv' /\ CleanInv'
  BY DEF StepInv, GoalInv, OutputInv, CleanInv, Gone, TERMINAL, TypeOK
<1> QED
  BY <1>1, <1>2, <1>3

LEMMA LookKeeps ==
  ASSUME IInv, Look
  PROVE  IInv'
<1> USE DEF IInv, InRow, dockerVars, rowVars
<1>1. pc = "look" /\ status \in {"PREPARING", "RUNNING"} /\ ~output /\ status' # "none"
  BY DEF Look, StepInv, OutputInv
<1>2. faults' \in 0..MaxFaults /\ Outcome \in {"FAILED", "LOST"}
  BY FaultTypes DEF Look, TypeOK, Calm, Outcome
<1>3. \/ UNCHANGED status /\ Leave
      \/ UNCHANGED status /\ status = "PREPARING" /\ Turn("write", "RUNNING")
      \/ status' = "POSTPROCESSING" /\ Goto("register")
      \/ UNCHANGED status /\ CleanUp(Outcome)
  BY DEF Look
<1>4. InRow /\ UNCHANGED output
  BY DEF Look
<1>5. TypeOK'
  BY <1>2, <1>3, <1>4 DEF TypeOK, Leave, Turn, Goto, CleanUp, Pending, TERMINAL
<1>6. RequestInv'
  BY <1>1, <1>4, RequestsStay
<1>7. StepInv' /\ GoalInv' /\ OutputInv' /\ CleanInv'
  BY <1>1, <1>2, <1>3, <1>4
  DEF StepInv, GoalInv, OutputInv, CleanInv, Gone, TERMINAL, Leave, Turn, Goto, CleanUp
<1> QED
  BY <1>5, <1>6, <1>7

LEMMA ExportKeeps ==
  ASSUME IInv, Export
  PROVE  IInv'
<1> USE DEF Export, IInv, InRow, dockerVars, rowVars, Goto, Turn, CleanUp, Leave, Calm
<1>1. TypeOK'
  BY FaultTypes DEF TypeOK, TERMINAL
<1>2. RequestInv'
  BY RequestsStay DEF StepInv
<1>3. StepInv' /\ GoalInv' /\ OutputInv' /\ CleanInv'
  BY DEF StepInv, GoalInv, OutputInv, CleanInv, Gone, TERMINAL, TypeOK
<1> QED
  BY <1>1, <1>2, <1>3

LEMMA PutArchiveKeeps ==
  ASSUME IInv, PutArchive
  PROVE  IInv'
<1> USE DEF PutArchive, IInv, InRow, dockerVars, rowVars, Goto, Turn, CleanUp, Leave, Calm
<1>1. TypeOK'
  BY FaultTypes DEF TypeOK
<1>2. RequestInv'
  BY RequestsStay DEF StepInv
<1>3. StepInv' /\ GoalInv' /\ OutputInv' /\ CleanInv'
  BY DEF StepInv, GoalInv, OutputInv, CleanInv, Gone, TERMINAL, TypeOK
<1> QED
  BY <1>1, <1>2, <1>3

LEMMA RegisterOutputKeeps ==
  ASSUME IInv, RegisterOutput
  PROVE  IInv'
<1> USE DEF RegisterOutput, IInv, InRow, dockerVars, rowVars, Goto, Turn, CleanUp, Leave, Calm
<1>1. TypeOK'
  BY FaultTypes DEF TypeOK, TERMINAL
<1>2. RequestInv'
  BY RequestsStay DEF StepInv
<1>3. StepInv' /\ GoalInv' /\ OutputInv' /\ CleanInv'
  BY DEF StepInv, GoalInv, OutputInv, CleanInv, Gone, TERMINAL, TypeOK
<1> QED
  BY <1>1, <1>2, <1>3

LEMMA RemoveContainerKeeps ==
  ASSUME IInv, RemoveContainer
  PROVE  IInv'
<1> USE DEF RemoveContainer, IInv, InDocker, dockerVars, rowVars, Goto, Turn, CleanUp, Calm, Leave
<1>1. TypeOK'
  BY FaultTypes DEF TypeOK, Containers
<1>2. RequestInv'
  BY RequestsStay DEF StepInv
<1>3. StepInv' /\ GoalInv' /\ OutputInv' /\ CleanInv'
  BY DEF StepInv, GoalInv, OutputInv, CleanInv, Gone, TERMINAL, TypeOK
<1> QED
  BY <1>1, <1>2, <1>3

LEMMA RemoveWorkspaceKeeps ==
  ASSUME IInv, RemoveWorkspace
  PROVE  IInv'
<1> USE DEF RemoveWorkspace, IInv, InDocker, dockerVars, rowVars, Goto, Turn, CleanUp, Calm, Leave
<1>1. TypeOK'
  BY DEF TypeOK
<1>2. RequestInv'
  BY RequestsStay DEF StepInv
<1>3. StepInv' /\ GoalInv' /\ OutputInv' /\ CleanInv'
  BY DEF StepInv, GoalInv, OutputInv, CleanInv, Gone, TERMINAL, TypeOK
<1> QED
  BY <1>1, <1>2, <1>3

LEMMA WriteKeeps ==
  ASSUME IInv, Write
  PROVE  IInv'
<1> USE DEF Write, IInv, InRow, dockerVars, rowVars, Goto, Turn, CleanUp, Leave, Calm, Allowed
<1>1. TypeOK'
  BY DEF TypeOK, TERMINAL, Pending
<1>2. RequestInv'
  BY RequestsStay DEF StepInv
<1>3. StepInv' /\ GoalInv' /\ OutputInv' /\ CleanInv'
  BY DEF StepInv, GoalInv, OutputInv, CleanInv, Gone, TERMINAL, TypeOK
<1> QED
  BY <1>1, <1>2, <1>3

-----------------------------------------------------------------------------
(* Docker, time and crashes.                                               *)

LEMMA ContainerExitsKeeps ==
  ASSUME IInv, ContainerExits
  PROVE  IInv'
<1> USE DEF ContainerExits, IInv, Unhandled, rowVars, procVars, Calm
<1>1. TypeOK'
  BY FaultTypes DEF TypeOK, Containers
<1>2. RequestInv'
  <2>1. UNCHANGED <<web, inserter, status>>
    OBVIOUS
  <2> QED
    BY <2>1, RequestsStay
<1>3. StepInv' /\ GoalInv' /\ OutputInv' /\ CleanInv'
  BY DEF StepInv, GoalInv, OutputInv, CleanInv, Gone, TERMINAL, TypeOK
<1> QED
  BY <1>1, <1>2, <1>3

LEMMA ContainerAppearsKeeps ==
  ASSUME IInv, ContainerAppears
  PROVE  IInv'
<1> USE DEF ContainerAppears, IInv, Unhandled, rowVars, procVars, Calm
<1>1. TypeOK'
  BY FaultTypes DEF TypeOK, Containers
<1>2. RequestInv'
  <2>1. UNCHANGED <<web, inserter, status>>
    OBVIOUS
  <2> QED
    BY <2>1, RequestsStay
<1>3. StepInv' /\ GoalInv' /\ OutputInv' /\ CleanInv'
  BY DEF StepInv, GoalInv, OutputInv, CleanInv, Gone, TERMINAL, TypeOK
<1> QED
  BY <1>1, <1>2, <1>3

LEMMA ContainerVanishesKeeps ==
  ASSUME IInv, ContainerVanishes
  PROVE  IInv'
<1> USE DEF ContainerVanishes, IInv, Unhandled, rowVars, procVars, Calm
<1>1. TypeOK'
  BY FaultTypes DEF TypeOK, Containers
<1>2. RequestInv'
  <2>1. UNCHANGED <<web, inserter, status>>
    OBVIOUS
  <2> QED
    BY <2>1, RequestsStay
<1>3. StepInv' /\ GoalInv' /\ OutputInv' /\ CleanInv'
  BY DEF StepInv, GoalInv, OutputInv, CleanInv, Gone, TERMINAL, TypeOK
<1> QED
  BY <1>1, <1>2, <1>3

LEMMA ExpireKeeps ==
  ASSUME IInv, Expire
  PROVE  IInv'
<1> USE DEF Expire, IInv, rowVars, dockerVars, procVars
<1>1. TypeOK'
  BY DEF TypeOK
<1>2. RequestInv'
  <2>1. UNCHANGED <<web, inserter, status>>
    OBVIOUS
  <2> QED
    BY <2>1, RequestsStay
<1>3. StepInv' /\ GoalInv' /\ OutputInv' /\ CleanInv'
  BY DEF StepInv, GoalInv, OutputInv, CleanInv, Gone, TERMINAL, TypeOK
<1> QED
  BY <1>1, <1>2, <1>3

LEMMA CrashKeeps ==
  ASSUME IInv, Crash
  PROVE  IInv'
<1> USE DEF Crash, IInv, Leave, Turn, rowVars, dockerVars
<1>1. TypeOK'
  BY FaultTypes DEF TypeOK
<1>2. RequestInv'
  <2>1. UNCHANGED <<web, inserter, status>>
    OBVIOUS
  <2> QED
    BY <2>1, RequestsStay
<1>3. StepInv' /\ GoalInv' /\ OutputInv' /\ CleanInv'
  BY DEF StepInv, GoalInv, OutputInv, CleanInv, Gone, TERMINAL, TypeOK
<1> QED
  BY <1>1, <1>2, <1>3

-----------------------------------------------------------------------------
(* The theorems.                                                           *)

LEMMA InitInv == Init => IInv
<1> SUFFICES ASSUME Init PROVE IInv
  OBVIOUS
<1>1. MaxFaults \in 0..MaxFaults
  BY FaultsAssumption
<1>2. TypeOK
  BY <1>1 DEF Init, TypeOK, Containers
<1>3. RequestInv /\ StepInv /\ GoalInv /\ OutputInv /\ CleanInv
  BY DEF Init, RequestInv, StepInv, GoalInv, OutputInv, CleanInv, TERMINAL
<1> QED
  BY <1>2, <1>3 DEF IInv

LEMMA NextInv == IInv /\ [Next]_vars => IInv'
<1> SUFFICES ASSUME IInv, [Next]_vars PROVE IInv'
  OBVIOUS
<1>1. ASSUME NEW r \in Requests, Insert(r) \/ Answer(r) \/ RollBack(r) PROVE IInv'
  BY <1>1, InsertKeeps, AnswerKeeps, RollBackKeeps
<1>2. ASSUME Handler PROVE IInv'
  BY <1>2, MakeWorkspaceKeeps, MaterializeInputsKeeps, CreateContainerKeeps,
     StartContainerKeeps, LookKeeps, ExportKeeps, PutArchiveKeeps, RegisterOutputKeeps,
     RemoveContainerKeeps, RemoveWorkspaceKeeps, WriteKeeps DEF Handler
<1>3. ASSUME Take \/ Expire \/ ContainerExits \/ ContainerAppears \/ ContainerVanishes \/ Crash
      PROVE  IInv'
  BY <1>3, TakeKeeps, ExpireKeeps, ContainerExitsKeeps, ContainerAppearsKeeps,
     ContainerVanishesKeeps, CrashKeeps
<1>4. CASE UNCHANGED vars
  BY <1>4 DEF IInv, vars, rowVars, dockerVars, procVars, TypeOK, RequestInv, StepInv, GoalInv,
              OutputInv, CleanInv, Gone
<1> QED
  BY <1>1, <1>2, <1>3, <1>4 DEF Next

LEMMA InvHolds == Spec => []IInv
  BY InitInv, NextInv, PTL DEF Spec

\* However many requests overlap and wherever the work is interrupted, a request that was
\* answered has a row that stays, and a job that is over holds neither container nor
\* directory.
THEOREM RequestsAndHostAgree == Spec => []Consistent
<1>1. IInv => Consistent
  BY DEF IInv, RequestInv, CleanInv, Gone, Consistent, AnswersAreKept, OverIsFree
<1> QED
  BY <1>1, InvHolds, PTL

\* A job succeeds only with a registered output whose bytes were stored before, and one
\* that failed or was lost has registered nothing.
THEOREM OutcomesTellTheOutput == Spec => []OutcomeMatchesOutput
<1>1. IInv => OutcomeMatchesOutput
  BY DEF IInv, OutputInv, OutcomeMatchesOutput
<1> QED
  BY <1>1, InvHolds, PTL
=============================================================================
