------------------------ MODULE Deployments_proofs ------------------------
(***************************************************************************)
(* Theorems about Deployments, for any sets of deployments, workers and    *)
(* reconcilers, any leases and deadline, any kinds and number of faults.   *)
(***************************************************************************)
EXTENDS Deployments, TLAPS

-----------------------------------------------------------------------------
(* The inductive invariant.                                                *)

\* A process is idle exactly when it has no deployment; what it removes, it
\* removes to write a final status; what it writes is a status.
Bookkeeping ==
  \A p \in Procs :
    /\ pc[p] = "idle" <=> at[p] = None
    /\ pc[p] \in Removing => result[p] \in TERMINAL
    /\ pc[p] = "update" => result[p] # "none"

TypeInv == TypeOK /\ Bookkeeping

\* A working process holds the claim of its deployment, unless it was lost.
ClaimIsHeld == \A p \in Procs : pc[p] # "idle" /\ at[p] \notin lost => claim[at[p]] = p

\* The statuses from which the guard accepts a result, as far as a process can
\* find them although users may ask for a stop at any time.
From(s) ==
  IF s = "STOPPED" THEN {"STOP_REQUESTED"}
  ELSE IF s = "LOST" THEN {"STARTING", "RUNNING", "STOP_REQUESTED"}
  ELSE {"PREPARING", "STARTING", "RUNNING", "STOP_REQUESTED"}

Fits(p) ==
  /\ pc[p] \in Deploying \cup {"recover"} => status[at[p]] \in {"PREPARING", "STOP_REQUESTED"}
  /\ pc[p] = "watch" => status[at[p]] \in {"STARTING", "RUNNING", "STOP_REQUESTED"}
  /\ pc[p] \in Removing \cup {"update"} => status[at[p]] \in From(result[p])
  /\ pc[p] = "update" => result[p] \in TERMINAL \cup {"STARTING", "RUNNING"}

FitInv == \A p \in Procs : pc[p] # "idle" /\ at[p] \notin lost => Fits(p)

Free(d) == container[d] = "none" /\ ~network[d] /\ ~workspace[d]

\* How far a process has come with removing what its deployment holds.
Removed(p) ==
  /\ pc[p] \in {"network rm", "rmtree"} => container[at[p]] = "none"
  /\ pc[p] = "rmtree" => ~network[at[p]]
  /\ pc[p] = "update" /\ result[p] \in TERMINAL => Free(at[p])

\* A deployment that no process works on yet, or any more, holds nothing.
Untouched == {Absent, "QUEUED"} \cup TERMINAL

CleanInv ==
  /\ \A d \in Playgrounds \ lost : status[d] \in Untouched => Free(d)
  /\ \A p \in Procs : pc[p] # "idle" /\ at[p] \notin lost => Removed(p)

IInv == TypeInv /\ ClaimIsHeld /\ FitInv /\ CleanInv

-----------------------------------------------------------------------------
(* What the steps of a process have in common.                             *)

\* A step of process p changes at most what concerns the deployment it is at.
Frame(p) ==
  /\ pc[p] # "idle" /\ at[p] \in Playgrounds
  /\ status' \in [Playgrounds -> State \cup {Absent}]
  /\ container' \in [Playgrounds -> {"none", "created", "exited"} \cup Up]
  /\ network' \in [Playgrounds -> BOOLEAN] /\ workspace' \in [Playgrounds -> BOOLEAN]
  /\ \A d \in Playgrounds \ {at[p]} :
       /\ status'[d] = status[d] /\ container'[d] = container[d]
       /\ network'[d] = network[d] /\ workspace'[d] = workspace[d]
  /\ faults' \in Nat
  /\ UNCHANGED <<keep, left, age, histVars>>

\* It goes on to a next step with some result.
Moves(p, step, r) ==
  /\ pc' \in [Procs -> Steps] /\ result' \in [Procs -> State \cup {"none"}]
  /\ pc'[p] = step /\ result'[p] = r
  /\ \A q \in Procs \ {p} : pc'[q] = pc[q] /\ result'[q] = result[q]
  /\ UNCHANGED <<claim, at>>

LEMMA FaultTypes ==
  ASSUME TypeOK, NEW kind, Fault(kind)
  PROVE  faults' \in Nat
  BY DEF TypeOK, Fault

LEMMA ProceedMoves ==
  ASSUME TypeOK, NEW p \in Procs, NEW step \in Steps, Proceed(p, step)
  PROVE  Moves(p, step, result[p])
  BY DEF TypeOK, Proceed, Goto, Moves

LEMMA SettleMoves ==
  ASSUME TypeOK, NEW p \in Procs, NEW step \in Steps, NEW r \in State, Settle(p, r, step)
  PROVE  Moves(p, step, r)
  BY DEF TypeOK, Settle, Goto, Moves

LEMMA DeployFailedMoves ==
  ASSUME TypeOK, NEW p \in Procs, DeployFailed(p)
  PROVE  Moves(p, "rm", "FAILED")
<1>1. "rm" \in Steps /\ "FAILED" \in State
  BY DEF Steps, Removing, State, TERMINAL
<1> QED
  BY <1>1, SettleMoves DEF DeployFailed

\* A process works on a deployment, and as long as it holds the claim that one
\* is neither new nor over.
LEMMA Working ==
  ASSUME IInv, NEW p \in Procs, pc[p] # "idle"
  PROVE  /\ at[p] \in Playgrounds
         /\ at[p] \notin lost => Fits(p) /\ Removed(p) /\ claim[at[p]] = p
         /\ at[p] \notin lost => status[at[p]] \notin Untouched
<1>1. at[p] \in Playgrounds
  BY DEF IInv, TypeInv, TypeOK, Bookkeeping
<1>2. ASSUME at[p] \notin lost
      PROVE  Fits(p) /\ Removed(p) /\ claim[at[p]] = p
  BY <1>2 DEF IInv, FitInv, CleanInv, ClaimIsHeld
<1>3. pc[p] \in Deploying \cup Removing \cup {"recover", "watch", "update"}
  BY DEF IInv, TypeInv, TypeOK, Steps
<1>4. ASSUME at[p] \notin lost
      PROVE  status[at[p]] \in {"PREPARING", "STARTING", "RUNNING", "STOP_REQUESTED"}
  <2>1. \A s : From(s) \subseteq {"PREPARING", "STARTING", "RUNNING", "STOP_REQUESTED"}
    BY DEF From
  <2> QED
    BY <1>2, <1>3, <1>4, <2>1 DEF Fits
<1> QED
  BY <1>1, <1>2, <1>4 DEF Untouched, TERMINAL, Absent

\* Two processes are not at the same deployment while its claim holds.
LEMMA Apart ==
  ASSUME IInv, NEW p \in Procs, NEW q \in Procs, p # q,
         pc[p] # "idle", pc[q] # "idle", at[q] \notin lost
  PROVE  at[q] # at[p]
  BY Working

\* What a step leaves to the other processes.
LEMMA OthersKeep ==
  ASSUME IInv, NEW p \in Procs, Frame(p), NEW q \in Procs, q # p,
         pc'[q] = pc[q], at'[q] = at[q], result'[q] = result[q],
         \A d \in Playgrounds \ {at[p]} : claim'[d] = claim[d],
         pc'[q] # "idle", at'[q] \notin lost'
  PROVE  claim'[at'[q]] = q /\ Fits(q)' /\ Removed(q)'
<1>1. at[q] # at[p] /\ lost' = lost
  BY Apart DEF Frame, histVars
<1>2. at[q] \in Playgrounds /\ Fits(q) /\ Removed(q) /\ claim[at[q]] = q
  BY <1>1, Working
<1>3. /\ status'[at[q]] = status[at[q]] /\ container'[at[q]] = container[at[q]]
      /\ network'[at[q]] = network[at[q]] /\ workspace'[at[q]] = workspace[at[q]]
  BY <1>1, <1>2 DEF Frame
<1>4. claim'[at'[q]] = q
  BY <1>1, <1>2
<1>5. Fits(q)'
  BY <1>2, <1>3 DEF Fits
<1>6. Removed(q)'
  BY <1>2, <1>3 DEF Removed, Free
<1> QED
  BY <1>4, <1>5, <1>6

LEMMA Advance ==
  ASSUME IInv, NEW p \in Procs, Frame(p), UNCHANGED status,
         NEW step \in Steps \ {"idle"}, NEW r \in State \cup {"none"}, Moves(p, step, r),
         step \in Removing => r \in TERMINAL,
         step = "update" => r # "none",
         at[p] \notin lost => Fits(p)' /\ Removed(p)'
  PROVE  IInv'
<1>1. lost' = lost
  BY DEF Frame, histVars
<1>2. TypeInv'
  <2>1. TypeOK'
    BY DEF IInv, TypeInv, TypeOK, Frame, Moves, histVars
  <2>2. Bookkeeping'
    <3> SUFFICES ASSUME NEW q \in Procs
                 PROVE  /\ pc'[q] = "idle" <=> at'[q] = None
                        /\ pc'[q] \in Removing => result'[q] \in TERMINAL
                        /\ pc'[q] = "update" => result'[q] # "none"
      BY DEF Bookkeeping
    <3>1. CASE q = p
      BY <3>1 DEF IInv, TypeInv, Bookkeeping, Frame, Moves
    <3>2. CASE q # p
      BY <3>2 DEF IInv, TypeInv, Bookkeeping, Moves
    <3> QED
      BY <3>1, <3>2
  <2> QED
    BY <2>1, <2>2 DEF TypeInv
<1>3. \A q \in Procs : pc'[q] # "idle" /\ at'[q] \notin lost' =>
         claim'[at'[q]] = q /\ Fits(q)' /\ Removed(q)'
  <2> SUFFICES ASSUME NEW q \in Procs, pc'[q] # "idle", at'[q] \notin lost'
               PROVE  claim'[at'[q]] = q /\ Fits(q)' /\ Removed(q)'
    OBVIOUS
  <2>1. CASE q = p
    <3>1. at'[p] = at[p] /\ claim' = claim /\ pc[p] # "idle"
      BY DEF Moves, Frame
    <3> QED
      BY <1>1, <2>1, <3>1, Working
  <2>2. CASE q # p
    BY <2>2, OthersKeep DEF Moves
  <2> QED
    BY <2>1, <2>2
<1>4. \A d \in Playgrounds \ lost : status'[d] \in Untouched => Free(d)'
  <2> SUFFICES ASSUME NEW d \in Playgrounds \ lost, status[d] \in Untouched
               PROVE  Free(d)'
    OBVIOUS
  <2>1. d # at[p]
    BY Working DEF Frame
  <2> QED
    BY <2>1 DEF IInv, CleanInv, Free, Frame
<1> QED
  BY <1>1, <1>2, <1>3, <1>4 DEF IInv, ClaimIsHeld, FitInv, CleanInv

LEMMA Away ==
  ASSUME IInv, NEW p \in Procs, Frame(p), Leave(p),
         at[p] \notin lost /\ status'[at[p]] \in Untouched =>
           container'[at[p]] = "none" /\ ~network'[at[p]] /\ ~workspace'[at[p]]
  PROVE  IInv'
<1>1. lost' = lost
  BY DEF Frame, histVars
<1>2. /\ pc'[p] = "idle" /\ at'[p] = None /\ result'[p] = "none"
      /\ \A q \in Procs \ {p} : pc'[q] = pc[q] /\ at'[q] = at[q] /\ result'[q] = result[q]
      /\ \A d \in Playgrounds : claim[d] # p => claim'[d] = claim[d]
  BY DEF IInv, TypeInv, TypeOK, Leave
<1>3. TypeInv'
  <2>1. "idle" \in Steps
    BY DEF Steps
  <2>2. TypeOK'
    BY <2>1 DEF IInv, TypeInv, TypeOK, Frame, Leave, histVars
  <2>3. Bookkeeping'
    <3> SUFFICES ASSUME NEW q \in Procs
                 PROVE  /\ pc'[q] = "idle" <=> at'[q] = None
                        /\ pc'[q] \in Removing => result'[q] \in TERMINAL
                        /\ pc'[q] = "update" => result'[q] # "none"
      BY DEF Bookkeeping
    <3>1. CASE q = p
      BY <1>2, <3>1 DEF Removing
    <3>2. CASE q # p
      BY <1>2, <3>2 DEF IInv, TypeInv, Bookkeeping
    <3> QED
      BY <3>1, <3>2
  <2> QED
    BY <2>2, <2>3 DEF TypeInv
<1>4. \A q \in Procs : pc'[q] # "idle" /\ at'[q] \notin lost' =>
         claim'[at'[q]] = q /\ Fits(q)' /\ Removed(q)'
  <2> SUFFICES ASSUME NEW q \in Procs, pc'[q] # "idle", at'[q] \notin lost'
               PROVE  claim'[at'[q]] = q /\ Fits(q)' /\ Removed(q)'
    OBVIOUS
  <2>1. q # p
    BY <1>2
  <2>2. at[q] # at[p] /\ claim[at[q]] = q /\ at[q] \in Playgrounds
    BY <1>1, <1>2, <2>1, Apart, Working DEF Frame
  <2>3. claim'[at'[q]] = q
    BY <1>2, <2>1, <2>2
  <2>4. Fits(q)' /\ Removed(q)'
    <3>1. Fits(q) /\ Removed(q)
      BY <1>1, <1>2, <2>1, Working
    <3>2. /\ status'[at[q]] = status[at[q]] /\ container'[at[q]] = container[at[q]]
          /\ network'[at[q]] = network[at[q]] /\ workspace'[at[q]] = workspace[at[q]]
      BY <2>2 DEF Frame
    <3>3. pc'[q] = pc[q] /\ at'[q] = at[q] /\ result'[q] = result[q]
      BY <1>2, <2>1
    <3>4. Fits(q)'
      BY <3>1, <3>2, <3>3 DEF Fits
    <3>5. Removed(q)'
      BY <3>1, <3>2, <3>3 DEF Removed, Free
    <3> QED
      BY <3>4, <3>5
  <2> QED
    BY <2>3, <2>4
<1>5. \A d \in Playgrounds \ lost : status'[d] \in Untouched => Free(d)'
  <2> SUFFICES ASSUME NEW d \in Playgrounds \ lost, status'[d] \in Untouched
               PROVE  Free(d)'
    OBVIOUS
  <2>1. CASE d = at[p]
    BY <2>1 DEF Free
  <2>2. CASE d # at[p]
    <3>1. /\ status'[d] = status[d] /\ container'[d] = container[d]
          /\ network'[d] = network[d] /\ workspace'[d] = workspace[d]
      BY <2>2 DEF Frame
    <3>2. Free(d)
      BY <3>1 DEF IInv, CleanInv
    <3> QED
      BY <3>1, <3>2 DEF Free
  <2> QED
    BY <2>1, <2>2
<1> QED
  BY <1>1, <1>3, <1>4, <1>5 DEF IInv, ClaimIsHeld, FitInv, CleanInv

-----------------------------------------------------------------------------
(* The steps of executor.deploy().                                         *)

LEMMA MakeWorkspaceKeeps ==
  ASSUME IInv, NEW p \in Procs, MakeWorkspace(p)
  PROVE  IInv'
<1>1. TypeOK /\ "materialize" \in Steps /\ pc[p] = "mkdir" /\ at[p] \in Playgrounds
  BY Working DEF IInv, TypeInv, Steps, Deploying, MakeWorkspace
<1>2. Frame(p) /\ UNCHANGED status
  <2>1. UNCHANGED <<status, keep, left, age, container, network, histVars>>
    BY DEF MakeWorkspace, rowVars
  <2>2. workspace' \in {workspace, [workspace EXCEPT ![at[p]] = TRUE]}
    BY DEF MakeWorkspace
  <2>3. faults' \in Nat
    BY <1>1, FaultTypes DEF MakeWorkspace, TypeOK
  <2> QED
    BY <1>1, <2>1, <2>2, <2>3 DEF Frame, TypeOK
<1>3. at[p] \notin lost => Fits(p) /\ Removed(p) /\ status[at[p]] \notin Untouched
  BY <1>1, Working
<1>4. CASE Proceed(p, "materialize")
  <2>1. Moves(p, "materialize", result[p])
    BY <1>1, <1>4, ProceedMoves
  <2>2. result[p] \in State \cup {"none"} /\ "materialize" \in Steps \ {"idle"}
    BY <1>1 DEF TypeOK
  <2>3. at[p] \notin lost => Fits(p)' /\ Removed(p)'
    BY <1>1, <1>2, <1>3, <2>1 DEF Fits, Removed, Moves, Deploying, Removing
  <2> QED
    BY <1>2, <2>1, <2>2, <2>3, Advance DEF Removing
<1>5. CASE DeployFailed(p)
  <2>1. Moves(p, "rm", "FAILED")
    BY <1>1, <1>5, DeployFailedMoves
  <2>2. "FAILED" \in TERMINAL /\ "FAILED" \in State /\ "rm" \in Steps \ {"idle"}
    BY DEF TERMINAL, State, Steps, Removing
  <2>3. at[p] \notin lost => Fits(p)' /\ Removed(p)'
    BY <1>1, <1>2, <1>3, <2>1, <2>2 DEF Fits, Removed, Moves, Deploying, Removing, From
  <2> QED
    BY <1>2, <2>1, <2>2, <2>3, Advance
<1>6. CASE Leave(p)
  BY <1>2, <1>3, <1>6, Away
<1> QED
  BY <1>4, <1>5, <1>6 DEF MakeWorkspace

LEMMA MaterializeKeeps ==
  ASSUME IInv, NEW p \in Procs, Materialize(p)
  PROVE  IInv'
<1>1. TypeOK /\ "network" \in Steps /\ pc[p] = "materialize" /\ at[p] \in Playgrounds
  BY Working DEF IInv, TypeInv, Steps, Deploying, Materialize
<1>2. Frame(p) /\ UNCHANGED status
  <2>1. UNCHANGED <<status, keep, left, age, container, network, workspace, histVars>>
    BY DEF Materialize, rowVars, hostVars
  <2>2. faults' \in Nat
    BY <1>1, FaultTypes DEF Materialize, TypeOK
  <2> QED
    BY <1>1, <2>1, <2>2 DEF Frame, TypeOK
<1>3. at[p] \notin lost => Fits(p) /\ Removed(p) /\ status[at[p]] \notin Untouched
  BY <1>1, Working
<1>4. CASE Proceed(p, "network")
  <2>1. Moves(p, "network", result[p])
    BY <1>1, <1>4, ProceedMoves
  <2>2. result[p] \in State \cup {"none"} /\ "network" \in Steps \ {"idle"}
    BY <1>1 DEF TypeOK
  <2>3. at[p] \notin lost => Fits(p)' /\ Removed(p)'
    BY <1>1, <1>2, <1>3, <1>4, <2>1 DEF Fits, Removed, Moves, Deploying, Removing
  <2> QED
    BY <1>2, <2>1, <2>2, <2>3, Advance DEF Removing
<1>5. CASE DeployFailed(p)
  <2>1. Moves(p, "rm", "FAILED")
    BY <1>1, <1>5, DeployFailedMoves
  <2>2. "FAILED" \in TERMINAL /\ "FAILED" \in State /\ "rm" \in Steps \ {"idle"}
    BY DEF TERMINAL, State, Steps, Removing
  <2>3. at[p] \notin lost => Fits(p)' /\ Removed(p)'
    BY <1>1, <1>2, <1>3, <2>1, <2>2 DEF Fits, Removed, Moves, Deploying, Removing, From
  <2> QED
    BY <1>2, <2>1, <2>2, <2>3, Advance
<1> QED
  BY <1>4, <1>5 DEF Materialize

LEMMA CreateNetworkKeeps ==
  ASSUME IInv, NEW p \in Procs, CreateNetwork(p)
  PROVE  IInv'
<1>1. TypeOK /\ "create" \in Steps /\ pc[p] = "network" /\ at[p] \in Playgrounds
  BY Working DEF IInv, TypeInv, Steps, Deploying, CreateNetwork
<1>2. Frame(p) /\ UNCHANGED status
  <2>1. UNCHANGED <<status, keep, left, age, container, workspace, histVars>>
    BY DEF CreateNetwork, rowVars, hostVars
  <2>2. network' \in {network, [network EXCEPT ![at[p]] = TRUE]}
    BY DEF CreateNetwork
  <2>3. faults' \in Nat
    BY <1>1, FaultTypes DEF CreateNetwork, TypeOK
  <2> QED
    BY <1>1, <2>1, <2>2, <2>3 DEF Frame, TypeOK
<1>3. at[p] \notin lost => Fits(p) /\ Removed(p) /\ status[at[p]] \notin Untouched
  BY <1>1, Working
<1>4. CASE Proceed(p, "create")
  <2>1. Moves(p, "create", result[p])
    BY <1>1, <1>4, ProceedMoves
  <2>2. result[p] \in State \cup {"none"} /\ "create" \in Steps \ {"idle"}
    BY <1>1 DEF TypeOK
  <2>3. at[p] \notin lost => Fits(p)' /\ Removed(p)'
    BY <1>1, <1>2, <1>3, <1>4, <2>1 DEF Fits, Removed, Moves, Deploying, Removing
  <2> QED
    BY <1>2, <2>1, <2>2, <2>3, Advance DEF Removing
<1>5. CASE DeployFailed(p)
  <2>1. Moves(p, "rm", "FAILED")
    BY <1>1, <1>5, DeployFailedMoves
  <2>2. "FAILED" \in TERMINAL /\ "FAILED" \in State /\ "rm" \in Steps \ {"idle"}
    BY DEF TERMINAL, State, Steps, Removing
  <2>3. at[p] \notin lost => Fits(p)' /\ Removed(p)'
    BY <1>1, <1>2, <1>3, <2>1, <2>2 DEF Fits, Removed, Moves, Deploying, Removing, From
  <2> QED
    BY <1>2, <2>1, <2>2, <2>3, Advance
<1> QED
  BY <1>4, <1>5 DEF CreateNetwork

LEMMA DockerCreateKeeps ==
  ASSUME IInv, NEW p \in Procs, DockerCreate(p)
  PROVE  IInv'
<1>1. TypeOK /\ "start" \in Steps /\ pc[p] = "create" /\ at[p] \in Playgrounds
  BY Working DEF IInv, TypeInv, Steps, Deploying, DockerCreate
<1>2. Frame(p) /\ UNCHANGED status
  <2>1. UNCHANGED <<status, keep, left, age, network, workspace, histVars>>
    BY DEF DockerCreate, rowVars, hostVars
  <2>2. container' \in {container, [container EXCEPT ![at[p]] = "created"]}
    BY DEF DockerCreate
  <2>3. faults' \in Nat
    BY <1>1, FaultTypes DEF DockerCreate, TypeOK
  <2> QED
    BY <1>1, <2>1, <2>2, <2>3 DEF Frame, TypeOK
<1>3. at[p] \notin lost => Fits(p) /\ Removed(p) /\ status[at[p]] \notin Untouched
  BY <1>1, Working
<1>4. CASE Proceed(p, "start")
  <2>1. Moves(p, "start", result[p])
    BY <1>1, <1>4, ProceedMoves
  <2>2. result[p] \in State \cup {"none"} /\ "start" \in Steps \ {"idle"}
    BY <1>1 DEF TypeOK
  <2>3. at[p] \notin lost => Fits(p)' /\ Removed(p)'
    BY <1>1, <1>2, <1>3, <1>4, <2>1 DEF Fits, Removed, Moves, Deploying, Removing
  <2> QED
    BY <1>2, <2>1, <2>2, <2>3, Advance DEF Removing
<1>5. CASE DeployFailed(p)
  <2>1. Moves(p, "rm", "FAILED")
    BY <1>1, <1>5, DeployFailedMoves
  <2>2. "FAILED" \in TERMINAL /\ "FAILED" \in State /\ "rm" \in Steps \ {"idle"}
    BY DEF TERMINAL, State, Steps, Removing
  <2>3. at[p] \notin lost => Fits(p)' /\ Removed(p)'
    BY <1>1, <1>2, <1>3, <2>1, <2>2 DEF Fits, Removed, Moves, Deploying, Removing, From
  <2> QED
    BY <1>2, <2>1, <2>2, <2>3, Advance
<1> QED
  BY <1>4, <1>5 DEF DockerCreate

LEMMA DockerStartKeeps ==
  ASSUME IInv, NEW p \in Procs, DockerStart(p)
  PROVE  IInv'
<1>1. TypeOK /\ pc[p] = "start" /\ at[p] \in Playgrounds
  BY Working DEF IInv, TypeInv, DockerStart
<1>2. Frame(p) /\ UNCHANGED status
  <2>1. UNCHANGED <<status, keep, left, age, network, workspace, histVars>>
    BY DEF DockerStart, rowVars, hostVars
  <2>2. container' \in {container, [container EXCEPT ![at[p]] = "loading"]}
    BY DEF DockerStart
  <2>3. faults' \in Nat
    BY <1>1, FaultTypes DEF DockerStart, TypeOK
  <2> QED
    BY <1>1, <2>1, <2>2, <2>3 DEF Frame, TypeOK, Up
<1>3. at[p] \notin lost => Fits(p) /\ Removed(p) /\ status[at[p]] \notin Untouched
  BY <1>1, Working
<1>4. CASE Settle(p, "STARTING", "update")
  <2>1. "STARTING" \in State /\ "update" \in Steps \ {"idle"} /\ ("update" \in Removing => "STARTING" \in TERMINAL)
    BY DEF TERMINAL, State, Steps, Removing
  <2>2. Moves(p, "update", "STARTING")
    BY <1>1, <1>4, <2>1, SettleMoves
  <2>3. at[p] \notin lost => Fits(p)' /\ Removed(p)'
    BY <1>1, <1>2, <1>3, <2>2 DEF Fits, Removed, Moves, Deploying, Removing, From, TERMINAL
  <2> QED
    BY <1>2, <2>1, <2>2, <2>3, Advance
<1>5. CASE DeployFailed(p)
  <2>1. Moves(p, "rm", "FAILED")
    BY <1>1, <1>5, DeployFailedMoves
  <2>2. "FAILED" \in TERMINAL /\ "FAILED" \in State /\ "rm" \in Steps \ {"idle"}
    BY DEF TERMINAL, State, Steps, Removing
  <2>3. at[p] \notin lost => Fits(p)' /\ Removed(p)'
    BY <1>1, <1>2, <1>3, <2>1, <2>2 DEF Fits, Removed, Moves, Deploying, Removing, From
  <2> QED
    BY <1>2, <2>1, <2>2, <2>3, Advance
<1> QED
  BY <1>4, <1>5 DEF DockerStart

-----------------------------------------------------------------------------
(* The steps that look at the container, remove it, and write the result.  *)

LEMMA RecoverKeeps ==
  ASSUME IInv, NEW p \in Procs, Recover(p)
  PROVE  IInv'
<1>1. TypeOK /\ pc[p] = "recover" /\ at[p] \in Playgrounds
  BY Working DEF IInv, TypeInv, Recover
<1>2. Frame(p) /\ UNCHANGED status
  <2>1. UNCHANGED <<status, keep, left, age, container, network, workspace, histVars>>
    BY DEF Recover, rowVars, hostVars
  <2>2. faults' \in Nat
    BY <1>1, FaultTypes DEF Recover, TypeOK
  <2> QED
    BY <1>1, <2>1, <2>2 DEF Frame, TypeOK
<1>3. at[p] \notin lost => Fits(p) /\ Removed(p) /\ status[at[p]] \notin Untouched
  BY <1>1, Working
<1>4. CASE Settle(p, "RUNNING", "update")
  <2>1. "RUNNING" \in State /\ "update" \in Steps \ {"idle"} /\ ("update" \in Removing => "RUNNING" \in TERMINAL)
    BY DEF TERMINAL, State, Steps, Removing
  <2>2. Moves(p, "update", "RUNNING")
    BY <1>1, <1>4, <2>1, SettleMoves
  <2>3. at[p] \notin lost => Fits(p)' /\ Removed(p)'
    BY <1>1, <1>2, <1>3, <2>2 DEF Fits, Removed, Moves, Deploying, Removing, From, TERMINAL
  <2> QED
    BY <1>2, <2>1, <2>2, <2>3, Advance
<1>5. CASE Settle(p, "FAILED", "rm")
  <2>1. "FAILED" \in State /\ "rm" \in Steps \ {"idle"} /\ ("rm" \in Removing => "FAILED" \in TERMINAL)
    BY DEF TERMINAL, State, Steps, Removing
  <2>2. Moves(p, "rm", "FAILED")
    BY <1>1, <1>5, <2>1, SettleMoves
  <2>3. at[p] \notin lost => Fits(p)' /\ Removed(p)'
    BY <1>1, <1>2, <1>3, <2>2 DEF Fits, Removed, Moves, Deploying, Removing, From, TERMINAL
  <2> QED
    BY <1>2, <2>1, <2>2, <2>3, Advance
<1>6. CASE Leave(p)
  BY <1>2, <1>3, <1>6, Away
<1> QED
  BY <1>4, <1>5, <1>6 DEF Recover

LEMMA WatchKeeps ==
  ASSUME IInv, NEW p \in Procs, Watch(p)
  PROVE  IInv'
<1>1. TypeOK /\ pc[p] = "watch" /\ at[p] \in Playgrounds
  BY Working DEF IInv, TypeInv, Watch
<1>2. Frame(p) /\ UNCHANGED status
  <2>1. UNCHANGED <<status, keep, left, age, container, network, workspace, histVars>>
    BY DEF Watch, rowVars, hostVars
  <2>2. faults' \in Nat
    BY <1>1, FaultTypes DEF Watch, TypeOK
  <2> QED
    BY <1>1, <2>1, <2>2 DEF Frame, TypeOK
<1>3. at[p] \notin lost => Fits(p) /\ Removed(p) /\ status[at[p]] \notin Untouched
  BY <1>1, Working
<1>4. CASE Settle(p, "LOST", "rm")
  <2>1. "LOST" \in State /\ "rm" \in Steps \ {"idle"} /\ ("rm" \in Removing => "LOST" \in TERMINAL)
    BY DEF TERMINAL, State, Steps, Removing
  <2>2. Moves(p, "rm", "LOST")
    BY <1>1, <1>4, <2>1, SettleMoves
  <2>3. at[p] \notin lost => Fits(p)' /\ Removed(p)'
    BY <1>1, <1>2, <1>3, <2>2 DEF Fits, Removed, Moves, Deploying, Removing, From, TERMINAL
  <2> QED
    BY <1>2, <2>1, <2>2, <2>3, Advance
<1>5. CASE Settle(p, "FAILED", "rm")
  <2>1. "FAILED" \in State /\ "rm" \in Steps \ {"idle"} /\ ("rm" \in Removing => "FAILED" \in TERMINAL)
    BY DEF TERMINAL, State, Steps, Removing
  <2>2. Moves(p, "rm", "FAILED")
    BY <1>1, <1>5, <2>1, SettleMoves
  <2>3. at[p] \notin lost => Fits(p)' /\ Removed(p)'
    BY <1>1, <1>2, <1>3, <2>2 DEF Fits, Removed, Moves, Deploying, Removing, From, TERMINAL
  <2> QED
    BY <1>2, <2>1, <2>2, <2>3, Advance
<1>6. CASE Settle(p, "STARTING", "update")
  <2>1. "STARTING" \in State /\ "update" \in Steps \ {"idle"} /\ ("update" \in Removing => "STARTING" \in TERMINAL)
    BY DEF TERMINAL, State, Steps, Removing
  <2>2. Moves(p, "update", "STARTING")
    BY <1>1, <1>6, <2>1, SettleMoves
  <2>3. at[p] \notin lost => Fits(p)' /\ Removed(p)'
    BY <1>1, <1>2, <1>3, <2>2 DEF Fits, Removed, Moves, Deploying, Removing, From, TERMINAL
  <2> QED
    BY <1>2, <2>1, <2>2, <2>3, Advance
<1>7. CASE Settle(p, "RUNNING", "update")
  <2>1. "RUNNING" \in State /\ "update" \in Steps \ {"idle"} /\ ("update" \in Removing => "RUNNING" \in TERMINAL)
    BY DEF TERMINAL, State, Steps, Removing
  <2>2. Moves(p, "update", "RUNNING")
    BY <1>1, <1>7, <2>1, SettleMoves
  <2>3. at[p] \notin lost => Fits(p)' /\ Removed(p)'
    BY <1>1, <1>2, <1>3, <2>2 DEF Fits, Removed, Moves, Deploying, Removing, From, TERMINAL
  <2> QED
    BY <1>2, <2>1, <2>2, <2>3, Advance
<1>8. CASE Leave(p)
  BY <1>2, <1>3, <1>8, Away
<1>9. Observed(at[p]) \in {"LOST", "FAILED", "STARTING", "RUNNING"}
  BY <1>1 DEF Observed, TypeOK, Up
<1> QED
  BY <1>4, <1>5, <1>6, <1>7, <1>8, <1>9 DEF Watch

LEMMA RemoveContainerKeeps ==
  ASSUME IInv, NEW p \in Procs, RemoveContainer(p)
  PROVE  IInv'
<1>1. TypeOK /\ "network rm" \in Steps /\ pc[p] = "rm" /\ at[p] \in Playgrounds
  BY Working DEF IInv, TypeInv, Steps, Removing, RemoveContainer
<1>2. Frame(p) /\ UNCHANGED status
  <2>1. UNCHANGED <<status, keep, left, age, network, workspace, histVars>>
    BY DEF RemoveContainer, rowVars, hostVars
  <2>2. container' \in {container, [container EXCEPT ![at[p]] = "none"]}
    BY DEF RemoveContainer
  <2>3. faults' \in Nat
    BY <1>1, FaultTypes DEF RemoveContainer, TypeOK
  <2> QED
    BY <1>1, <2>1, <2>2, <2>3 DEF Frame, TypeOK
<1>3. at[p] \notin lost => Fits(p) /\ Removed(p) /\ status[at[p]] \notin Untouched
  BY <1>1, Working
<1>4. CASE Proceed(p, "network rm") /\ container' = [container EXCEPT ![at[p]] = "none"]
  <2>1. Moves(p, "network rm", result[p])
    BY <1>1, <1>4, ProceedMoves
  <2>2. result[p] \in TERMINAL /\ result[p] \in State \cup {"none"}
    BY <1>1 DEF TypeOK, IInv, TypeInv, Bookkeeping, Removing
  <2>3. "network rm" \in Steps \ {"idle"} /\ "network rm" # "update"
    BY <1>1
  <2>4. ASSUME at[p] \notin lost
        PROVE  Fits(p)' /\ Removed(p)'
    <3>1. at'[p] = at[p] /\ pc'[p] = "network rm" /\ result'[p] = result[p]
      BY <2>1 DEF Moves
    <3>2. Fits(p)'
      BY <1>1, <1>2, <1>3, <2>4, <3>1 DEF Fits, Deploying, Removing
    <3>3. Removed(p)'
      <4>1. container'[at[p]] = "none"
        BY <1>1, <1>4 DEF TypeOK
      <4> QED
        BY <1>1, <1>3, <2>4, <3>1, <4>1 DEF Removed, RemoveContainer
    <3> QED
      BY <3>2, <3>3
  <2> QED
    BY <1>2, <2>1, <2>2, <2>3, <2>4, Advance
<1>5. CASE Leave(p)
  BY <1>2, <1>3, <1>5, Away
<1> QED
  BY <1>4, <1>5 DEF RemoveContainer

LEMMA RemoveNetworkKeeps ==
  ASSUME IInv, NEW p \in Procs, RemoveNetwork(p)
  PROVE  IInv'
<1>1. TypeOK /\ "rmtree" \in Steps /\ pc[p] = "network rm" /\ at[p] \in Playgrounds
  BY Working DEF IInv, TypeInv, Steps, Removing, RemoveNetwork
<1>2. Frame(p) /\ UNCHANGED status
  <2>1. UNCHANGED <<status, keep, left, age, container, workspace, histVars>>
    BY DEF RemoveNetwork, rowVars, hostVars
  <2>2. network' \in {network, [network EXCEPT ![at[p]] = FALSE]}
    BY DEF RemoveNetwork
  <2>3. faults' \in Nat
    BY <1>1, FaultTypes DEF RemoveNetwork, TypeOK
  <2> QED
    BY <1>1, <2>1, <2>2, <2>3 DEF Frame, TypeOK
<1>3. at[p] \notin lost => Fits(p) /\ Removed(p) /\ status[at[p]] \notin Untouched
  BY <1>1, Working
<1>4. CASE Proceed(p, "rmtree") /\ network' = [network EXCEPT ![at[p]] = FALSE]
  <2>1. Moves(p, "rmtree", result[p])
    BY <1>1, <1>4, ProceedMoves
  <2>2. result[p] \in TERMINAL /\ result[p] \in State \cup {"none"}
    BY <1>1 DEF TypeOK, IInv, TypeInv, Bookkeeping, Removing
  <2>3. "rmtree" \in Steps \ {"idle"} /\ "rmtree" # "update"
    BY <1>1
  <2>4. ASSUME at[p] \notin lost
        PROVE  Fits(p)' /\ Removed(p)'
    <3>1. at'[p] = at[p] /\ pc'[p] = "rmtree" /\ result'[p] = result[p]
      BY <2>1 DEF Moves
    <3>2. Fits(p)'
      BY <1>1, <1>2, <1>3, <2>4, <3>1 DEF Fits, Deploying, Removing
    <3>3. Removed(p)'
      <4>1. network'[at[p]] = FALSE
        BY <1>1, <1>4 DEF TypeOK
      <4> QED
        BY <1>1, <1>3, <2>4, <3>1, <4>1 DEF Removed, RemoveNetwork
    <3> QED
      BY <3>2, <3>3
  <2> QED
    BY <1>2, <2>1, <2>2, <2>3, <2>4, Advance
<1>5. CASE Leave(p)
  BY <1>2, <1>3, <1>5, Away
<1> QED
  BY <1>4, <1>5 DEF RemoveNetwork

LEMMA RemoveWorkspaceKeeps ==
  ASSUME IInv, NEW p \in Procs, RemoveWorkspace(p)
  PROVE  IInv'
<1>1. TypeOK /\ "update" \in Steps /\ pc[p] = "rmtree" /\ at[p] \in Playgrounds
  BY Working DEF IInv, TypeInv, Steps, RemoveWorkspace
<1>2. Frame(p) /\ UNCHANGED status
  <2>1. UNCHANGED <<status, keep, left, age, container, network, histVars>>
    BY DEF RemoveWorkspace, rowVars, hostVars
  <2>2. workspace' \in {workspace, [workspace EXCEPT ![at[p]] = FALSE]}
    BY DEF RemoveWorkspace
  <2>3. faults' \in Nat
    BY <1>1, FaultTypes DEF RemoveWorkspace, TypeOK
  <2> QED
    BY <1>1, <2>1, <2>2, <2>3 DEF Frame, TypeOK
<1>3. at[p] \notin lost => Fits(p) /\ Removed(p) /\ status[at[p]] \notin Untouched
  BY <1>1, Working
<1>4. CASE Proceed(p, "update") /\ workspace' = [workspace EXCEPT ![at[p]] = FALSE]
  <2>1. Moves(p, "update", result[p])
    BY <1>1, <1>4, ProceedMoves
  <2>2. result[p] \in TERMINAL /\ result[p] # "none" /\ result[p] \in State
    <3>1. result[p] \in TERMINAL
      BY <1>1 DEF IInv, TypeInv, Bookkeeping, Removing
    <3> QED
      BY <3>1 DEF TERMINAL, State
  <2>3. ASSUME at[p] \notin lost
        PROVE  Fits(p)' /\ Removed(p)'
    <3>1. at'[p] = at[p] /\ pc'[p] = "update" /\ result'[p] = result[p]
      BY <2>1 DEF Moves
    <3>2. Fits(p)'
      BY <1>1, <1>2, <1>3, <2>2, <2>3, <3>1 DEF Fits, Deploying, Removing
    <3>3. Removed(p)'
      <4>1. ~workspace'[at[p]]
        BY <1>1, <1>4 DEF TypeOK
      <4>2. container'[at[p]] = "none" /\ ~network'[at[p]]
        BY <1>1, <1>3, <2>3 DEF Removed, RemoveWorkspace
      <4> QED
        BY <3>1, <4>1, <4>2 DEF Removed, Free
    <3> QED
      BY <3>2, <3>3
  <2>4. "update" \in Steps \ {"idle"} /\ "update" \notin Removing
    BY <1>1 DEF Removing
  <2> QED
    BY <1>2, <2>1, <2>2, <2>3, <2>4, Advance
<1>5. CASE Leave(p)
  BY <1>2, <1>3, <1>5, Away
<1> QED
  BY <1>4, <1>5 DEF RemoveWorkspace

\* The guard accepts what a process that holds its claim is going to write.
LEMMA GuardAccepts ==
  ASSUME IInv, NEW p \in Procs, pc[p] = "update", at[p] \notin lost
  PROVE  Allowed(status[at[p]], Written(status[at[p]], result[p]))
<1>1. /\ status[at[p]] \in From(result[p])
      /\ result[p] \in TERMINAL \cup {"STARTING", "RUNNING"}
  BY Working DEF Fits
<1>2. /\ "PREPARING" \in State /\ "STARTING" \in State
      /\ "RUNNING" \in State /\ "STOP_REQUESTED" \in State
  BY DEF State
<1>3. /\ GUARD["PREPARING"] = {"STARTING", "RUNNING", "FAILED", "STOP_REQUESTED"}
      /\ GUARD["STARTING"] = {"RUNNING", "FAILED", "LOST", "STOP_REQUESTED"}
      /\ GUARD["RUNNING"] = {"STARTING", "FAILED", "LOST", "STOP_REQUESTED"}
      /\ GUARD["STOP_REQUESTED"] = {"STOPPED"}
  BY <1>2 DEF GUARD, TERMINAL
<1> QED
  BY <1>1, <1>3 DEF From, TERMINAL, Allowed, Written

LEMMA UpdateKeeps ==
  ASSUME IInv, NEW p \in Procs, Update(p)
  PROVE  IInv'
<1>1. TypeOK /\ pc[p] = "update" /\ at[p] \in Playgrounds
  BY Working DEF IInv, TypeInv, Update
<1> DEFINE new == Written(status[at[p]], result[p])
<1>2. new \in State \cup {Absent}
  <2>1. result[p] # "none"
    BY <1>1 DEF IInv, TypeInv, Bookkeeping
  <2> QED
    BY <1>1, <2>1 DEF TypeOK, Written
<1>3. status' \in {status, [status EXCEPT ![at[p]] = new]}
  BY DEF Update
<1>4. Frame(p)
  <2>1. UNCHANGED <<keep, left, age, container, network, workspace, histVars, faults>>
    BY DEF Update, hostVars
  <2> QED
    BY <1>1, <1>2, <1>3, <2>1 DEF Frame, TypeOK
<1>5. ASSUME at[p] \notin lost, status'[at[p]] \in Untouched
      PROVE  container'[at[p]] = "none" /\ ~network'[at[p]] /\ ~workspace'[at[p]]
  <2>1. Fits(p) /\ Removed(p) /\ status[at[p]] \notin Untouched
    BY <1>1, <1>5, Working
  <2>2. status'[at[p]] = new /\ new \in Untouched
    BY <1>1, <1>3, <1>5, <2>1 DEF TypeOK
  <2>3. new = result[p]
    BY <2>1, <2>2 DEF Written
  <2>4. result[p] \in TERMINAL
    BY <1>1, <2>1, <2>2, <2>3 DEF Fits, Untouched, Absent, TERMINAL
  <2>5. Free(at[p])
    BY <1>1, <2>1, <2>4 DEF Removed
  <2> QED
    BY <2>5 DEF Free, Update, hostVars
<1>6. Leave(p)
  BY DEF Update
<1> QED
  BY <1>4, <1>5, <1>6, Away

LEMMA CrashKeeps ==
  ASSUME IInv, NEW p \in Procs, Crash(p)
  PROVE  IInv'
<1>1. TypeOK /\ pc[p] # "idle" /\ at[p] \in Playgrounds
  BY Working DEF IInv, TypeInv, Crash
<1>2. Frame(p) /\ UNCHANGED status
  <2>1. UNCHANGED <<status, keep, left, age, container, network, workspace, histVars>>
    BY DEF Crash, rowVars, hostVars
  <2>2. faults' \in Nat
    BY <1>1, FaultTypes DEF Crash
  <2> QED
    BY <1>1, <2>1, <2>2 DEF Frame, TypeOK
<1>3. at[p] \notin lost => status[at[p]] \notin Untouched
  BY <1>1, Working
<1> QED
  BY <1>2, <1>3, Away DEF Crash

-----------------------------------------------------------------------------
(* Users, time and servers.                                                *)

\* Users and time change rows: a new deployment is queued, a live one may be
\* asked to stop.
LEMMA RowsKeep ==
  ASSUME IInv, TypeOK', UNCHANGED <<hostVars, claim, procVars, lost>>,
         \A d \in Playgrounds :
           \/ status'[d] = status[d]
           \/ status[d] = Absent /\ status'[d] = "QUEUED"
           \/ status[d] \notin Untouched /\ status'[d] = "STOP_REQUESTED"
           \/ status[d] = "QUEUED" /\ status'[d] = "STOP_REQUESTED"
  PROVE  IInv'
<1>1. UNCHANGED <<container, network, workspace, claim, pc, at, result, lost>>
  BY DEF hostVars, procVars
<1>2. TypeInv'
  BY <1>1 DEF IInv, TypeInv, Bookkeeping
<1>3. ClaimIsHeld'
  BY <1>1 DEF IInv, ClaimIsHeld
<1>4. ASSUME NEW p \in Procs, pc[p] # "idle", at[p] \notin lost
      PROVE  Fits(p)' /\ Removed(p)'
  <2>1. at[p] \in Playgrounds /\ Fits(p) /\ Removed(p) /\ status[at[p]] \notin Untouched
    BY <1>4, Working
  <2>2. status'[at[p]] = status[at[p]] \/ status'[at[p]] = "STOP_REQUESTED"
    BY <2>1 DEF Untouched
  <2>3. Fits(p)'
    BY <1>1, <2>1, <2>2 DEF Fits, From, Removing
  <2>4. Removed(p)'
    BY <1>1, <2>1 DEF Removed, Free
  <2> QED
    BY <2>3, <2>4
<1>5. ASSUME NEW d \in Playgrounds \ lost, status'[d] \in Untouched
      PROVE  Free(d)'
  <2>1. status[d] \in Untouched
    BY <1>5 DEF Untouched, TERMINAL, Absent
  <2> QED
    BY <1>1, <2>1 DEF IInv, CleanInv, Free
<1> QED
  BY <1>1, <1>2, <1>3, <1>4, <1>5 DEF IInv, FitInv, CleanInv

LEMMA CreateKeeps ==
  ASSUME IInv, NEW d \in Playgrounds, NEW minutes \in Leases, Create(d, minutes)
  PROVE  IInv'
<1>1. TypeOK /\ minutes \in 0..Day /\ "QUEUED" \in State
  BY TimesAssumption DEF IInv, TypeInv, State
<1>2. TypeOK'
  BY <1>1 DEF TypeOK, Create, hostVars, procVars, histVars
<1> QED
  BY <1>1, <1>2, RowsKeep DEF TypeOK, Create, histVars

LEMMA StopKeeps ==
  ASSUME IInv, NEW d \in Playgrounds, Stop(d)
  PROVE  IInv'
<1>1. TypeOK /\ "STOP_REQUESTED" \in State
  BY DEF IInv, TypeInv, State
<1>2. TypeOK'
  BY <1>1 DEF TypeOK, Stop, hostVars, procVars, histVars
<1>3. status[d] = "QUEUED" \/ status[d] \notin Untouched
  BY DEF Stop, Open, Live, Untouched, State, Absent
<1> QED
  BY <1>1, <1>2, <1>3, RowsKeep DEF TypeOK, Stop, histVars

LEMMA KeepKeeps ==
  ASSUME IInv, NEW d \in Playgrounds, Keep(d)
  PROVE  IInv'
<1>1. TypeOK'
  BY DEF IInv, TypeInv, TypeOK, Keep, hostVars, procVars, histVars
<1> QED
  BY <1>1, RowsKeep DEF Keep, histVars

LEMMA ExtendKeeps ==
  ASSUME IInv, NEW d \in Playgrounds, NEW minutes \in Leases, Extend(d, minutes)
  PROVE  IInv'
<1>1. TypeOK /\ minutes \in 1..Day /\ Day \in Nat
  BY TimesAssumption DEF IInv, TypeInv
<1>2. left[d] \in 0..Day
  BY <1>1 DEF TypeOK
<1>3. (IF left[d] + minutes <= Day THEN left[d] + minutes ELSE Day) \in 0..Day
  BY <1>1, <1>2
<1>4. left' \in [Playgrounds -> 0..Day]
  BY <1>1, <1>3 DEF TypeOK, Extend
<1>5. TypeOK'
  BY <1>1, <1>4 DEF TypeOK, Extend, hostVars, procVars, histVars
<1> QED
  BY <1>5, RowsKeep DEF Extend, histVars

LEMMA ElapseKeeps ==
  ASSUME IInv, Elapse
  PROVE  IInv'
<1>1. TypeOK /\ Day \in Nat /\ Deadline \in Nat
  BY TimesAssumption DEF IInv, TypeInv
<1>2. left' \in [Playgrounds -> 0..Day] /\ age' \in [Playgrounds -> 0..(Deadline + 1)]
  BY <1>1 DEF TypeOK, Elapse
<1>3. TypeOK'
  BY <1>1, <1>2 DEF TypeOK, Elapse, hostVars, procVars, histVars
<1> QED
  BY <1>3, RowsKeep DEF Elapse, histVars

\* A server starts, stops or disappears, but no container comes out of nothing.
LEMMA ServersKeep ==
  ASSUME IInv, TypeOK', UNCHANGED <<rowVars, network, workspace, claim, procVars, lost>>,
         \A d \in Playgrounds : container[d] = "none" => container'[d] = "none"
  PROVE  IInv'
<1>1. UNCHANGED <<status, network, workspace, claim, pc, at, result, lost>>
  BY DEF rowVars, procVars
<1>2. TypeInv'
  BY <1>1 DEF IInv, TypeInv, Bookkeeping
<1>3. ClaimIsHeld'
  BY <1>1 DEF IInv, ClaimIsHeld
<1>4. ASSUME NEW p \in Procs, pc[p] # "idle", at[p] \notin lost
      PROVE  Fits(p)' /\ Removed(p)'
  <2>1. at[p] \in Playgrounds /\ Fits(p) /\ Removed(p)
    BY <1>4, Working
  <2>2. Fits(p)'
    BY <1>1, <2>1 DEF Fits
  <2>3. Removed(p)'
    BY <1>1, <2>1 DEF Removed, Free
  <2> QED
    BY <2>2, <2>3
<1>5. ASSUME NEW d \in Playgrounds \ lost, status'[d] \in Untouched
      PROVE  Free(d)'
  BY <1>1, <1>5 DEF IInv, CleanInv, Free
<1> QED
  BY <1>1, <1>2, <1>3, <1>4, <1>5 DEF IInv, FitInv, CleanInv

LEMMA ServerReadyKeeps ==
  ASSUME IInv, NEW d \in Playgrounds, ServerReady(d)
  PROVE  IInv'
<1>1. TypeOK
  BY DEF IInv, TypeInv
<1>2. TypeOK'
  BY <1>1 DEF TypeOK, ServerReady, rowVars, procVars, Up
<1> QED
  BY <1>1, <1>2, ServersKeep DEF TypeOK, ServerReady

LEMMA ServerFailsKeeps ==
  ASSUME IInv, NEW d \in Playgrounds, ServerFails(d)
  PROVE  IInv'
<1>1. TypeOK
  BY DEF IInv, TypeInv
<1>2. /\ container' \in {[container EXCEPT ![d] = "exited"], [container EXCEPT ![d] = "loading"]}
      /\ container[d] # "none"
  BY DEF ServerFails, Up
<1>3. faults' \in Nat
  BY <1>1, FaultTypes DEF ServerFails
<1>4. TypeOK'
  BY <1>1, <1>2, <1>3 DEF TypeOK, ServerFails, rowVars, procVars, histVars, Up
<1> QED
  BY <1>1, <1>2, <1>4, ServersKeep DEF TypeOK, ServerFails, histVars

LEMMA ContainerRemovedKeeps ==
  ASSUME IInv, NEW d \in Playgrounds, ContainerRemoved(d)
  PROVE  IInv'
<1>1. TypeOK
  BY DEF IInv, TypeInv
<1>2. faults' \in Nat
  BY <1>1, FaultTypes DEF ContainerRemoved
<1>3. TypeOK'
  BY <1>1, <1>2 DEF TypeOK, ContainerRemoved, rowVars, procVars, histVars
<1> QED
  BY <1>1, <1>3, ServersKeep DEF TypeOK, ContainerRemoved, histVars

-----------------------------------------------------------------------------
(* Claims.                                                                 *)

\* A claim changes only where no process holds one, or where it is lost.
LEMMA ClaimsKeep ==
  ASSUME IInv, TypeOK', UNCHANGED <<rowVars, hostVars, procVars>>, lost \subseteq lost',
         \A d \in Playgrounds \ lost' : claim'[d] = claim[d] \/ claim[d] \notin Procs
  PROVE  IInv'
<1>1. UNCHANGED <<status, container, network, workspace, pc, at, result>>
  BY DEF rowVars, hostVars, procVars
<1>2. TypeInv'
  BY <1>1 DEF IInv, TypeInv, Bookkeeping
<1>3. ASSUME NEW p \in Procs, pc[p] # "idle", at[p] \notin lost'
      PROVE  claim'[at[p]] = p /\ Fits(p)' /\ Removed(p)'
  <2>1. at[p] \in Playgrounds /\ Fits(p) /\ Removed(p) /\ claim[at[p]] = p
    BY <1>3, Working
  <2>2. Fits(p)'
    BY <1>1, <2>1 DEF Fits
  <2>3. Removed(p)'
    BY <1>1, <2>1 DEF Removed, Free
  <2> QED
    BY <1>3, <2>1, <2>2, <2>3
<1>4. \A d \in Playgrounds \ lost' : status'[d] \in Untouched => Free(d)'
  BY <1>1 DEF IInv, CleanInv, Free
<1> QED
  BY <1>1, <1>2, <1>3, <1>4 DEF IInv, ClaimIsHeld, FitInv, CleanInv

LEMMA ChatBeginsKeeps ==
  ASSUME IInv, NEW d \in Playgrounds, ChatBegins(d)
  PROVE  IInv'
<1>1. TypeOK
  BY DEF IInv, TypeInv
<1>2. TypeOK'
  BY <1>1 DEF TypeOK, ChatBegins, rowVars, hostVars, procVars, histVars
<1> QED
  BY <1>1, <1>2, NullsAssumption, ClaimsKeep DEF TypeOK, ChatBegins, histVars

LEMMA ChatEndsKeeps ==
  ASSUME IInv, NEW d \in Playgrounds, ChatEnds(d)
  PROVE  IInv'
<1>1. TypeOK
  BY DEF IInv, TypeInv
<1>2. TypeOK'
  BY <1>1 DEF TypeOK, ChatEnds, rowVars, hostVars, procVars, histVars
<1> QED
  BY <1>1, <1>2, NullsAssumption, ClaimsKeep DEF TypeOK, ChatEnds, histVars

LEMMA ClaimLostKeeps ==
  ASSUME IInv, NEW d \in Playgrounds, ClaimLost(d)
  PROVE  IInv'
<1>1. TypeOK
  BY DEF IInv, TypeInv
<1>2. faults' \in Nat
  BY <1>1, FaultTypes DEF ClaimLost
<1>3. TypeOK'
  BY <1>1, <1>2 DEF TypeOK, ClaimLost, rowVars, hostVars, procVars
<1> QED
  BY <1>1, <1>3, ClaimsKeep DEF TypeOK, ClaimLost

\* A process takes a claim nobody holds, and starts where the row says.
LEMMA TakeKeeps ==
  ASSUME IInv, NEW p \in Procs, NEW d \in Playgrounds, Take(p, d)
  PROVE  IInv'
<1> DEFINE s == IF Expired(d) THEN "STOP_REQUESTED" ELSE status[d]
           new == IF s = "QUEUED" THEN "PREPARING" ELSE s
           r == IF s = "STOP_REQUESTED" THEN "STOPPED" ELSE "none"
<1>1. TypeOK /\ pc[p] = "idle" /\ claim[d] = NoProc
  BY DEF IInv, TypeInv, Take
<1>2. /\ status' = [status EXCEPT ![d] = new] /\ result' = [result EXCEPT ![p] = r]
      /\ claim' = [claim EXCEPT ![d] = p] /\ at' = [at EXCEPT ![p] = d]
      /\ pc' = [pc EXCEPT ![p] = Route(p, s)]
      /\ UNCHANGED <<keep, left, age, hostVars, histVars, faults>>
  BY DEF Take, Goto
<1>3. \/ s = "STOP_REQUESTED" /\ Route(p, s) = "rm"
      \/ s = "QUEUED" /\ Route(p, s) = "mkdir"
      \/ s = "PREPARING" /\ Route(p, s) = "recover"
      \/ s \in {"STARTING", "RUNNING"} /\ Route(p, s) = "watch"
  <2>1. Route(p, s) # "idle"
    BY DEF Take
  <2>2. Route(p, s) = IF s = "STOP_REQUESTED" THEN "rm"
                      ELSE IF p \in Workers /\ s = "QUEUED" THEN "mkdir"
                      ELSE IF p \in Workers /\ s = "PREPARING" THEN "recover"
                      ELSE IF p \in Reconcilers /\ s \in {"STARTING", "RUNNING"} THEN "watch"
                      ELSE "idle"
    BY DEF Route
  <2> QED
    BY <2>1, <2>2
<1>4. /\ new \in {"STOP_REQUESTED", "PREPARING", "STARTING", "RUNNING"}
      /\ r \in {"STOPPED", "none"}
  BY <1>3
<1>5. TypeInv'
  <2>1. new \in State /\ r \in State \cup {"none"}
    BY <1>4 DEF State, TERMINAL
  <2>2. Route(p, s) \in Steps
    BY <1>3 DEF Steps, Deploying, Removing
  <2>3. TypeOK'
    BY <1>1, <1>2, <2>1, <2>2 DEF TypeOK, hostVars, histVars
  <2>4. Bookkeeping'
    <3> SUFFICES ASSUME NEW q \in Procs
                 PROVE  /\ pc'[q] = "idle" <=> at'[q] = None
                        /\ pc'[q] \in Removing => result'[q] \in TERMINAL
                        /\ pc'[q] = "update" => result'[q] # "none"
      BY DEF Bookkeeping
    <3>1. CASE q = p
      <4>1. pc'[p] = Route(p, s) /\ at'[p] = d /\ result'[p] = r
        BY <1>1, <1>2 DEF TypeOK
      <4>2. d # None
        BY NullsAssumption
      <4> QED
        BY <1>3, <3>1, <4>1, <4>2 DEF Removing, TERMINAL
    <3>2. CASE q # p
      BY <1>1, <1>2, <3>2 DEF IInv, TypeInv, TypeOK, Bookkeeping
    <3> QED
      BY <3>1, <3>2
  <2> QED
    BY <2>3, <2>4 DEF TypeInv
<1>6. UNCHANGED <<container, network, workspace, lost>>
  BY <1>2 DEF hostVars, histVars
<1>7. ASSUME NEW q \in Procs, pc'[q] # "idle", at'[q] \notin lost'
      PROVE  claim'[at'[q]] = q /\ Fits(q)' /\ Removed(q)'
  <2>1. CASE q = p
    <3>1. /\ pc'[p] = Route(p, s) /\ at'[p] = d /\ result'[p] = r
          /\ claim'[d] = p /\ status'[d] = new
      BY <1>1, <1>2 DEF TypeOK
    <3>2. Fits(p)'
      BY <1>3, <3>1 DEF Fits, Deploying, Removing, From
    <3>3. Removed(p)'
      BY <1>3, <3>1 DEF Removed
    <3> QED
      BY <2>1, <3>1, <3>2, <3>3
  <2>2. CASE q # p
    <3>1. pc'[q] = pc[q] /\ at'[q] = at[q] /\ result'[q] = result[q]
      BY <1>1, <1>2, <2>2 DEF TypeOK
    <3>2. /\ at[q] \in Playgrounds /\ Fits(q) /\ Removed(q) /\ claim[at[q]] = q
      BY <1>6, <1>7, <3>1, Working
    <3>3. at[q] # d
      BY <1>1, <3>2, NullsAssumption
    <3>4. claim'[at[q]] = q /\ status'[at[q]] = status[at[q]]
      BY <1>1, <1>2, <3>2, <3>3 DEF TypeOK
    <3>5. Fits(q)'
      BY <3>1, <3>2, <3>4 DEF Fits
    <3>6. Removed(q)'
      BY <1>6, <3>1, <3>2 DEF Removed, Free
    <3> QED
      BY <3>1, <3>4, <3>5, <3>6
  <2> QED
    BY <2>1, <2>2
<1>8. ASSUME NEW e \in Playgrounds \ lost', status'[e] \in Untouched
      PROVE  Free(e)'
  <2>1. e # d
    BY <1>1, <1>2, <1>4, <1>8 DEF TypeOK, Untouched, TERMINAL, Absent
  <2>2. status'[e] = status[e]
    BY <1>1, <1>2, <2>1, <1>8 DEF TypeOK
  <2> QED
    BY <1>6, <1>8, <2>2 DEF IInv, CleanInv, Free
<1> QED
  BY <1>5, <1>7, <1>8 DEF IInv, ClaimIsHeld, FitInv, CleanInv

-----------------------------------------------------------------------------
(* The theorems.                                                           *)

LEMMA InitInv == Init => IInv
<1> SUFFICES ASSUME Init PROVE IInv
  OBVIOUS
<1>1. 0 \in 0..Day /\ 0 \in 0..(Deadline + 1) /\ MaxFaults \in Nat
  BY TimesAssumption, FaultsAssumption
<1>2. TypeInv
  BY <1>1 DEF Init, TypeInv, TypeOK, Bookkeeping, Steps, Removing
<1>3. ClaimIsHeld /\ FitInv
  BY DEF Init, ClaimIsHeld, FitInv
<1>4. CleanInv
  BY DEF Init, CleanInv, Free
<1> QED
  BY <1>2, <1>3, <1>4 DEF IInv

LEMMA StutterInv == IInv /\ UNCHANGED vars => IInv'
<1> SUFFICES ASSUME IInv, UNCHANGED vars PROVE IInv'
  OBVIOUS
<1>1. UNCHANGED <<status, keep, left, age, container, network, workspace, claim,
                  pc, at, result, served, lost, faults>>
  BY DEF vars, rowVars, hostVars, procVars, histVars
<1>2. TypeInv'
  BY <1>1 DEF IInv, TypeInv, TypeOK, Bookkeeping
<1>3. ClaimIsHeld' /\ FitInv'
  BY <1>1 DEF IInv, ClaimIsHeld, FitInv, Fits
<1>4. CleanInv'
  BY <1>1 DEF IInv, CleanInv, Removed, Free
<1> QED
  BY <1>2, <1>3, <1>4 DEF IInv

LEMMA NextInv == IInv /\ [Next]_vars => IInv'
<1> SUFFICES ASSUME IInv, [Next]_vars PROVE IInv'
  OBVIOUS
<1>1. ASSUME NEW d \in Playgrounds, Web(d) PROVE IInv'
  BY <1>1, CreateKeeps, StopKeeps, KeepKeeps, ExtendKeeps, ChatBeginsKeeps, ChatEndsKeeps
  DEF Web
<1>2. ASSUME NEW p \in Procs, Deploy(p) PROVE IInv'
  BY <1>2, MakeWorkspaceKeeps, MaterializeKeeps, CreateNetworkKeeps, DockerCreateKeeps,
     DockerStartKeeps DEF Deploy
<1>3. ASSUME NEW p \in Procs, Step(p) PROVE IInv'
  BY <1>2, <1>3, RecoverKeeps, WatchKeeps, RemoveContainerKeeps, RemoveNetworkKeeps,
     RemoveWorkspaceKeeps, UpdateKeeps DEF Step, Remove
<1>4. ASSUME NEW p \in Procs, NEW d \in Playgrounds, Take(p, d) PROVE IInv'
  BY <1>4, TakeKeeps
<1>5. ASSUME Environment PROVE IInv'
  BY <1>5, ElapseKeeps, ServerReadyKeeps, ServerFailsKeeps, ContainerRemovedKeeps,
     ClaimLostKeeps, CrashKeeps DEF Environment
<1>6. CASE UNCHANGED vars
  BY <1>6, StutterInv
<1> QED
  BY <1>1, <1>3, <1>4, <1>5, <1>6 DEF Next

LEMMA InvHolds == Spec => []IInv
  BY InitInv, NextInv, PTL DEF Spec

\* The lease never reaches further than a day, and every variable keeps its
\* type, whatever users, processes and servers do.
THEOREM TypeCorrect == Spec => []TypeOK
<1>1. IInv => TypeOK
  BY DEF IInv, TypeInv
<1> QED
  BY <1>1, InvHolds, PTL

\* A deployment that is over has given its container, network and workspace
\* back, and no process is about to make new ones, whatever crashed or failed
\* on the way, unless its claim was lost.
THEOREM OverMeansReleased == Spec => []TerminalIsFree
<1>1. IInv => TerminalIsFree
  <2> SUFFICES ASSUME IInv, NEW d \in Playgrounds \ lost, status[d] \in TERMINAL
               PROVE  /\ container[d] = "none" /\ ~network[d] /\ ~workspace[d]
                      /\ \A p \in Procs : at[p] = d => pc[p] \notin Deploying
    BY DEF TerminalIsFree
  <2>1. status[d] \in Untouched
    BY DEF Untouched
  <2>2. Free(d)
    BY <2>1 DEF IInv, CleanInv
  <2>3. ASSUME NEW p \in Procs, at[p] = d PROVE pc[p] \notin Deploying
    BY <2>1, <2>3, Working DEF Deploying
  <2> QED
    BY <2>2, <2>3 DEF Free
<1> QED
  BY <1>1, InvHolds, PTL

\* What a process is about to write is always a change the database guard
\* accepts, however the row moved since the process read it.
THEOREM ResultsAreAccepted == Spec => []UpdatesFit
<1>1. IInv => UpdatesFit
  BY GuardAccepts DEF UpdatesFit
<1> QED
  BY <1>1, InvHolds, PTL

\* No process starts to work on a deployment while a chat with it is under way.
THEOREM ChatsAreExclusive == Spec => []ChatIsUndisturbed
<1>1. IInv => ChatIsUndisturbed
  <2> SUFFICES ASSUME IInv, NEW d \in Playgrounds \ lost, claim[d] = Chat,
                      NEW p \in Procs, at[p] = d
               PROVE  FALSE
    BY DEF ChatIsUndisturbed
  <2>1. pc[p] # "idle"
    BY NullsAssumption DEF IInv, TypeInv, Bookkeeping
  <2>2. claim[d] = p
    BY <2>1, Working
  <2> QED
    BY <2>2, NullsAssumption
<1> QED
  BY <1>1, InvHolds, PTL

-----------------------------------------------------------------------------
(* A server that is shown as ready has been ready.                         *)

\* No claim is needed for it: a process concludes RUNNING only from a container
\* that serves, and what has been healthy once stays in the history.
HealthInv ==
  /\ RunningWasHealthy
  /\ \A d \in Playgrounds : container[d] = "serving" => d \in served
  /\ \A p \in Procs : pc[p] # "idle" /\ result[p] = "RUNNING" => at[p] \in served

\* A process that leaves has no result; the others keep theirs.
LEMMA LeaveIsHealthy ==
  ASSUME TypeOK, HealthInv, NEW p \in Procs, Leave(p),
         RunningWasHealthy', UNCHANGED served,
         \A d \in Playgrounds : container'[d] = "serving" => container[d] = "serving"
  PROVE  HealthInv'
<1>1. pc'[p] = "idle" /\ \A q \in Procs \ {p} : pc'[q] = pc[q] /\ at'[q] = at[q] /\ result'[q] = result[q]
  BY DEF TypeOK, Leave
<1>2. ASSUME NEW q \in Procs, pc'[q] # "idle", result'[q] = "RUNNING"
      PROVE  at'[q] \in served'
  BY <1>1, <1>2 DEF HealthInv
<1> QED
  BY <1>2 DEF HealthInv

\* A process that goes on to a step with another result than RUNNING, or with one
\* it has reason for.
LEMMA GoingOnIsHealthy ==
  ASSUME HealthInv, NEW p \in Procs, NEW step, NEW r, Moves(p, step, r),
         r = "RUNNING" => at[p] \in served,
         UNCHANGED <<status, served>>,
         \A d \in Playgrounds : container'[d] = "serving" => container[d] = "serving"
  PROVE  HealthInv'
<1>1. RunningWasHealthy'
  BY DEF HealthInv, RunningWasHealthy
<1>2. ASSUME NEW q \in Procs, pc'[q] # "idle", result'[q] = "RUNNING"
      PROVE  at'[q] \in served'
  <2>1. CASE q = p
    BY <1>2, <2>1 DEF Moves
  <2>2. CASE q # p
    BY <1>2, <2>2 DEF Moves, HealthInv
  <2> QED
    BY <2>1, <2>2
<1> QED
  BY <1>1, <1>2 DEF HealthInv

\* A step changes at most where the process is and what it is going to write.
LEMMA QuietIsHealthy ==
  ASSUME HealthInv, UNCHANGED <<pc, at, result>>, served \subseteq served',
         \A d \in Playgrounds : status'[d] = "RUNNING" => status[d] = "RUNNING",
         \A d \in Playgrounds : container'[d] = "serving" => container[d] = "serving" \/ d \in served'
  PROVE  HealthInv'
  BY DEF HealthInv, RunningWasHealthy

\* Launching, removing and the crash of a process: containers stop serving only,
\* and a failed launch is never written as RUNNING.
LEMMA WorkIsHealthy ==
  ASSUME TypeOK, HealthInv, NEW p \in Procs, Deploy(p) \/ Remove(p) \/ Crash(p)
  PROVE  HealthInv'
<1>1. UNCHANGED <<status, served>>
  BY DEF Deploy, Remove, Crash, MakeWorkspace, Materialize, CreateNetwork, DockerCreate, DockerStart,
         RemoveContainer, RemoveNetwork, RemoveWorkspace, rowVars, histVars
<1>2. \A d \in Playgrounds : container'[d] = "serving" => container[d] = "serving"
  <2>1. CASE UNCHANGED container
    BY <2>1
  <2>2. CASE \E s \in {"none", "created", "loading"} : container' = [container EXCEPT ![at[p]] = s]
    BY <2>2 DEF TypeOK
  <2> QED
    BY <2>1, <2>2 DEF Deploy, Remove, Crash, MakeWorkspace, Materialize, CreateNetwork, DockerCreate,
       DockerStart, RemoveContainer, RemoveNetwork, RemoveWorkspace, hostVars
<1>3. pc[p] # "idle"
  BY DEF Deploy, Remove, Crash, MakeWorkspace, Materialize, CreateNetwork, DockerCreate, DockerStart,
         RemoveContainer, RemoveNetwork, RemoveWorkspace
<1>4. \/ Leave(p) \/ DeployFailed(p) \/ Settle(p, "STARTING", "update")
      \/ \E step \in Steps : Proceed(p, step)
  BY DEF Deploy, Remove, Crash, MakeWorkspace, Materialize, CreateNetwork, DockerCreate, DockerStart,
         RemoveContainer, RemoveNetwork, RemoveWorkspace, Steps, Deploying, Removing
<1>5. CASE Leave(p)
  BY <1>1, <1>2, <1>5, LeaveIsHealthy DEF HealthInv, RunningWasHealthy
<1>6. CASE DeployFailed(p)
  <2>1. Moves(p, "rm", "FAILED")
    BY <1>6, DeployFailedMoves
  <2> QED
    BY <1>1, <1>2, <2>1, GoingOnIsHealthy
<1>7. CASE Settle(p, "STARTING", "update")
  <2>1. "STARTING" \in State /\ "update" \in Steps
    BY DEF State, Steps
  <2>2. Moves(p, "update", "STARTING")
    BY <1>7, <2>1, SettleMoves
  <2> QED
    BY <1>1, <1>2, <2>2, GoingOnIsHealthy
<1>8. ASSUME NEW step \in Steps, Proceed(p, step) PROVE HealthInv'
  <2>1. Moves(p, step, result[p])
    BY <1>8, ProceedMoves
  <2>2. result[p] = "RUNNING" => at[p] \in served
    BY <1>3 DEF HealthInv
  <2> QED
    BY <1>1, <1>2, <2>1, <2>2, GoingOnIsHealthy
<1> QED
  BY <1>4, <1>5, <1>6, <1>7, <1>8

\* Recovery and watching conclude RUNNING only from a container that serves.
LEMMA ConclusionIsHealthy ==
  ASSUME IInv, HealthInv, NEW p \in Procs, Recover(p) \/ Watch(p)
  PROVE  HealthInv'
<1>1. TypeOK /\ UNCHANGED <<status, container, served>> /\ pc[p] # "idle"
  BY DEF IInv, TypeInv, Recover, Watch, rowVars, hostVars, histVars
<1>2. at[p] \in Playgrounds
  BY <1>1, Working
<1>3. Observed(at[p]) \in {"LOST", "FAILED", "STARTING", "RUNNING"}
      /\ (Observed(at[p]) = "RUNNING" => at[p] \in served)
  <2>1. container[at[p]] \in {"none", "created", "exited", "loading", "serving"}
    BY <1>1, <1>2 DEF TypeOK, Up
  <2>2. container[at[p]] = "serving" => at[p] \in served
    BY <1>2 DEF HealthInv
  <2> QED
    BY <2>1, <2>2 DEF Observed
<1>4. \/ Leave(p)
      \/ \E step \in {"update", "rm"}, r \in {"LOST", "FAILED", "STARTING", "RUNNING"} :
           Settle(p, r, step) /\ (r = "RUNNING" => at[p] \in served)
  <2>1. CASE Recover(p)
    BY <1>3, <2>1 DEF Recover
  <2>2. CASE Watch(p)
    BY <1>3, <2>2 DEF Watch
  <2> QED
    BY <2>1, <2>2
<1>5. CASE Leave(p)
  BY <1>1, <1>5, LeaveIsHealthy DEF HealthInv, RunningWasHealthy
<1>6. ASSUME NEW step \in {"update", "rm"}, NEW r \in {"LOST", "FAILED", "STARTING", "RUNNING"},
             Settle(p, r, step), r = "RUNNING" => at[p] \in served
      PROVE  HealthInv'
  <2>1. step \in Steps /\ r \in State
    BY DEF Steps, Removing, State, TERMINAL
  <2>2. Moves(p, step, r)
    BY <1>1, <1>6, <2>1, SettleMoves
  <2> QED
    BY <1>1, <1>6, <2>2, GoingOnIsHealthy
<1> QED
  BY <1>4, <1>5, <1>6

LEMMA UpdateIsHealthy ==
  ASSUME IInv, HealthInv, NEW p \in Procs, Update(p)
  PROVE  HealthInv'
<1>1. TypeOK /\ UNCHANGED <<container, served>> /\ Leave(p) /\ pc[p] # "idle"
  BY DEF IInv, TypeInv, Update, hostVars, histVars
<1>2. at[p] \in Playgrounds
  BY <1>1, Working
<1>3. status'[at[p]] = "RUNNING" => at[p] \in served
  BY <1>1, <1>2 DEF Update, Written, HealthInv, RunningWasHealthy, TypeOK
<1>4. \A d \in Playgrounds \ {at[p]} : status'[d] = status[d]
  BY <1>1 DEF Update, TypeOK
<1>5. RunningWasHealthy'
  BY <1>1, <1>3, <1>4 DEF RunningWasHealthy, HealthInv
<1> QED
  BY <1>1, <1>5, LeaveIsHealthy

\* A process that takes a deployment has no result yet but the stop.
LEMMA TakeIsHealthy ==
  ASSUME TypeOK, HealthInv, NEW p \in Procs, NEW d \in Playgrounds, Take(p, d)
  PROVE  HealthInv'
<1>1. UNCHANGED <<container, served>>
  BY DEF Take, hostVars, histVars
<1>2. RunningWasHealthy'
  <2>1. status'[d] = "RUNNING" => status[d] = "RUNNING"
    BY DEF Take, TypeOK
  <2>2. \A e \in Playgrounds \ {d} : status'[e] = status[e]
    BY DEF Take, TypeOK
  <2> QED
    BY <1>1, <2>1, <2>2 DEF HealthInv, RunningWasHealthy
<1>3. ASSUME NEW q \in Procs, pc'[q] # "idle", result'[q] = "RUNNING"
      PROVE  at'[q] \in served'
  <2>1. q # p
    BY <1>3 DEF Take, TypeOK
  <2>2. pc'[q] = pc[q] /\ at'[q] = at[q] /\ result'[q] = result[q]
    BY <2>1 DEF Take, TypeOK, Goto
  <2> QED
    BY <1>1, <1>3, <2>2 DEF HealthInv
<1> QED
  BY <1>1, <1>2, <1>3 DEF HealthInv

\* Users never set RUNNING, and only a server that becomes ready starts to serve.
LEMMA OthersAreHealthy ==
  ASSUME TypeOK, HealthInv,
         \/ \E d \in Playgrounds : Web(d)
         \/ Elapse
         \/ \E d \in Playgrounds : ServerReady(d) \/ ServerFails(d) \/ ContainerRemoved(d) \/ ClaimLost(d)
         \/ UNCHANGED vars
  PROVE  HealthInv'
<1>1. UNCHANGED <<pc, at, result>> /\ served \subseteq served'
  BY DEF Web, Create, Stop, Keep, Extend, ChatBegins, ChatEnds, Elapse, ServerReady, ServerFails,
         ContainerRemoved, ClaimLost, vars, procVars, histVars
<1>2. \A e \in Playgrounds : status'[e] = "RUNNING" => status[e] = "RUNNING"
  <2>1. CASE UNCHANGED status
    BY <2>1
  <2>2. CASE \E d \in Playgrounds, s \in {"QUEUED", "STOP_REQUESTED"} : status' = [status EXCEPT ![d] = s]
    BY <2>2 DEF TypeOK
  <2> QED
    BY <2>1, <2>2 DEF Web, Create, Stop, Keep, Extend, ChatBegins, ChatEnds, Elapse, ServerReady,
       ServerFails, ContainerRemoved, ClaimLost, vars, rowVars
<1>3. \A e \in Playgrounds : container'[e] = "serving" => container[e] = "serving" \/ e \in served'
  <2>1. CASE UNCHANGED container
    BY <2>1
  <2>2. CASE \E d \in Playgrounds, s \in {"exited", "loading", "none"} :
               container' = [container EXCEPT ![d] = s]
    BY <2>2 DEF TypeOK
  <2>3. CASE \E d \in Playgrounds : ServerReady(d)
    BY <2>3 DEF TypeOK, ServerReady
  <2> QED
    BY <2>1, <2>2, <2>3 DEF Web, Create, Stop, Keep, Extend, ChatBegins, ChatEnds, Elapse,
       ServerFails, ContainerRemoved, ClaimLost, vars, hostVars
<1> QED
  BY <1>1, <1>2, <1>3, QuietIsHealthy

\* A deployment is shown as RUNNING only after its server has answered its health
\* check, also when a claim was lost, a process died or a worker adopted what
\* another one had launched.
THEOREM ShownRunningWasHealthy == Spec => []RunningWasHealthy
<1>1. Init => HealthInv
  BY DEF Init, HealthInv, RunningWasHealthy, Absent
<1>2. IInv /\ HealthInv /\ [Next]_vars => HealthInv'
  <2> SUFFICES ASSUME IInv, HealthInv, [Next]_vars PROVE HealthInv'
    OBVIOUS
  <2>1. TypeOK
    BY DEF IInv, TypeInv
  <2>2. ASSUME NEW p \in Procs, Step(p) PROVE HealthInv'
    BY <2>1, <2>2, WorkIsHealthy, ConclusionIsHealthy, UpdateIsHealthy DEF Step
  <2>3. ASSUME NEW p \in Procs, NEW d \in Playgrounds, Take(p, d) PROVE HealthInv'
    BY <2>1, <2>3, TakeIsHealthy
  <2>4. ASSUME NEW p \in Procs, Crash(p) PROVE HealthInv'
    BY <2>1, <2>4, WorkIsHealthy
  <2> QED
    BY <2>1, <2>2, <2>3, <2>4, OthersAreHealthy DEF Next, Environment
<1>3. HealthInv => RunningWasHealthy
  BY DEF HealthInv
<1> QED
  BY <1>1, <1>2, <1>3, InvHolds, PTL DEF Spec

-----------------------------------------------------------------------------
(* The contract of playgrounds.  Deployments does not remember what has    *)
(* existed at the host, so that is added here.                             *)

VARIABLE launched  \* playgrounds of which something has existed at the host

launchVars == <<vars, launched>>

Due == {d \in Playgrounds : status[d] # Absent /\ Expired(d)}
Held == {d \in Playgrounds : ~Free(d)}

Counts == launched' = launched \cup Held'
Continue == Next /\ Counts

HistorySpec == Init /\ launched = {} /\ [][Continue]_launchVars

Contract == INSTANCE ServingContract WITH due <- Due, held <- Held

\* A launch begins where nothing has been and goes on in its workspace; a server is
\* about to be shown only where something has been.
Launches(p) ==
  /\ pc[p] = "mkdir" => at[p] \notin launched
  /\ pc[p] \in Deploying \ {"mkdir"} => workspace[at[p]]
  /\ pc[p] = "update" /\ result[p] \in {"STARTING", "RUNNING"} => at[p] \in launched

LaunchInv ==
  /\ launched \subseteq Playgrounds
  /\ \A d \in launched : status[d] \notin {Absent, "QUEUED"}
  /\ Held \subseteq launched
  /\ \A p \in Procs : Launches(p)

\* Where nothing begins to exist nothing is added to the history.
LEMMA NothingIsAdded == LaunchInv /\ Counts /\ Held' \subseteq Held => launched' = launched
BY DEF LaunchInv, Counts

\* What a step of a process does to the others, to itself and to other playgrounds.
LEMMA StepIsLocal ==
  ASSUME TypeOK, NEW p \in Procs, Step(p)
  PROVE  /\ pc[p] # "idle" /\ UNCHANGED <<keep, left, lost>>
         /\ \A q \in Procs \ {p} : pc'[q] = pc[q] /\ at'[q] = at[q] /\ result'[q] = result[q]
         /\ pc'[p] = "idle" \/ at' = at
         /\ \A e \in Playgrounds \ {at[p]} :
              /\ container'[e] = container[e] /\ network'[e] = network[e]
              /\ workspace'[e] = workspace[e] /\ status'[e] = status[e]
<1> USE DEF Step, Deploy, Remove
<1>1. pc[p] # "idle" /\ UNCHANGED <<keep, left, lost>>
  BY DEF MakeWorkspace, Materialize, CreateNetwork, DockerCreate, DockerStart, Recover, Watch,
         RemoveContainer, RemoveNetwork, RemoveWorkspace, Update, rowVars, histVars
<1>2. \/ Leave(p)
      \/ \E step : Proceed(p, step) \/ \E r : Settle(p, r, step)
  BY DEF MakeWorkspace, Materialize, CreateNetwork, DockerCreate, DockerStart, Recover, Watch,
         RemoveContainer, RemoveNetwork, RemoveWorkspace, Update, DeployFailed
<1>3. /\ \A q \in Procs \ {p} : pc'[q] = pc[q] /\ at'[q] = at[q] /\ result'[q] = result[q]
      /\ pc'[p] = "idle" \/ at' = at
  <2>1. CASE Leave(p)
    BY <2>1 DEF Leave, TypeOK
  <2>2. ASSUME NEW step, Proceed(p, step) \/ \E r : Settle(p, r, step)
        PROVE  /\ \A q \in Procs \ {p} : pc'[q] = pc[q] /\ at'[q] = at[q] /\ result'[q] = result[q]
               /\ at' = at
    BY <2>2 DEF Proceed, Settle, Goto, TypeOK
  <2> QED
    BY <1>2, <2>1, <2>2
<1>4. /\ container' = container \/ \E s : container' = [container EXCEPT ![at[p]] = s]
      /\ network' = network \/ \E s : network' = [network EXCEPT ![at[p]] = s]
      /\ workspace' = workspace \/ \E s : workspace' = [workspace EXCEPT ![at[p]] = s]
      /\ status' = status \/ \E s : status' = [status EXCEPT ![at[p]] = s]
  <2>1. CASE Deploy(p)
    BY <2>1 DEF MakeWorkspace, Materialize, CreateNetwork, DockerCreate, DockerStart, rowVars, hostVars
  <2>2. CASE Recover(p) \/ Watch(p) \/ Update(p)
    BY <2>2 DEF Recover, Watch, Update, rowVars, hostVars
  <2>3. CASE Remove(p)
    BY <2>3 DEF RemoveContainer, RemoveNetwork, RemoveWorkspace, rowVars
  <2> QED
    BY <2>1, <2>2, <2>3
<1>5. \A e \in Playgrounds \ {at[p]} :
         /\ container'[e] = container[e] /\ network'[e] = network[e]
         /\ workspace'[e] = workspace[e] /\ status'[e] = status[e]
  BY <1>4 DEF TypeOK
<1> QED
  BY <1>1, <1>3, <1>5

\* Only MakeWorkspace makes something of nothing, and what a step leads to is launched.
LEMMA StepLaunches ==
  ASSUME IInv, LaunchInv, Counts, NEW p \in Procs, Step(p), NEW d \in Playgrounds, d = at[p]
  PROVE  /\ Free(d) /\ ~Free(d)' => pc[p] = "mkdir"
         /\ pc'[p] = "idle" \/ Launches(p)'
<1>1. TypeOK /\ pc[p] # "idle" /\ d = at[p] /\ d \in Playgrounds
  BY StepIsLocal DEF IInv, TypeInv
<1>2. ~Free(d) => d \in launched
  BY <1>1 DEF LaunchInv, Held
<1>3. launched \subseteq launched' /\ Launches(p)
  BY DEF Counts, LaunchInv
<1>4. ASSUME MakeWorkspace(p) PROVE (pc[p] = "mkdir") /\ (pc'[p] = "idle" \/ Launches(p)')
  <2>1. \/ pc'[p] = "idle"
        \/ pc'[p] = "rm"
        \/ pc'[p] = "materialize" /\ at' = at /\ workspace'[at[p]]
    BY <1>1, <1>4 DEF MakeWorkspace, Leave, Proceed, DeployFailed, Settle, Goto, TypeOK
  <2> QED
    BY <1>4, <2>1 DEF MakeWorkspace, Launches, Deploying
<1>5. ASSUME Materialize(p) \/ CreateNetwork(p) \/ DockerCreate(p) \/ DockerStart(p)
      PROVE  ~Free(d) /\ (pc'[p] = "idle" \/ Launches(p)')
  <2>1. workspace[d] /\ UNCHANGED workspace
    BY <1>3, <1>5 DEF Materialize, CreateNetwork, DockerCreate, DockerStart, Launches, Deploying, hostVars
  <2>2. d \in launched'
    BY <1>2, <1>3, <2>1 DEF Free
  <2>3. at' = at /\ pc'[p] \in {"network", "create", "start", "rm", "update"}
    BY <1>1, <1>5 DEF Materialize, CreateNetwork, DockerCreate, DockerStart, Proceed, DeployFailed,
                      Settle, Goto, TypeOK
  <2> QED
    BY <2>1, <2>2, <2>3 DEF Launches, Free
<1>6. ASSUME Recover(p) \/ Watch(p)
      PROVE  (Free(d) => Free(d)') /\ (pc'[p] = "idle" \/ Launches(p)')
  <2>1. UNCHANGED <<container, network, workspace>>
    BY <1>6 DEF Recover, Watch, hostVars
  <2>2. Free(d) => Free(d)'
    BY <2>1 DEF Free
  <2>3. Observed(d) \in {"STARTING", "RUNNING"} => d \in launched'
    BY <1>1, <1>2, <1>3 DEF Observed, Free, TypeOK, Up
  <2>4. \/ pc'[p] = "idle"
        \/ pc'[p] = "rm"
        \/ at' = at /\ pc'[p] = "update" /\ result'[p] = Observed(d)
    BY <1>1, <1>6 DEF Recover, Watch, Leave, Settle, Goto, TypeOK
  <2> QED
    BY <2>2, <2>3, <2>4 DEF Launches, Deploying
<1>7. ASSUME Remove(p)
      PROVE  (Free(d) => Free(d)') /\ (pc'[p] = "idle" \/ Launches(p)')
  <2>1. Free(d) => container'[d] = "none" /\ ~network'[d] /\ ~workspace'[d]
    BY <1>1, <1>7 DEF Remove, RemoveContainer, RemoveNetwork, RemoveWorkspace, Free, TypeOK
  <2>2. result[p] \in TERMINAL
    BY <1>7 DEF IInv, TypeInv, Bookkeeping, Remove, RemoveContainer, RemoveNetwork, RemoveWorkspace, Removing
  <2>3. pc'[p] = "idle" \/ (pc'[p] \in {"network rm", "rmtree", "update"} /\ result' = result)
    BY <1>1, <1>7 DEF Remove, RemoveContainer, RemoveNetwork, RemoveWorkspace, Leave, Proceed, Goto, TypeOK
  <2> QED
    BY <2>1, <2>2, <2>3 DEF Launches, Deploying, TERMINAL, Free
<1>8. ASSUME Update(p) PROVE (Free(d) => Free(d)') /\ pc'[p] = "idle"
  BY <1>1, <1>8 DEF Update, hostVars, Leave, Free, TypeOK
<1> QED
  BY <1>4, <1>5, <1>6, <1>7, <1>8 DEF Step, Deploy

\* Where a process is and what it is going to write stays, or it leaves: no launch moves.
LEMMA LaunchStays ==
  ASSUME LaunchInv, Counts, UNCHANGED <<workspace, status>>, Held' \subseteq Held,
         \A q \in Procs : \/ pc'[q] = "idle"
                          \/ pc'[q] = pc[q] /\ at'[q] = at[q] /\ result'[q] = result[q]
  PROVE  LaunchInv'
<1>1. launched' = launched
  BY NothingIsAdded
<1>2. ASSUME NEW q \in Procs PROVE Launches(q)'
  BY <1>1 DEF LaunchInv, Launches, Deploying
<1> QED
  BY <1>1, <1>2 DEF LaunchInv, Counts

\* What update() writes is what the contract lets follow.
LEMMA UpdateMoves ==
  ASSUME IInv, LaunchInv, lost = {}, NEW p \in Procs, Update(p), NEW d \in Playgrounds, d = at[p]
  PROVE  \/ UNCHANGED status
         \/ \E s \in State :
              /\ status' = [status EXCEPT ![d] = s] /\ s # status[d]
              /\ \/ /\ d \in launched
                    /\ status[d] \in {"PREPARING", "STARTING", "RUNNING"} /\ s \in {"STARTING", "RUNNING"}
                 \/ /\ Free(d)
                    /\ \/ status[d] = "STOP_REQUESTED" /\ s = "STOPPED"
                       \/ status[d] \in {"PREPARING", "STARTING", "RUNNING"} /\ s = "FAILED"
                       \/ status[d] \in {"STARTING", "RUNNING"} /\ s = "LOST"
<1>1. pc[p] = "update"
  BY DEF Update
<1>2. Fits(p) /\ Removed(p)
  BY <1>1, Working
<1>3. /\ status[d] \in From(result[p]) /\ result[p] \in TERMINAL \cup {"STARTING", "RUNNING"}
      /\ result[p] \in TERMINAL => Free(d)
  BY <1>1, <1>2 DEF Fits, Removed
<1>4. result[p] \in {"STARTING", "RUNNING"} => d \in launched
  BY <1>1 DEF LaunchInv, Launches
<1>5. \/ UNCHANGED status
      \/ status' = [status EXCEPT ![d] = Written(status[d], result[p])]
  BY DEF Update
<1>6. CASE status[d] = "STOP_REQUESTED" /\ result[p] # "STOPPED"
  BY <1>5, <1>6 DEF Written, IInv, TypeInv, TypeOK
<1>7. CASE ~(status[d] = "STOP_REQUESTED" /\ result[p] # "STOPPED")
  <2>1. Written(status[d], result[p]) = result[p]
    BY <1>7 DEF Written
  <2>2. CASE result[p] = status[d]
    BY <1>5, <2>1, <2>2 DEF IInv, TypeInv, TypeOK
  <2>3. CASE result[p] # status[d]
    BY <1>3, <1>4, <1>5, <1>7, <2>1, <2>3 DEF From, TERMINAL, State
  <2> QED
    BY <2>2, <2>3
<1> QED
  BY <1>6, <1>7

\* Every step of a process keeps what is known of launches.
LEMMA LaunchAtStep ==
  ASSUME IInv, LaunchInv, Counts, lost = {}, NEW p \in Procs, Step(p)
  PROVE  LaunchInv'
<1> DEFINE d == at[p]
<1>1. TypeOK /\ d \in Playgrounds /\ pc[p] # "idle" /\ status[d] \notin Untouched
  BY StepIsLocal, Working DEF IInv, TypeInv
<1>2. \A e \in Playgrounds \ {d} : Free(e)' = Free(e) /\ workspace'[e] = workspace[e] /\ status'[e] = status[e]
  BY <1>1, StepIsLocal DEF Free
<1>3. pc'[p] = "idle" \/ Launches(p)'
  BY <1>1, StepLaunches
<1>4. launched \subseteq launched' /\ launched' \subseteq launched \cup {d} /\ Held' \subseteq launched'
  BY <1>2 DEF Counts, LaunchInv, Held
<1>5. status'[d] \notin {Absent, "QUEUED"}
  <2>1. CASE Update(p)
    <3>1. status' = status \/ status'[d] \in {"STARTING", "RUNNING", "STOPPED", "FAILED", "LOST"}
      BY <1>1, <2>1, UpdateMoves DEF TypeOK
    <3> QED
      BY <1>1, <3>1 DEF Untouched, Absent
  <2>2. CASE ~Update(p)
    <3>1. UNCHANGED status
      BY <2>2 DEF Step, Deploy, Remove, MakeWorkspace, Materialize, CreateNetwork, DockerCreate,
         DockerStart, Recover, Watch, RemoveContainer, RemoveNetwork, RemoveWorkspace, rowVars
    <3> QED
      BY <1>1, <3>1 DEF Untouched
  <2> QED
    BY <2>1, <2>2
<1>6. ASSUME NEW q \in Procs PROVE Launches(q)'
  <2>1. CASE pc'[q] = "idle"
    BY <2>1 DEF Launches, Deploying
  <2>2. CASE pc'[q] # "idle" /\ q # p
    <3>1. pc'[q] = pc[q] /\ at'[q] = at[q] /\ result'[q] = result[q]
      BY <1>1, <2>2, StepIsLocal
    <3>2. at[q] # d /\ at[q] \in Playgrounds
      BY <1>1, <2>2, <3>1, Apart, Working
    <3>3. Launches(q)
      BY DEF LaunchInv
    <3> QED
      BY <1>2, <1>4, <3>1, <3>2, <3>3 DEF Launches
  <2> QED
    BY <1>3, <2>1, <2>2
<1>7. launched' \subseteq Playgrounds
  BY <1>1, <1>4 DEF LaunchInv
<1>8. \A e \in launched' : status'[e] \notin {Absent, "QUEUED"}
  BY <1>2, <1>4, <1>5, <1>7 DEF LaunchInv
<1> QED
  BY <1>4, <1>6, <1>7, <1>8 DEF LaunchInv

\* A process takes a playground: one that is launched then has never been before.
LEMMA LaunchAtTake ==
  ASSUME IInv, LaunchInv, Counts, NEW p \in Procs, NEW d \in Playgrounds, Take(p, d)
  PROVE  LaunchInv'
<1>1. TypeOK /\ Held' = Held /\ UNCHANGED workspace
  BY DEF IInv, TypeInv, Take, hostVars, Held, Free
<1>2. launched' = launched
  BY <1>1, NothingIsAdded
<1>3. /\ pc'[p] = "mkdir" => status[d] = "QUEUED"
      /\ pc'[p] \in {"rm", "mkdir", "recover", "watch"} /\ at'[p] = d
      /\ \A q \in Procs \ {p} : pc'[q] = pc[q] /\ at'[q] = at[q] /\ result'[q] = result[q]
  BY <1>1 DEF Take, Route, Goto, TypeOK
<1>4. status'[d] \in {status[d], "PREPARING", "STOP_REQUESTED"}
      /\ \A e \in Playgrounds \ {d} : status'[e] = status[e]
  BY <1>1 DEF Take, TypeOK
<1>5. \A e \in launched : status'[e] \notin {Absent, "QUEUED"}
  BY <1>4 DEF LaunchInv, Absent
<1>6. ASSUME NEW q \in Procs PROVE Launches(q)'
  <2>1. CASE q = p
    BY <1>2, <1>3, <2>1 DEF Launches, LaunchInv, Deploying
  <2>2. CASE q # p
    BY <1>1, <1>2, <1>3, <2>2 DEF Launches, LaunchInv
  <2> QED
    BY <2>1, <2>2
<1> QED
  BY <1>1, <1>2, <1>5, <1>6 DEF LaunchInv

\* Users do not launch, and the environment does not create.
LEMMA LaunchAtWeb ==
  ASSUME IInv, LaunchInv, Counts, NEW d \in Playgrounds, Web(d)
  PROVE  LaunchInv'
<1>1. TypeOK /\ UNCHANGED <<workspace, procVars>> /\ Held' = Held
  BY DEF IInv, TypeInv, Web, Create, Stop, Keep, Extend, ChatBegins, ChatEnds, hostVars, procVars,
         Held, Free
<1>2. launched' = launched
  BY <1>1, NothingIsAdded
<1>3. \/ UNCHANGED status
      \/ status[d] = Absent /\ status' = [status EXCEPT ![d] = "QUEUED"]
      \/ status' = [status EXCEPT ![d] = "STOP_REQUESTED"]
  BY DEF Web, Create, Stop, Keep, Extend, ChatBegins, ChatEnds, rowVars
<1>4. \A e \in launched : status'[e] \notin {Absent, "QUEUED"}
  BY <1>1, <1>3 DEF LaunchInv, TypeOK, Absent
<1> QED
  BY <1>1, <1>2, <1>4 DEF LaunchInv, Launches, procVars

LEMMA LaunchAtEnvironment ==
  ASSUME IInv, LaunchInv, Counts, Environment
  PROVE  LaunchInv'
<1>1. TypeOK /\ UNCHANGED <<status, workspace, network>>
  BY DEF IInv, TypeInv, Environment, Elapse, ServerReady, ServerFails, ContainerRemoved, ClaimLost,
         Crash, rowVars, hostVars
<1>2. \A e \in Playgrounds : container[e] = "none" => container'[e] = "none"
  BY <1>1 DEF Environment, Elapse, ServerReady, ServerFails, ContainerRemoved, ClaimLost, Crash,
     hostVars, TypeOK, Up
<1>3. Held' \subseteq Held
  BY <1>1, <1>2 DEF Held, Free
<1>4. \A q \in Procs : \/ pc'[q] = "idle"
                       \/ pc'[q] = pc[q] /\ at'[q] = at[q] /\ result'[q] = result[q]
  BY <1>1 DEF Environment, Elapse, ServerReady, ServerFails, ContainerRemoved, ClaimLost, Crash,
     Leave, procVars, TypeOK
<1> QED
  BY <1>1, <1>3, <1>4, LaunchStays

LEMMA LaunchNext ==
  ASSUME IInv, LaunchInv, lost = {}, [Continue]_launchVars
  PROVE  LaunchInv'
<1>1. CASE Continue
  BY <1>1, LaunchAtStep, LaunchAtTake, LaunchAtWeb, LaunchAtEnvironment DEF Continue, Next
<1>2. CASE UNCHANGED launchVars
  BY <1>2 DEF launchVars, vars, rowVars, hostVars, procVars, LaunchInv, Launches, Held, Free
<1> QED
  BY <1>1, <1>2

-----------------------------------------------------------------------------
(* The refinement.                                                         *)

\* A step that changes one row, and nothing at the host, does what the contract says of
\* that row.
LEMMA RowMove ==
  ASSUME LaunchInv, Counts, UNCHANGED <<hostVars, Due>>,
         NEW d \in Playgrounds, NEW s, status' = [status EXCEPT ![d] = s],
         \/ status[d] = Absent /\ s = "QUEUED"
         \/ status[d] \in Live \ {"STOP_REQUESTED"} /\ s = "STOP_REQUESTED"
         \/ status[d] = "QUEUED" /\ d \notin Due /\ s = "PREPARING"
         \/ /\ s # status[d] /\ d \in launched
            /\ status[d] \in {"PREPARING", "STARTING", "RUNNING"} /\ s \in {"STARTING", "RUNNING"}
         \/ /\ Free(d)
            /\ \/ status[d] = "STOP_REQUESTED" /\ s = "STOPPED"
               \/ status[d] \in {"PREPARING", "STARTING", "RUNNING"} /\ s = "FAILED"
               \/ status[d] \in {"STARTING", "RUNNING"} /\ s = "LOST"
  PROVE  Contract!Next
<1> USE DEF Contract!Becomes, Contract!Shown, Contract!Started
<1>1. Held' = Held /\ Due' = Due
  BY DEF Held, Free, hostVars
<1>2. launched' = launched
  BY <1>1, NothingIsAdded
<1>3. CASE status[d] = Absent /\ s = "QUEUED"
  <2>1. Contract!Create(d)
    BY <1>1, <1>2, <1>3 DEF Contract!Create, Contract!Absent, Absent
  <2> QED
    BY <2>1 DEF Contract!Next
<1>4. CASE status[d] \in Live \ {"STOP_REQUESTED"} /\ s = "STOP_REQUESTED"
  <2>1. Contract!AskToStop(d)
    BY <1>1, <1>2, <1>4 DEF Contract!AskToStop, Live, State, TERMINAL
  <2> QED
    BY <2>1 DEF Contract!Next
<1>5. CASE status[d] = "QUEUED" /\ d \notin Due /\ s = "PREPARING"
  <2>1. Contract!Prepare(d)
    BY <1>1, <1>2, <1>5 DEF Contract!Prepare
  <2> QED
    BY <2>1 DEF Contract!Next
<1>6. CASE /\ s # status[d] /\ d \in launched
           /\ status[d] \in {"PREPARING", "STARTING", "RUNNING"} /\ s \in {"STARTING", "RUNNING"}
  <2>1. Contract!Observe(d)
    BY <1>1, <1>2, <1>6 DEF Contract!Observe
  <2> QED
    BY <2>1 DEF Contract!Next
<1>7. CASE /\ Free(d)
           /\ \/ status[d] = "STOP_REQUESTED" /\ s = "STOPPED"
              \/ status[d] \in {"PREPARING", "STARTING", "RUNNING"} /\ s = "FAILED"
              \/ status[d] \in {"STARTING", "RUNNING"} /\ s = "LOST"
  <2>1. d \notin Held
    BY <1>7 DEF Held
  <2>2. Contract!End(d)
    BY <1>1, <1>2, <1>7, <2>1 DEF Contract!End
  <2> QED
    BY <2>2 DEF Contract!Next
<1> QED
  BY <1>3, <1>4, <1>5, <1>6, <1>7

\* A step that leaves the rows alone and changes what one playground holds.
LEMMA HoldingMove ==
  ASSUME LaunchInv, Counts, UNCHANGED <<status, Due>>, NEW d \in Playgrounds,
         \A e \in Playgrounds \ {d} : Free(e)' = Free(e),
         Free(d) /\ ~Free(d)' => d \notin launched /\ status[d] \in {"PREPARING", "STOP_REQUESTED"}
  PROVE  Contract!Next \/ UNCHANGED Contract!contractVars
<1>1. CASE Free(d) /\ ~Free(d)'
  <2>1. Held' = Held \cup {d} /\ launched' = launched \cup {d}
    BY <1>1 DEF Held, Counts, LaunchInv
  <2>2. Contract!Occupy(d)
    BY <1>1, <2>1 DEF Contract!Occupy
  <2> QED
    BY <2>2 DEF Contract!Next
<1>2. CASE ~Free(d) /\ Free(d)'
  <2>1. Held' = Held \ {d}
    BY <1>2 DEF Held
  <2>2. launched' = launched
    BY <2>1, NothingIsAdded
  <2>3. Contract!Release(d)
    BY <2>1, <2>2 DEF Contract!Release
  <2> QED
    BY <2>3 DEF Contract!Next
<1>3. CASE Free(d)' <=> Free(d)
  <2>1. Held' = Held
    BY <1>3 DEF Held
  <2> QED
    BY <2>1, NothingIsAdded DEF Contract!contractVars
<1> QED
  BY <1>1, <1>2, <1>3

\* A step that changes neither the rows nor what is held.
LEMMA NothingMoves ==
  ASSUME LaunchInv, Counts, UNCHANGED <<status, Due, Held>>
  PROVE  UNCHANGED Contract!contractVars
BY NothingIsAdded DEF Contract!contractVars

\* Keeping or extending a playground never revives its lease.
LEMMA ContractAtWeb ==
  ASSUME IInv, LaunchInv, Counts, NEW d \in Playgrounds, Web(d)
  PROVE  Contract!Next \/ UNCHANGED Contract!contractVars
<1>1. TypeOK /\ UNCHANGED hostVars
  BY DEF IInv, TypeInv, Web, Create, Stop, Keep, Extend, ChatBegins, ChatEnds
<1>2. CASE \E minutes \in Leases : Create(d, minutes)
  <2>1. left'[d] # 0 /\ \A e \in Playgrounds \ {d} : left'[e] = left[e]
    BY <1>1, <1>2, TimesAssumption DEF Create, TypeOK
  <2>2. /\ status[d] = Absent /\ status' = [status EXCEPT ![d] = "QUEUED"] /\ keep' = keep
    BY <1>2 DEF Create
  <2>3. Due' = Due
    BY <1>1, <2>1, <2>2 DEF Due, Expired, TypeOK, Absent
  <2> QED
    BY <1>1, <2>2, <2>3, RowMove
<1>3. CASE Stop(d)
  <2>1. /\ status[d] \in Live \ {"STOP_REQUESTED"} /\ UNCHANGED <<keep, left>>
        /\ status' = [status EXCEPT ![d] = "STOP_REQUESTED"]
    BY <1>3 DEF Stop, Open
  <2>2. Due' = Due
    BY <1>1, <2>1 DEF Due, Expired, TypeOK, Live, State, TERMINAL, Absent
  <2> QED
    BY <1>1, <2>1, <2>2, RowMove
<1>4. CASE Keep(d) \/ \E minutes \in Leases : Extend(d, minutes)
  <2>1. ~Expired(d) /\ UNCHANGED status
    BY <1>4 DEF Keep, Extend
  <2>2. ~Expired(d)'
    <3>1. CASE Keep(d)
      BY <1>1, <3>1 DEF Keep, Expired, TypeOK
    <3>2. ASSUME NEW minutes \in Leases, Extend(d, minutes) PROVE ~Expired(d)'
      <4>1. minutes \in Nat /\ minutes >= 1 /\ left[d] \in Nat /\ Day >= 1
        BY <1>1, TimesAssumption DEF TypeOK
      <4>2. left'[d] = IF left[d] + minutes <= Day THEN left[d] + minutes ELSE Day
        BY <1>1, <3>2 DEF Extend, TypeOK
      <4> QED
        BY <4>1, <4>2, TimesAssumption DEF Expired
    <3> QED
      BY <1>4, <3>1, <3>2
  <2>3. \A e \in Playgrounds \ {d} : keep'[e] = keep[e] /\ left'[e] = left[e]
    BY <1>1, <1>4 DEF Keep, Extend, TypeOK
  <2>4. Due' = Due
    BY <2>1, <2>2, <2>3 DEF Due, Expired
  <2>5. Held' = Held
    BY <1>1 DEF Held, Free, hostVars
  <2> QED
    BY <2>1, <2>4, <2>5, NothingMoves
<1>5. CASE ChatBegins(d) \/ ChatEnds(d)
  <2>1. UNCHANGED <<status, Due, Held>>
    BY <1>1, <1>5 DEF ChatBegins, ChatEnds, rowVars, hostVars, Due, Expired, Held, Free
  <2> QED
    BY <2>1, NothingMoves
<1> QED
  BY <1>2, <1>3, <1>4, <1>5 DEF Web

\* A process that takes a playground asks for its stop, or begins its launch.
LEMMA ContractAtTake ==
  ASSUME IInv, LaunchInv, Counts, NEW p \in Procs, NEW d \in Playgrounds, Take(p, d)
  PROVE  Contract!Next \/ UNCHANGED Contract!contractVars
<1>1. TypeOK /\ UNCHANGED <<hostVars, keep, left>> /\ status[d] \in Live
  BY DEF IInv, TypeInv, Take
<1> DEFINE s == IF Expired(d) THEN "STOP_REQUESTED"
                ELSE IF status[d] = "QUEUED" THEN "PREPARING" ELSE status[d]
<1>2. status' = [status EXCEPT ![d] = s]
  BY DEF Take
<1>3. s # Absent /\ status[d] # Absent
  BY <1>1 DEF Live, State, TERMINAL, Absent
<1>4. Due' = Due
  BY <1>1, <1>2, <1>3 DEF Due, Expired, TypeOK
<1>5. CASE s = status[d]
  <2>1. UNCHANGED status /\ Held' = Held
    BY <1>1, <1>2, <1>5 DEF TypeOK, Held, Free, hostVars
  <2> QED
    BY <1>4, <2>1, NothingMoves
<1>6. CASE s # status[d]
  <2>1. \/ status[d] \in Live \ {"STOP_REQUESTED"} /\ s = "STOP_REQUESTED"
        \/ status[d] = "QUEUED" /\ d \notin Due /\ s = "PREPARING"
    BY <1>1, <1>6 DEF Due
  <2> HIDE DEF s
  <2> QED
    BY <1>1, <1>2, <1>4, <2>1, RowMove
<1> QED
  BY <1>5, <1>6

\* A process creates, observes, removes or writes.
LEMMA ContractAtStep ==
  ASSUME IInv, LaunchInv, Counts, lost = {}, NEW p \in Procs, Step(p)
  PROVE  Contract!Next \/ UNCHANGED Contract!contractVars
<1> DEFINE d == at[p]
<1>1. TypeOK /\ d \in Playgrounds /\ pc[p] # "idle" /\ UNCHANGED <<keep, left>>
  BY StepIsLocal, Working DEF IInv, TypeInv
<1>2. CASE UNCHANGED status
  <2>1. Due' = Due
    BY <1>1, <1>2 DEF Due, Expired
  <2>2. \A e \in Playgrounds \ {d} : Free(e)' = Free(e)
    BY <1>1, StepIsLocal DEF Free
  <2>3. ASSUME Free(d), ~(\A e \in {d} : Free(e)')
        PROVE  d \notin launched /\ status[d] \in {"PREPARING", "STOP_REQUESTED"}
    <3>1. pc[p] = "mkdir"
      BY <1>1, <2>3, StepLaunches
    <3>2. Fits(p) /\ Launches(p)
      BY <1>1, Working DEF LaunchInv
    <3> QED
      BY <3>1, <3>2 DEF Fits, Launches, Deploying
  <2>4. ASSUME NEW e \in Playgrounds, e = d PROVE Contract!Next \/ UNCHANGED Contract!contractVars
    BY <1>2, <2>1, <2>2, <2>3, <2>4, HoldingMove
  <2> QED
    BY <1>1, <2>4
<1>3. CASE ~UNCHANGED status
  <2>1. Update(p) /\ UNCHANGED hostVars
    BY <1>3 DEF Step, Deploy, Remove, MakeWorkspace, Materialize, CreateNetwork, DockerCreate,
       DockerStart, Recover, Watch, RemoveContainer, RemoveNetwork, RemoveWorkspace, Update, rowVars
  <2>2. PICK s \in State :
          /\ status' = [status EXCEPT ![d] = s] /\ s # status[d]
          /\ \/ /\ d \in launched
                /\ status[d] \in {"PREPARING", "STARTING", "RUNNING"} /\ s \in {"STARTING", "RUNNING"}
             \/ /\ Free(d)
                /\ \/ status[d] = "STOP_REQUESTED" /\ s = "STOPPED"
                   \/ status[d] \in {"PREPARING", "STARTING", "RUNNING"} /\ s = "FAILED"
                   \/ status[d] \in {"STARTING", "RUNNING"} /\ s = "LOST"
    BY <1>1, <1>3, <2>1, UpdateMoves
  <2>3. Due' = Due
    BY <1>1, <2>2 DEF Due, Expired, TypeOK, State, TERMINAL, Absent
  <2> HIDE DEF d
  <2> QED
    BY <1>1, <2>1, <2>2, <2>3, RowMove
<1> QED
  BY <1>2, <1>3

\* Time ends leases; servers and containers come and go without a launch.
LEMMA ContractAtEnvironment ==
  ASSUME IInv, LaunchInv, Counts, Environment
  PROVE  Contract!Next \/ UNCHANGED Contract!contractVars
<1>1. TypeOK
  BY DEF IInv, TypeInv
<1>2. CASE Elapse
  <2>1. UNCHANGED <<status, keep, hostVars>>
    BY <1>2 DEF Elapse
  <2>2. \A d \in Playgrounds : left[d] = 0 => left'[d] = 0
    BY <1>1, <1>2 DEF Elapse, TypeOK
  <2>3. Due \subseteq Due'
    BY <2>1, <2>2 DEF Due, Expired
  <2>4. Held' = Held
    BY <2>1 DEF Held, Free, hostVars
  <2>5. launched' = launched
    BY <2>4, NothingIsAdded
  <2>6. Contract!Expire(Due')
    BY <2>1, <2>3, <2>4, <2>5 DEF Contract!Expire, Contract!Absent, Due, Expired, Absent
  <2>7. Due' \in SUBSET Playgrounds
    BY DEF Due, Expired
  <2> QED
    BY <2>6, <2>7 DEF Contract!Next
<1>3. ASSUME NEW d \in Playgrounds, ServerReady(d) \/ ServerFails(d) \/ ContainerRemoved(d)
      PROVE  Contract!Next \/ UNCHANGED Contract!contractVars
  <2>1. UNCHANGED <<status, keep, left, network, workspace>>
    BY <1>3 DEF ServerReady, ServerFails, ContainerRemoved, rowVars
  <2>2. \A e \in Playgrounds \ {d} : container'[e] = container[e]
    BY <1>1, <1>3 DEF ServerReady, ServerFails, ContainerRemoved, TypeOK
  <2>3. container[d] # "none"
    BY <1>3 DEF ServerReady, ServerFails, ContainerRemoved, Up
  <2>4. Due' = Due
    BY <2>1 DEF Due, Expired
  <2>5. ~Free(d) /\ \A e \in Playgrounds \ {d} : Free(e)' = Free(e)
    BY <2>1, <2>2, <2>3 DEF Free
  <2> QED
    BY <2>1, <2>4, <2>5, HoldingMove
<1>4. CASE (\E d \in Playgrounds : ClaimLost(d)) \/ (\E p \in Procs : Crash(p))
  <2>1. UNCHANGED <<status, Due, Held>>
    BY <1>4 DEF ClaimLost, Crash, rowVars, hostVars, Due, Expired, Held, Free
  <2> QED
    BY <2>1, NothingMoves
<1> QED
  BY <1>2, <1>3, <1>4 DEF Environment

\* Playgrounds on the host keep the contract of playgrounds as long as no claim is lost
\* under its holder: an ended lease is not revived, a launch happens once and not for a row
\* that is over, a server is shown only of a playground that was launched, and what is over
\* holds nothing.
THEOREM LocalPlaygroundsKeepContract == HistorySpec /\ [](lost = {}) => Contract!Spec
<1>1. Init /\ launched = {} => IInv /\ LaunchInv /\ Contract!Init
  <2> SUFFICES ASSUME Init, launched = {} PROVE IInv /\ LaunchInv /\ Contract!Init
    OBVIOUS
  <2>1. IInv
    BY InitInv
  <2>2. Due = {} /\ Held = {}
    BY DEF Init, Due, Held, Free
  <2>3. LaunchInv
    BY <2>2 DEF Init, LaunchInv, Launches, Deploying
  <2>4. Contract!Init
    BY <2>2 DEF Init, Contract!Init, Contract!Absent, Absent
  <2> QED
    BY <2>1, <2>3, <2>4
<1>2. IInv /\ LaunchInv /\ lost = {} /\ [Continue]_launchVars =>
        IInv' /\ LaunchInv' /\ [Contract!Next]_(Contract!contractVars)
  <2> SUFFICES ASSUME IInv, LaunchInv, lost = {}, [Continue]_launchVars
               PROVE  IInv' /\ LaunchInv' /\ [Contract!Next]_(Contract!contractVars)
    OBVIOUS
  <2>1. IInv'
    BY NextInv DEF Continue, launchVars
  <2>2. LaunchInv'
    BY LaunchNext
  <2>3. Contract!Next \/ UNCHANGED Contract!contractVars
    <3>1. CASE Continue
      <4>1. Next /\ Counts
        BY <3>1 DEF Continue
      <4>2. CASE \E d \in Playgrounds : Web(d)
        BY <4>1, <4>2, ContractAtWeb
      <4>3. CASE \E p \in Procs : Step(p) \/ \E d \in Playgrounds : Take(p, d)
        BY <4>1, <4>3, ContractAtStep, ContractAtTake
      <4>4. CASE Environment
        BY <4>1, <4>4, ContractAtEnvironment
      <4> QED
        BY <4>1, <4>2, <4>3, <4>4 DEF Next
    <3>2. CASE UNCHANGED launchVars
      <4>1. UNCHANGED <<status, keep, left, container, network, workspace, launched>>
        BY <3>2 DEF launchVars, vars, rowVars, hostVars
      <4> QED
        BY <4>1 DEF Contract!contractVars, Due, Expired, Held, Free
    <3> QED
      BY <3>1, <3>2
  <2> QED
    BY <2>1, <2>2, <2>3
<1> QED
  BY <1>1, <1>2, PTL DEF HistorySpec, Contract!Spec
=============================================================================
