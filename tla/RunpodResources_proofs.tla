----------------------- MODULE RunpodResources_proofs -----------------------
(***************************************************************************)
(* Theorems about RunpodResources, for any sets of runs, playgrounds,      *)
(* workers and reconcilers, any limits and targets, any kinds and number   *)
(* of faults.                                                              *)
(***************************************************************************)
EXTENDS RunpodResources, FiniteSetTheorems, TLAPS

-----------------------------------------------------------------------------
(* The inductive invariant.                                                *)

Reserved == {"INTENT", "BOUND"}
Untaken  == {"ABSENT", "QUEUED"}
Over     == RunFinal \cup PlayFinal

\* A process that is about to send the POST, or whose POST was refused.
Posting(p) == pc[p] = "post" \/ mode[p] = "rejected"

\* What holds of an owner whatever became of claims.
OwnerSafe(o) ==
  /\ state[o] = "NONE" => pod[o] = "none" /\ outcome[o] = "none"
  /\ pod[o] \in Billed => state[o] \in Reserved
  /\ status[o] \in Untaken => state[o] = "NONE"
  /\ o \in Runs /\ status[o] = "SUCCEEDED" => outcome[o] = "SUCCEEDED" /\ o \in collected

\* What holds of an owner whose claim was never lost.
OwnerHeld(o) ==
  /\ o \in Plays /\ status[o] \in PlayFinal => pod[o] \notin Billed
  /\ o \in Runs /\ status[o] \in RunFinal /\ outcome[o] = "SUCCEEDED" => status[o] = "SUCCEEDED"

\* Which steps belong to runs, which to playgrounds, and what a step is for.
Bookkeeping(p) ==
  /\ pc[p] = "idle" <=> at[p] = None
  /\ pc[p] \in {"status", "observe", "register"} => at[p] \in Runs
  /\ pc[p] \in {"look", "rmtree", "write"} => at[p] \in Plays
  /\ pc[p] = "pending" /\ at[p] \in Runs => result[p] \in Verdicts
  /\ mode[p] = "sweep" =>
       /\ pc[p] \in {"pending", "cleanup", "confirm", "release", "rmtree"}
       /\ result[p] \in {"FAILED", "CANCELED"}
  /\ mode[p] = "rejected" => pc[p] \in {"pending", "release"}

\* What a process knows of the Pod it works on, with or without the claim: nothing was
\* sent before the POST, and what is released is gone or never came.
ProcSafe(p) ==
  /\ Bookkeeping(p)
  /\ Posting(p) => state[at[p]] = "INTENT" /\ pod[at[p]] = "none"
  /\ pc[p] = "bind" => pod[at[p]] # "none"
  /\ pc[p] = "release" /\ mode[p] # "rejected" => pod[at[p]] = "gone"
  /\ pc[p] # "idle" => status[at[p]] \notin Untaken

\* What it may rely on while it holds the claim.
ProcHeld(p) ==
  /\ claim[at[p]] = p
  /\ mode[p] # "sweep" => status[at[p]] \notin Over
  /\ pc[p] = "observe" /\ outcome[at[p]] = "SUCCEEDED" => result[p] = "SUCCEEDED"
  /\ pc[p] = "rmtree" => pod[at[p]] \notin Billed
  /\ pc[p] = "write" /\ result[p] \in PlayFinal => pod[at[p]] \notin Billed

CapacityInv ==
  /\ IsFiniteSet(Held) /\ Cardinality(Held) <= GlobalLimit
  /\ \A t \in {Target[o] : o \in Owners} :
       Cardinality({x \in Held : Target[x] = t}) <= TargetLimit

\* One POST for one reservation: nobody else is about to send it.
OnePoster ==
  \A p, q \in Procs : Posting(p) /\ Posting(q) /\ at[p] = at[q] => p = q

IInv ==
  /\ TypeOK /\ CapacityInv /\ OnePoster
  /\ \A o \in Owners : OwnerSafe(o)
  /\ \A o \in Owners : o \notin lost => OwnerHeld(o)
  /\ \A p \in Procs : ProcSafe(p)
  /\ \A p \in Procs : pc[p] # "idle" /\ at[p] \notin lost => ProcHeld(p)

-----------------------------------------------------------------------------
(* What all steps have in common.                                          *)

\* At most the owner o changes, to something that is right for it.
Touches(o) ==
  /\ status' \in [Owners -> Status] /\ due' \subseteq Owners /\ bound' \subseteq Owners
  /\ state' \in [Owners -> {"NONE", "INTENT", "BOUND", "RELEASED"}]
  /\ cleanup' \in [Owners -> {"NONE", "PENDING", "CONFIRMED"}]
  /\ outcome' \in [Owners -> Verdicts \cup {"none"}]
  /\ pod' \in [Owners -> {"none", "gone"} \cup Billed]
  /\ job' \in [Owners -> {"none", "running", "done", "failed"}]
  /\ workspace' \subseteq Owners /\ intent' \subseteq Owners /\ collected' \subseteq Runs
  /\ faults' \in Nat /\ lost' = lost /\ collected \subseteq collected'
  /\ \A d \in Owners \ {o} :
       /\ status'[d] = status[d] /\ state'[d] = state[d]
       /\ outcome'[d] = outcome[d] /\ pod'[d] = pod[d]
  /\ pod[o] = "gone" => pod'[o] = "gone"
  /\ pod[o] # "none" => pod'[o] # "none"
  /\ status[o] \notin Untaken => status'[o] \notin Untaken
  /\ OwnerSafe(o)' /\ (o \notin lost => OwnerHeld(o)')
  /\ CapacityInv'

\* Process p goes on to a step, with a purpose m and a result r.
Moves(p, step, m, r) ==
  /\ pc' \in [Procs -> Steps] /\ mode' \in [Procs -> Modes] /\ result' \in [Procs -> Results]
  /\ pc'[p] = step /\ mode'[p] = m /\ result'[p] = r
  /\ \A q \in Procs \ {p} : pc'[q] = pc[q] /\ mode'[q] = mode[q] /\ result'[q] = result[q]
  /\ UNCHANGED <<claim, at>>

\* Nobody but p is disturbed in what it knows of a Pod that was not asked for yet.
Calm(p) ==
  \/ state'[at[p]] = state[at[p]] /\ pod'[at[p]] = pod[at[p]]
  \/ state[at[p]] # "INTENT" \/ pod[at[p]] # "none"
  \/ Posting(p)

LEMMA OwnersKeep ==
  ASSUME IInv, NEW o \in Owners, Touches(o)
  PROVE  /\ \A d \in Owners : OwnerSafe(d)'
         /\ \A d \in Owners : d \notin lost' => OwnerHeld(d)'
<1>1. lost' = lost
  BY DEF Touches
<1>2. ASSUME NEW d \in Owners, d # o
      PROVE  OwnerSafe(d)' /\ (d \notin lost => OwnerHeld(d)')
  <2>1. /\ status'[d] = status[d] /\ state'[d] = state[d]
        /\ outcome'[d] = outcome[d] /\ pod'[d] = pod[d] /\ (d \in collected => d \in collected')
    BY <1>2 DEF Touches
  <2>2. OwnerSafe(d) /\ (d \notin lost => OwnerHeld(d))
    BY DEF IInv
  <2> QED
    BY <2>1, <2>2 DEF OwnerSafe, OwnerHeld
<1>3. OwnerSafe(o)' /\ (o \notin lost => OwnerHeld(o)')
  BY DEF Touches
<1> QED
  BY <1>1, <1>2, <1>3

LEMMA OtherSafe ==
  ASSUME IInv, NEW o \in Owners, Touches(o), NEW q \in Procs,
         pc'[q] = pc[q], at'[q] = at[q], mode'[q] = mode[q], result'[q] = result[q],
         Posting(q) /\ at[q] = o => state'[o] = state[o] /\ pod'[o] = pod[o]
  PROVE  ProcSafe(q)'
<1>1. ProcSafe(q) /\ (pc[q] # "idle" => at[q] \in Owners)
  BY DEF IInv, TypeOK, ProcSafe, Bookkeeping
<1>2. Bookkeeping(q)'
  BY <1>1 DEF ProcSafe, Bookkeeping
<1>3. Posting(q)' <=> Posting(q)
  BY DEF Posting
<1>4. CASE pc[q] = "idle"
  BY <1>1, <1>2, <1>3, <1>4 DEF ProcSafe, Posting, Bookkeeping
<1>5. CASE pc[q] # "idle" /\ at[q] = o
  BY <1>1, <1>2, <1>3, <1>5 DEF ProcSafe, Touches
<1>6. CASE pc[q] # "idle" /\ at[q] # o
  <2>1. status'[at[q]] = status[at[q]] /\ state'[at[q]] = state[at[q]] /\ pod'[at[q]] = pod[at[q]]
    BY <1>1, <1>6 DEF Touches
  <2> QED
    BY <1>1, <1>2, <1>3, <2>1 DEF ProcSafe
<1> QED
  BY <1>4, <1>5, <1>6

LEMMA OtherHeld ==
  ASSUME IInv, NEW o \in Owners, Touches(o), NEW q \in Procs,
         pc'[q] = pc[q], at'[q] = at[q], mode'[q] = mode[q], result'[q] = result[q],
         pc[q] # "idle", at[q] \notin lost, at[q] # o, claim'[at[q]] = claim[at[q]]
  PROVE  ProcHeld(q)'
<1>1. ProcHeld(q) /\ at[q] \in Owners
  BY DEF IInv, TypeOK, ProcSafe, Bookkeeping
<1>2. /\ status'[at[q]] = status[at[q]] /\ outcome'[at[q]] = outcome[at[q]]
      /\ pod'[at[q]] = pod[at[q]]
  BY <1>1 DEF Touches
<1> QED
  BY <1>1, <1>2 DEF ProcHeld

\* A working process, and what is known of it and of its owner.
LEMMA Working ==
  ASSUME IInv, NEW p \in Procs, pc[p] # "idle"
  PROVE  /\ TypeOK /\ at[p] \in Owners /\ at[p] # None /\ ProcSafe(p) /\ OwnerSafe(at[p])
         /\ at[p] \notin lost => ProcHeld(p) /\ OwnerHeld(at[p])
         /\ at[p] \in Runs <=> at[p] \notin Plays
  BY RolesAssumption DEF IInv, TypeOK, ProcSafe, Bookkeeping, Owners

\* Two processes are not at the same owner while its claim holds.
LEMMA Apart ==
  ASSUME IInv, NEW p \in Procs, NEW q \in Procs, p # q,
         pc[p] # "idle", pc[q] # "idle", at[q] \notin lost
  PROVE  at[q] # at[p]
  BY Working DEF ProcHeld

\* A step of p does not surprise the one who is about to send the POST.
LEMMA PosterCalm ==
  ASSUME IInv, NEW p \in Procs, pc[p] # "idle", Calm(p), NEW q \in Procs, q # p,
         Posting(q), at[q] = at[p]
  PROVE  state'[at[p]] = state[at[p]] /\ pod'[at[p]] = pod[at[p]]
<1>1. state[at[p]] = "INTENT" /\ pod[at[p]] = "none"
  BY DEF IInv, ProcSafe
<1>2. ~Posting(p)
  BY DEF IInv, OnePoster
<1> QED
  BY <1>1, <1>2 DEF Calm

LEMMA Advance ==
  ASSUME IInv, NEW p \in Procs, pc[p] # "idle",
         NEW o \in Owners, o = at[p], Touches(o), Calm(p),
         NEW step \in Steps \ {"idle"}, NEW m \in Modes, NEW r \in Results, Moves(p, step, m, r),
         step = "post" \/ m = "rejected" => Posting(p) \/ state[at[p]] # "INTENT",
         ProcSafe(p)', at[p] \notin lost => ProcHeld(p)'
  PROVE  IInv'
<1>1. at[p] \in Owners /\ lost' = lost /\ at' = at /\ claim' = claim
  BY Working DEF Touches, Moves
<1>2. \A q \in Procs \ {p} : pc'[q] = pc[q] /\ mode'[q] = mode[q] /\ result'[q] = result[q]
  BY DEF Moves
<1>3. TypeOK'
  BY DEF IInv, TypeOK, Touches, Moves
<1>4. \A q \in Procs : ProcSafe(q)'
  BY <1>1, <1>2, OtherSafe, PosterCalm
<1>5. \A q \in Procs : pc'[q] # "idle" /\ at'[q] \notin lost' => ProcHeld(q)'
  BY <1>1, <1>2, OtherHeld, Apart
<1>6. OnePoster'
  <2>1. \A q \in Procs \ {p} : (Posting(q)' <=> Posting(q)) /\ (Posting(q) => state[at[q]] = "INTENT")
    BY <1>2 DEF Posting, IInv, ProcSafe
  <2>2. Posting(p)' => Posting(p) \/ state[at[p]] # "INTENT"
    BY DEF Posting, Moves
  <2>3. \A q1, q2 \in Procs : Posting(q1) /\ Posting(q2) /\ at[q1] = at[q2] => q1 = q2
    BY DEF IInv, OnePoster
  <2> SUFFICES ASSUME NEW q1 \in Procs, NEW q2 \in Procs, Posting(q1)', Posting(q2)', at[q1] = at[q2]
               PROVE  q1 = q2
    BY <1>1 DEF OnePoster
  <2> QED
    BY <2>1, <2>2, <2>3
<1> QED
  BY <1>1, <1>3, <1>4, <1>5, <1>6, OwnersKeep DEF IInv, Touches

LEMMA Away ==
  ASSUME IInv, NEW p \in Procs, pc[p] # "idle",
         NEW o \in Owners, o = at[p], Touches(o), Calm(p), Leave(p)
  PROVE  IInv'
<1>1. at[p] \in Owners /\ lost' = lost
  BY Working DEF Touches
<1>2. /\ pc'[p] = "idle" /\ at'[p] = None /\ mode'[p] = "none" /\ result'[p] = "none"
      /\ \A q \in Procs \ {p} :
           pc'[q] = pc[q] /\ at'[q] = at[q] /\ mode'[q] = mode[q] /\ result'[q] = result[q]
      /\ \A x \in Owners : claim[x] # p => claim'[x] = claim[x]
  BY DEF IInv, TypeOK, Leave
<1>3. TypeOK'
  <2>1. "idle" \in Steps /\ "none" \in Modes /\ "none" \in Results
    BY DEF Steps, Modes, Results
  <2> QED
    BY <2>1 DEF IInv, TypeOK, Touches, Leave
<1>4. ProcSafe(p)' /\ ~Posting(p)'
  BY <1>2 DEF ProcSafe, Bookkeeping, Posting
<1>5. \A q \in Procs : ProcSafe(q)'
  BY <1>1, <1>2, <1>4, OtherSafe, PosterCalm
<1>6. ASSUME NEW q \in Procs, pc'[q] # "idle", at'[q] \notin lost'
      PROVE  ProcHeld(q)'
  <2>1. q # p
    BY <1>2, <1>6
  <2>2. at[q] # at[p] /\ claim[at[q]] = q /\ at[q] \in Owners
    BY <1>1, <1>2, <1>6, <2>1, Apart, Working DEF ProcHeld
  <2> QED
    BY <1>1, <1>2, <1>6, <2>1, <2>2, OtherHeld
<1>7. OnePoster'
  <2>1. \A q \in Procs : Posting(q)' => q # p /\ Posting(q) /\ at'[q] = at[q]
    BY <1>2, <1>4 DEF Posting
  <2> QED
    BY <2>1 DEF IInv, OnePoster
<1>8. CapacityInv'
  BY DEF Touches
<1>9. /\ \A x \in Owners : OwnerSafe(x)'
      /\ \A x \in Owners : x \notin lost' => OwnerHeld(x)'
  BY <1>1, OwnersKeep
<1> QED
  BY <1>3, <1>5, <1>6, <1>7, <1>8, <1>9 DEF IInv

\* Process p takes an owner o that nobody holds.
LEMMA Entered ==
  ASSUME IInv, NEW p \in Procs, NEW o \in Owners, Touches(o), UNCHANGED <<state, pod>>,
         NEW step \in Steps \ {"idle", "post"}, NEW m \in Modes \ {"rejected"}, NEW r \in Results,
         Enter(p, o, step, m, r), ProcSafe(p)', o \notin lost => ProcHeld(p)'
  PROVE  IInv'
<1>1. /\ pc[p] = "idle" /\ claim[o] = NoProc /\ lost' = lost
      /\ pc'[p] = step /\ at'[p] = o /\ mode'[p] = m /\ result'[p] = r
      /\ \A q \in Procs \ {p} :
           pc'[q] = pc[q] /\ at'[q] = at[q] /\ mode'[q] = mode[q] /\ result'[q] = result[q]
      /\ \A d \in Owners \ {o} : claim'[d] = claim[d]
  BY DEF IInv, TypeOK, Enter, Touches
<1>2. TypeOK'
  BY DEF IInv, TypeOK, Touches, Enter
<1>3. \A q \in Procs : ProcSafe(q)'
  BY <1>1, OtherSafe
<1>4. ASSUME NEW q \in Procs, pc'[q] # "idle", at'[q] \notin lost'
      PROVE  ProcHeld(q)'
  <2>1. CASE q = p
    BY <1>1, <1>4, <2>1
  <2>2. CASE q # p
    <3>1. at[q] \in Owners /\ claim[at[q]] = q /\ q # NoProc
      BY <1>1, <1>4, <2>2, Working, NullsAssumption DEF ProcHeld
    <3> QED
      BY <1>1, <1>4, <2>2, <3>1, OtherHeld
  <2> QED
    BY <2>1, <2>2
<1>5. OnePoster'
  <2>1. \A q \in Procs : Posting(q)' => q # p /\ Posting(q) /\ at'[q] = at[q]
    BY <1>1 DEF Posting
  <2> QED
    BY <2>1 DEF IInv, OnePoster
<1> QED
  BY <1>1, <1>2, <1>3, <1>4, <1>5, OwnersKeep DEF IInv, Touches

\* Somebody else, a user or the provider, changes owner o.
LEMMA Outside ==
  ASSUME IInv, NEW o \in Owners, Touches(o), UNCHANGED <<procVars, claim>>,
         (state[o] = "INTENT" /\ pod[o] = "none") => state'[o] = state[o] /\ pod'[o] = pod[o],
         \A q \in Procs : pc[q] # "idle" /\ at[q] = o /\ o \notin lost => ProcHeld(q)'
  PROVE  IInv'
<1>1. UNCHANGED <<pc, at, mode, result, claim, lost>>
  BY DEF procVars, Touches
<1>2. TypeOK'
  BY <1>1 DEF IInv, TypeOK, Touches
<1>3. \A q \in Procs : Posting(q) /\ at[q] = o => state'[o] = state[o] /\ pod'[o] = pod[o]
  BY DEF IInv, ProcSafe
<1>4. \A q \in Procs : ProcSafe(q)'
  BY <1>1, <1>3, OtherSafe
<1>5. \A q \in Procs : pc'[q] # "idle" /\ at'[q] \notin lost' => ProcHeld(q)'
  BY <1>1, OtherHeld
<1>6. OnePoster'
  BY <1>1 DEF IInv, OnePoster, Posting
<1> QED
  BY <1>1, <1>2, <1>4, <1>5, <1>6, OwnersKeep DEF IInv, Touches

-----------------------------------------------------------------------------
(* The helpers of the steps.                                               *)

LEMMA FaultTypes ==
  ASSUME TypeOK, NEW kind, Fault(kind)
  PROVE  faults' \in Nat
  BY DEF TypeOK, Fault

LEMMA GotoMoves ==
  ASSUME TypeOK, NEW p \in Procs, NEW step \in Steps, Goto(p, step)
  PROVE  Moves(p, step, mode[p], result[p])
  BY DEF TypeOK, Goto, Moves

LEMMA TurnMoves ==
  ASSUME TypeOK, NEW p \in Procs, NEW step \in Steps, NEW m \in Modes, NEW r \in Results,
         Turn(p, step, m, r)
  PROVE  Moves(p, step, m, r)
  BY DEF TypeOK, Turn, Moves

\* Giving a reservation back, or none, keeps within the limits.
LEMMA CapacityKeeps ==
  ASSUME CapacityInv, \A o \in Owners : state'[o] \in Reserved => state[o] \in Reserved
  PROVE  CapacityInv'
<1>1. Held' \subseteq Held /\ IsFiniteSet(Held)
  BY DEF Held, Reserved, CapacityInv
<1>2. IsFiniteSet(Held') /\ Cardinality(Held') <= Cardinality(Held)
  BY <1>1, FS_Subset
<1>3. Cardinality(Held) \in Nat /\ Cardinality(Held') \in Nat
  BY <1>1, <1>2, FS_CardinalityType
<1>4. ASSUME NEW t \in {Target[o] : o \in Owners}
      PROVE  Cardinality({x \in Held' : Target[x] = t}) <= TargetLimit
  <2>1. {x \in Held' : Target[x] = t} \subseteq {x \in Held : Target[x] = t}
    BY <1>1
  <2>2. IsFiniteSet({x \in Held : Target[x] = t})
    BY <1>1, FS_Subset
  <2>3. IsFiniteSet({x \in Held' : Target[x] = t})
    BY <1>2, FS_Subset
  <2>4. Cardinality({x \in Held' : Target[x] = t}) <= Cardinality({x \in Held : Target[x] = t})
    BY <2>1, <2>2, FS_Subset
  <2>5. /\ Cardinality({x \in Held' : Target[x] = t}) \in Nat
        /\ Cardinality({x \in Held : Target[x] = t}) \in Nat
    BY <2>2, <2>3, FS_CardinalityType
  <2>6. Cardinality({x \in Held : Target[x] = t}) <= TargetLimit
    BY DEF CapacityInv
  <2> QED
    BY <2>4, <2>5, <2>6, LimitsAssumption
<1>5. Cardinality(Held') <= GlobalLimit
  BY <1>2, <1>3, LimitsAssumption DEF CapacityInv
<1> QED
  BY <1>2, <1>4, <1>5 DEF CapacityInv

\* What neither the row's verdict and state, nor the Pod, nor the status depends on.
Types ==
  /\ due' \subseteq Owners /\ bound' \subseteq Owners
  /\ cleanup' \in [Owners -> {"NONE", "PENDING", "CONFIRMED"}]
  /\ job' \in [Owners -> {"none", "running", "done", "failed"}]
  /\ workspace' \subseteq Owners /\ intent' \subseteq Owners /\ collected' \subseteq Runs
  /\ faults' \in Nat /\ lost' = lost /\ collected \subseteq collected'

LEMMA TypesStay ==
  ASSUME TypeOK, UNCHANGED <<due, bound, cleanup, job, fileVars, lost>>, faults' \in Nat
  PROVE  Types
  BY DEF TypeOK, Types, fileVars

\* A step aside: nothing of the four changes.
LEMMA AsideTouches ==
  ASSUME IInv, NEW o \in Owners, UNCHANGED <<status, state, outcome, pod>>, Types
  PROVE  Touches(o)
<1>1. CapacityInv'
  BY CapacityKeeps DEF IInv
<1>2. OwnerSafe(o)' /\ (o \notin lost => OwnerHeld(o)')
  BY DEF IInv, OwnerSafe, OwnerHeld, Types
<1> QED
  BY <1>1, <1>2 DEF IInv, TypeOK, Types, Touches

\* Only the status changes.
LEMMA RowTouches ==
  ASSUME IInv, NEW o \in Owners, NEW s \in Status \ Untaken, Row(o, s),
         UNCHANGED <<state, outcome, pod>>, Types,
         o \in Runs /\ s = "SUCCEEDED" => outcome[o] = "SUCCEEDED" /\ o \in collected,
         o \in Runs /\ s \in RunFinal /\ o \notin lost /\ outcome[o] = "SUCCEEDED" => s = "SUCCEEDED",
         o \in Plays /\ s \in PlayFinal /\ o \notin lost => pod[o] \notin Billed
  PROVE  Touches(o)
<1>1. /\ status' \in [Owners -> Status] /\ status'[o] = s
      /\ \A d \in Owners \ {o} : status'[d] = status[d]
  BY DEF IInv, TypeOK, Row
<1>2. CapacityInv'
  BY CapacityKeeps DEF IInv
<1>3. OwnerSafe(o)
  BY DEF IInv
<1>4. OwnerSafe(o)' /\ (o \notin lost => OwnerHeld(o)')
  BY <1>1, <1>3 DEF OwnerSafe, OwnerHeld, Types
<1> QED
  BY <1>1, <1>2, <1>4 DEF IInv, TypeOK, Types, Touches

\* What makes a next step right, apart from the POST, the binding and the release.
Apt(p, step, m, r) ==
  /\ step \in Steps \ {"idle", "post", "bind", "release"}
  /\ m \in Modes \ {"rejected"} /\ r \in Results
  /\ m = "sweep" => mode[p] = "sweep" /\ r = result[p]
  /\ mode[p] = "sweep" => m = "sweep"
  /\ m = "sweep" => step \in {"pending", "cleanup", "confirm", "rmtree"}
  /\ step \in {"status", "observe", "register"} => at[p] \in Runs
  /\ step \in {"look", "rmtree", "write"} => at[p] \in Plays
  /\ step = "pending" /\ at[p] \in Runs => r \in Verdicts

LEMMA MovesKeeps ==
  ASSUME IInv, NEW p \in Procs, pc[p] # "idle",
         NEW o \in Owners, o = at[p], Touches(o), Calm(p),
         status'[at[p]] = status[at[p]],
         NEW step, NEW m, NEW r, Apt(p, step, m, r), Moves(p, step, m, r),
         at[p] \notin lost =>
           /\ step = "observe" /\ outcome'[at[p]] = "SUCCEEDED" => r = "SUCCEEDED"
           /\ step = "rmtree" => pod'[at[p]] \notin Billed
           /\ step = "write" /\ r \in PlayFinal => pod'[at[p]] \notin Billed
  PROVE  IInv'
<1>1. /\ at[p] \in Owners /\ at[p] # None /\ ProcSafe(p) /\ (at[p] \notin lost => ProcHeld(p))
      /\ (at[p] \in Runs <=> at[p] \notin Plays)
  BY Working
<1>2. /\ pc'[p] = step /\ mode'[p] = m /\ result'[p] = r /\ at' = at /\ claim' = claim
  BY DEF Moves
<1>3. Bookkeeping(p)'
  BY <1>1, <1>2 DEF Apt, ProcSafe, Bookkeeping
<1>4. ProcSafe(p)'
  BY <1>1, <1>2, <1>3 DEF Apt, ProcSafe, Posting
<1>5. at[p] \notin lost => ProcHeld(p)'
  BY <1>1, <1>2 DEF Apt, ProcHeld
<1> QED
  BY <1>4, <1>5, Advance DEF Apt

\* finish() of a run that is under way.
LEMMA FinishKeeps ==
  ASSUME IInv, NEW p \in Procs, pc[p] # "idle", at[p] \in Runs,
         NEW o \in Owners, o = at[p], Touches(o), Calm(p),
         status'[at[p]] = status[at[p]],
         NEW m \in Modes \ {"sweep", "rejected"}, mode[p] # "sweep",
         NEW v \in Verdicts, Finish(p, m, v)
  PROVE  IInv'
<1>1. TypeOK /\ at[p] \notin Plays
  BY Working
<1>2. "pending" \in Steps \ {"idle", "post", "bind", "release"} /\ v \in Results
  BY DEF Steps, Results
<1>3. Moves(p, "pending", m, v)
  BY <1>1, <1>2, TurnMoves DEF Finish
<1>4. Apt(p, "pending", m, v)
  BY <1>2 DEF Apt
<1> QED
  BY <1>3, <1>4, MovesKeeps

\* stop() of a playground.
LEMMA StopPlayKeeps ==
  ASSUME IInv, NEW p \in Procs, pc[p] # "idle", at[p] \in Plays,
         NEW o \in Owners, o = at[p], Touches(o), Calm(p),
         status'[at[p]] = status[at[p]], state[at[p]] = "NONE" => pod'[at[p]] = pod[at[p]],
         NEW m \in Modes \ {"sweep", "rejected"}, mode[p] # "sweep",
         NEW s \in Results, StopPlay(p, m, s)
  PROVE  IInv'
<1>1. TypeOK /\ at[p] \notin Runs /\ OwnerSafe(at[p])
  BY Working
<1>2. {"pending", "rmtree"} \subseteq Steps \ {"idle", "post", "bind", "release"}
  BY DEF Steps
<1>3. CASE state[at[p]] = "NONE"
  <2>1. Moves(p, "rmtree", m, s)
    BY <1>1, <1>2, <1>3, TurnMoves DEF StopPlay
  <2>2. Apt(p, "rmtree", m, s)
    BY <1>1, <1>2 DEF Apt
  <2>3. pod'[at[p]] \notin Billed
    BY <1>1, <1>3 DEF OwnerSafe, Billed
  <2> QED
    BY <2>1, <2>2, <2>3, MovesKeeps
<1>4. CASE state[at[p]] # "NONE"
  <2>1. Moves(p, "pending", m, s)
    BY <1>1, <1>2, <1>4, TurnMoves DEF StopPlay
  <2>2. Apt(p, "pending", m, s)
    BY <1>1, <1>2 DEF Apt
  <2> QED
    BY <2>1, <2>2, MovesKeeps
<1> QED
  BY <1>3, <1>4

\* A preparation that failed, in whatever step.
LEMMA AbortKeeps ==
  ASSUME IInv, NEW p \in Procs, pc[p] # "idle", mode[p] # "sweep",
         NEW o \in Owners, o = at[p], Touches(o), Calm(p),
         status'[at[p]] = status[at[p]], state[at[p]] = "NONE" => pod'[at[p]] = pod[at[p]],
         Abort(p)
  PROVE  IInv'
<1>1. TypeOK /\ (at[p] \in Runs <=> at[p] \notin Plays) /\ at[p] \in Owners
  BY Working
<1>2. /\ {"submit", "preparing", "aborted"} \subseteq Modes \ {"sweep", "rejected"}
      /\ "FAILED" \in Verdicts /\ {"FAILED", "none"} \subseteq Results
      /\ "status" \in Steps \ {"idle", "post", "bind", "release"}
  BY DEF Modes, Verdicts, Results, Steps
<1>3. CASE at[p] \in Plays
  <2>1. StopPlay(p, "submit", "FAILED")
    BY <1>3 DEF Abort
  <2> QED
    BY <1>2, <1>3, <2>1, StopPlayKeeps
<1>4. CASE at[p] \notin Plays /\ (state[at[p]] = "NONE" \/ at[p] \in intent)
  <2>1. Moves(p, "status", "preparing", "none")
    BY <1>1, <1>2, <1>4, TurnMoves DEF Abort
  <2>2. Apt(p, "status", "preparing", "none")
    BY <1>1, <1>2, <1>4 DEF Apt
  <2> QED
    BY <2>1, <2>2, MovesKeeps
<1>5. CASE at[p] \notin Plays /\ ~(state[at[p]] = "NONE" \/ at[p] \in intent)
  <2>1. Finish(p, "aborted", "FAILED")
    BY <1>5 DEF Abort
  <2> QED
    BY <1>1, <1>2, <1>5, <2>1, FinishKeeps
<1> QED
  BY <1>3, <1>4, <1>5

\* The caller of cleanup() goes on.
LEMMA ProceedKeeps ==
  ASSUME IInv, NEW p \in Procs, pc[p] # "idle", mode[p] # "rejected",
         NEW o \in Owners, o = at[p], Touches(o), Calm(p),
         status'[at[p]] = status[at[p]], outcome'[at[p]] = outcome[at[p]],
         at[p] \in Plays /\ at[p] \notin lost => pod'[at[p]] \notin Billed,
         Proceed(p)
  PROVE  IInv'
<1>1. TypeOK /\ (at[p] \in Runs <=> at[p] \notin Plays) /\ at[p] \in Owners
  BY Working
<1>2. /\ {"rmtree", "launched", "status", "observe"} \subseteq Steps \ {"idle", "post", "bind", "release"}
      /\ "preparing" \in Modes /\ {"none", "SUCCEEDED", "FAILED"} \subseteq Results
      /\ outcome[at[p]] \in Results /\ mode[p] \in Modes /\ result[p] \in Results
  <2>1. /\ {"rmtree", "launched", "status", "observe"} \subseteq Steps \ {"idle", "post", "bind", "release"}
        /\ "preparing" \in Modes /\ {"none", "SUCCEEDED", "FAILED"} \subseteq Results
        /\ Verdicts \subseteq Results
    BY DEF Steps, Modes, Results, Verdicts
  <2>2. /\ outcome[at[p]] \in Verdicts \cup {"none"}
        /\ mode[p] \in Modes /\ result[p] \in Results
    BY <1>1 DEF TypeOK
  <2> QED
    BY <2>1, <2>2
<1>3. CASE at[p] \in Plays
  <2>3. Goto(p, "rmtree")
    BY <1>3 DEF Proceed
  <2>1. Moves(p, "rmtree", mode[p], result[p])
    BY <1>1, <1>2, <2>3, GotoMoves
  <2>2. Apt(p, "rmtree", mode[p], result[p])
    BY <1>1, <1>2, <1>3 DEF Apt
  <2> QED
    BY <1>3, <2>1, <2>2, MovesKeeps
<1>4. CASE at[p] \in Runs /\ mode[p] = "sweep"
  BY <1>1, <1>4, Away DEF Proceed
<1>5. CASE at[p] \in Runs /\ mode[p] = "submit"
  <2>1. Moves(p, "launched", mode[p], result[p])
    BY <1>1, <1>2, <1>5, GotoMoves DEF Proceed
  <2>2. Apt(p, "launched", mode[p], result[p])
    BY <1>1, <1>2, <1>5 DEF Apt
  <2> QED
    BY <2>1, <2>2, MovesKeeps
<1>6. CASE at[p] \in Runs /\ mode[p] = "aborted"
  <2>1. Moves(p, "status", "preparing", "none")
    BY <1>1, <1>2, <1>6, TurnMoves DEF Proceed
  <2>2. Apt(p, "status", "preparing", "none")
    BY <1>1, <1>2, <1>6 DEF Apt
  <2> QED
    BY <2>1, <2>2, MovesKeeps
<1>7. CASE at[p] \in Runs /\ mode[p] = "abandon"
  <2> DEFINE r == IF outcome[at[p]] = "SUCCEEDED" THEN "SUCCEEDED" ELSE "FAILED"
  <2>1. r \in Results
    BY <1>2
  <2>2. Turn(p, "observe", "preparing", r)
    BY <1>1, <1>7 DEF Proceed
  <2>3. outcome'[at[p]] = "SUCCEEDED" => r = "SUCCEEDED"
    OBVIOUS
  <2> HIDE DEF r
  <2>4. Moves(p, "observe", "preparing", r)
    BY <1>1, <1>2, <2>1, <2>2, TurnMoves
  <2>5. Apt(p, "observe", "preparing", r)
    BY <1>1, <1>2, <1>7, <2>1 DEF Apt
  <2> QED
    BY <2>3, <2>4, <2>5, MovesKeeps
<1>8. CASE at[p] \in Runs /\ mode[p] \notin {"sweep", "submit", "aborted", "abandon"}
  <2>1. Moves(p, "observe", mode[p], outcome[at[p]])
    BY <1>1, <1>2, <1>8, TurnMoves DEF Proceed
  <2>2. Apt(p, "observe", mode[p], outcome[at[p]])
    BY <1>1, <1>2, <1>8 DEF Apt
  <2> QED
    BY <2>1, <2>2, MovesKeeps
<1> QED
  BY <1>1, <1>3, <1>4, <1>5, <1>6, <1>7, <1>8

LEMMA CleanupFailsKeeps ==
  ASSUME IInv, NEW p \in Procs, pc[p] # "idle", mode[p] # "rejected",
         NEW o \in Owners, o = at[p], Touches(o), Calm(p),
         status'[at[p]] = status[at[p]], outcome'[at[p]] = outcome[at[p]], CleanupFails(p)
  PROVE  IInv'
  BY ProceedKeeps, Away, Working DEF CleanupFails

\* Only the Pod changes.
LEMMA PodTouches ==
  ASSUME IInv, NEW o \in Owners, NEW v \in {"none", "gone"} \cup Billed,
         pod' = [pod EXCEPT ![o] = v], UNCHANGED <<status, state, outcome>>, Types,
         pod[o] = "gone" => v = "gone", pod[o] # "none" => v # "none", state[o] # "NONE",
         v \in Billed => state[o] \in Reserved,
         o \in Plays /\ status[o] \in PlayFinal /\ o \notin lost => v \notin Billed
  PROVE  Touches(o)
<1>1. /\ pod' \in [Owners -> {"none", "gone"} \cup Billed] /\ pod'[o] = v
      /\ \A d \in Owners \ {o} : pod'[d] = pod[d]
  BY DEF IInv, TypeOK
<1>2. CapacityInv'
  BY CapacityKeeps DEF IInv
<1>3. OwnerSafe(o) /\ (o \notin lost => OwnerHeld(o))
  BY DEF IInv
<1>4. OwnerSafe(o)' /\ (o \notin lost => OwnerHeld(o)')
  BY <1>1, <1>3 DEF OwnerSafe, OwnerHeld, Types
<1> QED
  BY <1>1, <1>2, <1>4 DEF IInv, TypeOK, Types, Touches

\* Only the state of the row changes, and it is not reserved anew.
LEMMA StateTouches ==
  ASSUME IInv, NEW o \in Owners, NEW s \in {"BOUND", "RELEASED"},
         state' = [state EXCEPT ![o] = s], UNCHANGED <<status, outcome, pod>>, Types,
         state[o] # "NONE", pod[o] \in Billed => s \in Reserved,
         s \in Reserved => state[o] \in Reserved
  PROVE  Touches(o)
<1>1. /\ state' \in [Owners -> {"NONE", "INTENT", "BOUND", "RELEASED"}] /\ state'[o] = s
      /\ \A d \in Owners \ {o} : state'[d] = state[d]
  BY DEF IInv, TypeOK
<1>2. CapacityInv'
  BY <1>1, CapacityKeeps DEF IInv
<1>3. OwnerSafe(o) /\ (o \notin lost => OwnerHeld(o))
  BY DEF IInv
<1>4. OwnerSafe(o)' /\ (o \notin lost => OwnerHeld(o)')
  BY <1>1, <1>3 DEF OwnerSafe, OwnerHeld, Types
<1> QED
  BY <1>1, <1>2, <1>4 DEF IInv, TypeOK, Types, Touches

\* A plain next step, of the same purpose.
LEMMA GotoKeeps ==
  ASSUME IInv, NEW p \in Procs, pc[p] # "idle",
         NEW o \in Owners, o = at[p], Touches(o), Calm(p),
         status'[at[p]] = status[at[p]], mode[p] # "rejected",
         NEW step \in {"reserve", "wait", "touch", "launch", "launched", "cleanup", "confirm"},
         mode[p] = "sweep" => step \in {"cleanup", "confirm"}, Goto(p, step)
  PROVE  IInv'
<1>1. TypeOK
  BY Working
<1>2. step \in Steps \ {"idle", "post", "bind", "release", "pending", "status", "observe",
                        "register", "look", "rmtree", "write"}
  BY DEF Steps
<1>3. Moves(p, step, mode[p], result[p])
  BY <1>1, <1>2, GotoMoves
<1>4. mode[p] \in Modes /\ result[p] \in Results
  BY <1>1 DEF TypeOK
<1>5. Apt(p, step, mode[p], result[p])
  BY <1>2, <1>4 DEF Apt
<1> QED
  BY <1>2, <1>3, <1>5, MovesKeeps

\* The Pod is gone, or never came.
LEMMA ReleaseNext ==
  ASSUME IInv, NEW p \in Procs, pc[p] # "idle",
         NEW o \in Owners, o = at[p], Touches(o), Calm(p),
         UNCHANGED <<status, state, pod>>, Goto(p, "release"),
         mode[p] # "rejected" => pod[at[p]] = "gone"
  PROVE  IInv'
<1>1. /\ TypeOK /\ at[p] \in Owners /\ ProcSafe(p) /\ at[p] # None
      /\ (at[p] \notin lost => ProcHeld(p))
  BY Working
<1>2. "release" \in Steps \ {"idle"} /\ mode[p] \in Modes /\ result[p] \in Results
  BY <1>1 DEF Steps, TypeOK
<1>3. Moves(p, "release", mode[p], result[p])
  BY <1>1, <1>2, GotoMoves
<1>4. /\ pc'[p] = "release" /\ mode'[p] = mode[p] /\ result'[p] = result[p]
      /\ at' = at /\ claim' = claim
  BY <1>3 DEF Moves
<1>5. Bookkeeping(p)'
  BY <1>1, <1>4 DEF ProcSafe, Bookkeeping
<1>6. ProcSafe(p)'
  BY <1>1, <1>4, <1>5 DEF ProcSafe, Posting
<1>7. at[p] \notin lost => ProcHeld(p)'
  BY <1>1, <1>4 DEF ProcHeld
<1> QED
  BY <1>2, <1>3, <1>6, <1>7, Advance DEF Posting

-----------------------------------------------------------------------------
(* The steps of a process: a preparation.                                  *)

LEMMA MakeWorkspaceKeeps ==
  ASSUME IInv, NEW p \in Procs, NEW o \in Owners, o = at[p], MakeWorkspace(p)
  PROVE  IInv'
<1>1. pc[p] # "idle" /\ mode[p] \notin {"sweep", "rejected"} /\ TypeOK /\ at[p] \in Owners
  BY Working DEF MakeWorkspace, At, ProcSafe, Bookkeeping
<1>2. UNCHANGED <<status, state, outcome, pod>>
  BY DEF MakeWorkspace, Local, resVars, podVars
<1>3. Types
  BY <1>1 DEF MakeWorkspace, Local, resVars, podVars, Types, TypeOK
<1>4. Touches(o) /\ Calm(p)
  BY <1>1, <1>2, <1>3, AsideTouches DEF Calm
<1>5. CASE Abort(p)
  BY <1>1, <1>2, <1>4, <1>5, AbortKeeps
<1>6. CASE Goto(p, "reserve")
  BY <1>1, <1>2, <1>4, <1>6, GotoKeeps
<1> QED
  BY <1>5, <1>6 DEF MakeWorkspace

\* One more reservation fits.
LEMMA CapacityFits ==
  ASSUME CapacityInv, NEW o \in Owners, state \in [Owners -> {"NONE", "INTENT", "BOUND", "RELEASED"}],
         Fits(o), state[o] = "NONE", state' = [state EXCEPT ![o] = "INTENT"]
  PROVE  CapacityInv'
<1>1. Held' = Held \cup {o} /\ o \notin Held /\ IsFiniteSet(Held)
  BY DEF Held, CapacityInv
<1>2. /\ IsFiniteSet(Held') /\ Cardinality(Held') = Cardinality(Held) + 1
      /\ Cardinality(Held) \in Nat
  BY <1>1, FS_AddElement, FS_CardinalityType
<1>3. Cardinality(Held') <= GlobalLimit
  BY <1>2, LimitsAssumption DEF Fits
<1>4. ASSUME NEW t \in {Target[d] : d \in Owners}
      PROVE  Cardinality({x \in Held' : Target[x] = t}) <= TargetLimit
  <2>1. IsFiniteSet({x \in Held : Target[x] = t})
    BY <1>1, FS_Subset
  <2>2. Cardinality({x \in Held : Target[x] = t}) \in Nat
    BY <2>1, FS_CardinalityType
  <2>3. CASE Target[o] # t
    <3>1. {x \in Held' : Target[x] = t} = {x \in Held : Target[x] = t}
      BY <1>1, <2>3
    <3> QED
      BY <3>1 DEF CapacityInv
  <2>4. CASE Target[o] = t
    <3>1. /\ {x \in Held' : Target[x] = t} = {x \in Held : Target[x] = t} \cup {o}
          /\ o \notin {x \in Held : Target[x] = t}
      BY <1>1, <2>4
    <3>2. Cardinality({x \in Held' : Target[x] = t}) = Cardinality({x \in Held : Target[x] = t}) + 1
      BY <2>1, <3>1, FS_AddElement
    <3>3. Cardinality({x \in Held : Target[x] = t}) < TargetLimit
      BY <2>4 DEF Fits
    <3> QED
      BY <2>2, <3>2, <3>3, LimitsAssumption
  <2> QED
    BY <2>3, <2>4
<1> QED
  BY <1>2, <1>3, <1>4 DEF CapacityInv

LEMMA ReserveKeeps ==
  ASSUME IInv, NEW p \in Procs, NEW o \in Owners, o = at[p], Reserve(p)
  PROVE  IInv'
<1>1. /\ pc[p] # "idle" /\ mode[p] \notin {"sweep", "rejected"} /\ TypeOK /\ at[p] \in Owners
      /\ at[p] # None /\ ProcSafe(p) /\ OwnerSafe(at[p])
      /\ (at[p] \notin lost => ProcHeld(p) /\ OwnerHeld(at[p]))
  BY Working DEF Reserve, At, ProcSafe, Bookkeeping
<1>2. UNCHANGED <<status, outcome, pod>> /\ faults' \in Nat
  BY <1>1, FaultTypes DEF Reserve, Local, podVars, TypeOK
<1>3. Types
  BY <1>1, <1>2, TypesStay DEF Reserve, Local, podVars
<1>4. CASE Abort(p) /\ UNCHANGED state
  <2>1. Touches(o) /\ Calm(p)
    BY <1>1, <1>2, <1>3, <1>4, AsideTouches DEF Calm
  <2> QED
    BY <1>1, <1>2, <1>4, <2>1, AbortKeeps
<1>5. CASE /\ state[at[p]] = "NONE" /\ Fits(at[p])
           /\ state' = [state EXCEPT ![at[p]] = "INTENT"] /\ Goto(p, "post")
  <2>1. CapacityInv'
    BY <1>1, <1>5, CapacityFits DEF IInv, TypeOK
  <2>2. /\ state' \in [Owners -> {"NONE", "INTENT", "BOUND", "RELEASED"}]
        /\ state'[at[p]] = "INTENT" /\ \A d \in Owners \ {at[p]} : state'[d] = state[d]
    BY <1>1, <1>5 DEF TypeOK
  <2>3. OwnerSafe(o)' /\ (o \notin lost => OwnerHeld(o)')
    <3>2. status[at[p]] \notin Untaken /\ pod[at[p]] = "none" /\ outcome[at[p]] = "none"
      BY <1>1, <1>5 DEF ProcSafe, OwnerSafe
    <3> QED
      BY <1>1, <1>2, <1>3, <2>2, <3>2 DEF OwnerSafe, OwnerHeld, Types, Billed
  <2>4. Touches(o) /\ Calm(p)
    BY <1>1, <1>2, <1>3, <1>5, <2>1, <2>2, <2>3 DEF Touches, Types, TypeOK, Calm
  <2>5. "post" \in Steps \ {"idle"} /\ mode[p] \in Modes /\ result[p] \in Results
    BY <1>1 DEF TypeOK, Steps
  <2>6. Goto(p, "post")
    BY <1>5
  <2>7. Moves(p, "post", mode[p], result[p])
    BY <1>1, <2>5, <2>6, GotoMoves
  <2>8. /\ pc'[p] = "post" /\ mode'[p] = mode[p] /\ result'[p] = result[p]
        /\ at' = at /\ claim' = claim
    BY <2>7 DEF Moves
  <2>9. ProcSafe(p)'
    BY <1>1, <1>2, <1>5, <2>2, <2>8 DEF ProcSafe, Bookkeeping, Posting, OwnerSafe
  <2>10. at[p] \notin lost => ProcHeld(p)'
    BY <1>1, <1>2, <2>8 DEF ProcHeld
  <2> QED
    BY <1>1, <1>5, <2>4, <2>5, <2>7, <2>9, <2>10, Advance
<1> QED
  BY <1>4, <1>5 DEF Reserve

\* The one POST: accepted, uncertain or refused.
LEMMA PostKeeps ==
  ASSUME IInv, NEW p \in Procs, NEW o \in Owners, o = at[p], Post(p)
  PROVE  IInv'
<1>1. /\ pc[p] = "post" /\ mode[p] \notin {"sweep", "rejected"} /\ TypeOK
      /\ at[p] # None /\ ProcSafe(p) /\ (o \notin lost => ProcHeld(p) /\ OwnerHeld(o))
      /\ (at[p] \in Runs <=> at[p] \notin Plays)
  BY Working DEF Post, At, ProcSafe, Bookkeeping
<1>2. Posting(p) /\ state[o] = "INTENT" /\ pod[o] = "none" /\ status[o] \notin Untaken /\ Calm(p)
  BY <1>1 DEF ProcSafe, Posting, Calm
<1>3. UNCHANGED <<status, state, outcome>> /\ faults' \in Nat
  BY <1>1, FaultTypes DEF Post, Rowless, resVars, TypeOK
<1>4. Types
  BY <1>1, <1>3, TypesStay DEF Post, Rowless, resVars
<1>5. o \in Plays /\ status[o] \in PlayFinal => o \in lost
  BY <1>1 DEF ProcHeld, Over
<1>6. ASSUME NEW v \in {"up", "coming"}, pod' = [pod EXCEPT ![o] = v]
      PROVE  Touches(o)
  BY <1>2, <1>3, <1>4, <1>5, <1>6, PodTouches DEF Billed, Reserved
<1>7. CASE UNCHANGED pod /\ (Abort(p) \/ Turn(p, "pending", "rejected", "FAILED"))
  <2>1. Touches(o)
    BY <1>3, <1>4, <1>7, AsideTouches
  <2>2. CASE Abort(p)
    BY <1>1, <1>2, <1>3, <2>1, <2>2, AbortKeeps
  <2>3. CASE Turn(p, "pending", "rejected", "FAILED")
    <3>1. /\ "pending" \in Steps \ {"idle"} /\ "rejected" \in Modes /\ "FAILED" \in Results
          /\ "FAILED" \in Verdicts
      BY DEF Steps, Modes, Results, Verdicts
    <3>2. Moves(p, "pending", "rejected", "FAILED")
      BY <1>1, <2>3, <3>1, TurnMoves
    <3>3. /\ pc'[p] = "pending" /\ mode'[p] = "rejected" /\ result'[p] = "FAILED"
          /\ at' = at /\ claim' = claim
      BY <3>2 DEF Moves
    <3>4. ProcSafe(p)'
      BY <1>1, <1>2, <1>3, <1>7, <3>1, <3>3 DEF ProcSafe, Bookkeeping, Posting
    <3>5. at[p] \notin lost => ProcHeld(p)'
      BY <1>1, <1>3, <3>3 DEF ProcHeld
    <3> QED
      BY <1>1, <1>2, <2>1, <3>1, <3>2, <3>4, <3>5, Advance
  <2> QED
    BY <1>7, <2>2, <2>3
<1>8. CASE pod' = [pod EXCEPT ![o] = "up"] /\ Goto(p, "bind")
  <2>1. Touches(o)
    BY <1>6, <1>8
  <2>2. "bind" \in Steps \ {"idle"} /\ mode[p] \in Modes /\ result[p] \in Results
    BY <1>1 DEF Steps, TypeOK
  <2>3. Goto(p, "bind")
    BY <1>8
  <2>4. Moves(p, "bind", mode[p], result[p])
    BY <1>1, <2>2, <2>3, GotoMoves
  <2>5. /\ pc'[p] = "bind" /\ mode'[p] = mode[p] /\ result'[p] = result[p]
        /\ at' = at /\ claim' = claim
    BY <2>4 DEF Moves
  <2>6. pod'[o] = "up"
    BY <1>1, <1>8 DEF TypeOK
  <2>7. ProcSafe(p)'
    BY <1>1, <1>2, <1>3, <2>5, <2>6 DEF ProcSafe, Bookkeeping, Posting
  <2>8. at[p] \notin lost => ProcHeld(p)'
    BY <1>1, <1>3, <2>5 DEF ProcHeld
  <2> QED
    BY <1>1, <1>2, <2>1, <2>2, <2>4, <2>7, <2>8, Advance
<1>9. CASE Abort(p) /\ \E there \in {"coming", "up"} : pod' = [pod EXCEPT ![o] = there]
  <2>1. Touches(o)
    BY <1>6, <1>9
  <2> QED
    BY <1>1, <1>2, <1>3, <1>9, <2>1, AbortKeeps
<1> QED
  BY <1>7, <1>8, <1>9 DEF Post

LEMMA BindPodKeeps ==
  ASSUME IInv, NEW p \in Procs, NEW o \in Owners, o = at[p], BindPod(p)
  PROVE  IInv'
<1>1. /\ pc[p] = "bind" /\ mode[p] \notin {"sweep", "rejected"} /\ TypeOK
      /\ pod[o] # "none" /\ OwnerSafe(o)
  BY Working DEF BindPod, At, ProcSafe, Bookkeeping
<1>2. state[o] # "NONE" /\ Calm(p)
  BY <1>1 DEF OwnerSafe, Calm
<1>3. UNCHANGED <<status, outcome, pod>> /\ faults' \in Nat
  BY <1>1, FaultTypes DEF BindPod, Local, podVars, TypeOK
<1>4. Types
  BY <1>1, <1>3 DEF BindPod, Bind, Local, podVars, fileVars, Types, TypeOK
<1>5. CASE state[o] # "RELEASED" /\ Bind(o)
  <2>1. state[o] \in Reserved
    BY <1>1, <1>2, <1>5 DEF TypeOK, Reserved
  <2>2. Touches(o)
    BY <1>2, <1>3, <1>4, <1>5, <2>1, StateTouches DEF Bind, Reserved
  <2>3. CASE Goto(p, "wait")
    BY <1>1, <1>2, <1>3, <2>2, <2>3, GotoKeeps
  <2>4. CASE Abort(p)
    BY <1>1, <1>2, <1>3, <2>2, <2>4, AbortKeeps
  <2> QED
    BY <1>5, <2>3, <2>4 DEF BindPod
<1>6. CASE Abort(p) /\ UNCHANGED state
  <2>1. Touches(o)
    BY <1>3, <1>4, <1>6, AsideTouches
  <2> QED
    BY <1>1, <1>2, <1>3, <1>6, <2>1, AbortKeeps
<1> QED
  BY <1>5, <1>6 DEF BindPod

\* One look at the Pod, for a run or a playground.
LEMMA AwaitKeeps ==
  ASSUME IInv, NEW p \in Procs, NEW o \in Owners, o = at[p], AwaitTraining(p) \/ AwaitServing(p)
  PROVE  IInv'
<1>1. pc[p] = "wait" /\ mode[p] \notin {"sweep", "rejected"} /\ TypeOK
  BY Working DEF AwaitTraining, AwaitServing, At, ProcSafe, Bookkeeping
<1>2. UNCHANGED <<status, state, outcome, pod>> /\ faults' \in Nat
  BY <1>1, FaultTypes DEF AwaitTraining, AwaitServing, Reach, Local, podVars, resVars, TypeOK
<1>3. Types
  BY <1>1, <1>2, TypesStay DEF AwaitTraining, AwaitServing, Local, podVars, resVars
<1>4. Touches(o) /\ Calm(p)
  BY <1>2, <1>3, AsideTouches DEF Calm
<1>5. CASE Abort(p)
  BY <1>1, <1>2, <1>4, <1>5, AbortKeeps
<1>6. CASE Goto(p, "touch")
  BY <1>1, <1>2, <1>4, <1>6, GotoKeeps
<1>7. CASE at[p] \in Runs /\ Finish(p, "submit", "CANCELED")
  <2>1. "submit" \in Modes \ {"sweep", "rejected"} /\ "CANCELED" \in Verdicts
    BY DEF Modes, Verdicts
  <2> QED
    BY <1>1, <1>2, <1>4, <1>7, <2>1, FinishKeeps
<1> QED
  BY <1>5, <1>6, <1>7 DEF AwaitTraining, AwaitServing, Reach

LEMMA TouchKeeps ==
  ASSUME IInv, NEW p \in Procs, NEW o \in Owners, o = at[p], TouchTraining(p) \/ TouchServing(p)
  PROVE  IInv'
<1>1. pc[p] = "touch" /\ mode[p] \notin {"sweep", "rejected"} /\ TypeOK
  BY Working DEF TouchTraining, TouchServing, At, ProcSafe, Bookkeeping
<1>2. UNCHANGED <<status, state, outcome, pod>> /\ faults' \in Nat
  BY <1>1, FaultTypes DEF TouchTraining, TouchServing, Touch, Local, podVars, resVars, TypeOK
<1>3. Types
  BY <1>1, <1>2 DEF TouchTraining, TouchServing, Touch, Local, podVars, resVars, Types, TypeOK
<1>4. Touches(o) /\ Calm(p)
  BY <1>2, <1>3, AsideTouches DEF Calm
<1>5. CASE Abort(p)
  BY <1>1, <1>2, <1>4, <1>5, AbortKeeps
<1>6. CASE Goto(p, "launch")
  BY <1>1, <1>2, <1>4, <1>6, GotoKeeps
<1> QED
  BY <1>5, <1>6 DEF TouchTraining, TouchServing, Touch

LEMMA LaunchKeeps ==
  ASSUME IInv, NEW p \in Procs, NEW o \in Owners, o = at[p], Launch(p)
  PROVE  IInv'
<1>1. pc[p] = "launch" /\ mode[p] \notin {"sweep", "rejected"} /\ TypeOK
  BY Working DEF Launch, At, ProcSafe, Bookkeeping
<1>2. UNCHANGED <<status, state, outcome, pod>> /\ faults' \in Nat
  BY <1>1, FaultTypes DEF Launch, Rowless, resVars, TypeOK
<1>3. Types
  BY <1>1, <1>2 DEF Launch, Starts, Rowless, fileVars, resVars, Types, TypeOK
<1>4. Touches(o) /\ Calm(p)
  BY <1>2, <1>3, AsideTouches DEF Calm
<1>5. CASE Abort(p)
  BY <1>1, <1>2, <1>4, <1>5, AbortKeeps
<1>6. CASE Goto(p, "launched")
  BY <1>1, <1>2, <1>4, <1>6, GotoKeeps
<1> QED
  BY <1>5, <1>6 DEF Launch

LEMMA LaunchedKeeps ==
  ASSUME IInv, NEW p \in Procs, NEW o \in Owners, o = at[p], Launched(p)
  PROVE  IInv'
<1>1. /\ pc[p] = "launched" /\ mode[p] \notin {"sweep", "rejected"} /\ TypeOK
      /\ (at[p] \in Runs <=> at[p] \notin Plays) /\ OwnerSafe(o) /\ (o \notin lost => OwnerHeld(o))
      /\ status[o] \notin Untaken
  BY Working DEF Launched, At, ProcSafe, Bookkeeping
<1>2. UNCHANGED <<state, outcome, pod>> /\ Calm(p)
  BY DEF Launched, resVars, podVars, Calm
<1>3. Types
  BY <1>1, TypesStay DEF Launched, resVars, podVars, TypeOK
<1>4. CASE o \in Runs
  <2> DEFINE s == IF status[o] = "PREPARING" THEN "SUBMITTED" ELSE status[o]
  <2>1. Row(o, s) /\ Leave(p)
    BY <1>4 DEF Launched
  <2>2. s \in Status \ Untaken
    BY <1>1 DEF TypeOK, Status, RunLive, Untaken
  <2>3. s \in RunFinal \/ s = "SUCCEEDED" => s = status[o]
    BY DEF RunFinal
  <2> HIDE DEF s
  <2>4. Touches(o)
    BY <1>1, <1>2, <1>3, <1>4, <2>1, <2>2, <2>3, RowTouches DEF OwnerSafe, OwnerHeld
  <2> QED
    BY <1>1, <1>2, <2>1, <2>4, Away
<1>5. CASE o \in Plays
  <2>1. UNCHANGED status
    BY <1>1, <1>5 DEF Launched
  <2>2. Touches(o)
    BY <1>2, <1>3, <2>1, AsideTouches
  <2>3. /\ "write" \in Steps \ {"idle", "post", "bind", "release"} /\ "STARTING" \in Results
        /\ mode[p] \in Modes \ {"sweep", "rejected"} /\ "STARTING" \notin PlayFinal
    BY <1>1 DEF TypeOK, Steps, Results, PlayFinal
  <2>4. Turn(p, "write", mode[p], "STARTING")
    BY <1>1, <1>5 DEF Launched
  <2>5. Moves(p, "write", mode[p], "STARTING")
    BY <1>1, <2>3, <2>4, TurnMoves
  <2>6. Apt(p, "write", mode[p], "STARTING")
    BY <1>1, <1>5, <2>3 DEF Apt
  <2> QED
    BY <1>1, <1>2, <2>1, <2>2, <2>3, <2>5, <2>6, MovesKeeps
<1> QED
  BY <1>1, <1>4, <1>5

-----------------------------------------------------------------------------
(* The steps of a process: termination.                                    *)

LEMMA PendingKeeps ==
  ASSUME IInv, NEW p \in Procs, NEW o \in Owners, o = at[p], Pending(p)
  PROVE  IInv'
<1> DEFINE open == state[o] \in {"INTENT", "BOUND"}
           v    == IF open /\ outcome[o] = "none"
                   THEN IF o \in Plays THEN "CANCELED" ELSE result[p] ELSE outcome[o]
<1>1. /\ pc[p] = "pending" /\ TypeOK /\ ProcSafe(p) /\ OwnerSafe(o)
      /\ (o \notin lost => ProcHeld(p) /\ OwnerHeld(o))
      /\ (o \in Runs <=> o \notin Plays)
  BY Working DEF Pending, At
<1>2. UNCHANGED <<status, state, pod>> /\ Calm(p)
  BY DEF Pending, Local, podVars, Calm
<1>3. Types
  BY <1>1 DEF Pending, Local, podVars, fileVars, Types, TypeOK
<1>4. v \in Verdicts \cup {"none"}
  <2>1. outcome[o] \in Verdicts \cup {"none"} /\ "CANCELED" \in Verdicts
    BY <1>1 DEF TypeOK, Verdicts
  <2>2. o \in Runs => result[p] \in Verdicts
    BY <1>1 DEF ProcSafe, Bookkeeping
  <2> QED
    BY <1>1, <2>1, <2>2
<1>5. /\ outcome' \in [Owners -> Verdicts \cup {"none"}] /\ outcome'[o] = v
      /\ \A d \in Owners \ {o} : outcome'[d] = outcome[d]
  <2>1. outcome' = [outcome EXCEPT ![o] = v]
    BY DEF Pending
  <2> QED
    BY <1>1, <1>4, <2>1 DEF TypeOK
<1>6. /\ state[o] = "NONE" => v = outcome[o]
      /\ outcome[o] # "none" => v = outcome[o]
      /\ o \in Runs /\ v = "SUCCEEDED" => outcome[o] = "SUCCEEDED" \/ mode[p] # "sweep"
  BY <1>1 DEF ProcSafe, Bookkeeping
<1> HIDE DEF v, open
<1>7. Touches(o)
  <2>1. CapacityInv'
    BY <1>2, CapacityKeeps DEF IInv
  <2>2. OwnerSafe(o)'
    BY <1>1, <1>2, <1>3, <1>5, <1>6 DEF OwnerSafe, Types
  <2>3. o \notin lost => OwnerHeld(o)'
    BY <1>1, <1>2, <1>5, <1>6 DEF OwnerHeld, ProcHeld, Over
  <2> QED
    BY <1>1, <1>2, <1>3, <1>5, <2>1, <2>2, <2>3 DEF TypeOK, Types, Touches
<1>8. CASE mode[p] = "rejected"
  <2>1. Goto(p, "release")
    BY <1>8 DEF Pending
  <2> QED
    BY <1>1, <1>2, <1>7, <1>8, <2>1, ReleaseNext
<1>9. CASE mode[p] # "rejected"
  <2>1. Goto(p, "cleanup")
    BY <1>9 DEF Pending
  <2> QED
    BY <1>1, <1>2, <1>7, <1>9, <2>1, GotoKeeps
<1> QED
  BY <1>8, <1>9

LEMMA TerminateKeeps ==
  ASSUME IInv, NEW p \in Procs, NEW o \in Owners, o = at[p], Terminate(p)
  PROVE  IInv'
<1>1. /\ pc[p] = "cleanup" /\ mode[p] # "rejected" /\ TypeOK /\ ProcSafe(p) /\ OwnerSafe(o)
      /\ (o \notin lost => OwnerHeld(o))
  BY Working DEF Terminate, At, ProcSafe, Bookkeeping
<1>2. UNCHANGED <<status, outcome>> /\ faults' \in Nat
  BY <1>1, FaultTypes DEF Terminate, Rowless, TypeOK
<1>3. Types
  BY <1>1, <1>2 DEF Terminate, Bind, Rowless, fileVars, Types, TypeOK
<1>4. CASE UNCHANGED <<state, pod>>
  <2>1. Touches(o) /\ Calm(p)
    BY <1>2, <1>3, <1>4, AsideTouches DEF Calm
  <2>2. CASE state[o] \in {"NONE", "RELEASED"} /\ Proceed(p)
    <3>1. pod[o] \notin Billed
      BY <1>1, <2>2 DEF OwnerSafe, Reserved
    <3> QED
      BY <1>1, <1>2, <1>4, <2>1, <2>2, <3>1, ProceedKeeps
  <2>3. CASE CleanupFails(p)
    BY <1>1, <1>2, <1>4, <2>1, <2>3, CleanupFailsKeeps
  <2>4. CASE pod[o] = "gone" /\ Goto(p, "release")
    BY <1>1, <1>2, <1>4, <2>1, <2>4, ReleaseNext
  <2>5. CASE Goto(p, "confirm")
    BY <1>1, <1>2, <1>4, <2>1, <2>5, GotoKeeps
  <2>6. CASE state[o] = "INTENT" /\ Bind(o)
    BY <1>1, <1>4, <2>6 DEF Bind, TypeOK
  <2> QED
    BY <1>4, <2>2, <2>3, <2>4, <2>5, <2>6 DEF Terminate
<1>5. CASE state[o] = "INTENT" /\ Listed(o) /\ Bind(o) /\ UNCHANGED <<procVars, claim, pod>>
  <2>1. Touches(o)
    BY <1>2, <1>3, <1>5, StateTouches DEF Bind, Reserved
  <2>2. pod[o] # "none"
    BY <1>5 DEF Listed
  <2>3. \A q \in Procs : pc[q] # "idle" /\ at[q] = o /\ o \notin lost => ProcHeld(q)'
    BY <1>2, <1>5, Working DEF ProcHeld, procVars
  <2> QED
    BY <1>5, <2>1, <2>2, <2>3, Outside
<1>6. ASSUME NEW w \in {"ending", "gone", "coming", "none"}, pod' = [pod EXCEPT ![o] = w],
             UNCHANGED state, state[o] = "BOUND",
             w = "none" => pod[o] = "none", w = "coming" => pod[o] = "coming",
             w = "ending" => pod[o] \in {"up", "ending"}, w = "gone" => pod[o] = "gone",
             pod[o] = "gone" => w = "gone"
      PROVE  Touches(o)
  BY <1>1, <1>2, <1>3, <1>6, PodTouches DEF OwnerHeld, Billed, Reserved
<1>7. CASE /\ state[o] = "BOUND" /\ pod[o] \in {"up", "ending"} /\ UNCHANGED state
           /\ pod' = [pod EXCEPT ![o] = "ending"] /\ Goto(p, "confirm")
  <2>1. Touches(o) /\ Calm(p)
    BY <1>6, <1>7 DEF Calm
  <2> QED
    BY <1>1, <1>2, <1>7, <2>1, GotoKeeps
<1>8. CASE /\ state[o] = "BOUND" /\ UNCHANGED state /\ CleanupFails(p)
           /\ pod' = [pod EXCEPT ![o] = IF @ = "up" THEN "ending" ELSE @]
  <2> DEFINE w == IF pod[o] = "up" THEN "ending" ELSE pod[o]
  <2>1. w \in {"ending", "gone", "coming", "none"} /\ pod' = [pod EXCEPT ![o] = w]
    BY <1>1, <1>8 DEF TypeOK, Billed
  <2>2. Touches(o) /\ Calm(p)
    BY <1>6, <1>8, <2>1 DEF Calm
  <2> QED
    BY <1>1, <1>2, <1>8, <2>2, CleanupFailsKeeps
<1> QED
  BY <1>4, <1>5, <1>7, <1>8 DEF Terminate

LEMMA ConfirmKeeps ==
  ASSUME IInv, NEW p \in Procs, NEW o \in Owners, o = at[p], Confirm(p)
  PROVE  IInv'
<1>1. pc[p] = "confirm" /\ mode[p] # "rejected" /\ TypeOK
  BY Working DEF Confirm, At, ProcSafe, Bookkeeping
<1>2. UNCHANGED <<status, state, outcome, pod>> /\ faults' \in Nat
  BY <1>1, FaultTypes DEF Confirm, Local, podVars, resVars, TypeOK
<1>3. Types
  BY <1>1, <1>2, TypesStay DEF Confirm, Local, podVars, resVars
<1>4. Touches(o) /\ Calm(p)
  BY <1>2, <1>3, AsideTouches DEF Calm
<1>5. CASE pod[o] = "gone" /\ Goto(p, "release")
  BY <1>1, <1>2, <1>4, <1>5, ReleaseNext
<1>6. CASE CleanupFails(p)
  BY <1>1, <1>2, <1>4, <1>6, CleanupFailsKeeps
<1> QED
  BY <1>5, <1>6 DEF Confirm

LEMMA ReleaseKeeps ==
  ASSUME IInv, NEW p \in Procs, NEW o \in Owners, o = at[p], Release(p)
  PROVE  IInv'
<1>1. pc[p] = "release" /\ TypeOK /\ ProcSafe(p) /\ OwnerSafe(o)
  BY Working DEF Release, At
<1>2. UNCHANGED <<status, outcome, pod>> /\ state' = [state EXCEPT ![o] = "RELEASED"]
  BY DEF Release, Local, podVars
<1>3. Types
  BY <1>1 DEF Release, Local, podVars, fileVars, Types, TypeOK
<1>4. pod[o] \notin Billed /\ state[o] # "NONE"
  BY <1>1 DEF ProcSafe, OwnerSafe, Posting, Billed
<1>5. Touches(o)
  BY <1>2, <1>3, <1>4, StateTouches DEF Reserved
<1>6. Calm(p)
  BY <1>1 DEF ProcSafe, Posting, Calm
<1>7. CASE mode[p] = "rejected" /\ Abort(p)
  BY <1>1, <1>2, <1>5, <1>6, <1>7, AbortKeeps
<1>8. CASE mode[p] # "rejected" /\ Proceed(p)
  BY <1>1, <1>2, <1>4, <1>5, <1>6, <1>8, ProceedKeeps
<1> QED
  BY <1>7, <1>8 DEF Release

-----------------------------------------------------------------------------
(* The steps of a process: what a run or a playground has become.          *)

LEMMA IdleKeeps ==
  ASSUME IInv, NEW p \in Procs, pc[p] # "idle", mode[p] # "sweep", at[p] \in Runs,
         NEW o \in Owners, o = at[p], Touches(o), Calm(p),
         status'[at[p]] = status[at[p]], Idle(p)
  PROVE  IInv'
<1>1. CASE mode[p] = "preparing"
  <2>1. "abandon" \in Modes \ {"sweep", "rejected"} /\ "CANCELED" \in Verdicts
    BY DEF Modes, Verdicts
  <2>2. Finish(p, "abandon", "CANCELED")
    BY <1>1 DEF Idle
  <2> QED
    BY <2>1, <2>2, FinishKeeps
<1>2. CASE mode[p] # "preparing"
  <2>1. Leave(p)
    BY <1>2 DEF Idle
  <2> QED
    BY <2>1, Away
<1> QED
  BY <1>1, <1>2

LEMMA ObservedKeeps ==
  ASSUME IInv, NEW p \in Procs, pc[p] # "idle", mode[p] \notin {"sweep", "rejected"},
         at[p] \in Runs, NEW o \in Owners, o = at[p], Touches(o), Calm(p),
         status'[at[p]] = status[at[p]], outcome'[o] = outcome[o],
         NEW r \in Results, outcome[o] = "SUCCEEDED" => r = "SUCCEEDED", Observed(p, r)
  PROVE  IInv'
<1>1. TypeOK
  BY Working
<1>2. "observe" \in Steps \ {"idle", "post", "bind", "release"} /\ mode[p] \in Modes
  BY <1>1 DEF Steps, TypeOK
<1>3. Moves(p, "observe", mode[p], r)
  BY <1>1, <1>2, TurnMoves DEF Observed
<1>4. Apt(p, "observe", mode[p], r)
  BY <1>2 DEF Apt
<1> QED
  BY <1>3, <1>4, MovesKeeps

LEMMA StatusKeeps ==
  ASSUME IInv, NEW p \in Procs, NEW o \in Owners, o = at[p], StatusKnown(p) \/ StatusAsked(p)
  PROVE  IInv'
<1>1. /\ pc[p] = "status" /\ mode[p] \notin {"sweep", "rejected"} /\ TypeOK /\ at[p] \in Runs
      /\ OwnerSafe(o) /\ mode[p] \in Modes
  <2>1. /\ pc[p] = "status" /\ mode[p] \notin {"sweep", "rejected"} /\ TypeOK /\ at[p] \in Runs
        /\ OwnerSafe(o)
    BY Working DEF StatusKnown, StatusAsked, At, ProcSafe, Bookkeeping
  <2> QED
    BY <2>1 DEF TypeOK
<1>2. UNCHANGED <<status, state, outcome, pod>> /\ faults' \in Nat
  BY <1>1, FaultTypes DEF StatusKnown, StatusAsked, Local, podVars, resVars, TypeOK
<1>3. Types
  BY <1>1, <1>2 DEF StatusKnown, StatusAsked, Local, podVars, resVars, fileVars, Types, TypeOK
<1>4. Touches(o) /\ Calm(p)
  BY <1>2, <1>3, AsideTouches DEF Calm
<1>5. /\ {"FAILED", "SUCCEEDED"} \subseteq Verdicts /\ {"MISSING", "RUNNING"} \subseteq Results
      /\ Verdicts \subseteq Results
  BY DEF Verdicts, Results
<1>6. ASSUME NEW v \in {"FAILED", "SUCCEEDED"}, Finish(p, mode[p], v)
      PROVE  IInv'
  BY <1>1, <1>2, <1>4, <1>5, <1>6, FinishKeeps
<1>7. CASE Leave(p)
  BY <1>1, <1>4, <1>7, Away
<1>8. CASE Idle(p)
  BY <1>1, <1>2, <1>4, <1>8, IdleKeeps
<1>9. CASE state[o] = "NONE" /\ Observed(p, "MISSING")
  <2>1. outcome[o] = "none"
    BY <1>1, <1>9 DEF OwnerSafe
  <2> QED
    BY <1>1, <1>2, <1>4, <1>5, <1>9, <2>1, ObservedKeeps
<1>10. CASE outcome[o] # "none" /\ Observed(p, outcome[o])
  <2>1. outcome[o] \in Results
    BY <1>1, <1>5, <1>10 DEF TypeOK
  <2> QED
    BY <1>1, <1>2, <1>4, <1>10, <2>1, ObservedKeeps
<1>11. CASE outcome[o] = "none" /\ Observed(p, "RUNNING")
  BY <1>1, <1>2, <1>4, <1>5, <1>11, ObservedKeeps
<1>12. CASE StatusKnown(p)
  BY <1>6, <1>8, <1>9, <1>10, <1>12 DEF StatusKnown
<1>13. CASE StatusAsked(p)
  <2>1. job[o] \in {"none", "running", "done", "failed"}
    BY <1>1 DEF TypeOK
  <2> QED
    BY <1>6, <1>7, <1>8, <1>11, <1>13, <2>1 DEF StatusAsked
<1> QED
  BY <1>12, <1>13

\* What a look at a run makes of its status.
LEMMA RecordedFacts ==
  ASSUME NEW s \in Status \ Untaken, NEW m, NEW r
  PROVE  /\ Recorded(s, m, r) \in Status \ Untaken
         /\ Recorded(s, m, r) = "SUCCEEDED" => s = "SUCCEEDED"
         /\ r = "SUCCEEDED" /\ Recorded(s, m, r) \in RunFinal => Recorded(s, m, r) = s
  BY DEF Recorded, Status, Untaken, RunFinal, RunLive, Active

LEMMA ObserveKeeps ==
  ASSUME IInv, NEW p \in Procs, NEW o \in Owners, o = at[p], Observe(p)
  PROVE  IInv'
<1> DEFINE t == Recorded(status[o], mode[p], result[p])
<1>1. /\ pc[p] = "observe" /\ mode[p] \notin {"sweep", "rejected"} /\ TypeOK /\ at[p] \in Runs
      /\ at[p] \notin Plays /\ at[p] # None /\ ProcSafe(p) /\ OwnerSafe(o)
      /\ (o \notin lost => ProcHeld(p) /\ OwnerHeld(o))
  BY Working DEF Observe, At, ProcSafe, Bookkeeping
<1>2. UNCHANGED <<state, outcome, pod>> /\ faults' \in Nat /\ Calm(p) /\ Row(o, t)
  BY <1>1 DEF Observe, podVars, resVars, TypeOK, Calm
<1>3. Types
  BY <1>1, <1>2, TypesStay DEF Observe, podVars, resVars
<1>4. status[o] \in Status \ Untaken
  BY <1>1 DEF TypeOK, ProcSafe
<1>5. /\ t \in Status \ Untaken /\ (t = "SUCCEEDED" => status[o] = "SUCCEEDED")
      /\ result[p] = "SUCCEEDED" /\ t \in RunFinal => t = status[o]
  BY <1>4, RecordedFacts
<1> HIDE DEF t
<1>6. o \notin lost /\ t \in RunFinal => outcome[o] # "SUCCEEDED"
  BY <1>1, <1>5 DEF ProcHeld, Over
<1>7. Touches(o)
  BY <1>1, <1>2, <1>3, <1>5, <1>6, RowTouches DEF OwnerSafe
<1>8. CASE Leave(p)
  BY <1>1, <1>2, <1>7, <1>8, Away
<1>9. CASE t = "POSTPROCESSING" /\ Goto(p, "register")
  <2>1. "register" \in Steps \ {"idle"} /\ mode[p] \in Modes /\ result[p] \in Results
    BY <1>1 DEF Steps, TypeOK
  <2>2. Moves(p, "register", mode[p], result[p])
    BY <1>1, <1>9, <2>1, GotoMoves
  <2>3. /\ pc'[p] = "register" /\ mode'[p] = mode[p] /\ result'[p] = result[p]
        /\ at' = at /\ claim' = claim
    BY <2>2 DEF Moves
  <2>4. status'[o] = "POSTPROCESSING"
    BY <1>1, <1>2, <1>9 DEF Row, TypeOK
  <2>5. ProcSafe(p)'
    BY <1>1, <2>3, <2>4 DEF ProcSafe, Bookkeeping, Posting, Untaken
  <2>6. at[p] \notin lost => ProcHeld(p)'
    BY <1>1, <2>3, <2>4 DEF ProcHeld, Over, RunFinal, PlayFinal
  <2> QED
    BY <1>1, <1>2, <1>7, <2>1, <2>2, <2>5, <2>6, Advance
<1> QED
  BY <1>8, <1>9 DEF Observe, t

LEMMA RegisterKeeps ==
  ASSUME IInv, NEW p \in Procs, NEW o \in Owners, o = at[p], Register(p)
  PROVE  IInv'
<1>1. /\ pc[p] = "register" /\ TypeOK /\ at[p] \in Runs /\ at[p] \notin Plays
  BY Working DEF Register, At, ProcSafe, Bookkeeping
<1>2. UNCHANGED <<state, outcome, pod>> /\ faults' \in Nat /\ Calm(p) /\ Leave(p)
  BY <1>1, FaultTypes DEF Register, podVars, resVars, TypeOK, Calm
<1>3. Types
  BY <1>1, <1>2, TypesStay DEF Register, podVars, resVars
<1>4. Touches(o)
  <2>1. CASE UNCHANGED status
    BY <1>2, <1>3, <2>1, AsideTouches
  <2>2. CASE Row(o, "SUCCEEDED") /\ outcome[o] = "SUCCEEDED" /\ o \in collected
    <3>1. "SUCCEEDED" \in Status \ Untaken
      BY DEF Status, RunFinal, Untaken
    <3> QED
      BY <1>1, <1>2, <1>3, <2>2, <3>1, RowTouches
  <2> QED
    BY <2>1, <2>2 DEF Register
<1> QED
  BY <1>1, <1>2, <1>4, Away

\* What process() makes of what a playground shows.
LEMMA JudgeKeeps ==
  ASSUME IInv, NEW p \in Procs, pc[p] # "idle", mode[p] \notin {"sweep", "rejected"},
         at[p] \in Plays, NEW o \in Owners, o = at[p], Touches(o), Calm(p),
         UNCHANGED <<status, pod>>,
         NEW s \in {"FAILED", "LOST", "STARTING", "RUNNING"}, Judge(p, s)
  PROVE  IInv'
<1>1. TypeOK
  BY Working
<1>2. /\ mode[p] \in Modes \ {"sweep", "rejected"} /\ "FAILED" \in Results /\ s \in Results
      /\ "write" \in Steps \ {"idle", "post", "bind", "release"}
  BY <1>1 DEF TypeOK, Results, Verdicts, Steps
<1>3. ASSUME NEW f \in Results, StopPlay(p, mode[p], f)
      PROVE  IInv'
  BY <1>2, <1>3, StopPlayKeeps
<1>4. CASE s \in {"STARTING", "RUNNING"} /\ Writes(p, s)
  <2>1. s \notin PlayFinal
    BY <1>4 DEF PlayFinal
  <2>2. Moves(p, "write", mode[p], s)
    BY <1>1, <1>2, <1>4, TurnMoves DEF Writes
  <2>3. Apt(p, "write", mode[p], s)
    BY <1>2 DEF Apt
  <2> QED
    BY <2>1, <2>2, <2>3, MovesKeeps
<1> QED
  BY <1>2, <1>3, <1>4 DEF Judge

LEMMA LookKeeps ==
  ASSUME IInv, NEW p \in Procs, NEW o \in Owners, o = at[p], Look(p)
  PROVE  IInv'
<1>1. pc[p] = "look" /\ mode[p] \notin {"sweep", "rejected"} /\ TypeOK /\ at[p] \in Plays
  BY Working DEF Look, At, ProcSafe, Bookkeeping
<1>2. UNCHANGED <<status, state, outcome, pod>> /\ faults' \in Nat
  BY <1>1, FaultTypes DEF Look, Local, podVars, resVars, TypeOK
<1>3. Types
  BY <1>1, <1>2, TypesStay DEF Look, Local, podVars, resVars
<1>4. Touches(o) /\ Calm(p)
  BY <1>2, <1>3, AsideTouches DEF Calm
<1>5. ASSUME NEW s \in {"FAILED", "LOST", "STARTING", "RUNNING"}, Judge(p, s)
      PROVE  IInv'
  BY <1>1, <1>2, <1>4, <1>5, JudgeKeeps
<1>6. CASE Leave(p)
  BY <1>1, <1>4, <1>6, Away
<1>7. CASE StopPlay(p, mode[p], "FAILED")
  <2>1. mode[p] \in Modes \ {"sweep", "rejected"} /\ "FAILED" \in Results
    BY <1>1 DEF TypeOK, Results, Verdicts
  <2> QED
    BY <1>1, <1>2, <1>4, <1>7, <2>1, StopPlayKeeps
<1> QED
  BY <1>5, <1>6, <1>7 DEF Look

LEMMA RemoveFilesKeeps ==
  ASSUME IInv, NEW p \in Procs, NEW o \in Owners, o = at[p], RemoveFiles(p)
  PROVE  IInv'
<1>1. /\ pc[p] = "rmtree" /\ mode[p] # "rejected" /\ TypeOK /\ at[p] \in Plays
      /\ (at[p] \notin lost => ProcHeld(p))
  BY Working DEF RemoveFiles, At, ProcSafe, Bookkeeping
<1>2. UNCHANGED <<status, state, outcome, pod>>
  BY DEF RemoveFiles, Local, podVars, resVars
<1>3. Types
  BY <1>1 DEF RemoveFiles, Local, podVars, resVars, fileVars, Types, TypeOK
<1>4. Touches(o) /\ Calm(p)
  BY <1>2, <1>3, AsideTouches DEF Calm
<1>5. CASE mode[p] = "sweep" /\ Leave(p)
  BY <1>1, <1>4, <1>5, Away
<1>6. CASE mode[p] # "sweep" /\ Goto(p, "write")
  <2>1. /\ "write" \in Steps \ {"idle", "post", "bind", "release"}
        /\ mode[p] \in Modes /\ result[p] \in Results
    BY <1>1 DEF Steps, TypeOK
  <2>2. Moves(p, "write", mode[p], result[p])
    BY <1>1, <1>6, <2>1, GotoMoves
  <2>3. Apt(p, "write", mode[p], result[p])
    BY <1>1, <1>6, <2>1 DEF Apt
  <2>4. at[p] \notin lost => pod'[at[p]] \notin Billed
    BY <1>1, <1>2 DEF ProcHeld
  <2> QED
    BY <1>1, <1>2, <1>4, <2>2, <2>3, <2>4, MovesKeeps
<1> QED
  BY <1>5, <1>6 DEF RemoveFiles

LEMMA WriteKeeps ==
  ASSUME IInv, NEW p \in Procs, NEW o \in Owners, o = at[p], Write(p)
  PROVE  IInv'
<1> DEFINE s == IF Accepts(status[o], result[p]) THEN result[p] ELSE status[o]
<1>1. /\ pc[p] = "write" /\ TypeOK /\ at[p] \in Plays /\ at[p] \notin Runs /\ ProcSafe(p)
      /\ (at[p] \notin lost => ProcHeld(p) /\ OwnerHeld(o))
  BY Working DEF Write, At, ProcSafe, Bookkeeping
<1>2. UNCHANGED <<state, outcome, pod>> /\ faults' \in Nat /\ Calm(p) /\ Leave(p) /\ Row(o, s)
  BY <1>1 DEF Write, podVars, resVars, TypeOK, Calm
<1>3. Types
  BY <1>1, <1>2, TypesStay DEF Write, podVars, resVars
<1>4. s \in Status \ Untaken
  <2>1. status[o] \in Status \ Untaken
    BY <1>1 DEF TypeOK, ProcSafe
  <2> QED
    BY <2>1 DEF Accepts, Status, PlayFinal, PlayLive, Untaken
<1>5. s \in PlayFinal /\ o \notin lost => pod[o] \notin Billed
  BY <1>1 DEF ProcHeld, OwnerHeld
<1> HIDE DEF s
<1>6. Touches(o)
  BY <1>1, <1>2, <1>3, <1>4, <1>5, RowTouches
<1> QED
  BY <1>1, <1>2, <1>6, Away

-----------------------------------------------------------------------------
(* Taking an owner.                                                        *)

\* What makes the first step of a process right.
LEMMA EnterKeeps ==
  ASSUME IInv, NEW p \in Procs, NEW o \in Owners, Touches(o), UNCHANGED <<state, pod, outcome>>,
         NEW step \in {"mkdir", "status", "observe", "pending", "register", "rmtree", "look", "cleanup"},
         NEW m \in {"none", "submit", "preparing", "canceling", "watching", "serving", "sweep"},
         NEW r \in Results, Enter(p, o, step, m, r), status'[o] \notin Untaken,
         step \in {"status", "observe", "register"} => o \in Runs,
         step \in {"look", "rmtree"} => o \in Plays,
         step = "pending" /\ o \in Runs => r \in Verdicts,
         m = "sweep" => step \in {"pending", "cleanup"} /\ r \in {"FAILED", "CANCELED"},
         m # "sweep" => status'[o] \notin Over,
         step = "observe" /\ outcome[o] = "SUCCEEDED" => r = "SUCCEEDED",
         step = "rmtree" => pod[o] \notin Billed
  PROVE  IInv'
<1>1. /\ pc[p] = "idle" /\ claim[o] = NoProc
      /\ pc'[p] = step /\ at'[p] = o /\ mode'[p] = m /\ result'[p] = r /\ claim'[o] = p
  BY DEF IInv, TypeOK, Enter
<1>2. /\ step \in Steps \ {"idle", "post"} /\ m \in Modes \ {"rejected"} /\ o # None
  BY NullsAssumption DEF Steps, Modes
<1>3. Bookkeeping(p)'
  BY <1>1, <1>2 DEF Bookkeeping
<1>4. ProcSafe(p)'
  BY <1>1, <1>3 DEF ProcSafe, Posting
<1>5. o \notin lost => ProcHeld(p)'
  BY <1>1 DEF ProcHeld
<1> QED
  BY <1>2, <1>4, <1>5, Entered

LEMMA TakeRunKeeps ==
  ASSUME IInv, NEW p \in Procs, NEW o \in Owners, TakeRun(p, o)
  PROVE  IInv'
<1>1. /\ TypeOK /\ OwnerSafe(o) /\ (o \notin lost => OwnerHeld(o)) /\ o \in Runs /\ o \notin Plays
  BY RolesAssumption DEF IInv, TakeRun
<1>2. UNCHANGED <<state, outcome, pod>> /\ faults' \in Nat
  BY <1>1 DEF TakeRun, podVars, resVars, TypeOK
<1>3. Types
  BY <1>1, <1>2, TypesStay DEF TakeRun, podVars, resVars
<1>4. /\ "CANCELED" \in Verdicts /\ Verdicts \subseteq Results /\ {"none", "MISSING"} \subseteq Results
  BY DEF Verdicts, Results
<1>5. /\ "PREPARING" \in Status \ (Untaken \cup RunFinal)
      /\ {"PREPARING", "CANCEL_REQUESTED", "SUBMITTED", "RUNNING", "POSTPROCESSING"}
           \cap (Untaken \cup Over) = {}
  BY DEF Status, RunLive, Untaken, RunFinal, Over, PlayFinal
<1>6. CASE Row(o, "PREPARING") /\ Enter(p, o, "mkdir", "submit", "none")
  <2>1. Touches(o)
    BY <1>1, <1>2, <1>3, <1>5, <1>6, RowTouches DEF RunFinal
  <2>2. status'[o] = "PREPARING"
    BY <1>1, <1>6 DEF TypeOK, Row
  <2> QED
    BY <1>1, <1>2, <1>4, <1>5, <1>6, <2>1, <2>2, EnterKeeps
<1>7. ASSUME UNCHANGED status, status[o] \notin Untaken \cup Over
      PROVE  Touches(o) /\ status'[o] \notin Untaken \cup Over
  BY <1>2, <1>3, <1>7, AsideTouches
<1>8. CASE status[o] = "PREPARING" /\ Enter(p, o, "status", "preparing", "none") /\ UNCHANGED status
  BY <1>1, <1>2, <1>4, <1>5, <1>7, <1>8, EnterKeeps
<1>9. CASE /\ status[o] = "CANCEL_REQUESTED" /\ UNCHANGED status
           /\ CASE state[o] = "NONE"     -> Enter(p, o, "observe", "canceling", "MISSING")
                [] outcome[o] # "none"   -> Enter(p, o, "observe", "canceling", outcome[o])
                [] OTHER                 -> Enter(p, o, "pending", "canceling", "CANCELED")
  <2>1. Touches(o) /\ status'[o] \notin Untaken \cup Over
    BY <1>5, <1>7, <1>9
  <2>2. state[o] = "NONE" => outcome[o] = "none"
    BY <1>1 DEF OwnerSafe
  <2>3. CASE state[o] = "NONE"
    <3>1. Enter(p, o, "observe", "canceling", "MISSING")
      BY <1>9, <2>2, <2>3
    <3> QED
      BY <1>1, <1>2, <1>4, <2>1, <2>2, <2>3, <3>1, EnterKeeps
  <2>4. CASE state[o] # "NONE" /\ outcome[o] # "none"
    <3>1. Enter(p, o, "observe", "canceling", outcome[o])
      BY <1>9, <2>4
    <3>2. outcome[o] \in Results
      BY <1>1, <1>4, <2>4 DEF TypeOK
    <3> QED
      BY <1>1, <1>2, <2>1, <3>1, <3>2, EnterKeeps
  <2>5. CASE state[o] # "NONE" /\ outcome[o] = "none"
    <3>1. Enter(p, o, "pending", "canceling", "CANCELED")
      BY <1>9, <2>5
    <3> QED
      BY <1>1, <1>2, <1>4, <2>1, <3>1, EnterKeeps
  <2> QED
    BY <2>3, <2>4, <2>5
<1>10. CASE /\ status[o] \in {"SUBMITTED", "RUNNING"} /\ UNCHANGED status
            /\ Enter(p, o, "status", "watching", "none")
  BY <1>1, <1>2, <1>4, <1>5, <1>7, <1>10, EnterKeeps
<1>11. CASE /\ status[o] = "POSTPROCESSING" /\ UNCHANGED status
            /\ Enter(p, o, "register", "watching", "none")
  BY <1>1, <1>2, <1>4, <1>5, <1>7, <1>11, EnterKeeps
<1> QED
  BY <1>6, <1>8, <1>9, <1>10, <1>11 DEF TakeRun

LEMMA TakeLivePlayKeeps ==
  ASSUME IInv, NEW p \in Procs, NEW o \in Owners, TakeLivePlay(p, o)
  PROVE  IInv'
<1>1. /\ TypeOK /\ OwnerSafe(o) /\ (o \notin lost => OwnerHeld(o)) /\ o \in Plays /\ o \notin Runs
  BY RolesAssumption DEF IInv, TakeLivePlay
<1>2. UNCHANGED <<state, outcome, pod>> /\ faults' \in Nat
  BY <1>1 DEF TakeLivePlay, podVars, resVars, TypeOK
<1>3. Types
  BY <1>1, <1>2, TypesStay DEF TakeLivePlay, podVars, resVars
<1>4. {"none", "STOPPED"} \subseteq Results
  BY DEF Results
<1>5. /\ {"PREPARING", "STOP_REQUESTED"} \subseteq Status \ (Untaken \cup PlayFinal)
      /\ {"PREPARING", "STARTING", "RUNNING", "STOP_REQUESTED"} \cap (Untaken \cup Over) = {}
  BY DEF Status, PlayLive, Untaken, RunFinal, Over, PlayFinal
<1>6. ASSUME NEW s \in {"PREPARING", "STOP_REQUESTED"}, Row(o, s)
      PROVE  Touches(o) /\ status'[o] \notin Untaken \cup Over
  <2>1. Touches(o)
    BY <1>1, <1>2, <1>3, <1>5, <1>6, RowTouches
  <2>2. status'[o] = s
    BY <1>1, <1>6 DEF TypeOK, Row
  <2> QED
    BY <1>5, <2>1, <2>2
<1>7. CASE /\ Row(o, "STOP_REQUESTED")
           /\ Enter(p, o, IF state[o] = "NONE" THEN "rmtree" ELSE "pending", "none", "STOPPED")
  <2>1. Touches(o) /\ status'[o] \notin Untaken \cup Over
    BY <1>6, <1>7
  <2>2. CASE state[o] = "NONE"
    <3>1. pod[o] \notin Billed
      BY <1>1, <2>2 DEF OwnerSafe, Billed
    <3>2. Enter(p, o, "rmtree", "none", "STOPPED")
      BY <1>7, <2>2
    <3> QED
      BY <1>1, <1>2, <1>4, <2>1, <3>1, <3>2, EnterKeeps
  <2>3. CASE state[o] # "NONE"
    <3>1. Enter(p, o, "pending", "none", "STOPPED")
      BY <1>7, <2>3
    <3> QED
      BY <1>1, <1>2, <1>4, <2>1, <3>1, EnterKeeps
  <2> QED
    BY <2>2, <2>3
<1>8. CASE Row(o, "PREPARING") /\ Enter(p, o, "mkdir", "submit", "none")
  <2>1. Touches(o) /\ status'[o] \notin Untaken \cup Over
    BY <1>6, <1>8
  <2> QED
    BY <1>1, <1>2, <1>4, <1>8, <2>1, EnterKeeps
<1>9. CASE /\ status[o] \in {"PREPARING", "STARTING", "RUNNING"} /\ UNCHANGED status
           /\ \E m \in {"preparing", "serving", "watching"} : Enter(p, o, "look", m, "none")
  <2>1. Touches(o) /\ status'[o] \notin Untaken \cup Over
    BY <1>2, <1>3, <1>5, <1>9, AsideTouches
  <2>2. PICK m \in {"preparing", "serving", "watching"} : Enter(p, o, "look", m, "none")
    BY <1>9
  <2> QED
    BY <1>1, <1>2, <1>4, <2>1, <2>2, EnterKeeps
<1> QED
  BY <1>7, <1>8, <1>9 DEF TakeLivePlay

\* Termination is retried whatever the owner's status is.
LEMMA RetryKeeps ==
  ASSUME IInv, NEW p \in Procs, NEW o \in Owners, StopAgain(p, o) \/ Sweep(p, o)
  PROVE  IInv'
<1>1. TypeOK /\ OwnerSafe(o)
  BY DEF IInv
<1>2. UNCHANGED <<status, state, outcome, pod>> /\ faults' \in Nat
  BY <1>1 DEF StopAgain, Sweep, podVars, resVars, TypeOK
<1>3. Types
  BY <1>1, <1>2, TypesStay DEF StopAgain, Sweep, podVars, resVars
<1>4. Touches(o)
  BY <1>2, <1>3, AsideTouches
<1>5. status'[o] \notin Untaken
  BY <1>1, <1>2 DEF StopAgain, Sweep, OwnerSafe
<1>6. {"CANCELED", "FAILED"} \subseteq Verdicts /\ Verdicts \subseteq Results
  BY DEF Verdicts, Results
<1>7. \/ Enter(p, o, "pending", "sweep", "CANCELED")
      \/ Enter(p, o, "pending", "sweep", "FAILED")
      \/ Enter(p, o, "cleanup", "sweep", "FAILED")
  BY DEF StopAgain, Sweep
<1> QED
  BY <1>2, <1>4, <1>5, <1>6, <1>7, EnterKeeps

-----------------------------------------------------------------------------
(* The web process, the provider, faults.                                  *)

LEMMA CreateKeeps ==
  ASSUME IInv, NEW o \in Owners, Create(o)
  PROVE  IInv'
<1>1. TypeOK /\ OwnerSafe(o) /\ status[o] = "ABSENT"
  BY DEF IInv, Create
<1>2. UNCHANGED <<state, outcome, pod, faults>> /\ UNCHANGED <<procVars, claim>>
  BY DEF Create, podVars, resVars
<1>3. Types
  BY <1>1, <1>2, TypesStay DEF Create, podVars, resVars, TypeOK
<1>4. /\ status' \in [Owners -> Status] /\ status'[o] = "QUEUED"
      /\ \A d \in Owners \ {o} : status'[d] = status[d]
  <2>1. "QUEUED" \in Status
    BY DEF Status, RunLive
  <2> QED
    BY <1>1, <2>1 DEF TypeOK, Create, Row
<1>5. CapacityInv'
  BY <1>2, CapacityKeeps DEF IInv
<1>6. OwnerSafe(o)' /\ OwnerHeld(o)'
  BY <1>1, <1>2, <1>4 DEF OwnerSafe, OwnerHeld, Untaken, RunFinal, PlayFinal
<1>7. Touches(o)
  BY <1>1, <1>2, <1>3, <1>4, <1>5, <1>6 DEF Touches, Types, TypeOK, Untaken
<1>8. \A q \in Procs : pc[q] # "idle" => at[q] # o
  BY <1>1, Working DEF ProcSafe, Untaken
<1> QED
  BY <1>2, <1>7, <1>8, Outside

\* A cancellation or a stop asked for by a user.
LEMMA AskKeeps ==
  ASSUME IInv, NEW o \in Owners, Cancel(o) \/ Stop(o)
  PROVE  IInv'
<1>1. /\ TypeOK /\ OwnerSafe(o) /\ (o \in Runs <=> o \notin Plays)
  BY RolesAssumption DEF IInv, Owners
<1>2. UNCHANGED <<state, outcome, pod, faults>> /\ UNCHANGED <<procVars, claim>>
  BY DEF Cancel, Stop, podVars, resVars
<1>3. Types
  BY <1>1, <1>2, TypesStay DEF Cancel, Stop, podVars, resVars, TypeOK
<1>4. CASE o \in Runs /\ status[o] = "QUEUED" /\ Row(o, "CANCELED")
  <2>1. "CANCELED" \in Status \ Untaken
    BY DEF Status, RunFinal, Untaken
  <2>2. outcome[o] = "none"
    BY <1>1, <1>4 DEF OwnerSafe, Untaken
  <2>3. Touches(o)
    BY <1>1, <1>2, <1>3, <1>4, <2>1, <2>2, RowTouches
  <2>4. \A q \in Procs : pc[q] # "idle" => at[q] # o
    BY <1>4, Working DEF ProcSafe, Untaken
  <2> QED
    BY <1>2, <2>3, <2>4, Outside
<1>5. ASSUME NEW s \in {"CANCEL_REQUESTED", "STOP_REQUESTED"}, Row(o, s)
      PROVE  IInv'
  <2>1. s \in Status \ (Untaken \cup Over) /\ s \notin RunFinal \cup PlayFinal
    BY DEF Status, RunLive, PlayLive, Untaken, Over, RunFinal, PlayFinal
  <2>2. Touches(o)
    BY <1>1, <1>2, <1>3, <1>5, <2>1, RowTouches DEF RunFinal
  <2>3. status'[o] = s
    BY <1>1, <1>5 DEF TypeOK, Row
  <2>4. \A q \in Procs : pc[q] # "idle" /\ at[q] = o /\ o \notin lost => ProcHeld(q)'
    BY <1>2, <2>1, <2>3, Working DEF ProcHeld, procVars
  <2> QED
    BY <1>2, <2>2, <2>4, Outside
<1> QED
  BY <1>4, <1>5 DEF Cancel, Stop

\* The provider finishes what it accepted, or a Pod ends without us.
LEMMA PodKeeps ==
  ASSUME IInv, NEW o \in Owners, PodAppears(o) \/ PodEnds(o) \/ PodDies(o)
  PROVE  IInv'
<1>1. TypeOK /\ OwnerSafe(o) /\ (o \notin lost => OwnerHeld(o))
  BY DEF IInv
<1>2. /\ UNCHANGED <<status, state, outcome>> /\ UNCHANGED <<procVars, claim>> /\ faults' \in Nat
      /\ pod[o] \in Billed /\ pod[o] # "none"
  BY <1>1, FaultTypes DEF PodAppears, PodEnds, PodDies, resVars, TypeOK, Billed
<1>3. Types
  BY <1>1, <1>2, TypesStay DEF PodAppears, PodEnds, PodDies, resVars
<1>4. PICK v \in {"up", "gone"} : pod' = [pod EXCEPT ![o] = v]
  BY DEF PodAppears, PodEnds, PodDies
<1>5. state[o] \in Reserved /\ (o \notin lost => ~(o \in Plays /\ status[o] \in PlayFinal))
  BY <1>1, <1>2 DEF OwnerSafe, OwnerHeld
<1>6. Touches(o)
  BY <1>2, <1>3, <1>4, <1>5, PodTouches DEF Billed, Reserved
<1>7. \A q \in Procs : pc[q] # "idle" /\ at[q] = o /\ o \notin lost => ProcHeld(q)'
  BY <1>2, Working DEF ProcHeld, procVars
<1> QED
  BY <1>2, <1>6, <1>7, Outside

\* What runs in the Pod ends, or time passes.
LEMMA TimeKeeps ==
  ASSUME IInv, NEW o \in Owners, JobEnds(o) \/ Expire(o)
  PROVE  IInv'
<1>1. TypeOK
  BY DEF IInv
<1>2. /\ UNCHANGED <<status, state, outcome, pod>> /\ UNCHANGED <<procVars, claim>>
      /\ faults' \in Nat
  BY <1>1, FaultTypes DEF JobEnds, Expire, resVars, podVars, TypeOK
<1>3. Types
  BY <1>1, <1>2 DEF JobEnds, Expire, resVars, podVars, fileVars, Types, TypeOK
<1>4. Touches(o)
  BY <1>2, <1>3, AsideTouches
<1>5. \A q \in Procs : pc[q] # "idle" /\ at[q] = o /\ o \notin lost => ProcHeld(q)'
  BY <1>2, Working DEF ProcHeld, procVars
<1> QED
  BY <1>2, <1>4, <1>5, Outside

LEMMA CrashKeeps ==
  ASSUME IInv, NEW p \in Procs, Crash(p)
  PROVE  IInv'
<1>1. TypeOK /\ pc[p] # "idle" /\ at[p] \in Owners
  BY Working DEF Crash
<1>2. UNCHANGED <<status, state, outcome, pod>> /\ faults' \in Nat /\ Leave(p)
  BY <1>1, FaultTypes DEF Crash, resVars, podVars
<1>3. Types
  BY <1>1, <1>2, TypesStay DEF Crash, resVars, podVars
<1>4. PICK o \in Owners : o = at[p]
  BY <1>1
<1>5. Touches(o) /\ Calm(p)
  BY <1>2, <1>3, AsideTouches DEF Calm
<1> QED
  BY <1>1, <1>2, <1>4, <1>5, Away

\* The connection that holds a claim dies; the process does not know.
LEMMA ClaimLostKeeps ==
  ASSUME IInv, NEW p \in Procs, ClaimLost(p)
  PROVE  IInv'
<1>1. TypeOK /\ pc[p] # "idle" /\ at[p] \in Owners
  BY Working DEF ClaimLost
<1>2. /\ UNCHANGED <<status, due, state, cleanup, outcome, bound, pod, job>>
      /\ UNCHANGED <<workspace, intent, collected, pc, at, mode, result>>
      /\ faults' \in Nat /\ lost' = lost \cup {at[p]}
      /\ claim' = [claim EXCEPT ![at[p]] = NoProc]
  BY <1>1, FaultTypes DEF ClaimLost, resVars, podVars, fileVars, procVars
<1>3. TypeOK'
  BY <1>1, <1>2 DEF TypeOK
<1>4. CapacityInv'
  BY <1>2, CapacityKeeps DEF IInv
<1>5. OnePoster'
  BY <1>2 DEF IInv, OnePoster, Posting
<1>6. \A d \in Owners : OwnerSafe(d)' /\ (d \notin lost' => OwnerHeld(d)')
  BY <1>2 DEF IInv, OwnerSafe, OwnerHeld
<1>7. \A q \in Procs : ProcSafe(q)'
  BY <1>2 DEF IInv, ProcSafe, Bookkeeping, Posting
<1>8. ASSUME NEW q \in Procs, pc'[q] # "idle", at'[q] \notin lost'
      PROVE  ProcHeld(q)'
  <2>1. at[q] \in Owners /\ ProcHeld(q) /\ at[q] # at[p]
    BY <1>2, <1>8, Working
  <2>2. claim'[at[q]] = claim[at[q]]
    BY <1>1, <1>2, <2>1 DEF TypeOK
  <2> QED
    BY <1>2, <2>1, <2>2 DEF ProcHeld
<1> QED
  BY <1>3, <1>4, <1>5, <1>6, <1>7, <1>8 DEF IInv

-----------------------------------------------------------------------------
(* The theorems.                                                           *)

LEMMA InitInv ==
  ASSUME Init
  PROVE  IInv
<1>1. TypeOK
  BY FaultsAssumption DEF Init, TypeOK, Status, Steps, Modes, Results
<1>2. CapacityInv
  <2>1. Held = {}
    BY DEF Init, Held
  <2>2. IsFiniteSet(Held) /\ Cardinality(Held) = 0
    BY <2>1, FS_EmptySet
  <2>3. \A t \in {Target[o] : o \in Owners} : {x \in Held : Target[x] = t} = {}
    BY <2>1
  <2>4. \A t \in {Target[o] : o \in Owners} : Cardinality({x \in Held : Target[x] = t}) = 0
    BY <2>3, FS_EmptySet
  <2> QED
    BY <2>2, <2>4, LimitsAssumption DEF CapacityInv
<1>3. OnePoster
  BY DEF Init, OnePoster, Posting
<1>4. \A o \in Owners : OwnerSafe(o) /\ OwnerHeld(o)
  BY DEF Init, OwnerSafe, OwnerHeld, Billed, RunFinal, PlayFinal
<1>5. \A p \in Procs : ProcSafe(p)
  BY DEF Init, ProcSafe, Bookkeeping, Posting
<1>6. \A p \in Procs : pc[p] = "idle"
  BY DEF Init
<1> QED
  BY <1>1, <1>2, <1>3, <1>4, <1>5, <1>6 DEF IInv

LEMMA StepKeeps ==
  ASSUME IInv, NEW p \in Procs, Step(p)
  PROVE  IInv'
<1>1. pc[p] # "idle"
  BY DEF Step, At, MakeWorkspace, Reserve, Post, BindPod, AwaitTraining, AwaitServing, TouchTraining,
         TouchServing, Launch, Launched, Pending, Terminate, Confirm, Release, StatusKnown,
         StatusAsked, Observe, Register, Look, RemoveFiles, Write
<1>2. PICK o \in Owners : o = at[p]
  BY <1>1, Working
<1> QED
  BY <1>2, MakeWorkspaceKeeps, ReserveKeeps, PostKeeps, BindPodKeeps, AwaitKeeps, TouchKeeps,
     LaunchKeeps, LaunchedKeeps, PendingKeeps, TerminateKeeps, ConfirmKeeps, ReleaseKeeps,
     StatusKeeps, ObserveKeeps, RegisterKeeps, LookKeeps, RemoveFilesKeeps, WriteKeeps DEF Step

LEMMA NextInv ==
  ASSUME IInv, [Next]_vars
  PROVE  IInv'
<1>1. CASE UNCHANGED vars
  <2>1. UNCHANGED <<status, due, state, cleanup, outcome, bound, pod, job, workspace, intent, collected,
                    claim, pc, at, mode, result, lost, faults>>
    BY <1>1 DEF vars, resVars, podVars, fileVars, procVars
  <2>2. TypeOK'
    BY <2>1 DEF IInv, TypeOK
  <2>3. CapacityInv'
    BY <2>1, CapacityKeeps DEF IInv
  <2>4. OnePoster'
    BY <2>1 DEF IInv, OnePoster, Posting
  <2>5. \A o \in Owners : OwnerSafe(o)' /\ (o \notin lost' => OwnerHeld(o)')
    BY <2>1 DEF IInv, OwnerSafe, OwnerHeld
  <2>6. \A p \in Procs : ProcSafe(p)'
    BY <2>1 DEF IInv, ProcSafe, Bookkeeping, Posting
  <2>7. \A p \in Procs : pc'[p] # "idle" /\ at'[p] \notin lost' => ProcHeld(p)'
    BY <2>1 DEF IInv, ProcHeld
  <2> QED
    BY <2>2, <2>3, <2>4, <2>5, <2>6, <2>7 DEF IInv
<1>2. CASE \E o \in Owners : Create(o) \/ Cancel(o) \/ Stop(o)
  BY <1>2, CreateKeeps, AskKeeps
<1>3. CASE \E p \in Procs : Step(p) \/ Crash(p) \/ ClaimLost(p)
  BY <1>3, StepKeeps, CrashKeeps, ClaimLostKeeps
<1>4. CASE \E p \in Procs, o \in Owners : Take(p, o)
  BY <1>4, TakeRunKeeps, TakeLivePlayKeeps, RetryKeeps DEF Take
<1>5. CASE \E o \in Owners : PodAppears(o) \/ PodEnds(o) \/ PodDies(o) \/ JobEnds(o) \/ Expire(o)
  BY <1>5, PodKeeps, TimeKeeps
<1> QED
  BY <1>1, <1>2, <1>3, <1>4, <1>5 DEF Next

\* The inductive invariant holds, whatever answers, crashes and claims are lost.
THEOREM Invariance == Spec => []IInv
<1>1. Init => IInv
  BY InitInv
<1>2. IInv /\ [Next]_vars => IInv'
  BY NextInv
<1> QED
  BY <1>1, <1>2, PTL DEF Spec

\* Rows, requests and Pods agree, and what is over is paid for no longer: a playground
\* reaches a final status only after the provider confirmed that its Pod is gone, or
\* before one was ever asked for (app/deployments/runpod.py stop(), services/deployments.py).
THEOREM StaysConsistent == Spec => []Consistent
<1>1. IInv => Consistent
  <2> SUFFICES ASSUME IInv
               PROVE  Consistent
    OBVIOUS
  <2>1. TypeOK
    BY DEF IInv
  <2>2. \A o \in Plays \ lost : status[o] \in PlayFinal => pod[o] \notin Billed
    BY DEF IInv, OwnerHeld, Owners
  <2> QED
    BY <2>1, <2>2 DEF Consistent, OverIsFree
<1> QED
  BY <1>1, Invariance, PTL

\* No Pod is billed without a row that still asks for its deletion: the intent is
\* written before the one POST and the row is released only after the Pod was seen gone
\* or its POST refused, also by a process whose claim or connection was lost meanwhile.
THEOREM PodsAreOwned == Spec => []EveryPodIsOwned
<1>1. IInv => EveryPodIsOwned
  BY DEF IInv, OwnerSafe, EveryPodIsOwned, Held, Reserved
<1> QED
  BY <1>1, Invariance, PTL

\* The ceilings hold for what the provider bills, not only for what the rows say: every
\* billed Pod has a row that counts, and a row is added only below both limits.
THEOREM CeilingsHold == Spec => []CapacityHolds
<1>1. ASSUME IInv
      PROVE  CapacityHolds
  <2> DEFINE billed == {o \in Owners : pod[o] \in Billed}
  <2>1. billed \subseteq Held /\ IsFiniteSet(Held)
    BY <1>1 DEF IInv, OwnerSafe, Held, Reserved, CapacityInv
  <2> HIDE DEF billed
  <2>2. /\ Cardinality(billed) <= Cardinality(Held)
        /\ Cardinality(billed) \in Nat /\ Cardinality(Held) \in Nat
    BY <2>1, FS_Subset, FS_CardinalityType
  <2>3. Cardinality(Held) <= GlobalLimit
    BY <1>1 DEF IInv, CapacityInv
  <2>4. Cardinality(billed) <= GlobalLimit
    BY <2>2, <2>3, LimitsAssumption
  <2>5. ASSUME NEW t \in {Target[o] : o \in Owners}
        PROVE  Cardinality({o \in billed : Target[o] = t}) <= TargetLimit
    <3>1. {o \in billed : Target[o] = t} \subseteq {x \in Held : Target[x] = t}
      BY <2>1
    <3>2. IsFiniteSet({x \in Held : Target[x] = t})
      BY <2>1, FS_Subset
    <3>3. /\ Cardinality({o \in billed : Target[o] = t}) <= Cardinality({x \in Held : Target[x] = t})
          /\ Cardinality({o \in billed : Target[o] = t}) \in Nat
          /\ Cardinality({x \in Held : Target[x] = t}) \in Nat
      BY <3>1, <3>2, FS_Subset, FS_CardinalityType
    <3>4. Cardinality({x \in Held : Target[x] = t}) <= TargetLimit
      BY <1>1 DEF IInv, CapacityInv
    <3> QED
      BY <3>3, <3>4, LimitsAssumption
  <2> QED
    BY <2>4, <2>5 DEF CapacityHolds, billed
<1> QED
  BY <1>1, Invariance, PTL

\* One verdict decides a run: it succeeds only with the recorded success and the
\* collected output, and a recorded success is not turned into another end while the
\* claim on the run is held (record_verdict of runpod_lifecycle.py, observe() of the
\* processor).
THEOREM VerdictStays == Spec => []VerdictIsKept
<1>1. IInv => VerdictIsKept
  BY DEF IInv, OwnerSafe, OwnerHeld, VerdictIsKept, Owners
<1> QED
  BY <1>1, Invariance, PTL
=============================================================================
