--------------------------- MODULE Library_proofs ---------------------------
(***************************************************************************)
(* Theorems about Library, for any sets of originals, documents, datasets, *)
(* contents and requests under way, and any number of rows.                *)
(***************************************************************************)
EXTENDS Library, FiniteSetTheorems, TLAPS

-----------------------------------------------------------------------------
(* The inductive invariant.                                                *)

Single   == {"copy", "register", "clean", "sweep", "attach", "erase", "erased", "import"}
Copying  == {"copy", "register"}
Deriving == {"verify", "extraction", "import"}
OnDataset == Deriving \cup {"version"}

\* A request about originals: which it is about, and what was true of them when it was
\* let in and stays true, by a lock it holds or because it never changes back.
OriginalsOf(c) ==
  LET r == req[c] IN
  /\ r.at \in Single => \E o \in Originals : r.used = {o}
  /\ r.at \in Copying => r.bytes \in Contents
  /\ \A o \in r.used :
       /\ r.at \in Copying \cup {"sweep"} => Upload(o) \in locks[c]
       /\ r.at \in Copying => artifact[o] = None /\ o \notin swept
       /\ r.at = "register" => raw[o] = r.bytes
       /\ r.at = "sweep" => age[o] = "old"
       /\ r.at = "attach" => artifact[o] # None
       /\ r.at \in {"erase", "erased"} => deletion[o] # "none"
       /\ r.at = "erased" => raw[o] = None

\* A request that derives: its dataset is locked, and so is every original it verified.
DatasetOf(c) ==
  LET r == req[c] IN
  /\ r.at \in OnDataset \cup {"attach"} => r.data \in Datasets
  /\ r.at \in OnDataset => Dataset(r.data) \in locks[c]
  /\ r.at \in Deriving => \A o \in r.used :
       Artifact(o) \in locks[c] /\ Available(o) /\ <<r.data, o>> \in sources
  /\ r.at = "verify" =>
       /\ \A i \in DOMAIN r.todo : <<r.data, r.todo[i]>> \in sources
       /\ Cardinality(extractions[r.data]) < MaxRows
  /\ r.at = "extraction" =>
       r.number = Cardinality(extractions[r.data]) + 1 /\ r.number <= MaxRows
  /\ r.at = "version" =>
       /\ \A o \in r.used : r.data \in DerivedFrom(o)
       /\ r.number = Cardinality(versions[r.data]) + 1 /\ r.number <= MaxRows

ClientInv(c) == OriginalsOf(c) /\ DatasetOf(c)

LockInv == \A b, c \in Clients : b # c => locks[b] \cap locks[c] = {}

\* An original: its upload, its registration, its deletion and what became of it.
OriginalInv(o) ==
  /\ artifact[o] # None /\ Available(o) => raw[o] = artifact[o]
  /\ ~Available(o) => artifact[o] # None
  /\ deletion[o] = "deleted" => raw[o] = None
  /\ o \in swept => age[o] = "old" /\ staging[o] = None /\ (artifact[o] = None => raw[o] = None)

ProvenanceInv(o) ==
  /\ \A d \in Datasets : <<d, o>> \in sources => artifact[o] # None
  /\ \A d \in DerivedFrom(o) : <<d, o>> \in sources
  /\ ~Available(o) => DerivedFrom(o) = {} /\ \E d \in Datasets : {e \in Datasets : <<e, o>> \in sources} = {d}

\* The history of a dataset.
Numbered(rows) == IsFiniteSet(rows) /\ Numbers(rows) = 1..Cardinality(rows)

First(d, o) == {x.number : x \in {y \in extractions[d] : o \in y.good}}

CanonicalInv(d) ==
  \A o \in Originals :
    /\ First(d, o) = {} => canonical[<<d, o>>] = 0
    /\ First(d, o) # {} => /\ canonical[<<d, o>>] \in First(d, o)
                           /\ \A n \in First(d, o) : canonical[<<d, o>>] <= n

DatasetInv(d) == Numbered(extractions[d]) /\ Numbered(versions[d]) /\ CanonicalInv(d)

AllRows == UNION {{<<d, x>> : x \in extractions[d] \cup versions[d]} : d \in Datasets}

IInv ==
  /\ TypeOK /\ LockInv /\ IsFiniteSet(AllRows)
  /\ \A c \in Clients : ClientInv(c)
  /\ \A o \in Originals : OriginalInv(o) /\ ProvenanceInv(o)
  /\ \A d \in Datasets : DatasetInv(d)

-----------------------------------------------------------------------------
(* Rows and their numbers.                                                 *)

LEMMA NextIsFresh ==
  ASSUME NEW rows, Numbered(rows)
  PROVE  NextNumber(rows) = Cardinality(rows) + 1 /\ Cardinality(rows) \in Nat
<1>1. Cardinality(rows) \in Nat
  BY FS_CardinalityType DEF Numbered
<1>2. CASE rows = {}
  <2>1. Cardinality(rows) = 0
    BY <1>2, FS_EmptySet
  <2>2. NextNumber(rows) = 1
    BY <1>2 DEF NextNumber
  <2> QED
    BY <1>1, <2>1, <2>2
<1>3. CASE rows # {}
  <2>1. Cardinality(rows) # 0
    BY <1>3, FS_EmptySet DEF Numbered
  <2>2. Cardinality(rows) \in Numbers(rows) /\ \A m \in Numbers(rows) : m <= Cardinality(rows)
    BY <1>1, <2>1 DEF Numbered
  <2>3. \A n \in Numbers(rows) : (\A m \in Numbers(rows) : m <= n) => n = Cardinality(rows)
    BY <1>1, <2>2 DEF Numbered
  <2>4. (CHOOSE n \in Numbers(rows) : \A m \in Numbers(rows) : m <= n) = Cardinality(rows)
    BY <2>2, <2>3
  <2>5. NextNumber(rows) = 1 + CHOOSE n \in Numbers(rows) : \A m \in Numbers(rows) : m <= n
    BY <1>3, Zenon DEF NextNumber
  <2>6. NextNumber(rows) = 1 + Cardinality(rows)
    BY <2>4, <2>5, Zenon
  <2> QED
    BY <1>1, <2>6
<1> QED
  BY <1>1, <1>2, <1>3

LEMMA RowAdded ==
  ASSUME NEW rows, Numbered(rows), NEW x, x.number = Cardinality(rows) + 1
  PROVE  /\ Numbered(rows \cup {x}) /\ Cardinality(rows \cup {x}) = Cardinality(rows) + 1
         /\ Cardinality(rows) \in Nat
<1>1. Cardinality(rows) \in Nat
  BY FS_CardinalityType DEF Numbered
<1>2. x \notin rows
  BY <1>1 DEF Numbered, Numbers
<1>3. /\ IsFiniteSet(rows \cup {x}) /\ Cardinality(rows \cup {x}) = Cardinality(rows) + 1
  BY <1>2, FS_AddElement DEF Numbered
<1>4. Numbers(rows \cup {x}) = Numbers(rows) \cup {x.number}
  BY DEF Numbers
<1>5. 1..(Cardinality(rows) + 1) = 1..Cardinality(rows) \cup {Cardinality(rows) + 1}
  BY <1>1
<1> QED
  BY <1>1, <1>3, <1>4, <1>5 DEF Numbered

\* Room in all is room in each dataset.
LEMMA RoomInDataset ==
  ASSUME IInv, RoomLeft, NEW d \in Datasets
  PROVE  Cardinality(extractions[d]) < MaxRows /\ Cardinality(versions[d]) < MaxRows
<1>1. IsFiniteSet(AllRows) /\ Cardinality(AllRows) < MaxRows
  BY DEF IInv, RoomLeft, AllRows
<1>2. Cardinality(AllRows) \in Nat
  BY <1>1, FS_CardinalityType
<1>3. ASSUME NEW rows, rows \subseteq extractions[d] \cup versions[d]
      PROVE  Cardinality(rows) < MaxRows
  <2> DEFINE f == [x \in rows |-> <<d, x>>]
  <2>1. f \in Injection(rows, AllRows)
    BY <1>3 DEF Injection, IsInjective, AllRows
  <2> HIDE DEF f
  <2>2. IsFiniteSet(rows) /\ Cardinality(rows) <= Cardinality(AllRows)
    BY <1>1, <2>1, FS_Injection
  <2>3. Cardinality(rows) \in Nat
    BY <2>2, FS_CardinalityType
  <2> QED
    BY <1>1, <1>2, <2>2, <2>3, LibraryAssumption
<1> QED
  BY <1>3

-----------------------------------------------------------------------------
(* What all steps have in common.                                          *)

SharedTypes ==
  /\ swept \subseteq Originals
  /\ age \in [Originals -> {"none", "open", "old"}]
  /\ staging \in [Originals -> Contents \cup {None}]
  /\ raw \in [Originals -> Bytes \cup {None}]
  /\ artifact \in [Originals -> Bytes \cup {None}]
  /\ deletion \in [Originals -> {"none", "requested", "deleted"}]
  /\ sources \subseteq Datasets \X Originals /\ imports \subseteq Datasets \X Originals
  /\ extractions \in [Datasets -> SUBSET ExtractionRow]
  /\ versions \in [Datasets -> SUBSET VersionRow]
  /\ canonical \in [Datasets \X Originals -> 0..MaxRows]

\* What holds of the library as a whole.
SharedInv ==
  /\ SharedTypes /\ IsFiniteSet(AllRows)
  /\ \A o \in Originals : OriginalInv(o) /\ ProvenanceInv(o)
  /\ \A d \in Datasets : DatasetInv(d)

\* A step of somebody else leaves what client b relies on.
Steady(b) ==
  /\ \A o \in Originals :
       /\ Upload(o) \in locks[b] /\ artifact[o] = None =>
            artifact'[o] = None /\ raw'[o] = raw[o] /\ (o \in swept' => o \in swept)
       /\ age[o] = "old" => age'[o] = "old"
       /\ artifact[o] # None => artifact'[o] # None
       /\ deletion[o] # "none" => deletion'[o] # "none" /\ (raw[o] = None => raw'[o] = None)
       /\ Artifact(o) \in locks[b] /\ deletion[o] = "none" => deletion'[o] = "none"
  /\ \A d \in Datasets : Dataset(d) \in locks[b] =>
       /\ extractions'[d] = extractions[d] /\ versions'[d] = versions[d]
       /\ \A o \in Originals : <<d, o>> \in sources => <<d, o>> \in sources'
  /\ imports \subseteq imports'

LEMMA InvParts ==
  IInv <=> /\ SharedInv /\ LockInv /\ \A c \in Clients : ClientInv(c)
           /\ req \in [Clients -> Request] /\ locks \in [Clients -> SUBSET Rows]
  BY DEF IInv, SharedInv, TypeOK, SharedTypes

LEMMA OthersKeep ==
  ASSUME IInv, NEW b \in Clients, req'[b] = req[b], locks'[b] = locks[b], Steady(b)
  PROVE  ClientInv(b)'
<1> DEFINE r == req[b]
<1>1. /\ ClientInv(b) /\ r.used \subseteq Originals /\ r \in Request
  BY DEF IInv, TypeOK, Request
<1>2. OriginalsOf(b)'
  BY <1>1 DEF ClientInv, OriginalsOf, Steady, Copying
<1>3. ASSUME NEW o \in Originals, r.at \in OnDataset, r.data \in DerivedFrom(o)
      PROVE  r.data \in DerivedFrom(o)'
  BY <1>1, <1>3 DEF ClientInv, DatasetOf, Steady, DerivedFrom
<1>4. DatasetOf(b)'
  <2>1. DatasetOf(b) /\ req'[b] = r /\ locks'[b] = locks[b]
    BY <1>1 DEF ClientInv
  <2>2. r.at \in Deriving => \A o \in r.used :
          Artifact(o) \in locks'[b] /\ Available(o)' /\ <<r.data, o>> \in sources'
    BY <1>1, <2>1 DEF DatasetOf, Steady, Available, Deriving, OnDataset
  <2>3. r.at \in OnDataset => /\ extractions'[r.data] = extractions[r.data]
                              /\ versions'[r.data] = versions[r.data]
    BY <2>1 DEF DatasetOf, Steady, OnDataset
  <2>4. r.at = "verify" => \A i \in DOMAIN r.todo : <<r.data, r.todo[i]>> \in sources'
    <3> SUFFICES ASSUME r.at = "verify", NEW i \in DOMAIN r.todo
                 PROVE  <<r.data, r.todo[i]>> \in sources'
      OBVIOUS
    <3>1. r.todo[i] \in Originals
      BY <1>1 DEF Request
    <3> QED
      BY <2>1, <3>1 DEF DatasetOf, Steady, OnDataset, Deriving
  <2>5. r.at = "version" => \A o \in r.used : r.data \in DerivedFrom(o)'
    BY <1>1, <1>3, <2>1 DEF DatasetOf, OnDataset
  <2> QED
    BY <2>1, <2>2, <2>3, <2>4, <2>5 DEF DatasetOf, OnDataset, Deriving
<1> QED
  BY <1>2, <1>4 DEF ClientInv

\* A client takes up a request r with its locks, goes on or ends.
LEMMA Closes ==
  ASSUME IInv, NEW c \in Clients, NEW r \in Request, NEW rows \in SUBSET Rows,
         \A row \in rows : Free(c, row), Enter(c, r, rows),
         \A b \in Clients \ {c} : Steady(b), ClientInv(c)', SharedInv'
  PROVE  IInv'
<1>1. /\ req' \in [Clients -> Request] /\ locks' \in [Clients -> SUBSET Rows]
      /\ req'[c] = r /\ locks'[c] = rows
      /\ \A b \in Clients \ {c} : req'[b] = req[b] /\ locks'[b] = locks[b]
  BY DEF IInv, TypeOK, Enter
<1>2. \A b \in Clients : ClientInv(b)'
  BY <1>1, OthersKeep
<1>3. LockInv'
  BY <1>1 DEF IInv, LockInv, Free
<1> QED
  BY <1>1, <1>2, <1>3 DEF IInv, SharedInv, TypeOK, SharedTypes

\* Users and time change what no request in progress relies on.
LEMMA Elsewhere ==
  ASSUME IInv, UNCHANGED <<req, locks>>, \A b \in Clients : Steady(b), SharedInv'
  PROVE  IInv'
<1>1. \A b \in Clients : ClientInv(b)'
  BY OthersKeep
<1>2. LockInv' /\ req' \in [Clients -> Request] /\ locks' \in [Clients -> SUBSET Rows]
  BY DEF IInv, TypeOK, LockInv
<1> QED
  BY <1>1, <1>2 DEF IInv, SharedInv, TypeOK, SharedTypes

\* Nothing shared changes.
Untouched == UNCHANGED <<uploadVars, deletion, sources, derivedVars>>

LEMMA SharedStays ==
  ASSUME IInv, Untouched
  PROVE  SharedInv' /\ \A b \in Clients : Steady(b)
<1>1. UNCHANGED <<age, swept, staging, raw, artifact, deletion, sources, imports, extractions,
                  canonical, versions>>
  BY DEF Untouched, uploadVars, derivedVars
<1>2. SharedTypes' /\ IsFiniteSet(AllRows')
  BY <1>1 DEF IInv, TypeOK, SharedTypes, AllRows
<1>3. \A o \in Originals : OriginalInv(o)' /\ ProvenanceInv(o)'
  BY <1>1 DEF IInv, OriginalInv, ProvenanceInv, Available, DerivedFrom
<1>4. \A d \in Datasets : DatasetInv(d)'
  BY <1>1 DEF IInv, DatasetInv, CanonicalInv, First
<1>5. \A b \in Clients : Steady(b)
  BY <1>1 DEF Steady
<1> QED
  BY <1>2, <1>3, <1>4, <1>5 DEF SharedInv

LEMMA IdleFits ==
  Idle \in Request /\ Idle.at = "idle" /\ Idle.used = {} /\ Idle.todo = <<>>
  BY LibraryAssumption DEF Idle, Request, Steps

\* Requests are built from the idle one field by field.
LEMMA OneField ==
  ASSUME NEW r \in Request
  PROVE  /\ \A step \in Steps : [r EXCEPT !.at = step] \in Request
         /\ \A d \in Datasets : [r EXCEPT !.data = d] \in Request
         /\ \A s \in Seq(Originals) : [r EXCEPT !.todo = s] \in Request
         /\ \A S \in SUBSET Originals : [r EXCEPT !.used = S] \in Request
         /\ \A x \in Contents : [r EXCEPT !.bytes = x] \in Request
         /\ \A S \in SUBSET (1..MaxRows) : [r EXCEPT !.picked = S] \in Request
         /\ \A n \in Nat : [r EXCEPT !.number = n] \in Request
  BY DEF Request

\* A request about one original.
LEMMA SingleFits ==
  ASSUME NEW step \in Steps, NEW o \in Originals
  PROVE  LET r == [Idle EXCEPT !.at = step, !.used = {o}] IN
         r \in Request /\ r.at = step /\ r.used = {o}
<1> DEFINE i == [Idle EXCEPT !.at = step]
           r == [Idle EXCEPT !.at = step, !.used = {o}]
<1>1. i \in Request
  BY IdleFits, OneField
<1>2. r = [i EXCEPT !.used = {o}] /\ r.at = step /\ r.used = {o}
  BY DEF Idle
<1> HIDE DEF i
<1>3. r \in Request
  BY <1>1, <1>2, OneField
<1> QED
  BY <1>2, <1>3

\* A request about one original and a dataset.
OnPair(step, d, o) == [Idle EXCEPT !.at = step, !.data = d, !.used = {o}]

LEMMA PairFits ==
  ASSUME NEW step \in Steps, NEW d \in Datasets, NEW o \in Originals
  PROVE  LET r == OnPair(step, d, o) IN
         r \in Request /\ r.at = step /\ r.data = d /\ r.used = {o}
<1> DEFINE i == [Idle EXCEPT !.at = step, !.used = {o}]
           r == OnPair(step, d, o)
<1>1. i \in Request
  BY SingleFits
<1>2. r = [i EXCEPT !.data = d] /\ r.at = step /\ r.data = d /\ r.used = {o}
  BY DEF Idle, OnPair
<1> HIDE DEF i
<1>3. r \in Request
  BY <1>1, <1>2, OneField
<1> QED
  BY <1>2, <1>3

\* A request to extract, and one to take a version.
Extracting(d, order) == [Idle EXCEPT !.at = "verify", !.data = d, !.todo = order]

LEMMA ExtractingFits ==
  ASSUME NEW d \in Datasets, NEW order \in Seq(Originals)
  PROVE  LET r == Extracting(d, order) IN
         r \in Request /\ r.at = "verify" /\ r.data = d /\ r.todo = order /\ r.used = {}
<1> DEFINE i == [Idle EXCEPT !.at = "verify"]
           j == [i EXCEPT !.data = d]
           r == Extracting(d, order)
<1>1. i \in Request
  BY IdleFits, OneField DEF Steps
<1>2. r.at = "verify" /\ r.data = d /\ r.todo = order /\ r.used = {} /\ r = [j EXCEPT !.todo = order]
  BY DEF Idle, Extracting
<1> HIDE DEF i
<1>3. j \in Request
  BY <1>1, OneField
<1> HIDE DEF j
<1>4. r \in Request
  BY <1>2, <1>3, OneField
<1> QED
  BY <1>2, <1>4

Snapshot(d, picked, used, n) ==
  [Idle EXCEPT !.at = "version", !.data = d, !.picked = picked, !.used = used, !.number = n]

LEMMA SnapshotFits ==
  ASSUME NEW d \in Datasets, NEW picked \in SUBSET (1..MaxRows), NEW used \in SUBSET Originals,
         NEW n \in Nat
  PROVE  LET r == Snapshot(d, picked, used, n) IN
         r \in Request /\ r.at = "version" /\ r.data = d /\ r.used = used /\ r.number = n
<1> DEFINE i == [Idle EXCEPT !.at = "version"]
           j == [i EXCEPT !.data = d]
           k == [j EXCEPT !.picked = picked]
           l == [k EXCEPT !.used = used]
           r == Snapshot(d, picked, used, n)
<1>1. i \in Request
  BY IdleFits, OneField DEF Steps
<1>2. r.at = "version" /\ r.data = d /\ r.used = used /\ r.number = n /\ r = [l EXCEPT !.number = n]
  BY DEF Idle, Snapshot
<1> HIDE DEF i
<1>3. j \in Request
  BY <1>1, OneField
<1> HIDE DEF j
<1>4. k \in Request
  BY <1>3, OneField
<1> HIDE DEF k
<1>5. l \in Request
  BY <1>4, OneField
<1> HIDE DEF l
<1>6. r \in Request
  BY <1>2, <1>5, OneField
<1> QED
  BY <1>2, <1>6

\* A request that ends relies on nothing.
LEMMA Ends ==
  ASSUME IInv, NEW c \in Clients, Leave(c), \A b \in Clients \ {c} : Steady(b), SharedInv'
  PROVE  IInv'
<1>1. Enter(c, Idle, {})
  BY DEF Leave
<1>2. req'[c] = Idle
  BY <1>1 DEF IInv, TypeOK, Enter
<1>3. ClientInv(c)'
  BY <1>2, IdleFits DEF ClientInv, OriginalsOf, DatasetOf, Single, Copying, OnDataset, Deriving
<1> QED
  BY <1>1, <1>3, IdleFits, Closes

LEMMA GotoEnters ==
  ASSUME IInv, NEW c \in Clients, NEW step \in Steps, Goto(c, step), UNCHANGED locks
  PROVE  /\ Enter(c, [req[c] EXCEPT !.at = step], locks[c])
         /\ [req[c] EXCEPT !.at = step] \in Request /\ locks[c] \in SUBSET Rows
         /\ \A row \in locks[c] : Free(c, row)
<1>1. req \in [Clients -> Request] /\ locks \in [Clients -> SUBSET Rows]
  BY DEF IInv, TypeOK
<1>2. Enter(c, [req[c] EXCEPT !.at = step], locks[c])
  BY <1>1 DEF Goto, Enter
<1>3. \A row \in locks[c] : Free(c, row)
  BY DEF IInv, LockInv, Free
<1> QED
  BY <1>1, <1>2, <1>3 DEF Request

\* The original of a request that concerns one.
LEMMA TheOne ==
  ASSUME IInv, NEW c \in Clients, req[c].at \in Single
  PROVE  \E o \in Originals : req[c].used = {o} /\ The(c) = o
<1>1. PICK o \in Originals : req[c].used = {o}
  BY DEF IInv, ClientInv, OriginalsOf
<1>2. The(c) = o
  BY <1>1 DEF The
<1> QED
  BY <1>1, <1>2

-----------------------------------------------------------------------------
(* Users, time and uploads.                                                *)

\* Only a derivation changes the records.
LEMMA RecordsStay ==
  ASSUME IInv, UNCHANGED derivedVars
  PROVE  /\ IsFiniteSet(AllRows') /\ \A d \in Datasets : DatasetInv(d)'
         /\ \A o \in Originals : DerivedFrom(o)' = DerivedFrom(o)
<1>1. UNCHANGED <<imports, extractions, canonical, versions>>
  BY DEF derivedVars
<1>2. IsFiniteSet(AllRows')
  BY <1>1 DEF IInv, AllRows
<1>3. \A d \in Datasets : DatasetInv(d)'
  BY <1>1 DEF IInv, DatasetInv, CanonicalInv, First
<1>4. \A o \in Originals : DerivedFrom(o)' = DerivedFrom(o)
  BY <1>1 DEF DerivedFrom
<1> QED
  BY <1>2, <1>3, <1>4

\* A step on the objects of the store or on a reservation.
LEMMA StoreOnly ==
  ASSUME IInv, UNCHANGED <<artifact, deletion, sources, derivedVars>>, SharedTypes',
         \A o \in Originals : OriginalInv(o)'
  PROVE  SharedInv'
<1>1. /\ IsFiniteSet(AllRows') /\ \A d \in Datasets : DatasetInv(d)'
      /\ \A o \in Originals : DerivedFrom(o)' = DerivedFrom(o)
  BY RecordsStay
<1>2. \A o \in Originals : ProvenanceInv(o)'
  BY <1>1 DEF IInv, ProvenanceInv, Available
<1> QED
  BY <1>1, <1>2 DEF SharedInv

LEMMA InitiateInv ==
  ASSUME IInv, NEW o \in Originals, Initiate(o)
  PROVE  IInv'
<1>1. SharedTypes'
  BY DEF IInv, TypeOK, SharedTypes, Initiate, derivedVars
<1>2. \A p \in Originals : OriginalInv(p)'
  BY DEF IInv, TypeOK, OriginalInv, Initiate, Available
<1>3. \A b \in Clients : Steady(b)
  BY DEF IInv, TypeOK, Steady, Initiate, derivedVars
<1> QED
  BY <1>1, <1>2, <1>3, StoreOnly, Elsewhere DEF Initiate

LEMMA TimePassesInv ==
  ASSUME IInv, NEW o \in Originals, TimePasses(o)
  PROVE  IInv'
<1>1. SharedTypes'
  BY DEF IInv, TypeOK, SharedTypes, TimePasses, derivedVars
<1>2. \A p \in Originals : OriginalInv(p)'
  BY DEF IInv, TypeOK, OriginalInv, TimePasses, Available
<1>3. \A b \in Clients : Steady(b)
  BY DEF IInv, TypeOK, Steady, TimePasses, derivedVars
<1> QED
  BY <1>1, <1>2, <1>3, StoreOnly, Elsewhere DEF TimePasses

LEMMA BrowserPutInv ==
  ASSUME IInv, NEW o \in Originals, NEW x \in Contents, BrowserPut(o, x)
  PROVE  IInv'
<1>1. SharedTypes'
  BY DEF IInv, TypeOK, SharedTypes, BrowserPut, derivedVars
<1>2. \A p \in Originals : OriginalInv(p)'
  BY DEF IInv, TypeOK, OriginalInv, BrowserPut, Available
<1>3. \A b \in Clients : Steady(b)
  BY DEF Steady, BrowserPut, derivedVars
<1> QED
  BY <1>1, <1>2, <1>3, StoreOnly, Elsewhere DEF BrowserPut

LEMMA CompleteInv ==
  ASSUME IInv, NEW c \in Clients, NEW o \in Originals, Complete(c, o)
  PROVE  IInv'
<1>1. SharedInv' /\ \A b \in Clients : Steady(b)
  BY SharedStays DEF Complete, Untouched
<1>2. CASE artifact[o] # None /\ Enter(c, [Idle EXCEPT !.at = "clean", !.used = {o}], {})
  <2> DEFINE r == [Idle EXCEPT !.at = "clean", !.used = {o}]
  <2>1. r \in Request /\ r.at = "clean" /\ r.used = {o}
    BY SingleFits DEF Steps
  <2>2. req'[c] = r
    BY <1>2 DEF IInv, TypeOK, Enter
  <2>3. ClientInv(c)'
    BY <2>1, <2>2 DEF ClientInv, OriginalsOf, DatasetOf, Copying, OnDataset, Deriving
  <2> HIDE DEF r
  <2>4. Enter(c, r, {})
    BY <1>2 DEF r
  <2> QED
    BY <1>1, <2>1, <2>3, <2>4, Closes
<1>3. CASE /\ artifact[o] = None /\ age[o] = "open" /\ staging[o] # None
           /\ Enter(c, [Idle EXCEPT !.at = "copy", !.used = {o}, !.bytes = staging[o]],
                    {Upload(o)})
  <2> DEFINE r == [Idle EXCEPT !.at = "copy", !.used = {o}, !.bytes = staging[o]]
  <2>0. staging[o] \in Contents
    BY <1>3 DEF IInv, TypeOK
  <2>1. r \in Request /\ r.at = "copy" /\ r.used = {o} /\ r.bytes \in Contents
    <3>1. r = [[Idle EXCEPT !.at = "copy", !.used = {o}] EXCEPT !.bytes = staging[o]]
      BY DEF Idle
    <3>2. [Idle EXCEPT !.at = "copy", !.used = {o}] \in Request
      BY SingleFits DEF Steps
    <3>3. r \in Request
      BY <2>0, <3>1, <3>2, OneField
    <3> QED
      BY <2>0, <3>3 DEF Idle
  <2>2. req'[c] = r /\ locks'[c] = {Upload(o)}
    BY <1>3 DEF IInv, TypeOK, Enter
  <2>3. artifact'[o] = None /\ o \notin swept'
    BY <1>3 DEF IInv, OriginalInv, Complete, uploadVars
  <2>4. ClientInv(c)'
    BY <2>1, <2>2, <2>3 DEF ClientInv, OriginalsOf, DatasetOf, Copying, OnDataset, Deriving
  <2>5. {Upload(o)} \in SUBSET Rows /\ \A row \in {Upload(o)} : Free(c, row)
    BY DEF Rows, Complete
  <2> HIDE DEF r
  <2>6. Enter(c, r, {Upload(o)})
    BY <1>3 DEF r
  <2> QED
    BY <1>1, <2>1, <2>4, <2>5, <2>6, Closes
<1> QED
  BY <1>2, <1>3 DEF Complete

LEMMA SweepInv ==
  ASSUME IInv, NEW c \in Clients, NEW o \in Originals, Sweep(c, o)
  PROVE  IInv'
<1> DEFINE r == [Idle EXCEPT !.at = "sweep", !.used = {o}]
<1>1. SharedInv' /\ \A b \in Clients : Steady(b)
  BY SharedStays DEF Sweep, Untouched
<1>2. r \in Request /\ r.at = "sweep" /\ r.used = {o}
  BY SingleFits DEF Steps
<1>3. req'[c] = r /\ locks'[c] = {Upload(o)} /\ age'[o] = "old"
  BY DEF IInv, TypeOK, Enter, Sweep, uploadVars
<1>4. ClientInv(c)'
  BY <1>2, <1>3 DEF ClientInv, OriginalsOf, DatasetOf, Copying, OnDataset, Deriving
<1>5. {Upload(o)} \in SUBSET Rows /\ \A row \in {Upload(o)} : Free(c, row)
  BY DEF Rows, Sweep
<1> HIDE DEF r
<1>6. Enter(c, r, {Upload(o)})
  BY DEF r, Sweep
<1> QED
  BY <1>1, <1>2, <1>4, <1>5, <1>6, Closes

\* Whoever holds a row holds it alone.
LEMMA HeldAlone ==
  ASSUME IInv, NEW c \in Clients, NEW row \in locks[c], NEW b \in Clients \ {c}
  PROVE  row \notin locks[b]
BY DEF IInv, LockInv

\* No other upload completes or is swept under the lock of the reservation.
LEMMA CopyInv ==
  ASSUME IInv, NEW c \in Clients, Copy(c)
  PROVE  IInv'
<1>1. PICK o \in Originals : req[c].used = {o} /\ The(c) = o
  BY TheOne DEF Copy, At, Single
<1> DEFINE r == [req[c] EXCEPT !.at = "register"]
<1>2. /\ Upload(o) \in locks[c] /\ artifact[o] = None /\ o \notin swept
      /\ req[c].bytes \in Contents /\ deletion[o] = "none"
  BY <1>1 DEF IInv, ClientInv, OriginalsOf, Copy, At, Copying, Single, OriginalInv, Available
<1>3. raw' = [raw EXCEPT ![o] = req[c].bytes]
  BY <1>1 DEF Copy
<1>4. /\ UNCHANGED <<age, swept, staging, artifact, deletion, sources, imports, extractions,
                     canonical, versions, locks>>
      /\ UNCHANGED derivedVars
  BY DEF Copy, derivedVars
<1>5. SharedTypes'
  BY <1>2, <1>3, <1>4 DEF IInv, TypeOK, SharedTypes, Bytes
<1>6. \A p \in Originals : OriginalInv(p)'
  BY <1>2, <1>3, <1>4 DEF IInv, TypeOK, OriginalInv, Available
<1>7. SharedInv'
  BY <1>4, <1>5, <1>6, StoreOnly
<1>8. \A b \in Clients \ {c} : Steady(b)
  BY <1>2, <1>3, <1>4, HeldAlone DEF IInv, TypeOK, Steady
<1>9. /\ Enter(c, r, locks[c]) /\ r \in Request /\ locks[c] \in SUBSET Rows
      /\ \A row \in locks[c] : Free(c, row)
  <2>1. Goto(c, "register") /\ "register" \in Steps /\ UNCHANGED locks
    BY DEF Copy, Steps
  <2> QED
    BY <2>1, GotoEnters
<1>10. r.at = "register" /\ r.used = {o} /\ r.bytes = req[c].bytes
  BY <1>1 DEF IInv, TypeOK, Request
<1>11. req'[c] = r
  BY <1>9 DEF IInv, TypeOK, Enter
<1>12. raw'[o] = req[c].bytes
  BY <1>3 DEF IInv, TypeOK
<1> HIDE DEF r
<1>13. ClientInv(c)'
  BY <1>2, <1>4, <1>10, <1>11, <1>12
     DEF ClientInv, OriginalsOf, DatasetOf, Copying, OnDataset, Deriving
<1> QED
  BY <1>7, <1>8, <1>9, <1>13, Closes

\* The registered hash is that of the bytes that were copied.
LEMMA RegisterInv ==
  ASSUME IInv, NEW c \in Clients, Register(c)
  PROVE  IInv'
<1>1. PICK o \in Originals : req[c].used = {o} /\ The(c) = o
  BY TheOne DEF Register, At, Single
<1> DEFINE r == [req[c] EXCEPT !.at = "clean"]
<1>2. /\ Upload(o) \in locks[c] /\ artifact[o] = None /\ o \notin swept
      /\ req[c].bytes \in Contents /\ raw[o] = req[c].bytes /\ deletion[o] = "none"
  BY <1>1 DEF IInv, ClientInv, OriginalsOf, Register, At, Copying, Single, OriginalInv, Available
<1>3. artifact' = [artifact EXCEPT ![o] = req[c].bytes] /\ req[c].bytes # None
  BY <1>1, <1>2, LibraryAssumption DEF Register
<1>4. /\ UNCHANGED <<age, swept, staging, raw, deletion, sources, imports, extractions,
                     canonical, versions>>
      /\ UNCHANGED derivedVars
  BY DEF Register, derivedVars
<1>5. SharedTypes'
  BY <1>2, <1>3, <1>4 DEF IInv, TypeOK, SharedTypes, Bytes
<1>6. \A p \in Originals : OriginalInv(p)'
  BY <1>2, <1>3, <1>4 DEF IInv, TypeOK, OriginalInv, Available
<1>7. \A p \in Originals : artifact[p] # None => artifact'[p] # None
  BY <1>2, <1>3 DEF IInv, TypeOK
<1>8. \A p \in Originals : ProvenanceInv(p)'
  BY <1>4, <1>7, RecordsStay DEF IInv, ProvenanceInv, Available
<1>9. SharedInv'
  BY <1>4, <1>5, <1>6, <1>8, RecordsStay DEF SharedInv
<1>10. \A b \in Clients \ {c} : Steady(b)
  BY <1>2, <1>3, <1>4, <1>7, HeldAlone DEF IInv, TypeOK, Steady
<1>11. r \in Request /\ r.at = "clean" /\ r.used = {o}
  BY <1>1 DEF IInv, TypeOK, Request, Steps
<1>12. Enter(c, r, {})
  BY DEF Register
<1>13. req'[c] = r
  BY <1>12 DEF IInv, TypeOK, Enter
<1> HIDE DEF r
<1>14. ClientInv(c)'
  BY <1>11, <1>13 DEF ClientInv, OriginalsOf, DatasetOf, Copying, OnDataset, Deriving
<1> QED
  BY <1>9, <1>10, <1>11, <1>12, <1>14, Closes

LEMMA CleanStagingInv ==
  ASSUME IInv, NEW c \in Clients, CleanStaging(c)
  PROVE  IInv'
<1>1. PICK o \in Originals : The(c) = o
  BY TheOne DEF CleanStaging, At, Single
<1>2. staging' = [staging EXCEPT ![o] = None]
  BY <1>1 DEF CleanStaging
<1>3. /\ UNCHANGED <<age, swept, raw, artifact, deletion, sources, imports, extractions,
                     canonical, versions>>
      /\ UNCHANGED derivedVars
  BY DEF CleanStaging, derivedVars
<1>4. SharedTypes'
  BY <1>2, <1>3 DEF IInv, TypeOK, SharedTypes
<1>5. \A p \in Originals : OriginalInv(p)'
  BY <1>2, <1>3 DEF IInv, TypeOK, OriginalInv, Available
<1>6. \A b \in Clients : Steady(b)
  BY <1>3 DEF Steady
<1> QED
  BY <1>3, <1>4, <1>5, <1>6, StoreOnly, Ends DEF CleanStaging

\* A registered original survives the sweep of its reservation.
LEMMA SweepDoneInv ==
  ASSUME IInv, NEW c \in Clients, SweepDone(c)
  PROVE  IInv'
<1>1. PICK o \in Originals : req[c].used = {o} /\ The(c) = o
  BY TheOne DEF SweepDone, At, Single
<1>2. Upload(o) \in locks[c] /\ age[o] = "old"
  BY <1>1 DEF IInv, ClientInv, OriginalsOf, SweepDone, At, Copying
<1>3. /\ staging' = [staging EXCEPT ![o] = None] /\ swept' = swept \cup {o}
      /\ raw' = IF artifact[o] = None THEN [raw EXCEPT ![o] = None] ELSE raw
  BY <1>1 DEF SweepDone, Abandoned
<1>4. /\ UNCHANGED <<age, artifact, deletion, sources, imports, extractions, canonical, versions>>
      /\ UNCHANGED derivedVars
  BY DEF SweepDone, derivedVars
<1>5. \A p \in Originals : raw'[p] = raw[p] \/ (p = o /\ artifact[p] = None /\ raw'[p] = None)
  BY <1>3 DEF IInv, TypeOK
<1>6. raw' \in [Originals -> Bytes \cup {None}]
  BY <1>3 DEF IInv, TypeOK
<1>7. SharedTypes'
  BY <1>3, <1>4, <1>6 DEF IInv, TypeOK, SharedTypes
<1>8. ASSUME NEW p \in Originals
      PROVE  OriginalInv(p)'
  <2>1. OriginalInv(p) /\ (p # o => raw'[p] = raw[p]) /\ (artifact[p] # None => raw'[p] = raw[p])
    BY <1>5 DEF IInv
  <2>2. /\ p # o => staging'[p] = staging[p]
        /\ p = o => staging'[p] = None /\ age[p] = "old" /\ (artifact[p] = None => raw'[p] = None)
    BY <1>2, <1>3 DEF IInv, TypeOK
  <2> QED
    BY <1>3, <1>4, <1>5, <2>1, <2>2 DEF OriginalInv, Available
<1>9. SharedInv'
  BY <1>4, <1>7, <1>8, StoreOnly
<1>10. \A b \in Clients \ {c} : Steady(b)
  <2> SUFFICES ASSUME NEW b \in Clients \ {c}
               PROVE  Steady(b)
    OBVIOUS
  <2>1. Upload(o) \notin locks[b]
    BY <1>2, HeldAlone
  <2>2. \A p \in Originals : Upload(p) \in locks[b] => raw'[p] = raw[p] /\ (p \in swept' => p \in swept)
    BY <1>3, <1>5, <2>1
  <2>3. \A p \in Originals : raw[p] = None => raw'[p] = None
    BY <1>5
  <2> QED
    BY <1>4, <2>2, <2>3 DEF Steady
<1> QED
  BY <1>9, <1>10, Ends DEF SweepDone

-----------------------------------------------------------------------------
(* Attachment, removal and deletion.                                       *)

LEMMA BeginAttachInv ==
  ASSUME IInv, NEW c \in Clients, NEW d \in Datasets, NEW o \in Originals, BeginAttach(c, d, o)
  PROVE  IInv'
<1> DEFINE r == OnPair("attach", d, o)
<1>1. SharedInv' /\ \A b \in Clients : Steady(b)
  BY SharedStays DEF BeginAttach, Untouched
<1>2. r \in Request /\ r.at = "attach" /\ r.data = d /\ r.used = {o}
  <2>1. "attach" \in Steps
    BY DEF Steps
  <2> QED
    BY <2>1, PairFits
<1>3. Enter(c, r, {}) /\ artifact'[o] # None
  BY DEF BeginAttach, uploadVars, OnPair
<1>4. req'[c] = r
  BY <1>3 DEF IInv, TypeOK, Enter
<1> HIDE DEF r
<1>5. ClientInv(c)'
  BY <1>2, <1>3, <1>4 DEF ClientInv, OriginalsOf, DatasetOf, Copying, OnDataset, Deriving
<1> QED
  BY <1>1, <1>2, <1>3, <1>5, Closes

\* Only an original that is registered and not to be deleted gets a source more.
LEMMA AttachInv ==
  ASSUME IInv, NEW c \in Clients, Attach(c)
  PROVE  IInv'
<1>1. PICK o \in Originals : req[c].used = {o} /\ The(c) = o
  BY TheOne DEF Attach, At, Single
<1>2. PICK d \in Datasets : req[c].data = d
  BY DEF Attach, At, IInv, ClientInv, DatasetOf
<1>3. artifact[o] # None
  BY <1>1 DEF Attach, At, IInv, ClientInv, OriginalsOf
<1>4. sources' = IF deletion[o] = "none" THEN sources \cup {<<d, o>>} ELSE sources
  BY <1>1, <1>2 DEF Attach, Available
<1>5. /\ UNCHANGED <<age, swept, staging, raw, artifact, deletion, imports, extractions,
                     canonical, versions>>
      /\ UNCHANGED derivedVars
  BY DEF Attach, derivedVars, uploadVars
<1>6. SharedTypes'
  BY <1>4, <1>5 DEF IInv, TypeOK, SharedTypes
<1>7. \A p \in Originals : OriginalInv(p)'
  BY <1>5 DEF IInv, OriginalInv, Available
<1>8. ASSUME NEW p \in Originals
      PROVE  ProvenanceInv(p)'
  <2>1. ProvenanceInv(p) /\ DerivedFrom(p)' = DerivedFrom(p) /\ sources \subseteq sources'
    BY <1>4, <1>5, RecordsStay DEF IInv
  <2>2. \A e \in Datasets : <<e, p>> \in sources' => <<e, p>> \in sources \/ p = o
    BY <1>4
  <2>3. deletion[p] # "none" => \A e \in Datasets : <<e, p>> \in sources' <=> <<e, p>> \in sources
    BY <1>4
  <2>4. \A e \in Datasets : <<e, p>> \in sources' => artifact'[p] # None
    BY <1>3, <1>5, <2>1, <2>2 DEF ProvenanceInv
  <2>5. \A e \in DerivedFrom(p)' : <<e, p>> \in sources'
    BY <2>1 DEF ProvenanceInv
  <2>6. deletion'[p] # "none" =>
          /\ DerivedFrom(p)' = {}
          /\ \E f \in Datasets : {e \in Datasets : <<e, p>> \in sources'} = {f}
    BY <1>5, <2>1, <2>3 DEF ProvenanceInv, Available
  <2> QED
    BY <2>4, <2>5, <2>6 DEF ProvenanceInv, Available
<1>9. SharedInv'
  BY <1>5, <1>6, <1>7, <1>8, RecordsStay DEF SharedInv
<1>10. \A b \in Clients : Steady(b)
  BY <1>4, <1>5 DEF Steady
<1> QED
  BY <1>9, <1>10, Ends DEF Attach

\* Nothing was derived, and nobody works on the dataset.
LEMMA RemoveInv ==
  ASSUME IInv, NEW d \in Datasets, NEW o \in Originals, Remove(d, o)
  PROVE  IInv'
<1>1. /\ sources' = sources \ {<<d, o>>} /\ deletion[o] = "none"
      /\ \A b \in Clients : Dataset(d) \notin locks[b]
  BY DEF Remove, Available
<1>2. d \notin DerivedFrom(o)
  BY DEF Remove, Underived, DerivedFrom
<1>3. /\ UNCHANGED <<age, swept, staging, raw, artifact, deletion, imports, extractions,
                     canonical, versions>>
      /\ UNCHANGED derivedVars
  BY DEF Remove, derivedVars, uploadVars
<1>4. SharedTypes'
  BY <1>1, <1>3 DEF IInv, TypeOK, SharedTypes
<1>5. \A p \in Originals : OriginalInv(p)'
  BY <1>3 DEF IInv, OriginalInv, Available
<1>6. ASSUME NEW p \in Originals
      PROVE  ProvenanceInv(p)'
  <2>1. ProvenanceInv(p) /\ DerivedFrom(p)' = DerivedFrom(p) /\ sources' \subseteq sources
    BY <1>1, <1>3, RecordsStay DEF IInv
  <2>2. \A e \in Datasets : <<e, p>> \in sources =>
          <<e, p>> \in sources' \/ (e = d /\ p = o)
    BY <1>1
  <2>3. deletion[p] # "none" => \A e \in Datasets : <<e, p>> \in sources' <=> <<e, p>> \in sources
    BY <1>1, <2>1, <2>2
  <2>4. \A e \in Datasets : <<e, p>> \in sources' => artifact'[p] # None
    BY <1>3, <2>1 DEF ProvenanceInv
  <2>5. \A e \in DerivedFrom(p)' : <<e, p>> \in sources'
    BY <1>2, <2>1, <2>2 DEF ProvenanceInv, DerivedFrom
  <2>6. deletion'[p] # "none" =>
          /\ DerivedFrom(p)' = {}
          /\ \E f \in Datasets : {e \in Datasets : <<e, p>> \in sources'} = {f}
    BY <1>3, <2>1, <2>3 DEF ProvenanceInv, Available
  <2> QED
    BY <2>4, <2>5, <2>6 DEF ProvenanceInv, Available
<1>7. SharedInv'
  BY <1>3, <1>4, <1>5, <1>6, RecordsStay DEF SharedInv
<1>8. \A b \in Clients : Steady(b)
  BY <1>1, <1>3 DEF Steady
<1> QED
  BY <1>7, <1>8, Elsewhere DEF Remove

\* The intent waits for the requests that hold the original, and comes before the erasure.
LEMMA DeleteRawInv ==
  ASSUME IInv, NEW c \in Clients, NEW d \in Datasets, NEW o \in Originals, DeleteRaw(c, d, o)
  PROVE  IInv'
<1> DEFINE r == [Idle EXCEPT !.at = "erase", !.used = {o}]
<1>1. /\ deletion' = IF deletion[o] = "none" THEN [deletion EXCEPT ![o] = "requested"]
                     ELSE deletion
      /\ <<d, o>> \in sources /\ Free(c, Artifact(o)) /\ Enter(c, r, {})
  BY DEF DeleteRaw, Available
<1>2. artifact[o] # None
  BY <1>1 DEF IInv, ProvenanceInv
<1>3. /\ UNCHANGED <<age, swept, staging, raw, artifact, sources, imports, extractions,
                     canonical, versions>>
      /\ UNCHANGED derivedVars
  BY DEF DeleteRaw, derivedVars, uploadVars
<1>4. /\ \A p \in Originals : deletion'[p] = IF p = o /\ deletion[o] = "none" THEN "requested"
                                            ELSE deletion[p]
      /\ deletion' \in [Originals -> {"none", "requested", "deleted"}]
  BY <1>1 DEF IInv, TypeOK
<1>5. SharedTypes'
  BY <1>3, <1>4 DEF IInv, TypeOK, SharedTypes
<1>6. \A p \in Originals : OriginalInv(p)'
  BY <1>2, <1>3, <1>4 DEF IInv, OriginalInv, Available
<1>7. ASSUME NEW p \in Originals
      PROVE  ProvenanceInv(p)'
  <2>1. ProvenanceInv(p) /\ DerivedFrom(p)' = DerivedFrom(p)
    BY <1>3, RecordsStay DEF IInv
  <2>2. CASE p = o /\ deletion[o] = "none"
    <3>1. \A e \in Datasets : <<e, o>> \in sources => e = d
      BY <2>2 DEF DeleteRaw, Available, Shared
    <3>2. d \notin DerivedFrom(o)
      BY <2>2 DEF DeleteRaw, Available, Underived, DerivedFrom
    <3>3. DerivedFrom(o) = {}
      BY <2>1, <2>2, <3>1, <3>2 DEF ProvenanceInv, DerivedFrom
    <3>4. {e \in Datasets : <<e, o>> \in sources} = {d}
      BY <1>1, <3>1
    <3> QED
      BY <1>3, <2>1, <2>2, <3>3, <3>4 DEF ProvenanceInv
  <2>3. CASE deletion'[p] = deletion[p]
    BY <1>3, <2>1, <2>3 DEF ProvenanceInv, Available
  <2> QED
    BY <1>4, <2>2, <2>3
<1>8. SharedInv'
  BY <1>3, <1>5, <1>6, <1>7, RecordsStay DEF SharedInv
<1>9. \A b \in Clients \ {c} : Steady(b)
  BY <1>1, <1>3, <1>4 DEF Steady, Free
<1>10. r \in Request /\ r.at = "erase" /\ r.used = {o}
  BY SingleFits DEF Steps
<1>11. req'[c] = r /\ deletion'[o] # "none"
  BY <1>1, <1>4 DEF IInv, TypeOK, Enter
<1> HIDE DEF r
<1>12. ClientInv(c)'
  BY <1>10, <1>11 DEF ClientInv, OriginalsOf, DatasetOf, Copying, OnDataset, Deriving
<1> QED
  BY <1>1, <1>8, <1>9, <1>10, <1>12, Closes

LEMMA EraseInv ==
  ASSUME IInv, NEW c \in Clients, Erase(c)
  PROVE  IInv'
<1>1. PICK o \in Originals : req[c].used = {o} /\ The(c) = o
  BY TheOne DEF Erase, At, Single
<1> DEFINE r == [req[c] EXCEPT !.at = "erased"]
<1>2. deletion[o] # "none" /\ artifact[o] # None
  BY <1>1 DEF IInv, ClientInv, OriginalsOf, Erase, At, OriginalInv, Available
<1>3. raw' = [raw EXCEPT ![o] = None]
  BY <1>1 DEF Erase
<1>4. /\ UNCHANGED <<age, swept, staging, artifact, deletion, sources, imports, extractions,
                     canonical, versions, locks>>
      /\ UNCHANGED derivedVars
  BY DEF Erase, derivedVars
<1>5. SharedTypes'
  BY <1>3, <1>4 DEF IInv, TypeOK, SharedTypes
<1>6. \A p \in Originals : OriginalInv(p)'
  BY <1>2, <1>3, <1>4 DEF IInv, TypeOK, OriginalInv, Available
<1>7. SharedInv'
  BY <1>4, <1>5, <1>6, StoreOnly
<1>8. \A b \in Clients \ {c} : Steady(b)
  BY <1>2, <1>3, <1>4 DEF IInv, TypeOK, Steady
<1>9. /\ Enter(c, r, locks[c]) /\ r \in Request /\ locks[c] \in SUBSET Rows
      /\ \A row \in locks[c] : Free(c, row)
  <2>1. Goto(c, "erased") /\ "erased" \in Steps /\ UNCHANGED locks
    BY DEF Erase, Steps
  <2> QED
    BY <2>1, GotoEnters
<1>10. r.at = "erased" /\ r.used = {o} /\ raw'[o] = None
  BY <1>1, <1>3 DEF IInv, TypeOK, Request
<1>11. req'[c] = r
  BY <1>9 DEF IInv, TypeOK, Enter
<1> HIDE DEF r
<1>12. ClientInv(c)'
  BY <1>2, <1>4, <1>10, <1>11
     DEF ClientInv, OriginalsOf, DatasetOf, Copying, OnDataset, Deriving
<1> QED
  BY <1>7, <1>8, <1>9, <1>12, Closes

LEMMA ErasedInv ==
  ASSUME IInv, NEW c \in Clients, Erased(c)
  PROVE  IInv'
<1>1. PICK o \in Originals : req[c].used = {o} /\ The(c) = o
  BY TheOne DEF Erased, At, Single
<1>2. deletion[o] # "none" /\ raw[o] = None
  BY <1>1 DEF IInv, ClientInv, OriginalsOf, Erased, At
<1>3. /\ staging' = [staging EXCEPT ![o] = None]
      /\ deletion' = [deletion EXCEPT ![o] = "deleted"]
  BY <1>1 DEF Erased
<1>4. /\ UNCHANGED <<age, swept, raw, artifact, sources, imports, extractions, canonical, versions>>
      /\ UNCHANGED derivedVars
  BY DEF Erased, derivedVars
<1>5. SharedTypes'
  BY <1>3, <1>4 DEF IInv, TypeOK, SharedTypes
<1>6. \A p \in Originals : deletion'[p] = deletion[p] \/ (p = o /\ deletion'[p] = "deleted")
  BY <1>3 DEF IInv, TypeOK
<1>7. \A p \in Originals : OriginalInv(p)'
  BY <1>2, <1>3, <1>4, <1>6 DEF IInv, TypeOK, OriginalInv, Available
<1>8. \A p \in Originals : ProvenanceInv(p)'
  <2>1. \A p \in Originals : Available(p)' <=> Available(p)
    BY <1>2, <1>6 DEF Available
  <2> QED
    BY <1>4, <2>1, RecordsStay DEF IInv, ProvenanceInv
<1>9. SharedInv'
  BY <1>4, <1>5, <1>7, <1>8, RecordsStay DEF SharedInv
<1>10. \A b \in Clients : Steady(b)
  BY <1>2, <1>4, <1>6 DEF Steady
<1> QED
  BY <1>9, <1>10, Ends DEF Erased

-----------------------------------------------------------------------------
(* Extraction.                                                             *)

LEMMA IngestInv ==
  ASSUME IInv, NEW c \in Clients, NEW d \in Datasets, NEW chosen \in SUBSET Originals,
         Ingest(c, d, chosen)
  PROVE  IInv'
<1>1. PICK order \in Orders(chosen) : Enter(c, Extracting(d, order), {Dataset(d)})
  BY DEF Ingest, Extracting
<1> DEFINE r == Extracting(d, order)
<1>2. SharedInv' /\ \A b \in Clients : Steady(b)
  BY SharedStays DEF Ingest, Untouched
<1>3. order \in Seq(chosen) /\ order \in Seq(Originals)
  <2>1. Cardinality(chosen) \in Nat
    BY FS_CardinalityType DEF Ingest
  <2>2. order \in [1..Cardinality(chosen) -> chosen]
    BY DEF Orders
  <2> QED
    BY <2>1, <2>2
<1>4. r \in Request /\ r.at = "verify" /\ r.data = d /\ r.todo = order /\ r.used = {}
  BY <1>3, ExtractingFits
<1>5. req'[c] = r /\ locks'[c] = {Dataset(d)}
  BY <1>1 DEF IInv, TypeOK, Enter
<1>6. \A i \in DOMAIN order : <<d, order[i]>> \in sources'
  <2>1. \A i \in DOMAIN order : order[i] \in chosen
    BY <1>3
  <2>2. \A o \in chosen : <<d, o>> \in sources /\ sources' = sources
    BY DEF Ingest
  <2> QED
    BY <2>1, <2>2
<1>7. Cardinality(extractions'[d]) < MaxRows
  BY RoomInDataset DEF Ingest, derivedVars
<1>8. {Dataset(d)} \in SUBSET Rows /\ \A row \in {Dataset(d)} : Free(c, row)
  BY DEF Rows, Ingest, Exclusive
<1> HIDE DEF r
<1>9. ClientInv(c)'
  BY <1>4, <1>5, <1>6, <1>7
     DEF ClientInv, OriginalsOf, DatasetOf, Single, Copying, OnDataset, Deriving
<1>10. Enter(c, r, {Dataset(d)})
  BY <1>1 DEF r
<1> QED
  BY <1>2, <1>4, <1>8, <1>9, <1>10, Closes

\* Each original is locked as it is verified.
LEMMA VerifyInv ==
  ASSUME IInv, NEW c \in Clients, Verify(c)
  PROVE  IInv'
<1> DEFINE o == Head(req[c].todo)
           s == Tail(req[c].todo)
           u == req[c].used \cup {o}
           q == [req[c] EXCEPT !.todo = s]
           r == [req[c] EXCEPT !.todo = s, !.used = u]
           rows == locks[c] \cup {Artifact(o)}
<1>1. SharedInv' /\ \A b \in Clients : Steady(b)
  BY SharedStays DEF Verify, Untouched
<1>2. /\ req[c] \in Request /\ req[c].at = "verify" /\ req[c].todo \in Seq(Originals)
      /\ req[c].todo # <<>> /\ req[c].used \subseteq Originals
      /\ DatasetOf(c) /\ locks[c] \in SUBSET Rows
  BY DEF Verify, At, IInv, TypeOK, ClientInv, Request
<1>3. CASE Leave(c)
  BY <1>1, <1>3, Ends
<1>4. CASE Enter(c, r, rows) /\ Available(o) /\ Free(c, Artifact(o))
  <2>1. /\ o \in Originals /\ s \in Seq(Originals) /\ o = req[c].todo[1] /\ 1 \in DOMAIN req[c].todo
        /\ \A i \in DOMAIN s : s[i] = req[c].todo[i + 1] /\ i + 1 \in DOMAIN req[c].todo
    BY <1>2
  <2> HIDE DEF o, s
  <2>2. q \in Request /\ u \in SUBSET Originals
    BY <1>2, <2>1, OneField
  <2>3. /\ r.at = "verify" /\ r.data = req[c].data /\ r.todo = s /\ r.used = u
        /\ r = [q EXCEPT !.used = u]
    BY <1>2 DEF Request
  <2> HIDE DEF q
  <2>4. r \in Request
    BY <2>2, <2>3, OneField
  <2>5. rows \in SUBSET Rows /\ \A row \in rows : Free(c, row)
    BY <1>2, <1>4, <2>1 DEF Rows, IInv, LockInv, Free
  <2>6. req'[c] = r /\ locks'[c] = rows
    BY <1>4 DEF IInv, TypeOK, Enter
  <2>7. UNCHANGED <<deletion, sources, extractions>>
    BY DEF Verify, derivedVars
  <2>8. r.data \in Datasets /\ Dataset(r.data) \in rows
    BY <1>2, <2>3 DEF DatasetOf, OnDataset, Deriving
  <2>9. \A p \in u : Artifact(p) \in rows /\ Available(p)' /\ <<r.data, p>> \in sources'
    BY <1>2, <1>4, <2>1, <2>3, <2>7 DEF DatasetOf, Deriving, Available
  <2>10. \A i \in DOMAIN s : <<r.data, s[i]>> \in sources'
    <3>1. \A i \in DOMAIN req[c].todo : <<req[c].data, req[c].todo[i]>> \in sources
      BY <1>2 DEF DatasetOf
    <3>2. r.data = req[c].data /\ sources' = sources
      BY <2>3, <2>7
    <3> HIDE DEF r
    <3> QED
      BY <2>1, <3>1, <3>2
  <2>11. Cardinality(extractions'[r.data]) < MaxRows
    BY <1>2, <2>3, <2>7 DEF DatasetOf
  <2> HIDE DEF u, r, rows
  <2>12. ClientInv(c)'
    BY <2>3, <2>6, <2>8, <2>9, <2>10, <2>11
       DEF ClientInv, OriginalsOf, DatasetOf, Single, Copying, OnDataset, Deriving
  <2>13. Enter(c, r, rows)
    BY <1>4
  <2> QED
    BY <1>1, <2>4, <2>5, <2>12, <2>13, Closes
<1> QED
  BY <1>3, <1>4 DEF Verify

\* The number is the next one, and stays it under the lock of the dataset.
LEMMA AllocateInv ==
  ASSUME IInv, NEW c \in Clients, Allocate(c)
  PROVE  IInv'
<1> DEFINE n == NextNumber(extractions[req[c].data])
           q == [req[c] EXCEPT !.at = "extraction"]
           r == [req[c] EXCEPT !.at = "extraction", !.number = n]
<1>1. SharedInv' /\ \A b \in Clients : Steady(b)
  BY SharedStays DEF Allocate, Untouched
<1>2. req[c] \in Request /\ req[c].at = "verify" /\ DatasetOf(c) /\ locks[c] \in SUBSET Rows
  BY DEF Allocate, At, IInv, TypeOK, ClientInv
<1>3. PICK d \in Datasets : req[c].data = d
  BY <1>2 DEF DatasetOf, OnDataset, Deriving
<1>4. Numbered(extractions[d])
  BY DEF IInv, DatasetInv
<1>5. /\ Cardinality(extractions[d]) \in Nat /\ n = Cardinality(extractions[d]) + 1
      /\ n \in Nat /\ n <= MaxRows
  <2>1. Cardinality(extractions[d]) \in Nat /\ n = Cardinality(extractions[d]) + 1
    BY <1>3, <1>4, NextIsFresh
  <2>2. Cardinality(extractions[d]) < MaxRows
    BY <1>2, <1>3 DEF DatasetOf
  <2> QED
    BY <2>1, <2>2, LibraryAssumption
<1> HIDE DEF n
<1>6. q \in Request
  BY <1>2, OneField DEF Steps
<1>7. /\ r.at = "extraction" /\ r.data = d /\ r.used = req[c].used /\ r.number = n
      /\ r = [q EXCEPT !.number = n]
  BY <1>2, <1>3 DEF Request
<1> HIDE DEF q
<1>8. r \in Request
  BY <1>5, <1>6, <1>7, OneField
<1>9. Enter(c, r, locks[c])
  <2>1. req' = [req EXCEPT ![c] = r]
    BY DEF Allocate, n, IInv, TypeOK
  <2>2. locks' = [locks EXCEPT ![c] = locks[c]]
    BY DEF Allocate, IInv, TypeOK
  <2> QED
    BY <2>1, <2>2 DEF Enter
<1>10. req'[c] = r /\ locks'[c] = locks[c]
  BY <1>9 DEF IInv, TypeOK, Enter
<1>11. UNCHANGED <<deletion, sources, extractions>>
  BY DEF Allocate, derivedVars
<1>12. Dataset(d) \in locks[c] /\ \A p \in r.used :
         Artifact(p) \in locks[c] /\ Available(p)' /\ <<d, p>> \in sources'
  BY <1>2, <1>3, <1>7, <1>11 DEF DatasetOf, OnDataset, Deriving, Available
<1>13. \A row \in locks[c] : Free(c, row)
  BY DEF IInv, LockInv, Free
<1> HIDE DEF r
<1>14. ClientInv(c)'
  BY <1>3, <1>5, <1>7, <1>10, <1>11, <1>12
     DEF ClientInv, OriginalsOf, DatasetOf, Single, Copying, OnDataset, Deriving
<1> QED
  BY <1>1, <1>2, <1>8, <1>9, <1>13, <1>14, Closes

\* A row of extractions or versions more is one more in all.
LEMMA OneMoreRow ==
  ASSUME IInv, NEW d \in Datasets, NEW x,
         \/ /\ extractions' = [extractions EXCEPT ![d] = @ \cup {x}] /\ UNCHANGED versions
         \/ /\ versions' = [versions EXCEPT ![d] = @ \cup {x}] /\ UNCHANGED extractions
  PROVE  IsFiniteSet(AllRows')
<1>1. AllRows' \subseteq AllRows \cup {<<d, x>>}
  BY DEF AllRows, IInv, TypeOK
<1>2. IsFiniteSet(AllRows \cup {<<d, x>>})
  BY FS_AddElement DEF IInv
<1> QED
  BY <1>1, <1>2, FS_Subset

\* The row that is added has the number allocated, the verified originals, and their
\* documents if the run was a success.
LEMMA CommitExtractionInv ==
  ASSUME IInv, NEW c \in Clients, CommitExtraction(c)
  PROVE  IInv'
<1>1. /\ req[c] \in Request /\ req[c].at = "extraction" /\ DatasetOf(c)
  BY DEF CommitExtraction, At, IInv, TypeOK, ClientInv
<1>2. PICK d \in Datasets, n \in Nat, used \in SUBSET Originals :
        /\ req[c].data = d /\ req[c].number = n /\ req[c].used = used
        /\ n = Cardinality(extractions[d]) + 1 /\ n <= MaxRows /\ Dataset(d) \in locks[c]
        /\ \A o \in used : Available(o) /\ <<d, o>> \in sources
  BY <1>1 DEF DatasetOf, OnDataset, Deriving, Request
<1>3. PICK good \in {{}, used \cap Documents} :
        /\ extractions' = [extractions EXCEPT ![d] = @ \cup
             {[number |-> n, used |-> used, good |-> good]}]
        /\ canonical' = [s \in DOMAIN canonical |->
             IF s[1] = d /\ s[2] \in good /\ canonical[s] = 0 THEN n ELSE canonical[s]]
  BY <1>2 DEF CommitExtraction
<1> DEFINE x == [number |-> n, used |-> used, good |-> good]
<1>4. UNCHANGED <<age, swept, staging, raw, artifact, deletion, sources, imports, versions>>
  BY DEF CommitExtraction, uploadVars
<1>5. /\ Leave(c) /\ good \subseteq used \cap Documents
      /\ x.number = n /\ x.used = used /\ x.good = good
  BY DEF CommitExtraction
<1>6. Numbered(extractions[d]) /\ Cardinality(extractions[d]) \in Nat /\ CanonicalInv(d)
  BY <1>2, FS_CardinalityType DEF IInv, DatasetInv, Numbered
<1>7. n \in 1..MaxRows /\ \A y \in extractions[d] : y.number \in 1..(n - 1)
  BY <1>2, <1>6, LibraryAssumption DEF Numbered, Numbers
<1>8. x \in ExtractionRow
  BY <1>2, <1>5, <1>7 DEF ExtractionRow
<1>9. /\ extractions'[d] = extractions[d] \cup {x}
      /\ \A e \in Datasets \ {d} : extractions'[e] = extractions[e]
      /\ extractions' \in [Datasets -> SUBSET ExtractionRow]
  BY <1>2, <1>3, <1>8 DEF IInv, TypeOK
<1>10. Numbered(extractions[d] \cup {x})
  BY <1>2, <1>5, <1>6, RowAdded
<1>11. /\ canonical' \in [Datasets \X Originals -> 0..MaxRows]
       /\ \A e \in Datasets, o \in Originals : canonical'[<<e, o>>] =
            IF e = d /\ o \in good /\ canonical[<<e, o>>] = 0 THEN n ELSE canonical[<<e, o>>]
  <2>1. canonical \in [Datasets \X Originals -> 0..MaxRows] /\ n \in 0..MaxRows
    BY <1>7, LibraryAssumption DEF IInv, TypeOK
  <2> QED
    BY <1>3, <2>1
<1>12. SharedTypes'
  BY <1>4, <1>9, <1>11 DEF IInv, TypeOK, SharedTypes
<1>13. IsFiniteSet(AllRows')
  <2>1. extractions' = [extractions EXCEPT ![d] = @ \cup {x}]
    BY <1>3
  <2> HIDE DEF x
  <2> QED
    BY <1>2, <1>4, <2>1, OneMoreRow
<1>14. \A o \in Originals : OriginalInv(o)'
  BY <1>4 DEF IInv, OriginalInv, Available
<1>15. ASSUME NEW o \in Originals
       PROVE  ProvenanceInv(o)'
  <2>1. ProvenanceInv(o)
    BY DEF IInv
  <2>2. \A e \in DerivedFrom(o)' : e \in DerivedFrom(o) \/ (e = d /\ o \in used)
    <3> SUFFICES ASSUME NEW e \in Datasets, e \in DerivedFrom(o)'
                 PROVE  e \in DerivedFrom(o) \/ (e = d /\ o \in used)
      BY DEF DerivedFrom
    <3>1. \/ <<e, o>> \in imports
          \/ \E y \in extractions'[e] \cup versions[e] : o \in y.used
      BY <1>4 DEF DerivedFrom
    <3>2. \A y \in extractions'[e] : y \in extractions[e] \/ (e = d /\ y.used = used)
      BY <1>5, <1>9
    <3> QED
      BY <3>1, <3>2 DEF DerivedFrom
  <2>3. \A e \in DerivedFrom(o)' : <<e, o>> \in sources
    BY <1>2, <2>1, <2>2 DEF ProvenanceInv
  <2>4. ~Available(o) => DerivedFrom(o)' = {}
    BY <1>2, <2>1, <2>2 DEF ProvenanceInv
  <2>5. UNCHANGED <<artifact, sources, deletion>>
    BY <1>4
  <2> QED
    BY <2>1, <2>3, <2>4, <2>5 DEF ProvenanceInv, Available
<1>16. CanonicalInv(d)'
  <2> SUFFICES ASSUME NEW o \in Originals
               PROVE  /\ First(d, o)' = {} => canonical'[<<d, o>>] = 0
                      /\ First(d, o)' # {} => /\ canonical'[<<d, o>>] \in First(d, o)'
                                              /\ \A m \in First(d, o)' : canonical'[<<d, o>>] <= m
    BY DEF CanonicalInv
  <2> DEFINE old == canonical[<<d, o>>]
             new == canonical'[<<d, o>>]
  <2>1. /\ First(d, o) = {} => old = 0
        /\ First(d, o) # {} => old \in First(d, o) /\ \A m \in First(d, o) : old <= m
    BY <1>6 DEF CanonicalInv
  <2>2. new = IF o \in good /\ old = 0 THEN n ELSE old
    BY <1>2, <1>11
  <2>3. First(d, o)' = IF o \in good THEN First(d, o) \cup {n} ELSE First(d, o)
    <3>1. First(d, o)' = {y.number : y \in {z \in extractions[d] \cup {x} : o \in z.good}}
      BY <1>9 DEF First
    <3>2. {z \in extractions[d] \cup {x} : o \in z.good}
            = IF o \in good THEN {z \in extractions[d] : o \in z.good} \cup {x}
              ELSE {z \in extractions[d] : o \in z.good}
      BY <1>5
    <3> HIDE DEF x
    <3> QED
      BY <1>5, <3>1, <3>2 DEF First
  <2>4. \A m \in First(d, o) : m \in 1..(n - 1)
    BY <1>7 DEF First
  <2>5. n \in Nat /\ n >= 1
    BY <1>7, LibraryAssumption
  <2> HIDE DEF old, new
  <2>6. CASE First(d, o) = {}
    BY <2>1, <2>2, <2>3, <2>5, <2>6 DEF new
  <2>7. CASE First(d, o) # {}
    <3>1. old # 0 /\ old \in 1..(n - 1)
      BY <2>1, <2>4, <2>7
    <3>2. new = old
      BY <2>2, <3>1
    <3>3. \A m \in First(d, o)' : old <= m
      BY <2>1, <2>3, <2>5, <2>7, <3>1
    <3>4. old \in First(d, o)'
      BY <2>1, <2>3, <2>7
    <3> QED
      BY <3>2, <3>3, <3>4 DEF new
  <2> QED
    BY <2>6, <2>7
<1>17. ASSUME NEW e \in Datasets \ {d}
       PROVE  DatasetInv(e)'
  <2>1. DatasetInv(e) /\ extractions'[e] = extractions[e] /\ versions' = versions
    BY <1>4, <1>9 DEF IInv
  <2>2. \A o \in Originals : canonical'[<<e, o>>] = canonical[<<e, o>>] /\ First(e, o)' = First(e, o)
    BY <1>11, <2>1 DEF First
  <2> QED
    BY <2>1, <2>2 DEF DatasetInv, CanonicalInv
<1>18. DatasetInv(d)'
  <2>1. Numbered(versions'[d])
    BY <1>2, <1>4 DEF IInv, DatasetInv
  <2> QED
    BY <1>9, <1>10, <1>16, <2>1 DEF DatasetInv
<1>19. SharedInv'
  BY <1>2, <1>12, <1>13, <1>14, <1>15, <1>17, <1>18 DEF SharedInv
<1>20. ASSUME NEW b \in Clients \ {c}
       PROVE  Steady(b)
  <2>1. Dataset(d) \notin locks[b]
    BY <1>2, HeldAlone
  <2>2. \A e \in Datasets : Dataset(e) \in locks[b] => extractions'[e] = extractions[e]
    BY <1>9, <2>1
  <2> QED
    BY <1>4, <2>2 DEF Steady
<1> QED
  BY <1>5, <1>19, <1>20, Ends

-----------------------------------------------------------------------------
(* Imports and versions.                                                   *)

LEMMA ImportInv ==
  ASSUME IInv, NEW c \in Clients, NEW d \in Datasets, NEW o \in Originals, Import(c, d, o)
  PROVE  IInv'
<1> DEFINE r == OnPair("import", d, o)
           rows == {Dataset(d), Artifact(o)}
<1>1. SharedInv' /\ \A b \in Clients : Steady(b)
  BY SharedStays DEF Import, Untouched
<1>2. r \in Request /\ r.at = "import" /\ r.data = d /\ r.used = {o}
  <2>1. "import" \in Steps
    BY DEF Steps
  <2> QED
    BY <2>1, PairFits
<1>3. Enter(c, r, rows)
  BY DEF Import, OnPair
<1>4. req'[c] = r /\ locks'[c] = rows
  BY <1>3 DEF IInv, TypeOK, Enter
<1>5. rows \in SUBSET Rows /\ \A row \in rows : Free(c, row)
  BY DEF Import, Rows
<1>6. Available(o)' /\ <<d, o>> \in sources'
  BY DEF Import, Available
<1> HIDE DEF r
<1>7. ClientInv(c)'
  BY <1>2, <1>4, <1>6
     DEF ClientInv, OriginalsOf, DatasetOf, Single, Copying, OnDataset, Deriving
<1> HIDE DEF rows
<1> QED
  BY <1>1, <1>2, <1>3, <1>5, <1>7, Closes

LEMMA CommitImportInv ==
  ASSUME IInv, NEW c \in Clients, CommitImport(c)
  PROVE  IInv'
<1>1. PICK o \in Originals : req[c].used = {o} /\ The(c) = o
  BY TheOne DEF CommitImport, At, Single
<1>2. PICK d \in Datasets : req[c].data = d
  BY DEF CommitImport, At, IInv, ClientInv, DatasetOf, OnDataset, Deriving
<1>3. Available(o) /\ <<d, o>> \in sources
  BY <1>1, <1>2 DEF CommitImport, At, IInv, ClientInv, DatasetOf, Deriving
<1>4. imports' = imports \cup {<<d, o>>}
  BY <1>1, <1>2 DEF CommitImport
<1>5. UNCHANGED <<age, swept, staging, raw, artifact, deletion, sources, extractions,
                  canonical, versions>>
  BY DEF CommitImport, uploadVars
<1>6. SharedTypes'
  BY <1>4, <1>5 DEF IInv, TypeOK, SharedTypes
<1>7. IsFiniteSet(AllRows') /\ \A e \in Datasets : DatasetInv(e)'
  BY <1>5 DEF IInv, AllRows, DatasetInv, CanonicalInv, First
<1>8. \A p \in Originals : OriginalInv(p)'
  BY <1>5 DEF IInv, OriginalInv, Available
<1>9. ASSUME NEW p \in Originals
      PROVE  ProvenanceInv(p)'
  <2>1. ProvenanceInv(p)
    BY DEF IInv
  <2>2. \A e \in DerivedFrom(p)' : e \in DerivedFrom(p) \/ (e = d /\ p = o)
    BY <1>4, <1>5 DEF DerivedFrom
  <2>3. \A e \in DerivedFrom(p)' : <<e, p>> \in sources
    BY <1>3, <2>1, <2>2 DEF ProvenanceInv
  <2>4. ~Available(p) => DerivedFrom(p)' = {}
    BY <1>3, <2>1, <2>2 DEF ProvenanceInv
  <2>5. UNCHANGED <<artifact, sources, deletion>>
    BY <1>5
  <2> QED
    BY <2>1, <2>3, <2>4, <2>5 DEF ProvenanceInv, Available
<1>10. SharedInv'
  BY <1>6, <1>7, <1>8, <1>9 DEF SharedInv
<1>11. \A b \in Clients : Steady(b)
  BY <1>4, <1>5 DEF Steady
<1> QED
  BY <1>10, <1>11, Ends DEF CommitImport

\* What a version is taken of was derived from its sources in this dataset already.
LEMMA CreateVersionInv ==
  ASSUME IInv, NEW c \in Clients, NEW d \in Datasets, NEW picked \in SUBSET extractions[d],
         NEW exports \in SUBSET Originals, CreateVersion(c, d, picked, exports)
  PROVE  IInv'
<1> DEFINE used == exports \cup UNION {x.used : x \in picked}
           n == NextNumber(versions[d])
           r == Snapshot(d, Numbers(picked), used, n)
<1>1. SharedInv' /\ \A b \in Clients : Steady(b)
  BY SharedStays DEF CreateVersion, Untouched
<1>2. extractions[d] \subseteq ExtractionRow
  BY DEF IInv, TypeOK
<1>3. Numbers(picked) \in SUBSET (1..MaxRows) /\ used \in SUBSET Originals
  BY <1>2 DEF Numbers, ExtractionRow
<1>4. \A o \in used : d \in DerivedFrom(o)
  BY DEF CreateVersion, Imported, DerivedFrom
<1>5. n \in Nat /\ n = Cardinality(versions[d]) + 1 /\ n <= MaxRows
  <2>1. Cardinality(versions[d]) \in Nat /\ n = Cardinality(versions[d]) + 1
    BY NextIsFresh DEF IInv, DatasetInv
  <2>2. Cardinality(versions[d]) < MaxRows
    BY RoomInDataset DEF CreateVersion
  <2> QED
    BY <2>1, <2>2, LibraryAssumption
<1>6. Enter(c, r, {Dataset(d)})
  BY DEF CreateVersion, Snapshot
<1> HIDE DEF used, n
<1>7. r \in Request /\ r.at = "version" /\ r.data = d /\ r.used = used /\ r.number = n
  BY <1>3, <1>5, SnapshotFits
<1>8. req'[c] = r /\ locks'[c] = {Dataset(d)}
  BY <1>6 DEF IInv, TypeOK, Enter
<1>9. {Dataset(d)} \in SUBSET Rows /\ \A row \in {Dataset(d)} : Free(c, row)
  BY DEF Rows, CreateVersion, Exclusive
<1>10. UNCHANGED <<imports, extractions, versions>>
  BY DEF CreateVersion, derivedVars
<1>11. \A o \in used : d \in DerivedFrom(o)'
  BY <1>4, <1>10 DEF DerivedFrom
<1>12. n = Cardinality(versions'[d]) + 1
  BY <1>5, <1>10
<1> HIDE DEF r
<1>13. ClientInv(c)'
  BY <1>5, <1>7, <1>8, <1>11, <1>12
     DEF ClientInv, OriginalsOf, DatasetOf, Single, Copying, OnDataset, Deriving
<1> QED
  BY <1>1, <1>6, <1>7, <1>9, <1>13, Closes

LEMMA CommitVersionInv ==
  ASSUME IInv, NEW c \in Clients, CommitVersion(c)
  PROVE  IInv'
<1>1. /\ req[c] \in Request /\ req[c].at = "version" /\ DatasetOf(c)
  BY DEF CommitVersion, At, IInv, TypeOK, ClientInv
<1>2. PICK d \in Datasets, n \in Nat, used \in SUBSET Originals, picked \in SUBSET (1..MaxRows) :
        /\ req[c].data = d /\ req[c].number = n /\ req[c].used = used /\ req[c].picked = picked
        /\ n = Cardinality(versions[d]) + 1 /\ n <= MaxRows /\ Dataset(d) \in locks[c]
        /\ \A o \in used : d \in DerivedFrom(o)
  BY <1>1 DEF DatasetOf, OnDataset, Deriving, Request
<1> DEFINE x == [number |-> n, used |-> used, picked |-> picked]
<1>3. versions' = [versions EXCEPT ![d] = @ \cup {x}] /\ Leave(c)
  BY <1>2 DEF CommitVersion
<1>4. UNCHANGED <<age, swept, staging, raw, artifact, deletion, sources, imports, extractions,
                  canonical>>
  BY DEF CommitVersion, uploadVars
<1>5. Numbered(versions[d]) /\ Cardinality(versions[d]) \in Nat
  BY <1>2, FS_CardinalityType DEF IInv, DatasetInv, Numbered
<1>6. x \in VersionRow /\ x.number = n /\ x.used = used
  BY <1>2, <1>5, LibraryAssumption DEF VersionRow
<1> HIDE DEF x
<1>7. /\ versions'[d] = versions[d] \cup {x}
      /\ \A e \in Datasets \ {d} : versions'[e] = versions[e]
      /\ versions' \in [Datasets -> SUBSET VersionRow]
  BY <1>2, <1>3, <1>6 DEF IInv, TypeOK
<1>8. SharedTypes'
  BY <1>4, <1>7 DEF IInv, TypeOK, SharedTypes
<1>9. IsFiniteSet(AllRows')
  BY <1>2, <1>3, <1>4, OneMoreRow
<1>10. \A o \in Originals : OriginalInv(o)'
  BY <1>4 DEF IInv, OriginalInv, Available
<1>11. ASSUME NEW o \in Originals
       PROVE  ProvenanceInv(o)'
  <2>1. ProvenanceInv(o)
    BY DEF IInv
  <2>2. \A e \in Datasets : \A y \in versions'[e] : y \in versions[e] \/ (e = d /\ y.used = used)
    BY <1>6, <1>7
  <2>3. DerivedFrom(o)' \subseteq DerivedFrom(o)
    <3> SUFFICES ASSUME NEW e \in Datasets, e \in DerivedFrom(o)'
                 PROVE  e \in DerivedFrom(o)
      BY DEF DerivedFrom
    <3>1. \/ <<e, o>> \in imports
          \/ \E y \in extractions[e] \cup versions'[e] : o \in y.used
      BY <1>4 DEF DerivedFrom
    <3>2. CASE e = d /\ o \in used
      BY <1>2, <3>2
    <3>3. CASE ~(e = d /\ o \in used)
      BY <2>2, <3>1, <3>3 DEF DerivedFrom
    <3> QED
      BY <3>2, <3>3
  <2>4. UNCHANGED <<artifact, sources, deletion>>
    BY <1>4
  <2> QED
    BY <2>1, <2>3, <2>4 DEF ProvenanceInv, Available
<1>12. ASSUME NEW e \in Datasets
       PROVE  DatasetInv(e)'
  <2>1. DatasetInv(e) /\ UNCHANGED <<extractions, canonical>>
    BY <1>4 DEF IInv
  <2>2. CanonicalInv(e)' /\ Numbered(extractions'[e])
    BY <2>1 DEF DatasetInv, CanonicalInv, First
  <2>3. Numbered(versions'[e])
    <3>1. CASE e = d
      BY <1>2, <1>5, <1>6, <1>7, <3>1, RowAdded
    <3>2. CASE e # d
      BY <1>7, <2>1, <3>2 DEF DatasetInv
    <3> QED
      BY <3>1, <3>2
  <2> QED
    BY <2>2, <2>3 DEF DatasetInv
<1>13. SharedInv'
  BY <1>8, <1>9, <1>10, <1>11, <1>12 DEF SharedInv
<1>14. ASSUME NEW b \in Clients \ {c}
       PROVE  Steady(b)
  <2>1. Dataset(d) \notin locks[b]
    BY <1>2, HeldAlone
  <2>2. \A e \in Datasets : Dataset(e) \in locks[b] => versions'[e] = versions[e]
    BY <1>7, <2>1
  <2> QED
    BY <1>4, <2>2 DEF Steady
<1> QED
  BY <1>3, <1>13, <1>14, Ends

-----------------------------------------------------------------------------
(* The theorems.                                                           *)

LEMMA OverInv ==
  ASSUME IInv, NEW c \in Clients, Fail(c) \/ Victim(c)
  PROVE  IInv'
<1>1. Untouched /\ Leave(c)
  BY DEF Fail, Victim, Untouched
<1> QED
  BY <1>1, SharedStays, Ends

LEMMA InitInv == Init => IInv
<1> SUFFICES ASSUME Init
             PROVE  IInv
  OBVIOUS
<1>1. /\ age = [o \in Originals |-> IF o \in Shelved THEN "old" ELSE "none"]
      /\ swept = Shelved
      /\ staging = [o \in Originals |-> None]
      /\ raw = [o \in Originals |-> IF o \in Shelved THEN "shelved" ELSE None]
      /\ artifact = raw
      /\ deletion = [o \in Originals |-> "none"]
      /\ sources = Datasets \X Shelved /\ imports = {}
      /\ extractions = [d \in Datasets |-> {}]
      /\ canonical = [s \in Datasets \X Originals |-> 0]
      /\ versions = [d \in Datasets |-> {}]
      /\ req = [c \in Clients |-> Idle] /\ locks = [c \in Clients |-> {}]
  BY DEF Init
<1>2. TypeOK
  BY <1>1, IdleFits, LibraryAssumption DEF TypeOK, Bytes
<1>3. LockInv
  BY <1>1 DEF LockInv
<1>4. IsFiniteSet(AllRows)
  <2>1. AllRows = {}
    BY <1>1 DEF AllRows
  <2> QED
    BY <2>1, FS_EmptySet
<1>5. \A c \in Clients : ClientInv(c)
  BY <1>1, IdleFits
     DEF ClientInv, OriginalsOf, DatasetOf, Single, Copying, OnDataset, Deriving
<1>6. \A o \in Originals : OriginalInv(o) /\ ProvenanceInv(o)
  BY <1>1, LibraryAssumption DEF OriginalInv, ProvenanceInv, Available, DerivedFrom
<1>7. \A d \in Datasets : DatasetInv(d)
  <2>1. Numbered({})
    <3>1. IsFiniteSet({}) /\ Cardinality({}) = 0
      BY FS_EmptySet
    <3> QED
      BY <3>1 DEF Numbered, Numbers
  <2> QED
    BY <1>1, <2>1 DEF DatasetInv, CanonicalInv, First
<1> QED
  BY <1>2, <1>3, <1>4, <1>5, <1>6, <1>7 DEF IInv

LEMMA StutterInv ==
  ASSUME IInv, UNCHANGED vars
  PROVE  IInv'
<1>1. Untouched /\ UNCHANGED <<req, locks>>
  BY DEF vars, Untouched
<1> QED
  BY <1>1, SharedStays, Elsewhere

LEMMA StepInv ==
  ASSUME IInv, NEW c \in Clients, Step(c)
  PROVE  IInv'
BY CopyInv, RegisterInv, CleanStagingInv, SweepDoneInv, AttachInv, EraseInv, ErasedInv, VerifyInv,
   AllocateInv, CommitExtractionInv, CommitImportInv, CommitVersionInv, OverInv DEF Step

LEMMA BeginInv ==
  ASSUME IInv, NEW c \in Clients, Begin(c)
  PROVE  IInv'
<1>1. CASE \E o \in Originals : Complete(c, o) \/ Sweep(c, o)
  BY <1>1, CompleteInv, SweepInv
<1>2. CASE \E d \in Datasets, o \in Originals :
             BeginAttach(c, d, o) \/ DeleteRaw(c, d, o) \/ Import(c, d, o)
  BY <1>2, BeginAttachInv, DeleteRawInv, ImportInv
<1>3. CASE \E d \in Datasets, chosen \in SUBSET Originals : Ingest(c, d, chosen)
  BY <1>3, IngestInv
<1>4. CASE \E d \in Datasets : \E picked \in SUBSET extractions[d], exports \in SUBSET Originals :
             CreateVersion(c, d, picked, exports)
  BY <1>4, CreateVersionInv
<1> QED
  BY <1>1, <1>2, <1>3, <1>4 DEF Begin

LEMMA NextInv == IInv /\ [Next]_vars => IInv'
<1> SUFFICES ASSUME IInv, [Next]_vars
             PROVE  IInv'
  OBVIOUS
<1>1. CASE UNCHANGED vars
  BY <1>1, StutterInv
<1>2. CASE \E o \in Originals : Initiate(o) \/ TimePasses(o)
  BY <1>2, InitiateInv, TimePassesInv
<1>3. CASE \E o \in Originals, x \in Contents : BrowserPut(o, x)
  BY <1>3, BrowserPutInv
<1>4. CASE \E d \in Datasets, o \in Originals : Remove(d, o)
  BY <1>4, RemoveInv
<1>5. CASE \E c \in Clients : Begin(c) \/ Step(c) \/ Fail(c)
  BY <1>5, BeginInv, StepInv, OverInv
<1> QED
  BY <1>1, <1>2, <1>3, <1>4, <1>5 DEF Next

\* The invariant the other theorems follow from: what each request in progress relies on
\* holds until it ends, by the rows it has locked or because it never changes back.
THEOREM Invariance == Spec => []IInv
BY InitInv, NextInv, PTL DEF Spec

\* What upload completion registered stays under raw/v1/ with the bytes that were hashed,
\* through any retries, sweeps and later uploads, until a deletion is on record.
THEOREM OriginalsStay == Spec => []OriginalsAreKept
<1>1. IInv => OriginalsAreKept
  BY DEF IInv, OriginalInv, OriginalsAreKept, Intact
<1> QED
  BY <1>1, Invariance, PTL

\* delete_raw() never takes an original something was derived from, and no attachment,
\* extraction, import or version under way derives anything from one it takes.
THEOREM ProvenanceStays == Spec => []ProvenanceIsKept
<1>1. IInv => ProvenanceIsKept
  <2> SUFFICES ASSUME IInv, NEW o \in Originals
               PROVE  /\ ~Available(o) =>
                           /\ DerivedFrom(o) = {}
                           /\ Cardinality({d \in Datasets : <<d, o>> \in sources}) = 1
                      /\ \A d \in Datasets : d \in DerivedFrom(o) => <<d, o>> \in sources
    BY DEF ProvenanceIsKept
  <2>1. ProvenanceInv(o)
    BY DEF IInv
  <2>2. ASSUME ~Available(o)
        PROVE  Cardinality({d \in Datasets : <<d, o>> \in sources}) = 1
    <3>1. PICK d \in Datasets : {e \in Datasets : <<e, o>> \in sources} = {d}
      BY <2>1, <2>2 DEF ProvenanceInv
    <3>2. Cardinality({d}) = 1
      BY FS_Singleton
    <3> QED
      BY <3>1, <3>2
  <2> QED
    BY <2>1, <2>2 DEF ProvenanceInv
<1> QED
  BY <1>1, Invariance, PTL

\* The sweep leaves no object of an abandoned reservation, however often it died and
\* whoever completed the upload meanwhile; a deletion that was reported is done.
THEOREM NothingStays == Spec => []NothingIsLeftBehind
<1>1. IInv => NothingIsLeftBehind
  BY DEF IInv, TypeOK, OriginalInv, NothingIsLeftBehind
<1> QED
  BY <1>1, Invariance, PTL

\* The lock on the dataset serializes numbering: rows are numbered without gaps or
\* duplicates, and the canonical extraction is the first successful one.
THEOREM StaysConsistent == Spec => []Consistent
<1>1. ASSUME IInv, NEW c \in Clients
      PROVE  /\ At(c, "extraction") => req[c].number \notin Numbers(extractions[req[c].data])
             /\ At(c, "version") => req[c].number \notin Numbers(versions[req[c].data])
  <2>1. ASSUME NEW rows, Numbered(rows), NEW n, n = Cardinality(rows) + 1
        PROVE  n \notin Numbers(rows)
    <3>1. Cardinality(rows) \in Nat
      BY <2>1, FS_CardinalityType DEF Numbered
    <3> QED
      BY <2>1, <3>1 DEF Numbered
  <2>2. /\ DatasetOf(c)
        /\ \A d \in Datasets : Numbered(extractions[d]) /\ Numbered(versions[d])
    BY <1>1 DEF IInv, ClientInv, DatasetInv
  <2>3. ASSUME At(c, "extraction")
        PROVE  req[c].number \notin Numbers(extractions[req[c].data])
    BY <2>1, <2>2, <2>3 DEF At, DatasetOf, OnDataset, Deriving
  <2>4. ASSUME At(c, "version")
        PROVE  req[c].number \notin Numbers(versions[req[c].data])
    BY <2>1, <2>2, <2>4 DEF At, DatasetOf, OnDataset, Deriving
  <2> QED
    BY <2>3, <2>4
<1>2. ASSUME IInv, NEW d \in Datasets
      PROVE  /\ Numbers(extractions[d]) = 1..Cardinality(extractions[d])
             /\ Numbers(versions[d]) = 1..Cardinality(versions[d])
             /\ CanonicalInv(d)
  BY <1>2 DEF IInv, DatasetInv, Numbered
<1>3. IInv => RecordsAreWhole
  BY <1>1, <1>2 DEF RecordsAreWhole, CanonicalInv, First
<1>4. IInv => Consistent
  BY <1>3 DEF IInv, Consistent
<1> QED
  BY <1>4, Invariance, PTL
=============================================================================
