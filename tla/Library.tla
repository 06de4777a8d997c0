------------------------------ MODULE Library ------------------------------
(***************************************************************************)
(* The library of originals and what is derived from them: presigned       *)
(* uploads and their registration, attachment to datasets, document        *)
(* extraction, conversation import, dataset versions, the explicit         *)
(* deletion of an original and the operator's retention sweep.             *)
(*                                                                         *)
(* Every request is a process of its own.  A step is one call to the       *)
(* object store, one lock to wait for or one commit; between two steps     *)
(* other requests run, and a request may die.  A database transaction      *)
(* shows its rows when it commits and gives its row locks back when it     *)
(* ends; what the store has executed stays.                                *)
(***************************************************************************)
EXTENDS Naturals, FiniteSets, Sequences

CONSTANTS
  Originals,       \* upload reservations; a registered artifact has the same id
  Documents,       \* those that are documents; the others are ChatGPT exports
  Shelved,         \* those registered and attached to every dataset beforehand
  Datasets,
  Clients,         \* HTTP requests, and the operator's sweep, under way at once
  Contents,        \* what a browser may upload: same size, different bytes
  MaxRows,         \* bound on the extractions and versions of all datasets
  None

ASSUME LibraryAssumption ==
  /\ Documents \subseteq Originals /\ Shelved \subseteq Originals /\ Contents # {}
  /\ None \notin Contents \cup {"shelved"}
  /\ MaxRows \in Nat

VARIABLES
  age,          \* "none", "open" (until complete_by), "old" (more than a day later)
  swept,        \* reservations with staging_cleaned_at
  staging,      \* the object under the upload key
  raw,          \* the object under raw/v1/<id>/
  artifact,     \* the registered hash; upload.artifact_id is set with it
  deletion,     \* RawSourceDeletion: "none", "requested", "deleted"
  sources,      \* dataset_sources
  imports,      \* conversation_imports
  extractions,  \* document_ingestions of each dataset
  canonical,    \* documents.canonical_artifact_id: the extraction's number, 0 for none
  versions,     \* dataset_versions of each dataset
  req,          \* what each client is doing
  locks         \* rows locked FOR UPDATE by its transaction

uploadVars == <<age, swept, staging, raw, artifact>>
derivedVars == <<imports, extractions, canonical, versions>>
vars == <<uploadVars, deletion, sources, derivedVars, req, locks>>

Bytes == Contents \cup {"shelved"}

Idle == [at |-> "idle", data |-> None, todo |-> <<>>, used |-> {}, bytes |-> None,
         picked |-> {}, number |-> 0]

Upload(o) == <<"upload", o>>
Dataset(d) == <<"dataset", d>>
Artifact(o) == <<"artifact", o>>
Rows == {Upload(o) : o \in Originals} \cup {Dataset(d) : d \in Datasets}
          \cup {Artifact(o) : o \in Originals}

Free(c, row) == \A b \in Clients \ {c} : row \notin locks[b]

Numbers(rows) == {r.number : r \in rows}

\* coalesce(max(version), 0) + 1
NextNumber(rows) ==
  IF rows = {} THEN 1 ELSE 1 + CHOOSE n \in Numbers(rows) : \A m \in Numbers(rows) : m <= n

Init ==
  /\ age = [o \in Originals |-> IF o \in Shelved THEN "old" ELSE "none"]
  /\ swept = Shelved
  /\ staging = [o \in Originals |-> None]
  /\ raw = [o \in Originals |-> IF o \in Shelved THEN "shelved" ELSE None]
  /\ artifact = raw
  /\ deletion = [o \in Originals |-> "none"]
  /\ sources = Datasets \X Shelved
  /\ imports = {}
  /\ extractions = [d \in Datasets |-> {}]
  /\ canonical = [s \in Datasets \X Originals |-> 0]
  /\ versions = [d \in Datasets |-> {}]
  /\ req = [c \in Clients |-> Idle]
  /\ locks = [c \in Clients |-> {}]

-----------------------------------------------------------------------------
(* Requests, transactions and their ends.                                  *)

Enter(c, r, rows) ==
  /\ req' = [req EXCEPT ![c] = r]
  /\ locks' = [locks EXCEPT ![c] = rows]

\* Commit or rollback: the locks go with the transaction.
Leave(c) == Enter(c, Idle, {})

At(c, step) == req[c].at = step

Goto(c, step) == req' = [req EXCEPT ![c].at = step]

\* The only original of requests that concern one.
The(c) == CHOOSE o \in Originals : o \in req[c].used

\* The store, the runner or the database fails, or the process dies: the transaction is
\* rolled back, the request is over.  A call may have been executed all the same.
Fail(c) ==
  /\ ~At(c, "idle")
  /\ Leave(c)
  /\ UNCHANGED <<uploadVars, deletion, sources, derivedVars>>

-----------------------------------------------------------------------------
(* Uploads.                                                                *)

Initiate(o) ==
  /\ age[o] = "none"
  /\ age' = [age EXCEPT ![o] = "open"]
  /\ UNCHANGED <<swept, staging, raw, artifact, deletion, sources, derivedVars, req, locks>>

\* The browser PUTs to the presigned URL, as often as it likes while it is valid.
BrowserPut(o, x) ==
  /\ age[o] = "open"
  /\ staging' = [staging EXCEPT ![o] = x]
  /\ UNCHANGED <<age, swept, raw, artifact, deletion, sources, derivedVars, req, locks>>

TimePasses(o) ==
  /\ age[o] = "open"
  /\ age' = [age EXCEPT ![o] = "old"]
  /\ UNCHANGED <<swept, staging, raw, artifact, deletion, sources, derivedVars, req, locks>>

\* complete(): under the reservation's lock, a registered upload is answered with its
\* artifact; another one is read and hashed if its deadline has not passed.
Complete(c, o) ==
  /\ At(c, "idle") /\ age[o] # "none"
  /\ Free(c, Upload(o))
  /\ \/ /\ artifact[o] # None /\ Free(c, Artifact(o)) /\ deletion[o] = "none"
        /\ Enter(c, [Idle EXCEPT !.at = "clean", !.used = {o}], {})
     \/ /\ artifact[o] = None /\ age[o] = "open" /\ staging[o] # None
        /\ Enter(c, [Idle EXCEPT !.at = "copy", !.used = {o}, !.bytes = staging[o]],
                 {Upload(o)})
  /\ UNCHANGED <<uploadVars, deletion, sources, derivedVars>>

\* Mutation: a copy within the store instead of the bytes that were hashed.
Copy_InStore(c) ==
  /\ At(c, "copy")
  /\ raw' = [raw EXCEPT ![The(c)] = staging[The(c)]]
  /\ Goto(c, "register")
  /\ UNCHANGED <<age, swept, staging, artifact, deletion, sources, derivedVars, locks>>

\* The spooled bytes that were hashed are the ones that are copied.
Copy(c) ==
  /\ At(c, "copy")
  /\ raw' = [raw EXCEPT ![The(c)] = req[c].bytes]
  /\ Goto(c, "register")
  /\ UNCHANGED <<age, swept, staging, artifact, deletion, sources, derivedVars, locks>>

Register(c) ==
  /\ At(c, "register")
  /\ artifact' = [artifact EXCEPT ![The(c)] = req[c].bytes]
  /\ Enter(c, [req[c] EXCEPT !.at = "clean"], {})
  /\ UNCHANGED <<age, swept, staging, raw, deletion, sources, derivedVars>>

\* After the commit; a failure is only logged.
CleanStaging(c) ==
  /\ At(c, "clean")
  /\ staging' = [staging EXCEPT ![The(c)] = None]
  /\ Leave(c)
  /\ UNCHANGED <<age, swept, raw, artifact, deletion, sources, derivedVars>>

\* The retention command: reservations that expired more than a day ago.
Sweep(c, o) ==
  /\ At(c, "idle")
  /\ age[o] = "old" /\ o \notin swept
  /\ Free(c, Upload(o))
  /\ Enter(c, [Idle EXCEPT !.at = "sweep", !.used = {o}], {Upload(o)})
  /\ UNCHANGED <<uploadVars, deletion, sources, derivedVars>>

\* Mutation: only the staging object is collected.
Abandoned_Never(o) == FALSE

Abandoned(o) == artifact[o] = None

\* Both deletions may be repeated: a sweep that dies before its commit is done again.
SweepDone(c) ==
  /\ At(c, "sweep")
  /\ staging' = [staging EXCEPT ![The(c)] = None]
  /\ raw' = IF Abandoned(The(c)) THEN [raw EXCEPT ![The(c)] = None] ELSE raw
  /\ swept' = swept \cup req[c].used
  /\ Leave(c)
  /\ UNCHANGED <<age, artifact, deletion, sources, derivedVars>>

-----------------------------------------------------------------------------
(* Sources: attachment, removal and explicit deletion of originals.        *)

Intact(o) == raw[o] # None /\ raw[o] = artifact[o]

Available(o) == deletion[o] = "none"

\* The bytes are read and verified outside the transaction that attaches them.
BeginAttach(c, d, o) ==
  /\ At(c, "idle")
  /\ artifact[o] # None /\ Free(c, Artifact(o)) /\ Available(o) /\ Intact(o)
  /\ Enter(c, [Idle EXCEPT !.at = "attach", !.data = d, !.used = {o}], {})
  /\ UNCHANGED <<uploadVars, deletion, sources, derivedVars>>

\* Mutation: the check made before the bytes were read is relied upon.
Attach_Unchecked(c) ==
  /\ At(c, "attach")
  /\ Free(c, Dataset(req[c].data)) /\ Free(c, Artifact(The(c)))
  /\ sources' = sources \cup {<<req[c].data, The(c)>>}
  /\ Leave(c)
  /\ UNCHANGED <<uploadVars, deletion, derivedVars>>

Attach(c) ==
  /\ At(c, "attach")
  /\ Free(c, Dataset(req[c].data)) /\ Free(c, Artifact(The(c)))
  /\ sources' = IF Available(The(c)) THEN sources \cup {<<req[c].data, The(c)>>} ELSE sources
  /\ Leave(c)
  /\ UNCHANGED <<uploadVars, deletion, derivedVars>>

\* Nothing of this dataset was derived, from this source or from another.
Underived(d, o) == versions[d] = {} /\ extractions[d] = {} /\ <<d, o>> \notin imports

\* The dataset's row is locked; no other transaction holds this source's row without it.
Remove(d, o) ==
  /\ <<d, o>> \in sources
  /\ \A c \in Clients : Dataset(d) \notin locks[c]
  /\ Available(o) /\ Underived(d, o) /\ canonical[<<d, o>>] = 0
  /\ sources' = sources \ {<<d, o>>}
  /\ UNCHANGED <<uploadVars, deletion, derivedVars, req, locks>>

\* Another dataset's source refers to the artifact.
Shared(d, o) == \E e \in Datasets \ {d} : <<e, o>> \in sources

\* delete_raw(): the intent is committed before anything is erased; a request for an
\* original whose intent is on record repeats the erasure.
DeleteRaw(c, d, o) ==
  /\ At(c, "idle") /\ <<d, o>> \in sources
  /\ Free(c, Dataset(d)) /\ Free(c, Artifact(o))
  /\ Available(o) => Underived(d, o) /\ ~Shared(d, o)
  /\ deletion' = IF Available(o) THEN [deletion EXCEPT ![o] = "requested"] ELSE deletion
  /\ Enter(c, [Idle EXCEPT !.at = "erase", !.used = {o}], {})
  /\ UNCHANGED <<uploadVars, sources, derivedVars>>

Erase(c) ==
  /\ At(c, "erase")
  /\ raw' = [raw EXCEPT ![The(c)] = None]
  /\ Goto(c, "erased")
  /\ UNCHANGED <<age, swept, staging, artifact, deletion, sources, derivedVars, locks>>

Erased(c) ==
  /\ At(c, "erased")
  /\ staging' = [staging EXCEPT ![The(c)] = None]
  /\ deletion' = [deletion EXCEPT ![The(c)] = "deleted"]
  /\ Leave(c)
  /\ UNCHANGED <<age, swept, raw, artifact, sources, derivedVars>>

-----------------------------------------------------------------------------
(* Document extraction: the dataset stays locked from the selection to the *)
(* commit, and every original from its verification on.                    *)

RoomLeft ==
  Cardinality(UNION {{<<d, x>> : x \in extractions[d] \cup versions[d]} : d \in Datasets})
    < MaxRows

\* The orders in which the ids of the chosen sources may sort.
Orders(S) == {s \in [1..Cardinality(S) -> S] : \A i, j \in DOMAIN s : s[i] = s[j] => i = j}

\* Mutation: the number is computed without the lock on the dataset.
Exclusive_Shared(c, d) == TRUE

\* The lock of the dataset serializes selections, removal and numbering.
Exclusive(c, d) == Free(c, Dataset(d))

Ingest(c, d, chosen) ==
  /\ At(c, "idle") /\ Exclusive(c, d)
  /\ IsFiniteSet(chosen) /\ {d} \X chosen \subseteq sources /\ chosen \cap Documents # {}
  /\ RoomLeft
  /\ \E order \in Orders(chosen) :
       Enter(c, [Idle EXCEPT !.at = "verify", !.data = d, !.todo = order], {Dataset(d)})
  /\ UNCHANGED <<uploadVars, deletion, sources, derivedVars>>

\* require_available() waits for the artifact's row; an original that is deleted or no
\* longer matches its hash ends the request.
Verify(c) ==
  /\ At(c, "verify") /\ req[c].todo # <<>>
  /\ LET o == Head(req[c].todo) IN
     /\ Free(c, Artifact(o))
     /\ IF Available(o) /\ Intact(o)
          THEN Enter(c, [req[c] EXCEPT !.todo = Tail(@), !.used = @ \cup {o}],
                     locks[c] \cup {Artifact(o)})
          ELSE Leave(c)
  /\ UNCHANGED <<uploadVars, deletion, sources, derivedVars>>

\* The number is allocated once every original is verified, before the runner is asked.
Allocate(c) ==
  /\ At(c, "verify") /\ req[c].todo = <<>>
  /\ req' = [req EXCEPT ![c].at = "extraction",
                        ![c].number = NextNumber(extractions[req[c].data])]
  /\ UNCHANGED <<uploadVars, deletion, sources, derivedVars, locks>>

\* The runner converts one document after the other and stops at the first it cannot;
\* there is no output when one failed or none had text.  Logs, output and manifest are
\* put under the row's fresh id, then the row is committed, with the output as the
\* canonical artifact of documents that had none.  The unique constraint on the number
\* refuses a second row, and with it the request.
CommitExtraction(c) ==
  LET r == req[c] d == r.data IN
  /\ At(c, "extraction")
  /\ r.number \notin Numbers(extractions[d])
  /\ \E good \in {{}, r.used \cap Documents} :
       /\ extractions' = [extractions EXCEPT ![d] = @ \cup
            {[number |-> r.number, used |-> r.used, good |-> good]}]
       /\ canonical' = [s \in DOMAIN canonical |->
            IF s[1] = d /\ s[2] \in good /\ canonical[s] = 0 THEN r.number ELSE canonical[s]]
  /\ Leave(c)
  /\ UNCHANGED <<uploadVars, deletion, sources, imports, versions>>

-----------------------------------------------------------------------------
(* Conversation import and dataset versions.                               *)

\* A repeated import is answered with the existing one; an export that does not match its
\* hash or cannot be parsed is refused.
Import(c, d, o) ==
  /\ At(c, "idle") /\ Free(c, Dataset(d))
  /\ <<d, o>> \in sources /\ o \notin Documents /\ <<d, o>> \notin imports
  /\ Free(c, Artifact(o)) /\ Available(o) /\ Intact(o)
  /\ Enter(c, [Idle EXCEPT !.at = "import", !.data = d, !.used = {o}],
           {Dataset(d), Artifact(o)})
  /\ UNCHANGED <<uploadVars, deletion, sources, derivedVars>>

CommitImport(c) ==
  /\ At(c, "import")
  /\ imports' = imports \cup {<<req[c].data, The(c)>>}
  /\ Leave(c)
  /\ UNCHANGED <<uploadVars, deletion, sources, extractions, canonical, versions>>

\* Successful extractions of this dataset, at most one of each document.
Extracted(d, picked) ==
  /\ picked \subseteq {x \in extractions[d] : x.good # {}}
  /\ \A x, y \in picked : x # y => x.good \cap y.good = {}

\* Exports whose conversations were imported into this dataset.
Imported(d, exports) == {d} \X exports \subseteq imports

\* A snapshot of both, with the originals they came from as provenance.
CreateVersion(c, d, picked, exports) ==
  /\ At(c, "idle") /\ Exclusive(c, d)
  /\ RoomLeft
  /\ Extracted(d, picked) /\ Imported(d, exports)
  /\ picked # {} \/ exports # {}
  /\ Enter(c, [Idle EXCEPT !.at = "version", !.data = d, !.picked = Numbers(picked),
                           !.used = exports \cup UNION {x.used : x \in picked},
                           !.number = NextNumber(versions[d])],
           {Dataset(d)})
  /\ UNCHANGED <<uploadVars, deletion, sources, derivedVars>>

\* The derivation rows refer to the originals: a key-share lock on their artifacts,
\* which waits for whoever holds one FOR UPDATE.
CommitVersion(c) ==
  LET r == req[c] d == r.data IN
  /\ At(c, "version")
  /\ \A o \in r.used : Free(c, Artifact(o))
  /\ r.number \notin Numbers(versions[d])
  /\ versions' = [versions EXCEPT ![d] = @ \cup
                    {[number |-> r.number, used |-> r.used, picked |-> r.picked]}]
  /\ Leave(c)
  /\ UNCHANGED <<uploadVars, deletion, sources, imports, extractions, canonical>>

-----------------------------------------------------------------------------
(* PostgreSQL and the specification.                                       *)

\* Who holds the row a request waits for while it holds others.
Blockers(c) ==
  {b \in Clients \ {c} :
     \/ At(c, "verify") /\ req[c].todo # <<>> /\ Artifact(Head(req[c].todo)) \in locks[b]
     \/ At(c, "version") /\ \E o \in req[c].used : Artifact(o) \in locks[b]}

\* Deadlock detection aborts one of several transactions that wait for each other.
Victim(c) ==
  /\ \E cycle \in SUBSET Clients :
       c \in cycle /\ \A a \in cycle : Blockers(a) \cap cycle # {}
  /\ Leave(c)
  /\ UNCHANGED <<uploadVars, deletion, sources, derivedVars>>

Step(c) ==
  \/ Copy(c) \/ Register(c) \/ CleanStaging(c) \/ SweepDone(c)
  \/ Attach(c) \/ Erase(c) \/ Erased(c)
  \/ Verify(c) \/ Allocate(c) \/ CommitExtraction(c) \/ CommitImport(c) \/ CommitVersion(c)
  \/ Victim(c)

Begin(c) ==
  \/ \E o \in Originals : Complete(c, o) \/ Sweep(c, o)
  \/ \E d \in Datasets, o \in Originals :
       BeginAttach(c, d, o) \/ DeleteRaw(c, d, o) \/ Import(c, d, o)
  \/ \E d \in Datasets, chosen \in SUBSET Originals : Ingest(c, d, chosen)
  \/ \E d \in Datasets : \E picked \in SUBSET extractions[d], exports \in SUBSET Originals :
       CreateVersion(c, d, picked, exports)

Next ==
  \/ \E o \in Originals : Initiate(o) \/ TimePasses(o)
  \/ \E o \in Originals, x \in Contents : BrowserPut(o, x)
  \/ \E d \in Datasets, o \in Originals : Remove(d, o)
  \/ \E c \in Clients : Begin(c) \/ Step(c) \/ Fail(c)

Spec == Init /\ [][Next]_vars

-----------------------------------------------------------------------------
(* Properties.                                                             *)

ExtractionRow == [number : 1..MaxRows, used : SUBSET Originals, good : SUBSET Documents]
VersionRow == [number : 1..MaxRows, used : SUBSET Originals, picked : SUBSET (1..MaxRows)]

Steps == {"idle", "copy", "register", "clean", "sweep", "attach", "erase", "erased",
          "verify", "extraction", "import", "version"}

Request == [at : Steps, data : Datasets \cup {None}, todo : Seq(Originals),
            used : SUBSET Originals, bytes : Contents \cup {None},
            picked : SUBSET (1..MaxRows), number : Nat]

\* Types: requests hold only rows that exist, numbers stay within the bounds.
TypeOK ==
  /\ swept \subseteq Originals
  /\ age \in [Originals -> {"none", "open", "old"}]
  /\ staging \in [Originals -> Contents \cup {None}]
  /\ raw \in [Originals -> Bytes \cup {None}]
  /\ artifact \in [Originals -> Bytes \cup {None}]
  /\ deletion \in [Originals -> {"none", "requested", "deleted"}]
  /\ sources \subseteq Datasets \X Originals /\ imports \subseteq Datasets \X Originals
  /\ extractions \in [Datasets -> SUBSET ExtractionRow]
  /\ versions \in [Datasets -> SUBSET VersionRow]
  /\ canonical \in [Datasets \X Originals -> 0..MaxRows]
  /\ req \in [Clients -> Request] /\ locks \in [Clients -> SUBSET Rows]

\* What was registered stays: while no deletion is on record, the object has the bytes
\* whose hash was registered, whatever is uploaded, swept or retried around it.
OriginalsAreKept == \A o \in Originals : artifact[o] # None /\ Available(o) => Intact(o)

\* The datasets in which something was derived from an original, in rows that are
\* committed.
DerivedFrom(o) ==
  {d \in Datasets : <<d, o>> \in imports \/ \E x \in extractions[d] \cup versions[d] : o \in x.used}

\* An original is erased only when nothing was derived from it and only one dataset has
\* it; nothing is attached to it or derived from it afterwards.
ProvenanceIsKept ==
  /\ \A o \in Originals : ~Available(o) =>
       /\ DerivedFrom(o) = {}
       /\ Cardinality({d \in Datasets : <<d, o>> \in sources}) = 1
  /\ \A d \in Datasets, o \in Originals : d \in DerivedFrom(o) => <<d, o>> \in sources

\* A swept reservation has neither a staging object nor an unregistered copy, and an
\* original reported as deleted is gone for good.
NothingIsLeftBehind ==
  /\ \A o \in swept : staging[o] = None /\ (artifact[o] = None => raw[o] = None)
  /\ \A o \in Originals : deletion[o] = "deleted" => raw[o] = None

\* The number a transaction has allocated is still free, the rows of a dataset are
\* numbered without gaps, and a document's canonical extraction is the first successful
\* one it was part of: what "a dataset lock serializes" in documents.py promises.
RecordsAreWhole ==
  /\ \A c \in Clients :
       /\ At(c, "extraction") => req[c].number \notin Numbers(extractions[req[c].data])
       /\ At(c, "version") => req[c].number \notin Numbers(versions[req[c].data])
  /\ \A d \in Datasets :
       /\ Numbers(extractions[d]) = 1..Cardinality(extractions[d])
       /\ Numbers(versions[d]) = 1..Cardinality(versions[d])
       /\ \A o \in Originals :
            LET first == {x.number : x \in {y \in extractions[d] : o \in y.good}} IN
            IF first = {} THEN canonical[<<d, o>>] = 0
            ELSE canonical[<<d, o>>] \in first /\ \A n \in first : canonical[<<d, o>>] <= n

\* Types, and datasets whose history has no gap, duplicate or stale pointer.
Consistent == TypeOK /\ RecordsAreWhole
=============================================================================
