------------------------------ MODULE Versions ------------------------------
(***************************************************************************)
(* Numbered versions of prompts and datasets: create_prompt, create_dataset,  *)
(* create_prompt_version and create_dataset_version, called concurrently.     *)
(* A number is the greatest one a select found, plus one; two uploads that     *)
(* select the same number meet at the unique constraint, and nothing retries. *)
(***************************************************************************)
EXTENDS DatasetImport

CONSTANTS
  Uploads,   \* HTTP requests; a version bears the name of its request
  Prompts,   \* prompts, named by the request's own new identifier
  Datasets,  \* datasets likewise
  Files,     \* what an upload of a dataset version may contain
  NoFile     \* the body of an upload that has no file

Owners == Prompts \union Datasets

ASSUME VersionsAssumption ==
  /\ Prompts \intersect Datasets = {}
  /\ NoFile \notin Files
  /\ \A f \in Files : IsFile(f)

VARIABLES
  created,   \* committed prompts and datasets
  stored,    \* committed versions: owner, number, the upload it came from
  vpc,       \* where each upload is
  owner,     \* the prompt or dataset of each upload
  file,      \* the file it carries
  latest     \* the greatest number its select found

versionVars == <<created, stored, vpc, owner, file, latest>>

VersionPc ==
  {"new", "create", "parse", "select", "insert", "flushed",
   "stored", "refused", "error", "dead"}

VersionsEnded == {"stored", "refused", "error", "dead"}

VersionsInit ==
  /\ created = {}
  /\ stored = {}
  /\ vpc = [u \in Uploads |-> "new"]
  /\ owner \in [Uploads -> Owners]
  /\ file = [u \in Uploads |-> NoFile]
  /\ latest = [u \in Uploads |-> 0]

VersionsTypeOK ==
  /\ created \subseteq Owners
  /\ stored \subseteq [owner : Owners, number : Nat \ {0}, by : Uploads]
  /\ vpc \in [Uploads -> VersionPc]
  /\ owner \in [Uploads -> Owners]
  /\ file \in [Uploads -> Files \union {NoFile}]
  /\ latest \in [Uploads -> Nat]

Goto(u, label) == vpc' = [vpc EXCEPT ![u] = label]

VersionsOf(o) == {v \in stored : v.owner = o}

Numbers(o) == {v.number : v \in VersionsOf(o)}

\* The first request for a prompt or dataset creates it under a fresh id.
OpenNew(u) ==
  /\ vpc[u] = "new"
  /\ owner[u] \notin created
  /\ \A w \in Uploads \ {u} : owner[w] = owner[u] => vpc[w] = "new"
  /\ Goto(u, "create")
  /\ UNCHANGED <<created, stored, owner, file, latest>>

\* create_prompt commits the prompt and its version 1 together, create_dataset a
\* dataset without versions.
CreateOwner(u) ==
  /\ vpc[u] = "create"
  /\ created' = created \union {owner[u]}
  /\ stored' = IF owner[u] \in Prompts
                 THEN stored \union {[owner |-> owner[u], number |-> 1, by |-> u]}
                 ELSE stored
  /\ Goto(u, "stored")
  /\ UNCHANGED <<owner, file, latest>>

\* An upload of a version; db.get answers 404 before there is a prompt or dataset.
OpenVersion(u) ==
  /\ vpc[u] = "new"
  /\ owner[u] \in created
  /\ IF owner[u] \in Prompts
       THEN Goto(u, "select") /\ UNCHANGED file
       ELSE /\ \E f \in Files : file' = [file EXCEPT ![u] = f]
            /\ Goto(u, "parse")
  /\ UNCHANGED <<created, stored, owner, latest>>

\* A file is parsed before the number is selected.
ParseFile(u) ==
  /\ vpc[u] = "parse"
  /\ Goto(u, IF ParseVerdict(file[u]) = "good" THEN "select" ELSE ParseVerdict(file[u]))
  /\ UNCHANGED <<created, stored, owner, file, latest>>

\* select max(version) of this prompt or dataset, 0 when there is none.
Greatest(o) == Max(Numbers(o) \union {0})

SelectLatest(u) ==
  /\ vpc[u] = "select"
  /\ latest' = [latest EXCEPT ![u] = Greatest(owner[u])]
  /\ Goto(u, "insert")
  /\ UNCHANGED <<created, stored, owner, file>>

\* Another upload that has inserted this number has not ended its transaction.
NumberLocked(u) ==
  \E w \in Uploads \ {u} :
    vpc[w] = "flushed" /\ owner[w] = owner[u] /\ latest[w] = latest[u]

\* No unique constraint.
NeverNumbered(u) == FALSE

\* Takes an open transaction for a version.
NumberedOrLocked(u) == latest[u] + 1 \in Numbers(owner[u]) \/ NumberLocked(u)

\* UniqueConstraint(owner, version).
Numbered(u) == latest[u] + 1 \in Numbers(owner[u])

\* The INSERT waits for a transaction that has inserted the same number.
InsertVersion(u) ==
  /\ vpc[u] = "insert"
  /\ ~NumberLocked(u)
  /\ ~Numbered(u)
  /\ Goto(u, "flushed")
  /\ UNCHANGED <<created, stored, owner, file, latest>>

\* IntegrityError; nothing catches it.
VersionCollides(u) ==
  /\ vpc[u] = "insert"
  /\ Numbered(u)
  /\ Goto(u, "error")
  /\ UNCHANGED <<created, stored, owner, file, latest>>

CommitVersion(u) ==
  /\ vpc[u] = "flushed"
  /\ stored' = stored \union {[owner |-> owner[u], number |-> latest[u] + 1, by |-> u]}
  /\ Goto(u, "stored")
  /\ UNCHANGED <<created, owner, file, latest>>

\* The process of a request dies and its transaction is rolled back.
UploadDies(u) ==
  /\ vpc[u] \notin VersionsEnded \union {"new"}
  /\ Goto(u, "dead")
  /\ UNCHANGED <<created, stored, owner, file, latest>>

ServeUpload(u) ==
  \/ CreateOwner(u) \/ ParseFile(u) \/ SelectLatest(u)
  \/ InsertVersion(u) \/ VersionCollides(u) \/ CommitVersion(u)

VersionsNext ==
  \E u \in Uploads : OpenNew(u) \/ OpenVersion(u) \/ ServeUpload(u) \/ UploadDies(u)

VersionsSpec == VersionsInit /\ [][VersionsNext]_versionVars

-----------------------------------------------------------------------------
\* The versions of a prompt or dataset are numbered 1, 2, 3, ... without gap or
\* repetition, whatever uploads overlap or die (api.py:248-262, 323-340).
NumbersAreConsecutive ==
  \A o \in Owners :
    /\ Numbers(o) = 1..Cardinality(VersionsOf(o))
    /\ \A v, w \in VersionsOf(o) : v.number = w.number => v = w

\* A collision costs one upload and never all of them: an upload that failed with
\* a number has another upload's version committed under that very number, and a
\* file was refused or stored as a whole (api.py:262, 340; datasets.py:42-53).
CollisionMeansProgress ==
  \A u \in Uploads :
    /\ (vpc[u] = "error" /\ (file[u] = NoFile \/ ParseVerdict(file[u]) = "good")) =>
         \E v \in VersionsOf(owner[u]) : v.number = latest[u] + 1 /\ v.by # u
    /\ (vpc[u] = "stored" /\ file[u] # NoFile) =>
         \A i \in DOMAIN file[u].rows : RowVerdict(file[u].rows[i].kind) = "good"

\* Every upload ends, also when the one it waits for dies.
UploadsEnd ==
  \A u \in Uploads : vpc[u] \notin VersionsEnded \union {"new"} ~> vpc[u] \in VersionsEnded

=============================================================================
