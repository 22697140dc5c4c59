--------------------------- MODULE VersionsProofs ---------------------------
(***************************************************************************)
(* Numbering of versions for every number of uploads, owners and files.      *)
(***************************************************************************)
EXTENDS Versions, FiniteSetTheorems, FunctionTheorems, TLAPS

\* Every owner's numbers are 1..n, each borne by one version, and a version is
\* there only for a committed owner and an upload that has been answered.
StoredInv ==
  /\ \A o \in Owners : \E n \in Nat : Numbers(o) = 1..n
  /\ \A v, w \in stored : v.owner = w.owner /\ v.number = w.number => v = w
  /\ \A v \in stored : v.owner \in created /\ vpc[v.by] = "stored"

\* While an owner is being created it has no version and no other upload, and a
\* version is uploaded to an owner that is there.
CreateInv ==
  \A u \in Uploads :
    /\ vpc[u] = "create" =>
         /\ owner[u] \notin created
         /\ \A w \in Uploads \ {u} : owner[w] = owner[u] => vpc[w] = "new"
    /\ vpc[u] \in {"parse", "select", "insert", "flushed"} => owner[u] \in created

\* A selected number is 0 or taken; an inserted one is the next, and no one else's.
InsertInv ==
  /\ \A u \in Uploads : vpc[u] \in {"insert", "flushed"} =>
       latest[u] = 0 \/ latest[u] \in Numbers(owner[u])
  /\ \A u \in Uploads : vpc[u] = "flushed" => latest[u] + 1 \notin Numbers(owner[u])
  /\ \A u, w \in Uploads :
       vpc[u] = "flushed" /\ vpc[w] = "flushed" /\ owner[u] = owner[w]
         /\ latest[u] = latest[w] => u = w

\* What is inserted was parsed, and an upload that failed otherwise met its number.
FileInv ==
  \A u \in Uploads :
    /\ vpc[u] \in {"new", "create"} => file[u] = NoFile
    /\ vpc[u] = "parse" => file[u] \in Files
    /\ vpc[u] \in {"select", "insert", "flushed", "stored"} =>
         file[u] = NoFile \/ ParseVerdict(file[u]) = "good"
    /\ vpc[u] = "error" =>
         \/ file[u] # NoFile /\ ParseVerdict(file[u]) # "good"
         \/ latest[u] + 1 \in Numbers(owner[u])

VersionsInv == VersionsTypeOK /\ StoredInv /\ CreateInv /\ InsertInv /\ FileInv

USE VersionsAssumption

-----------------------------------------------------------------------------
\* A file is good, refused or an error, and a good one has only good rows.
LEMMA Verdicts ==
  ASSUME NEW f
  PROVE  /\ ParseVerdict(f) \in {"good", "refused", "error"}
         /\ ParseVerdict(f) = "good" =>
              \A i \in DOMAIN f.rows : RowVerdict(f.rows[i].kind) = "good"
<1>1. RowsVerdict(f) \in {"good", "refused", "error"}
  BY DEF RowsVerdict
<1>2. RowsVerdict(f) = "good" =>
        \A i \in DOMAIN f.rows : RowVerdict(f.rows[i].kind) = "good"
  BY DEF RowsVerdict
<1> QED
  BY <1>1, <1>2 DEF ParseVerdict

\* The greatest of 1..n and 0 is n.
LEMMA GreatestIsLast ==
  ASSUME NEW o, NEW n \in Nat, Numbers(o) = 1..n
  PROVE  Greatest(o) = n
<1>1. n \in Numbers(o) \union {0} /\ \A y \in Numbers(o) \union {0} : y \in Nat /\ n >= y
  OBVIOUS
<1> QED
  BY <1>1 DEF Greatest, Max

\* Numbers without gap or repetition are as many as there are versions.
LEMMA ConsecutiveCount ==
  ASSUME VersionsTypeOK, NEW o, NEW n \in Nat, Numbers(o) = 1..n,
         \A v, w \in VersionsOf(o) : v.number = w.number => v = w
  PROVE  Cardinality(VersionsOf(o)) = n
<1> DEFINE S == VersionsOf(o)
           f == [v \in S |-> v.number]
<1>1. f \in Bijection(S, 1..n)
  <2>1. f \in [S -> 1..n]
    BY DEF Numbers
  <2>2. \A i \in 1..n : \E v \in S : f[v] = i
    BY DEF Numbers
  <2>3. \A v, w \in S : f[v] = f[w] => v = w
    OBVIOUS
  <2> QED
    BY <2>1, <2>2, <2>3 DEF Bijection, Injection, Surjection, IsInjective
<1>2. ExistsBijection(1..n, S)
  <2>1. ExistsBijection(S, 1..n)
    BY <1>1 DEF ExistsBijection
  <2> QED
    BY <2>1, Fun_ExistsBijSymmetric
<1>3. IsFiniteSet(1..n) /\ Cardinality(1..n) = n
  BY FS_Interval
<1> QED
  BY <1>2, <1>3, FS_Bijection

-----------------------------------------------------------------------------
\* Nothing is stored at first and no upload has begun.
LEMMA VersionsInvInit == VersionsInit => VersionsInv
<1> SUFFICES ASSUME VersionsInit
             PROVE  VersionsInv
  OBVIOUS
<1>1. VersionsTypeOK
  BY DEF VersionsInit, VersionsTypeOK, VersionPc
<1>2. \A o \in Owners : Numbers(o) = 1..0
  BY DEF VersionsInit, Numbers, VersionsOf
<1> QED
  BY <1>1, <1>2
  DEF VersionsInit, VersionsInv, StoredInv, CreateInv, InsertInv, FileInv

\* No step of an upload leaves the types.
LEMMA VersionsTypes ==
  VersionsInv /\ [VersionsNext]_versionVars => VersionsTypeOK'
<1> SUFFICES ASSUME VersionsInv, [VersionsNext]_versionVars
             PROVE  VersionsTypeOK'
  OBVIOUS
<1> USE DEF VersionsTypeOK, VersionPc, Goto
<1>0. VersionsTypeOK
  BY DEF VersionsInv
<1>1. CASE UNCHANGED versionVars
  BY <1>0, <1>1 DEF versionVars
<1>2. ASSUME NEW u \in Uploads, OpenNew(u) \/ OpenVersion(u)
      PROVE  VersionsTypeOK'
  BY <1>0, <1>2 DEF OpenNew, OpenVersion
<1>3. ASSUME NEW u \in Uploads, CreateOwner(u)
      PROVE  VersionsTypeOK'
  BY <1>0, <1>3 DEF CreateOwner
<1>4. ASSUME NEW u \in Uploads, ParseFile(u)
      PROVE  VersionsTypeOK'
  BY <1>0, <1>4, Verdicts DEF ParseFile
<1>5. ASSUME NEW u \in Uploads, SelectLatest(u)
      PROVE  VersionsTypeOK'
  <2>1. PICK n \in Nat : Numbers(owner[u]) = 1..n
    BY <1>0 DEF VersionsInv, StoredInv
  <2>2. Greatest(owner[u]) \in Nat
    BY <2>1, GreatestIsLast
  <2> QED
    BY <1>0, <1>5, <2>2 DEF SelectLatest
<1>6. ASSUME NEW u \in Uploads, InsertVersion(u) \/ VersionCollides(u) \/ UploadDies(u)
      PROVE  VersionsTypeOK'
  BY <1>0, <1>6 DEF InsertVersion, VersionCollides, UploadDies
<1>7. ASSUME NEW u \in Uploads, CommitVersion(u)
      PROVE  VersionsTypeOK'
  BY <1>0, <1>7 DEF CommitVersion
<1> QED
  BY <1>1, <1>2, <1>3, <1>4, <1>5, <1>6, <1>7 DEF VersionsNext, ServeUpload

\* A step that stores nothing and does not insert keeps the numbering.
LEMMA QuietUpload ==
  ASSUME VersionsInv, VersionsTypeOK', NEW u \in Uploads,
         UNCHANGED <<created, stored, owner>>,
         \A w \in Uploads \ {u} :
           vpc'[w] = vpc[w] /\ file'[w] = file[w] /\ latest'[w] = latest[w],
         vpc[u] # "stored",
         vpc'[u] \notin {"new", "flushed", "stored"},
         vpc'[u] = "create" =>
           /\ owner[u] \notin created
           /\ \A w \in Uploads \ {u} : owner[w] = owner[u] => vpc[w] = "new",
         vpc'[u] \in {"parse", "select", "insert"} => owner[u] \in created,
         \A w \in Uploads \ {u} : vpc[w] = "create" =>
           owner[u] # owner[w],
         vpc'[u] = "insert" => latest'[u] = 0 \/ latest'[u] \in Numbers(owner[u]),
         vpc'[u] = "create" => file'[u] = NoFile,
         vpc'[u] = "parse" => file'[u] \in Files,
         vpc'[u] \in {"select", "insert"} =>
           file'[u] = NoFile \/ ParseVerdict(file'[u]) = "good",
         vpc'[u] = "error" =>
           \/ file'[u] # NoFile /\ ParseVerdict(file'[u]) # "good"
           \/ latest'[u] + 1 \in Numbers(owner[u])
  PROVE  VersionsInv'
<1>1. \A o : Numbers(o)' = Numbers(o)
  BY DEF Numbers, VersionsOf
<1>2. StoredInv'
  BY <1>1 DEF VersionsInv, StoredInv, VersionsTypeOK
<1>3. CreateInv'
  BY DEF VersionsInv, CreateInv
<1>4. InsertInv'
  BY <1>1 DEF VersionsInv, InsertInv
<1>5. FileInv'
  BY <1>1 DEF VersionsInv, FileInv
<1> QED
  BY <1>2, <1>3, <1>4, <1>5 DEF VersionsInv

\* An upload that is past its opening is alone with an owner only before the
\* owner is created.
LEMMA OthersNotCreating ==
  ASSUME VersionsInv, NEW u \in Uploads,
         owner[u] \in created \/ vpc[u] # "new"
  PROVE  \A w \in Uploads \ {u} : vpc[w] = "create" => owner[u] # owner[w]
BY DEF VersionsInv, CreateInv

\* No step gives a number twice or leaves one out.
LEMMA VersionsInvStep ==
  VersionsInv /\ [VersionsNext]_versionVars => VersionsInv'
<1> SUFFICES ASSUME VersionsInv, [VersionsNext]_versionVars
             PROVE  VersionsInv'
  OBVIOUS
<1>0. VersionsTypeOK /\ VersionsTypeOK'
  BY VersionsTypes DEF VersionsInv
<1> USE DEF Goto
<1>1. CASE UNCHANGED versionVars
  <2>1. \A o : Numbers(o)' = Numbers(o)
    BY <1>1 DEF versionVars, Numbers, VersionsOf
  <2> QED
    BY <1>0, <1>1, <2>1
    DEF versionVars, VersionsInv, StoredInv, CreateInv, InsertInv, FileInv
<1>2. ASSUME NEW u \in Uploads, OpenNew(u)
      PROVE  VersionsInv'
  <2>1. vpc[u] = "new" /\ vpc'[u] = "create" /\ file'[u] = NoFile
    BY <1>0, <1>2 DEF OpenNew, VersionsTypeOK, VersionsInv, FileInv
  <2>2. \A w \in Uploads \ {u} : vpc[w] = "create" => owner[u] # owner[w]
    BY <1>2 DEF OpenNew
  <2> QED
    BY <1>0, <1>2, <2>1, <2>2, QuietUpload DEF OpenNew, VersionsTypeOK
<1>3. ASSUME NEW u \in Uploads, CreateOwner(u)
      PROVE  VersionsInv'
  <2> DEFINE o == owner[u]
  <2>1. /\ vpc[u] = "create" /\ vpc' = [vpc EXCEPT ![u] = "stored"]
        /\ created' = created \union {o}
        /\ UNCHANGED <<owner, file, latest>>
        /\ o \notin created
        /\ \A w \in Uploads \ {u} : owner[w] = o => vpc[w] = "new"
        /\ file[u] = NoFile
    BY <1>3 DEF CreateOwner, VersionsInv, CreateInv, FileInv
  <2>2. VersionsOf(o) = {}
    BY <2>1 DEF VersionsOf, VersionsInv, StoredInv
  <2>3. \A x \in Owners \ {o} : Numbers(x)' = Numbers(x)
    BY <1>3 DEF CreateOwner, Numbers, VersionsOf
  <2>4. Numbers(o)' = {} \/ Numbers(o)' = {1}
    BY <1>3, <2>2 DEF CreateOwner, Numbers, VersionsOf
  <2>5. StoredInv'
    <3>1. \A x \in Owners : \E n \in Nat : Numbers(x)' = 1..n
      <4>1. \E n \in Nat : Numbers(o)' = 1..n
        <5>1. Numbers(o)' = 1..0 \/ Numbers(o)' = 1..1
          BY <2>4
        <5> QED
          BY <5>1
      <4>2. \A x \in Owners \ {o} : \E n \in Nat : Numbers(x)' = 1..n
        BY <2>3 DEF VersionsInv, StoredInv
      <4> QED
        BY <2>1, <4>1, <4>2
    <3>2. \A v \in stored' : v \in stored \/ v = [owner |-> o, number |-> 1, by |-> u]
      BY <1>3 DEF CreateOwner
    <3>3. \A v \in stored : v.owner # o
      BY <2>1 DEF VersionsInv, StoredInv
    <3>4. \A v, w \in stored' : v.owner = w.owner /\ v.number = w.number => v = w
      BY <3>2, <3>3 DEF VersionsInv, StoredInv
    <3>5. \A v \in stored' : v.owner \in created' /\ vpc'[v.by] = "stored"
      BY <1>0, <2>1, <3>2 DEF VersionsInv, StoredInv, VersionsTypeOK
    <3> QED
      BY <2>1, <3>1, <3>4, <3>5 DEF StoredInv
  <2>6. CreateInv'
    BY <1>0, <2>1 DEF VersionsInv, CreateInv, VersionsTypeOK
  <2>7. \A w \in Uploads : vpc'[w] \in {"insert", "flushed", "error"} /\ owner[w] = o =>
          FALSE
    BY <1>0, <2>1 DEF VersionsTypeOK
  <2>8. InsertInv'
    BY <1>0, <2>1, <2>3, <2>7 DEF VersionsInv, InsertInv, VersionsTypeOK
  <2>9. FileInv'
    BY <1>0, <2>1, <2>3, <2>7 DEF VersionsInv, FileInv, VersionsTypeOK
  <2> QED
    BY <1>0, <2>5, <2>6, <2>8, <2>9 DEF VersionsInv
<1>4. ASSUME NEW u \in Uploads, OpenVersion(u)
      PROVE  VersionsInv'
  <2>1. /\ vpc[u] = "new" /\ owner[u] \in created /\ file[u] = NoFile
        /\ \/ vpc'[u] = "select" /\ file'[u] = NoFile
           \/ vpc'[u] = "parse" /\ file'[u] \in Files
    BY <1>0, <1>4 DEF OpenVersion, VersionsTypeOK, VersionsInv, FileInv
  <2>2. \A w \in Uploads \ {u} :
          vpc'[w] = vpc[w] /\ file'[w] = file[w] /\ latest'[w] = latest[w]
    BY <1>0, <1>4 DEF OpenVersion, VersionsTypeOK
  <2> QED
    BY <1>0, <1>4, <2>1, <2>2, QuietUpload, OthersNotCreating
    DEF OpenVersion, VersionsTypeOK
<1>5. ASSUME NEW u \in Uploads, ParseFile(u)
      PROVE  VersionsInv'
  <2>1. /\ vpc[u] = "parse" /\ file[u] \in Files /\ file[u] # NoFile
        /\ vpc'[u] = IF ParseVerdict(file[u]) = "good" THEN "select"
                                                       ELSE ParseVerdict(file[u])
        /\ owner[u] \in created
    BY <1>0, <1>5 DEF ParseFile, VersionsTypeOK, VersionsInv, FileInv, CreateInv
  <2>2. ParseVerdict(file[u]) \in {"good", "refused", "error"}
    BY Verdicts
  <2> QED
    BY <1>0, <1>5, <2>1, <2>2, QuietUpload, OthersNotCreating
    DEF ParseFile, VersionsTypeOK
<1>6. ASSUME NEW u \in Uploads, SelectLatest(u)
      PROVE  VersionsInv'
  <2>1. PICK n \in Nat : Numbers(owner[u]) = 1..n
    BY <1>0 DEF VersionsTypeOK, VersionsInv, StoredInv
  <2>2. Greatest(owner[u]) = n
    BY <2>1, GreatestIsLast
  <2>3. vpc[u] = "select" /\ vpc'[u] = "insert" /\ latest'[u] = n
    BY <1>0, <1>6, <2>2 DEF SelectLatest, VersionsTypeOK
  <2>4. n = 0 \/ n \in Numbers(owner[u])
    BY <2>1
  <2>5. /\ file'[u] = NoFile \/ ParseVerdict(file'[u]) = "good"
        /\ owner[u] \in created
    BY <1>6 DEF SelectLatest, VersionsInv, FileInv, CreateInv
  <2> QED
    BY <1>0, <1>6, <2>3, <2>4, <2>5, QuietUpload, OthersNotCreating
    DEF SelectLatest, VersionsTypeOK
<1>7. ASSUME NEW u \in Uploads, InsertVersion(u)
      PROVE  VersionsInv'
  <2>1. /\ vpc[u] = "insert" /\ vpc' = [vpc EXCEPT ![u] = "flushed"]
        /\ UNCHANGED <<created, stored, owner, file, latest>>
        /\ latest[u] + 1 \notin Numbers(owner[u])
        /\ \A w \in Uploads \ {u} :
             ~(vpc[w] = "flushed" /\ owner[w] = owner[u] /\ latest[w] = latest[u])
    BY <1>7 DEF InsertVersion, NumberLocked, Numbered
  <2>2. \A o : Numbers(o)' = Numbers(o)
    BY <2>1 DEF Numbers, VersionsOf
  <2>3. StoredInv'
    BY <1>0, <2>1, <2>2 DEF VersionsInv, StoredInv, VersionsTypeOK
  <2>4. CreateInv'
    BY <1>0, <2>1 DEF VersionsInv, CreateInv, VersionsTypeOK
  <2>5. InsertInv'
    BY <1>0, <2>1, <2>2 DEF VersionsInv, InsertInv, VersionsTypeOK
  <2>6. FileInv'
    BY <1>0, <2>1, <2>2 DEF VersionsInv, FileInv, VersionsTypeOK
  <2> QED
    BY <1>0, <2>3, <2>4, <2>5, <2>6 DEF VersionsInv
<1>8. ASSUME NEW u \in Uploads, VersionCollides(u)
      PROVE  VersionsInv'
  <2>1. vpc[u] = "insert" /\ vpc'[u] = "error" /\ latest[u] + 1 \in Numbers(owner[u])
    BY <1>0, <1>8 DEF VersionCollides, Numbered, VersionsTypeOK
  <2> QED
    BY <1>0, <1>8, <2>1, QuietUpload, OthersNotCreating
    DEF VersionCollides, VersionsTypeOK
<1>9. ASSUME NEW u \in Uploads, CommitVersion(u)
      PROVE  VersionsInv'
  <2> DEFINE o == owner[u]
             k == latest[u] + 1
             d == [owner |-> o, number |-> k, by |-> u]
  <2>1. /\ vpc[u] = "flushed" /\ vpc' = [vpc EXCEPT ![u] = "stored"]
        /\ stored' = stored \union {d}
        /\ UNCHANGED <<created, owner, file, latest>>
    BY <1>9 DEF CommitVersion
  <2>2. o \in Owners /\ latest[u] \in Nat
    BY <1>0 DEF VersionsTypeOK
  <2>3. PICK n \in Nat : Numbers(o) = 1..n
    BY <2>2 DEF VersionsInv, StoredInv
  <2>4. k \notin Numbers(o) /\ (latest[u] = 0 \/ latest[u] \in Numbers(o))
    BY <2>1 DEF VersionsInv, InsertInv
  <2>5. k = n + 1
    BY <2>2, <2>3, <2>4
  <2>6. /\ Numbers(o)' = Numbers(o) \union {k}
        /\ \A x \in Owners \ {o} : Numbers(x)' = Numbers(x)
    <3>1. VersionsOf(o)' = VersionsOf(o) \union {d}
      BY <2>1 DEF VersionsOf
    <3>2. \A x \in Owners \ {o} : VersionsOf(x)' = VersionsOf(x)
      BY <2>1 DEF VersionsOf
    <3>3. d.number = k
      OBVIOUS
    <3>4. Numbers(o)' = Numbers(o) \union {k}
      <4>1. Numbers(o)' = {v.number : v \in VersionsOf(o)'}
        BY <2>1 DEF Numbers
      <4> HIDE DEF d
      <4> QED
        BY <3>1, <3>3, <4>1 DEF Numbers
    <3> QED
      BY <3>2, <3>4 DEF Numbers
  <2>7. StoredInv'
    <3>1. Numbers(o)' = 1..n + 1
      BY <2>3, <2>5, <2>6
    <3>2. \A x \in Owners : \E m \in Nat : Numbers(x)' = 1..m
      <4>1. \E m \in Nat : Numbers(o)' = 1..m
        BY <2>3, <2>5, <3>1
      <4>2. \A x \in Owners \ {o} : \E m \in Nat : Numbers(x)' = 1..m
        BY <2>6 DEF VersionsInv, StoredInv
      <4> QED
        BY <2>1, <4>1, <4>2
    <3>3. \A v \in stored : v.owner = o => v.number # k
      BY <2>4 DEF Numbers, VersionsOf
    <3>4. \A v, w \in stored' : v.owner = w.owner /\ v.number = w.number => v = w
      BY <2>1, <3>3 DEF VersionsInv, StoredInv
    <3>5. o \in created
      BY <2>1 DEF VersionsInv, CreateInv
    <3>6. \A v \in stored' : v.owner \in created' /\ vpc'[v.by] = "stored"
      BY <1>0, <2>1, <3>5 DEF VersionsInv, StoredInv, VersionsTypeOK
    <3> QED
      BY <2>1, <3>2, <3>4, <3>6 DEF StoredInv
  <2>8. CreateInv'
    BY <1>0, <2>1 DEF VersionsInv, CreateInv, VersionsTypeOK
  <2>9. InsertInv'
    BY <1>0, <2>1, <2>6 DEF VersionsInv, InsertInv, VersionsTypeOK
  <2>10. FileInv'
    BY <1>0, <2>1, <2>6 DEF VersionsInv, FileInv, VersionsTypeOK
  <2> QED
    BY <1>0, <2>7, <2>8, <2>9, <2>10 DEF VersionsInv
<1>10. ASSUME NEW u \in Uploads, UploadDies(u)
       PROVE  VersionsInv'
  <2>1. vpc'[u] = "dead" /\ vpc[u] \notin {"new", "stored"}
    BY <1>0, <1>10 DEF UploadDies, VersionsTypeOK, VersionsEnded
  <2> QED
    BY <1>0, <1>10, <2>1, QuietUpload, OthersNotCreating
    DEF UploadDies, VersionsTypeOK
<1> QED
  BY <1>1, <1>2, <1>3, <1>4, <1>5, <1>6, <1>7, <1>8, <1>9, <1>10
  DEF VersionsNext, ServeUpload

LEMMA VersionsAlways == VersionsSpec => []VersionsInv
BY VersionsInvInit, VersionsInvStep, PTL DEF VersionsSpec

-----------------------------------------------------------------------------
\* Every variable keeps its type (api.py:214-264, 310-342).
THEOREM VersionsTypeOKAlways == VersionsSpec => []VersionsTypeOK
<1>1. VersionsInv => VersionsTypeOK
  BY DEF VersionsInv
<1> QED
  BY <1>1, VersionsAlways, PTL

\* The versions of a prompt or dataset are numbered 1, 2, 3, ..., for any number of
\* overlapping and dying uploads (api.py:248-262, 323-340).
THEOREM NumbersAreConsecutiveAlways == VersionsSpec => []NumbersAreConsecutive
<1>1. VersionsInv => NumbersAreConsecutive
  <2> SUFFICES ASSUME VersionsInv, NEW o \in Owners
               PROVE  /\ Numbers(o) = 1..Cardinality(VersionsOf(o))
                      /\ \A v, w \in VersionsOf(o) : v.number = w.number => v = w
    BY DEF NumbersAreConsecutive
  <2>1. \A v, w \in VersionsOf(o) : v.number = w.number => v = w
    BY DEF VersionsInv, StoredInv, VersionsOf
  <2>2. PICK n \in Nat : Numbers(o) = 1..n
    BY DEF VersionsInv, StoredInv
  <2>3. Cardinality(VersionsOf(o)) = n
    BY <2>1, <2>2, ConsecutiveCount DEF VersionsInv
  <2> QED
    BY <2>1, <2>2, <2>3
<1> QED
  BY <1>1, VersionsAlways, PTL

\* An upload loses its number only to one that was stored under it, and a file is
\* stored whole (api.py:262, 340; datasets.py:42-53).
THEOREM CollisionMeansProgressAlways == VersionsSpec => []CollisionMeansProgress
<1>1. VersionsInv => CollisionMeansProgress
  <2> SUFFICES ASSUME VersionsInv, NEW u \in Uploads
               PROVE  /\ (vpc[u] = "error"
                            /\ (file[u] = NoFile \/ ParseVerdict(file[u]) = "good")) =>
                           \E v \in VersionsOf(owner[u]) : v.number = latest[u] + 1 /\ v.by # u
                      /\ (vpc[u] = "stored" /\ file[u] # NoFile) =>
                           \A i \in DOMAIN file[u].rows :
                             RowVerdict(file[u].rows[i].kind) = "good"
    BY DEF CollisionMeansProgress
  <2>1. ASSUME vpc[u] = "error", file[u] = NoFile \/ ParseVerdict(file[u]) = "good"
        PROVE  \E v \in VersionsOf(owner[u]) : v.number = latest[u] + 1 /\ v.by # u
    <3>1. PICK v \in VersionsOf(owner[u]) : v.number = latest[u] + 1
      BY <2>1 DEF VersionsInv, FileInv, Numbers
    <3>2. vpc[v.by] = "stored"
      BY DEF VersionsOf, VersionsInv, StoredInv
    <3> QED
      BY <2>1, <3>1, <3>2
  <2>2. ASSUME vpc[u] = "stored", file[u] # NoFile
        PROVE  \A i \in DOMAIN file[u].rows : RowVerdict(file[u].rows[i].kind) = "good"
    <3>1. ParseVerdict(file[u]) = "good"
      BY <2>2 DEF VersionsInv, FileInv
    <3> QED
      BY <3>1, Verdicts
  <2> QED
    BY <2>1, <2>2
<1> QED
  BY <1>1, VersionsAlways, PTL

=============================================================================
