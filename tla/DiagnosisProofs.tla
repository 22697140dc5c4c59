-------------------------- MODULE DiagnosisProofs --------------------------
(***************************************************************************)
(* One diagnosis per run, what it cost and what it rests on, for every        *)
(* number of requests and runs and every relevance, cost and budget.         *)
(***************************************************************************)
EXTENDS Diagnosis, DataTheorems

\* A draft belongs to its request, and there is one when it is inserted.
DraftInv ==
  \A q \in Requests :
    /\ \A d \in draft[q] : d.run = run[q] /\ d.by = q
    /\ dpc[q] \in {"pack", "second", "insert", "flushed"} => \E d : draft[q] = {d}

\* A run has one diagnosis or one request about to commit one; whoever collided or
\* was answered has it, and whoever wrote it was answered.
StoreInv ==
  /\ \A d, e \in diagnoses : d.run = e.run => d = e
  /\ \A d \in diagnoses : dpc[d.by] = "answered"
  /\ \A q \in Requests : dpc[q] = "flushed" => StoredFor(run[q]) = {}
  /\ \A p, q \in Requests :
       dpc[p] = "flushed" /\ dpc[q] = "flushed" /\ run[p] = run[q] => p = q
  /\ \A q \in Requests : dpc[q] = "collided" => StoredFor(run[q]) # {}
  /\ \A q \in Requests :
       dpc[q] = "answered" => served[q] = StoredFor(run[q]) /\ served[q] # {}

\* A request that passed the look-up found its run undiagnosed when it was sent.
CostInv ==
  \A q \in Requests :
    /\ dpc[q] \in {"new", "lookup", "status", "count", "first"} => calls[q] = 0
    /\ dpc[q] \in {"inspect", "pack", "second"} => calls[q] = 1
    /\ (dpc[q] \notin {"new", "lookup", "answered", "dead"} \/ calls[q] > 0) =>
         \A d \in before[q] : d.run # run[q]

\* A request that passed the count found room when it was sent.
RoomInv ==
  /\ IsFiniteSet(diagnoses)
  /\ \A q \in Requests :
       dpc[q] \in {"first", "inspect", "pack", "second", "insert", "flushed"} =>
         Cardinality(before[q]) < allowance
  /\ \A d \in diagnoses : Cardinality(before[d.by]) < allowance

\* Only runs that are over are inspected, and what was found stays so.
EvidenceOf(d) ==
  /\ status[d.run] # "running"
  /\ d.failures = Min({failing[d.run], MaxFailures})

EvidenceInv ==
  /\ \A q \in Requests :
       /\ (dpc[q] # "new" /\ loaded[q] # "running") => status[run[q]] # "running"
       /\ dpc[q] \in {"count", "first", "inspect"} => loaded[q] # "running"
       /\ dpc[q] = "new" => loaded[q] = "running"
       /\ \A d \in draft[q] : EvidenceOf(d)
  /\ \A d \in diagnoses : EvidenceOf(d)

DiagnosisInv ==
  DiagnosisTypeOK /\ DraftInv /\ StoreInv /\ CostInv /\ RoomInv /\ EvidenceInv

USE DiagnosisAssumption

-----------------------------------------------------------------------------
(* The order of the sources and the loop that fills the prompt.              *)

\* Where the sets of members that stand ahead make a total order, Ranked lists
\* every member at the place its order gives it.
LEMMA RankedLists ==
  ASSUME NEW S, IsFiniteSet(S), NEW ahead \in [S -> SUBSET S],
         \A x \in S : x \notin ahead[x],
         \A x, y \in S : x \in ahead[y] => ahead[x] \subseteq ahead[y],
         \A x, y \in S : x = y \/ x \in ahead[y] \/ y \in ahead[x]
  PROVE  /\ Cardinality(S) \in Nat
         /\ Ranked(S, ahead) \in [1..Cardinality(S) -> S]
         /\ \A k \in 1..Cardinality(S) :
              Cardinality(ahead[Ranked(S, ahead)[k]]) = k - 1
         /\ \A i, j \in 1..Cardinality(S) :
              i < j => Ranked(S, ahead)[i] \in ahead[Ranked(S, ahead)[j]]
<1> DEFINE n == Cardinality(S)
           f == [x \in S |-> Cardinality(ahead[x])]
           R == Ranked(S, ahead)
<1>1. n \in Nat
  BY FS_CardinalityType
<1>2. ASSUME NEW x \in S
      PROVE  f[x] \in Nat /\ f[x] < n /\ IsFiniteSet(ahead[x])
  <2>1. ahead[x] \in SUBSET S /\ ahead[x] # S
    OBVIOUS
  <2>2. IsFiniteSet(ahead[x]) /\ Cardinality(ahead[x]) <= n /\ Cardinality(ahead[x]) # n
    BY <2>1, FS_Subset
  <2>3. Cardinality(ahead[x]) \in Nat
    BY <2>2, FS_CardinalityType
  <2> QED
    BY <1>1, <2>2, <2>3
<1>3. ASSUME NEW x \in S, NEW y \in S, x \in ahead[y]
      PROVE  f[x] < f[y]
  <2>1. ahead[x] \in SUBSET ahead[y] /\ ahead[x] # ahead[y]
    BY <1>3
  <2>2. Cardinality(ahead[x]) <= Cardinality(ahead[y])
        /\ Cardinality(ahead[x]) # Cardinality(ahead[y])
    BY <1>2, <2>1, FS_Subset
  <2> QED
    BY <1>2, <2>2
<1> HIDE DEF n
<1>4. IsFiniteSet(0..n - 1) /\ Cardinality(0..n - 1) = n
  <2>1. 0 \in Int /\ n - 1 \in Int /\ (0 > n - 1 => n = 0) /\ (n - 1) - 0 + 1 = n
    BY <1>1
  <2> QED
    BY <2>1, FS_Interval
<1>5. f \in Injection(S, 0..n - 1)
  <2>1. f \in [S -> 0..n - 1]
    BY <1>1, <1>2
  <2>2. ASSUME NEW x \in S, NEW y \in S, f[x] = f[y]
        PROVE  x = y
    <3>1. f[x] \in Nat /\ f[y] \in Nat
      BY <1>2
    <3>2. x \notin ahead[y] /\ y \notin ahead[x]
      BY <1>3, <2>2, <3>1
    <3> QED
      BY <3>2
  <2> QED
    BY <2>1, <2>2 DEF Injection, IsInjective
<1>6. f \in Surjection(S, 0..n - 1)
  BY <1>4, <1>5, FS_Injection DEF n
<1>7. ASSUME NEW k \in 1..n
      PROVE  R[k] \in S /\ f[R[k]] = k - 1
  <2>1. k - 1 \in 0..n - 1
    BY <1>1
  <2>2. PICK x \in S : f[x] = k - 1
    BY <1>6, <2>1 DEF Surjection
  <2>3. R[k] = CHOOSE y \in S : Cardinality(ahead[y]) = k - 1
    BY DEF Ranked, n
  <2> QED
    BY <2>2, <2>3
<1>8. R \in [1..n -> S]
  BY <1>7 DEF Ranked, n
<1>9. ASSUME NEW i \in 1..n, NEW j \in 1..n, i < j
      PROVE  R[i] \in ahead[R[j]]
  <2>1. R[i] \in S /\ R[j] \in S /\ f[R[i]] = i - 1 /\ f[R[j]] = j - 1
    BY <1>7
  <2> HIDE DEF f, R
  <2>2. f[R[i]] < f[R[j]] /\ ~(f[R[j]] < f[R[i]]) /\ f[R[i]] # f[R[j]]
    BY <1>1, <1>9, <2>1
  <2> QED
    BY <1>3, <2>1, <2>2
<1> QED
  BY <1>1, <1>7, <1>8, <1>9 DEF n

\* What the failures take up is a number.
LEMMA SizeIsNat ==
  ASSUME NEW r \in Runs, NEW s \in Seq(1..MaxFailures)
  PROVE  Size(r, s) \in Nat
<1> DEFINE f == [i \in DOMAIN s |-> Cost[r][s[i]]]
<1>1. IsFiniteSet(DOMAIN s)
  <2>1. DOMAIN s = 1..Len(s) /\ Len(s) \in Nat
    OBVIOUS
  <2> QED
    BY <2>1, FS_Interval
<1>2. \A i \in DOMAIN s : f[i] \in Nat
  <2>1. \A i \in DOMAIN s : s[i] \in 1..MaxFailures
    OBVIOUS
  <2>2. Cost[r] \in [1..MaxFailures -> Nat \ {0}]
    BY PromptAssumption
  <2> QED
    BY <2>1, <2>2
<1>3. SumFunctionOnSet(f, DOMAIN s) \in Nat
  <2> HIDE DEF f
  <2> QED
    BY <1>1, <1>2, SumNat
<1>4. Size(r, s) = Base[r] + SumFunctionOnSet(f, DOMAIN s)
  BY DEF Size, SumFunction
<1>5. Base[r] \in Nat
  BY PromptAssumption
<1> HIDE DEF f
<1> QED
  BY <1>3, <1>4, <1>5

\* The loop has sent the first failures, within the budget; it goes on with the
\* next one, or is over because the next one would not fit.
PackedOf(d) ==
  /\ d.failures \in 1..MaxFailures /\ d.at \in 1..d.failures + 1
  /\ d.sent \in Seq(1..MaxFailures) /\ Len(d.sent) < d.at
  /\ \A i \in 1..Len(d.sent) : d.sent[i] = i
  /\ d.sent # <<>> => Size(d.run, d.sent) <= Budget
  /\ \/ d.at = Len(d.sent) + 1
     \/ /\ d.at = d.failures + 1
        /\ Size(d.run, Append(d.sent, Len(d.sent) + 1)) > Budget

\* A turn of the loop changes only what is sent and whose turn it is.
LEMMA TurnKeeps ==
  ASSUME NEW d, IsDraft(d)
  PROVE  /\ IsDraft(Turn(d))
         /\ Turn(d).run = d.run /\ Turn(d).by = d.by /\ Turn(d).failures = d.failures
         /\ Turn(d).asked = d.asked /\ Turn(d).citations = d.citations
         /\ \/ /\ Size(d.run, Append(d.sent, d.at)) > Budget
               /\ Turn(d).sent = d.sent /\ Turn(d).at = d.failures + 1
            \/ /\ ~(Size(d.run, Append(d.sent, d.at)) > Budget)
               /\ Turn(d).sent = Append(d.sent, d.at) /\ Turn(d).at = d.at + 1
<1> USE DEF IsDraft
<1>1. CASE Size(d.run, Append(d.sent, d.at)) > Budget
  <2>1. Turn(d) = [d EXCEPT !.at = d.failures + 1]
    BY <1>1 DEF Turn
  <2> QED
    BY <1>1, <2>1
<1>2. CASE ~(Size(d.run, Append(d.sent, d.at)) > Budget)
  <2>1. Turn(d) = [d EXCEPT !.sent = Append(@, d.at), !.at = @ + 1]
    BY <1>2 DEF Turn
  <2>2. Append(d.sent, d.at) \in Seq(Nat)
    OBVIOUS
  <2> QED
    BY <1>2, <2>1, <2>2
<1> QED
  BY <1>1, <1>2

\* And keeps what the loop has reached.
LEMMA TurnPacks ==
  ASSUME NEW d, IsDraft(d), PackedOf(d), ~(d.at > d.failures)
  PROVE  PackedOf(Turn(d))
<1> DEFINE more == Append(d.sent, d.at)
           e == Turn(d)
<1>1. d.run \in Runs /\ d.failures \in Nat \ {0} /\ d.sent \in Seq(Nat) /\ d.at \in Nat
  BY DEF IsDraft
<1>2. /\ d.failures \in 1..MaxFailures /\ d.at \in 1..d.failures
      /\ d.sent \in Seq(1..MaxFailures) /\ Len(d.sent) \in Nat /\ d.at = Len(d.sent) + 1
      /\ \A i \in 1..Len(d.sent) : d.sent[i] = i
      /\ d.sent # <<>> => Size(d.run, d.sent) <= Budget
  BY <1>1 DEF PackedOf
<1>3. /\ e.run = d.run /\ e.failures = d.failures
      /\ \/ Size(d.run, more) > Budget /\ e.sent = d.sent /\ e.at = d.failures + 1
         \/ ~(Size(d.run, more) > Budget) /\ e.sent = more /\ e.at = d.at + 1
  BY TurnKeeps
<1>4. CASE Size(d.run, more) > Budget
  <2>1. e.sent = d.sent /\ e.at = d.failures + 1
    BY <1>3, <1>4
  <2> HIDE DEF e
  <2>2. Size(e.run, Append(e.sent, Len(e.sent) + 1)) > Budget
    BY <1>2, <1>3, <1>4, <2>1
  <2>3. e.at \in 1..e.failures + 1 /\ Len(e.sent) < e.at
    BY <1>1, <1>2, <1>3, <2>1
  <2>4. PackedOf(e)
    BY <1>2, <1>3, <2>1, <2>2, <2>3 DEF PackedOf
  <2> QED
    BY <2>4 DEF e
<1>5. CASE ~(Size(d.run, more) > Budget)
  <2>1. e.sent = more /\ e.at = d.at + 1
    BY <1>3, <1>5
  <2>2. more \in Seq(1..MaxFailures) /\ Len(more) = d.at
    <3>1. d.at \in 1..MaxFailures
      BY <1>2
    <3> QED
      BY <1>2, <3>1
  <2>3. \A i \in 1..Len(more) : more[i] = i
    BY <1>1, <1>2
  <2>4. Size(d.run, more) <= Budget
    <3>1. Size(d.run, more) \in Nat /\ Budget \in Nat
      BY <1>1, <2>2, SizeIsNat, PromptAssumption
    <3> QED
      BY <1>5, <3>1
  <2> HIDE DEF e, more
  <2>5. e.at \in 1..e.failures + 1 /\ Len(e.sent) < e.at /\ e.at = Len(e.sent) + 1
    BY <1>1, <1>2, <1>3, <2>1, <2>2
  <2>6. PackedOf(e)
    BY <1>2, <1>3, <2>1, <2>2, <2>3, <2>4, <2>5 DEF PackedOf
  <2> QED
    BY <2>6 DEF e
<1> QED
  BY <1>4, <1>5

\* At least one source is asked for.
LEMMA SlotsAreSome == Max({1, TopK}) \in Nat /\ Max({1, TopK}) >= 1
<1>1. 1 \in Nat /\ TopK \in Nat
  OBVIOUS
<1>2. /\ Max({1, TopK}) \in {1, TopK}
      /\ Max({1, TopK}) >= 1 /\ Max({1, TopK}) >= TopK
  BY ONLY <1>1, MaxPair
<1> QED
  BY ONLY <1>1, <1>2

LEMMA AheadMeans ==
  ASSUME NEW r, NEW c, NEW e
  PROVE  e \in Ahead(r, c) <=>
           /\ e \in Hits(r)
           /\ \/ Relevance[r][e] > Relevance[r][c]
              \/ (Relevance[r][e] = Relevance[r][c] /\ e < c)
BY Zenon DEF Ahead

\* The best hits are retrieved, best first: TopK of them at most, and one if there
\* is any.
LEMMA SourcesAreBest ==
  ASSUME NEW r \in Runs
  PROVE  /\ Sources(r) \in Seq(Chunks)
         /\ \A i \in DOMAIN Sources(r) :
              /\ Relevance[r][Sources(r)[i]] > 0
              /\ Cardinality({e \in Chunks : Relevance[r][e] > Relevance[r][Sources(r)[i]]})
                   < Max({1, TopK})
         /\ \A i, j \in DOMAIN Sources(r) : i < j =>
              \/ Relevance[r][Sources(r)[i]] > Relevance[r][Sources(r)[j]]
              \/ /\ Relevance[r][Sources(r)[i]] = Relevance[r][Sources(r)[j]]
                 /\ Sources(r)[i] < Sources(r)[j]
         /\ IsFiniteSet(Range(Sources(r)))
         /\ Cardinality(Range(Sources(r))) <= Max({1, TopK})
         /\ Sources(r) = <<>> => \A c \in Chunks : Relevance[r][c] = 0
<1> DEFINE K == Max({1, TopK})
           H == Hits(r)
           n == Cardinality(H)
           ahead == [c \in H |-> Ahead(r, c)]
           best == Ranked(H, ahead)
           m == Min({n, K})
           s == Sources(r)
<1>1. K \in Nat /\ K >= 1
  BY SlotsAreSome
<1>2. /\ \A c \in Chunks : Relevance[r][c] \in Nat /\ c \in Nat
      /\ H \subseteq Chunks /\ IsFiniteSet(H)
  <2>1. H \in SUBSET Chunks
    BY DEF Hits
  <2>2. IsFiniteSet(H)
    BY <2>1, FS_Subset
  <2>3. Relevance[r] \in [Chunks -> Nat]
    OBVIOUS
  <2>4. \A c \in Chunks : Relevance[r][c] \in Nat
    BY <2>3
  <2> QED
    BY <2>1, <2>2, <2>4
<1>3. \A c \in H : c \in Nat /\ Relevance[r][c] \in Nat
  BY <1>2
<1>4. /\ ahead \in [H -> SUBSET H]
      /\ \A x, y \in H : x \in ahead[y] <=>
           \/ Relevance[r][x] > Relevance[r][y]
           \/ (Relevance[r][x] = Relevance[r][y] /\ x < y)
  <2>1. \A c \in H : Ahead(r, c) \in SUBSET H
    BY DEF Ahead
  <2> QED
    BY <2>1, AheadMeans
<1> HIDE DEF ahead, H, K
<1>5. /\ \A x \in H : x \notin ahead[x]
      /\ \A x, y \in H : x = y \/ x \in ahead[y] \/ y \in ahead[x]
  BY ONLY <1>3, <1>4
<1>6. ASSUME NEW x \in H, NEW y \in H, x \in ahead[y], NEW z \in ahead[x]
      PROVE  z \in ahead[y]
  <2>1. z \in H
    BY <1>4
  <2>2. /\ x \in Nat /\ y \in Nat /\ z \in Nat
        /\ Relevance[r][x] \in Nat /\ Relevance[r][y] \in Nat /\ Relevance[r][z] \in Nat
    BY <1>3, <2>1
  <2>3. /\ Relevance[r][x] > Relevance[r][y] \/ (Relevance[r][x] = Relevance[r][y] /\ x < y)
        /\ Relevance[r][z] > Relevance[r][x] \/ (Relevance[r][z] = Relevance[r][x] /\ z < x)
    BY <1>4, <1>6, <2>1
  <2>4. Relevance[r][z] > Relevance[r][y] \/ (Relevance[r][z] = Relevance[r][y] /\ z < y)
    BY ONLY <2>2, <2>3
  <2> QED
    BY <1>4, <2>1, <2>4
<1>7. /\ n \in Nat /\ best \in [1..n -> H]
      /\ \A k \in 1..n : Cardinality(ahead[best[k]]) = k - 1
      /\ \A i, j \in 1..n : i < j => best[i] \in ahead[best[j]]
  <2>1. \A x, y \in H : x \in ahead[y] => ahead[x] \subseteq ahead[y]
    BY <1>6
  <2> QED
    BY ONLY <1>2, <1>4, <1>5, <2>1, RankedLists
<1>8. m \in Nat /\ m <= n /\ m <= K /\ (m = 0 => n = 0)
  <2> HIDE DEF n
  <2>1. m \in {n, K} /\ m <= n /\ m <= K
    BY ONLY <1>1, <1>7, MinPair
  <2> QED
    BY ONLY <1>1, <1>7, <2>1
<1>9. s = [k \in 1..m |-> best[k]]
  BY DEF Sources, H, K, ahead
<1> HIDE DEF best, n, m, s
<1>10. /\ DOMAIN s = 1..m /\ \A k \in 1..m : k \in 1..n /\ s[k] = best[k] /\ s[k] \in H
       /\ s \in Seq(H)
  BY <1>7, <1>8, <1>9
<1>11. s \in Seq(Chunks)
  BY ONLY <1>2, <1>10
<1>12. ASSUME NEW i \in 1..m
       PROVE  Cardinality({e \in Chunks : Relevance[r][e] > Relevance[r][s[i]]}) < K
  <2> DEFINE better == {e \in Chunks : Relevance[r][e] > Relevance[r][s[i]]}
  <2>1. s[i] \in H /\ ahead[s[i]] \in SUBSET H /\ Cardinality(ahead[s[i]]) = i - 1
    BY <1>4, <1>7, <1>10
  <2>2. better \subseteq ahead[s[i]]
    <3> SUFFICES ASSUME NEW e \in better
                 PROVE  e \in ahead[s[i]]
      OBVIOUS
    <3>1. e \in Chunks /\ Relevance[r][e] > Relevance[r][s[i]]
      OBVIOUS
    <3>2. Relevance[r][e] \in Nat /\ Relevance[r][s[i]] \in Nat
      BY <1>2, <1>3, <2>1, <3>1
    <3>3. Relevance[r][e] > 0
      BY ONLY <3>1, <3>2
    <3>4. e \in H
      BY <3>1, <3>3 DEF H, Hits
    <3> QED
      BY <1>4, <2>1, <3>1, <3>4
  <2> HIDE DEF better
  <2>3. IsFiniteSet(ahead[s[i]])
    BY <1>2, <2>1, FS_Subset
  <2>4. IsFiniteSet(better) /\ Cardinality(better) <= i - 1
    BY <2>1, <2>2, <2>3, FS_Subset
  <2>5. Cardinality(better) \in Nat
    BY <2>4, FS_CardinalityType
  <2>6. Cardinality(better) < K
    BY <1>1, <1>8, <2>4, <2>5
  <2> QED
    BY <2>6 DEF better
<1>13. IsFiniteSet(Range(s)) /\ Cardinality(Range(s)) <= K
  <2>1. s \in Surjection(1..m, Range(s))
    BY <1>10 DEF Surjection, Range
  <2>2. IsFiniteSet(1..m) /\ Cardinality(1..m) = m
    <3>1. 1 \in Int /\ m \in Int /\ (1 > m => m = 0) /\ m - 1 + 1 = m
      BY <1>8
    <3> QED
      BY <3>1, FS_Interval
  <2>3. IsFiniteSet(Range(s)) /\ Cardinality(Range(s)) <= m
    BY <2>1, <2>2, FS_Surjection
  <2>4. Cardinality(Range(s)) \in Nat
    BY <2>3, FS_CardinalityType
  <2> QED
    BY <1>1, <1>8, <2>3, <2>4
<1>14. s = <<>> => \A c \in Chunks : Relevance[r][c] = 0
  <2>1. s = <<>> => n = 0
    BY ONLY <1>7, <1>8, <1>10
  <2>2. n = 0 => H = {}
    BY <1>2, FS_EmptySet DEF n
  <2>3. H = {} => \A c \in Chunks : Relevance[r][c] = 0
    BY <1>2 DEF H, Hits
  <2> QED
    BY <2>1, <2>2, <2>3
<1>15. \A i \in 1..m : Relevance[r][s[i]] > 0
  BY <1>10 DEF H, Hits
<1>16. ASSUME NEW i \in 1..m, NEW j \in 1..m, i < j
       PROVE  \/ Relevance[r][s[i]] > Relevance[r][s[j]]
              \/ (Relevance[r][s[i]] = Relevance[r][s[j]] /\ s[i] < s[j])
  BY <1>4, <1>7, <1>10, <1>16
<1> QED
  BY <1>10, <1>11, <1>12, <1>13, <1>14, <1>15, <1>16 DEF s, K

\* What is cited was retrieved; it is the sources in their order unless the model
\* listed one of them.
CitesSources(d) ==
  /\ Range(d.citations) \subseteq Range(Sources(d.run))
  /\ d.citations = <<>> => Sources(d.run) = <<>>
  /\ Range(d.asked) \intersect Range(d.citations) = {} => d.citations = Sources(d.run)

\* Whatever ids the model lists.
LEMMA CitationsCiteSources ==
  ASSUME NEW r \in Runs, NEW ids \in Seq(Nat)
  PROVE  /\ Citations(r, ids) \in Seq(Chunks)
         /\ Range(Citations(r, ids)) \subseteq Range(Sources(r))
         /\ Citations(r, ids) = <<>> => Sources(r) = <<>>
         /\ Range(ids) \intersect Range(Citations(r, ids)) = {} => Citations(r, ids) = Sources(r)
<1> DEFINE S == Known(r, ids)
           ahead == [i \in S |-> {j \in S : j < i}]
           kept == Ranked(S, ahead)
           n == Cardinality(S)
           c == [k \in DOMAIN kept |-> ids[kept[k]]]
<1>1. Sources(r) \in Seq(Chunks)
  BY SourcesAreBest
<1>2. CASE S = {}
  <2>1. Citations(r, ids) = Sources(r)
    BY <1>2 DEF Citations
  <2> QED
    BY <1>1, <2>1
<1>3. CASE S # {}
  <2>1. /\ S \subseteq 1..Len(ids) /\ Len(ids) \in Nat
        /\ \A i \in S : i \in DOMAIN ids /\ ids[i] \in Range(Sources(r)) /\ i \in Nat
    BY DEF Known
  <2>2. IsFiniteSet(S)
    <3>1. IsFiniteSet(1..Len(ids))
      BY <2>1, FS_Interval
    <3> QED
      BY <2>1, <3>1, FS_Subset
  <2>3. /\ ahead \in [S -> SUBSET S]
        /\ \A x \in S : x \notin ahead[x]
        /\ \A x, y \in S : x \in ahead[y] => ahead[x] \subseteq ahead[y]
        /\ \A x, y \in S : x = y \/ x \in ahead[y] \/ y \in ahead[x]
    <3>1. \A x, y \in S : x \in Nat /\ y \in Nat
      BY <2>1
    <3> HIDE DEF S
    <3> QED
      BY <3>1
  <2>4. n \in Nat /\ kept \in [1..n -> S]
    <3> HIDE DEF S, ahead
    <3> QED
      BY <2>2, <2>3, RankedLists
  <2>5. n > 0
    BY <1>3, <2>2, <2>4, FS_EmptySet
  <2>6. Citations(r, ids) = c
    BY <1>3 DEF Citations
  <2> HIDE DEF kept, n, S
  <2>7. DOMAIN c = 1..n /\ \A k \in 1..n : c[k] \in Range(Sources(r)) /\ c[k] \in Range(ids)
    <3>1. DOMAIN c = 1..n /\ \A k \in 1..n : c[k] = ids[kept[k]] /\ kept[k] \in S
      BY <2>4
    <3>2. \A i \in S : ids[i] \in Range(ids)
      BY <2>1 DEF Range
    <3> HIDE DEF c
    <3> QED
      BY <2>1, <3>1, <3>2
  <2>8. Range(Sources(r)) \subseteq Chunks
    BY <1>1 DEF Range
  <2> HIDE DEF c
  <2>9. c \in Seq(Chunks) /\ c # <<>>
    <3>1. c = [k \in 1..n |-> c[k]]
      BY <2>6, <2>7 DEF c
    <3>2. \A k \in 1..n : c[k] \in Chunks
      BY <2>7, <2>8
    <3>3. c \in Seq(Chunks)
      BY ONLY <2>4, <3>1, <3>2
    <3> QED
      BY <2>4, <2>5, <2>7, <3>3
  <2>10. Range(c) \subseteq Range(Sources(r))
    BY <2>7 DEF Range
  <2>11. c[1] \in Range(ids) /\ c[1] \in Range(c)
    <3>1. 1 \in 1..n
      BY ONLY <2>4, <2>5
    <3> QED
      BY ONLY <2>7, <3>1 DEF Range
  <2> QED
    BY <2>6, <2>9, <2>10, <2>11
<1> QED
  BY <1>2, <1>3

-----------------------------------------------------------------------------
\* Nothing is stored at first and no request has begun.
LEMMA DiagnosisInvInit == DiagnosisInit => DiagnosisInv
<1> SUFFICES ASSUME DiagnosisInit
             PROVE  DiagnosisInv
  OBVIOUS
<1>1. DiagnosisTypeOK
  BY DEF DiagnosisInit, DiagnosisTypeOK, DiagnosisPc, Over
<1> QED
  BY <1>1, FS_EmptySet
  DEF DiagnosisInit, DiagnosisInv, DraftInv, StoreInv, CostInv, RoomInv, EvidenceInv

\* A request moves without storing anything, and what the invariant says of it
\* alone holds where it has come to.
LEMMA QuietRequest ==
  ASSUME DiagnosisInv, DiagnosisTypeOK', NEW q \in Requests,
         UNCHANGED <<allowance, status, failing, diagnoses, run>>,
         \A p \in Requests \ {q} :
           /\ dpc'[p] = dpc[p] /\ loaded'[p] = loaded[p] /\ before'[p] = before[p]
           /\ calls'[p] = calls[p] /\ draft'[p] = draft[p] /\ served'[p] = served[p],
         dpc[q] # "answered", dpc'[q] \notin {"new", "flushed"},
         \A d \in draft'[q] : d.run = run[q] /\ d.by = q /\ EvidenceOf(d),
         dpc'[q] \in {"pack", "second", "insert"} => \E d : draft'[q] = {d},
         dpc'[q] = "collided" => StoredFor(run[q]) # {},
         dpc'[q] = "answered" => served'[q] = StoredFor(run[q]) /\ served'[q] # {},
         dpc'[q] \in {"lookup", "status", "count", "first"} => calls'[q] = 0,
         dpc'[q] \in {"inspect", "pack", "second"} => calls'[q] = 1,
         (dpc'[q] \notin {"lookup", "answered", "dead"} \/ calls'[q] > 0) =>
           \A d \in before'[q] : d.run # run[q],
         dpc'[q] \in {"first", "inspect", "pack", "second", "insert"} =>
           Cardinality(before'[q]) < allowance,
         loaded'[q] # "running" => status[run[q]] # "running",
         dpc'[q] \in {"count", "first", "inspect"} => loaded'[q] # "running"
  PROVE  DiagnosisInv'
<1>1. \A r : StoredFor(r)' = StoredFor(r)
  BY DEF StoredFor
<1>2. \A d : EvidenceOf(d)' = EvidenceOf(d)
  BY DEF EvidenceOf
<1>3. DraftInv'
  <2> SUFFICES ASSUME NEW p \in Requests
               PROVE  /\ \A d \in draft'[p] : d.run = run[p] /\ d.by = p
                      /\ dpc'[p] \in {"pack", "second", "insert", "flushed"} =>
                           \E d : draft'[p] = {d}
    BY DEF DraftInv
  <2>1. CASE p = q
    BY <2>1
  <2>2. CASE p # q
    <3>1. draft'[p] = draft[p] /\ dpc'[p] = dpc[p]
      BY <2>2
    <3>2. /\ \A d \in draft[p] : d.run = run[p] /\ d.by = p
          /\ dpc[p] \in {"pack", "second", "insert", "flushed"} => \E d : draft[p] = {d}
      BY DEF DiagnosisInv, DraftInv
    <3>3. run'[p] = run[p]
      OBVIOUS
    <3> QED
      BY ONLY <3>1, <3>2, Zenon
  <2> QED
    BY <2>1, <2>2
<1>4. StoreInv'
  <2>1. \A d \in diagnoses : d.by # q /\ d.by \in Requests
    BY DEF DiagnosisInv, StoreInv, DiagnosisTypeOK, IsDraft
  <2>2. \A d \in diagnoses : dpc'[d.by] = "answered"
    BY <2>1 DEF DiagnosisInv, StoreInv
  <2>3. \A p \in Requests : dpc'[p] = "flushed" => p # q /\ dpc[p] = "flushed"
    OBVIOUS
  <2>4. \A p \in Requests : dpc'[p] = "flushed" => StoredFor(run[p]) = {}
    BY <2>3 DEF DiagnosisInv, StoreInv
  <2>5. \A p, o \in Requests :
          dpc'[p] = "flushed" /\ dpc'[o] = "flushed" /\ run[p] = run[o] => p = o
    BY <2>3 DEF DiagnosisInv, StoreInv
  <2>6. \A p \in Requests :
          /\ dpc'[p] = "collided" => StoredFor(run[p]) # {}
          /\ dpc'[p] = "answered" => served'[p] = StoredFor(run[p]) /\ served'[p] # {}
    BY DEF DiagnosisInv, StoreInv
  <2> QED
    BY <1>1, <2>2, <2>4, <2>5, <2>6 DEF DiagnosisInv, StoreInv
<1>5. CostInv'
  BY DEF DiagnosisInv, CostInv
<1>6. RoomInv'
  <2>1. \A d \in diagnoses : d.by # q
    BY DEF DiagnosisInv, StoreInv
  <2> QED
    BY <2>1 DEF DiagnosisInv, RoomInv, DiagnosisTypeOK, IsDraft
<1>7. EvidenceInv'
  BY <1>2 DEF DiagnosisInv, EvidenceInv
<1> QED
  BY <1>3, <1>4, <1>5, <1>6, <1>7 DEF DiagnosisInv

\* What may come of a call.
LEMMA CallOutcomes ==
  /\ \A o : Failed(o) \in {"unavailable", "error"}
  /\ \A reply : AfterFirst(reply) \in {"unavailable", "error", "inspect"}
<1>1. \A o : Failed(o) \in {"unavailable", "error"}
  BY DEF Failed
<1> QED
  BY <1>1 DEF AfterFirst

\* No step of a request or a run leaves the types.
LEMMA DiagnosisTypes ==
  DiagnosisInv /\ [DiagnosisNext]_diagnosisVars => DiagnosisTypeOK'
<1> SUFFICES ASSUME DiagnosisInv, [DiagnosisNext]_diagnosisVars
             PROVE  DiagnosisTypeOK'
  OBVIOUS
<1> USE DEF DiagnosisTypeOK, DiagnosisPc, Over, Step, runVars
<1>0. DiagnosisTypeOK
  BY DEF DiagnosisInv
<1>1. CASE UNCHANGED diagnosisVars
  BY <1>0, <1>1 DEF diagnosisVars
<1>2. ASSUME NEW r \in Runs, FailCase(r)
      PROVE  DiagnosisTypeOK'
  BY <1>0, <1>2 DEF FailCase
<1>3. ASSUME NEW r \in Runs, EndRun(r)
      PROVE  DiagnosisTypeOK'
  BY <1>0, <1>3 DEF EndRun
<1>4. ASSUME NEW q \in Requests, OpenDiagnosis(q)
      PROVE  DiagnosisTypeOK'
  BY <1>0, <1>4 DEF OpenDiagnosis
<1>5. ASSUME NEW q \in Requests,
             LookUpDiagnosis(q) \/ ReturnWinner(q)
      PROVE  DiagnosisTypeOK'
  BY <1>0, <1>5 DEF LookUpDiagnosis, ReturnWinner, StoredDiagnosis, StoredFor
<1>6. ASSUME NEW q \in Requests,
             CheckStatus(q) \/ CountToday(q) \/ InsertDiagnosis(q) \/ DiagnosisDies(q)
      PROVE  DiagnosisTypeOK'
  BY <1>0, <1>6 DEF CheckStatus, CountToday, InsertDiagnosis, DiagnosisDies
<1>7. ASSUME NEW q \in Requests, CallFirst(q)
      PROVE  DiagnosisTypeOK'
  <2>1. dpc[q] = "first" /\ calls[q] = 0
    BY <1>7 DEF CallFirst, DiagnosisInv, CostInv
  <2> QED
    BY <1>0, <1>7, <2>1, CallOutcomes DEF CallFirst
<1>8. ASSUME NEW q \in Requests, Inspect(q)
      PROVE  DiagnosisTypeOK'
  <2> DEFINE n == Min({failing[run[q]], MaxFailures})
  <2>1. n \in Nat
    <3>1. failing[run[q]] \in Nat /\ MaxFailures \in Nat
      BY <1>0
    <3>2. n \in {failing[run[q]], MaxFailures}
      BY ONLY <3>1, MinPair
    <3> QED
      BY <3>1, <3>2
  <2> HIDE DEF n
  <2>2. CASE n = 0
    BY <1>0, <1>8, <2>2 DEF Inspect, n
  <2>3. CASE n # 0
    <3> DEFINE d == [run |-> run[q], by |-> q, failures |-> n, sent |-> <<>>, at |-> 1,
                     asked |-> <<>>, citations |-> Sources(run[q])]
    <3>1. IsDraft(d)
      BY <1>0, <2>1, <2>3, SourcesAreBest DEF IsDraft
    <3>2. draft' = [draft EXCEPT ![q] = {d}] /\ dpc' = [dpc EXCEPT ![q] = "pack"]
      BY <1>8, <2>3 DEF Inspect, n
    <3> QED
      BY <1>0, <1>8, <3>1, <3>2 DEF Inspect
  <2> QED
    BY <2>2, <2>3
<1>9. ASSUME NEW q \in Requests, CallSecond(q)
      PROVE  DiagnosisTypeOK'
  <2>1. dpc[q] = "second" /\ calls[q] = 1
    BY <1>9 DEF CallSecond, DiagnosisInv, CostInv
  <2>2. /\ DOMAIN draft' = Requests
        /\ \A p \in Requests : \A d \in draft'[p] : IsDraft(d)
    <3>1. PICK ids \in CiteLists :
            \/ UNCHANGED draft
            \/ draft' = [draft EXCEPT ![q] =
                  {[d EXCEPT !.asked = ids, !.citations = Citations(run[q], ids)]
                     : d \in draft[q]}]
      BY <1>9 DEF CallSecond
    <3>2. CASE UNCHANGED draft
      BY <1>0, <3>2
    <3>3. CASE ~UNCHANGED draft
      <4>1. \A p \in Requests \ {q} : draft'[p] = draft[p]
        BY <1>0, <3>1
      <4>2. draft'[q] = {[d EXCEPT !.asked = ids, !.citations = Citations(run[q], ids)]
                           : d \in draft[q]}
        BY <1>0, <3>1, <3>3
      <4>3. ASSUME NEW d \in draft'[q]
            PROVE  IsDraft(d)
        <5>1. PICK e \in draft[q] :
                d = [e EXCEPT !.asked = ids, !.citations = Citations(run[q], ids)]
          BY <4>2
        <5>2. IsDraft(e)
          BY <1>0
        <5>3. ids \in Seq(Nat) /\ Citations(run[q], ids) \in Seq(Chunks)
          BY <1>0, CitationsCiteSources
        <5> QED
          BY <5>1, <5>2, <5>3 DEF IsDraft
      <4>4. DOMAIN draft' = Requests
        BY <1>0, <3>1
      <4> QED
        BY <1>0, <4>1, <4>3, <4>4
    <3> QED
      BY <3>2, <3>3
  <2>3. dpc' \in [Requests -> DiagnosisPc] /\ calls' \in [Requests -> 0..2]
    <3>1. PICK next \in DiagnosisPc : dpc' = [dpc EXCEPT ![q] = next]
      BY <1>9, CallOutcomes DEF CallSecond
    <3>2. calls' = [calls EXCEPT ![q] = @ + 1]
      BY <1>9 DEF CallSecond
    <3>3. dpc \in [Requests -> DiagnosisPc] /\ calls \in [Requests -> 0..2]
      BY <1>0
    <3> QED
      BY ONLY <2>1, <3>1, <3>2, <3>3
  <2> QED
    BY <1>0, <1>9, <2>2, <2>3 DEF CallSecond
<1>10. ASSUME NEW q \in Requests, CommitDiagnosis(q)
       PROVE  DiagnosisTypeOK'
  BY <1>0, <1>10 DEF CommitDiagnosis
<1>11. ASSUME NEW q \in Requests, AddFailure(q)
       PROVE  DiagnosisTypeOK'
  <2>1. PICK d \in draft[q] :
          IF d.at > d.failures
            THEN dpc' = [dpc EXCEPT ![q] = "second"] /\ UNCHANGED draft
            ELSE draft' = [draft EXCEPT ![q] = {Turn(d)}] /\ UNCHANGED dpc
    BY <1>11 DEF AddFailure
  <2>2. IsDraft(d)
    BY <1>0
  <2>3. IsDraft(Turn(d))
    BY <2>2, TurnKeeps
  <2>4. /\ DOMAIN draft' = Requests
        /\ \A p \in Requests : \A e \in draft'[p] : IsDraft(e)
    <3>1. DOMAIN draft = Requests /\ \A p \in Requests : \A e \in draft[p] : IsDraft(e)
      BY <1>0
    <3>2. CASE draft' = [draft EXCEPT ![q] = {Turn(d)}]
      <4>1. draft'[q] = {Turn(d)} /\ \A p \in Requests \ {q} : draft'[p] = draft[p]
        BY ONLY <3>1, <3>2
      <4>2. DOMAIN draft' = Requests
        BY ONLY <3>1, <3>2
      <4> QED
        BY ONLY <2>3, <3>1, <4>1, <4>2
    <3>3. CASE UNCHANGED draft
      BY ONLY <3>1, <3>3
    <3> QED
      BY ONLY <2>1, <3>2, <3>3
  <2>5. dpc' \in [Requests -> DiagnosisPc]
    BY <1>0, <2>1
  <2> QED
    BY <1>0, <1>11, <2>4, <2>5 DEF AddFailure
<1> QED
  BY <1>1, <1>2, <1>3, <1>4, <1>5, <1>6, <1>7, <1>8, <1>9, <1>10, <1>11
  DEF DiagnosisNext, ServeDiagnosis

\* The step of a run leaves what is stored of runs that are over.
LEMMA RunStep ==
  ASSUME DiagnosisInv, DiagnosisTypeOK',
         UNCHANGED <<allowance, diagnoses, dpc, run, loaded, before, calls, draft, served>>,
         \A r \in Runs : status[r] # "running" =>
           status'[r] # "running" /\ failing'[r] = failing[r]
  PROVE  DiagnosisInv'
<1>1. \A r : StoredFor(r)' = StoredFor(r)
  BY DEF StoredFor
<1>2. \A d : IsDraft(d) /\ EvidenceOf(d) => EvidenceOf(d)'
  BY DEF EvidenceOf, IsDraft
<1>3. DraftInv' /\ CostInv' /\ RoomInv'
  BY DEF DiagnosisInv, DraftInv, CostInv, RoomInv
<1>4. StoreInv'
  BY <1>1 DEF DiagnosisInv, StoreInv
<1>5. EvidenceInv'
  BY <1>2 DEF DiagnosisInv, EvidenceInv, DiagnosisTypeOK
<1> QED
  BY <1>3, <1>4, <1>5 DEF DiagnosisInv

\* No step stores a second diagnosis, a paid one too many or one that is untrue.
LEMMA DiagnosisInvStep ==
  DiagnosisInv /\ [DiagnosisNext]_diagnosisVars => DiagnosisInv'
<1> SUFFICES ASSUME DiagnosisInv, [DiagnosisNext]_diagnosisVars
             PROVE  DiagnosisInv'
  OBVIOUS
<1>0. DiagnosisTypeOK /\ DiagnosisTypeOK'
  BY DiagnosisTypes DEF DiagnosisInv
<1> USE DEF Step, runVars
<1>1. CASE UNCHANGED diagnosisVars
  BY <1>0, <1>1, RunStep DEF diagnosisVars
<1>2. ASSUME NEW r \in Runs, FailCase(r) \/ EndRun(r)
      PROVE  DiagnosisInv'
  BY <1>0, <1>2, RunStep DEF FailCase, EndRun, DiagnosisTypeOK, Over
<1>3. ASSUME NEW q \in Requests, OpenDiagnosis(q)
      PROVE  DiagnosisInv'
  <2>1. /\ dpc[q] = "new" /\ dpc'[q] = "lookup" /\ loaded'[q] = status[run[q]]
        /\ calls'[q] = 0
    BY <1>0, <1>3 DEF OpenDiagnosis, DiagnosisTypeOK, DiagnosisInv, CostInv
  <2>2. \A d \in draft[q] : d.run = run[q] /\ d.by = q /\ EvidenceOf(d)
    BY DEF DiagnosisInv, DraftInv, EvidenceInv
  <2>3. /\ UNCHANGED <<allowance, status, failing, diagnoses, run, calls, draft, served>>
        /\ \A p \in Requests \ {q} :
             dpc'[p] = dpc[p] /\ loaded'[p] = loaded[p] /\ before'[p] = before[p]
    BY <1>0, <1>3 DEF OpenDiagnosis, DiagnosisTypeOK
  <2> QED
    BY <1>0, <2>1, <2>2, <2>3, QuietRequest
<1>4. ASSUME NEW q \in Requests, LookUpDiagnosis(q)
      PROVE  DiagnosisInv'
  <2>1. /\ dpc[q] = "lookup" /\ served'[q] = StoredFor(run[q])
        /\ dpc'[q] = IF StoredFor(run[q]) # {} THEN "answered" ELSE "status"
        /\ calls'[q] = 0
    BY <1>0, <1>4
    DEF LookUpDiagnosis, StoredDiagnosis, DiagnosisTypeOK, DiagnosisInv, CostInv
  <2>2. StoredFor(run[q]) = {} => \A d \in before[q] : d.run # run[q]
    BY <1>0 DEF StoredFor, DiagnosisTypeOK
  <2>3. /\ \A d \in draft[q] : d.run = run[q] /\ d.by = q /\ EvidenceOf(d)
        /\ loaded[q] # "running" => status[run[q]] # "running"
    BY <2>1 DEF DiagnosisInv, DraftInv, EvidenceInv
  <2>4. /\ UNCHANGED <<allowance, status, failing, diagnoses, run, loaded, before, calls,
                       draft>>
        /\ \A p \in Requests \ {q} : dpc'[p] = dpc[p] /\ served'[p] = served[p]
    BY <1>0, <1>4 DEF LookUpDiagnosis, DiagnosisTypeOK
  <2> QED
    BY <1>0, <2>1, <2>2, <2>3, <2>4, QuietRequest
<1>5. ASSUME NEW q \in Requests, CheckStatus(q)
      PROVE  DiagnosisInv'
  <2>1. /\ dpc[q] = "status" /\ calls[q] = 0
        /\ dpc'[q] = IF Diagnosable(loaded[q]) THEN "count" ELSE "refused"
        /\ Diagnosable(loaded[q]) => loaded[q] # "running"
    BY <1>0, <1>5
    DEF CheckStatus, DiagnosisTypeOK, DiagnosisInv, CostInv, Diagnosable
  <2>2. /\ \A d \in draft[q] : d.run = run[q] /\ d.by = q /\ EvidenceOf(d)
        /\ loaded[q] # "running" => status[run[q]] # "running"
        /\ \A d \in before[q] : d.run # run[q]
    BY <2>1 DEF DiagnosisInv, DraftInv, EvidenceInv, CostInv
  <2> QED
    BY <1>0, <1>5, <2>1, <2>2, QuietRequest DEF CheckStatus, DiagnosisTypeOK
<1>6. ASSUME NEW q \in Requests, CountToday(q)
      PROVE  DiagnosisInv'
  <2>1. /\ dpc[q] = "count" /\ calls[q] = 0
        /\ dpc'[q] = IF AllowanceExhausted THEN "refused" ELSE "first"
    BY <1>0, <1>6 DEF CountToday, DiagnosisTypeOK, DiagnosisInv, CostInv
  <2>2. ~AllowanceExhausted => Cardinality(before[q]) < allowance
    <3>1. IsFiniteSet(diagnoses) /\ before[q] \in SUBSET diagnoses /\ allowance \in Nat
      BY <1>0 DEF DiagnosisInv, RoomInv, DiagnosisTypeOK
    <3>2. Cardinality(before[q]) <= Cardinality(diagnoses) /\ IsFiniteSet(before[q])
      BY <3>1, FS_Subset
    <3>3. Cardinality(before[q]) \in Nat /\ Cardinality(diagnoses) \in Nat
      BY <3>1, <3>2, FS_CardinalityType
    <3> QED
      BY <3>1, <3>2, <3>3 DEF AllowanceExhausted
  <2>3. /\ \A d \in draft[q] : d.run = run[q] /\ d.by = q /\ EvidenceOf(d)
        /\ loaded[q] # "running" /\ status[run[q]] # "running"
        /\ \A d \in before[q] : d.run # run[q]
    BY <2>1 DEF DiagnosisInv, DraftInv, EvidenceInv, CostInv
  <2> QED
    BY <1>0, <1>6, <2>1, <2>2, <2>3, QuietRequest DEF CountToday, DiagnosisTypeOK
<1>7. ASSUME NEW q \in Requests, CallFirst(q)
      PROVE  DiagnosisInv'
  <2>1. /\ dpc[q] = "first" /\ calls'[q] = 1
        /\ dpc'[q] \in {"unavailable", "error", "inspect"}
    BY <1>0, <1>7, CallOutcomes
    DEF CallFirst, DiagnosisTypeOK, DiagnosisInv, CostInv
  <2>2. /\ \A d \in draft[q] : d.run = run[q] /\ d.by = q /\ EvidenceOf(d)
        /\ loaded[q] # "running" /\ status[run[q]] # "running"
        /\ \A d \in before[q] : d.run # run[q]
        /\ Cardinality(before[q]) < allowance
    BY <2>1 DEF DiagnosisInv, DraftInv, EvidenceInv, CostInv, RoomInv
  <2> QED
    BY <1>0, <1>7, <2>1, <2>2, QuietRequest DEF CallFirst, DiagnosisTypeOK
<1>8. ASSUME NEW q \in Requests, Inspect(q)
      PROVE  DiagnosisInv'
  <2> DEFINE n == Min({failing[run[q]], MaxFailures})
             d == [run |-> run[q], by |-> q, failures |-> n, sent |-> <<>>, at |-> 1,
                   asked |-> <<>>, citations |-> Sources(run[q])]
  <2>1. /\ dpc[q] = "inspect" /\ calls'[q] = 1
        /\ loaded[q] # "running" /\ status[run[q]] # "running"
        /\ \A e \in before[q] : e.run # run[q]
        /\ Cardinality(before[q]) < allowance
        /\ \A e \in draft[q] : e.run = run[q] /\ e.by = q /\ EvidenceOf(e)
    BY <1>0, <1>8
    DEF Inspect, DiagnosisTypeOK, DiagnosisInv, DraftInv, EvidenceInv, CostInv, RoomInv
  <2>2. \/ dpc'[q] = "refused" /\ draft'[q] = draft[q]
        \/ dpc'[q] = "pack" /\ draft'[q] = {d}
    BY <1>0, <1>8 DEF Inspect, DiagnosisTypeOK
  <2>3. d.run = run[q] /\ d.by = q /\ EvidenceOf(d)
    BY <2>1 DEF EvidenceOf
  <2>4. /\ \A e \in draft'[q] : e.run = run[q] /\ e.by = q /\ EvidenceOf(e)
        /\ dpc'[q] \in {"pack", "second", "insert"} => \E e : draft'[q] = {e}
    <3> HIDE DEF d
    <3> QED
      BY <2>1, <2>2, <2>3
  <2> HIDE DEF d, n
  <2> QED
    BY <1>0, <1>8, <2>1, <2>2, <2>4, QuietRequest DEF Inspect, DiagnosisTypeOK
<1>9. ASSUME NEW q \in Requests, CallSecond(q)
      PROVE  DiagnosisInv'
  <2>1. /\ dpc[q] = "second" /\ calls'[q] = 2
        /\ loaded[q] # "running" => status[run[q]] # "running"
        /\ \A e \in before[q] : e.run # run[q]
        /\ Cardinality(before[q]) < allowance
        /\ \A e \in draft[q] : IsDraft(e) /\ e.run = run[q] /\ e.by = q /\ EvidenceOf(e)
    <3>1. dpc[q] = "second" /\ calls[q] = 1 /\ calls' = [calls EXCEPT ![q] = @ + 1]
      BY <1>9 DEF CallSecond, DiagnosisInv, CostInv
    <3>2. calls'[q] = 2
      BY <1>0, <3>1 DEF DiagnosisTypeOK
    <3>3. \A e \in draft[q] : IsDraft(e) /\ e.run = run[q] /\ e.by = q /\ EvidenceOf(e)
      BY <1>0 DEF DiagnosisTypeOK, DiagnosisInv, DraftInv, EvidenceInv
    <3> QED
      BY <3>1, <3>2, <3>3
      DEF DiagnosisInv, EvidenceInv, CostInv, RoomInv
  <2>2. PICK e : draft[q] = {e}
    BY <2>1 DEF DiagnosisInv, DraftInv
  <2>3. PICK ids \in CiteLists :
          \/ dpc'[q] \in {"unavailable", "error"} /\ draft'[q] = draft[q]
          \/ /\ dpc'[q] = "insert"
             /\ draft'[q] = {[d EXCEPT !.asked = ids, !.citations = Citations(run[q], ids)]
                               : d \in draft[q]}
    <3>1. PICK reply \in Replies, ids \in CiteLists :
            \/ /\ dpc' = [dpc EXCEPT ![q] = "insert"]
               /\ draft' = [draft EXCEPT ![q] =
                     {[d EXCEPT !.asked = ids, !.citations = Citations(run[q], ids)]
                        : d \in draft[q]}]
            \/ /\ dpc' = [dpc EXCEPT ![q] = Failed(Generate(reply))]
               /\ UNCHANGED draft
      BY <1>9 DEF CallSecond
    <3>2. dpc \in [Requests -> DiagnosisPc] /\ DOMAIN draft = Requests
      BY <1>0 DEF DiagnosisTypeOK
    <3> QED
      BY <3>1, <3>2, CallOutcomes
  <2>4. /\ \A d \in draft'[q] : d.run = run[q] /\ d.by = q /\ EvidenceOf(d)
        /\ dpc'[q] \in {"pack", "second", "insert"} => \E d : draft'[q] = {d}
    <3>1. CASE draft'[q] = draft[q]
      BY <2>1, <2>2, <3>1
    <3>2. CASE draft'[q] = {[d EXCEPT !.asked = ids, !.citations = Citations(run[q], ids)]
                              : d \in draft[q]}
      <4> DEFINE c == [e EXCEPT !.asked = ids, !.citations = Citations(run[q], ids)]
      <4>1. draft'[q] = {c}
        BY <2>2, <3>2
      <4>2. c.run = e.run /\ c.by = e.by /\ c.failures = e.failures
        BY <2>1, <2>2 DEF IsDraft
      <4>3. c.run = run[q] /\ c.by = q /\ EvidenceOf(c)
        BY <2>1, <2>2, <4>2 DEF EvidenceOf
      <4> HIDE DEF c
      <4> QED
        BY <4>1, <4>3
    <3> QED
      BY <2>3, <3>1, <3>2
  <2>5. dpc'[q] \in {"unavailable", "error", "insert"}
    BY <2>3
  <2>6. /\ UNCHANGED <<allowance, status, failing, diagnoses, run, loaded, before, served>>
        /\ \A p \in Requests \ {q} :
             dpc'[p] = dpc[p] /\ calls'[p] = calls[p] /\ draft'[p] = draft[p]
    BY <1>0, <1>9 DEF CallSecond, DiagnosisTypeOK
  <2> QED
    BY <1>0, <2>1, <2>4, <2>5, <2>6, QuietRequest
<1>10. ASSUME NEW q \in Requests, InsertDiagnosis(q), Diagnosed(q)
       PROVE  DiagnosisInv'
  <2>1. /\ dpc[q] = "insert" /\ dpc'[q] = "collided" /\ StoredFor(run[q]) # {}
    BY <1>0, <1>10 DEF InsertDiagnosis, Diagnosed, DiagnosisTypeOK
  <2>2. /\ \A d \in draft[q] : d.run = run[q] /\ d.by = q /\ EvidenceOf(d)
        /\ loaded[q] # "running" => status[run[q]] # "running"
        /\ \A d \in before[q] : d.run # run[q]
    BY <2>1 DEF DiagnosisInv, DraftInv, EvidenceInv, CostInv
  <2>3. /\ UNCHANGED <<allowance, status, failing, diagnoses, run, loaded, before, calls,
                       draft, served>>
        /\ \A p \in Requests \ {q} : dpc'[p] = dpc[p]
    BY <1>0, <1>10 DEF InsertDiagnosis, DiagnosisTypeOK
  <2> QED
    BY <1>0, <2>1, <2>2, <2>3, QuietRequest
<1>11. ASSUME NEW q \in Requests, InsertDiagnosis(q), ~Diagnosed(q)
       PROVE  DiagnosisInv'
  <2>1. /\ dpc[q] = "insert" /\ dpc' = [dpc EXCEPT ![q] = "flushed"]
        /\ StoredFor(run[q]) = {}
        /\ \A p \in Requests \ {q} : ~(dpc[p] = "flushed" /\ run[p] = run[q])
        /\ UNCHANGED <<allowance, status, failing, diagnoses, run, loaded, before, calls,
                       draft, served>>
    BY <1>11 DEF InsertDiagnosis, Diagnosed, RunLocked
  <2>2. \A r : StoredFor(r)' = StoredFor(r)
    BY <2>1 DEF StoredFor
  <2>3. \A d : EvidenceOf(d)' = EvidenceOf(d)
    BY <2>1 DEF EvidenceOf
  <2>4. DraftInv'
    BY <1>0, <2>1 DEF DiagnosisInv, DraftInv, DiagnosisTypeOK
  <2>5. StoreInv'
    <3>1. \A d \in diagnoses : d.by \in Requests /\ dpc[d.by] = "answered"
      BY <1>0 DEF DiagnosisInv, StoreInv, DiagnosisTypeOK, IsDraft
    <3> QED
      BY <1>0, <2>1, <2>2, <3>1 DEF DiagnosisInv, StoreInv, DiagnosisTypeOK
  <2>6. CostInv' /\ RoomInv'
    BY <1>0, <2>1 DEF DiagnosisInv, CostInv, RoomInv, DiagnosisTypeOK
  <2>7. EvidenceInv'
    BY <1>0, <2>1, <2>3 DEF DiagnosisInv, EvidenceInv, DiagnosisTypeOK
  <2> QED
    BY <1>0, <2>4, <2>5, <2>6, <2>7 DEF DiagnosisInv
<1>12. ASSUME NEW q \in Requests, CommitDiagnosis(q)
       PROVE  DiagnosisInv'
  <2>1. PICK d : draft[q] = {d}
    BY <1>12 DEF CommitDiagnosis, DiagnosisInv, DraftInv
  <2>2. /\ dpc[q] = "flushed" /\ dpc' = [dpc EXCEPT ![q] = "answered"]
        /\ diagnoses' = diagnoses \union {d}
        /\ served' = [served EXCEPT ![q] = {d}]
        /\ UNCHANGED <<allowance, status, failing, run, loaded, before, calls, draft>>
    BY <1>12, <2>1 DEF CommitDiagnosis
  <2>3. d.run = run[q] /\ d.by = q /\ EvidenceOf(d)
    BY <2>1 DEF DiagnosisInv, DraftInv, EvidenceInv
  <2>4. StoredFor(run[q]) = {}
    BY <2>2 DEF DiagnosisInv, StoreInv
  <2>5. \A p \in Requests : StoredFor(run[p])' =
          IF run[p] = run[q] THEN {d} ELSE StoredFor(run[p])
    BY <2>2, <2>3, <2>4 DEF StoredFor
  <2>6. \A e : EvidenceOf(e)' = EvidenceOf(e)
    BY <2>2 DEF EvidenceOf
  <2>7. \A e \in diagnoses : e.by \in Requests /\ dpc[e.by] = "answered" /\ e.run # run[q]
    BY <1>0, <2>4 DEF DiagnosisInv, StoreInv, DiagnosisTypeOK, IsDraft, StoredFor
  <2>8. DraftInv'
    BY <1>0, <2>2 DEF DiagnosisInv, DraftInv, DiagnosisTypeOK
  <2>9. StoreInv'
    <3>1. /\ dpc'[q] = "answered" /\ served'[q] = {d}
          /\ \A p \in Requests \ {q} : dpc'[p] = dpc[p] /\ served'[p] = served[p]
      BY <1>0, <2>2 DEF DiagnosisTypeOK
    <3>2. \A e, f \in diagnoses' : e.run = f.run => e = f
      BY <2>2, <2>3, <2>7 DEF DiagnosisInv, StoreInv
    <3>3. \A e \in diagnoses' : dpc'[e.by] = "answered"
      BY <2>2, <2>3, <2>7, <3>1
    <3>4. \A p \in Requests : dpc'[p] = "flushed" =>
            /\ run[p] # run[q] /\ StoredFor(run[p])' = {}
      BY <2>2, <2>5, <3>1 DEF DiagnosisInv, StoreInv
    <3>5. \A p, o \in Requests :
            dpc'[p] = "flushed" /\ dpc'[o] = "flushed" /\ run[p] = run[o] => p = o
      BY <2>2, <3>1 DEF DiagnosisInv, StoreInv
    <3>6. \A p \in Requests : dpc'[p] = "collided" => StoredFor(run[p])' # {}
      BY <2>5, <3>1 DEF DiagnosisInv, StoreInv
    <3>7. \A p \in Requests :
            dpc'[p] = "answered" => served'[p] = StoredFor(run[p])' /\ served'[p] # {}
      <4>1. \A p \in Requests \ {q} : dpc[p] = "answered" => run[p] # run[q]
        BY <2>4 DEF DiagnosisInv, StoreInv
      <4> QED
        BY <2>5, <3>1, <4>1 DEF DiagnosisInv, StoreInv
    <3> QED
      BY <2>2, <3>2, <3>3, <3>4, <3>5, <3>6, <3>7 DEF StoreInv
  <2>10. CostInv'
    BY <1>0, <2>2 DEF DiagnosisInv, CostInv, DiagnosisTypeOK
  <2>11. RoomInv'
    <3>1. IsFiniteSet(diagnoses')
      BY <2>2, FS_AddElement DEF DiagnosisInv, RoomInv
    <3>2. Cardinality(before[q]) < allowance
      BY <2>2 DEF DiagnosisInv, RoomInv
    <3> QED
      BY <1>0, <2>2, <2>3, <3>1, <3>2 DEF DiagnosisInv, RoomInv, DiagnosisTypeOK
  <2>12. EvidenceInv'
    BY <1>0, <2>2, <2>3, <2>6 DEF DiagnosisInv, EvidenceInv, DiagnosisTypeOK
  <2> QED
    BY <1>0, <2>8, <2>9, <2>10, <2>11, <2>12 DEF DiagnosisInv
<1>13. ASSUME NEW q \in Requests, ReturnWinner(q)
       PROVE  DiagnosisInv'
  <2>1. /\ dpc[q] = "collided" /\ dpc'[q] = "answered" /\ served'[q] = StoredFor(run[q])
        /\ StoredFor(run[q]) # {}
    BY <1>0, <1>13 DEF ReturnWinner, DiagnosisTypeOK, DiagnosisInv, StoreInv
  <2>2. /\ \A d \in draft[q] : d.run = run[q] /\ d.by = q /\ EvidenceOf(d)
        /\ loaded[q] # "running" => status[run[q]] # "running"
        /\ \A d \in before[q] : d.run # run[q]
    BY <2>1 DEF DiagnosisInv, DraftInv, EvidenceInv, CostInv
  <2>3. /\ UNCHANGED <<allowance, status, failing, diagnoses, run, loaded, before, calls,
                       draft>>
        /\ \A p \in Requests \ {q} : dpc'[p] = dpc[p] /\ served'[p] = served[p]
    BY <1>0, <1>13 DEF ReturnWinner, DiagnosisTypeOK
  <2> QED
    BY <1>0, <2>1, <2>2, <2>3, QuietRequest
<1>14. ASSUME NEW q \in Requests, DiagnosisDies(q)
       PROVE  DiagnosisInv'
  <2>1. /\ dpc[q] \notin {"new", "answered"} /\ dpc'[q] = "dead"
        /\ UNCHANGED <<allowance, status, failing, diagnoses, run, loaded, before, calls,
                       draft, served>>
        /\ \A p \in Requests \ {q} : dpc'[p] = dpc[p]
    BY <1>0, <1>14 DEF DiagnosisDies, DiagnosisEnded, DiagnosisTypeOK
  <2>2. /\ \A d \in draft[q] : d.run = run[q] /\ d.by = q /\ EvidenceOf(d)
        /\ loaded[q] # "running" => status[run[q]] # "running"
        /\ calls[q] > 0 => \A d \in before[q] : d.run # run[q]
    BY <2>1 DEF DiagnosisInv, DraftInv, EvidenceInv, CostInv
  <2> QED
    BY <1>0, <2>1, <2>2, QuietRequest
<1>15. ASSUME NEW q \in Requests, AddFailure(q)
       PROVE  DiagnosisInv'
  <2>1. /\ dpc[q] = "pack" /\ calls[q] = 1
        /\ loaded[q] # "running" => status[run[q]] # "running"
        /\ \A e \in before[q] : e.run # run[q]
        /\ Cardinality(before[q]) < allowance
        /\ \A e \in draft[q] : e.run = run[q] /\ e.by = q /\ EvidenceOf(e)
    BY <1>15
    DEF AddFailure, DiagnosisInv, DraftInv, EvidenceInv, CostInv, RoomInv
  <2>2. PICK d \in draft[q] :
          IF d.at > d.failures
            THEN dpc' = [dpc EXCEPT ![q] = "second"] /\ UNCHANGED draft
            ELSE draft' = [draft EXCEPT ![q] = {Turn(d)}] /\ UNCHANGED dpc
    BY <1>15 DEF AddFailure
  <2>3. /\ dpc'[q] \in {"pack", "second"}
        /\ draft'[q] = draft[q] \/ (~(d.at > d.failures) /\ draft'[q] = {Turn(d)})
        /\ \A p \in Requests \ {q} : dpc'[p] = dpc[p] /\ draft'[p] = draft[p]
    BY <1>0, <2>1, <2>2 DEF DiagnosisTypeOK
  <2>4. /\ \A e \in draft'[q] : e.run = run[q] /\ e.by = q /\ EvidenceOf(e)
        /\ \E e : draft'[q] = {e}
    <3>1. CASE draft'[q] = draft[q]
      <4>1. \E e : draft[q] = {e}
        BY <2>1 DEF DiagnosisInv, DraftInv
      <4> QED
        BY ONLY <2>1, <3>1, <4>1
    <3>2. CASE ~(d.at > d.failures) /\ draft'[q] = {Turn(d)}
      <4>1. IsDraft(d)
        BY <1>0 DEF DiagnosisTypeOK
      <4>2. Turn(d).run = d.run /\ Turn(d).by = d.by /\ Turn(d).failures = d.failures
        BY <4>1, TurnKeeps
      <4> QED
        BY <2>1, <3>2, <4>2 DEF EvidenceOf
    <3> QED
      BY <2>3, <3>1, <3>2
  <2> QED
    BY <1>0, <1>15, <2>1, <2>3, <2>4, QuietRequest DEF AddFailure
<1> QED
  BY <1>1, <1>2, <1>3, <1>4, <1>5, <1>6, <1>7, <1>8, <1>9, <1>10, <1>11, <1>12, <1>13,
     <1>14, <1>15
  DEF DiagnosisNext, ServeDiagnosis

LEMMA DiagnosisAlways == DiagnosisSpec => []DiagnosisInv
BY DiagnosisInvInit, DiagnosisInvStep, PTL DEF DiagnosisSpec

-----------------------------------------------------------------------------
\* Every variable keeps its type (api.py:483-532).
THEOREM DiagnosisTypeOKAlways == DiagnosisSpec => []DiagnosisTypeOK
<1>1. DiagnosisInv => DiagnosisTypeOK
  BY DEF DiagnosisInv
<1> QED
  BY <1>1, DiagnosisAlways, PTL

\* A run has one diagnosis, and everyone who is answered is answered with it, for
\* any number of concurrent requests (api.py:487-489, 523-530).
THEOREM OneDiagnosisPerRunAlways == DiagnosisSpec => []OneDiagnosisPerRun
<1>1. DiagnosisInv => OneDiagnosisPerRun
  BY DEF DiagnosisInv, StoreInv, OneDiagnosisPerRun
<1> QED
  BY <1>1, DiagnosisAlways, PTL

\* What a diagnosis was made from stays true of its run (api.py:490).
THEOREM EvidenceStaysTrueAlways == DiagnosisSpec => []EvidenceStaysTrue
<1>1. DiagnosisInv => EvidenceStaysTrue
  BY DEF DiagnosisInv, DiagnosisTypeOK, IsDraft, EvidenceInv, EvidenceOf,
         EvidenceStaysTrue
<1> QED
  BY <1>1, DiagnosisAlways, PTL

\* A request sent after a diagnosis was stored pays for nothing (api.py:487-504).
THEOREM StoredCostsNothingAlways == DiagnosisSpec => []StoredCostsNothing
<1>1. DiagnosisInv => StoredCostsNothing
  BY DEF DiagnosisInv, DiagnosisTypeOK, CostInv, StoredFor, StoredCostsNothing
<1> QED
  BY <1>1, DiagnosisAlways, PTL

\* The allowance is overrun only by requests that overlap (api.py:497-502).
THEOREM LimitOverrunNeedsOverlapAlways == DiagnosisSpec => []LimitOverrunNeedsOverlap
<1>1. DiagnosisInv => LimitOverrunNeedsOverlap
  BY DEF DiagnosisInv, RoomInv, LimitOverrunNeedsOverlap
<1> QED
  BY <1>1, DiagnosisAlways, PTL

-----------------------------------------------------------------------------
\* Every draft is packed so far and cites what was retrieved; it leaves the loop
\* when every failure had its turn.
MadeInv ==
  /\ \A q \in Requests :
       /\ \A d \in draft[q] : PackedOf(d) /\ CitesSources(d)
       /\ dpc[q] \in {"second", "insert", "flushed"} =>
            \A d \in draft[q] : d.at > d.failures
  /\ \A d \in diagnoses : PackedOf(d) /\ CitesSources(d) /\ d.at > d.failures

LEMMA MadeInit == DiagnosisInit => MadeInv
BY DEF DiagnosisInit, MadeInv

\* The step of one request that stores nothing.
LEMMA MadeQuiet ==
  ASSUME MadeInv, NEW q \in Requests, UNCHANGED diagnoses,
         \A p \in Requests \ {q} : dpc'[p] = dpc[p] /\ draft'[p] = draft[p],
         \A d \in draft'[q] : PackedOf(d) /\ CitesSources(d),
         dpc'[q] \in {"second", "insert", "flushed"} =>
           \A d \in draft'[q] : d.at > d.failures
  PROVE  MadeInv'
BY DEF MadeInv

LEMMA MadeStep ==
  DiagnosisInv /\ MadeInv /\ [DiagnosisNext]_diagnosisVars => MadeInv'
<1> SUFFICES ASSUME DiagnosisInv, MadeInv, [DiagnosisNext]_diagnosisVars
             PROVE  MadeInv'
  OBVIOUS
<1>0. /\ DOMAIN draft = Requests /\ dpc \in [Requests -> DiagnosisPc]
      /\ run \in [Requests -> Runs] /\ failing \in [Runs -> Nat]
      /\ \A q \in Requests : \A d \in draft[q] : IsDraft(d) /\ d.run = run[q]
  BY DEF DiagnosisInv, DiagnosisTypeOK, DraftInv
<1>1. ASSUME UNCHANGED <<dpc, draft, diagnoses>>
      PROVE  MadeInv'
  BY <1>1 DEF MadeInv
<1> USE DEF Step
<1>2. ASSUME NEW q \in Requests, Inspect(q)
      PROVE  MadeInv'
  <2> DEFINE n == Min({failing[run[q]], MaxFailures})
             d == [run |-> run[q], by |-> q, failures |-> n, sent |-> <<>>, at |-> 1,
                   asked |-> <<>>, citations |-> Sources(run[q])]
  <2>1. /\ UNCHANGED diagnoses
        /\ \A p \in Requests \ {q} : dpc'[p] = dpc[p] /\ draft'[p] = draft[p]
        /\ \/ dpc'[q] = "refused" /\ draft'[q] = draft[q]
           \/ n # 0 /\ dpc'[q] = "pack" /\ draft'[q] = {d}
    BY <1>0, <1>2 DEF Inspect
  <2>2. n # 0 => n \in 1..MaxFailures
    <3>1. failing[run[q]] \in Nat /\ MaxFailures \in Nat
      BY <1>0
    <3>2. n \in {failing[run[q]], MaxFailures} /\ n <= MaxFailures
      BY ONLY <3>1, MinPair
    <3> QED
      BY ONLY <3>1, <3>2
  <2>3. n # 0 => PackedOf(d) /\ CitesSources(d)
    <3> HIDE DEF n
    <3> QED
      BY <2>2 DEF PackedOf, CitesSources
  <2> HIDE DEF d, n
  <2>4. \A e \in draft'[q] : PackedOf(e) /\ CitesSources(e)
    BY <2>1, <2>3 DEF MadeInv
  <2> QED
    BY <2>1, <2>4, MadeQuiet
<1>3. ASSUME NEW q \in Requests, AddFailure(q)
      PROVE  MadeInv'
  <2>1. PICK d \in draft[q] :
          IF d.at > d.failures
            THEN dpc' = [dpc EXCEPT ![q] = "second"] /\ UNCHANGED draft
            ELSE draft' = [draft EXCEPT ![q] = {Turn(d)}] /\ UNCHANGED dpc
    BY <1>3 DEF AddFailure
  <2>2. dpc[q] = "pack" /\ UNCHANGED diagnoses /\ \E e : draft[q] = {e}
    BY <1>3 DEF AddFailure, DiagnosisInv, DraftInv
  <2>3. IsDraft(d) /\ PackedOf(d) /\ CitesSources(d)
    BY <1>0, <2>1 DEF MadeInv
  <2>4. CASE d.at > d.failures
    <3>1. /\ dpc'[q] = "second" /\ draft'[q] = {d}
          /\ \A p \in Requests \ {q} : dpc'[p] = dpc[p] /\ draft'[p] = draft[p]
      BY <1>0, <2>1, <2>2, <2>4
    <3> QED
      BY <2>2, <2>3, <2>4, <3>1, MadeQuiet
  <2>5. CASE ~(d.at > d.failures)
    <3>1. /\ dpc'[q] = "pack" /\ draft'[q] = {Turn(d)}
          /\ \A p \in Requests \ {q} : dpc'[p] = dpc[p] /\ draft'[p] = draft[p]
      BY <1>0, <2>1, <2>2, <2>5
    <3>2. PackedOf(Turn(d))
      BY <2>3, <2>5, TurnPacks
    <3>3. CitesSources(Turn(d))
      BY <2>3, TurnKeeps DEF CitesSources
    <3> QED
      BY <2>2, <3>1, <3>2, <3>3, MadeQuiet
  <2> QED
    BY <2>4, <2>5
<1>4. ASSUME NEW q \in Requests, CallSecond(q)
      PROVE  MadeInv'
  <2>1. PICK ids \in CiteLists :
          /\ UNCHANGED diagnoses
          /\ \A p \in Requests \ {q} : dpc'[p] = dpc[p] /\ draft'[p] = draft[p]
          /\ \/ dpc'[q] \in {"unavailable", "error"} /\ draft'[q] = draft[q]
             \/ /\ dpc'[q] = "insert"
                /\ draft'[q] = {[d EXCEPT !.asked = ids, !.citations = Citations(run[q], ids)]
                                  : d \in draft[q]}
    <3>1. PICK reply \in Replies, ids \in CiteLists :
            \/ /\ dpc' = [dpc EXCEPT ![q] = "insert"]
               /\ draft' = [draft EXCEPT ![q] =
                     {[d EXCEPT !.asked = ids, !.citations = Citations(run[q], ids)]
                        : d \in draft[q]}]
            \/ /\ dpc' = [dpc EXCEPT ![q] = Failed(Generate(reply))]
               /\ UNCHANGED draft
      BY <1>4 DEF CallSecond
    <3>2. UNCHANGED diagnoses
      BY <1>4 DEF CallSecond
    <3> QED
      BY <1>0, <3>1, <3>2, CallOutcomes
  <2>2. dpc[q] = "second"
    BY <1>4 DEF CallSecond
  <2>3. ASSUME NEW d \in draft'[q]
        PROVE  PackedOf(d) /\ CitesSources(d) /\ d.at > d.failures
    <3>1. CASE d \in draft[q]
      BY <2>2, <3>1 DEF MadeInv
    <3>2. CASE d \notin draft[q]
      <4>1. PICK e \in draft[q] :
              d = [e EXCEPT !.asked = ids, !.citations = Citations(run[q], ids)]
        <5>1. draft'[q] # draft[q]
          BY <3>2
        <5> QED
          BY ONLY <2>1, <5>1, d \in draft'[q]
      <4>2. IsDraft(e) /\ e.run = run[q] /\ PackedOf(e) /\ e.at > e.failures
        BY <1>0, <2>2 DEF MadeInv
      <4>3. /\ d.run = e.run /\ d.failures = e.failures /\ d.sent = e.sent /\ d.at = e.at
            /\ d.asked = ids /\ d.citations = Citations(run[q], ids)
        BY <4>1, <4>2 DEF IsDraft
      <4>4. PackedOf(d)
        BY <4>2, <4>3 DEF PackedOf
      <4>5. ids \in Seq(Nat) /\ run[q] \in Runs
        BY <1>0
      <4>6. CitesSources(d)
        BY <4>2, <4>3, <4>5, CitationsCiteSources DEF CitesSources
      <4> QED
        BY <4>2, <4>3, <4>4, <4>6
    <3> QED
      BY <3>1, <3>2
  <2> QED
    BY <2>1, <2>3, MadeQuiet
<1>5. ASSUME NEW q \in Requests, CommitDiagnosis(q)
      PROVE  MadeInv'
  BY <1>0, <1>5 DEF CommitDiagnosis, MadeInv
<1>6. ASSUME NEW q \in Requests, InsertDiagnosis(q)
      PROVE  MadeInv'
  BY <1>0, <1>6 DEF InsertDiagnosis, MadeInv
<1>7. ASSUME NEW q \in Requests,
             \/ OpenDiagnosis(q) \/ LookUpDiagnosis(q) \/ CheckStatus(q) \/ CountToday(q)
             \/ CallFirst(q) \/ ReturnWinner(q) \/ DiagnosisDies(q)
      PROVE  MadeInv'
  <2>1. /\ UNCHANGED <<draft, diagnoses>>
        /\ \E l : l \notin {"second", "insert", "flushed"} /\ dpc' = [dpc EXCEPT ![q] = l]
    BY <1>7, CallOutcomes
    DEF OpenDiagnosis, LookUpDiagnosis, CheckStatus, CountToday, CallFirst, ReturnWinner,
        DiagnosisDies
  <2> QED
    BY <1>0, <2>1 DEF MadeInv
<1>8. ASSUME NEW r \in Runs, FailCase(r) \/ EndRun(r)
      PROVE  MadeInv'
  BY <1>1, <1>8 DEF FailCase, EndRun
<1>9. CASE UNCHANGED diagnosisVars
  BY <1>1, <1>9 DEF diagnosisVars
<1> QED
  BY <1>2, <1>3, <1>4, <1>5, <1>6, <1>7, <1>8, <1>9 DEF DiagnosisNext, ServeDiagnosis

LEMMA MadeAlways == DiagnosisSpec => [](DiagnosisInv /\ MadeInv)
BY MadeInit, MadeStep, DiagnosisAlways, PTL DEF DiagnosisSpec

\* The loop sends the first failures, as many as the budget holds and within it,
\* whatever each of them costs; when the rest of the context already exceeds the
\* budget it sends none (diagnostics.py:232-275).
THEOREM PromptIsFullAlways == DiagnosisSpec => []PromptIsFull
<1>1. DiagnosisInv /\ MadeInv => PromptIsFull
  <2> SUFFICES ASSUME MadeInv, DiagnosisTypeOK, NEW d \in diagnoses
               PROVE  /\ \A i \in DOMAIN d.sent : d.sent[i] = i
                      /\ d.sent # <<>> => Size(d.run, d.sent) <= Budget
                      /\ Len(d.sent) < d.failures =>
                           Size(d.run, Append(d.sent, Len(d.sent) + 1)) > Budget
    BY DEF PromptIsFull, DiagnosisInv
  <2>1. IsDraft(d) /\ PackedOf(d) /\ d.at > d.failures
    BY DEF DiagnosisTypeOK, MadeInv
  <2>2. d.sent \in Seq(Nat) /\ d.at \in Nat /\ d.failures \in Nat
    BY <2>1 DEF IsDraft
  <2> QED
    BY <2>1, <2>2 DEF PackedOf
<1> QED
  BY <1>1, MadeAlways, PTL

\* What a diagnosis cites are the best matches of its run, whatever ids the model
\* lists and however scores tie, and the best one first when the list is the
\* program's own (rag.py:48-57, diagnostics.py:190-194).
THEOREM CitationsAreBestMatchesAlways == DiagnosisSpec => []CitationsAreBestMatches
<1>1. DiagnosisInv /\ MadeInv => CitationsAreBestMatches
  <2> SUFFICES ASSUME DiagnosisInv, MadeInv, NEW d \in diagnoses
               PROVE  /\ \A i \in DOMAIN d.citations :
                           /\ Relevance[d.run][d.citations[i]] > 0
                           /\ Cardinality({e \in Chunks : Relevance[d.run][e]
                                > Relevance[d.run][d.citations[i]]}) < Max({1, TopK})
                      /\ Cardinality(Range(d.citations)) <= Max({1, TopK})
                      /\ d.citations = <<>> => \A c \in Chunks : Relevance[d.run][c] = 0
                      /\ Range(d.asked) \intersect Range(d.citations) = {} =>
                           \A i, j \in DOMAIN d.citations : i < j =>
                             \/ Relevance[d.run][d.citations[i]]
                                  > Relevance[d.run][d.citations[j]]
                             \/ /\ Relevance[d.run][d.citations[i]]
                                     = Relevance[d.run][d.citations[j]]
                                /\ d.citations[i] < d.citations[j]
    BY DEF CitationsAreBestMatches
  <2>1. d.run \in Runs /\ CitesSources(d)
    BY DEF DiagnosisInv, DiagnosisTypeOK, IsDraft, MadeInv
  <2> DEFINE s == Sources(d.run)
             c == d.citations
             K == Max({1, TopK})
  <2>2. /\ Range(c) \subseteq Range(s)
        /\ c = <<>> => s = <<>>
        /\ Range(d.asked) \intersect Range(c) = {} => c = s
    BY <2>1 DEF CitesSources
  <2>3. /\ \A i \in DOMAIN s :
             /\ Relevance[d.run][s[i]] > 0
             /\ Cardinality({e \in Chunks : Relevance[d.run][e] > Relevance[d.run][s[i]]}) < K
        /\ IsFiniteSet(Range(s)) /\ Cardinality(Range(s)) <= K
        /\ s = <<>> => \A x \in Chunks : Relevance[d.run][x] = 0
    BY <2>1, SourcesAreBest
  <2>4. \A i, j \in DOMAIN s : i < j =>
          \/ Relevance[d.run][s[i]] > Relevance[d.run][s[j]]
          \/ Relevance[d.run][s[i]] = Relevance[d.run][s[j]] /\ s[i] < s[j]
    BY <2>1, SourcesAreBest
  <2>5. K \in Nat
    BY SlotsAreSome
  <2> HIDE DEF s, c, K
  <2>6. ASSUME NEW i \in DOMAIN c
        PROVE  /\ Relevance[d.run][c[i]] > 0
               /\ Cardinality({e \in Chunks : Relevance[d.run][e] > Relevance[d.run][c[i]]}) < K
    <3>1. PICK j \in DOMAIN s : c[i] = s[j]
      BY <2>2 DEF Range
    <3> QED
      BY <2>3, <3>1
  <2>7. Cardinality(Range(c)) <= K
    <3>1. Cardinality(Range(c)) <= Cardinality(Range(s)) /\ IsFiniteSet(Range(c))
      BY <2>2, <2>3, FS_Subset
    <3>2. Cardinality(Range(c)) \in Nat /\ Cardinality(Range(s)) \in Nat
      BY <2>3, <3>1, FS_CardinalityType
    <3> QED
      BY <2>3, <2>5, <3>1, <3>2
  <2> QED
    BY <2>2, <2>3, <2>4, <2>6, <2>7 DEF c, K
<1> QED
  BY <1>1, MadeAlways, PTL

=============================================================================
