----------------------------- MODULE GateProofs -----------------------------
(***************************************************************************)
(* The release gate: its arithmetic for every sample size, every pair of      *)
(* aggregates and every policy, and what a verdict says of the two runs for     *)
(* every dataset, every outcome of the calls and every policy.               *)
(***************************************************************************)
EXTENDS ReleaseGate, DataTheorems, FunctionTheorems

IsAggregate(a) ==
  /\ {a.total, a.passed, a.errors, a.critical, a.criticalPassed, a.p95} \subseteq Nat
  /\ a.total > 0

IsPolicy(p) == {p.drop, p.critical, p.latency, p.errors} \subseteq Int

-----------------------------------------------------------------------------
\* A product of integers grows with a factor when the other is not negative.
LEMMA ProductMonotone ==
  ASSUME NEW a \in Int, NEW b \in Int, NEW k \in Nat, a >= b
  PROVE  a * k \in Int /\ b * k \in Int /\ a * k >= b * k
<1>1. PICK d \in Nat : a = b + d
  <2>1. a - b \in Nat /\ a = b + (a - b)
    OBVIOUS
  <2> QED
    BY <2>1
<1>2. d * k \in Nat /\ b * k \in Int
  OBVIOUS
<1>3. a * k = b * k + d * k
  BY <1>1
<1> QED
  BY <1>2, <1>3

LEMMA ProductPositive ==
  ASSUME NEW a \in Nat, NEW b \in Nat, a > 0, b > 0
  PROVE  a * b \in Nat /\ a * b > 0
<1>1. a >= 1
  OBVIOUS
<1>2. a * b >= 1 * b
  BY <1>1, ProductMonotone
<1> QED
  BY <1>2

\* A common factor can be left out.
LEMMA CancelFactor ==
  ASSUME NEW a \in Int, NEW b \in Int, NEW n \in Nat, n > 0
  PROVE  /\ a * n >= b * n => a >= b
         /\ a * n < b * n => a < b
         /\ a * n = b * n => a = b
<1>1. ASSUME a < b PROVE a * n < b * n
  <2>1. a + 1 \in Int /\ b >= a + 1
    BY <1>1
  <2>2. b * n >= (a + 1) * n
    BY <2>1, ProductMonotone
  <2>3. (a + 1) * n = a * n + n /\ a * n \in Int /\ b * n \in Int
    OBVIOUS
  <2> QED
    BY <2>2, <2>3
<1>2. ASSUME b < a PROVE b * n < a * n
  <2>1. b + 1 \in Int /\ a >= b + 1
    BY <1>2
  <2>2. a * n >= (b + 1) * n
    BY <2>1, ProductMonotone
  <2>3. (b + 1) * n = b * n + n /\ a * n \in Int /\ b * n \in Int
    OBVIOUS
  <2> QED
    BY <2>2, <2>3
<1>3. a * n \in Int /\ b * n \in Int
  OBVIOUS
<1> QED
  BY <1>1, <1>2, <1>3

\* What every check compares are integers.
LEMMA ChecksAreNumbers ==
  ASSUME NEW b, NEW c, NEW p, IsAggregate(b), IsAggregate(c), IsPolicy(p)
  PROVE  \A t \in Checks(b, c, p) : t.reached \in Int /\ t.needed \in Int /\ t.slack \in Int
<1> DEFINE IsCheck(t) == t.reached \in Int /\ t.needed \in Int /\ t.slack \in Int
<1> USE ScaleAssumption DEF IsAggregate, IsPolicy
<1>1. IsCheck(PassRate(b, c, p))
  <2>1. /\ Scale * c.passed * b.total \in Int /\ p.drop * b.total * c.total \in Int
        /\ Scale * b.passed * c.total \in Int
    OBVIOUS
  <2> QED
    BY <2>1 DEF PassRate
<1>2. IsCheck(CriticalRate(c, p))
  <2>1. Scale * c.criticalPassed \in Int /\ p.critical * c.critical \in Int
    OBVIOUS
  <2> QED
    BY <2>1 DEF CriticalRate
<1>3. IsCheck(P95Latency(b, c, p))
  <2>1. b.p95 * (Scale + p.latency) \in Int /\ Scale * c.p95 \in Int
    OBVIOUS
  <2> QED
    BY <2>1 DEF P95Latency
<1>4. IsCheck(ErrorRate(c, p))
  <2>1. p.errors * c.total \in Int /\ Scale * c.errors \in Int
    OBVIOUS
  <2> QED
    BY <2>1 DEF ErrorRate
<1> HIDE DEF IsCheck
<1>5. \A t \in Checks(b, c, p) : IsCheck(t)
  BY <1>1, <1>2, <1>3, <1>4 DEF Checks
<1> QED
  BY <1>5 DEF IsCheck

-----------------------------------------------------------------------------
\* The index of the 95th percentile never leaves the sample, and exactly the
\* values that at least 95 % of the sample do not exceed stand at or after it
\* (engine.py:184, 197).
THEOREM P95IndexIsNearestRank ==
  ASSUME NEW n \in Nat \ {0}
  PROVE  /\ P95Index(n) \in 0..n - 1
         /\ \A k \in 0..n : k > P95Index(n) <=> 20 * k >= 19 * n
<1> DEFINE q == (19 * n + 19) \div 20
<1>1. q \in Int /\ 20 * q <= 19 * n + 19 /\ 19 * n + 19 < 20 * q + 20
  OBVIOUS
<1>2. P95Index(n) = q - 1
  BY DEF P95Index
<1> HIDE DEF q
<1> QED
  BY <1>1, <1>2

\* A candidate that answers every case, passes every critical one, passes as many
\* as the baseline and is not slower passes and is never blocked, however the
\* thresholds round, unless one of them is negative where only a gain would do or
\* asks for a critical rate above 1 (comparisons.py:9-60).
THEOREM NoRegressionPasses ==
  ASSUME NEW b, NEW c, NEW p, IsAggregate(b), IsAggregate(c), IsPolicy(p),
         p.drop >= 0, p.latency >= 0, p.errors >= 0, p.critical <= Scale,
         c.total = b.total, c.passed >= b.passed, c.errors = 0,
         c.criticalPassed = c.critical, c.p95 <= b.p95
  PROVE  CanPass(b, c, p) /\ ~CanBlock(b, c, p)
<1> DEFINE Clear(t) == t.reached >= t.needed /\ (t.slack # 0 => t.reached > t.needed)
<1> USE ScaleAssumption DEF IsAggregate, IsPolicy
<1>1. Clear(PassRate(b, c, p))
  <2>1. /\ Scale * c.passed * b.total \in Int /\ Scale * b.passed * c.total \in Int
        /\ Scale * c.passed * b.total >= Scale * b.passed * c.total
    <3>1. c.passed * Scale >= b.passed * Scale
      BY ProductMonotone
    <3>2. Scale * c.passed >= Scale * b.passed /\ Scale * c.passed \in Int /\ Scale * b.passed \in Int
      BY <3>1
    <3> QED
      BY <3>2, ProductMonotone
  <2>2. /\ p.drop * b.total * c.total \in Nat
        /\ p.drop > 0 => p.drop * b.total * c.total > 0
    <3>1. p.drop * b.total \in Nat
      OBVIOUS
    <3>2. p.drop > 0 => p.drop * b.total > 0
      BY ProductPositive
    <3> QED
      BY <3>1, <3>2, ProductPositive
  <2> QED
    BY <2>1, <2>2 DEF PassRate
<1>2. Clear(P95Latency(b, c, p))
  <2>1. b.p95 * (Scale + p.latency) = Scale * b.p95 + b.p95 * p.latency
    OBVIOUS
  <2>2. b.p95 * p.latency \in Nat
    OBVIOUS
  <2>3. b.p95 # 0 /\ p.latency > 0 => b.p95 * p.latency > 0
    BY ProductPositive
  <2>4. b.p95 * Scale >= c.p95 * Scale
    BY ProductMonotone
  <2>5. Scale * b.p95 >= Scale * c.p95 /\ Scale * b.p95 \in Int /\ Scale * c.p95 \in Int
    BY <2>4
  <2>6. CASE b.p95 = 0
    <3>1. b.p95 * (Scale + p.latency) = 0
      BY <2>6
    <3> QED
      BY <2>6, <3>1 DEF P95Latency
  <2>7. CASE b.p95 # 0
    BY <2>1, <2>2, <2>3, <2>5, <2>7 DEF P95Latency
  <2> QED
    BY <2>6, <2>7
<1>3. Clear(CriticalRate(c, p))
  <2>1. Scale * c.critical >= p.critical * c.critical
    BY ProductMonotone
  <2> QED
    BY <2>1 DEF CriticalRate
<1>4. Clear(ErrorRate(c, p))
  <2>1. p.errors * c.total \in Nat /\ Scale * c.errors = 0
    OBVIOUS
  <2> QED
    BY <2>1 DEF ErrorRate
<1>5. \A t \in Checks(b, c, p) : Clear(t)
  <2> HIDE DEF Clear
  <2> QED
    BY <1>1, <1>2, <1>3, <1>4 DEF Checks
<1> QED
  BY <1>5, ChecksAreNumbers DEF CanPass, CanBlock

\* A verdict follows the candidate: one that passes at least as many cases and as
\* many critical ones, with no more errors and no more latency than another, passes
\* where the other can pass, and where it can be blocked so can the other, under any
\* policy, also one with negative allowances (comparisons.py:9-60).
THEOREM BetterCandidatePasses ==
  ASSUME NEW b, NEW c, NEW d, NEW p,
         IsAggregate(b), IsAggregate(c), IsAggregate(d), IsPolicy(p),
         d.total = c.total, d.critical = c.critical, d.passed >= c.passed,
         d.criticalPassed >= c.criticalPassed, d.errors <= c.errors, d.p95 <= c.p95
  PROVE  (CanPass(b, c, p) => CanPass(b, d, p)) /\ (CanBlock(b, d, p) => CanBlock(b, c, p))
<1> DEFINE Better(u, t) == u.reached >= t.reached /\ u.needed <= t.needed /\ u.slack = t.slack
<1>0. /\ d.passed * Scale >= c.passed * Scale
      /\ d.criticalPassed * Scale >= c.criticalPassed * Scale
      /\ c.errors * Scale >= d.errors * Scale
      /\ c.p95 * Scale >= d.p95 * Scale
  BY ScaleAssumption, ProductMonotone DEF IsAggregate
<1> USE ScaleAssumption DEF IsAggregate, IsPolicy
<1>1. Better(PassRate(b, d, p), PassRate(b, c, p))
  <2>1. Scale * d.passed >= Scale * c.passed /\ Scale * d.passed \in Int /\ Scale * c.passed \in Int
    BY <1>0
  <2>2. /\ Scale * d.passed * b.total \in Int /\ Scale * c.passed * b.total \in Int
        /\ Scale * d.passed * b.total >= Scale * c.passed * b.total
    BY <2>1, ProductMonotone
  <2>3. p.drop * b.total * c.total \in Int /\ Scale * b.passed * c.total \in Int
    OBVIOUS
  <2> QED
    BY <2>2, <2>3 DEF PassRate
<1>2. Better(CriticalRate(d, p), CriticalRate(c, p))
  <2>1. /\ Scale * d.criticalPassed >= Scale * c.criticalPassed
        /\ Scale * d.criticalPassed \in Int /\ Scale * c.criticalPassed \in Int
        /\ p.critical * c.critical \in Int
    BY <1>0
  <2> QED
    BY <2>1 DEF CriticalRate
<1>3. Better(P95Latency(b, d, p), P95Latency(b, c, p))
  <2>1. /\ Scale * d.p95 <= Scale * c.p95 /\ Scale * d.p95 \in Int /\ Scale * c.p95 \in Int
        /\ b.p95 * (Scale + p.latency) \in Int
    BY <1>0
  <2> QED
    BY <2>1 DEF P95Latency
<1>4. Better(ErrorRate(d, p), ErrorRate(c, p))
  <2>1. /\ Scale * d.errors <= Scale * c.errors /\ Scale * d.errors \in Int /\ Scale * c.errors \in Int
        /\ p.errors * c.total \in Int
    BY <1>0
  <2> QED
    BY <2>1 DEF ErrorRate
<1> HIDE DEF Better
<1>5. /\ \A u \in Checks(b, d, p) : \E t \in Checks(b, c, p) : Better(u, t)
      /\ \A t \in Checks(b, c, p) : t.reached \in Int /\ t.needed \in Int
      /\ \A u \in Checks(b, d, p) : u.reached \in Int /\ u.needed \in Int
  <2>1. \A u \in Checks(b, d, p) : \E t \in Checks(b, c, p) : Better(u, t)
    BY <1>1, <1>2, <1>3, <1>4 DEF Checks
  <2> QED
    BY <2>1, ChecksAreNumbers
<1>6. CanPass(b, c, p) => CanPass(b, d, p)
  BY <1>5 DEF CanPass, Better
<1>7. CanBlock(b, d, p) => CanBlock(b, c, p)
  <2> SUFFICES ASSUME NEW u \in Checks(b, d, p),
                      u.reached < u.needed \/ (u.reached = u.needed /\ u.slack # 0)
               PROVE  CanBlock(b, c, p)
    BY DEF CanBlock
  <2>1. PICK t \in Checks(b, c, p) : Better(u, t)
    BY <1>5
  <2>2. t.reached < t.needed \/ (t.reached = t.needed /\ t.slack # 0)
    BY <1>5, <2>1 DEF Better
  <2> QED
    BY <2>2 DEF CanBlock
<1> QED
  BY <1>6, <1>7

-----------------------------------------------------------------------------
(* Counting results.                                                        *)

\* What calculate_aggregate relies on: cases that stand for themselves at least,
\* and no verdict or latency without an answer.
IsResults(res) ==
  /\ IsFiniteSet(DOMAIN res)
  /\ \A i \in DOMAIN res :
       /\ res[i].times \in Nat \ {0} /\ res[i].latency \in Nat
       /\ res[i].passed => ~res[i].error
       /\ res[i].error => res[i].latency = 0

LEMMA CountSums ==
  ASSUME NEW res, IsResults(res), NEW J \in SUBSET DOMAIN res
  PROVE  \E f : /\ IsFiniteSet(J) /\ \A x \in J : f[x] \in Nat \ {0} /\ f[x] \in Nat
                /\ \A U : Count(res, U) = SumFunctionOnSet(f, U)
<1> DEFINE f == [i \in DOMAIN res |-> res[i].times]
<1>1. IsFiniteSet(J) /\ \A x \in J : f[x] \in Nat \ {0} /\ f[x] \in Nat
  BY FS_Subset DEF IsResults
<1>2. \A U : Count(res, U) = SumFunctionOnSet(f, U)
  BY DEF Count
<1> HIDE DEF f
<1> QED
  BY <1>1, <1>2

LEMMA CountPart ==
  ASSUME NEW res, IsResults(res), NEW J \in SUBSET DOMAIN res, NEW I \in SUBSET J
  PROVE  /\ Count(res, I) \in Nat /\ Count(res, J) \in Nat
         /\ Count(res, I) <= Count(res, J)
<1>1. PICK f : /\ IsFiniteSet(J) /\ \A x \in J : f[x] \in Nat \ {0} /\ f[x] \in Nat
               /\ \A U : Count(res, U) = SumFunctionOnSet(f, U)
  BY CountSums
<1>2. SumFunctionOnSet(f, J) \in Nat
  BY <1>1, SumNat
<1>3. SumFunctionOnSet(f, I) \in Nat /\ SumFunctionOnSet(f, I) <= SumFunctionOnSet(f, J)
  BY <1>1, SumMonotone
<1> QED
  BY <1>1, <1>2, <1>3

LEMMA CountSplit ==
  ASSUME NEW res, IsResults(res), NEW J \in SUBSET DOMAIN res, NEW I \in SUBSET J
  PROVE  Count(res, J) = Count(res, I) + Count(res, J \ I)
<1>1. PICK f : /\ IsFiniteSet(J) /\ \A x \in J : f[x] \in Nat \ {0} /\ f[x] \in Nat
               /\ \A U : Count(res, U) = SumFunctionOnSet(f, U)
  BY CountSums
<1>2. SumFunctionOnSet(f, J) = SumFunctionOnSet(f, I) + SumFunctionOnSet(f, J \ I)
  BY <1>1, SumSplit
<1> QED
  BY <1>1, <1>2

LEMMA CountWhole ==
  ASSUME NEW res, IsResults(res), NEW J \in SUBSET DOMAIN res, NEW I \in SUBSET J,
         Count(res, I) >= Count(res, J)
  PROVE  I = J
<1>1. PICK f : /\ IsFiniteSet(J) /\ \A x \in J : f[x] \in Nat \ {0} /\ f[x] \in Nat
               /\ \A U : Count(res, U) = SumFunctionOnSet(f, U)
  BY CountSums
<1>2. Count(res, I) = Count(res, J)
  BY CountPart
<1>3. SumFunctionOnSet(f, I) = SumFunctionOnSet(f, J)
  BY <1>1, <1>2
<1> QED
  BY <1>1, <1>3, SumWhole

LEMMA CountNat ==
  ASSUME NEW res, IsResults(res), NEW I \in SUBSET DOMAIN res
  PROVE  Count(res, I) \in Nat
BY CountPart

LEMMA CountNothing == ASSUME NEW res PROVE Count(res, {}) = 0
BY SumEmpty DEF Count

LEMMA Parts ==
  ASSUME NEW res, NEW l
  PROVE  /\ Answered(res) \in SUBSET DOMAIN res /\ Passed(res) \in SUBSET DOMAIN res
         /\ Errored(res) \in SUBSET DOMAIN res /\ Critical(res) \in SUBSET DOMAIN res
         /\ Critical(res) \intersect Passed(res) \in SUBSET Critical(res)
         /\ {i \in Answered(res) : res[i].latency <= l} \in SUBSET Answered(res)
BY DEF Answered, Passed, Errored, Critical

\* The stored percentile is that of an answer, and at least 95 % of the answers
\* took no longer.
LEMMA P95Covers ==
  ASSUME NEW res, IsResults(res), Count(res, Answered(res)) > 0
  PROVE  /\ P95(res) \in Nat
         /\ 20 * AtMost(res, P95(res)) >= 19 * Count(res, Answered(res))
<1> DEFINE n == Count(res, Answered(res))
           latencies == {res[i].latency : i \in Answered(res)}
           high == {l \in latencies : AtMost(res, l) > P95Index(n)}
<1>1. n \in Nat \ {0}
  BY CountNat, Parts
<1>2. latencies \subseteq Nat
  BY DEF IsResults, Answered
<1>3. high # {}
  <2>1. Answered(res) # {}
    BY CountNothing
  <2>2. IsFiniteSet(Answered(res))
    BY Parts, FS_Subset DEF IsResults
  <2> DEFINE latency == [i \in Answered(res) |-> res[i].latency]
  <2>3. \A i \in Answered(res) : latency[i] \in Nat
    BY DEF IsResults, Answered
  <2>4. PICK j \in Answered(res) : \A i \in Answered(res) : latency[j] >= latency[i]
    <3> HIDE DEF latency
    <3> QED
      BY <2>1, <2>2, <2>3, MaxValue
  <2> DEFINE l == res[j].latency
  <2>5. {i \in Answered(res) : res[i].latency <= l} = Answered(res)
    BY <2>3, <2>4
  <2>6. AtMost(res, l) = n
    BY <2>5 DEF AtMost
  <2>7. P95Index(n) \in 0..n - 1
    BY <1>1, P95IndexIsNearestRank
  <2>8. n > P95Index(n)
    BY <1>1, <2>7
  <2> QED
    BY <2>6, <2>8
<1>4. P95(res) = Min(high)
  BY DEF P95
<1>5. high \subseteq Nat
  BY <1>2
<1>6. Min(high) \in high
  <2> HIDE DEF high
  <2> QED
    BY <1>3, <1>5, MinNat
<1>7. /\ AtMost(res, P95(res)) \in 0..n
      /\ AtMost(res, P95(res)) > P95Index(n)
      /\ P95(res) \in Nat
  <2>1. AtMost(res, P95(res)) \in Nat /\ AtMost(res, P95(res)) <= n
    BY CountPart, Parts DEF AtMost
  <2> QED
    BY <1>1, <1>4, <1>5, <1>6, <2>1
<1> HIDE DEF n
<1>8. 20 * AtMost(res, P95(res)) >= 19 * n
  BY <1>1, <1>7, P95IndexIsNearestRank
<1> QED
  BY <1>7, <1>8 DEF n

\* What create_comparison reads of a run with n > 0 cases.
LEMMA AggregateIsSound ==
  ASSUME NEW res, IsResults(res), Total(res) > 0
  PROVE  IsAggregate(Aggregate(res))
<1>1. /\ Total(res) \in Nat /\ Count(res, Passed(res)) \in Nat
      /\ Count(res, Errored(res)) \in Nat /\ Count(res, Critical(res)) \in Nat
  BY CountPart, Parts DEF Total
<1>2. Count(res, Critical(res) \intersect Passed(res)) \in Nat
  BY CountPart, Parts
<1>3. P95(res) \in Nat
  <2>1. CASE Count(res, Answered(res)) = 0
    BY <2>1 DEF P95
  <2>2. CASE Count(res, Answered(res)) # 0
    BY <2>2, CountNat, Parts, P95Covers
  <2> QED
    BY <2>1, <2>2
<1> QED
  BY <1>1, <1>2, <1>3 DEF Aggregate, IsAggregate

-----------------------------------------------------------------------------
(* The inductive invariant.                                                 *)

\* A completed run holds one result for every group of its cases, each of a call
\* that did not fail it, and the aggregate of exactly these results.
Evaluated(s) ==
  \E calls \in [DOMAIN Cases(s) -> Calls[s]] :
    /\ \A i \in DOMAIN calls : ~Fatal(s, calls[i])
    /\ results[s] = [i \in DOMAIN calls |-> ResultOf(s, i, calls[i])]
    /\ aggregate[s] = Aggregate(results[s])

Policed ==
  /\ Comparable
  /\ policy \in Policies
  /\ verdict = "passed" => CanPass(aggregate["baseline"], aggregate["candidate"], policy)
  /\ verdict = "blocked" => CanBlock(aggregate["baseline"], aggregate["candidate"], policy)

GateInv ==
  /\ state \in [Sides -> {"queued", "failed", "completed"}]
  /\ config \in [Sides -> Configs]
  /\ DOMAIN results = Sides /\ DOMAIN aggregate = Sides
  /\ verdict \in {"none", "refused", "error", "passed", "blocked"}
  /\ verdict # "none" => \A s \in Sides : state[s] # "queued"
  /\ \A s \in Sides : state[s] = "completed" => Evaluated(s)
  /\ verdict \in {"passed", "blocked"} => Policed

LEMMA GateStarts == GateInit => GateInv
BY DEF GateInit, GateInv

LEMMA EvaluatedStays ==
  ASSUME UNCHANGED <<config, results, aggregate>>, NEW s, Evaluated(s)
  PROVE  Evaluated(s)'
<1>1. /\ Cases(s)' = Cases(s)
      /\ \A call : Fatal(s, call)' = Fatal(s, call)
      /\ \A i, call : ResultOf(s, i, call)' = ResultOf(s, i, call)
  BY DEF Cases, Fatal, ResultOf
<1> QED
  BY <1>1 DEF Evaluated

LEMMA GateStep == GateInv /\ [GateNext]_gateVars => GateInv'
<1> SUFFICES ASSUME GateInv, [GateNext]_gateVars
             PROVE  GateInv'
  OBVIOUS
<1>1. ASSUME NEW s \in Sides, Evaluate(s)
      PROVE  GateInv'
  <2>0. /\ state[s] = "queued" /\ verdict = "none"
        /\ UNCHANGED <<config, policy, verdict>>
    BY <1>1 DEF GateInv, Evaluate
  <2>1. PICK calls \in [DOMAIN Cases(s) -> Calls[s]] :
          IF \E i \in DOMAIN calls : Fatal(s, calls[i])
            THEN /\ state' = [state EXCEPT ![s] = "failed"]
                 /\ UNCHANGED <<results, aggregate>>
            ELSE LET res == [i \in DOMAIN calls |-> ResultOf(s, i, calls[i])]
                 IN /\ state' = [state EXCEPT ![s] = "completed"]
                    /\ results' = [results EXCEPT ![s] = res]
                    /\ aggregate' = [aggregate EXCEPT ![s] = Aggregate(res)]
    BY <1>1 DEF Evaluate
  <2>2. /\ \A t : Cases(t)' = Cases(t)
        /\ \A t, call : Fatal(t, call)' = Fatal(t, call)
        /\ \A t, i, call : ResultOf(t, i, call)' = ResultOf(t, i, call)
    BY <2>0 DEF Cases, Fatal, ResultOf
  <2>3. \A t \in Sides \ {s} :
          /\ state'[t] = state[t] /\ results'[t] = results[t] /\ aggregate'[t] = aggregate[t]
    BY <2>1 DEF GateInv
  <2>4. ASSUME NEW t \in Sides \ {s}, state'[t] = "completed"
        PROVE  Evaluated(t)'
    <3>1. Evaluated(t)
      BY <2>3, <2>4 DEF GateInv
    <3> QED
      BY <2>2, <2>3, <3>1 DEF Evaluated
  <2>5. ASSUME state'[s] = "completed"
        PROVE  Evaluated(s)'
    <3>1. ~ \E i \in DOMAIN calls : Fatal(s, calls[i])
      BY <2>1, <2>5 DEF GateInv
    <3> DEFINE res == [i \in DOMAIN calls |-> ResultOf(s, i, calls[i])]
    <3>2. results'[s] = res /\ aggregate'[s] = Aggregate(res)
      BY <2>1, <3>1 DEF GateInv
    <3> QED
      BY <2>2, <3>1, <3>2 DEF Evaluated
  <2>6. /\ state' \in [Sides -> {"queued", "failed", "completed"}]
        /\ DOMAIN results' = Sides /\ DOMAIN aggregate' = Sides
    BY <2>1 DEF GateInv
  <2> QED
    BY <2>0, <2>4, <2>5, <2>6 DEF GateInv
<1>2. ASSUME Compare
      PROVE  GateInv'
  <2>1. /\ UNCHANGED <<state, config, results, aggregate>>
        /\ policy' \in Policies
        /\ \A s \in Sides : state[s] # "queued"
    BY <1>2 DEF Compare
  <2>2. \A s \in Sides : state[s] = "completed" => Evaluated(s)'
    BY <2>1, EvaluatedStays DEF GateInv
  <2>3. /\ verdict' \in {"none", "refused", "error", "passed", "blocked"}
        /\ verdict' \in {"passed", "blocked"} => Policed'
    BY <1>2, <2>1 DEF Compare, Policed, Comparable
  <2> QED
    BY <2>1, <2>2, <2>3 DEF GateInv
<1>3. CASE UNCHANGED gateVars
  <2>1. \A s \in Sides : state[s] = "completed" => Evaluated(s)'
    BY <1>3, EvaluatedStays DEF gateVars, GateInv
  <2>2. Policed' = Policed
    BY <1>3 DEF gateVars, Policed, Comparable
  <2> QED
    BY <1>3, <2>1, <2>2 DEF gateVars, GateInv
<1> QED
  BY <1>1, <1>2, <1>3 DEF GateNext

-----------------------------------------------------------------------------
(* What it says of results and aggregates.                                  *)

LEMMA Element == ASSUME NEW S, NEW q \in Seq(S), NEW i \in 1..Len(q) PROVE q[i] \in S
OBVIOUS

\* The cases of a file that was accepted: as many as its rows stand for.
LEMMA CasesAreCounted ==
  ASSUME NEW f, IsFile(f), ParseVerdict(f) = "good"
  PROVE  /\ DOMAIN f.rows = 1..Len(f.rows) /\ Len(f.rows) \in Nat
         /\ \A i \in DOMAIN f.rows : f.rows[i].times \in Nat \ {0}
         /\ RowCount(f) \in 1..MaxRows
<1>1. \/ f.rows \in Seq([kind : JsonRows, times : Nat \ {0}])
      \/ f.rows \in Seq([kind : CsvRows, times : Nat \ {0}])
  BY DEF IsFile
<1>2. RowCount(f) \in 1..MaxRows
  BY DEF ParseVerdict
<1>3. DOMAIN f.rows = 1..Len(f.rows) /\ Len(f.rows) \in Nat
  BY <1>1
<1>4. \A i \in DOMAIN f.rows : f.rows[i].times \in Nat \ {0}
  <2>1. CASE f.rows \in Seq([kind : JsonRows, times : Nat \ {0}])
    <3>1. \A i \in 1..Len(f.rows) : f.rows[i] \in [kind : JsonRows, times : Nat \ {0}]
      BY <2>1, Element
    <3> QED
      BY <1>3, <3>1
  <2>2. CASE f.rows \in Seq([kind : CsvRows, times : Nat \ {0}])
    <3>1. \A i \in 1..Len(f.rows) : f.rows[i] \in [kind : CsvRows, times : Nat \ {0}]
      BY <2>2, Element
    <3> QED
      BY <1>3, <3>1
  <2> QED
    BY <1>1, <2>1, <2>2
<1> QED
  BY <1>2, <1>3, <1>4

LEMMA ResultFields ==
  ASSUME NEW s, NEW i, NEW call
  PROVE  /\ ResultOf(s, i, call).error = (ProviderOutcome(call) = "permanent")
         /\ ResultOf(s, i, call).passed => ~ResultOf(s, i, call).error
         /\ ResultOf(s, i, call).latency \in {0, call.answer.latency}
         /\ ResultOf(s, i, call).error => ResultOf(s, i, call).latency = 0
         /\ ResultOf(s, i, call).times = Cases(s)[i].times
         /\ ResultOf(s, i, call).critical = Cases(s)[i].critical
<1>1. ResultOf(s, i, call).error = (ProviderOutcome(call) = "permanent")
  BY DEF ResultOf
<1>2. ResultOf(s, i, call).passed =
        (/\ ProviderOutcome(call) # "permanent"
         /\ CaseVerdict(config[s].specs, call.answer, Expected, Limit) = "passed")
  BY DEF ResultOf
<1>3. ResultOf(s, i, call).latency =
        IF ProviderOutcome(call) = "permanent" THEN 0 ELSE call.answer.latency
  BY DEF ResultOf
<1>4. /\ ResultOf(s, i, call).times = Cases(s)[i].times
      /\ ResultOf(s, i, call).critical = Cases(s)[i].critical
  BY DEF ResultOf, Cases
<1> QED
  BY <1>1, <1>2, <1>3, <1>4

\* The answers of a completed run were scored under distinct names.
LEMMA ResultsAreSound ==
  ASSUME GateInv, NEW s \in Sides, state[s] = "completed"
  PROVE  /\ IsResults(results[s])
         /\ aggregate[s] = Aggregate(results[s])
         /\ DOMAIN results[s] = DOMAIN config[s].file.rows
         /\ Total(results[s]) = RowCount(config[s].file)
         /\ \A i \in DOMAIN results[s] :
              results[s][i].critical =
                IsCritical(config[s].file.format, config[s].file.rows[i].kind)
         /\ Answered(results[s]) # {} => ~NamesCollide(config[s].specs)
<1> DEFINE file == config[s].file
<1>0. config[s] \in Configs /\ Evaluated(s)
  BY DEF GateInv
<1>1. /\ DOMAIN file.rows = 1..Len(file.rows) /\ Len(file.rows) \in Nat
      /\ \A i \in DOMAIN file.rows : file.rows[i].times \in Nat \ {0}
  BY <1>0, GateAssumption, CasesAreCounted
<1>2. PICK calls \in [DOMAIN Cases(s) -> Calls[s]] :
        /\ \A i \in DOMAIN calls : ~Fatal(s, calls[i])
        /\ results[s] = [i \in DOMAIN calls |-> ResultOf(s, i, calls[i])]
        /\ aggregate[s] = Aggregate(results[s])
  BY <1>0 DEF Evaluated
<1>3. DOMAIN calls = DOMAIN file.rows /\ DOMAIN results[s] = DOMAIN file.rows
  BY <1>2 DEF Cases, ParsedCases
<1>4. IsFiniteSet(DOMAIN results[s])
  BY ONLY <1>1, <1>3, FS_Interval, 1 \in Int, Len(file.rows) \in Int
<1>5. ASSUME NEW i \in DOMAIN results[s]
      PROVE  /\ results[s][i].times = file.rows[i].times
             /\ results[s][i].latency \in Nat
             /\ results[s][i].passed => ~results[s][i].error
             /\ results[s][i].error => results[s][i].latency = 0
             /\ results[s][i].critical = IsCritical(file.format, file.rows[i].kind)
             /\ ~results[s][i].error => ~NamesCollide(config[s].specs)
  <2>1. results[s][i] = ResultOf(s, i, calls[i]) /\ calls[i] \in Calls[s]
    BY <1>2, <1>3
  <2>2. calls[i].answer.latency \in Nat
    BY <2>1, GateAssumption
  <2>3. /\ Cases(s)[i].times = file.rows[i].times
        /\ Cases(s)[i].critical = IsCritical(file.format, file.rows[i].kind)
    BY <1>3 DEF Cases, ParsedCases
  <2>4. ~results[s][i].error => ~NamesCollide(config[s].specs)
    <3>1. ~Fatal(s, calls[i])
      BY <1>2, <1>3
    <3>2. ProviderOutcome(calls[i]) \in {"answer", "temporary", "permanent", "other"}
      BY DEF ProviderOutcome, MockOutcome, GeminiOutcome, Generate, Send
    <3>3. results[s][i].error = (ProviderOutcome(calls[i]) = "permanent")
      BY <2>1, ResultFields
    <3>4. NamesCollide(config[s].specs)
            => CaseVerdict(config[s].specs, calls[i].answer, Expected, Limit) = "raised"
      BY DEF CaseVerdict
    <3> QED
      BY <3>1, <3>2, <3>3, <3>4 DEF Fatal
  <2>5. results[s][i].passed => ~results[s][i].error
    <3>1. ResultOf(s, i, calls[i]).passed => ~ResultOf(s, i, calls[i]).error
      BY ResultFields
    <3> QED
      BY <2>1, <3>1
  <2>6. /\ results[s][i].latency \in Nat
        /\ results[s][i].error => results[s][i].latency = 0
    <3>1. /\ ResultOf(s, i, calls[i]).error => ResultOf(s, i, calls[i]).latency = 0
          /\ ResultOf(s, i, calls[i]).latency \in {0, calls[i].answer.latency}
      BY ResultFields
    <3> QED
      BY <2>1, <2>2, <3>1
  <2>7. /\ results[s][i].times = file.rows[i].times
        /\ results[s][i].critical = IsCritical(file.format, file.rows[i].kind)
    BY <2>1, <2>3, ResultFields
  <2> QED
    BY <2>4, <2>5, <2>6, <2>7
<1>6. IsResults(results[s])
  BY <1>1, <1>3, <1>4, <1>5 DEF IsResults
<1>7. Total(results[s]) = RowCount(file)
  <2>1. [i \in DOMAIN results[s] |-> results[s][i].times]
          = [i \in DOMAIN file.rows |-> file.rows[i].times]
    BY <1>3, <1>5
  <2> QED
    BY <1>3, <2>1 DEF Total, Count, RowCount, SumFunction, FoldFunction, SumFunctionOnSet
<1>8. Answered(results[s]) # {} => ~NamesCollide(config[s].specs)
  BY <1>5 DEF Answered
<1> QED
  BY <1>2, <1>3, <1>5, <1>6, <1>7, <1>8

-----------------------------------------------------------------------------
(* The percentile.                                                          *)

\* At most 5 % of the answers take longer than the percentile.
LEMMA FewAreSlower ==
  ASSUME NEW res, IsResults(res), NEW slow \in SUBSET Answered(res),
         \A i \in slow : res[i].latency > P95(res)
  PROVE  20 * Count(res, slow) <= Count(res, Answered(res))
<1> DEFINE A == Answered(res)
           fast == {i \in A : res[i].latency <= P95(res)}
<1>1. A \in SUBSET DOMAIN res /\ fast \in SUBSET A
  BY Parts
<1>2. CASE Count(res, A) = 0
  <2>1. Count(res, slow) \in Nat /\ Count(res, slow) <= Count(res, A)
    BY <1>1, CountPart
  <2> QED
    BY <1>2, <2>1
<1>3. CASE Count(res, A) # 0
  <2>1. Count(res, A) \in Nat /\ Count(res, A) > 0
    BY <1>1, <1>3, CountNat
  <2>2. P95(res) \in Nat /\ 20 * Count(res, fast) >= 19 * Count(res, A)
    BY <2>1, P95Covers DEF AtMost
  <2>3. slow \in SUBSET (A \ fast)
    <3>1. \A i \in slow : i \in A /\ res[i].latency \in Nat
      BY <1>1 DEF IsResults
    <3> QED
      BY <2>2, <3>1
  <2>4. /\ Count(res, A) = Count(res, fast) + Count(res, A \ fast)
        /\ Count(res, fast) \in Nat
    <3> HIDE DEF A, fast
    <3> QED
      BY ONLY <1>1, IsResults(res), CountPart, CountSplit
  <2>5. /\ Count(res, slow) \in Nat /\ Count(res, A \ fast) \in Nat
        /\ Count(res, slow) <= Count(res, A \ fast)
    <3>1. A \ fast \in SUBSET DOMAIN res
      BY <1>1
    <3> QED
      BY <2>3, <3>1, CountPart
  <2>6. 20 * Count(res, slow) <= Count(res, A)
    <3> HIDE DEF A, fast
    <3> QED
      BY ONLY <2>1, <2>2, <2>4, <2>5
  <2> QED
    BY <2>6
<1> QED
  BY <1>2, <1>3

\* The refused cases, which have no latency, do not move the nearest rank.
LEMMA NearestRank ==
  ASSUME NEW res, IsResults(res), Count(res, Answered(res)) > 0
  PROVE  P95(res) = Min({l \in {res[i].latency : i \in DOMAIN res} :
                           20 * AtMost(res, l) >= 19 * Count(res, Answered(res))})
<1> DEFINE n == Count(res, Answered(res))
           latencies == {res[i].latency : i \in Answered(res)}
           all == {res[i].latency : i \in DOMAIN res}
<1>1. n \in Nat \ {0}
  BY CountNat, Parts
<1>2. \A l : AtMost(res, l) \in 0..n
  <2>1. \A l : AtMost(res, l) \in Nat /\ AtMost(res, l) <= n
    BY CountPart, Parts DEF AtMost
  <2> QED
    BY <1>1, <2>1
<1>3. \A l : AtMost(res, l) > P95Index(n) <=> 20 * AtMost(res, l) >= 19 * n
  <2> HIDE DEF n
  <2> QED
    BY <1>1, <1>2, P95IndexIsNearestRank
<1>4. ASSUME NEW l \in all, 20 * AtMost(res, l) >= 19 * n
      PROVE  l \in latencies
  <2>1. PICK i \in DOMAIN res : l = res[i].latency
    OBVIOUS
  <2>2. CASE ~res[i].error
    BY <2>1, <2>2 DEF Answered
  <2>3. CASE res[i].error
    <3>1. l = 0
      BY <2>1, <2>3 DEF IsResults
    <3>2. AtMost(res, l) # 0
      BY <1>1, <1>2, <1>4
    <3>3. {j \in Answered(res) : res[j].latency <= l} # {}
      BY <3>2, CountNothing DEF AtMost
    <3>4. PICK j \in Answered(res) : res[j].latency <= l
      BY <3>3
    <3>5. res[j].latency \in Nat
      BY Parts DEF IsResults
    <3>6. res[j].latency = l
      BY <3>1, <3>4, <3>5
    <3> QED
      BY <3>6
  <2> QED
    BY <2>2, <2>3
<1>5. latencies \subseteq all
  BY DEF Answered
<1>6. {l \in latencies : AtMost(res, l) > P95Index(n)}
        = {l \in all : 20 * AtMost(res, l) >= 19 * n}
  <2> HIDE DEF n, latencies, all
  <2> QED
    BY <1>3, <1>4, <1>5
<1>7. P95(res) = Min({l \in latencies : AtMost(res, l) > P95Index(n)})
  BY <1>1 DEF P95
<1> QED
  BY <1>6, <1>7

LEMMA P95Stored == GateInv => P95IsNearestRank
<1> SUFFICES ASSUME GateInv, NEW s \in Sides, state[s] = "completed",
                    Count(results[s], Answered(results[s])) > 0
             PROVE  aggregate[s].p95 =
                      Min({l \in {results[s][i].latency : i \in DOMAIN results[s]} :
                             20 * AtMost(results[s], l)
                               >= 19 * Count(results[s], Answered(results[s]))})
  BY DEF P95IsNearestRank
<1>1. IsResults(results[s]) /\ aggregate[s] = Aggregate(results[s])
  BY ResultsAreSound
<1>2. aggregate[s].p95 = P95(results[s])
  BY <1>1 DEF Aggregate
<1> QED
  BY <1>1, <1>2, NearestRank

\* The stored percentile is the nearest-rank one in every completed run, for every
\* mix of answers and refused cases (engine.py:183-184, 197).
THEOREM P95IsNearestRankAlways == GateSpec => []P95IsNearestRank
<1>1. GateSpec => []GateInv
  BY GateStarts, GateStep, PTL DEF GateSpec
<1> QED
  BY <1>1, P95Stored, PTL

-----------------------------------------------------------------------------
(* The verdicts.                                                            *)

\* Between runs of the same number of cases the check on the pass rate is one on
\* the number of passes.
LEMMA PassRateCounts ==
  ASSUME NEW b, NEW c, NEW p, IsAggregate(b), IsAggregate(c), IsPolicy(p),
         c.total = b.total
  PROVE  /\ PassRate(b, c, p).reached = (Scale * c.passed + p.drop * c.total) * c.total
         /\ PassRate(b, c, p).needed = (Scale * b.passed) * c.total
         /\ Scale * c.passed + p.drop * c.total \in Int
         /\ Scale * b.passed \in Int /\ p.drop * c.total \in Int
<1> USE ScaleAssumption DEF IsAggregate, IsPolicy
<1>1. p.drop * c.total \in Int /\ Scale * c.passed \in Int /\ Scale * b.passed \in Int
  OBVIOUS
<1>2. Scale * c.passed * c.total + p.drop * c.total * c.total
        = (Scale * c.passed + p.drop * c.total) * c.total
  BY <1>1
<1> QED
  BY <1>1, <1>2 DEF PassRate

\* What a comparison knows of its two runs.
LEMMA ComparedRuns ==
  ASSUME GateInv, verdict \in {"passed", "blocked"}
  PROVE  /\ \A s \in Sides : /\ state[s] = "completed" /\ IsResults(results[s])
                             /\ aggregate[s] = Aggregate(results[s])
                             /\ IsAggregate(aggregate[s])
         /\ aggregate["candidate"].total = aggregate["baseline"].total
         /\ aggregate["candidate"].total = Total(results["candidate"])
         /\ policy \in Policies /\ IsPolicy(policy)
<1>1. Policed
  BY DEF GateInv
<1>2. ASSUME NEW s \in Sides
      PROVE  /\ state[s] = "completed" /\ IsResults(results[s])
             /\ aggregate[s] = Aggregate(results[s])
             /\ IsAggregate(aggregate[s])
             /\ aggregate[s].total = RowCount(config[s].file)
             /\ aggregate[s].total = Total(results[s])
  <2>1. state[s] = "completed"
    BY <1>1 DEF Policed, Comparable
  <2>2. /\ IsResults(results[s]) /\ aggregate[s] = Aggregate(results[s])
        /\ Total(results[s]) = RowCount(config[s].file)
    BY <2>1, ResultsAreSound
  <2>3. RowCount(config[s].file) \in 1..MaxRows
    BY GateAssumption, CasesAreCounted DEF GateInv
  <2>4. Total(results[s]) > 0
    BY <2>2, <2>3, ImportAssumption
  <2>5. IsAggregate(aggregate[s])
    BY <2>2, <2>4, AggregateIsSound
  <2> QED
    BY <2>1, <2>2, <2>5 DEF Aggregate
<1>3. config["baseline"].file = config["candidate"].file
  BY <1>1 DEF Policed, Comparable
<1>4. policy \in Policies /\ IsPolicy(policy)
  BY <1>1, GateAssumption DEF Policed, IsPolicy
<1> QED
  BY <1>2, <1>3, <1>4 DEF Sides

LEMMA ReasonGiven == GateInv => BlockedHasReason
<1> DEFINE b == results["baseline"]
           c == results["candidate"]
           lost == Count(b, Passed(b)) - Count(c, Passed(c))
           missed == Critical(c) \ Passed(c)
           errors == Count(c, Errored(c))
           x == aggregate["baseline"]
           y == aggregate["candidate"]
           FewerPass == /\ Scale * lost >= policy.drop * Total(c)
                        /\ policy.drop = 0 => lost > 0
           Slower == /\ P95(b) > 0
                     /\ Scale * P95(c) >= (Scale + policy.latency) * P95(b)
                     /\ policy.latency = 0 => P95(c) > P95(b)
           Missed == missed # {} /\ policy.critical > 0
           MoreErrors == Scale * errors > policy.errors * Total(c)
<1> SUFFICES ASSUME GateInv, verdict = "blocked"
             PROVE  /\ FewerPass \/ Missed \/ policy.critical > Scale \/ MoreErrors \/ Slower
                    /\ (policy.drop >= 0 /\ policy.latency >= 0 /\ policy.errors >= 0) =>
                         \/ lost > 0
                         \/ missed # {}
                         \/ policy.critical > Scale
                         \/ Errored(c) # {}
                         \/ P95(c) > P95(b)
  BY DEF BlockedHasReason
<1>1. /\ IsResults(b) /\ IsResults(c) /\ IsAggregate(x) /\ IsAggregate(y)
      /\ x = Aggregate(b) /\ y = Aggregate(c)
      /\ y.total = x.total /\ y.total = Total(c) /\ IsPolicy(policy)
  BY ComparedRuns DEF Sides
<1>2. PICK t \in Checks(x, y, policy) :
        t.reached < t.needed \/ (t.reached = t.needed /\ t.slack # 0)
  BY DEF GateInv, Policed, CanBlock
<1>3. /\ x.passed = Count(b, Passed(b)) /\ y.passed = Count(c, Passed(c))
      /\ y.critical = Count(c, Critical(c))
      /\ y.criticalPassed = Count(c, Critical(c) \intersect Passed(c))
      /\ y.errors = errors /\ x.p95 = P95(b) /\ y.p95 = P95(c)
  BY <1>1 DEF Aggregate
<1>4. /\ y.total \in Nat /\ y.total > 0 /\ y.passed \in Nat /\ x.passed \in Nat
      /\ x.p95 \in Nat /\ y.p95 \in Nat /\ y.errors \in Nat
      /\ y.critical \in Nat /\ y.criticalPassed \in Nat
      /\ policy.drop \in Int /\ policy.critical \in Int
      /\ policy.latency \in Int /\ policy.errors \in Int
  BY <1>1 DEF IsAggregate, IsPolicy
<1>5. lost = x.passed - y.passed /\ lost \in Int
  BY <1>3, <1>4
<1>6. Errored(c) = {} => errors = 0
  BY CountNothing
<1> HIDE DEF b, c, x, y, lost, missed, errors
<1>7. ASSUME t = PassRate(x, y, policy)
      PROVE  FewerPass /\ (policy.drop >= 0 => lost > 0)
  <2> DEFINE have == Scale * y.passed + policy.drop * y.total
             want == Scale * x.passed
             share == policy.drop * y.total
  <2>1. /\ t.reached = have * y.total /\ t.needed = want * y.total
        /\ t.slack = policy.drop /\ have \in Int /\ want \in Int /\ share \in Int
    <3>1. t.slack = policy.drop
      BY <1>7 DEF PassRate
    <3>2. /\ PassRate(x, y, policy).reached = have * y.total
          /\ PassRate(x, y, policy).needed = want * y.total
          /\ have \in Int /\ want \in Int /\ share \in Int
      <4>1. IsAggregate(x) /\ IsAggregate(y) /\ IsPolicy(policy) /\ y.total = x.total
        BY <1>1
      <4> QED
        BY ONLY <4>1, PassRateCounts
    <3> QED
      BY <1>7, <3>1, <3>2
  <2>2. want = Scale * lost + Scale * y.passed /\ have = Scale * y.passed + share
    BY <1>4, <1>5, ScaleAssumption
  <2>3. Scale * lost \in Int /\ Scale * y.passed \in Int
    BY <1>4, <1>5, ScaleAssumption
  <2> HIDE DEF have, want
  <2>4. have < want \/ (have = want /\ policy.drop # 0)
    BY <1>2, <1>4, <2>1, CancelFactor
  <2>5. Scale * lost >= share /\ (policy.drop = 0 => Scale * lost > share)
    BY ONLY <2>1, <2>2, <2>3, <2>4
  <2>6. /\ policy.drop = 0 => share = 0
        /\ policy.drop > 0 => share > 0
    BY <1>4, ProductPositive
  <2>7. Scale * lost > 0 => lost > 0
    <3> SUFFICES ASSUME lost <= 0
                 PROVE  ~(Scale * lost > 0)
      BY <1>5
    <3>1. 0 * Scale >= lost * Scale
      BY <1>5, ScaleAssumption, ProductMonotone
    <3> QED
      BY <1>5, <3>1, ScaleAssumption
  <2>8. policy.drop >= 0 => lost > 0
    <3> HIDE DEF share
    <3> QED
      BY <1>4, <2>1, <2>3, <2>5, <2>6, <2>7
  <2>9. Scale * lost >= policy.drop * Total(c)
    BY <1>1, <2>5
  <2> QED
    BY <1>4, <2>8, <2>9
<1>8. ASSUME t = CriticalRate(y, policy)
      PROVE  Missed \/ policy.critical > Scale
  <2>1. CASE y.critical = 0
    <3>1. t.reached = Scale /\ t.needed = policy.critical /\ t.slack = 0
      BY <1>8, <2>1 DEF CriticalRate
    <3> QED
      BY <1>2, <1>4, <3>1, ScaleAssumption
  <2>2. CASE y.critical # 0
    <3> SUFFICES ASSUME ~(policy.critical > Scale)
                 PROVE  Missed
      OBVIOUS
    <3>1. Scale * y.criticalPassed < policy.critical * y.critical
      BY <1>2, <1>8, <2>2 DEF CriticalRate
    <3>2. /\ Scale * y.critical \in Int /\ policy.critical * y.critical \in Int
          /\ Scale * y.criticalPassed \in Nat
      BY <1>4, ScaleAssumption
    <3>3. Scale * y.critical >= policy.critical * y.critical
      BY <1>4, ScaleAssumption, ProductMonotone
    <3>4. y.criticalPassed # y.critical
      BY ONLY <3>1, <3>2, <3>3
    <3>5. missed # {}
      <4> SUFFICES ASSUME Critical(c) \ Passed(c) = {}
                   PROVE  FALSE
        BY DEF missed
      <4>1. Critical(c) \intersect Passed(c) = Critical(c)
        OBVIOUS
      <4> QED
        BY <1>3, <3>4, <4>1
    <3>6. policy.critical > 0
      <4> SUFFICES ASSUME 0 >= policy.critical
                   PROVE  FALSE
        BY <1>4
      <4>1. 0 * y.critical >= policy.critical * y.critical
        BY <1>4, ProductMonotone
      <4>2. 0 * y.critical = 0
        BY <1>4
      <4> QED
        BY ONLY <3>1, <3>2, <4>1, <4>2
    <3> QED
      BY <3>5, <3>6
  <2> QED
    BY <2>1, <2>2
<1>9. ASSUME t = P95Latency(x, y, policy)
      PROVE  Slower /\ (policy.latency >= 0 => P95(c) > P95(b))
  <2>1. x.p95 # 0
    <3> SUFFICES ASSUME x.p95 = 0
                 PROVE  FALSE
      OBVIOUS
    <3>1. t.reached = 0 * (Scale + policy.latency) /\ t.needed = 0 /\ t.slack = 0
      BY <1>9 DEF P95Latency
    <3>2. 0 * (Scale + policy.latency) = 0
      BY <1>4, ScaleAssumption
    <3> QED
      BY <1>2, <3>1, <3>2
  <2>2. /\ t.reached = x.p95 * (Scale + policy.latency) /\ t.needed = Scale * y.p95
        /\ t.slack = policy.latency
    BY <1>9, <2>1 DEF P95Latency
  <2>3. /\ x.p95 * (Scale + policy.latency) = (Scale + policy.latency) * x.p95
        /\ (Scale + policy.latency) * x.p95 = Scale * x.p95 + policy.latency * x.p95
        /\ Scale * x.p95 \in Int /\ policy.latency * x.p95 \in Int /\ Scale * y.p95 \in Int
        /\ (Scale + policy.latency) * x.p95 \in Int
    BY <1>4, ScaleAssumption
  <2>4. Scale * y.p95 >= (Scale + policy.latency) * x.p95
    BY <1>2, <2>2, <2>3
  <2>5. /\ policy.latency = 0 => policy.latency * x.p95 = 0
        /\ policy.latency > 0 => policy.latency * x.p95 > 0
    BY <1>4, <2>1, ProductPositive
  <2>6. policy.latency >= 0 => Scale * y.p95 > Scale * x.p95
    BY <1>2, <1>4, <2>2, <2>3, <2>5
  <2>7. Scale * y.p95 > Scale * x.p95 => y.p95 > x.p95
    <3>1. y.p95 * Scale > x.p95 * Scale => y.p95 > x.p95
      BY <1>4, ScaleAssumption, CancelFactor
    <3> QED
      BY <1>4, <3>1, ScaleAssumption
  <2> QED
    BY <1>3, <1>4, <2>1, <2>4, <2>6, <2>7
<1>10. ASSUME t = ErrorRate(y, policy)
       PROVE  MoreErrors /\ (policy.errors >= 0 => Errored(c) # {})
  <2>1. policy.errors * y.total < Scale * y.errors
    BY <1>2, <1>10 DEF ErrorRate
  <2>2. policy.errors >= 0 => policy.errors * y.total \in Nat
    BY <1>4
  <2>3. policy.errors >= 0 => errors # 0
    BY <1>3, <2>1, <2>2, ScaleAssumption
  <2> QED
    BY <1>1, <1>3, <1>6, <2>1, <2>3
<1>11. \/ t = PassRate(x, y, policy) \/ t = CriticalRate(y, policy)
       \/ t = P95Latency(x, y, policy) \/ t = ErrorRate(y, policy)
  BY DEF Checks
<1> HIDE DEF FewerPass, Slower, MoreErrors
<1> QED
  BY <1>7, <1>8, <1>9, <1>10, <1>11

\* No candidate is blocked without a reason in its cases: passes lost up to the
\* allowance, a critical case, errors or latency beyond it, and unless an allowance
\* is negative some case or call came out worse (comparisons.py:9-60).
THEOREM BlockedHasReasonAlways == GateSpec => []BlockedHasReason
<1>1. GateSpec => []GateInv
  BY GateStarts, GateStep, PTL DEF GateSpec
<1> QED
  BY <1>1, ReasonGiven, PTL

\* Names that do not collide are as many as the evaluators.
LEMMA NamesAreDistinct ==
  ASSUME NEW g \in Configs, ~NamesCollide(g.specs)
  PROVE  Cardinality({g.specs[i].type : i \in DOMAIN g.specs}) = Len(g.specs)
<1> DEFINE n == Len(g.specs)
           types == {g.specs[i].type : i \in DOMAIN g.specs}
           type == [i \in 1..n |-> g.specs[i].type]
<1>1. n \in Nat /\ DOMAIN g.specs = 1..n
  <2>1. g.specs \in Seq([type : DOMAIN Options, option : STRING])
    BY GateAssumption
  <2> QED
    BY <2>1
<1>2. type \in [1..n -> types]
  BY <1>1
<1>3. \A i, j \in 1..n : type[i] = type[j] => i = j
  BY <1>1 DEF NamesCollide
<1>4. \A t \in types : \E i \in 1..n : type[i] = t
  BY <1>1
<1> HIDE DEF n, types, type
<1>5. type \in Bijection(1..n, types)
  BY <1>2, <1>3, <1>4, Fun_IsBij
<1>6. Cardinality(types) = n
  BY <1>1, <1>5, FS_CountingElements DEF ExistsBijection
<1> QED
  BY <1>6 DEF n, types

\* As many critical passes as critical cases: every critical case passed.
LEMMA AllCriticalPassed ==
  ASSUME NEW res, IsResults(res),
         Count(res, Critical(res) \intersect Passed(res)) >= Count(res, Critical(res))
  PROVE  Critical(res) \subseteq Passed(res)
<1> DEFINE K == Critical(res)
           P == Critical(res) \intersect Passed(res)
<1>1. K \in SUBSET DOMAIN res /\ P \in SUBSET K /\ Count(res, P) >= Count(res, K)
  BY Parts
<1>2. P = K
  <2> HIDE DEF P, K
  <2> QED
    BY ONLY <1>1, IsResults(res), CountWhole
<1> QED
  BY <1>2

LEMMA SafelyPassed == GateInv => PassedIsSafe
<1> DEFINE b == results["baseline"]
           c == results["candidate"]
           total == Total(c)
           x == aggregate["baseline"]
           y == aggregate["candidate"]
           slow == {i \in Answered(c) : Scale * c[i].latency > x.p95 * (Scale + policy.latency)}
<1> SUFFICES ASSUME GateInv, verdict = "passed"
             PROVE  /\ \A s \in Sides :
                         Answered(results[s]) # {} =>
                           Cardinality({config[s].specs[i].type : i \in DOMAIN config[s].specs})
                             = Len(config[s].specs)
                    /\ policy.critical >= Scale =>
                         \A i \in DOMAIN c :
                           IsCritical(config["candidate"].file.format,
                                      config["candidate"].file.rows[i].kind)
                             => c[i].passed
                    /\ Scale * (Count(b, Passed(b)) - Count(c, Passed(c))) <= policy.drop * total
                    /\ Scale * Count(c, Errored(c)) <= policy.errors * total
                    /\ x.p95 > 0 => 20 * Count(c, slow) <= Count(c, Answered(c))
  BY DEF PassedIsSafe
<1>1. /\ IsResults(b) /\ IsResults(c) /\ IsAggregate(x) /\ IsAggregate(y)
      /\ x = Aggregate(b) /\ y = Aggregate(c)
      /\ y.total = x.total /\ y.total = total /\ IsPolicy(policy)
      /\ \A s \in Sides : state[s] = "completed"
  BY ComparedRuns DEF Sides
<1>2. \A t \in Checks(x, y, policy) : t.reached >= t.needed
  BY DEF GateInv, Policed, CanPass
<1>3. /\ x.passed = Count(b, Passed(b)) /\ y.passed = Count(c, Passed(c))
      /\ y.critical = Count(c, Critical(c))
      /\ y.criticalPassed = Count(c, Critical(c) \intersect Passed(c))
      /\ y.errors = Count(c, Errored(c)) /\ x.p95 = P95(b) /\ y.p95 = P95(c)
  BY <1>1 DEF Aggregate
<1>4. ASSUME NEW s \in Sides, Answered(results[s]) # {}
      PROVE  Cardinality({config[s].specs[i].type : i \in DOMAIN config[s].specs})
               = Len(config[s].specs)
  <2>1. config[s] \in Configs
    BY DEF GateInv
  <2>2. ~NamesCollide(config[s].specs)
    BY <1>1, <1>4, ResultsAreSound
  <2> QED
    BY <2>1, <2>2, NamesAreDistinct
<1>5. ASSUME policy.critical >= Scale, NEW i \in DOMAIN c,
             IsCritical(config["candidate"].file.format,
                        config["candidate"].file.rows[i].kind)
      PROVE  c[i].passed
  <2>1. i \in Critical(c)
    <3>1. "candidate" \in Sides
      BY DEF Sides
    <3>2. c[i].critical
      BY <1>1, <1>5, <3>1, ResultsAreSound
    <3> QED
      BY <3>2 DEF Critical
  <2>2. y.critical \in Nat /\ y.criticalPassed \in Nat
    BY <1>1 DEF IsAggregate
  <2>3. CriticalRate(y, policy).reached >= CriticalRate(y, policy).needed
    BY <1>2 DEF Checks
  <2>4. y.criticalPassed >= y.critical
    <3>1. CASE y.critical = 0
      BY <2>2, <3>1
    <3>2. CASE y.critical # 0
      <4>1. Scale * y.criticalPassed >= policy.critical * y.critical
        BY <2>3, <3>2 DEF CriticalRate
      <4>2. policy.critical \in Int /\ policy.critical >= Scale
        BY <1>1, <1>5 DEF IsPolicy
      <4>3. policy.critical * y.critical >= Scale * y.critical
        BY <2>2, <4>2, ScaleAssumption, ProductMonotone
      <4>4. /\ Scale * y.criticalPassed = y.criticalPassed * Scale
            /\ Scale * y.critical = y.critical * Scale
            /\ y.criticalPassed * Scale \in Int /\ y.critical * Scale \in Int
            /\ policy.critical * y.critical \in Int
        BY <2>2, <4>2, ScaleAssumption
      <4>5. y.criticalPassed * Scale >= y.critical * Scale
        BY ONLY <4>1, <4>3, <4>4
      <4> QED
        BY <2>2, <4>5, ScaleAssumption, CancelFactor
    <3> QED
      BY <3>1, <3>2
  <2>5. Critical(c) \subseteq Passed(c)
    <3>1. IsResults(c) /\ Count(c, Critical(c) \intersect Passed(c)) >= Count(c, Critical(c))
      BY <1>1, <1>3, <2>4
    <3> QED
      BY <3>1, AllCriticalPassed
  <2> QED
    BY <2>1, <2>5 DEF Passed
<1>6. Scale * (Count(b, Passed(b)) - Count(c, Passed(c))) <= policy.drop * total
  <2> HIDE DEF b, c, x, y, total
  <2> DEFINE have == Scale * y.passed + policy.drop * y.total
             want == Scale * x.passed
             share == policy.drop * y.total
  <2>1. PassRate(x, y, policy).reached >= PassRate(x, y, policy).needed
    BY <1>2 DEF Checks
  <2>2. /\ PassRate(x, y, policy).reached = have * y.total
        /\ PassRate(x, y, policy).needed = want * y.total
        /\ have \in Int /\ want \in Int /\ share \in Int
    <3>1. IsAggregate(x) /\ IsAggregate(y) /\ IsPolicy(policy) /\ y.total = x.total
      BY <1>1
    <3> QED
      BY ONLY <3>1, PassRateCounts
  <2>3. y.total \in Nat /\ y.total > 0 /\ y.passed \in Nat /\ x.passed \in Nat
    BY <1>1 DEF IsAggregate
  <2>4. /\ have = Scale * y.passed + share /\ want = Scale * x.passed
        /\ Scale * (x.passed - y.passed) = Scale * x.passed - Scale * y.passed
        /\ Scale * x.passed \in Int /\ Scale * y.passed \in Int
    BY <2>3, ScaleAssumption
  <2> HIDE DEF have, want, share
  <2>5. have >= want
    BY <2>1, <2>2, <2>3, CancelFactor
  <2>6. Scale * (x.passed - y.passed) <= share
    BY ONLY <2>2, <2>3, <2>4, <2>5
  <2> QED
    BY <1>1, <1>3, <2>6 DEF share
<1>7. Scale * Count(c, Errored(c)) <= policy.errors * total
  <2> HIDE DEF b, c, x, y, total
  <2>1. ErrorRate(y, policy).reached >= ErrorRate(y, policy).needed
    BY <1>2 DEF Checks
  <2>2. policy.errors * y.total >= Scale * y.errors
    BY <2>1 DEF ErrorRate
  <2>3. y.errors \in Nat /\ y.total \in Nat /\ policy.errors \in Int
    BY <1>1 DEF IsAggregate, IsPolicy
  <2> QED
    BY <1>1, <1>3, <2>2, <2>3
<1>8. ASSUME x.p95 > 0
      PROVE  20 * Count(c, slow) <= Count(c, Answered(c))
  <2>1. P95Latency(x, y, policy).reached >= P95Latency(x, y, policy).needed
    BY <1>2 DEF Checks
  <2>2. x.p95 \in Nat /\ y.p95 \in Nat /\ policy.latency \in Int
    BY <1>1 DEF IsAggregate, IsPolicy
  <2>3. x.p95 * (Scale + policy.latency) >= Scale * y.p95
    BY <1>8, <2>1, <2>2 DEF P95Latency
  <2>4. x.p95 * (Scale + policy.latency) \in Int /\ Scale * y.p95 = y.p95 * Scale
    BY <2>2, ScaleAssumption
  <2>5. slow \in SUBSET Answered(c)
    OBVIOUS
  <2>6. ASSUME NEW i \in slow
        PROVE  c[i].latency > P95(c)
    <3>1. c[i].latency \in Nat
      BY <1>1, Parts DEF IsResults
    <3>2. Scale * c[i].latency > x.p95 * (Scale + policy.latency)
      OBVIOUS
    <3>3. y.p95 = P95(c)
      BY <1>3
    <3> HIDE DEF c, x, y
    <3>4. c[i].latency > y.p95
      <4>1. /\ Scale * c[i].latency = c[i].latency * Scale
            /\ c[i].latency * Scale \in Int /\ y.p95 * Scale \in Int
        BY <2>2, <3>1, ScaleAssumption
      <4>2. y.p95 * Scale < c[i].latency * Scale
        BY ONLY <2>3, <2>4, <3>2, <4>1
      <4> QED
        BY <2>2, <3>1, <4>2, ScaleAssumption, CancelFactor
    <3> QED
      BY <3>3, <3>4
  <2> HIDE DEF slow, c
  <2> QED
    BY <1>1, <2>5, <2>6, FewAreSlower
<1> QED
  BY <1>4, <1>5, <1>6, <1>7, <1>8

\* A candidate that passes is within the policy case by case, whatever the dataset,
\* the outcomes of the calls and the policy (engine.py:170-201, comparisons.py:9-60,
\* models.py:200).
THEOREM PassedIsSafeAlways == GateSpec => []PassedIsSafe
<1>1. GateSpec => []GateInv
  BY GateStarts, GateStep, PTL DEF GateSpec
<1> QED
  BY <1>1, SafelyPassed, PTL

=============================================================================
