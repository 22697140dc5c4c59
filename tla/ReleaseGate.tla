---------------------------- MODULE ReleaseGate ----------------------------
(***************************************************************************)
(* From provider calls to the verdict on a release: the cases of a dataset    *)
(* version are answered and scored, calculate_aggregate sums the results of    *)
(* a run, and create_comparison holds two runs against a policy.  Cases come   *)
(* in groups of equal ones, so that samples are large enough for the 95th      *)
(* percentile to differ from the greatest latency.  How a run gets through     *)
(* its cases is the subject of Worker; here it ends in one step.              *)
(***************************************************************************)
EXTENDS DatasetImport, Providers, Evaluators

CONSTANTS
  Configs,     \* what a run may be made of: the file of its dataset, its evaluators
  Calls,       \* for each run, what the provider call of a case may meet
  Scale,       \* thresholds are given in units of 1/Scale
  Policies,    \* thresholds, also negative ones, and whether one of them is no number
  Expected,    \* the expected text of the cases
  Limit        \* the limit of the max_latency evaluators

Sides == {"baseline", "candidate"}

ASSUME ScaleAssumption == Scale \in Nat \ {0}

\* Latencies are differences of perf_counter, rounded to microseconds.
ASSUME GateAssumption ==
  /\ \A g \in Configs :
       /\ IsFile(g.file) /\ ParseVerdict(g.file) = "good"
       /\ g.specs \in Seq([type : DOMAIN Options, option : STRING])
       /\ Len(g.specs) \in 1..20
       /\ \A i \in DOMAIN g.specs : IsSpec(g.specs[i])
  /\ \A s \in Sides : \A call \in Calls[s] : call.answer.latency \in Nat
  /\ \A p \in Policies : {p.drop, p.critical, p.latency, p.errors} \subseteq Int

VARIABLES
  state,      \* status of each run
  config,     \* what each run is made of
  results,    \* its results, one per group of cases
  aggregate,  \* its stored aggregate
  policy,     \* the policy of the comparison
  verdict     \* of the comparison

gateVars == <<state, config, results, aggregate, policy, verdict>>

Cases(s) == ParsedCases(config[s].file)

\* How many cases the groups I of results stand for.
Count(res, I) == SumFunctionOnSet([i \in DOMAIN res |-> res[i].times], I)

Total(res) == Count(res, DOMAIN res)

Answered(res) == {i \in DOMAIN res : ~res[i].error}
Passed(res) == {i \in DOMAIN res : res[i].passed}
Errored(res) == {i \in DOMAIN res : res[i].error}

\* Leaves the cases the provider refused out of the critical ones.
CriticalAnswered(res) == {i \in Answered(res) : res[i].critical}

Critical(res) == {i \in DOMAIN res : res[i].critical}

\* How many answered cases took at most l.
AtMost(res, l) == Count(res, {i \in Answered(res) : res[i].latency <= l})

\* Rounds down.
P95IndexDown(n) == IF n = 0 THEN 0 ELSE Max({1, (19 * n) \div 20}) - 1

\* max(0, ceil(0.95 n) - 1); the product of floats gives the same numbers.
P95Index(n) == IF n = 0 THEN 0 ELSE (19 * n + 19) \div 20 - 1

\* sorted(latencies)[index]: the index-th value is the least that more than index
\* values do not exceed.
P95(res) ==
  LET n == Count(res, Answered(res))
      latencies == {res[i].latency : i \in Answered(res)}
  IN IF n = 0 THEN 0 ELSE Min({l \in latencies : AtMost(res, l) > P95Index(n)})

\* calculate_aggregate
Aggregate(res) ==
  [total |-> Total(res),
   passed |-> Count(res, Passed(res)),
   errors |-> Count(res, Errored(res)),
   critical |-> Count(res, Critical(res)),
   criticalPassed |-> Count(res, Critical(res) \intersect Passed(res)),
   p95 |-> P95(res)]

NoAggregate == [total |-> 0, passed |-> 0, errors |-> 0, critical |-> 0,
                criticalPassed |-> 0, p95 |-> 0]

\* The result of a group of cases whose calls ended well or in a permanent error.
ResultOf(s, i, call) ==
  LET case == ParsedCases(config[s].file)[i]
      error == ProviderOutcome(call) = "permanent"
  IN [error |-> error,
      passed |-> ~error /\ CaseVerdict(config[s].specs, call.answer, Expected, Limit) = "passed",
      latency |-> IF error THEN 0 ELSE call.answer.latency,
      critical |-> case.critical, times |-> case.times, answer |-> call.answer]

\* The calls of one run have the provider and the configuration of the run.
OfOneRun(calls) ==
  \A i, j \in DOMAIN calls : RunPart(calls[i]) = RunPart(calls[j])

\* A call that fails the run: there is no provider to call, the retries of a
\* temporary error are spent, or something raised.
Fatal(s, call) ==
  \/ Unavailable(call)
  \/ ProviderOutcome(call) \in {"temporary", "other"}
  \/ /\ ProviderOutcome(call) = "answer"
     /\ CaseVerdict(config[s].specs, call.answer, Expected, Limit) = "raised"

GateInit ==
  /\ state = [s \in Sides |-> "queued"]
  /\ config \in [Sides -> Configs]
  /\ results = [s \in Sides |-> <<>>]
  /\ aggregate = [s \in Sides |-> NoAggregate]
  /\ policy = CHOOSE p \in Policies : TRUE
  /\ verdict = "none"

\* The status a run ends with is its verdict; the aggregate is stored with it.
Evaluate(s) ==
  /\ state[s] = "queued"
  /\ \E calls \in [DOMAIN Cases(s) -> Calls[s]] :
       /\ OfOneRun(calls)
       /\ IF \E i \in DOMAIN calls : Fatal(s, calls[i])
            THEN /\ state' = [state EXCEPT ![s] = "failed"]
                 /\ UNCHANGED <<results, aggregate>>
            ELSE LET res == [i \in DOMAIN calls |-> ResultOf(s, i, calls[i])]
                 IN /\ state' = [state EXCEPT ![s] = "completed"]
                    /\ results' = [results EXCEPT ![s] = res]
                    /\ aggregate' = [aggregate EXCEPT ![s] = Aggregate(res)]
  /\ UNCHANGED <<config, policy, verdict>>

\* create_comparison: both runs completed, one dataset version, one set of evaluators.
Comparable ==
  /\ \A s \in Sides : state[s] = "completed"
  /\ config["baseline"].file = config["candidate"].file
  /\ config["baseline"].specs = config["candidate"].specs

(***************************************************************************)
(* compare_aggregates: each check on exact fractions, as what is reached and   *)
(* what is needed.  Where the threshold is computed, with slack, a candidate    *)
(* that meets it exactly may fall on either side of the rounded one: 6 of 50    *)
(* after 7 of 50 is below 0.14 - 0.02 in floats, 48 after 49 is not.  Nothing   *)
(* keeps a threshold from being negative or above 1.                         *)
(***************************************************************************)

\* Measures the change in both directions.
PassRateDrift(b, c, p) ==
  [reached |-> p.drop * b.total, slack |-> p.drop,
   needed |-> Scale * Max({b.passed, c.passed}) - Scale * Min({b.passed, c.passed})]

PassRate(b, c, p) ==
  [reached |-> Scale * c.passed * b.total + p.drop * b.total * c.total, slack |-> p.drop,
   needed |-> Scale * b.passed * c.total]

\* Without critical cases the rate is 1.
CriticalRate(c, p) ==
  IF c.critical = 0
    THEN [reached |-> Scale, needed |-> p.critical, slack |-> 0]
    ELSE [reached |-> Scale * c.criticalPassed, needed |-> p.critical * c.critical, slack |-> 0]

\* A baseline without latency sets no limit.
P95Latency(b, c, p) ==
  [reached |-> b.p95 * (Scale + p.latency), slack |-> IF b.p95 = 0 THEN 0 ELSE p.latency,
   needed |-> IF b.p95 = 0 THEN 0 ELSE Scale * c.p95]

ErrorRate(c, p) ==
  [reached |-> p.errors * c.total, needed |-> Scale * c.errors, slack |-> 0]

Checks(b, c, p) ==
  {PassRate(b, c, p), CriticalRate(c, p), P95Latency(b, c, p), ErrorRate(c, p)}

CanPass(b, c, p) == \A t \in Checks(b, c, p) : t.reached >= t.needed

CanBlock(b, c, p) ==
  \E t \in Checks(b, c, p) :
    t.reached < t.needed \/ (t.reached = t.needed /\ t.slack # 0)

\* 409 or 422 when the runs cannot be compared, 500 when a threshold is no number
\* or, in the check that is stored, no finite one.
Compare ==
  /\ verdict = "none"
  /\ \A s \in Sides : state[s] # "queued"
  /\ policy' \in Policies
  /\ LET b == aggregate["baseline"]
         c == aggregate["candidate"]
     IN \/ ~Comparable /\ verdict' = "refused"
        \/ Comparable /\ policy'.bad /\ verdict' = "error"
        \/ Comparable /\ ~policy'.bad /\ CanPass(b, c, policy') /\ verdict' = "passed"
        \/ Comparable /\ ~policy'.bad /\ CanBlock(b, c, policy') /\ verdict' = "blocked"
  /\ UNCHANGED <<state, config, results, aggregate>>

GateNext == (\E s \in Sides : Evaluate(s)) \/ Compare

GateSpec == GateInit /\ [][GateNext]_gateVars

-----------------------------------------------------------------------------
\* The stored percentile is the nearest-rank one: the least latency that at least
\* 95 % of the answered cases do not exceed (engine.py:183-184, 197).
P95IsNearestRank ==
  \A s \in Sides :
    LET res == results[s]
        n == Count(res, Answered(res))
        enough == {l \in {res[i].latency : i \in DOMAIN res} : 20 * AtMost(res, l) >= 19 * n}
    IN (state[s] = "completed" /\ n > 0) => aggregate[s].p95 = Min(enough)

\* A candidate that passes is within the policy case by case, not only in its
\* aggregate: every answer was scored under distinct names, with the threshold at
\* 1 or above no row tagged critical failed or was refused, the lost passes and the
\* errors are within their share, and at most 5 % of the answers are slower than
\* allowed (engine.py:170-201, comparisons.py:9-60, models.py:200).
PassedIsSafe ==
  verdict = "passed" =>
    LET b == results["baseline"]
        c == results["candidate"]
        total == Total(c)
        slow == {i \in Answered(c) :
                   Scale * c[i].latency > aggregate["baseline"].p95 * (Scale + policy.latency)}
    IN /\ \A s \in Sides :
            Answered(results[s]) # {} =>
              Cardinality({config[s].specs[i].type : i \in DOMAIN config[s].specs})
                = Len(config[s].specs)
       /\ policy.critical >= Scale =>
            \A i \in DOMAIN c :
              IsCritical(config["candidate"].file.format, config["candidate"].file.rows[i].kind)
                => c[i].passed
       /\ Scale * (Count(b, Passed(b)) - Count(c, Passed(c))) <= policy.drop * total
       /\ Scale * Count(c, Errored(c)) <= policy.errors * total
       /\ aggregate["baseline"].p95 > 0 =>
            20 * Count(c, slow) <= Count(c, Answered(c))

\* A candidate that is blocked gave a reason in its cases: it lost passes up to the
\* allowance or beyond (at it, when floats round against it), failed a critical case,
\* or has more errors or latency than allowed.  When no allowance is negative, some
\* case got worse or one of the candidate's calls was refused (comparisons.py:9-60).
BlockedHasReason ==
  verdict = "blocked" =>
    LET b == results["baseline"]
        c == results["candidate"]
        lost == Count(b, Passed(b)) - Count(c, Passed(c))
        missed == Critical(c) \ Passed(c)
    IN /\ \/ /\ Scale * lost >= policy.drop * Total(c)
             /\ policy.drop = 0 => lost > 0
          \/ missed # {} /\ policy.critical > 0
          \/ policy.critical > Scale
          \/ Scale * Count(c, Errored(c)) > policy.errors * Total(c)
          \/ /\ P95(b) > 0
             /\ Scale * P95(c) >= (Scale + policy.latency) * P95(b)
             /\ policy.latency = 0 => P95(c) > P95(b)
       /\ (policy.drop >= 0 /\ policy.latency >= 0 /\ policy.errors >= 0) =>
            \/ lost > 0
            \/ missed # {}
            \/ policy.critical > Scale
            \/ Errored(c) # {}
            \/ P95(c) > P95(b)

=============================================================================
