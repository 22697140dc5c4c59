----------------------------- MODULE Diagnosis -----------------------------
(***************************************************************************)
(* POST /api/runs/{run_id}/diagnose: one stored diagnosis per run, bought     *)
(* with two provider calls.  The look for a stored one, the count of today's, *)
(* the calls and the insert are separate steps of one request; the last       *)
(* defence is the unique constraint on run_id.  The runs themselves move on   *)
(* meanwhile; all requests fall on one day.                                  *)
(***************************************************************************)
EXTENDS Providers, Sequences, FiniteSetsExt

CONSTANTS
  Requests,       \* calls of the endpoint; a diagnosis bears its request's name
  Runs,
  Allowances,     \* what llm_daily_diagnosis_limit may leave for these requests
  MaxFailures,    \* llm_diagnosis_max_failures
  MaxFailing,     \* bound on the failing results of each run
  Chunks,         \* sections of the runbooks, numbered in the order of their ids
  Relevance,      \* BM25 score of each chunk for each run's failures, 0: no term
  TopK,           \* rag_top_k
  CiteLists,      \* what the model may list as citation_ids
  Base,           \* size of each run's tool response without failures
  Cost,           \* size of each of its failures, compacted
  Budget          \* max(2000, llm_max_input_chars - 2500)

ASSUME DiagnosisAssumption ==
  /\ Allowances \subseteq Nat
  /\ MaxFailures \in Nat \ {0}
  /\ MaxFailing \in [Runs -> Nat]
  /\ Chunks \subseteq Nat /\ IsFiniteSet(Chunks)
  /\ Relevance \in [Runs -> [Chunks -> Nat]]
  /\ TopK \in Nat
  /\ CiteLists \subseteq Seq(Nat)

ASSUME PromptAssumption ==
  /\ Base \in [Runs -> Nat] /\ Budget \in Nat
  /\ Cost \in [Runs -> [1..MaxFailures -> Nat \ {0}]]

VARIABLES
  allowance,  \* diagnoses the day still has
  status,     \* status of each run
  failing,    \* its results that did not pass
  diagnoses,  \* committed RunDiagnosis rows
  dpc,        \* where each request is
  run,        \* the run it names
  loaded,     \* the status it loaded
  before,     \* history: the diagnoses stored when it was sent
  calls,      \* provider calls it has made
  draft,      \* the diagnosis it has prepared
  served      \* the diagnosis it was answered with

runVars == <<allowance, status, failing>>
diagnosisVars ==
  <<allowance, status, failing, diagnoses, dpc, run, loaded, before, calls, draft, served>>

Over == {"completed", "failed", "cancelled"}

DiagnosisPc ==
  {"new", "lookup", "status", "count", "first", "inspect", "pack", "second", "insert",
   "flushed", "collided", "answered", "refused", "unavailable", "error", "dead"}

DiagnosisEnded == {"answered", "refused", "unavailable", "error", "dead"}

\* A prepared or stored diagnosis: how many failures were found, which of them are
\* sent, the one whose turn it is, the ids the model asked for and what is cited.
IsDraft(d) ==
  /\ DOMAIN d = {"run", "by", "failures", "sent", "at", "asked", "citations"}
  /\ d.run \in Runs /\ d.by \in Requests
  /\ d.failures \in Nat \ {0} /\ d.sent \in Seq(Nat) /\ d.at \in Nat
  /\ d.asked \in Seq(Nat) /\ d.citations \in Seq(Chunks)

DiagnosisInit ==
  /\ allowance \in Allowances
  /\ status \in [Runs -> {"running", "cancelled"}]
  /\ failing = [r \in Runs |-> 0]
  /\ diagnoses = {}
  /\ dpc = [q \in Requests |-> "new"]
  /\ run \in [Requests -> Runs]
  /\ loaded = [q \in Requests |-> "running"]
  /\ before = [q \in Requests |-> {}]
  /\ calls = [q \in Requests |-> 0]
  /\ draft = [q \in Requests |-> {}]
  /\ served = [q \in Requests |-> {}]

DiagnosisTypeOK ==
  /\ allowance \in Allowances
  /\ status \in [Runs -> {"running"} \union Over]
  /\ failing \in [Runs -> Nat]
  /\ \A d \in diagnoses : IsDraft(d)
  /\ dpc \in [Requests -> DiagnosisPc]
  /\ run \in [Requests -> Runs]
  /\ loaded \in [Requests -> {"running"} \union Over]
  /\ before \in [Requests -> SUBSET diagnoses]
  /\ calls \in [Requests -> 0..2]
  /\ DOMAIN draft = Requests /\ \A q \in Requests : \A d \in draft[q] : IsDraft(d)
  /\ served \in [Requests -> SUBSET diagnoses]

-----------------------------------------------------------------------------
(* The runs, as the workers and cancel_run change them.                      *)

\* A worker stores the result of a case that did not pass.
FailCase(r) ==
  /\ status[r] = "running"
  /\ failing[r] < MaxFailing[r]
  /\ failing' = [failing EXCEPT ![r] = @ + 1]
  /\ UNCHANGED <<allowance, status, diagnoses, dpc, run, loaded, before, calls, draft, served>>

\* A run ends; a cancellation that loaded it earlier may overwrite its verdict.
EndRun(r) ==
  /\ \/ status[r] = "running" /\ \E s \in Over : status' = [status EXCEPT ![r] = s]
     \/ status[r] \in Over \ {"cancelled"} /\ status' = [status EXCEPT ![r] = "cancelled"]
  /\ UNCHANGED <<allowance, failing, diagnoses, dpc, run, loaded, before, calls, draft, served>>

-----------------------------------------------------------------------------
(* Retrieval and the prompt: pure functions of the run's failures.           *)

\* The chunks with a term of the query.
Hits(r) == {c \in Chunks : Relevance[r][c] > 0}

\* The hits that stand before c: a better score first, ties by id.
Ahead(r, c) ==
  {e \in Hits(r) : \/ Relevance[r][e] > Relevance[r][c]
                   \/ Relevance[r][e] = Relevance[r][c] /\ e < c}

\* The members of S, those of ahead[x] before x.
Ranked(S, ahead) ==
  [k \in 1..Cardinality(S) |-> CHOOSE x \in S : Cardinality(ahead[x]) = k - 1]

\* KnowledgeRetriever.retrieve: the first max(1, top_k) of the sorted hits.
Sources(r) ==
  LET best == Ranked(Hits(r), [c \in Hits(r) |-> Ahead(r, c)])
  IN [k \in 1..Min({Cardinality(Hits(r)), Max({1, TopK})}) |-> best[k]]

\* Trusts the model.
CitationsAsAsked(r, ids) == IF ids = <<>> THEN Sources(r) ELSE ids

\* The places in the model's list of the ids that were retrieved.
Known(r, ids) == {i \in DOMAIN ids : ids[i] \in Range(Sources(r))}

\* What the model lists and was retrieved, in its order and as often; all sources
\* when that is nothing.
Citations(r, ids) ==
  LET kept == Ranked(Known(r, ids), [i \in Known(r, ids) |-> {j \in Known(r, ids) : j < i}])
  IN IF Known(r, ids) = {} THEN Sources(r) ELSE [k \in DOMAIN kept |-> ids[kept[k]]]

\* The length of the context with the failures s of run r.
Size(r, s) == Base[r] + SumFunction([i \in DOMAIN s |-> Cost[r][s[i]]])

\* Leaves out a failure that does not fit and goes on with the next.
TurnWithoutBreak(d) ==
  IF Size(d.run, Append(d.sent, d.at)) > Budget
    THEN [d EXCEPT !.at = @ + 1]
    ELSE [d EXCEPT !.sent = Append(@, d.at), !.at = @ + 1]

\* _agent_context, one turn of its loop: the failure is added and the context
\* measured; one that does not fit is taken back and is the last.
Turn(d) ==
  IF Size(d.run, Append(d.sent, d.at)) > Budget
    THEN [d EXCEPT !.at = d.failures + 1]
    ELSE [d EXCEPT !.sent = Append(@, d.at), !.at = @ + 1]

-----------------------------------------------------------------------------
(* The request.                                                             *)

Step(q, label) == dpc' = [dpc EXCEPT ![q] = label]

StoredFor(r) == {d \in diagnoses : d.run = r}

\* authorized_run loads the run once; its status is not read again.
OpenDiagnosis(q) ==
  /\ dpc[q] = "new"
  /\ loaded' = [loaded EXCEPT ![q] = status[run[q]]]
  /\ before' = [before EXCEPT ![q] = diagnoses]
  /\ Step(q, "lookup")
  /\ UNCHANGED <<runVars, diagnoses, run, calls, draft, served>>

\* Never finds a stored diagnosis.
NothingStored(q) == {}

StoredDiagnosis(q) == StoredFor(run[q])

LookUpDiagnosis(q) ==
  /\ dpc[q] = "lookup"
  /\ served' = [served EXCEPT ![q] = StoredDiagnosis(q)]
  /\ Step(q, IF StoredDiagnosis(q) # {} THEN "answered" ELSE "status")
  /\ UNCHANGED <<runVars, diagnoses, run, loaded, before, calls, draft>>

\* A run that is still going may be diagnosed too.
AnyStatus(s) == s # "cancelled"

Diagnosable(s) == s \in {"completed", "failed"}

CheckStatus(q) ==
  /\ dpc[q] = "status"
  /\ Step(q, IF Diagnosable(loaded[q]) THEN "count" ELSE "refused")
  /\ UNCHANGED <<runVars, diagnoses, run, loaded, before, calls, draft, served>>

\* Allows one more.
AllowanceOverdrawn == Cardinality(diagnoses) > allowance

AllowanceExhausted == Cardinality(diagnoses) >= allowance

CountToday(q) ==
  /\ dpc[q] = "count"
  /\ Step(q, IF AllowanceExhausted THEN "refused" ELSE "first")
  /\ UNCHANGED <<runVars, diagnoses, run, loaded, before, calls, draft, served>>

\* 503 for a temporary error, 502 for a permanent one, 500 for the rest.
Failed(outcome) == IF outcome = "temporary" THEN "unavailable" ELSE "error"

\* The model must call the inspection tool first.
AfterFirst(reply) ==
  CASE Generate(reply) # "answer" -> Failed(Generate(reply))
    [] reply.kind = "call" -> "inspect"
    [] OTHER -> "error"

CallFirst(q) ==
  /\ dpc[q] = "first"
  /\ calls' = [calls EXCEPT ![q] = @ + 1]
  /\ \E reply \in Replies : Step(q, AfterFirst(reply))
  /\ UNCHANGED <<runVars, diagnoses, run, loaded, before, draft, served>>

\* inspect_failed_evaluations and retrieval; a run without failing results is
\* refused only now.
Inspect(q) ==
  /\ dpc[q] = "inspect"
  /\ LET n == Min({failing[run[q]], MaxFailures})
     IN IF n = 0
          THEN Step(q, "refused") /\ UNCHANGED draft
          ELSE /\ draft' = [draft EXCEPT ![q] =
                     {[run |-> run[q], by |-> q, failures |-> n, sent |-> <<>>, at |-> 1,
                       asked |-> <<>>, citations |-> Sources(run[q])]}]
               /\ Step(q, "pack")
  /\ UNCHANGED <<runVars, diagnoses, run, loaded, before, calls, served>>

\* The loop over the failures, until each had its turn or one did not fit.
AddFailure(q) ==
  /\ dpc[q] = "pack"
  /\ \E d \in draft[q] :
       IF d.at > d.failures
         THEN Step(q, "second") /\ UNCHANGED draft
         ELSE draft' = [draft EXCEPT ![q] = {Turn(d)}] /\ UNCHANGED dpc
  /\ UNCHANGED <<runVars, diagnoses, run, loaded, before, calls, served>>

\* The second call and the parsing of what it says.
CallSecond(q) ==
  /\ dpc[q] = "second"
  /\ calls' = [calls EXCEPT ![q] = @ + 1]
  /\ \E reply \in Replies, ids \in CiteLists :
       IF Generate(reply) = "answer" /\ reply.kind = "diagnosis"
         THEN /\ draft' = [draft EXCEPT ![q] =
                    {[d EXCEPT !.asked = ids, !.citations = Citations(run[q], ids)]
                       : d \in draft[q]}]
              /\ Step(q, "insert")
         ELSE /\ Step(q, Failed(Generate(reply)))
              /\ UNCHANGED draft
  /\ UNCHANGED <<runVars, diagnoses, run, loaded, before, served>>

\* A dead request keeps what it locked.
LockedForGood(q) ==
  \E p \in Requests \ {q} : dpc[p] \in {"flushed", "dead"} /\ run[p] = run[q]

\* Another request's diagnosis of the run is inserted and not yet committed.
RunLocked(q) == \E p \in Requests \ {q} : dpc[p] = "flushed" /\ run[p] = run[q]

\* No unique constraint.
NeverDiagnosed(q) == FALSE

\* RunDiagnosis.run_id is unique.
Diagnosed(q) == StoredFor(run[q]) # {}

InsertDiagnosis(q) ==
  /\ dpc[q] = "insert"
  /\ ~RunLocked(q)
  /\ Step(q, IF Diagnosed(q) THEN "collided" ELSE "flushed")
  /\ UNCHANGED <<runVars, diagnoses, run, loaded, before, calls, draft, served>>

CommitDiagnosis(q) ==
  /\ dpc[q] = "flushed"
  /\ diagnoses' = diagnoses \union draft[q]
  /\ served' = [served EXCEPT ![q] = draft[q]]
  /\ Step(q, "answered")
  /\ UNCHANGED <<runVars, run, loaded, before, calls, draft>>

\* IntegrityError: the winner's diagnosis is the answer; none is ever deleted.
ReturnWinner(q) ==
  /\ dpc[q] = "collided"
  /\ served' = [served EXCEPT ![q] = StoredFor(run[q])]
  /\ Step(q, "answered")
  /\ UNCHANGED <<runVars, diagnoses, run, loaded, before, calls, draft>>

\* The process of a request dies and its transaction is rolled back.
DiagnosisDies(q) ==
  /\ dpc[q] \notin DiagnosisEnded \union {"new"}
  /\ Step(q, "dead")
  /\ UNCHANGED <<runVars, diagnoses, run, loaded, before, calls, draft, served>>

ServeDiagnosis(q) ==
  \/ LookUpDiagnosis(q) \/ CheckStatus(q) \/ CountToday(q) \/ CallFirst(q)
  \/ Inspect(q) \/ AddFailure(q) \/ CallSecond(q) \/ InsertDiagnosis(q) \/ CommitDiagnosis(q)
  \/ ReturnWinner(q)

DiagnosisNext ==
  \/ \E q \in Requests : OpenDiagnosis(q) \/ ServeDiagnosis(q) \/ DiagnosisDies(q)
  \/ \E r \in Runs : FailCase(r) \/ EndRun(r)

DiagnosisSpec == DiagnosisInit /\ [][DiagnosisNext]_diagnosisVars

-----------------------------------------------------------------------------
\* A run has one diagnosis, and everyone who asked and was answered was shown
\* that one, whoever paid for it (api.py:487-489, 523-530; models.py:218).
OneDiagnosisPerRun ==
  /\ \A d, e \in diagnoses : d.run = e.run => d = e
  /\ \A q \in Requests : dpc[q] = "answered" => served[q] = StoredFor(run[q]) /\ served[q] # {}

\* What a diagnosis was made from stays true of its run: it was made from the
\* failing results of a run that gets no more (api.py:490; diagnostics.py:42-52).
EvidenceStaysTrue ==
  \A d \in diagnoses :
    /\ status[d.run] # "running"
    /\ d.failures = Min({failing[d.run], MaxFailures})
    /\ d.failures > 0

\* Two requests pay for one run only when they overlap: one that was sent after
\* the diagnosis was stored makes no call (api.py:487-504).
StoredCostsNothing ==
  \A q \in Requests : calls[q] > 0 => StoredFor(run[q]) \intersect before[q] = {}

\* The daily allowance is overrun only by requests that overlap: whoever stores a
\* diagnosis found room when it was sent (api.py:497-502).
LimitOverrunNeedsOverlap ==
  \A d \in diagnoses : Cardinality(before[d.by]) < allowance

\* What a diagnosis cites was retrieved for its run: at most TopK different chunks
\* with a term in common, of which fewer than TopK score better, whatever ids the
\* model lists; it cites something whenever any chunk has a term in common, and when
\* nothing the model listed is cited, the best match comes first, ties by id
\* (rag.py:48-57, diagnostics.py:190-194).
CitationsAreBestMatches ==
  \A d \in diagnoses :
    LET cited == d.citations
        score == Relevance[d.run]
    IN /\ \A i \in DOMAIN cited :
            /\ score[cited[i]] > 0
            /\ Cardinality({e \in Chunks : score[e] > score[cited[i]]}) < Max({1, TopK})
       /\ Cardinality(Range(cited)) <= Max({1, TopK})
       /\ cited = <<>> => \A c \in Chunks : score[c] = 0
       /\ Range(d.asked) \intersect Range(cited) = {} =>
            \A i, j \in DOMAIN cited : i < j =>
              \/ score[cited[i]] > score[cited[j]]
              \/ score[cited[i]] = score[cited[j]] /\ cited[i] < cited[j]

\* The failures that are sent are the first ones, together within the budget, and
\* as many as it holds: the next one would exceed it (diagnostics.py:232-275).
PromptIsFull ==
  \A d \in diagnoses :
    /\ \A i \in DOMAIN d.sent : d.sent[i] = i
    /\ d.sent # <<>> => Size(d.run, d.sent) <= Budget
    /\ Len(d.sent) < d.failures => Size(d.run, Append(d.sent, Len(d.sent) + 1)) > Budget

\* Every request ends, also when the one whose insert it waits for dies.
DiagnosesEnd ==
  \A q \in Requests :
    dpc[q] \notin DiagnosisEnded \union {"new"} ~> dpc[q] \in DiagnosisEnded

=============================================================================
