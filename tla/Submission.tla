----------------------------- MODULE Submission -----------------------------
(***************************************************************************)
(* POST /api/projects/{project_id}/runs: create_run, called concurrently by  *)
(* threads of the API, with an Idempotency-Key and, for a Gemini run, a      *)
(* daily allowance.  A key stands for the pair of user and header.  Refusals  *)
(* that depend on nothing but the request (membership, versions of another   *)
(* project, Gemini switched off) change nothing and are left out.            *)
(*                                                                          *)
(* All submissions fall on one day, so every Gemini run counts.             *)
(***************************************************************************)
EXTENDS Naturals, FiniteSets, FiniteSetsExt

CONSTANTS
  Submissions,  \* HTTP requests; a run bears the name of its request
  Keys,         \* idempotency keys they may carry
  Providers,    \* providers they may ask for: "mock", "gemini"
  Sizes,        \* row_count of the dataset versions they may name
  CaseLimit,    \* llm_max_cases_per_run
  DailyLimit,   \* llm_daily_request_limit
  MaxDeaths     \* bound on the API processes killed during a request

ASSUME SubmissionAssumption ==
  /\ Providers \subseteq {"mock", "gemini"}
  /\ Sizes \subseteq Nat \ {0}
  /\ CaseLimit \in Nat
  /\ DailyLimit \in Nat
  /\ MaxDeaths \in Nat

VARIABLES
  runs,     \* committed EvaluationRun rows, each with its dispatch row and event
  key,      \* Idempotency-Key of each request
  provider, \* the provider it asks for
  size,     \* row_count of its dataset version
  spc,      \* where each request is
  present,  \* history: the runs there were when the request was sent
  counted,  \* the Gemini runs its allowance query summed
  answer,   \* the run a request was answered with
  deaths    \* API processes killed so far

submitVars ==
  <<runs, key, provider, size, spc, present, counted, answer, deaths>>

\* The request itself, fixed once it is sent.
bodyVars == <<key, provider, size, present>>

SubmitPc ==
  {"new", "lookup", "checks", "insert", "flushed", "collided", "dispatching",
   "called", "answered", "refused", "error", "dead"}

Ended == {"answered", "refused", "error", "dead"}

SubmitInit ==
  /\ runs = {}
  /\ key \in [Submissions -> Keys]
  /\ provider \in [Submissions -> Providers]
  /\ size \in [Submissions -> Sizes]
  /\ spc = [c \in Submissions |-> "new"]
  /\ present = [c \in Submissions |-> {}]
  /\ counted = [c \in Submissions |-> {}]
  /\ answer = [c \in Submissions |-> {}]
  /\ deaths = 0

SubmitTypeOK ==
  /\ runs \subseteq Submissions
  /\ key \in [Submissions -> Keys]
  /\ provider \in [Submissions -> Providers]
  /\ size \in [Submissions -> Sizes]
  /\ spc \in [Submissions -> SubmitPc]
  /\ present \in [Submissions -> SUBSET Submissions]
  /\ counted \in [Submissions -> SUBSET Submissions]
  /\ answer \in [Submissions -> SUBSET Submissions]
  /\ deaths \in Nat

Proceed(c, label) == spc' = [spc EXCEPT ![c] = label]

\* The committed runs a select by user and key finds.
SameKey(c) == {r \in runs : key[r] = key[c]}

\* create_run returns the run that was found, 202.
ReplyWith(c, found) ==
  /\ answer' = [answer EXCEPT ![c] = found]
  /\ Proceed(c, "answered")

\* The request is sent; what it asks for was chosen in the initial state.
Submit(c) ==
  /\ spc[c] = "new"
  /\ present' = [present EXCEPT ![c] = runs]
  /\ Proceed(c, "lookup")
  /\ UNCHANGED <<runs, key, provider, size, counted, answer, deaths>>

\* Leaves every duplicate to the unique constraint.
FoundNothing(c) == {}

\* What the first select finds.
Existing(c) == SameKey(c)

Lookup(c) ==
  /\ spc[c] = "lookup"
  /\ IF Existing(c) # {}
       THEN ReplyWith(c, Existing(c))
       ELSE Proceed(c, "checks") /\ UNCHANGED answer
  /\ UNCHANGED <<runs, bodyVars, counted, deaths>>

Live(c) == provider[c] = "gemini"

LiveRuns == {r \in runs : Live(r)}

\* _gemini_requests_reserved_today, the sum of the row counts of a set of runs.
Reserved(S) == SumFunctionOnSet(size, S)

\* Compares before it adds.
ExceedsBefore(c, S) == Reserved(S) > DailyLimit

Exceeds(c, S) == Reserved(S) + size[c] > DailyLimit

\* The mock provider has no limits.
PassMock(c) ==
  /\ spc[c] = "checks"
  /\ ~Live(c)
  /\ Proceed(c, "insert")
  /\ UNCHANGED <<runs, bodyVars, counted, answer, deaths>>

\* 422: more cases than one Gemini run may have.
RefuseSize(c) ==
  /\ spc[c] = "checks"
  /\ Live(c)
  /\ size[c] > CaseLimit
  /\ Proceed(c, "refused")
  /\ UNCHANGED <<runs, bodyVars, counted, answer, deaths>>

\* The allowance is read and compared; 429 when the run does not fit.
CheckAllowance(c) ==
  /\ spc[c] = "checks"
  /\ Live(c)
  /\ size[c] <= CaseLimit
  /\ counted' = [counted EXCEPT ![c] = LiveRuns]
  /\ Proceed(c, IF Exceeds(c, LiveRuns) THEN "refused" ELSE "insert")
  /\ UNCHANGED <<runs, bodyVars, answer, deaths>>

\* A request with this key is at one of the places pcs.
KeyLockedBy(c, pcs) ==
  \E o \in Submissions : spc[o] \in pcs /\ key[o] = key[c]

\* A transaction left open by a request that died.
LockedForGood(c) == KeyLockedBy(c, {"flushed", "dead"})

\* Another request has inserted this key and has not committed: the INSERT waits.
KeyLocked(c) == KeyLockedBy(c, {"flushed"})

\* Without the unique constraint.
NeverTaken(c) == FALSE

\* The unique constraint on (created_by_id, idempotency_key)
KeyTaken(c) == SameKey(c) # {}

Flush(c) ==
  /\ spc[c] = "insert"
  /\ ~KeyLocked(c)
  /\ Proceed(c, IF KeyTaken(c) THEN "collided" ELSE "flushed")
  /\ UNCHANGED <<runs, bodyVars, counted, answer, deaths>>

\* The run, its dispatch row and its first event become visible together.
CommitRun(c) ==
  /\ spc[c] = "flushed"
  /\ runs' = runs \union {c}
  /\ Proceed(c, "dispatching")
  /\ UNCHANGED <<bodyVars, counted, answer, deaths>>

\* Looks only among runs of the same kind and size.
SameBody(c) == {r \in SameKey(c) : provider[r] = provider[c] /\ size[r] = size[c]}

\* What the select after the rollback finds.
Duplicate(c) == SameKey(c)

\* The loser of the race returns the winner's run; without one it raises.
ReturnWinner(c) ==
  /\ spc[c] = "collided"
  /\ IF Duplicate(c) # {}
       THEN ReplyWith(c, Duplicate(c))
       ELSE Proceed(c, "error") /\ UNCHANGED answer
  /\ UNCHANGED <<runs, bodyVars, counted, deaths>>

\* dispatch_pending(limit=1) is called; the outbox models what it does.
CallOutbox(c) ==
  /\ spc[c] = "dispatching"
  /\ Proceed(c, "called")
  /\ UNCHANGED <<runs, bodyVars, counted, answer, deaths>>

\* The call is over, whatever came of it.
AnswerNew(c) ==
  /\ spc[c] = "called"
  /\ ReplyWith(c, {c})
  /\ UNCHANGED <<runs, bodyVars, counted, deaths>>

\* The process dies: an uncommitted run is rolled back.
Die(c) ==
  /\ spc[c] \notin Ended \union {"new"}
  /\ deaths < MaxDeaths
  /\ deaths' = deaths + 1
  /\ Proceed(c, "dead")
  /\ UNCHANGED <<runs, bodyVars, counted, answer>>

\* The steps of an accepted request that concern nothing but the runs.
Create(c) ==
  \/ Lookup(c)
  \/ PassMock(c)
  \/ RefuseSize(c)
  \/ CheckAllowance(c)
  \/ Flush(c)
  \/ ReturnWinner(c)

SubmitStep(c) == Create(c) \/ CommitRun(c) \/ CallOutbox(c) \/ AnswerNew(c)

SubmitNext == \E c \in Submissions : Submit(c) \/ SubmitStep(c) \/ Die(c)

SubmitSpec == SubmitInit /\ [][SubmitNext]_submitVars

\* A request that was accepted runs to its end; nobody has to send one.
SubmitFairSpec ==
  SubmitSpec /\ \A c \in Submissions : WF_submitVars(SubmitStep(c))

-----------------------------------------------------------------------------
\* However requests with one key overlap, fail or are repeated, one run comes of
\* them, and every one that is answered is answered with it (api.py:376-382,
\* 421-441; docs/interview-guide.md:120).
OneRunPerKey ==
  /\ \A r, s \in runs : key[r] = key[s] => r = s
  /\ \A c \in Submissions :
       spc[c] = "answered" =>
         answer[c] # {} /\ answer[c] = SameKey(c)

\* A request repeated after its run was committed is never refused, neither by
\* an allowance its own run has used up nor by a server error (api.py:376-382
\* comes before 389-410).
RepeatIsAnswered ==
  \A c \in Submissions :
    (\E r \in present[c] : key[r] = key[c]) =>
       spc[c] \notin {"refused", "error"}

\* The loser of a race on a key always finds the winner: the IntegrityError never
\* reaches the client (api.py:431-441).
RaceIsResolved == \A c \in Submissions : spc[c] # "error"

\* The daily allowance is exceeded only by requests that overlapped, neither of
\* which counted the other (api.py:127-135, 405-410; docs/ai-integration.md:60
\* "do not provide a transactional billing guarantee").
OverrunNeedsOverlap ==
  Reserved(LiveRuns) > DailyLimit =>
    \E r, s \in LiveRuns : r # s /\ r \notin counted[s] /\ s \notin counted[r]

\* A request that waits for another one's key is answered in the end, also when
\* the other one dies (api.py:421-441).
SubmissionsEnd ==
  \A c \in Submissions : spc[c] # "new" ~> spc[c] \in Ended

=============================================================================
