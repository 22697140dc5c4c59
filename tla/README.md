# EvalPulse, specified

EvalPulse runs prompt evaluations: a user submits a run of one prompt version on
one dataset version, Celery workers evaluate the cases and store one result per
case in PostgreSQL, and a release gate compares two completed runs. This
directory holds TLA+ modules translated from the program, configurations that
model-check them with TLC, and theorems about them checked by TLAPS.
Paths such as `engine.py` stand for `src/python/evalpulse/engine.py`.

## 1. Inventory

| Component | State it keeps | Operations | Talks to |
|---|---|---|---|
| Run execution (`engine.py`, `tasks.py`) | `EvaluationRun` row, `EvaluationResult` rows, `RunEvent` log; program counter of each Celery task | claim, case loop, checkpoint, settle, release for a retry, `_fail_run` | PostgreSQL, Redis flag, provider, Celery |
| Dispatch outbox (`tasks.py`) | `RunDispatch.state` | `dispatch_pending`, inline after a submission and every 5 s by beat | PostgreSQL, Celery |
| Cancellation (`api.py:535-558`) | the row as one request loaded it | `cancel_run` | PostgreSQL, Redis flag |
| Redis and Celery (`compose.yaml`, `tasks.py:12-28`) | waiting and unacknowledged messages, `evalpulse:cancel:<run>` | deliver, acknowledge, redeliver, restart without persistence | workers, dispatcher, API |
| Submission (`api.py:360-445`) | the runs of a user by idempotency key, the day's Gemini reservations | `create_run` | PostgreSQL, outbox |
| Event stream (`api.py:561-605`) | cursor of one subscriber | `stream_events`, reconnection with `Last-Event-ID` | PostgreSQL, browser |
| Versions (`api.py:233-345`) | `PromptVersion`, `DatasetVersion` numbers | create a version | PostgreSQL |
| Diagnosis and retrieval (`diagnostics.py`, `rag.py`, `api.py:473-532`) | one `RunDiagnosis` per run, daily count | `diagnose_run` | PostgreSQL, Gemini, knowledge files |
| Release gate (`comparisons.py`, `engine.py:170-201`, `api.py:609-674`) | `Comparison` rows | `calculate_aggregate`, `compare_aggregates`, `create_comparison` | PostgreSQL |
| Evaluators (`evaluators.py`), providers (`providers.py`), dataset import (`datasets.py`) | none | pure functions, one HTTP call | run execution, upload |
| Authentication (`auth.py`) | session token, CSRF cookie | login, logout, checks | every endpoint |
| API client and dashboard (`packages/api-client`, `apps/web`) | browser state | polling, event subscription, login retries | API |
| Configuration, migrations, deployment | none at run time | | |

What is hard here, and what makes each part correct:

- **Many copies of one message.** Celery delivers at least once, a dispatcher call
  that dies after publishing publishes again, and a delayed retry may meet a
  duplicate. Correct: at most one owner, one claim per release, one verdict, no
  result replaced.
- **A shared event sequence.** Every writer selects `max(sequence)` and inserts the
  next number; the unique constraint refuses the slower one, and each place where
  that `IntegrityError` can surface handles it differently. Correct: nothing is
  half-committed, and every collision ends in a state the documents name.
- **Decisions on stale rows.** `cancel_run` writes on the status it loaded; the
  worker calls the provider on the intent it refreshed. Correct: the intent is
  durable before anything says cancelled, at most one provider call starts after
  it, a verdict is not overwritten.
- **Crashes and an amnesiac broker.** Workers are killed between a claim and its
  settlement or between a release and its publication; Redis forgets its queue.
  Correct: only the causes the documents name can strand a running run or lose
  a queued one.
- **Progress.** Collisions, duplicates and retries come to an end.
- **Check-then-act in the API.** Idempotency keys, daily allowances, version
  numbers and the two reads of the event stream. Correct: the unique constraints make one
  winner, the loser learns what the winner did, and a limit is overrun only by overlap.
- **Boundaries of the gate.** The index of a percentile, empty divisors, a threshold met
  exactly, evaluators that raise, scores with one name. Correct: a release that passes is
  within the policy case by case, one that is blocked gave a reason.
- **A page that watches.** Refreshes overlap and arrive late, requests of one click fail
  half-way. Correct: what is shown belongs together and ends up true.

`PROJECT.json` lists every hazard with its line and the properties aimed at it.

## 2. Modules

```
RunStore ─┬─ Worker ────┐
Broker ───┼─ CancelApi ─┼─ EvalPulse ─┬─ MCEvalPulse   (model checking)
          └─ Dispatcher ┘             ├─ EvalPulseProofs (theorems)
RunContract <── INSTANCE ─┘
```

- **RunStore**: the rows of one run. Text is abstracted: a result is `"scored"`,
  `"error"` or absent; an aggregate is the function of results it was computed from;
  `started_at` is the sequence number of the event committed with it. `AppendEvent`
  and `SequenceFree` are the unique constraint on `(run_id, sequence)`.
- **Broker**: Celery's queue as a count of messages per `request.retries`, and the
  cancellation flag. Both live in Redis, which has no persistence (`compose.yaml`).
- **Worker**: `evaluate_run_task` and `execute_run`. One step ends where another
  process can act: at a commit, at a select whose value is used later, at a Redis call,
  at the provider call.

  | pc | In the code | Actions |
  |---|---|---|
  | `idle` | waiting for a message | `BeginClaim`, `Skip` |
  | `claim` | conditional UPDATE done, row locked (`engine.py:42-58`) | `CommitClaim`, `ClaimCollides` |
  | `start` | inputs and provider (`60-77`) | `EnterLoop`, `ProviderUnavailable` |
  | `top` | `db.refresh(run)` (`81-83`) | `RefreshRun`, `LeaveLoop` |
  | `flag` | `is_cancelled` (`83`, `tasks.py:40-44`) | `SeeFlag`, `PassFlag` |
  | `case` | checkpoint lookup and provider call (`93-132`) | `KeepResult`, `Evaluate`, `TemporaryError`, `OtherException` |
  | `recover` | handler of a temporary error (`137-148`) | `Recover`, `Yield` |
  | `read` | `max(sequence)` in `add_event` (`28`) | `SelectLatest` |
  | `commit` | the transaction whose `goal` is decided | `CommitProgress`, `CommitCancelled`, `CommitCompleted`, `CommitRetry`, `CommitFailure`, `CollisionCaught`, `CollisionEscapes` |
  | `handoff` | Celery publishes the retry | `HandOff`, `HandOffLost` |
  | `ack` | the task returned | `Ack` |

  `Crash` kills a worker at any of them. Sessions are `autoflush=False,
  expire_on_commit=False` (`database.py:19`): a select does not write, and a loaded row
  stays as it was until `refresh` or `rollback`.
- **CancelApi**: `LoadRun`/`Refuse`, `SelectSequence`, `CommitIntent`/`IntentCollides`,
  `SetFlag`/`FlagSuppressed`, on what the request loaded.
- **Dispatcher**: `PickUp`, `Check`, `Send`/`SendFails`, `Save`; `Interrupt` is a call that dies.
- **EvalPulse**: the composition, with Redis restarts, flag expiry and the row lock that
  makes a cancellation wait for a claim; fairness; every property.
- **RunContract**: what a reader of the row may rely on, without workers, messages
  or sequence numbers. `EvalPulse` implements it under `intent <- cancelRequested,
  done <- {cases with a result}, owned <- {some worker is past its claim}`.

```
EvalPulse ───┬─ StreamedRun ─┬─ MCStreamedRun
EventStream ─┘               └─ StreamProofs   (also EvalPulseProofs)
Submission ──┬─ Intake ──────┬─ MCIntake
Outbox ──────┘               └─ IntakeProofs
Submission ──── MCSubmission

DatasetImport ─┬─ Versions ──────┬─ VersionsProofs
               │                 │
               ├─ ReleaseGate ───┼─ GateProofs
Evaluators ────┤                 ├─ MCRecords (all three)
Providers ─────┴─ Diagnosis ─────┴─ DiagnosisProofs
Dashboard ──── MCDashboard, DashboardProofs
DataTheorems ── IntakeProofs, DiagnosisProofs, GateProofs
```
(`ReleaseGate` extends all three on the left; `Versions` only `DatasetImport`, `Diagnosis` only
`Providers`.)

- **EventStream**: one subscriber of a run. `Connect` starts the server's coroutine at the
  client's `LastEventId`; `SelectEvents` and `ReadState` are its two statements
  (`api.py:577-584`), `SendEvent` one `yield`, `EndPass` the decision to end the stream or to
  look again, `Cut` a broken connection. An event is its sequence number, a selection the
  interval from `since` to `upto`: numbers are consecutive and rows are never deleted.
  A browser's `EventSource` connects again when a stream ends, whoever ended it.
- **StreamedRun**: the subscriber beside the whole of `EvalPulse`, which it only reads.
- **Submission**: `create_run` as concurrent requests. `Submit` to `Lookup` is the first
  select; `PassMock`, `RefuseSize`, `CheckAllowance` the limits; `Flush` the INSERT, which
  waits while another open transaction holds the same key (`KeyLocked`) and raises when it is
  taken (`KeyTaken`); `CommitRun` the commit; `ReturnWinner` the handler of the
  `IntegrityError`; `CallOutbox` and `AnswerNew` the inline dispatch and the answer. `Die`
  kills a process, which rolls its open transaction back. `counted` and `present` are
  history: what the allowance query summed, and which runs there were when a request was sent.
- **Outbox**: `dispatch_pending` over the rows of many runs. `Load` takes the oldest pending
  rows, `Discard`, `StillQueued`, `Tell` and `RefuseOne` treat the row at hand, `SaveAll` is
  the one commit at the end, which writes the rows this call changed and no others.
  `Dispatcher` is the same loop seen from one run, where the messages matter; `Outbox` has
  the limit, the order and the batch, and abstracts what workers do to `LeaveQueue`.
- **Intake**: a commit of `Submission` makes a row of `Outbox` visible; a request makes an
  inline call with limit 1, which may take another run's older row; beats take up to
  `BeatLimit` rows; a dying request takes its call with it.
- **DatasetImport**: `parse_dataset` as operators. A file is a format, a size, what it is at the
  top level, and groups of equal rows; `RowVerdict` says what each kind of row does,
  `ParseVerdict` which exit the parser takes (accepted, 422, or an exception that becomes a 500),
  `ParsedCases` what comes out.
- **Versions**: uploads as concurrent requests. `OpenNew` and `CreateOwner` make a prompt with its
  version 1, or a dataset; `OpenVersion`, `ParseFile`, `SelectLatest`, `InsertVersion` or
  `VersionCollides`, and `CommitVersion` are the statements of the version endpoints. As in
  `Submission`, an INSERT waits while another open transaction holds the same number
  (`NumberLocked`). Nothing catches the `IntegrityError`.
- **Providers**: which of four outcomes a call has (answer, temporary error, permanent error, any
  other exception), for each thing the Gemini endpoint can do and each setting of the mock.
- **Diagnosis**: `diagnose_run` as concurrent requests while `FailCase` and `EndRun` change the runs.
  `OpenDiagnosis` loads the run; `LookUpDiagnosis`, `CheckStatus`, `CountToday` are its checks;
  `CallFirst`, `Inspect` and `CallSecond` the exchange with the model; `InsertDiagnosis`,
  `CommitDiagnosis` and `ReturnWinner` the row and its constraint. `Sources` is the sequence of the
  best hits, `Citations` what the model lists of them, in its order and as often as it lists it.
  `AddFailure` is one turn of the loop of `_agent_context`: `Turn` adds the failure, measures the
  context (`Size`), and takes it back and stops when that exceeds the budget. A context is its length:
  `Base` without failures, which may already exceed the budget, and `Cost` of each failure. `before`
  and `asked` are history: what was stored when the request was sent, what the model listed.
- **Evaluators**: the eight evaluators on what they can tell apart in an answer; which of their
  options raise, which explanations PostgreSQL refuses, and when two scores have one name.
- **ReleaseGate**: from calls to a verdict. `Evaluate` turns the cases of a file into results,
  or fails the run, and stores `Aggregate`; `Compare` refuses, or holds the two aggregates against
  a policy. Thresholds are any multiples of 1/`Scale`, negative ones and ones above 1 included, since
  the policy of a request is a dictionary nothing checks (`schemas.py:201`); a threshold that is no
  number, or not finite, makes the request a 500 (`bad`). The calls of one run share its provider and its
  configuration (`OfOneRun`), and a run whose provider cannot be had fails before its first case
  (`Unavailable`). Rates are compared as exact fractions, which agree with the floats of the code
  for such thresholds and counts that are small against 2^53, except where a threshold is computed:
  there both verdicts are possible at equality (`slack`). Cases come in groups of
  equal ones, so that samples are large enough for the percentile to matter. A latency is a whole
  number, because the providers round it to microseconds (`providers.py:164, 198`).
- **Dashboard**: `page.tsx` and the client it calls. `Click` and the steps of the wizard
  (`createPrompts`, `importDataset`, `startRuns`); `StartRefresh`, `ReadRun`, `Deliver` and
  `RefreshFails` for each of several overlapping `refreshRuns`; `ClickCompare` and what follows it
  (`compareRuns`). `actual` is what the database says of the runs of the last click.

## 3. Runs

| Run | Bounds | What it shows |
|---|---|---|
| `ownership` | 2 workers, 2 cases, 1 retry, 1 cancellation, 1 dispatcher call that may die, 1 crash | one owner, alternating claims, first start time kept, one verdict, complete completion, results kept, finality, stranding explained; refinement of `RunContract` |
| `cancellation` | 1 cancellation, 2 dispatcher calls, 2 workers, 2 cases, 1 retry, 1 Redis fault | durable intent first; at most one late provider call; a queued run is deliverable unless something was lost |
| `progress` | `FairSpec`; 2 workers, 1 case, 1 crash, 1 Redis fault | every run ends or is lost in a known way; every worker comes back |
| `strands_on_release`, `fails_on_cancel`, `cancels_finished`, `lost_queue` | smallest instance | each refutes one sentence, see section 5 |
| `submission` | `SubmitFairSpec`; 3 requests, 2 keys, both providers, datasets of 2 and 3 cases, case limit 2, daily limit 3, 1 death | one run per key, repeats answered, races resolved, overruns need an overlap, every request ends |
| `intake` | `IntakeFairSpec`; 2 requests, 2 keys, 1 beat of limit 2 that may die, 1 refusal, 1 death | no row leaves pending without its message; every committed run is published or leaves the queue |
| `stream` | `StreamedFairSpec`; 1 worker, 1 case, no retry, 1 cancellation, 1 broken connection | exact replay, catching up, closing |
| `records` | `RecordsSpec`; 3 uploads on 1 prompt and 1 dataset, 10 files; 2 diagnoses of 2 runs, allowance 1 or 2, up to 4 failing results of which 3 are looked at, 4 chunks of which 2 are sources, a budget of 6: one run starts at 3 with failures of 2, 3 and 1, the other at 7; 2 runs of 2, 20 or 50 cases, 3 files and 10 sets of evaluators in 12 combinations, 9 policies, three with a negative allowance | consecutive numbers, collisions mean progress; one diagnosis, true evidence, nothing paid twice, overruns need an overlap, best citations, a full prompt; the percentile, safe passes, reasoned blocks; every request ends |
| `dashboard` | `DashboardFairSpec`; 2 overlapping refreshes beside the one of the comparison, 2 clicks per button, 1 failed refresh | what is shown belongs together, no dead end, the cards catch up |

In `submission` a Gemini run of 2 cases leaves 1 of the daily limit of 3, so that a second one
is refused or, when the two overlap, overruns it; a dataset of 3 cases is refused by the case limit. Three requests are the least
where two race for a key while a third repeats it. In `intake` two rows are the least batch in
which one publication is refused and the next succeeds, and the least where an inline call with
limit 1 takes the row of another request. That the outbox drops nothing from longer batches, and
with other limits, is proved.
In `records` the three subsystems write no row in common, so a behaviour picks one of them (`scene`)
and the others rest. Three uploads are the least where two collide and a third, later one must
continue the numbers; two diagnoses of one run race for it, of two runs for the allowance. Samples
of 20 are the least where the 95th percentile is not the greatest latency; at 50 cases one case
is 2 %, so that a drop of exactly the allowance happens. The second failure of the one run does not fit
where the third would, so that going on after it shows; the other run's context is over the budget
without any failure.
In `dashboard` two overlapping refreshes are the least where an older answer overtakes, and two
clicks the least where the second repeats what the first left half-done.
In `stream` one run of one case writes three to five events, with a cancellation among them,
and the connection breaks before, within or after any of them.

Why the bounds are enough to be interesting. Two workers and two dispatcher calls are
the least that duplicate a message and race for it. Two cases are the least with a
checkpoint between attempts and a case after it. One retry already separates an attempt
that may release the run from one that must fail it; the code's three repeat the
first kind. One cancellation collides with each commit of a worker. `cancellation` has no crash and no
dispatcher call that dies: with either it has more than 17 million states. That a queued run stays
deliverable with them too is what `QueuedIsDeliverableAlways` proves for any number. A second crash or Redis fault repeats the first from a state
already reached. `CHECK_DEADLOCK FALSE` everywhere: with the run settled, the messages
consumed and the requests answered, the system has nothing to do.
Symmetry is used only where every property is an invariant, an action property or the step
condition of a refinement whose mapping treats all workers alike.

**Fairness.** `WF` on the steps of each worker (Celery runs a task it has taken, and
no statement waits for ever: the only lock, the claimed row, is held for one insert),
of each accepted request (a thread of the API runs to its end), and of each
dispatcher call (beat calls it every five seconds). No fairness on sending a request,
on crashes, on Redis faults or on the flag's expiry: nothing makes them happen.
Nothing is strong: a worker's step stays enabled once it is.
In `SubmitFairSpec` and `IntakeFairSpec` it is the same: `WF` on the steps of a request that was
sent, and on the beat's call. A request that waits for another one's key waits for a
transaction with one step left, or for the rollback of a dead one. `WF` on the subscriber's
steps in `StreamedFairSpec`: the event loop runs the coroutine, and the browser connects
again. Deaths, refusals and broken connections are bounded and never forced.
`RecordsSpec` has `WF` on the steps of an upload and of a diagnosis once it is sent (a thread of
the API runs to its end; provider calls have a timeout). An insert that waits does so for
a transaction with one step left, or for the rollback of a dead one. `DashboardFairSpec` has `WF` on the
timers, on the API's answers and on their handlers; the user need not click, and nothing makes a
run move.

## 4. Proofs

`EvalPulseProofs` proves, for all values of the constants under `NumCasesAssumption`
(datasets are not empty), `BrokerAssumption`, `WorkerAssumption` and `DispatcherAssumption`
(the bounds are natural numbers), and for any sets of workers, requests and
dispatcher calls:

| Theorem | Inductive invariant | Why it is needed |
|---|---|---|
| `TypeCorrect` | `TypeOK` | inductive as it stands; one lemma per component and variable group |
| `OneOwnerAlways` | `OneOwner` with `TypeOK` | inductive because it speaks of workers in `claim`, who hold the row lock, together with those past it |
| `CompletedIsCompleteAlways` | `LoopInv` | `CompletedIsComplete` says nothing of a loop in progress: `LoopInv` says every case before an owner's position has a result, and that an outcome waiting to be stored belongs to a case without one |
| `ResultsAreKeptAlways` | `LoopInv`, `OneOwner` | an action property: the only step that writes a result finds none, and no other worker can have stored it meanwhile |
| `CancellationIsDurableAlways` | `IntentInv` | adds the requests past their commit and the workers about to write `cancelled` |
| `CollisionsNeedCancellation` | `RaceInv` | while nobody has asked to cancel, whoever is about to insert an event has seen the last one: the owner is the only writer, and a claim inserts under the row lock. So only a cancellation can make a commit of a worker raise |
| `StrandedIsExplainedAlways` | `LeftInv`, `RaceInv` | one owner: when it leaves, the row says so, or the step is a crash or an escape, which needs a cancellation |
| `QueuedIsDeliverableAlways` | `HandlingInv`, `DeliveryInv`, `RaceInv` | a dispatcher that has sent, or a worker that holds the message, must be accounted for before the row says dispatched |
| `StartTimeIsFirstClaimAlways` | the property with `TypeOK` | `StepTellsStory` classifies every step of the system by what it appends to the log (nothing, a claim, progress, a release, a verdict, a request); the theorems on the log need only that |
| `ClaimsAlternateAlways` | `ReleaseInv` | the property speaks of the log alone; the invariant ties it to the status: a queued run was released after each of its claims |
| `OneVerdictAlways` | `VerdictInv` | once a verdict is in the log the status accepts no claim and nobody is left who could write another |
| `FinalOnceUnownedAlways` | `OneOwner` with `StepTellsStory` | an action property: every step that writes the status is a claim of a queued row, the owner's, or a prepared cancellation |
| `AtMostOneLateCallAlways` | `LateInv` | once a late call has begun, the intent is durable and no worker stands between its refresh of the row and a call |
| `TasksAreBounded` | `LoopInv` with a variant | `Fuel` counts the steps a worker may still take for its message: five per case left, and the way out. It is at most `5 * NumCases + 7`, each step of the worker lowers it, and anybody else's step leaves it alone or is the worker's death |
| `ImplementsContractAlways` | the above | each action is one of `Claim`, `Checkpoint`, `Release`, `Settle`, `Abandon`, `RequestCancel`, or a stutter |

Seven more modules prove, under the assumptions their components name (`StreamAssumption`,
`SubmissionAssumption`, `OutboxAssumption`, `IntakeAssumption`, `ImportAssumption`,
`VersionsAssumption`, `ProvidersAssumption`, `DiagnosisAssumption`, `PromptAssumption`,
`ScaleAssumption`, `GateAssumption`, `DashboardAssumption`):

| Theorem | Inductive invariant | Why it is needed |
|---|---|---|
| `ReplayIsExactAlways` (`StreamProofs`) | `StreamInv` | the cursor is the number of events received while a stream is open and selections end within the log; every step of `EvalPulse` leaves the log alone or appends one event (`SystemLogs`), so what was received stays a prefix |
| `StreamedImplementsRun` | none: step by step | a subscriber's step changes no variable of the system, so every theorem of `EvalPulseProofs` holds while a run is watched |
| `OneRunPerKeyAlways` (`IntakeProofs`) | `SubmitInv` = types, `KeysInv`, `AnswersInv`, `RepeatInv` | uniqueness of committed keys is not inductive: a request between its INSERT and its commit owns a key that no run and no other such request has |
| `RaceIsResolvedAlways` | `AnswersInv` | a request that collided has a run to find, because the one it collided with is committed and is never deleted |
| `RepeatIsAnsweredAlways` | `RepeatInv` | a request whose run was there when it was sent does not pass the first select |
| `OverrunNeedsOverlapAlways` | `AllowanceInv` | the property speaks of committed runs; the invariant adds that a request about to insert fits beside what it counted, and counted committed runs only. A commit adds one term to the sum (`SumRemove`) |
| `IntakeImplementsSubmission` | none: step by step | every step of the intake is one of `Submission` or changes nothing of it, so the theorems above hold beside the outbox |
| `NothingIsDroppedAlways` | `DropInv` | what a call has yet to write is already true: it published the rows it will call dispatched, and the runs of those it will discard have left the queue |
| `VersionsTypeOKAlways`, `NumbersAreConsecutiveAlways`, `CollisionMeansProgressAlways` (`VersionsProofs`) | `VersionsInv` = types, `StoredInv`, `CreateInv`, `InsertInv`, `FileInv` | a number that is inserted and not committed follows a committed one, is free, and is no other upload's (`InsertInv`); a prompt being created has no version and no other upload (`CreateInv`); whatever reaches the insert was parsed (`FileInv`) |
| `DiagnosisTypeOKAlways`, `OneDiagnosisPerRunAlways`, `EvidenceStaysTrueAlways`, `StoredCostsNothingAlways`, `LimitOverrunNeedsOverlapAlways`, `PromptIsFullAlways` (`DiagnosisProofs`) | `DiagnosisInv` = types, `DraftInv`, `StoreInv`, `CostInv`, `RoomInv`, `EvidenceInv` | each property is about stored rows, each conjunct about requests on the way to one: what a draft was made from and how far its loop has come, that its run is over for good, that room was found, that no diagnosis was there before it paid |
| `CitationsAreBestMatchesAlways` | `CitesInv` | every draft cites retrieved chunks, some if any was retrieved, and the sources in their order when the model's list has none of them; that there are at most `TopK` sources follows because the last of them has all the others ahead of it |
| `P95IsNearestRankAlways`, `PassedIsSafeAlways`, `BlockedHasReasonAlways` (`GateProofs`) | `GateInv` | a completed run holds one result per group of its cases, each of a call that did not fail it, and the aggregate of exactly these; a verdict is one the policy allows on the two aggregates. From there: counts of cases are sums over groups, which `DataTheorems` splits and compares |
| `P95IndexIsNearestRank`, `NoRegressionPasses`, `BetterCandidatePasses` | none: arithmetic | the index of the percentile for every sample size; with allowances that are not negative a candidate that is as good in every respect passes whatever the floats do; under any policy the verdict is monotone in the candidate |
| `ShownPairIsOneClickAlways`, `NoDeadEndAlways` (`DashboardProofs`) | `WizardInv` | adds what the click under way has created so far, which is what the next answer completes |

`DataTheorems` holds what the models compute over finite sets. `SumFunctionOnSet` is a fold that takes
its elements in the order of a `CHOOSE`, and induction over data is out of the prover's reach. What
is proved instead is that a smallest counterexample would have a smaller one: the natural numbers are
well founded (`NatLessThanWellFounded`), so are the subsets of a finite set
(`FS_StrictSubsetOrderingWellFounded`), and `WFMin` gives a minimal element of any set of
counterexamples. Thus: `Min` and `Max` of sets of numbers exist (`MinNat`, `MaxBounded`); the sums of
all subsets exist (`SumExists`) and agree (`SumsAgree`); any element may be taken out first
(`SumRemove`); a sum splits (`SumSplit`), grows with its set (`SumMonotone`) and vanishes with all its
terms (`SumPositive`).


Those about a specification are laid out the same way: the initial states satisfy the invariant, every action
preserves it (one step per action, under it one per conjunct the action can
disturb), and a last temporal step combines them.

Every safety invariant and action property of the runs is a theorem. Only model-checked are the
liveness properties: `EveryRunEnds`, `WorkersComeBack`, `SubmissionsEnd`, `EveryRunIsPublished`,
`SubscriberCatchesUp`, `StreamsClose`, `RequestsEnd` and `CatchesUp`. Liveness under fairness and
`ENABLED` are out of the prover's reach. `TasksAreBounded` is the half of `WorkersComeBack` that is
a safety property; that a worker which has a step takes it is the fairness. The four properties that
the code violates are refuted by their runs.

## 5. Where documents and code differ

- `strands_on_release` (`engine.py:149`): `docs/operations.md:41` says a caught temporary
  error releases the claim. The handler selects the event sequence and commits outside any
  `try`; a cancellation that takes the number in between makes the commit raise, and the run
  stays `running` with no owner.
- `fails_on_cancel` (`engine.py:151`): `docs/operations.md:44` calls cancellation cooperative.
  One that commits between the select and the commit of a progress event makes the generic
  handler fail the run.
- `cancels_finished` (`api.py:545`): the request refuses a run that is over, but decides on
  the row it loaded, so a verdict written since is overwritten with `cancelled`.
- `lost_queue` (`tasks.py:71`): `docs/architecture.md:22` says loss of Redis only delays work.
  Once the dispatch row says `dispatched`, nothing publishes the run again.

What the models showed besides, where no document says otherwise:

- A run that ends between the two reads of the stream closes it when nothing was selected, so
  its last event is sent only after the client has connected again. `SubscriberCatchesUp`
  holds because `EventSource` does; the HTTP client of a script would have to.
- A key stands for a user and a header alone: a request that repeats a key with another body,
  or for another project, is answered with the earlier run (`api.py:376-382`).
- Of two overlapping requests with one key for Gemini, one may be accepted and the other
  refused with 429 when it passed the first select before, and summed the allowance after,
  the commit. `RepeatIsAnswered` speaks of requests sent after the commit.
- Concurrent requests can overrun the daily allowance by what overlaps. `OverrunNeedsOverlap`
  holds, and `docs/ai-integration.md:60` claims no transactional guarantee.
- An upload that collides on its version number is answered with 500 and nothing retries it;
  `CollisionMeansProgress` says the number is then another's. A CSV row too short to reach the input
  column is a 500 too (`json.loads(None)`), where any other bad row is a 422. Tags in CSV are
  stripped, tags in JSON are not (a row whose input holds a `NaN`, which `json.loads` accepts and
  PostgreSQL refuses, is a 500 at the insert as well and not modelled): `" critical "` counts for the gate in one format only.
- A connection that breaks inside the body of an answer or of an HTTP error, and token counts that
  are null, are neither temporary nor permanent errors: they fail the whole run.
- A broken regular expression fails the case; a broken JSON schema, a number for a list of keys or
  terms, or a latency limit that is no number fails the whole run. So does an explanation of
  more than 500 characters, which PostgreSQL refuses, and a pair of evaluators of one type, unless
  the provider refuses every case.
- A diagnosis that fails has cost one or two calls and does not count against the allowance, which
  sums stored diagnoses. `diagnostics.py:235` speaks of a hard
  prompt budget, but only failures are taken back: the context without any may exceed it (a prompt of
  1,500 characters that `json.dumps` escapes, six for one), and then no failure is sent.
  `PromptIsFull` bounds the prompts that carry one.
- At a drop of exactly the allowance the gate depends on the floats: with 2 %, 6 of 50 after 7 of 50
  is blocked, 48 after 49 passes. A baseline with a p95 of 0 switches the latency check off.
  Nothing refuses a negative allowance (`schemas.py:201`): with a drop of -0.01 a candidate has to pass
  more cases than its baseline, and an equal one is blocked. `BlockedHasReason` says which reason a
  block has under any policy, and that a case or a call came out worse unless an allowance is negative.
- An older refresh may take a card of the page back to an earlier status; it is corrected because
  that starts the interval again. After one of two runs of a click was created and the other
  failed, clicking again creates two more: the first one is evaluated and never shown.
- `Dashboard` leaves out a verdict that a late cancellation overwrites; the page stops polling at the
  first one.

## 6. What is not modelled

- The visibility timeout of Redis redelivers a message that is unacknowledged for an
  hour; a copy of a message can already exist here through the dispatcher, so nothing new
  follows for the run, but the timeout itself is not an action.
- PostgreSQL is always available: an outage in the middle of `execute_run` is one more
  escaped exception. Isolation is READ COMMITTED, PostgreSQL's default.
- `publish_progress` reaches nobody in this repository: no code subscribes to the channel.
- `db.get` returning `None` for a run: nothing deletes runs.
- Runs share no row that an operation on one of them writes, so one run is modelled where
  runs do not compete for a limit.
- The wording of reasons, the payloads of events, sums of tokens and costs, the text of
  explanations except where its length matters.
- The BM25 formula of the retriever, how runbooks are cut into chunks and the text of the query:
  `Diagnosis` takes any scores. What a score is worth is a question of data, not of control.
- Authentication: a signed cookie and a header are checked within one request, nothing is kept
  between requests but the user row, and nothing overlaps.
- Of the page: signing in with its retries, the project step, the AI status, the diagnosis button
  and the proxy route, which passes bytes through. One request each; nothing overlaps them.
- Configuration, migrations and deployment: no state at run time.
- `PROJECT.json` names each component that is left out and why.

## 7. Plan

Every module of the plan is written, in this order: `RunStore`, `Broker`, `Worker`, `CancelApi`,
`Dispatcher`, `EvalPulse`, `RunContract`; `EventStream` and `StreamedRun`; `Submission`, `Outbox` and
`Intake`; `DatasetImport`, `Versions`, `Providers`, `Diagnosis`, `Evaluators`, `ReleaseGate`;
`Dashboard`. What would add most from here:

1. A contract of one dispatch row (published before it is told, discarded only when the run has left
   the queue) that `Dispatcher` and `Outbox` both implement, as refinements.
2. The variant of `TasksAreBounded` for the other processes: a request and a beat end after
   a bounded number of their own steps.
3. The ranking of the retriever from term counts, and the cutting of the runbooks.
4. The sign-in of the page with its retries, and the sessions and CSRF checks of `auth.py`.
