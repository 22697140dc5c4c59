------------------------------ MODULE EvalPulse ------------------------------
(***************************************************************************)
(* One evaluation run from the commit that creates it to the end: workers,   *)
(* cancellation requests and dispatcher calls act on the rows of PostgreSQL  *)
(* and on what Redis holds, each at its own pace.                           *)
(***************************************************************************)
EXTENDS Worker, CancelApi, Dispatcher

vars == <<storeVars, brokerVars, workerVars, cancelVars, dispatchVars>>

Init ==
  /\ StoreInit
  /\ BrokerInit
  /\ WorkerInit
  /\ CancelInit
  /\ DispatchInit

\* Redis restarts: waiting and unacknowledged messages and the flag are gone.
LoseRedis ==
  /\ RedisFault
  /\ lost' = TRUE
  /\ queue' = [r \in RetryCount |-> 0]
  /\ cancelFlag' = FALSE
  /\ held' = [w \in Workers |-> FALSE]
  /\ UNCHANGED <<storeVars, pc, goal, latest, position, pending, retries,
                 escaped, lateCalls, crashes, cancelVars, dispatchVars>>

\* The flag outlives its hour.
ExpireFlag ==
  /\ cancelFlag
  /\ cancelFlag' = FALSE
  /\ UNCHANGED <<storeVars, queue, redisFaults, lost, workerVars, cancelVars,
                 dispatchVars>>

\* The UPDATE of a cancellation waits while a claim holds the row.
CancelCommit(c) ==
  /\ UpdatesRow(c) => ~RowLocked
  /\ CommitIntent(c)

Work(w) == WorkerStep(w) /\ UNCHANGED <<cancelVars, dispatchVars>>
Die(w) == Crash(w) /\ UNCHANGED <<cancelVars, dispatchVars>>
Ask(c) == Arrive(c) /\ UNCHANGED <<workerVars, dispatchVars>>
Answer(c) ==
  /\ Reply(c) \/ CancelCommit(c)
  /\ UNCHANGED <<workerVars, dispatchVars>>
Relay(d) == DispatchStep(d) /\ UNCHANGED <<workerVars, cancelVars>>
Drop(d) == Interrupt(d) /\ UNCHANGED <<workerVars, cancelVars>>

Next ==
  \/ \E w \in Workers : Work(w) \/ Die(w)
  \/ \E c \in Requests : Ask(c) \/ Answer(c)
  \/ \E d \in Dispatchers : Relay(d) \/ Drop(d)
  \/ LoseRedis
  \/ ExpireFlag

Spec == Init /\ [][Next]_vars

(***************************************************************************)
(* A worker that can act goes on: Celery runs the task it was given, no      *)
(* statement of it waits for ever.  A request that was accepted runs to its  *)
(* end.  Beat calls the dispatcher again and again.  Nobody has to cancel,   *)
(* and no fault has to happen.                                              *)
(***************************************************************************)
Fairness ==
  /\ \A w \in Workers : WF_vars(Work(w))
  /\ \A c \in Requests : WF_vars(Answer(c))
  /\ \A d \in Dispatchers : WF_vars(Relay(d))

FairSpec == Spec /\ Fairness

-----------------------------------------------------------------------------
TypeOK ==
  /\ StoreTypeOK
  /\ BrokerTypeOK
  /\ WorkerTypeOK
  /\ CancelTypeOK
  /\ DispatchTypeOK

Positions(S) == {n \in DOMAIN events : events[n] \in S}

Engaged(w) == pc[w] \in OwningPc \union {"claim"}

\* However many copies of the message are delivered, at most one worker at a
\* time owns the run or is about to, and the row of an owned run says "running",
\* or "cancelled" when a cancellation decided on a stale "queued" overtook the
\* claim (engine.py:42-58, the conditional UPDATE).
OneOwner ==
  /\ \A v, w \in Workers : Engaged(v) /\ Engaged(w) => v = w
  /\ \A w \in Workers :
       /\ Owning(w) => status \in {"running", "cancelled"}
       /\ pc[w] = "claim" => status = "queued"

\* A run is reported completed only with a result for every case, and its
\* aggregate was computed from the results that are stored now, even after
\* retries that skipped cases (engine.py:93-98, 158-165).
CompletedIsComplete ==
  status = "completed" =>
    /\ \A n \in Cases : results[n] # "none"
    /\ aggregate = results

\* The event log tells one story: no run is ever announced completed and failed,
\* or over twice, whatever overtakes what (engine.py:83-92, 158-167, 204-209).
OneVerdict ==
  \A m, n \in Positions(Verdict) : m = n

\* Two claims of one run are separated by the release of the first
\* (engine.py:42-58 and 147-150; docs/operations.md:42).
ClaimsAlternate ==
  \A m, n \in Positions({"run.started"}) :
    m < n => \E k \in Positions({"run.retrying"}) : m < k /\ k < n

\* started_at is the time of the first claim, whatever attempt is running
\* (the coalesce in engine.py:47; docs/architecture.md:26).
StartTimeIsFirstClaim ==
  LET starts == Positions({"run.started"}) IN
    /\ startedAt = 0 <=> starts = {}
    /\ startedAt # 0 =>
         startedAt \in starts /\ \A n \in starts : startedAt <= n

\* A run is cancelled, and the Redis flag set, only for a user whose intent is
\* already durable: the hint never runs ahead of the row (api.py:545-557).
CancellationIsDurable ==
  /\ cancelFlag => cancelRequested
  /\ status = "cancelled" => cancelRequested
  /\ Positions({"run.cancelled"}) # {} => cancelRequested

\* Once the intent is durable at most one further provider call begins, the one
\* of a worker that had already refreshed its row; a lost flag, a retry or a new
\* owner adds none (engine.py:82-83).
AtMostOneLateCall == lateCalls <= 1

\* A queued run can still reach a worker: its dispatch row is pending, or a
\* message is waiting, or the owner that released it is about to publish one.
\* Redis losing messages, or an exception leaving the task after a cancellation
\* took its sequence number, are the only ways to lose it; a publication refused to
\* the dispatcher, a dispatcher that dies and a killed worker are not
\* (tasks.py:66-91, docs/operations.md:41-43).
QueuedIsDeliverable ==
  status = "queued" =>
    \/ dispatch = "pending"
    \/ \E r \in RetryCount : queue[r] > 0
    \/ \E w \in Workers : pc[w] \in {"claim", "handoff"}
    \/ lost
    \/ escaped /\ cancelRequested

\* A running run without an owner was left by a killed worker or by an exception
\* that escaped execute_run after somebody asked to cancel; no other path abandons
\* it, and no two attempts collide (docs/operations.md:43).
StrandedIsExplained ==
  status = "running" /\ ~Owned => crashes > 0 \/ (escaped /\ cancelRequested)

\* A result, once committed, is neither replaced nor removed by any later
\* attempt (engine.py:93-98; docs/operations.md:41).
ResultsAreKept ==
  [][\A n \in Cases : results[n] # "none" => results'[n] = results[n]]_vars

CancelPrepared == \E c \in Requests : rpc[c] = "selected"

\* A message delivered again leaves a terminal run as it is, and a run that is
\* over and unowned changes only if a cancellation loaded it while it was queued
\* (engine.py:42-58; api.py:542-547; docs/rework-plan.md:81).
FinalOnceUnowned ==
  [][(status \in Terminal /\ ~Owned) =>
       (status' = status \/ (CancelPrepared /\ status' = "cancelled"))]_vars

-----------------------------------------------------------------------------
(***************************************************************************)
(* The system implements the contract of a run.                             *)
(***************************************************************************)
Done == {n \in Cases : results[n] # "none"}

Contract == INSTANCE RunContract WITH
  intent <- cancelRequested, done <- Done, owned <- Owned

\* Every step of the system is a step the contract of a run allows, or changes
\* nothing the contract speaks of (engine.py:34-167, api.py:538-558).
ImplementsContract == Contract!ContractSpec

-----------------------------------------------------------------------------
(***************************************************************************)
(* Liveness.                                                                *)
(***************************************************************************)

\* The row says running and no attempt will ever touch it again.
Stranded == status = "running" /\ ~Owned

\* The row says queued and nothing is left that could deliver the run.
Undeliverable ==
  /\ status = "queued"
  /\ dispatch # "pending"
  /\ \A r \in RetryCount : queue[r] = 0
  /\ \A w \in Workers : pc[w] \notin {"claim", "handoff"}

\* Retries, duplicate deliveries and cancellations come to an end: the run is
\* settled, unless it is stranded or lost in one of the ways StrandedIsExplained
\* and QueuedIsDeliverable name (engine.py:137-150, tasks.py:47-62).
EveryRunEnds == <>(status \in Terminal \/ Stranded \/ Undeliverable)

\* A worker that takes a message is free again after finitely many steps,
\* whatever collides with its commits (engine.py:34-167, tasks.py:47-62).
WorkersComeBack == \A w \in Workers : pc[w] # "idle" ~> pc[w] = "idle"

-----------------------------------------------------------------------------
(***************************************************************************)
(* What the documents or the code say and the code does not do.  Each is     *)
(* refuted by a run of its own.                                             *)
(***************************************************************************)

\* docs/operations.md:41: "A caught temporary provider error releases the
\* current execution claim to `queued` before Celery's backoff retry."  With no
\* fault, a cancellation that takes the sequence number of the release makes the
\* commit in the handler fail, and the run stays "running" (engine.py:147-150).
CaughtErrorReleases ==
  \A w \in Workers : pc[w] = "recover" ~> status # "running"

\* docs/operations.md:44: "Cancellation is cooperative and is observed between
\* provider calls".  A request that commits while a checkpoint is being prepared
\* turns the run into a failed one (engine.py:151-156).
CancellationIsCooperative == reason # "collision"

\* api.py:543: "Cannot cancel a {run.status} run".  The status is the one the
\* request loaded; the row may say completed or failed when it is overwritten.
OverIsNotCancelled ==
  [][(status \in {"completed", "failed"}) => status' # "cancelled"]_vars

\* docs/architecture.md:22: "Loss of Redis can delay active work but cannot
\* remove a completed result."  A queued run whose message was lost after the
\* dispatch row said dispatched waits for ever (tasks.py:69-75).
LossOnlyDelays == status = "queued" ~> status # "queued"

=============================================================================
