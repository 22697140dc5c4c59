------------------------------- MODULE Worker -------------------------------
(***************************************************************************)
(* The Celery task evaluate_run_task and the function execute_run it calls: *)
(* claim the run, walk the test cases, checkpoint each one, and settle the   *)
(* run or hand it to a later attempt.                                       *)
(*                                                                          *)
(* A step ends where another process can act in between: at a commit, at a   *)
(* select whose value is used by a later statement, at a Redis call and at   *)
(* the provider call.                                                       *)
(***************************************************************************)
EXTENDS RunStore, Broker

CONSTANTS
  Workers,      \* worker processes (two replicas of two in production)
  MaxCrashes    \* bound on the workers killed while they hold a message

ASSUME WorkerAssumption == MaxCrashes \in Nat

VARIABLES
  pc,         \* where each worker is in the task
  goal,       \* what the transaction being prepared will record
  latest,     \* the largest event sequence number add_event selected
  position,   \* index of the case the loop is at
  pending,    \* outcome of the provider call, not committed yet
  retries,    \* request.retries of the message being handled
  held,       \* the message is unacknowledged and Redis still has it
  escaped,    \* history: an exception other than a retry left execute_run
  lateCalls,  \* history: provider calls begun when cancellation was durable
  crashes     \* workers killed so far

workerVars ==
  <<pc, goal, latest, position, pending, retries, held, escaped, lateCalls,
    crashes>>

\* The data of one task; they mean nothing in an idle worker.
taskVars == <<goal, latest, position, pending, retries, held>>

OwningPc == {"start", "top", "flag", "case", "read", "commit", "recover"}
WorkerPc == {"idle", "claim", "handoff", "ack"} \union OwningPc
Goal ==
  {"none", "progress", "cancelled", "completed", "queued"}
    \union FailureReason

WorkerInit ==
  /\ pc = [w \in Workers |-> "idle"]
  /\ goal = [w \in Workers |-> "none"]
  /\ latest = [w \in Workers |-> 0]
  /\ position = [w \in Workers |-> 1]
  /\ pending = [w \in Workers |-> "none"]
  /\ retries = [w \in Workers |-> 0]
  /\ held = [w \in Workers |-> FALSE]
  /\ escaped = FALSE
  /\ lateCalls = 0
  /\ crashes = 0

WorkerTypeOK ==
  /\ pc \in [Workers -> WorkerPc]
  /\ goal \in [Workers -> Goal]
  /\ latest \in [Workers -> Nat]
  /\ position \in [Workers -> Nat]
  /\ pending \in [Workers -> Outcome \union {"none"}]
  /\ retries \in [Workers -> RetryCount]
  /\ held \in [Workers -> BOOLEAN]
  /\ escaped \in BOOLEAN
  /\ lateCalls \in Nat
  /\ crashes \in Nat

\* The worker's claim is committed and it has not settled the run yet.
Owning(w) == pc[w] \in OwningPc
Owned == \E w \in Workers : Owning(w)

Goto(w, label) == pc' = [pc EXCEPT ![w] = label]

\* The worker has decided what to record; it selects the sequence next.
Record(w, g) ==
  /\ goal' = [goal EXCEPT ![w] = g]
  /\ Goto(w, "read")

-----------------------------------------------------------------------------
(***************************************************************************)
(* The claim: a conditional UPDATE, then the run.started event.  The UPDATE *)
(* keeps the row locked until the transaction ends, so another claim waits.  *)
(***************************************************************************)
\* Forgets that a running run has an owner.
ClaimableOrRunning == status \in {"queued", "running"}

\* Forgets that a run that is over stays over.
ClaimableOrOver == status # "running"

\* Refuses a run somebody wants to cancel.
ClaimableUnlessIntent == status = "queued" /\ ~cancelRequested

Claimable == status = "queued"

RowLocked == \E w \in Workers : pc[w] = "claim"

\* Without the coalesce.
OverwrittenStart(now) == now

\* coalesce(started_at, now())
KeptStart(now) == IF startedAt = 0 THEN now ELSE startedAt

\* A free worker gets a message; its UPDATE matches the queued run.
BeginClaim(w, r) ==
  /\ pc[w] = "idle"
  /\ Take(r)
  /\ Claimable
  /\ ~RowLocked
  /\ Goto(w, "claim")
  /\ latest' = [latest EXCEPT ![w] = LatestSequence]
  /\ retries' = [retries EXCEPT ![w] = r]
  /\ held' = [held EXCEPT ![w] = TRUE]
  /\ UNCHANGED <<storeVars, cancelFlag, redisFaults, lost, goal, position,
                 pending, escaped, lateCalls, crashes>>

\* The UPDATE matches no row: the task returns the run's status.
Skip(w, r) ==
  /\ pc[w] = "idle"
  /\ Take(r)
  /\ ~Claimable
  /\ Goto(w, "ack")
  /\ retries' = [retries EXCEPT ![w] = r]
  /\ held' = [held EXCEPT ![w] = TRUE]
  /\ UNCHANGED <<storeVars, cancelFlag, redisFaults, lost, goal, latest,
                 position, pending, escaped, lateCalls, crashes>>

CommitClaim(w) ==
  /\ pc[w] = "claim"
  /\ SequenceFree(latest[w])
  /\ status' = "running"
  /\ startedAt' = KeptStart(NextSequence)
  /\ AppendEvent("run.started")
  /\ Goto(w, "start")
  /\ UNCHANGED <<cancelRequested, finished, reason, aggregate, results,
                 brokerVars, taskVars, escaped, lateCalls, crashes>>

\* The insert is refused and nothing catches the IntegrityError: the claim is
\* rolled back and the task fails.
ClaimCollides(w) ==
  /\ pc[w] = "claim"
  /\ ~SequenceFree(latest[w])
  /\ escaped' = TRUE
  /\ Goto(w, "ack")
  /\ UNCHANGED <<storeVars, brokerVars, taskVars, lateCalls, crashes>>

-----------------------------------------------------------------------------
(***************************************************************************)
(* The loop over the cases of the immutable dataset version.                *)
(***************************************************************************)

\* The inputs are loaded and get_provider returns.
EnterLoop(w) ==
  /\ pc[w] = "start"
  /\ Goto(w, "top")
  /\ UNCHANGED <<storeVars, brokerVars, taskVars, escaped, lateCalls, crashes>>

\* get_provider refuses the run's provider in this process.
ProviderUnavailable(w) ==
  /\ pc[w] = "start"
  /\ Record(w, "unavailable")
  /\ UNCHANGED <<storeVars, brokerVars, latest, position, pending, retries,
                 held, escaped, lateCalls, crashes>>

\* Stops one case early.
InLoopButLast(w) == position[w] < NumCases

InLoop(w) == position[w] <= NumCases

\* Relies on the Redis flag alone.
IntentUnseen == FALSE

\* What the refreshed row says of cancellation.
IntentSeen == cancelRequested

\* The case begins with db.refresh(run), and an intent found there is honoured.
RefreshRun(w) ==
  /\ pc[w] = "top"
  /\ InLoop(w)
  /\ IF IntentSeen
       THEN Record(w, "cancelled")
       ELSE Goto(w, "flag") /\ UNCHANGED goal
  /\ UNCHANGED <<storeVars, brokerVars, latest, position, pending, retries,
                 held, escaped, lateCalls, crashes>>

\* is_cancelled(run.id) finds the key.
SeeFlag(w) ==
  /\ pc[w] = "flag"
  /\ cancelFlag
  /\ Record(w, "cancelled")
  /\ UNCHANGED <<storeVars, brokerVars, latest, position, pending, retries,
                 held, escaped, lateCalls, crashes>>

\* The key is absent, or Redis does not answer and the check says FALSE.
PassFlag(w) ==
  /\ pc[w] = "flag"
  /\ \/ ~cancelFlag /\ UNCHANGED redisFaults
     \/ cancelFlag /\ RedisFault
  /\ Goto(w, "case")
  /\ lateCalls' = IF cancelRequested /\ results[position[w]] = "none"
                    THEN lateCalls + 1 ELSE lateCalls
  /\ UNCHANGED <<storeVars, queue, cancelFlag, lost, taskVars, escaped,
                 crashes>>

\* Evaluates a stored case again.
NeverCheckpointed(w) == FALSE

Checkpointed(w) == results[position[w]] # "none"

\* An earlier attempt stored this case; only the progress event is written.
KeepResult(w) ==
  /\ pc[w] = "case"
  /\ Checkpointed(w)
  /\ Record(w, "progress")
  /\ UNCHANGED <<storeVars, brokerVars, latest, position, pending, retries,
                 held, escaped, lateCalls, crashes>>

\* The provider answers, or refuses the case for good.
Evaluate(w, outcome) ==
  /\ pc[w] = "case"
  /\ ~Checkpointed(w)
  /\ pending' = [pending EXCEPT ![w] = outcome]
  /\ Record(w, "progress")
  /\ UNCHANGED <<storeVars, brokerVars, latest, position, retries, held,
                 escaped, lateCalls, crashes>>

TemporaryError(w) ==
  /\ pc[w] = "case"
  /\ ~Checkpointed(w)
  /\ Goto(w, "recover")
  /\ UNCHANGED <<storeVars, brokerVars, taskVars, escaped, lateCalls, crashes>>

\* Any other exception while the case is evaluated or flushed.
OtherException(w) ==
  /\ pc[w] = "case"
  /\ ~Checkpointed(w)
  /\ Record(w, "exception")
  /\ UNCHANGED <<storeVars, brokerVars, latest, position, pending, retries,
                 held, escaped, lateCalls, crashes>>

\* The loop ran to its end; the aggregate is computed next.
LeaveLoop(w) ==
  /\ pc[w] = "top"
  /\ ~InLoop(w)
  /\ Record(w, "completed")
  /\ UNCHANGED <<storeVars, brokerVars, latest, position, pending, retries,
                 held, escaped, lateCalls, crashes>>

-----------------------------------------------------------------------------
(***************************************************************************)
(* A temporary provider error: roll back, read the row again, and give the  *)
(* run back to the queue or fail it.                                        *)
(***************************************************************************)
RetryAllowed(w) == retries[w] < MaxRetries

\* Gives up on a run somebody wants to cancel.
StillRunningUncancelled == status = "running" /\ ~cancelRequested

StillRunning == status = "running"

Recover(w) ==
  /\ pc[w] = "recover"
  /\ StillRunning
  /\ Record(w, IF RetryAllowed(w) THEN "queued" ELSE "exhausted")
  /\ UNCHANGED <<storeVars, brokerVars, latest, position, pending, retries,
                 held, escaped, lateCalls, crashes>>

\* Somebody else settled the run meanwhile; the task returns its status.
Yield(w) ==
  /\ pc[w] = "recover"
  /\ ~StillRunning
  /\ Goto(w, "ack")
  /\ UNCHANGED <<storeVars, brokerVars, taskVars, escaped, lateCalls, crashes>>

-----------------------------------------------------------------------------
(***************************************************************************)
(* add_event and the commit that follows it.                                *)
(***************************************************************************)
SelectLatest(w) ==
  /\ pc[w] = "read"
  /\ latest' = [latest EXCEPT ![w] = LatestSequence]
  /\ Goto(w, "commit")
  /\ UNCHANGED <<storeVars, brokerVars, goal, position, pending, retries, held,
                 escaped, lateCalls, crashes>>

Committing(w, g) ==
  /\ pc[w] = "commit"
  /\ goal[w] = g
  /\ SequenceFree(latest[w])
  /\ UNCHANGED <<brokerVars, latest, retries, held, escaped, lateCalls,
                 crashes>>

\* The row of this case, if it is new, and its progress event.
StoreResult(w) ==
  IF pending[w] = "none" THEN results
  ELSE [results EXCEPT ![position[w]] = pending[w]]

CommitProgress(w) ==
  /\ Committing(w, "progress")
  /\ results' = StoreResult(w)
  /\ AppendEvent("run.progress")
  /\ position' = [position EXCEPT ![w] = @ + 1]
  /\ pending' = [pending EXCEPT ![w] = "none"]
  /\ Goto(w, "top")
  /\ UNCHANGED <<status, cancelRequested, startedAt, finished, reason,
                 aggregate, goal>>

CommitCancelled(w) ==
  /\ Committing(w, "cancelled")
  /\ status' = "cancelled"
  /\ finished' = TRUE
  /\ AppendEvent("run.cancelled")
  /\ Goto(w, "ack")
  /\ UNCHANGED <<cancelRequested, startedAt, reason, aggregate, results, goal,
                 position, pending>>

\* calculate_aggregate reads the stored results of the run.
CommitCompleted(w) ==
  /\ Committing(w, "completed")
  /\ status' = "completed"
  /\ aggregate' = results
  /\ finished' = TRUE
  /\ AppendEvent("run.completed")
  /\ Goto(w, "ack")
  /\ UNCHANGED <<cancelRequested, startedAt, reason, results, goal, position,
                 pending>>

\* TemporaryProviderError is raised again once the run is back in the queue.
CommitRetry(w) ==
  /\ Committing(w, "queued")
  /\ status' = "queued"
  /\ AppendEvent("run.retrying")
  /\ Goto(w, "handoff")
  /\ UNCHANGED <<cancelRequested, startedAt, finished, reason, aggregate,
                 results, goal, position, pending>>

\* _fail_run
CommitFailure(w) ==
  \E why \in FailureReason :
    /\ Committing(w, why)
    /\ status' = "failed"
    /\ reason' = why
    /\ finished' = TRUE
    /\ AppendEvent("run.failed")
    /\ Goto(w, "ack")
    /\ UNCHANGED <<cancelRequested, startedAt, aggregate, results, goal,
                   position, pending>>

\* The commits inside the try whose last handler fails the run.
Guarded == {"progress", "cancelled"}

\* Commits again with the sequence number that was refused.
CollisionRetried(w) ==
  /\ pc[w] = "commit"
  /\ ~SequenceFree(latest[w])
  /\ goal[w] \in Guarded
  /\ UNCHANGED <<storeVars, brokerVars, workerVars>>

\* The IntegrityError is caught, the transaction rolled back, the run failed.
CollisionCaught(w) ==
  /\ pc[w] = "commit"
  /\ ~SequenceFree(latest[w])
  /\ goal[w] \in Guarded
  /\ pending' = [pending EXCEPT ![w] = "none"]
  /\ Record(w, "collision")
  /\ UNCHANGED <<storeVars, brokerVars, latest, position, retries, held,
                 escaped, lateCalls, crashes>>

\* The IntegrityError leaves execute_run: the task fails and its message is
\* acknowledged, and the row keeps the status it had.
CollisionEscapes(w) ==
  /\ pc[w] = "commit"
  /\ ~SequenceFree(latest[w])
  /\ goal[w] \notin Guarded
  /\ escaped' = TRUE
  /\ Goto(w, "ack")
  /\ UNCHANGED <<storeVars, brokerVars, taskVars, lateCalls, crashes>>

-----------------------------------------------------------------------------
(***************************************************************************)
(* What Celery does around the task.                                        *)
(***************************************************************************)

\* autoretry_for publishes the next attempt before the message is settled.
HandOff(w) ==
  /\ pc[w] = "handoff"
  /\ Publish(retries[w] + 1)
  /\ Goto(w, "ack")
  /\ UNCHANGED <<storeVars, cancelFlag, redisFaults, lost, taskVars, escaped,
                 lateCalls, crashes>>

\* The publication fails: the message is rejected without requeueing it.
HandOffLost(w) ==
  /\ pc[w] = "handoff"
  /\ RedisFault
  /\ lost' = TRUE
  /\ Goto(w, "ack")
  /\ UNCHANGED <<storeVars, queue, cancelFlag, taskVars, escaped, lateCalls,
                 crashes>>

ForgetTask(w) ==
  /\ goal' = [goal EXCEPT ![w] = "none"]
  /\ latest' = [latest EXCEPT ![w] = 0]
  /\ position' = [position EXCEPT ![w] = 1]
  /\ pending' = [pending EXCEPT ![w] = "none"]
  /\ retries' = [retries EXCEPT ![w] = 0]
  /\ held' = [held EXCEPT ![w] = FALSE]

\* task_acks_late: the message is acknowledged when the task has returned.
Ack(w) ==
  /\ pc[w] = "ack"
  /\ Goto(w, "idle")
  /\ ForgetTask(w)
  /\ UNCHANGED <<storeVars, brokerVars, escaped, lateCalls, crashes>>

\* The process is killed: its transaction is rolled back and, with
\* task_reject_on_worker_lost, its message is delivered again.
Crash(w) ==
  /\ pc[w] # "idle"
  /\ crashes < MaxCrashes
  /\ crashes' = crashes + 1
  /\ Goto(w, "idle")
  /\ ForgetTask(w)
  /\ IF held[w] THEN Publish(retries[w]) ELSE UNCHANGED queue
  /\ UNCHANGED <<storeVars, cancelFlag, redisFaults, lost, escaped, lateCalls>>

-----------------------------------------------------------------------------
Receive(w) == \E r \in RetryCount : BeginClaim(w, r) \/ Skip(w, r)
Claim(w) == CommitClaim(w) \/ ClaimCollides(w)
Prepare(w) == EnterLoop(w) \/ ProviderUnavailable(w)
Observe(w) == RefreshRun(w) \/ SeeFlag(w) \/ PassFlag(w) \/ LeaveLoop(w)
Process(w) ==
  \/ KeepResult(w)
  \/ \E outcome \in Outcome : Evaluate(w, outcome)
  \/ TemporaryError(w)
  \/ OtherException(w)
Handle(w) == Recover(w) \/ Yield(w)
Commit(w) ==
  \/ SelectLatest(w)
  \/ CommitProgress(w)
  \/ CommitCancelled(w)
  \/ CommitCompleted(w)
  \/ CommitRetry(w)
  \/ CommitFailure(w)
  \/ CollisionCaught(w)
  \/ CollisionEscapes(w)
Conclude(w) == HandOff(w) \/ HandOffLost(w) \/ Ack(w)

\* Every step of the task; a crash is not one of them.
WorkerStep(w) ==
  \/ Receive(w)
  \/ Claim(w)
  \/ Prepare(w)
  \/ Observe(w)
  \/ Process(w)
  \/ Handle(w)
  \/ Commit(w)
  \/ Conclude(w)

=============================================================================
