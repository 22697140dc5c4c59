--------------------------- MODULE EvalPulseProofs ---------------------------
(***************************************************************************)
(* What holds of a run for every number of cases, workers, requests,         *)
(* dispatcher calls and faults.                                             *)
(***************************************************************************)
EXTENDS EvalPulse, TLAPS

-----------------------------------------------------------------------------
(***************************************************************************)
(* Type correctness.                                                        *)
(***************************************************************************)

\* The literals the actions use are members of the sets the types name.
LEMMA Literals ==
  /\ {"idle", "claim", "start", "top", "flag", "case", "read", "commit",
      "recover", "handoff", "ack"} \subseteq WorkerPc
  /\ {"none", "progress", "cancelled", "completed", "queued", "unavailable",
      "exhausted", "exception", "collision"} \subseteq Goal
  /\ FailureReason \subseteq Goal
  /\ {"queued", "running", "completed", "failed", "cancelled"}
       \subseteq Status
  /\ {"run.queued", "run.started", "run.progress", "run.retrying",
      "run.cancel.requested", "run.completed", "run.failed", "run.cancelled"}
       \subseteq EventType
  /\ NumCases \in Nat /\ NumCases >= 1 /\ MaxRetries \in Nat
BY NumCasesAssumption, BrokerAssumption
   DEF WorkerPc, OwningPc, Goal, FailureReason, Status, Terminal, EventType,
       Verdict

\* One step of a worker keeps the rows of the run in their types.
LEMMA WorkKeepsStore ==
  ASSUME TypeOK, NEW w \in Workers, WorkerStep(w)
  PROVE  StoreTypeOK'
<1> USE Literals DEF TypeOK, StoreTypeOK
<1>1. CASE UNCHANGED storeVars
  BY <1>1 DEF storeVars, Cases
<1>2. CASE CommitClaim(w)
  BY <1>2 DEF CommitClaim, KeptStart, NextSequence, LatestSequence, AppendEvent
<1>3. CASE CommitProgress(w)
  <2>1. results' \in [Cases -> Outcome \union {"none"}]
    BY <1>3 DEF CommitProgress, StoreResult, WorkerTypeOK
  <2> QED
    BY <1>3, <2>1 DEF CommitProgress, AppendEvent
<1>4. CASE CommitCancelled(w)
  BY <1>4 DEF CommitCancelled, AppendEvent
<1>5. CASE CommitCompleted(w)
  BY <1>5 DEF CommitCompleted, AppendEvent
<1>6. CASE CommitRetry(w)
  BY <1>6 DEF CommitRetry, AppendEvent
<1>7. CASE CommitFailure(w)
  BY <1>7 DEF CommitFailure, AppendEvent
<1>8. CASE Receive(w)
  BY <1>1, <1>8 DEF Receive, BeginClaim, Skip
<1>9. CASE ClaimCollides(w) \/ Prepare(w)
  BY <1>1, <1>9 DEF ClaimCollides, Prepare, EnterLoop, ProviderUnavailable
<1>10. CASE Observe(w)
  BY <1>1, <1>10 DEF Observe, RefreshRun, SeeFlag, PassFlag, LeaveLoop
<1>11. CASE Process(w)
  BY <1>1, <1>11
     DEF Process, KeepResult, Evaluate, TemporaryError, OtherException
<1>12. CASE Handle(w)
  BY <1>1, <1>12 DEF Handle, Recover, Yield
<1>13. CASE SelectLatest(w) \/ CollisionCaught(w) \/ CollisionEscapes(w)
  BY <1>1, <1>13 DEF SelectLatest, CollisionCaught, CollisionEscapes
<1>14. CASE Conclude(w)
  BY <1>1, <1>14 DEF Conclude, HandOff, HandOffLost, Ack
<1> QED
  BY <1>2, <1>3, <1>4, <1>5, <1>6, <1>7, <1>8, <1>9, <1>10, <1>11, <1>12,
     <1>13, <1>14
  DEF WorkerStep, Claim, Commit

\* A published message keeps the queue a count of messages for each attempt.
LEMMA PublishTypes ==
  ASSUME BrokerTypeOK, NEW r, Publish(r)
  PROVE  queue' \in [RetryCount -> Nat]
<1>1. queue' = [n \in RetryCount |-> IF n = r THEN queue[n] + 1 ELSE queue[n]]
  BY DEF BrokerTypeOK, Publish
<1> QED
  BY <1>1 DEF BrokerTypeOK

\* One step of a worker keeps what Redis holds in its type.
LEMMA WorkKeepsBroker ==
  ASSUME TypeOK, NEW w \in Workers, WorkerStep(w)
  PROVE  BrokerTypeOK'
<1> USE DEF TypeOK, BrokerTypeOK
<1>1. CASE UNCHANGED brokerVars
  BY <1>1 DEF brokerVars
<1>2. CASE Receive(w)
  BY <1>2 DEF Receive, BeginClaim, Skip, Take, Waiting
<1>3. CASE PassFlag(w)
  BY <1>3 DEF PassFlag, RedisFault
<1>4. CASE HandOff(w)
  BY <1>4, PublishTypes DEF HandOff
<1>5. CASE HandOffLost(w)
  BY <1>5 DEF HandOffLost, RedisFault
<1>6. CASE Ack(w) \/ Claim(w) \/ Prepare(w) \/ Handle(w)
  BY <1>1, <1>6
     DEF Ack, Claim, CommitClaim, ClaimCollides, Prepare, EnterLoop,
         ProviderUnavailable, Handle, Recover, Yield, brokerVars
<1>7. CASE RefreshRun(w) \/ SeeFlag(w) \/ LeaveLoop(w) \/ Process(w)
  BY <1>1, <1>7
     DEF RefreshRun, SeeFlag, LeaveLoop, Process, KeepResult, Evaluate,
         TemporaryError, OtherException
<1>8. CASE Commit(w)
  BY <1>1, <1>8
     DEF Commit, SelectLatest, CommitProgress, CommitCancelled,
         CommitCompleted, CommitRetry, CommitFailure, Committing,
         CollisionCaught, CollisionEscapes
<1> QED
  BY <1>2, <1>3, <1>4, <1>5, <1>6, <1>7, <1>8
  DEF WorkerStep, Observe, Conclude

\* One step of a worker keeps the workers' own state in its type.
LEMMA WorkKeepsWorker ==
  ASSUME TypeOK, NEW w \in Workers, WorkerStep(w)
  PROVE  WorkerTypeOK'
<1> USE Literals
    DEF TypeOK, WorkerTypeOK, taskVars, workerVars, Goto, Record
<1>0. LatestSequence \in Nat
  BY DEF LatestSequence, StoreTypeOK
<1>1. CASE Receive(w)
  <2>1. PICK r \in RetryCount : BeginClaim(w, r) \/ Skip(w, r)
    BY <1>1 DEF Receive
  <2>2. CASE BeginClaim(w, r)
    BY <1>0, <2>2 DEF BeginClaim
  <2>3. CASE Skip(w, r)
    BY <2>3 DEF Skip
  <2> QED
    BY <2>1, <2>2, <2>3
<1>2. CASE Claim(w)
  BY <1>2 DEF Claim, CommitClaim, ClaimCollides
<1>3. CASE Prepare(w)
  BY <1>3 DEF Prepare, EnterLoop, ProviderUnavailable
<1>4. CASE RefreshRun(w) \/ SeeFlag(w) \/ LeaveLoop(w)
  BY <1>4 DEF RefreshRun, SeeFlag, LeaveLoop
<1>5. CASE PassFlag(w)
  BY <1>5 DEF PassFlag
<1>6. CASE Process(w)
  BY <1>6 DEF Process, KeepResult, Evaluate, TemporaryError, OtherException
<1>7. CASE Handle(w)
  BY <1>7 DEF Handle, Recover, Yield
<1>8. CASE SelectLatest(w)
  BY <1>0, <1>8 DEF SelectLatest
<1>9. CASE CommitProgress(w)
  BY <1>9 DEF CommitProgress, Committing
<1>10. CASE CommitCancelled(w) \/ CommitCompleted(w) \/ CommitRetry(w)
  BY <1>10 DEF CommitCancelled, CommitCompleted, CommitRetry, Committing
<1>11. CASE CommitFailure(w)
  BY <1>11 DEF CommitFailure, Committing
<1>12. CASE CollisionCaught(w) \/ CollisionEscapes(w)
  BY <1>12 DEF CollisionCaught, CollisionEscapes
<1>13. CASE HandOff(w) \/ HandOffLost(w)
  BY <1>13 DEF HandOff, HandOffLost
<1>14. CASE Ack(w)
  BY <1>14 DEF Ack, ForgetTask, RetryCount
<1> QED
  BY <1>1, <1>2, <1>3, <1>4, <1>5, <1>6, <1>7, <1>8, <1>9, <1>10, <1>11,
     <1>12, <1>13, <1>14
  DEF WorkerStep, Observe, Commit, Conclude

\* A request only touches the rows and the flag, in their types.
LEMMA RequestTypes ==
  ASSUME TypeOK, NEW c \in Requests,
         Arrive(c) \/ Reply(c) \/ CommitIntent(c)
  PROVE  StoreTypeOK' /\ BrokerTypeOK' /\ CancelTypeOK'
<1> USE Literals
    DEF TypeOK, CancelTypeOK, Advance, RequestPc, storeVars, brokerVars
<1>0. LatestSequence \in Nat
  BY DEF LatestSequence, StoreTypeOK
<1>1. ASSUME UNCHANGED storeVars, UNCHANGED brokerVars
      PROVE  StoreTypeOK' /\ BrokerTypeOK'
  BY <1>1 DEF StoreTypeOK, BrokerTypeOK, Cases
<1>2. CASE LoadRun(c)
  <2>1. status \in Status /\ cancelRequested \in BOOLEAN
    BY DEF StoreTypeOK
  <2>2. CancelTypeOK'
    BY <1>2, <2>1 DEF LoadRun
  <2> QED
    BY <1>1, <1>2, <2>2 DEF LoadRun
<1>3. CASE Refuse(c)
  BY <1>3 DEF Refuse, StoreTypeOK, BrokerTypeOK, Cases
<1>4. CASE SelectSequence(c)
  BY <1>0, <1>4 DEF SelectSequence, StoreTypeOK, BrokerTypeOK, Cases
<1>5. CASE IntentCollides(c)
  BY <1>5 DEF IntentCollides, StoreTypeOK, BrokerTypeOK, Cases
<1>6. CASE SetFlag(c)
  BY <1>6 DEF SetFlag, StoreTypeOK, BrokerTypeOK, Cases
<1>7. CASE FlagSuppressed(c)
  BY <1>7 DEF FlagSuppressed, RedisFault, StoreTypeOK, BrokerTypeOK, Cases
<1>8. CASE CommitIntent(c)
  <2>1. CancelTypeOK' /\ BrokerTypeOK'
    BY <1>8 DEF CommitIntent, BrokerTypeOK
  <2>2. cancelRequested' \in BOOLEAN
    BY <1>8 DEF CommitIntent
  <2>3. status' \in Status /\ finished' \in BOOLEAN
    BY <1>8 DEF CommitIntent, StoreTypeOK
  <2>4. events' \in Seq(EventType)
    BY <1>8 DEF CommitIntent, StoreTypeOK, AppendEvent
  <2>5. UNCHANGED <<startedAt, reason, aggregate, results>>
    BY <1>8 DEF CommitIntent
  <2>6. StoreTypeOK'
    BY <2>2, <2>3, <2>4, <2>5 DEF StoreTypeOK, Cases
  <2> QED
    BY <2>1, <2>6
<1> QED
  BY <1>2, <1>3, <1>4, <1>5, <1>6, <1>7, <1>8 DEF Arrive, Reply

\* A call of the dispatcher publishes and moves its row within the types.
LEMMA DispatchTypes ==
  ASSUME TypeOK, NEW d \in Dispatchers, DispatchStep(d) \/ Interrupt(d)
  PROVE  StoreTypeOK' /\ BrokerTypeOK' /\ DispatchTypeOK'
<1> USE DEF TypeOK, StoreTypeOK, DispatchTypeOK, Move, DispatchState,
      DispatcherPc, storeVars, brokerVars, Cases
<1>1. CASE PickUp(d) \/ Check(d)
  BY <1>1 DEF PickUp, Check, BrokerTypeOK
<1>2. CASE Send(d)
  BY <1>2, PublishTypes DEF Send, BrokerTypeOK
<1>3. CASE SendFails(d)
  BY <1>3 DEF SendFails, RedisFault, BrokerTypeOK
<1>4. CASE Save(d)
  BY <1>4 DEF Save, DispatchOutcome, BrokerTypeOK
<1>5. CASE Interrupt(d)
  BY <1>5 DEF Interrupt, BrokerTypeOK
<1> QED
  BY <1>1, <1>2, <1>3, <1>4, <1>5 DEF DispatchStep

\* A killed worker leaves everything in its type.
LEMMA CrashTypes ==
  ASSUME TypeOK, NEW w \in Workers, Crash(w)
  PROVE  StoreTypeOK' /\ BrokerTypeOK' /\ WorkerTypeOK'
<1>1. StoreTypeOK'
  BY DEF TypeOK, StoreTypeOK, Crash, storeVars, Cases
<1>2. BrokerTypeOK'
  BY PublishTypes DEF TypeOK, BrokerTypeOK, Crash
<1>3. WorkerTypeOK'
  BY Literals
  DEF TypeOK, WorkerTypeOK, Crash, Goto, ForgetTask, RetryCount
<1> QED
  BY <1>1, <1>2, <1>3

\* The rows create_run commits, and idle processes, have their types.
LEMMA TypeInit == Init => TypeOK
<1> USE Literals DEF Init, TypeOK
<1>1. StoreInit => StoreTypeOK
  <2> SUFFICES ASSUME StoreInit PROVE StoreTypeOK
    OBVIOUS
  <2>1. cancelRequested \in BOOLEAN /\ finished \in BOOLEAN
    BY DEF StoreInit
  <2>2. results \in [Cases -> Outcome \union {"none"}] /\ startedAt \in Nat
    BY DEF StoreInit
  <2>3. events \in Seq(EventType) /\ status \in Status
    BY DEF StoreInit
  <2>4. /\ reason \in FailureReason \union {"none"}
        /\ aggregate \in {NoAggregate} \union [Cases -> Outcome \union {"none"}]
    BY DEF StoreInit
  <2> QED
    BY <2>1, <2>2, <2>3, <2>4 DEF StoreTypeOK
<1>2. BrokerInit => BrokerTypeOK
  <2> SUFFICES ASSUME BrokerInit PROVE BrokerTypeOK
    OBVIOUS
  <2>1. cancelFlag \in BOOLEAN /\ lost \in BOOLEAN
    BY DEF BrokerInit
  <2>2. queue \in [RetryCount -> Nat] /\ redisFaults \in Nat
    BY DEF BrokerInit
  <2> QED
    BY <2>1, <2>2 DEF BrokerTypeOK
<1>3. WorkerInit => WorkerTypeOK
  <2> SUFFICES ASSUME WorkerInit PROVE WorkerTypeOK
    OBVIOUS
  <2>1. held \in [Workers -> BOOLEAN] /\ escaped \in BOOLEAN
    BY DEF WorkerInit
  <2>2. pc \in [Workers -> WorkerPc] /\ goal \in [Workers -> Goal]
    BY DEF WorkerInit
  <2>3. /\ latest \in [Workers -> Nat] /\ position \in [Workers -> Nat]
        /\ retries \in [Workers -> RetryCount]
        /\ lateCalls \in Nat /\ crashes \in Nat
    BY DEF WorkerInit, RetryCount
  <2>4. pending \in [Workers -> Outcome \union {"none"}]
    BY DEF WorkerInit
  <2> QED
    BY <2>1, <2>2, <2>3, <2>4 DEF WorkerTypeOK
<1>4. CancelInit => CancelTypeOK
  BY DEF CancelInit, CancelTypeOK, RequestPc
<1>5. DispatchInit => DispatchTypeOK
  BY DEF DispatchInit, DispatchTypeOK, DispatchState, DispatcherPc
<1> QED
  BY <1>1, <1>2, <1>3, <1>4, <1>5

\* No step of any process leaves the types.
LEMMA TypeStep == TypeOK /\ [Next]_vars => TypeOK'
<1> SUFFICES ASSUME TypeOK, [Next]_vars PROVE TypeOK'
  OBVIOUS
<1>1. ASSUME NEW w \in Workers, Work(w) PROVE TypeOK'
  <2>1. StoreTypeOK' /\ BrokerTypeOK' /\ WorkerTypeOK'
    BY <1>1, WorkKeepsStore, WorkKeepsBroker, WorkKeepsWorker DEF Work
  <2>2. CancelTypeOK' /\ DispatchTypeOK'
    BY <1>1
    DEF Work, cancelVars, dispatchVars, TypeOK, CancelTypeOK, DispatchTypeOK
  <2> QED
    BY <2>1, <2>2 DEF TypeOK
<1>2. ASSUME NEW w \in Workers, Die(w) PROVE TypeOK'
  <2>1. CancelTypeOK' /\ DispatchTypeOK'
    BY <1>2
    DEF Die, cancelVars, dispatchVars, TypeOK, CancelTypeOK, DispatchTypeOK
  <2> QED
    BY <1>2, <2>1, CrashTypes DEF Die, TypeOK
<1>3. ASSUME NEW c \in Requests, Ask(c) \/ Answer(c) PROVE TypeOK'
  <2>1. WorkerTypeOK' /\ DispatchTypeOK'
    BY <1>3
    DEF Ask, Answer, workerVars, dispatchVars, TypeOK, WorkerTypeOK,
        DispatchTypeOK
  <2> QED
    BY <1>3, <2>1, RequestTypes DEF Ask, Answer, CancelCommit, TypeOK
<1>4. ASSUME NEW d \in Dispatchers, Relay(d) \/ Drop(d) PROVE TypeOK'
  <2>1. WorkerTypeOK' /\ CancelTypeOK'
    BY <1>4
    DEF Relay, Drop, workerVars, cancelVars, TypeOK, WorkerTypeOK,
        CancelTypeOK
  <2> QED
    BY <1>4, <2>1, DispatchTypes DEF Relay, Drop, TypeOK
<1>5. CASE LoseRedis
  <2>1. BrokerTypeOK'
    <3>1. cancelFlag' \in BOOLEAN /\ lost' \in BOOLEAN
      BY <1>5 DEF LoseRedis
    <3>2. queue' \in [RetryCount -> Nat] /\ redisFaults' \in Nat
      BY <1>5 DEF LoseRedis, RedisFault, TypeOK, BrokerTypeOK
    <3> QED
      BY <3>1, <3>2 DEF BrokerTypeOK
  <2>2. StoreTypeOK' /\ WorkerTypeOK'
    BY <1>5
    DEF LoseRedis, storeVars, TypeOK, StoreTypeOK, WorkerTypeOK, Cases
  <2>3. CancelTypeOK' /\ DispatchTypeOK'
    BY <1>5
    DEF LoseRedis, cancelVars, dispatchVars, TypeOK, CancelTypeOK,
        DispatchTypeOK
  <2> QED
    BY <2>1, <2>2, <2>3 DEF TypeOK
<1>6. CASE ExpireFlag \/ UNCHANGED vars
  BY <1>6
  DEF ExpireFlag, vars, storeVars, brokerVars, workerVars, cancelVars,
      dispatchVars, TypeOK, StoreTypeOK, BrokerTypeOK, WorkerTypeOK,
      CancelTypeOK, DispatchTypeOK, Cases
<1> QED
  BY <1>1, <1>2, <1>3, <1>4, <1>5, <1>6 DEF Next

\* Every variable stays in its type, for any number of cases, workers, requests,
\* dispatcher calls and faults.
THEOREM TypeCorrect == Spec => []TypeOK
BY TypeInit, TypeStep, PTL DEF Spec

-----------------------------------------------------------------------------
(***************************************************************************)
(* The inductive invariants.  OneOwner is inductive by itself; the others    *)
(* need what follows.                                                       *)
(***************************************************************************)

Preparing(w, g) == pc[w] \in {"read", "commit"} /\ goal[w] = g

\* How far the worker has come, and what it is about to store.
LoopOk(w) ==
  /\ position[w] \in 1 .. NumCases + 1
  /\ pc[w] \in {"idle", "claim", "start"} => position[w] = 1
  /\ pc[w] \in {"flag", "case"} => position[w] <= NumCases
  /\ Owning(w) => \A n \in Cases : n < position[w] => results[n] # "none"
  /\ Preparing(w, "completed") => position[w] > NumCases
  /\ Preparing(w, "progress") =>
       /\ position[w] <= NumCases
       /\ pending[w] # "none" \/ results[position[w]] # "none"
  /\ pending[w] # "none" =>
       Preparing(w, "progress") /\ results[position[w]] = "none"

LoopInv == \A w \in Workers : LoopOk(w)

\* Whoever is about to say cancelled has seen a durable intent.
IntentInv ==
  /\ \A w \in Workers : goal[w] = "cancelled" => cancelRequested
  /\ \A c \in Requests : rpc[c] = "flagging" => cancelRequested

\* As long as nobody asks to cancel, whoever is about to insert an event has seen
\* the last one.
RaceInv ==
  ~cancelRequested =>
    /\ ~escaped /\ reason # "collision"
    /\ \A w \in Workers :
         /\ goal[w] # "collision"
         /\ pc[w] \in {"claim", "commit"} => latest[w] = LatestSequence

\* A run that is running and has no owner was left by somebody.
LeftInv == status = "running" /\ ~Owned => crashes > 0 \/ escaped

\* A message stays unacknowledged while it is handled, and a run goes back to
\* the queue only for an attempt the budget allows.
HandlingInv ==
  \A w \in Workers :
    /\ pc[w] # "idle" => held[w] \/ lost
    /\ pc[w] = "handoff" => retries[w] < MaxRetries
    /\ Preparing(w, "queued") => retries[w] < MaxRetries

\* Something other than the dispatch row will still bring the run to a worker,
\* or it was lost in a way that is known.
Delivered ==
  \/ \E r \in RetryCount : queue[r] > 0
  \/ \E w \in Workers : pc[w] \in {"claim", "handoff"}
  \/ lost
  \/ escaped

\* No dispatcher call is about to take a queued run's row away.
Untouched ==
  /\ dispatch = "pending"
  /\ \A d \in Dispatchers : dpc[d] \notin {"sent", "discard"}

\* The dispatch row is given up only when the run can do without it.
DeliveryInv == status = "queued" => Delivered \/ Untouched

-----------------------------------------------------------------------------
(***************************************************************************)
(* One owner.                                                               *)
(***************************************************************************)

\* At first nobody owns the run.
LEMMA OwnerInit == Init => OneOwner
BY DEF Init, WorkerInit, OneOwner, Engaged, Owning, OwningPc

\* No step of a worker gives the run a second owner: a claim starts from a
\* queued row that nobody holds, and every other step keeps or gives up what the
\* worker has.
LEMMA WorkKeepsOwner ==
  ASSUME TypeOK, OneOwner, NEW w \in Workers, WorkerStep(w)
  PROVE  OneOwner'
<1> USE DEF OneOwner, Engaged, Owning, OwningPc, Goto, Record
<1>0. pc \in [Workers -> WorkerPc]
  BY DEF TypeOK, WorkerTypeOK
<1>1. CASE Receive(w)
  <2>1. CASE \E r \in RetryCount : BeginClaim(w, r)
    BY <1>0, <2>1 DEF BeginClaim, Claimable, RowLocked, storeVars
  <2>2. CASE \E r \in RetryCount : Skip(w, r)
    BY <1>0, <2>2 DEF Skip, storeVars
  <2> QED
    BY <1>1, <2>1, <2>2 DEF Receive
<1>2. CASE Claim(w)
  BY <1>0, <1>2 DEF Claim, CommitClaim, ClaimCollides, storeVars
<1>3. CASE Prepare(w)
  BY <1>0, <1>3 DEF Prepare, EnterLoop, ProviderUnavailable, storeVars
<1>4. CASE Observe(w)
  BY <1>0, <1>4
  DEF Observe, RefreshRun, SeeFlag, PassFlag, LeaveLoop, storeVars
<1>5. CASE Process(w)
  BY <1>0, <1>5
  DEF Process, KeepResult, Evaluate, TemporaryError, OtherException, storeVars
<1>6. CASE Handle(w)
  BY <1>0, <1>6 DEF Handle, Recover, Yield, storeVars
<1>7. CASE SelectLatest(w) \/ CommitProgress(w)
  BY <1>0, <1>7 DEF SelectLatest, CommitProgress, Committing, storeVars
<1>8. CASE CommitCancelled(w) \/ CommitCompleted(w) \/ CommitRetry(w)
  BY <1>0, <1>8 DEF CommitCancelled, CommitCompleted, CommitRetry, Committing
<1>9. CASE CommitFailure(w)
  BY <1>0, <1>9 DEF CommitFailure, Committing
<1>10. CASE CollisionCaught(w) \/ CollisionEscapes(w)
  BY <1>0, <1>10 DEF CollisionCaught, CollisionEscapes, storeVars
<1>11. CASE Conclude(w)
  BY <1>0, <1>11 DEF Conclude, HandOff, HandOffLost, Ack, storeVars
<1> QED
  BY <1>1, <1>2, <1>3, <1>4, <1>5, <1>6, <1>7, <1>8, <1>9, <1>10, <1>11
  DEF WorkerStep, Commit

\* A cancellation that writes the status waits for a claim to end.
LEMMA CancelKeepsOwner ==
  ASSUME OneOwner, NEW c \in Requests, Arrive(c) \/ Reply(c) \/ CancelCommit(c),
         UNCHANGED workerVars
  PROVE  OneOwner'
<1> USE DEF OneOwner, Engaged, Owning, OwningPc, workerVars, storeVars
<1>1. CASE CancelCommit(c)
  BY <1>1 DEF CancelCommit, CommitIntent, UpdatesRow, CancelsNow, RowLocked
<1>2. CASE Arrive(c) \/ Reply(c)
  BY <1>2
  DEF Arrive, LoadRun, Refuse, Reply, SelectSequence, IntentCollides, SetFlag,
      FlagSuppressed
<1> QED
  BY <1>1, <1>2

\* No step makes a second owner or takes the row from the one there is.
LEMMA OwnerStep == TypeOK /\ OneOwner /\ [Next]_vars => OneOwner'
<1> SUFFICES ASSUME TypeOK, OneOwner, [Next]_vars PROVE OneOwner'
  OBVIOUS
<1> USE DEF OneOwner, Engaged, Owning, OwningPc, storeVars, workerVars
<1>1. ASSUME NEW w \in Workers, Work(w) PROVE OneOwner'
  BY <1>1, WorkKeepsOwner DEF Work
<1>2. ASSUME NEW w \in Workers, Die(w) PROVE OneOwner'
  BY <1>2 DEF Die, Crash, Goto, TypeOK, WorkerTypeOK
<1>3. ASSUME NEW c \in Requests, Ask(c) \/ Answer(c) PROVE OneOwner'
  BY <1>3, CancelKeepsOwner DEF Ask, Answer
<1>4. ASSUME NEW d \in Dispatchers, Relay(d) \/ Drop(d) PROVE OneOwner'
  BY <1>4
  DEF Relay, Drop, DispatchStep, PickUp, Check, Send, SendFails, Save,
      Interrupt
<1>5. CASE LoseRedis \/ ExpireFlag \/ UNCHANGED vars
  BY <1>5 DEF LoseRedis, ExpireFlag, vars
<1> QED
  BY <1>1, <1>2, <1>3, <1>4, <1>5 DEF Next

\* However many messages, workers and cancellations there are, the run has at
\* most one owner, and an owned run is not queued, completed or failed.
THEOREM OneOwnerAlways == Spec => []OneOwner
BY TypeInit, TypeStep, OwnerInit, OwnerStep, PTL DEF Spec

-----------------------------------------------------------------------------
(***************************************************************************)
(* The loop: nothing is completed before every case has a result.           *)
(***************************************************************************)

\* At first no worker is in the loop.
LEMMA LoopInit == Init => LoopInv
BY NumCasesAssumption
DEF Init, WorkerInit, LoopInv, LoopOk, Owning, OwningPc, Preparing, Cases

\* A worker moves no other worker.
LEMMA WorkFrame ==
  ASSUME TypeOK, NEW w \in Workers, WorkerStep(w),
         NEW v \in Workers, v # w
  PROVE  /\ pc'[v] = pc[v]
         /\ goal'[v] = goal[v]
         /\ position'[v] = position[v]
         /\ pending'[v] = pending[v]
         /\ retries'[v] = retries[v]
         /\ held'[v] = held[v]
         /\ latest'[v] = latest[v]
<1> USE DEF TypeOK, WorkerTypeOK, taskVars, Goto, Record
<1>1. CASE Receive(w)
  BY <1>1 DEF Receive, BeginClaim, Skip
<1>2. CASE Claim(w) \/ Prepare(w)
  BY <1>2
  DEF Claim, CommitClaim, ClaimCollides, Prepare, EnterLoop,
      ProviderUnavailable
<1>3. CASE Observe(w)
  BY <1>3 DEF Observe, RefreshRun, SeeFlag, PassFlag, LeaveLoop
<1>4. CASE Process(w)
  BY <1>4
  DEF Process, KeepResult, Evaluate, TemporaryError, OtherException
<1>5. CASE Handle(w)
  BY <1>5 DEF Handle, Recover, Yield
<1>6. CASE Commit(w)
  BY <1>6
  DEF Commit, SelectLatest, CommitProgress, CommitCancelled, CommitCompleted,
      CommitRetry, CommitFailure, Committing, CollisionCaught,
      CollisionEscapes
<1>7. CASE Conclude(w)
  BY <1>7 DEF Conclude, HandOff, HandOffLost, Ack, ForgetTask
<1> QED
  BY <1>1, <1>2, <1>3, <1>4, <1>5, <1>6, <1>7 DEF WorkerStep

\* Only the commit of a checkpoint writes a result.
LEMMA WorkResults ==
  ASSUME NEW w \in Workers, WorkerStep(w)
  PROVE  results' = results \/ CommitProgress(w)
<1> USE DEF storeVars
<1>1. CASE Receive(w) \/ Claim(w) \/ Prepare(w)
  BY <1>1
  DEF Receive, BeginClaim, Skip, Claim, CommitClaim, ClaimCollides, Prepare,
      EnterLoop, ProviderUnavailable
<1>2. CASE Observe(w) \/ Process(w) \/ Handle(w)
  BY <1>2
  DEF Observe, RefreshRun, SeeFlag, PassFlag, LeaveLoop, Process, KeepResult,
      Evaluate, TemporaryError, OtherException, Handle, Recover, Yield
<1>3. CASE Commit(w)
  BY <1>3
  DEF Commit, SelectLatest, CommitCancelled, CommitCompleted, CommitRetry,
      CommitFailure, CollisionCaught, CollisionEscapes
<1>4. CASE Conclude(w)
  BY <1>4 DEF Conclude, HandOff, HandOffLost, Ack
<1> QED
  BY <1>1, <1>2, <1>3, <1>4 DEF WorkerStep

\* A step of a worker keeps what the loop has done in step with the results.
LEMMA WorkKeepsLoop ==
  ASSUME TypeOK, OneOwner, LoopInv, NEW w \in Workers, WorkerStep(w)
  PROVE  LoopInv'
<1> USE NumCasesAssumption
    DEF LoopOk, Owning, OwningPc, Preparing, Cases, TypeOK, WorkerTypeOK,
        Goto, Record, taskVars
<1>0. LoopOk(w)
  BY DEF LoopInv
<1>1. ASSUME NEW v \in Workers, v # w PROVE LoopOk(v)'
  <2>1. LoopOk(v)
    BY DEF LoopInv
  <2>2. CASE results' = results
    BY <1>1, <2>1, <2>2, WorkFrame
  <2>3. CASE CommitProgress(w)
    <3>1. ~Owning(v)
      BY <1>1, <2>3 DEF CommitProgress, Committing, OneOwner, Engaged
    <3> QED
      BY <1>1, <2>1, <3>1, WorkFrame
  <2> QED
    BY <2>2, <2>3, WorkResults
<1>2. LoopOk(w)'
  <2>1. CASE Receive(w)
    BY <1>0, <2>1 DEF Receive, BeginClaim, Skip, storeVars
  <2>2. CASE Claim(w)
    BY <1>0, <2>2 DEF Claim, CommitClaim, ClaimCollides, storeVars
  <2>3. CASE Prepare(w)
    BY <1>0, <2>3 DEF Prepare, EnterLoop, ProviderUnavailable, storeVars
  <2>4. CASE Observe(w)
    BY <1>0, <2>4
    DEF Observe, RefreshRun, SeeFlag, PassFlag, LeaveLoop, InLoop, storeVars
  <2>5. CASE KeepResult(w) \/ TemporaryError(w) \/ OtherException(w)
    BY <1>0, <2>5
    DEF KeepResult, Checkpointed, TemporaryError, OtherException, storeVars
  <2>6. ASSUME NEW o \in Outcome, Evaluate(w, o) PROVE LoopOk(w)'
    BY <1>0, <2>6 DEF Evaluate, Checkpointed, Outcome, storeVars
  <2>7. CASE Handle(w)
    BY <1>0, <2>7 DEF Handle, Recover, Yield, storeVars
  <2>8. CASE SelectLatest(w)
    BY <1>0, <2>8 DEF SelectLatest, storeVars
  <2>9. CASE CommitProgress(w)
    <3>1. /\ pc'[w] = "top" /\ pending'[w] = "none"
          /\ position'[w] = position[w] + 1
      BY <2>9 DEF CommitProgress, Committing
    <3>2. ASSUME NEW n \in Cases, n < position'[w]
          PROVE  results'[n] # "none"
      BY <1>0, <2>9, <3>1, <3>2
      DEF CommitProgress, Committing, StoreResult, StoreTypeOK
    <3>3. position'[w] \in 1 .. NumCases + 1
      <4>1. Preparing(w, "progress")
        BY <2>9 DEF CommitProgress, Committing, Preparing
      <4>2. position[w] \in 1 .. NumCases + 1 /\ position[w] <= NumCases
        BY <4>1 DEF LoopInv, LoopOk
      <4> QED
        BY <3>1, <4>2, NumCasesAssumption
    <3> QED
      BY <1>0, <3>1, <3>2, <3>3
  <2>10. CASE CommitCancelled(w) \/ CommitCompleted(w) \/ CommitRetry(w)
    BY <1>0, <2>10
    DEF CommitCancelled, CommitCompleted, CommitRetry, Committing
  <2>11. CASE CommitFailure(w)
    BY <1>0, <2>11 DEF CommitFailure, Committing, FailureReason
  <2>12. CASE CollisionCaught(w) \/ CollisionEscapes(w)
    BY <1>0, <2>12 DEF CollisionCaught, CollisionEscapes, Guarded, storeVars
  <2>13. CASE Conclude(w)
    BY <1>0, <2>13
    DEF Conclude, HandOff, HandOffLost, Ack, ForgetTask, storeVars
  <2> QED
    BY <2>1, <2>2, <2>3, <2>4, <2>5, <2>6, <2>7, <2>8, <2>9, <2>10, <2>11,
       <2>12, <2>13
    DEF WorkerStep, Process, Commit
<1> QED
  BY <1>1, <1>2 DEF LoopInv

\* Requests, dispatcher calls and Redis touch neither the workers' place in the
\* loop nor the results.
LEMMA OthersKeepLoop ==
  ASSUME TypeOK, NEW v \in Workers,
         \/ \E w \in Workers : Die(w) /\ w # v
         \/ \E c \in Requests : Ask(c) \/ Answer(c)
         \/ \E d \in Dispatchers : Relay(d) \/ Drop(d)
         \/ LoseRedis
         \/ ExpireFlag
         \/ UNCHANGED vars
  PROVE  /\ pc'[v] = pc[v]
         /\ goal'[v] = goal[v]
         /\ position'[v] = position[v]
         /\ pending'[v] = pending[v]
         /\ results' = results
         /\ aggregate' = aggregate
<1> USE DEF storeVars, workerVars
<1>1. CASE \E w \in Workers : Die(w) /\ w # v
  BY <1>1 DEF Die, Crash, Goto, ForgetTask, TypeOK, WorkerTypeOK
<1>2. CASE \E c \in Requests : Ask(c) \/ Answer(c)
  BY <1>2
  DEF Ask, Arrive, LoadRun, Refuse, Answer, Reply, SelectSequence,
      IntentCollides, SetFlag, FlagSuppressed, CancelCommit, CommitIntent
<1>3. CASE \E d \in Dispatchers : Relay(d) \/ Drop(d)
  BY <1>3
  DEF Relay, Drop, DispatchStep, PickUp, Check, Send, SendFails, Save,
      Interrupt
<1>4. CASE LoseRedis \/ ExpireFlag \/ UNCHANGED vars
  BY <1>4 DEF LoseRedis, ExpireFlag, vars
<1> QED
  BY <1>1, <1>2, <1>3, <1>4

\* No step puts a worker ahead of the results it has stored.
LEMMA LoopStep == TypeOK /\ OneOwner /\ LoopInv /\ [Next]_vars => LoopInv'
<1> SUFFICES ASSUME TypeOK, OneOwner, LoopInv, [Next]_vars PROVE LoopInv'
  OBVIOUS
<1>1. ASSUME NEW w \in Workers, Work(w) PROVE LoopInv'
  BY <1>1, WorkKeepsLoop DEF Work
<1>2. ASSUME NEW w \in Workers, Die(w) PROVE LoopInv'
  <2>1. LoopOk(w)'
    BY <1>2, NumCasesAssumption
    DEF Die, Crash, Goto, ForgetTask, TypeOK, WorkerTypeOK, LoopOk, Owning,
        OwningPc, Preparing
  <2>2. ASSUME NEW v \in Workers, v # w PROVE LoopOk(v)'
    BY <1>2, <2>2, OthersKeepLoop DEF LoopInv, LoopOk, Owning, Preparing
  <2> QED
    BY <2>1, <2>2 DEF LoopInv
<1>3. CASE \/ \E c \in Requests : Ask(c) \/ Answer(c)
           \/ \E d \in Dispatchers : Relay(d) \/ Drop(d)
           \/ LoseRedis
           \/ ExpireFlag
           \/ UNCHANGED vars
  <2>1. ASSUME NEW v \in Workers PROVE LoopOk(v)'
    BY <1>3, OthersKeepLoop DEF LoopInv, LoopOk, Owning, Preparing
  <2> QED
    BY <2>1 DEF LoopInv
<1> QED
  BY <1>1, <1>2, <1>3 DEF Next

\* A run becomes completed with every result stored, and none changes after.
LEMMA CompletedStep ==
  TypeOK /\ OneOwner /\ LoopInv /\ CompletedIsComplete /\ [Next]_vars
    => CompletedIsComplete'
<1> SUFFICES ASSUME TypeOK, OneOwner, LoopInv, CompletedIsComplete,
                    [Next]_vars
             PROVE  CompletedIsComplete'
  OBVIOUS
<1> USE DEF CompletedIsComplete, Cases, storeVars
<1>1. ASSUME NEW w \in Workers, Work(w) PROVE CompletedIsComplete'
  <2> USE DEF Work, WorkerStep
  <2>1. CASE CommitCompleted(w)
    <3>1. \A n \in Cases : results[n] # "none"
      BY <2>1, NumCasesAssumption
      DEF CommitCompleted, Committing, LoopInv, LoopOk, Owning, OwningPc,
          Preparing, TypeOK, WorkerTypeOK
    <3> QED
      BY <2>1, <3>1 DEF CommitCompleted
  <2>2. CASE CommitProgress(w)
    BY <2>2 DEF CommitProgress, Committing, OneOwner, Owning, OwningPc
  <2>3. CASE CommitCancelled(w) \/ CommitRetry(w) \/ CommitFailure(w)
    BY <2>3 DEF CommitCancelled, CommitRetry, CommitFailure
  <2>4. CASE Receive(w) \/ Claim(w) \/ Prepare(w)
    BY <2>4
    DEF Receive, BeginClaim, Skip, Claim, CommitClaim, ClaimCollides, Prepare,
        EnterLoop, ProviderUnavailable
  <2>5. CASE Observe(w) \/ Process(w) \/ Handle(w)
    BY <2>5
    DEF Observe, RefreshRun, SeeFlag, PassFlag, LeaveLoop, Process,
        KeepResult, Evaluate, TemporaryError, OtherException, Handle, Recover,
        Yield
  <2>6. CASE SelectLatest(w) \/ CollisionCaught(w) \/ CollisionEscapes(w)
    BY <2>6 DEF SelectLatest, CollisionCaught, CollisionEscapes
  <2>7. CASE Conclude(w)
    BY <2>7 DEF Conclude, HandOff, HandOffLost, Ack
  <2> QED
    BY <1>1, <2>1, <2>2, <2>3, <2>4, <2>5, <2>6, <2>7 DEF Commit
<1>2. ASSUME NEW c \in Requests, Ask(c) \/ Answer(c)
      PROVE  CompletedIsComplete'
  BY <1>2
  DEF Ask, Arrive, LoadRun, Refuse, Answer, Reply, SelectSequence,
      IntentCollides, SetFlag, FlagSuppressed, CancelCommit, CommitIntent
<1>3. ASSUME NEW d \in Dispatchers, Relay(d) \/ Drop(d)
      PROVE  CompletedIsComplete'
  BY <1>3
  DEF Relay, Drop, DispatchStep, PickUp, Check, Send, SendFails, Save,
      Interrupt
<1>4. ASSUME NEW w \in Workers, Die(w) PROVE CompletedIsComplete'
  BY <1>4 DEF Die, Crash
<1>5. CASE LoseRedis \/ ExpireFlag \/ UNCHANGED vars
  BY <1>5 DEF LoseRedis, ExpireFlag, vars
<1> QED
  BY <1>1, <1>2, <1>3, <1>4, <1>5 DEF Next

\* No run is ever reported completed while a case has no result, or with an
\* aggregate of anything but the results that are stored.
THEOREM CompletedIsCompleteAlways == Spec => []CompletedIsComplete
<1>1. Init => CompletedIsComplete
  BY DEF Init, StoreInit, CompletedIsComplete
<1> QED
  BY <1>1, TypeInit, TypeStep, OwnerInit, OwnerStep, LoopInit, LoopStep,
     CompletedStep, PTL
  DEF Spec

\* A committed result is never replaced or removed: a worker that holds an
\* outcome to store found no result for its case, and it is the only owner.
THEOREM ResultsAreKeptAlways == Spec => ResultsAreKept
<1>1. TypeOK /\ LoopInv /\ [Next]_vars
        => [\A n \in Cases : results[n] # "none" => results'[n] = results[n]]_vars
  <2> SUFFICES ASSUME TypeOK, LoopInv, Next, NEW n \in Cases,
                      results[n] # "none"
               PROVE  results'[n] = results[n]
    BY DEF Cases
  <2>1. ASSUME NEW w \in Workers, CommitProgress(w)
        PROVE  results'[n] = results[n]
    BY <2>1
    DEF CommitProgress, StoreResult, LoopInv, LoopOk, TypeOK, StoreTypeOK
  <2>2. ASSUME NEW w \in Workers, Work(w) PROVE results'[n] = results[n]
    BY <2>1, <2>2, WorkResults DEF Work
  <2>3. ASSUME NEW w \in Workers, Die(w) PROVE results'[n] = results[n]
    BY <2>3 DEF Die, Crash, storeVars
  <2>4. ASSUME NEW c \in Requests, Ask(c) \/ Answer(c)
        PROVE  results'[n] = results[n]
    BY <2>4
    DEF Ask, Arrive, LoadRun, Refuse, Answer, Reply, SelectSequence,
        IntentCollides, SetFlag, FlagSuppressed, CancelCommit, CommitIntent,
        storeVars
  <2>5. ASSUME NEW d \in Dispatchers, Relay(d) \/ Drop(d)
        PROVE  results'[n] = results[n]
    BY <2>5
    DEF Relay, Drop, DispatchStep, PickUp, Check, Send, SendFails, Save,
        Interrupt, storeVars
  <2>6. CASE LoseRedis \/ ExpireFlag
    BY <2>6 DEF LoseRedis, ExpireFlag, storeVars
  <2> QED
    BY <2>2, <2>3, <2>4, <2>5, <2>6 DEF Next
<1> QED
  BY <1>1, TypeInit, TypeStep, OwnerInit, OwnerStep, LoopInit, LoopStep, PTL
  DEF Spec, ResultsAreKept

-----------------------------------------------------------------------------
(***************************************************************************)
(* Cancellation: nothing says cancelled before the intent is durable.       *)
(***************************************************************************)

\* One more event adds at most its own position.
LEMMA AppendPositions ==
  ASSUME TypeOK, NEW t, AppendEvent(t), NEW S, t \notin S
  PROVE  Positions(S)' = Positions(S)
BY DEF AppendEvent, Positions, TypeOK, StoreTypeOK

\* A step that writes no event leaves the log as it is.
LEMMA SamePositions ==
  ASSUME UNCHANGED events, NEW S
  PROVE  Positions(S)' = Positions(S)
BY DEF Positions

\* What a step of a worker does as long as nobody asked to cancel.
LEMMA WorkWithoutIntent ==
  ASSUME TypeOK, IntentInv, CancellationIsDurable, ~cancelRequested,
         NEW w \in Workers, WorkerStep(w)
  PROVE  /\ UNCHANGED cancelRequested
         /\ UNCHANGED cancelFlag
         /\ goal'[w] # "cancelled"
         /\ status' # "cancelled"
         /\ Positions({"run.cancelled"})' = {}
<1> USE DEF TypeOK, WorkerTypeOK, IntentInv, CancellationIsDurable, Goto,
      Record, storeVars, brokerVars, taskVars
<1>0. Positions({"run.cancelled"}) = {}
  OBVIOUS
<1>1. CASE Receive(w)
  BY <1>0, <1>1, SamePositions DEF Receive, BeginClaim, Skip
<1>2. CASE CommitClaim(w)
  BY <1>0, <1>2, AppendPositions DEF CommitClaim
<1>3. CASE ClaimCollides(w) \/ Prepare(w)
  BY <1>0, <1>3, SamePositions
  DEF ClaimCollides, Prepare, EnterLoop, ProviderUnavailable
<1>4. CASE Observe(w)
  BY <1>0, <1>4, SamePositions
  DEF Observe, RefreshRun, SeeFlag, PassFlag, LeaveLoop, IntentSeen
<1>5. CASE Process(w)
  BY <1>0, <1>5, SamePositions
  DEF Process, KeepResult, Evaluate, TemporaryError, OtherException
<1>6. CASE Handle(w)
  BY <1>0, <1>6, SamePositions DEF Handle, Recover, Yield
<1>7. CASE SelectLatest(w) \/ CollisionCaught(w) \/ CollisionEscapes(w)
  BY <1>0, <1>7, SamePositions
  DEF SelectLatest, CollisionCaught, CollisionEscapes
<1>8. CASE CommitProgress(w)
  BY <1>0, <1>8, AppendPositions DEF CommitProgress, Committing
<1>9. CASE CommitCancelled(w)
  BY <1>9 DEF CommitCancelled, Committing
<1>10. CASE CommitCompleted(w)
  BY <1>0, <1>10, AppendPositions DEF CommitCompleted, Committing
<1>11. CASE CommitRetry(w)
  BY <1>0, <1>11, AppendPositions DEF CommitRetry, Committing
<1>12. CASE CommitFailure(w)
  BY <1>0, <1>12, AppendPositions DEF CommitFailure, Committing
<1>13. CASE Conclude(w)
  BY <1>0, <1>13, SamePositions
  DEF Conclude, HandOff, HandOffLost, Ack, ForgetTask
<1> QED
  BY <1>1, <1>2, <1>3, <1>4, <1>5, <1>6, <1>7, <1>8, <1>9, <1>10, <1>11,
     <1>12, <1>13
  DEF WorkerStep, Claim, Commit

\* No step of a worker writes the intent.
LEMMA WorkKeepsIntent ==
  ASSUME NEW w \in Workers, WorkerStep(w)
  PROVE  UNCHANGED cancelRequested
<1> USE DEF storeVars, WorkerStep
<1>1. CASE Receive(w) \/ Claim(w) \/ Prepare(w)
  BY <1>1
  DEF Receive, BeginClaim, Skip, Claim, CommitClaim, ClaimCollides, Prepare,
      EnterLoop, ProviderUnavailable
<1>2. CASE Observe(w) \/ Process(w) \/ Handle(w)
  BY <1>2
  DEF Observe, RefreshRun, SeeFlag, PassFlag, LeaveLoop, Process, KeepResult,
      Evaluate, TemporaryError, OtherException, Handle, Recover, Yield
<1>3. CASE Commit(w)
  BY <1>3
  DEF Commit, SelectLatest, CommitProgress, CommitCancelled, CommitCompleted,
      CommitRetry, CommitFailure, CollisionCaught, CollisionEscapes
<1>4. CASE Conclude(w)
  BY <1>4 DEF Conclude, HandOff, HandOffLost, Ack
<1> QED
  BY <1>1, <1>2, <1>3, <1>4

\* The intent is never withdrawn.
LEMMA IntentStays == [Next]_vars /\ cancelRequested => cancelRequested'
<1> SUFFICES ASSUME [Next]_vars, cancelRequested PROVE cancelRequested'
  OBVIOUS
<1> USE DEF storeVars
<1>1. ASSUME NEW w \in Workers, Work(w) PROVE cancelRequested'
  BY <1>1, WorkKeepsIntent DEF Work
<1>2. ASSUME NEW w \in Workers, Die(w) PROVE cancelRequested'
  BY <1>2 DEF Die, Crash
<1>3. ASSUME NEW c \in Requests, Ask(c) \/ Answer(c) PROVE cancelRequested'
  BY <1>3
  DEF Ask, Arrive, LoadRun, Refuse, Answer, Reply, SelectSequence,
      IntentCollides, SetFlag, FlagSuppressed, CancelCommit, CommitIntent
<1>4. ASSUME NEW d \in Dispatchers, Relay(d) \/ Drop(d) PROVE cancelRequested'
  BY <1>4
  DEF Relay, Drop, DispatchStep, PickUp, Check, Send, SendFails, Save,
      Interrupt
<1>5. CASE LoseRedis \/ ExpireFlag \/ UNCHANGED vars
  BY <1>5 DEF LoseRedis, ExpireFlag, vars
<1> QED
  BY <1>1, <1>2, <1>3, <1>4, <1>5 DEF Next

\* Nothing says cancelled in a step that did not find the intent recorded.
LEMMA IntentStep ==
  TypeOK /\ IntentInv /\ CancellationIsDurable /\ [Next]_vars
    => IntentInv' /\ CancellationIsDurable'
<1> SUFFICES ASSUME TypeOK, IntentInv, CancellationIsDurable, [Next]_vars,
                    ~cancelRequested'
             PROVE  IntentInv' /\ CancellationIsDurable'
  BY DEF IntentInv, CancellationIsDurable
<1>0. ~cancelRequested
  BY IntentStays
<1> USE DEF IntentInv, CancellationIsDurable, storeVars, brokerVars,
      workerVars, cancelVars
<1>1. ASSUME NEW w \in Workers, Work(w)
      PROVE  IntentInv' /\ CancellationIsDurable'
  <2>1. \A v \in Workers : goal'[v] # "cancelled"
    BY <1>0, <1>1, WorkWithoutIntent, WorkFrame DEF Work
  <2> QED
    BY <1>0, <1>1, <2>1, WorkWithoutIntent DEF Work
<1>2. ASSUME NEW w \in Workers, Die(w)
      PROVE  IntentInv' /\ CancellationIsDurable'
  BY <1>0, <1>2, SamePositions
  DEF Die, Crash, ForgetTask, TypeOK, WorkerTypeOK
<1>3. ASSUME NEW c \in Requests, Ask(c) \/ Answer(c)
      PROVE  IntentInv' /\ CancellationIsDurable'
  BY <1>0, <1>3, SamePositions
  DEF Ask, Arrive, LoadRun, Refuse, Answer, Reply, SelectSequence,
      IntentCollides, SetFlag, FlagSuppressed, CancelCommit, CommitIntent,
      Advance, TypeOK, CancelTypeOK
<1>4. ASSUME NEW d \in Dispatchers, Relay(d) \/ Drop(d)
      PROVE  IntentInv' /\ CancellationIsDurable'
  BY <1>0, <1>4, SamePositions
  DEF Relay, Drop, DispatchStep, PickUp, Check, Send, SendFails, Save,
      Interrupt
<1>5. CASE LoseRedis \/ ExpireFlag \/ UNCHANGED vars
  BY <1>0, <1>5, SamePositions DEF LoseRedis, ExpireFlag, vars
<1> QED
  BY <1>1, <1>2, <1>3, <1>4, <1>5 DEF Next

\* Neither the row, nor the event log, nor the flag in Redis ever says that the
\* run is cancelled before somebody's request to cancel it is committed.
THEOREM CancellationIsDurableAlways == Spec => []CancellationIsDurable
<1>1. Init => IntentInv /\ CancellationIsDurable
  BY DEF Init, StoreInit, BrokerInit, WorkerInit, CancelInit, IntentInv,
     CancellationIsDurable, Positions
<1> QED
  BY <1>1, TypeInit, TypeStep, IntentStep, PTL DEF Spec

-----------------------------------------------------------------------------
(***************************************************************************)
(* The race for the next sequence number.                                   *)
(***************************************************************************)

\* Only a claim or a commit of the task inserts an event.
LEMMA WorkInserts ==
  ASSUME NEW w \in Workers, WorkerStep(w)
  PROVE  UNCHANGED events \/ pc[w] \in {"claim", "commit"}
<1> USE DEF storeVars
<1>1. CASE Receive(w) \/ Claim(w) \/ Prepare(w)
  BY <1>1
  DEF Receive, BeginClaim, Skip, Claim, CommitClaim, ClaimCollides, Prepare,
      EnterLoop, ProviderUnavailable
<1>2. CASE Observe(w) \/ Process(w) \/ Handle(w)
  BY <1>2
  DEF Observe, RefreshRun, SeeFlag, PassFlag, LeaveLoop, Process, KeepResult,
      Evaluate, TemporaryError, OtherException, Handle, Recover, Yield
<1>3. CASE Commit(w)
  BY <1>3
  DEF Commit, SelectLatest, CommitProgress, CommitCancelled, CommitCompleted,
      CommitRetry, CommitFailure, Committing, CollisionCaught,
      CollisionEscapes
<1>4. CASE Conclude(w)
  BY <1>4 DEF Conclude, HandOff, HandOffLost, Ack
<1> QED
  BY <1>1, <1>2, <1>3, <1>4 DEF WorkerStep

\* What a worker selected is still the last number when it inserts the next one.
LEMMA WorkWinsRace ==
  ASSUME TypeOK, OneOwner, RaceInv, ~cancelRequested, NEW w \in Workers, WorkerStep(w)
  PROVE  RaceInv'
<1> USE DEF TypeOK, WorkerTypeOK, Goto, Record, storeVars, taskVars
<1>0. /\ ~escaped /\ reason # "collision" /\ goal[w] # "collision"
      /\ pc[w] \in {"claim", "commit"} => SequenceFree(latest[w])
  BY DEF RaceInv, SequenceFree
<1>1. ASSUME NEW v \in Workers, v # w
      PROVE  /\ goal'[v] # "collision"
             /\ pc'[v] \in {"claim", "commit"} => latest'[v] = LatestSequence'
  <2>1. goal'[v] = goal[v] /\ pc'[v] = pc[v] /\ latest'[v] = latest[v]
    BY <1>1, WorkFrame
  <2>2. CASE UNCHANGED events
    BY <2>1, <2>2 DEF RaceInv, LatestSequence
  <2>3. CASE pc[w] \in {"claim", "commit"}
    BY <1>1, <2>1, <2>3 DEF RaceInv, OneOwner, Engaged, OwningPc
  <2> QED
    BY <2>2, <2>3, WorkInserts
<1> DEFINE Clear ==
      /\ ~escaped' /\ reason' # "collision" /\ goal'[w] # "collision"
      /\ pc'[w] \in {"claim", "commit"} => latest'[w] = LatestSequence'
<1>2. Clear
  <2>1. CASE Receive(w)
    BY <1>0, <2>1 DEF Receive, BeginClaim, Skip, LatestSequence
  <2>2. CASE Claim(w)
    BY <1>0, <2>2 DEF Claim, CommitClaim, ClaimCollides
  <2>3. CASE Prepare(w)
    BY <1>0, <2>3 DEF Prepare, EnterLoop, ProviderUnavailable
  <2>4. CASE Observe(w)
    BY <1>0, <2>4 DEF Observe, RefreshRun, SeeFlag, PassFlag, LeaveLoop
  <2>5. CASE Process(w)
    BY <1>0, <2>5
    DEF Process, KeepResult, Evaluate, TemporaryError, OtherException
  <2>6. CASE Handle(w)
    BY <1>0, <2>6 DEF Handle, Recover, Yield
  <2>7. CASE SelectLatest(w)
    BY <1>0, <2>7 DEF SelectLatest, LatestSequence
  <2>8. CASE CommitProgress(w) \/ CommitCancelled(w) \/ CommitCompleted(w) \/ CommitRetry(w)
    BY <1>0, <2>8
    DEF CommitProgress, CommitCancelled, CommitCompleted, CommitRetry, Committing
  <2>9. CASE CommitFailure(w)
    BY <1>0, <2>9 DEF CommitFailure, Committing
  <2>10. CASE CollisionCaught(w) \/ CollisionEscapes(w)
    BY <1>0, <2>10 DEF CollisionCaught, CollisionEscapes
  <2>11. CASE Conclude(w)
    BY <1>0, <2>11 DEF Conclude, HandOff, HandOffLost, Ack, ForgetTask
  <2> QED
    BY <2>1, <2>2, <2>3, <2>4, <2>5, <2>6, <2>7, <2>8, <2>9, <2>10, <2>11
    DEF WorkerStep, Commit
<1> QED
  BY <1>1, <1>2 DEF RaceInv

\* Nobody else inserts an event without asking to cancel.
LEMMA RaceStep == TypeOK /\ OneOwner /\ RaceInv /\ [Next]_vars => RaceInv'
<1> SUFFICES ASSUME TypeOK, OneOwner, RaceInv, [Next]_vars, ~cancelRequested'
             PROVE  RaceInv'
  BY DEF RaceInv
<1>0. ~cancelRequested
  BY IntentStays
<1> USE DEF storeVars, workerVars
<1>1. ASSUME NEW w \in Workers, Work(w) PROVE RaceInv'
  BY <1>0, <1>1, WorkWinsRace DEF Work
<1>2. ASSUME NEW w \in Workers, Die(w) PROVE RaceInv'
  BY <1>0, <1>2
  DEF Die, Crash, Goto, ForgetTask, TypeOK, WorkerTypeOK, RaceInv, LatestSequence
<1>3. ASSUME NEW c \in Requests, Ask(c) \/ Answer(c) PROVE RaceInv'
  BY <1>0, <1>3
  DEF Ask, Arrive, LoadRun, Refuse, Answer, Reply, SelectSequence,
      IntentCollides, SetFlag, FlagSuppressed, CancelCommit, CommitIntent,
      RaceInv, LatestSequence
<1>4. ASSUME NEW d \in Dispatchers, Relay(d) \/ Drop(d) PROVE RaceInv'
  BY <1>0, <1>4
  DEF Relay, Drop, DispatchStep, PickUp, Check, Send, SendFails, Save,
      Interrupt, RaceInv, LatestSequence
<1>5. CASE LoseRedis \/ ExpireFlag \/ UNCHANGED vars
  BY <1>0, <1>5 DEF LoseRedis, ExpireFlag, vars, RaceInv, LatestSequence
<1> QED
  BY <1>1, <1>2, <1>3, <1>4, <1>5 DEF Next

LEMMA RaceInit == Init => RaceInv
BY DEF Init, StoreInit, WorkerInit, RaceInv

\* Two attempts never take the same sequence number: an exception that escapes
\* execute_run, and a run that fails with a collision, need a request to cancel
\* that is durable (engine.py:42-58, 72-77, 204-209; api.py:545-557).
THEOREM CollisionsNeedCancellation ==
  Spec => [](escaped \/ reason = "collision" => cancelRequested)
<1>1. RaceInv => (escaped \/ reason = "collision" => cancelRequested)
  BY DEF RaceInv
<1> QED
  BY <1>1, TypeInit, TypeStep, OwnerInit, OwnerStep, RaceInit, RaceStep, PTL DEF Spec

-----------------------------------------------------------------------------
(***************************************************************************)
(* No run is abandoned in silence, and none is lost in the queue.           *)
(***************************************************************************)

\* Only a crash or an escaped exception leaves a running run without an owner.
LEMMA StrandedStep ==
  TypeOK /\ OneOwner /\ LeftInv /\ [Next]_vars
    => LeftInv'
<1> SUFFICES ASSUME TypeOK, OneOwner, LeftInv, [Next]_vars,
                    status' = "running", ~Owned'
             PROVE  crashes' > 0 \/ escaped'
  BY DEF LeftInv
<1> USE DEF LeftInv, Owned, Owning, OwningPc, storeVars,
      workerVars
<1>0. pc \in [Workers -> WorkerPc] /\ crashes \in Nat
  BY DEF TypeOK, WorkerTypeOK
<1>1. ASSUME NEW w \in Workers, Work(w) PROVE crashes' > 0 \/ escaped'
  <2> USE <1>0 DEF Work, WorkerStep, Goto, Record, taskVars
  <2>1. CASE Receive(w) \/ Conclude(w)
    <3>1. /\ ~Owning(w) /\ status = "running"
          /\ UNCHANGED <<crashes, escaped>>
      BY <2>1
      DEF Receive, BeginClaim, Skip, Conclude, HandOff, HandOffLost, Ack
    <3>2. ~Owned
      BY <1>1, <3>1, WorkFrame
    <3> QED
      BY <3>1, <3>2
  <2>2. CASE Claim(w)
    BY <2>2 DEF Claim, CommitClaim, ClaimCollides
  <2>3. CASE Prepare(w)
    BY <2>3 DEF Prepare, EnterLoop, ProviderUnavailable
  <2>4. CASE Observe(w)
    BY <2>4 DEF Observe, RefreshRun, SeeFlag, PassFlag, LeaveLoop
  <2>5. CASE Process(w)
    BY <2>5
    DEF Process, KeepResult, Evaluate, TemporaryError, OtherException
  <2>6. CASE Handle(w)
    BY <2>6 DEF Handle, Recover, Yield, StillRunning
  <2>7. CASE SelectLatest(w) \/ CommitProgress(w)
    BY <2>7 DEF SelectLatest, CommitProgress, Committing
  <2>8. CASE \/ CommitCancelled(w) \/ CommitCompleted(w) \/ CommitRetry(w)
             \/ CommitFailure(w)
    BY <2>8 DEF CommitCancelled, CommitCompleted, CommitRetry, CommitFailure
  <2>9. CASE CollisionCaught(w) \/ CollisionEscapes(w)
    BY <2>9 DEF CollisionCaught, CollisionEscapes
  <2> QED
    BY <1>1, <2>1, <2>2, <2>3, <2>4, <2>5, <2>6, <2>7, <2>8, <2>9 DEF Commit
<1>2. ASSUME NEW w \in Workers, Die(w) PROVE crashes' > 0 \/ escaped'
  BY <1>0, <1>2 DEF Die, Crash
<1>3. ASSUME NEW c \in Requests, Ask(c) \/ Answer(c)
      PROVE  crashes' > 0 \/ escaped'
  BY <1>3
  DEF Ask, Arrive, LoadRun, Refuse, Answer, Reply, SelectSequence,
      IntentCollides, SetFlag, FlagSuppressed, CancelCommit, CommitIntent
<1>4. ASSUME NEW d \in Dispatchers, Relay(d) \/ Drop(d)
      PROVE  crashes' > 0 \/ escaped'
  BY <1>4
  DEF Relay, Drop, DispatchStep, PickUp, Check, Send, SendFails, Save,
      Interrupt
<1>5. CASE LoseRedis \/ ExpireFlag \/ UNCHANGED vars
  BY <1>5 DEF LoseRedis, ExpireFlag, vars
<1> QED
  BY <1>1, <1>2, <1>3, <1>4, <1>5 DEF Next

\* A run is left running with nobody to run it only by a killed worker or by an
\* exception that escaped execute_run after a request to cancel (engine.py:137-164).
THEOREM StrandedIsExplainedAlways == Spec => []StrandedIsExplained
<1>1. Init => LeftInv
  BY DEF Init, StoreInit, LeftInv
<1>2. LeftInv /\ RaceInv => StrandedIsExplained
  BY DEF LeftInv, RaceInv, StrandedIsExplained
<1> QED
  BY <1>1, <1>2, TypeInit, TypeStep, OwnerInit, OwnerStep, StrandedStep, RaceInit,
     RaceStep, PTL
  DEF Spec

\* Losses are never forgotten.
LEMMA LossStays ==
  [Next]_vars => /\ lost => lost'
                 /\ escaped => escaped'
<1> SUFFICES ASSUME [Next]_vars
             PROVE  (lost => lost') /\ (escaped => escaped')
  OBVIOUS
<1> USE DEF brokerVars, workerVars
<1>1. ASSUME NEW w \in Workers, Work(w)
      PROVE  (lost => lost') /\ (escaped => escaped')
  <2> USE DEF Work, WorkerStep
  <2>1. CASE Receive(w) \/ Claim(w) \/ Prepare(w)
    BY <2>1
    DEF Receive, BeginClaim, Skip, Claim, CommitClaim, ClaimCollides, Prepare,
        EnterLoop, ProviderUnavailable
  <2>2. CASE Observe(w) \/ Process(w) \/ Handle(w)
    BY <2>2
    DEF Observe, RefreshRun, SeeFlag, PassFlag, LeaveLoop, Process,
        KeepResult, Evaluate, TemporaryError, OtherException, Handle, Recover,
        Yield
  <2>3. CASE Commit(w)
    BY <2>3
    DEF Commit, SelectLatest, CommitProgress, CommitCancelled,
        CommitCompleted, CommitRetry, CommitFailure, Committing,
        CollisionCaught, CollisionEscapes
  <2>4. CASE Conclude(w)
    BY <2>4 DEF Conclude, HandOff, HandOffLost, Ack
  <2> QED
    BY <1>1, <2>1, <2>2, <2>3, <2>4
<1>2. ASSUME NEW w \in Workers, Die(w)
      PROVE  (lost => lost') /\ (escaped => escaped')
  BY <1>2 DEF Die, Crash
<1>3. ASSUME NEW c \in Requests, Ask(c) \/ Answer(c)
      PROVE  (lost => lost') /\ (escaped => escaped')
  BY <1>3
  DEF Ask, Arrive, LoadRun, Refuse, Answer, Reply, SelectSequence,
      IntentCollides, SetFlag, FlagSuppressed, CancelCommit, CommitIntent
<1>4. ASSUME NEW d \in Dispatchers, Relay(d) \/ Drop(d)
      PROVE  (lost => lost') /\ (escaped => escaped')
  BY <1>4
  DEF Relay, Drop, DispatchStep, PickUp, Check, Send, SendFails, Save,
      Interrupt
<1>5. CASE LoseRedis \/ ExpireFlag \/ UNCHANGED vars
  BY <1>5 DEF LoseRedis, ExpireFlag, vars
<1> QED
  BY <1>1, <1>2, <1>3, <1>4, <1>5 DEF Next

\* A worker that handles a message keeps the facts its delivery rests on.
LEMMA HandlingStep ==
  TypeOK /\ HandlingInv /\ [Next]_vars => HandlingInv'
<1> SUFFICES ASSUME TypeOK, HandlingInv, [Next]_vars PROVE HandlingInv'
  OBVIOUS
<1>0. lost => lost'
  BY LossStays
<1> USE <1>0 DEF HandlingInv, Preparing, TypeOK, WorkerTypeOK, Goto, Record,
      taskVars
<1>1. ASSUME NEW w \in Workers, Work(w) PROVE HandlingInv'
  <2>1. ASSUME NEW v \in Workers, v # w
        PROVE  /\ pc'[v] # "idle" => held'[v] \/ lost'
               /\ pc'[v] = "handoff" => retries'[v] < MaxRetries
               /\ Preparing(v, "queued")' => retries'[v] < MaxRetries
    BY <1>1, <2>1, WorkFrame DEF Work
  <2>2. /\ pc'[w] # "idle" => held'[w] \/ lost'
        /\ pc'[w] = "handoff" => retries'[w] < MaxRetries
        /\ Preparing(w, "queued")' => retries'[w] < MaxRetries
    <3> USE DEF Work, WorkerStep
    <3>1. CASE Receive(w)
      BY <3>1 DEF Receive, BeginClaim, Skip
    <3>2. CASE Claim(w) \/ Prepare(w)
      BY <3>2
      DEF Claim, CommitClaim, ClaimCollides, Prepare, EnterLoop,
          ProviderUnavailable
    <3>3. CASE Observe(w)
      BY <3>3 DEF Observe, RefreshRun, SeeFlag, PassFlag, LeaveLoop
    <3>4. CASE Process(w)
      BY <3>4
      DEF Process, KeepResult, Evaluate, TemporaryError, OtherException
    <3>5. CASE Handle(w)
      BY <3>5 DEF Handle, Recover, Yield, RetryAllowed
    <3>6. CASE SelectLatest(w) \/ CollisionCaught(w) \/ CollisionEscapes(w)
      BY <3>6 DEF SelectLatest, CollisionCaught, CollisionEscapes
    <3>7. CASE \/ CommitProgress(w) \/ CommitCancelled(w)
               \/ CommitCompleted(w) \/ CommitFailure(w)
      BY <3>7
      DEF CommitProgress, CommitCancelled, CommitCompleted, CommitFailure,
          Committing
    <3>8. CASE CommitRetry(w)
      BY <3>8 DEF CommitRetry, Committing
    <3>9. CASE Conclude(w)
      BY <3>9 DEF Conclude, HandOff, HandOffLost, Ack
    <3> QED
      BY <1>1, <3>1, <3>2, <3>3, <3>4, <3>5, <3>6, <3>7, <3>8, <3>9
      DEF Commit
  <2> QED
    BY <2>1, <2>2
<1>2. ASSUME NEW w \in Workers, Die(w) PROVE HandlingInv'
  BY <1>2 DEF Die, Crash, ForgetTask
<1>3. ASSUME NEW c \in Requests, Ask(c) \/ Answer(c) PROVE HandlingInv'
  BY <1>3 DEF Ask, Answer, workerVars
<1>4. ASSUME NEW d \in Dispatchers, Relay(d) \/ Drop(d) PROVE HandlingInv'
  BY <1>4 DEF Relay, Drop, workerVars
<1>5. CASE LoseRedis \/ ExpireFlag \/ UNCHANGED vars
  BY <1>5 DEF LoseRedis, ExpireFlag, vars, workerVars
<1> QED
  BY <1>1, <1>2, <1>3, <1>4, <1>5 DEF Next

\* A run that can do without its dispatch row never needs it again while it is
\* queued: the message is taken by a claim, and a claim ends in a running run, in
\* an escaped exception, or in the message being delivered again.
LEMMA DeliveredStays ==
  TypeOK /\ HandlingInv /\ Delivered /\ status = "queued"
      /\ status' = "queued" /\ [Next]_vars
    => Delivered'
<1> SUFFICES ASSUME TypeOK, HandlingInv, Delivered, status = "queued",
                    status' = "queued", [Next]_vars, ~lost', ~escaped'
             PROVE  Delivered'
  BY DEF Delivered
<1>0. ~lost /\ ~escaped
  BY LossStays
<1>1. pc \in [Workers -> WorkerPc] /\ queue \in [RetryCount -> Nat]
  BY DEF TypeOK, WorkerTypeOK, BrokerTypeOK
<1>2. retries \in [Workers -> RetryCount]
  BY DEF TypeOK, WorkerTypeOK
<1> USE DEF Delivered, brokerVars, storeVars, workerVars
<1>3. ASSUME NEW w \in Workers, Work(w) PROVE Delivered'
  <2> USE <1>0, <1>1, <1>2 DEF Work, WorkerStep, Goto, Record
  <2>0. ASSUME UNCHANGED queue, pc[w] \notin {"claim", "handoff"}
        PROVE  Delivered'
    BY <1>3, <2>0, WorkFrame
  <2>1. CASE Receive(w)
    BY <2>1 DEF Receive, BeginClaim, Skip, Claimable
  <2>2. CASE Claim(w)
    BY <2>2 DEF Claim, CommitClaim, ClaimCollides
  <2>3. CASE Prepare(w)
    BY <2>0, <2>3 DEF Prepare, EnterLoop, ProviderUnavailable
  <2>4. CASE Observe(w)
    BY <2>0, <2>4 DEF Observe, RefreshRun, SeeFlag, PassFlag, LeaveLoop
  <2>5. CASE Process(w)
    BY <2>0, <2>5
    DEF Process, KeepResult, Evaluate, TemporaryError, OtherException
  <2>6. CASE Handle(w)
    BY <2>0, <2>6 DEF Handle, Recover, Yield
  <2>7. CASE Commit(w)
    BY <2>0, <2>7
    DEF Commit, SelectLatest, CommitProgress, CommitCancelled,
        CommitCompleted, CommitRetry, CommitFailure, Committing,
        CollisionCaught, CollisionEscapes
  <2>8. CASE HandOff(w)
    <3>1. retries[w] + 1 \in RetryCount
      BY <2>8, BrokerAssumption DEF HandOff, HandlingInv, RetryCount
    <3>2. queue'[retries[w] + 1] > 0
      BY <2>8, <3>1 DEF HandOff, Publish
    <3> QED
      BY <3>1, <3>2
  <2>9. CASE HandOffLost(w)
    BY <2>9 DEF HandOffLost
  <2>10. CASE Ack(w)
    BY <2>0, <2>10 DEF Ack
  <2> QED
    BY <1>3, <2>1, <2>2, <2>3, <2>4, <2>5, <2>6, <2>7, <2>8, <2>9, <2>10
    DEF Conclude
<1>4. ASSUME NEW w \in Workers, Die(w) PROVE Delivered'
  <2>1. CASE pc[w] \in {"claim", "handoff"}
    <3>1. held[w]
      BY <1>0, <2>1 DEF HandlingInv
    <3>2. queue'[retries[w]] > 0
      BY <1>1, <1>2, <1>4, <3>1 DEF Die, Crash, Publish
    <3> QED
      BY <1>2, <3>2
  <2>2. CASE pc[w] \notin {"claim", "handoff"}
    <3>1. ASSUME NEW r \in RetryCount, queue[r] > 0 PROVE queue'[r] > 0
      BY <1>1, <1>2, <1>4, <3>1 DEF Die, Crash, Publish
    <3>2. ASSUME NEW v \in Workers, pc[v] \in {"claim", "handoff"}
          PROVE  pc'[v] \in {"claim", "handoff"}
      BY <1>1, <1>4, <2>2, <3>2 DEF Die, Crash, Goto
    <3> QED
      BY <1>0, <3>1, <3>2
  <2> QED
    BY <2>1, <2>2
<1>5. ASSUME NEW c \in Requests, Ask(c) \/ Answer(c) PROVE Delivered'
  <2>1. UNCHANGED <<queue, pc>>
    BY <1>5
    DEF Ask, Arrive, LoadRun, Refuse, Answer, Reply, SelectSequence,
        IntentCollides, SetFlag, FlagSuppressed, CancelCommit, CommitIntent
  <2> QED
    BY <1>0, <2>1
<1>6. ASSUME NEW d \in Dispatchers, Relay(d) \/ Drop(d) PROVE Delivered'
  <2>1. UNCHANGED pc
    BY <1>6 DEF Relay, Drop
  <2>2. CASE Send(d)
    <3>1. ASSUME NEW r \in RetryCount, queue[r] > 0 PROVE queue'[r] > 0
      BY <1>1, <2>2, <3>1 DEF Send, Publish
    <3> QED
      BY <1>0, <2>1, <3>1
  <2>3. CASE UNCHANGED queue
    BY <1>0, <2>1, <2>3
  <2> QED
    BY <1>6, <2>2, <2>3
    DEF Relay, Drop, DispatchStep, PickUp, Check, SendFails, Save, Interrupt
<1>7. CASE LoseRedis
  BY <1>7 DEF LoseRedis
<1>8. CASE ExpireFlag \/ UNCHANGED vars
  BY <1>0, <1>8 DEF ExpireFlag, vars
<1> QED
  BY <1>3, <1>4, <1>5, <1>6, <1>7, <1>8 DEF Next

\* Only the release of an attempt puts a run back in the queue.
LEMMA OnlyRetryQueues ==
  TypeOK /\ status # "queued" /\ status' = "queued" /\ [Next]_vars
    => Delivered'
<1> SUFFICES ASSUME TypeOK, status # "queued", status' = "queued",
                    [Next]_vars
             PROVE  Delivered'
  OBVIOUS
<1> USE DEF storeVars
<1>1. ASSUME NEW w \in Workers, Work(w) PROVE Delivered'
  <2> USE DEF Work, WorkerStep
  <2>1. CASE CommitRetry(w)
    BY <2>1 DEF CommitRetry, Goto, Delivered, TypeOK, WorkerTypeOK
  <2>2. CASE Receive(w) \/ Claim(w) \/ Prepare(w)
    BY <2>2
    DEF Receive, BeginClaim, Skip, Claim, CommitClaim, ClaimCollides, Prepare,
        EnterLoop, ProviderUnavailable
  <2>3. CASE Observe(w) \/ Process(w) \/ Handle(w)
    BY <2>3
    DEF Observe, RefreshRun, SeeFlag, PassFlag, LeaveLoop, Process,
        KeepResult, Evaluate, TemporaryError, OtherException, Handle, Recover,
        Yield
  <2>4. CASE \/ SelectLatest(w) \/ CommitProgress(w) \/ CommitCancelled(w)
             \/ CommitCompleted(w) \/ CommitFailure(w) \/ CollisionCaught(w)
             \/ CollisionEscapes(w)
    BY <2>4
    DEF SelectLatest, CommitProgress, CommitCancelled, CommitCompleted,
        CommitFailure, CollisionCaught, CollisionEscapes
  <2>5. CASE Conclude(w)
    BY <2>5 DEF Conclude, HandOff, HandOffLost, Ack
  <2> QED
    BY <1>1, <2>1, <2>2, <2>3, <2>4, <2>5 DEF Commit
<1>2. ASSUME NEW w \in Workers, Die(w) PROVE Delivered'
  BY <1>2 DEF Die, Crash
<1>3. ASSUME NEW c \in Requests, Ask(c) \/ Answer(c) PROVE Delivered'
  BY <1>3
  DEF Ask, Arrive, LoadRun, Refuse, Answer, Reply, SelectSequence,
      IntentCollides, SetFlag, FlagSuppressed, CancelCommit, CommitIntent
<1>4. ASSUME NEW d \in Dispatchers, Relay(d) \/ Drop(d) PROVE Delivered'
  BY <1>4
  DEF Relay, Drop, DispatchStep, PickUp, Check, Send, SendFails, Save,
      Interrupt
<1>5. CASE LoseRedis \/ ExpireFlag \/ UNCHANGED vars
  BY <1>5 DEF LoseRedis, ExpireFlag, vars
<1> QED
  BY <1>1, <1>2, <1>3, <1>4, <1>5 DEF Next

\* No step takes the last means of delivering a queued run, losses apart.
LEMMA DeliveryStep ==
  TypeOK /\ HandlingInv /\ DeliveryInv /\ [Next]_vars => DeliveryInv'
<1> SUFFICES ASSUME TypeOK, HandlingInv, DeliveryInv, [Next]_vars,
                    status' = "queued"
             PROVE  Delivered' \/ Untouched'
  BY DEF DeliveryInv
<1>1. CASE status # "queued"
  BY <1>1, OnlyRetryQueues
<1>2. CASE status = "queued" /\ Delivered
  BY <1>2, DeliveredStays
<1>3. CASE status = "queued" /\ Untouched
  <2> USE DEF Untouched, dispatchVars
  <2>1. ASSUME NEW d \in Dispatchers, Relay(d)
        PROVE  Delivered' \/ Untouched'
    <3>1. CASE Send(d)
      <4>1. 0 \in RetryCount
        BY BrokerAssumption DEF RetryCount
      <4>2. queue'[0] > 0
        BY <3>1, <4>1 DEF Send, Publish, TypeOK, BrokerTypeOK
      <4> QED
        BY <4>1, <4>2 DEF Delivered
    <3>2. CASE PickUp(d) \/ Check(d) \/ SendFails(d) \/ Save(d)
      BY <1>3, <3>2
      DEF PickUp, Check, SendFails, Save, Move, Obsolete, TypeOK,
          DispatchTypeOK
    <3> QED
      BY <2>1, <3>1, <3>2 DEF Relay, DispatchStep
  <2>2. ASSUME NEW d \in Dispatchers, Drop(d) PROVE Untouched'
    BY <1>3, <2>2 DEF Drop, Interrupt, Move, TypeOK, DispatchTypeOK
  <2>3. CASE UNCHANGED dispatchVars
    BY <1>3, <2>3
  <2> QED
    BY <2>1, <2>2, <2>3
    DEF Next, Work, Die, Ask, Answer, LoseRedis, ExpireFlag, vars
<1> QED
  BY <1>1, <1>2, <1>3 DEF DeliveryInv

\* A queued run can still reach a worker, unless Redis lost a message or a
\* cancellation made an exception escape execute_run; dispatcher calls that die or
\* are refused, killed workers and duplicate deliveries never lose it (tasks.py:47-90).
THEOREM QueuedIsDeliverableAlways == Spec => []QueuedIsDeliverable
<1>1. Init => HandlingInv /\ DeliveryInv
  BY DEF Init, WorkerInit, DispatchInit, HandlingInv, DeliveryInv, Untouched,
     Preparing
<1>2. DeliveryInv /\ RaceInv => QueuedIsDeliverable
  BY DEF DeliveryInv, RaceInv, Delivered, Untouched, QueuedIsDeliverable
<1> QED
  BY <1>1, <1>2, TypeInit, TypeStep, OwnerInit, OwnerStep, RaceInit, RaceStep,
     HandlingStep, DeliveryStep, PTL
  DEF Spec

-----------------------------------------------------------------------------
(***************************************************************************)
(* The event log tells one story.                                           *)
(***************************************************************************)

\* Events are numbered from 1.
LEMMA PositionRange ==
  ASSUME TypeOK, NEW S
  PROVE  /\ Len(events) \in Nat
         /\ \A n \in Positions(S) : n \in Nat /\ 1 <= n /\ n <= Len(events)
BY DEF Positions, TypeOK, StoreTypeOK

\* An event of a set adds the number it gets to the positions of the set.
LEMMA AddPosition ==
  ASSUME TypeOK, NEW t \in EventType, AppendEvent(t), NEW S, t \in S
  PROVE  Positions(S)' = Positions(S) \union {Len(events) + 1}
BY DEF AppendEvent, Positions, TypeOK, StoreTypeOK

\* A step that writes no event changes nothing the log speaks of, and makes a
\* worker claim the run only while it is queued.
Silent ==
  /\ UNCHANGED <<events, status, startedAt>>
  /\ \A v \in Workers : Engaged(v)' => Engaged(v) \/ status = "queued"

Claimed ==
  /\ status = "queued" /\ status' = "running"
  /\ startedAt' = KeptStart(NextSequence)
  /\ AppendEvent("run.started")
  /\ \A v \in Workers : Engaged(v)' => Engaged(v)

Progressed ==
  /\ UNCHANGED <<status, startedAt>>
  /\ AppendEvent("run.progress")
  /\ \A v \in Workers : Engaged(v)' => Engaged(v)

Released ==
  /\ \E w \in Workers : Engaged(w)
  /\ status' = "queued" /\ UNCHANGED startedAt
  /\ AppendEvent("run.retrying")

Settled ==
  /\ \E w \in Workers : Engaged(w)
  /\ status' \in Terminal /\ UNCHANGED startedAt
  /\ \E t \in Verdict : AppendEvent(t)
  /\ \A v \in Workers : ~Engaged(v)'

Requested ==
  /\ CancelPrepared
  /\ status' \in {status, "cancelled"} /\ UNCHANGED startedAt
  /\ AppendEvent("run.cancel.requested")
  /\ \A v \in Workers : Engaged(v)' => Engaged(v)

Story == Silent \/ Claimed \/ Progressed \/ Released \/ Settled \/ Requested

\* The owner is the only worker that writes to the log, and it writes a verdict
\* when it gives the run up for good.
LEMMA WorkTellsStory ==
  ASSUME TypeOK, OneOwner, NEW w \in Workers, WorkerStep(w)
  PROVE  Story
<1> USE DEF Story, Engaged, Owning, OwningPc, Goto, Record, storeVars
<1>0. pc \in [Workers -> WorkerPc]
  BY DEF TypeOK, WorkerTypeOK
<1>1. CASE Receive(w)
  <2>1. CASE \E r \in RetryCount : BeginClaim(w, r)
    BY <1>0, <2>1 DEF BeginClaim, Claimable, Silent
  <2>2. CASE \E r \in RetryCount : Skip(w, r)
    BY <1>0, <2>2 DEF Skip, Silent
  <2> QED
    BY <1>1, <2>1, <2>2 DEF Receive
<1>2. CASE CommitClaim(w)
  BY <1>0, <1>2 DEF CommitClaim, Claimed, OneOwner
<1>3. CASE ClaimCollides(w) \/ Prepare(w)
  BY <1>0, <1>3
  DEF ClaimCollides, Prepare, EnterLoop, ProviderUnavailable, Silent
<1>4. CASE Observe(w)
  BY <1>0, <1>4
  DEF Observe, RefreshRun, SeeFlag, PassFlag, LeaveLoop, Silent
<1>5. CASE Process(w)
  BY <1>0, <1>5
  DEF Process, KeepResult, Evaluate, TemporaryError, OtherException, Silent
<1>6. CASE Handle(w)
  BY <1>0, <1>6 DEF Handle, Recover, Yield, Silent
<1>7. CASE SelectLatest(w) \/ CollisionCaught(w) \/ CollisionEscapes(w)
  BY <1>0, <1>7 DEF SelectLatest, CollisionCaught, CollisionEscapes, Silent
<1>8. CASE CommitProgress(w)
  BY <1>0, <1>8 DEF CommitProgress, Committing, Progressed
<1>9. CASE CommitRetry(w)
  BY <1>9 DEF CommitRetry, Committing, Released
<1>10. CASE CommitCancelled(w) \/ CommitCompleted(w) \/ CommitFailure(w)
  <2>1. pc[w] = "commit" /\ pc' = [pc EXCEPT ![w] = "ack"]
    BY <1>10 DEF CommitCancelled, CommitCompleted, CommitFailure, Committing
  <2>2. \A v \in Workers : ~Engaged(v)'
    BY <1>0, <2>1 DEF OneOwner
  <2>3. /\ status' \in Terminal /\ UNCHANGED startedAt
        /\ \E t \in Verdict : AppendEvent(t)
    BY <1>10
    DEF CommitCancelled, CommitCompleted, CommitFailure, Terminal, Verdict
  <2> QED
    BY <2>1, <2>2, <2>3 DEF Settled
<1>11. CASE Conclude(w)
  BY <1>0, <1>11 DEF Conclude, HandOff, HandOffLost, Ack, Silent
<1> QED
  BY <1>1, <1>2, <1>3, <1>4, <1>5, <1>6, <1>7, <1>8, <1>9, <1>10, <1>11
  DEF WorkerStep, Claim, Commit

\* Every step adds to the story, or is silent.
LEMMA StepTellsStory == TypeOK /\ OneOwner /\ [Next]_vars => Story
<1> SUFFICES ASSUME TypeOK, OneOwner, [Next]_vars PROVE Story
  OBVIOUS
<1> USE DEF storeVars, workerVars
<1>1. ASSUME NEW w \in Workers, Work(w) PROVE Story
  BY <1>1, WorkTellsStory DEF Work
<1>2. ASSUME NEW w \in Workers, Die(w) PROVE Story
  BY <1>2
  DEF Die, Crash, Goto, TypeOK, WorkerTypeOK, Story, Silent, Engaged, OwningPc
<1>3. ASSUME NEW c \in Requests, Ask(c) \/ Answer(c) PROVE Story
  <2>1. CASE CancelCommit(c)
    BY <1>3, <2>1
    DEF Ask, Arrive, LoadRun, Refuse, Answer, CancelCommit, CommitIntent,
        Story, Requested, CancelPrepared, Engaged
  <2>2. CASE Arrive(c) \/ Reply(c)
    BY <1>3, <2>2
    DEF Ask, Answer, Arrive, LoadRun, Refuse, Reply, SelectSequence,
        IntentCollides, SetFlag, FlagSuppressed, Story, Silent, Engaged
  <2> QED
    BY <1>3, <2>1, <2>2 DEF Ask, Answer
<1>4. ASSUME NEW d \in Dispatchers, Relay(d) \/ Drop(d) PROVE Story
  BY <1>4
  DEF Relay, Drop, DispatchStep, PickUp, Check, Send, SendFails, Save,
      Interrupt, Story, Silent, Engaged
<1>5. CASE LoseRedis \/ ExpireFlag \/ UNCHANGED vars
  BY <1>5 DEF LoseRedis, ExpireFlag, vars, Story, Silent, Engaged
<1> QED
  BY <1>1, <1>2, <1>3, <1>4, <1>5 DEF Next

\* The first claim sets the start time and no later one moves it.
LEMMA StartStep ==
  TypeOK /\ StartTimeIsFirstClaim /\ Story => StartTimeIsFirstClaim'
<1> SUFFICES ASSUME TypeOK, StartTimeIsFirstClaim, Story
             PROVE  StartTimeIsFirstClaim'
  OBVIOUS
<1> DEFINE S == {"run.started"}
<1>0. /\ startedAt \in Nat /\ Len(events) \in Nat
      /\ \A n \in Positions(S) : n \in Nat /\ 1 <= n /\ n <= Len(events)
  BY PositionRange DEF TypeOK, StoreTypeOK
<1>1. CASE Claimed
  <2>1. Positions(S)' = Positions(S) \union {Len(events) + 1}
    BY <1>1, AddPosition DEF Claimed, EventType
  <2>2. startedAt' = IF startedAt = 0 THEN Len(events) + 1 ELSE startedAt
    BY <1>1 DEF Claimed, KeptStart, NextSequence, LatestSequence
  <2> QED
    BY <1>0, <2>1, <2>2 DEF StartTimeIsFirstClaim
<1>2. CASE ~Claimed
  <2>1. UNCHANGED startedAt
    BY <1>2
    DEF Story, Silent, Progressed, Released, Settled, Requested
  <2>2. Positions(S)' = Positions(S)
    BY <1>2, SamePositions, AppendPositions
    DEF Story, Silent, Progressed, Released, Settled, Requested, Verdict
  <2> QED
    BY <2>1, <2>2 DEF StartTimeIsFirstClaim
<1> QED
  BY <1>1, <1>2

\* A run that is over and that nobody owns is left alone by every worker, message
\* and dispatcher: only a prepared cancellation still moves it.
THEOREM FinalOnceUnownedAlways == Spec => FinalOnceUnowned
<1>1. TypeOK /\ OneOwner /\ [Next]_vars
        => [(status \in Terminal /\ ~Owned) =>
              (status' = status \/ (CancelPrepared /\ status' = "cancelled"))]_vars
  <2> SUFFICES ASSUME TypeOK, OneOwner, [Next]_vars, status \in Terminal, ~Owned
               PROVE  status' = status \/ (CancelPrepared /\ status' = "cancelled")
    OBVIOUS
  <2>1. \A w \in Workers : ~Engaged(w)
    BY DEF OneOwner, Owned, Owning, Engaged, Terminal
  <2>2. Silent \/ Progressed \/ Requested
    BY <2>1, StepTellsStory DEF Story, Claimed, Released, Settled, Terminal
  <2> QED
    BY <2>2 DEF Silent, Progressed, Requested
<1> QED
  BY <1>1, TypeInit, TypeStep, OwnerInit, OwnerStep, PTL DEF Spec, FinalOnceUnowned

\* started_at stays the time of the first claim, however often the run is
\* released and claimed again.
THEOREM StartTimeIsFirstClaimAlways == Spec => []StartTimeIsFirstClaim
<1>1. Init => StartTimeIsFirstClaim
  BY DEF Init, StoreInit, StartTimeIsFirstClaim, Positions
<1> QED
  BY <1>1, TypeInit, TypeStep, OwnerInit, OwnerStep, StepTellsStory, StartStep,
     PTL
  DEF Spec

\* A run that is queued again was released after its last claim.
ReleaseInv ==
  status = "queued" =>
    \A m \in Positions({"run.started"}) :
      \E k \in Positions({"run.retrying"}) : m < k

\* Only a queued run is claimed, and only a release makes it queued again.
LEMMA ClaimsStep ==
  TypeOK /\ ReleaseInv /\ ClaimsAlternate /\ Story
    => ReleaseInv' /\ ClaimsAlternate'
<1> SUFFICES ASSUME TypeOK, ReleaseInv, ClaimsAlternate, Story
             PROVE  ReleaseInv' /\ ClaimsAlternate'
  OBVIOUS
<1> DEFINE S == {"run.started"}
           R == {"run.retrying"}
<1>0. /\ Len(events) \in Nat
      /\ \A n \in Positions(S) : n \in Nat /\ 1 <= n /\ n <= Len(events)
      /\ \A n \in Positions(R) : n \in Nat /\ 1 <= n /\ n <= Len(events)
  BY PositionRange
<1>1. CASE Claimed
  <2>1. Positions(S)' = Positions(S) \union {Len(events) + 1}
    BY <1>1, AddPosition DEF Claimed, EventType
  <2>2. Positions(R)' = Positions(R)
    BY <1>1, AppendPositions DEF Claimed
  <2>3. status = "queued" /\ status' = "running"
    BY <1>1 DEF Claimed
  <2>4. ReleaseInv'
    BY <2>3 DEF ReleaseInv
  <2>5. ASSUME NEW m \in Positions(S)', NEW n \in Positions(S)', m < n
        PROVE  \E k \in Positions(R)' : m < k /\ k < n
    <3>1. m \in Positions(S)
      BY <1>0, <2>1, <2>5
    <3>2. CASE n \in Positions(S)
      BY <2>2, <2>5, <3>1, <3>2 DEF ClaimsAlternate
    <3>3. CASE n = Len(events) + 1
      <4>1. PICK k \in Positions(R) : m < k
        BY <2>3, <3>1 DEF ReleaseInv
      <4> QED
        BY <1>0, <2>2, <3>3, <4>1
    <3> QED
      BY <2>1, <3>2, <3>3
  <2> QED
    BY <2>4, <2>5 DEF ClaimsAlternate
<1>2. CASE Released
  <2>1. Positions(S)' = Positions(S)
    BY <1>2, AppendPositions DEF Released
  <2>2. Positions(R)' = Positions(R) \union {Len(events) + 1}
    BY <1>2, AddPosition DEF Released, EventType
  <2>3. \A m \in Positions(S)' : m < Len(events) + 1
    BY <1>0, <2>1
  <2> QED
    BY <2>1, <2>2, <2>3 DEF ReleaseInv, ClaimsAlternate
<1>3. CASE Silent \/ Progressed \/ Settled \/ Requested
  <2>1. Positions(S)' = Positions(S) /\ Positions(R)' = Positions(R)
    BY <1>3, SamePositions, AppendPositions
    DEF Silent, Progressed, Settled, Requested, Verdict
  <2>2. status' = "queued" => status = "queued"
    BY <1>3 DEF Silent, Progressed, Settled, Requested, Terminal
  <2> QED
    BY <2>1, <2>2 DEF ReleaseInv, ClaimsAlternate
<1> QED
  BY <1>1, <1>2, <1>3 DEF Story

\* Between two claims of a run lies its release, in every behaviour.
THEOREM ClaimsAlternateAlways == Spec => []ClaimsAlternate
<1>1. Init => ReleaseInv /\ ClaimsAlternate
  BY DEF Init, StoreInit, ReleaseInv, ClaimsAlternate, Positions
<1> QED
  BY <1>1, TypeInit, TypeStep, OwnerInit, OwnerStep, StepTellsStory,
     ClaimsStep, PTL
  DEF Spec

\* A run whose verdict is announced is over, and nobody is about to act on it.
VerdictInv ==
  Positions(Verdict) # {} =>
    /\ status \in Terminal
    /\ \A w \in Workers : ~Engaged(w)

\* The verdict comes from the owner, who thereby ceases to be one.
LEMMA VerdictStep ==
  TypeOK /\ VerdictInv /\ OneVerdict /\ Story => VerdictInv' /\ OneVerdict'
<1> SUFFICES ASSUME TypeOK, VerdictInv, OneVerdict, Story
             PROVE  VerdictInv' /\ OneVerdict'
  OBVIOUS
<1>1. CASE Settled
  <2>1. Positions(Verdict) = {}
    BY <1>1 DEF Settled, VerdictInv
  <2>2. PICK t \in Verdict : AppendEvent(t)
    BY <1>1 DEF Settled
  <2>3. Positions(Verdict)' = {Len(events) + 1}
    BY <2>1, <2>2, AddPosition DEF EventType
  <2> QED
    BY <1>1, <2>3 DEF Settled, VerdictInv, OneVerdict
<1>2. CASE Silent \/ Claimed \/ Progressed \/ Requested
  <2>1. Positions(Verdict)' = Positions(Verdict)
    BY <1>2, SamePositions, AppendPositions
    DEF Silent, Claimed, Progressed, Requested, Verdict
  <2> QED
    BY <1>2, <2>1
    DEF Silent, Claimed, Progressed, Requested, VerdictInv, OneVerdict, Terminal
<1>3. CASE Released
  <2>1. Positions(Verdict)' = {}
    BY <1>3, AppendPositions DEF Released, VerdictInv, Verdict
  <2> QED
    BY <2>1 DEF VerdictInv, OneVerdict
<1> QED
  BY <1>1, <1>2, <1>3 DEF Story

\* A run is announced over at most once.
THEOREM OneVerdictAlways == Spec => []OneVerdict
<1>1. Init => VerdictInv /\ OneVerdict
  BY DEF Init, StoreInit, VerdictInv, OneVerdict, Positions, Verdict
<1> QED
  BY <1>1, TypeInit, TypeStep, OwnerInit, OwnerStep, StepTellsStory,
     VerdictStep, PTL
  DEF Spec

-----------------------------------------------------------------------------
(***************************************************************************)
(* The provider calls that a cancellation comes too late for.               *)
(***************************************************************************)

\* After a late call no worker stands between the refreshed row and the call.
LateInv ==
  lateCalls > 0 => cancelRequested /\ \A w \in Workers : pc[w] # "flag"

\* Whoever refreshes the row after the intent is durable does not go on.
LEMMA WorkKeepsLate ==
  ASSUME TypeOK, OneOwner, LateInv, AtMostOneLateCall,
         NEW w \in Workers, WorkerStep(w), cancelRequested' = cancelRequested
  PROVE  LateInv' /\ AtMostOneLateCall'
<1> USE DEF LateInv, AtMostOneLateCall, Goto, Record
<1>0. pc \in [Workers -> WorkerPc] /\ lateCalls \in Nat
  BY DEF TypeOK, WorkerTypeOK
<1>1. CASE Receive(w)
  BY <1>0, <1>1 DEF Receive, BeginClaim, Skip
<1>2. CASE Claim(w) \/ Prepare(w)
  BY <1>0, <1>2
  DEF Claim, CommitClaim, ClaimCollides, Prepare, EnterLoop,
      ProviderUnavailable
<1>3. CASE RefreshRun(w)
  BY <1>0, <1>3 DEF RefreshRun, IntentSeen
<1>4. CASE PassFlag(w)
  <2>1. lateCalls = 0
    BY <1>0, <1>4 DEF PassFlag
  <2>2. \A v \in Workers : pc'[v] # "flag"
    BY <1>0, <1>4 DEF PassFlag, OneOwner, Engaged, OwningPc
  <2>3. lateCalls' \in {0, 1} /\ (lateCalls' = 1 => cancelRequested)
    BY <1>4, <2>1 DEF PassFlag
  <2> QED
    BY <2>2, <2>3
<1>5. CASE SeeFlag(w) \/ LeaveLoop(w)
  BY <1>0, <1>5 DEF SeeFlag, LeaveLoop
<1>6. CASE Process(w) \/ Handle(w)
  BY <1>0, <1>6
  DEF Process, KeepResult, Evaluate, TemporaryError, OtherException, Handle,
      Recover, Yield
<1>7. CASE Commit(w)
  BY <1>0, <1>7
  DEF Commit, SelectLatest, CommitProgress, CommitCancelled, CommitCompleted,
      CommitRetry, CommitFailure, Committing, CollisionCaught,
      CollisionEscapes
<1>8. CASE Conclude(w)
  BY <1>0, <1>8 DEF Conclude, HandOff, HandOffLost, Ack
<1> QED
  BY <1>1, <1>2, <1>3, <1>4, <1>5, <1>6, <1>7, <1>8 DEF WorkerStep, Observe

\* Nobody else moves a worker to the call.
LEMMA LateStep ==
  TypeOK /\ OneOwner /\ LateInv /\ AtMostOneLateCall /\ [Next]_vars
    => LateInv' /\ AtMostOneLateCall'
<1> SUFFICES ASSUME TypeOK, OneOwner, LateInv, AtMostOneLateCall, [Next]_vars
             PROVE  LateInv' /\ AtMostOneLateCall'
  OBVIOUS
<1>0. cancelRequested => cancelRequested'
  BY IntentStays
<1> USE DEF LateInv, AtMostOneLateCall, storeVars, workerVars
<1>1. ASSUME NEW w \in Workers, Work(w) PROVE LateInv' /\ AtMostOneLateCall'
  <2>1. cancelRequested' = cancelRequested
    BY <1>1, WorkKeepsIntent DEF Work
  <2> QED
    BY <1>1, <2>1, WorkKeepsLate DEF Work
<1>2. ASSUME NEW w \in Workers, Die(w) PROVE LateInv' /\ AtMostOneLateCall'
  BY <1>0, <1>2 DEF Die, Crash, Goto, TypeOK, WorkerTypeOK
<1>3. ASSUME NEW c \in Requests, Ask(c) \/ Answer(c)
      PROVE  LateInv' /\ AtMostOneLateCall'
  BY <1>0, <1>3 DEF Ask, Answer
<1>4. ASSUME NEW d \in Dispatchers, Relay(d) \/ Drop(d)
      PROVE  LateInv' /\ AtMostOneLateCall'
  BY <1>0, <1>4 DEF Relay, Drop
<1>5. CASE LoseRedis \/ ExpireFlag \/ UNCHANGED vars
  BY <1>0, <1>5 DEF LoseRedis, ExpireFlag, vars
<1> QED
  BY <1>1, <1>2, <1>3, <1>4, <1>5 DEF Next

\* At most one provider call begins after the intent is durable, whatever flags
\* are lost and however often the run is claimed again.
THEOREM AtMostOneLateCallAlways == Spec => []AtMostOneLateCall
<1>1. Init => LateInv /\ AtMostOneLateCall
  BY DEF Init, WorkerInit, LateInv, AtMostOneLateCall
<1> QED
  BY <1>1, TypeInit, TypeStep, OwnerInit, OwnerStep, LateStep, PTL DEF Spec

-----------------------------------------------------------------------------
(***************************************************************************)
(* A task comes to its end: the safety part of it.                          *)
(***************************************************************************)

CasesLeft(w) == NumCases + 1 - position[w]

\* How many steps the worker may still take for the message it handles: five for
\* every case left, and the way out.
Fuel(w) ==
  CASE pc[w] = "idle" -> 0
    [] pc[w] = "ack" -> 1
    [] pc[w] = "handoff" -> 2
    [] pc[w] = "recover" -> 5
    [] pc[w] = "claim" -> 5 * NumCases + 7
    [] pc[w] = "start" -> 5 * NumCases + 6
    [] pc[w] = "top" -> 5 * CasesLeft(w) + 5
    [] pc[w] = "flag" -> 5 * CasesLeft(w) + 4
    [] pc[w] = "case" -> 5 * CasesLeft(w) + 3
    [] pc[w] = "read" ->
         IF goal[w] = "progress" THEN 5 * CasesLeft(w) + 2
         ELSE IF goal[w] = "cancelled" THEN 6 ELSE 4
    [] pc[w] = "commit" ->
         IF goal[w] = "progress" THEN 5 * CasesLeft(w) + 1
         ELSE IF goal[w] = "cancelled" THEN 5 ELSE 3

\* A worker never has more to do than its cases account for, each step of its own
\* brings the end nearer, and a step of anybody else changes nothing or ends it.
FuelBurns(w) ==
  pc[w] # "idle" =>
    /\ Fuel(w) \in 1 .. 5 * NumCases + 7
    /\ WorkerStep(w) => Fuel(w)' < Fuel(w)
    /\ ~WorkerStep(w) => Fuel(w)' \in {Fuel(w), 0}

LEMMA FuelBounds ==
  ASSUME TypeOK, LoopInv, NEW w \in Workers
  PROVE  /\ CasesLeft(w) \in 0 .. NumCases
         /\ Fuel(w) \in 0 .. 5 * NumCases + 7
         /\ pc[w] # "idle" => Fuel(w) > 0
<1>0. /\ position[w] \in 1 .. NumCases + 1 /\ NumCases \in Nat \ {0}
      /\ pc[w] \in WorkerPc
      /\ pc[w] \in {"flag", "case"} => position[w] <= NumCases
      /\ Preparing(w, "progress") => position[w] <= NumCases
  BY NumCasesAssumption DEF LoopInv, LoopOk, TypeOK, WorkerTypeOK
<1>1. CasesLeft(w) \in 0 .. NumCases
  BY <1>0 DEF CasesLeft
<1>2. /\ pc[w] \in {"flag", "case"} => CasesLeft(w) >= 1
      /\ Preparing(w, "progress") => CasesLeft(w) >= 1
  BY <1>0 DEF CasesLeft
<1>3. CASE pc[w] \in {"idle", "ack", "handoff", "recover", "claim", "start"}
  <2>1. /\ Fuel(w) \in {0, 1, 2, 5, 5 * NumCases + 7, 5 * NumCases + 6}
        /\ pc[w] # "idle" => Fuel(w) # 0
    BY <1>0, <1>3, SMT DEF Fuel
  <2> QED
    BY ONLY <1>0, <1>1, <2>1, SMT
<1>4. CASE pc[w] \in {"top", "flag", "case"}
  <2>1. Fuel(w) \in {5 * CasesLeft(w) + k : k \in 3 .. 5}
    BY <1>0, <1>1, <1>4, SMT DEF Fuel
  <2> QED
    BY ONLY <1>0, <1>1, <2>1, SMT
<1>5. CASE pc[w] \in {"read", "commit"}
  <2>1. goal[w] = "progress" => CasesLeft(w) >= 1
    BY <1>2, <1>5 DEF Preparing
  <2>2. Fuel(w) \in {5 * CasesLeft(w) + k : k \in 1 .. 2} \cup 3 .. 6
    BY <1>0, <1>1, <1>5, <2>1, SMT DEF Fuel
  <2> QED
    BY ONLY <1>0, <1>1, <2>2, SMT
<1> QED
  BY <1>0, <1>1, <1>3, <1>4, <1>5 DEF WorkerPc, OwningPc

\* Every step of a task brings it closer to its end.
LEMMA WorkBurnsFuel ==
  ASSUME TypeOK, LoopInv, NEW w \in Workers, WorkerStep(w), pc[w] # "idle"
  PROVE  Fuel(w)' < Fuel(w)
<1> USE DEF TypeOK, WorkerTypeOK, Goto, Record, taskVars
<1>0. /\ position[w] \in 1 .. NumCases + 1 /\ NumCases \in Nat \ {0}
      /\ CasesLeft(w) \in 0 .. NumCases
      /\ pc[w] \in {"claim", "start"} => CasesLeft(w) = NumCases
      /\ pc[w] \in {"flag", "case"} => CasesLeft(w) >= 1
      /\ Preparing(w, "progress") => CasesLeft(w) >= 1
  <2>1. LoopOk(w)
    BY DEF LoopInv
  <2> QED
    BY <2>1, NumCasesAssumption DEF LoopOk, CasesLeft
<1>1. CASE Claim(w) \/ Prepare(w)
  <2>1. UNCHANGED <<position>> /\ CasesLeft(w)' = CasesLeft(w)
    BY <1>1
    DEF Claim, CommitClaim, ClaimCollides, Prepare, EnterLoop,
        ProviderUnavailable, CasesLeft
  <2> QED
    BY <1>0, <1>1, <2>1
    DEF Claim, CommitClaim, ClaimCollides, Prepare, EnterLoop,
        ProviderUnavailable, Fuel
<1>2. CASE Observe(w)
  <2>1. CasesLeft(w)' = CasesLeft(w)
    BY <1>2 DEF Observe, RefreshRun, SeeFlag, PassFlag, LeaveLoop, CasesLeft
  <2>2. InLoop(w) => CasesLeft(w) >= 1
    BY <1>0 DEF InLoop, CasesLeft
  <2> QED
    BY <1>0, <1>2, <2>1, <2>2
    DEF Observe, RefreshRun, SeeFlag, PassFlag, LeaveLoop, Fuel
<1>3. CASE Process(w)
  <2>1. CasesLeft(w)' = CasesLeft(w)
    BY <1>3
    DEF Process, KeepResult, Evaluate, TemporaryError, OtherException, CasesLeft
  <2> QED
    BY <1>0, <1>3, <2>1
    DEF Process, KeepResult, Evaluate, TemporaryError, OtherException, Fuel
<1>4. CASE Handle(w)
  BY <1>4 DEF Handle, Recover, Yield, Fuel
<1>5. CASE SelectLatest(w)
  <2>1. CasesLeft(w)' = CasesLeft(w)
    BY <1>5 DEF SelectLatest, CasesLeft
  <2> QED
    BY <1>0, <1>5, <2>1 DEF SelectLatest, Fuel
<1>6. CASE CommitProgress(w)
  <2>1. /\ pc[w] = "commit" /\ goal[w] = "progress" /\ pc'[w] = "top"
        /\ position'[w] = position[w] + 1
    BY <1>6 DEF CommitProgress, Committing
  <2>2. CasesLeft(w)' = CasesLeft(w) - 1
    BY <1>0, <2>1 DEF CasesLeft
  <2> QED
    BY <1>0, <2>1, <2>2 DEF Fuel
<1>7. CASE CommitCancelled(w) \/ CommitCompleted(w) \/ CommitRetry(w)
  BY <1>7 DEF CommitCancelled, CommitCompleted, CommitRetry, Committing, Fuel
<1>8. CASE CommitFailure(w)
  BY <1>8 DEF CommitFailure, Committing, FailureReason, Fuel
<1>9. CASE CollisionCaught(w) \/ CollisionEscapes(w)
  <2>1. goal[w] = "progress" /\ pc[w] = "commit" => CasesLeft(w) >= 1
    BY <1>0 DEF Preparing
  <2> QED
    BY <1>0, <1>9, <2>1 DEF CollisionCaught, CollisionEscapes, Guarded, Fuel
<1>10. CASE Conclude(w)
  BY <1>10 DEF Conclude, HandOff, HandOffLost, Ack, Fuel
<1>11. ~Receive(w)
  BY DEF Receive, BeginClaim, Skip
<1> QED
  BY <1>1, <1>2, <1>3, <1>4, <1>5, <1>6, <1>7, <1>8, <1>9, <1>10, <1>11
  DEF WorkerStep, Commit

LEMMA FuelStep ==
  TypeOK /\ LoopInv /\ [Next]_vars => \A w \in Workers : FuelBurns(w)
<1> SUFFICES ASSUME TypeOK, LoopInv, [Next]_vars, NEW w \in Workers, pc[w] # "idle"
             PROVE  /\ Fuel(w) \in 1 .. 5 * NumCases + 7
                    /\ WorkerStep(w) => Fuel(w)' < Fuel(w)
                    /\ ~WorkerStep(w) => Fuel(w)' \in {Fuel(w), 0}
  BY DEF FuelBurns
<1>1. Fuel(w) \in 1 .. 5 * NumCases + 7
  BY FuelBounds, NumCasesAssumption
<1>2. WorkerStep(w) => Fuel(w)' < Fuel(w)
  BY WorkBurnsFuel
<1>3. \/ pc'[w] = pc[w] /\ goal'[w] = goal[w] /\ position'[w] = position[w]
      \/ pc'[w] = "idle"
      \/ WorkerStep(w)
  <2>1. ASSUME NEW v \in Workers, Work(v), v # w
        PROVE  pc'[w] = pc[w] /\ goal'[w] = goal[w] /\ position'[w] = position[w]
    BY <2>1, WorkFrame DEF Work
  <2>2. Die(w) => pc'[w] = "idle"
    BY DEF Die, Crash, Goto, TypeOK, WorkerTypeOK
  <2>3. ASSUME \/ \E v \in Workers : Die(v) /\ v # w
               \/ \E c \in Requests : Ask(c) \/ Answer(c)
               \/ \E d \in Dispatchers : Relay(d) \/ Drop(d)
               \/ LoseRedis
               \/ ExpireFlag
               \/ UNCHANGED vars
        PROVE  pc'[w] = pc[w] /\ goal'[w] = goal[w] /\ position'[w] = position[w]
    BY <2>3, OthersKeepLoop
  <2>4. Work(w) => WorkerStep(w)
    BY DEF Work
  <2> QED
    BY <2>1, <2>2, <2>3, <2>4 DEF Next
<1>4. pc'[w] = pc[w] /\ goal'[w] = goal[w] /\ position'[w] = position[w]
        => Fuel(w)' = Fuel(w)
  BY DEF Fuel, CasesLeft
<1>5. pc'[w] = "idle" => Fuel(w)' = 0
  BY DEF Fuel
<1> QED
  BY <1>1, <1>2, <1>3, <1>4, <1>5

\* Whatever collides with its commits, is cancelled, lost or retried, a worker is
\* done with the message it took after at most five steps for each case and seven
\* more: the argument behind WorkersComeBack (engine.py:34-167, tasks.py:47-62).
THEOREM TasksAreBounded == Spec => [][\A w \in Workers : FuelBurns(w)]_vars
<1>1. TypeOK /\ LoopInv /\ [Next]_vars => [\A w \in Workers : FuelBurns(w)]_vars
  BY FuelStep
<1> QED
  BY <1>1, TypeInit, TypeStep, OwnerInit, OwnerStep, LoopInit, LoopStep, PTL DEF Spec

-----------------------------------------------------------------------------
(***************************************************************************)
(* The system implements the contract of a run.                             *)
(***************************************************************************)

\* Every step of a worker is one of the contract's, or invisible to it.
LEMMA WorkImplements ==
  ASSUME TypeOK, OneOwner, LoopInv, IntentInv,
         NEW w \in Workers, WorkerStep(w)
  PROVE  [Contract!ContractNext]_(Contract!contractVars)
<1> USE DEF Contract!ContractNext, Contract!contractVars, Owned, Goto, Record,
      storeVars
<1>0. pc \in [Workers -> WorkerPc]
  BY DEF TypeOK, WorkerTypeOK
<1>1. ASSUME UNCHANGED <<status, cancelRequested, results>>,
             Owning(w)' = Owning(w)
      PROVE  UNCHANGED Contract!contractVars
  <2>1. Owned' = Owned
    BY <1>1, WorkFrame DEF Owning
  <2>2. Done' = Done
    BY <1>1 DEF Done, Cases
  <2> QED
    BY <1>1, <2>1, <2>2
<1>2. ASSUME ~Owning(w)', Owning(w) PROVE Owned /\ ~Owned'
  BY <1>2, WorkFrame DEF OneOwner, Engaged, Owning
<1> USE DEF Owning, OwningPc
<1>3. CASE Receive(w)
  BY <1>0, <1>1, <1>3 DEF Receive, BeginClaim, Skip
<1>4. CASE CommitClaim(w)
  <2>1. ~Owned /\ status = "queued"
    BY <1>4 DEF CommitClaim, OneOwner, Engaged
  <2>2. Owned' /\ Done' = Done
    BY <1>0, <1>4 DEF CommitClaim, Done, Cases
  <2> QED
    BY <1>4, <2>1, <2>2 DEF CommitClaim, Contract!Claim
<1>5. CASE ClaimCollides(w)
  BY <1>0, <1>1, <1>5 DEF ClaimCollides
<1>6. CASE Prepare(w)
  BY <1>0, <1>1, <1>6 DEF Prepare, EnterLoop, ProviderUnavailable
<1>7. CASE Observe(w)
  BY <1>0, <1>1, <1>7
  DEF Observe, RefreshRun, SeeFlag, PassFlag, LeaveLoop
<1>8. CASE Process(w)
  BY <1>0, <1>1, <1>8
  DEF Process, KeepResult, Evaluate, TemporaryError, OtherException
<1>9. CASE Recover(w) \/ SelectLatest(w) \/ CollisionCaught(w)
  BY <1>0, <1>1, <1>9 DEF Recover, SelectLatest, CollisionCaught
<1>10. CASE Yield(w) \/ CollisionEscapes(w)
  <2>1. Owned /\ ~Owned' /\ UNCHANGED storeVars
    BY <1>0, <1>2, <1>10 DEF Yield, CollisionEscapes
  <2>2. Done' = Done
    BY <2>1 DEF Done, Cases
  <2> QED
    BY <2>1, <2>2 DEF Contract!Abandon
<1>11. CASE CommitProgress(w)
  <2>1. Owned /\ Owned' /\ UNCHANGED <<status, cancelRequested>>
    BY <1>0, <1>11 DEF CommitProgress, Committing
  <2>2. CASE pending[w] = "none"
    <3>1. Done' = Done
      BY <1>11, <2>2 DEF CommitProgress, StoreResult, Done, Cases
    <3> QED
      BY <2>1, <3>1
  <2>3. CASE pending[w] # "none"
    <3>1. position[w] \in Cases /\ results[position[w]] = "none"
      BY <1>11, <2>3
      DEF CommitProgress, Committing, LoopInv, LoopOk, Preparing, TypeOK,
          WorkerTypeOK, Cases
    <3>2. Done' = Done \union {position[w]}
      BY <1>11, <2>3, <3>1
      DEF CommitProgress, StoreResult, Done, Cases, TypeOK, StoreTypeOK
    <3>3. position[w] \in Cases \ Done
      BY <3>1 DEF Done
    <3> QED
      BY <2>1, <3>2, <3>3 DEF Contract!Checkpoint
  <2> QED
    BY <2>2, <2>3
<1>12. CASE CommitCancelled(w)
  <2>1. Owned /\ ~Owned'
    BY <1>0, <1>2, <1>12 DEF CommitCancelled, Committing
  <2>2. cancelRequested /\ status' = "cancelled" /\ Done' = Done
    BY <1>12 DEF CommitCancelled, Committing, IntentInv, Done, Cases
  <2> QED
    BY <1>12, <2>1, <2>2 DEF CommitCancelled, Contract!Settle
<1>13. CASE CommitCompleted(w)
  <2>1. Owned /\ ~Owned'
    BY <1>0, <1>2, <1>13 DEF CommitCompleted, Committing
  <2>2. Done = Cases /\ Done' = Done
    BY <1>13, NumCasesAssumption
    DEF CommitCompleted, Committing, LoopInv, LoopOk, Preparing, Done, Cases,
        TypeOK, WorkerTypeOK
  <2> QED
    BY <1>13, <2>1, <2>2 DEF CommitCompleted, Contract!Settle
<1>14. CASE CommitRetry(w)
  <2>1. Owned /\ ~Owned' /\ Done' = Done
    BY <1>0, <1>2, <1>14 DEF CommitRetry, Committing, Done, Cases
  <2> QED
    BY <1>14, <2>1 DEF CommitRetry, Contract!Release
<1>15. CASE CommitFailure(w)
  <2>1. Owned /\ ~Owned' /\ Done' = Done
    BY <1>0, <1>2, <1>15 DEF CommitFailure, Committing, Done, Cases
  <2> QED
    BY <1>15, <2>1 DEF CommitFailure, Contract!Settle
<1>16. CASE Conclude(w)
  BY <1>0, <1>1, <1>16 DEF Conclude, HandOff, HandOffLost, Ack
<1> QED
  BY <1>3, <1>4, <1>5, <1>6, <1>7, <1>8, <1>9, <1>10, <1>11, <1>12, <1>13,
     <1>14, <1>15, <1>16
  DEF WorkerStep, Claim, Handle, Commit

\* Every step of the system is one of the contract's, or invisible to it.
LEMMA StepImplements ==
  TypeOK /\ OneOwner /\ LoopInv /\ IntentInv /\ [Next]_vars
    => [Contract!ContractNext]_(Contract!contractVars)
<1> SUFFICES ASSUME TypeOK, OneOwner, LoopInv, IntentInv, [Next]_vars
             PROVE  [Contract!ContractNext]_(Contract!contractVars)
  OBVIOUS
<1> USE DEF Contract!ContractNext, Contract!contractVars, Owned, storeVars,
      workerVars
<1>0. ASSUME UNCHANGED <<status, cancelRequested, results, pc>>
      PROVE  UNCHANGED Contract!contractVars
  BY <1>0 DEF Owning, Done, Cases
<1>1. ASSUME NEW w \in Workers, Work(w)
      PROVE  [Contract!ContractNext]_(Contract!contractVars)
  BY <1>1, WorkImplements DEF Work
<1>2. ASSUME NEW w \in Workers, Die(w)
      PROVE  [Contract!ContractNext]_(Contract!contractVars)
  <2>1. UNCHANGED <<status, cancelRequested, results>> /\ Done' = Done
    BY <1>2 DEF Die, Crash, Done, Cases
  <2>2. ~Owning(w)' /\ \A v \in Workers : v # w => Owning(v)' = Owning(v)
    BY <1>2 DEF Die, Crash, Goto, Owning, OwningPc, TypeOK, WorkerTypeOK
  <2>3. CASE Owning(w)
    <3>1. Owned /\ ~Owned'
      BY <2>2, <2>3 DEF OneOwner, Engaged, Owning
    <3> QED
      BY <2>1, <3>1 DEF Contract!Abandon
  <2>4. CASE ~Owning(w)
    <3>1. Owned' = Owned
      BY <2>2, <2>4
    <3> QED
      BY <2>1, <3>1
  <2> QED
    BY <2>3, <2>4
<1>3. ASSUME NEW c \in Requests, Ask(c) \/ Answer(c)
      PROVE  [Contract!ContractNext]_(Contract!contractVars)
  <2>1. UNCHANGED <<results, pc>> /\ Owned' = Owned /\ Done' = Done
    BY <1>3
    DEF Ask, Arrive, LoadRun, Refuse, Answer, Reply, SelectSequence,
        IntentCollides, SetFlag, FlagSuppressed, CancelCommit, CommitIntent,
        Owning, Done, Cases
  <2>2. CASE CommitIntent(c)
    BY <2>1, <2>2 DEF CommitIntent, Contract!RequestCancel
  <2>3. CASE Arrive(c) \/ Reply(c)
    BY <2>1, <2>3
    DEF Arrive, LoadRun, Refuse, Reply, SelectSequence, IntentCollides,
        SetFlag, FlagSuppressed
  <2> QED
    BY <1>3, <2>2, <2>3 DEF Ask, Answer, CancelCommit
<1>4. ASSUME NEW d \in Dispatchers, Relay(d) \/ Drop(d)
      PROVE  UNCHANGED Contract!contractVars
  BY <1>0, <1>4
  DEF Relay, Drop, DispatchStep, PickUp, Check, Send, SendFails, Save,
      Interrupt
<1>5. CASE LoseRedis \/ ExpireFlag \/ UNCHANGED vars
  BY <1>0, <1>5 DEF LoseRedis, ExpireFlag, vars
<1> QED
  BY <1>1, <1>2, <1>3, <1>4, <1>5 DEF Next

\* Workers, requests, dispatcher calls and faults together implement the contract
\* of a run: one owner at a time, results that only grow, and completion only
\* when every case is done.
THEOREM ImplementsContractAlways == Spec => ImplementsContract
<1>1. Init => Contract!ContractInit
  BY DEF Init, StoreInit, WorkerInit, Contract!ContractInit, Owned, Owning,
     OwningPc, Done
<1>2. Init => IntentInv /\ CancellationIsDurable
  BY DEF Init, StoreInit, BrokerInit, WorkerInit, CancelInit, IntentInv,
     CancellationIsDurable, Positions
<1> QED
  BY <1>1, <1>2, TypeInit, TypeStep, OwnerInit, OwnerStep, LoopInit, LoopStep,
     IntentStep, StepImplements, PTL
  DEF Spec, ImplementsContract, Contract!ContractSpec

=============================================================================
