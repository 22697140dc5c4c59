---------------------------- MODULE StreamProofs ----------------------------
(***************************************************************************)
(* The event stream replays the log exactly, for every number of workers,    *)
(* cancellations, crashes and broken connections.                           *)
(***************************************************************************)
EXTENDS StreamedRun, EvalPulseProofs

USE StreamAssumption

\* A step of the system leaves the log alone or puts one event at its end.
LogStep == events' = events \/ \E t \in EventType : AppendEvent(t)

\* A worker only ever adds events to the log.
LEMMA WorkLogs ==
  ASSUME NEW w \in Workers, WorkerStep(w)
  PROVE  LogStep
<1> USE DEF LogStep, storeVars, Committing
<1>1. CASE Receive(w) \/ Claim(w)
  <2>1. "run.started" \in EventType
    BY DEF EventType
  <2> QED
    BY <1>1, <2>1
    DEF Receive, BeginClaim, Skip, Claim, CommitClaim, ClaimCollides
<1>2. CASE Prepare(w) \/ Observe(w)
  BY <1>2
  DEF Prepare, EnterLoop, ProviderUnavailable, Observe, RefreshRun, SeeFlag,
      PassFlag, LeaveLoop
<1>3. CASE Process(w) \/ Handle(w)
  BY <1>3
  DEF Process, KeepResult, Evaluate, TemporaryError, OtherException, Handle,
      Recover, Yield
<1>4. CASE Commit(w)
  <2>1. {"run.progress", "run.cancelled", "run.completed", "run.retrying",
         "run.failed"} \subseteq EventType
    BY DEF EventType, Verdict
  <2> QED
    BY <1>4, <2>1
    DEF Commit, SelectLatest, CommitProgress, CommitCancelled,
        CommitCompleted, CommitRetry, CommitFailure, CollisionCaught,
        CollisionEscapes
<1>5. CASE Conclude(w)
  BY <1>5 DEF Conclude, HandOff, HandOffLost, Ack
<1> QED
  BY <1>1, <1>2, <1>3, <1>4, <1>5 DEF WorkerStep

\* So does every other process, and a fault touches no event.
LEMMA SystemLogs == [Next]_vars => LogStep
<1> SUFFICES ASSUME [Next]_vars PROVE LogStep
  OBVIOUS
<1> USE DEF LogStep, storeVars
<1>1. ASSUME NEW w \in Workers, Work(w) \/ Die(w)
      PROVE  LogStep
  BY <1>1, WorkLogs DEF Work, Die, Crash
<1>2. ASSUME NEW c \in Requests, Ask(c) \/ Answer(c)
      PROVE  LogStep
  <2>1. "run.cancel.requested" \in EventType
    BY DEF EventType
  <2> QED
    BY <1>2, <2>1
    DEF Ask, Arrive, LoadRun, Refuse, Answer, Reply, SelectSequence,
        IntentCollides, SetFlag, FlagSuppressed, CancelCommit, CommitIntent
<1>3. ASSUME NEW d \in Dispatchers, Relay(d) \/ Drop(d)
      PROVE  LogStep
  BY <1>3
  DEF Relay, Drop, DispatchStep, PickUp, Check, Send, SendFails, Save,
      Interrupt
<1>4. CASE LoseRedis \/ ExpireFlag \/ UNCHANGED vars
  BY <1>4 DEF LoseRedis, ExpireFlag, vars
<1> QED
  BY <1>1, <1>2, <1>3, <1>4 DEF Next

-----------------------------------------------------------------------------
\* What an open connection knows: its cursor is the client's last id, and the
\* batch it has selected lies between the cursor and the end of the log.
StreamInv ==
  /\ StreamTypeOK
  /\ ReplayIsExact
  /\ conn \in Open => cursor = Len(received)
  /\ conn \in {"selected", "sending"} =>
       cursor <= upto /\ upto <= LatestSequence

\* Before the first connection nothing was received.
LEMMA StreamBegins == StreamedInit => StreamInv
BY DEF StreamedInit, Init, StoreInit, StreamInit, StreamInv, StreamTypeOK,
       ReplayIsExact, Open, Status, LatestSequence

\* The log only grows, so what was received or selected stays in it.
LEMMA StreamSurvivesLog ==
  ASSUME TypeOK, TypeOK', StreamInv, LogStep, UNCHANGED streamVars
  PROVE  StreamInv'
<1> USE DEF TypeOK, StoreTypeOK
<1>1. Len(events) \in Nat /\ Len(events') \in Nat /\ Len(events) <= Len(events')
  <2>1. CASE events' = events
    BY <2>1
  <2>2. ASSUME NEW t \in EventType, AppendEvent(t)
        PROVE  Len(events') = Len(events) + 1
    BY <2>2 DEF AppendEvent
  <2> QED
    BY <2>1, <2>2 DEF LogStep
<1> QED
  BY <1>1
  DEF StreamInv, StreamTypeOK, ReplayIsExact, LatestSequence, streamVars

\* What the client was sent last is the length of what it has.
LEMMA LastIdIsLength ==
  ASSUME StreamInv
  PROVE  LastEventId = Len(received)
<1>1. received \in Seq(Nat) /\ \A n \in DOMAIN received : received[n] = n
  BY DEF StreamInv, StreamTypeOK, ReplayIsExact
<1>2. CASE received = <<>>
  BY <1>2 DEF LastEventId
<1>3. CASE received # <<>>
  <2>1. Len(received) \in DOMAIN received
    BY <1>1, <1>3
  <2> QED
    BY <1>1, <1>3, <2>1 DEF LastEventId
<1> QED
  BY <1>2, <1>3

\* The server sends the next event of the log and no other.
LEMMA StreamMoves ==
  ASSUME TypeOK, StreamInv, StreamStep \/ Cut
  PROVE  StreamInv'
<1> USE DEF StreamTypeOK, storeVars
<1>0. /\ StreamTypeOK /\ ReplayIsExact
      /\ LatestSequence \in Nat /\ Len(received) \in Nat
  BY DEF StreamInv, TypeOK, StoreTypeOK, LatestSequence
<1>1. CASE Connect
  BY <1>0, <1>1, LastIdIsLength
  DEF Connect, StreamInv, ReplayIsExact, LatestSequence, Open
<1>2. CASE SelectEvents
  BY <1>0, <1>2 DEF SelectEvents, StreamInv, ReplayIsExact, LatestSequence, Open
<1>3. CASE ReadState
  BY <1>0, <1>3
  DEF ReadState, StreamInv, ReplayIsExact, LatestSequence, Open, TypeOK,
      StoreTypeOK
<1>4. CASE SendEvent
  <2>1. /\ cursor = Len(received) /\ cursor < upto /\ upto <= LatestSequence
        /\ conn = "sending" /\ UNCHANGED <<conn, events, upto>>
        /\ cursor' = cursor + 1
        /\ received' = Append(received, cursor + 1)
    BY <1>4 DEF SendEvent, StreamInv, Open
  <2>2. received' \in Seq(Nat) /\ Len(received') = Len(received) + 1
    BY <1>0, <2>1
  <2>3. \A n \in DOMAIN received' : received'[n] = n
    BY <1>0, <2>1, <2>2 DEF ReplayIsExact
  <2>4. ReplayIsExact'
    BY <1>0, <2>1, <2>2, <2>3 DEF ReplayIsExact, LatestSequence
  <2> QED
    BY <1>0, <1>4, <2>1, <2>2, <2>4 DEF SendEvent, StreamInv, LatestSequence
<1>5. CASE EndPass
  BY <1>0, <1>5 DEF EndPass, StreamInv, ReplayIsExact, LatestSequence, Open
<1>6. CASE Cut
  BY <1>0, <1>6 DEF Cut, StreamInv, ReplayIsExact, LatestSequence, Open
<1> QED
  BY <1>1, <1>2, <1>3, <1>4, <1>5, <1>6 DEF StreamStep

\* A subscriber moves nothing of the system.
LEMMA FollowingIsInvisible == [StreamedNext]_allVars => [Next]_vars
BY DEF StreamedNext, RunStep, Follow, Break, StreamStep, Connect, SelectEvents,
       ReadState, SendEvent, EndPass, Cut, Unstreamed, allVars, vars

\* Watching a run does not change it: the system with a subscriber is the system,
\* so what every behaviour of it keeps, it keeps while it is watched (the stream
\* only selects, in transactions of its own; api.py:576-595).
THEOREM StreamedImplementsRun == StreamedSpec => Spec
<1>1. StreamedInit => Init
  BY DEF StreamedInit
<1> QED
  BY <1>1, FollowingIsInvisible, PTL DEF StreamedSpec, Spec

\* A client that comes back with the last id it received gets every event of the
\* log once and in order, whatever the system commits and however often the
\* connection breaks (api.py:565-589).
THEOREM ReplayIsExactAlways == StreamedSpec => []ReplayIsExact
<1>1. StreamedInit => TypeOK /\ StreamInv
  BY TypeInit, StreamBegins DEF StreamedInit
<1>2. TypeOK /\ StreamInv /\ [StreamedNext]_allVars => TypeOK' /\ StreamInv'
  <2> SUFFICES ASSUME TypeOK, StreamInv, [StreamedNext]_allVars
               PROVE  TypeOK' /\ StreamInv'
    OBVIOUS
  <2>1. TypeOK' /\ [Next]_vars
    BY FollowingIsInvisible, TypeStep
  <2>2. CASE RunStep \/ UNCHANGED allVars
    BY <2>1, <2>2, SystemLogs, StreamSurvivesLog DEF RunStep, allVars
  <2>3. CASE Follow \/ Break
    <3>1. StreamStep \/ Cut
      BY <2>3 DEF Follow, Break
    <3>2. StreamInv'
      BY <3>1, StreamMoves
    <3> QED
      BY <2>1, <3>2
  <2> QED
    BY <2>1, <2>2, <2>3 DEF StreamedNext
<1>3. StreamInv => ReplayIsExact
  BY DEF StreamInv
<1> QED
  BY <1>1, <1>2, <1>3, PTL DEF StreamedSpec

=============================================================================
