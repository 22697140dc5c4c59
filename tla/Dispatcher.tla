----------------------------- MODULE Dispatcher -----------------------------
(***************************************************************************)
(* dispatch_pending: the outbox that turns the RunDispatch row committed     *)
(* with the run into a Celery message.  create_run calls it inline and the   *)
(* beat of every worker container calls it every five seconds, so several    *)
(* calls may work on the same row.                                          *)
(***************************************************************************)
EXTENDS RunStore, Broker

CONSTANTS
  Dispatchers,      \* concurrent callers of dispatch_pending
  MaxInterruptions  \* bound on calls that die before they commit

ASSUME DispatcherAssumption == MaxInterruptions \in Nat

VARIABLES
  dispatch,       \* RunDispatch.state
  dpc,            \* where each call is in its loop over the pending rows
  interruptions   \* calls that died so far

dispatchVars == <<dispatch, dpc, interruptions>>

DispatchState == {"pending", "dispatched", "discarded"}
DispatcherPc == {"idle", "check", "send", "sent", "discard"}

DispatchInit ==
  /\ dispatch = "pending"
  /\ dpc = [d \in Dispatchers |-> "idle"]
  /\ interruptions = 0

DispatchTypeOK ==
  /\ dispatch \in DispatchState
  /\ dpc \in [Dispatchers -> DispatcherPc]
  /\ interruptions \in Nat

Move(d, label) == dpc' = [dpc EXCEPT ![d] = label]

\* Wrong filter: a run that never started is not looked at.
PendingAndStarted == dispatch = "pending" /\ startedAt # 0

\* The filter of the query over the dispatch rows.
Pending == dispatch = "pending"

PickUp(d) ==
  /\ dpc[d] = "idle"
  /\ Pending
  /\ Move(d, "check")
  /\ UNCHANGED <<storeVars, brokerVars, dispatch, interruptions>>

\* The row of a run that nobody has to be told about any more.
Obsolete == status # "queued"

\* db.get(EvaluationRun)
Check(d) ==
  /\ dpc[d] = "check"
  /\ Move(d, IF Obsolete THEN "discard" ELSE "send")
  /\ UNCHANGED <<storeVars, brokerVars, dispatch, interruptions>>

\* evaluate_run_task.delay
Send(d) ==
  /\ dpc[d] = "send"
  /\ Publish(0)
  /\ Move(d, "sent")
  /\ UNCHANGED <<storeVars, cancelFlag, redisFaults, lost, dispatch,
                 interruptions>>

\* Redis refuses: the attempt and its error are stored, the row stays pending.
SendFails(d) ==
  /\ dpc[d] = "send"
  /\ RedisFault
  /\ Move(d, "idle")
  /\ UNCHANGED <<storeVars, queue, cancelFlag, lost, dispatch, interruptions>>

\* What the commit at the end of the call makes of the row.
DispatchOutcome(d) == IF dpc[d] = "sent" THEN "dispatched" ELSE "discarded"

Save(d) ==
  /\ dpc[d] \in {"sent", "discard"}
  /\ dispatch' = DispatchOutcome(d)
  /\ Move(d, "idle")
  /\ UNCHANGED <<storeVars, brokerVars, interruptions>>

\* The process dies: what it published stays, what it would have saved is lost.
Interrupt(d) ==
  /\ dpc[d] # "idle"
  /\ interruptions < MaxInterruptions
  /\ interruptions' = interruptions + 1
  /\ Move(d, "idle")
  /\ UNCHANGED <<storeVars, brokerVars, dispatch>>

DispatchStep(d) ==
  PickUp(d) \/ Check(d) \/ Send(d) \/ SendFails(d) \/ Save(d)

=============================================================================
