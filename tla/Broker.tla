------------------------------- MODULE Broker -------------------------------
(***************************************************************************)
(* What Redis keeps for one run: the Celery messages waiting for a worker   *)
(* and the cancellation flag.  Redis runs without persistence, so a restart *)
(* forgets both.  Modelled from how the code uses it.                       *)
(***************************************************************************)
EXTENDS Naturals

CONSTANTS
  MaxRetries,     \* max_retries of evaluate_run_task (3 in the code)
  MaxRedisFaults  \* bound on the times Redis restarts or does not answer

ASSUME BrokerAssumption ==
  /\ MaxRetries \in Nat
  /\ MaxRedisFaults \in Nat

VARIABLES
  queue,        \* queue[r]: waiting messages whose request.retries is r
  cancelFlag,   \* the key evalpulse:cancel:<run> exists
  redisFaults,  \* times Redis restarted or did not answer so far
  lost          \* history: Redis has lost a message a worker was to get

brokerVars == <<queue, cancelFlag, redisFaults, lost>>

RetryCount == 0 .. MaxRetries

BrokerInit ==
  /\ queue = [r \in RetryCount |-> 0]
  /\ cancelFlag = FALSE
  /\ redisFaults = 0
  /\ lost = FALSE

BrokerTypeOK ==
  /\ queue \in [RetryCount -> Nat]
  /\ cancelFlag \in BOOLEAN
  /\ redisFaults \in Nat
  /\ lost \in BOOLEAN

Publish(r) == queue' = [queue EXCEPT ![r] = @ + 1]

\* Off by one: an empty queue is read as if a message waited in it.
WaitingOrEmpty(r) == queue[r] >= 0

Waiting(r) == queue[r] > 0

Take(r) ==
  /\ Waiting(r)
  /\ queue' = [queue EXCEPT ![r] = @ - 1]

RedisFault ==
  /\ redisFaults < MaxRedisFaults
  /\ redisFaults' = redisFaults + 1

=============================================================================
