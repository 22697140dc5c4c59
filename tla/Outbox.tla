------------------------------- MODULE Outbox -------------------------------
(***************************************************************************)
(* dispatch_pending over the rows of many runs.  Every submission calls it   *)
(* with limit 1 and the beat of each worker container with limit 100; a call *)
(* loads the pending rows, walks them one by one, publishes, and writes all  *)
(* it changed in one commit at its end.                                     *)
(***************************************************************************)
EXTENDS Naturals, Sequences, SequencesExt

CONSTANTS
  Runs,           \* runs that may be submitted
  Callers,        \* concurrent calls of dispatch_pending
  MaxRefusals,    \* bound on the publications Redis refuses
  MaxInterrupts   \* bound on the calls that die before their commit

ASSUME OutboxAssumption ==
  /\ MaxRefusals \in Nat
  /\ MaxInterrupts \in Nat

VARIABLES
  rows,        \* the runs of the RunDispatch rows in the order of created_at, which
               \* the commit stamps: taken as the order of the commits
  rowState,    \* RunDispatch.state: "pending", "dispatched" or "discarded"
  unqueued,    \* set of runs whose status is "queued" no more
  published,   \* set of runs for which a message was published
  call,        \* where each call is: "idle", "walk" or "publish"
  batch,       \* sequence of rows each call has loaded and not finished
  told,        \* set of rows each call has published, not committed
  obsolete,    \* set of rows each call has discarded, not committed
  refusals, interrupts

outboxVars ==
  <<rows, rowState, unqueued, published, call, batch, told, obsolete,
    refusals, interrupts>>

OutboxInit ==
  /\ rows = <<>>
  /\ rowState = [r \in Runs |-> "pending"]
  /\ unqueued = {}
  /\ published = {}
  /\ call = [d \in Callers |-> "idle"]
  /\ batch = [d \in Callers |-> <<>>]
  /\ told = [d \in Callers |-> {}]
  /\ obsolete = [d \in Callers |-> {}]
  /\ refusals = 0
  /\ interrupts = 0

Pending == SelectSeq(rows, LAMBDA r : rowState[r] = "pending")

\* Leaves the oldest row of a batch to the inline call of its own request.
LaterRows(limit) == SubSeq(Pending, IF limit = 1 THEN 1 ELSE 2, Len(Pending))

\* The oldest pending rows, at most limit of them.
PendingRows(limit) ==
  SubSeq(Pending, 1, IF limit < Len(Pending) THEN limit ELSE Len(Pending))

Load(d, limit) ==
  /\ call[d] = "idle"
  /\ PendingRows(limit) # <<>>
  /\ batch' = [batch EXCEPT ![d] = PendingRows(limit)]
  /\ call' = [call EXCEPT ![d] = "walk"]
  /\ UNCHANGED <<rows, rowState, unqueued, published, told, obsolete,
                 refusals, interrupts>>

\* The row at hand; its run is loaded anew.
Discard(d) ==
  /\ call[d] = "walk"
  /\ batch[d] # <<>>
  /\ Head(batch[d]) \in unqueued
  /\ obsolete' = [obsolete EXCEPT ![d] = @ \union {Head(batch[d])}]
  /\ batch' = [batch EXCEPT ![d] = Tail(@)]
  /\ UNCHANGED <<rows, rowState, unqueued, published, call, told, refusals,
                 interrupts>>

StillQueued(d) ==
  /\ call[d] = "walk"
  /\ batch[d] # <<>>
  /\ Head(batch[d]) \notin unqueued
  /\ call' = [call EXCEPT ![d] = "publish"]
  /\ UNCHANGED <<rows, rowState, unqueued, published, batch, told, obsolete,
                 refusals, interrupts>>

\* evaluate_run_task.delay succeeds.
Tell(d) ==
  /\ call[d] = "publish"
  /\ published' = published \union {Head(batch[d])}
  /\ told' = [told EXCEPT ![d] = @ \union {Head(batch[d])}]
  /\ batch' = [batch EXCEPT ![d] = Tail(@)]
  /\ call' = [call EXCEPT ![d] = "walk"]
  /\ UNCHANGED <<rows, rowState, unqueued, obsolete, refusals, interrupts>>

\* Marks the row before it publishes.
ToldAnyway(d) == told[d] \union {Head(batch[d])}

\* The row of a refused publication stays pending.
ToldAfterRefusal(d) == told[d]

\* Redis refuses one publication; the loop goes on with the next row.
RefuseOne(d) ==
  /\ call[d] = "publish"
  /\ refusals < MaxRefusals
  /\ refusals' = refusals + 1
  /\ told' = [told EXCEPT ![d] = ToldAfterRefusal(d)]
  /\ batch' = [batch EXCEPT ![d] = Tail(@)]
  /\ call' = [call EXCEPT ![d] = "walk"]
  /\ UNCHANGED <<rows, rowState, unqueued, published, obsolete, interrupts>>

EndCall(d) ==
  /\ call' = [call EXCEPT ![d] = "idle"]
  /\ batch' = [batch EXCEPT ![d] = <<>>]
  /\ told' = [told EXCEPT ![d] = {}]
  /\ obsolete' = [obsolete EXCEPT ![d] = {}]

\* db.commit() at the end: only the rows this call changed are written.
SaveAll(d) ==
  /\ call[d] = "walk"
  /\ batch[d] = <<>>
  /\ rowState' = [r \in Runs |->
       CASE r \in told[d] -> "dispatched"
         [] r \in obsolete[d] -> "discarded"
         [] OTHER -> rowState[r]]
  /\ EndCall(d)
  /\ UNCHANGED <<rows, unqueued, published, refusals, interrupts>>

\* The process dies: what was published stays, nothing is written.
InterruptCall(d) ==
  /\ call[d] # "idle"
  /\ interrupts < MaxInterrupts
  /\ interrupts' = interrupts + 1
  /\ EndCall(d)
  /\ UNCHANGED <<rows, rowState, unqueued, published, refusals>>

\* A worker that got a message claims the run, or a user cancels it.
LeaveQueue(r) ==
  /\ r \in {rows[i] : i \in DOMAIN rows} \ unqueued
  /\ unqueued' = unqueued \union {r}
  /\ UNCHANGED <<rows, rowState, published, call, batch, told, obsolete,
                 refusals, interrupts>>

\* The steps of a call after it has loaded its rows.
Walk(d) ==
  Discard(d) \/ StillQueued(d) \/ Tell(d) \/ RefuseOne(d) \/ SaveAll(d)

=============================================================================
