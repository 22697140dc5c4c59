------------------------------ MODULE RunStore ------------------------------
(***************************************************************************)
(* The rows PostgreSQL keeps for one evaluation run: the EvaluationRun      *)
(* record, its EvaluationResult checkpoints and its RunEvent log.  Every    *)
(* other module reads and writes the run through these variables; a         *)
(* committed transaction is one step.                                       *)
(*                                                                          *)
(* One run is enough: two runs share no row that any operation writes.      *)
(***************************************************************************)
EXTENDS Naturals, Sequences

CONSTANT NumCases   \* test cases of the run's immutable dataset version

\* parse_dataset refuses an empty dataset (src/python/evalpulse/datasets.py:36).
ASSUME NumCasesAssumption == NumCases \in Nat \ {0}

VARIABLES
  status,           \* EvaluationRun.status
  cancelRequested,  \* EvaluationRun.cancel_requested
  startedAt,        \* EvaluationRun.started_at: 0 for NULL, else the sequence
                    \* number of the event written with it
  finished,         \* EvaluationRun.finished_at is set
  reason,           \* EvaluationRun.failure_reason
  aggregate,        \* EvaluationRun.aggregate: the results it was computed from
  results,          \* EvaluationResult of each case, "none" for no row
  events            \* RunEvent rows in the order of their sequence numbers

storeVars ==
  <<status, cancelRequested, startedAt, finished, reason, aggregate, results,
    events>>

Cases == 1 .. NumCases

Terminal == {"completed", "failed", "cancelled"}
Status == {"queued", "running"} \union Terminal

\* A result row holds a scored response or a permanent provider error.
Outcome == {"scored", "error"}

\* Why execute_run gives up: each value stands for one failure_reason text.
FailureReason == {"unavailable", "exhausted", "exception", "collision"}

Verdict == {"run.completed", "run.failed", "run.cancelled"}
EventType ==
  {"run.queued", "run.started", "run.progress", "run.retrying",
   "run.cancel.requested"} \union Verdict

NoAggregate == <<>>

(***************************************************************************)
(* create_run commits the run, its dispatch row and its first event in one  *)
(* transaction, with the column defaults of the models.                     *)
(***************************************************************************)
StoreInit ==
  /\ status = "queued"
  /\ cancelRequested = FALSE
  /\ startedAt = 0
  /\ finished = FALSE
  /\ reason = "none"
  /\ aggregate = NoAggregate
  /\ results = [c \in Cases |-> "none"]
  /\ events = <<"run.queued">>

StoreTypeOK ==
  /\ status \in Status
  /\ cancelRequested \in BOOLEAN
  /\ startedAt \in Nat
  /\ finished \in BOOLEAN
  /\ reason \in FailureReason \union {"none"}
  /\ aggregate \in {NoAggregate} \union [Cases -> Outcome \union {"none"}]
  /\ results \in [Cases -> Outcome \union {"none"}]
  /\ events \in Seq(EventType)

(***************************************************************************)
(* The event log.  A writer first selects the largest sequence number, then *)
(* inserts the next one when it commits; the unique constraint on           *)
(* (run_id, sequence) refuses the insert of a writer that read an older     *)
(* maximum.                                                                 *)
(***************************************************************************)
LatestSequence == Len(events)

SequenceFree(seen) == seen = LatestSequence

AppendEvent(type) == events' = Append(events, type)

\* The sequence number the event of this step gets.
NextSequence == LatestSequence + 1

=============================================================================
