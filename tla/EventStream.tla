---------------------------- MODULE EventStream ----------------------------
(***************************************************************************)
(* GET /api/runs/{run_id}/events: one subscriber of the run's event log.     *)
(* The server coroutine selects the events past its cursor, reads the run's  *)
(* status in a second statement, sends the events one by one, and ends the   *)
(* stream of a run that is over.  The client keeps the id of the last event  *)
(* it received and sends it as Last-Event-ID when it connects again.         *)
(*                                                                          *)
(* One subscriber is enough: subscribers only read and share nothing.        *)
(***************************************************************************)
EXTENDS RunStore

CONSTANT MaxCuts   \* bound on the connections that break

ASSUME StreamAssumption == MaxCuts \in Nat

VARIABLES
  conn,      \* where the server coroutine is; "off" and "closed": none runs
  cursor,    \* sequence: the last event it sent
  since,     \* the cursor the events were selected with
  upto,      \* the last event selected
  seenState, \* run_state.status
  received,  \* ids of the events the client received, over all connections
  cuts       \* connections broken so far

streamVars == <<conn, cursor, since, upto, seenState, received, cuts>>

Open == {"top", "selected", "sending"}

StreamInit ==
  /\ conn = "off"
  /\ cursor = 0
  /\ since = 0
  /\ upto = 0
  /\ seenState = "queued"
  /\ received = <<>>
  /\ cuts = 0

StreamTypeOK ==
  /\ conn \in Open \union {"off", "closed"}
  /\ cursor \in Nat
  /\ since \in Nat
  /\ upto \in Nat
  /\ seenState \in Status
  /\ received \in Seq(Nat)
  /\ cuts \in Nat

\* Asks for new events only.
LiveOnly == LatestSequence

\* Takes what the server had selected for sent.
LastSelected == upto

\* The id the client sends: 0 when it has received nothing.
LastEventId ==
  IF received = <<>> THEN 0 ELSE received[Len(received)]

\* A browser connects again whenever the stream ends.
Connect ==
  /\ conn \notin Open
  /\ conn' = "top"
  /\ cursor' = LastEventId
  /\ UNCHANGED <<storeVars, since, upto, seenState, received, cuts>>

\* The durable events with a sequence past the cursor.
SelectEvents ==
  /\ conn = "top"
  /\ since' = cursor
  /\ upto' = LatestSequence
  /\ conn' = "selected"
  /\ UNCHANGED <<storeVars, cursor, seenState, received, cuts>>

\* event_db.get(EvaluationRun, run_id), a statement of its own
ReadState ==
  /\ conn = "selected"
  /\ seenState' = status
  /\ conn' = "sending"
  /\ UNCHANGED <<storeVars, cursor, since, upto, received, cuts>>

SendEvent ==
  /\ conn = "sending"
  /\ cursor < upto
  /\ cursor' = cursor + 1
  /\ received' = Append(received, cursor + 1)
  /\ UNCHANGED <<storeVars, conn, since, upto, seenState, cuts>>

\* Knows of two ways to end only.
OverOrLost == seenState \in {"completed", "failed"}

\* The run is over, and nothing was left to send when the events were selected.
Drained == seenState \in Terminal /\ since = upto

\* Every selected event is sent: end the stream, or sleep and look again.
EndPass ==
  /\ conn = "sending"
  /\ cursor = upto
  /\ conn' = IF Drained THEN "closed" ELSE "top"
  /\ UNCHANGED <<storeVars, cursor, since, upto, seenState, received, cuts>>

\* The connection breaks, and with it whatever was on its way; the coroutine
\* sees request.is_disconnected or is cancelled.
Cut ==
  /\ conn \in Open
  /\ cuts < MaxCuts
  /\ cuts' = cuts + 1
  /\ conn' = "off"
  /\ UNCHANGED <<storeVars, cursor, since, upto, seenState, received>>

\* What the server does for a subscriber, and the client's reconnection.
StreamStep == Connect \/ SelectEvents \/ ReadState \/ SendEvent \/ EndPass

=============================================================================
