------------------------------ MODULE CancelApi ------------------------------
(***************************************************************************)
(* POST /api/runs/{run_id}/cancel.  Requests run in threads of the API       *)
(* process, each with a session of its own, next to the workers.  A request  *)
(* loads the run, decides from what it loaded, and only then writes; the     *)
(* Redis flag is a hint that follows the commit.                            *)
(***************************************************************************)
EXTENDS RunStore, Broker

CONSTANT Requests   \* cancellation requests that may be made for the run

VARIABLES
  rpc,         \* where each request is
  seenStatus,  \* run.status as the request loaded it
  seenIntent,  \* run.cancel_requested as the request loaded it
  seenLatest   \* the largest event sequence number it selected

cancelVars == <<rpc, seenStatus, seenIntent, seenLatest>>

RequestPc ==
  {"new", "loaded", "selected", "flagging", "accepted", "refused", "error"}

CancelInit ==
  /\ rpc = [c \in Requests |-> "new"]
  /\ seenStatus = [c \in Requests |-> "queued"]
  /\ seenIntent = [c \in Requests |-> FALSE]
  /\ seenLatest = [c \in Requests |-> 0]

CancelTypeOK ==
  /\ rpc \in [Requests -> RequestPc]
  /\ seenStatus \in [Requests -> Status]
  /\ seenIntent \in [Requests -> BOOLEAN]
  /\ seenLatest \in [Requests -> Nat]

Advance(c, label) == rpc' = [rpc EXCEPT ![c] = label]

\* The statuses a run can be cancelled in.
Active == {"queued", "running"}

\* authorized_run loads the row and the request is accepted on what it says.
LoadRun(c) ==
  /\ rpc[c] = "new"
  /\ status \in Active
  /\ seenStatus' = [seenStatus EXCEPT ![c] = status]
  /\ seenIntent' = [seenIntent EXCEPT ![c] = cancelRequested]
  /\ Advance(c, "loaded")
  /\ UNCHANGED <<storeVars, brokerVars, seenLatest>>

\* 409: the run is over.
Refuse(c) ==
  /\ rpc[c] = "new"
  /\ status \notin Active
  /\ Advance(c, "refused")
  /\ UNCHANGED <<storeVars, brokerVars, seenStatus, seenIntent, seenLatest>>

SelectSequence(c) ==
  /\ rpc[c] = "loaded"
  /\ seenLatest' = [seenLatest EXCEPT ![c] = LatestSequence]
  /\ Advance(c, "selected")
  /\ UNCHANGED <<storeVars, brokerVars, seenStatus, seenIntent>>

\* A run that was queued when it was loaded is cancelled here and now.
CancelsNow(c) == seenStatus[c] = "queued"

\* The commit updates the row only where it differs from what was loaded.
UpdatesRow(c) == CancelsNow(c) \/ ~seenIntent[c]

CommitIntent(c) ==
  /\ rpc[c] = "selected"
  /\ SequenceFree(seenLatest[c])
  /\ cancelRequested' = TRUE
  /\ IF CancelsNow(c)
       THEN status' = "cancelled" /\ finished' = TRUE
       ELSE UNCHANGED <<status, finished>>
  /\ AppendEvent("run.cancel.requested")
  /\ Advance(c, "flagging")
  /\ UNCHANGED <<startedAt, reason, aggregate, results, brokerVars,
                 seenStatus, seenIntent, seenLatest>>

\* Swallows the refused insert and goes on to the flag.
CollisionIgnored(c) ==
  /\ rpc[c] = "selected"
  /\ ~SequenceFree(seenLatest[c])
  /\ Advance(c, "flagging")
  /\ UNCHANGED <<storeVars, brokerVars, seenStatus, seenIntent, seenLatest>>

\* 500: another writer took the sequence number; nothing is committed.
IntentCollides(c) ==
  /\ rpc[c] = "selected"
  /\ ~SequenceFree(seenLatest[c])
  /\ Advance(c, "error")
  /\ UNCHANGED <<storeVars, brokerVars, seenStatus, seenIntent, seenLatest>>

\* setex evalpulse:cancel:<run>
SetFlag(c) ==
  /\ rpc[c] = "flagging"
  /\ cancelFlag' = TRUE
  /\ Advance(c, "accepted")
  /\ UNCHANGED <<storeVars, queue, redisFaults, lost, seenStatus, seenIntent,
                 seenLatest>>

\* Redis does not answer; suppress(Exception) hides it and the API answers 200.
FlagSuppressed(c) ==
  /\ rpc[c] = "flagging"
  /\ RedisFault
  /\ Advance(c, "accepted")
  /\ UNCHANGED <<storeVars, queue, cancelFlag, lost, seenStatus, seenIntent,
                 seenLatest>>

\* The request arrives; nothing makes a user send it.
Arrive(c) == LoadRun(c) \/ Refuse(c)

\* The commit apart, what an accepted request does.
Reply(c) ==
  \/ SelectSequence(c)
  \/ IntentCollides(c)
  \/ SetFlag(c)
  \/ FlagSuppressed(c)

=============================================================================
