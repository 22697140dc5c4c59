---------------------------- MODULE StreamedRun ----------------------------
(***************************************************************************)
(* A run and a subscriber of its events.  The subscriber reads the log and   *)
(* the row between any two steps of the system and changes neither.          *)
(***************************************************************************)
EXTENDS EvalPulse, EventStream

allVars == <<vars, streamVars>>

StreamedInit == Init /\ StreamInit

RunStep == Next /\ UNCHANGED streamVars

Unstreamed ==
  <<brokerVars, workerVars, cancelVars, dispatchVars>>

Follow == StreamStep /\ UNCHANGED Unstreamed
Break == Cut /\ UNCHANGED Unstreamed

StreamedNext == RunStep \/ Follow \/ Break

StreamedSpec == StreamedInit /\ [][StreamedNext]_allVars

\* The server's coroutine is scheduled, and the browser connects again.
StreamedFairSpec ==
  StreamedSpec /\ Fairness /\ WF_allVars(Follow)

-----------------------------------------------------------------------------
\* A client that comes back with the last id it received gets every event once,
\* in the order of the log, however often its connection broke and whatever was
\* committed meanwhile; it never hears of an event that is not durable
\* (api.py:565-589; docs/architecture.md:24 "durable event replay").
ReplayIsExact ==
  /\ Len(received) <= LatestSequence
  /\ \A n \in DOMAIN received : received[n] = n

\* A subscriber that keeps connecting ends up with the whole story, also when
\* the stream closed between its two reads and missed the verdict
\* (api.py:577-595).
SubscriberCatchesUp == <>[](Len(received) = LatestSequence)

\* The stream of a run that is over does not stay open (api.py:590-595).
StreamsClose == (status \in Terminal /\ ~Owned) ~> conn \notin Open

=============================================================================
