------------------------------- MODULE Intake -------------------------------
(***************************************************************************)
(* From the request to the message: submissions commit runs together with    *)
(* their dispatch rows, call the outbox inline for one row, which need not    *)
(* be their own, and answer; beats work on the same rows.                    *)
(***************************************************************************)
EXTENDS Submission, Outbox

CONSTANTS
  Beats,      \* calls of the beat that may run at once
  BeatLimit   \* rows one call of the beat takes (100 in the code)

ASSUME IntakeAssumption ==
  /\ Runs = Submissions
  /\ Callers = Submissions \union Beats
  /\ Submissions \intersect Beats = {}
  /\ BeatLimit \in Nat \ {0}

intakeVars == <<submitVars, outboxVars>>

IntakeInit == SubmitInit /\ OutboxInit

\* The commit of a run makes its dispatch row visible too.
Accept(c) ==
  /\ CommitRun(c)
  /\ rows' = Append(rows, c)
  /\ UNCHANGED <<rowState, unqueued, published, call, batch, told, obsolete,
                 refusals, interrupts>>

CreateStep(c) == Create(c) /\ UNCHANGED outboxVars

\* The inline call loads the oldest pending row; there may be none, and an error
\* of the load is suppressed.
InlineCall(c) ==
  /\ CallOutbox(c)
  /\ Load(c, 1) \/ UNCHANGED outboxVars

InlineWalk(c) ==
  /\ spc[c] = "called"
  /\ Walk(c)
  /\ UNCHANGED submitVars

\* The inline call is over.
Answered(c) ==
  /\ call[c] = "idle"
  /\ AnswerNew(c)
  /\ UNCHANGED outboxVars

Serve(c) ==
  CreateStep(c) \/ Accept(c) \/ InlineCall(c) \/ InlineWalk(c) \/ Answered(c)

\* A dying API process takes its inline call with it.
Death(c) ==
  /\ Die(c)
  /\ EndCall(c)
  /\ UNCHANGED <<rows, rowState, unqueued, published, refusals, interrupts>>

Beat(d) ==
  /\ Load(d, BeatLimit) \/ Walk(d)
  /\ UNCHANGED submitVars

DeadBeat(d) == InterruptCall(d) /\ UNCHANGED submitVars

Leave(r) == LeaveQueue(r) /\ UNCHANGED submitVars
Send(c) == Submit(c) /\ UNCHANGED outboxVars

IntakeNext ==
  \/ \E c \in Submissions : Send(c) \/ Serve(c) \/ Death(c)
  \/ \E d \in Beats : Beat(d) \/ DeadBeat(d)
  \/ \E r \in Runs : Leave(r)

IntakeSpec == IntakeInit /\ [][IntakeNext]_intakeVars

(***************************************************************************)
(* The beat calls again and again and a call that was started goes on; an    *)
(* accepted request runs to its end.                                        *)
(***************************************************************************)
IntakeFairSpec ==
  /\ IntakeSpec
  /\ \A d \in Beats : WF_intakeVars(Beat(d))
  /\ \A c \in Submissions : WF_intakeVars(Serve(c))

-----------------------------------------------------------------------------
\* A row stops being pending only when its message was published or its run had
\* left the queue: neither a refused publication in the middle of a batch nor a
\* call that dies drops a run (tasks.py:66-91; docs/architecture.md:24).
NothingIsDropped ==
  \A r \in Runs :
    /\ rowState[r] = "dispatched" => r \in published
    /\ rowState[r] = "discarded" => r \in unqueued

\* Every committed run is published or leaves the queue, also when its own
\* request died after the commit and every inline call took another run's row
\* (api.py:442-443, tasks.py:66-91).
EveryRunIsPublished ==
  \A r \in Runs : r \in runs ~> r \in published \union unqueued

=============================================================================
