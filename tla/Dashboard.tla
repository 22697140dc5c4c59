----------------------------- MODULE Dashboard -----------------------------
(***************************************************************************)
(* The browser page: a wizard that creates two prompt versions, a dataset and *)
(* two runs, watches the runs by polling and by their event streams, and asks *)
(* for the comparison.  Refreshes overlap, may fail and may arrive out of      *)
(* order; any request of the wizard may fail.  A run is named by the click     *)
(* that started it; "failed" stands for cancelled too, which the page treats   *)
(* alike, and a verdict that is overwritten by a late cancellation (run        *)
(* cancels_finished) is left out.                                            *)
(***************************************************************************)
EXTENDS Naturals, FiniteSets

CONSTANTS
  Timers,     \* refreshes of the interval and the events under way at once
  MaxClicks,  \* bound on the clicks on a button of the wizard
  MaxErrors   \* bound on the refreshes that fail

ASSUME DashboardAssumption ==
  /\ "compare" \notin Timers
  /\ MaxClicks \in Nat /\ MaxErrors \in Nat

Sides == {"baseline", "candidate"}

\* compareRuns refreshes too.
Slots == Timers \union {"compare"}

VARIABLES
  busy,        \* the step whose button is busy
  clicks,      \* clicks on each button, which number what they create
  version,     \* the prompt each shown version belongs to, 0: none
  dataset,     \* whether a dataset version is shown
  made,        \* which creations of the current click have been answered
  actual,      \* the status of each run in the database
  shown,       \* the run and status each card shows, click 0: none
  refresh,     \* for each slot the statuses it has read, "free" or "asked"
  errors,      \* refreshes that have failed
  comparison   \* "none", "refreshing", "asked", or "report" when one is shown

wizardVars == <<busy, clicks, version, dataset, made>>
pageVars == <<wizardVars, actual, shown, refresh, errors, comparison>>

Over == {"completed", "failed"}

Status == {"queued", "running"} \union Over

Buttons == {"prompts", "dataset", "runs"}

DashboardInit ==
  /\ busy = "none"
  /\ clicks = [b \in Buttons |-> 0]
  /\ version = [s \in Sides |-> 0]
  /\ dataset = FALSE
  /\ made = {}
  /\ actual = [s \in Sides |-> "absent"]
  /\ shown = [s \in Sides |-> [click |-> 0, status |-> "absent"]]
  /\ refresh = [f \in Slots |-> [s \in Sides |-> "free"]]
  /\ errors = 0
  /\ comparison = "none"

-----------------------------------------------------------------------------
(* The wizard.                                                              *)

\* Lets every button be clicked once.
EnabledOnce(b) ==
  /\ busy # b
  /\ clicks[b] = 0
  /\ \/ b = "prompts" /\ version["candidate"] = 0
     \/ b = "dataset" /\ version["candidate"] # 0 /\ ~dataset
     \/ b = "runs" /\ dataset /\ shown["baseline"].click = 0

\* A button is enabled in its step of the wizard and while it is not busy.
Enabled(b) ==
  /\ busy # b
  /\ \/ b = "prompts" /\ version["candidate"] = 0
     \/ b = "dataset" /\ version["candidate"] # 0 /\ ~dataset
     \/ b = "runs" /\ dataset /\ shown["baseline"].click = 0

Click(b) ==
  /\ Enabled(b)
  /\ clicks[b] < MaxClicks
  /\ busy' = b
  /\ clicks' = [clicks EXCEPT ![b] = @ + 1]
  /\ made' = {}
  /\ actual' = IF b = "runs" THEN [s \in Sides |-> "absent"] ELSE actual
  /\ UNCHANGED <<version, dataset, shown, refresh, errors, comparison>>

\* act: a request that fails shows its error and releases the button.
ClickFails ==
  /\ busy # "none"
  /\ busy' = "none"
  /\ UNCHANGED <<clicks, version, dataset, made, actual, shown, refresh, errors, comparison>>

\* createPrompts: version 1 is shown as soon as the prompt is there.
PromptCreated ==
  /\ busy = "prompts" /\ made = {}
  /\ version' = [version EXCEPT !["baseline"] = clicks["prompts"]]
  /\ made' = {"baseline"}
  /\ UNCHANGED <<busy, clicks, dataset, actual, shown, refresh, errors, comparison>>

SecondVersionCreated ==
  /\ busy = "prompts" /\ made = {"baseline"}
  /\ version' = [version EXCEPT !["candidate"] = clicks["prompts"]]
  /\ busy' = "none"
  /\ UNCHANGED <<clicks, dataset, made, actual, shown, refresh, errors, comparison>>

DatasetImported ==
  /\ busy = "dataset"
  /\ dataset' = TRUE
  /\ busy' = "none"
  /\ UNCHANGED <<clicks, version, made, actual, shown, refresh, errors, comparison>>

\* Shows each run as soon as it is created.
AsTheyArrive(done) == done

\* startRuns: Promise.all shows both runs or none.
Arrived(done) == IF done = Sides THEN Sides ELSE {}

RunCreated(s) ==
  /\ busy = "runs" /\ s \notin made
  /\ made' = made \union {s}
  /\ actual' = [actual EXCEPT ![s] = "queued"]
  /\ shown' = [t \in Sides |-> IF t \in Arrived(made')
                                THEN [click |-> clicks["runs"], status |-> "queued"]
                                ELSE shown[t]]
  /\ busy' = IF made' = Sides THEN "none" ELSE busy
  /\ UNCHANGED <<clicks, version, dataset, refresh, errors, comparison>>

\* The runs go on whether or not they are shown; a retried one is queued again.
RunMoves(s) ==
  /\ \/ actual[s] = "queued" /\ actual' = [actual EXCEPT ![s] = "running"]
     \/ actual[s] = "running"
          /\ \E next \in Status \ {"running"} : actual' = [actual EXCEPT ![s] = next]
  /\ UNCHANGED <<wizardVars, shown, refresh, errors, comparison>>

-----------------------------------------------------------------------------
(* Watching the runs.                                                       *)

Shown == \A s \in Sides : shown[s].click # 0

\* Trusts the events, of which there is none for a run that fails.
PollsOnEvents == Shown /\ \E s \in Sides : shown[s].status \notin Over /\ actual[s] # "failed"

\* The interval runs, and events arrive, while a shown run is not over; an older
\* answer that arrives late starts it again.
Polls == Shown /\ \E s \in Sides : shown[s].status \notin Over

Free(f) == \A s \in Sides : refresh[f][s] = "free"

Asked == [s \in Sides |-> "asked"]
Idle == [s \in Sides |-> "free"]

\* refreshRuns, from the interval or an event; it asks for both runs.
StartRefresh(f) ==
  /\ Free(f)
  /\ Polls
  /\ refresh' = [refresh EXCEPT ![f] = Asked]
  /\ UNCHANGED <<wizardVars, actual, shown, errors, comparison>>

\* The API reads the run; the answer is under way.
ReadRun(f, s) ==
  /\ refresh[f][s] = "asked"
  /\ refresh' = [refresh EXCEPT ![f][s] = actual[s]]
  /\ UNCHANGED <<wizardVars, actual, shown, errors, comparison>>

Answers(f) == \A s \in Sides : refresh[f][s] \in Status

\* Both cards change together when both answers are there; compareRuns then asks.
Deliver(f) ==
  /\ Answers(f)
  /\ shown' = [s \in Sides |-> [shown[s] EXCEPT !.status = refresh[f][s]]]
  /\ refresh' = [refresh EXCEPT ![f] = Idle]
  /\ comparison' = IF f = "compare" THEN "asked" ELSE comparison
  /\ UNCHANGED <<wizardVars, actual, errors>>

\* One failed answer drops the other, and the comparison with it.
RefreshFails(f) ==
  /\ ~Free(f)
  /\ errors < MaxErrors
  /\ errors' = errors + 1
  /\ refresh' = [refresh EXCEPT ![f] = Idle]
  /\ comparison' = IF f = "compare" THEN "none" ELSE comparison
  /\ UNCHANGED <<wizardVars, actual, shown>>

-----------------------------------------------------------------------------
(* The comparison.                                                          *)

\* compareRuns, once both cards say completed.
ClickCompare ==
  /\ Shown
  /\ \A s \in Sides : shown[s].status = "completed"
  /\ comparison = "none"
  /\ refresh' = [refresh EXCEPT !["compare"] = Asked]
  /\ comparison' = "refreshing"
  /\ UNCHANGED <<wizardVars, actual, shown, errors>>

\* 409 when a run is not completed after all.
CompareAnswered ==
  /\ comparison = "asked"
  /\ comparison' = IF \A s \in Sides : actual[s] = "completed" THEN "report" ELSE "none"
  /\ UNCHANGED <<wizardVars, actual, shown, refresh, errors>>

\* The request fails.
CompareFails ==
  /\ comparison = "asked"
  /\ comparison' = "none"
  /\ UNCHANGED <<wizardVars, actual, shown, refresh, errors>>

WizardStep ==
  \/ PromptCreated \/ SecondVersionCreated \/ DatasetImported
  \/ (\E s \in Sides : RunCreated(s)) \/ ClickFails

DashboardNext ==
  \/ (\E b \in Buttons : Click(b)) \/ WizardStep
  \/ \E s \in Sides : RunMoves(s)
  \/ \E f \in Timers : StartRefresh(f)
  \/ \E f \in Slots : (\E s \in Sides : ReadRun(f, s)) \/ Deliver(f) \/ RefreshFails(f)
  \/ ClickCompare \/ CompareAnswered \/ CompareFails

DashboardSpec == DashboardInit /\ [][DashboardNext]_pageVars

(***************************************************************************)
(* The interval fires, requests are answered and the answers are handled.  The *)
(* user need not click.                                                      *)
(***************************************************************************)
DashboardFairSpec ==
  /\ DashboardSpec
  /\ \A f \in Timers : WF_pageVars(StartRefresh(f))
  /\ \A f \in Slots : /\ WF_pageVars(Deliver(f))
                      /\ \A s \in Sides : WF_pageVars(ReadRun(f, s))

-----------------------------------------------------------------------------
\* What the page shows belongs together: both versions are of one prompt once the
\* second is there, and both runs were started by one click, whichever requests of
\* earlier clicks failed half-way (page.tsx:183-215).
ShownPairIsOneClick ==
  /\ version["candidate"] # 0 => version["baseline"] = version["candidate"]
  /\ \A s \in Sides :
       shown[s].click # 0 => shown[s].click = shown["baseline"].click

\* The wizard never comes to a dead end: until both runs are shown a request is
\* under way or a button can be clicked (page.tsx:151-215, 286-299).
NoDeadEnd ==
  Shown \/ busy # "none" \/ \E b \in Buttons : Enabled(b)

\* When both runs are over, the cards come to show it and keep showing it, although
\* late answers may first take them back and the events say nothing of a failed
\* run (page.tsx:93-148).
CatchesUp ==
  (Shown /\ \A s \in Sides : actual[s] \in Over) ~>
    [](\A s \in Sides : shown[s].status = actual[s])

=============================================================================
