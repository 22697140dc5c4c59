-------------------------- MODULE DashboardProofs --------------------------
(***************************************************************************)
(* What the page shows together belongs together, for every number of        *)
(* overlapping refreshes, clicks and errors.                                 *)
(***************************************************************************)
EXTENDS Dashboard, TLAPS

WizardTypeOK ==
  /\ busy \in Buttons \union {"none"}
  /\ clicks \in [Buttons -> Nat]
  /\ version \in [Sides -> Nat]
  /\ dataset \in BOOLEAN
  /\ made \subseteq Sides
  /\ DOMAIN shown = Sides
  /\ \A s \in Sides : DOMAIN shown[s] = {"click", "status"} /\ shown[s].click \in Nat

\* Prompts are created only while no second version is shown, and the first version
\* a click has created is of that click's prompt.
PairInv ==
  /\ busy = "prompts" => version["candidate"] = 0
  /\ busy = "prompts" /\ made = {"baseline"} => version["baseline"] = clicks["prompts"]
  /\ version["candidate"] # 0 => version["baseline"] = version["candidate"]
  /\ shown["candidate"].click = shown["baseline"].click

WizardInv == WizardTypeOK /\ PairInv

USE DashboardAssumption

\* Nothing is shown at first.
LEMMA WizardInvInit == DashboardInit => WizardInv
<1> SUFFICES ASSUME DashboardInit
             PROVE  WizardInv
  OBVIOUS
<1>1. WizardTypeOK
  BY DEF DashboardInit, WizardTypeOK, Sides, Buttons
<1>2. PairInv
  BY DEF DashboardInit, PairInv, Sides
<1> QED
  BY <1>1, <1>2 DEF WizardInv

\* No request of a click leaves two versions or two runs that do not belong together.
LEMMA WizardInvStep == WizardInv /\ [DashboardNext]_pageVars => WizardInv'
<1> SUFFICES ASSUME WizardInv, [DashboardNext]_pageVars
             PROVE  WizardInv'
  OBVIOUS
<1> USE DEF WizardInv, WizardTypeOK, PairInv, Sides, Buttons, wizardVars
<1>1. CASE UNCHANGED pageVars
  BY <1>1 DEF pageVars
<1>2. ASSUME NEW b \in Buttons, Click(b)
      PROVE  WizardInv'
  BY <1>2 DEF Click, Enabled
<1>3. CASE ClickFails \/ DatasetImported
  BY <1>3 DEF ClickFails, DatasetImported
<1>4. CASE PromptCreated
  BY <1>4 DEF PromptCreated
<1>5. CASE SecondVersionCreated
  BY <1>5 DEF SecondVersionCreated
<1>6. ASSUME NEW s \in Sides, RunCreated(s)
      PROVE  WizardInv'
  BY <1>6 DEF RunCreated, Arrived
<1>7. ASSUME NEW s \in Sides, RunMoves(s)
      PROVE  WizardInv'
  BY <1>7 DEF RunMoves
<1>8. ASSUME NEW f, StartRefresh(f) \/ RefreshFails(f) \/ \E s \in Sides : ReadRun(f, s)
      PROVE  WizardInv'
  BY <1>8 DEF StartRefresh, RefreshFails, ReadRun
<1>9. ASSUME NEW f, Deliver(f)
      PROVE  WizardInv'
  BY <1>9 DEF Deliver
<1>10. CASE ClickCompare \/ CompareAnswered \/ CompareFails
  BY <1>10 DEF ClickCompare, CompareAnswered, CompareFails
<1> QED
  BY <1>1, <1>2, <1>3, <1>4, <1>5, <1>6, <1>7, <1>8, <1>9, <1>10
  DEF DashboardNext, WizardStep

LEMMA WizardAlways == DashboardSpec => []WizardInv
BY WizardInvInit, WizardInvStep, PTL DEF DashboardSpec

\* The two versions shown are of one prompt and the two runs of one click, however
\* many requests failed on the way (page.tsx:183-215).
THEOREM ShownPairIsOneClickAlways == DashboardSpec => []ShownPairIsOneClick
<1>1. WizardInv => ShownPairIsOneClick
  BY DEF WizardInv, PairInv, ShownPairIsOneClick, Sides
<1> QED
  BY <1>1, WizardAlways, PTL

\* Until both runs are shown there is a request under way or a button to click
\* (page.tsx:151-215, 286-299).
THEOREM NoDeadEndAlways == DashboardSpec => []NoDeadEnd
<1>1. WizardInv => NoDeadEnd
  BY DEF WizardInv, WizardTypeOK, PairInv, NoDeadEnd, Shown, Enabled, Sides, Buttons
<1> QED
  BY <1>1, WizardAlways, PTL

=============================================================================
