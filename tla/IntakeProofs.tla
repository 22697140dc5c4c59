---------------------------- MODULE IntakeProofs ----------------------------
(***************************************************************************)
(* Submissions and their dispatch: one run per key, an allowance overrun only *)
(* by requests that overlap, and an outbox that drops no run, for every       *)
(* number of submissions, keys, beats, refused publications and dying         *)
(* processes.                                                               *)
(***************************************************************************)
EXTENDS Intake, DataTheorems

-----------------------------------------------------------------------------
(* Idempotency.                                                             *)

\* A key belongs to at most one run or one request about to commit, and no one
\* is past the insert with a key that is taken.
KeysInv ==
  /\ \A r, s \in runs : key[r] = key[s] => r = s
  /\ \A c, o \in Submissions :
       spc[c] = "flushed" /\ spc[o] = "flushed" /\ key[c] = key[o] => c = o
  /\ \A c \in Submissions : spc[c] = "flushed" => SameKey(c) = {}

\* A request that collided, committed or was answered has a run to show.
AnswersInv ==
  \A c \in Submissions :
    /\ spc[c] = "collided" => SameKey(c) # {}
    /\ spc[c] \in {"dispatching", "called"} => c \in runs
    /\ spc[c] = "answered" => answer[c] # {} /\ answer[c] = SameKey(c)
    /\ spc[c] # "error"

\* A request whose run was there when it was sent does not pass the first select.
RepeatInv ==
  \A c \in Submissions :
    /\ present[c] \subseteq runs
    /\ spc[c] = "new" => present[c] = {}
    /\ (\E r \in present[c] : key[r] = key[c]) =>
         spc[c] \in {"lookup", "answered", "dead"}

SubmitInv == SubmitTypeOK /\ KeysInv /\ AnswersInv /\ RepeatInv

USE SubmissionAssumption, OutboxAssumption, IntakeAssumption

\* No run is there at first, and no request has begun.
LEMMA SubmitInvInit == SubmitInit => SubmitInv
BY DEF SubmitInit, SubmitInv, SubmitTypeOK, SubmitPc, KeysInv, AnswersInv,
       RepeatInv

\* No step of a request leaves the types.
LEMMA SubmitTypes ==
  SubmitTypeOK /\ [SubmitNext]_submitVars => SubmitTypeOK'
<1> SUFFICES ASSUME SubmitTypeOK, [SubmitNext]_submitVars
             PROVE  SubmitTypeOK'
  OBVIOUS
<1> USE DEF SubmitTypeOK, SubmitPc, Proceed, bodyVars
<1>1. CASE UNCHANGED submitVars
  BY <1>1 DEF submitVars
<1>2. ASSUME NEW c \in Submissions, Submit(c)
      PROVE  SubmitTypeOK'
  BY <1>2 DEF Submit
<1>3. ASSUME NEW c \in Submissions, Lookup(c)
      PROVE  SubmitTypeOK'
  BY <1>3 DEF Lookup, ReplyWith, Existing, SameKey
<1>4. ASSUME NEW c \in Submissions, PassMock(c) \/ RefuseSize(c) \/ CallOutbox(c)
      PROVE  SubmitTypeOK'
  BY <1>4 DEF PassMock, RefuseSize, CallOutbox
<1>5. ASSUME NEW c \in Submissions, CheckAllowance(c)
      PROVE  SubmitTypeOK'
  BY <1>5 DEF CheckAllowance, LiveRuns
<1>6. ASSUME NEW c \in Submissions, Flush(c)
      PROVE  SubmitTypeOK'
  BY <1>6 DEF Flush
<1>7. ASSUME NEW c \in Submissions, CommitRun(c)
      PROVE  SubmitTypeOK'
  BY <1>7 DEF CommitRun
<1>8. ASSUME NEW c \in Submissions, ReturnWinner(c)
      PROVE  SubmitTypeOK'
  BY <1>8 DEF ReturnWinner, ReplyWith, Duplicate, SameKey
<1>9. ASSUME NEW c \in Submissions, AnswerNew(c)
      PROVE  SubmitTypeOK'
  BY <1>9 DEF AnswerNew, ReplyWith
<1>10. ASSUME NEW c \in Submissions, Die(c)
       PROVE  SubmitTypeOK'
  BY <1>10 DEF Die
<1> QED
  BY <1>1, <1>2, <1>3, <1>4, <1>5, <1>6, <1>7, <1>8, <1>9, <1>10
  DEF SubmitNext, SubmitStep, Create

\* A step that moves one request without a commit keeps what is known of keys.
LEMMA QuietStep ==
  ASSUME SubmitInv, SubmitTypeOK', NEW c \in Submissions,
         UNCHANGED <<runs, key, present>>,
         \A o \in Submissions \ {c} :
           spc'[o] = spc[o] /\ answer'[o] = answer[o],
         spc'[c] # "flushed",
         spc'[c] = "collided" => SameKey(c) # {},
         spc'[c] \in {"dispatching", "called"} => c \in runs,
         spc'[c] = "answered" => answer'[c] # {} /\ answer'[c] = SameKey(c),
         spc'[c] # "error",
         spc'[c] # "new",
         (\E r \in present[c] : key[r] = key[c]) =>
           spc'[c] \in {"lookup", "answered", "dead"}
  PROVE  SubmitInv'
<1>1. \A o \in Submissions : SameKey(o)' = SameKey(o)
  BY DEF SameKey
<1>2. KeysInv'
  BY <1>1 DEF SubmitInv, KeysInv
<1>3. AnswersInv'
  BY <1>1 DEF SubmitInv, AnswersInv
<1>4. RepeatInv'
  BY DEF SubmitInv, RepeatInv
<1> QED
  BY <1>2, <1>3, <1>4 DEF SubmitInv

\* No step gives a key a second run or leaves a request without an answer.
LEMMA SubmitInvStep == SubmitInv /\ [SubmitNext]_submitVars => SubmitInv'
<1> SUFFICES ASSUME SubmitInv, [SubmitNext]_submitVars
             PROVE  SubmitInv'
  OBVIOUS
<1>0. SubmitTypeOK /\ SubmitTypeOK'
  BY SubmitTypes DEF SubmitInv
<1> USE DEF Proceed, bodyVars
<1>1. CASE UNCHANGED submitVars
  <2>1. \A o \in Submissions : SameKey(o)' = SameKey(o)
    BY <1>1 DEF submitVars, SameKey
  <2> QED
    BY <1>0, <1>1, <2>1
    DEF submitVars, SubmitInv, KeysInv, AnswersInv, RepeatInv
<1>2. ASSUME NEW c \in Submissions, Submit(c)
      PROVE  SubmitInv'
  <2>1. \A o \in Submissions : SameKey(o)' = SameKey(o)
    BY <1>2 DEF Submit, SameKey
  <2>2. spc' = [spc EXCEPT ![c] = "lookup"] /\ present' = [present EXCEPT ![c] = runs]
    BY <1>2 DEF Submit
  <2>3. KeysInv'
    BY <1>0, <1>2, <2>1, <2>2 DEF Submit, SubmitInv, SubmitTypeOK, KeysInv
  <2>4. AnswersInv'
    BY <1>0, <1>2, <2>1, <2>2 DEF Submit, SubmitInv, SubmitTypeOK, AnswersInv
  <2>5. RepeatInv'
    BY <1>0, <1>2, <2>2 DEF Submit, SubmitInv, SubmitTypeOK, RepeatInv
  <2> QED
    BY <1>0, <2>3, <2>4, <2>5 DEF SubmitInv
<1>3. ASSUME NEW c \in Submissions, Lookup(c)
      PROVE  SubmitInv'
  <2>1. CASE Existing(c) # {}
    <3>1. spc'[c] = "answered" /\ answer'[c] = SameKey(c) /\ SameKey(c) # {}
      BY <1>0, <1>3, <2>1 DEF Lookup, ReplyWith, Existing, SubmitTypeOK
    <3> QED
      BY <1>0, <1>3, <2>1, <3>1, QuietStep
      DEF Lookup, ReplyWith, SubmitTypeOK
  <2>2. CASE Existing(c) = {}
    <3>1. ~ \E r \in present[c] : key[r] = key[c]
      BY <2>2 DEF Existing, SameKey, SubmitInv, RepeatInv
    <3>2. spc'[c] = "checks"
      BY <1>0, <1>3, <2>2 DEF Lookup, SubmitTypeOK
    <3> QED
      BY <1>0, <1>3, <2>2, <3>1, <3>2, QuietStep DEF Lookup, SubmitTypeOK
  <2> QED
    BY <2>1, <2>2
<1>4. ASSUME NEW c \in Submissions,
             PassMock(c) \/ RefuseSize(c) \/ CheckAllowance(c)
      PROVE  SubmitInv'
  <2>1. spc[c] = "checks" /\ spc'[c] \in {"insert", "refused"}
    BY <1>0, <1>4 DEF PassMock, RefuseSize, CheckAllowance, SubmitTypeOK
  <2>2. ~ \E r \in present[c] : key[r] = key[c]
    BY <2>1 DEF SubmitInv, RepeatInv
  <2> QED
    BY <1>0, <1>4, <2>1, <2>2, QuietStep
    DEF PassMock, RefuseSize, CheckAllowance, SubmitTypeOK
<1>5. ASSUME NEW c \in Submissions, Flush(c)
      PROVE  SubmitInv'
  <2>1. CASE KeyTaken(c)
    <3>1. spc'[c] = "collided" /\ SameKey(c) # {}
      BY <1>0, <1>5, <2>1 DEF Flush, KeyTaken, SubmitTypeOK
    <3>2. ~ \E r \in present[c] : key[r] = key[c]
      BY <1>5 DEF Flush, SubmitInv, RepeatInv
    <3> QED
      BY <1>0, <1>5, <2>1, <3>1, <3>2, QuietStep DEF Flush, SubmitTypeOK
  <2>2. CASE ~KeyTaken(c)
    <3>1. spc' = [spc EXCEPT ![c] = "flushed"] /\ spc[c] = "insert"
      BY <1>5, <2>2 DEF Flush
    <3>2. \A o \in Submissions : SameKey(o)' = SameKey(o)
      BY <1>5 DEF Flush, SameKey
    <3>3. \A o \in Submissions : spc[o] = "flushed" => key[o] # key[c]
      BY <1>5 DEF Flush, KeyLocked, KeyLockedBy
    <3>4. SameKey(c) = {}
      BY <2>2 DEF KeyTaken
    <3>5. KeysInv'
      BY <1>0, <1>5, <3>1, <3>2, <3>3, <3>4
      DEF Flush, SubmitInv, SubmitTypeOK, KeysInv
    <3>6. AnswersInv'
      BY <1>0, <1>5, <3>1, <3>2 DEF Flush, SubmitInv, SubmitTypeOK, AnswersInv
    <3>7. RepeatInv'
      BY <1>0, <1>5, <3>1 DEF Flush, SubmitInv, SubmitTypeOK, RepeatInv
    <3> QED
      BY <1>0, <3>5, <3>6, <3>7 DEF SubmitInv
  <2> QED
    BY <2>1, <2>2
<1>6. ASSUME NEW c \in Submissions, CommitRun(c)
      PROVE  SubmitInv'
  <2>1. /\ spc[c] = "flushed" /\ spc' = [spc EXCEPT ![c] = "dispatching"]
        /\ runs' = runs \union {c}
        /\ UNCHANGED <<key, present, answer>>
    BY <1>6 DEF CommitRun
  <2>2. \A r \in runs : key[r] # key[c]
    BY <2>1 DEF SubmitInv, KeysInv, SameKey
  <2>3. \A o \in Submissions : SameKey(o)' =
          IF key[o] = key[c] THEN SameKey(o) \union {c} ELSE SameKey(o)
    BY <1>0, <2>1 DEF SameKey
  <2>4. KeysInv'
    <3>1. \A r, s \in runs' : key'[r] = key'[s] => r = s
      BY <2>1, <2>2 DEF SubmitInv, KeysInv
    <3>2. \A o \in Submissions :
            spc'[o] = "flushed" => spc[o] = "flushed" /\ key[o] # key[c]
      BY <1>0, <2>1 DEF SubmitInv, KeysInv, SubmitTypeOK
    <3> QED
      BY <2>1, <2>3, <3>1, <3>2 DEF SubmitInv, KeysInv
  <2>5. AnswersInv'
    <3>1. \A o \in Submissions :
            spc[o] = "answered" => SameKey(o)' = SameKey(o)
      BY <2>2, <2>3 DEF SubmitInv, AnswersInv, SameKey
    <3> QED
      BY <1>0, <2>1, <2>3, <3>1 DEF SubmitInv, AnswersInv, SubmitTypeOK
  <2>6. RepeatInv'
    <3>1. ~ \E r \in present[c] : key[r] = key[c]
      BY <2>1 DEF SubmitInv, RepeatInv
    <3> QED
      BY <1>0, <2>1, <3>1 DEF SubmitInv, RepeatInv, SubmitTypeOK
  <2> QED
    BY <1>0, <2>4, <2>5, <2>6 DEF SubmitInv
<1>7. ASSUME NEW c \in Submissions, ReturnWinner(c)
      PROVE  SubmitInv'
  <2>1. spc[c] = "collided" /\ SameKey(c) # {}
    BY <1>7 DEF ReturnWinner, SubmitInv, AnswersInv
  <2>2. spc'[c] = "answered" /\ answer'[c] = SameKey(c)
    BY <1>0, <1>7, <2>1 DEF ReturnWinner, ReplyWith, Duplicate, SubmitTypeOK
  <2> QED
    BY <1>0, <1>7, <2>1, <2>2, QuietStep
    DEF ReturnWinner, ReplyWith, Duplicate, SubmitTypeOK
<1>8. ASSUME NEW c \in Submissions, CallOutbox(c)
      PROVE  SubmitInv'
  <2>1. c \in runs /\ ~ \E r \in present[c] : key[r] = key[c]
    BY <1>8 DEF CallOutbox, SubmitInv, AnswersInv, RepeatInv
  <2> QED
    BY <1>0, <1>8, <2>1, QuietStep DEF CallOutbox, SubmitTypeOK
<1>9. ASSUME NEW c \in Submissions, AnswerNew(c)
      PROVE  SubmitInv'
  <2>1. c \in runs
    BY <1>9 DEF AnswerNew, SubmitInv, AnswersInv
  <2>2. SameKey(c) = {c}
    BY <2>1 DEF SameKey, SubmitInv, KeysInv
  <2>3. spc'[c] = "answered" /\ answer'[c] = {c}
    BY <1>0, <1>9 DEF AnswerNew, ReplyWith, SubmitTypeOK
  <2> QED
    BY <1>0, <1>9, <2>2, <2>3, QuietStep DEF AnswerNew, ReplyWith, SubmitTypeOK
<1>10. ASSUME NEW c \in Submissions, Die(c)
       PROVE  SubmitInv'
  <2>1. spc'[c] = "dead"
    BY <1>0, <1>10 DEF Die, SubmitTypeOK
  <2> QED
    BY <1>0, <1>10, <2>1, QuietStep DEF Die, SubmitTypeOK
<1> QED
  BY <1>1, <1>2, <1>3, <1>4, <1>5, <1>6, <1>7, <1>8, <1>9, <1>10
  DEF SubmitNext, SubmitStep, Create

\* The three invariants below follow from the inductive one.
LEMMA SubmitAlways == SubmitSpec => []SubmitInv
BY SubmitInvInit, SubmitInvStep, PTL DEF SubmitSpec

\* One run comes of a key, and every request with that key that is answered is
\* answered with it, for any number of concurrent requests (api.py:421-441).
THEOREM OneRunPerKeyAlways == SubmitSpec => []OneRunPerKey
<1>1. SubmitInv => OneRunPerKey
  BY DEF SubmitInv, KeysInv, AnswersInv, OneRunPerKey
<1> QED
  BY <1>1, SubmitAlways, PTL

\* A request repeated after its run was committed is never refused
\* (api.py:376-382).
THEOREM RepeatIsAnsweredAlways == SubmitSpec => []RepeatIsAnswered
<1>1. SubmitInv => RepeatIsAnswered
  BY DEF SubmitInv, RepeatInv, RepeatIsAnswered
<1> QED
  BY <1>1, SubmitAlways, PTL

\* The handler of the IntegrityError always finds the winner (api.py:431-441).
THEOREM RaceIsResolvedAlways == SubmitSpec => []RaceIsResolved
<1>1. SubmitInv => RaceIsResolved
  BY DEF SubmitInv, AnswersInv, RaceIsResolved
<1> QED
  BY <1>1, SubmitAlways, PTL

-----------------------------------------------------------------------------
(* The daily allowance.                                                     *)

\* A request counts committed Gemini runs only, is not among the runs before it
\* commits, and goes on only when it fits beside what it counted.
AllowanceInv ==
  /\ IsFiniteSet(runs)
  /\ \A c \in Submissions :
       /\ counted[c] \subseteq LiveRuns
       /\ spc[c] \in {"new", "lookup", "checks", "insert", "flushed"} => c \notin runs
       /\ (Live(c) /\ spc[c] \in {"insert", "flushed"}) =>
            Reserved(counted[c]) + size[c] <= DailyLimit
  /\ OverrunNeedsOverlap

LEMMA AllowanceInit == SubmitInit => AllowanceInv
<1> SUFFICES ASSUME SubmitInit
             PROVE  AllowanceInv
  OBVIOUS
<1>1. LiveRuns = {} /\ Reserved({}) = 0
  BY SumEmpty DEF SubmitInit, LiveRuns, Reserved
<1> QED
  BY <1>1, FS_EmptySet DEF SubmitInit, AllowanceInv, OverrunNeedsOverlap

\* A step that commits no run and counts nothing, or counts all Gemini runs.
LEMMA NothingReserved ==
  ASSUME SubmitTypeOK, AllowanceInv, UNCHANGED <<runs, provider, size>>,
         NEW c \in Submissions,
         \A o \in Submissions \ {c} : spc'[o] = spc[o] /\ counted'[o] = counted[o],
         spc'[c] \in {"new", "lookup", "checks", "insert", "flushed"} => c \notin runs,
         counted'[c] = counted[c] \/ (counted'[c] = LiveRuns /\ c \notin runs),
         (Live(c) /\ spc'[c] \in {"insert", "flushed"}) =>
            SumFunctionOnSet(size, counted'[c]) + size[c] <= DailyLimit
  PROVE  AllowanceInv'
<1>1. LiveRuns' = LiveRuns /\ \A o : Live(o)' = Live(o)
  BY DEF LiveRuns, Live
<1>2. \A o \in Submissions : counted'[o] \subseteq LiveRuns
  BY DEF AllowanceInv
<1>3. \A o \in Submissions :
        spc'[o] \in {"new", "lookup", "checks", "insert", "flushed"} => o \notin runs
  BY DEF AllowanceInv
<1>4. ASSUME NEW o \in Submissions, Live(o), spc'[o] \in {"insert", "flushed"}
      PROVE  SumFunctionOnSet(size, counted'[o]) + size[o] <= DailyLimit
  <2>1. CASE o = c
    BY <1>4, <2>1
  <2>2. CASE o # c
    <3>1. spc[o] \in {"insert", "flushed"} /\ counted'[o] = counted[o]
      BY <1>4, <2>2
    <3> QED
      BY <1>4, <3>1 DEF AllowanceInv, Reserved
  <2> QED
    BY <2>1, <2>2
<1>5. OverrunNeedsOverlap'
  <2> SUFFICES ASSUME Reserved(LiveRuns)' > DailyLimit
               PROVE  \E r, s \in LiveRuns' :
                        r # s /\ r \notin counted'[s] /\ s \notin counted'[r]
    BY DEF OverrunNeedsOverlap
  <2>1. Reserved(LiveRuns) > DailyLimit
    BY <1>1 DEF Reserved
  <2>2. PICK r, s \in LiveRuns : r # s /\ r \notin counted[s] /\ s \notin counted[r]
    BY <2>1 DEF AllowanceInv, OverrunNeedsOverlap
  <2>3. \A o \in LiveRuns : o \in Submissions /\ counted'[o] = counted[o]
    BY DEF LiveRuns, SubmitTypeOK
  <2> QED
    BY <1>1, <2>2, <2>3
<1> QED
  BY <1>1, <1>2, <1>3, <1>4, <1>5 DEF AllowanceInv, Reserved

\* Whoever commits either counted every Gemini run, and fits beside them, or
\* overlapped with one that did not count it.
LEMMA CommitReserves ==
  ASSUME SubmitTypeOK, AllowanceInv, NEW c \in Submissions, CommitRun(c)
  PROVE  AllowanceInv'
<1>1. /\ spc[c] = "flushed" /\ spc' = [spc EXCEPT ![c] = "dispatching"]
      /\ runs' = runs \union {c} /\ UNCHANGED <<provider, size, counted>>
  BY DEF CommitRun, Proceed, bodyVars
<1>2. c \notin runs /\ counted[c] \subseteq LiveRuns
  BY <1>1 DEF AllowanceInv
<1>3. /\ \A o : Live(o)' = Live(o)
      /\ LiveRuns' = IF Live(c) THEN LiveRuns \union {c} ELSE LiveRuns
      /\ c \notin LiveRuns
  BY <1>1, <1>2 DEF LiveRuns, Live
<1>4. IsFiniteSet(runs') /\ IsFiniteSet(LiveRuns) /\ IsFiniteSet(LiveRuns')
  <2>1. IsFiniteSet(runs')
    BY <1>1, FS_AddElement DEF AllowanceInv
  <2>2. LiveRuns \in SUBSET runs' /\ LiveRuns' \in SUBSET runs'
    BY <1>1 DEF LiveRuns
  <2> QED
    BY <2>1, <2>2, FS_Subset
<1>5. \A o \in Submissions : counted'[o] \subseteq LiveRuns'
  BY <1>1, <1>3 DEF AllowanceInv
<1>6. \A o \in Submissions : o # c => spc'[o] = spc[o]
  BY <1>1 DEF SubmitTypeOK
<1>7. spc'[c] = "dispatching"
  BY <1>1 DEF SubmitTypeOK
<1>8. \A o \in Submissions :
        spc'[o] \in {"new", "lookup", "checks", "insert", "flushed"} => o \notin runs'
  BY <1>1, <1>6, <1>7 DEF AllowanceInv
<1>9. \A o \in Submissions :
        (Live(o)' /\ spc'[o] \in {"insert", "flushed"}) =>
           Reserved(counted[o])' + size'[o] <= DailyLimit
  BY <1>1, <1>3, <1>6, <1>7 DEF AllowanceInv, Reserved
<1>10. OverrunNeedsOverlap'
  <2> SUFFICES ASSUME Reserved(LiveRuns)' > DailyLimit
               PROVE  \E r, s \in LiveRuns' :
                        r # s /\ r \notin counted'[s] /\ s \notin counted'[r]
    BY DEF OverrunNeedsOverlap
  <2>1. CASE Reserved(LiveRuns) > DailyLimit
    <3>1. PICK r, s \in LiveRuns : r # s /\ r \notin counted[s] /\ s \notin counted[r]
      BY <2>1 DEF AllowanceInv, OverrunNeedsOverlap
    <3> QED
      BY <1>1, <1>3, <3>1
  <2>2. CASE ~(Reserved(LiveRuns) > DailyLimit)
    <3>1. Reserved(LiveRuns)' = SumFunctionOnSet(size, LiveRuns')
      BY <1>1 DEF Reserved
    <3>2. Live(c)
      BY <1>3, <2>2, <3>1 DEF Reserved
    <3>3. LiveRuns' = LiveRuns \union {c} /\ LiveRuns' \ {c} = LiveRuns
      BY <1>3, <3>2
    <3>4. \A r \in LiveRuns' : size[r] \in Nat
      <4>1. LiveRuns' \subseteq Submissions
        BY <1>1 DEF LiveRuns, SubmitTypeOK
      <4> QED
        BY <4>1 DEF SubmitTypeOK
    <3>5. SumFunctionOnSet(size, LiveRuns') = size[c] + SumFunctionOnSet(size, LiveRuns)
      BY <1>4, <3>3, <3>4, SumRemove
    <3>6. SumFunctionOnSet(size, LiveRuns) \in Nat /\ size[c] \in Nat
      BY <1>4, <3>3, <3>4, SumNat
    <3>7. SumFunctionOnSet(size, counted[c]) + size[c] <= DailyLimit
      BY <1>1, <3>2 DEF AllowanceInv, Reserved
    <3>8. counted[c] # LiveRuns
      <4>1. SumFunctionOnSet(size, LiveRuns) + size[c] > DailyLimit
        BY <3>1, <3>5, <3>6
      <4>2. SumFunctionOnSet(size, LiveRuns) + size[c] \in Nat
        BY <3>6
      <4> QED
        BY <3>7, <4>1, <4>2
    <3>9. PICK r \in LiveRuns : r \notin counted[c]
      BY <1>2, <3>8
    <3>10. r # c /\ r \in Submissions /\ c \notin counted[r]
      <4>1. r \in runs /\ r \in Submissions
        BY DEF LiveRuns, SubmitTypeOK
      <4>2. counted[r] \subseteq LiveRuns
        BY <4>1 DEF AllowanceInv
      <4> QED
        BY <1>2, <1>3, <4>1, <4>2
    <3> QED
      BY <1>1, <3>3, <3>9, <3>10
  <2> QED
    BY <2>1, <2>2
<1> QED
  BY <1>1, <1>4, <1>5, <1>8, <1>9, <1>10 DEF AllowanceInv

\* No step lets a run in beside all it counted that does not fit.
LEMMA AllowanceStep ==
  SubmitTypeOK /\ AllowanceInv /\ [SubmitNext]_submitVars => AllowanceInv'
<1> SUFFICES ASSUME SubmitTypeOK, AllowanceInv, [SubmitNext]_submitVars
             PROVE  AllowanceInv'
  OBVIOUS
<1> USE DEF SubmitTypeOK, Proceed, bodyVars
<1>1. CASE UNCHANGED submitVars
  BY <1>1
  DEF submitVars, AllowanceInv, OverrunNeedsOverlap, LiveRuns, Live, Reserved
<1>2. ASSUME NEW c \in Submissions,
             \/ Submit(c) \/ Lookup(c) \/ RefuseSize(c) \/ PassMock(c) \/ Flush(c)
             \/ ReturnWinner(c) \/ CallOutbox(c) \/ AnswerNew(c) \/ Die(c)
      PROVE  AllowanceInv'
  <2>1. /\ UNCHANGED <<runs, provider, size, counted>>
        /\ \A o \in Submissions \ {c} : spc'[o] = spc[o]
    BY <1>2
    DEF Submit, Lookup, RefuseSize, PassMock, Flush, ReturnWinner, CallOutbox, AnswerNew,
        Die, ReplyWith
  <2>2. /\ spc'[c] \in {"new", "lookup", "checks", "insert", "flushed"} =>
             spc[c] \in {"new", "lookup", "checks", "insert", "flushed"}
        /\ (Live(c) /\ spc'[c] \in {"insert", "flushed"}) => spc[c] \in {"insert", "flushed"}
    BY <1>2
    DEF Submit, Lookup, RefuseSize, PassMock, Flush, ReturnWinner, CallOutbox, AnswerNew,
        Die, ReplyWith
  <2> QED
    BY <2>1, <2>2, NothingReserved DEF AllowanceInv, Reserved
<1>3. ASSUME NEW c \in Submissions, CheckAllowance(c)
      PROVE  AllowanceInv'
  <2>1. /\ spc[c] = "checks" /\ UNCHANGED <<runs, provider, size>>
        /\ \A o \in Submissions \ {c} : spc'[o] = spc[o] /\ counted'[o] = counted[o]
        /\ counted'[c] = LiveRuns
        /\ spc'[c] = IF Exceeds(c, LiveRuns) THEN "refused" ELSE "insert"
    BY <1>3 DEF CheckAllowance
  <2>2. c \notin runs
    BY <2>1 DEF AllowanceInv
  <2>3. spc'[c] = "insert" => SumFunctionOnSet(size, LiveRuns) + size[c] <= DailyLimit
    <3>1. IsFiniteSet(LiveRuns) /\ \A r \in LiveRuns : size[r] \in Nat
      <4>1. LiveRuns \in SUBSET runs
        BY DEF LiveRuns
      <4> QED
        BY <4>1, FS_Subset DEF AllowanceInv
    <3>2. SumFunctionOnSet(size, LiveRuns) \in Nat /\ size[c] \in Nat
      BY <3>1, SumNat
    <3> QED
      BY <2>1, <3>2 DEF Exceeds, Reserved
  <2> QED
    BY <2>1, <2>2, <2>3, NothingReserved
<1>4. ASSUME NEW c \in Submissions, CommitRun(c)
      PROVE  AllowanceInv'
  BY <1>4, CommitReserves
<1> QED
  BY <1>1, <1>2, <1>3, <1>4 DEF SubmitNext, SubmitStep, Create

\* The daily allowance is overrun only by two requests neither of which counted the
\* other, for any limit and any number and size of datasets (api.py:127-135,
\* 405-410).
THEOREM OverrunNeedsOverlapAlways == SubmitSpec => []OverrunNeedsOverlap
<1>1. AllowanceInv => OverrunNeedsOverlap
  BY DEF AllowanceInv
<1>2. SubmitInv => SubmitTypeOK
  BY DEF SubmitInv
<1> QED
  BY <1>1, <1>2, AllowanceInit, AllowanceStep, SubmitAlways, PTL DEF SubmitSpec

-----------------------------------------------------------------------------
\* The intake as a whole implements the submissions on their own: the outbox never
\* touches what they decide on, so everything above holds beside it too
\* (api.py:442-443).
THEOREM IntakeImplementsSubmission == IntakeSpec => SubmitSpec
<1>1. IntakeInit => SubmitInit
  BY DEF IntakeInit
<1>2. [IntakeNext]_intakeVars => [SubmitNext]_submitVars
  <2> SUFFICES ASSUME [IntakeNext]_intakeVars
               PROVE  [SubmitNext]_submitVars
    OBVIOUS
  <2>1. ASSUME NEW c \in Submissions, Send(c) \/ Serve(c) \/ Death(c)
        PROVE  [SubmitNext]_submitVars
    <3>1. \/ Submit(c) \/ Create(c) \/ CommitRun(c) \/ CallOutbox(c) \/ AnswerNew(c)
          \/ Die(c) \/ UNCHANGED submitVars
      BY <2>1
      DEF Send, Serve, Death, CreateStep, Accept, InlineCall, InlineWalk, Answered
    <3> QED
      BY <3>1 DEF SubmitNext, SubmitStep
  <2>2. ASSUME NEW d \in Beats, Beat(d) \/ DeadBeat(d)
        PROVE  [SubmitNext]_submitVars
    BY <2>2 DEF Beat, DeadBeat
  <2>3. ASSUME NEW r \in Runs, Leave(r)
        PROVE  [SubmitNext]_submitVars
    BY <2>3 DEF Leave
  <2>4. CASE UNCHANGED intakeVars
    BY <2>4 DEF intakeVars
  <2> QED
    BY <2>1, <2>2, <2>3, <2>4 DEF IntakeNext
<1> QED
  BY <1>1, <1>2, PTL DEF IntakeSpec, SubmitSpec

-----------------------------------------------------------------------------
(* The outbox.                                                              *)

\* What a call has yet to write is already true: it published the rows it will
\* call dispatched, and the runs it will discard have left the queue.
CallsInv ==
  /\ told \in [Callers -> SUBSET published]
  /\ obsolete \in [Callers -> SUBSET unqueued]

DropInv == CallsInv /\ NothingIsDropped

\* At first every row is pending and no call is under way.
LEMMA DropInit == IntakeInit => DropInv
BY DEF IntakeInit, OutboxInit, DropInv, CallsInv, NothingIsDropped

\* A call that walks its batch, or ends, writes only what is true.
LEMMA WalkDropsNothing ==
  ASSUME DropInv, NEW d \in Callers, Walk(d) \/ InterruptCall(d)
  PROVE  DropInv'
<1> USE DEF DropInv, CallsInv, NothingIsDropped
<1>1. CASE Discard(d)
  <2>1. PICK h : /\ h \in unqueued
                 /\ obsolete' = [obsolete EXCEPT ![d] = @ \union {h}]
    BY <1>1 DEF Discard
  <2> QED
    BY <1>1, <2>1 DEF Discard
<1>2. CASE StillQueued(d)
  BY <1>2 DEF StillQueued
<1>3. CASE Tell(d)
  <2>1. PICK h : /\ published' = published \union {h}
                 /\ told' = [told EXCEPT ![d] = @ \union {h}]
    BY <1>3 DEF Tell
  <2> QED
    BY <1>3, <2>1 DEF Tell
<1>4. CASE RefuseOne(d)
  BY <1>4 DEF RefuseOne, ToldAfterRefusal
<1>5. CASE SaveAll(d)
  <2>1. CallsInv'
    BY <1>5 DEF SaveAll, EndCall
  <2>2. \A r \in Runs :
          /\ rowState'[r] = "dispatched" =>
               r \in told[d] \/ rowState[r] = "dispatched"
          /\ rowState'[r] = "discarded" =>
               r \in obsolete[d] \/ rowState[r] = "discarded"
    BY <1>5 DEF SaveAll
  <2>3. UNCHANGED <<published, unqueued>>
    BY <1>5 DEF SaveAll
  <2> QED
    BY <2>1, <2>2, <2>3
<1>6. CASE InterruptCall(d)
  BY <1>6 DEF InterruptCall, EndCall
<1> QED
  BY <1>1, <1>2, <1>3, <1>4, <1>5, <1>6 DEF Walk

\* Loading rows promises nothing.
LEMMA LoadDropsNothing ==
  ASSUME DropInv, NEW d \in Callers, NEW n, Load(d, n)
  PROVE  DropInv'
BY DEF Load, DropInv, CallsInv, NothingIsDropped

\* No step of the intake drops a run.
LEMMA DropStep == DropInv /\ [IntakeNext]_intakeVars => DropInv'
<1> SUFFICES ASSUME DropInv, [IntakeNext]_intakeVars
             PROVE  DropInv'
  OBVIOUS
<1>1. ASSUME UNCHANGED outboxVars
      PROVE  DropInv'
  BY <1>1 DEF outboxVars, DropInv, CallsInv, NothingIsDropped
<1>2. ASSUME NEW c \in Submissions, Send(c) \/ Serve(c)
      PROVE  DropInv'
  <2>1. CASE Send(c) \/ CreateStep(c) \/ Answered(c)
    BY <1>1, <2>1 DEF Send, CreateStep, Answered
  <2>2. CASE Accept(c)
    BY <2>2 DEF Accept, DropInv, CallsInv, NothingIsDropped
  <2>3. CASE InlineCall(c)
    BY <1>1, <2>3, LoadDropsNothing DEF InlineCall
  <2>4. CASE InlineWalk(c)
    BY <2>4, WalkDropsNothing DEF InlineWalk
  <2> QED
    BY <1>2, <2>1, <2>2, <2>3, <2>4 DEF Serve
<1>3. ASSUME NEW c \in Submissions, Death(c)
      PROVE  DropInv'
  BY <1>3 DEF Death, EndCall, DropInv, CallsInv, NothingIsDropped
<1>4. ASSUME NEW d \in Beats, Beat(d) \/ DeadBeat(d)
      PROVE  DropInv'
  BY <1>4, LoadDropsNothing, WalkDropsNothing DEF Beat, DeadBeat
<1>5. ASSUME NEW r \in Runs, Leave(r)
      PROVE  DropInv'
  BY <1>5 DEF Leave, LeaveQueue, DropInv, CallsInv, NothingIsDropped
<1> QED
  BY <1>1, <1>2, <1>3, <1>4, <1>5 DEF IntakeNext, intakeVars

\* A dispatch row says dispatched only of a published run and discarded only of
\* one that left the queue, whatever batch it was part of and whoever died
\* (tasks.py:66-91).
THEOREM NothingIsDroppedAlways == IntakeSpec => []NothingIsDropped
<1>1. DropInv => NothingIsDropped
  BY DEF DropInv
<1> QED
  BY <1>1, DropInit, DropStep, PTL DEF IntakeSpec

=============================================================================
