----------------------------- MODULE MCRecords -----------------------------
(***************************************************************************)
(* Version uploads, diagnoses and comparisons share no row they write, so one *)
(* behaviour explores one of the three and the others rest in a fixed state.  *)
(***************************************************************************)
EXTENDS Versions, Diagnosis, ReleaseGate, TLC

CONSTANTS p1, e1, r1, r2

VARIABLE scene

AnyConfig == CHOOSE g \in Configs : TRUE

recordVars == <<scene, versionVars, diagnosisVars, gateVars>>

RecordsInit ==
  /\ VersionsInit
  /\ DiagnosisInit
  /\ GateInit
  /\ scene \in {"versions", "diagnosis", "gate"}
  /\ scene # "versions" => owner = [u \in Uploads |-> p1]
  /\ IF scene = "diagnosis"
       THEN \E q \in Requests : run[q] = r1 /\ (\E p \in Requests : run[p] = r2) = (allowance = 1)
       ELSE run = [q \in Requests |-> r1] /\ allowance = 1
  /\ status = [r \in Runs |-> IF \E q \in Requests : run[q] = r THEN "running" ELSE "cancelled"]
  /\ IF scene = "gate"
       THEN config["baseline"] \in {config["candidate"], AnyConfig}
       ELSE config = [s \in Sides |-> AnyConfig]

UploadStep(u) == ServeUpload(u) /\ UNCHANGED <<scene, diagnosisVars, gateVars>>

DiagnosisStep(q) == ServeDiagnosis(q) /\ UNCHANGED <<scene, versionVars, gateVars>>

RecordsNext ==
  \/ /\ scene = "versions"
     /\ VersionsNext
     /\ UNCHANGED <<scene, diagnosisVars, gateVars>>
  \/ /\ scene = "diagnosis"
     /\ DiagnosisNext
     /\ UNCHANGED <<scene, versionVars, gateVars>>
  \/ /\ scene = "gate"
     /\ GateNext
     /\ UNCHANGED <<scene, versionVars, diagnosisVars>>

RecordsSpec ==
  /\ RecordsInit
  /\ [][RecordsNext]_recordVars
  /\ \A u \in Uploads : WF_recordVars(UploadStep(u))
  /\ \A q \in Requests : WF_recordVars(DiagnosisStep(q))

\* Every upload and every diagnosis ends, also when the request whose insert it
\* waits for dies (api.py:262, 340, 523-530).
RequestsEnd == UploadsEnd /\ DiagnosesEnd

-----------------------------------------------------------------------------
(* Files.                                                                   *)

Row(kind, times) == [kind |-> kind, times |-> times]

File(format, rows) == [format |-> format, shape |-> "rows", size |-> 1, rows |-> rows]

JsonFile == File("json", <<Row("plain", 1), Row("critical", 1)>>)
LargeFile == File("csv", <<Row("plain", 18), Row("padded", 2)>>)
FiftyFile == File("json", <<Row("plain", 49), Row("padded", 1)>>)

MCFiles ==
  {JsonFile, LargeFile,
   File("json", <<Row("plain", 1), Row("badTags", 1), Row("scalar", 1)>>),
   File("csv", <<Row("plain", 1), Row("short", 1), Row("badJson", 1)>>),
   File("csv", <<Row("badInput", 1), Row("short", 1)>>),
   File("csv", <<Row("plain", 51)>>),
   File("json", <<>>),
   [File("csv", <<>>) EXCEPT !.shape = "hugeField"],
   [File("json", <<>>) EXCEPT !.shape = "broken"],
   [JsonFile EXCEPT !.size = 3]}

-----------------------------------------------------------------------------
(* Diagnosis.                                                               *)

MCRelevance == (r1 :> <<2, 2, 5, 0>>) @@ (r2 :> <<0, 0, 0, 0>>)
MCMaxFailing == (r1 :> 4) @@ (r2 :> 1)
MCCiteLists == {<<>>, <<2, 3, 9, 2>>, <<4, 9>>}
MCBase == (r1 :> 3) @@ (r2 :> 7)
MCCost == (r1 :> <<2, 3, 1>>) @@ (r2 :> <<1, 1, 1>>)

-----------------------------------------------------------------------------
(* The gate.                                                                *)

Spec(type, option) == [type |-> type, option |-> option]

MCConfigs ==
  [file : {JsonFile}, specs :
     {<<Spec("exact_match", "expected"), Spec("max_latency", "limit")>>,
      <<Spec("valid_json", "none"), Spec("valid_json", "none")>>,
      <<Spec("json_schema", "broken")>>, <<Spec("json_schema", "long")>>,
      <<Spec("json_schema", "object"), Spec("required_json_keys", "keys")>>,
      <<Spec("contains_all", "number")>>, <<Spec("max_latency", "broken")>>,
      <<Spec("required_json_keys", "empty"), Spec("regex", "broken")>>}]
  \union
  [file : {LargeFile, FiftyFile}, specs :
     {<<Spec("case_insensitive_exact_match", "expected")>>,
      <<Spec("regex", "expected"), Spec("contains_all", "expected")>>}]

Answer(text, json, latency) ==
  [text |-> text, json |-> json, keys |-> IF json = "object" THEN {"k"} ELSE {},
   latency |-> latency]

Mock(answer) ==
  [provider |-> "mock", caseBehavior |-> "absent", runBehavior |-> "none",
   badLatency |-> FALSE, answer |-> answer]

Gemini(reply, chars, answer) ==
  [provider |-> "gemini", configured |-> TRUE, chars |-> chars, reply |-> reply,
   answer |-> answer]

Yes == Answer("a", "none", 10)

Http(code) == [kind |-> "http", code |-> code]
Text == [kind |-> "text", code |-> 200]

BaselineCalls ==
  {Mock(Yes), Mock(Answer("b", "object", 10)), Mock(Answer("a", "scalar", 0)),
   [Mock(Yes) EXCEPT !.caseBehavior = "permanent_error"]}

Retrying(caseBehavior) ==
  [Mock(Yes) EXCEPT !.runBehavior = "temporary_error", !.caseBehavior = caseBehavior]

CandidateCalls ==
  {Mock(Yes), Mock(Answer("A", "object", 12)), Mock(Answer("a", "scalar", 30)),
   [Mock(Yes) EXCEPT !.badLatency = TRUE],
   Retrying("null"), Retrying("absent"), Retrying("permanent_error"),
   Gemini(Text, 2, Yes), Gemini(Text, 2, Answer("a", "none", 9)), Gemini(Text, 4, Yes),
   Gemini(Http(429), 2, Yes), Gemini(Http(400), 2, Yes),
   [Gemini(Text, 2, Yes) EXCEPT !.configured = FALSE]}

MCCalls == [baseline |-> BaselineCalls, candidate |-> CandidateCalls]

\* In percent, also above 100 and below 0.
Policy(drop, critical, latency, errors) ==
  [drop |-> drop, critical |-> critical, latency |-> latency, errors |-> errors, bad |-> FALSE]

MCPolicies ==
  {Policy(drop, critical, 20, 1) : drop \in {2, 0}, critical \in {100, 50}}
  \union
  {Policy(100, 100, 0, 100), [Policy(100, 100, 0, 100) EXCEPT !.bad = TRUE],
   Policy(-1, 50, 20, 1), Policy(100, 0, -10, 100), Policy(100, 101, 20, -1)}

=============================================================================
