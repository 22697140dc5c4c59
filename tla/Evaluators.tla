----------------------------- MODULE Evaluators -----------------------------
(***************************************************************************)
(* evaluate_output: the scores of one answer.  An answer is what the          *)
(* evaluators can tell apart: its text, what it is as JSON, which keys it has  *)
(* and its latency.  An evaluator passes, fails, or raises an exception that   *)
(* no one takes for a verdict.                                               *)
(***************************************************************************)
EXTENDS Naturals, Sequences

\* The options an evaluator can be given, the ones no schema checks included:
\* "number" where a list is expected, "broken" for a pattern, schema or limit that
\* is none, "long" for one whose explanation exceeds the column.
Options ==
  [exact_match |-> {"expected"}, case_insensitive_exact_match |-> {"expected"},
   contains_all |-> {"expected", "long", "number"},
   regex |-> {"expected", "broken", "long"},
   valid_json |-> {"none"},
   json_schema |-> {"object", "broken", "long"},
   required_json_keys |-> {"keys", "empty", "number"},
   max_latency |-> {"limit", "broken"}]

\* EvaluatorSpec admits the eight types and any options.
IsSpec(s) == s.type \in DOMAIN Options /\ s.option \in Options[s.type]

\* str.casefold
Fold(text) == IF text = "A" THEN "a" ELSE text

IsJson(a) == a.json # "none"

\* Takes only objects for JSON.
IsObject(a) == a.json = "object"

\* The options that raise; a broken schema is looked at only when there is JSON.
Raises(s, a) ==
  \/ s.type \in {"contains_all", "required_json_keys"} /\ s.option = "number"
  \/ s.type = "json_schema" /\ s.option = "broken" /\ IsJson(a)
  \/ s.type = "max_latency" /\ s.option = "broken"

ValidJson(a) == IsJson(a)

\* Whether the evaluator passes, when it does not raise.
Passes(s, a, expected, limit) ==
  CASE s.type = "exact_match" -> a.text = expected
    [] s.type = "case_insensitive_exact_match" -> Fold(a.text) = Fold(expected)
    [] s.type = "contains_all" -> s.option = "expected" /\ a.text = expected
    [] s.type = "regex" -> s.option = "expected" /\ a.text = expected
    [] s.type = "valid_json" -> ValidJson(a)
    [] s.type = "json_schema" -> s.option = "object" /\ IsObject(a)
    [] s.type = "required_json_keys" ->
         s.option = "empty" \/ (IsObject(a) /\ "k" \in a.keys)
    [] s.type = "max_latency" -> a.latency <= limit

\* EvaluationScore.explanation holds 500 characters; PostgreSQL refuses more.
Overflows(s, a) ==
  /\ s.option = "long"
  /\ s.type = "json_schema" => IsJson(a)

\* No unique constraint.
NamesNeverCollide(specs) == FALSE

\* UniqueConstraint(result_id, name): one score per name and result.
NamesCollide(specs) ==
  \E i, j \in DOMAIN specs : i # j /\ specs[i].type = specs[j].type

\* The result of an answered case, or "raised": the exception or the refused insert
\* that fails the run.
CaseVerdict(specs, a, expected, limit) ==
  IF \/ \E i \in DOMAIN specs : Raises(specs[i], a) \/ Overflows(specs[i], a)
     \/ NamesCollide(specs)
    THEN "raised"
    ELSE IF \A i \in DOMAIN specs : Passes(specs[i], a, expected, limit)
           THEN "passed" ELSE "failed"

=============================================================================
