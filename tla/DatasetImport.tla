--------------------------- MODULE DatasetImport ---------------------------
(***************************************************************************)
(* parse_dataset: one uploaded file becomes the cases of a dataset version,  *)
(* or is refused as a whole.  A file is its format, its size, what it is at   *)
(* the top level and its rows; the same row may stand many times, so a file   *)
(* is a sequence of rows with how often each occurs.                          *)
(***************************************************************************)
EXTENDS Naturals, Sequences, FiniteSetsExt

CONSTANTS
  MaxBytes,  \* max_dataset_bytes
  MaxRows    \* max_dataset_rows

ASSUME ImportAssumption == MaxBytes \in Nat /\ MaxRows \in Nat \ {0}

(***************************************************************************)
(* What a row is to the parser: a good case without or with the tag           *)
(* "critical", the same tag with spaces around it, an element that is no      *)
(* object, an input that is no JSON object, an input that is no JSON, tags    *)
(* that are not strings, and a line of a CSV file too short to reach the      *)
(* input column, which the reader fills with None.                            *)
(***************************************************************************)
JsonRows == {"plain", "critical", "padded", "scalar", "badInput", "badTags"}
CsvRows == {"plain", "critical", "padded", "badInput", "badJson", "short"}

\* Files as they arrive: "broken" is text json.loads refuses, "other" is JSON
\* that is not an array, "hugeField" is a CSV field the csv module refuses.
IsFile(f) ==
  \/ f.format = "json" /\ f.shape \in {"rows", "broken", "other"}
     /\ f.rows \in Seq([kind : JsonRows, times : Nat \ {0}])
  \/ f.format = "csv" /\ f.shape \in {"rows", "hugeField"}
     /\ f.rows \in Seq([kind : CsvRows, times : Nat \ {0}])

RowCount(f) == SumFunction([i \in DOMAIN f.rows |-> f.rows[i].times])

\* json.loads(None) raises a TypeError that nothing catches; the rest is 422.
RowVerdict(kind) ==
  CASE kind \in {"plain", "critical", "padded"} -> "good"
    [] kind = "short" -> "error"
    [] OTHER -> "refused"

\* Tags of a CSV row are stripped, those of a JSON row are kept as they are.
IsCritical(format, kind) ==
  kind = "critical" \/ (format = "csv" /\ kind = "padded")

\* The rows are walked in order and the first one that is not good decides.
RowsVerdict(f) ==
  LET bad == {i \in DOMAIN f.rows : RowVerdict(f.rows[i].kind) # "good"}
      IsFirst(i) == \A j \in bad : i <= j
  IN CASE bad = {} -> "good"
       [] \E i \in bad : IsFirst(i) /\ RowVerdict(f.rows[i].kind) = "error" -> "error"
       [] OTHER -> "refused"

ParseVerdict(f) ==
  CASE f.size > MaxBytes -> "refused"
    [] f.size <= MaxBytes /\ f.shape = "hugeField" -> "error"
    [] f.size <= MaxBytes /\ f.shape \in {"broken", "other"} -> "refused"
    [] OTHER -> IF RowCount(f) \in 1..MaxRows THEN RowsVerdict(f) ELSE "refused"

\* The cases of an accepted file, in the order of its rows.
ParsedCases(f) ==
  [i \in DOMAIN f.rows |->
     [critical |-> IsCritical(f.format, f.rows[i].kind), times |-> f.rows[i].times]]

=============================================================================
