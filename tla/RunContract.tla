----------------------------- MODULE RunContract -----------------------------
(***************************************************************************)
(* What the program promises about one run to whoever reads its row, with    *)
(* no word of workers, messages, event numbers or transactions: the run is   *)
(* owned by at most one attempt, its results only grow, an attempt leaves    *)
(* it queued, settled or abandoned, and it settles as completed only when    *)
(* every case has a result.                                                 *)
(***************************************************************************)
EXTENDS Naturals

CONSTANT Cases

VARIABLES
  status,   \* what the row says
  intent,   \* a user asked to cancel
  done,     \* the cases that have a result
  owned     \* an attempt is executing the run

contractVars == <<status, intent, done, owned>>

ContractInit ==
  /\ status = "queued"
  /\ intent = FALSE
  /\ done = {}
  /\ owned = FALSE

\* Only a queued run nobody executes is claimed.
Claim ==
  /\ status = "queued"
  /\ ~owned
  /\ status' = "running"
  /\ owned' = TRUE
  /\ UNCHANGED <<intent, done>>

\* The attempt stores the result of one more case.
Checkpoint ==
  /\ owned
  /\ \E c \in Cases \ done : done' = done \union {c}
  /\ UNCHANGED <<status, intent, owned>>

\* The attempt gives the run back for a later one.
Release ==
  /\ owned
  /\ status' = "queued"
  /\ owned' = FALSE
  /\ UNCHANGED <<intent, done>>

\* The attempt is the last one.
Settle ==
  /\ owned
  /\ \/ status' = "completed" /\ done = Cases
     \/ status' = "cancelled" /\ intent
     \/ status' = "failed"
  /\ owned' = FALSE
  /\ UNCHANGED <<intent, done>>

\* The attempt ends without a word in the row.
Abandon ==
  /\ owned
  /\ owned' = FALSE
  /\ UNCHANGED <<status, intent, done>>

\* The intent is recorded; the run may be cancelled at once.
RequestCancel ==
  /\ intent' = TRUE
  /\ status' \in {status, "cancelled"}
  /\ UNCHANGED <<done, owned>>

ContractNext ==
  Claim \/ Checkpoint \/ Release \/ Settle \/ Abandon \/ RequestCancel

ContractSpec == ContractInit /\ [][ContractNext]_contractVars

=============================================================================
