---------------------------- MODULE SnapshotDiff ----------------------------
(***************************************************************************)
(* The pure full-board diff (src/ingestion-v2/diff.ts): every row of a     *)
(* complete board against the compact ledger, and the ledger rows the      *)
(* board misses.                                                           *)
(***************************************************************************)
EXTENDS IngestionRows

(* A due retry of unchanged material ("retryable") is already dispatchable  *)
(* and discovery never reopens it: it is "unchanged" here.                  *)
Classify(r, material, ver) ==
    CASE r.state = "unknown" -> "new"
      [] r.state # "unknown" /\ r.ver # ver -> "stale-policy"
      [] r.state # "unknown" /\ r.ver = ver
           /\ (r.state = "absent" \/ r.omissions >= 2) -> "reappeared"
      [] r.state \notin {"unknown", "absent"} /\ r.ver = ver
           /\ r.omissions < 2 /\ r.material # material -> "changed"
      [] OTHER -> "unchanged"

Classified(ledger, snap, class) ==
    {i \in DOMAIN snap.board :
        Classify(ledger[i], snap.board[i], snap.ver) = class}

(* Mutant of Omission: the count is not capped at the second miss.          *)
OmissionUncapped(ledger, board, i) ==
    IF i \in DOMAIN board \/ ledger[i].state \in {"unknown", "absent"} THEN 0
    ELSE ledger[i].omissions + 1

(* The omission count each missing row gets; 0 for a row left alone. *)
Omission(ledger, board, i) ==
    IF i \in DOMAIN board \/ ledger[i].state \in {"unknown", "absent"} THEN 0
    ELSE IF ledger[i].omissions >= 2 THEN 2
    ELSE ledger[i].omissions + 1

Omissions(ledger, board) == [i \in Id |-> Omission(ledger, board, i)]
NoOmissions == [i \in Id |-> 0]
=============================================================================
