------------------------- MODULE IngestionRowsProofs -------------------------
(***************************************************************************)
(* What each statement on a ledger row returns: lemmas about the operators *)
(* of IngestionRows and SnapshotDiff, for every value of the constants.    *)
(***************************************************************************)
EXTENDS SnapshotDiff, TLAPS

(* A board maps ids to materials, and a snapshot is a board and a version. *)
LEMMA BoardType ==
    ASSUME NEW b \in Board
    PROVE  /\ DOMAIN b \subseteq Id
           /\ \A i \in DOMAIN b : b[i] \in Material
BY DEF Board

(* What planSnapshotDiff reads of a snapshot: a board and the admission    *)
(* version it was taken under.                                             *)
LEMMA SnapshotType ==
    ASSUME NEW s \in Snapshot
    PROVE  /\ s.board \in Board /\ s.ver \in Version
           /\ DOMAIN s.board \subseteq Id
           /\ \A i \in DOMAIN s.board : s.board[i] \in Material
BY BoardType DEF Snapshot

(* The absence of a ledger row is a row of the model.                      *)
LEMMA UnknownRowType == UnknownRow \in Row
BY DEF UnknownRow, Row, RowState, Decision

(* The discovery upsert writes a well-formed row.                          *)
LEMMA PutRowType ==
    ASSUME NEW r \in Row, NEW snap \in Snapshot, NEW material \in Material,
           NEW baseline \in BOOLEAN
    PROVE  PutRow(r, snap, material, baseline) \in Row
BY SnapshotType DEF PutRow, Row, RowState, Decision, LaneOwned, SameAdmissionIdentity

(* What re-discovery keeps: a lease, a claim and a graded result survive    *)
(* only an unchanged admission identity, and the baseline is never cleared. *)
LEMMA PutRowFields ==
    ASSUME NEW r \in Row, NEW snap, NEW material, NEW baseline \in BOOLEAN
    PROVE  LET p == PutRow(r, snap, material, baseline)
               same == SameAdmissionIdentity(r, material, snap.ver)
           IN  /\ p.snap = snap /\ p.material = material /\ p.ver = snap.ver
               /\ p.omissions = 0 /\ ~p.closing
               /\ r.baseline => p.baseline
               /\ p.claimed => same /\ r.claimed
               /\ p.state = "processing" =>
                    same /\ r.state = "processing" /\ p.owner = r.owner
               /\ p.state \in LaneOwned =>
                    same /\ p.state = r.state /\ p.attempts = r.attempts
               /\ p.state = "settled" /\ p.attempts > 0 =>
                    /\ same /\ r.state = "settled" /\ r.attempts > 0
                    /\ p.decision = r.decision
               /\ p.state \in LaneOwned \cup {"settled"}
<1> DEFINE same == SameAdmissionIdentity(r, material, snap.ver)
           lane == r.state \in LaneOwned /\ same
           kept == lane \/ (r.state = "settled" /\ r.attempts > 0 /\ same)
           p == PutRow(r, snap, material, baseline)
<1>1. /\ p.snap = snap /\ p.material = material /\ p.ver = snap.ver
      /\ p.omissions = 0 /\ p.closing = FALSE
      /\ p.baseline = (r.baseline \/ baseline)
      /\ p.claimed = (same /\ r.claimed)
      /\ p.state = IF lane THEN r.state ELSE "settled"
      /\ p.owner = IF lane THEN r.owner ELSE None
      /\ p.attempts = IF kept THEN r.attempts ELSE 0
      /\ p.decision = IF kept THEN r.decision ELSE "none"
  BY DEF PutRow
<1>2. lane => r.state \in LaneOwned /\ same
  OBVIOUS
<1>3. kept <=> lane \/ (r.state = "settled" /\ r.attempts > 0 /\ same)
  OBVIOUS
<1>4. same /\ r.state \in LaneOwned => lane
  OBVIOUS
<1>5. (r.baseline => p.baseline) /\ (p.claimed => same /\ r.claimed) /\ ~p.closing
  BY <1>1
<1> HIDE DEF same, lane, kept, p
<1>6. /\ p.state = "processing" =>
            same /\ r.state = "processing" /\ p.owner = r.owner
      /\ p.state \in LaneOwned =>
            same /\ p.state = r.state /\ p.attempts = r.attempts
      /\ p.state = "settled" /\ p.attempts > 0 =>
            /\ same /\ r.state = "settled" /\ r.attempts > 0
            /\ p.decision = r.decision
      /\ p.state \in LaneOwned \cup {"settled"}
  BY <1>1, <1>2, <1>3 DEF LaneOwned
<1>7. QED
  BY <1>1, <1>5, <1>6 DEF same, p

(* Recording the first or the second miss writes a well-formed row.        *)
LEMMA ApplyOmissionType ==
    ASSUME NEW r \in Row, NEW count \in 0..2
    PROVE  ApplyOmission(r, count) \in Row
<1> DEFINE state == IF count >= 2 /\ ~r.claimed THEN "absent"
                    ELSE IF r.state \in LaneOwned THEN r.state
                    ELSE IF count >= 2 THEN "absent" ELSE "settled"
           closing == r.closing \/ count >= 2
<1>1. state \in RowState
  BY DEF Row, RowState
<1>2. closing \in BOOLEAN
  OBVIOUS
<1>3. ApplyOmission(r, count)
        = [r EXCEPT !.omissions = count, !.state = state, !.closing = closing]
  BY DEF ApplyOmission
<1> HIDE DEF state, closing
<1>4. QED
  BY <1>1, <1>2, <1>3 DEF Row

(* What one miss does: the second one owes a closure and retires the row,  *)
(* unless its effect is claimed; the decision and the identity stay.       *)
LEMMA ApplyOmissionFields ==
    ASSUME NEW r \in Row, NEW count \in 1..2
    PROVE  LET m == ApplyOmission(r, count) IN
           /\ m.omissions = count
           /\ m.closing <=> r.closing \/ count = 2
           /\ m.state \in {r.state, "absent", "settled"}
           /\ m.state = "settled" =>
                \/ r.state = "settled" /\ count = 1
                \/ r.state \in {"unknown", "absent"} /\ count = 1
           /\ m.snap = r.snap /\ m.material = r.material /\ m.ver = r.ver
           /\ m.baseline = r.baseline /\ m.decision = r.decision
           /\ m.attempts = r.attempts /\ m.owner = r.owner
           /\ m.claimed = r.claimed
<1> DEFINE state == IF count >= 2 /\ ~r.claimed THEN "absent"
                    ELSE IF r.state \in LaneOwned THEN r.state
                    ELSE IF count >= 2 THEN "absent" ELSE "settled"
           closing == r.closing \/ count >= 2
           m == ApplyOmission(r, count)
<1>1. m = [r EXCEPT !.omissions = count, !.state = state, !.closing = closing]
  BY DEF ApplyOmission
<1>2. /\ state \in {r.state, "absent", "settled"}
      /\ state = "settled" =>
           /\ count = 1
           /\ r.state \in {"settled", "unknown", "absent"}
  BY DEF Row, RowState, LaneOwned
<1>3. closing <=> r.closing \/ count = 2
  OBVIOUS
<1> HIDE DEF state, closing, m
<1>4. /\ m.omissions = count /\ m.state = state /\ m.closing = closing
      /\ m.snap = r.snap /\ m.material = r.material /\ m.ver = r.ver
      /\ m.baseline = r.baseline /\ m.decision = r.decision
      /\ m.attempts = r.attempts /\ m.owner = r.owner /\ m.claimed = r.claimed
  BY <1>1 DEF Row
<1>5. QED
  BY <1>2, <1>3, <1>4 DEF m

(* The acknowledgement of a closure writes a well-formed row.              *)
LEMMA AcknowledgeClosureType ==
    ASSUME NEW r \in Row
    PROVE  AcknowledgeClosure(r) \in Row
BY DEF AcknowledgeClosure, Row, RowState

(* Every statement that puts a row back into the lane writes a well-formed *)
(* row.                                                                    *)
LEMMA RequeueType ==
    ASSUME NEW r \in Row
    PROVE  Requeue(r) \in Row
BY DEF Requeue, Row, RowState

(* Acquiring a lease and claiming the effect write well-formed rows.       *)
LEMMA LeaseTypes ==
    ASSUME NEW r \in Row, NEW c \in Consumer
    PROVE  /\ AcquireLease(r, c) \in Row
           /\ ClaimEffect(r) \in Row
BY DEF AcquireLease, ClaimEffect, Row, RowState

(* The settlement writes a well-formed row whatever the verdict.           *)
LEMMA SettleRowType ==
    ASSUME NEW r \in Row, NEW verdict \in Decision
    PROVE  SettleRow(r, verdict) \in Row
<1> DEFINE job == r.job \/ verdict = "admitted"
           q == Requeue(r)
<1>1. job \in BOOLEAN /\ q \in Row /\ r.attempts + 1 \in Nat
  BY RequeueType DEF Row
<1>2. SettleRow(r, verdict)
        = [q EXCEPT !.state = "settled", !.decision = verdict,
                    !.attempts = r.attempts + 1, !.job = job]
  BY DEF SettleRow
<1> HIDE DEF job, q
<1>3. QED
  BY <1>1, <1>2 DEF Row, RowState

(* The settlement records the verdict and spends an attempt.               *)
LEMMA SettleRowFields ==
    ASSUME NEW r \in Row, NEW verdict
    PROVE  LET s == SettleRow(r, verdict) IN
           /\ s.state = "settled" /\ s.decision = verdict
           /\ s.attempts = r.attempts + 1
           /\ s.snap = r.snap /\ s.material = r.material /\ s.ver = r.ver
           /\ s.baseline = r.baseline /\ s.omissions = r.omissions
           /\ s.closing = r.closing
<1> DEFINE q == Requeue(r)
           job == r.job \/ verdict = "admitted"
<1>1. /\ q \in Row
      /\ q.snap = r.snap /\ q.material = r.material /\ q.ver = r.ver
      /\ q.baseline = r.baseline /\ q.omissions = r.omissions
      /\ q.closing = r.closing
  BY RequeueType DEF Requeue, Row
<1>2. SettleRow(r, verdict)
        = [q EXCEPT !.state = "settled", !.decision = verdict,
                    !.attempts = r.attempts + 1, !.job = job]
  BY DEF SettleRow
<1> HIDE DEF q, job
<1>3. QED
  BY <1>1, <1>2 DEF Row

(* A scheduled retry and a quarantine write well-formed rows.              *)
LEMMA FailureTypes ==
    ASSUME NEW r \in Row, NEW attempts \in Nat
    PROVE  /\ ScheduleRetry(r, attempts) \in Row
           /\ QuarantineRow(r, attempts) \in Row
BY RequeueType DEF ScheduleRetry, QuarantineRow, Row, RowState

(* Both ways of reopening a row, with a fresh budget or never graded,      *)
(* write well-formed rows.                                                 *)
LEMMA ReopenTypes ==
    ASSUME NEW r \in Row, NEW ver \in Version \cup {None}, NEW baseline \in BOOLEAN
    PROVE  /\ ReopenRow(r, ver, baseline) \in Row
           /\ ReopenUnprocessed(r) \in Row
<1> DEFINE q == Requeue(r)
           p == [q EXCEPT !.attempts = 0, !.decision = "none"]
<1>1. q \in Row
  BY RequeueType
<1>2. p \in Row
  <2> HIDE DEF q
  <2> QED BY <1>1 DEF Row, Decision
<1>3. /\ ReopenRow(r, ver, baseline) = [p EXCEPT !.ver = ver, !.baseline = baseline]
      /\ ReopenUnprocessed(r) = [q EXCEPT !.decision = "none"]
  BY DEF ReopenRow, ReopenUnprocessed
<1> HIDE DEF p, q
<1>4. ReopenRow(r, ver, baseline) \in Row
  BY <1>2, <1>3 DEF Row
<1>5. ReopenUnprocessed(r) \in Row
  BY <1>1, <1>3 DEF Row, Decision
<1>6. QED
  BY <1>4, <1>5

(* The omissions of a pass are counts of 0..2, given only to ledger rows   *)
(* its board misses, and never behind the count the row had when the pass  *)
(* read it.                                                                *)
LEMMA OmissionType ==
    ASSUME NEW ledger \in [Id -> Row], NEW b \in Board
    PROVE  /\ Omissions(ledger, b) \in [Id -> 0..2]
           /\ \A i \in Id : Omissions(ledger, b)[i] > 0 =>
                /\ i \notin DOMAIN b
                /\ ledger[i].omissions <= Omissions(ledger, b)[i]
                /\ ledger[i].state \notin {"unknown", "absent"}
<1>1. ASSUME NEW i \in Id
      PROVE  /\ Omission(ledger, b, i) \in 0..2
             /\ Omission(ledger, b, i) > 0 =>
                  /\ i \notin DOMAIN b
                  /\ ledger[i].omissions <= Omission(ledger, b, i)
                  /\ ledger[i].state \notin {"unknown", "absent"}
  <2>1. ledger[i].omissions \in 0..2
    BY DEF Row
  <2>2. QED
    BY <2>1 DEF Omission
<1>2. QED
  BY <1>1 DEF Omissions
=============================================================================
