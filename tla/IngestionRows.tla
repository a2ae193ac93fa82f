---------------------------- MODULE IngestionRows ----------------------------
(***************************************************************************)
(* The row of the compact Ingestion V2 ledger (table ingestion_rows) and   *)
(* what each D1 statement of cloudflare/ingestion-v2-store.ts does to one  *)
(* row. A statement is an operator from the stored row to the new one; the *)
(* WHERE clause is the guard of the action that applies it                 *)
(* (AdmissionLane).                                                        *)
(*                                                                         *)
(* A snapshot is content-addressed: its hash covers the sorted pairs of    *)
(* external id and material hash and the admission version, so the hash is *)
(* modelled by exactly that pair. The board is its part on the ids of the  *)
(* model: every real board also holds rows that never change, an empty one *)
(* is refused before discovery.                                            *)
(***************************************************************************)
EXTENDS Naturals

CONSTANTS Id,          \* external ids of one source
          Material,    \* material hashes
          Version,     \* admission (policy) versions
          Consumer,    \* deliveries of the admission queue in flight
          None,        \* a NULL column
          MaxAttempts  \* ADMISSION_V2_MAX_ATTEMPTS

ASSUME NoneIsNull == None \notin Id \cup Material \cup Version \cup Consumer
ASSUME MaxAttemptsIsPositive == MaxAttempts \in Nat \ {0}

Board == UNION {[ids -> Material] : ids \in SUBSET Id}
Snapshot == [board : Board, ver : Version]
ASSUME NoneIsNoSnapshot == None \notin Snapshot

(***************************************************************************)
(* state "unknown" stands for no row. The decision a settled row carries   *)
(* before it was graded is the legacy lane's and is never read: it is      *)
(* "none" here. blocked and shelved both revoke and are one decision. A    *)
(* lease (lease_owner, lease_expires_at) is the delivery that took it: the *)
(* owner alone is only the batch id, but two leases of a row differ in     *)
(* their expiry. waiting: retry_at is in the future; expired:              *)
(* lease_expires_at has passed.                                            *)
(***************************************************************************)
RowState == {"unknown", "pending", "queued", "processing", "settled",
             "quarantined", "absent"}
LaneOwned == {"pending", "queued", "processing", "quarantined"}
Decision == {"none", "admitted", "blocked"}

Row == [state : RowState, snap : Snapshot \cup {None},
        material : Material \cup {None}, ver : Version \cup {None},
        baseline : BOOLEAN, decision : Decision, attempts : Nat,
        waiting : BOOLEAN, owner : Consumer \cup {None}, expired : BOOLEAN,
        claimed : BOOLEAN, omissions : 0..2, closing : BOOLEAN, job : BOOLEAN]

UnknownRow == [state |-> "unknown", snap |-> None, material |-> None,
               ver |-> None, baseline |-> FALSE, decision |-> "none",
               attempts |-> 0, waiting |-> FALSE, owner |-> None,
               expired |-> FALSE, claimed |-> FALSE, omissions |-> 0,
               closing |-> FALSE, job |-> FALSE]

SameAdmissionIdentity(r, material, ver) ==
    r.material = material /\ r.ver = ver /\ r.omissions < 2

(* Mutant of PutRow: the upsert forgets to clear the omission count.        *)
PutRowKeepingOmissions(r, snap, material, baseline) ==
    LET same == SameAdmissionIdentity(r, material, snap.ver)
        lane == r.state \in LaneOwned /\ same
    IN  [r EXCEPT !.state = IF lane THEN r.state ELSE "settled", !.snap = snap,
                  !.material = material, !.ver = snap.ver,
                  !.baseline = r.baseline \/ baseline,
                  !.attempts = IF lane THEN r.attempts ELSE 0,
                  !.waiting = lane /\ r.waiting, !.claimed = same /\ r.claimed]

(* Mutant of PutRow: the observation overwrites the baseline.               *)
PutRowWithItsBaseline(r, snap, material, baseline) ==
    LET same == SameAdmissionIdentity(r, material, snap.ver)
        lane == r.state \in LaneOwned /\ same
    IN  [r EXCEPT !.state = IF lane THEN r.state ELSE "settled", !.snap = snap,
                  !.material = material, !.ver = snap.ver,
                  !.baseline = baseline,
                  !.attempts = IF lane THEN r.attempts ELSE 0,
                  !.waiting = lane /\ r.waiting, !.claimed = same /\ r.claimed,
                  !.omissions = 0, !.closing = FALSE]

(* Mutant of PutRow: a row of the lane keeps its state, its lease and its   *)
(* claim whatever became of its identity.                                  *)
PutRowKeepingLane(r, snap, material, baseline) ==
    [r EXCEPT !.state = IF r.state \in LaneOwned THEN r.state ELSE "settled",
              !.snap = snap, !.material = material, !.ver = snap.ver,
              !.baseline = r.baseline \/ baseline,
              !.omissions = 0, !.closing = FALSE]

(* The upsert of discovery: the excluded row is settled, ungraded, without *)
(* omissions. The lane keeps a row whose admission identity is unchanged.  *)
PutRow(r, snap, material, baseline) ==
    LET same == SameAdmissionIdentity(r, material, snap.ver)
        lane == r.state \in LaneOwned /\ same
        kept == lane \/ (r.state = "settled" /\ r.attempts > 0 /\ same)
    IN  [state |-> IF lane THEN r.state ELSE "settled",
         snap |-> snap, material |-> material, ver |-> snap.ver,
         baseline |-> r.baseline \/ baseline,
         decision |-> IF kept THEN r.decision ELSE "none",
         attempts |-> IF kept THEN r.attempts ELSE 0,
         waiting |-> lane /\ r.waiting,
         owner |-> IF lane THEN r.owner ELSE None,
         expired |-> lane /\ r.expired,
         claimed |-> same /\ r.claimed,
         omissions |-> 0, closing |-> FALSE, job |-> r.job]

(* Mutant of ApplyOmission: a closure is owed from the third miss on.       *)
ApplyOmissionLate(r, count) ==
    [r EXCEPT !.omissions = count,
              !.state = IF count >= 2 THEN "absent" ELSE r.state,
              !.closing = r.closing \/ count > 2]

(* One complete snapshot missed the row; the second miss retires it unless *)
(* an effect is claimed, which keeps its lane until it settled.            *)
ApplyOmission(r, count) ==
    [r EXCEPT !.omissions = count,
              !.state = IF count >= 2 /\ ~r.claimed THEN "absent"
                        ELSE IF r.state \in LaneOwned THEN r.state
                        ELSE IF count >= 2 THEN "absent" ELSE "settled",
              !.closing = r.closing \/ count >= 2]

AcknowledgeClosure(r) == [r EXCEPT !.closing = FALSE, !.state = "absent"]

(* What every statement that puts a row back into the queue clears. *)
Requeue(r) == [r EXCEPT !.state = "queued", !.waiting = FALSE, !.owner = None,
                        !.expired = FALSE, !.claimed = FALSE]

MarkQueued(r) == Requeue(r)

(* A new lease does not touch retry_at: it was due. *)
AcquireLease(r, c) == [r EXCEPT !.state = "processing", !.owner = c,
                                !.expired = FALSE, !.claimed = FALSE]

ClaimEffect(r) == [r EXCEPT !.claimed = TRUE]

(* Release and reclaim leave retry_at alone; it is due on a leased row. *)
ReleaseLease(r) == Requeue(r)

SettleRow(r, verdict) ==
    [Requeue(r) EXCEPT !.state = "settled", !.decision = verdict,
                       !.attempts = r.attempts + 1,
                       !.job = r.job \/ verdict = "admitted"]

ScheduleRetry(r, attempts) ==
    [Requeue(r) EXCEPT !.attempts = attempts, !.waiting = TRUE]

QuarantineRow(r, attempts) ==
    [Requeue(r) EXCEPT !.state = "quarantined", !.attempts = attempts]

(* Mutant of ReopenRow: the spent budget stays.                             *)
ReopenRowSpent(r, ver, baseline) ==
    [Requeue(r) EXCEPT !.decision = "none", !.ver = ver, !.baseline = baseline]

(* reopenRows: a fresh attempt budget; omissions and a pending closure     *)
(* stay. The version and the baseline are stamped only when given.         *)
ReopenRow(r, ver, baseline) ==
    [Requeue(r) EXCEPT !.attempts = 0, !.decision = "none", !.ver = ver,
                       !.baseline = baseline]

(* reopenUnprocessedRows: a row that discovery settled, never graded. *)
ReopenUnprocessed(r) == [Requeue(r) EXCEPT !.decision = "none"]

LeaseGuard(r, k, c) ==
    /\ r.state = "processing" /\ r.owner = c
    /\ r.snap = k.snap /\ r.material = k.material /\ r.ver = k.ver

HoldsLease(r, k, c) == LeaseGuard(r, k, c) /\ r.baseline = k.baseline
=============================================================================
