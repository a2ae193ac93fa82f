------------------------- MODULE AdmissionLaneProofs -------------------------
(***************************************************************************)
(* The inductive invariant of AdmissionLane and the theorems that follow   *)
(* from it. Each part of the invariant is proved step by step: one lemma   *)
(* for a group of actions, one step per action.                            *)
(***************************************************************************)
EXTENDS AdmissionLane, IngestionRowsProofs

(* A row has the material of a board, or there is no row.                  *)
RowsAreDiscovered ==
    \A i \in Id : rows[i].material \in Material \/ rows[i] = UnknownRow

(* A delivery in flight leased a row that discovery wrote.                 *)
DeliveriesKnowTheirRow ==
    \A c \in Consumer : deliveries[c].pc # "idle" =>
        /\ deliveries[c].id \in Id
        /\ deliveries[c].material \in Material

(* A pass writes the rows of the board it read and misses only rows that   *)
(* exist.                                                                  *)
PassKnowsItsSnapshot ==
    /\ disc.pc \notin {"idle", "fetch"} => disc.snap \in Snapshot
    /\ disc.pc = "write" =>
         /\ disc.todo \subseteq DOMAIN disc.snap.board
         /\ \A i \in Id : disc.omit[i] > 0 => rows[i].material \in Material

(* TypeOK made inductive: what a NULL column can still be.                 *)
Typing == TypeOK /\ RowsAreDiscovered /\ DeliveriesKnowTheirRow
            /\ PassKnowsItsSnapshot

(* A delivery leased its row with an attempt left.                         *)
DeliveriesHaveBudget ==
    \A c \in Consumer : deliveries[c].pc # "idle"
                           => deliveries[c].attempts < MaxAttempts

(* Whose lease it is, the row still is: discovery ends the lease of a row  *)
(* whose identity it changes, and the baseline is only ever added.         *)
Owns(c, i) == rows[i].state = "processing" /\ rows[i].owner = c
LeaseKeepsIdentity ==
    \A c \in Consumer : \A i \in Id :
        deliveries[c].pc # "idle" /\ deliveries[c].id = i /\ Owns(c, i) =>
            /\ rows[i].material = deliveries[c].material
            /\ rows[i].ver = deliveries[c].ver
            /\ deliveries[c].baseline => rows[i].baseline

(* A snapshot that somebody remembers has been staged.                     *)
World == [board |-> board, ver |-> policy]
RememberedIsStaged ==
    /\ \A i \in Id : rows[i].snap # None => snaps[rows[i].snap] # "none"
    /\ \A c \in Consumer : deliveries[c].snap # None
                               => snaps[deliveries[c].snap] # "none"
    /\ disc.snap # None => snaps[disc.snap] # "none"
(* A board that never returns, once it has left what the pass read, shows  *)
(* what no pass has read yet.                                              *)
WorldIsNew ==
    ~Revisit /\ disc.pc = "write" /\ disc.snap # World => snaps[World] = "none"

(* No pass will write snapshot s to row i while a delivery that claimed its *)
(* effect is at work: the running pass is done with the row and no other    *)
(* starts, or the board has left s for good.                               *)
NotYetWritten(i) ==
    disc.pc = "fetch" \/ (disc.pc = "write" /\ i \in disc.todo)
Left(s, i) == IF Revisit THEN ~NotYetWritten(i)
              ELSE s # World /\ (disc.pc = "write" => s # disc.snap)

(* A delivery whose row lost the snapshot it leased never finds it again.  *)
LostSnapshotIsLeft ==
    \A c \in Consumer : \A i \in Id :
        /\ deliveries[c].pc \in {"claimed", "committed"}
        /\ deliveries[c].id = i /\ Owns(c, i)
        /\ rows[i].snap # deliveries[c].snap
        => Left(deliveries[c].snap, i)

(* A committed effect whose lease stands is what the catalog shows.        *)
CommittedEffectShows ==
    \A c \in Consumer : \A i \in Id :
        /\ deliveries[c].pc = "committed" /\ deliveries[c].id = i
        /\ HoldsLease(rows[i], deliveries[c], c)
        /\ rows[i].claimed /\ rows[i].omissions < 2
        => Agrees(catalog[i], deliveries[c].verdict, rows[i].material)

(* The omission a pass still has to record is not behind the row's own.    *)
OmissionsGrow ==
    \A i \in Id : disc.pc = "write" /\ disc.omit[i] > 0 =>
        /\ i \notin disc.todo
        /\ rows[i].omissions <= disc.omit[i]
        /\ rows[i].state \notin {"unknown", "absent"}

(* A closure is owed only by a row that two complete boards missed.        *)
ClosuresAreMissed ==
    \A i \in Id : rows[i].closing => rows[i].omissions = 2
(* A row unchanged since the closure listing still owes its closure.       *)
ListedIsPending ==
    \A i \in Id : i \in listed => rows[i].closing
(* The pass acknowledges a closure only after the catalog shows it.        *)
AcknowledgedIsClosed ==
    \A i \in Id : disc.pc = "ack" /\ disc.todo = {i} /\ i \in listed
                      => catalog[i] \in {"none", "closed"}

(* The inductive invariant, in the four parts its steps are proved by.      *)
Closing == /\ OmissionsGrow /\ ClosuresAreMissed /\ ListedIsPending
           /\ AcknowledgedIsClosed /\ MissedRolesClose
Staging == RememberedIsStaged /\ WorldIsNew
Budget == AttemptBudget /\ DeliveriesHaveBudget
IInv == Typing /\ Closing /\ Staging /\ Budget
Leasing == /\ LeaseKeepsIdentity /\ LostSnapshotIsLeft
           /\ CommittedEffectShows /\ SettledAgreesWithCatalog

-----------------------------------------------------------------------------
(* The empty ledger before the first pass is well typed.                   *)
LEMMA TypingInit == Init => Typing
<1> SUFFICES ASSUME Init PROVE Typing
  OBVIOUS
<1> USE DEF Init
<1>1. rows \in [Id -> Row]
  BY UnknownRowType
<1>2. disc \in Discovery
  BY DEF IdleDiscovery, Discovery, DiscoveryPc, NoOmissions
<1>3. deliveries \in [Consumer -> Delivery]
  BY DEF IdleDelivery, Delivery, DeliveryPc, Decision
<1>4. TypeOK
  BY <1>1, <1>2, <1>3 DEF TypeOK, Role, Migration, NoMigration
<1>5. RowsAreDiscovered
  BY DEF RowsAreDiscovered, UnknownRow
<1>6. DeliveriesKnowTheirRow
  BY DEF DeliveriesKnowTheirRow, IdleDelivery
<1>7. PassKnowsItsSnapshot
  BY DEF PassKnowsItsSnapshot, IdleDiscovery
<1>8. QED
  BY <1>4, <1>5, <1>6, <1>7 DEF Typing

(* A write of one row, and a step of one delivery, keep the types.         *)
LEMMA RowWriteTypes ==
    ASSUME Typing, NEW i \in Id, NEW r \in Row, SetRow(i, r),
           r.material \in Material
    PROVE  /\ rows' \in [Id -> Row] /\ RowsAreDiscovered'
           /\ \A j \in Id : rows[j].material \in Material
                            => rows'[j].material \in Material
BY DEF Typing, TypeOK, SetRow, RowsAreDiscovered

(* A step of one delivery keeps the types of all deliveries.               *)
LEMMA DeliveryStepTypes ==
    ASSUME Typing, NEW c \in Consumer, NEW k \in Delivery,
           deliveries' = [deliveries EXCEPT ![c] = k],
           k.pc # "idle" => k.id \in Id /\ k.material \in Material
    PROVE  deliveries' \in [Consumer -> Delivery] /\ DeliveriesKnowTheirRow'
BY DEF Typing, TypeOK, DeliveriesKnowTheirRow

(* A consumer without a delivery is a value of Delivery.                   *)
LEMMA IdleDeliveryType == IdleDelivery \in Delivery
BY DEF IdleDelivery, Delivery, DeliveryPc, Decision

(* A delivery that goes on to its next await keeps the types.              *)
LEMMA ProceedTypes ==
    ASSUME Typing, NEW c \in Consumer, NEW pc \in DeliveryPc,
           deliveries[c].pc # "idle", Proceed(c, pc)
    PROVE  deliveries' \in [Consumer -> Delivery] /\ DeliveriesKnowTheirRow'
<1> DEFINE k == [deliveries[c] EXCEPT
                   !.pc = pc, !.job = FALSE,
                   !.verdict = IF pc = "release" THEN "none" ELSE @]
<1>1. deliveries[c] \in Delivery
  BY DEF Typing, TypeOK
<1>2. k \in Delivery
  BY <1>1 DEF Delivery, Decision
<1>3. k.id = deliveries[c].id /\ k.material = deliveries[c].material
  BY <1>1 DEF Delivery
<1>4. deliveries[c].id \in Id /\ deliveries[c].material \in Material
  BY DEF Typing, DeliveriesKnowTheirRow
<1>5. deliveries' = [deliveries EXCEPT ![c] = k]
  BY DEF Proceed
<1> HIDE DEF k
<1>6. QED
  BY <1>2, <1>3, <1>4, <1>5, DeliveryStepTypes

(* A delivery that ends, settled, retried or killed, keeps the types.      *)
LEMMA ForgetTypes ==
    ASSUME Typing, NEW c \in Consumer, Forget(c)
    PROVE  deliveries' \in [Consumer -> Delivery] /\ DeliveriesKnowTheirRow'
<1>1. IdleDelivery.pc = "idle"
  BY DEF IdleDelivery
<1>2. QED
  BY <1>1, IdleDeliveryType, DeliveryStepTypes DEF Forget

(* What the statements on a row keep of its state and its material.        *)
LEMMA StatementsKeepMaterial ==
    ASSUME NEW r \in Row, NEW c, NEW n, NEW v, NEW b
    PROVE  /\ \A op \in {ApplyOmission(r, n), AcknowledgeClosure(r), Requeue(r),
                MarkQueued(r), AcquireLease(r, c), ClaimEffect(r),
                ReleaseLease(r), SettleRow(r, v), ScheduleRetry(r, n),
                QuarantineRow(r, n), ReopenRow(r, v, b), ReopenUnprocessed(r)} :
                op.material = r.material
           /\ ClaimEffect(r).state = r.state
BY DEF Row, ApplyOmission, AcknowledgeClosure, Requeue, MarkQueued, AcquireLease,
       ClaimEffect, ReleaseLease, SettleRow, ScheduleRetry, QuarantineRow,
       ReopenRow, ReopenUnprocessed

(* Every step keeps the types.                                             *)
LEMMA TypingWorld ==
    ASSUME Typing,
           \/ BoardChanges \/ PolicyChanges \/ CrashPass
           \/ StartPass \/ ActivateSnapshot \/ ListClosures \/ FinishPass
           \/ ThrowPass \/ TerminalizeReplaced
           \/ \E i \in Id : CloseOmission(i) \/ ListStalePolicy(i)
    PROVE  Typing'
<1> USE DEF Typing, TypeOK, RowsAreDiscovered, DeliveriesKnowTheirRow,
            PassKnowsItsSnapshot, worldVars, ledgerVars, effectVars, Fault
<1> IdleDiscovery \in Discovery /\ IdleDiscovery.pc = "idle"
  BY DEF IdleDiscovery, Discovery, DiscoveryPc, NoOmissions
<1>1. CASE BoardChanges
  BY <1>1 DEF BoardChanges
<1>2. CASE PolicyChanges
  BY <1>2 DEF PolicyChanges
<1>3. CASE CrashPass
  BY <1>3 DEF CrashPass
<1>4. CASE StartPass
  <2>1. disc' \in Discovery /\ disc'.pc = "fetch"
    BY <1>4 DEF StartPass, IdleDiscovery, Discovery, DiscoveryPc, NoOmissions
  <2>2. QED
    BY <1>4, <2>1 DEF StartPass
<1>5. CASE ActivateSnapshot
  <2>1. disc' \in Discovery /\ disc'.pc = "reopen" /\ disc'.snap = disc.snap
    BY <1>5 DEF ActivateSnapshot, Discovery, DiscoveryPc
  <2>2. disc.snap \in Snapshot /\ snaps' \in [Snapshot -> {"none", "staged", "active", "terminal"}]
    BY <1>5 DEF ActivateSnapshot
  <2>3. QED
    BY <1>5, <2>1, <2>2 DEF ActivateSnapshot
<1>6. CASE ListClosures
  <2>1. disc' \in Discovery /\ disc'.pc = "close" /\ disc'.snap = disc.snap
    BY <1>6 DEF ListClosures, Discovery, DiscoveryPc
  <2>2. QED
    BY <1>6, <2>1 DEF ListClosures
<1>7. CASE FinishPass
  BY <1>7 DEF FinishPass
<1>8. CASE ThrowPass
  BY <1>8 DEF ThrowPass
<1>9. CASE TerminalizeReplaced
  BY <1>9 DEF TerminalizeReplaced
<1>10. ASSUME NEW i \in Id, CloseOmission(i) PROVE Typing'
  <2>1. disc' \in Discovery /\ disc'.pc = "ack" /\ disc'.snap = disc.snap
    BY <1>10 DEF CloseOmission, Discovery, DiscoveryPc
  <2>2. catalog' \in [Id -> Role]
    BY <1>10 DEF CloseOmission, Role
  <2>3. QED
    BY <1>10, <2>1, <2>2 DEF CloseOmission
<1>11. ASSUME NEW i \in Id, ListStalePolicy(i) PROVE Typing'
  <2>1. migration' \in Migration
    BY <1>11 DEF ListStalePolicy, Migration, Snapshot
  <2>2. QED
    BY <1>11, <2>1 DEF ListStalePolicy
<1>12. QED
  BY <1>1, <1>2, <1>3, <1>4, <1>5, <1>6, <1>7, <1>8, <1>9, <1>10, <1>11

(* The absence of a pass is a value of Discovery.                          *)
LEMMA IdleDiscoveryType == IdleDiscovery \in Discovery
BY DEF IdleDiscovery, Discovery, DiscoveryPc, NoOmissions

(* What the pass remembers of the board and the ledger it read.            *)
LEMMA ReadLedgerPass ==
    ASSUME Typing, ReadLedger
    PROVE  /\ disc' \in Discovery
           /\ disc'.pc \in {"reopen", "write"}
           /\ disc'.snap = [board |-> board, ver |-> policy]
           /\ disc'.pc = "write" => /\ disc'.todo = DOMAIN board
                                    /\ disc'.omit = Omissions(rows, board)
<1> USE DEF Typing, TypeOK
<1> DEFINE snap == [board |-> board, ver |-> policy]
           omit == Omissions(rows, board)
           actionable == {i \in DOMAIN board :
                            Classify(rows[i], board[i], policy) # "unchanged"}
           stale == Classified(rows, snap, "stale-policy")
<1>1. snap \in Snapshot /\ snap.board = board
  BY DEF Snapshot
<1>2. DOMAIN board \subseteq Id
  BY BoardType
<1>3. actionable \in SUBSET Id /\ stale \in SUBSET Id /\ omit \in [Id -> 0..2]
  BY <1>1, <1>2, OmissionType DEF Classified
<1>4. \/ disc' = [IdleDiscovery EXCEPT !.pc = "reopen", !.snap = snap]
      \/ disc' = [IdleDiscovery EXCEPT !.pc = "reopen", !.snap = snap,
                                       !.reopen = actionable]
      \/ disc' = [pc |-> "write", snap |-> snap, todo |-> DOMAIN board,
                  omit |-> omit, reopen |-> actionable, silent |-> stale]
  BY DEF ReadLedger
<1> HIDE DEF snap, omit, actionable, stale
<1>5. CASE disc' = [IdleDiscovery EXCEPT !.pc = "reopen", !.snap = snap]
  BY <1>1, <1>5, IdleDiscoveryType DEF Discovery, DiscoveryPc, snap
<1>6. CASE disc' = [IdleDiscovery EXCEPT !.pc = "reopen", !.snap = snap,
                                         !.reopen = actionable]
  BY <1>1, <1>3, <1>6, IdleDiscoveryType DEF Discovery, DiscoveryPc, snap
<1>7. CASE disc' = [pc |-> "write", snap |-> snap, todo |-> DOMAIN board,
                    omit |-> omit, reopen |-> actionable, silent |-> stale]
  BY <1>1, <1>2, <1>3, <1>7 DEF Discovery, DiscoveryPc, omit, snap
<1>8. QED
  BY <1>4, <1>5, <1>6, <1>7

(* Staging a snapshot, or reusing an active one, keeps the types.          *)
LEMMA TypingReadLedger ==
    ASSUME Typing, ReadLedger
    PROVE  Typing'
<1> USE DEF Typing, TypeOK
<1> DEFINE snap == [board |-> board, ver |-> policy]
<1>1. snap \in Snapshot /\ snap.board = board
  BY DEF Snapshot
<1>2. snaps' \in [Snapshot -> {"none", "staged", "active", "terminal"}]
  BY <1>1 DEF ReadLedger
<1>3. late' \in SUBSET Id
  BY DEF ReadLedger
<1>4. \A i \in Id : Omissions(rows, board)[i] > 0 => rows[i].material \in Material
  BY OmissionType DEF RowsAreDiscovered, UnknownRow
<1> HIDE DEF snap
<1>5. QED
  BY <1>1, <1>2, <1>3, <1>4, ReadLedgerPass DEF snap, ReadLedger, worldVars,
     effectVars, RowsAreDiscovered, DeliveriesKnowTheirRow,
     PassKnowsItsSnapshot

(* Stamping updated_at keeps the types of late and listed.                 *)
LEMMA StampTypes ==
    ASSUME Typing, NEW i \in Id,
           \/ Stamp(i) \/ StampEarlier(i) \/ StampPassStart(i)
           \/ UNCHANGED <<late, listed>>
    PROVE  late' \in SUBSET Id /\ listed' \in SUBSET Id
BY DEF Typing, TypeOK, Stamp, StampEarlier, StampPassStart

(* Each ledger write of the discovery pass keeps the types.                *)
LEMMA TypingDiscoveryRows ==
    ASSUME Typing, NEW i \in Id,
           \/ DiscoverRow(i) \/ MissRow(i) \/ ReopenActionable(i)
           \/ AcknowledgeOmission(i)
    PROVE  Typing'
<1> USE DEF Typing, TypeOK, worldVars, effectVars, DeliveriesKnowTheirRow,
            PassKnowsItsSnapshot
<1> DEFINE Written == /\ rows' \in [Id -> Row] /\ RowsAreDiscovered'
                      /\ \A j \in Id : rows[j].material \in Material
                                       => rows'[j].material \in Material
<1>1. /\ rows[i] \in Row /\ disc \in Discovery
      /\ rows[i].material \in Material \/ rows[i] = UnknownRow
  BY DEF RowsAreDiscovered
<1>2. CASE DiscoverRow(i)
  <2> DEFINE r == PutRow(rows[i], disc.snap, disc.snap.board[i],
                         ~seeded \/ i \in disc.silent)
  <2>1. disc.snap \in Snapshot /\ i \in DOMAIN disc.snap.board
    BY <1>2 DEF DiscoverRow
  <2>2. disc.snap.board[i] \in Material
    BY <2>1, SnapshotType
  <2>3. r \in Row /\ r.material \in Material
    <3>1. (~seeded \/ i \in disc.silent) \in BOOLEAN
      OBVIOUS
    <3>2. r \in Row
      BY <1>1, <2>1, <2>2, <3>1, PutRowType
    <3>3. QED
      BY <2>2, <3>2 DEF PutRow
  <2>4. Written
    <3> HIDE DEF r
    <3>1. SetRow(i, r)
      BY <1>2 DEF DiscoverRow, r
    <3>2. QED
      BY <2>3, <3>1, RowWriteTypes
  <2>5. disc' \in Discovery /\ disc'.pc = "write" /\ disc'.snap = disc.snap
        /\ disc'.todo \subseteq disc.todo /\ disc'.omit = disc.omit
    BY <1>1, <1>2 DEF DiscoverRow, Discovery
  <2>6. QED
    BY <1>2, <2>1, <2>4, <2>5, StampTypes DEF DiscoverRow
<1>3. CASE MissRow(i)
  <2>1. disc.omit[i] \in 0..2
    BY <1>1 DEF Discovery
  <2>2. Written
    <3>1. CASE i \in late
      BY <1>3, <3>1 DEF MissRow, RowsAreDiscovered
    <3>2. CASE i \notin late
      <4> DEFINE r == ApplyOmission(rows[i], disc.omit[i])
      <4>1. r \in Row /\ r.material \in Material
        BY <1>1, <2>1, <1>3, ApplyOmissionType, StatementsKeepMaterial
        DEF MissRow
      <4>2. QED
        BY <1>3, <3>2, <4>1, RowWriteTypes DEF MissRow, RowsAreDiscovered
    <3>3. QED
      BY <3>1, <3>2
  <2>3. disc' \in Discovery /\ disc'.pc = disc.pc /\ disc'.snap = disc.snap
        /\ disc'.todo = disc.todo
        /\ \A j \in Id : disc'.omit[j] > 0 => disc.omit[j] > 0
    BY <1>1, <1>3 DEF MissRow, Discovery
  <2>4. QED
    BY <1>3, <2>2, <2>3, StampTypes DEF MissRow
<1>4. CASE ReopenActionable(i)
  <2>1. disc.snap \in Snapshot
    BY <1>4 DEF ReopenActionable
  <2>2. Written
    <3>1. CASE ~Reopenable(rows[i])
      BY <1>4, <3>1 DEF ReopenActionable, RowsAreDiscovered
    <3>2. CASE Reopenable(rows[i])
      <4> DEFINE r == ReopenRow(rows[i], disc.snap.ver, rows[i].baseline)
      <4>1. rows[i].baseline \in BOOLEAN /\ rows[i].state # "unknown"
        BY <1>1, <3>2 DEF Row, Reopenable
      <4>2. r \in Row /\ r.material \in Material
        <5>1. rows[i].material \in Material
          BY <4>1, <1>1 DEF UnknownRow
        <5>2. disc.snap.ver \in Version
          BY <2>1, SnapshotType
        <5>3. r \in Row
          BY <1>1, <4>1, <5>2, ReopenTypes
        <5>4. r.material = rows[i].material
          BY <1>1 DEF ReopenRow, Requeue, Row
        <5>5. QED
          BY <5>1, <5>3, <5>4
      <4>3. QED
        BY <1>4, <3>2, <4>2, RowWriteTypes
        DEF ReopenActionable, RowsAreDiscovered
    <3>3. QED
      BY <3>1, <3>2
  <2>3. disc' \in Discovery /\ disc'.pc = "reopen" /\ disc'.snap = disc.snap
    BY <1>1, <1>4 DEF ReopenActionable, Discovery
  <2>4. QED
    BY <1>4, <2>1, <2>2, <2>3, StampTypes DEF ReopenActionable
<1>5. CASE AcknowledgeOmission(i)
  <2>1. Written
    <3>1. CASE UNCHANGED rows
      BY <3>1 DEF RowsAreDiscovered
    <3>2. CASE SetRow(i, AcknowledgeClosure(rows[i])) /\ ClosurePending(rows[i])
      <4>1. rows[i].material \in Material
        BY <1>1, <3>2 DEF ClosurePending, UnknownRow
      <4>2. AcknowledgeClosure(rows[i]) \in Row
            /\ AcknowledgeClosure(rows[i]).material \in Material
        BY <1>1, <4>1, AcknowledgeClosureType, StatementsKeepMaterial
      <4>3. QED
        BY <3>2, <4>2, RowWriteTypes DEF RowsAreDiscovered
    <3>3. QED
      BY <1>5, <3>1, <3>2 DEF AcknowledgeOmission
  <2>2. disc' \in Discovery /\ disc'.pc = "close" /\ disc'.snap = disc.snap
    BY <1>1, <1>5 DEF AcknowledgeOmission, Discovery, DiscoveryPc
  <2>3. QED
    BY <1>5, <2>1, <2>2 DEF AcknowledgeOmission
<1>6. QED
  BY <1>2, <1>3, <1>4, <1>5

(* A step outside the pass and the deliveries that writes one known row.   *)
LEMMA RowStepTypes ==
    ASSUME Typing, NEW i \in Id, NEW r \in Row, SetRow(i, r),
           r.material \in Material,
           late' \in SUBSET Id, listed' \in SUBSET Id,
           migration' \in Migration, faults' \in Nat,
           UNCHANGED <<worldVars, seeded, snaps, current, effectVars, disc,
                       deliveries>>
    PROVE  Typing'
<1>1. /\ rows' \in [Id -> Row] /\ RowsAreDiscovered'
      /\ \A j \in Id : rows[j].material \in Material => rows'[j].material \in Material
  BY RowWriteTypes
<1>2. QED
  BY <1>1 DEF Typing, TypeOK, DeliveriesKnowTheirRow, PassKnowsItsSnapshot,
     worldVars, effectVars

(* Time, the dispatcher and the operator keep the types.                   *)
LEMMA TypingTimeAndDispatch ==
    ASSUME Typing, NEW i \in Id,
           \/ RetryComesDue(i) \/ LeaseExpires(i) \/ ReclaimLease(i)
           \/ BootstrapRow(i) \/ MigratePolicy(i) \/ QueueRow(i) \/ ReplayRow(i)
    PROVE  Typing'
<1>1. /\ rows[i] \in Row
      /\ rows[i].material \in Material \/ rows[i] = UnknownRow
      /\ late \in SUBSET Id /\ listed \in SUBSET Id
      /\ migration \in Migration /\ faults \in Nat
  BY DEF Typing, TypeOK, RowsAreDiscovered
<1>2. /\ UnknownRow.state = "unknown" /\ ~UnknownRow.waiting
  BY DEF UnknownRow
<1>3. NoMigration \in Migration
  BY DEF NoMigration, Migration
<1>4. CASE RetryComesDue(i)
  <2> DEFINE r == [rows[i] EXCEPT !.waiting = FALSE]
  <2>1. r \in Row /\ r.material \in Material
    BY <1>1, <1>2, <1>4 DEF RetryComesDue, Row
  <2>2. QED
    BY <1>1, <1>4, <2>1, RowStepTypes DEF RetryComesDue
<1>5. CASE LeaseExpires(i)
  <2> DEFINE r == [rows[i] EXCEPT !.expired = TRUE]
  <2>1. r \in Row /\ r.material \in Material
    BY <1>1, <1>2, <1>5 DEF LeaseExpires, Row
  <2>2. faults' \in Nat
    BY <1>1, <1>5 DEF LeaseExpires, Fault
  <2>3. QED
    BY <1>1, <1>5, <2>1, <2>2, RowStepTypes DEF LeaseExpires
<1>6. CASE ReclaimLease(i)
  <2> DEFINE r == ReleaseLease(rows[i])
  <2>1. r \in Row /\ r.material \in Material
    BY <1>1, <1>2, <1>6, RequeueType, StatementsKeepMaterial
    DEF ReclaimLease, ReleaseLease
  <2>2. QED
    BY <1>1, <1>6, <2>1, StampTypes, RowStepTypes DEF ReclaimLease
<1>7. CASE BootstrapRow(i)
  <2> DEFINE r == ReopenUnprocessed(rows[i])
  <2>1. r \in Row
    BY <1>1, ReopenTypes
  <2>2. r.material \in Material
    BY <1>1, <1>2, <1>7, StatementsKeepMaterial DEF BootstrapRow
  <2>3. QED
    BY <1>1, <1>7, <2>1, <2>2, StampTypes, RowStepTypes DEF BootstrapRow
<1>8. CASE MigratePolicy(i)
  <2>1. CASE Reopenable(rows[i])
    <3> DEFINE r == ReopenRow(rows[i], migration.ver, TRUE)
    <3>1. migration.ver \in Version \cup {None}
      BY <1>1 DEF Migration
    <3>2. r \in Row
      BY <1>1, <3>1, ReopenTypes
    <3>3. rows[i].material \in Material
      BY <1>1, <1>2, <2>1 DEF Reopenable
    <3>4. r.material = rows[i].material
      BY <1>1 DEF ReopenRow, Requeue, Row
    <3>5. QED
      BY <1>1, <1>3, <1>8, <2>1, <3>2, <3>3, <3>4, StampTypes, RowStepTypes
      DEF MigratePolicy
  <2>2. CASE ~Reopenable(rows[i])
    BY <1>1, <1>3, <1>8, <2>2 DEF MigratePolicy, Typing, TypeOK, worldVars,
       effectVars, RowsAreDiscovered, DeliveriesKnowTheirRow,
       PassKnowsItsSnapshot
  <2>3. QED
    BY <2>1, <2>2
<1>9. CASE QueueRow(i)
  <2> DEFINE r == MarkQueued(rows[i])
  <2>1. r \in Row /\ r.material \in Material
    BY <1>1, <1>2, <1>9, RequeueType, StatementsKeepMaterial
    DEF QueueRow, Dispatchable, MarkQueued
  <2>2. QED
    BY <1>1, <1>9, <2>1, StampTypes, RowStepTypes DEF QueueRow
<1>10. CASE ReplayRow(i)
  <2> DEFINE r == ReopenRow(rows[i], rows[i].ver, rows[i].baseline)
  <2>1. rows[i].ver \in Version \cup {None} /\ rows[i].baseline \in BOOLEAN
    BY <1>1 DEF Row
  <2>2. r \in Row
    BY <1>1, <2>1, ReopenTypes
  <2>3. rows[i].material \in Material
    BY <1>1, <1>2, <1>10 DEF ReplayRow, Reopenable
  <2>4. r.material = rows[i].material
    BY <1>1 DEF ReopenRow, Requeue, Row
  <2>5. faults' \in Nat
    BY <1>1, <1>10 DEF ReplayRow, Fault
  <2>6. QED
    BY <1>1, <1>10, <2>2, <2>3, <2>4, <2>5, StampTypes, RowStepTypes
    DEF ReplayRow
<1>11. QED
  BY <1>4, <1>5, <1>6, <1>7, <1>8, <1>9, <1>10

(* A step of a delivery: it may write one row, the catalog and its memory. *)
RowsWritten == /\ rows' \in [Id -> Row] /\ RowsAreDiscovered'
               /\ \A j \in Id : rows[j].material \in Material
                                => rows'[j].material \in Material

(* A delivery step that wrote at most one row keeps the types.             *)
LEMMA DeliveryActionTypes ==
    ASSUME Typing, RowsWritten,
           deliveries' \in [Consumer -> Delivery], DeliveriesKnowTheirRow',
           catalog' \in [Id -> Role], alerts' \in SUBSET Id,
           late' \in SUBSET Id, listed' \in SUBSET Id, faults' \in Nat,
           UNCHANGED <<worldVars, seeded, snaps, current, disc, migration>>
    PROVE  Typing'
BY DEF Typing, TypeOK, PassKnowsItsSnapshot, worldVars, RowsWritten

(* A delivery step that writes no row wrote the rows rightly.              *)
LEMMA RowsUnwritten ==
    ASSUME Typing, UNCHANGED rows
    PROVE  RowsWritten
BY DEF Typing, TypeOK, RowsWritten, RowsAreDiscovered

(* Taking a lease keeps the types.                                         *)
LEMMA TypingDeliver ==
    ASSUME Typing, NEW c \in Consumer, NEW i \in Id, Deliver(c, i)
    PROVE  Typing'
<1> DEFINE r == AcquireLease(rows[i], c)
           k == [pc |-> "leased", id |-> i, snap |-> rows[i].snap,
                 material |-> rows[i].material, ver |-> rows[i].ver,
                 baseline |-> rows[i].baseline, job |-> rows[i].job,
                 attempts |-> rows[i].attempts, verdict |-> "none"]
<1>1. rows[i] \in Row /\ rows[i].material \in Material
  BY DEF Typing, TypeOK, RowsAreDiscovered, Deliver, UnknownRow
<1>2. r \in Row /\ r.material \in Material
  BY <1>1, LeaseTypes, StatementsKeepMaterial
<1>3. RowsWritten
  BY <1>2, RowWriteTypes DEF Deliver, RowsWritten
<1>4. k \in Delivery
  BY <1>1 DEF Row, Delivery, DeliveryPc, Decision
<1>5. deliveries' \in [Consumer -> Delivery] /\ DeliveriesKnowTheirRow'
  <2>1. deliveries' = [deliveries EXCEPT ![c] = k] /\ k.id \in Id
        /\ k.material \in Material
    BY <1>1 DEF Deliver
  <2> HIDE DEF k
  <2>2. QED
    BY <1>4, <2>1, DeliveryStepTypes
<1> HIDE DEF r, k
<1>6. QED
  BY <1>3, <1>5, StampTypes, DeliveryActionTypes DEF Deliver, Typing, TypeOK,
     effectVars

(* Claim, commit, settlement, release and the failures keep the types.     *)
LEMMA TypingConsume ==
    ASSUME Typing, NEW c \in Consumer,
           \/ Claim(c) \/ Commit(c) \/ Settle(c) \/ Release(c)
           \/ InfrastructureFailure(c) \/ RowFailure(c) \/ CrashDelivery(c)
    PROVE  Typing'
<1> DEFINE k == deliveries[c]
           Remembered == deliveries' \in [Consumer -> Delivery]
                           /\ DeliveriesKnowTheirRow'
<1>1. /\ k \in Delivery
      /\ catalog \in [Id -> Role] /\ alerts \in SUBSET Id
      /\ late \in SUBSET Id /\ listed \in SUBSET Id /\ faults \in Nat
      /\ Fault => faults' \in Nat
  BY DEF Typing, TypeOK, Fault
<1>2. k.pc # "idle"
  BY DEF Claim, Commit, Settle, Release, InfrastructureFailure, RowFailure,
         CrashDelivery, MayThrow
<1>3. /\ k.id \in Id /\ k.material \in Material
      /\ k.verdict \in Decision /\ k.attempts \in Nat /\ k.attempts + 1 \in Nat
  BY <1>1, <1>2 DEF Typing, DeliveriesKnowTheirRow, Delivery
<1>4. /\ rows[k.id] \in Row
      /\ rows[k.id].material \in Material \/ rows[k.id] = UnknownRow
  BY <1>3 DEF Typing, TypeOK, RowsAreDiscovered
<1>5. rows[k.id].state = "processing" => rows[k.id].material \in Material
  BY <1>4 DEF UnknownRow
<1>6. /\ Proceed(c, "release") => Remembered
      /\ Proceed(c, "committed") => Remembered
      /\ Forget(c) => Remembered
  BY <1>2, ProceedTypes, ForgetTypes DEF DeliveryPc
<1> HIDE DEF Remembered
<1>7. CASE Claim(c)
  <2>1. CASE HoldsLease(rows[k.id], k, c) /\ rows[k.id].omissions < 2
    <3>1. RowsWritten
      BY <1>3, <1>4, <1>5, <1>7, <2>1, LeaseTypes, StatementsKeepMaterial,
         RowWriteTypes
      DEF Claim, HoldsLease, LeaseGuard, RowsWritten
    <3>2. Remembered
      <4>1. PICK verdict \in {"admitted", "blocked"} :
              deliveries' = [deliveries EXCEPT ![c].pc = "claimed",
                                               ![c].verdict = verdict]
        BY <1>7, <2>1 DEF Claim
      <4> DEFINE d == [k EXCEPT !.pc = "claimed", !.verdict = verdict]
      <4>2. d \in Delivery /\ d.id = k.id /\ d.material = k.material
        BY <1>1 DEF Delivery, DeliveryPc, Decision
      <4>3. deliveries' = [deliveries EXCEPT ![c] = d]
        BY <4>1
      <4> HIDE DEF d
      <4>4. QED
        BY <1>3, <4>2, <4>3, DeliveryStepTypes DEF Remembered
    <3>3. QED
      BY <1>1, <1>3, <1>7, <2>1, <3>1, <3>2, StampTypes, DeliveryActionTypes
      DEF Claim, effectVars, Remembered
  <2>2. CASE ~(HoldsLease(rows[k.id], k, c) /\ rows[k.id].omissions < 2)
    BY <1>1, <1>6, <1>7, <2>2, RowsUnwritten, DeliveryActionTypes
    DEF Claim, effectVars, Remembered
  <2>3. QED
    BY <2>1, <2>2
<1>8. CASE Commit(c)
  <2>1. catalog' \in [Id -> Role] /\ alerts' \in SUBSET Id
    BY <1>1, <1>3, <1>8 DEF Commit, Role, effectVars
  <2>2. QED
    BY <1>1, <1>6, <1>8, <2>1, RowsUnwritten, DeliveryActionTypes
    DEF Commit, ledgerVars, Remembered
<1>9. CASE Settle(c)
  <2>1. CASE HoldsLease(rows[k.id], k, c) /\ rows[k.id].claimed
    <3> DEFINE r == SettleRow(rows[k.id], k.verdict)
    <3>1. r \in Row
      BY <1>3, <1>4, SettleRowType
    <3>2. r.material \in Material
      BY <1>4, <1>5, <2>1, StatementsKeepMaterial DEF HoldsLease, LeaseGuard
    <3>3. SetRow(k.id, r) /\ Stamp(k.id) /\ Forget(c)
      BY <1>9, <2>1 DEF Settle
    <3> HIDE DEF r
    <3>4. RowsWritten
      BY <1>3, <3>1, <3>2, <3>3, RowWriteTypes DEF RowsWritten
    <3>5. QED
      BY <1>1, <1>3, <1>6, <1>9, <3>3, <3>4, StampTypes, DeliveryActionTypes
      DEF Settle, effectVars, Remembered
  <2>2. CASE ~(HoldsLease(rows[k.id], k, c) /\ rows[k.id].claimed)
    BY <1>1, <1>6, <1>9, <2>2, RowsUnwritten, DeliveryActionTypes
    DEF Settle, effectVars, Remembered
  <2>3. QED
    BY <2>1, <2>2
<1>10. CASE Release(c)
  <2>1. CASE LeaseGuard(rows[k.id], k, c)
    <3>1. RowsWritten
      BY <1>3, <1>4, <1>5, <1>10, <2>1, RequeueType, StatementsKeepMaterial,
         RowWriteTypes
      DEF Release, ReleaseLease, LeaseGuard, RowsWritten
    <3>2. QED
      BY <1>1, <1>3, <1>6, <1>10, <2>1, <3>1, StampTypes, DeliveryActionTypes
      DEF Release, effectVars, Remembered
  <2>2. CASE ~LeaseGuard(rows[k.id], k, c)
    BY <1>1, <1>6, <1>10, <2>2, RowsUnwritten, DeliveryActionTypes
    DEF Release, effectVars, Remembered
  <2>3. QED
    BY <2>1, <2>2
<1>11. CASE InfrastructureFailure(c)
  BY <1>1, <1>6, <1>11, RowsUnwritten, DeliveryActionTypes
  DEF InfrastructureFailure, ledgerVars, effectVars, Remembered
<1>12. CASE CrashDelivery(c)
  BY <1>1, <1>6, <1>12, RowsUnwritten, DeliveryActionTypes
  DEF CrashDelivery, ledgerVars, effectVars, Remembered
<1>13. CASE RowFailure(c)
  <2>1. CASE HoldsLease(rows[k.id], k, c)
    <3>1. PICK n \in Nat : \/ SetRow(k.id, QuarantineRow(rows[k.id], n))
                           \/ SetRow(k.id, ScheduleRetry(rows[k.id], n))
      BY <1>3, <1>13, <2>1 DEF RowFailure
    <3>2. /\ QuarantineRow(rows[k.id], n) \in Row
          /\ ScheduleRetry(rows[k.id], n) \in Row
          /\ QuarantineRow(rows[k.id], n).material \in Material
          /\ ScheduleRetry(rows[k.id], n).material \in Material
      <4>1. rows[k.id].material \in Material
        BY <1>5, <2>1 DEF HoldsLease, LeaseGuard
      <4>2. QuarantineRow(rows[k.id], n) \in Row /\ ScheduleRetry(rows[k.id], n) \in Row
        BY <1>4, FailureTypes
      <4>3. /\ QuarantineRow(rows[k.id], n).material = rows[k.id].material
            /\ ScheduleRetry(rows[k.id], n).material = rows[k.id].material
        BY <1>4 DEF QuarantineRow, ScheduleRetry, Requeue, Row
      <4>4. QED
        BY <4>1, <4>2, <4>3
    <3>3. RowsWritten
      BY <1>3, <3>1, <3>2, RowWriteTypes DEF RowsWritten
    <3>4. QED
      BY <1>1, <1>3, <1>6, <1>13, <2>1, <3>3, StampTypes, DeliveryActionTypes
      DEF RowFailure, effectVars, Remembered
  <2>2. CASE ~HoldsLease(rows[k.id], k, c)
    BY <1>1, <1>6, <1>13, <2>2, RowsUnwritten, DeliveryActionTypes
    DEF RowFailure, effectVars, Remembered
  <2>3. QED
    BY <2>1, <2>2
<1>14. QED
  BY <1>7, <1>8, <1>9, <1>10, <1>11, <1>12, <1>13

(* Every step of the lane keeps the types.                                 *)
LEMMA TypingStep == Typing /\ [Next]_vars => Typing'
<1> SUFFICES ASSUME Typing, [Next]_vars PROVE Typing'
  OBVIOUS
<1>1. CASE Discover
  BY <1>1, TypingWorld, TypingReadLedger, TypingDiscoveryRows DEF Discover
<1>2. CASE Dispatch
  BY <1>2, TypingWorld, TypingTimeAndDispatch DEF Dispatch
<1>3. CASE Environment
  BY <1>3, TypingWorld, TypingTimeAndDispatch, TypingConsume DEF Environment
<1>4. CASE \E c \in Consumer : Consume(c)
  BY <1>4, TypingDeliver, TypingConsume DEF Consume
<1>5. CASE UNCHANGED vars
  BY <1>5 DEF vars, worldVars, ledgerVars, effectVars, Typing, TypeOK,
     RowsAreDiscovered, DeliveriesKnowTheirRow, PassKnowsItsSnapshot
<1>6. QED
  BY <1>1, <1>2, <1>3, <1>4, <1>5 DEF Next

-----------------------------------------------------------------------------
(* Closing: what the pass owes to missed rows.                             *)

(* A statement of the lane: it leaves the omissions and the closure of its *)
(* row alone and stamps it.                                                *)
LaneWrites(i, r) ==
    /\ SetRow(i, r)
    /\ r.omissions = rows[i].omissions /\ r.closing = rows[i].closing
    /\ r.state \notin {"unknown", "absent"}
    /\ listed' \subseteq listed

(* No statement of the lane touches the omission count or the pending      *)
(* closure of its row; only discovery and the acknowledgement do.          *)
LEMMA LaneStatements ==
    ASSUME NEW r \in Row, NEW c \in Consumer, NEW n \in Nat, NEW v, NEW b
    PROVE  \A op \in {Requeue(r), MarkQueued(r), AcquireLease(r, c),
                ReleaseLease(r), SettleRow(r, v), ScheduleRetry(r, n),
                QuarantineRow(r, n), ReopenRow(r, v, b), ReopenUnprocessed(r)} :
             /\ op.omissions = r.omissions /\ op.closing = r.closing
             /\ op.state \in {"queued", "processing", "settled", "quarantined"}
BY DEF Row, Requeue, MarkQueued, AcquireLease, ReleaseLease, SettleRow,
       ScheduleRetry, QuarantineRow, ReopenRow, ReopenUnprocessed

(* An empty ledger owes no closure.                                        *)
LEMMA ClosingInit == Init => Closing
BY DEF Init, Closing, OmissionsGrow, ClosuresAreMissed, ListedIsPending,
       AcknowledgedIsClosed, MissedRolesClose, IdleDiscovery, UnknownRow

(* A statement of the lane keeps every missed role closed or owed.         *)
LEMMA ClosingLaneWrite ==
    ASSUME Typing, Closing, NEW i \in Id, NEW r, LaneWrites(i, r),
           UNCHANGED <<disc, catalog>>
    PROVE  Closing'
<1>1. rows \in [Id -> Row]
  BY DEF Typing, TypeOK
<1>2. \A j \in Id : /\ rows'[j].omissions = rows[j].omissions
                    /\ rows'[j].closing = rows[j].closing
                    /\ rows[j].state \notin {"unknown", "absent"}
                         => rows'[j].state \notin {"unknown", "absent"}
  BY <1>1 DEF LaneWrites, SetRow
<1>3. listed' \subseteq listed
  BY DEF LaneWrites
<1>4. QED
  BY <1>2, <1>3 DEF Closing, OmissionsGrow, ClosuresAreMissed, ListedIsPending,
     AcknowledgedIsClosed, MissedRolesClose

(* A step that writes neither ledger nor catalog keeps it too.             *)
LEMMA ClosingUnwritten ==
    ASSUME Closing, UNCHANGED <<rows, catalog>>, listed' \subseteq listed,
           \/ UNCHANGED disc
           \/ disc'.pc \notin {"write", "ack"}
    PROVE  Closing'
BY DEF Closing, OmissionsGrow, ClosuresAreMissed, ListedIsPending,
       AcknowledgedIsClosed, MissedRolesClose

(* The pass keeps it: it records a miss with its closure, writes the       *)
(* negative effect, and only then acknowledges.                            *)
LEMMA ClosingDiscovery ==
    ASSUME Typing, Closing, Discover
    PROVE  Closing'
<1> USE DEF Typing, TypeOK
<1>1. /\ rows \in [Id -> Row] /\ disc \in Discovery
      /\ \A i \in Id : rows[i].omissions \in 0..2
  BY DEF Row
<1>2. CASE StartPass
  BY <1>2, ClosingUnwritten DEF StartPass, IdleDiscovery, ledgerVars, effectVars
<1>3. CASE ReadLedger
  <2>1. CASE disc'.pc = "reopen"
    BY <1>3, <2>1, ClosingUnwritten DEF ReadLedger, effectVars
  <2>2. CASE disc'.pc # "reopen"
    <3>1. /\ disc'.pc = "write" /\ disc'.todo = DOMAIN board
          /\ disc'.omit = Omissions(rows, board)
      BY <1>3, <2>2, ReadLedgerPass
    <3>2. OmissionsGrow'
      BY <1>3, <3>1, OmissionType DEF ReadLedger, OmissionsGrow
    <3>3. QED
      BY <1>3, <3>1, <3>2 DEF ReadLedger, effectVars, Closing,
         ClosuresAreMissed, ListedIsPending, AcknowledgedIsClosed,
         MissedRolesClose
  <2>3. QED
    BY <2>1, <2>2
<1>4. CASE ActivateSnapshot
  <2>1. disc'.pc = "reopen"
    BY <1>1, <1>4 DEF ActivateSnapshot, Discovery
  <2>2. QED
    BY <1>4, <2>1, ClosingUnwritten DEF ActivateSnapshot, effectVars
<1>5. CASE ListClosures
  <2>1. disc'.pc = "close"
    BY <1>1, <1>5 DEF ListClosures, Discovery
  <2>2. QED
    BY <1>5, <2>1 DEF ListClosures, ledgerVars, effectVars, Closing,
       OmissionsGrow, ClosuresAreMissed, ListedIsPending,
       AcknowledgedIsClosed, MissedRolesClose, ClosurePending
<1>6. CASE FinishPass
  BY <1>6, ClosingUnwritten DEF FinishPass, IdleDiscovery, ledgerVars, effectVars
<1>7. CASE ThrowPass
  BY <1>7, ClosingUnwritten DEF ThrowPass, IdleDiscovery, ledgerVars, effectVars
<1>8. ASSUME NEW i \in Id, DiscoverRow(i) PROVE Closing'
  <2>1. /\ rows'[i].omissions = 0 /\ rows'[i].closing = FALSE
        /\ \A j \in Id \ {i} : rows'[j] = rows[j]
    BY <1>1, <1>8 DEF DiscoverRow, SetRow, PutRow
  <2>2. /\ disc.pc = "write" /\ disc'.pc = "write" /\ i \in disc.todo
        /\ disc'.todo \subseteq disc.todo /\ disc'.omit = disc.omit
        /\ listed' = listed \ {i} /\ catalog' = catalog
    BY <1>1, <1>8 DEF DiscoverRow, StampPassStart, effectVars, Discovery
  <2>3. QED
    BY <2>1, <2>2 DEF Closing, OmissionsGrow, ClosuresAreMissed,
       ListedIsPending, AcknowledgedIsClosed, MissedRolesClose
<1>9. ASSUME NEW i \in Id, MissRow(i) PROVE Closing'
  <2>1. /\ disc.pc = "write" /\ disc'.pc = "write" /\ disc'.todo = disc.todo
        /\ disc.omit[i] \in {1, 2} /\ catalog' = catalog
        /\ disc'.omit[i] = 0 /\ \A j \in Id \ {i} : disc'.omit[j] = disc.omit[j]
    BY <1>1, <1>9 DEF MissRow, effectVars, Discovery
  <2>2. CASE i \in late
    BY <1>9, <2>1, <2>2 DEF MissRow, Closing, OmissionsGrow,
       ClosuresAreMissed, ListedIsPending, AcknowledgedIsClosed,
       MissedRolesClose
  <2>3. CASE i \notin late
    <3>1. /\ rows'[i] = ApplyOmission(rows[i], disc.omit[i])
          /\ \A j \in Id \ {i} : rows'[j] = rows[j]
          /\ listed' = listed \ {i}
      BY <1>1, <1>9, <2>3 DEF MissRow, SetRow, StampPassStart
    <3>2. /\ rows'[i].omissions = disc.omit[i]
          /\ rows'[i].closing <=> rows[i].closing \/ disc.omit[i] = 2
      BY <1>1, <2>1, <3>1, ApplyOmissionFields
    <3>3. rows[i].closing => disc.omit[i] = 2
      BY <1>1, <2>1 DEF Closing, OmissionsGrow, ClosuresAreMissed
    <3>4. QED
      BY <1>1, <2>1, <3>3, <3>1, <3>2 DEF Closing, OmissionsGrow,
         ClosuresAreMissed, ListedIsPending, AcknowledgedIsClosed,
         MissedRolesClose
  <2>4. QED
    BY <2>2, <2>3
<1>10. ASSUME NEW i \in Id, ReopenActionable(i) PROVE Closing'
  <2>1. /\ disc.pc = "reopen" /\ disc'.pc = "reopen" /\ catalog' = catalog
        /\ listed' \subseteq listed
    BY <1>1, <1>10 DEF ReopenActionable, effectVars, Discovery, StampPassStart
  <2>2. \A j \in Id : /\ rows'[j].omissions = rows[j].omissions
                      /\ rows'[j].closing = rows[j].closing
    <3> DEFINE r == ReopenRow(rows[i], disc.snap.ver, rows[i].baseline)
    <3>1. r.omissions = rows[i].omissions /\ r.closing = rows[i].closing
      BY <1>1 DEF ReopenRow, Requeue, Row
    <3>2. rows' = rows \/ rows' = [rows EXCEPT ![i] = r]
      BY <1>10 DEF ReopenActionable, SetRow
    <3> HIDE DEF r
    <3>3. QED
      BY <1>1, <3>1, <3>2
  <2>3. QED
    BY <2>1, <2>2 DEF Closing, OmissionsGrow, ClosuresAreMissed,
       ListedIsPending, AcknowledgedIsClosed, MissedRolesClose
<1>11. ASSUME NEW i \in Id, CloseOmission(i) PROVE Closing'
  <2>1. /\ disc'.pc = "ack" /\ disc'.todo = {i} /\ UNCHANGED <<rows, listed>>
        /\ catalog'[i] \in {"none", "closed"}
        /\ \A j \in Id \ {i} : catalog'[j] = catalog[j]
    BY <1>1, <1>11 DEF CloseOmission, ledgerVars, Discovery
  <2>2. QED
    BY <2>1 DEF Closing, OmissionsGrow, ClosuresAreMissed,
       ListedIsPending, AcknowledgedIsClosed, MissedRolesClose
<1>12. ASSUME NEW i \in Id, AcknowledgeOmission(i) PROVE Closing'
  <2>1. /\ disc.pc = "ack" /\ disc.todo = {i} /\ disc'.pc = "close"
        /\ catalog' = catalog /\ listed' = listed \ {i}
        /\ \A j \in Id \ {i} : rows'[j] = rows[j]
    BY <1>1, <1>12 DEF AcknowledgeOmission, SetRow, effectVars, Discovery
  <2>2. \/ rows'[i] = rows[i]
        \/ /\ i \in listed /\ rows'[i].omissions = rows[i].omissions
           /\ rows'[i].closing = FALSE
    <3> DEFINE r == AcknowledgeClosure(rows[i])
    <3>1. r.omissions = rows[i].omissions /\ r.closing = FALSE
      BY <1>1 DEF AcknowledgeClosure, Row
    <3>2. rows' = rows \/ (i \in listed /\ rows' = [rows EXCEPT ![i] = r])
      BY <1>12 DEF AcknowledgeOmission, SetRow
    <3> HIDE DEF r
    <3>3. QED
      BY <1>1, <3>1, <3>2
  <2>3. QED
    BY <2>1, <2>2 DEF Closing, OmissionsGrow, ClosuresAreMissed,
       ListedIsPending, AcknowledgedIsClosed, MissedRolesClose
<1>13. QED
  BY <1>2, <1>3, <1>4, <1>5, <1>6, <1>7, <1>8, <1>9, <1>10, <1>11, <1>12
  DEF Discover

(* A stamp never adds a row to the closure listing.                        *)
LEMMA StampListed ==
    ASSUME NEW i, \/ Stamp(i) \/ StampEarlier(i) \/ StampPassStart(i)
                  \/ UNCHANGED <<late, listed>>
    PROVE  listed' \subseteq listed
BY DEF Stamp, StampEarlier, StampPassStart

(* Time, the dispatcher and the operator keep every missed role closed or  *)
(* owed.                                                                   *)
LEMMA ClosingTimeAndDispatch ==
    ASSUME Typing, Closing, NEW i \in Id,
           \/ RetryComesDue(i) \/ LeaseExpires(i) \/ ReclaimLease(i)
           \/ BootstrapRow(i) \/ MigratePolicy(i) \/ QueueRow(i) \/ ReplayRow(i)
    PROVE  Closing'
<1>1. rows[i] \in Row
  BY DEF Typing, TypeOK
<1>2. UNCHANGED <<disc, catalog>>
  BY DEF RetryComesDue, LeaseExpires, ReclaimLease, BootstrapRow,
         MigratePolicy, QueueRow, ReplayRow, effectVars
<1>3. listed' \subseteq listed
  BY StampListed DEF RetryComesDue, LeaseExpires, ReclaimLease, BootstrapRow,
         MigratePolicy, QueueRow, ReplayRow
<1>4. CASE RetryComesDue(i)
  <2> DEFINE r == [rows[i] EXCEPT !.waiting = FALSE]
  <2>1. /\ r.omissions = rows[i].omissions /\ r.closing = rows[i].closing
        /\ r.state = rows[i].state /\ SetRow(i, r)
    BY <1>1, <1>4 DEF RetryComesDue, Row
  <2>2. \A j \in Id : /\ rows'[j].omissions = rows[j].omissions
                      /\ rows'[j].closing = rows[j].closing
                      /\ rows'[j].state = rows[j].state
    BY <2>1 DEF SetRow, Typing, TypeOK
  <2>3. QED
    BY <1>2, <1>3, <2>2 DEF Closing, OmissionsGrow, ClosuresAreMissed,
       ListedIsPending, AcknowledgedIsClosed, MissedRolesClose
<1>5. CASE LeaseExpires(i)
  <2> DEFINE r == [rows[i] EXCEPT !.expired = TRUE]
  <2>1. /\ r.omissions = rows[i].omissions /\ r.closing = rows[i].closing
        /\ r.state = "processing" /\ SetRow(i, r)
    BY <1>1, <1>5 DEF LeaseExpires, Row
  <2>2. LaneWrites(i, r)
    BY <1>3, <2>1 DEF LaneWrites
  <2>3. QED
    BY <1>2, <2>2, ClosingLaneWrite
<1>6. CASE ReclaimLease(i)
  BY <1>1, <1>2, <1>3, <1>6, LaneStatements, ClosingLaneWrite
  DEF ReclaimLease, LaneWrites, ReleaseLease, Requeue, Row
<1>7. CASE BootstrapRow(i)
  BY <1>1, <1>2, <1>3, <1>7, ClosingLaneWrite
  DEF BootstrapRow, LaneWrites, ReopenUnprocessed, Requeue, Row
<1>8. CASE MigratePolicy(i)
  <2>1. CASE Reopenable(rows[i])
    <3> DEFINE r == ReopenRow(rows[i], migration.ver, TRUE)
    <3>1. /\ r.omissions = rows[i].omissions /\ r.closing = rows[i].closing
          /\ r.state = "queued"
      BY <1>1 DEF ReopenRow, Requeue, Row
    <3>2. SetRow(i, r)
      BY <1>8, <2>1 DEF MigratePolicy
    <3>3. QED
      BY <1>2, <1>3, <3>1, <3>2, ClosingLaneWrite DEF LaneWrites
  <2>2. CASE ~Reopenable(rows[i])
    BY <1>2, <1>3, <1>8, <2>2, ClosingUnwritten DEF MigratePolicy
  <2>3. QED
    BY <2>1, <2>2
<1>9. CASE QueueRow(i)
  BY <1>1, <1>2, <1>3, <1>9, ClosingLaneWrite
  DEF QueueRow, LaneWrites, MarkQueued, Requeue, Row
<1>10. CASE ReplayRow(i)
  <2> DEFINE r == ReopenRow(rows[i], rows[i].ver, rows[i].baseline)
  <2>1. /\ r.omissions = rows[i].omissions /\ r.closing = rows[i].closing
        /\ r.state = "queued"
    BY <1>1 DEF ReopenRow, Requeue, Row
  <2>2. SetRow(i, r)
    BY <1>10 DEF ReplayRow
  <2>3. QED
    BY <1>2, <1>3, <2>1, <2>2, ClosingLaneWrite DEF LaneWrites
<1>11. QED
  BY <1>4, <1>5, <1>6, <1>7, <1>8, <1>9, <1>10

(* A delivery keeps it: the effect fence refuses a row whose closure is    *)
(* pending or that two boards missed.                                      *)
LEMMA ClosingConsume ==
    ASSUME Typing, Closing, NEW c \in Consumer,
           \/ Consume(c) \/ InfrastructureFailure(c) \/ RowFailure(c)
           \/ CrashDelivery(c)
    PROVE  Closing'
<1> DEFINE k == deliveries[c]
<1>1. ASSUME NEW i \in Id, Deliver(c, i) PROVE Closing'
  <2>1. rows[i] \in Row
    BY DEF Typing, TypeOK
  <2>2. LaneWrites(i, AcquireLease(rows[i], c))
    BY <1>1, <2>1, StampListed DEF Deliver, LaneWrites, AcquireLease, Row
  <2>3. QED
    BY <1>1, <2>2, ClosingLaneWrite DEF Deliver, effectVars
<1>2. ASSUME \/ Claim(c) \/ Commit(c) \/ Settle(c) \/ Release(c)
             \/ InfrastructureFailure(c) \/ RowFailure(c) \/ CrashDelivery(c)
      PROVE  Closing'
  <2>1. k.pc # "idle"
    BY <1>2 DEF Claim, Commit, Settle, Release, InfrastructureFailure,
         RowFailure, CrashDelivery, MayThrow
  <2>2. k.id \in Id /\ rows[k.id] \in Row
    BY <2>1 DEF Typing, TypeOK, DeliveriesKnowTheirRow
  <2>3. listed' \subseteq listed
    BY <1>2, StampListed DEF Claim, Commit, Settle, Release,
       InfrastructureFailure, RowFailure, CrashDelivery
  <2>4. UNCHANGED disc
    BY <1>2 DEF Claim, Commit, Settle, Release, InfrastructureFailure,
         RowFailure, CrashDelivery
  <2>5. CASE Commit(c)
    <3>1. \A i \in Id : catalog'[i] # catalog[i] =>
             rows[i].omissions < 2 /\ ~rows[i].closing
      BY <2>2, <2>5 DEF Commit, EffectFence, Typing, TypeOK, effectVars
    <3>2. \A i \in Id : rows[i].omissions < 2 => rows[i].omissions # 2
      BY DEF Typing, TypeOK, Row
    <3>3. rows' = rows
      BY <2>5 DEF Commit, ledgerVars
    <3>4. QED
      BY <2>3, <2>4, <3>1, <3>2, <3>3 DEF Closing, OmissionsGrow,
         ClosuresAreMissed, ListedIsPending, AcknowledgedIsClosed,
         MissedRolesClose
  <2>6. CASE ~Commit(c)
    <3>1. UNCHANGED catalog
      BY <1>2, <2>6 DEF Claim, Settle, Release, InfrastructureFailure,
         RowFailure, CrashDelivery, effectVars
    <3>2. CASE UNCHANGED rows
      BY <2>3, <2>4, <3>1, <3>2, ClosingUnwritten
    <3>3. CASE rows' # rows
      <4>1. PICK r : SetRow(k.id, r) /\
               \/ r = ClaimEffect(rows[k.id]) /\ LeaseGuard(rows[k.id], k, c)
               \/ r = SettleRow(rows[k.id], k.verdict)
               \/ r = ReleaseLease(rows[k.id])
               \/ \E n \in Nat : \/ r = QuarantineRow(rows[k.id], n)
                                 \/ r = ScheduleRetry(rows[k.id], n)
        <5>1. k.attempts \in Nat /\ k.attempts + 1 \in Nat
          BY DEF Typing, TypeOK, Delivery
        <5>2. QED
          BY <1>2, <2>6, <3>3, <5>1 DEF Claim, Settle, Release, RowFailure,
             InfrastructureFailure, CrashDelivery, ledgerVars, HoldsLease
      <4>2. /\ r.omissions = rows[k.id].omissions
            /\ r.closing = rows[k.id].closing
            /\ r.state \notin {"unknown", "absent"}
        BY <2>2, <4>1 DEF ClaimEffect, SettleRow, ReleaseLease, QuarantineRow,
           ScheduleRetry, Requeue, Row, LeaseGuard
      <4>3. QED
        BY <2>2, <2>3, <2>4, <3>1, <4>1, <4>2, ClosingLaneWrite DEF LaneWrites
    <3>4. QED
      BY <3>2, <3>3
  <2>7. QED
    BY <2>5, <2>6
<1>3. QED
  BY <1>1, <1>2 DEF Consume

(* Every step keeps every missed role closed or owed.                      *)
LEMMA ClosingStep == Typing /\ Closing /\ [Next]_vars => Closing'
<1> SUFFICES ASSUME Typing, Closing, [Next]_vars PROVE Closing'
  OBVIOUS
<1>1. CASE Discover
  BY <1>1, ClosingDiscovery
<1>2. CASE Dispatch
  <2>1. ASSUME TerminalizeReplaced \/ \E i \in Id : ListStalePolicy(i)
        PROVE  Closing'
    BY <2>1, ClosingUnwritten
    DEF TerminalizeReplaced, ListStalePolicy, ledgerVars, effectVars
  <2>2. QED
    BY <1>2, <2>1, ClosingTimeAndDispatch DEF Dispatch
<1>3. CASE Environment
  <2>1. ASSUME BoardChanges \/ PolicyChanges \/ CrashPass
        PROVE  Closing'
    BY <2>1, ClosingUnwritten
    DEF BoardChanges, PolicyChanges, CrashPass, IdleDiscovery, ledgerVars,
        effectVars
  <2>2. QED
    BY <1>3, <2>1, ClosingTimeAndDispatch, ClosingConsume DEF Environment
<1>4. CASE \E c \in Consumer : Consume(c)
  BY <1>4, ClosingConsume
<1>5. CASE UNCHANGED vars
  BY <1>5, ClosingUnwritten DEF vars, ledgerVars, effectVars
<1>6. QED
  BY <1>1, <1>2, <1>3, <1>4, <1>5 DEF Next

-----------------------------------------------------------------------------
(* Staging: what the snapshot table remembers.                             *)

(* Nothing is remembered before the first pass.                            *)
LEMMA StagingInit == Init => Staging
BY DEF Init, Staging, RememberedIsStaged, WorldIsNew, IdleDiscovery,
       IdleDelivery, UnknownRow

(* A pass leaves the world and the deliveries alone.                       *)
LEMMA DiscoverLeaves ==
    ASSUME Discover
    PROVE  /\ UNCHANGED <<board, policy, deliveries>>
           /\ ReadLedger \/ ActivateSnapshot \/ UNCHANGED snaps
<1>1. ASSUME NEW i \in Id, DiscoverRow(i) \/ MissRow(i) \/ ReopenActionable(i)
      PROVE  UNCHANGED <<board, policy, deliveries, snaps>>
  BY <1>1 DEF DiscoverRow, MissRow, ReopenActionable, worldVars
<1>2. ASSUME NEW i \in Id, CloseOmission(i) \/ AcknowledgeOmission(i)
      PROVE  UNCHANGED <<board, policy, deliveries, snaps>>
  BY <1>2 DEF CloseOmission, AcknowledgeOmission, worldVars, ledgerVars
<1>3. CASE StartPass \/ ListClosures \/ FinishPass \/ ThrowPass
  BY <1>3 DEF StartPass, ListClosures, FinishPass, ThrowPass, worldVars,
     ledgerVars
<1>4. CASE ReadLedger \/ ActivateSnapshot
  BY <1>4 DEF ReadLedger, ActivateSnapshot, worldVars
<1>5. QED
  BY <1>1, <1>2, <1>3, <1>4 DEF Discover

(* A snapshot once staged is never forgotten.                              *)
LEMMA SnapshotsStay ==
    ASSUME Typing, [Next]_vars
    PROVE  \A s \in Snapshot : snaps[s] # "none" => snaps'[s] # "none"
<1>1. snaps \in [Snapshot -> {"none", "staged", "active", "terminal"}]
  BY DEF Typing, TypeOK
<1>2. CASE ReadLedger
  <2> DEFINE snap == [board |-> board, ver |-> policy]
  <2>1. UNCHANGED snaps \/ snaps' = [snaps EXCEPT ![snap] = "staged"]
    BY <1>2 DEF ReadLedger
  <2>2. QED
    BY <1>1, <2>1
<1>3. CASE ActivateSnapshot
  BY <1>1, <1>3 DEF ActivateSnapshot
<1>4. CASE TerminalizeReplaced
  BY <1>1, <1>4 DEF TerminalizeReplaced
<1>5. CASE ~(ReadLedger \/ ActivateSnapshot \/ TerminalizeReplaced)
  <2>1. UNCHANGED snaps
    <3>1. CASE Discover
      BY <1>5, <3>1, DiscoverLeaves
    <3>2. CASE Dispatch
      BY <1>5, <3>2 DEF Dispatch, ReclaimLease, BootstrapRow, ListStalePolicy,
         MigratePolicy, QueueRow, ledgerVars
    <3>3. CASE Environment
      BY <3>3 DEF Environment, BoardChanges, PolicyChanges, CrashPass,
         RetryComesDue, LeaseExpires, ReplayRow, InfrastructureFailure,
         RowFailure, CrashDelivery, ledgerVars
    <3>4. CASE \E c \in Consumer : Consume(c)
      BY <3>4 DEF Consume, Deliver, Claim, Commit, Settle, Release, ledgerVars
    <3>5. CASE UNCHANGED vars
      BY <3>5 DEF vars
    <3>6. QED
      BY <3>1, <3>2, <3>3, <3>4, <3>5 DEF Next
  <2>2. QED
    BY <2>1
<1>6. QED
  BY <1>2, <1>3, <1>4, <1>5

(* A statement on row i leaves it with the snapshot it had, unless it is    *)
(* the upsert of the running pass.                                         *)
WritesSnapshot(i, r) ==
    /\ SetRow(i, r)
    /\ r.snap = rows[i].snap \/ (DiscoverRow(i) /\ r.snap = disc.snap)

(* Every statement of the ledger writes so.                                *)
LEMMA StatementsKeepSnapshot ==
    ASSUME NEW r \in Row
    PROVE  /\ AcknowledgeClosure(r).snap = r.snap /\ Requeue(r).snap = r.snap
           /\ ClaimEffect(r).snap = r.snap
           /\ ReopenUnprocessed(r).snap = r.snap
           /\ [r EXCEPT !.waiting = FALSE].snap = r.snap
           /\ [r EXCEPT !.expired = TRUE].snap = r.snap
           /\ \A c : AcquireLease(r, c).snap = r.snap
           /\ \A v : SettleRow(r, v).snap = r.snap
           /\ \A n : /\ ApplyOmission(r, n).snap = r.snap
                     /\ ScheduleRetry(r, n).snap = r.snap
                     /\ QuarantineRow(r, n).snap = r.snap
           /\ \A v, b : ReopenRow(r, v, b).snap = r.snap
BY DEF Row, ApplyOmission, AcknowledgeClosure, Requeue, AcquireLease,
       ClaimEffect, SettleRow, ScheduleRetry, QuarantineRow, ReopenRow,
       ReopenUnprocessed

(* The pass's own statements do.                                           *)
LEMMA SnapshotsOfPass ==
    ASSUME Typing, NEW i \in Id,
           \/ DiscoverRow(i) \/ MissRow(i) \/ ReopenActionable(i)
           \/ CloseOmission(i) \/ AcknowledgeOmission(i)
    PROVE  UNCHANGED rows \/ \E r : WritesSnapshot(i, r)
<1>1. rows[i] \in Row
  BY DEF Typing, TypeOK
<1>2. CASE DiscoverRow(i)
  <2> DEFINE r == PutRow(rows[i], disc.snap, disc.snap.board[i],
                         ~seeded \/ i \in disc.silent)
  <2>1. r.snap = disc.snap
    BY DEF PutRow
  <2>2. QED
    BY <1>2, <2>1 DEF DiscoverRow, WritesSnapshot
<1>3. CASE MissRow(i)
  BY <1>1, <1>3, StatementsKeepSnapshot DEF MissRow, WritesSnapshot
<1>4. CASE ReopenActionable(i)
  BY <1>1, <1>4, StatementsKeepSnapshot DEF ReopenActionable, WritesSnapshot
<1>5. CASE CloseOmission(i) \/ AcknowledgeOmission(i)
  BY <1>1, <1>5, StatementsKeepSnapshot
  DEF CloseOmission, AcknowledgeOmission, WritesSnapshot, ledgerVars
<1>6. QED
  BY <1>2, <1>3, <1>4, <1>5

(* So do the statements of the dispatcher, of time and of the operator.    *)
LEMMA SnapshotsOfDispatch ==
    ASSUME Typing, NEW i \in Id,
           \/ RetryComesDue(i) \/ LeaseExpires(i) \/ ReclaimLease(i)
           \/ BootstrapRow(i) \/ MigratePolicy(i) \/ QueueRow(i) \/ ReplayRow(i)
           \/ ListStalePolicy(i)
    PROVE  UNCHANGED rows \/ \E r : WritesSnapshot(i, r)
<1>1. rows[i] \in Row
  BY DEF Typing, TypeOK
<1>2. CASE RetryComesDue(i) \/ LeaseExpires(i)
  BY <1>1, <1>2, StatementsKeepSnapshot
  DEF RetryComesDue, LeaseExpires, WritesSnapshot
<1>3. CASE ReclaimLease(i) \/ BootstrapRow(i) \/ QueueRow(i) \/ ListStalePolicy(i)
  BY <1>1, <1>3, StatementsKeepSnapshot
  DEF ReclaimLease, BootstrapRow, QueueRow, ListStalePolicy, WritesSnapshot,
      ReleaseLease, MarkQueued, ledgerVars
<1>4. CASE MigratePolicy(i) \/ ReplayRow(i)
  <2>1. \A v, b : ReopenRow(rows[i], v, b).snap = rows[i].snap
    BY <1>1, StatementsKeepSnapshot
  <2>2. UNCHANGED rows \/ \E v, b : SetRow(i, ReopenRow(rows[i], v, b))
    BY <1>4 DEF MigratePolicy, ReplayRow
  <2>3. QED
    BY <2>1, <2>2 DEF WritesSnapshot
<1>5. QED
  BY <1>2, <1>3, <1>4

(* And those of a delivery, which remembers the snapshot it leased.        *)
LEMMA SnapshotsOfDelivery ==
    ASSUME Typing, NEW c \in Consumer,
           \/ Consume(c) \/ InfrastructureFailure(c) \/ RowFailure(c)
           \/ CrashDelivery(c)
    PROVE  /\ UNCHANGED rows \/ \E i \in Id : \E r : WritesSnapshot(i, r)
           /\ \A d \in Consumer :
                \/ deliveries'[d].snap \in {deliveries[d].snap, None}
                \/ \E i \in Id : deliveries'[d].snap = rows[i].snap
<1>1. /\ rows \in [Id -> Row] /\ deliveries \in [Consumer -> Delivery]
      /\ deliveries[c] \in Delivery
  BY DEF Typing, TypeOK
<1>2. ASSUME NEW i \in Id, Deliver(c, i)
      PROVE  /\ \E r : WritesSnapshot(i, r)
             /\ deliveries'[c].snap = rows[i].snap
             /\ \A d \in Consumer \ {c} : deliveries'[d] = deliveries[d]
  <2>1. AcquireLease(rows[i], c).snap = rows[i].snap
    BY <1>1, StatementsKeepSnapshot
  <2>2. QED
    BY <1>1, <1>2, <2>1 DEF Deliver, WritesSnapshot
<1>3. ASSUME \/ Claim(c) \/ Commit(c) \/ Settle(c) \/ Release(c)
             \/ InfrastructureFailure(c) \/ RowFailure(c) \/ CrashDelivery(c)
      PROVE  /\ UNCHANGED rows \/ \E i \in Id : \E r : WritesSnapshot(i, r)
             /\ \A d \in Consumer :
                  deliveries'[d].snap \in {deliveries[d].snap, None}
  <2> DEFINE k == deliveries[c]
             i == k.id
  <2>1. k.pc # "idle"
    BY <1>3 DEF Claim, Commit, Settle, Release, InfrastructureFailure,
       RowFailure, CrashDelivery, MayThrow
  <2>2. i \in Id /\ rows[i] \in Row
    BY <1>1, <2>1 DEF Typing, DeliveriesKnowTheirRow
  <2>3. UNCHANGED rows \/ \E r : WritesSnapshot(i, r)
    <3>1. CASE UNCHANGED rows
      BY <3>1
    <3>2. CASE rows' # rows
      <4>1. PICK r : SetRow(i, r) /\
               \/ r = ClaimEffect(rows[i]) \/ r = SettleRow(rows[i], k.verdict)
               \/ r = ReleaseLease(rows[i])
               \/ \E n : r = QuarantineRow(rows[i], n) \/ r = ScheduleRetry(rows[i], n)
        BY <1>3, <3>2 DEF Claim, Commit, Settle, Release, RowFailure,
           InfrastructureFailure, CrashDelivery, ledgerVars
      <4>2. r.snap = rows[i].snap
        BY <2>2, <4>1, StatementsKeepSnapshot DEF ReleaseLease
      <4>3. QED
        BY <4>1, <4>2 DEF WritesSnapshot
    <3>3. QED
      BY <3>1, <3>2
  <2>4. \A d \in Consumer : deliveries'[d].snap \in {deliveries[d].snap, None}
    <3>1. CASE \E pc : Proceed(c, pc)
      BY <1>1, <3>1 DEF Proceed, Delivery
    <3>2. CASE Forget(c)
      BY <1>1, <3>2 DEF Forget, IdleDelivery
    <3>3. ASSUME NEW v, deliveries' = [deliveries EXCEPT ![c].pc = "claimed",
                                                        ![c].verdict = v]
          PROVE  \A d \in Consumer : deliveries'[d].snap = deliveries[d].snap
      BY <1>1, <3>3 DEF Delivery
    <3>4. QED
      BY <1>3, <3>1, <3>2, <3>3 DEF Claim, Commit, Settle, Release,
         InfrastructureFailure, RowFailure, CrashDelivery
  <2>5. QED
    BY <2>2, <2>3, <2>4
<1>4. QED
  BY <1>2, <1>3 DEF Consume

(* What a step makes of the pass: it goes on with its snapshot, ends, or   *)
(* has read the world.                                                     *)
LEMMA SnapshotOfPass ==
    ASSUME Typing, [Next]_vars
    PROVE  \/ /\ ReadLedger /\ disc'.snap = World /\ World' = World
              /\ snaps'[World] # "none"
           \/ /\ disc'.snap = None /\ disc'.pc # "write"
           \/ /\ disc'.snap = disc.snap
              /\ disc'.pc = "write" => disc.pc = "write"
              /\ UNCHANGED snaps \/ disc'.pc # "write" \/ TerminalizeReplaced
<1>1. disc \in Discovery
      /\ snaps \in [Snapshot -> {"none", "staged", "active", "terminal"}]
  BY DEF Typing, TypeOK
<1>2. CASE ReadLedger
  <2>1. disc'.snap = World /\ World' = World
    BY <1>2, ReadLedgerPass DEF World, ReadLedger, worldVars
  <2>2. World \in Snapshot
    BY DEF World, Snapshot, Typing, TypeOK
  <2>3. snaps'[World] # "none"
    BY <1>1, <1>2, <2>2 DEF ReadLedger, World
  <2>4. QED
    BY <1>2, <2>1, <2>3
<1>3. CASE StartPass \/ FinishPass \/ ThrowPass \/ CrashPass
  BY <1>3 DEF StartPass, FinishPass, ThrowPass, CrashPass, IdleDiscovery
<1>4. ASSUME NEW i \in Id,
             \/ DiscoverRow(i) \/ MissRow(i) \/ ReopenActionable(i)
             \/ CloseOmission(i) \/ AcknowledgeOmission(i)
      PROVE  /\ disc'.snap = disc.snap /\ UNCHANGED snaps
             /\ disc'.pc = "write" => disc.pc = "write"
  BY <1>1, <1>4 DEF DiscoverRow, MissRow, ReopenActionable, CloseOmission,
     AcknowledgeOmission, Discovery, ledgerVars
<1>5. CASE ActivateSnapshot \/ ListClosures
  BY <1>1, <1>5 DEF ActivateSnapshot, ListClosures, Discovery
<1>6. CASE UNCHANGED disc /\ (UNCHANGED snaps \/ TerminalizeReplaced)
  BY <1>6
<1>7. CASE Discover
  BY <1>2, <1>3, <1>4, <1>5, <1>7 DEF Discover
<1>8. CASE Dispatch
  BY <1>6, <1>8 DEF Dispatch, TerminalizeReplaced, ReclaimLease, BootstrapRow,
     ListStalePolicy, MigratePolicy, QueueRow, ledgerVars
<1>9. CASE Environment
  BY <1>3, <1>6, <1>9 DEF Environment, BoardChanges, PolicyChanges,
     RetryComesDue, LeaseExpires, ReplayRow, InfrastructureFailure,
     RowFailure, CrashDelivery, ledgerVars
<1>10. CASE \E c \in Consumer : Consume(c)
  BY <1>6, <1>10 DEF Consume, Deliver, Claim, Commit, Settle, Release, ledgerVars
<1>11. CASE UNCHANGED vars
  BY <1>6, <1>11 DEF vars
<1>12. QED
  BY <1>7, <1>8, <1>9, <1>10, <1>11 DEF Next

(* Only the deliveries' own actions change what a delivery remembers.      *)
LEMMA ActionsElsewhere ==
    ASSUME [Next]_vars, deliveries' # deliveries
    PROVE  \E c \in Consumer : \/ Consume(c) \/ InfrastructureFailure(c)
                               \/ RowFailure(c) \/ CrashDelivery(c)
<1>1. ~Discover
  BY DiscoverLeaves
<1>2. ~Dispatch
  BY DEF Dispatch, TerminalizeReplaced, ReclaimLease, BootstrapRow,
     ListStalePolicy, MigratePolicy, QueueRow
<1>3. QED
  BY <1>1, <1>2 DEF Next, Environment, BoardChanges, PolicyChanges, CrashPass,
     RetryComesDue, LeaseExpires, ReplayRow, vars

(* Only the source and a deploy change the world.                          *)
LEMMA WorldElsewhere ==
    ASSUME [Next]_vars
    PROVE  BoardChanges \/ PolicyChanges \/ UNCHANGED <<board, policy, World>>
<1>1. Discover => UNCHANGED <<board, policy>>
  BY DiscoverLeaves
<1>2. Dispatch => UNCHANGED <<board, policy>>
  BY DEF Dispatch, TerminalizeReplaced, ReclaimLease, BootstrapRow,
     ListStalePolicy, MigratePolicy, QueueRow, worldVars
<1>3. Environment => BoardChanges \/ PolicyChanges \/ UNCHANGED <<board, policy>>
  BY DEF Environment, CrashPass, RetryComesDue, LeaseExpires, ReplayRow,
     InfrastructureFailure, RowFailure, CrashDelivery, worldVars
<1>4. (\E c \in Consumer : Consume(c)) => UNCHANGED <<board, policy>>
  BY DEF Consume, Deliver, Claim, Commit, Settle, Release, worldVars
<1>5. QED
  BY <1>1, <1>2, <1>3, <1>4 DEF Next, vars, World

(* Every step keeps what the snapshot table remembers: a board that never  *)
(* returns is new, and it is staged before a row is written with it.       *)
LEMMA StagingStep == Typing /\ Typing' /\ Staging /\ [Next]_vars => Staging'
<1> SUFFICES ASSUME Typing, Typing', Staging, [Next]_vars PROVE Staging'
  OBVIOUS
<1>1. /\ rows \in [Id -> Row] /\ disc \in Discovery /\ disc' \in Discovery
      /\ deliveries \in [Consumer -> Delivery]
      /\ None \notin Snapshot
  BY NoneIsNoSnapshot DEF Typing, TypeOK
<1>2. \A s \in Snapshot : snaps[s] # "none" => snaps'[s] # "none"
  BY SnapshotsStay
<1>3. /\ \A i \in Id : rows[i].snap # None => snaps'[rows[i].snap] # "none"
      /\ \A c \in Consumer : deliveries[c].snap # None
                                 => snaps'[deliveries[c].snap] # "none"
      /\ disc.snap # None => snaps'[disc.snap] # "none"
  BY <1>1, <1>2 DEF Staging, RememberedIsStaged, Row, Delivery, Discovery
<1>4. UNCHANGED rows \/ \E i \in Id : \E r : WritesSnapshot(i, r)
  <2>1. CASE Discover
    BY <2>1, SnapshotsOfPass DEF Discover, StartPass, ReadLedger,
       ActivateSnapshot, ListClosures, FinishPass, ThrowPass, ledgerVars
  <2>2. CASE Dispatch
    BY <2>2, SnapshotsOfDispatch DEF Dispatch, TerminalizeReplaced
  <2>3. CASE Environment \/ \E c \in Consumer : Consume(c)
    BY <2>3, SnapshotsOfDispatch, SnapshotsOfDelivery
    DEF Environment, BoardChanges, PolicyChanges, CrashPass, ledgerVars
  <2>4. CASE ~Next
    <3>1. UNCHANGED vars
      BY <2>4
    <3> QED
      BY <3>1 DEF vars
  <2> QED
    BY <2>1, <2>2, <2>3, <2>4 DEF Next
<1>5. \A i \in Id : rows'[i].snap # None => snaps'[rows'[i].snap] # "none"
  BY <1>1, <1>3, <1>4 DEF WritesSnapshot, SetRow
<1>6. \A c \in Consumer : deliveries'[c].snap # None
                              => snaps'[deliveries'[c].snap] # "none"
  <2>1. \A c \in Consumer :
           \/ deliveries'[c].snap \in {deliveries[c].snap, None}
           \/ \E i \in Id : deliveries'[c].snap = rows[i].snap
    <3>1. CASE UNCHANGED deliveries
      BY <3>1
    <3>2. CASE \E c \in Consumer :
                 \/ Consume(c) \/ InfrastructureFailure(c) \/ RowFailure(c)
                 \/ CrashDelivery(c)
      BY <3>2, SnapshotsOfDelivery
    <3>3. QED
      BY <3>1, <3>2, ActionsElsewhere
  <2>2. QED
    BY <1>3, <2>1
<1>7. disc'.snap # None => snaps'[disc'.snap] # "none"
  BY <1>3, SnapshotOfPass
<1>8. WorldIsNew'
  <2> SUFFICES ASSUME ~Revisit, disc'.pc = "write", disc'.snap # World'
               PROVE  snaps'[World'] = "none"
    BY DEF WorldIsNew
  <2>1. disc.pc = "write" /\ disc'.snap = disc.snap
    BY <1>1, SnapshotOfPass
  <2>2. /\ UNCHANGED snaps \/ TerminalizeReplaced
    BY <1>1, SnapshotOfPass
  <2>3. CASE BoardChanges \/ PolicyChanges
    BY <2>3 DEF BoardChanges, PolicyChanges, World, ledgerVars
  <2>4. CASE World' = World
    <3>1. snaps[World] = "none"
      BY <2>1, <2>4 DEF Staging, WorldIsNew
    <3>2. World \in Snapshot
      BY DEF World, Snapshot, Typing, TypeOK
    <3>3. QED
      BY <2>2, <2>4, <3>1, <3>2 DEF TerminalizeReplaced
  <2>5. QED
    BY <2>3, <2>4, WorldElsewhere
<1>9. QED
  BY <1>5, <1>6, <1>7, <1>8 DEF Staging, RememberedIsStaged

-----------------------------------------------------------------------------
(* Leasing: what a delivery may still rely on.                             *)

LEMMA LeasingInit == Init => Leasing
BY DEF Init, Leasing, LeaseKeepsIdentity, LostSnapshotIsLeft,
       CommittedEffectShows, SettledAgreesWithCatalog, Graded,
       IdleDelivery, UnknownRow

(* A write by which no row becomes leased, claimed or graded, and which     *)
(* changes no identity, keeps it.                                          *)
Tame(i) == /\ rows'[i].state = "processing" =>
                rows[i].state = "processing" /\ rows'[i].owner = rows[i].owner
           /\ rows'[i].claimed => rows[i].claimed
           /\ rows'[i].omissions >= rows[i].omissions
           /\ rows'[i].snap = rows[i].snap
           /\ rows'[i].material = rows[i].material
           /\ rows'[i].state = "processing" => rows'[i].ver = rows[i].ver
           /\ rows'[i].state = "processing" => rows'[i].baseline = rows[i].baseline
           /\ rows'[i].state = "settled" =>
                /\ rows[i].state = "settled"
                /\ rows'[i].decision = rows[i].decision
                /\ rows'[i].attempts = rows[i].attempts

(* A delivery that goes on as it is, gives up, or ends.                    *)
Fades(c) == \/ deliveries'[c] = deliveries[c]
            \/ deliveries'[c].pc = "idle"
            \/ /\ deliveries'[c].pc = "release" /\ deliveries[c].pc # "idle"
               /\ deliveries'[c].id = deliveries[c].id
               /\ deliveries'[c].material = deliveries[c].material
               /\ deliveries'[c].ver = deliveries[c].ver
               /\ deliveries'[c].baseline = deliveries[c].baseline

(* What was remembered and left stays left.                                *)
LeftStaysLeft ==
    \A i \in Id : \A s \in Snapshot \cup {None} :
        (s # None => snaps[s] # "none") /\ Left(s, i) => Left(s, i)'

(* It does while the world stands and the pass only goes on or ends.       *)
LEMMA LeftStays ==
    ASSUME UNCHANGED <<board, policy>>,
           \/ UNCHANGED disc
           \/ disc'.pc \notin {"fetch", "write"}
           \/ /\ disc.pc = "write" /\ disc'.pc = "write"
              /\ disc'.snap = disc.snap /\ disc'.todo \subseteq disc.todo
    PROVE  LeftStaysLeft
BY DEF LeftStaysLeft, Left, NotYetWritten, World

(* What a delivery at work remembers was staged.                           *)
LEMMA DeliverySnapshot ==
    ASSUME Typing, Staging, NEW c \in Consumer
    PROVE  /\ deliveries[c].snap \in Snapshot \cup {None}
           /\ deliveries[c].snap # None => snaps[deliveries[c].snap] # "none"
BY DEF Typing, TypeOK, Delivery, Staging, RememberedIsStaged

(* A tame write under deliveries that fade keeps the leases and what       *)
(* settled rows say of the catalog.                                        *)
LEMMA LeasingTame ==
    ASSUME Typing, Typing', Staging, Leasing, \A i \in Id : Tame(i),
           \A c \in Consumer : Fades(c), UNCHANGED catalog, LeftStaysLeft
    PROVE  Leasing'
<1>1. \A i \in Id : rows[i] \in Row /\ rows'[i] \in Row
  BY DEF Typing, TypeOK
<1>2. \A i \in Id : rows[i].omissions \in 0..2 /\ rows'[i].omissions \in 0..2
  BY <1>1 DEF Row
<1>3. \A c \in Consumer : \A i \in Id : Owns(c, i)' => Owns(c, i)
  BY DEF Owns, Tame
<1>4. LeaseKeepsIdentity'
  BY <1>3 DEF Leasing, LeaseKeepsIdentity, Tame, Owns, Fades
<1>5. LostSnapshotIsLeft'
  <2> SUFFICES ASSUME NEW c \in Consumer, NEW i \in Id,
                      deliveries'[c].pc \in {"claimed", "committed"},
                      deliveries'[c].id = i, Owns(c, i)',
                      rows'[i].snap # deliveries'[c].snap
               PROVE  Left(deliveries[c].snap, i)'
    BY DEF LostSnapshotIsLeft
  <2>1. deliveries'[c] = deliveries[c]
    BY DEF Fades
  <2>2. Left(deliveries[c].snap, i)
    BY <1>3, <2>1 DEF Leasing, LostSnapshotIsLeft, Tame
  <2>3. QED
    BY <2>1, <2>2, DeliverySnapshot DEF LeftStaysLeft, Left
<1>6. CommittedEffectShows'
  BY <1>2 DEF Leasing, CommittedEffectShows, Tame, HoldsLease, LeaseGuard, Fades
<1>7. SettledAgreesWithCatalog'
  BY <1>2 DEF Leasing, SettledAgreesWithCatalog, Tame, Graded
<1>8. QED
  BY <1>4, <1>5, <1>6, <1>7 DEF Leasing

(* A step that writes no row is tame.                                      *)
LEMMA TameUnwritten ==
    ASSUME Typing, UNCHANGED rows
    PROVE  \A i \in Id : Tame(i)
<1>1. \A i \in Id : rows[i].omissions \in 0..2
  BY DEF Typing, TypeOK, Row
<1>2. QED
  BY <1>1 DEF Tame

(* A write of one row is tame when the row leaves the lease it had.        *)
LEMMA TameWrite ==
    ASSUME Typing, NEW i \in Id, NEW r \in Row, SetRow(i, r),
           r.state \notin {"processing", "settled"},
           r.claimed => rows[i].claimed,
           r.omissions = rows[i].omissions,
           r.snap = rows[i].snap, r.material = rows[i].material
    PROVE  \A j \in Id : Tame(j)
<1>1. \A j \in Id : rows[j].omissions \in 0..2
  BY DEF Typing, TypeOK, Row
<1>2. rows'[i] = r /\ \A j \in Id \ {i} : rows'[j] = rows[j]
  BY DEF SetRow, Typing, TypeOK
<1>3. Tame(i)
  BY <1>1, <1>2 DEF Tame
<1>4. \A j \in Id \ {i} : Tame(j)
  BY <1>1, <1>2 DEF Tame
<1>5. QED
  BY <1>3, <1>4

(* Time, the dispatcher and the operator take leases away and never give   *)
(* one.                                                                    *)
LEMMA LeasingDispatch ==
    ASSUME Typing, Typing', Staging, Leasing, NEW i \in Id,
           \/ RetryComesDue(i) \/ LeaseExpires(i) \/ ReclaimLease(i)
           \/ BootstrapRow(i) \/ MigratePolicy(i) \/ QueueRow(i) \/ ReplayRow(i)
    PROVE  Leasing'
<1>1. rows[i] \in Row /\ rows'[i] \in Row /\ rows \in [Id -> Row]
  BY DEF Typing, TypeOK
<1>2. UNCHANGED <<disc, deliveries, catalog, board, policy>>
  BY DEF RetryComesDue, LeaseExpires, ReclaimLease, BootstrapRow,
         MigratePolicy, QueueRow, ReplayRow, effectVars, worldVars
<1>3. SUFFICES \A j \in Id : Tame(j)
  BY <1>2, LeftStays, LeasingTame DEF Fades
<1>4. CASE RetryComesDue(i) \/ LeaseExpires(i)
  <2>1. \A j \in Id : /\ rows'[j].state = rows[j].state
                      /\ rows'[j].owner = rows[j].owner
                      /\ rows'[j].claimed = rows[j].claimed
                      /\ rows'[j].omissions = rows[j].omissions
                      /\ rows'[j].snap = rows[j].snap
                      /\ rows'[j].material = rows[j].material
                      /\ rows'[j].ver = rows[j].ver
                      /\ rows'[j].baseline = rows[j].baseline
                      /\ rows'[j].decision = rows[j].decision
                      /\ rows'[j].attempts = rows[j].attempts
    <3>1. CASE RetryComesDue(i)
      <4> DEFINE r == [rows[i] EXCEPT !.waiting = FALSE]
      <4>1. rows' = [rows EXCEPT ![i] = r]
        BY <3>1 DEF RetryComesDue, SetRow
      <4>2. QED
        BY <1>1, <4>1 DEF Row
    <3>2. CASE LeaseExpires(i)
      <4> DEFINE r == [rows[i] EXCEPT !.expired = TRUE]
      <4>1. rows' = [rows EXCEPT ![i] = r]
        BY <3>2 DEF LeaseExpires, SetRow
      <4>2. QED
        BY <1>1, <4>1 DEF Row
    <3>3. QED
      BY <1>4, <3>1, <3>2
  <2>2. \A j \in Id : rows[j].omissions \in 0..2
    BY <1>1 DEF Row
  <2>3. QED
    BY <2>1, <2>2 DEF Tame
<1>5. CASE ~(RetryComesDue(i) \/ LeaseExpires(i))
  <2>1. CASE UNCHANGED rows
    BY <2>1, TameUnwritten
  <2>2. CASE rows' # rows
    <3>1. PICK r : /\ SetRow(i, r)
                   /\ \/ r = ReleaseLease(rows[i]) \/ r = MarkQueued(rows[i])
                      \/ r = ReopenUnprocessed(rows[i])
                      \/ \E v, b : r = ReopenRow(rows[i], v, b)
      BY <1>5, <2>2 DEF ReclaimLease, BootstrapRow, MigratePolicy, QueueRow,
         ReplayRow
    <3>2. rows'[i] = r
      BY <1>1, <3>1 DEF SetRow
    <3>3. /\ r.state = "queued" /\ r.claimed = FALSE
          /\ r.omissions = rows[i].omissions
          /\ r.snap = rows[i].snap /\ r.material = rows[i].material
      BY <1>1, <3>1 DEF ReleaseLease, MarkQueued, ReopenUnprocessed,
         ReopenRow, Requeue, Row
    <3>4. QED
      BY <1>1, <3>1, <3>2, <3>3, TameWrite
  <2>3. QED
    BY <2>1, <2>2
<1>6. QED
  BY <1>4, <1>5

(* Steps that write no row and commit no positive effect keep the leases;  *)
(* a closure touches only roles that two boards missed.                    *)
LEMMA LeasingWorld ==
    ASSUME Typing, Typing', Closing, Staging, Leasing, ~Revisit \/ ~SlowEffects,
           \/ BoardChanges \/ PolicyChanges \/ CrashPass
           \/ StartPass \/ ReadLedger \/ ActivateSnapshot \/ ListClosures
           \/ FinishPass \/ ThrowPass \/ TerminalizeReplaced
           \/ \E i \in Id : CloseOmission(i) \/ ListStalePolicy(i)
           \/ UNCHANGED vars
    PROVE  Leasing'
<1>1. UNCHANGED <<rows, deliveries>>
  BY DEF BoardChanges, PolicyChanges, CrashPass, StartPass, ReadLedger,
     ActivateSnapshot, ListClosures, FinishPass, ThrowPass,
     TerminalizeReplaced, CloseOmission, ListStalePolicy, vars, ledgerVars
<1>2. ASSUME UNCHANGED catalog, LeftStaysLeft PROVE Leasing'
  BY <1>1, <1>2, TameUnwritten, LeasingTame DEF Fades
<1>3. CASE BoardChanges \/ PolicyChanges
  <2>1. /\ UNCHANGED <<catalog, disc>>
        /\ Revisit \/ snaps[World'] = "none"
    BY <1>3 DEF BoardChanges, PolicyChanges, effectVars, World
  <2>2. World' \in Snapshot /\ None \notin Snapshot
    BY NoneIsNoSnapshot DEF World, Snapshot, Typing, TypeOK
  <2>3. LeftStaysLeft
    BY <2>1, <2>2 DEF LeftStaysLeft, Left, NotYetWritten
  <2>4. QED
    BY <1>2, <2>1, <2>3
<1>4. CASE StartPass
  <2>1. UNCHANGED <<catalog, board, policy>> /\ disc'.pc = "fetch"
    BY <1>4 DEF StartPass, effectVars, worldVars, IdleDiscovery
  <2>2. CASE ~Revisit
    <3>1. LeftStaysLeft
      BY <2>1, <2>2 DEF LeftStaysLeft, Left, World
    <3>2. QED
      BY <1>2, <2>1, <3>1
  <2>3. CASE Revisit
    <3>1. \A c \in Consumer : deliveries[c].pc \notin {"claimed", "committed"}
      BY <1>4, <2>3 DEF StartPass
    <3>2. QED
      BY <1>1, <2>1, <3>1 DEF Leasing, LeaseKeepsIdentity, LostSnapshotIsLeft,
         CommittedEffectShows, SettledAgreesWithCatalog, Owns
  <2>4. QED
    BY <2>2, <2>3
<1>5. CASE ReadLedger
  <2>1. disc.pc = "fetch" /\ UNCHANGED catalog
    BY <1>5 DEF ReadLedger, effectVars
  <2>2. /\ disc'.snap = World /\ disc'.pc \in {"reopen", "write"}
        /\ World' = World
    BY <1>5, ReadLedgerPass DEF ReadLedger, World, worldVars
  <2>3. LeftStaysLeft
    BY <2>1, <2>2 DEF LeftStaysLeft, Left, NotYetWritten
  <2>4. QED
    BY <1>2, <2>1, <2>3
<1>6. ASSUME NEW i \in Id, CloseOmission(i) PROVE Leasing'
  <2>1. disc'.pc = "ack" /\ UNCHANGED <<board, policy>>
    BY <1>6 DEF CloseOmission, Typing, TypeOK, Discovery, worldVars
  <2>2. \A j \in Id : catalog'[j] # catalog[j] => rows[j].omissions >= 2
    BY <1>6 DEF CloseOmission, ClosurePending, Typing, TypeOK
  <2>3. \A j \in Id : rows[j].omissions \in 0..2
    BY DEF Typing, TypeOK, Row
  <2>4. LostSnapshotIsLeft'
    BY <1>1, <2>1 DEF Leasing, LostSnapshotIsLeft, Owns, Left, NotYetWritten,
       World
  <2>5. QED
    BY <1>1, <2>2, <2>3, <2>4 DEF Leasing, LeaseKeepsIdentity,
       CommittedEffectShows, SettledAgreesWithCatalog, Owns, Graded
<1>7. ASSUME \/ CrashPass \/ ActivateSnapshot
             \/ ListClosures \/ FinishPass \/ ThrowPass \/ TerminalizeReplaced
             \/ \E i \in Id : ListStalePolicy(i)
             \/ UNCHANGED vars
      PROVE  Leasing'
  <2>1. UNCHANGED <<catalog, board, policy>>
    BY <1>7 DEF CrashPass, ActivateSnapshot, ListClosures, FinishPass,
       ThrowPass, TerminalizeReplaced, ListStalePolicy, vars, effectVars,
       worldVars
  <2>2. disc' = disc \/ disc'.pc \in {"idle", "reopen", "close"}
    BY <1>7 DEF CrashPass, ActivateSnapshot, ListClosures, FinishPass,
       ThrowPass, TerminalizeReplaced, ListStalePolicy, vars, IdleDiscovery,
       Typing, TypeOK, Discovery
  <2>3. QED
    BY <1>2, <2>1, <2>2, LeftStays
<1>8. QED
  BY <1>3, <1>4, <1>5, <1>6, <1>7

(* The pass ends the lease of a row whose identity it changes, and a       *)
(* graded result survives it only with the identity it was graded for.     *)
LEMMA LeasingDiscovery ==
    ASSUME Typing, Typing', Closing, Staging, Leasing, NEW i \in Id,
           \/ DiscoverRow(i) \/ MissRow(i) \/ ReopenActionable(i)
           \/ AcknowledgeOmission(i)
    PROVE  Leasing'
<1>1. /\ rows[i] \in Row /\ rows'[i] \in Row /\ rows \in [Id -> Row]
      /\ disc \in Discovery
      /\ \A j \in Id : rows[j].omissions \in 0..2 /\ rows'[j].omissions \in 0..2
  BY DEF Typing, TypeOK, Row
<1>2. UNCHANGED <<deliveries, catalog, board, policy>>
  BY DEF DiscoverRow, MissRow, ReopenActionable, AcknowledgeOmission,
     effectVars, worldVars
<1>3. CASE MissRow(i)
  <2>1. disc.omit[i] \in 1..2 /\ disc.pc = "write" /\ disc'.pc = "write"
        /\ disc'.todo = disc.todo /\ disc'.snap = disc.snap
    BY <1>1, <1>3 DEF MissRow, Discovery
  <2>2. /\ rows[i].omissions <= disc.omit[i]
        /\ rows[i].state \notin {"unknown", "absent"}
    BY <2>1 DEF Closing, OmissionsGrow
  <2>3. \A j \in Id : Tame(j)
    <3>1. CASE i \in late
      BY <1>3, <3>1, TameUnwritten DEF MissRow
    <3>2. CASE i \notin late
      <4>1. /\ rows'[i] = ApplyOmission(rows[i], disc.omit[i])
            /\ \A j \in Id \ {i} : rows'[j] = rows[j]
        BY <1>1, <1>3, <3>2 DEF MissRow, SetRow
      <4>2. Tame(i)
        BY <1>1, <2>1, <2>2, <4>1, ApplyOmissionFields DEF Tame
      <4>3. QED
        BY <1>1, <4>1, <4>2 DEF Tame
    <3>3. QED
      BY <3>1, <3>2
  <2>4. QED
    BY <1>2, <2>1, <2>3, LeftStays, LeasingTame DEF Fades
<1>4. CASE ReopenActionable(i)
  <2>1. disc.pc = "reopen" /\ disc'.pc = "reopen"
    BY <1>1, <1>4 DEF ReopenActionable, Discovery
  <2>2. \A j \in Id : Tame(j)
    <3>1. CASE UNCHANGED rows
      BY <3>1, TameUnwritten
    <3>2. CASE rows' # rows
      <4> DEFINE r == ReopenRow(rows[i], disc.snap.ver, rows[i].baseline)
      <4>1. SetRow(i, r)
        BY <1>4, <3>2 DEF ReopenActionable
      <4>2. /\ r.state = "queued" /\ r.claimed = FALSE
            /\ r.omissions = rows[i].omissions
            /\ r.snap = rows[i].snap /\ r.material = rows[i].material
        BY <1>1 DEF ReopenRow, Requeue, Row
      <4>3. r \in Row
        BY <1>1, <4>1 DEF SetRow
      <4> HIDE DEF r
      <4>4. QED
        BY <4>1, <4>2, <4>3, TameWrite
    <3>3. QED
      BY <3>1, <3>2
  <2>3. QED
    BY <1>2, <2>1, <2>2, LeftStays, LeasingTame DEF Fades
<1>5. CASE AcknowledgeOmission(i)
  <2>1. disc'.pc = "close"
    BY <1>1, <1>5 DEF AcknowledgeOmission, Discovery
  <2>2. \A j \in Id : Tame(j)
    <3>1. CASE UNCHANGED rows
      BY <3>1, TameUnwritten
    <3>2. CASE rows' # rows
      <4> DEFINE r == AcknowledgeClosure(rows[i])
      <4>1. SetRow(i, r)
        BY <1>5, <3>2 DEF AcknowledgeOmission
      <4>2. /\ r.state = "absent" /\ r.claimed = rows[i].claimed
            /\ r.omissions = rows[i].omissions
            /\ r.snap = rows[i].snap /\ r.material = rows[i].material
        BY <1>1 DEF AcknowledgeClosure, Row
      <4>3. r \in Row
        BY <1>1, <4>1 DEF SetRow
      <4> HIDE DEF r
      <4>4. QED
        BY <4>1, <4>2, <4>3, TameWrite
    <3>3. QED
      BY <3>1, <3>2
  <2>3. QED
    BY <1>2, <2>1, <2>2, LeftStays, LeasingTame DEF Fades
<1>6. CASE DiscoverRow(i)
  <2> DEFINE m == disc.snap.board[i]
             v == disc.snap.ver
             same == SameAdmissionIdentity(rows[i], m, v)
             b == ~seeded \/ i \in disc.silent
  <2>1. /\ disc.pc = "write" /\ i \in disc.todo
        /\ disc'.pc = "write" /\ disc'.todo = disc.todo \ {i}
        /\ disc'.snap = disc.snap
        /\ rows'[i] = PutRow(rows[i], disc.snap, m, b) /\ b \in BOOLEAN
        /\ \A j \in Id \ {i} : rows'[j] = rows[j]
    BY <1>1, <1>6 DEF DiscoverRow, SetRow, Discovery
  <2> HIDE DEF m, b
  <2>2. LET p == PutRow(rows[i], disc.snap, m, b) IN
        /\ p.snap = disc.snap
        /\ p.material = m /\ p.ver = v /\ p.omissions = 0
        /\ rows[i].baseline => p.baseline
        /\ p.claimed => same /\ rows[i].claimed
        /\ p.state = "processing" =>
             same /\ rows[i].state = "processing" /\ p.owner = rows[i].owner
        /\ p.state = "settled" /\ p.attempts > 0 =>
             /\ same /\ rows[i].state = "settled" /\ rows[i].attempts > 0
             /\ p.decision = rows[i].decision
    <3>1. rows[i] \in Row /\ b \in BOOLEAN
      BY <1>1, <2>1
    <3>2. QED
      BY ONLY <3>1, PutRowFields
  <2>3. /\ rows'[i].snap = disc.snap
        /\ rows'[i].material = m /\ rows'[i].ver = v
        /\ rows'[i].omissions = 0
        /\ rows[i].baseline => rows'[i].baseline
        /\ rows'[i].claimed => same /\ rows[i].claimed
        /\ rows'[i].state = "processing" =>
             same /\ rows[i].state = "processing"
                  /\ rows'[i].owner = rows[i].owner
        /\ rows'[i].state = "settled" /\ rows'[i].attempts > 0 =>
             /\ same /\ rows[i].state = "settled" /\ rows[i].attempts > 0
             /\ rows'[i].decision = rows[i].decision
    BY <2>1, <2>2
  <2>4. same => /\ rows[i].material = m /\ rows[i].ver = v
                /\ rows[i].omissions < 2
    BY DEF SameAdmissionIdentity
  <2> HIDE DEF v, same
  <2>5. \A c \in Consumer : \A j \in Id : Owns(c, j)' => Owns(c, j)
    BY <2>1, <2>3 DEF Owns
  <2>6. LeaseKeepsIdentity'
    BY <1>2, <2>1, <2>3, <2>4, <2>5 DEF Leasing, LeaseKeepsIdentity, Owns
  <2>7. LostSnapshotIsLeft'
    <3> SUFFICES ASSUME NEW c \in Consumer, NEW j \in Id,
                        deliveries[c].pc \in {"claimed", "committed"},
                        deliveries[c].id = j, Owns(c, j)',
                        rows'[j].snap # deliveries[c].snap
                 PROVE  Left(deliveries[c].snap, j)'
      BY <1>2 DEF LostSnapshotIsLeft
    <3> DEFINE s == deliveries[c].snap
    <3>1. CASE rows[j].snap # s
      <4>1. Left(s, j)
        BY <2>5, <3>1 DEF Leasing, LostSnapshotIsLeft
      <4>2. QED
        BY <1>2, <2>1, <4>1 DEF Left, NotYetWritten, World
    <3>2. CASE rows[j].snap = s
      <4>1. j = i /\ s # disc.snap
        BY <2>1, <2>3, <3>2
      <4>2. CASE Revisit
        BY <2>1, <4>1, <4>2 DEF Left, NotYetWritten
      <4>3. CASE ~Revisit
        <5>1. World \in Snapshot /\ None \notin Snapshot
          BY NoneIsNoSnapshot DEF World, Snapshot, Typing, TypeOK
        <5>2. disc.snap # World => snaps[World] = "none"
          BY <2>1, <4>3 DEF Staging, WorldIsNew
        <5>3. s # World
          BY <4>1, <5>1, <5>2, DeliverySnapshot
        <5>4. QED
          BY <1>2, <2>1, <4>1, <4>3, <5>3 DEF Left, World
      <4>4. QED
        BY <4>2, <4>3
    <3>3. QED
      BY <3>1, <3>2
  <2>8. CommittedEffectShows'
    <3> SUFFICES ASSUME NEW c \in Consumer, NEW j \in Id,
                        deliveries[c].pc = "committed", deliveries[c].id = j,
                        HoldsLease(rows'[j], deliveries[c], c),
                        rows'[j].claimed, rows'[j].omissions < 2
                 PROVE  Agrees(catalog[j], deliveries[c].verdict,
                               rows'[j].material)
      BY <1>2 DEF CommittedEffectShows
    <3>1. CASE j # i
      BY <2>1, <3>1 DEF Leasing, CommittedEffectShows
    <3>2. CASE j = i
      <4>1. Owns(c, i)' /\ Owns(c, i) /\ same
        BY <2>3, <2>5, <3>2 DEF HoldsLease, LeaseGuard, Owns
      <4>2. rows[i].snap = deliveries[c].snap
        <5>1. deliveries[c].snap = disc.snap
          BY <2>3, <3>2 DEF HoldsLease, LeaseGuard
        <5>2. ~Left(disc.snap, i)
          BY <2>1 DEF Left, NotYetWritten
        <5>3. QED
          BY <3>2, <4>1, <5>1, <5>2 DEF Leasing, LostSnapshotIsLeft
      <4>3. /\ rows[i].material = deliveries[c].material
            /\ rows[i].ver = deliveries[c].ver
            /\ deliveries[c].baseline => rows[i].baseline
        BY <3>2, <4>1 DEF Leasing, LeaseKeepsIdentity
      <4>4. rows[i].baseline = deliveries[c].baseline
        BY <1>1, <2>3, <3>2, <4>3 DEF HoldsLease, Row, Typing, TypeOK, Delivery
      <4>5. HoldsLease(rows[i], deliveries[c], c)
        BY <4>1, <4>2, <4>3, <4>4 DEF HoldsLease, LeaseGuard, Owns
      <4>6. rows[i].claimed /\ rows[i].omissions < 2
            /\ rows'[i].material = rows[i].material
        BY <2>3, <2>4, <3>2, <4>1
      <4>7. QED
        BY <3>2, <4>5, <4>6 DEF Leasing, CommittedEffectShows
    <3>3. QED
      BY <3>1, <3>2
  <2>9. SettledAgreesWithCatalog'
    BY <1>2, <2>1, <2>3, <2>4 DEF Leasing, SettledAgreesWithCatalog, Graded
  <2>10. QED
    BY <2>6, <2>7, <2>8, <2>9 DEF Leasing
<1>7. QED
  BY <1>3, <1>4, <1>5, <1>6

(* A new lease remembers the identity the row has.                         *)
LEMMA LeasingDeliver ==
    ASSUME Typing, Leasing, NEW c \in Consumer, NEW i \in Id, Deliver(c, i)
    PROVE  Leasing'
<1>1. /\ rows[i] \in Row /\ rows \in [Id -> Row]
      /\ deliveries \in [Consumer -> Delivery]
  BY DEF Typing, TypeOK
<1>2. UNCHANGED <<disc, catalog, board, policy>>
  BY DEF Deliver, effectVars, worldVars
<1>3. /\ \A j \in Id \ {i} : rows'[j] = rows[j]
      /\ rows'[i].state = "processing" /\ rows'[i].owner = c
      /\ rows'[i].material = rows[i].material /\ rows'[i].ver = rows[i].ver
      /\ rows'[i].baseline = rows[i].baseline
  BY <1>1 DEF Deliver, SetRow, AcquireLease, Row
<1>4. /\ \A d \in Consumer \ {c} : deliveries'[d] = deliveries[d]
      /\ deliveries'[c].pc = "leased" /\ deliveries'[c].id = i
      /\ deliveries'[c].material = rows[i].material
      /\ deliveries'[c].ver = rows[i].ver
      /\ deliveries'[c].baseline = rows[i].baseline
  BY <1>1 DEF Deliver
<1>5. LeaseKeepsIdentity'
  BY <1>3, <1>4 DEF Leasing, LeaseKeepsIdentity, Owns
<1>6. LostSnapshotIsLeft'
  BY <1>2, <1>3, <1>4 DEF Leasing, LostSnapshotIsLeft, Owns, Left,
     NotYetWritten, World
<1>7. CommittedEffectShows'
  BY <1>2, <1>3, <1>4 DEF Leasing, CommittedEffectShows, HoldsLease, LeaseGuard
<1>8. SettledAgreesWithCatalog'
  BY <1>2, <1>3 DEF Leasing, SettledAgreesWithCatalog, Graded
<1>9. QED
  BY <1>5, <1>6, <1>7, <1>8 DEF Leasing

(* What a delivery's steps do to its memory.                               *)
LEMMA ProceedFades ==
    ASSUME Typing, NEW c \in Consumer, deliveries[c].pc # "idle",
           Proceed(c, "release") \/ Forget(c)
    PROVE  \A d \in Consumer : Fades(d)
<1>1. deliveries \in [Consumer -> Delivery] /\ deliveries[c] \in Delivery
  BY DEF Typing, TypeOK
<1>2. CASE Proceed(c, "release")
  <2> DEFINE k == [deliveries[c] EXCEPT
                     !.pc = "release", !.job = FALSE, !.verdict = "none"]
  <2>1. /\ k.pc = "release" /\ k.id = deliveries[c].id
        /\ k.material = deliveries[c].material /\ k.ver = deliveries[c].ver
        /\ k.baseline = deliveries[c].baseline
    BY <1>1 DEF Delivery
  <2>2. deliveries' = [deliveries EXCEPT ![c] = k]
    BY <1>2 DEF Proceed
  <2> HIDE DEF k
  <2>3. QED
    BY <1>1, <2>1, <2>2 DEF Fades
<1>3. CASE Forget(c)
  BY <1>1, <1>3 DEF Forget, Fades, IdleDelivery
<1>4. QED
  BY <1>2, <1>3

(* Claim, commit and settlement: what a settlement writes is what the      *)
(* commit before it left in the catalog, since the lease stood in between. *)
LEMMA LeasingConsume ==
    ASSUME Typing, Typing', Closing, Staging, Leasing, NEW c \in Consumer,
           \/ Claim(c) \/ Commit(c) \/ Settle(c) \/ Release(c)
           \/ InfrastructureFailure(c) \/ RowFailure(c) \/ CrashDelivery(c)
    PROVE  Leasing'
<1> DEFINE k == deliveries[c]
           i == k.id
<1>1. k.pc # "idle"
  BY DEF Claim, Commit, Settle, Release, InfrastructureFailure, RowFailure,
         CrashDelivery, MayThrow
<1>2. /\ i \in Id /\ rows[i] \in Row /\ rows \in [Id -> Row]
      /\ rows' \in [Id -> Row]
      /\ k \in Delivery /\ deliveries \in [Consumer -> Delivery]
      /\ \A j \in Id : rows[j].omissions \in 0..2
  BY <1>1 DEF Typing, TypeOK, DeliveriesKnowTheirRow, Row
<1>3. UNCHANGED <<disc, board, policy>>
  BY DEF Claim, Commit, Settle, Release, InfrastructureFailure, RowFailure,
         CrashDelivery, worldVars
<1>4. CASE Claim(c) /\ HoldsLease(rows[i], k, c) /\ rows[i].omissions < 2
  <2>1. /\ \A j \in Id \ {i} : rows'[j] = rows[j]
        /\ rows'[i].state = rows[i].state /\ rows'[i].owner = rows[i].owner
        /\ rows'[i].snap = rows[i].snap
        /\ rows'[i].material = rows[i].material
        /\ rows'[i].ver = rows[i].ver /\ rows'[i].baseline = rows[i].baseline
    BY <1>2, <1>4 DEF Claim, SetRow, ClaimEffect, Row
  <2>2. /\ \A d \in Consumer \ {c} : deliveries'[d] = deliveries[d]
        /\ deliveries'[c].pc = "claimed" /\ deliveries'[c].id = i
        /\ deliveries'[c].snap = k.snap
        /\ deliveries'[c].material = k.material
        /\ deliveries'[c].ver = k.ver /\ deliveries'[c].baseline = k.baseline
    BY <1>2, <1>4 DEF Claim, Delivery
  <2>3. rows[i].state = "processing" /\ rows[i].owner = c
        /\ rows[i].snap = k.snap /\ UNCHANGED catalog
    BY <1>4 DEF Claim, HoldsLease, LeaseGuard, effectVars
  <2>4. \A d \in Consumer, j \in Id : Owns(d, j)' <=> Owns(d, j)
    BY <2>1 DEF Owns
  <2>5. LeaseKeepsIdentity'
    BY <1>1, <2>1, <2>2, <2>4 DEF Leasing, LeaseKeepsIdentity
  <2>6. LostSnapshotIsLeft'
    BY <1>3, <2>1, <2>2, <2>3, <2>4 DEF Leasing, LostSnapshotIsLeft, Left,
       NotYetWritten, World
  <2>7. CommittedEffectShows'
    BY <2>1, <2>2, <2>3 DEF Leasing, CommittedEffectShows, HoldsLease, LeaseGuard
  <2>8. SettledAgreesWithCatalog'
    BY <2>1, <2>3 DEF Leasing, SettledAgreesWithCatalog, Graded
  <2>9. QED
    BY <2>5, <2>6, <2>7, <2>8 DEF Leasing
<1>5. CASE Commit(c)
  <2>1. /\ k.pc = "claimed" /\ UNCHANGED rows
        /\ \A j \in Id \ {i} : catalog'[j] = catalog[j]
        /\ ~EffectFence(c) => UNCHANGED catalog
        /\ EffectFence(c) => Agrees(catalog'[i], k.verdict, k.material)
    <3>1. catalog \in [Id -> Role]
      BY DEF Typing, TypeOK
    <3>2. k.verdict = "admitted" => k.verdict # "blocked"
      OBVIOUS
    <3>3. QED
      BY <1>2, <1>5, <3>1, <3>2 DEF Commit, Agrees, ledgerVars, effectVars
  <2>2. /\ \A d \in Consumer \ {c} : deliveries'[d] = deliveries[d]
        /\ deliveries'[c].pc = "committed" /\ deliveries'[c].id = i
        /\ deliveries'[c].snap = k.snap /\ deliveries'[c].verdict = k.verdict
        /\ deliveries'[c].material = k.material
        /\ deliveries'[c].ver = k.ver /\ deliveries'[c].baseline = k.baseline
    BY <1>2, <1>5 DEF Commit, Proceed, Delivery
  <2>3. EffectFence(c) => /\ rows[i].state = "processing" /\ rows[i].owner = c
                          /\ rows[i].material = k.material
    BY DEF EffectFence, HoldsLease, LeaseGuard
  <2>4. LeaseKeepsIdentity'
    BY <1>1, <2>1, <2>2 DEF Leasing, LeaseKeepsIdentity, Owns
  <2>5. LostSnapshotIsLeft'
    BY <1>3, <2>1, <2>2 DEF Leasing, LostSnapshotIsLeft, Left,
       NotYetWritten, World, Owns
  <2>6. CommittedEffectShows'
    <3> SUFFICES ASSUME NEW d \in Consumer, NEW j \in Id,
                        deliveries'[d].pc = "committed", deliveries'[d].id = j,
                        HoldsLease(rows[j], deliveries'[d], d),
                        rows[j].claimed, rows[j].omissions < 2
                 PROVE  Agrees(catalog'[j], deliveries'[d].verdict,
                               rows[j].material)
      BY <2>1 DEF CommittedEffectShows
    <3>1. CASE d = c
      <4>1. j = i /\ HoldsLease(rows[i], k, c)
        BY <2>2, <3>1 DEF HoldsLease, LeaseGuard
      <4>2. ~rows[i].closing
        BY <4>1 DEF Closing, ClosuresAreMissed
      <4>3. EffectFence(c)
        BY <4>1, <4>2 DEF EffectFence
      <4>4. QED
        BY <2>1, <2>2, <2>3, <3>1, <4>1, <4>3
    <3>2. CASE d # c
      <4>1. j = i => ~EffectFence(c)
        BY <2>3, <3>2 DEF HoldsLease, LeaseGuard
      <4>2. catalog'[j] = catalog[j]
        BY <2>1, <4>1
      <4>3. QED
        BY <2>2, <3>2, <4>2 DEF Leasing, CommittedEffectShows
    <3>3. QED
      BY <3>1, <3>2
  <2>7. SettledAgreesWithCatalog'
    BY <2>1, <2>3 DEF Leasing, SettledAgreesWithCatalog, Graded
  <2>8. QED
    BY <2>4, <2>5, <2>6, <2>7 DEF Leasing
<1>6. CASE Settle(c) /\ HoldsLease(rows[i], k, c) /\ rows[i].claimed
  <2>1. /\ \A j \in Id \ {i} : rows'[j] = rows[j]
        /\ rows'[i].state = "settled" /\ rows'[i].decision = k.verdict
        /\ rows'[i].material = rows[i].material
        /\ rows'[i].omissions = rows[i].omissions
    <3> DEFINE r == SettleRow(rows[i], k.verdict)
    <3>1. /\ r.state = "settled" /\ r.decision = k.verdict
          /\ r.material = rows[i].material /\ r.omissions = rows[i].omissions
      BY <1>2, SettleRowFields
    <3>2. SetRow(i, r)
      BY <1>6 DEF Settle
    <3> HIDE DEF r
    <3>3. QED
      BY <1>2, <3>1, <3>2 DEF SetRow
  <2>2. /\ \A d \in Consumer \ {c} : deliveries'[d] = deliveries[d]
        /\ deliveries'[c].pc = "idle" /\ UNCHANGED catalog
    BY <1>2, <1>6 DEF Settle, Forget, IdleDelivery, effectVars
  <2>3. rows[i].omissions < 2 => Agrees(catalog[i], k.verdict, rows[i].material)
    BY <1>2, <1>6 DEF Settle, Leasing, CommittedEffectShows
  <2>4. \A d \in Consumer, j \in Id : Owns(d, j)' => Owns(d, j) /\ j # i
    BY <2>1 DEF Owns
  <2>5. LeaseKeepsIdentity'
    BY <2>1, <2>2, <2>4 DEF Leasing, LeaseKeepsIdentity
  <2>6. LostSnapshotIsLeft'
    BY <1>3, <2>1, <2>2, <2>4 DEF Leasing, LostSnapshotIsLeft, Left,
       NotYetWritten, World
  <2>7. CommittedEffectShows'
    BY <2>1, <2>2 DEF Leasing, CommittedEffectShows, HoldsLease, LeaseGuard
  <2>8. SettledAgreesWithCatalog'
    BY <2>1, <2>2, <2>3 DEF Leasing, SettledAgreesWithCatalog, Graded
  <2>9. QED
    BY <2>5, <2>6, <2>7, <2>8 DEF Leasing
<1>7. CASE /\ ~Commit(c)
           /\ ~(Claim(c) /\ HoldsLease(rows[i], k, c) /\ rows[i].omissions < 2)
           /\ ~(Settle(c) /\ HoldsLease(rows[i], k, c) /\ rows[i].claimed)
  <2>1. UNCHANGED catalog
    BY <1>7 DEF Claim, Settle, Release, InfrastructureFailure, RowFailure,
       CrashDelivery, effectVars
  <2>2. Proceed(c, "release") \/ Forget(c)
    BY <1>7 DEF Claim, Settle, Release, InfrastructureFailure, RowFailure,
       CrashDelivery
  <2>3. \A j \in Id : Tame(j)
    <3>1. CASE UNCHANGED rows
      BY <3>1, TameUnwritten
    <3>2. CASE rows' # rows
      <4>1. k.attempts \in Nat /\ k.attempts + 1 \in Nat
        BY <1>2 DEF Delivery
      <4>2. PICK r : SetRow(i, r) /\
               \/ r = ReleaseLease(rows[i])
               \/ \E n \in Nat : \/ r = QuarantineRow(rows[i], n)
                                 \/ r = ScheduleRetry(rows[i], n)
        BY <1>7, <3>2, <4>1 DEF Claim, Settle, Release, RowFailure,
           InfrastructureFailure, CrashDelivery, ledgerVars
      <4>3. /\ r.state \in {"queued", "quarantined"} /\ r.claimed = FALSE
            /\ r.omissions = rows[i].omissions
            /\ r.snap = rows[i].snap /\ r.material = rows[i].material
        BY <1>2, <4>2 DEF ReleaseLease, QuarantineRow, ScheduleRetry, Requeue, Row
      <4>4. r \in Row
        BY <1>2, <4>2 DEF SetRow
      <4>5. QED
        BY <1>2, <4>2, <4>3, <4>4, TameWrite
    <3>3. QED
      BY <3>1, <3>2
  <2>4. QED
    BY <1>1, <1>3, <2>1, <2>2, <2>3, LeftStays, ProceedFades, LeasingTame
<1>8. QED
  BY <1>4, <1>5, <1>6, <1>7

(* Every step keeps the leases and what settled rows say of the catalog.   *)
LEMMA LeasingStep ==
    ASSUME Typing, Typing', Closing, Staging, Leasing, [Next]_vars,
           ~Revisit \/ ~SlowEffects
    PROVE  Leasing'
<1>1. CASE Discover
  BY <1>1, LeasingWorld, LeasingDiscovery DEF Discover
<1>2. CASE Dispatch
  BY <1>2, LeasingWorld, LeasingDispatch DEF Dispatch
<1>3. CASE Environment
  BY <1>3, LeasingWorld, LeasingDispatch, LeasingConsume DEF Environment
<1>4. CASE \E c \in Consumer : Consume(c)
  BY <1>4, LeasingDeliver, LeasingConsume DEF Consume
<1>5. CASE UNCHANGED vars
  BY <1>5, LeasingWorld
<1>6. QED
  BY <1>1, <1>2, <1>3, <1>4, <1>5 DEF Next

-----------------------------------------------------------------------------
(* Budget: what a failure may still spend.                                 *)

(* The budget of one row.                                                  *)
RowBudget(r) ==
    /\ r.state \in {"pending", "queued", "processing"} => r.attempts < MaxAttempts
    /\ r.state = "quarantined" => r.attempts = MaxAttempts

(* The empty ledger has spent nothing.                                     *)
LEMMA BudgetInit == Init => Budget
BY DEF Init, Budget, AttemptBudget, DeliveriesHaveBudget, UnknownRow, IdleDelivery

(* A write that keeps the row's budget, under deliveries that keep theirs. *)
LEMMA BudgetWrite ==
    ASSUME Typing, Budget,
           \/ UNCHANGED rows
           \/ \E i \in Id : \E r : SetRow(i, r) /\ RowBudget(r),
           \A c \in Consumer : deliveries'[c].pc # "idle" =>
               \/ /\ deliveries[c].pc # "idle"
                  /\ deliveries'[c].attempts = deliveries[c].attempts
               \/ deliveries'[c].attempts < MaxAttempts
    PROVE  Budget'
BY DEF Typing, TypeOK, Budget, AttemptBudget, DeliveriesHaveBudget, SetRow,
       RowBudget

(* Discovery, the dispatcher and the operator keep the budget of a row or  *)
(* give it a fresh one.                                                    *)
LEMMA BudgetRows ==
    ASSUME Typing, Budget, NEW i \in Id,
           \/ RetryComesDue(i) \/ LeaseExpires(i) \/ ReclaimLease(i)
           \/ BootstrapRow(i) \/ MigratePolicy(i) \/ QueueRow(i) \/ ReplayRow(i)
           \/ DiscoverRow(i) \/ MissRow(i) \/ ReopenActionable(i)
           \/ AcknowledgeOmission(i)
    PROVE  Budget'
<1>1. /\ rows[i] \in Row /\ disc \in Discovery /\ RowBudget(rows[i])
      /\ MaxAttempts \in Nat \ {0} /\ rows[i].attempts \in Nat
  BY MaxAttemptsIsPositive DEF Typing, TypeOK, Budget, AttemptBudget,
     RowBudget, Row
<1>2. UNCHANGED deliveries
  BY DEF RetryComesDue, LeaseExpires, ReclaimLease, BootstrapRow,
     MigratePolicy, QueueRow, ReplayRow, DiscoverRow, MissRow,
     ReopenActionable, AcknowledgeOmission
<1>3. SUFFICES UNCHANGED rows \/ \E r : SetRow(i, r) /\ RowBudget(r)
  BY <1>2, BudgetWrite
<1>4. ASSUME NEW v, NEW b PROVE RowBudget(ReopenRow(rows[i], v, b))
  <2>1. /\ ReopenRow(rows[i], v, b).state = "queued"
        /\ ReopenRow(rows[i], v, b).attempts = 0
    BY <1>1 DEF ReopenRow, Requeue, Row
  <2>2. QED
    BY <1>1, <2>1 DEF RowBudget
<1>5. CASE RetryComesDue(i)
  <2> DEFINE r == [rows[i] EXCEPT !.waiting = FALSE]
  <2>1. r.state = rows[i].state /\ r.attempts = rows[i].attempts
    BY <1>1 DEF Row
  <2>2. QED
    BY <1>1, <1>5, <2>1 DEF RetryComesDue, RowBudget
<1>6. CASE LeaseExpires(i)
  <2> DEFINE r == [rows[i] EXCEPT !.expired = TRUE]
  <2>1. r.state = rows[i].state /\ r.attempts = rows[i].attempts
    BY <1>1 DEF Row
  <2>2. QED
    BY <1>1, <1>6, <2>1 DEF LeaseExpires, RowBudget
<1>7. CASE ReclaimLease(i) \/ QueueRow(i)
  <2> DEFINE r == Requeue(rows[i])
  <2>1. r.state = "queued" /\ r.attempts = rows[i].attempts
    BY <1>1 DEF Requeue, Row
  <2>2. SetRow(i, r) /\ rows[i].state \in {"pending", "queued", "processing"}
    BY <1>7 DEF ReclaimLease, QueueRow, ReleaseLease, MarkQueued, Dispatchable
  <2>3. QED
    BY <1>1, <2>1, <2>2 DEF RowBudget
<1>8. CASE BootstrapRow(i)
  <2> DEFINE r == ReopenUnprocessed(rows[i])
  <2>1. r.state = "queued" /\ r.attempts = rows[i].attempts
    BY <1>1 DEF ReopenUnprocessed, Requeue, Row
  <2>2. QED
    BY <1>1, <1>8, <2>1 DEF BootstrapRow, RowBudget
<1>9. CASE MigratePolicy(i) \/ ReplayRow(i) \/ ReopenActionable(i)
  BY <1>4, <1>9 DEF MigratePolicy, ReplayRow, ReopenActionable
<1>10. CASE DiscoverRow(i)
  <2> DEFINE b == ~seeded \/ i \in disc.silent
             r == PutRow(rows[i], disc.snap, disc.snap.board[i], b)
  <2>1. /\ r.state \in LaneOwned =>
             r.state = rows[i].state /\ r.attempts = rows[i].attempts
        /\ r.state \in LaneOwned \cup {"settled"}
    <3>1. b \in BOOLEAN
      OBVIOUS
    <3> HIDE DEF b
    <3>2. QED
      BY <1>1, <3>1, PutRowFields
  <2>2. SetRow(i, r)
    BY <1>10 DEF DiscoverRow
  <2> HIDE DEF r
  <2>3. QED
    BY <1>1, <2>1, <2>2 DEF RowBudget, LaneOwned
<1>11. CASE MissRow(i)
  <2>1. CASE i \in late
    BY <1>11, <2>1 DEF MissRow
  <2>2. CASE i \notin late
    <3> DEFINE r == ApplyOmission(rows[i], disc.omit[i])
    <3>1. disc.omit[i] \in 1..2
      BY <1>1, <1>11 DEF MissRow, Discovery
    <3>2. r.state \in {rows[i].state, "absent", "settled"}
          /\ r.attempts = rows[i].attempts
      BY <1>1, <3>1, ApplyOmissionFields
    <3>3. SetRow(i, r)
      BY <1>11, <2>2 DEF MissRow
    <3> HIDE DEF r
    <3>4. QED
      BY <1>1, <3>2, <3>3 DEF RowBudget
  <2>3. QED
    BY <2>1, <2>2
<1>12. CASE AcknowledgeOmission(i)
  <2> DEFINE r == AcknowledgeClosure(rows[i])
  <2>1. r.state = "absent"
    BY <1>1 DEF AcknowledgeClosure, Row
  <2>2. UNCHANGED rows \/ SetRow(i, r)
    BY <1>12 DEF AcknowledgeOmission
  <2>3. QED
    BY <2>1, <2>2 DEF RowBudget
<1>13. QED
  BY <1>5, <1>6, <1>7, <1>8, <1>9, <1>10, <1>11, <1>12

(* A delivery leases only rows with an attempt left.                       *)
LEMMA BudgetDeliver ==
    ASSUME Typing, Budget, NEW c \in Consumer, NEW i \in Id, Deliver(c, i)
    PROVE  Budget'
<1>1. /\ rows[i] \in Row /\ deliveries \in [Consumer -> Delivery]
      /\ rows[i].attempts < MaxAttempts
  BY DEF Deliver, Typing, TypeOK, Budget, AttemptBudget
<1>2. SetRow(i, AcquireLease(rows[i], c)) /\ RowBudget(AcquireLease(rows[i], c))
  BY <1>1 DEF Deliver, AcquireLease, Row, RowBudget
<1>3. /\ \A d \in Consumer \ {c} : deliveries'[d] = deliveries[d]
      /\ deliveries'[c].attempts = rows[i].attempts
  BY <1>1 DEF Deliver
<1>4. QED
  BY <1>1, <1>2, <1>3, BudgetWrite

(* A failure spends one attempt and quarantines with the last.             *)
LEMMA BudgetConsume ==
    ASSUME Typing, Budget, NEW c \in Consumer,
           \/ Claim(c) \/ Commit(c) \/ Settle(c) \/ Release(c)
           \/ InfrastructureFailure(c) \/ RowFailure(c) \/ CrashDelivery(c)
    PROVE  Budget'
<1> DEFINE k == deliveries[c]
           i == k.id
<1>1. k.pc # "idle"
  BY DEF Claim, Commit, Settle, Release, InfrastructureFailure, RowFailure,
     CrashDelivery, MayThrow
<1>2. /\ i \in Id /\ rows[i] \in Row /\ RowBudget(rows[i])
      /\ deliveries \in [Consumer -> Delivery] /\ k \in Delivery
      /\ k.attempts < MaxAttempts /\ k.attempts \in Nat
      /\ MaxAttempts \in Nat \ {0}
  BY <1>1, MaxAttemptsIsPositive DEF Typing, TypeOK, DeliveriesKnowTheirRow,
     Budget, AttemptBudget, DeliveriesHaveBudget, RowBudget, Delivery
<1> DEFINE Spent == \A d \in Consumer : deliveries'[d].pc # "idle" =>
                      /\ deliveries[d].pc # "idle"
                      /\ deliveries'[d].attempts = deliveries[d].attempts
<1>3. Spent
  <2>1. CASE \E pc : Proceed(c, pc)
    BY <1>1, <1>2, <2>1 DEF Proceed, Delivery
  <2>2. CASE Forget(c)
    BY <1>2, <2>2 DEF Forget, IdleDelivery
  <2>3. ASSUME NEW v, deliveries' = [deliveries EXCEPT ![c].pc = "claimed",
                                                      ![c].verdict = v]
        PROVE  Spent
    BY <1>1, <1>2, <2>3 DEF Delivery
  <2>4. QED
    BY <2>1, <2>2, <2>3 DEF Claim, Commit, Settle, Release,
       InfrastructureFailure, RowFailure, CrashDelivery
<1>4. UNCHANGED rows \/ \E r : SetRow(i, r) /\ RowBudget(r)
  <2>1. CASE Claim(c)
    <3>1. /\ ClaimEffect(rows[i]).state = rows[i].state
          /\ ClaimEffect(rows[i]).attempts = rows[i].attempts
      BY <1>2 DEF ClaimEffect, Row
    <3>2. QED
      BY <1>2, <2>1, <3>1 DEF Claim, RowBudget
  <2>2. CASE Settle(c)
    <3>1. SettleRow(rows[i], k.verdict).state = "settled"
      BY <1>2, SettleRowFields
    <3>2. QED
      BY <2>2, <3>1 DEF Settle, RowBudget
  <2>3. CASE Release(c)
    <3>1. /\ ReleaseLease(rows[i]).state = "queued"
          /\ ReleaseLease(rows[i]).attempts = rows[i].attempts
      BY <1>2 DEF ReleaseLease, Requeue, Row
    <3>2. QED
      BY <1>2, <2>3, <3>1 DEF Release, LeaseGuard, RowBudget
  <2>4. CASE RowFailure(c)
    <3>1. CASE UNCHANGED rows
      BY <3>1
    <3>2. CASE rows' # rows
      <4>1. PICK deferred \in BOOLEAN :
              LET attempts == IF deferred THEN k.attempts ELSE k.attempts + 1
              IN  SetRow(i, IF ~deferred /\ attempts >= MaxAttempts
                            THEN QuarantineRow(rows[i], attempts)
                            ELSE ScheduleRetry(rows[i], attempts))
        BY <2>4, <3>2 DEF RowFailure
      <4>2. ASSUME NEW n \in Nat
            PROVE  /\ QuarantineRow(rows[i], n).state = "quarantined"
                   /\ QuarantineRow(rows[i], n).attempts = n
                   /\ ScheduleRetry(rows[i], n).state = "queued"
                   /\ ScheduleRetry(rows[i], n).attempts = n
        BY <1>2 DEF QuarantineRow, ScheduleRetry, Requeue, Row
      <4>3. CASE deferred
        BY <1>2, <4>1, <4>2, <4>3 DEF RowBudget
      <4>4. CASE ~deferred
        <5>1. k.attempts + 1 \in Nat
          BY <1>2
        <5>2. CASE k.attempts + 1 >= MaxAttempts
          BY <1>2, <4>1, <4>2, <4>4, <5>1, <5>2 DEF RowBudget
        <5>3. CASE ~(k.attempts + 1 >= MaxAttempts)
          BY <1>2, <4>1, <4>2, <4>4, <5>1, <5>3 DEF RowBudget
        <5>4. QED
          BY <5>2, <5>3
      <4>5. QED
        BY <4>3, <4>4
    <3>3. QED
      BY <3>1, <3>2
  <2>5. CASE Commit(c) \/ InfrastructureFailure(c) \/ CrashDelivery(c)
    BY <2>5 DEF Commit, InfrastructureFailure, CrashDelivery, ledgerVars
  <2>6. QED
    BY <2>1, <2>2, <2>3, <2>4, <2>5
<1>5. QED
  BY <1>2, <1>3, <1>4, BudgetWrite

(* Every step keeps the budget.                                            *)
LEMMA BudgetStep == Typing /\ Budget /\ [Next]_vars => Budget'
<1> SUFFICES ASSUME Typing, Budget, [Next]_vars PROVE Budget'
  OBVIOUS
<1>1. ASSUME \/ BoardChanges \/ PolicyChanges \/ CrashPass
             \/ StartPass \/ ReadLedger \/ ActivateSnapshot \/ ListClosures
             \/ FinishPass \/ ThrowPass \/ TerminalizeReplaced
             \/ \E i \in Id : CloseOmission(i) \/ ListStalePolicy(i)
             \/ UNCHANGED vars
      PROVE  Budget'
  <2>1. UNCHANGED <<rows, deliveries>>
    BY <1>1 DEF BoardChanges, PolicyChanges, CrashPass, StartPass, ReadLedger,
       ActivateSnapshot, ListClosures, FinishPass, ThrowPass,
       TerminalizeReplaced, CloseOmission, ListStalePolicy, vars, ledgerVars
  <2>2. QED
    BY <2>1, BudgetWrite
<1>2. CASE Discover
  BY <1>1, <1>2, BudgetRows DEF Discover
<1>3. CASE Dispatch
  BY <1>1, <1>3, BudgetRows DEF Dispatch
<1>4. CASE Environment
  BY <1>1, <1>4, BudgetRows, BudgetConsume DEF Environment
<1>5. CASE \E c \in Consumer : Consume(c)
  BY <1>5, BudgetDeliver, BudgetConsume DEF Consume
<1>6. QED
  BY <1>1, <1>2, <1>3, <1>4, <1>5 DEF Next

-----------------------------------------------------------------------------
(* Silence.                                                                *)
Silent(i) == rows[i].baseline => rows'[i].baseline /\ i \notin alerts' \ alerts

(* A write that keeps the row's baseline and no alert is silent.           *)
LEMMA SilenceWrite ==
    ASSUME Typing, UNCHANGED alerts,
           \/ UNCHANGED rows
           \/ \E i \in Id : \E r : SetRow(i, r) /\ (rows[i].baseline => r.baseline)
    PROVE  \A j \in Id : Silent(j)
BY DEF Typing, TypeOK, SetRow, Silent

(* Discovery adds baselines, a migration sets one, the rest keeps it.      *)
LEMMA SilenceRows ==
    ASSUME Typing, NEW i \in Id,
           \/ RetryComesDue(i) \/ LeaseExpires(i) \/ ReclaimLease(i)
           \/ BootstrapRow(i) \/ MigratePolicy(i) \/ QueueRow(i) \/ ReplayRow(i)
           \/ DiscoverRow(i) \/ MissRow(i) \/ ReopenActionable(i)
           \/ AcknowledgeOmission(i) \/ \E c \in Consumer : Deliver(c, i)
    PROVE  \A j \in Id : Silent(j)
<1>1. rows[i] \in Row /\ disc \in Discovery
  BY DEF Typing, TypeOK
<1>2. UNCHANGED alerts
  BY DEF RetryComesDue, LeaseExpires, ReclaimLease, BootstrapRow,
     MigratePolicy, QueueRow, ReplayRow, DiscoverRow, MissRow,
     ReopenActionable, AcknowledgeOmission, Deliver, effectVars
<1>3. SUFFICES \/ UNCHANGED rows
               \/ \E r : SetRow(i, r) /\ (rows[i].baseline => r.baseline)
  BY <1>2, SilenceWrite
<1>4. ASSUME NEW v, NEW b PROVE ReopenRow(rows[i], v, b).baseline = b
  BY <1>1 DEF ReopenRow, Requeue, Row
<1>5. CASE \/ ReclaimLease(i) \/ QueueRow(i) \/ BootstrapRow(i)
           \/ AcknowledgeOmission(i) \/ \E c \in Consumer : Deliver(c, i)
  <2>1. /\ Requeue(rows[i]).baseline = rows[i].baseline
        /\ ReopenUnprocessed(rows[i]).baseline = rows[i].baseline
        /\ AcknowledgeClosure(rows[i]).baseline = rows[i].baseline
        /\ \A c : AcquireLease(rows[i], c).baseline = rows[i].baseline
    BY <1>1 DEF Requeue, ReopenUnprocessed, AcknowledgeClosure, AcquireLease, Row
  <2>2. QED
    BY <1>5, <2>1 DEF ReclaimLease, QueueRow, BootstrapRow,
       AcknowledgeOmission, Deliver, ReleaseLease, MarkQueued
<1>6. CASE MigratePolicy(i) \/ ReplayRow(i) \/ ReopenActionable(i)
  <2>1. CASE MigratePolicy(i)
    <3>1. UNCHANGED rows \/ SetRow(i, ReopenRow(rows[i], migration.ver, TRUE))
      BY <2>1 DEF MigratePolicy
    <3>2. ReopenRow(rows[i], migration.ver, TRUE).baseline
      BY <1>4
    <3>3. QED
      BY <3>1, <3>2
  <2>2. CASE ReplayRow(i) \/ ReopenActionable(i)
    <3>1. UNCHANGED rows \/ \E v : SetRow(i, ReopenRow(rows[i], v, rows[i].baseline))
      BY <2>2 DEF ReplayRow, ReopenActionable
    <3>2. \A v : ReopenRow(rows[i], v, rows[i].baseline).baseline = rows[i].baseline
      BY <1>4
    <3>3. QED
      BY <3>1, <3>2
  <2>3. QED
    BY <1>6, <2>1, <2>2
<1>7. CASE RetryComesDue(i)
  <2>1. [rows[i] EXCEPT !.waiting = FALSE].baseline = rows[i].baseline
    BY <1>1 DEF Row
  <2>2. QED
    BY <1>7, <2>1 DEF RetryComesDue
<1>8. CASE LeaseExpires(i)
  <2>1. [rows[i] EXCEPT !.expired = TRUE].baseline = rows[i].baseline
    BY <1>1 DEF Row
  <2>2. QED
    BY <1>8, <2>1 DEF LeaseExpires
<1>9. CASE DiscoverRow(i)
  <2> DEFINE b == ~seeded \/ i \in disc.silent
             r == PutRow(rows[i], disc.snap, disc.snap.board[i], b)
  <2>1. rows[i].baseline => r.baseline
    <3>1. b \in BOOLEAN
      OBVIOUS
    <3> HIDE DEF b
    <3>2. QED
      BY <1>1, <3>1, PutRowFields
  <2>2. QED
    BY <1>9, <2>1 DEF DiscoverRow
<1>10. CASE MissRow(i)
  <2>1. ApplyOmission(rows[i], disc.omit[i]).baseline = rows[i].baseline
    <3>1. disc.omit[i] \in 1..2
      BY <1>1, <1>10 DEF MissRow, Discovery
    <3>2. QED
      BY <1>1, <3>1, ApplyOmissionFields
  <2>2. QED
    BY <1>10, <2>1 DEF MissRow
<1>11. QED
  BY <1>5, <1>6, <1>7, <1>8, <1>9, <1>10

(* A delivery keeps the baseline, and its effect fence asks for the        *)
(* baseline it leased: it alerts only for a row that is none.              *)
LEMMA SilenceConsume ==
    ASSUME Typing, NEW c \in Consumer,
           \/ Claim(c) \/ Commit(c) \/ Settle(c) \/ Release(c)
           \/ InfrastructureFailure(c) \/ RowFailure(c) \/ CrashDelivery(c)
    PROVE  \A j \in Id : Silent(j)
<1> DEFINE k == deliveries[c]
           i == k.id
<1>1. k.pc # "idle"
  BY DEF Claim, Commit, Settle, Release, InfrastructureFailure, RowFailure,
     CrashDelivery, MayThrow
<1>2. /\ i \in Id /\ rows[i] \in Row
  BY <1>1 DEF Typing, TypeOK, DeliveriesKnowTheirRow
<1>3. CASE Commit(c)
  <2>1. \A j \in alerts' \ alerts : j = i /\ HoldsLease(rows[i], k, c) /\ ~k.baseline
    BY <1>3 DEF Commit, EffectFence, Notify, effectVars
  <2>2. UNCHANGED rows
    BY <1>3 DEF Commit, ledgerVars
  <2>3. QED
    BY <2>1, <2>2 DEF HoldsLease, Silent
<1>4. CASE ~Commit(c)
  <2>1. UNCHANGED alerts
    BY <1>4 DEF Claim, Settle, Release, InfrastructureFailure, RowFailure,
       CrashDelivery, effectVars
  <2>2. CASE UNCHANGED rows
    BY <2>1, <2>2, SilenceWrite
  <2>3. CASE rows' # rows
    <3>1. PICK r : SetRow(i, r) /\
             \/ r = ClaimEffect(rows[i]) \/ r = SettleRow(rows[i], k.verdict)
             \/ r = ReleaseLease(rows[i])
             \/ \E n : r = QuarantineRow(rows[i], n) \/ r = ScheduleRetry(rows[i], n)
      BY <1>4, <2>3 DEF Claim, Settle, Release, RowFailure,
         InfrastructureFailure, CrashDelivery, ledgerVars
    <3>2. r.baseline = rows[i].baseline
      <4>1. SettleRow(rows[i], k.verdict).baseline = rows[i].baseline
        BY <1>2, SettleRowFields
      <4>2. QED
        BY <1>2, <3>1, <4>1 DEF ClaimEffect, ReleaseLease, QuarantineRow,
           ScheduleRetry, Requeue, Row
    <3>3. QED
      BY <1>2, <2>1, <3>1, <3>2, SilenceWrite
  <2>4. QED
    BY <2>2, <2>3
<1>5. QED
  BY <1>3, <1>4

(* Every step of the lane is silent about baselines.                       *)
LEMMA SilenceStep ==
    ASSUME Typing, [Next]_vars
    PROVE  \A i \in Id : Silent(i)
<1>1. ASSUME \/ BoardChanges \/ PolicyChanges \/ CrashPass
             \/ StartPass \/ ReadLedger \/ ActivateSnapshot \/ ListClosures
             \/ FinishPass \/ ThrowPass \/ TerminalizeReplaced
             \/ \E i \in Id : CloseOmission(i) \/ ListStalePolicy(i)
             \/ UNCHANGED vars
      PROVE  \A i \in Id : Silent(i)
  <2>1. UNCHANGED <<rows, alerts>>
    BY <1>1 DEF BoardChanges, PolicyChanges, CrashPass, StartPass, ReadLedger,
       ActivateSnapshot, ListClosures, FinishPass, ThrowPass,
       TerminalizeReplaced, CloseOmission, ListStalePolicy, vars, ledgerVars,
       effectVars
  <2>2. QED
    BY <2>1, SilenceWrite
<1>2. CASE Discover
  BY <1>1, <1>2, SilenceRows DEF Discover
<1>3. CASE Dispatch
  BY <1>1, <1>3, SilenceRows DEF Dispatch
<1>4. CASE Environment
  BY <1>1, <1>4, SilenceRows, SilenceConsume DEF Environment
<1>5. CASE \E c \in Consumer : Consume(c)
  BY <1>5, SilenceRows, SilenceConsume DEF Consume
<1>6. QED
  BY <1>1, <1>2, <1>3, <1>4, <1>5 DEF Next

-----------------------------------------------------------------------------
(* What LedgerMatchesBoard rests on where boards never return: the rows a   *)
(* pass has written match its board, the ones it still has to miss are not  *)
(* on it, and an active snapshot of the board of today is what the ledger   *)
(* holds, so that a pass may go on from it without writing.                *)
Matches(i, b) == rows[i].material = b[i] /\ rows[i].omissions = 0
WrittenRowsMatch ==
    disc.pc = "write" =>
        \A i \in DOMAIN disc.snap.board :
            disc.omit[i] = 0 /\ (i \in disc.todo \/ Matches(i, disc.snap.board))
ActiveWorldMatches ==
    snaps[World] = "active" => \A i \in DOMAIN board : Matches(i, board)
Listing == LedgerMatchesBoard /\ WrittenRowsMatch /\ ActiveWorldMatches

(* Only the upsert and the omission change what a row is matched by.       *)
KeepsListing(r, s) == s.material = r.material /\ s.omissions = r.omissions
LEMMA StatementsKeepListing ==
    ASSUME NEW r \in Row
    PROVE  /\ \A c : KeepsListing(r, AcquireLease(r, c))
           /\ KeepsListing(r, MarkQueued(r)) /\ KeepsListing(r, ReleaseLease(r))
           /\ KeepsListing(r, ClaimEffect(r))
           /\ KeepsListing(r, AcknowledgeClosure(r))
           /\ KeepsListing(r, ReopenUnprocessed(r))
           /\ \A v, b : KeepsListing(r, ReopenRow(r, v, b))
           /\ \A v : KeepsListing(r, SettleRow(r, v))
           /\ \A n : /\ KeepsListing(r, ScheduleRetry(r, n))
                     /\ KeepsListing(r, QuarantineRow(r, n))
           /\ KeepsListing(r, [r EXCEPT !.waiting = FALSE])
           /\ KeepsListing(r, [r EXCEPT !.expired = TRUE])
BY DEF KeepsListing, AcquireLease, MarkQueued, ReleaseLease, ClaimEffect,
   AcknowledgeClosure, ReopenUnprocessed, ReopenRow, SettleRow, ScheduleRetry,
   QuarantineRow, Requeue, Row

RowsKeepListing == \A i \in Id : KeepsListing(rows[i], rows'[i])
LEMMA RowKeepsListing ==
    ASSUME rows \in [Id -> Row], NEW i \in Id, NEW s, SetRow(i, s),
           KeepsListing(rows[i], s)
    PROVE  RowsKeepListing
BY DEF SetRow, RowsKeepListing, KeepsListing

(* A step that keeps every row's listing and the pass keeps Listing, if the *)
(* board of today has no snapshot or is the one it was.                    *)
LEMMA ListingKept ==
    ASSUME Typing, Listing, RowsKeepListing,
           \/ UNCHANGED disc
           \/ disc'.pc \in {"idle", "fetch"}
           \/ /\ disc.pc \in {"reopen", "close", "ack"}
              /\ disc'.pc \in {"reopen", "close", "ack"}
              /\ disc'.snap = disc.snap,
           \/ snaps'[World'] # "active"
           \/ World' = World /\ (snaps'[World] = "active" => snaps[World] = "active")
    PROVE  Listing'
<1>1. /\ disc \in Discovery
      /\ disc.pc \notin {"idle", "fetch"} => disc.snap \in Snapshot
      /\ board \in Board
  BY DEF Typing, TypeOK, PassKnowsItsSnapshot
<1>2. /\ disc.pc \notin {"idle", "fetch"} => DOMAIN disc.snap.board \subseteq Id
      /\ DOMAIN board \subseteq Id
  BY <1>1, SnapshotType, BoardType
<1>3. LedgerMatchesBoard'
  BY <1>1, <1>2 DEF Listing, LedgerMatchesBoard, RowsKeepListing, KeepsListing,
     Discovery, DiscoveryPc
<1>4. WrittenRowsMatch'
  BY <1>1, <1>2 DEF Listing, WrittenRowsMatch, RowsKeepListing, KeepsListing,
     Matches
<1>5. ActiveWorldMatches'
  <2>1. World' = World => board' = board
    BY DEF World
  <2>2. QED
    BY <1>2, <2>1 DEF Listing, ActiveWorldMatches, RowsKeepListing, KeepsListing,
       Matches
<1>6. QED
  BY <1>3, <1>4, <1>5 DEF Listing

(* Every step of the pass but its writes and its activation.               *)
LEMMA ListingOfPass ==
    ASSUME Typing, Closing, Listing, [Next]_vars, Discover,
           ~ReadLedger, ~ActivateSnapshot,
           \A i \in Id : ~DiscoverRow(i) /\ ~MissRow(i)
    PROVE  Listing'
<1>1. rows \in [Id -> Row] /\ disc \in Discovery
  BY DEF Typing, TypeOK
<1>2. ASSUME StartPass \/ ListClosures \/ FinishPass \/ ThrowPass
      PROVE  Listing'
  <2>1. RowsKeepListing /\ World' = World /\ UNCHANGED snaps
    BY <1>2 DEF StartPass, ListClosures, FinishPass, ThrowPass, ledgerVars,
       worldVars, RowsKeepListing, KeepsListing, World
  <2>2. CASE ListClosures
    BY <1>1, <2>1, <2>2, ListingKept DEF ListClosures, Discovery
  <2>3. CASE StartPass \/ FinishPass \/ ThrowPass
    <3>1. /\ disc'.pc \in {"idle", "fetch"}
      BY <2>3 DEF StartPass, FinishPass, ThrowPass, IdleDiscovery
    <3>2. QED
      BY <3>1, <2>1, ListingKept
  <2>4. QED
    BY <1>2, <2>2, <2>3
<1>3. ASSUME NEW i \in Id, ReopenActionable(i) PROVE Listing'
  <2>1. RowsKeepListing /\ World' = World /\ UNCHANGED snaps
    BY <1>1, <1>3, StatementsKeepListing DEF ReopenActionable, SetRow, worldVars,
       RowsKeepListing, KeepsListing, World
  <2>2. QED
    BY <1>1, <1>3, <2>1, ListingKept DEF ReopenActionable, Discovery
<1>4. ASSUME NEW i \in Id, AcknowledgeOmission(i) \/ CloseOmission(i)
      PROVE  Listing'
  <2>1. RowsKeepListing /\ World' = World /\ UNCHANGED snaps
    BY <1>1, <1>4, StatementsKeepListing DEF AcknowledgeOmission, CloseOmission,
       SetRow, worldVars, ledgerVars, RowsKeepListing, KeepsListing, World
  <2>2. QED
    BY <1>1, <1>4, <2>1, ListingKept
       DEF AcknowledgeOmission, CloseOmission, Discovery
<1>5. QED
  BY <1>2, <1>3, <1>4 DEF Discover

(* The pass reads a board that it will write, or has in the ledger.         *)
LEMMA ListingOfReadLedger ==
    ASSUME Typing, Listing, ReadLedger
    PROVE  Listing'
<1> DEFINE snap == [board |-> board, ver |-> policy]
<1>1. board \in Board /\ DOMAIN board \subseteq Id /\ snap = World
      /\ World' = World /\ UNCHANGED rows /\ snap.board = board
  BY BoardType DEF Typing, TypeOK, ReadLedger, worldVars, World
<1>2. snaps'[World] = "active" => snaps[World] = "active"
  BY DEF ReadLedger, Typing, TypeOK, World
<1>3. ActiveWorldMatches'
  BY <1>1, <1>2 DEF Listing, ActiveWorldMatches, Matches, World
<1>4. CASE snaps[snap] = "active" /\ disc'.pc = "reopen" /\ disc'.snap = snap
  BY <1>1, <1>3, <1>4 DEF Listing, ActiveWorldMatches, LedgerMatchesBoard,
     WrittenRowsMatch, Matches
<1>5. CASE /\ disc'.pc = "write" /\ disc'.snap = snap
           /\ disc'.todo = DOMAIN board /\ disc'.omit = Omissions(rows, board)
  BY <1>1, <1>3, <1>5 DEF Listing, LedgerMatchesBoard, WrittenRowsMatch,
     Omissions, Omission
<1>6. \/ /\ snaps[snap] = "active"
         /\ disc'.pc = "reopen" /\ disc'.snap = snap
      \/ /\ disc'.pc = "write" /\ disc'.snap = snap
         /\ disc'.todo = DOMAIN board /\ disc'.omit = Omissions(rows, board)
  <2>1. CASE \E re : disc' = [IdleDiscovery EXCEPT !.pc = "reopen",
                                !.snap = snap, !.reopen = re]
    <3>1. PICK re : disc' = [IdleDiscovery EXCEPT !.pc = "reopen",
                                !.snap = snap, !.reopen = re]
      BY <2>1
    <3>2. disc'.pc = "reopen" /\ disc'.snap = snap
      BY <3>1 DEF IdleDiscovery
    <3>3. snaps[snap] = "active"
      BY <3>2 DEF ReadLedger
    <3>4. QED
      BY <3>2, <3>3
  <2>2. CASE disc' = [IdleDiscovery EXCEPT !.pc = "reopen", !.snap = snap]
    <3>1. disc'.pc = "reopen" /\ disc'.snap = snap
      BY <2>2 DEF IdleDiscovery
    <3>2. snaps[snap] = "active"
      BY <3>1 DEF ReadLedger
    <3>3. QED
      BY <3>1, <3>2
  <2>3. CASE \E re, si : disc' = [pc |-> "write", snap |-> snap,
                todo |-> DOMAIN board, omit |-> Omissions(rows, board),
                reopen |-> re, silent |-> si]
    BY <2>3
  <2>4. QED
    BY <2>1, <2>2, <2>3 DEF ReadLedger
<1>7. QED
  BY <1>4, <1>5, <1>6

(* Its upsert makes a row match, and leaves a board of today that is active *)
(* alone: a pass on an older board writes only while that of today is new.  *)
LEMMA ListingOfWrites ==
    ASSUME ~Revisit, Typing, Closing, Staging, Listing, NEW i \in Id,
           DiscoverRow(i) \/ MissRow(i)
    PROVE  Listing'
<1>1. /\ rows \in [Id -> Row] /\ disc \in Discovery /\ disc.snap \in Snapshot
      /\ disc.pc = "write" /\ disc'.pc = "write" /\ disc'.snap = disc.snap
      /\ World' = World /\ UNCHANGED snaps /\ board' = board
      /\ DOMAIN disc.snap.board \subseteq Id
  BY SnapshotType DEF Typing, TypeOK, PassKnowsItsSnapshot, DiscoverRow, MissRow,
     worldVars, World, Discovery
<1>2. disc.snap = World => disc.snap.board = board
  BY DEF World
<1>3. snaps[World] = "active" => disc.snap = World
  BY <1>1 DEF Staging, WorldIsNew
<1>4. LedgerMatchesBoard'
  BY <1>1 DEF LedgerMatchesBoard
<1>5. CASE DiscoverRow(i)
  <2>1. /\ rows'[i].material = disc.snap.board[i] /\ rows'[i].omissions = 0
        /\ \A j \in Id \ {i} : rows'[j] = rows[j]
        /\ disc'.todo = disc.todo \ {i} /\ disc'.omit = disc.omit
    BY <1>1, <1>5 DEF DiscoverRow, SetRow, PutRow, Discovery
  <2>2. WrittenRowsMatch'
    BY <1>1, <2>1 DEF Listing, WrittenRowsMatch, Matches
  <2>3. ActiveWorldMatches'
    BY <1>1, <1>2, <1>3, <2>1 DEF Listing, ActiveWorldMatches, Matches
  <2>4. QED
    BY <1>4, <2>2, <2>3 DEF Listing
<1>6. CASE MissRow(i)
  <2>1. /\ i \notin DOMAIN disc.snap.board
        /\ \A j \in Id \ {i} : rows'[j] = rows[j]
        /\ disc'.todo = disc.todo
        /\ \A j \in Id \ {i} : disc'.omit[j] = disc.omit[j]
    BY <1>1, <1>6 DEF MissRow, SetRow, Discovery, Listing, WrittenRowsMatch
  <2>2. WrittenRowsMatch'
    BY <1>1, <2>1 DEF Listing, WrittenRowsMatch, Matches
  <2>3. ActiveWorldMatches'
    BY <1>1, <1>2, <1>3, <2>1 DEF Listing, ActiveWorldMatches, Matches
  <2>4. QED
    BY <1>4, <2>2, <2>3 DEF Listing
<1>7. QED
  BY <1>5, <1>6

(* Activation ends the writes: by then every row of the board matches.      *)
LEMMA ListingOfActivation ==
    ASSUME ~Revisit, Typing, Staging, Listing, ActivateSnapshot
    PROVE  Listing'
<1>1. /\ disc \in Discovery /\ disc.snap \in Snapshot /\ disc.pc = "write"
      /\ disc.todo = {} /\ disc'.pc = "reopen" /\ disc'.snap = disc.snap
      /\ World' = World /\ UNCHANGED rows /\ board' = board
      /\ World \in Snapshot
  BY DEF Typing, TypeOK, PassKnowsItsSnapshot, ActivateSnapshot, worldVars,
     World, Discovery, Snapshot
<1>2. \A i \in DOMAIN disc.snap.board : Matches(i, disc.snap.board)
  BY <1>1 DEF Listing, WrittenRowsMatch
<1>3. LedgerMatchesBoard'
  BY <1>1, <1>2 DEF LedgerMatchesBoard, Matches
<1>4. WrittenRowsMatch'
  BY <1>1 DEF WrittenRowsMatch
<1>5. ActiveWorldMatches'
  <2>1. CASE World = disc.snap
    <3>1. disc.snap.board = board
      BY <2>1 DEF World
    <3>2. QED
      BY <1>1, <1>2, <3>1 DEF ActiveWorldMatches, Matches
  <2>2. CASE World # disc.snap
    <3>1. snaps[World] = "none"
      BY <1>1, <2>2 DEF Staging, WorldIsNew
    <3>2. snaps'[World] = "none"
      BY <1>1, <2>2, <3>1 DEF ActivateSnapshot
    <3>3. QED
      BY <1>1, <3>2 DEF ActiveWorldMatches
  <2>3. QED
    BY <2>1, <2>2
<1>6. QED
  BY <1>3, <1>4, <1>5 DEF Listing

(* No other process changes what a row is matched by, and a new board of    *)
(* today has no snapshot.                                                  *)
LEMMA ListingOfOthers ==
    ASSUME ~Revisit, Typing, Listing,
           \/ Dispatch \/ Environment \/ \E c \in Consumer : Consume(c)
    PROVE  Listing'
<1>1. /\ rows \in [Id -> Row] /\ disc \in Discovery
      /\ \A c \in Consumer : deliveries[c].pc # "idle"
                                 => deliveries[c].id \in Id
  BY DEF Typing, TypeOK, DeliveriesKnowTheirRow
<1>2. ASSUME BoardChanges \/ PolicyChanges PROVE Listing'
  <2>1. /\ RowsKeepListing /\ UNCHANGED disc /\ snaps'[World'] = "none"
    BY <1>2 DEF BoardChanges, PolicyChanges, ledgerVars, RowsKeepListing,
       KeepsListing, World
  <2>2. QED
    BY <2>1, ListingKept
<1>3. ASSUME CrashPass PROVE Listing'
  <2>1. /\ disc'.pc = "idle" /\ UNCHANGED <<rows, board, snaps>> /\ World' = World
    BY <1>3 DEF CrashPass, IdleDiscovery, ledgerVars, worldVars, World
  <2>2. QED
    BY <2>1 DEF Listing, LedgerMatchesBoard, WrittenRowsMatch,
       ActiveWorldMatches, Matches
<1>4. ASSUME TerminalizeReplaced PROVE Listing'
  <2>1. /\ RowsKeepListing /\ UNCHANGED disc /\ World' = World
        /\ World \in Snapshot
    BY <1>4 DEF TerminalizeReplaced, worldVars, RowsKeepListing, KeepsListing,
       World, Typing, TypeOK, Snapshot
  <2>2. snaps'[World] = "active" => snaps[World] = "active"
    BY <1>4, <2>1 DEF TerminalizeReplaced
  <2>3. QED
    BY <2>1, <2>2, ListingKept
<1>5. ASSUME NEW i \in Id,
             \/ ReclaimLease(i) \/ BootstrapRow(i) \/ ListStalePolicy(i)
             \/ MigratePolicy(i) \/ QueueRow(i)
             \/ RetryComesDue(i) \/ LeaseExpires(i) \/ ReplayRow(i)
      PROVE  Listing'
  <2>1. RowsKeepListing
    <3>1. CASE ReclaimLease(i) \/ BootstrapRow(i) \/ ListStalePolicy(i)
               \/ QueueRow(i) \/ RetryComesDue(i) \/ LeaseExpires(i)
      <4>1. CASE ListStalePolicy(i)
        BY <4>1 DEF ListStalePolicy, ledgerVars, RowsKeepListing, KeepsListing
      <4>2. CASE RetryComesDue(i) \/ LeaseExpires(i)
        BY <1>1, <4>2, StatementsKeepListing, RowKeepsListing
           DEF RetryComesDue, LeaseExpires
      <4>3. CASE ReclaimLease(i) \/ BootstrapRow(i) \/ QueueRow(i)
        BY <1>1, <4>3, StatementsKeepListing, RowKeepsListing
           DEF ReclaimLease, BootstrapRow, QueueRow
      <4>4. QED
        BY <3>1, <4>1, <4>2, <4>3
    <3>2. CASE MigratePolicy(i) \/ ReplayRow(i)
      <4>1. \A v, b : KeepsListing(rows[i], ReopenRow(rows[i], v, b))
        BY <1>1, StatementsKeepListing
      <4>2. UNCHANGED rows \/ \E v, b : SetRow(i, ReopenRow(rows[i], v, b))
        BY <3>2 DEF MigratePolicy, ReplayRow
      <4>3. QED
        BY <1>1, <4>1, <4>2, RowKeepsListing DEF RowsKeepListing, KeepsListing
    <3>3. QED
      BY <1>5, <3>1, <3>2
  <2>2. UNCHANGED <<disc, board, policy, snaps>>
    BY <1>5 DEF ReclaimLease, BootstrapRow, ListStalePolicy, MigratePolicy,
       QueueRow, RetryComesDue, LeaseExpires, ReplayRow, worldVars, ledgerVars
  <2>3. QED
    BY <2>1, <2>2, ListingKept DEF World
<1>6. ASSUME NEW c \in Consumer,
             \/ Consume(c) \/ InfrastructureFailure(c) \/ RowFailure(c)
             \/ CrashDelivery(c)
      PROVE  Listing'
  <2>1. UNCHANGED <<disc, board, policy, snaps>>
    BY <1>6 DEF Consume, Deliver, Claim, Commit, Settle, Release,
       InfrastructureFailure, RowFailure, CrashDelivery, worldVars, ledgerVars
  <2>2. RowsKeepListing
    <3>1. ASSUME NEW i \in Id, Deliver(c, i) PROVE RowsKeepListing
      BY <1>1, <3>1, StatementsKeepListing DEF Deliver, SetRow, RowsKeepListing,
         KeepsListing
    <3>2. CASE Claim(c) \/ Commit(c) \/ Settle(c) \/ Release(c)
      BY <1>1, <3>2, StatementsKeepListing DEF Claim, Commit, Settle, Release,
         SetRow, ledgerVars, RowsKeepListing, KeepsListing
    <3>3. CASE InfrastructureFailure(c) \/ RowFailure(c) \/ CrashDelivery(c)
      BY <1>1, <3>3, StatementsKeepListing DEF InfrastructureFailure,
         CrashDelivery, RowFailure, MayThrow, SetRow, ledgerVars,
         RowsKeepListing, KeepsListing
    <3>4. QED
      BY <1>6, <3>1, <3>2, <3>3 DEF Consume
  <2>3. QED
    BY <2>1, <2>2, ListingKept DEF World
<1>7. QED
  BY <1>2, <1>3, <1>4, <1>5, <1>6 DEF Dispatch, Environment

(* Every step keeps Listing.                                               *)
LEMMA ListingStep ==
    ASSUME ~Revisit, Typing, Closing, Staging, Listing, [Next]_vars
    PROVE  Listing'
<1>1. CASE UNCHANGED vars
  BY <1>1 DEF vars, Listing, LedgerMatchesBoard, WrittenRowsMatch,
     ActiveWorldMatches, Matches, World
<1>2. QED
  BY <1>1, ListingOfPass, ListingOfReadLedger, ListingOfWrites,
     ListingOfActivation, ListingOfOthers DEF Next

-----------------------------------------------------------------------------
(* What ReturningBoardIsActive rests on where boards never return: if the   *)
(* snapshot of the board of today is active, it is the latest active one.  *)
AfterWrites == disc.pc \in {"reopen", "close", "ack"}
ActiveWorldIsLatest == snaps[World] = "active" => current = World
Latest == ReturningBoardIsActive /\ ActiveWorldIsLatest

(* Only an activation makes a snapshot active, and the latest.             *)
Quiet == /\ AfterWrites' => AfterWrites /\ disc'.snap = disc.snap
         /\ current' = current
         /\ \A s \in Snapshot : snaps'[s] = "active" => snaps[s] = "active"
LEMMA QuietSteps ==
    ASSUME Typing, [Next]_vars, ~ReadLedger, ~ActivateSnapshot
    PROVE  Quiet
<1>1. disc \in Discovery
  BY DEF Typing, TypeOK
<1>2. CASE StartPass \/ FinishPass \/ ThrowPass \/ CrashPass
  BY <1>2 DEF StartPass, FinishPass, ThrowPass, CrashPass, IdleDiscovery,
     ledgerVars, Quiet, AfterWrites
<1>3. ASSUME NEW i \in Id,
             \/ DiscoverRow(i) \/ MissRow(i) \/ ReopenActionable(i)
             \/ CloseOmission(i) \/ AcknowledgeOmission(i)
      PROVE  Quiet
  BY <1>1, <1>3 DEF DiscoverRow, MissRow, ReopenActionable, CloseOmission,
     AcknowledgeOmission, Discovery, ledgerVars, Quiet, AfterWrites
<1>4. CASE ListClosures
  BY <1>1, <1>4 DEF ListClosures, Discovery, ledgerVars, Quiet, AfterWrites
<1>5. CASE TerminalizeReplaced
  BY <1>5 DEF TerminalizeReplaced, Quiet, AfterWrites
<1>6. CASE UNCHANGED <<disc, snaps, current>>
  BY <1>6 DEF Quiet, AfterWrites
<1>7. CASE Discover
  BY <1>2, <1>3, <1>4, <1>7 DEF Discover
<1>8. CASE Dispatch
  BY <1>5, <1>6, <1>8 DEF Dispatch, ReclaimLease, BootstrapRow,
     ListStalePolicy, MigratePolicy, QueueRow, ledgerVars
<1>9. CASE Environment
  BY <1>2, <1>6, <1>9 DEF Environment, BoardChanges, PolicyChanges,
     RetryComesDue, LeaseExpires, ReplayRow, InfrastructureFailure,
     RowFailure, CrashDelivery, ledgerVars
<1>10. CASE \E c \in Consumer : Consume(c)
  BY <1>6, <1>10 DEF Consume, Deliver, Claim, Commit, Settle, Release, ledgerVars
<1>11. CASE UNCHANGED vars
  BY <1>6, <1>11 DEF vars
<1>12. QED
  BY <1>7, <1>8, <1>9, <1>10, <1>11 DEF Next

(* A pass goes on from an active snapshot, which is the latest, or makes    *)
(* its own the latest; a board that is new by then has no snapshot.        *)
LEMMA LatestStep ==
    ASSUME ~Revisit, Typing, Staging, Latest, [Next]_vars
    PROVE  Latest'
<1>1. /\ disc \in Discovery /\ World \in Snapshot
      /\ snaps \in [Snapshot -> {"none", "staged", "active", "terminal"}]
  BY DEF Typing, TypeOK, World, Snapshot
<1>2. CASE ReadLedger
  <2>1. /\ disc'.snap = World /\ World' = World /\ current' = current
    BY <1>2, ReadLedgerPass DEF World, ReadLedger, worldVars
  <2>2. snaps'[World] = "active" => snaps[World] = "active"
    BY <1>1, <1>2 DEF ReadLedger, World
  <2>3. AfterWrites' => snaps[World] = "active"
    BY <1>2 DEF ReadLedger, World, AfterWrites
  <2> QED
    BY <2>1, <2>2, <2>3
    DEF Latest, ReturningBoardIsActive, ActiveWorldIsLatest, AfterWrites
<1>3. CASE ActivateSnapshot
  <2>1. /\ disc.pc = "write" /\ current' = disc.snap /\ disc'.snap = disc.snap
        /\ World' = World
    BY <1>1, <1>3 DEF ActivateSnapshot, worldVars, World, Discovery
  <2>2. World # disc.snap => snaps'[World] = "none"
    BY <1>1, <1>3, <2>1 DEF ActivateSnapshot, Staging, WorldIsNew
  <2> QED
    BY <2>1, <2>2 DEF Latest, ReturningBoardIsActive, ActiveWorldIsLatest
<1>4. CASE ~ReadLedger /\ ~ActivateSnapshot
  <2>1. Quiet
    BY <1>4, QuietSteps
  <2>2. ReturningBoardIsActive'
    BY <2>1 DEF Quiet, AfterWrites, Latest, ReturningBoardIsActive
  <2>3. CASE BoardChanges \/ PolicyChanges
    <3>1. snaps'[World'] = "none"
      BY <2>3 DEF BoardChanges, PolicyChanges, World, ledgerVars
    <3> QED
      BY <2>2, <3>1 DEF Latest, ActiveWorldIsLatest
  <2>4. CASE World' = World
    BY <1>1, <2>1, <2>2, <2>4 DEF Quiet, Latest, ActiveWorldIsLatest
  <2> QED
    BY <2>3, <2>4, WorldElsewhere
<1> QED
  BY <1>2, <1>3, <1>4

-----------------------------------------------------------------------------
(* IInv holds of every reachable state, for every set of ids, materials,   *)
(* versions and deliveries and every number of attempts and faults.        *)
THEOREM Invariance == Spec => []IInv
<1>1. Init => IInv
  BY TypingInit, ClosingInit, StagingInit, BudgetInit DEF IInv
<1>2. IInv /\ [Next]_vars => IInv'
  BY TypingStep, ClosingStep, StagingStep, BudgetStep DEF IInv
<1>3. QED
  BY <1>1, <1>2, PTL DEF Spec

(* The leases hold too, unless a board may return to an earlier content    *)
(* while an effect takes longer than the time between two passes.          *)
THEOREM LeasesHold ==
    ASSUME ~Revisit \/ ~SlowEffects
    PROVE  Spec => []Leasing
<1>1. Init => Leasing
  BY LeasingInit
<1>2. IInv /\ IInv' /\ Leasing /\ [Next]_vars => Leasing'
  BY LeasingStep DEF IInv
<1>3. QED
  BY Invariance, <1>1, <1>2, PTL DEF Spec

(* Every reachable state is typed.                                         *)
THEOREM TypeCorrect == Spec => []TypeOK
<1>1. IInv => TypeOK
  BY DEF IInv, Typing
<1>2. QED
  BY Invariance, <1>1, PTL

(* A row the lane settled tells what the catalog shows: no late, repeated  *)
(* or superseded effect leaves the ledger and the catalog in disagreement. *)
THEOREM SettledRowsAgree ==
    ASSUME ~Revisit \/ ~SlowEffects
    PROVE  Spec => []SettledAgreesWithCatalog
<1>1. Leasing => SettledAgreesWithCatalog
  BY DEF Leasing
<1>2. QED
  BY LeasesHold, <1>1, PTL

(* A role two complete boards missed is closed or still owed its closure.  *)
THEOREM MissedRolesAreClosed == Spec => []MissedRolesClose
<1>1. IInv => MissedRolesClose
  BY DEF IInv, Closing
<1>2. QED
  BY Invariance, <1>1, PTL

(* No row waits in the lane with a spent budget, and only a spent budget   *)
(* quarantines.                                                            *)
THEOREM AttemptsAreBudgeted == Spec => []AttemptBudget
<1>1. IInv => AttemptBudget
  BY DEF IInv, Budget
<1>2. QED
  BY Invariance, <1>1, PTL

(* A row marked as notification baseline stays silent.                     *)
THEOREM SilenceKept == Spec => SilenceIsKept
<1>1. IInv => Typing
  BY DEF IInv
<1>2. Typing /\ [Next]_vars =>
        [\A i \in Id : rows[i].baseline
            => rows'[i].baseline /\ i \notin alerts' \ alerts]_vars
  BY SilenceStep DEF Silent
<1>3. QED
  BY Invariance, <1>1, <1>2, PTL DEF Spec, SilenceIsKept


(* Once a pass has done its writes, the ledger holds its board, if boards   *)
(* do not return to an earlier content.                                    *)
THEOREM LedgerHoldsBoard ==
    ASSUME ~Revisit
    PROVE  Spec => []LedgerMatchesBoard
<1>1. Init => Listing
  BY DEF Init, Listing, LedgerMatchesBoard, WrittenRowsMatch,
     ActiveWorldMatches, IdleDiscovery, World, Board, Snapshot
<1>2. IInv /\ Listing /\ [Next]_vars => Listing'
  BY ListingStep DEF IInv
<1>3. Listing => LedgerMatchesBoard
  BY DEF Listing
<1>4. QED
  BY Invariance, <1>1, <1>2, <1>3, PTL DEF Spec

(* After its writes a pass has its own snapshot for the latest active one,  *)
(* which its closures are fenced by, if boards do not return to an earlier *)
(* content: what lane_revisit shows takes a board that does.               *)
THEOREM BoardsThatStayAwayAreActive ==
    ASSUME ~Revisit
    PROVE  Spec => []ReturningBoardIsActive
<1>1. Init => Latest
  <2> SUFFICES ASSUME Init PROVE Latest
    OBVIOUS
  <2>1. snaps[World] = "none"
    BY DEF Init, World, Snapshot
  <2> QED
    BY <2>1 DEF Init, IdleDiscovery, Latest, ReturningBoardIsActive,
       ActiveWorldIsLatest
<1>2. IInv /\ Latest /\ [Next]_vars => Latest'
  BY LatestStep DEF IInv
<1>3. Latest => ReturningBoardIsActive
  BY DEF Latest
<1>4. QED
  BY Invariance, <1>1, <1>2, <1>3, PTL DEF Spec

=============================================================================
