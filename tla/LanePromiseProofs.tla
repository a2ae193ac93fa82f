-------------------------- MODULE LanePromiseProofs ---------------------------
(***************************************************************************)
(* AdmissionLane implements LanePromise. What a step does to the verdicts  *)
(* is shown row operator by row operator; that a verdict which appears is  *)
(* true follows from the invariants of AdmissionLaneProofs.                *)
(***************************************************************************)
EXTENDS AdmissionLaneProofs

verdicts == [i \in Id |-> VerdictOf(rows[i])]
PromiseVars == <<verdicts, catalog, alerts>>

(* A row write keeps the verdict, withdraws it, or states a first one.      *)
Fair(r, s) == \/ VerdictOf(s) = VerdictOf(r)
              \/ VerdictOf(s) = Promise!NoVerdict
              \/ VerdictOf(r) = Promise!NoVerdict

(* Every verdict of a row is a verdict of the promise: a graded row has the *)
(* material of a board.                                                    *)
LEMMA VerdictType ==
    ASSUME NEW r \in Row, r.material \in Material \/ r = UnknownRow
    PROVE  VerdictOf(r) \in Promise!Verdict
<1>1. r.decision \in Decision /\ r.state \in RowState
  BY DEF Row
<1>2. Graded(r) => r.material \in Material
  BY DEF UnknownRow, Graded
<1>3. CASE Graded(r) /\ r.decision = "admitted"
  BY <1>2, <1>3 DEF VerdictOf, Promise!Verdict
<1>4. CASE ~(Graded(r) /\ r.decision = "admitted")
  BY <1>1, <1>4 DEF VerdictOf, Decision, Promise!Verdict
<1>5. QED
  BY <1>3, <1>4

(* The upsert keeps a grade of the same identity or withdraws it.          *)
LEMMA PutRowIsFair ==
    ASSUME NEW r \in Row, NEW snap \in Snapshot, NEW m \in Material,
           NEW b \in BOOLEAN
    PROVE  Fair(r, PutRow(r, snap, m, b))
BY DEF Fair, VerdictOf, Graded, PutRow, SameAdmissionIdentity, LaneOwned, Row,
   Promise!NoVerdict

(* A miss that is not behind the row's own keeps or withdraws its verdict.  *)
LEMMA ApplyOmissionIsFair ==
    ASSUME NEW r \in Row, NEW n \in 1..2, r.omissions <= n,
           r.state \notin {"unknown", "absent"}
    PROVE  Fair(r, ApplyOmission(r, n))
<1> DEFINE s == ApplyOmission(r, n)
<1>1. /\ s.omissions = n
      /\ s.decision = r.decision /\ s.material = r.material
      /\ s.attempts = r.attempts
      /\ r.state \in LaneOwned => s.state # "settled"
      /\ r.state \in RowState /\ r.omissions \in 0..2
  BY DEF ApplyOmission, LaneOwned, Row
<1>2. CASE n = 2
  <2>1. s.omissions = 2 /\ s.closing
    <3>1. n >= 2
      BY <1>2
    <3>2. QED
      BY <1>2, <3>1 DEF ApplyOmission, Row
  <2>2. QED
    BY <2>1 DEF Fair, VerdictOf, Graded, Promise!NoVerdict
<1>3. CASE n = 1 /\ r.state \in LaneOwned
  <2>1. ~Graded(s) /\ s.omissions = 1
    BY <1>1, <1>3 DEF Graded
  <2>2. QED
    BY <2>1 DEF Fair, VerdictOf, Promise!NoVerdict
<1>4. CASE n = 1 /\ r.state = "settled"
  <2>1. s.state = "settled"
    BY <1>4 DEF ApplyOmission, LaneOwned, Row
  <2>2. Graded(s) = Graded(r) /\ r.omissions # 2 /\ s.omissions # 2
    BY <2>1, <1>1, <1>4 DEF Graded
  <2>3. VerdictOf(s) = VerdictOf(r)
    BY <2>2, <1>1 DEF VerdictOf
  <2>4. QED
    BY <2>3 DEF Fair
<1>5. QED
  BY <1>1, <1>2, <1>3, <1>4 DEF RowState, LaneOwned

(* A pending closure has no verdict to lose.                               *)
LEMMA AcknowledgeClosureIsFair ==
    ASSUME NEW r \in Row, ClosurePending(r)
    PROVE  Fair(r, AcknowledgeClosure(r))
BY DEF Fair, VerdictOf, Graded, AcknowledgeClosure, ClosurePending, Row,
   Promise!NoVerdict

(* What puts a row back into the lane, or leases it, withdraws its grade.   *)
LEMMA LaneWritesAreFair ==
    ASSUME NEW r \in Row, NEW c, NEW n, NEW v, NEW b
    PROVE  /\ Fair(r, MarkQueued(r)) /\ Fair(r, ReleaseLease(r))
           /\ Fair(r, AcquireLease(r, c)) /\ Fair(r, ClaimEffect(r))
           /\ Fair(r, ScheduleRetry(r, n)) /\ Fair(r, QuarantineRow(r, n))
           /\ Fair(r, ReopenRow(r, v, b)) /\ Fair(r, ReopenUnprocessed(r))
           /\ Fair(r, [r EXCEPT !.waiting = FALSE])
           /\ Fair(r, [r EXCEPT !.expired = TRUE])
BY DEF Fair, VerdictOf, Graded, MarkQueued, ReleaseLease, AcquireLease,
   ClaimEffect, ScheduleRetry, QuarantineRow, ReopenRow, ReopenUnprocessed,
   Requeue, Row, Promise!NoVerdict

(* A settlement states the verdict of a row that was being worked on.       *)
LEMMA SettleRowIsFair ==
    ASSUME NEW r \in Row, NEW v \in Decision, r.state = "processing"
    PROVE  Fair(r, SettleRow(r, v))
BY DEF Fair, VerdictOf, Graded, SettleRow, Requeue, Row, Promise!NoVerdict

-----------------------------------------------------------------------------
(* A verdict is true of a catalog role that agrees with the row.           *)
LEMMA VerdictIsTrue ==
    ASSUME NEW r \in Row, NEW role,
           Graded(r) => Agrees(role, r.decision, r.material),
           r.omissions = 2 /\ ~r.closing => role \in {"none", "closed"},
           VerdictOf(r) # Promise!NoVerdict
    PROVE  Promise!True(VerdictOf(r), role)
BY DEF Agrees, VerdictOf, Promise!True, Promise!NoVerdict, Row, Decision

(* A fair write of one row that leaves the catalog alone states a verdict,  *)
(* withdraws one, or is not seen.                                          *)
LEMMA FairWriteRefines ==
    ASSUME TypeOK, TypeOK', RowsAreDiscovered',
           SettledAgreesWithCatalog', MissedRolesClose',
           NEW i \in Id, NEW r \in Row, SetRow(i, r), Fair(rows[i], r),
           UNCHANGED <<catalog, alerts>>
    PROVE  [Promise!Next]_PromiseVars
<1>1. rows'[i] = r /\ \A j \in Id : j # i => rows'[j] = rows[j]
  BY DEF TypeOK, SetRow
<1>2. verdicts' = [verdicts EXCEPT ![i] = VerdictOf(r)]
  BY <1>1 DEF verdicts
<1>3. verdicts[i] = VerdictOf(rows[i])
  BY DEF verdicts
<1>4. CASE VerdictOf(r) = VerdictOf(rows[i])
  <2>1. verdicts' = verdicts
    BY <1>2, <1>3, <1>4 DEF verdicts
  <2>2. QED
    BY <2>1 DEF PromiseVars
<1>5. CASE VerdictOf(r) = Promise!NoVerdict
  <2>1. Promise!Withdraw(i)
    BY <1>2, <1>5 DEF Promise!Withdraw, verdicts
  <2>2. QED
    BY <2>1 DEF Promise!Next
<1>6. CASE /\ VerdictOf(rows[i]) = Promise!NoVerdict
           /\ VerdictOf(r) # Promise!NoVerdict
  <2>1. Promise!True(VerdictOf(r), catalog[i])
    BY <1>1, <1>6, VerdictIsTrue DEF SettledAgreesWithCatalog, MissedRolesClose
  <2>2. VerdictOf(r) \in Promise!Verdict
    BY <1>1, VerdictType DEF RowsAreDiscovered
  <2>3. Promise!State(i)
    BY <1>2, <1>3, <1>6, <2>1, <2>2 DEF Promise!State, verdicts
  <2>4. QED
    BY <2>3 DEF Promise!Next
<1>7. QED
  BY <1>4, <1>5, <1>6 DEF Fair
-----------------------------------------------------------------------------
(* What a step relies on.                                                  *)
Known == IInv /\ IInv' /\ SettledAgreesWithCatalog'

(* A row is a record of the ledger, and its writes are too.                *)
LEMMA KnownRows ==
    ASSUME Known, NEW i \in Id
    PROVE  /\ TypeOK /\ TypeOK' /\ RowsAreDiscovered' /\ MissedRolesClose'
           /\ rows[i] \in Row /\ rows'[i] \in Row
BY DEF Known, IInv, Typing, Closing, TypeOK

(* A step of one row that is fair refines the promise.                     *)
LEMMA RowStepRefines ==
    ASSUME Known, NEW i \in Id, NEW r, SetRow(i, r), Fair(rows[i], r),
           UNCHANGED <<catalog, alerts>>
    PROVE  [Promise!Next]_PromiseVars
<1>1. r \in Row
  BY KnownRows DEF SetRow, TypeOK
<1>2. QED
  BY <1>1, KnownRows, FairWriteRefines DEF Known

(* A step that touches neither a row nor the catalog is not seen.          *)
LEMMA UnseenStepRefines ==
    ASSUME UNCHANGED <<rows, catalog, alerts>>
    PROVE  [Promise!Next]_PromiseVars
BY DEF PromiseVars, verdicts

(* The pass: its upserts, misses, reopenings and acknowledgements are fair, *)
(* and it closes a role that has no verdict.                               *)
LEMMA DiscoverRefines ==
    ASSUME Known, Discover
    PROVE  [Promise!Next]_PromiseVars
<1>1. ASSUME StartPass \/ ReadLedger \/ ActivateSnapshot \/ ListClosures
             \/ FinishPass \/ ThrowPass
      PROVE  [Promise!Next]_PromiseVars
  <2>1. UNCHANGED <<rows, catalog, alerts>>
    BY <1>1 DEF StartPass, ReadLedger, ActivateSnapshot, ListClosures,
       FinishPass, ThrowPass, ledgerVars, effectVars
  <2>2. QED
    BY <2>1, UnseenStepRefines
<1>2. ASSUME NEW i \in Id, DiscoverRow(i) PROVE [Promise!Next]_PromiseVars
  <2> DEFINE r == PutRow(rows[i], disc.snap, disc.snap.board[i],
                         ~seeded \/ i \in disc.silent)
  <2>1. disc.snap \in Snapshot /\ i \in DOMAIN disc.snap.board
    BY <1>2 DEF Known, IInv, Typing, PassKnowsItsSnapshot, DiscoverRow
  <2>2. disc.snap.board[i] \in Material
    BY <2>1, SnapshotType
  <2>3. (~seeded \/ i \in disc.silent) \in BOOLEAN
    OBVIOUS
  <2>4. Fair(rows[i], r)
    BY <2>1, <2>2, <2>3, KnownRows, PutRowIsFair
  <2>5. SetRow(i, r) /\ UNCHANGED <<catalog, alerts>>
    BY <1>2 DEF DiscoverRow, effectVars
  <2>6. QED
    BY <2>4, <2>5, RowStepRefines
<1>3. ASSUME NEW i \in Id, MissRow(i) PROVE [Promise!Next]_PromiseVars
  <2>1. /\ disc.omit[i] \in 1..2 /\ rows[i].omissions <= disc.omit[i]
        /\ rows[i].state \notin {"unknown", "absent"}
    BY <1>3 DEF Known, IInv, Typing, TypeOK, Discovery, Closing, OmissionsGrow,
       MissRow
  <2>2. QED
    BY <1>3, <2>1, ApplyOmissionIsFair, KnownRows, RowStepRefines,
       UnseenStepRefines DEF MissRow, effectVars
<1>4. ASSUME NEW i \in Id, ReopenActionable(i) PROVE [Promise!Next]_PromiseVars
  BY <1>4, LaneWritesAreFair, KnownRows, RowStepRefines, UnseenStepRefines
     DEF ReopenActionable, effectVars
<1>5. ASSUME NEW i \in Id, AcknowledgeOmission(i)
      PROVE  [Promise!Next]_PromiseVars
  BY <1>5, AcknowledgeClosureIsFair, KnownRows, RowStepRefines,
     UnseenStepRefines DEF AcknowledgeOmission, effectVars
<1>6. ASSUME NEW i \in Id, CloseOmission(i) PROVE [Promise!Next]_PromiseVars
  <2>1. CASE catalog[i] = "none"
    BY <1>6, <2>1, UnseenStepRefines DEF CloseOmission, ledgerVars
  <2>2. CASE catalog[i] # "none"
    <3>1. VerdictOf(rows[i]) = Promise!NoVerdict
      BY <1>6, <2>2, KnownRows DEF CloseOmission, ClosurePending, VerdictOf,
         Graded, Row, Promise!NoVerdict
    <3>2. verdicts' = verdicts /\ verdicts[i] = Promise!NoVerdict
      BY <1>6, <3>1 DEF CloseOmission, ledgerVars, verdicts
    <3>3. Promise!Hide(i)
      BY <1>6, <2>2, <3>2 DEF CloseOmission, Promise!Hide, verdicts
    <3>4. QED
      BY <3>3 DEF Promise!Next
  <2>3. QED
    BY <2>1, <2>2
<1>7. QED
  BY <1>1, <1>2, <1>3, <1>4, <1>5, <1>6 DEF Discover

(* The dispatcher only puts rows back, queues or leases nothing it states.  *)
LEMMA DispatchRefines ==
    ASSUME Known, Dispatch
    PROVE  [Promise!Next]_PromiseVars
<1>1. ASSUME TerminalizeReplaced \/ \E i \in Id : ListStalePolicy(i)
      PROVE  [Promise!Next]_PromiseVars
  <2>1. UNCHANGED <<rows, catalog, alerts>>
    BY <1>1 DEF TerminalizeReplaced, ListStalePolicy, ledgerVars, effectVars
  <2>2. QED
    BY <2>1, UnseenStepRefines
<1>2. ASSUME NEW i \in Id,
             ReclaimLease(i) \/ BootstrapRow(i) \/ QueueRow(i)
      PROVE  [Promise!Next]_PromiseVars
  BY <1>2, LaneWritesAreFair, KnownRows, RowStepRefines
     DEF ReclaimLease, BootstrapRow, QueueRow, effectVars
<1>3. ASSUME NEW i \in Id, MigratePolicy(i) PROVE [Promise!Next]_PromiseVars
  BY <1>3, LaneWritesAreFair, KnownRows, RowStepRefines, UnseenStepRefines
     DEF MigratePolicy, effectVars
<1>4. QED
  BY <1>1, <1>2, <1>3 DEF Dispatch

(* A delivery shows or hides a role while its row has no verdict, then      *)
(* states one.                                                             *)
LEMMA ConsumeRefines ==
    ASSUME Known, NEW c \in Consumer, Consume(c)
    PROVE  [Promise!Next]_PromiseVars
<1> DEFINE k == deliveries[c]
<1>1. k.pc # "idle" => k.id \in Id /\ k.material \in Material
  BY DEF Known, IInv, Typing, DeliveriesKnowTheirRow
<1>2. k.verdict \in Decision
  BY DEF Known, IInv, Typing, TypeOK, Delivery
<1>3. ASSUME NEW i \in Id, Deliver(c, i) PROVE [Promise!Next]_PromiseVars
  BY <1>3, LaneWritesAreFair, KnownRows, RowStepRefines DEF Deliver, effectVars
<1>4. CASE Claim(c)
  BY <1>1, <1>4, LaneWritesAreFair, KnownRows, RowStepRefines,
     UnseenStepRefines DEF Claim, effectVars
<1>5. CASE Release(c)
  BY <1>1, <1>5, LaneWritesAreFair, KnownRows, RowStepRefines,
     UnseenStepRefines DEF Release, effectVars
<1>6. CASE Settle(c)
  <2>1. CASE HoldsLease(rows[k.id], k, c) /\ rows[k.id].claimed
    <3>1. k.id \in Id /\ rows[k.id].state = "processing"
      BY <1>1, <1>6, <2>1 DEF Settle, HoldsLease, LeaseGuard
    <3>2. Fair(rows[k.id], SettleRow(rows[k.id], k.verdict))
      BY <1>2, <3>1, KnownRows, SettleRowIsFair
    <3>3. /\ SetRow(k.id, SettleRow(rows[k.id], k.verdict))
          /\ UNCHANGED <<catalog, alerts>>
      BY <1>6, <2>1 DEF Settle, effectVars
    <3>4. QED
      BY <3>1, <3>2, <3>3, RowStepRefines
  <2>2. CASE ~(HoldsLease(rows[k.id], k, c) /\ rows[k.id].claimed)
    BY <1>6, <2>2, UnseenStepRefines DEF Settle, effectVars
  <2>3. QED
    BY <2>1, <2>2
<1>7. CASE Commit(c)
  <2>1. CASE ~EffectFence(c)
    BY <1>7, <2>1, UnseenStepRefines DEF Commit, effectVars, ledgerVars
  <2>2. CASE EffectFence(c)
    <3>1. k.id \in Id /\ k.material \in Material
      BY <1>1, <1>7 DEF Commit
    <3>2. VerdictOf(rows[k.id]) = Promise!NoVerdict
      BY <2>2, <3>1, KnownRows DEF EffectFence, HoldsLease, LeaseGuard,
         VerdictOf, Graded, Row, Promise!NoVerdict
    <3>3. verdicts' = verdicts /\ verdicts[k.id] = Promise!NoVerdict
      BY <1>7, <3>1, <3>2 DEF Commit, ledgerVars, verdicts
    <3>4. /\ catalog' = [catalog EXCEPT ![k.id] =
                  IF k.verdict = "admitted" THEN k.material
                  ELSE IF catalog[k.id] = "none" THEN "none" ELSE "closed"]
          /\ alerts' \in {alerts, alerts \cup {k.id}}
          /\ k.verdict # "admitted" => UNCHANGED alerts
      BY <1>7, <2>2 DEF Commit, Notify
    <3>5. CASE k.verdict = "admitted"
      <4>1. Promise!Show(k.id)
        BY <3>1, <3>3, <3>4, <3>5 DEF Promise!Show, verdicts
      <4>2. QED
        BY <3>1, <4>1 DEF Promise!Next
    <3>6. CASE k.verdict # "admitted"
      <4>1. UNCHANGED alerts
        BY <3>4, <3>6
      <4>2. CASE catalog[k.id] = "none"
        <5>1. catalog \in [Id -> Role]
          BY KnownRows, <3>1 DEF TypeOK
        <5>2. UNCHANGED catalog
          BY <3>4, <3>6, <4>2, <5>1
        <5>3. QED
          BY <3>3, <4>1, <5>2 DEF PromiseVars
      <4>3. CASE catalog[k.id] # "none"
        <5>1. Promise!Hide(k.id)
          BY <3>1, <3>3, <3>4, <3>6, <4>1, <4>3 DEF Promise!Hide, verdicts
        <5>2. QED
          BY <3>1, <5>1 DEF Promise!Next
      <4>4. QED
        BY <4>2, <4>3
    <3>7. QED
      BY <3>5, <3>6
  <2>3. QED
    BY <2>1, <2>2
<1>8. QED
  BY <1>3, <1>4, <1>5, <1>6, <1>7 DEF Consume

(* The world, crashes and failures put rows back at most.                  *)
LEMMA EnvironmentRefines ==
    ASSUME Known, Environment
    PROVE  [Promise!Next]_PromiseVars
<1>1. ASSUME BoardChanges \/ PolicyChanges \/ CrashPass
      PROVE  [Promise!Next]_PromiseVars
  <2>1. UNCHANGED <<rows, catalog, alerts>>
    BY <1>1 DEF BoardChanges, PolicyChanges, CrashPass, ledgerVars, effectVars
  <2>2. QED
    BY <2>1, UnseenStepRefines
<1>2. ASSUME NEW i \in Id, RetryComesDue(i) \/ LeaseExpires(i) \/ ReplayRow(i)
      PROVE  [Promise!Next]_PromiseVars
  BY <1>2, LaneWritesAreFair, KnownRows, RowStepRefines
     DEF RetryComesDue, LeaseExpires, ReplayRow, effectVars
<1>3. ASSUME NEW c \in Consumer, InfrastructureFailure(c) \/ CrashDelivery(c)
      PROVE  [Promise!Next]_PromiseVars
  BY <1>3, UnseenStepRefines
     DEF InfrastructureFailure, CrashDelivery, effectVars, ledgerVars
<1>4. ASSUME NEW c \in Consumer, RowFailure(c)
      PROVE  [Promise!Next]_PromiseVars
  <2>1. deliveries[c].id \in Id
    BY <1>4 DEF Known, IInv, Typing, DeliveriesKnowTheirRow, RowFailure, MayThrow
  <2>2. CASE HoldsLease(rows[deliveries[c].id], deliveries[c], c)
    BY <1>4, <2>1, <2>2, LaneWritesAreFair, KnownRows, RowStepRefines
       DEF RowFailure, effectVars
  <2>3. CASE ~HoldsLease(rows[deliveries[c].id], deliveries[c], c)
    BY <1>4, <2>3, UnseenStepRefines DEF RowFailure, effectVars
  <2>4. QED
    BY <2>2, <2>3
<1>5. QED
  BY <1>1, <1>2, <1>3, <1>4 DEF Environment

-----------------------------------------------------------------------------
(* The lane implements its promise: the catalog changes only while the      *)
(* ledger states no verdict on the role, and a verdict it states is true,  *)
(* whatever the workers, the pass and the dispatcher interleave.           *)
THEOREM LaneImplementsPromise ==
    ASSUME ~Revisit \/ ~SlowEffects
    PROVE  Spec => LaneKeepsItsPromise
<1>1. Init => Promise!Init
  BY DEF Init, Promise!Init, VerdictOf, UnknownRow, Graded, Promise!NoVerdict
<1>2. Known /\ [Next]_vars => [Promise!Next]_PromiseVars
  <2>1. ASSUME Known, UNCHANGED vars PROVE [Promise!Next]_PromiseVars
    BY <2>1, UnseenStepRefines DEF vars
  <2>2. QED
    BY <2>1, DiscoverRefines, DispatchRefines, EnvironmentRefines,
       ConsumeRefines DEF Next
<1>3. IInv /\ IInv' /\ SettledAgreesWithCatalog' /\ [Next]_vars
         => [Promise!Next]_<<verdicts, catalog, alerts>>
  BY <1>2 DEF Known, PromiseVars
<1>4. QED
  BY Invariance, SettledRowsAgree, <1>1, <1>3, PTL
     DEF Spec, LaneKeepsItsPromise, Promise!Spec, verdicts
=============================================================================
