---------------------------- MODULE AdmissionLane ----------------------------
(***************************************************************************)
(* The fault-isolated admission lane of one source whose catalog writes V2 *)
(* owns: the discovery pass, the deliveries of the admission queue, the    *)
(* scheduled dispatcher and the operator, all on one D1 ledger, and the    *)
(* catalog and the notification outbox they write.                         *)
(*                                                                         *)
(* One step is one D1 statement (or one batch, which D1 commits whole).    *)
(* A statement on many rows that the code sends in chunks is one step per  *)
(* row: a row of the model stands for a chunk. A message of the queue      *)
(* carries the identity a row had when it was dispatched; one that no      *)
(* longer names the row's identity changes nothing, so a delivery is       *)
(* modelled from the moment it leases its row.                             *)
(***************************************************************************)
EXTENDS SnapshotDiff

CONSTANTS MaxFaults,  \* bound on board changes, crashes, failures and so on
          Revisit,    \* may the board return to an earlier content?
          SlowEffects \* may a pass start while an effect is in flight?

ASSUME MaxFaultsIsNat == MaxFaults \in Nat
ASSUME RevisitIsBoolean == Revisit \in BOOLEAN
ASSUME SlowEffectsIsBoolean == SlowEffects \in BOOLEAN

VARIABLES
    board,      \* what the source lists now
    policy,     \* the admission version the workers run
    seeded,     \* a poll of the source has completed before
    rows,       \* ingestion_rows
    snaps,      \* ingestion_snapshots: lifecycle by snapshot hash
    current,    \* the active snapshot with the latest activated_at
    catalog,    \* the source occurrence and its role in the catalog
    alerts,     \* ids whose new-role event is in the outbox
    disc,       \* the discovery pass
    deliveries, \* the consumers
    late,       \* rows whose updated_at is after the start of the pass
    listed,     \* rows unchanged since the closure listing read them
    migration,  \* the row the policy migration listed and not yet reopened
    faults      \* faults spent so far

ledgerVars == <<rows, snaps, current>>
effectVars == <<catalog, alerts>>
worldVars == <<board, policy>>
vars == <<board, policy, seeded, rows, snaps, current, catalog, alerts, disc,
          deliveries, late, listed, migration, faults>>

Role == {"none", "closed"} \cup Material  \* a material: open, published with it

DiscoveryPc == {"idle", "fetch", "write", "reopen", "close", "ack"}
Discovery == [pc : DiscoveryPc, snap : Snapshot \cup {None}, todo : SUBSET Id,
              omit : [Id -> 0..2], reopen : SUBSET Id, silent : SUBSET Id]
IdleDiscovery == [pc |-> "idle", snap |-> None, todo |-> {},
                  omit |-> NoOmissions, reopen |-> {}, silent |-> {}]

DeliveryPc == {"idle", "leased", "claimed", "committed", "release"}
Delivery == [pc : DeliveryPc, id : Id \cup {None},
             snap : Snapshot \cup {None}, material : Material \cup {None},
             ver : Version \cup {None}, baseline : BOOLEAN, job : BOOLEAN,
             attempts : Nat, verdict : Decision]
IdleDelivery == [pc |-> "idle", id |-> None, snap |-> None, material |-> None,
                 ver |-> None, baseline |-> FALSE, job |-> FALSE,
                 attempts |-> 0, verdict |-> "none"]

Migration == [id : Id \cup {None}, ver : Version \cup {None}]
NoMigration == [id |-> None, ver |-> None]

(* Type correctness of the ledger, the catalog and the processes' memory: a *)
(* ledger row never counts more than two omissions, and what a process      *)
(* remembers of a row is a row identity.                                    *)
TypeOK ==
    /\ board \in Board /\ policy \in Version /\ seeded \in BOOLEAN
    /\ rows \in [Id -> Row]
    /\ snaps \in [Snapshot -> {"none", "staged", "active", "terminal"}]
    /\ current \in Snapshot \cup {None}
    /\ catalog \in [Id -> Role] /\ alerts \in SUBSET Id
    /\ disc \in Discovery /\ deliveries \in [Consumer -> Delivery]
    /\ late \in SUBSET Id /\ listed \in SUBSET Id
    /\ migration \in Migration /\ faults \in Nat

Init ==
    /\ board \in Board /\ policy \in Version /\ seeded \in BOOLEAN
    /\ rows = [i \in Id |-> UnknownRow]
    /\ snaps = [s \in Snapshot |-> "none"] /\ current = None
    /\ catalog = [i \in Id |-> "none"] /\ alerts = {}
    /\ disc = IdleDiscovery
    /\ deliveries = [c \in Consumer |-> IdleDelivery]
    /\ late = {} /\ listed = {} /\ migration = NoMigration /\ faults = 0

Fault == faults < MaxFaults /\ faults' = faults + 1

-----------------------------------------------------------------------------
(* A statement that rewrites row i at the wall clock stamps updated_at past  *)
(* the start of the running pass. The dispatcher stamps the start of its own *)
(* run, which may be earlier. Any stamp differs from the listed one. late is *)
(* kept while the pass may still record omissions, listed while it closes.   *)
MayMiss == disc.pc \in {"fetch", "write"}
Stamp(i) == /\ late' = IF MayMiss THEN late \cup {i} ELSE late
            /\ listed' = listed \ {i}
StampEarlier(i) == /\ late' = late \ {i} \/ (MayMiss /\ late' = late \cup {i})
                   /\ listed' = listed \ {i}
StampPassStart(i) == late' = late \ {i} /\ listed' = listed \ {i}

SetRow(i, r) == rows' = [rows EXCEPT ![i] = r]

(***************************************************************************)
(* The world: the source edits its board, a deploy changes the policy,     *)
(* time passes.                                                            *)
(***************************************************************************)
BoardChanges ==
    /\ Fault
    /\ board' \in Board \ {board}
    /\ Revisit \/ snaps[[board |-> board', ver |-> policy]] = "none"
    /\ UNCHANGED <<policy, seeded, ledgerVars, effectVars, disc, deliveries,
                   late, listed, migration>>

PolicyChanges ==
    /\ Fault
    /\ policy' \in Version \ {policy}
    /\ Revisit \/ snaps[[board |-> board, ver |-> policy']] = "none"
    /\ UNCHANGED <<board, seeded, ledgerVars, effectVars, disc, deliveries,
                   late, listed, migration>>

RetryComesDue(i) ==
    /\ rows[i].waiting
    /\ SetRow(i, [rows[i] EXCEPT !.waiting = FALSE])
    /\ UNCHANGED <<worldVars, seeded, snaps, current, effectVars, disc,
                   deliveries, late, listed, migration, faults>>

Works(c, i) == deliveries[c].pc # "idle" /\ deliveries[c].id = i

(* A lease that outlives its delivery runs out in time; one that runs out  *)
(* under a slow delivery is a fault.                                       *)
LeaseExpires(i) ==
    /\ rows[i].state = "processing" /\ ~rows[i].expired
    /\ IF \E c \in Consumer : rows[i].owner = c /\ Works(c, i)
       THEN Fault ELSE UNCHANGED faults
    /\ SetRow(i, [rows[i] EXCEPT !.expired = TRUE])
    /\ UNCHANGED <<worldVars, seeded, snaps, current, effectVars, disc,
                   deliveries, late, listed, migration>>

(***************************************************************************)
(* The discovery pass. Passes of one source do not overlap. A delivery's   *)
(* effect claim, its effect and its settlement are consecutive statements  *)
(* of one invocation and polls are minutes apart: without SlowEffects none *)
(* starts in between.                                                      *)
(***************************************************************************)
StartPass ==
    /\ disc.pc = "idle"
    /\ SlowEffects \/ \A c \in Consumer :
                        deliveries[c].pc \notin {"claimed", "committed"}
    /\ disc' = [IdleDiscovery EXCEPT !.pc = "fetch"]
    /\ UNCHANGED <<worldVars, seeded, ledgerVars, effectVars, deliveries, late,
                   listed, migration, faults>>

(* An active snapshot is reused: at once by a legacy continuation, else    *)
(* when the diff has no omission to record. Otherwise it is staged.        *)
ReadLedger ==
    /\ disc.pc = "fetch"
    /\ LET snap == [board |-> board, ver |-> policy]
           omit == Omissions(rows, board)
           active == snaps[snap] = "active"
           todo == DOMAIN board
           stale == Classified(rows, snap, "stale-policy")
           actionable == {i \in todo : Classify(rows[i], board[i], policy) # "unchanged"}
       IN  \/ /\ active
              /\ disc' = [IdleDiscovery EXCEPT !.pc = "reopen", !.snap = snap]
              /\ late' = {} /\ UNCHANGED snaps
           \/ /\ active /\ omit = NoOmissions
              /\ disc' = [IdleDiscovery EXCEPT !.pc = "reopen", !.snap = snap,
                                               !.reopen = actionable]
              /\ late' = {} /\ UNCHANGED snaps
           \/ /\ ~(active /\ omit = NoOmissions)
              /\ disc' = [pc |-> "write", snap |-> snap, todo |-> todo,
                          omit |-> omit, reopen |-> actionable,
                          silent |-> stale]
              /\ snaps' = IF snaps[snap] = "none"
                          THEN [snaps EXCEPT ![snap] = "staged"] ELSE snaps
              /\ UNCHANGED late
    /\ UNCHANGED <<worldVars, seeded, rows, current, effectVars, deliveries,
                   listed, migration, faults>>

DiscoverRow(i) ==
    /\ disc.pc = "write" /\ i \in disc.todo
    /\ SetRow(i, PutRow(rows[i], disc.snap, disc.snap.board[i],
                        ~seeded \/ i \in disc.silent))
    /\ disc' = [disc EXCEPT !.todo = @ \ {i}]
    /\ StampPassStart(i)
    /\ UNCHANGED <<worldVars, seeded, snaps, current, effectVars, deliveries,
                   migration, faults>>

(* A row written since the pass started keeps its omission count.  *)
MissRow(i) ==
    /\ disc.pc = "write" /\ disc.todo = {} /\ disc.omit[i] > 0
    /\ IF i \in late
       THEN UNCHANGED <<rows, late, listed>>
       ELSE SetRow(i, ApplyOmission(rows[i], disc.omit[i])) /\ StampPassStart(i)
    /\ disc' = [disc EXCEPT !.omit[i] = 0]
    /\ UNCHANGED <<worldVars, seeded, snaps, current, effectVars, deliveries,
                   migration, faults>>

(* Rows that still need the object of an older snapshot keep it active. *)
Retained(s) == \E i \in Id : /\ rows[i].snap = s
                             /\ rows[i].state \in {"pending", "queued", "processing"}

ActivateSnapshot ==
    /\ disc.pc = "write" /\ disc.todo = {} /\ disc.omit = NoOmissions
    /\ snaps' = [s \in Snapshot |->
                   IF s = disc.snap THEN "active"
                   ELSE IF snaps[s] = "active" /\ ~Retained(s) THEN "terminal"
                   ELSE snaps[s]]
    /\ current' = disc.snap
    /\ disc' = [disc EXCEPT !.pc = "reopen"]
    /\ late' = {}
    /\ UNCHANGED <<worldVars, seeded, rows, effectVars, deliveries, listed,
                   migration, faults>>

Reopenable(r) == r.state \in {"settled", "quarantined", "absent"}

ReopenActionable(i) ==
    /\ disc.pc = "reopen" /\ i \in disc.reopen
    /\ disc' = [disc EXCEPT !.reopen = @ \ {i}]
    /\ IF Reopenable(rows[i])
       THEN /\ SetRow(i, ReopenRow(rows[i], disc.snap.ver, rows[i].baseline))
            /\ StampPassStart(i)
       ELSE UNCHANGED <<rows, late, listed>>
    /\ UNCHANGED <<worldVars, seeded, snaps, current, effectVars, deliveries,
                   migration, faults>>

ClosurePending(r) == r.closing /\ r.omissions >= 2

ListClosures ==
    /\ disc.pc = "reopen" /\ disc.reopen = {} /\ snaps[disc.snap] = "active"
    /\ disc' = [disc EXCEPT !.pc = "close"]
    /\ listed' = {i \in Id : ClosurePending(rows[i]) /\ ~rows[i].claimed}
    /\ UNCHANGED <<worldVars, seeded, ledgerVars, effectVars, deliveries,
                   late, migration, faults>>

Closable(i) == i \in listed /\ (catalog[i] = "none" \/ disc.snap = current)

(* The negative effect commits only while the listed row is unchanged and  *)
(* the pass's snapshot is the latest active one. Without an occurrence     *)
(* there is nothing to close and no fence to pass.                         *)
CloseOmission(i) ==
    /\ disc.pc = "close" /\ Closable(i)
    /\ IF catalog[i] = "none" THEN UNCHANGED catalog
       ELSE /\ ClosurePending(rows[i]) /\ ~rows[i].claimed
            /\ catalog' = [catalog EXCEPT ![i] = "closed"]
    /\ disc' = [disc EXCEPT !.pc = "ack", !.todo = {i}]
    /\ UNCHANGED <<worldVars, seeded, ledgerVars, alerts, deliveries, late,
                   listed, migration, faults>>

(* The acknowledgement keeps updated_at; the listing is spent. *)
AcknowledgeOmission(i) ==
    /\ disc.pc = "ack" /\ disc.todo = {i}
    /\ IF i \in listed /\ ClosurePending(rows[i]) /\ ~rows[i].claimed
       THEN SetRow(i, AcknowledgeClosure(rows[i])) ELSE UNCHANGED rows
    /\ listed' = listed \ {i}
    /\ disc' = [disc EXCEPT !.pc = "close", !.todo = {}]
    /\ UNCHANGED <<worldVars, seeded, snaps, current, effectVars, deliveries,
                   late, migration, faults>>

(* The poll stores its checkpoint only when no closure is left pending, or *)
(* when an older snapshot it reused was terminalized under it.             *)
FinishPass ==
    /\ \/ disc.pc = "close" /\ \A i \in Id : ~ClosurePending(rows[i])
       \/ disc.pc = "reopen" /\ disc.reopen = {} /\ snaps[disc.snap] # "active"
    /\ disc' = IdleDiscovery
    /\ seeded' = TRUE /\ listed' = {}
    /\ UNCHANGED <<worldVars, ledgerVars, effectVars, deliveries, late,
                   migration, faults>>

(* No listed row can be closed any more and some closure is pending: the   *)
(* pass throws and the poll fails without a checkpoint.                    *)
ThrowPass ==
    /\ disc.pc = "close"
    /\ \E i \in Id : ClosurePending(rows[i])
    /\ \A i \in Id : ~Closable(i)
    /\ disc' = IdleDiscovery /\ listed' = {}
    /\ UNCHANGED <<worldVars, seeded, ledgerVars, effectVars, deliveries, late,
                   migration, faults>>

CrashPass ==
    /\ disc.pc # "idle" /\ Fault
    /\ disc' = IdleDiscovery /\ late' = {} /\ listed' = {}
    /\ UNCHANGED <<worldVars, seeded, ledgerVars, effectVars, deliveries,
                   migration>>

(***************************************************************************)
(* The scheduled dispatcher: reclaim, bootstrap, policy migration, queue.  *)
(***************************************************************************)
ReclaimLease(i) ==
    /\ rows[i].state = "processing" /\ rows[i].expired
    /\ SetRow(i, ReleaseLease(rows[i])) /\ StampEarlier(i)
    /\ UNCHANGED <<worldVars, seeded, snaps, current, effectVars, disc,
                   deliveries, migration, faults>>

BootstrapRow(i) ==
    /\ current # None
    /\ rows[i].snap = current /\ rows[i].ver = current.ver
    /\ rows[i].state = "settled" /\ rows[i].attempts = 0
    /\ SetRow(i, ReopenUnprocessed(rows[i])) /\ StampEarlier(i)
    /\ UNCHANGED <<worldVars, seeded, snaps, current, effectVars, disc,
                   deliveries, migration, faults>>

(* Mutant of ListStalePolicy: the version is not compared.                  *)
ListSettledOfAnyPolicy(i) ==
    /\ current # None /\ migration = NoMigration
    /\ rows[i].state = "settled"
    /\ migration' = [id |-> i, ver |-> current.ver]
    /\ UNCHANGED <<worldVars, seeded, ledgerVars, effectVars, disc, deliveries,
                   late, listed, faults>>

(* The migration lists a settled row of another version, then reopens it   *)
(* by id: the row may have moved in between, the update asks only its state.*)
ListStalePolicy(i) ==
    /\ current # None /\ migration = NoMigration
    /\ rows[i].state = "settled" /\ rows[i].ver # current.ver
    /\ migration' = [id |-> i, ver |-> current.ver]
    /\ UNCHANGED <<worldVars, seeded, ledgerVars, effectVars, disc, deliveries,
                   late, listed, faults>>

MigratePolicy(i) ==
    /\ migration.id = i
    /\ IF Reopenable(rows[i])
       THEN SetRow(i, ReopenRow(rows[i], migration.ver, TRUE)) /\ StampEarlier(i)
       ELSE UNCHANGED <<rows, late, listed>>
    /\ migration' = NoMigration
    /\ UNCHANGED <<worldVars, seeded, snaps, current, effectVars, disc,
                   deliveries, faults>>

Dispatchable(r) == /\ r.state \in {"pending", "queued"} /\ ~r.waiting
                   /\ r.omissions < 2

QueueRow(i) ==
    /\ Dispatchable(rows[i])
    /\ SetRow(i, MarkQueued(rows[i])) /\ StampEarlier(i)
    /\ UNCHANGED <<worldVars, seeded, snaps, current, effectVars, disc,
                   deliveries, migration, faults>>

(* Each acknowledged handoff terminalizes the replaced snapshots that no   *)
(* lane row needs any more.                                                *)
TerminalizeReplaced ==
    /\ snaps' = [s \in Snapshot |->
                   IF snaps[s] = "active" /\ s # current /\ ~Retained(s)
                   THEN "terminal" ELSE snaps[s]]
    /\ UNCHANGED <<worldVars, seeded, rows, current, effectVars, disc,
                   deliveries, late, listed, migration, faults>>

(* The operator replays a row whose snapshot is retained. *)
ReplayRow(i) ==
    /\ Fault
    /\ Reopenable(rows[i])
    /\ SetRow(i, ReopenRow(rows[i], rows[i].ver, rows[i].baseline)) /\ Stamp(i)
    /\ UNCHANGED <<worldVars, seeded, snaps, current, effectVars, disc,
                   deliveries, migration>>

(***************************************************************************)
(* A delivery of the admission queue, one row of its batch at a time.      *)
(***************************************************************************)
Deliver(c, i) ==
    /\ deliveries[c].pc = "idle"
    /\ rows[i].state \in {"pending", "queued", "processing"}
    /\ rows[i].omissions < 2 /\ ~rows[i].waiting
    /\ rows[i].state = "processing" => rows[i].expired
    /\ SetRow(i, AcquireLease(rows[i], c)) /\ Stamp(i)
    /\ deliveries' = [deliveries EXCEPT ![c] =
          [pc |-> "leased", id |-> i, snap |-> rows[i].snap,
           material |-> rows[i].material, ver |-> rows[i].ver,
           baseline |-> rows[i].baseline, job |-> rows[i].job,
           attempts |-> rows[i].attempts, verdict |-> "none"]]
    /\ UNCHANGED <<worldVars, seeded, snaps, current, effectVars, disc,
                   migration, faults>>

(* The delivery's own step changes only its memory. What none of its later *)
(* steps reads is forgotten: a release asks for the lease alone.           *)
Proceed(c, pc) ==
    deliveries' = [deliveries EXCEPT
        ![c].pc = pc, ![c].job = FALSE,
        ![c].verdict = IF pc = "release" THEN "none" ELSE @]
Forget(c) == deliveries' = [deliveries EXCEPT ![c] = IdleDelivery]

(* The evaluation reads nothing the lane writes: its verdict is chosen when *)
(* the effect is claimed.                                                  *)
Claim(c) ==
    LET k == deliveries[c] IN
    /\ k.pc = "leased"
    /\ IF HoldsLease(rows[k.id], k, c) /\ rows[k.id].omissions < 2
       THEN /\ SetRow(k.id, ClaimEffect(rows[k.id])) /\ Stamp(k.id)
            /\ \E verdict \in {"admitted", "blocked"} :
                 deliveries' = [deliveries EXCEPT ![c].pc = "claimed",
                                                  ![c].verdict = verdict]
       ELSE Proceed(c, "release") /\ UNCHANGED <<rows, late, listed>>
    /\ UNCHANGED <<worldVars, seeded, snaps, current, effectVars, disc,
                   migration, faults>>

(* Mutant of EffectFence: only the claim is asked for, not the lease.       *)
EffectFenceOfAnyLease(c) ==
    LET r == rows[deliveries[c].id]
    IN  r.claimed /\ r.omissions < 2 /\ ~r.closing

(* The fence every statement of the catalog batch repeats. *)
EffectFence(c) ==
    LET k == deliveries[c]
        r == rows[k.id]
    IN  HoldsLease(r, k, c) /\ r.claimed /\ r.omissions < 2 /\ ~r.closing

(* Mutant of Notify: the baseline is not asked for.                         *)
NotifyAnyBaseline(k, promotion) ==
    k.verdict = "admitted" /\ (~k.job \/ promotion)

(* A baseline is silent. A row that has a job already is too, unless it is *)
(* promoted: a role of a trusted community has qualified for alerts since. *)
Notify(k, promotion) ==
    k.verdict = "admitted" /\ ~k.baseline /\ (~k.job \/ promotion)

(* A superseded effect is dropped without an error. A new-role event is    *)
(* written with the catalog record, in the same batch: with the first      *)
(* record of a role, or with a later one that promotes it. Whether the     *)
(* admission is eligible for alerts and whether it is a promotion rests on *)
(* evidence the lane's state does not hold (the destination, the count of  *)
(* complete snapshots, the earlier occurrence's admission, records of other*)
(* sources): both are chosen. The event's id is the role's, so it is       *)
(* written once.                                                           *)
Commit(c) ==
    LET k == deliveries[c] IN
    /\ k.pc = "claimed"
    /\ IF EffectFence(c)
       THEN /\ catalog' = [catalog EXCEPT ![k.id] =
                  IF k.verdict = "admitted" THEN k.material
                  ELSE IF catalog[k.id] = "none" THEN "none" ELSE "closed"]
            /\ \E alertEligible, promotion \in BOOLEAN :
                 alerts' = IF /\ alertEligible /\ Notify(k, promotion)
                              /\ catalog[k.id] = "none" \/ promotion
                           THEN alerts \cup {k.id} ELSE alerts
       ELSE UNCHANGED effectVars
    /\ Proceed(c, "committed")
    /\ UNCHANGED <<worldVars, seeded, ledgerVars, disc, late, listed,
                   migration, faults>>

Settle(c) ==
    LET k == deliveries[c] IN
    /\ k.pc = "committed"
    /\ IF HoldsLease(rows[k.id], k, c) /\ rows[k.id].claimed
       THEN /\ SetRow(k.id, SettleRow(rows[k.id], k.verdict)) /\ Stamp(k.id)
            /\ Forget(c)
       ELSE Proceed(c, "release") /\ UNCHANGED <<rows, late, listed>>
    /\ UNCHANGED <<worldVars, seeded, snaps, current, effectVars, disc,
                   migration, faults>>

(* A lost claim, settlement, retry or quarantine releases exactly the lease *)
(* this delivery took; the baseline is not part of that guard.             *)
Release(c) ==
    LET k == deliveries[c] IN
    /\ k.pc = "release"
    /\ IF LeaseGuard(rows[k.id], k, c)
       THEN SetRow(k.id, ReleaseLease(rows[k.id])) /\ Stamp(k.id)
       ELSE UNCHANGED <<rows, late, listed>>
    /\ Forget(c)
    /\ UNCHANGED <<worldVars, seeded, snaps, current, effectVars, disc,
                   migration, faults>>

(* A probe, a provider or the catalog write throws; after the write, the   *)
(* icon queue may. A systemic failure releases the lease and consumes no   *)
(* attempt.                                                                *)
MayThrow(c) == deliveries[c].pc \in {"leased", "claimed", "committed"}

InfrastructureFailure(c) ==
    /\ MayThrow(c) /\ Fault
    /\ Proceed(c, "release")
    /\ UNCHANGED <<worldVars, seeded, ledgerVars, effectVars, disc, late,
                   listed, migration>>

(* A transient failure consumes one unless the provider deferred the row;  *)
(* the last one quarantines.                                               *)
RowFailure(c) ==
    LET k == deliveries[c] IN
    /\ MayThrow(c) /\ Fault
    /\ IF HoldsLease(rows[k.id], k, c)
       THEN /\ \E deferred \in BOOLEAN :
                 LET attempts == IF deferred THEN k.attempts ELSE k.attempts + 1
                 IN  SetRow(k.id, IF ~deferred /\ attempts >= MaxAttempts
                                  THEN QuarantineRow(rows[k.id], attempts)
                                  ELSE ScheduleRetry(rows[k.id], attempts))
            /\ Stamp(k.id)
            /\ Forget(c)
       ELSE Proceed(c, "release") /\ UNCHANGED <<rows, late, listed>>
    /\ UNCHANGED <<worldVars, seeded, snaps, current, effectVars, disc,
                   migration>>

CrashDelivery(c) ==
    /\ deliveries[c].pc # "idle" /\ Fault
    /\ Forget(c)
    /\ UNCHANGED <<worldVars, seeded, ledgerVars, effectVars, disc, late,
                   listed, migration>>

-----------------------------------------------------------------------------
Discover ==
    \/ StartPass \/ ReadLedger \/ ActivateSnapshot \/ ListClosures
    \/ FinishPass \/ ThrowPass
    \/ \E i \in Id : DiscoverRow(i) \/ MissRow(i) \/ ReopenActionable(i)
                       \/ CloseOmission(i) \/ AcknowledgeOmission(i)

Dispatch ==
    \/ TerminalizeReplaced
    \/ \E i \in Id : ReclaimLease(i) \/ BootstrapRow(i) \/ ListStalePolicy(i)
                       \/ MigratePolicy(i) \/ QueueRow(i)

Consume(c) ==
    \/ \E i \in Id : Deliver(c, i)
    \/ Claim(c) \/ Commit(c) \/ Settle(c) \/ Release(c)

Environment ==
    \/ BoardChanges \/ PolicyChanges \/ CrashPass
    \/ \E i \in Id : RetryComesDue(i) \/ LeaseExpires(i) \/ ReplayRow(i)
    \/ \E c \in Consumer : InfrastructureFailure(c) \/ RowFailure(c)
                             \/ CrashDelivery(c)

Next == Discover \/ Dispatch \/ Environment \/ \E c \in Consumer : Consume(c)

Spec == Init /\ [][Next]_vars

(***************************************************************************)
(* What the schedulers give: the cron starts passes and dispatcher runs    *)
(* again and again and each goes on until it ends or is killed; the queue  *)
(* redelivers; time passes. Nothing is assumed of faults. A poll that only *)
(* continues an earlier one is not the only kind for ever.                 *)
(***************************************************************************)
CompletePass == ReadLedger /\ disc'.pc = "write"
Fairness ==
    /\ WF_vars(Discover) /\ SF_vars(CompletePass)
    /\ \A c \in Consumer : WF_vars(Consume(c))
    /\ \A i \in Id : /\ WF_vars(RetryComesDue(i)) /\ WF_vars(LeaseExpires(i))
                     /\ WF_vars(ReclaimLease(i)) /\ WF_vars(BootstrapRow(i))
                     /\ WF_vars(ListStalePolicy(i)) /\ WF_vars(MigratePolicy(i))

LiveSpec == Spec /\ Fairness

-----------------------------------------------------------------------------
(* A row settled by the lane and still on its source's boards tells what   *)
(* the catalog shows: admitted, the role is open with the very material    *)
(* that was graded; blocked, it is not open. The settlement and the effect *)
(* are two transactions, and the ledger row moves between them.            *)
Graded(r) == r.state = "settled" /\ r.attempts > 0 /\ r.omissions < 2
Agrees(role, verdict, material) ==
    /\ verdict = "admitted" => role = material
    /\ verdict = "blocked" => role \in {"none", "closed"}
SettledAgreesWithCatalog ==
    \A i \in Id : Graded(rows[i]) =>
        Agrees(catalog[i], rows[i].decision, rows[i].material)

(* A role two complete boards missed is either closed in the catalog or    *)
(* still owed its closure: no interleaving of a late effect, a crash and   *)
(* the closure's two writes leaves it open and forgotten.                  *)
MissedRolesClose ==
    \A i \in Id : rows[i].omissions = 2 /\ ~rows[i].closing
                      => catalog[i] \in {"none", "closed"}

(* A new identity, a replay or a migration gives a fresh budget; a failure *)
(* spends it: no row waits in the lane with a spent budget and none is     *)
(* quarantined before it is.                                               *)
AttemptBudget ==
    \A i \in Id :
        /\ rows[i].state \in {"pending", "queued", "processing"}
             => rows[i].attempts < MaxAttempts
        /\ rows[i].state = "quarantined" => rows[i].attempts = MaxAttempts

(* A pass that has done its writes has left every row of its board in the  *)
(* ledger with the board's material and no omission: what the lane grades  *)
(* from then on is what the source lists.                                  *)
LedgerMatchesBoard ==
    disc.pc \in {"reopen", "close", "ack"} =>
        \A i \in DOMAIN disc.snap.board :
            rows[i].material = disc.snap.board[i] /\ rows[i].omissions = 0

(* A board that returns to an earlier content makes that content's snapshot *)
(* the active one again: after its writes a pass has the snapshot it read as *)
(* the latest active one, which is what every closure is fenced by.         *)
ReturningBoardIsActive ==
    disc.pc \in {"reopen", "close", "ack"} => disc.snap = current

(* The lane implements LanePromise: what its ledger states of a role is a   *)
(* grade the lane gave, or a closure it acknowledged; what the workers, the *)
(* pass and the dispatcher do in between is hidden.                        *)
VerdictOf(r) ==
    IF Graded(r) /\ r.decision # "none"
    THEN [kind |-> r.decision,
          material |-> IF r.decision = "admitted" THEN r.material ELSE None]
    ELSE IF r.omissions = 2 /\ ~r.closing
    THEN [kind |-> "gone", material |-> None]
    ELSE [kind |-> "none", material |-> None]
Promise == INSTANCE LanePromise WITH verdict <- [i \in Id |-> VerdictOf(rows[i])]
LaneKeepsItsPromise == Promise!Spec

(* Silence is kept: a row once marked as notification baseline stays so     *)
(* through re-discovery, reopening, migration and settlement, and no        *)
(* delivery writes a new-role alert for it, also when the mark was stamped  *)
(* under the running delivery.                                             *)
SilenceIsKept ==
    [][\A i \in Id : rows[i].baseline
            => rows'[i].baseline /\ i \notin alerts' \ alerts]_vars

(* Once the faults are over every listed role is graded as it is listed,   *)
(* under the policy that runs, or rests in quarantine.                     *)
GradedAsListed(i) ==
    /\ rows[i].material = board[i] /\ rows[i].omissions = 0
    /\ \/ rows[i].state = "quarantined"
       \/ rows[i].state = "settled" /\ rows[i].attempts > 0
            /\ rows[i].ver = policy
ListedRolesAreGraded ==
    <>[](\A i \in DOMAIN board : GradedAsListed(i))

(* Once the faults are over a role the source lists no longer is closed.   *)
UnlistedRolesClose ==
    <>[](\A i \in Id \ DOMAIN board : catalog[i] \in {"none", "closed"})

=============================================================================
