-------------------------- MODULE AdmissionDispatch --------------------------
(***************************************************************************)
(* How due rows of the ledger reach the admission consumer: the scheduled  *)
(* dispatcher with its ready lane and its fleet sweep, the hand-off        *)
(* records that keep a run from sending what an earlier one sent, the      *)
(* queue, and the one consumer that drains it.                             *)
(*                                                                         *)
(* Of a row only what the dispatcher asks is kept (AdmissionLane has the   *)
(* rest). The snapshot, the admission version and the baseline of a row    *)
(* are one key: rows of one source and one key make one message. The       *)
(* sources are the active ones, numbered in the order of their ids.        *)
(***************************************************************************)
EXTENDS Integers, FiniteSets

CONSTANTS
    Sources,      \* how many sources have an active snapshot
    Id, SourceOf, \* rows, and the source of each
    Key,          \* identities a row can have
    None,         \* no row, no batch
    SourceLimit,  \* ADMISSION_V2_SOURCE_LIMIT
    MaxCopies,    \* bound on the messages of one batch in the queue
    MaxFaults     \* bound on failures and outside changes

Source == 1..Sources
ASSUME SourcesExist == Sources \in Nat \ {0}
ASSUME RowsHaveSources == SourceOf \in [Id -> Source]
ASSUME BoundsArePositive == /\ SourceLimit \in Nat \ {0}
                            /\ MaxCopies \in Nat \ {0} /\ MaxFaults \in Nat
ASSUME NoneIsNoValue == None \notin Id \cup Key

(* The batch id is a hash of exactly these, so a batch is its own identity. *)
Batch == {b \in [src : Source, key : Key, ids : (SUBSET Id) \ {{}}] :
            \A i \in b.ids : SourceOf[i] = b.src}

VARIABLES
    rows,     \* ingestion_rows, as the dispatcher sees them
    handoffs, \* ingestion_admission_handoffs by batch
    copies,   \* messages of a batch in the queue or in delivery
    allowed,  \* the sources of the admission allow list
    cursor,   \* the source the sweep has reached, 0 for none
    run,      \* the dispatcher run
    consumer, \* the delivery
    lost,     \* batches a message of which was lost since they were sent
    faults    \* faults spent so far

vars == <<rows, handoffs, copies, allowed, cursor, run, consumer, lost, faults>>

(* rest: settled, quarantined, absent or no row; queued: pending or queued *)
(* and due; waiting: retry_at in the future; lapsed: processing with an    *)
(* expired lease.                                                          *)
Row == [state : {"rest", "queued", "waiting", "leased", "lapsed"}, key : Key]

(* A hand-off is fresh while its dispatched_at is within the lease. *)
Handoff == {"none", "fresh", "stale", "acked"}

RunPc == {"idle", "next", "list", "cover", "mark", "advance"}
Run == [pc : RunPc, lane : {"ready", "sweep"}, src : Source \cup {0},
        ready : SUBSET Source, page : SUBSET Source, full : BOOLEAN,
        moved : BOOLEAN, rows : [Id -> Key \cup {None}], out : SUBSET Batch]
NoRows == [i \in Id |-> None]
IdleRun == [pc |-> "idle", lane |-> "ready", src |-> 0, ready |-> {},
            page |-> {}, full |-> FALSE, moved |-> FALSE, rows |-> NoRows,
            out |-> {}]

Delivery == [pc : {"idle", "rows", "ack"}, batch : Batch \cup {None},
             todo : SUBSET Id, leased : Id \cup {None}]
IdleDelivery == [pc |-> "idle", batch |-> None, todo |-> {}, leased |-> None]

(* Type correctness of the hand-off table, the queue and the processes. *)
TypeOK ==
    /\ rows \in [Id -> Row] /\ handoffs \in [Batch -> Handoff]
    /\ copies \in [Batch -> 0..MaxCopies]
    /\ allowed \in SUBSET Source /\ cursor \in Source \cup {0}
    /\ run \in Run /\ consumer \in Delivery
    /\ lost \in SUBSET Batch /\ faults \in Nat

Init ==
    /\ rows \in [Id -> [state : {"queued"}, key : Key]]
    /\ handoffs = [b \in Batch |-> "none"]
    /\ copies = [b \in Batch |-> 0]
    /\ allowed \in SUBSET Source /\ cursor = 0
    /\ run = IdleRun /\ consumer = IdleDelivery
    /\ lost = {} /\ faults = 0

Fault == faults < MaxFaults /\ faults' = faults + 1
SetState(i, state) == rows' = [rows EXCEPT ![i].state = state]

-----------------------------------------------------------------------------
(***************************************************************************)
(* The scheduled run: first the sources with due rows, then one page of    *)
(* the fleet from the cursor on. Its budget of time may end either part.   *)
(***************************************************************************)
Due(r) == r.state \in {"queued", "lapsed"}

(* The first SourceLimit sources after the cursor, or after the start. *)
PageAfter(c) == {s \in Source : s > c /\ s <= c + SourceLimit}
Page == IF PageAfter(cursor) = {} THEN PageAfter(0) ELSE PageAfter(cursor)

StartRun ==
    /\ run.pc = "idle"
    /\ run' = [IdleRun EXCEPT !.pc = "next", !.page = Page,
                  !.full = Cardinality(Page) = SourceLimit,
                  !.ready = {SourceOf[i] : i \in {j \in Id : Due(rows[j])}}]
    /\ UNCHANGED <<rows, handoffs, copies, allowed, cursor, consumer, lost, faults>>

(* The plan of a source reclaims every expired lease first. *)
BeginPlan(s) ==
    /\ rows' = [i \in Id |-> IF rows[i].state = "lapsed"
                             THEN [rows[i] EXCEPT !.state = "queued"]
                             ELSE rows[i]]
    /\ run' = [run EXCEPT !.pc = "list", !.src = s, !.ready = @ \ {s}]

NextReady(s) ==
    /\ run.pc = "next" /\ run.lane = "ready" /\ s \in run.ready
    /\ IF s \in allowed THEN BeginPlan(s)
       ELSE run' = [run EXCEPT !.ready = @ \ {s}] /\ UNCHANGED rows
    /\ UNCHANGED <<handoffs, copies, allowed, cursor, consumer, lost,
                   faults>>

BeginSweep ==
    /\ run.pc = "next" /\ run.lane = "ready"
    /\ run' = [run EXCEPT !.lane = "sweep", !.ready = {}]
    /\ UNCHANGED <<rows, handoffs, copies, allowed, cursor, consumer, lost, faults>>

NextInPage(s) ==
    /\ run.pc = "next" /\ run.lane = "sweep"
    /\ s \in run.page /\ \A t \in run.page : s <= t
    /\ IF s \in allowed THEN BeginPlan(s)
       ELSE run' = [run EXCEPT !.pc = "advance", !.src = s] /\ UNCHANGED rows
    /\ UNCHANGED <<handoffs, copies, allowed, cursor, consumer, lost,
                   faults>>

ListRows ==
    /\ run.pc = "list"
    /\ run' = [run EXCEPT !.pc = "cover", !.rows =
                  [i \in Id |-> IF SourceOf[i] = run.src /\ Due(rows[i])
                                THEN rows[i].key ELSE None]]
    /\ UNCHANGED <<rows, handoffs, copies, allowed, cursor, consumer, lost, faults>>

(* Mutants of Covered: a hand-off covers a row of its own key only; a stale *)
(* hand-off covers its rows as a fresh one does.                           *)
CoveredByKey(i) ==
    \E b \in Batch : handoffs[b] = "fresh" /\ i \in b.ids /\ b.key = run.rows[i]
CoveredForEver(i) ==
    \E b \in Batch : handoffs[b] \in {"fresh", "stale"} /\ i \in b.ids

Covered(i) == \E b \in Batch : handoffs[b] = "fresh" /\ i \in b.ids

CoverRows ==
    /\ run.pc = "cover"
    /\ run' = [run EXCEPT !.pc = "mark", !.rows =
                  [i \in Id |-> IF Covered(i) THEN None ELSE run.rows[i]]]
    /\ UNCHANGED <<rows, handoffs, copies, allowed, cursor, consumer, lost, faults>>

(* The mark filters the group: a queued row stays queued. A batch that was *)
(* recorded before keeps its record as it is.                              *)
RecordGroup(k) ==
    LET group == {i \in Id : run.rows[i] = k}
        marked == {i \in group : rows[i].state = "queued" /\ rows[i].key = k}
        b == [src |-> run.src, key |-> k, ids |-> marked]
    IN  /\ run.pc = "mark" /\ group # {}
        /\ run' = [run EXCEPT
              !.rows = [i \in Id |-> IF i \in group THEN None ELSE run.rows[i]],
              !.out = IF marked = {} THEN @ ELSE @ \cup {b}]
        /\ handoffs' = IF marked # {} /\ handoffs[b] = "none"
                       THEN [handoffs EXCEPT ![b] = "fresh"] ELSE handoffs
        /\ UNCHANGED <<rows, copies, allowed, cursor, consumer, lost,
                       faults>>

AfterSource == IF run.lane = "sweep" THEN "advance" ELSE "next"

(* Mutant of Send: what was once handed off is not sent again.              *)
SendNewBatches ==
    LET new == {b \in run.out : copies[b] = 0 /\ handoffs[b] = "fresh"} IN
    /\ run.pc = "mark" /\ run.rows = NoRows
    /\ copies' = [b \in Batch |-> copies[b] + IF b \in new THEN 1 ELSE 0]
    /\ lost' = lost \ new
    /\ run' = [run EXCEPT !.pc = AfterSource, !.out = {}]
    /\ UNCHANGED <<rows, handoffs, allowed, cursor, consumer, faults>>

Send ==
    /\ run.pc = "mark" /\ run.rows = NoRows
    /\ \A b \in run.out : copies[b] < MaxCopies
    /\ copies' = [b \in Batch |-> copies[b] + IF b \in run.out THEN 1 ELSE 0]
    /\ lost' = lost \ run.out
    /\ run' = [run EXCEPT !.pc = AfterSource, !.out = {}]
    /\ UNCHANGED <<rows, handoffs, allowed, cursor, consumer, faults>>

(* Mutant of Advance: the cursor moves when the page is done.               *)
AdvanceAtPageEnd ==
    /\ run.pc = "advance"
    /\ cursor' = IF run.page = {run.src}
                 THEN IF run.full THEN run.src ELSE 0
                 ELSE cursor
    /\ run' = [run EXCEPT !.pc = "next", !.page = @ \ {run.src}, !.src = 0,
                          !.moved = TRUE]
    /\ UNCHANGED <<rows, handoffs, copies, allowed, consumer, lost,
                   faults>>

(* The cursor moves with every source, so that a run cut short goes on     *)
(* where it stopped. The fleet ends with a page that is not full.          *)
Advance ==
    /\ run.pc = "advance"
    /\ cursor' = IF run.page = {run.src} /\ ~run.full THEN 0 ELSE run.src
    /\ run' = [run EXCEPT !.pc = "next", !.page = @ \ {run.src}, !.src = 0,
                          !.moved = TRUE]
    /\ UNCHANGED <<rows, handoffs, copies, allowed, consumer, lost,
                   faults>>

(* The page is done, or the time is up after at least one source. *)
FinishRun ==
    /\ run.pc = "next" /\ run.lane = "sweep" /\ run.moved
    /\ run' = IdleRun
    /\ UNCHANGED <<rows, handoffs, copies, allowed, cursor, consumer, lost, faults>>

(* A statement or the send throws, or the worker dies: the run ends where  *)
(* it is, and what it recorded is not sent.                                *)
FailRun ==
    /\ run.pc # "idle" /\ Fault
    /\ lost' = lost \cup run.out
    /\ run' = IdleRun
    /\ UNCHANGED <<rows, handoffs, copies, allowed, cursor, consumer>>

-----------------------------------------------------------------------------
(***************************************************************************)
(* The queue gives one message at a time to one consumer, and again if it  *)
(* is not acknowledged.                                                    *)
(***************************************************************************)
Remove(b) == copies' = [copies EXCEPT ![b] = @ - 1]
AcknowledgeHandoff(b) == handoffs' = [handoffs EXCEPT ![b] = "acked"]

TakeMessage(b) ==
    /\ consumer.pc = "idle" /\ copies[b] > 0 /\ b.src \in allowed
    /\ consumer' = [pc |-> "rows", batch |-> b, todo |-> b.ids, leased |-> None]
    /\ UNCHANGED <<rows, handoffs, copies, allowed, cursor, run, lost,
                   faults>>

(* A source off the list: the message is acknowledged, its hand-off not. *)
DropMessage(b) ==
    /\ consumer.pc = "idle" /\ copies[b] > 0 /\ b.src \notin allowed
    /\ Remove(b) /\ lost' = lost \cup {b}
    /\ UNCHANGED <<rows, handoffs, allowed, cursor, run, consumer,
                   faults>>

(* Admission switched off: both are acknowledged. Billing stopped: only    *)
(* the message is.                                                         *)
DrainMessage(b) ==
    /\ consumer.pc = "idle" /\ copies[b] > 0 /\ Fault
    /\ Remove(b)
    /\ \/ AcknowledgeHandoff(b) /\ UNCHANGED lost
       \/ lost' = lost \cup {b} /\ UNCHANGED handoffs
    /\ UNCHANGED <<rows, allowed, cursor, run, consumer>>

(* A row that is not due under the message's key is skipped. *)
LeaseRow(i) ==
    /\ consumer.pc = "rows" /\ consumer.leased = None /\ i \in consumer.todo
    /\ IF Due(rows[i]) /\ rows[i].key = consumer.batch.key
       THEN /\ SetState(i, "leased")
            /\ consumer' = [consumer EXCEPT !.todo = @ \ {i}, !.leased = i]
       ELSE /\ consumer' = [consumer EXCEPT !.todo = @ \ {i}]
            /\ UNCHANGED rows
    /\ UNCHANGED <<handoffs, copies, allowed, cursor, run, lost,
                   faults>>

(* The row settles or rests in quarantine, waits for its retry, or has     *)
(* changed under the delivery: then the lease is released, or left to      *)
(* expire if it is no longer the delivery's.                               *)
EndRow ==
    LET i == consumer.leased
        held == rows[i].state \in {"leased", "lapsed"}
    IN  /\ consumer.pc = "rows" /\ i # None
        /\ \/ /\ held /\ rows[i].key = consumer.batch.key
              /\ \E state \in {"rest", "waiting"} : SetState(i, state)
           \/ /\ held /\ rows[i].key # consumer.batch.key
              /\ SetState(i, "queued") \/ UNCHANGED rows
           \/ ~held /\ UNCHANGED rows
        /\ consumer' = [consumer EXCEPT !.leased = None]
        /\ UNCHANGED <<handoffs, copies, allowed, cursor, run, lost,
                       faults>>

(* Mutant of AcknowledgeBatch: the message is acknowledged before the       *)
(* hand-off.                                                               *)
AcknowledgeMessageFirst ==
    /\ consumer.pc = "rows" /\ consumer.leased = None /\ consumer.todo = {}
    /\ Remove(consumer.batch)
    /\ consumer' = IdleDelivery
    /\ UNCHANGED <<rows, handoffs, allowed, cursor, run, lost, faults>>

(* Mutant of AcknowledgeBatch: both are acknowledged, then the message     *)
(* again.                                                                  *)
AcknowledgeMessageTwice ==
    /\ consumer.pc = "rows" /\ consumer.leased = None /\ consumer.todo = {}
    /\ AcknowledgeHandoff(consumer.batch) /\ Remove(consumer.batch)
    /\ consumer' = [consumer EXCEPT !.pc = "ack"]
    /\ UNCHANGED <<rows, allowed, cursor, run, lost, faults>>

AcknowledgeBatch ==
    /\ consumer.pc = "rows" /\ consumer.leased = None /\ consumer.todo = {}
    /\ AcknowledgeHandoff(consumer.batch)
    /\ consumer' = [consumer EXCEPT !.pc = "ack"]
    /\ UNCHANGED <<rows, copies, allowed, cursor, run, lost, faults>>

AcknowledgeMessage ==
    /\ consumer.pc = "ack"
    /\ Remove(consumer.batch)
    /\ consumer' = IdleDelivery
    /\ UNCHANGED <<rows, handoffs, allowed, cursor, run, lost, faults>>

(* An unacknowledged message is delivered again or, its retries spent, put *)
(* into the dead-letter queue.                                             *)
Redeliver ==
    /\ consumer' = IdleDelivery
    /\ \/ UNCHANGED <<copies, lost>>
       \/ Remove(consumer.batch) /\ lost' = lost \cup {consumer.batch}

(* A systemic failure releases the leased row; a death leaves its lease.   *)
FailDelivery ==
    LET i == consumer.leased IN
    /\ consumer.pc # "idle" /\ Fault
    /\ \/ /\ i # None /\ rows[i].state \in {"leased", "lapsed"}
          /\ rows[i].key = consumer.batch.key
          /\ SetState(i, "queued")
       \/ UNCHANGED rows
    /\ Redeliver
    /\ UNCHANGED <<handoffs, allowed, cursor, run>>

-----------------------------------------------------------------------------
(***************************************************************************)
(* The world: time passes, discovery and the operator move rows, a deploy  *)
(* changes the allow list.                                                 *)
(***************************************************************************)
HandoffAges(b) ==
    /\ b \notin run.out
    /\ handoffs[b] = "fresh"
    /\ handoffs' = [handoffs EXCEPT ![b] = "stale"]
    /\ UNCHANGED <<rows, copies, allowed, cursor, run, consumer, lost, faults>>

RetryComesDue(i) ==
    /\ rows[i].state = "waiting" /\ SetState(i, "queued")
    /\ UNCHANGED <<handoffs, copies, allowed, cursor, run, consumer, lost, faults>>

LeaseExpires(i) ==
    /\ rows[i].state = "leased" /\ SetState(i, "lapsed")
    /\ IF consumer.leased = i THEN Fault ELSE UNCHANGED faults
    /\ UNCHANGED <<handoffs, copies, allowed, cursor, run, consumer, lost>>

(* Discovery observes the row under another key, in its lane or at rest;   *)
(* discovery, migration or a replay puts a resting row back into the lane. *)
RowMoves(i) ==
    /\ Fault
    /\ \E r \in Row :
          /\ rows' = [rows EXCEPT ![i] = r]
          /\ \/ r.state = rows[i].state /\ r.key # rows[i].key
             \/ r.state = "rest" /\ rows[i].state # "rest"
             \/ r.state = "queued" /\ rows[i].state = "rest"
    /\ UNCHANGED <<handoffs, copies, allowed, cursor, run, consumer, lost>>

AllowListChanges ==
    /\ Fault /\ allowed' \in (SUBSET Source) \ {allowed}
    /\ UNCHANGED <<rows, handoffs, copies, cursor, run, consumer, lost>>

-----------------------------------------------------------------------------
Dispatch ==
    \/ StartRun \/ BeginSweep \/ ListRows \/ CoverRows \/ Send
    \/ Advance \/ FinishRun
    \/ \E s \in Source : NextReady(s) \/ NextInPage(s)
    \/ \E k \in Key : RecordGroup(k)

Consume ==
    \/ \E b \in Batch : TakeMessage(b) \/ DropMessage(b)
    \/ \E i \in Id : LeaseRow(i)
    \/ EndRow \/ AcknowledgeBatch \/ AcknowledgeMessage

Environment ==
    \/ FailRun \/ FailDelivery \/ AllowListChanges
    \/ \E b \in Batch : DrainMessage(b) \/ HandoffAges(b)
    \/ \E i \in Id : RetryComesDue(i) \/ LeaseExpires(i) \/ RowMoves(i)

Next == Dispatch \/ Consume \/ Environment

Spec == Init /\ [][Next]_vars

(***************************************************************************)
(* The cron goes on, the queue delivers every message it holds, and time   *)
(* passes. A run takes what is left of its page when it has the time.      *)
(***************************************************************************)
Fairness ==
    /\ WF_vars(Dispatch) /\ WF_vars(Consume)
    /\ \A b \in Batch : /\ SF_vars(TakeMessage(b) \/ DropMessage(b))
                        /\ WF_vars(HandoffAges(b))
    /\ \A i \in Id : WF_vars(RetryComesDue(i) \/ LeaseExpires(i))

LiveSpec == Spec /\ Fairness

-----------------------------------------------------------------------------
(* What a run leaves alone because of a fresh hand-off is on its way: the  *)
(* message is in the queue, in delivery or about to be sent, unless it was *)
(* lost since. However deliveries fail between the two acknowledgements,   *)
(* no row is held back for a message that was simply handled.              *)
FreshHandoffsAreCarried ==
    \A b \in Batch : handoffs[b] = "fresh"
                        => copies[b] > 0 \/ b \in run.out \/ b \in lost

(* No row is in two fresh hand-offs, although its key may change while a   *)
(* message of it is on its way and hand-offs go stale one by one.          *)
FreshHandoffsAreDisjoint ==
    \A b, c \in Batch : handoffs[b] = "fresh" /\ handoffs[c] = "fresh" /\ b # c
                           => b.ids \cap c.ids = {}

(* A due row of a listed source does not wait for ever, whatever was lost  *)
(* on the way to it: what holds it back goes stale or is acknowledged, and *)
(* the sweep or the ready lane sends it again.                             *)
DueRowsMove ==
    \A i \in Id : []<>(rows[i].state # "queued" \/ SourceOf[i] \notin allowed)

(* The sweep comes to every source again and again, however short a run's  *)
(* time and however many sources are due.                                  *)
SweepReachesEverySource ==
    \A s \in Source : []<>(run.lane = "sweep" /\ run.src = s)

=============================================================================
