# Ntern: specification of the ingestion core

Ntern watches internship boards and alerts its users to new roles. This
directory holds TLA+ models of the part of it whose correctness depends on the
order in which concurrent pieces run: the admission lane that turns a board
into catalog changes, the dispatcher and the queue that keep the lane going, the
catalog record that several sources share, the published catalog in D1 and its
mirror in R2, and the push alerts for new roles. TLC checks them on small
instances; TLAPS proves the central theorems for every value of the constants.

Paths below are those of the repository (`src/` is its source directory,
`cloudflare/` the Worker).

## 1. Inventory of the system

The program runs on Cloudflare Workers with a D1 (SQLite) database, R2 objects
and queues. D1 runs one statement, or one batch of statements, at a time and
whole; everything between two statements is a place where another worker, a
retry or a crash may come in. The crons, queues and service bindings of
`cloudflare/worker.ts` start the workers; nothing else orders them.

| component | state | operations | interacts with |
|---|---|---|---|
| Ingestion ledger, `cloudflare/ingestion-v2-store.ts` | `ingestion_rows`, `ingestion_snapshots`, hand-offs | guarded UPDATEs of a row's lane: observe, omit, queue, lease, claim, settle, retry, quarantine, reopen, reclaim | called by all lane processes |
| Snapshot diff, `src/ingestion-v2/diff.ts` | none (pure) | classify a board against the ledger | discovery |
| Shadow discovery, `src/ingestion-v2/shadow-discovery.ts` | the pass in flight | ledger read, row and omission writes, activation, reopening | poller, ledger, omission closure |
| Omission closure, `src/ingestion-v2/omission-closure.ts` | pending closures in the ledger | fenced close, acknowledge | catalog sink |
| Dispatcher, queue, consumer, `src/ingestion-v2/admission/` | leases, claims, hand-offs | reclaim, mark queued, deliver; lease, evaluate, claim, commit, settle | ledger, catalog sink, evaluator |
| Policy migration and replay, `admission/migration.ts`, `admission/operations.ts` | none | list stale rows, reopen by id | ledger |
| Catalog sink and reconciler, `admission/catalog-sink.ts`, `src/ingestion/catalog-reconciler.ts` | none | propose a job, an occurrence and an event | catalog store |
| Catalog store, `cloudflare/d1-store.ts`, `src/identity/projection.ts` | jobs, occurrences, aliases, outbox | compare-and-swap commit, blind writes | sink, legacy poller, notifications, employer API |
| Posting identity, `src/identity/registry.ts` | alias claims, incidents | resolve, claim, quarantine | catalog store |
| Push delivery, `src/notifications.ts` | delivery receipts | claim, publish, record, defer, retry, inspect | catalog store, Expo |
| Legacy poller and provider workers, `src/poll.ts` and `src/*-dispatch.ts` | checkpoints | poll, reconcile, continue | catalog store, discovery |
| Destination verification, shadow extraction | leases, outcomes | claim, fetch, record | catalog store |
| Governor and traffic controller | cooldowns, permits, mode | acquire, complete | consumer |
| Catalog projection, `cloudflare/d1-store.ts` | cards, manifests, the pointer | publish a version, clean up old ones | jobs, mirror, API readers |
| Catalog mirror, `cloudflare/r2-catalog-projection.ts`, `catalog-projection-maintenance.ts`, `catalog-publisher-worker.ts` | R2 pages, R2's pointer | publish, stream, revalidate, hide | projection, API readers |
| Dead letters, retention, maintenance | change log, markers | capture, replay, prune | D1 |
| Employer accounts, icons, users, documents, auth, Gmail | their own tables | request handlers, sweeps | catalog store, R2 |
| Connectors, normalisation, filters | none | fetch and parse | poller, discovery |
| Mobile app, browser companion, scripts | user interface | - | API |

What makes each of them correct, and what is hard about it:

* **Lane.** A message is delivered late, twice or after its row moved on; a
  lease expires under a slow worker; a worker dies between the catalog commit
  and the settlement; a pass dies between its chunks; the content, the policy
  and the presence of a role change in the middle of everything. Correct is: a
  settled row tells what the catalog shows, a role missed by two complete
  boards is closed in the end and one that is listed is graded in the end, a
  row that is to stay silent never alerts, and the attempt budget is kept.
* **Catalog.** Several sources and the drain write one job record. Correct is:
  one record and one alert for a role, a role is open while an occurrence is,
  no writer erases what another one wrote.
* **Push delivery.** A worker and the drain send the same role, the provider's
  answer is lost, a worker dies between claim and record. Correct is: delivered
  at most once, no role forgotten, nothing waiting for ever. (A claim whose worker
  died stays claimed: the code prefers a lost alert to a repeated one.)
* **Projection and mirror.** Refreshes of the cron and of operators overlap, stall
  and die, cards are shared by versions and cleaned up by age, R2 answers late or
  not at all. Correct is: what a pointer names is there in full, the mirror is
  never taken for current when it is not, never goes back, and catches up.
* **Identity, verification, dead letters, sweeps, deletion.** Each
  is a claim or a lease with a later guarded write; correct is that no stale
  holder writes and no work is lost.

`PROJECT.json` lists every component with what is modelled of it, and under
`hazards` each hazard with its line and the properties that would catch it.

## 2. Modules

| module | models | kind |
|---|---|---|
| `IngestionRows` | a ledger row and every statement on it | operators on records |
| `SnapshotDiff` | the classification of a board and the omission updates | operators |
| `AdmissionLane` | the lane of one source: discovery, dispatcher, consumers, migration, world | state machine |
| `LanePromise` | what the ledger promises of the catalog, implemented by `AdmissionLane` | abstract specification |
| `AdmissionDispatch` | the scheduled dispatcher, hand-off records, the queue and its consumer | state machine |
| `PostingCatalog` | one posting and the sources that commit observations of it | state machine |
| `PushDelivery` | receipts, the workers and the drain that push, the provider, the users | state machine |
| `CatalogProjection` | the published catalog in D1: cards, manifests, pointer, refreshes, cleanup | state machine |
| `CatalogMirror` | its mirror in R2: pages, pointer, publications, streams | state machine |
| `MCAdmissionLane`, `MCAdmissionDispatch`, `MCPostingCatalog`, `MCPushDelivery`, `MCCatalogProjection`, `MCCatalogMirror` | instances for TLC | model values, symmetry |
| `IngestionRowsProofs`, `AdmissionLaneProofs`, `LanePromiseProofs` | proofs about the lane | theorems |
| `AdmissionDispatchProofs` | proofs about the hand-offs | theorems |
| `PostingCatalogProofs` | proofs about the posting | theorems |
| `PushDeliveryProofs` | proofs about the push alerts | theorems |
| `CatalogProjectionProofs` | proofs about the published catalog in D1 | theorems |
| `CatalogMirrorProofs` | proofs about the mirror | theorems |

### IngestionRows and SnapshotDiff

A row is a record of the columns its lifecycle depends on: the identity
(snapshot, material, admission version), state, decision, attempts, omissions,
baseline, lease, claim, pending closure. Each operator is the SET clause of one
statement and each guard its WHERE clause. `PutRow` is the upsert of
`putRows`: it keeps the lane of a row whose admission identity is unchanged and
starts afresh otherwise, and only ever adds the notification baseline.
`SnapshotDiff` is `planSnapshotDiff`: it compares a board with the ledger that
was read and yields rows to reopen and omission counts to write.

### AdmissionLane

One step is one D1 statement or batch. The processes are

* the **discovery pass**: `StartPass`, `ReadLedger`, one `DiscoverRow` or
  `MissRow` per row, `ActivateSnapshot`, the reopening of actionable rows and
  the closures (listed, committed, acknowledged one by one), with
  `ThrowPass` and crashes in between;
* the **dispatcher**, which reclaims expired leases, reopens rows that were
  never processed, marks rows queued and retires replaced snapshots;
* the **consumers**: lease, evaluate, claim, commit, settle, or retry,
  quarantine and release;
* the **migration**, which lists a row and reopens it later, and the
  **operator**, who replays a row at any time;
* the **world**: the board and the policy change, leases and retries come due.

A message of the queue is not kept. It carries the identity its row had when it
was dispatched, and a message that does not match the row any more cannot
lease it; so a delivery starts with the lease, at any time the row allows it,
which covers delay, duplication and reordering. Timestamps are reduced to what
the guards compare: whether `updated_at` is later than the start of the pass
(`late`) and whether it is still the one the closure listing read (`listed`).

Assumptions of this model: the clocks of two workers are not apart by more
than the gaps the code leaves; `acquireLease`'s update and the read that follows
are one step; the board is the part of a real board that lies on the modelled
ids (a board that is empty is rejected before it gets here); the catalog
commit is one step (its inner compare-and-swap is `PostingCatalog`'s subject).

A commit writes a new-role event with the first record of a role, or with a later
one that promotes it: `delayedPromotion` (`evaluator.ts:349-371`) lets a row of a
trusted community that has qualified since, and whose baseline is not marked,
alert for a job the catalog has. The evidence behind `alertEligible` and the
promotion (destination, identity, complete snapshots, the earlier occurrence's
admission, other sources' records) is not in the model: `Commit` chooses both
freely, which allows every alert the code allows, and some that evidence would
refuse. What is kept is what the alert's fence rests on: the verdict, the baseline,
the row's job and the first record (`Notify`, `Commit`).

Two constants say how wild the world is. With `Revisit` the board or the policy
may return to an earlier content, whose snapshot the ledger still has. With
`SlowEffects` passes may start while a delivery is between its effect claim and
its settlement, consecutive statements of one invocation. Every run of the lane has
`SlowEffects`; the theorems say which constant they exclude.

### LanePromise

The view of a reader of the ledger, with the workers, leases and passes hidden: for a
role the ledger states no verdict, or that it is admitted with a material, blocked or
gone. The catalog changes only while no verdict is stated, a verdict is true when it
is stated, and has to be withdrawn before another. A role alerts at most once, in a
step that shows it, be it the first or one that promotes it. `AdmissionLane` implements it
(`LaneKeepsItsPromise`) with this mapping (`VerdictOf`): a row settled after an
attempt and not missed twice states its decision; a row missed twice whose closure
was acknowledged states gone; every other row states nothing. This is more than
`SettledAgreesWithCatalog` and `MissedRolesClose`: no step changes the catalog
behind a stated verdict and back, and none goes from one verdict to another.

### AdmissionDispatch

`AdmissionLane` lets any due row be delivered at any time; this module is about
how it comes to be delivered. A **run** of the cron reads the cursor, the page
of sources after it and the sources with due rows (`StartRun`); plans the ready
ones in any order until half its time is spent (`NextReady`, `BeginSweep`); then
plans its page in order, saving the cursor after each source (`NextInPage`,
`Advance`), until it is done or out of time (`FinishRun`). A plan is one step
per statement: reclaim (`BeginPlan`), list due rows (`ListRows`), leave out what
a fresh hand-off covers (`CoverRows`), mark and record each group of rows with
one identity (`RecordGroup`), and only then send (`Send`). A batch id is a hash
of the source, the identity and the ids, so the model uses the batch itself.

The **queue** holds copies of batches and delivers one at a time to the
**consumer**, which handles the rows (`LeaseRow`, `EndRow`), acknowledges the
hand-off, then the message (`AcknowledgeBatch`, `AcknowledgeMessage`). A message
of a source off the allow list is acknowledged alone (`DropMessage`). Both
processes may fail between any two statements; a message that fails is delivered
again or ends in the dead-letter queue (`Redeliver`).

A hand-off's age is its state: fresh while `dispatched_at` is within the dispatch
lease of 30 minutes, stale after. A run takes a minute or so, so a hand-off does
not age while the run that holds it is between its record and its send. Rows are
moved from outside (`RowMoves`) as discovery, the migration and replays move them.

### PostingCatalog

One posting whose identity is settled. Every source observes it by itself: it
reads the job and proposes a new one (`ObserveListing`, `ObserveClosure`),
reads the stored value (`ReadStored`) and commits the batch if that value is
still there (`CommitBatch`), else tries again, or gives up (`Abandon`). `Project` and
`Finalized` are the projection of `src/identity/projection.ts`. The drain of
`src/notifications.ts` sends a pending alert and marks the job with a read and
a separate unconditional write.

Of a reference and of the job only the state, the open flag and the
notification fields are kept. Whether a promoted alert is still eligible when
it is finalised is left open, for it depends on data the model has not. The
observations of one source do not overlap: in the lane the lease and the
effect fence see to that, and a source the lane owns is excluded from the
legacy commit path.

### PushDelivery

The new roles of one drop of one employer. A **sender** is a provider worker:
it polls (`CommitRole`) and sends what it found (`EndPoll`), or leaves that to the
drain. The **drain** sends what is still pending, marks it (`MarkRoles`), then
makes its passes over deferred, accepted and retryable receipts. Both send in
the same way: user by user with the receipts read once (`NextUser`), batch by
batch (`NextBatch`), role by role claimed in the store (`ClaimReceipt`), then one
push (`Publish`) and the outcome written to each receipt (`Record`).

A receipt's status and delivery state are one value (`State`), due meaning
deferred with its time past. Whether a batch is for later is chosen by
the batch, as quiet hours and digests do. `Publish` chooses the provider's answer and,
where the answer does not tell, whether it took the push; `taken`, `named` and
`doubtful` are not in the code but keep what the properties ask about: how
often a receipt's push was taken, which roles a push named, and which pushes of
the drain went out without a recorded answer. A write for a user whose tombstone is
set throws, and ends the invocation.

Assumptions: one drain at a time (a cron of ten minutes, invocations end
sooner); a user has one device and a filter that matches; the writes
of one `Promise.all` are one step; a drop has no more roles than a card holds, and no
more than the ten a drain takes at a time.

### CatalogProjection

`putCatalogProjection` of the D1 store, statement by statement, for any number of
refreshes at once. A refresh builds a version from the jobs (`Build`), reads the
pointer and keeps the version it names among the retained ones (`ReadPointer`),
stamps the manifest (`PutManifest`), reads which cards are stored (`ReadStored`),
writes the others (`WriteCard`), moves the pointer if it is the one it read
(`CommitPointer`, `RefuseCommit`), and cleans up: it lists the manifests whose
stamp is past the retention (`ListExpired`) and, for each, deletes the cards no
other manifest has and the manifest, both under the guards of the statements
(`DeleteCards`, `DeleteManifest`). A version is a hash of its cards, so it stands
for them; a card row is there or not. A refresh of the version the pointer
names already writes the pointer only.

Assumptions: `generatedAt` is unique among refreshes; the stored cards and the manifests are each read in one step, although the code
pages through them; a cleanup's statements for one manifest are one deletion of
cards and one of the manifest, as the code batches them. Pointers of older
schemas and the readers' queries are left out; a reader needs what
`PublishedVersionIsWhole` and `RetainedVersionsAreWhole` say. Crons share a lease
(`worker.ts`); the operators' refreshes take none, so refreshes overlap.

### CatalogMirror

`publish`, `publishStream`, `revalidate` and `invalidate` of the R2 store with the
code that calls them. An **operator** builds (`Build`), commits to D1 (`Commit`),
reads R2's pointer (`ReadMirror`), and, by what it finds, gives way, keeps the
pages and renews the pointer (`CheckPages`, `Renew`), or hides it (`Hide`), writes
the pages that differ (`WritePage`, `ReusePage`) and activates the new pointer
(`Activate`). The **crons**, which the lease makes one process, do the same up to
hiding or renewing, and stream what D1 has into a private namespace (`StartStream`,
`CopyPages`). Every put of the pointer is conditional on the object read before. A
put may be carried out and its answer lost; then the pages stay
(`DropPages` follows a refusal, or a failure before the activating put). `LosePage` is R2 losing a page, `LoseRows` the D1 rows of a
replaced version going away under a stream.

`Commit` is D1's compare-and-swap, accepted or refused; `CatalogProjection` is its
inside. Readers are the comparison of generations in `R2CatalogReadStore`; a pointer
older than seven days, or damaged, sends them to D1 and is left out. A namespace is
used again only when nothing refers to it, which stands for a fresh name.

## 3. What the runs show

| run | instance | shows |
|---|---|---|
| `lane_safety` | one id, two materials, one version, two consumers, 2 attempts, 3 faults | `SettledAgreesWithCatalog`, `MissedRolesClose`, `AttemptBudget`, `SilenceIsKept` and the refinement `LaneKeepsItsPromise` under overlapping deliveries, expiry, crashes and changing content |
| `lane_liveness` | one id, two materials, two versions, one consumer, 2 faults | `ListedRolesAreGraded`, `UnlistedRolesClose` while content and policy change; agreement and silence while the policy is migrated; `LedgerMatchesBoard` |
| `lane_revisit` | one id, the board may return to an earlier content | `ReturningBoardIsActive` is violated (section 6) |
| `dispatch` | two sources, one with a row, two identities, two copies of a message, one fault | `FreshHandoffsAreCarried`, `FreshHandoffsAreDisjoint`, `DueRowsMove`, `SweepReachesEverySource` |
| `posting_commits` | an official and two community sources, 4 observations, 2 tries, one alert | `OutboxMatchesMarker`, `ClosuresAreSourceLocal`, `CommitsKeepHistory` |
| `posting_open` | an official and a community source, 6 observations | `RoleRemainsOpen` is violated |
| `posting_history` | the same with one alert that is marked | `HistoryIsNeverErased` is violated |
| `push` | a user, a role, a worker and the drain, two attempts, 3 faults | `RoleReachesDeviceOnce`, `MarkedRolesHaveReceipts`, `WaitingPushesRest`, `PendingRolesAreMarked` |
| `push_silent` | two roles of a drop, a card from three, no fault | `AcceptedRolesWereNamed` is violated |
| `projection` | three versions that share cards, two refreshes at a time, four in all, one crash | `PublishedVersionIsWhole`, `RetainedVersionsAreWhole` |
| `projection_stamp` | two versions, three refreshes at a time, no crash | `PublishedVersionIsWhole` is violated (section 6) |
| `mirror` | versions of two pages and of one, an operator and the cron, three builds, one fault | `MirrorIsWhole`, `CurrentMirrorAgrees`, `MirrorNeverGoesBack`, `MirrorCatchesUp` |

Bounds. `MaxFaults` counts board and policy changes, crashes, failures and
leases that expire under a live worker: two let one fault hit the recovery from
another, three let both consumers fail around a change of content. A lease
left by a dead worker expires at no cost, so recovery is never bounded away.
`MaxAttempts` is the retry budget (3 in the code, `admission/types.ts`); with two, a
row both retries and is quarantined. Two consumers are what an expired lease
needs: the stale holder and the new one. The lane orders nothing between ids
other than through the snapshot, and the theorems hold for any number of them.
In `dispatch` one row with two identities
is what a hand-off of an older snapshot needs, the second source gives the sweep
somewhere else to go, and a page holds both (`SourceLimit`), so the cursor wraps;
`MaxCopies` is a second message of a batch beside the first. `MaxObservations` and
`MaxMarks` bound the history of one posting; `MaxTries` is the number of
projections of one commit (4 in the code). In `push` the faults are answers other
than a ticket, crashes and changes of settings; two attempts make one retry, and
receipts of different users or roles meet only in a batch. In `projection` the
versions are one card, another, and both, so that a card may be in an old, a
retained and a new version; four refreshes replace a version, let it expire and
publish it again; three at a time are `projection_stamp`'s subject. `Retention` of
one tick of a clock of three makes a stamp expire with time to spare. In `mirror`
the three builds are an older, a current and a newer publication that race, the
fault is a failure, a crash, a lost answer or a lost page, anywhere. The safety
properties of the passing runs are proved for all bounds (section 4).

Symmetry is used among consumers and among sources of a class, never in the
liveness runs. `posting_*` switch deadlock checking off, since a posting whose
observations are used up stops; the lane never deadlocks. `projection`, `projection_stamp` and `mirror`
do so too: once the builds are used up and the last refresh is done, all is still.

Fairness (`LiveSpec`). The lane's crons and queues run again and again, so each
process step that stays possible is taken: weak fairness of the pass, of the
dispatcher's reclaims, bootstrap and migration, of each consumer, of the expiry of
leases and of due retries. Strong fairness is asked of one step only: a pass
that reads the ledger is, again and again, one that does more than continue an
earlier poll (`CompletePass`), as the poller's cadence gives. Faults are finite
in number; nothing else is assumed of the world. In `AdmissionDispatch` the cron
and the queue consumer go on, hand-offs age, retries come due and leases expire;
each batch with a message in the queue is delivered in the end (strong fairness,
since the consumer is busy with other batches in between). Nothing says how far
a run gets: it may always stop after one source of its page. In `PushDelivery`
the drain's cron goes on and deferred receipts come due; senders and users owe
nothing, and faults are finite in number. Both liveness properties of it except `Leaving`: while a deletion is
under way (an upload holds it up, or the user does not ask again) a receipt of
that user ends the drain each time, and everyone waits. In
`CatalogMirror` a publication goes on, and the cron of every few minutes streams
again when the mirror is not current; builds and faults are finite in number. The
liveness runs of the lane exclude a board that returns to an earlier content, since that
is where the finding of section 6 breaks it.

## 4. What is proved

The theorems hold for every set of ids, materials, versions, consumers and
sources, and every bound, from the named assumptions in the modules (bounds are
naturals, model values are distinct from data).

**The lane** (`AdmissionLaneProofs`). `IInv` is the conjunction of

* *Typing*: types, a row exists with a board's material or not at all, a
  process remembers identities of real rows;
* *Closing*: a closure is pending only for a row missed twice; a listed
  closure is pending; one that has been committed shows in the catalog until
  the row is written again, so that the acknowledgement clears nothing that is
  not closed;
* *Staging*: a snapshot that a row, a delivery or the pass remembers is in the
  snapshot table, and a board that never returns shows what no pass has read;
* *Budget*: the attempts of rows and of deliveries.

From it follow `TypeCorrect`, `MissedRolesAreClosed`, `AttemptsAreBudgeted` and
the action property `SilenceKept`.

`SettledAgreesWithCatalog` needs a second invariant, `Leasing`. Alone it is not
inductive: `settleRow` relies on what the delivery committed, several steps and
possibly a reclaim earlier, and a commit whose fence fails is dropped without an
error. `Leasing` carries that knowledge from the claim to the settlement: a
lease pins its identity (`PutRow` ends a lease whose identity changes and a
baseline is only added); a delivery whose row lost the snapshot it leased never
finds it again, so an effect that was dropped is never settled; a committed
effect whose lease still stands shows in the catalog. `LeasesHold` and
`SettledRowsAgree` assume `~Revisit \/ ~SlowEffects`, and need it: with two ids,
a board that goes from A to B and back under a single delivery lets the fence
fail on B and the settlement pass on A, and the row is settled with nothing in
the catalog (an instance with two ids, one consumer and both constants `TRUE`
finds it). It takes two polls
between the catalog commit and the settlement that follows it in the same
invocation, and the crons poll at most every five minutes: the code excludes it,
by time alone. The lemmas on each row operator are in
`IngestionRowsProofs`.

`LaneImplementsPromise` (`LanePromiseProofs`) follows from both: each row operator
keeps a verdict, withdraws it or states a first one (the `...IsFair` lemmas), a
verdict stated is true since `SettledAgreesWithCatalog` and `MissedRolesClose` hold
in the next state, and the two catalog writes find their row without a verdict.

`LedgerHoldsBoard` assumes `~Revisit`, as its run does. Its invariant `Listing` adds
that a pass in the middle of its writes has matched the rows it is done with, and
that an active snapshot of today's board is what the ledger holds: a pass that
continues from it writes nothing. `BoardsThatStayAwayAreActive` assumes the same:
a board that does not return has no active snapshot but the latest, so a pass is
fenced by its own. So the defect that `lane_revisit` shows takes a returning board.

**The hand-offs** (`AdmissionDispatchProofs`). That a fresh hand-off has a
message under way depends on what the run has recorded and not yet sent, and
that no row is in two of them on what it read before: the rows it lists, the
ones it found covered and the ones it has recorded since. `IInv` adds that a
run in flight remembers rows of its source only (`RunMemory`), that a row it is
about to record is in no fresh hand-off, that what it sends is recorded
(`OutIsSent`), and that a delivery holds a message of the queue
(`DeliveryMemory`). `DispatchTypeCorrect`, `DispatchCarriesHandoffs` and
`DispatchKeepsHandoffsDisjoint` follow, for any number of sources, rows, keys
and copies.

**The posting** (`PostingCatalogProofs`). An observation carries its proposal
through other writers' commits. `Proposals` says what stays true of it: an
event is an alert it proposes; an alert it proposes without an event is one it
read and so is in the outbox; a closure proposes no peer. With it follow
`OutboxAgrees`, `ClosuresStayLocal` and `CommitsKeep`. No bound on tries,
observations or sources is used.

Two more theorems say how much the findings of section 6 take. A mark is
*undisturbed* if the job it writes back is still the one it read, a listing if the
peers' references it proposes still are what the job says. With undisturbed marks
no writer erases history (`OnlyStaleMarksErase`); with undisturbed listings too a
role remains open while an occurrence is (`UndisturbedRolesRemainOpen`), because
then every occurrence agrees with its reference in the job. Neither hypothesis
excludes a lost race, a retry or a closure between the read and the commit.

**The push alerts** (`PushDeliveryProofs`). That a push is taken once rests on a
claim made long before, on receipts read before the claim, and on writes of other
invocations in between. `IInv` has

* *Shape*: what an invocation's step says of the rest of its memory;
* *Alone*: a receipt is claimed, taken up or listed by one invocation, for a claim
  asks for a state that no such receipt is in;
* *Fresh*: while its user has his account, such a receipt is in the state that the
  invocation expects and as it was read, since every other write asks for another
  state;
* *AnswersTell*, *StatesTell*: what the answer in hand, and the state of a receipt
  of a live user, say of the pushes that were taken: none or a doubtful one for a
  receipt that may be pushed again, one for an accepted one;
* *DrainCovers*: while the drain sends, a user who never wavered has a receipt for
  each role the drain will mark, or the drain has yet to come to him.

`RolesReachDevicesOnce` and `MarkedRolesAreReceipted` follow for any users, roles and
senders, any number of attempts and faults. `StatesTell` says nothing of a user who is
leaving: the drain may hold his receipt while a write for him throws, which ends
the invocation, so the receipt stays as it is and the push of the drain counts as
doubtful (`Publish`). Nothing claims his receipts any more, which is what keeps a
second sender away. `OnlyDeferredPushesAreSilent` adds that the deferred
push of a group without a card is the one way to an alert that no push named.

**The projection** (`CatalogProjectionProofs`). `IInv` has, beside the types and the
two properties,

* *Generations*: a refresh has a generation of its own, which nobody has seen before
  it commits, so the pointer's compare-and-swap tells whether anyone committed since;
* *Sound*: what a refresh remembers by its step;
* *Reliable*: a refresh whose commit can still succeed has seen the last pointer, so
  a cleanup under way is that of an earlier commit, works with an earlier time
  (`Covers`), and finds the manifest of this refresh unexpired; the cards of its
  version are stored or still to be written (`Protects`).

The one step that breaks it is another refresh that stamps the same manifest with its
own, older time. With two refreshes at a time that cannot be: the one that stamps, the one
that waits to commit and the one that cleans up are three. `TwoRefreshesPublishWhole` and
`TwoRefreshesRetainWhole` therefore assume two, as the run `projection` does and as
the violated run `projection_stamp` shows they must; versions, cards and the clock are
arbitrary. `ForwardStampsPublishWhole` assumes instead that no stamp is set back, for
any number of refreshes: it is the proof that the repair of section 6 suffices.
`ProjectionTypeCorrect` assumes nothing.

**The mirror** (`CatalogMirrorProofs`). A publication works on what it built
and on what it read of R2, while others put pages and pointers and streams
delete. `IInv` has, beside the types,

* *Sound*: what a process may hold at each of its steps, and that it never
  remembers a newer pointer than its own build;
* *Named*: a generation was built as one version, so that two things with
  one stamp have the same content;
* *Private*: no pointer, put or remembered, names the namespace of a stream
  before the stream has put its own, so that nobody relies on what it deletes;
* *Filled*: the pages that a publication has put are there, unless R2 lost them;
* *Shown*: what the pointer names is whole, but for such losses.

Every action of a process is shown to be one kind of step (a lemma for each), and
one lemma shows that such a step keeps `IInv`; a build and the faults are apart.
`MirrorStaysWhole`, `CurrentMirrorShowsCatalog` and `MirrorNeverReturns` follow.

Model-checked only: the liveness properties `ListedRolesAreGraded`,
`UnlistedRolesClose`, `DueRowsMove`, `SweepReachesEverySource`, `WaitingPushesRest`,
`PendingRolesAreMarked` and `MirrorCatchesUp`, since fairness and ENABLED are beyond
the proof system; and, of the properties that some run finds violated, the violation
(the theorems above say what it takes). Every other property of the runs is a
theorem, some under a hypothesis that the text above names. The hypotheses of the form
`[][...]_vars` in the theorems about findings describe behaviours, not the code: the
code does not ensure them.

## 5. What is not modelled, and the plan

In order of importance:

1. `IngestionRows` extended by `applyBootstrap` and the qualification cadence.
2. `PostingIdentity`: alias claims of two sources and the verify read after
   the commit; composed with `PostingCatalog`.
3. `SourcePoll` (checkpoints and continuations), `DestinationVerification`,
   the live overlay and the readers of the projection, `DeadLetters`, `TrafficController`, `IconSweep`,
   `UserDeletion`.
4. Definitions of the pure parts (diff, cadence, quiet hours) against
   a reference over bounded inputs.

Not planned: connectors, parsing, text normalisation, the user interface and
scripts. They keep no shared state, and their unit tests reach what matters.

## 6. Findings

* **A returning board.** `docs/ingestion-architecture.md:177-179` says that a
  snapshot A becomes active again when the content returns from B to A. Discovery
  skips activation when A is still marked active, and A stays so while any row
  names it. The run `lane_revisit` ends a pass on A with B as the latest
  active snapshot; closures of that pass are then fenced out. Were the skip
  conditional on A being the latest active snapshot, the run would pass.
* **A role closes while an occurrence is open.** `docs/ingestion-architecture.md:68-69`
  says it does not. An admitted listing proposes every reference it read,
  `mergeReferences` lets the proposed one win over the stored one, and a commit
  that lost its race projects the same stale proposal on the new job. The close
  path proposes only its own reference for that very reason
  (`admission/catalog-sink.ts:85-86`). `posting_open` shows it. From such a state a
  delayed closure may also open the role again, since it carries the open flag it
  read.
* **Erased history.** `src/identity/projection.ts:51-54` promises that no
  concurrent writer erases source history. `markSmsSent` in `cloudflare/d1-store.ts`
  writes back a job it read, without the compare-and-swap; `posting_history`
  shows a reference that is lost. `markDigested`, the URL validation of
  `src/poll.ts` and the employer API write jobs in the same way.
* **A deferred role that is never named.** `src/notifications.ts:215-217` says that
  in a drop too small for a card every role keeps its own alert, and `:354-355`
  that a deferred user gets what the immediate path would have sent. The deferred
  path sends such a group as one push with the text and link of its first role
  (`:407`) and records every receipt as accepted. `push_silent` shows it without a
  fault; one push per role for groups without a card would mend it.
* **A version is published without its cards.** `cloudflare/d1-store.ts:1284` says of
  the moved pointer that it "and every card it names are already durable", and
  `:1212-1213` that a cleanup sees which keys a publication in flight will use. The
  manifest's stamp is the time a refresh began, and `:1215` lets a slow refresh put
  an older stamp over a newer one of the same version. `projection_stamp`: a
  refresh stalls, a second one stamps the same version and finds its cards stored,
  the first then sets the stamp back, a third one's cleanup takes the
  manifest for expired and deletes it with its cards, and the second moves the
  pointer there. Reads fail for want of the manifest until the content changes, for
  a refresh of the same version writes only the pointer (`:1201-1204`). Keeping the
  later of the two stamps in the upsert would mend it. It takes three refreshes at
  once and one that stalls for the retention; with two the run `projection` passes.

Met while modelling, and not the subject of a run:

* `src/ingestion-v2/admission/dispatcher.ts:32-33` says that a repeated run sends nothing
  that is still in the queue. A row that comes back under the identity it was handled
  with makes the batch it was acknowledged in, `recordHandoff` keeps the old record
  with its acknowledgement, and each run sends another copy until one is delivered.
  The copies are harmless to the rows (section 4).
* The two minutes of grace for readers of a replaced version
  (`docs/cloudflare-d1-write-reduction-plan.md:41-42`) count from the start of the
  refresh that replaces it, not from the replacement: after a slow refresh there is
  less, or none. `RetainedVersionsAreWhole` speaks of the versions that the pointer
  still retains.

## 7. Running

    tlc -config lane_safety.cfg MCAdmissionLane.tla
    tlc -config dispatch.cfg MCAdmissionDispatch.tla
    tlc -config posting_commits.cfg MCPostingCatalog.tla
    tlc -config projection.cfg MCCatalogProjection.tla
    tlc -config mirror.cfg MCCatalogMirror.tla
    tlc -config push.cfg MCPushDelivery.tla
    tlapm AdmissionLaneProofs.tla
    tlapm PushDeliveryProofs.tla

and likewise for the other runs of section 3 and the other proof modules of section 2.

Each operator that a run's `mutants` entry names has a variant with a plausible
defect beside it; the property must fail when the variant takes its place.
