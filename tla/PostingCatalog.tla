---------------------------- MODULE PostingCatalog ----------------------------
(***************************************************************************)
(* One canonical posting of the catalog and the sources that list it. Each *)
(* source observes the posting on its own (the admission lane's sink, or a *)
(* legacy poll), reads the canonical job, computes the job it proposes and *)
(* commits it with its occurrence and, for a new role, the one             *)
(* notification event of the posting, in one D1 batch that takes effect    *)
(* only if the job still has the value the projection was computed from.   *)
(*                                                                         *)
(* The identity of the posting is settled: every source resolves it to the *)
(* same job. A source is one source occurrence (source and external id);   *)
(* its own observations never overlap (the lease and the effect fence of   *)
(* AdmissionLane). Of a reference, an occurrence and the job only what     *)
(* decides the lifecycle and the alert is kept: the state, and the job's   *)
(* open and notification fields. No destination is gone, no posting is     *)
(* withdrawn, every season is current and every role technical.            *)
(***************************************************************************)
EXTENDS Naturals

CONSTANTS Source,           \* occurrences that name the posting
          Official,         \* those of an employer's own board
          NoJob,            \* no catalog record
          MaxTries,         \* projections one commit computes at most
          MaxObservations,  \* bound on the observations of a behaviour
          MaxMarks          \* bound on the alerts that are marked as sent

ASSUME OfficialAreSources == Official \subseteq Source
ASSUME BoundsAreNaturals == /\ MaxTries \in Nat \ {0}
                            /\ MaxObservations \in Nat /\ MaxMarks \in Nat

VARIABLES job,     \* the canonical job
          occ,     \* the source-occurrence rows
          outbox,  \* is the new-role event of the posting in the outbox?
          obs,     \* the observation each source has in flight
          drain,   \* the pass that sends pending alerts and marks them
          spent    \* observations begun and alerts marked so far

vars == <<job, occ, outbox, obs, drain, spent>>

State == {"none", "open", "closed"}
Job == [refs : [Source -> State], open : BOOLEAN,
        pending : BOOLEAN, sent : BOOLEAN]
ASSUME NoJobIsNoJob == NoJob \notin Job

Kind == {"none", "admit", "close"}
Observation == [pc : {"idle", "proposed", "read"}, kind : Kind,
                job : Job \cup {NoJob}, event : BOOLEAN,
                stored : Job \cup {NoJob}, tries : 0..MaxTries]
NoObservation == [pc |-> "idle", kind |-> "none", job |-> NoJob,
                  event |-> FALSE, stored |-> NoJob, tries |-> 0]
Drain == [pc : {"idle", "sent", "read"}, job : Job \cup {NoJob}]
NoDrain == [pc |-> "idle", job |-> NoJob]

(* Type correctness of the catalog record, the occurrence rows and what the *)
(* observations and the drain remember of them.                             *)
TypeOK ==
    /\ job \in Job \cup {NoJob} /\ occ \in [Source -> State]
    /\ outbox \in BOOLEAN /\ obs \in [Source -> Observation]
    /\ drain \in Drain
    /\ spent \in [observations : 0..MaxObservations, marks : 0..MaxMarks]

Init ==
    /\ job = NoJob /\ occ = [s \in Source |-> "none"] /\ outbox = FALSE
    /\ obs = [s \in Source |-> NoObservation] /\ drain = NoDrain
    /\ spent = [observations |-> 0, marks |-> 0]

AnyOpen(refs) == \E s \in Source : refs[s] = "open"
HasOfficial(j) == \E s \in Official : j.refs[s] # "none"

-----------------------------------------------------------------------------
(* The first record of the posting: this source's listing alone.           *)
Created(s, notify) ==
    [refs |-> [p \in Source |-> IF p = s THEN "open" ELSE "none"],
     open |-> TRUE, pending |-> notify, sent |-> FALSE]

(* A closed job reopens for an employer's own listing, for a trusted       *)
(* community listing that was attached before, or for one whose fresh      *)
(* inspection verified the exact posting; the last two not against an      *)
(* employer's board.                                                       *)
CanRevive(j, s, verified) ==
    \/ j.open
    \/ s \in Official
    \/ ~HasOfficial(j) /\ (j.refs[s] # "none" \/ verified)

Merged(j, s, verified, promote) ==
    [j EXCEPT !.refs[s] = "open", !.open = CanRevive(j, s, verified),
              !.pending = @ \/ promote]

(* Mutant of ClosureProposal: the peers read before are proposed again.     *)
ClosureProposalWithPeers(j, s) == [j EXCEPT !.refs[s] = "closed"]

(* A closure proposes its own reference only. *)
ClosureProposal(j, s) ==
    [j EXCEPT !.refs = [p \in Source |-> IF p = s THEN "closed" ELSE "none"]]

Begin(s, kind, proposal, event) ==
    /\ obs' = [obs EXCEPT ![s] = [NoObservation EXCEPT
                 !.pc = "proposed", !.kind = kind, !.job = proposal,
                 !.event = event]]
    /\ spent.observations < MaxObservations
    /\ spent' = [spent EXCEPT !.observations = @ + 1]
    /\ UNCHANGED <<job, occ, outbox, drain>>

(* An admitted listing. A role without a record is created, with an alert  *)
(* unless the row is silent; a known one is merged, and a community source *)
(* that qualified only now may promote it to an alert.                     *)
ObserveListing(s) ==
    /\ obs[s].pc = "idle"
    /\ \/ /\ job = NoJob
          /\ \E notify \in BOOLEAN :
               Begin(s, "admit", Created(s, notify), notify)
       \/ /\ job # NoJob
          /\ \E verified, promote \in BOOLEAN :
               /\ promote => s \notin Official /\ CanRevive(job, s, verified)
               /\ Begin(s, "admit", Merged(job, s, verified, promote), promote)

(* A blocked listing, or a second complete board without it. Without an    *)
(* occurrence there is nothing to close. A listing that was closed as      *)
(* blocked before may be left as it is.                                    *)
ObserveClosure(s) ==
    /\ obs[s].pc = "idle" /\ occ[s] # "none" /\ job # NoJob
    /\ Begin(s, "close", ClosureProposal(job, s), FALSE)

-----------------------------------------------------------------------------
(* References are merged by source in the order stored, proposed, own      *)
(* occurrence: a proposed state replaces the stored one.                   *)
Reference(stored, o, s, p) ==
    IF p = s THEN IF o.kind = "admit" THEN "open" ELSE "closed"
    ELSE IF o.job.refs[p] # "none" THEN o.job.refs[p]
    ELSE IF stored = NoJob THEN "none" ELSE stored.refs[p]

StoredOpen(j) == j # NoJob /\ j.open
StoredPending(j) == j # NoJob /\ j.pending
StoredSent(j) == j # NoJob /\ j.sent

(* Mutant of Project: the proposed notification is taken as it is.          *)
ProjectProposedNotification(stored, o, s) ==
    LET refs == [p \in Source |-> Reference(stored, o, s, p)]
    IN  [refs |-> refs,
         open |-> AnyOpen(refs) /\ (StoredOpen(stored) \/ o.job.open),
         pending |-> o.job.pending, sent |-> o.job.sent]

Project(stored, o, s) ==
    LET refs == [p \in Source |-> Reference(stored, o, s, p)]
        sent == StoredSent(stored) \/ o.job.sent
    IN  [refs |-> refs,
         open |-> AnyOpen(refs) /\ (StoredOpen(stored) \/ o.job.open),
         pending |-> ~sent /\ (StoredPending(stored) \/ o.job.pending),
         sent |-> sent]

(* The job and the event the batch writes. An event whose role is not open *)
(* or whose sources came to disagree on its eligibility is dropped, with   *)
(* the pending alert it brought.                                           *)
Finalized(stored, o, s, alertEligible) ==
    LET p == Project(stored, o, s)
    IN  IF o.event /\ ~(p.open /\ alertEligible)
        THEN [job |-> [p EXCEPT !.pending = ~p.sent /\ StoredPending(stored)],
              event |-> FALSE]
        ELSE [job |-> p, event |-> o.event]

(* Mutant of ReadStored: a lost race is retried without end.                *)
ReadStoredForever(s) ==
    /\ obs[s].pc = "proposed"
    /\ obs' = [obs EXCEPT ![s].pc = "read", ![s].stored = job,
                          ![s].tries = @ + 1]
    /\ UNCHANGED <<job, occ, outbox, drain, spent>>

ReadStored(s) ==
    /\ obs[s].pc = "proposed" /\ obs[s].tries < MaxTries
    /\ obs' = [obs EXCEPT ![s].pc = "read", ![s].stored = job,
                          ![s].tries = @ + 1]
    /\ UNCHANGED <<job, occ, outbox, drain, spent>>

(* Mutant of CommitBatch: the event is inserted whether or not the          *)
(* projection is still current.                                            *)
CommitBatchUnguardedEvent(s) ==
    LET o == obs[s] IN
    \E alertEligible \in BOOLEAN :
      LET final == Finalized(o.stored, o, s, alertEligible) IN
      /\ o.pc = "read"
      /\ outbox' = (outbox \/ final.event)
      /\ IF job = o.stored
         THEN /\ job' = final.job
              /\ occ' = [occ EXCEPT ![s] = IF o.kind = "admit" THEN "open"
                                           ELSE "closed"]
              /\ obs' = [obs EXCEPT ![s] = NoObservation]
         ELSE /\ obs' = [obs EXCEPT ![s].pc = "proposed", ![s].stored = NoJob]
              /\ UNCHANGED <<job, occ>>
      /\ UNCHANGED <<drain, spent>>

(* Every statement of the batch asks for the value it was computed from    *)
(* (the later ones for the value the first one wrote), so a lost race      *)
(* writes nothing and the projection is computed again.                    *)
CommitBatch(s) ==
    LET o == obs[s] IN
    /\ o.pc = "read"
    /\ IF job = o.stored
       THEN \E alertEligible \in BOOLEAN :
              LET final == Finalized(o.stored, o, s, alertEligible) IN
              /\ job' = final.job
              /\ occ' = [occ EXCEPT ![s] = IF o.kind = "admit" THEN "open"
                                           ELSE "closed"]
              /\ outbox' = (outbox \/ final.event)
              /\ obs' = [obs EXCEPT ![s] = NoObservation]
       ELSE /\ obs' = [obs EXCEPT ![s].pc = "proposed", ![s].stored = NoJob]
            /\ UNCHANGED <<job, occ, outbox>>
    /\ UNCHANGED <<drain, spent>>

(* The fence is lost, the last try lost its race, D1 fails or the isolate  *)
(* dies: nothing is written.                                               *)
Abandon(s) ==
    /\ obs[s].pc # "idle"
    /\ obs' = [obs EXCEPT ![s] = NoObservation]
    /\ UNCHANGED <<job, occ, outbox, drain, spent>>

-----------------------------------------------------------------------------
(* The drain sends an alert for a pending open role, then marks the job    *)
(* as sent: it reads the job again and writes it back unconditionally.     *)
SendPending ==
    /\ drain.pc = "idle" /\ job # NoJob /\ job.pending /\ job.open
    /\ spent.marks < MaxMarks
    /\ spent' = [spent EXCEPT !.marks = @ + 1]
    /\ drain' = [NoDrain EXCEPT !.pc = "sent"]
    /\ UNCHANGED <<job, occ, outbox, obs>>

ReadToMark ==
    /\ drain.pc = "sent"
    /\ drain' = [pc |-> "read", job |-> job]
    /\ UNCHANGED <<job, occ, outbox, obs, spent>>

MarkSmsSent ==
    /\ drain.pc = "read"
    /\ job' = [drain.job EXCEPT !.pending = FALSE, !.sent = TRUE]
    /\ drain' = NoDrain
    /\ UNCHANGED <<occ, outbox, obs, spent>>

Next ==
    \/ \E s \in Source : \/ ObserveListing(s) \/ ObserveClosure(s)
                         \/ ReadStored(s) \/ CommitBatch(s) \/ Abandon(s)
    \/ SendPending \/ ReadToMark \/ MarkSmsSent

Spec == Init /\ [][Next]_vars

-----------------------------------------------------------------------------
Refs == IF job = NoJob THEN [s \in Source |-> "none"] ELSE job.refs

(* A closure is local to its source: however late it commits and however   *)
(* often it was retried, no peer's reference changes under it.             *)
ClosuresAreSourceLocal ==
    [][\A s \in Source :
         obs[s].kind = "close" /\ CommitBatch(s) /\ job' # job
           => /\ \A p \in Source \ {s} : job'.refs[p] = job.refs[p]
              /\ Refs'[s] = "closed"]_vars

(* No commit of an observation erases a source from the posting's history  *)
(* or an alert's tombstone, however stale its proposal is.                 *)
CommitsKeepHistory ==
    [][\A s \in Source : CommitBatch(s) /\ job # NoJob =>
         /\ \A p \in Source : job.refs[p] # "none" => job'.refs[p] # "none"
         /\ job.sent => job'.sent /\ ~job'.pending]_vars

(* The outbox event and the job's notification marker, two records, agree: *)
(* the event is there exactly when the role is, or was, pending an alert.  *)
OutboxMatchesMarker ==
    outbox <=> job # NoJob /\ (job.pending \/ job.sent)

(* A role remains open while any source occurrence is open: the step that  *)
(* closes it leaves no open occurrence.                                    *)
RoleRemainsOpen ==
    [][job # NoJob /\ job.open /\ ~job'.open
         => \A s \in Source : occ'[s] # "open"]_vars

(* A concurrent writer cannot erase source history: a source that is       *)
(* attached to the job stays attached, whoever writes the job.             *)
HistoryIsNeverErased ==
    [][\A s \in Source : Refs[s] # "none" => Refs'[s] # "none"]_vars

=============================================================================
