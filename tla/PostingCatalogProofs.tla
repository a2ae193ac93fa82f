------------------------- MODULE PostingCatalogProofs -------------------------
(***************************************************************************)
(* Proofs about PostingCatalog, for every set of sources and every bound.  *)
(*                                                                         *)
(* The agreement of the outbox with the job's marker is not inductive: a   *)
(* commit writes what an observation proposed earlier, and a drain what it *)
(* read earlier. The strengthening says what is true of a proposal however *)
(* long it has been under way: its event is an alert it proposes, an alert *)
(* it proposes without an event is one it read, and so is in the outbox,   *)
(* and a closure proposes no reference but its own.                        *)
(***************************************************************************)
EXTENDS PostingCatalog, TLAPS

Proposals ==
    \A s \in Source :
       /\ obs[s].pc # "idle" => obs[s].job # NoJob
       /\ obs[s].event => obs[s].job # NoJob /\ obs[s].job.pending
       /\ obs[s].job # NoJob /\ ~obs[s].event
            /\ (obs[s].job.pending \/ obs[s].job.sent) => outbox
       /\ obs[s].job # NoJob /\ obs[s].job.sent => outbox
       /\ obs[s].pc # "idle" /\ obs[s].kind = "close" =>
            /\ job # NoJob
            /\ \A p \in Source \ {s} : obs[s].job.refs[p] = "none"

Draining ==
    /\ drain.pc # "idle" => job # NoJob /\ outbox
    /\ drain.pc = "read" => drain.job # NoJob

SentIsNotPending == job # NoJob /\ job.sent => ~job.pending

IInv == /\ TypeOK /\ OutboxMatchesMarker /\ SentIsNotPending
        /\ Proposals /\ Draining

-----------------------------------------------------------------------------
(* What a projection is: references of every source, each of them known if *)
(* the stored one was, and an alert that is pending only if it is not sent.*)
LEMMA ProjectType ==
    ASSUME NEW stored \in Job \cup {NoJob}, NEW o \in Observation,
           o.job # NoJob, NEW s \in Source
    PROVE  Project(stored, o, s) \in Job
<1>1. /\ o.job \in Job
      /\ \A p \in Source : o.job.refs[p] \in State
      /\ o.job.open \in BOOLEAN /\ o.job.pending \in BOOLEAN
      /\ o.job.sent \in BOOLEAN
  BY DEF Observation, Job
<1>2. \A p \in Source : stored # NoJob => stored.refs[p] \in State
  BY DEF Job
<1>3. \A p \in Source : Reference(stored, o, s, p) \in State
  BY <1>1, <1>2 DEF Reference, State
<1>4. [p \in Source |-> Reference(stored, o, s, p)] \in [Source -> State]
  BY <1>3
<1> QED
  BY <1>1, <1>4 DEF Project, Job, AnyOpen, StoredOpen, StoredPending, StoredSent

LEMMA FinalizedType ==
    ASSUME NEW stored \in Job \cup {NoJob}, NEW o \in Observation,
           o.job # NoJob, NEW s \in Source, NEW e \in BOOLEAN
    PROVE  /\ Finalized(stored, o, s, e).job \in Job
           /\ Finalized(stored, o, s, e).event \in BOOLEAN
<1>1. Project(stored, o, s) \in Job
  BY ProjectType
<1>2. o.event \in BOOLEAN
  BY DEF Observation
<1> QED
  BY <1>1, <1>2 DEF Finalized, Job, StoredPending

(* What Finalized leaves of the projection: its references and what it says*)
(* of sent alerts.                                                         *)
LEMMA FinalizedFields ==
    ASSUME NEW stored \in Job \cup {NoJob}, NEW o \in Observation,
           o.job # NoJob, NEW s \in Source, NEW e \in BOOLEAN
    PROVE  /\ \A p \in Source : Finalized(stored, o, s, e).job.refs[p]
                                  = Reference(stored, o, s, p)
           /\ Finalized(stored, o, s, e).job.sent
                <=> StoredSent(stored) \/ o.job.sent
           /\ Finalized(stored, o, s, e).job.sent
                => ~Finalized(stored, o, s, e).job.pending
<1>1. Project(stored, o, s) \in Job
  BY ProjectType
<1>2. /\ \A p \in Source : Project(stored, o, s).refs[p]
                             = Reference(stored, o, s, p)
      /\ Project(stored, o, s).sent <=> StoredSent(stored) \/ o.job.sent
      /\ Project(stored, o, s).sent => ~Project(stored, o, s).pending
  BY DEF Project
<1> QED
  BY <1>1, <1>2 DEF Finalized, Job

(* An alert is pending or sent after a commit exactly when it was before,  *)
(* the proposal read it as sent, or the proposal brings one that is kept.  *)
LEMMA FinalizedMarker ==
    ASSUME NEW stored \in Job \cup {NoJob}, NEW o \in Observation,
           o.job # NoJob, NEW s \in Source, NEW e \in BOOLEAN,
           o.event => o.job.pending
    PROVE  LET final == Finalized(stored, o, s, e) IN
           (final.job.pending \/ final.job.sent) <=>
              \/ StoredPending(stored) \/ StoredSent(stored) \/ o.job.sent
              \/ final.event
              \/ ~o.event /\ o.job.pending
<1> DEFINE P == Project(stored, o, s)
<1>1. P \in Job
  BY ProjectType
<1>2. /\ P.sent <=> StoredSent(stored) \/ o.job.sent
      /\ P.pending <=> ~P.sent /\ (StoredPending(stored) \/ o.job.pending)
  BY DEF Project
<1>3. P = [P EXCEPT !.pending = P.pending]
  BY <1>1 DEF Job
<1> HIDE DEF P
<1>4. CASE o.event /\ ~(P.open /\ e)
  <2>1. /\ Finalized(stored, o, s, e).job
             = [P EXCEPT !.pending = ~P.sent /\ StoredPending(stored)]
        /\ Finalized(stored, o, s, e).event = FALSE
    BY <1>4 DEF Finalized, P
  <2>2. /\ Finalized(stored, o, s, e).job.sent = P.sent
        /\ Finalized(stored, o, s, e).job.pending
             = (~P.sent /\ StoredPending(stored))
    BY <1>1, <2>1 DEF Job
  <2> QED
    BY <1>2, <1>4, <2>1, <2>2
<1>5. CASE ~(o.event /\ ~(P.open /\ e))
  <2>1. /\ Finalized(stored, o, s, e).job = P
        /\ Finalized(stored, o, s, e).event = o.event
    BY <1>5 DEF Finalized, P
  <2> QED
    BY <1>2, <2>1
<1> QED
  BY <1>4, <1>5

-----------------------------------------------------------------------------
LEMMA Initially == Init => IInv
<1> SUFFICES ASSUME Init PROVE IInv
  OBVIOUS
<1>1. NoObservation \in Observation /\ NoDrain \in Drain
  BY BoundsAreNaturals DEF NoObservation, Observation, NoDrain, Drain, Kind
<1>2. TypeOK
  <2>1. /\ occ \in [Source -> State] /\ obs \in [Source -> Observation]
        /\ drain \in Drain /\ job \in Job \cup {NoJob} /\ outbox \in BOOLEAN
    BY <1>1 DEF Init, State
  <2>2. 0 \in 0..MaxObservations /\ 0 \in 0..MaxMarks
    BY BoundsAreNaturals
  <2>3. spent \in [observations : 0..MaxObservations, marks : 0..MaxMarks]
    BY <2>2 DEF Init
  <2> QED
    BY <2>1, <2>3 DEF TypeOK
<1>3. OutboxMatchesMarker /\ SentIsNotPending /\ Proposals /\ Draining
  BY DEF Init, OutboxMatchesMarker, SentIsNotPending, Proposals, Draining,
         NoObservation, NoDrain
<1> QED
  BY <1>2, <1>3 DEF IInv

(* What an observation proposes is a job, with the alert it read or brings.*)
LEMMA MergedProposal ==
    ASSUME NEW j \in Job, NEW s \in Source, NEW verified \in BOOLEAN,
           NEW promote \in BOOLEAN
    PROVE  /\ Merged(j, s, verified, promote) \in Job
           /\ Merged(j, s, verified, promote).pending <=> j.pending \/ promote
           /\ Merged(j, s, verified, promote).sent = j.sent
<1>1. CanRevive(j, s, verified) \in BOOLEAN
  BY DEF CanRevive, HasOfficial, Job
<1>2. [j.refs EXCEPT ![s] = "open"] \in [Source -> State]
  BY DEF Job, State
<1> QED
  BY <1>1, <1>2 DEF Merged, Job

LEMMA ClosureOnlyOwn ==
    ASSUME NEW j \in Job, NEW s \in Source
    PROVE  /\ ClosureProposal(j, s) \in Job
           /\ ClosureProposal(j, s).pending = j.pending
           /\ ClosureProposal(j, s).sent = j.sent
           /\ \A p \in Source \ {s} : ClosureProposal(j, s).refs[p] = "none"
<1>1. [p \in Source |-> IF p = s THEN "closed" ELSE "none"]
        \in [Source -> State]
  BY DEF State
<1> QED
  BY <1>1 DEF ClosureProposal, Job

(* An observation that begins keeps the invariant if what it proposes is a *)
(* job, an event it brings is an alert it proposes, and an alert it        *)
(* proposes without one is in the outbox.                                  *)
LEMMA BeginKeeps ==
    ASSUME IInv, NEW s \in Source, NEW k \in Kind, NEW j \in Job,
           NEW event \in BOOLEAN, Begin(s, k, j, event),
           event => j.pending,
           ~event /\ (j.pending \/ j.sent) => outbox,
           j.sent => outbox,
           k = "close" => /\ job # NoJob
                          /\ \A p \in Source \ {s} : j.refs[p] = "none"
    PROVE  IInv'
<1> DEFINE O == [NoObservation EXCEPT !.pc = "proposed", !.kind = k,
                                      !.job = j, !.event = event]
<1>1. O \in Observation
  <2>1. NoObservation \in Observation
    BY BoundsAreNaturals DEF NoObservation, Observation, Kind
  <2> QED
    BY <2>1 DEF Observation
<1>2. /\ O.pc = "proposed" /\ O.kind = k /\ O.job = j /\ O.event = event
  BY DEF NoObservation
<1>3. obs' = [obs EXCEPT ![s] = O]
  BY DEF Begin
<1> HIDE DEF O
<1>4. /\ obs'[s] = O
      /\ \A q \in Source : q # s => obs'[q] = obs[q]
  BY <1>3 DEF IInv, TypeOK
<1>5. UNCHANGED <<job, occ, outbox, drain>>
  BY DEF Begin
<1>6. TypeOK'
  <2>1. spent' \in [observations : 0..MaxObservations, marks : 0..MaxMarks]
    BY BoundsAreNaturals DEF Begin, IInv, TypeOK
  <2> QED
    BY <1>1, <1>3, <1>5, <2>1 DEF IInv, TypeOK
<1>7. OutboxMatchesMarker' /\ SentIsNotPending' /\ Draining'
  BY <1>5 DEF IInv, OutboxMatchesMarker, SentIsNotPending, Draining
<1>8. Proposals'
  BY <1>2, <1>4, <1>5, NoJobIsNoJob DEF IInv, Proposals
<1> QED
  BY <1>6, <1>7, <1>8 DEF IInv

LEMMA ObserveKeeps ==
    ASSUME IInv, NEW s \in Source, ObserveListing(s) \/ ObserveClosure(s)
    PROVE  IInv'
<1>1. job # NoJob => job \in Job
  BY DEF IInv, TypeOK
<1>2. job # NoJob /\ (job.pending \/ job.sent) => outbox
  BY DEF IInv, OutboxMatchesMarker
<1>3. ASSUME NEW notify \in BOOLEAN,
             Begin(s, "admit", Created(s, notify), notify)
      PROVE  IInv'
  <2>1. /\ Created(s, notify) \in Job
        /\ Created(s, notify).pending = notify /\ ~Created(s, notify).sent
    BY DEF Created, Job, State
  <2> QED
    BY <1>3, <2>1, BeginKeeps DEF Kind
<1>4. ASSUME job # NoJob, NEW verified \in BOOLEAN, NEW promote \in BOOLEAN,
             Begin(s, "admit", Merged(job, s, verified, promote), promote)
      PROVE  IInv'
  <2>1. /\ Merged(job, s, verified, promote) \in Job
        /\ Merged(job, s, verified, promote).pending
             <=> job.pending \/ promote
        /\ Merged(job, s, verified, promote).sent = job.sent
    BY <1>1, <1>4, MergedProposal
  <2> QED
    BY <1>1, <1>2, <1>4, <2>1, BeginKeeps DEF Kind
<1>5. CASE ObserveClosure(s)
  <2>1. /\ ClosureProposal(job, s) \in Job
        /\ ClosureProposal(job, s).pending = job.pending
        /\ ClosureProposal(job, s).sent = job.sent
        /\ \A p \in Source \ {s} : ClosureProposal(job, s).refs[p] = "none"
    BY <1>1, <1>5, ClosureOnlyOwn DEF ObserveClosure
  <2> QED
    BY <1>2, <1>5, <2>1, BeginKeeps DEF ObserveClosure, Kind
<1> QED
  BY <1>3, <1>4, <1>5 DEF ObserveListing

(* A step that only moves a proposal on, and leaves the catalog alone. *)
LEMMA ProposalsCarryOver ==
    ASSUME Proposals, NEW s \in Source, obs[s].pc # "idle",
           UNCHANGED <<job, outbox>>,
           /\ obs'[s].job = obs[s].job /\ obs'[s].kind = obs[s].kind
           /\ obs'[s].event = obs[s].event
           /\ \A q \in Source : q # s => obs'[q] = obs[q]
    PROVE  Proposals'
<1> SUFFICES ASSUME NEW q \in Source
             PROVE  /\ obs'[q].pc # "idle" => obs'[q].job # NoJob
                    /\ obs'[q].event => obs'[q].job # NoJob /\ obs'[q].job.pending
                    /\ obs'[q].job # NoJob /\ ~obs'[q].event
                         /\ (obs'[q].job.pending \/ obs'[q].job.sent) => outbox'
                    /\ obs'[q].job # NoJob /\ obs'[q].job.sent => outbox'
                    /\ obs'[q].pc # "idle" /\ obs'[q].kind = "close" =>
                         /\ job' # NoJob
                         /\ \A p \in Source \ {q} : obs'[q].job.refs[p] = "none"
  BY DEF Proposals
<1>1. /\ obs'[q].job = obs[q].job /\ obs'[q].kind = obs[q].kind
      /\ obs'[q].event = obs[q].event
      /\ obs'[q].pc # "idle" => obs[q].pc # "idle"
  <2>1. CASE q = s
    BY <2>1
  <2>2. CASE q # s
    BY <2>2
  <2> QED
    BY <2>1, <2>2
<1>2. /\ obs[q].pc # "idle" => obs[q].job # NoJob
      /\ obs[q].event => obs[q].job # NoJob /\ obs[q].job.pending
      /\ obs[q].job # NoJob /\ ~obs[q].event
           /\ (obs[q].job.pending \/ obs[q].job.sent) => outbox
      /\ obs[q].job # NoJob /\ obs[q].job.sent => outbox
      /\ obs[q].pc # "idle" /\ obs[q].kind = "close" =>
           /\ job # NoJob
           /\ \A p \in Source \ {q} : obs[q].job.refs[p] = "none"
  BY Zenon DEF Proposals
<1>3. job' = job /\ outbox' = outbox
  OBVIOUS
<1>4. /\ obs'[q].pc # "idle" => obs'[q].job # NoJob
      /\ obs'[q].event => obs'[q].job # NoJob /\ obs'[q].job.pending
      /\ obs'[q].job # NoJob /\ obs'[q].job.sent => outbox'
  BY <1>1, <1>2, <1>3
<1>5. obs'[q].job # NoJob /\ ~obs'[q].event
        /\ (obs'[q].job.pending \/ obs'[q].job.sent) => outbox'
  BY <1>1, <1>2, <1>3
<1>6. obs'[q].pc # "idle" /\ obs'[q].kind = "close" =>
        /\ job' # NoJob
        /\ \A p \in Source \ {q} : obs'[q].job.refs[p] = "none"
  BY <1>1, <1>2, <1>3
<1> QED
  BY <1>4, <1>5, <1>6, Zenon

LEMMA ReadKeeps ==
    ASSUME IInv, NEW s \in Source, ReadStored(s)
    PROVE  IInv'
<1>1. /\ obs[s].pc = "proposed" /\ obs[s].tries < MaxTries
      /\ obs' = [obs EXCEPT ![s].pc = "read", ![s].stored = job,
                            ![s].tries = @ + 1]
      /\ UNCHANGED <<job, occ, outbox, drain, spent>>
  BY DEF ReadStored
<1>2. obs[s] \in Observation
  BY DEF IInv, TypeOK
<1>3. /\ obs'[s].job = obs[s].job /\ obs'[s].kind = obs[s].kind
      /\ obs'[s].event = obs[s].event
      /\ \A q \in Source : q # s => obs'[q] = obs[q]
  BY <1>1, <1>2 DEF IInv, TypeOK, Observation
<1>4. TypeOK'
  <2>1. obs[s].tries + 1 \in 0..MaxTries
    BY <1>1, <1>2, BoundsAreNaturals DEF Observation
  <2>2. obs'[s] \in Observation
    BY <1>1, <1>2, <2>1 DEF IInv, TypeOK, Observation
  <2>3. obs' \in [Source -> Observation]
    BY <1>1, <1>3, <2>2 DEF IInv, TypeOK
  <2> QED
    BY <1>1, <2>3 DEF IInv, TypeOK
<1>5. OutboxMatchesMarker' /\ SentIsNotPending' /\ Draining'
  BY <1>1 DEF IInv, OutboxMatchesMarker, SentIsNotPending, Draining
<1>6. Proposals'
  BY <1>1, <1>3, ProposalsCarryOver DEF IInv
<1> QED
  BY <1>4, <1>5, <1>6 DEF IInv

LEMMA AbandonKeeps ==
    ASSUME IInv, NEW s \in Source, Abandon(s)
    PROVE  IInv'
<1>1. /\ obs' = [obs EXCEPT ![s] = NoObservation]
      /\ UNCHANGED <<job, occ, outbox, drain, spent>>
  BY DEF Abandon
<1>2. NoObservation \in Observation
  BY BoundsAreNaturals DEF NoObservation, Observation, Kind
<1>3. TypeOK'
  BY <1>1, <1>2 DEF IInv, TypeOK
<1>4. OutboxMatchesMarker' /\ SentIsNotPending' /\ Draining'
  BY <1>1 DEF IInv, OutboxMatchesMarker, SentIsNotPending, Draining
<1>5. Proposals'
  BY <1>1 DEF IInv, TypeOK, Proposals, NoObservation
<1> QED
  BY <1>3, <1>4, <1>5 DEF IInv

LEMMA CommitKeeps ==
    ASSUME IInv, NEW s \in Source, CommitBatch(s)
    PROVE  IInv'
<1> DEFINE o == obs[s]
<1>1. o \in Observation /\ o.pc = "read" /\ o.job # NoJob
  BY DEF IInv, TypeOK, Proposals, CommitBatch
<1>2. UNCHANGED <<drain, spent>>
  BY DEF CommitBatch
<1>3. CASE job # o.stored
  <2>1. /\ obs' = [obs EXCEPT ![s].pc = "proposed", ![s].stored = NoJob]
        /\ UNCHANGED <<job, occ, outbox>>
    BY <1>3 DEF CommitBatch
  <2>2. /\ obs'[s].job = obs[s].job /\ obs'[s].kind = obs[s].kind
        /\ obs'[s].event = obs[s].event
        /\ \A q \in Source : q # s => obs'[q] = obs[q]
    BY <1>1, <2>1 DEF IInv, TypeOK, Observation
  <2>3. obs'[s] \in Observation
    BY <1>1, <2>1 DEF IInv, TypeOK, Observation
  <2>4. obs' \in [Source -> Observation]
    BY <2>1, <2>2, <2>3 DEF IInv, TypeOK
  <2>5. TypeOK'
    BY <1>2, <2>1, <2>4 DEF IInv, TypeOK
  <2>6. OutboxMatchesMarker' /\ SentIsNotPending' /\ Draining'
    BY <1>2, <2>1 DEF IInv, OutboxMatchesMarker, SentIsNotPending, Draining
  <2>7. Proposals'
    BY <1>1, <2>1, <2>2, ProposalsCarryOver DEF IInv
  <2> QED
    BY <2>5, <2>6, <2>7 DEF IInv
<1>4. CASE job = o.stored
  <2>1. PICK e \in BOOLEAN :
           LET final == Finalized(o.stored, o, s, e) IN
           /\ job' = final.job
           /\ occ' = [occ EXCEPT ![s] = IF o.kind = "admit" THEN "open"
                                        ELSE "closed"]
           /\ outbox' = (outbox \/ final.event)
           /\ obs' = [obs EXCEPT ![s] = NoObservation]
    BY <1>4 DEF CommitBatch
  <2> DEFINE F == Finalized(o.stored, o, s, e)
  <2>2. o.stored \in Job \cup {NoJob}
    BY <1>1 DEF Observation
  <2>3. F.job \in Job /\ F.event \in BOOLEAN
    BY <1>1, <2>2, FinalizedType
  <2>4. o.event => o.job.pending
    BY DEF IInv, Proposals
  <2>5. (F.job.pending \/ F.job.sent) <=>
              \/ StoredPending(job) \/ StoredSent(job) \/ o.job.sent
              \/ F.event
              \/ ~o.event /\ o.job.pending
    BY <1>1, <1>4, <2>2, <2>4, FinalizedMarker
  <2>6. /\ job' = F.job /\ outbox' = (outbox \/ F.event)
    BY <2>1
  <2> HIDE DEF F
  <2>7. NoObservation \in Observation
    BY BoundsAreNaturals DEF NoObservation, Observation, Kind
  <2>8. TypeOK'
    BY <1>2, <2>1, <2>3, <2>6, <2>7 DEF IInv, TypeOK, State
  <2>9. job' # NoJob
    BY <2>3, <2>6, NoJobIsNoJob
  <2>10. OutboxMatchesMarker'
    <3>1. outbox <=> StoredPending(job) \/ StoredSent(job)
      BY DEF IInv, OutboxMatchesMarker, StoredPending, StoredSent
    <3>2. (o.job.sent => outbox) /\ (~o.event /\ o.job.pending => outbox)
      BY <1>1 DEF IInv, Proposals
    <3> HIDE DEF o
    <3>3. outbox' <=> F.job.pending \/ F.job.sent
      BY <2>5, <2>6, <3>1, <3>2
    <3> QED
      BY <2>6, <2>9, <3>3 DEF OutboxMatchesMarker
  <2>11. SentIsNotPending' /\ Draining'
    <3>1. F.job.sent => ~F.job.pending
      BY <1>1, <2>2, FinalizedFields DEF F
    <3> QED
      BY <1>2, <2>6, <2>9, <3>1 DEF IInv, SentIsNotPending, Draining
  <2>12. Proposals'
    <3>1. outbox => outbox'
      BY <2>6
    <3>2. ASSUME NEW q \in Source, q # s
          PROVE  obs'[q] = obs[q]
      BY <2>1, <3>2 DEF IInv, TypeOK
    <3>3. obs'[s] = NoObservation
      BY <2>1 DEF IInv, TypeOK
    <3> QED
      BY <2>9, <3>1, <3>2, <3>3 DEF IInv, Proposals, NoObservation
  <2> QED
    BY <2>8, <2>10, <2>11, <2>12 DEF IInv
<1> QED
  BY <1>3, <1>4

LEMMA DrainKeeps ==
    ASSUME IInv, SendPending \/ ReadToMark \/ MarkSmsSent
    PROVE  IInv'
<1>1. CASE SendPending
  <2>1. /\ job # NoJob /\ job.pending /\ UNCHANGED <<job, occ, outbox, obs>>
        /\ drain' = [NoDrain EXCEPT !.pc = "sent"]
    BY <1>1 DEF SendPending
  <2>2. spent' \in [observations : 0..MaxObservations, marks : 0..MaxMarks]
    BY <1>1, BoundsAreNaturals DEF SendPending, IInv, TypeOK
  <2>3. drain' \in Drain /\ drain'.pc = "sent"
    BY <2>1 DEF NoDrain, Drain
  <2> QED
    BY <2>1, <2>2, <2>3
    DEF IInv, TypeOK, OutboxMatchesMarker, SentIsNotPending, Proposals, Draining
<1>2. CASE ReadToMark
  <2>1. /\ drain.pc = "sent" /\ drain' = [pc |-> "read", job |-> job]
        /\ UNCHANGED <<job, occ, outbox, obs, spent>>
    BY <1>2 DEF ReadToMark
  <2>2. drain' \in Drain /\ drain'.pc = "read" /\ drain'.job = job
    BY <2>1 DEF IInv, TypeOK, Drain
  <2> QED
    BY <2>1, <2>2
    DEF IInv, TypeOK, OutboxMatchesMarker, SentIsNotPending, Proposals, Draining
<1>3. CASE MarkSmsSent
  <2>1. /\ drain.pc = "read" /\ drain' = NoDrain
        /\ job' = [drain.job EXCEPT !.pending = FALSE, !.sent = TRUE]
        /\ UNCHANGED <<occ, outbox, obs, spent>>
    BY <1>3 DEF MarkSmsSent
  <2>2. drain.job \in Job /\ job # NoJob /\ outbox
    BY <2>1 DEF IInv, TypeOK, Drain, Draining
  <2>3. job' \in Job /\ job'.sent /\ ~job'.pending /\ job' # NoJob
    BY <2>1, <2>2, NoJobIsNoJob DEF Job
  <2>4. drain' \in Drain /\ drain'.pc = "idle"
    BY <2>1 DEF NoDrain, Drain
  <2> QED
    BY <2>1, <2>2, <2>3, <2>4
    DEF IInv, TypeOK, OutboxMatchesMarker, SentIsNotPending, Proposals, Draining
<1> QED
  BY <1>1, <1>2, <1>3

(* The strengthening is an invariant of every behaviour of the posting. *)
THEOREM Invariance == Spec => []IInv
<1>1. Init => IInv
  BY Initially
<1>2. IInv /\ [Next]_vars => IInv'
  <2> SUFFICES ASSUME IInv, [Next]_vars PROVE IInv'
    OBVIOUS
  <2>1. CASE Next
    BY <2>1, ObserveKeeps, ReadKeeps, CommitKeeps, AbandonKeeps, DrainKeeps
    DEF Next
  <2>2. CASE UNCHANGED vars
    BY <2>2 DEF vars, IInv, TypeOK, OutboxMatchesMarker, SentIsNotPending,
                Proposals, Draining
  <2> QED
    BY <2>1, <2>2
<1> QED
  BY <1>1, <1>2, PTL DEF Spec

-----------------------------------------------------------------------------
(* Type correctness, for every set of sources and all bounds. *)
THEOREM TypeCorrect == Spec => []TypeOK
<1>1. IInv => TypeOK
  BY DEF IInv
<1> QED
  BY <1>1, Invariance, PTL

(* The new-role event is in the outbox exactly when the role is, or was,   *)
(* pending an alert: no interleaving of two sources that both create the   *)
(* role, of lost races and of the drain's blind write separates the two.   *)
THEOREM OutboxAgrees == Spec => []OutboxMatchesMarker
<1>1. IInv => OutboxMatchesMarker
  BY DEF IInv
<1> QED
  BY <1>1, Invariance, PTL

(* A commit that changed the job won its race: the value it read is the    *)
(* value it replaced, and what it wrote is what Finalized computed.        *)
LEMMA WonRace ==
    ASSUME IInv, NEW s \in Source, CommitBatch(s),
           job' # job
    PROVE  /\ obs[s] \in Observation /\ obs[s].job # NoJob
           /\ obs[s].stored = job /\ obs[s].stored \in Job \cup {NoJob}
           /\ \E e \in BOOLEAN : job' = Finalized(job, obs[s], s, e).job
<1>1. obs[s] \in Observation /\ obs[s].job # NoJob
  BY DEF IInv, TypeOK, Proposals, CommitBatch
<1>2. obs[s].stored \in Job \cup {NoJob}
  BY <1>1 DEF Observation
<1>3. obs[s].stored = job
  BY DEF CommitBatch
<1> QED
  BY <1>1, <1>2, <1>3 DEF CommitBatch

(* A closure is local to its source, however late it commits. *)
THEOREM ClosuresStayLocal == Spec => ClosuresAreSourceLocal
<1> DEFINE Local == \A s \in Source :
         obs[s].kind = "close" /\ CommitBatch(s) /\ job' # job
           => /\ \A p \in Source \ {s} : job'.refs[p] = job.refs[p]
              /\ Refs'[s] = "closed"
<1>1. ASSUME IInv, NEW s \in Source, obs[s].kind = "close", CommitBatch(s),
             job' # job
      PROVE  /\ \A p \in Source \ {s} : job'.refs[p] = job.refs[p]
             /\ Refs'[s] = "closed"
  <2>1. /\ obs[s] \in Observation /\ obs[s].job # NoJob
        /\ obs[s].stored = job /\ job \in Job \cup {NoJob}
        /\ \E e \in BOOLEAN : job' = Finalized(job, obs[s], s, e).job
    BY <1>1, WonRace
  <2>2. PICK e \in BOOLEAN : job' = Finalized(job, obs[s], s, e).job
    BY <2>1
  <2>3. /\ job # NoJob
        /\ \A p \in Source \ {s} : obs[s].job.refs[p] = "none"
    BY <1>1 DEF IInv, Proposals, CommitBatch
  <2>4. \A p \in Source : job'.refs[p] = Reference(job, obs[s], s, p)
    BY <2>1, <2>2, FinalizedFields
  <2>5. job' # NoJob
    BY <2>1, <2>2, FinalizedType, NoJobIsNoJob
  <2>6. \A p \in Source \ {s} : job'.refs[p] = job.refs[p]
    BY <2>3, <2>4 DEF Reference
  <2>7. job'.refs[s] = "closed"
    BY <1>1, <2>4 DEF Reference
  <2> QED
    BY <2>5, <2>6, <2>7 DEF Refs
<1>2. IInv /\ [Next]_vars => [Local]_vars
  BY <1>1
<1> QED
  BY <1>2, Invariance, PTL DEF Spec, ClosuresAreSourceLocal

(* No commit of an observation erases a source or an alert's tombstone. *)
THEOREM CommitsKeep == Spec => CommitsKeepHistory
<1> DEFINE Keep == \A s \in Source : CommitBatch(s) /\ job # NoJob =>
         /\ \A p \in Source : job.refs[p] # "none" => job'.refs[p] # "none"
         /\ job.sent => job'.sent /\ ~job'.pending
<1>1. ASSUME IInv, NEW s \in Source, CommitBatch(s), job # NoJob,
             job' # job
      PROVE  /\ \A p \in Source :
                   job.refs[p] # "none" => job'.refs[p] # "none"
             /\ job.sent => job'.sent /\ ~job'.pending
  <2>1. /\ obs[s] \in Observation /\ obs[s].job # NoJob
        /\ obs[s].stored = job /\ job \in Job \cup {NoJob}
        /\ \E e \in BOOLEAN : job' = Finalized(job, obs[s], s, e).job
    BY <1>1, WonRace
  <2>2. PICK e \in BOOLEAN : job' = Finalized(job, obs[s], s, e).job
    BY <2>1
  <2>3. /\ \A p \in Source : job'.refs[p] = Reference(job, obs[s], s, p)
        /\ job'.sent <=> StoredSent(job) \/ obs[s].job.sent
        /\ job'.sent => ~job'.pending
    BY <2>1, <2>2, FinalizedFields
  <2>4. \A p \in Source : job.refs[p] # "none" => job'.refs[p] # "none"
    BY <1>1, <2>3 DEF Reference
  <2> QED
    BY <1>1, <2>3, <2>4 DEF StoredSent
<1>2. ASSUME IInv, NEW s \in Source, CommitBatch(s), job # NoJob
      PROVE  /\ \A p \in Source :
                   job.refs[p] # "none" => job'.refs[p] # "none"
             /\ job.sent => job'.sent /\ ~job'.pending
  <2>1. CASE job' = job
    BY <1>2, <2>1 DEF IInv, SentIsNotPending
  <2>2. CASE job' # job
    BY <1>1, <1>2, <2>2
  <2> QED
    BY <2>1, <2>2
<1>3. IInv /\ [Next]_vars => [Keep]_vars
  BY <1>2
<1> QED
  BY <1>3, Invariance, PTL DEF Spec, CommitsKeepHistory

-----------------------------------------------------------------------------
(* What the findings take. The two promises that posting_history and       *)
(* posting_open break hold as long as nobody writes back a peer's old      *)
(* reference: no mark writes a job that has changed since it was read, and *)
(* no listing commits a peer's reference that has changed since.           *)
MarksUndisturbed == [][MarkSmsSent => drain.job = job]_vars

PeersAsRead(s) == \A p \in Source \ {s} : obs[s].job.refs[p] \in {"none", Refs[p]}
ListingsUndisturbed ==
    [][\A s \in Source :
          CommitBatch(s) /\ obs[s].stored = job => PeersAsRead(s)]_vars

OccurrencesAgree == \A p \in Source : occ[p] = Refs[p]

(* Only a commit and a mark write the job.                                 *)
LEMMA JobWriters ==
    ASSUME [Next]_vars, job' # job \/ occ' # occ
    PROVE  MarkSmsSent \/ \E s \in Source : CommitBatch(s) /\ obs[s].stored = job
<1>1. Next
  BY DEF vars
<1>2. CASE SendPending \/ ReadToMark
  BY <1>2 DEF SendPending, ReadToMark
<1>3. ASSUME NEW s \in Source,
             ObserveListing(s) \/ ObserveClosure(s) \/ ReadStored(s) \/ Abandon(s)
      PROVE  FALSE
  BY <1>3 DEF ObserveListing, ObserveClosure, Begin, ReadStored, Abandon
<1>4. ASSUME NEW s \in Source, CommitBatch(s) PROVE obs[s].stored = job
  BY <1>4 DEF CommitBatch
<1> QED
  BY <1>1, <1>2, <1>3, <1>4 DEF Next

(* A commit that won writes its own reference and, of its peers, those that*)
(* it proposes; the job it writes is open if it was and a reference is.    *)
LEMMA CommitWrites ==
    ASSUME IInv, NEW s \in Source, CommitBatch(s), obs[s].stored = job
    PROVE  /\ job' # NoJob
           /\ \A p \in Source : job'.refs[p] = Reference(job, obs[s], s, p)
           /\ occ' = [occ EXCEPT ![s] = Reference(job, obs[s], s, s)]
           /\ StoredOpen(job) /\ AnyOpen(job'.refs) => job'.open
<1>1. /\ obs[s] \in Observation /\ obs[s].job # NoJob /\ obs[s].pc = "read"
      /\ job \in Job \cup {NoJob}
  BY DEF IInv, TypeOK, Proposals, CommitBatch
<1>2. PICK e \in BOOLEAN :
         /\ job' = Finalized(job, obs[s], s, e).job
         /\ occ' = [occ EXCEPT ![s] = IF obs[s].kind = "admit" THEN "open"
                                      ELSE "closed"]
  BY DEF CommitBatch
<1>3. /\ job' \in Job
      /\ \A p \in Source : job'.refs[p] = Reference(job, obs[s], s, p)
  <2>1. Finalized(job, obs[s], s, e).job \in Job
    BY <1>1, FinalizedType
  <2>2. \A p \in Source : Finalized(job, obs[s], s, e).job.refs[p]
                             = Reference(job, obs[s], s, p)
    BY <1>1, FinalizedFields
  <2> QED
    BY <1>2, <2>1, <2>2
<1>4. job'.open = Project(job, obs[s], s).open
  <2>1. Project(job, obs[s], s) \in Job
    BY <1>1, ProjectType
  <2> QED
    BY <1>2, <2>1 DEF Finalized, Job
<1>5. Project(job, obs[s], s).open
        <=> /\ \E p \in Source : Reference(job, obs[s], s, p) = "open"
            /\ StoredOpen(job) \/ obs[s].job.open
  BY DEF Project, AnyOpen
<1> QED
  BY <1>2, <1>3, <1>4, <1>5, NoJobIsNoJob DEF Reference, AnyOpen

(* Undisturbed steps keep the occurrences and the references in agreement. *)
LEMMA UndisturbedStep ==
    ASSUME IInv, OccurrencesAgree, [Next]_vars,
           MarkSmsSent => drain.job = job,
           \A s \in Source :
              CommitBatch(s) /\ obs[s].stored = job => PeersAsRead(s)
    PROVE  OccurrencesAgree'
<1>1. occ \in [Source -> State] /\ job \in Job \cup {NoJob}
  BY DEF IInv, TypeOK
<1>2. CASE job' = job /\ occ' = occ
  BY <1>2 DEF OccurrencesAgree, Refs
<1>3. CASE MarkSmsSent
  <2>1. /\ job' = [job EXCEPT !.pending = FALSE, !.sent = TRUE]
        /\ occ' = occ /\ job # NoJob
    BY <1>3 DEF MarkSmsSent, IInv, Draining
  <2>2. job' # NoJob /\ job'.refs = job.refs
    BY <1>1, <2>1, NoJobIsNoJob DEF Job
  <2> QED
    BY <2>1, <2>2 DEF OccurrencesAgree, Refs
<1>4. ASSUME NEW s \in Source, CommitBatch(s), obs[s].stored = job
      PROVE  OccurrencesAgree'
  <2>1. /\ job' # NoJob /\ PeersAsRead(s)
        /\ \A p \in Source : job'.refs[p] = Reference(job, obs[s], s, p)
        /\ occ' = [occ EXCEPT ![s] = Reference(job, obs[s], s, s)]
    BY <1>4, CommitWrites
  <2>2. \A p \in Source \ {s} : Reference(job, obs[s], s, p) = Refs[p]
    BY <2>1 DEF Reference, PeersAsRead, Refs
  <2>3. \A p \in Source : occ'[p] = job'.refs[p]
    BY <1>1, <2>1, <2>2 DEF OccurrencesAgree
  <2> QED
    BY <2>1, <2>3 DEF OccurrencesAgree, Refs
<1> QED
  BY <1>2, <1>3, <1>4, JobWriters

(* A source that is attached stays attached unless a mark writes back a job*)
(* that has changed: the race of posting_history is the only one.          *)
THEOREM OnlyStaleMarksErase ==
    Spec /\ MarksUndisturbed => HistoryIsNeverErased
<1> DEFINE Kept == \A s \in Source : Refs[s] # "none" => Refs'[s] # "none"
           Undisturbed == MarkSmsSent => drain.job = job
<1>1. ASSUME IInv, [Next]_vars, Undisturbed PROVE Kept
  <2>1. job \in Job \cup {NoJob}
    BY <1>1 DEF IInv, TypeOK
  <2>2. CASE job' = job
    BY <2>2 DEF Refs
  <2>3. CASE MarkSmsSent
    <3>1. /\ job' = [job EXCEPT !.pending = FALSE, !.sent = TRUE]
          /\ job # NoJob
      BY <1>1, <2>3 DEF MarkSmsSent, Draining, IInv
    <3>2. job' # NoJob /\ job'.refs = job.refs
      BY <2>1, <3>1, NoJobIsNoJob DEF Job
    <3> QED
      BY <3>1, <3>2 DEF Refs
  <2>4. ASSUME NEW s \in Source, CommitBatch(s), obs[s].stored = job
        PROVE  Kept
    <3>1. /\ job' # NoJob
          /\ \A p \in Source : job'.refs[p] = Reference(job, obs[s], s, p)
      BY <1>1, <2>4, CommitWrites
    <3> QED
      BY <3>1 DEF Reference, Refs
  <2> QED
    BY <1>1, <2>2, <2>3, <2>4, JobWriters
<1>2. IInv /\ [Next]_vars /\ [Undisturbed]_vars => [Kept]_vars
  BY <1>1
<1> QED
  BY <1>2, Invariance, PTL DEF Spec, MarksUndisturbed, HistoryIsNeverErased

(* A role remains open while an occurrence is, unless a listing or a mark  *)
(* writes back what a peer had changed since it was read: every other      *)
(* order of two sources' observations, and every other lost race, is safe. *)
THEOREM UndisturbedRolesRemainOpen ==
    Spec /\ ListingsUndisturbed /\ MarksUndisturbed => RoleRemainsOpen
<1> DEFINE Remains == job # NoJob /\ job.open /\ ~job'.open
                         => \A s \in Source : occ'[s] # "open"
           Marks == MarkSmsSent => drain.job = job
           Listings == \A s \in Source :
                          CommitBatch(s) /\ obs[s].stored = job => PeersAsRead(s)
<1>1. Init => OccurrencesAgree
  BY DEF Init, OccurrencesAgree, Refs
<1>2. IInv /\ OccurrencesAgree /\ [Next]_vars /\ [Marks]_vars /\ [Listings]_vars
        => OccurrencesAgree'
  <2>1. IInv /\ OccurrencesAgree /\ [Next]_vars /\ Marks /\ Listings
          => OccurrencesAgree'
    BY UndisturbedStep
  <2>2. OccurrencesAgree /\ UNCHANGED vars => OccurrencesAgree'
    BY DEF vars, OccurrencesAgree, Refs
  <2> QED
    BY <2>1, <2>2
<1>3. ASSUME IInv, OccurrencesAgree', [Next]_vars, Marks PROVE Remains
  <2>1. job \in Job \cup {NoJob}
    BY <1>3 DEF IInv, TypeOK
  <2>2. CASE job' = job
    BY <2>2
  <2>3. CASE MarkSmsSent
    <3>1. job # NoJob /\ job' = [job EXCEPT !.pending = FALSE, !.sent = TRUE]
      BY <1>3, <2>3 DEF MarkSmsSent, Draining, IInv
    <3> QED
      BY <2>1, <3>1 DEF Job
  <2>4. ASSUME NEW s \in Source, CommitBatch(s), obs[s].stored = job
        PROVE  Remains
    <3>1. /\ job' # NoJob
          /\ StoredOpen(job) /\ AnyOpen(job'.refs) => job'.open
      BY <1>3, <2>4, CommitWrites
    <3>2. \A p \in Source : occ'[p] = job'.refs[p]
      BY <1>3, <3>1 DEF OccurrencesAgree, Refs
    <3> QED
      BY <3>1, <3>2 DEF StoredOpen, AnyOpen
  <2> QED
    BY <1>3, <2>2, <2>3, <2>4, JobWriters
<1>4. IInv /\ OccurrencesAgree' /\ [Next]_vars /\ [Marks]_vars => [Remains]_vars
  BY <1>3
<1> QED
  BY <1>1, <1>2, <1>4, Invariance, PTL
  DEF Spec, ListingsUndisturbed, MarksUndisturbed, RoleRemainsOpen

=============================================================================
