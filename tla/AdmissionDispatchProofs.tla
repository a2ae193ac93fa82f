----------------------- MODULE AdmissionDispatchProofs -----------------------
(***************************************************************************)
(* Proofs about AdmissionDispatch, for every fleet, every set of rows and  *)
(* every bound.                                                            *)
(*                                                                         *)
(* That fresh hand-offs are disjoint rests on what a run remembers between *)
(* its reads and its writes: the rows it still has to record are covered   *)
(* by no fresh hand-off, although hand-offs are acknowledged and go stale  *)
(* and rows move meanwhile. That they are carried rests on the order of    *)
(* the two acknowledgements.                                               *)
(***************************************************************************)
EXTENDS AdmissionDispatch, TLAPS

(* A run past the choice of a source works on that source; the rows it     *)
(* listed are its own, and those it has yet to record are not covered.     *)
RunMemory ==
    /\ run.pc \in {"list", "cover", "mark", "advance"} => run.src \in Source
    /\ run.pc \in {"cover", "mark"} =>
         \A i \in Id : run.rows[i] # None => SourceOf[i] = run.src
    /\ run.pc = "mark" => \A i \in Id : run.rows[i] # None => ~Covered(i)

(* The message in delivery is in the queue until it is acknowledged, which *)
(* its hand-off was before.                                                *)
DeliveryMemory ==
    /\ consumer.pc # "idle" =>
         consumer.batch \in Batch /\ copies[consumer.batch] > 0
    /\ consumer.pc = "ack" => handoffs[consumer.batch] = "acked"

(* What a run recorded and has not sent is of the plan it is at.           *)
OutIsSent == run.pc # "mark" => run.out = {}

IInv == /\ TypeOK /\ RunMemory /\ DeliveryMemory /\ OutIsSent
        /\ FreshHandoffsAreCarried /\ FreshHandoffsAreDisjoint

-----------------------------------------------------------------------------
LEMMA InitIInv == Init => IInv
<1> SUFFICES ASSUME Init PROVE IInv
  OBVIOUS
<1> USE DEF Init
<1>1. rows \in [Id -> Row]
  BY DEF Row
<1>2. run \in Run /\ run.pc = "idle" /\ run.out = {}
  BY DEF IdleRun, Run, RunPc, NoRows
<1>3. consumer \in Delivery /\ consumer.pc = "idle"
  BY DEF IdleDelivery, Delivery
<1>4. TypeOK
  BY <1>1, <1>2, <1>3, BoundsArePositive DEF TypeOK, Handoff
<1>5. RunMemory /\ DeliveryMemory /\ OutIsSent
  BY <1>2, <1>3 DEF RunMemory, DeliveryMemory, OutIsSent
<1>6. FreshHandoffsAreCarried /\ FreshHandoffsAreDisjoint
  BY DEF FreshHandoffsAreCarried, FreshHandoffsAreDisjoint
<1> QED
  BY <1>4, <1>5, <1>6 DEF IInv

(* The statements on rows, copies and hand-offs return well-formed tables. *)
LEMMA TableTypes ==
    ASSUME TypeOK
    PROVE  /\ \A i \in Id, state \in {"rest", "queued", "waiting", "leased", "lapsed"} :
                SetState(i, state) => rows' \in [Id -> Row]
           /\ \A b \in Batch : AcknowledgeHandoff(b) => handoffs' \in [Batch -> Handoff]
           /\ \A b \in Batch : copies[b] > 0 /\ Remove(b) =>
                copies' \in [Batch -> 0..MaxCopies]
           /\ Fault => faults' \in Nat
<1>1. \A i \in Id, state \in {"rest", "queued", "waiting", "leased", "lapsed"} :
         SetState(i, state) => rows' \in [Id -> Row]
  BY DEF TypeOK, SetState, Row
<1>2. \A b \in Batch : AcknowledgeHandoff(b) => handoffs' \in [Batch -> Handoff]
  BY DEF TypeOK, AcknowledgeHandoff, Handoff
<1>3. \A b \in Batch : copies[b] > 0 /\ Remove(b) =>
         copies' \in [Batch -> 0..MaxCopies]
  BY BoundsArePositive DEF TypeOK, Remove
<1>4. Fault => faults' \in Nat
  BY DEF TypeOK, Fault
<1> QED
  BY <1>1, <1>2, <1>3, <1>4

(* The fields of a run. *)
LEMMA RunFields ==
    ASSUME TypeOK
    PROVE  /\ run.pc \in RunPc /\ run.lane \in {"ready", "sweep"}
           /\ run.src \in Source \cup {0} /\ run.ready \subseteq Source
           /\ run.page \subseteq Source /\ run.full \in BOOLEAN
           /\ run.moved \in BOOLEAN /\ run.rows \in [Id -> Key \cup {None}]
           /\ run.out \subseteq Batch
           /\ consumer.pc \in {"idle", "rows", "ack"}
           /\ consumer.batch \in Batch \cup {None}
           /\ consumer.todo \subseteq Id /\ consumer.leased \in Id \cup {None}
BY DEF TypeOK, Run, Delivery

(* The group a run records is a batch. *)
LEMMA GroupIsBatch ==
    ASSUME IInv, run.pc = "mark", NEW k \in Key,
           NEW marked \in SUBSET {i \in Id : run.rows[i] = k}, marked # {}
    PROVE  [src |-> run.src, key |-> k, ids |-> marked] \in Batch
<1>1. run.src \in Source /\ \A i \in marked : SourceOf[i] = run.src
  BY NoneIsNoValue DEF IInv, RunMemory
<1> QED
  BY <1>1 DEF Batch

LEMMA TypeStep == IInv /\ [Next]_vars => TypeOK'
<1> SUFFICES ASSUME IInv, [Next]_vars PROVE TypeOK'
  OBVIOUS
<1>0. TypeOK /\ RunMemory /\ DeliveryMemory
  BY DEF IInv
<1> USE <1>0, TableTypes, RunFields
<1>1. CASE UNCHANGED vars
  BY <1>1 DEF TypeOK, vars
<1>2. CASE StartRun
  <2>1. Page \subseteq Source
    BY DEF Page, PageAfter
  <2>2. {SourceOf[i] : i \in {j \in Id : Due(rows[j])}} \subseteq Source
    BY RowsHaveSources
  <2>3. run' \in Run
    BY <1>2, <2>1, <2>2 DEF StartRun, IdleRun, Run, RunPc, NoRows
  <2> QED
    BY <1>2, <2>3 DEF StartRun, TypeOK
<1>3. ASSUME NEW s \in Source, BeginPlan(s)
      PROVE  rows' \in [Id -> Row] /\ run' \in Run
  BY <1>3 DEF BeginPlan, TypeOK, Row, Run, RunPc
<1>4. ASSUME NEW s \in Source, NextReady(s) PROVE TypeOK'
  <2>1. run' \in Run /\ rows' \in [Id -> Row]
    <3>1. CASE s \in allowed
      BY <1>3, <1>4, <3>1 DEF NextReady
    <3>2. CASE s \notin allowed
      <4>1. /\ run' = [run EXCEPT !.ready = run.ready \ {s}]
            /\ run.ready \ {s} \subseteq Source /\ rows' = rows
        BY <1>4, <3>2 DEF NextReady
      <4> QED
        BY <4>1 DEF TypeOK, Run
    <3> QED
      BY <3>1, <3>2
  <2> QED
    BY <1>4, <2>1 DEF NextReady, TypeOK
<1>5. ASSUME NEW s \in Source, NextInPage(s) PROVE TypeOK'
  <2>1. run' \in Run /\ rows' \in [Id -> Row]
    <3>1. CASE s \in allowed
      BY <1>3, <1>5, <3>1 DEF NextInPage
    <3>2. CASE s \notin allowed
      <4>1. /\ run' = [run EXCEPT !.pc = "advance", !.src = s] /\ rows' = rows
        BY <1>5, <3>2 DEF NextInPage
      <4> QED
        BY <4>1 DEF TypeOK, Run, RunPc
    <3> QED
      BY <3>1, <3>2
  <2> QED
    BY <1>5, <2>1 DEF NextInPage, TypeOK
<1>6. CASE BeginSweep
  <2>1. run' \in Run
    BY <1>6 DEF BeginSweep, TypeOK, Run, RunPc
  <2> QED
    BY <1>6, <2>1 DEF BeginSweep, TypeOK
<1>24. CASE FinishRun
  <2>1. run' \in Run
    BY <1>24 DEF FinishRun, Run, RunPc, IdleRun, NoRows
  <2> QED
    BY <1>24, <2>1 DEF FinishRun, TypeOK
<1>7. CASE ListRows
  <2>1. \A i \in Id : rows[i].key \in Key
    BY DEF TypeOK, Row
  <2>2. run' \in Run
    BY <1>7, <2>1 DEF ListRows, TypeOK, Run, RunPc
  <2> QED
    BY <1>7, <2>2 DEF ListRows, TypeOK
<1>8. CASE CoverRows
  <2>1. run' \in Run
    BY <1>8 DEF CoverRows, TypeOK, Run, RunPc
  <2> QED
    BY <1>8, <2>1 DEF CoverRows, TypeOK
<1>9. ASSUME NEW k \in Key, RecordGroup(k) PROVE TypeOK'
  <2> DEFINE group == {i \in Id : run.rows[i] = k}
             marked == {i \in group : rows[i].state = "queued" /\ rows[i].key = k}
             b == [src |-> run.src, key |-> k, ids |-> marked]
  <2>1. marked # {} => b \in Batch
    BY <1>9, GroupIsBatch DEF RecordGroup
  <2>2. run' = [run EXCEPT
              !.rows = [i \in Id |-> IF i \in group THEN None ELSE run.rows[i]],
              !.out = IF marked = {} THEN @ ELSE @ \cup {b}]
    BY <1>9 DEF RecordGroup
  <2>3. (IF marked = {} THEN run.out ELSE run.out \cup {b}) \subseteq Batch
    BY <2>1
  <2>4. [i \in Id |-> IF i \in group THEN None ELSE run.rows[i]]
            \in [Id -> Key \cup {None}]
    OBVIOUS
  <2> HIDE DEF group, marked, b
  <2>5. run' \in Run
    BY <2>2, <2>3, <2>4 DEF TypeOK, Run
  <2>6. handoffs' \in [Batch -> Handoff]
    <3>1. handoffs' = IF marked # {} /\ handoffs[b] = "none"
                      THEN [handoffs EXCEPT ![b] = "fresh"] ELSE handoffs
      BY <1>9 DEF RecordGroup, group, marked, b
    <3> QED
      BY <2>1, <3>1 DEF TypeOK, Handoff
  <2> QED
    BY <1>9, <2>5, <2>6 DEF RecordGroup, TypeOK
<1>10. CASE Send
  <2>1. copies' \in [Batch -> 0..MaxCopies]
    BY <1>10, BoundsArePositive DEF Send, TypeOK
  <2>2. run' \in Run
    BY <1>10 DEF Send, AfterSource, TypeOK, Run, RunPc
  <2> QED
    BY <1>10, <2>1, <2>2 DEF Send, TypeOK
<1>11. CASE Advance
  <2>1. run' \in Run /\ cursor' \in Source \cup {0}
    BY <1>11 DEF Advance, TypeOK, Run, RunPc, RunMemory
  <2> QED
    BY <1>11, <2>1 DEF Advance, TypeOK
<1>12. CASE FailRun
  <2>1. run' \in Run
    BY <1>12 DEF FailRun, IdleRun, Run, RunPc, NoRows
  <2> QED
    BY <1>12, <2>1 DEF FailRun, TypeOK
<1>13. IdleDelivery \in Delivery
  BY DEF IdleDelivery, Delivery
<1>14. ASSUME NEW b \in Batch, TakeMessage(b) PROVE TypeOK'
  BY <1>14 DEF TakeMessage, TypeOK, Delivery, Batch
<1>15. ASSUME NEW b \in Batch, DropMessage(b) \/ DrainMessage(b) PROVE TypeOK'
  <2>1. copies' \in [Batch -> 0..MaxCopies] /\ handoffs' \in [Batch -> Handoff]
    BY <1>15 DEF DropMessage, DrainMessage, TypeOK
  <2> QED
    BY <1>15, <2>1 DEF DropMessage, DrainMessage, TypeOK
<1>16. ASSUME NEW i \in Id, LeaseRow(i) PROVE TypeOK'
  <2>1. rows' \in [Id -> Row]
    BY <1>16 DEF LeaseRow, TypeOK
  <2>2. consumer' \in Delivery
    <3>1. CASE Due(rows[i]) /\ rows[i].key = consumer.batch.key
      <4>1. consumer' = [consumer EXCEPT !.todo = @ \ {i}, !.leased = i]
        BY <1>16, <3>1 DEF LeaseRow
      <4> QED
        BY <4>1 DEF TypeOK, Delivery
    <3>2. CASE ~(Due(rows[i]) /\ rows[i].key = consumer.batch.key)
      <4>1. consumer' = [consumer EXCEPT !.todo = @ \ {i}]
        BY <1>16, <3>2 DEF LeaseRow
      <4> QED
        BY <4>1 DEF TypeOK, Delivery
    <3> QED
      BY <3>1, <3>2
  <2> QED
    BY <1>16, <2>1, <2>2 DEF LeaseRow, TypeOK
<1>17. CASE EndRow
  <2>1. consumer.leased \in Id
    BY <1>17 DEF EndRow
  <2>2. rows' \in [Id -> Row]
    BY <1>17, <2>1 DEF EndRow, TypeOK
  <2>3. consumer' \in Delivery
    BY <1>17 DEF EndRow, TypeOK, Delivery
  <2> QED
    BY <1>17, <2>2, <2>3 DEF EndRow, TypeOK
<1>18. CASE AcknowledgeBatch
  <2>1. handoffs' \in [Batch -> Handoff] /\ consumer' \in Delivery
    BY <1>18 DEF AcknowledgeBatch, DeliveryMemory, TypeOK, Delivery
  <2> QED
    BY <1>18, <2>1 DEF AcknowledgeBatch, TypeOK
<1>19. CASE AcknowledgeMessage
  <2>1. copies' \in [Batch -> 0..MaxCopies]
    BY <1>19 DEF AcknowledgeMessage, DeliveryMemory
  <2> QED
    BY <1>13, <1>19, <2>1 DEF AcknowledgeMessage, TypeOK
<1>20. CASE FailDelivery
  <2>1. consumer.batch \in Batch /\ copies[consumer.batch] > 0
    BY <1>20 DEF FailDelivery, DeliveryMemory
  <2>2. rows' \in [Id -> Row]
    BY <1>20 DEF FailDelivery, TypeOK
  <2>3. copies' \in [Batch -> 0..MaxCopies] /\ lost' \subseteq Batch
    BY <1>20, <2>1 DEF FailDelivery, Redeliver, TypeOK
  <2> QED
    BY <1>13, <1>20, <2>2, <2>3 DEF FailDelivery, Redeliver, TypeOK
<1>21. ASSUME NEW b \in Batch, HandoffAges(b) PROVE TypeOK'
  BY <1>21 DEF HandoffAges, TypeOK, Handoff
<1>22. ASSUME NEW i \in Id, RetryComesDue(i) \/ LeaseExpires(i) \/ RowMoves(i)
       PROVE  TypeOK'
  <2>1. rows' \in [Id -> Row]
    BY <1>22 DEF RetryComesDue, LeaseExpires, RowMoves, TypeOK
  <2> QED
    BY <1>22, <2>1 DEF RetryComesDue, LeaseExpires, RowMoves, TypeOK
<1>23. CASE AllowListChanges
  BY <1>23 DEF AllowListChanges, TypeOK
<1> QED
  BY <1>1, <1>2, <1>4, <1>5, <1>6, <1>7, <1>8, <1>9, <1>10, <1>11, <1>12, <1>14,
     <1>15, <1>16, <1>17, <1>18, <1>19, <1>20, <1>21, <1>22, <1>23, <1>24
  DEF Next, Dispatch, Consume, Environment

-----------------------------------------------------------------------------
(* Only a run's own records make a hand-off fresh: whatever else a step    *)
(* does, it takes freshness away or leaves it.                             *)
LEMMA FreshOnlyByRecord ==
    ASSUME IInv, [Next]_vars, \A k \in Key : ~RecordGroup(k), NEW b \in Batch,
           handoffs'[b] = "fresh"
    PROVE  handoffs[b] = "fresh"
<1>1. ASSUME NEW c \in Batch, AcknowledgeHandoff(c) PROVE handoffs[b] = "fresh"
  BY <1>1 DEF AcknowledgeHandoff, IInv, TypeOK
<1>2. ASSUME NEW c \in Batch, HandoffAges(c) PROVE handoffs[b] = "fresh"
  BY <1>2 DEF HandoffAges, IInv, TypeOK
<1>3. CASE AcknowledgeBatch
  BY <1>1, <1>3 DEF AcknowledgeBatch, IInv, DeliveryMemory
<1>4. ASSUME NEW c \in Batch, DrainMessage(c) PROVE handoffs[b] = "fresh"
  BY <1>1, <1>4 DEF DrainMessage
<1>5. CASE UNCHANGED handoffs
  BY <1>5
<1> QED
  BY <1>2, <1>3, <1>4, <1>5
  DEF Next, Dispatch, Consume, Environment, vars, StartRun, BeginSweep,
      NextReady, NextInPage, ListRows, CoverRows, Send, Advance, FinishRun,
      FailRun, TakeMessage, DropMessage, LeaseRow, EndRow, AcknowledgeMessage,
      FailDelivery, RetryComesDue, LeaseExpires, RowMoves, AllowListChanges

(* What recording a group does to the hand-offs: the batch of the rows it   *)
(* marked is the only one that can become fresh.                           *)
LEMMA RecordGroupFields ==
    ASSUME IInv, NEW k \in Key, RecordGroup(k)
    PROVE  \E marked \in SUBSET {i \in Id : run.rows[i] = k} :
             LET b == [src |-> run.src, key |-> k, ids |-> marked]
             IN  /\ marked # {} => b \in Batch
                 /\ \A c \in Batch : handoffs'[c] = "fresh" =>
                      handoffs[c] = "fresh" \/ (marked # {} /\ c = b)
                 /\ run'.out = IF marked = {} THEN run.out ELSE run.out \cup {b}
                 /\ run'.rows = [i \in Id |-> IF run.rows[i] = k THEN None
                                              ELSE run.rows[i]]
                 /\ run'.pc = "mark" /\ run'.src = run.src
                 /\ UNCHANGED <<copies, lost, consumer>>
                 /\ \A c \in Batch : handoffs[c] = "acked" => handoffs'[c] = "acked"
<1> DEFINE group == {i \in Id : run.rows[i] = k}
           marked == {i \in group : rows[i].state = "queued" /\ rows[i].key = k}
           b == [src |-> run.src, key |-> k, ids |-> marked]
<1>1. run.pc = "mark" /\ run \in Run
  BY DEF RecordGroup, IInv, TypeOK
<1>2. marked # {} => b \in Batch
  BY <1>1, GroupIsBatch
<1>3. handoffs' = IF marked # {} /\ handoffs[b] = "none"
                  THEN [handoffs EXCEPT ![b] = "fresh"] ELSE handoffs
  BY DEF RecordGroup
<1>4. /\ \A c \in Batch : handoffs'[c] = "fresh" =>
           handoffs[c] = "fresh" \/ (marked # {} /\ c = b)
      /\ \A c \in Batch : handoffs[c] = "acked" => handoffs'[c] = "acked"
  <2> HIDE DEF marked, b
  <2> QED
    BY <1>3 DEF IInv, TypeOK
<1>5. run' = [run EXCEPT
              !.rows = [i \in Id |-> IF i \in group THEN None ELSE run.rows[i]],
              !.out = IF marked = {} THEN @ ELSE @ \cup {b}]
  BY DEF RecordGroup
<1>6. [i \in Id |-> IF i \in group THEN None ELSE run.rows[i]]
        = [i \in Id |-> IF run.rows[i] = k THEN None ELSE run.rows[i]]
  OBVIOUS
<1>7. /\ run'.out = IF marked = {} THEN run.out ELSE run.out \cup {b}
      /\ run'.rows = [i \in Id |-> IF run.rows[i] = k THEN None ELSE run.rows[i]]
      /\ run'.pc = "mark" /\ run'.src = run.src
  <2> HIDE DEF group, marked, b
  <2> QED
    BY <1>1, <1>5, <1>6 DEF Run
<1>8. UNCHANGED <<copies, lost, consumer>>
  BY DEF RecordGroup
<1>9. marked \in SUBSET group
  OBVIOUS
<1> QED
  BY <1>2, <1>4, <1>7, <1>8, <1>9

-----------------------------------------------------------------------------
LEMMA RunMemoryStep == IInv /\ [Next]_vars => RunMemory'
<1> SUFFICES ASSUME IInv, [Next]_vars PROVE RunMemory'
  OBVIOUS
<1>0. TypeOK /\ RunMemory /\ run \in Run
  BY DEF IInv, TypeOK
<1> USE <1>0
<1>1. CASE StartRun
  BY <1>1 DEF StartRun, IdleRun, RunMemory
<1>2. ASSUME NEW s \in Source, BeginPlan(s) PROVE run'.pc = "list" /\ run'.src = s
  BY <1>2 DEF BeginPlan, Run
<1>3. ASSUME NEW s \in Source, NextReady(s) PROVE RunMemory'
  <2>1. CASE s \in allowed
    BY <1>2, <1>3, <2>1 DEF NextReady, RunMemory
  <2>2. CASE s \notin allowed
    <3>1. run'.pc = "next"
      BY <1>3, <2>2 DEF NextReady, Run
    <3> QED
      BY <3>1 DEF RunMemory
  <2> QED
    BY <2>1, <2>2
<1>4. ASSUME NEW s \in Source, NextInPage(s) PROVE RunMemory'
  <2>1. CASE s \in allowed
    BY <1>2, <1>4, <2>1 DEF NextInPage, RunMemory
  <2>2. CASE s \notin allowed
    <3>1. run'.pc = "advance" /\ run'.src = s
      BY <1>4, <2>2 DEF NextInPage, Run
    <3> QED
      BY <3>1 DEF RunMemory
  <2> QED
    BY <2>1, <2>2
<1>5. CASE BeginSweep
  BY <1>5 DEF BeginSweep, RunMemory, Run
<1>6. CASE ListRows
  <2>1. /\ run'.pc = "cover" /\ run'.src = run.src
        /\ run'.rows = [i \in Id |-> IF SourceOf[i] = run.src /\ Due(rows[i])
                                     THEN rows[i].key ELSE None]
    BY <1>6 DEF ListRows, Run
  <2> QED
    BY <1>6, <2>1 DEF ListRows, RunMemory
<1>7. CASE CoverRows
  <2>1. /\ run'.pc = "mark" /\ run'.src = run.src
        /\ run'.rows = [i \in Id |-> IF Covered(i) THEN None ELSE run.rows[i]]
    BY <1>7 DEF CoverRows, Run
  <2>2. \A i \in Id : Covered(i)' => Covered(i)
    BY <1>7 DEF CoverRows, Covered
  <2> QED
    BY <1>7, <2>1, <2>2 DEF CoverRows, RunMemory
<1>8. ASSUME NEW k \in Key, RecordGroup(k) PROVE RunMemory'
  <2>0. run.pc = "mark"
    BY <1>8 DEF RecordGroup
  <2>1. PICK marked \in SUBSET {i \in Id : run.rows[i] = k} :
           /\ \A c \in Batch : handoffs'[c] = "fresh" =>
                handoffs[c] = "fresh"
                \/ (marked # {} /\ c = [src |-> run.src, key |-> k, ids |-> marked])
           /\ run'.rows = [i \in Id |-> IF run.rows[i] = k THEN None ELSE run.rows[i]]
           /\ run'.pc = "mark" /\ run'.src = run.src
    BY <1>8, RecordGroupFields
  <2>2. ASSUME NEW i \in Id, run'.rows[i] # None PROVE ~Covered(i)'
    <3>1. run.rows[i] # k /\ run.rows[i] # None
      BY <2>1, <2>2
    <3>2. ~Covered(i) /\ i \notin marked
      BY <2>0, <3>1 DEF RunMemory
    <3> QED
      BY <2>1, <3>2 DEF Covered
  <2>3. \A i \in Id : run'.rows[i] # None => run.rows[i] # None
    BY <2>1
  <2> QED
    BY <2>0, <2>1, <2>2, <2>3 DEF RunMemory
<1>9. CASE Send
  BY <1>9 DEF Send, AfterSource, RunMemory, Run
<1>10. CASE Advance
  BY <1>10 DEF Advance, RunMemory, Run
<1>11. CASE FinishRun \/ FailRun
  BY <1>11 DEF FinishRun, FailRun, IdleRun, RunMemory
<1>12. CASE UNCHANGED run /\ \A k \in Key : ~RecordGroup(k)
  <2>1. \A i \in Id : Covered(i)' => Covered(i)
    BY <1>12, FreshOnlyByRecord DEF Covered
  <2> QED
    BY <1>12, <2>1 DEF RunMemory
<1> QED
  BY <1>1, <1>3, <1>4, <1>5, <1>6, <1>7, <1>8, <1>9, <1>10, <1>11, <1>12
  DEF Next, Dispatch, Consume, Environment, vars, TakeMessage, DropMessage,
      DrainMessage, LeaseRow, EndRow, AcknowledgeBatch, AcknowledgeMessage,
      FailDelivery, HandoffAges, RetryComesDue, LeaseExpires, RowMoves,
      AllowListChanges

LEMMA OutStep == IInv /\ [Next]_vars => OutIsSent'
<1> SUFFICES ASSUME IInv, [Next]_vars PROVE OutIsSent'
  OBVIOUS
<1>0. OutIsSent /\ run \in Run
  BY DEF IInv, TypeOK
<1> USE <1>0
<1>1. ASSUME NEW s \in Source, BeginPlan(s) PROVE run'.out = run.out
  BY <1>1 DEF BeginPlan, Run
<1>2. ASSUME NEW s \in Source, NextReady(s) \/ NextInPage(s) PROVE OutIsSent'
  <2>1. run.pc = "next"
    BY <1>2 DEF NextReady, NextInPage
  <2>2. NextReady(s) => run'.out = run.out
    BY <1>1 DEF NextReady, Run
  <2>3. NextInPage(s) => run'.out = run.out
    BY <1>1 DEF NextInPage, Run
  <2> QED
    BY <1>2, <2>1, <2>2, <2>3 DEF OutIsSent
<1>3. CASE StartRun \/ FinishRun \/ FailRun
  <2>1. IdleRun.out = {}
    BY DEF IdleRun
  <2>2. StartRun => run'.out = {}
    BY DEF StartRun, IdleRun
  <2> QED
    BY <1>3, <2>1, <2>2 DEF FinishRun, FailRun, OutIsSent
<1>4. CASE BeginSweep \/ ListRows \/ CoverRows \/ Advance
  <2>1. run.pc # "mark"
    BY <1>4 DEF BeginSweep, ListRows, CoverRows, Advance
  <2>2. run'.out = run.out
    <3>1. BeginSweep \/ Advance => run'.out = run.out
      BY DEF BeginSweep, Advance, Run
    <3>2. ListRows \/ CoverRows => run'.out = run.out
      BY DEF ListRows, CoverRows, Run
    <3> QED
      BY <1>4, <3>1, <3>2
  <2> QED
    BY <2>1, <2>2 DEF OutIsSent
<1>5. ASSUME NEW k \in Key, RecordGroup(k) PROVE OutIsSent'
  BY <1>5, RecordGroupFields DEF OutIsSent
<1>6. CASE Send
  BY <1>6 DEF Send, OutIsSent, Run
<1>7. CASE UNCHANGED run
  BY <1>7 DEF OutIsSent
<1> QED
  BY <1>2, <1>3, <1>4, <1>5, <1>6, <1>7
  DEF Next, Dispatch, Consume, Environment, vars, TakeMessage, DropMessage,
      DrainMessage, LeaseRow, EndRow, AcknowledgeBatch, AcknowledgeMessage,
      FailDelivery, HandoffAges, RetryComesDue, LeaseExpires, RowMoves,
      AllowListChanges

LEMMA DeliveryMemoryStep == IInv /\ [Next]_vars => DeliveryMemory'
<1> SUFFICES ASSUME IInv, [Next]_vars PROVE DeliveryMemory'
  OBVIOUS
<1>0. TypeOK /\ DeliveryMemory /\ consumer \in Delivery
  BY DEF IInv, TypeOK
<1> USE <1>0
<1>1. ASSUME NEW b \in Batch, handoffs[b] = "acked" PROVE handoffs'[b] = "acked"
  <2>1. ASSUME NEW c \in Batch, AcknowledgeHandoff(c) PROVE handoffs'[b] = "acked"
    BY <1>1, <2>1 DEF AcknowledgeHandoff, TypeOK
  <2>2. ASSUME NEW c \in Batch, HandoffAges(c) PROVE handoffs'[b] = "acked"
    BY <1>1, <2>2 DEF HandoffAges, TypeOK
  <2>3. ASSUME NEW k \in Key, RecordGroup(k) PROVE handoffs'[b] = "acked"
    BY <1>1, <2>3, RecordGroupFields
  <2>4. CASE AcknowledgeBatch
    BY <2>1, <2>4 DEF AcknowledgeBatch, DeliveryMemory
  <2>5. ASSUME NEW c \in Batch, DrainMessage(c) PROVE handoffs'[b] = "acked"
    BY <1>1, <2>1, <2>5 DEF DrainMessage
  <2>6. CASE UNCHANGED handoffs
    BY <1>1, <2>6
  <2> QED
    BY <2>2, <2>3, <2>4, <2>5, <2>6
    DEF Next, Dispatch, Consume, Environment, vars, StartRun, BeginSweep,
        NextReady, NextInPage, ListRows, CoverRows, Send, Advance, FinishRun,
        FailRun, TakeMessage, DropMessage, LeaseRow, EndRow, AcknowledgeMessage,
        FailDelivery, RetryComesDue, LeaseExpires, RowMoves, AllowListChanges
<1>2. CASE UNCHANGED <<consumer, copies>>
  BY <1>1, <1>2 DEF DeliveryMemory
<1>3. CASE Send
  <2>1. \A b \in Batch : copies[b] > 0 => copies'[b] > 0
    BY <1>3 DEF Send, TypeOK
  <2> QED
    BY <1>1, <1>3, <2>1 DEF Send, DeliveryMemory
<1>4. ASSUME NEW b \in Batch, TakeMessage(b) PROVE DeliveryMemory'
  BY <1>4 DEF TakeMessage, DeliveryMemory
<1>5. ASSUME NEW b \in Batch, DropMessage(b) \/ DrainMessage(b) PROVE DeliveryMemory'
  BY <1>5 DEF DropMessage, DrainMessage, DeliveryMemory
<1>6. ASSUME NEW i \in Id, LeaseRow(i) PROVE DeliveryMemory'
  <2>1. /\ consumer'.pc = "rows" /\ consumer'.batch = consumer.batch
        /\ UNCHANGED copies /\ consumer.pc # "idle"
    BY <1>6 DEF LeaseRow, Delivery
  <2> QED
    BY <2>1 DEF DeliveryMemory
<1>7. CASE EndRow
  <2>1. /\ consumer'.pc = "rows" /\ consumer'.batch = consumer.batch
        /\ UNCHANGED copies /\ consumer.pc # "idle"
    BY <1>7 DEF EndRow, Delivery
  <2> QED
    BY <2>1 DEF DeliveryMemory
<1>8. CASE AcknowledgeBatch
  <2>1. /\ consumer'.pc = "ack" /\ consumer'.batch = consumer.batch
        /\ UNCHANGED copies /\ consumer.batch \in Batch
        /\ copies[consumer.batch] > 0
    BY <1>8 DEF AcknowledgeBatch, DeliveryMemory, Delivery
  <2>2. handoffs'[consumer.batch] = "acked"
    BY <1>8, <2>1 DEF AcknowledgeBatch, AcknowledgeHandoff, TypeOK
  <2> QED
    BY <2>1, <2>2 DEF DeliveryMemory
<1>9. CASE AcknowledgeMessage \/ FailDelivery
  BY <1>9 DEF AcknowledgeMessage, FailDelivery, Redeliver, IdleDelivery, DeliveryMemory
<1> QED
  BY <1>2, <1>3, <1>4, <1>5, <1>6, <1>7, <1>8, <1>9
  DEF Next, Dispatch, Consume, Environment, vars, StartRun, BeginSweep,
      NextReady, NextInPage, ListRows, CoverRows, RecordGroup, Advance,
      FinishRun, FailRun, HandoffAges, RetryComesDue, LeaseExpires, RowMoves,
      AllowListChanges

-----------------------------------------------------------------------------
LEMMA CarriedStep == IInv /\ [Next]_vars => FreshHandoffsAreCarried'
<1> SUFFICES ASSUME IInv, [Next]_vars, NEW b \in Batch, handoffs'[b] = "fresh"
             PROVE  copies'[b] > 0 \/ b \in run'.out \/ b \in lost'
  BY DEF FreshHandoffsAreCarried
<1>0. /\ TypeOK /\ DeliveryMemory /\ run \in Run
      /\ handoffs[b] = "fresh" => copies[b] > 0 \/ b \in run.out \/ b \in lost
  BY DEF IInv, TypeOK, FreshHandoffsAreCarried
<1> USE <1>0
<1>1. ASSUME NEW k \in Key, RecordGroup(k)
      PROVE  copies'[b] > 0 \/ b \in run'.out \/ b \in lost'
  <2>1. PICK marked \in SUBSET {i \in Id : run.rows[i] = k} :
           LET c == [src |-> run.src, key |-> k, ids |-> marked]
           IN  /\ handoffs[b] = "fresh" \/ (marked # {} /\ b = c)
               /\ run'.out = IF marked = {} THEN run.out ELSE run.out \cup {c}
               /\ UNCHANGED <<copies, lost>>
    BY <1>1, RecordGroupFields
  <2> QED
    BY <2>1
<1>2. CASE \A k \in Key : ~RecordGroup(k)
  <2>0. handoffs[b] = "fresh"
    BY <1>2, FreshOnlyByRecord
  <2>1. CASE UNCHANGED <<copies, lost>> /\ run'.out = run.out
    BY <2>0, <2>1
  <2>2. ASSUME run.pc = "mark", Send PROVE copies'[b] > 0 \/ b \in lost'
    BY <2>0, <2>2 DEF Send, TypeOK
  <2>3. CASE FailRun
    BY <2>0, <2>3 DEF FailRun
  <2>4. ASSUME NEW c \in Batch, DropMessage(c) PROVE copies'[b] > 0 \/ b \in run'.out \/ b \in lost'
    BY <2>0, <2>4 DEF DropMessage, Remove, TypeOK
  <2>5. ASSUME NEW c \in Batch, DrainMessage(c)
        PROVE  copies'[b] > 0 \/ b \in run'.out \/ b \in lost'
    <3>1. c = b => ~AcknowledgeHandoff(c)
      BY DEF AcknowledgeHandoff, TypeOK
    <3> QED
      BY <2>0, <2>5, <3>1 DEF DrainMessage, Remove, TypeOK
  <2>6. CASE AcknowledgeMessage
    <3>1. consumer.batch # b
      BY <2>0, <2>6 DEF AcknowledgeMessage, DeliveryMemory
    <3> QED
      BY <2>0, <2>6, <3>1 DEF AcknowledgeMessage, DeliveryMemory, Remove, TypeOK
  <2>7. CASE FailDelivery
    BY <2>0, <2>7 DEF FailDelivery, Redeliver, DeliveryMemory, Remove, TypeOK
  <2>8. CASE StartRun \/ FinishRun
    <3>1. UNCHANGED <<copies, lost>>
      BY <2>8 DEF StartRun, FinishRun
    <3>2. run.out = {}
      BY <2>8 DEF StartRun, FinishRun, IInv, OutIsSent
    <3> QED
      BY <2>0, <3>1, <3>2
  <2>9. ASSUME NEW t \in Source, BeginPlan(t) PROVE run'.out = run.out
    BY <2>9 DEF BeginPlan, Run
  <2>10. ASSUME NEW t \in Source, NextReady(t) \/ NextInPage(t)
         PROVE  UNCHANGED <<copies, lost>> /\ run'.out = run.out
    BY <2>9, <2>10 DEF NextReady, NextInPage, Run
  <2>11. CASE BeginSweep \/ ListRows \/ CoverRows \/ Advance
    BY <2>1, <2>11 DEF BeginSweep, ListRows, CoverRows, Advance, Run
  <2>12. CASE Send
    BY <2>2, <2>12 DEF Send
  <2> QED
    BY <1>2, <2>1, <2>3, <2>4, <2>5, <2>6, <2>7, <2>8, <2>10, <2>11, <2>12
    DEF Next, Dispatch, Consume, Environment, vars, TakeMessage, LeaseRow,
        EndRow, AcknowledgeBatch, HandoffAges, RetryComesDue, LeaseExpires,
        RowMoves, AllowListChanges
<1> QED
  BY <1>1, <1>2

LEMMA DisjointStep == IInv /\ [Next]_vars => FreshHandoffsAreDisjoint'
<1> SUFFICES ASSUME IInv, [Next]_vars, NEW b \in Batch, NEW c \in Batch,
                    handoffs'[b] = "fresh", handoffs'[c] = "fresh", b # c
             PROVE  b.ids \cap c.ids = {}
  BY DEF FreshHandoffsAreDisjoint
<1>0. /\ RunMemory
      /\ handoffs[b] = "fresh" /\ handoffs[c] = "fresh" => b.ids \cap c.ids = {}
  BY DEF IInv, FreshHandoffsAreDisjoint
<1>1. ASSUME NEW k \in Key, RecordGroup(k) PROVE b.ids \cap c.ids = {}
  <2>0. run.pc = "mark"
    BY <1>1 DEF RecordGroup
  <2>1. PICK marked \in SUBSET {i \in Id : run.rows[i] = k} :
           LET d == [src |-> run.src, key |-> k, ids |-> marked]
           IN  \A e \in Batch : handoffs'[e] = "fresh" =>
                  handoffs[e] = "fresh" \/ (marked # {} /\ e = d)
    BY <1>1, RecordGroupFields
  <2>2. ASSUME NEW e \in Batch, handoffs[e] = "fresh" PROVE e.ids \cap marked = {}
    <3>1. \A i \in marked : ~Covered(i)
      BY <1>0, <2>0, NoneIsNoValue DEF RunMemory
    <3> QED
      BY <2>2, <3>1 DEF Covered
  <2> QED
    BY <1>0, <2>1, <2>2
<1>2. CASE \A k \in Key : ~RecordGroup(k)
  BY <1>0, <1>2, FreshOnlyByRecord
<1> QED
  BY <1>1, <1>2

-----------------------------------------------------------------------------
LEMMA StepIInv == IInv /\ [Next]_vars => IInv'
BY TypeStep, RunMemoryStep, DeliveryMemoryStep, OutStep, CarriedStep, DisjointStep
DEF IInv

LEMMA InvariantIInv == Spec => []IInv
BY InitIInv, StepIInv, PTL DEF Spec

(* The tables and the memory of the run and the delivery are well-formed.  *)
THEOREM DispatchTypeCorrect == Spec => []TypeOK
BY InvariantIInv, PTL DEF IInv

(* planAdmissionV2Dispatch leaves a row alone only for a message that is   *)
(* on its way or was lost since it was sent.                               *)
THEOREM DispatchCarriesHandoffs == Spec => []FreshHandoffsAreCarried
BY InvariantIInv, PTL DEF IInv

(* Two fresh hand-offs of recordHandoff never name one row.                *)
THEOREM DispatchKeepsHandoffsDisjoint == Spec => []FreshHandoffsAreDisjoint
BY InvariantIInv, PTL DEF IInv
=============================================================================
