------------------------ MODULE CatalogProjectionProofs ------------------------
(***************************************************************************)
(* Proofs about the published catalog in D1, for any versions that share   *)
(* any cards, and any clock.                                               *)
(*                                                                         *)
(* A refresh whose commit can still succeed has seen the last pointer, so  *)
(* every cleanup under way belongs to a refresh that committed before it   *)
(* looked: it works with an earlier time, by which the manifest that this  *)
(* refresh has stamped is not expired. What breaks that is another refresh *)
(* that stamps the same manifest with the time it began, long ago, while   *)
(* the first waits to commit and a cleanup is under way. It takes three    *)
(* refreshes (the run projection_stamp): so two are safe however long they *)
(* stall, and any number is if a stamp is never set back.                  *)
(***************************************************************************)
EXTENDS CatalogProjection, TLAPS

Started == {"built", "manifest", "stored", "write", "commit"}
Looked == {"manifest", "stored", "write", "commit"}
Storing == {"stored", "write"}
Cleaning == {"clean", "delete", "forget"}

(* Its commit would succeed. *)
Current(p) == proc[p].pc \in Looked /\ proc[p].seen = pointer.gen

Kept(p) == Current(p) /\ proc[p].pc \in Storing

(* Each refresh has a generation of its own, which nobody has seen before  *)
(* it commits.                                                             *)
Generations ==
    /\ pointer.gen <= refreshes
    /\ \A p \in Process : proc[p].pc # "idle" =>
        /\ proc[p].gen > 0 /\ proc[p].gen <= refreshes
        /\ proc[p].seen <= refreshes
        /\ proc[p].pc \in Started => proc[p].gen # pointer.gen
        /\ \A q \in Process :
            /\ proc[q].pc # "idle" /\ proc[p].gen = proc[q].gen => p = q
            /\ proc[p].pc \in Started /\ proc[q].pc \in Looked
                 => proc[q].seen # proc[p].gen

Sound ==
    /\ clock > 0
    /\ \A p \in Process : proc[p].pc # "idle" =>
        /\ proc[p].version \in Version
        /\ proc[p].pc # "built" => proc[p].now > 0 /\ proc[p].now <= clock
        /\ proc[p].pc = "forget" => proc[p].target \in Version

(* What a refresh whose commit would succeed relies on.                    *)
Covers(p) ==
    /\ proc[p].pc = "commit" => proc[p].version = pointer.version
    /\ \A y \in Version : proc[p].retained[y] > 0
          => y = pointer.version \/ pointer.retained[y] > 0
    /\ \A q \in Process :
          proc[q].pc \in Cleaning => proc[q].now <= proc[p].now

Protects(p) ==
    LET x == proc[p].version IN
    /\ manifests[x] > 0
    /\ \A q \in Process : proc[q].pc \in Cleaning
          => manifests[x] >= proc[q].now - Retention
    /\ proc[p].pc = "write" => CardsOf[x] \subseteq cards \cup proc[p].todo

Reliable == \A p \in Process : /\ Current(p) => Covers(p)
                               /\ Kept(p) => Protects(p)

IInv == /\ TypeOK /\ Generations /\ Sound /\ Reliable
        /\ PublishedVersionIsWhole /\ RetainedVersionsAreWhole

(* A refresh that stamps a manifest does not expire it for a cleanup under *)
(* way while another one waits to commit the same version.                 *)
StampIsHarmless(r) ==
    PutManifest(r) =>
        \A p, q \in Process \ {r} :
            Kept(p) /\ proc[p].version = proc[r].version
              /\ proc[q].pc \in Cleaning
              => proc[r].now >= proc[q].now - Retention

Harmless == \A r \in Process : StampIsHarmless(r)

(* A stamp is never replaced by an earlier one.                            *)
StampsGoOn == \A x \in Version : manifests'[x] = 0 \/ manifests'[x] >= manifests[x]

-----------------------------------------------------------------------------
LEMMA Idles == Unretained \in Retained /\ Idle \in Proc /\ Idle.pc = "idle"
  BY DEF Unretained, Retained, Idle, Proc

(* A step of a refresh changes its own state only. *)
LEMMA ProcStep ==
    ASSUME TypeOK, NEW p \in Process, NEW st \in Proc, Go(p, st)
    PROVE  /\ proc' \in [Process -> Proc] /\ proc'[p] = st
           /\ \A q \in Process \ {p} : proc'[q] = proc[q]
  BY DEF TypeOK, Go

(* The state of a refresh before and after a step that is neither its      *)
(* first nor its commit.                                                   *)
Follows(p, st) ==
    /\ proc[p].pc # "idle" /\ st.gen = proc[p].gen
    /\ st.version = proc[p].version /\ st.seen <= refreshes
    /\ st.pc \in Started => proc[p].pc \in Started
    /\ st.pc \in Looked =>
          \/ proc[p].pc \in Looked /\ st.seen = proc[p].seen
          \/ st.seen = pointer.gen
    /\ st.pc # "built" => st.now > 0 /\ st.now <= clock
    /\ st.pc = "forget" => st.target \in Version
    /\ st.pc \in Cleaning => proc[p].pc \in Cleaning /\ st.now = proc[p].now

Quiet(p, st) ==
    Go(p, st) /\ pointer' = pointer /\ clock' = clock /\ refreshes' = refreshes

LEMMA QuietKeepsGenerations ==
    ASSUME IInv, NEW p \in Process, NEW st \in Proc, Quiet(p, st),
           st.pc = "idle" \/ Follows(p, st)
    PROVE  Generations'
<1>1. /\ proc'[p] = st /\ \A q \in Process \ {p} : proc'[q] = proc[q]
  BY ProcStep DEF IInv, Quiet
<1>2. /\ pointer.gen \in Nat /\ refreshes \in Nat
      /\ \A q \in Process : proc[q].gen \in Nat /\ proc[q].seen \in Nat
  BY DEF IInv, TypeOK, Pointer, Proc
<1>3. CASE st.pc = "idle"
  BY <1>1, <1>2, <1>3 DEF IInv, Generations, Quiet, Started, Looked
<1>4. CASE Follows(p, st)
  <2>1. /\ pointer.gen <= refreshes
        /\ \A q \in Process : proc'[q].pc # "idle" => proc[q].pc # "idle"
                              /\ proc'[q].gen = proc[q].gen
    BY <1>1, <1>4 DEF IInv, Generations, Follows
  <2>2. \A q \in Process : proc'[q].pc # "idle" =>
          /\ proc'[q].seen <= refreshes
          /\ proc'[q].pc \in Started => proc[q].pc \in Started
    BY <1>1, <1>4 DEF IInv, Generations, Follows
  <2>3. \A q \in Process : proc'[q].pc \in Looked =>
          \/ proc[q].pc \in Looked /\ proc'[q].seen = proc[q].seen
          \/ proc'[q].seen = pointer.gen
    BY <1>1, <1>4 DEF Follows
  <2> QED
    BY <1>2, <2>1, <2>2, <2>3 DEF IInv, Generations, Quiet, Started, Looked
<1> QED
  BY <1>3, <1>4

LEMMA QuietKeepsSound ==
    ASSUME IInv, NEW p \in Process, NEW st \in Proc, Quiet(p, st),
           st.pc = "idle" \/ Follows(p, st)
    PROVE  Sound'
<1>1. /\ proc'[p] = st /\ \A q \in Process \ {p} : proc'[q] = proc[q]
  BY ProcStep DEF IInv, Quiet
<1> QED
  BY <1>1 DEF IInv, Sound, Quiet, Follows

(* The refreshes that wait to commit lose nothing while no stamp and no    *)
(* card of theirs goes.                                                    *)
LEMMA QuietKeepsOthers ==
    ASSUME IInv, NEW p \in Process, NEW st \in Proc, Quiet(p, st),
           st.pc = "idle" \/ Follows(p, st),
           \A q \in Process \ {p} : Kept(q) =>
              LET x == proc[q].version IN
              /\ manifests'[x] > 0
              /\ \A r \in Process : proc[r].pc \in Cleaning
                    => manifests'[x] >= proc[r].now - Retention
              /\ CardsOf[x] \cap cards \subseteq cards'
    PROVE  \A q \in Process \ {p} : /\ Current(q)' => Covers(q)'
                                    /\ Kept(q)' => Protects(q)'
<1> TAKE q \in Process \ {p}
<1>1. /\ proc'[p] = st /\ \A r \in Process \ {p} : proc'[r] = proc[r]
  BY ProcStep DEF IInv, Quiet
<1>2. \A r \in Process : proc'[r].pc \in Cleaning =>
          proc[r].pc \in Cleaning /\ proc'[r].now = proc[r].now
  BY <1>1 DEF Follows, Cleaning
<1>3. Current(q)' => Covers(q)'
  BY <1>1, <1>2 DEF IInv, Reliable, Current, Covers, Quiet
<1>4. Kept(q)' => Protects(q)'
  BY <1>1, <1>2 DEF IInv, Reliable, Kept, Current, Protects, Quiet
<1> QED
  BY <1>3, <1>4

(* A step that changes neither the pointer nor what is stored. *)
LEMMA QuietKeepsTables ==
    ASSUME IInv, NEW p \in Process, NEW st \in Proc, Quiet(p, st),
           st.pc = "idle" \/ Follows(p, st), crashes' \in Nat,
           cards' = cards, manifests' = manifests,
           st.pc \in Looked /\ st.seen = pointer.gen =>
              /\ st.pc = "commit" => st.version = pointer.version
              /\ \A y \in Version : st.retained[y] > 0
                    => y = pointer.version \/ pointer.retained[y] > 0
              /\ \A q \in Process :
                    proc[q].pc \in Cleaning => proc[q].now <= st.now
              /\ st.pc \in Storing =>
                    /\ Protects(p) /\ st.pc = "write"
                    /\ CardsOf[st.version] \subseteq cards \cup st.todo
    PROVE  IInv'
<1>1. /\ proc' \in [Process -> Proc] /\ proc'[p] = st
      /\ \A q \in Process \ {p} : proc'[q] = proc[q]
  BY ProcStep DEF IInv, Quiet
<1>2. TypeOK'
  BY <1>1 DEF IInv, TypeOK, Quiet
<1>3. Generations' /\ Sound'
  BY QuietKeepsGenerations, QuietKeepsSound
<1>4. \A q \in Process \ {p} : /\ Current(q)' => Covers(q)'
                               /\ Kept(q)' => Protects(q)'
  BY QuietKeepsOthers DEF IInv, Reliable, Protects
<1>5. \A q \in Process : proc'[q].pc \in Cleaning =>
          proc[q].pc \in Cleaning /\ proc'[q].now = proc[q].now
  BY <1>1 DEF Follows, Cleaning
<1>6. Current(p)' => Covers(p)'
  BY <1>1, <1>5 DEF Current, Covers, Quiet, Looked
<1>7. Kept(p)' => Protects(p)'
  <2> SUFFICES ASSUME Kept(p)' PROVE Protects(p)'
    OBVIOUS
  <2>1. /\ st.pc = "write" /\ st.seen = pointer.gen
        /\ st.version = proc[p].version
    BY <1>1 DEF Kept, Current, Quiet, Looked, Storing, Follows
  <2> QED
    BY <1>1, <1>5, <2>1 DEF Protects, Looked, Storing
<1>8. PublishedVersionIsWhole' /\ RetainedVersionsAreWhole'
  BY DEF IInv, PublishedVersionIsWhole, RetainedVersionsAreWhole, Whole, Quiet
<1> QED
  BY <1>2, <1>3, <1>4, <1>6, <1>7, <1>8 DEF IInv, Reliable

-----------------------------------------------------------------------------
LEMMA ReadPointerKeeps ==
    ASSUME IInv, NEW p \in Process, ReadPointer(p)
    PROVE  IInv'
<1> DEFINE same == pointer.version = proc[p].version
           left == [y \in Version |->
                       IF y = pointer.version /\ ~same THEN clock + Retention
                       ELSE IF pointer.retained[y] > clock
                       THEN pointer.retained[y] ELSE 0]
           st == [proc[p] EXCEPT !.pc = IF same THEN "commit" ELSE "manifest",
                     !.seen = pointer.gen, !.now = clock, !.retained = left]
<1>1. left \in Retained
  BY RetentionIsPositive DEF IInv, TypeOK, Pointer, Retained
<1>2. /\ st \in Proc /\ proc[p].pc = "built" /\ Go(p, st)
      /\ st.pc = IF same THEN "commit" ELSE "manifest"
      /\ st.seen = pointer.gen /\ st.now = clock /\ st.retained = left
      /\ st.version = proc[p].version /\ st.gen = proc[p].gen
  BY <1>1 DEF IInv, TypeOK, Proc, Pointer, ReadPointer, At
<1> HIDE DEF st
<1>3. Quiet(p, st) /\ cards' = cards /\ manifests' = manifests /\ crashes' = crashes
  BY <1>2 DEF ReadPointer, Quiet, world
<1>4. Follows(p, st)
  BY <1>2 DEF IInv, Sound, Generations, Follows, Started, Looked, Cleaning, TypeOK
<1>5. st.pc \in Looked /\ st.pc \notin Storing /\ (st.pc = "commit" => same)
  BY <1>2 DEF Looked, Storing
<1>6. \A y \in Version : st.retained[y] > 0
          => y = pointer.version \/ pointer.retained[y] > 0
  BY <1>2 DEF IInv, TypeOK
<1>7. \A q \in Process : proc[q].pc \in Cleaning => proc[q].now <= st.now
  BY <1>2 DEF IInv, Sound, Cleaning
<1>8. crashes' \in Nat
  BY <1>3 DEF IInv, TypeOK
<1> HIDE DEF left
<1> QED
  BY <1>2, <1>3, <1>4, <1>5, <1>6, <1>7, <1>8, QuietKeepsTables

LEMMA ReadStoredKeeps ==
    ASSUME IInv, NEW p \in Process, ReadStored(p)
    PROVE  IInv'
<1> DEFINE st == [proc[p] EXCEPT !.pc = "write",
                     !.todo = CardsOf[proc[p].version] \ cards]
<1>1. proc[p].version \in Version /\ proc[p].pc = "stored" /\ Go(p, st)
  BY DEF IInv, Sound, ReadStored, At
<1>2. /\ st \in Proc /\ st.pc = "write" /\ st.seen = proc[p].seen
      /\ st.now = proc[p].now /\ st.retained = proc[p].retained
      /\ st.version = proc[p].version /\ st.gen = proc[p].gen
      /\ st.todo = CardsOf[st.version] \ cards
  BY <1>1, CardsAreKnown DEF IInv, TypeOK, Proc
<1> HIDE DEF st
<1>3. Quiet(p, st) /\ cards' = cards /\ manifests' = manifests /\ crashes' = crashes
  BY <1>1 DEF ReadStored, Quiet, world
<1>4. Follows(p, st)
  BY <1>1, <1>2 DEF IInv, Sound, Generations, Follows, Started, Looked, Cleaning
<1>5. st.seen = pointer.gen => Kept(p) /\ Covers(p) /\ Protects(p)
  BY <1>1, <1>2 DEF IInv, Reliable, Kept, Current, Looked, Storing
<1>6. crashes' \in Nat
  BY <1>3 DEF IInv, TypeOK
<1> QED
  BY <1>1, <1>2, <1>3, <1>4, <1>5, <1>6, QuietKeepsTables DEF Covers

(* The steps that end the refresh or that only the cleanup takes. *)
LEMMA AsideKeeps ==
    ASSUME IInv, NEW p \in Process,
           RefuseCommit(p) \/ ListExpired(p) \/ EndRefresh(p) \/ Crash(p)
    PROVE  IInv'
<1> DEFINE stored == {x \in Version : manifests[x] > 0}
           kept == {x \in stored :
                      \/ x = proc[p].version \/ proc[p].retained[x] > 0
                      \/ manifests[x] >= proc[p].now - Retention}
           clean == [proc[p] EXCEPT !.pc = "delete", !.expired = stored \ kept,
                        !.kept = UNION {CardsOf[x] : x \in kept},
                        !.retained = Unretained]
<1>1. CASE ListExpired(p)
  <2>1. proc[p].pc = "clean" /\ Go(p, clean)
    BY <1>1 DEF ListExpired, At
  <2>2. UNION {CardsOf[x] : x \in kept} \subseteq Card
    BY CardsAreKnown
  <2>3. /\ clean \in Proc /\ clean.pc = "delete" /\ clean.seen = proc[p].seen
        /\ clean.now = proc[p].now
        /\ clean.version = proc[p].version /\ clean.gen = proc[p].gen
    BY <2>2, Idles DEF IInv, TypeOK, Proc
  <2> HIDE DEF clean
  <2>4. Quiet(p, clean) /\ cards' = cards /\ manifests' = manifests /\ crashes' = crashes
    BY <1>1, <2>1 DEF ListExpired, Quiet, world
  <2>5. Follows(p, clean)
    BY <2>1, <2>3 DEF IInv, Sound, Generations, Follows, Started, Looked, Cleaning
  <2>6. crashes' \in Nat /\ clean.pc \notin Looked
    BY <2>3, <2>4 DEF IInv, TypeOK, Looked
  <2> QED
    BY <2>3, <2>4, <2>5, <2>6, QuietKeepsTables
<1>2. CASE RefuseCommit(p) \/ EndRefresh(p) \/ Crash(p)
  <2>1. Quiet(p, Idle) /\ cards' = cards /\ manifests' = manifests
    BY <1>2 DEF RefuseCommit, EndRefresh, Crash, Quiet, world
  <2>2. crashes' \in Nat /\ Idle.pc \notin Looked
    BY <1>2, Idles DEF RefuseCommit, EndRefresh, Crash, world, IInv, TypeOK, Looked
  <2> QED
    BY <2>1, <2>2, Idles, QuietKeepsTables
<1> QED
  BY <1>1, <1>2

LEMMA TimeKeeps ==
    ASSUME IInv, TimePasses
    PROVE  IInv'
<1>1. /\ cards' = cards /\ manifests' = manifests /\ pointer' = pointer
      /\ proc' = proc /\ refreshes' = refreshes /\ crashes' = crashes
      /\ clock' = clock + 1
  BY DEF TimePasses
<1>2. TypeOK' /\ Sound'
  BY <1>1 DEF IInv, TypeOK, Sound, Proc
<1>3. Generations'
  BY <1>1 DEF IInv, Generations
<1>4. Reliable'
  BY <1>1 DEF IInv, Reliable, Current, Kept, Covers, Protects
<1>5. PublishedVersionIsWhole' /\ RetainedVersionsAreWhole'
  BY <1>1 DEF IInv, PublishedVersionIsWhole, RetainedVersionsAreWhole, Whole
<1> QED
  BY <1>2, <1>3, <1>4, <1>5 DEF IInv

LEMMA BuildKeeps ==
    ASSUME IInv, NEW p \in Process, NEW x \in Version, Build(p, x)
    PROVE  IInv'
<1> DEFINE st == [Idle EXCEPT !.pc = "built", !.version = x, !.gen = refreshes + 1]
<1>1. /\ st \in Proc /\ st.pc = "built" /\ st.version = x /\ st.seen = 0
      /\ st.gen = refreshes + 1 /\ Go(p, st)
  <2>1. refreshes + 1 \in Nat /\ Go(p, st)
    BY DEF Build, IInv, TypeOK
  <2>2. /\ st.pc = "built" /\ st.version = x /\ st.seen = 0
        /\ st.gen = refreshes + 1
    BY DEF Idle
  <2>3. st \in Proc
    BY <2>1, Idles DEF Proc
  <2> QED
    BY <2>1, <2>2, <2>3
<1> HIDE DEF st
<1>2. /\ cards' = cards /\ manifests' = manifests /\ pointer' = pointer
      /\ clock' = clock /\ crashes' = crashes /\ refreshes' = refreshes + 1
  BY DEF Build
<1>3. /\ proc' \in [Process -> Proc] /\ proc'[p] = st
      /\ \A q \in Process \ {p} : proc'[q] = proc[q]
  BY <1>1, ProcStep DEF IInv
<1>4. TypeOK'
  BY <1>2, <1>3 DEF IInv, TypeOK
<1>5. Generations'
  <2>1. /\ pointer.gen \in Nat /\ refreshes \in Nat
        /\ \A q \in Process : proc[q].gen \in Nat /\ proc[q].seen \in Nat
    BY DEF IInv, TypeOK, Pointer, Proc
  <2> QED
    BY <1>1, <1>2, <1>3, <2>1 DEF IInv, Generations, Looked
<1>6. Sound'
  BY <1>1, <1>2, <1>3 DEF IInv, Sound
<1>7. \A q \in Process : proc'[q].pc \in Cleaning \cup Looked =>
          q # p /\ proc'[q] = proc[q]
  BY <1>1, <1>3 DEF Cleaning, Looked
<1>8. Reliable'
  BY <1>2, <1>7 DEF IInv, Reliable, Current, Kept, Covers, Protects
<1>9. PublishedVersionIsWhole' /\ RetainedVersionsAreWhole'
  BY <1>2 DEF IInv, PublishedVersionIsWhole, RetainedVersionsAreWhole, Whole
<1> QED
  BY <1>4, <1>5, <1>6, <1>8, <1>9 DEF IInv

LEMMA PutManifestKeeps ==
    ASSUME IInv, NEW p \in Process, PutManifest(p), StampIsHarmless(p)
    PROVE  IInv'
<1> DEFINE st == [proc[p] EXCEPT !.pc = "stored"]
           x == proc[p].version
<1>1. x \in Version /\ proc[p].pc = "manifest" /\ Go(p, st)
  BY DEF IInv, Sound, PutManifest, At
<1>2. /\ st \in Proc /\ st.pc = "stored" /\ st.seen = proc[p].seen
      /\ st.now = proc[p].now /\ st.retained = proc[p].retained
      /\ st.version = x /\ st.gen = proc[p].gen
  BY <1>1 DEF IInv, TypeOK, Proc
<1> HIDE DEF st
<1>3. /\ Quiet(p, st) /\ cards' = cards /\ crashes' = crashes
      /\ manifests' = [manifests EXCEPT ![x] = proc[p].now]
  BY <1>1 DEF PutManifest, Quiet, world
<1>4. Follows(p, st)
  BY <1>1, <1>2 DEF IInv, Sound, Generations, Follows, Started, Looked, Cleaning
<1>5. /\ proc' \in [Process -> Proc] /\ proc'[p] = st
      /\ \A q \in Process \ {p} : proc'[q] = proc[q]
  BY <1>2, <1>3, ProcStep DEF IInv, Quiet
<1>6. /\ proc[p].now \in Nat /\ proc[p].now > 0
      /\ manifests' \in [Version -> Nat] /\ manifests'[x] = proc[p].now
      /\ \A y \in Version \ {x} : manifests'[y] = manifests[y]
  BY <1>1, <1>3 DEF IInv, TypeOK, Proc, Sound
<1>7. TypeOK'
  BY <1>3, <1>5, <1>6 DEF IInv, TypeOK, Quiet
<1>8. Generations' /\ Sound'
  BY <1>2, <1>3, <1>4, QuietKeepsGenerations, QuietKeepsSound
<1>9. \A q \in Process \ {p} : Kept(q) =>
        LET y == proc[q].version IN
        /\ manifests'[y] > 0
        /\ \A r \in Process : proc[r].pc \in Cleaning
              => manifests'[y] >= proc[r].now - Retention
        /\ CardsOf[y] \cap cards \subseteq cards'
  <2> SUFFICES ASSUME NEW q \in Process \ {p}, Kept(q)
               PROVE  LET y == proc[q].version IN
                      /\ manifests'[y] > 0
                      /\ \A r \in Process : proc[r].pc \in Cleaning
                            => manifests'[y] >= proc[r].now - Retention
    BY <1>3
  <2>1. Protects(q) /\ proc[q].version \in Version
    BY DEF IInv, Reliable, Sound, Kept, Current, Looked
  <2>2. \A r \in Process : proc[r].pc \in Cleaning => r # p
    BY <1>1 DEF Cleaning
  <2>3. CASE proc[q].version = x
    BY <1>6, <2>2, <2>3 DEF StampIsHarmless
  <2>4. CASE proc[q].version # x
    BY <1>6, <2>1, <2>4 DEF Protects
  <2> QED
    BY <2>3, <2>4
<1>10. \A q \in Process \ {p} : /\ Current(q)' => Covers(q)'
                                /\ Kept(q)' => Protects(q)'
  BY <1>2, <1>3, <1>4, <1>9, QuietKeepsOthers
<1>11. \A q \in Process : proc'[q].pc \in Cleaning =>
          proc[q].pc \in Cleaning /\ proc'[q].now = proc[q].now
  BY <1>2, <1>5 DEF Cleaning
<1>12. Current(p)' => Covers(p) /\ Covers(p)'
  BY <1>1, <1>2, <1>3, <1>5, <1>11
  DEF IInv, Reliable, Current, Covers, Quiet, Looked
<1>13. Kept(p)' => Protects(p)'
  <2>1. \A q \in Process : proc[q].now \in Nat
    BY DEF IInv, TypeOK, Proc
  <2> QED
    BY <1>2, <1>5, <1>6, <1>11, <1>12, <2>1, RetentionIsPositive
    DEF Kept, Protects, Covers
<1>14. PublishedVersionIsWhole' /\ RetainedVersionsAreWhole'
  BY <1>3, <1>6 DEF IInv, TypeOK, Pointer, PublishedVersionIsWhole,
                    RetainedVersionsAreWhole, Whole, Quiet
<1> QED
  BY <1>7, <1>8, <1>10, <1>12, <1>13, <1>14 DEF IInv, Reliable

LEMMA WriteCardKeeps ==
    ASSUME IInv, NEW p \in Process, NEW c \in Card, WriteCard(p, c)
    PROVE  IInv'
<1> DEFINE st == [proc[p] EXCEPT !.todo = @ \ {c}]
<1>1. proc[p].version \in Version /\ proc[p].pc = "write" /\ Go(p, st)
  BY DEF IInv, Sound, WriteCard, At
<1>2. /\ st \in Proc /\ st.pc = "write" /\ st.seen = proc[p].seen
      /\ st.now = proc[p].now /\ st.retained = proc[p].retained
      /\ st.version = proc[p].version /\ st.gen = proc[p].gen
      /\ st.todo = proc[p].todo \ {c}
  BY <1>1 DEF IInv, TypeOK, Proc
<1> HIDE DEF st
<1>3. /\ Quiet(p, st) /\ manifests' = manifests /\ crashes' = crashes
      /\ cards' = cards \cup {c}
  BY <1>1 DEF WriteCard, Quiet, world
<1>4. Follows(p, st)
  BY <1>1, <1>2 DEF IInv, Sound, Generations, Follows, Started, Looked, Cleaning
<1>5. /\ proc' \in [Process -> Proc] /\ proc'[p] = st
      /\ \A q \in Process \ {p} : proc'[q] = proc[q]
  BY <1>2, <1>3, ProcStep DEF IInv, Quiet
<1>6. TypeOK'
  BY <1>3, <1>5 DEF IInv, TypeOK, Quiet
<1>7. Generations' /\ Sound'
  BY <1>2, <1>3, <1>4, QuietKeepsGenerations, QuietKeepsSound
<1>8. \A q \in Process \ {p} : /\ Current(q)' => Covers(q)'
                               /\ Kept(q)' => Protects(q)'
  BY <1>2, <1>3, <1>4, QuietKeepsOthers DEF IInv, Reliable, Protects
<1>9. \A q \in Process : proc'[q].pc \in Cleaning =>
          proc[q].pc \in Cleaning /\ proc'[q].now = proc[q].now
  BY <1>2, <1>5 DEF Cleaning
<1>10. Current(p)' => Current(p) /\ Kept(p)
  BY <1>1, <1>2, <1>3, <1>5 DEF Current, Kept, Looked, Storing, Quiet
<1>11. Current(p)' => Covers(p)'
  BY <1>1, <1>2, <1>3, <1>5, <1>9, <1>10 DEF IInv, Reliable, Covers, Quiet
<1>12. Kept(p)' => Protects(p)'
  BY <1>1, <1>2, <1>3, <1>5, <1>9, <1>10 DEF IInv, Reliable, Protects, Kept
<1>13. PublishedVersionIsWhole' /\ RetainedVersionsAreWhole'
  BY <1>3 DEF IInv, PublishedVersionIsWhole, RetainedVersionsAreWhole, Whole, Quiet
<1> QED
  BY <1>6, <1>7, <1>8, <1>11, <1>12, <1>13 DEF IInv, Reliable

(* A commit leaves no other refresh that could commit. *)
LEMMA CommitKeeps ==
    ASSUME IInv, NEW p \in Process, CommitPointer(p)
    PROVE  IInv'
<1> DEFINE st == [proc[p] EXCEPT !.pc = "clean", !.seen = 0]
           me == proc[p]
<1>1. /\ me.version \in Version /\ me.pc \in {"commit", "write"}
      /\ me.pc = "write" => me.todo = {}
      /\ Go(p, st) /\ Current(p) /\ me.gen \in Nat /\ me.retained \in Retained
  BY DEF IInv, TypeOK, Proc, Sound, CommitPointer, Ready, At, Current, Looked
<1>2. /\ st \in Proc /\ st.pc = "clean" /\ st.seen = 0 /\ st.now = me.now
      /\ st.version = me.version /\ st.gen = me.gen
  BY <1>1 DEF IInv, TypeOK, Proc
<1> HIDE DEF st
<1>3. /\ cards' = cards /\ manifests' = manifests /\ clock' = clock
      /\ refreshes' = refreshes /\ crashes' = crashes
      /\ pointer'.version = me.version /\ pointer'.gen = me.gen
      /\ pointer'.retained = me.retained /\ pointer' \in Pointer
  BY <1>1 DEF CommitPointer, world, Pointer
<1>4. /\ proc' \in [Process -> Proc] /\ proc'[p] = st
      /\ \A q \in Process \ {p} : proc'[q] = proc[q]
  BY <1>1, <1>2, ProcStep DEF IInv
<1>5. TypeOK'
  BY <1>3, <1>4 DEF IInv, TypeOK
<1>6. Generations'
  <2>1. /\ pointer.gen \in Nat /\ refreshes \in Nat
        /\ \A q \in Process : proc[q].gen \in Nat /\ proc[q].seen \in Nat
    BY DEF IInv, TypeOK, Pointer, Proc
  <2>2. me.pc # "idle" /\ me.gen <= refreshes /\ me.gen > 0
    BY <1>1 DEF IInv, Generations
  <2> QED
    BY <1>1, <1>2, <1>3, <1>4, <2>1, <2>2
    DEF IInv, Generations, Started, Looked
<1>7. Sound'
  BY <1>1, <1>2, <1>3, <1>4 DEF IInv, Sound
<1>8. \A q \in Process : ~Current(q)'
  <2> SUFFICES ASSUME NEW q \in Process, q # p, proc[q].pc \in Looked
               PROVE  proc[q].seen # me.gen
    BY <1>2, <1>3, <1>4 DEF Current, Looked
  <2> QED
    BY <1>1 DEF IInv, Generations, Started, Looked
<1>9. Reliable'
  BY <1>8 DEF Reliable, Kept
<1>10. Whole(me.version)
  <2>1. CASE me.pc = "commit"
    BY <1>1, <2>1, NoneIsNoVersion
    DEF IInv, Reliable, Covers, PublishedVersionIsWhole
  <2>2. CASE me.pc = "write"
    BY <1>1, <2>2 DEF IInv, Reliable, Kept, Storing, Protects, Whole
  <2> QED
    BY <1>1, <2>1, <2>2
<1>11. \A y \in Version : me.retained[y] > 0 => Whole(y)
  BY <1>1, NoneIsNoVersion
  DEF IInv, Reliable, Covers, PublishedVersionIsWhole, RetainedVersionsAreWhole
<1>12. PublishedVersionIsWhole' /\ RetainedVersionsAreWhole'
  BY <1>3, <1>10, <1>11 DEF PublishedVersionIsWhole, RetainedVersionsAreWhole, Whole
<1> QED
  BY <1>5, <1>6, <1>7, <1>9, <1>12 DEF IInv

-----------------------------------------------------------------------------
(* What a cleanup may take is neither published nor retained, and is not   *)
(* what a refresh that can still commit has stored.                        *)
LEMMA ExpiredIsUnused ==
    ASSUME IInv, NEW p \in Process, proc[p].pc \in Cleaning,
           NEW x \in Version, StillExpired(p, x)
    PROVE  /\ pointer.version # x /\ pointer.retained[x] = 0
           /\ \A q \in Process : Kept(q) => proc[q].version # x
<1>1. manifests[x] \in Nat /\ proc[p].now \in Nat /\ Retention \in Nat
  BY RetentionIsPositive DEF IInv, TypeOK, Proc
<1>2. \A q \in Process : Kept(q) => Protects(q)
  BY DEF IInv, Reliable
<1> QED
  BY <1>1, <1>2 DEF StillExpired, Protects

LEMMA DeleteCardsKeeps ==
    ASSUME IInv, NEW p \in Process, NEW x \in Version, DeleteCards(p, x)
    PROVE  IInv'
<1> DEFINE st == [proc[p] EXCEPT !.pc = "forget", !.target = x,
                     !.expired = @ \ {x}]
<1>1. proc[p].version \in Version /\ proc[p].pc = "delete" /\ Go(p, st)
  BY DEF IInv, Sound, DeleteCards, At
<1>2. /\ st \in Proc /\ st.pc = "forget" /\ st.seen = proc[p].seen
      /\ st.now = proc[p].now /\ st.target = x
      /\ st.version = proc[p].version /\ st.gen = proc[p].gen
  BY <1>1 DEF IInv, TypeOK, Proc
<1> HIDE DEF st
<1>3. /\ Quiet(p, st) /\ manifests' = manifests /\ crashes' = crashes
      /\ cards' = {c \in cards :
             \/ c \notin CardsOf[x] \ proc[p].kept
             \/ ~StillExpired(p, x) \/ InOtherManifest(c, x)}
  BY <1>1 DEF DeleteCards, Quiet, world
<1>4. Follows(p, st)
  BY <1>1, <1>2 DEF IInv, Sound, Generations, Follows, Started, Looked, Cleaning
<1>5. /\ proc' \in [Process -> Proc] /\ proc'[p] = st
      /\ \A q \in Process \ {p} : proc'[q] = proc[q]
  BY <1>2, <1>3, ProcStep DEF IInv, Quiet
<1>6. TypeOK'
  BY <1>3, <1>5 DEF IInv, TypeOK, Quiet
<1>7. Generations' /\ Sound'
  BY <1>2, <1>3, <1>4, QuietKeepsGenerations, QuietKeepsSound
<1>8. \A y \in Version : manifests[y] > 0 /\ (StillExpired(p, x) => y # x)
          => CardsOf[y] \cap cards \subseteq cards'
  BY <1>3 DEF InOtherManifest
<1>9. StillExpired(p, x) =>
          /\ pointer.version # x /\ pointer.retained[x] = 0
          /\ \A q \in Process : Kept(q) => proc[q].version # x
  BY <1>1, ExpiredIsUnused DEF Cleaning
<1>10. \A q \in Process \ {p} : Kept(q) =>
          /\ Protects(q) /\ proc[q].version \in Version
          /\ CardsOf[proc[q].version] \cap cards \subseteq cards'
  BY <1>8, <1>9 DEF IInv, Reliable, Sound, Protects, Kept, Current, Looked
<1>11. \A q \in Process \ {p} : /\ Current(q)' => Covers(q)'
                                /\ Kept(q)' => Protects(q)'
  BY <1>2, <1>3, <1>4, <1>10, QuietKeepsOthers DEF Protects
<1>12. ~Current(p)' /\ ~Kept(p)'
  BY <1>2, <1>5 DEF Current, Kept, Looked
<1>13. \A y \in Version : Whole(y) /\ (StillExpired(p, x) => y # x) => Whole(y)'
  BY <1>3, <1>8 DEF Whole
<1>14. PublishedVersionIsWhole' /\ RetainedVersionsAreWhole'
  <2>1. pointer' = pointer /\ pointer.version \in Version \cup {None}
    BY <1>3 DEF Quiet, IInv, TypeOK, Pointer
  <2>2. PublishedVersionIsWhole'
    BY <1>9, <1>13, <2>1 DEF IInv, PublishedVersionIsWhole
  <2>3. RetainedVersionsAreWhole'
    BY <1>9, <1>13, <2>1 DEF IInv, RetainedVersionsAreWhole
  <2> QED
    BY <2>2, <2>3
<1> QED
  BY <1>6, <1>7, <1>11, <1>12, <1>14 DEF IInv, Reliable

LEMMA DeleteManifestKeeps ==
    ASSUME IInv, NEW p \in Process, DeleteManifest(p)
    PROVE  IInv'
<1> DEFINE st == [proc[p] EXCEPT !.pc = "delete", !.target = None]
           x == proc[p].target
<1>1. /\ proc[p].version \in Version /\ proc[p].pc = "forget" /\ Go(p, st)
      /\ x \in Version
  BY DEF IInv, Sound, DeleteManifest, At
<1>2. /\ st \in Proc /\ st.pc = "delete" /\ st.seen = proc[p].seen
      /\ st.now = proc[p].now
      /\ st.version = proc[p].version /\ st.gen = proc[p].gen
  BY <1>1 DEF IInv, TypeOK, Proc
<1> HIDE DEF st
<1>3. /\ Quiet(p, st) /\ cards' = cards /\ crashes' = crashes
      /\ manifests' = IF StillExpired(p, x) THEN [manifests EXCEPT ![x] = 0]
                      ELSE manifests
  BY <1>1 DEF DeleteManifest, Quiet, world
<1>4. Follows(p, st)
  BY <1>1, <1>2 DEF IInv, Sound, Generations, Follows, Started, Looked, Cleaning
<1>5. /\ proc' \in [Process -> Proc] /\ proc'[p] = st
      /\ \A q \in Process \ {p} : proc'[q] = proc[q]
  BY <1>2, <1>3, ProcStep DEF IInv, Quiet
<1>6. /\ manifests' \in [Version -> Nat]
      /\ \A y \in Version : (StillExpired(p, x) => y # x)
            => manifests'[y] = manifests[y]
  BY <1>1, <1>3 DEF IInv, TypeOK
<1>7. TypeOK'
  BY <1>3, <1>5, <1>6 DEF IInv, TypeOK, Quiet
<1>8. Generations' /\ Sound'
  BY <1>2, <1>3, <1>4, QuietKeepsGenerations, QuietKeepsSound
<1>9. StillExpired(p, x) =>
          /\ pointer.version # x /\ pointer.retained[x] = 0
          /\ \A q \in Process : Kept(q) => proc[q].version # x
  BY <1>1, ExpiredIsUnused DEF Cleaning
<1>10. \A q \in Process \ {p} : Kept(q) =>
          /\ Protects(q) /\ manifests'[proc[q].version] = manifests[proc[q].version]
  BY <1>6, <1>9 DEF IInv, Reliable, Sound, Kept, Current, Looked
<1>11. \A q \in Process \ {p} : /\ Current(q)' => Covers(q)'
                                /\ Kept(q)' => Protects(q)'
  BY <1>2, <1>3, <1>4, <1>10, QuietKeepsOthers DEF Protects
<1>12. ~Current(p)' /\ ~Kept(p)'
  BY <1>2, <1>5 DEF Current, Kept, Looked
<1>13. \A y \in Version : Whole(y) /\ (StillExpired(p, x) => y # x) => Whole(y)'
  BY <1>3, <1>6 DEF Whole
<1>14. PublishedVersionIsWhole' /\ RetainedVersionsAreWhole'
  <2>1. pointer' = pointer /\ pointer.version \in Version \cup {None}
    BY <1>3 DEF Quiet, IInv, TypeOK, Pointer
  <2>2. PublishedVersionIsWhole'
    BY <1>9, <1>13, <2>1 DEF IInv, PublishedVersionIsWhole
  <2>3. RetainedVersionsAreWhole'
    BY <1>9, <1>13, <2>1 DEF IInv, RetainedVersionsAreWhole
  <2> QED
    BY <2>2, <2>3
<1> QED
  BY <1>7, <1>8, <1>11, <1>12, <1>14 DEF IInv, Reliable

-----------------------------------------------------------------------------
LEMMA IInvInit == Init => IInv
<1> SUFFICES ASSUME Init PROVE IInv
  OBVIOUS
<1>1. TypeOK
  BY Idles, BoundsAreNatural
  DEF Init, TypeOK, Pointer, NoPointer, Unretained, Retained
<1>2. \A p \in Process : proc[p].pc = "idle"
  BY Idles DEF Init
<1>3. Generations /\ Sound
  BY <1>1, <1>2 DEF Generations, Sound, Init, NoPointer
<1>4. Reliable
  BY <1>2 DEF Reliable, Kept, Current, Looked
<1>5. PublishedVersionIsWhole /\ RetainedVersionsAreWhole
  BY DEF Init, NoPointer, Unretained, PublishedVersionIsWhole,
         RetainedVersionsAreWhole
<1> QED
  BY <1>1, <1>3, <1>4, <1>5 DEF IInv

(* Every step but a harmful stamp keeps the invariant. *)
LEMMA IInvStep == IInv /\ [Next]_vars /\ Harmless => IInv'
<1> SUFFICES ASSUME IInv, [Next]_vars, Harmless PROVE IInv'
  OBVIOUS
<1>1. CASE UNCHANGED vars
  BY <1>1 DEF vars, IInv, TypeOK, Generations, Sound, Reliable, Current, Kept,
              Covers, Protects, PublishedVersionIsWhole,
              RetainedVersionsAreWhole, Whole
<1>2. CASE TimePasses
  BY <1>2, TimeKeeps
<1>3. ASSUME NEW p \in Process, Step(p) PROVE IInv'
  <2>1. StampIsHarmless(p)
    BY DEF Harmless
  <2>2. CASE \E x \in Version : Build(p, x) \/ DeleteCards(p, x)
    BY <2>2, BuildKeeps, DeleteCardsKeeps
  <2>3. CASE \E c \in Card : WriteCard(p, c)
    BY <2>3, WriteCardKeeps
  <2>4. CASE ReadPointer(p) \/ PutManifest(p) \/ ReadStored(p)
    BY <2>1, <2>4, ReadPointerKeeps, PutManifestKeeps, ReadStoredKeeps
  <2>5. CASE CommitPointer(p) \/ DeleteManifest(p)
    BY <2>5, CommitKeeps, DeleteManifestKeeps
  <2>6. CASE RefuseCommit(p) \/ ListExpired(p) \/ EndRefresh(p) \/ Crash(p)
    BY <2>6, AsideKeeps
  <2> QED
    BY <1>3, <2>2, <2>3, <2>4, <2>5, <2>6 DEF Step
<1> QED
  BY <1>1, <1>2, <1>3 DEF Next

(* With two refreshes there is no third one to set a stamp back. *)
LEMMA TwoAreHarmless ==
    ASSUME NEW a, NEW b, Process \subseteq {a, b}
    PROVE  Harmless
<1> SUFFICES ASSUME NEW r \in Process, NEW p \in Process \ {r},
                    NEW q \in Process \ {r}, Kept(p), proc[q].pc \in Cleaning
             PROVE  FALSE
  BY DEF Harmless, StampIsHarmless
<1>1. p = q
  OBVIOUS
<1> QED
  BY <1>1 DEF Kept, Storing, Cleaning

(* A stamp that replaces an earlier one is no earlier than what the other  *)
(* refresh relies on.                                                      *)
LEMMA GoingOnIsHarmless ==
    ASSUME IInv, StampsGoOn
    PROVE  Harmless
<1> SUFFICES ASSUME NEW r \in Process, PutManifest(r), NEW p \in Process \ {r},
                    NEW q \in Process \ {r}, Kept(p),
                    proc[p].version = proc[r].version, proc[q].pc \in Cleaning
             PROVE  proc[r].now >= proc[q].now - Retention
  BY DEF Harmless, StampIsHarmless
<1> DEFINE x == proc[r].version
<1>1. /\ x \in Version /\ proc[r].now \in Nat /\ proc[r].now > 0
      /\ proc[q].now \in Nat /\ manifests \in [Version -> Nat]
      /\ Retention \in Nat
  BY RetentionIsPositive DEF IInv, Sound, TypeOK, Proc, PutManifest, At
<1>2. manifests'[x] = proc[r].now
  BY <1>1 DEF PutManifest
<1>3. proc[r].now >= manifests[x]
  BY <1>1, <1>2 DEF StampsGoOn
<1>4. manifests[x] >= proc[q].now - Retention
  BY DEF IInv, Reliable, Protects
<1> QED
  BY <1>1, <1>3, <1>4

(* The tables and the refreshes are well typed for any number of refreshes *)
(* that stamp as they please: a refresh works on a version it has chosen,  *)
(* by a time that has come, and a cleanup forgets a manifest it listed.    *)
THEOREM ProjectionTypeCorrect == Spec => []TypeOK
<1>1. Init => TypeOK /\ Sound
  BY IInvInit DEF IInv
<1>2. TypeOK /\ Sound /\ [Next]_vars => TypeOK' /\ Sound'
  <2> SUFFICES ASSUME TypeOK, Sound, [Next]_vars PROVE TypeOK' /\ Sound'
    OBVIOUS
  <2>1. CASE UNCHANGED vars
    BY <2>1 DEF vars, TypeOK, Sound
  <2>2. CASE TimePasses
    BY <2>2 DEF TimePasses, TypeOK, Sound, Proc
  <2>3. ASSUME NEW p \in Process, Step(p) PROVE TypeOK' /\ Sound'
    <3> DEFINE me == proc[p]
               Fits(st) == /\ st \in Proc /\ Go(p, st)
                           /\ st.pc # "idle" =>
                                /\ st.version \in Version
                                /\ st.pc # "built" => st.now > 0 /\ st.now <= clock
                                /\ st.pc = "forget" => st.target \in Version
    <3>1. /\ me \in Proc /\ clock \in Nat /\ clock > 0
          /\ pointer \in Pointer /\ manifests \in [Version -> Nat]
          /\ me.pc # "idle" =>
               /\ me.version \in Version
               /\ me.pc # "built" => me.now > 0 /\ me.now <= clock
               /\ me.pc = "forget" => me.target \in Version
      BY DEF TypeOK, Sound
    <3>2. ASSUME NEW st, Fits(st), clock' = clock
          PROVE  proc' \in [Process -> Proc] /\ Sound'
      <4>1. /\ proc' \in [Process -> Proc] /\ proc'[p] = st
            /\ \A q \in Process \ {p} : proc'[q] = proc[q]
        BY <3>2, ProcStep
      <4> QED
        BY <3>2, <4>1 DEF Sound
    <3>3. CASE \E x \in Version : Build(p, x)
      <4>1. PICK x \in Version : Build(p, x)
        BY <3>3
      <4> DEFINE st == [Idle EXCEPT !.pc = "built", !.version = x,
                                    !.gen = refreshes + 1]
      <4>2. Go(p, st) /\ refreshes + 1 \in Nat
        BY <4>1 DEF Build, TypeOK
      <4>3. st.pc = "built" /\ st.version = x
        BY DEF Idle
      <4>4. st \in Proc
        BY <4>2, Idles DEF Proc
      <4> HIDE DEF st
      <4>5. Fits(st)
        BY <4>2, <4>3, <4>4
      <4>6. proc' \in [Process -> Proc] /\ Sound'
        BY <4>1, <4>5, <3>2 DEF Build
      <4> QED
        BY <4>1, <4>2, <4>6 DEF Build, TypeOK
    <3>4. CASE ReadPointer(p)
      <4> DEFINE same == pointer.version = me.version
                 left == [y \in Version |->
                    IF y = pointer.version /\ ~same THEN clock + Retention
                    ELSE IF pointer.retained[y] > clock THEN pointer.retained[y]
                    ELSE 0]
                 st == [me EXCEPT !.pc = IF same THEN "commit" ELSE "manifest",
                           !.seen = pointer.gen, !.now = clock, !.retained = left]
      <4>1. left \in Retained /\ pointer.gen \in Nat
        BY <3>1, RetentionIsPositive DEF Pointer, Retained
      <4>2. me.pc = "built" /\ Go(p, st)
        BY <3>4 DEF ReadPointer, At
      <4> HIDE DEF left
      <4>3. /\ st \in Proc /\ st.pc \in {"commit", "manifest"}
            /\ st.version = me.version /\ st.now = clock
        BY <3>1, <4>1 DEF Proc
      <4> HIDE DEF st
      <4>4. Fits(st)
        BY <3>1, <4>2, <4>3
      <4> QED
        BY <3>4, <4>4, <3>2 DEF ReadPointer, TypeOK, world
    <3>5. CASE PutManifest(p)
      <4> DEFINE st == [me EXCEPT !.pc = "stored"]
      <4>1. Fits(st) /\ me.version \in Version /\ me.now \in Nat
        BY <3>1, <3>5 DEF PutManifest, At, Proc
      <4> QED
        BY <3>5, <4>1, <3>2 DEF PutManifest, TypeOK, world
    <3>6. CASE ReadStored(p)
      <4> DEFINE st == [me EXCEPT !.pc = "write",
                           !.todo = CardsOf[me.version] \ cards]
      <4>1. me.pc = "stored" /\ Go(p, st)
        BY <3>6 DEF ReadStored, At
      <4>2. /\ st \in Proc /\ st.pc = "write" /\ st.version = me.version
            /\ st.now = me.now
        BY <3>1, <4>1, CardsAreKnown DEF Proc
      <4> HIDE DEF st
      <4>3. Fits(st)
        BY <3>1, <4>1, <4>2
      <4> QED
        BY <3>6, <4>3, <3>2 DEF ReadStored, TypeOK, world
    <3>7. CASE \E c \in Card : WriteCard(p, c)
      <4>1. PICK c \in Card : WriteCard(p, c)
        BY <3>7
      <4> DEFINE st == [me EXCEPT !.todo = @ \ {c}]
      <4>2. Fits(st)
        BY <3>1, <4>1 DEF WriteCard, At, Proc
      <4> QED
        BY <4>1, <4>2, <3>2 DEF WriteCard, TypeOK, world
    <3>8. CASE CommitPointer(p)
      <4> DEFINE st == [me EXCEPT !.pc = "clean", !.seen = 0]
      <4>1. me.pc \in {"commit", "write"}
        BY <3>8 DEF CommitPointer, Ready, At
      <4>2. Fits(st)
        BY <3>1, <3>8, <4>1 DEF CommitPointer, Proc
      <4>3. pointer' \in Pointer
        BY <3>1, <3>8 DEF CommitPointer, Proc, Pointer
      <4> QED
        BY <3>8, <4>2, <4>3, <3>2 DEF CommitPointer, TypeOK, world
    <3>9. CASE ListExpired(p)
      <4> DEFINE stored == {x \in Version : manifests[x] > 0}
                 kept == {x \in stored : \/ x = me.version \/ me.retained[x] > 0
                                         \/ manifests[x] >= me.now - Retention}
                 st == [me EXCEPT !.pc = "delete", !.expired = stored \ kept,
                           !.kept = UNION {CardsOf[x] : x \in kept},
                           !.retained = Unretained]
      <4>1. UNION {CardsOf[x] : x \in kept} \subseteq Card
        BY CardsAreKnown
      <4>2. me.pc = "clean" /\ Go(p, st)
        BY <3>9 DEF ListExpired, At
      <4>3. stored \ kept \subseteq Version
        OBVIOUS
      <4> HIDE DEF stored, kept
      <4>4. /\ st \in Proc /\ st.pc = "delete" /\ st.version = me.version
            /\ st.now = me.now
        BY <3>1, <4>1, <4>3, Idles DEF Proc
      <4> HIDE DEF st
      <4>5. Fits(st)
        BY <3>1, <4>2, <4>4
      <4> QED
        BY <3>9, <4>5, <3>2 DEF ListExpired, TypeOK, world
    <3>10. CASE \E x \in Version : DeleteCards(p, x)
      <4>1. PICK x \in Version : DeleteCards(p, x)
        BY <3>10
      <4> DEFINE st == [me EXCEPT !.pc = "forget", !.target = x,
                           !.expired = @ \ {x}]
      <4>2. Fits(st)
        BY <3>1, <4>1 DEF DeleteCards, At, Proc
      <4> HIDE DEF st
      <4>3. proc' \in [Process -> Proc] /\ Sound'
        BY <4>1, <4>2, <3>2 DEF DeleteCards, world
      <4>4. cards' \subseteq cards
        BY <4>1 DEF DeleteCards
      <4> QED
        BY <4>1, <4>3, <4>4 DEF DeleteCards, TypeOK, world
    <3>11. CASE DeleteManifest(p)
      <4> DEFINE st == [me EXCEPT !.pc = "delete", !.target = None]
      <4>1. Fits(st)
        BY <3>1, <3>11 DEF DeleteManifest, At, Proc
      <4> QED
        BY <3>11, <4>1, <3>2 DEF DeleteManifest, TypeOK, world
    <3>12. CASE RefuseCommit(p) \/ EndRefresh(p) \/ Crash(p)
      <4>1. Fits(Idle)
        BY <3>12, Idles DEF RefuseCommit, EndRefresh, Crash
      <4> QED
        BY <3>12, <4>1, <3>2 DEF RefuseCommit, EndRefresh, Crash, TypeOK, world
    <3> QED
      BY <2>3, <3>3, <3>4, <3>5, <3>6, <3>7, <3>8, <3>9, <3>10, <3>11, <3>12
      DEF Step
  <2> QED
    BY <2>1, <2>2, <2>3 DEF Next
<1> QED
  BY <1>1, <1>2, PTL DEF Spec

(* With two refreshes at a time, however long they stall and wherever they *)
(* die, everything that a commit relies on holds until it is made.         *)
THEOREM TwoRefreshesInvariance ==
    ASSUME NEW a, NEW b, Process \subseteq {a, b}
    PROVE  Spec => []IInv
<1>1. Harmless
  BY TwoAreHarmless
<1>2. IInv /\ [Next]_vars => IInv'
  BY <1>1, IInvStep
<1> QED
  BY <1>2, IInvInit, PTL DEF Spec

(* The version that the pointer names is published whole by two refreshes. *)
THEOREM TwoRefreshesPublishWhole ==
    ASSUME NEW a, NEW b, Process \subseteq {a, b}
    PROVE  Spec => []PublishedVersionIsWhole
<1>1. IInv => PublishedVersionIsWhole
  BY DEF IInv
<1> QED
  BY <1>1, TwoRefreshesInvariance, PTL

(* So is every version that the pointer retains for its readers.           *)
THEOREM TwoRefreshesRetainWhole ==
    ASSUME NEW a, NEW b, Process \subseteq {a, b}
    PROVE  Spec => []RetainedVersionsAreWhole
<1>1. IInv => RetainedVersionsAreWhole
  BY DEF IInv
<1> QED
  BY <1>1, TwoRefreshesInvariance, PTL

(* Any number of refreshes publish and retain whole versions as long as no *)
(* stamp of a manifest is replaced by an earlier one: what the unguarded   *)
(* put of the manifest does not promise.                                   *)
THEOREM ForwardStampsPublishWhole ==
    Spec /\ [][StampsGoOn]_vars
      => [](PublishedVersionIsWhole /\ RetainedVersionsAreWhole)
<1>1. IInv /\ [Next]_vars /\ [StampsGoOn]_vars => IInv'
  <2>1. CASE UNCHANGED vars
    BY <2>1 DEF vars, IInv, TypeOK, Generations, Sound, Reliable, Current, Kept,
                Covers, Protects, PublishedVersionIsWhole,
                RetainedVersionsAreWhole, Whole
  <2>2. CASE IInv /\ [Next]_vars /\ StampsGoOn
    BY <2>2, IInvStep, GoingOnIsHarmless
  <2> QED
    BY <2>1, <2>2
<1>2. IInv => PublishedVersionIsWhole /\ RetainedVersionsAreWhole
  BY DEF IInv
<1> QED
  BY <1>1, <1>2, IInvInit, PTL DEF Spec
=============================================================================
