-------------------------- MODULE CatalogMirrorProofs --------------------------
(***************************************************************************)
(* Proofs about the mirror: its types, that what it shows is whole and is  *)
(* what its generation was built as, and that it never goes back.          *)
(*                                                                         *)
(* A step of a process is what it makes of its own state and of the        *)
(* tables: Steps says what all of them have in common, one lemma for each  *)
(* action shows that it is such a step, and one lemma shows that such a    *)
(* step keeps the invariant.                                               *)
(***************************************************************************)
EXTENDS CatalogMirror, TLAPS

Working == {"built", "mirror", "check", "renew", "hide", "copy", "pages",
            "activate"}
Streaming == {"mirror", "hide", "copy", "pages", "drop"}
Streams(st) == st.mode = "stream" /\ st.pc \in Streaming

(* What holds of a process whatever the others do.                         *)
Sound(p, st) ==
    /\ st \in Proc
    /\ st.pc \in Working => st.version \in Version /\ st.gen > 0
    /\ st.seen.gen <= st.gen
    /\ st.same => st.seen.kind = "live" /\ st.seen.version = st.version
    /\ st.mode = "stream" => p = Cron /\ (st.pc \in Streaming => st.space \in Name)
    /\ st.mode # "stream" =>
        /\ st.space \in Version \cup {None} /\ st.pc \notin {"copy", "drop"}
        /\ st.pc = "pages" => ~st.same
        /\ st.pc \in {"hide", "pages"} => st.space = st.version
    /\ st.pc \in {"hide", "activate"} => st.same
    /\ st.pc = "invalidate" => ~st.same
    /\ st.pc \in {"built", "mirror", "check"} \/ (st.pc = "hide" /\ st.mode # "stream")
        => st.index = 0
    /\ st.pc \in {"built", "check", "activate"} => st.mode # "stream"

(* A generation was built as one version: what has its stamp has that.     *)
StampsVersion(f, x, gen) == gen \in 1..builds /\ x = f[gen]
Stamped(f) ==
    /\ pointer # NoPointer => StampsVersion(f, pointer.version, pointer.gen)
    /\ mirror.kind = "live" => StampsVersion(f, mirror.version, mirror.gen)
    /\ \A p \in Process : proc[p].pc \in Working =>
        StampsVersion(f, proc[p].version, proc[p].gen)
Named == \E f \in [1..builds -> Version] : Stamped(f)

(* Nothing refers to the namespace of a stream before its pointer is put.  *)
Fresh(n) == mirror.space # n /\ \A q \in Process : proc[q].seen.space # n
Private == Streams(proc[Cron]) => Fresh(proc[Cron].space)

(* Pages that were written are there unless R2 lost them.                  *)
Has(n, c) == c \in pages[n] \/ <<n, c>> \in lost
Filled == \A p \in Process : proc[p].pc = "pages" /\ ~proc[p].same =>
              \A c \in 1..proc[p].index : Has(proc[p].space, c)

Shown == mirror.kind = "live" =>
             /\ mirror.space \in Namespace
             /\ \A c \in Page(mirror.version) : Has(mirror.space, c)

IInv ==
    /\ TypeOK /\ (\A p \in Process : Sound(p, proc[p]))
    /\ Named /\ Private /\ Filled /\ Shown

-----------------------------------------------------------------------------
(* A step of a process, to the state st; the namespaces X may lose pages.  *)
WillHave(n, c) == c \in pages'[n] \/ <<n, c>> \in lost'

KeepsTables(p, X) ==
    /\ builds' = builds /\ faults' \in Nat
    /\ pages' \in [Namespace -> SUBSET Nat] /\ lost' \subseteq Namespace \X Nat
    /\ X \subseteq Name /\ mirror.space \notin X /\ (X # {} => p = Cron)
    /\ \A n \in Namespace \ X, c \in Nat : Has(n, c) => WillHave(n, c)

PointsOn(p) ==
    \/ pointer' = pointer
    \/ /\ proc[p].pc \in Working
       /\ pointer' = [version |-> proc[p].version, gen |-> proc[p].gen]

Shows(p, st, n) ==
    /\ proc[p].pc \in Working /\ n \in Namespace
    /\ mirror' = Live(proc[p].version, n, proc[p].gen)
    /\ \A c \in Page(proc[p].version) : WillHave(n, c)
    /\ n \in Version \cup {proc[p].seen.space} \/ (p = Cron /\ ~Streams(st))

MirrorsOn(p, st) ==
    /\ mirror'.gen >= mirror.gen
    /\ \/ mirror' = mirror
       \/ \E gen \in Nat : mirror' = Tomb(gen)
       \/ \E n \in Namespace : Shows(p, st, n)

GoesOn(p, st) ==
    /\ st.pc \in Working =>
        \/ /\ proc[p].pc \in Working
           /\ st.version = proc[p].version /\ st.gen = proc[p].gen
        \/ /\ pointer # NoPointer
           /\ st.version = pointer.version /\ st.gen = pointer.gen
    /\ Streams(st) => Fresh(st.space)
    /\ st.seen.space \in {proc[p].seen.space, mirror.space, None}
    /\ st.pc = "pages" /\ ~st.same =>
        \A c \in 1..st.index : WillHave(st.space, c)

Steps(p, st, X) ==
    /\ Go(p, st) /\ Sound(p, st)
    /\ KeepsTables(p, X) /\ PointsOn(p) /\ MirrorsOn(p, st) /\ GoesOn(p, st)

Moves(p) == \E st \in Proc, X \in SUBSET Name : Steps(p, st, X)

-----------------------------------------------------------------------------
LEMMA CronIsProcess == Cron \in Process
  BY DEF Process

LEMMA Records ==
  /\ NoMirror \in Mirror /\ Idle \in Proc
  /\ \A gen \in Nat : Tomb(gen) \in Mirror
  /\ \A x \in Version, n \in Namespace, gen \in Nat : Live(x, n, gen) \in Mirror
  BY DEF NoMirror, Mirror, Idle, Proc, Tomb, Live, Namespace

LEMMA ProcStep ==
  ASSUME NEW p \in Process, NEW st, proc \in [Process -> Proc], Sound(p, st),
         \A q \in Process : Sound(q, proc[q]), Go(p, st)
  PROVE  /\ proc' \in [Process -> Proc] /\ proc'[p] = st
         /\ \A q \in Process : Sound(q, proc'[q])
         /\ \A q \in Process \ {p} : proc'[q] = proc[q]
  <1>1. st \in Proc
    BY DEF Sound
  <1>2. proc' = [proc EXCEPT ![p] = st]
    BY DEF Go
  <1>3. /\ proc' \in [Process -> Proc] /\ proc'[p] = st
        /\ \A q \in Process \ {p} : proc'[q] = proc[q]
    BY <1>1, <1>2
  <1>4. ASSUME NEW q \in Process PROVE Sound(q, proc'[q])
    <2>1. CASE q = p
      BY <1>3, <2>1
    <2>2. CASE q # p
      BY <1>3, <2>2
    <2> QED
      BY <2>1, <2>2
  <1> QED
    BY <1>3, <1>4

LEMMA WritersHaveSpaces ==
  ASSUME NEW q \in Process, Sound(q, proc[q]), proc[q].pc = "pages"
  PROVE  /\ proc[q].space \in Namespace
         /\ q # Cron => proc[q].space \in Version
  BY DEF Sound, Working, Streaming, Namespace

LEMMA StepNames ==
  ASSUME IInv, NEW p \in Process, NEW st, NEW X, Steps(p, st, X)
  PROVE  Named'
  <1>1. PICK f \in [1..builds -> Version] : Stamped(f)
    BY DEF IInv, Named
  <1>2. builds' = builds /\ proc'[p] = st
        /\ \A q \in Process \ {p} : proc'[q] = proc[q]
    BY ProcStep DEF Steps, KeepsTables, IInv, TypeOK
  <1>3. proc[p].pc \in Working => StampsVersion(f, proc[p].version, proc[p].gen)
    BY <1>1 DEF Stamped
  <1>4. pointer' # NoPointer => StampsVersion(f, pointer'.version, pointer'.gen)
    <2>1. CASE pointer' = pointer
      BY <1>1, <2>1 DEF Stamped
    <2>2. CASE pointer' = [version |-> proc[p].version, gen |-> proc[p].gen]
               /\ proc[p].pc \in Working
      BY <1>3, <2>2
    <2> QED
      BY <2>1, <2>2 DEF Steps, PointsOn
  <1>5. mirror'.kind = "live" => StampsVersion(f, mirror'.version, mirror'.gen)
    <2>1. CASE mirror' = mirror
      BY <1>1, <2>1 DEF Stamped
    <2>2. ASSUME NEW gen \in Nat, mirror' = Tomb(gen) PROVE mirror'.kind # "live"
      BY <2>2 DEF Tomb, NoMirror
    <2>3. ASSUME NEW n \in Namespace, Shows(p, st, n)
          PROVE  StampsVersion(f, mirror'.version, mirror'.gen)
      BY <1>3, <2>3 DEF Shows, Live
    <2> QED
      BY <2>1, <2>2, <2>3 DEF Steps, MirrorsOn
  <1>6. ASSUME NEW q \in Process, proc'[q].pc \in Working
        PROVE  StampsVersion(f, proc'[q].version, proc'[q].gen)
    <2>1. CASE q = p
      BY <1>1, <1>2, <1>3, <1>6, <2>1 DEF Steps, GoesOn, Stamped
    <2>2. CASE q # p
      BY <1>1, <1>2, <1>6, <2>2 DEF Stamped
    <2> QED
      BY <2>1, <2>2
  <1>7. Stamped(f)'
    BY <1>2, <1>4, <1>5, <1>6 DEF Stamped, StampsVersion
  <1> QED
    BY <1>2, <1>7 DEF Named

LEMMA StepIsPrivate ==
  ASSUME IInv, NEW p \in Process, NEW st, NEW X, Steps(p, st, X)
  PROVE  Private'
  <1> SUFFICES ASSUME Streams(proc'[Cron])
               PROVE  /\ mirror'.space # proc'[Cron].space
                      /\ \A q \in Process :
                            proc'[q].seen.space # proc'[Cron].space
    BY DEF Private, Streams, Fresh
  <1>1. /\ proc'[p] = st /\ \A q \in Process : Sound(q, proc'[q])
        /\ \A q \in Process \ {p} : proc'[q] = proc[q]
    BY ProcStep DEF Steps, IInv, TypeOK
  <1> DEFINE n == proc'[Cron].space
  <1>2. n \in Name
    BY <1>1, CronIsProcess DEF Sound, Streams
  <1>3. Fresh(n)
    <2>1. CASE p = Cron
      BY <1>1, <2>1 DEF Steps, GoesOn
    <2>2. CASE p # Cron
      BY <1>1, <2>2, CronIsProcess DEF IInv, Private
    <2> QED
      BY <2>1, <2>2
  <1>4. n # None /\ n \notin Version
    BY <1>2, NamesAreDistinct
  <1> HIDE DEF n
  <1>5. mirror'.space # n
    <2>1. CASE mirror' = mirror
      BY <1>3, <2>1 DEF Fresh
    <2>2. ASSUME NEW gen \in Nat, mirror' = Tomb(gen) PROVE mirror'.space # n
      BY <1>4, <2>2 DEF Tomb, NoMirror
    <2>3. ASSUME NEW m \in Namespace, Shows(p, st, m) PROVE mirror'.space # n
      <3>1. mirror'.space = m
        BY <2>3 DEF Shows, Live
      <3>2. ~(p = Cron /\ ~Streams(st))
        BY <1>1
      <3>3. m \in Version \cup {proc[p].seen.space}
        BY <2>3, <3>2 DEF Shows
      <3> QED
        BY <1>3, <1>4, <3>1, <3>3 DEF Fresh
    <2> QED
      BY <2>1, <2>2, <2>3 DEF Steps, MirrorsOn
  <1>6. ASSUME NEW q \in Process PROVE proc'[q].seen.space # n
    <2>1. CASE q = p
      <3>1. st.seen.space \in {proc[p].seen.space, mirror.space, None}
        BY DEF Steps, GoesOn
      <3> QED
        BY <1>1, <1>3, <1>4, <2>1, <3>1 DEF Fresh
    <2>2. CASE q # p
      BY <1>1, <1>3, <2>2 DEF Fresh
    <2> QED
      BY <2>1, <2>2
  <1> QED
    BY <1>5, <1>6 DEF n

LEMMA StepFills ==
  ASSUME IInv, NEW p \in Process, NEW st, NEW X, Steps(p, st, X)
  PROVE  Filled'
  <1>1. /\ proc'[p] = st /\ proc' \in [Process -> Proc]
        /\ \A q \in Process \ {p} : proc'[q] = proc[q]
    BY ProcStep DEF Steps, IInv, TypeOK
  <1> SUFFICES ASSUME NEW q \in Process, proc'[q].pc = "pages", ~proc'[q].same,
                      NEW c \in 1..proc'[q].index
               PROVE  WillHave(proc'[q].space, c)
    BY DEF Filled, Has, WillHave
  <1>2. CASE q = p
    BY <1>1, <1>2 DEF Steps, GoesOn
  <1>3. CASE q # p
    <2>1. proc'[q] = proc[q]
      BY <1>1, <1>3
    <2>2. Has(proc[q].space, c) /\ c \in Nat
      BY <2>1 DEF IInv, Filled
    <2>3. proc[q].space \in Namespace
      BY <2>1, WritersHaveSpaces DEF IInv
    <2>4. proc[q].space \notin X
      <3>1. CASE q = Cron
        BY <1>3, <3>1 DEF Steps, KeepsTables
      <3>2. CASE q # Cron
        BY <2>1, <3>2, WritersHaveSpaces, NamesAreDistinct
        DEF IInv, Steps, KeepsTables
      <3> QED
        BY <3>1, <3>2
    <2> QED
      BY <2>1, <2>2, <2>3, <2>4 DEF Steps, KeepsTables
  <1> QED
    BY <1>2, <1>3
LEMMA StepShows ==
  ASSUME IInv, NEW p \in Process, NEW st, NEW X, Steps(p, st, X)
  PROVE  Shown'
  <1> SUFFICES ASSUME mirror'.kind = "live"
               PROVE  /\ mirror'.space \in Namespace
                      /\ \A c \in Page(mirror'.version) : WillHave(mirror'.space, c)
    BY DEF Shown, Has, WillHave, Page
  <1>1. CASE mirror' = mirror
    <2>1. /\ mirror.space \in Namespace \ X
          /\ \A c \in Page(mirror.version) : Has(mirror.space, c) /\ c \in Nat
      BY <1>1 DEF IInv, Shown, Steps, KeepsTables, Page
    <2> QED
      BY <1>1, <2>1 DEF Steps, KeepsTables
  <1>2. ASSUME NEW gen \in Nat, mirror' = Tomb(gen) PROVE FALSE
    BY <1>2 DEF Tomb, NoMirror
  <1>3. ASSUME NEW n \in Namespace, Shows(p, st, n)
        PROVE  mirror'.space = n /\ mirror'.version = proc[p].version
    BY <1>3 DEF Shows, Live
  <1> QED
    BY <1>1, <1>2, <1>3 DEF Steps, MirrorsOn, Shows

LEMMA StepTypes ==
  ASSUME IInv, NEW p \in Process, NEW st, NEW X, Steps(p, st, X)
  PROVE  TypeOK'
  <1>1. proc' \in [Process -> Proc]
    BY ProcStep DEF Steps, IInv, TypeOK
  <1>2. proc[p] \in Proc /\ Sound(p, proc[p])
    BY DEF IInv, TypeOK
  <1>3. pointer' \in Pointer
    BY <1>2 DEF Steps, PointsOn, IInv, TypeOK, Pointer, Sound, Proc
  <1>4. mirror' \in Mirror
    <2>1. ASSUME NEW n \in Namespace, Shows(p, st, n) PROVE mirror' \in Mirror
      <3>1. proc[p].version \in Version /\ proc[p].gen \in Nat
        BY <1>2, <2>1 DEF Shows, Sound, Proc
      <3> QED
        BY <2>1, <3>1, Records DEF Shows
    <2> QED
      BY <2>1, Records DEF Steps, MirrorsOn, IInv, TypeOK
  <1> QED
    BY <1>1, <1>3, <1>4 DEF Steps, KeepsTables, IInv, TypeOK

LEMMA MovesKeepIInv ==
  ASSUME IInv, NEW p \in Process, Moves(p)
  PROVE  IInv' /\ mirror'.gen >= mirror.gen
  <1>1. PICK st \in Proc, X \in SUBSET Name : Steps(p, st, X)
    BY DEF Moves
  <1>2. \A q \in Process : Sound(q, proc'[q])
    BY <1>1, ProcStep DEF Steps, IInv, TypeOK
  <1>3. \A q \in Process : Sound(q, proc[q])'
    BY <1>2 DEF Sound
  <1>4. TypeOK' /\ Named' /\ Private' /\ Filled' /\ Shown'
    BY <1>1, StepTypes, StepNames, StepIsPrivate, StepFills, StepShows
  <1> QED
    BY <1>1, <1>3, <1>4 DEF IInv, Steps, MirrorsOn

-----------------------------------------------------------------------------
(* A process at rest, and one that is about to hide the mirror, is sound.  *)
LEMMA SoundStates ==
  ASSUME NEW p \in Process, NEW mode \in {"publish", "revalidate", "stream"},
         mode = "stream" => p = Cron, NEW gen \in Nat
  PROVE  /\ Sound(p, Idle)
         /\ Sound(p, [Idle EXCEPT !.pc = "invalidate", !.mode = mode, !.gen = gen])
  <1> DEFINE st == [Idle EXCEPT !.pc = "invalidate", !.mode = mode, !.gen = gen]
  <1>1. Idle \in Proc /\ st \in Proc
    BY Records DEF Proc
  <1>2. NoMirror.gen = 0
    BY DEF NoMirror
  <1>3. Sound(p, Idle)
    BY <1>1, <1>2 DEF Sound, Idle, Working, Streaming
  <1>4. /\ st.pc = "invalidate" /\ st.mode = mode /\ st.gen = gen
        /\ st.seen = NoMirror /\ st.same = FALSE /\ st.space = None
    BY DEF Idle
  <1> HIDE DEF st
  <1>5. Sound(p, st)
    BY <1>1, <1>2, <1>4 DEF Sound, Working, Streaming
  <1> QED
    BY <1>3, <1>5 DEF st

LEMMA Quiet ==
  ASSUME IInv, NEW p \in Process, NEW st, Go(p, st), Sound(p, st),
         builds' = builds, faults' \in Nat, pages' = pages, lost' = lost,
         PointsOn(p), MirrorsOn(p, st), GoesOn(p, st)
  PROVE  Moves(p)
  <1>1. KeepsTables(p, {})
    BY DEF KeepsTables, Has, WillHave, IInv, TypeOK
  <1>2. Steps(p, st, {}) /\ st \in Proc
    BY <1>1 DEF Steps, Sound
  <1> QED
    BY <1>2 DEF Moves

LEMMA SettledStates ==
  ASSUME IInv, NEW p \in Process
  PROVE  /\ GoesOn(p, Idle) /\ GoesOn(p, ToInvalidate(p))
         /\ Sound(p, Idle) /\ Sound(p, ToInvalidate(p))
         /\ Failed(p).pc \in {"drop", "invalidate"}
         /\ Refused(p).pc \in {"drop", "idle"}
  <1>1. Sound(p, proc[p])
    BY DEF IInv
  <1>2. Sound(p, Idle) /\ Sound(p, ToInvalidate(p))
    <2>1. /\ proc[p].mode \in {"publish", "revalidate", "stream"}
          /\ proc[p].gen \in Nat /\ (proc[p].mode = "stream" => p = Cron)
      BY <1>1 DEF Sound, Proc
    <2> QED
      BY <2>1, SoundStates DEF ToInvalidate
  <1>3. GoesOn(p, Idle) /\ GoesOn(p, ToInvalidate(p))
    BY DEF GoesOn, ToInvalidate, Idle, NoMirror, Working, Streaming, Streams
  <1>4. /\ Failed(p).pc \in {"drop", "invalidate"}
        /\ Refused(p).pc \in {"drop", "idle"}
    BY DEF Failed, Refused, ToDrop, ToInvalidate, Idle
  <1> QED
    BY <1>2, <1>3, <1>4

LEMMA MirrorStays ==
  ASSUME IInv, mirror' = mirror, NEW p, NEW st
  PROVE  MirrorsOn(p, st)
  BY DEF MirrorsOn, IInv, TypeOK, Mirror

LEMMA CommitMoves ==
  ASSUME IInv, NEW p \in Process, Commit(p)
  PROVE  Moves(p)
  <1> DEFINE st == ToPc(p, "mirror")
  <1>1. proc[p] \in Proc /\ Sound(p, proc[p]) /\ proc[p].pc = "built"
    BY DEF IInv, TypeOK, Commit, At
  <1>2. CASE Go(p, Idle) /\ UNCHANGED pointer
    <2>1. PointsOn(p) /\ MirrorsOn(p, Idle)
      BY <1>2, MirrorStays DEF PointsOn, Commit
    <2> QED
      BY <1>2, <2>1, Quiet, SettledStates DEF Commit, IInv, TypeOK
  <1>3. CASE /\ pointer' = [version |-> proc[p].version, gen |-> proc[p].gen]
             /\ Go(p, st)
    <2>1. PointsOn(p) /\ MirrorsOn(p, st)
      BY <1>1, <1>3, MirrorStays DEF PointsOn, Commit, Working
    <2>2. Sound(p, st)
      BY <1>1 DEF Sound, ToPc, Proc, Working, Streaming
    <2>3. GoesOn(p, st)
      BY <1>1 DEF GoesOn, Sound, ToPc, Proc, Working, Streams, Streaming
    <2> QED
      BY <1>3, <2>1, <2>2, <2>3, Quiet DEF Commit, IInv, TypeOK
  <1> QED
    BY <1>2, <1>3 DEF Commit

(* What a failure or a refusal leaves a process with.                      *)
LEMMA Backs ==
  ASSUME IInv, NEW p \in Process,
         proc[p].pc \in Streaming \/ proc[p].mode # "stream"
  PROVE  /\ Sound(p, Failed(p)) /\ Sound(p, Refused(p))
         /\ GoesOn(p, Failed(p)) /\ GoesOn(p, Refused(p))
  <1>1. /\ Sound(p, Idle) /\ Sound(p, ToInvalidate(p))
        /\ GoesOn(p, Idle) /\ GoesOn(p, ToInvalidate(p))
    BY SettledStates
  <1>2. ASSUME proc[p].mode = "stream", NEW failed \in BOOLEAN
        PROVE  Sound(p, ToDrop(p, failed)) /\ GoesOn(p, ToDrop(p, failed))
    <2> DEFINE st == ToDrop(p, failed)
    <2>1. /\ p = Cron /\ proc[p].space \in Name /\ proc[p] \in Proc
          /\ Streams(proc[p])
      BY <1>2 DEF IInv, Sound, Streams
    <2>2. /\ st.pc = "drop" /\ st.mode = "stream" /\ st.gen = proc[p].gen
          /\ st.space = proc[p].space /\ st.seen = NoMirror /\ st.same = FALSE
          /\ st = [ToInvalidate(p) EXCEPT !.pc = "drop", !.space = proc[p].space,
                                          !.failed = failed]
      BY <1>2 DEF ToDrop, ToInvalidate, Idle
    <2>3. st \in Proc
      BY <1>1, <2>1, <2>2 DEF Sound, Proc, Namespace
    <2>4. NoMirror.gen = 0 /\ NoMirror.space = None /\ st.gen \in Nat
      BY <2>1, <2>2 DEF NoMirror, Proc
    <2>5. Fresh(proc[p].space)
      BY <2>1 DEF IInv, Private
    <2> HIDE DEF st
    <2>6. Sound(p, st)
      BY <2>1, <2>2, <2>3, <2>4 DEF Sound, Working
    <2>7. GoesOn(p, st)
      BY <2>1, <2>2, <2>4, <2>5 DEF GoesOn, Working
    <2> QED
      BY <2>6, <2>7 DEF st
  <1> QED
    BY <1>1, <1>2 DEF Failed, Refused

(* What a conditional put offers, and what it makes of a process.          *)
Offers(p, new, done, thrown) ==
    \/ new = Tomb(proc[p].gen)
    \/ \E n \in Namespace \cup {None} :
        /\ new = Live(proc[p].version, n, proc[p].gen)
        /\ proc[p].pc \in Working
        /\ mirror = proc[p].seen =>
            n \in Namespace /\ \A c \in Page(proc[p].version) : Has(n, c)
        /\ \/ n \in Version \cup {proc[p].seen.space}
           \/ p = Cron /\ ~Streams(done) /\ ~Streams(thrown)

Goes(p, st) == Sound(p, st) /\ GoesOn(p, st)

LEMMA PutMoves ==
  ASSUME IInv, NEW p \in Process, NEW new, NEW done, NEW refused, NEW thrown,
         PutMirror(p, new, done, refused, thrown),
         pointer' = pointer, builds' = builds, pages' = pages, lost' = lost,
         Offers(p, new, done, thrown),
         Goes(p, done), Goes(p, refused), Goes(p, thrown)
  PROVE  Moves(p)
  <1>1. /\ mirror \in Mirror /\ proc[p] \in Proc /\ faults \in Nat
        /\ proc[p].seen.gen <= proc[p].gen /\ faults + 1 \in Nat
    BY DEF IInv, TypeOK, Sound
  <1>2. PointsOn(p)
    BY DEF PointsOn
  <1>3. ASSUME NEW st \in {done, thrown}, mirror = proc[p].seen, mirror' = new
        PROVE  MirrorsOn(p, st)
    <2>1. mirror.gen <= proc[p].gen /\ proc[p].gen \in Nat
      BY <1>1, <1>3 DEF Proc
    <2>2. CASE new = Tomb(proc[p].gen)
      <3>1. Tomb(proc[p].gen).gen = proc[p].gen
        BY DEF Tomb, NoMirror
      <3> QED
        BY <1>1, <1>3, <2>1, <2>2, <3>1 DEF MirrorsOn, Mirror
    <2>3. ASSUME NEW n \in Namespace \cup {None},
                 new = Live(proc[p].version, n, proc[p].gen),
                 proc[p].pc \in Working,
                 n \in Namespace, \A c \in Page(proc[p].version) : Has(n, c),
                 \/ n \in Version \cup {proc[p].seen.space}
                 \/ p = Cron /\ ~Streams(done) /\ ~Streams(thrown)
          PROVE  MirrorsOn(p, st)
      <3>1. new.gen = proc[p].gen
        BY <2>3 DEF Live
      <3>2. Shows(p, st, n)
        BY <1>3, <2>3 DEF Shows, Has, WillHave
      <3> QED
        BY <1>1, <1>3, <2>1, <2>3, <3>1, <3>2 DEF MirrorsOn, Mirror
    <2> QED
      BY <1>3, <2>2, <2>3 DEF Offers
  <1>4. CASE mirror = proc[p].seen /\ mirror' = new /\ Go(p, done) /\ UNCHANGED faults
    BY <1>1, <1>2, <1>3, <1>4, Quiet DEF Goes
  <1>5. CASE mirror # proc[p].seen /\ Go(p, refused) /\ UNCHANGED <<mirror, faults>>
    BY <1>1, <1>2, <1>5, MirrorStays, Quiet DEF Goes
  <1>6. CASE /\ Fault /\ Go(p, thrown)
             /\ mirror' \in IF mirror = proc[p].seen THEN {mirror, new} ELSE {mirror}
    <2>1. faults' \in Nat
      BY <1>1, <1>6 DEF Fault
    <2>2. MirrorsOn(p, thrown)
      BY <1>3, <1>6, MirrorStays
    <2> QED
      BY <1>2, <1>6, <2>1, <2>2, Quiet DEF Goes
  <1> QED
    BY <1>4, <1>5, <1>6 DEF PutMirror

LEMMA ReadMirrorMoves ==
  ASSUME IInv, NEW p \in Process, ReadMirror(p)
  PROVE  Moves(p)
  <1> DEFINE me == proc[p]
             st == [me EXCEPT !.seen = mirror,
                       !.same = mirror.kind = "live" /\ mirror.version = me.version,
                       !.pc = IF me.mode = "stream" THEN "pages" ELSE "check"]
  <1>1. /\ me \in Proc /\ Sound(p, me) /\ me.pc = "mirror" /\ mirror \in Mirror
        /\ faults \in Nat
    BY DEF IInv, TypeOK, ReadMirror, At
  <1>2. PointsOn(p) /\ MirrorsOn(p, Idle) /\ MirrorsOn(p, st)
    BY MirrorStays DEF PointsOn, ReadMirror, store
  <1>3. CASE Go(p, Idle)
    BY <1>1, <1>2, <1>3, Quiet, SettledStates DEF ReadMirror, store
  <1>4. CASE ~Overtaken(p) /\ Go(p, st)
    <2>1. /\ st.pc = IF me.mode = "stream" THEN "pages" ELSE "check"
          /\ st.seen = mirror /\ st.mode = me.mode /\ st.version = me.version
          /\ st.gen = me.gen /\ st.space = me.space /\ st.index = me.index
          /\ st.same = (mirror.kind = "live" /\ mirror.version = me.version)
      BY <1>1 DEF Proc
    <2>2. st \in Proc
      BY <1>1 DEF Proc
    <2>3. mirror.gen <= me.gen
      BY <1>1, <1>4 DEF Overtaken, Mirror, Proc
    <2> HIDE DEF st
    <2>4. Sound(p, st)
      BY <1>1, <2>1, <2>2, <2>3 DEF Sound, Working, Streaming
    <2>5. Streams(st) => Fresh(st.space)
      BY <1>1, <2>1 DEF IInv, Private, Streams, Streaming, Sound
    <2>6. GoesOn(p, st)
      BY <1>1, <2>1, <2>5 DEF GoesOn, Sound, Working
    <2> QED
      BY <1>1, <1>2, <1>4, <2>4, <2>6, Quiet DEF ReadMirror, store, st
  <1> QED
    BY <1>3, <1>4 DEF ReadMirror

LEMMA CheckPagesMoves ==
  ASSUME IInv, NEW p \in Process, CheckPages(p)
  PROVE  Moves(p)
  <1> DEFINE me == proc[p]
             whole == me.same /\ Page(me.version) \subseteq pages[me.seen.space]
             St(match) == IF me.mode = "revalidate"
                          THEN [me EXCEPT !.pc = "renew", !.same = match]
                          ELSE IF match THEN [me EXCEPT !.pc = "activate"]
                          ELSE [me EXCEPT !.pc = IF me.same THEN "hide" ELSE "pages",
                                   !.space = me.version]
  <1>1. /\ me \in Proc /\ Sound(p, me) /\ me.pc = "check" /\ faults \in Nat
    BY DEF IInv, TypeOK, CheckPages, At
  <1>2. PICK match \in {whole, FALSE} : Go(p, St(match)) /\ faults' \in Nat
    <2>1. CASE Go(p, St(whole)) /\ UNCHANGED faults
      BY <1>1, <2>1
    <2>2. CASE Go(p, St(FALSE)) /\ Fault
      BY <1>1, <2>2 DEF Fault
    <2> QED
      BY <2>1, <2>2 DEF CheckPages
  <1>3. PointsOn(p) /\ MirrorsOn(p, St(match))
    BY MirrorStays DEF PointsOn, CheckPages, store
  <1>4. match \in BOOLEAN /\ (match => me.same) /\ me.version \in Version
    BY <1>1 DEF Sound, Working, Proc
  <1> HIDE DEF whole
  <1>5. CASE me.mode = "revalidate"
    <2> DEFINE st == [me EXCEPT !.pc = "renew", !.same = match]
    <2>1. St(match) = st /\ st \in Proc
      BY <1>1, <1>4, <1>5 DEF Proc
    <2>2. Sound(p, st) /\ GoesOn(p, st)
      BY <1>1, <1>4, <1>5, <2>1 DEF Sound, GoesOn, Streams, Working, Proc
    <2> QED
      BY <1>2, <1>3, <2>1, <2>2, Quiet DEF CheckPages, store
  <1>6. CASE me.mode # "revalidate" /\ match
    <2> DEFINE st == [me EXCEPT !.pc = "activate"]
    <2>1. St(match) = st /\ st \in Proc
      BY <1>1, <1>4, <1>6 DEF Proc
    <2>2. Sound(p, st) /\ GoesOn(p, st)
      BY <1>1, <1>4, <1>6, <2>1 DEF Sound, GoesOn, Streams, Working, Proc
    <2> QED
      BY <1>2, <1>3, <2>1, <2>2, Quiet DEF CheckPages, store
  <1>7. CASE me.mode # "revalidate" /\ ~match
    <2> DEFINE st == [me EXCEPT !.pc = IF me.same THEN "hide" ELSE "pages",
                                !.space = me.version]
    <2>1. St(match) = st /\ st \in Proc
      BY <1>1, <1>4, <1>7 DEF Proc, Namespace
    <2>2. Sound(p, st) /\ GoesOn(p, st)
      BY <1>1, <1>4, <1>7, <2>1 DEF Sound, GoesOn, Streams, Working, Proc
    <2> QED
      BY <1>2, <1>3, <2>1, <2>2, Quiet DEF CheckPages, store
  <1> QED
    BY <1>5, <1>6, <1>7, <1>4

LEMMA RenewMoves ==
  ASSUME IInv, NEW p \in Process, Renew(p)
  PROVE  Moves(p)
  <1> DEFINE me == proc[p]
             new == IF me.same THEN [me.seen EXCEPT !.gen = me.gen] ELSE Tomb(me.gen)
  <1>1. /\ me \in Proc /\ Sound(p, me) /\ me.pc = "renew"
        /\ PutMirror(p, new, Idle, Idle, ToInvalidate(p))
        /\ pointer' = pointer /\ builds' = builds /\ pages' = pages /\ lost' = lost
    BY DEF IInv, TypeOK, Renew, At, store
  <1>2. Goes(p, Idle) /\ Goes(p, ToInvalidate(p))
    BY SettledStates DEF Goes
  <1>3. Offers(p, new, Idle, ToInvalidate(p))
    <2>1. CASE me.same
      <3>1. /\ me.seen \in Mirror /\ me.seen.kind = "live"
            /\ me.seen.version = me.version /\ me.seen.space \in Namespace \cup {None}
        BY <1>1, <2>1 DEF Sound, Proc, Mirror
      <3>2. new = Live(me.version, me.seen.space, me.gen)
        BY <2>1, <3>1 DEF Live, Mirror
      <3>3. mirror = me.seen =>
              /\ me.seen.space \in Namespace
              /\ \A c \in Page(me.version) : Has(me.seen.space, c)
        BY <3>1 DEF IInv, Shown
      <3> QED
        BY <1>1, <3>1, <3>2, <3>3 DEF Offers, Working
    <2>2. CASE ~me.same
      BY <2>2 DEF Offers
    <2> QED
      BY <2>1, <2>2
  <1> QED
    BY <1>1, <1>2, <1>3, PutMoves

LEMMA HideMoves ==
  ASSUME IInv, NEW p \in Process, Hide(p)
  PROVE  Moves(p)
  <1> DEFINE me == proc[p]
             next == [me EXCEPT !.seen = Tomb(me.gen), !.same = FALSE]
             done == IF me.mode = "stream"
                     THEN [next EXCEPT !.pc = "copy", !.from = me.seen.space]
                     ELSE [next EXCEPT !.pc = "pages"]
  <1>1. /\ me \in Proc /\ Sound(p, me) /\ me.pc = "hide"
        /\ PutMirror(p, Tomb(me.gen), done, Refused(p), Failed(p))
        /\ pointer' = pointer /\ builds' = builds /\ pages' = pages /\ lost' = lost
    BY DEF IInv, TypeOK, Hide, At, store
  <1>2. Goes(p, Refused(p)) /\ Goes(p, Failed(p))
    BY <1>1, Backs DEF Goes, Streaming
  <1>3. /\ Tomb(me.gen) \in Mirror /\ Tomb(me.gen).gen = me.gen
        /\ Tomb(me.gen).space = None /\ me.gen \in Nat
    BY <1>1, Records DEF Tomb, NoMirror, Proc
  <1>4. me.seen.space \in Namespace \cup {None}
    BY <1>1 DEF Proc, Mirror
  <1>5. /\ done.pc = IF me.mode = "stream" THEN "copy" ELSE "pages"
        /\ done.mode = me.mode /\ done.version = me.version /\ done.gen = me.gen
        /\ done.seen = Tomb(me.gen) /\ done.same = FALSE
        /\ done.space = me.space /\ done.index = me.index
    BY <1>1 DEF Proc
  <1>6. done \in Proc
    <2>1. next \in Proc
      BY <1>1, <1>3 DEF Proc
    <2> HIDE DEF next
    <2>2. /\ [next EXCEPT !.pc = "copy", !.from = me.seen.space] \in Proc
          /\ [next EXCEPT !.pc = "pages"] \in Proc
      BY <1>4, <2>1 DEF Proc
    <2> QED
      BY <2>2
  <1>7. Streams(done) => Fresh(done.space)
    BY <1>1, <1>5 DEF IInv, Private, Streams, Streaming, Sound
  <1> HIDE DEF done
  <1>8. Goes(p, done)
    <2>1. Sound(p, done)
      BY <1>1, <1>3, <1>5, <1>6 DEF Sound, Working, Streaming, Proc
    <2>2. GoesOn(p, done)
      BY <1>1, <1>3, <1>5, <1>7 DEF GoesOn, Working, Sound
    <2> QED
      BY <2>1, <2>2 DEF Goes
  <1>9. Offers(p, Tomb(me.gen), done, Failed(p))
    BY DEF Offers
  <1> QED
    BY <1>1, <1>2, <1>8, <1>9, PutMoves

LEMMA CopyPagesMoves ==
  ASSUME IInv, NEW p \in Process, CopyPages(p)
  PROVE  Moves(p)
  <1> DEFINE me == proc[p]
             st == [me EXCEPT !.pc = "pages", !.from = None]
             filled == [pages EXCEPT ![me.space] = 1..me.index]
  <1>1. /\ me \in Proc /\ Sound(p, me) /\ me.pc = "copy" /\ faults \in Nat
        /\ pages \in [Namespace -> SUBSET Nat] /\ lost \subseteq Namespace \X Nat
    BY DEF IInv, TypeOK, CopyPages, At
  <1>2. p = Cron /\ me.space \in Name /\ me.mode = "stream" /\ Streams(me)
    BY <1>1 DEF Sound, Streams, Streaming
  <1>3. Fresh(me.space)
    BY <1>2 DEF IInv, Private
  <1>4. PointsOn(p)
    BY DEF PointsOn, CopyPages, store
  <1>5. CASE Go(p, Failed(p)) /\ UNCHANGED pages
    <2>1. MirrorsOn(p, Failed(p))
      BY MirrorStays DEF CopyPages, store
    <2>2. Sound(p, Failed(p)) /\ GoesOn(p, Failed(p))
      BY <1>1, Backs DEF Streaming
    <2> QED
      BY <1>1, <1>4, <1>5, <2>1, <2>2, Quiet DEF CopyPages, store
  <1>6. CASE Go(p, st) /\ pages' = filled
    <2>1. me.space \in Namespace /\ 1..me.index \in SUBSET Nat
      BY <1>1, <1>2 DEF Namespace, Proc
    <2>2. /\ filled \in [Namespace -> SUBSET Nat] /\ filled[me.space] = 1..me.index
          /\ \A n \in Namespace \ {me.space} : filled[n] = pages[n]
      BY <1>1, <2>1
    <2>3. KeepsTables(p, {me.space})
      BY <1>1, <1>2, <1>3, <1>6, <2>2
      DEF KeepsTables, Has, WillHave, Fresh, CopyPages, store
    <2>4. st \in Proc
      BY <1>1 DEF Proc
    <2>5. /\ st.pc = "pages" /\ st.mode = me.mode /\ st.version = me.version
          /\ st.gen = me.gen /\ st.seen = me.seen /\ st.same = me.same
          /\ st.space = me.space /\ st.index = me.index
      BY <1>1 DEF Proc
    <2> HIDE DEF st
    <2>6. Sound(p, st)
      BY <1>1, <1>2, <2>4, <2>5 DEF Sound, Working, Streaming
    <2>7. GoesOn(p, st)
      BY <1>1, <1>3, <1>6, <2>2, <2>5 DEF GoesOn, Working, WillHave
    <2>8. MirrorsOn(p, st)
      BY MirrorStays DEF CopyPages, store
    <2>9. Steps(p, st, {me.space})
      BY <1>4, <1>6, <2>3, <2>6, <2>7, <2>8 DEF Steps, st
    <2> QED
      BY <1>2, <2>4, <2>9 DEF Moves
  <1> QED
    BY <1>5, <1>6 DEF CopyPages

LEMMA WritePageMoves ==
  ASSUME IInv, NEW p \in Process, WritePage(p)
  PROVE  Moves(p)
  <1> DEFINE me == proc[p]
             c == me.index + 1
             st == [me EXCEPT !.index = me.index + 1]
             filled == [pages EXCEPT ![me.space] = pages[me.space] \cup {c}]
  <1>1. /\ me \in Proc /\ Sound(p, me) /\ me.pc = "pages" /\ faults \in Nat
        /\ pages \in [Namespace -> SUBSET Nat] /\ lost \subseteq Namespace \X Nat
        /\ ~me.same /\ faults' = faults /\ builds' = builds
        /\ pages' = filled /\ lost' = lost \ {<<me.space, c>>} /\ Go(p, st)
    BY DEF IInv, TypeOK, WritePage, MorePages, At, store
  <1>2. me.space \in Namespace /\ c \in Nat /\ me.index \in Nat
    BY <1>1, WritersHaveSpaces DEF Proc
  <1>3. /\ filled \in [Namespace -> SUBSET Nat]
        /\ filled[me.space] = pages[me.space] \cup {c}
        /\ \A n \in Namespace \ {me.space} : filled[n] = pages[n]
    BY <1>1, <1>2
  <1>4. \A n \in Namespace, d \in Nat : Has(n, d) => WillHave(n, d)
    BY <1>1, <1>3 DEF Has, WillHave
  <1>5. KeepsTables(p, {})
    BY <1>1, <1>3, <1>4 DEF KeepsTables
  <1>6. st \in Proc
    BY <1>1, <1>2 DEF Proc
  <1>7. /\ st.pc = "pages" /\ st.mode = me.mode /\ st.version = me.version
        /\ st.gen = me.gen /\ st.seen = me.seen /\ st.same = me.same
        /\ st.space = me.space /\ st.index = c
    BY <1>1 DEF Proc
  <1>8. \A d \in 1..c : WillHave(me.space, d)
    <2>1. \A d \in 1..me.index : Has(me.space, d)
      BY <1>1 DEF IInv, Filled
    <2>2. \A d \in 1..c : d \in 1..me.index \/ d = c
      BY <1>2
    <2>3. WillHave(me.space, c)
      BY <1>1, <1>3 DEF WillHave
    <2> QED
      BY <1>2, <1>4, <2>1, <2>2, <2>3
  <1> HIDE DEF st
  <1>9. Sound(p, st)
    BY <1>1, <1>6, <1>7 DEF Sound, Working, Streaming
  <1>10. Streams(st) => Fresh(st.space)
    BY <1>1, <1>7 DEF IInv, Private, Streams, Streaming, Sound
  <1>11. GoesOn(p, st)
    BY <1>1, <1>7, <1>8, <1>10 DEF GoesOn, Working
  <1>12. PointsOn(p) /\ MirrorsOn(p, st)
    BY MirrorStays DEF PointsOn, WritePage, store
  <1>13. Steps(p, st, {})
    BY <1>1, <1>5, <1>9, <1>11, <1>12 DEF Steps, st
  <1> QED
    BY <1>6, <1>13 DEF Moves

LEMMA ReusePageMoves ==
  ASSUME IInv, NEW p \in Process, ReusePage(p)
  PROVE  Moves(p)
  <1> DEFINE me == proc[p]
             next == [me EXCEPT !.index = me.index + 1]
             hide == ToPc(p, "hide")
  <1>1. /\ me \in Proc /\ Sound(p, me) /\ me.pc = "pages" /\ me.same
        /\ faults \in Nat
    BY DEF IInv, TypeOK, ReusePage, MorePages, At
  <1>2. me.mode = "stream" /\ Streams(me) /\ p = Cron
    BY <1>1 DEF Sound, Streams, Streaming
  <1>3. Fresh(me.space)
    BY <1>2 DEF IInv, Private
  <1>4. PICK st \in {next, hide} : Go(p, st) /\ faults' \in Nat
    BY <1>1 DEF ReusePage, Fault
  <1>5. next \in Proc /\ hide \in Proc
    BY <1>1 DEF ToPc, Proc
  <1>6. /\ st.pc \in {"pages", "hide"} /\ st.mode = me.mode
        /\ st.version = me.version /\ st.gen = me.gen /\ st.seen = me.seen
        /\ st.same /\ st.space = me.space
    BY <1>1, <1>4 DEF ToPc, Proc
  <1>7. Sound(p, st)
    BY <1>1, <1>2, <1>5, <1>6 DEF Sound, Working, Streaming
  <1>8. GoesOn(p, st)
    BY <1>1, <1>3, <1>6 DEF GoesOn, Working
  <1>9. PointsOn(p) /\ MirrorsOn(p, st)
    BY MirrorStays DEF PointsOn, ReusePage, store
  <1> QED
    BY <1>4, <1>7, <1>8, <1>9, Quiet DEF ReusePage, store

LEMMA LoseRowsMoves ==
  ASSUME IInv, NEW p \in Process, LoseRows(p)
  PROVE  Moves(p)
  <1> DEFINE me == proc[p]
  <1>1. /\ me \in Proc /\ Sound(p, me) /\ me.pc = "pages" /\ faults \in Nat
        /\ mirror \in Mirror /\ me.seen.gen <= me.gen
    BY DEF IInv, TypeOK, LoseRows, MorePages, At, Sound
  <1>2. /\ Sound(p, Failed(p)) /\ Sound(p, Refused(p))
        /\ GoesOn(p, Failed(p)) /\ GoesOn(p, Refused(p))
    BY <1>1, Backs DEF Streaming
  <1>3. PointsOn(p)
    BY DEF PointsOn, LoseRows, store
  <1>4. PICK st \in {Failed(p), Refused(p)} :
            /\ Go(p, st)
            /\ mirror' = mirror \/ (mirror = me.seen /\ mirror' = Tomb(me.gen))
    BY DEF LoseRows
  <1>5. MirrorsOn(p, st)
    <2>1. CASE mirror' = mirror
      BY <2>1, MirrorStays
    <2>2. CASE mirror = me.seen /\ mirror' = Tomb(me.gen)
      <3>1. Tomb(me.gen).gen = me.gen /\ me.gen \in Nat
        BY <1>1 DEF Tomb, NoMirror, Proc
      <3> QED
        BY <1>1, <2>2, <3>1 DEF MirrorsOn, Mirror
    <2> QED
      BY <1>4, <2>1, <2>2
  <1> QED
    BY <1>1, <1>2, <1>3, <1>4, <1>5, Quiet DEF LoseRows, store

LEMMA ActivateMoves ==
  ASSUME IInv, NEW p \in Process, Activate(p)
  PROVE  Moves(p)
  <1> DEFINE me == proc[p]
             n == IF me.same THEN me.seen.space ELSE me.space
             new == Live(me.version, n, me.gen)
  <1>1. /\ me \in Proc /\ Sound(p, me) /\ me.pc \in {"activate", "pages"}
        /\ me.pc = "pages" => me.index = Count[me.version]
        /\ PutMirror(p, new, Idle, Refused(p), ToInvalidate(p))
        /\ pointer' = pointer /\ builds' = builds /\ pages' = pages /\ lost' = lost
    BY DEF IInv, TypeOK, Activate, At, store
  <1>2. /\ Goes(p, Idle) /\ Goes(p, ToInvalidate(p)) /\ Goes(p, Refused(p))
    <2>1. me.pc \in Streaming \/ me.mode # "stream"
      BY <1>1 DEF Sound, Streaming
    <2> QED
      BY <2>1, SettledStates, Backs DEF Goes
  <1>3. ~Streams(Idle) /\ ~Streams(ToInvalidate(p))
    BY DEF Streams, Streaming, Idle, ToInvalidate
  <1>4. n \in Namespace \cup {None}
    BY <1>1 DEF Proc, Mirror
  <1>5. mirror = me.seen =>
            n \in Namespace /\ \A c \in Page(me.version) : Has(n, c)
    <2>1. CASE me.same
      BY <1>1, <2>1 DEF Sound, IInv, Shown
    <2>2. CASE ~me.same
      <3>1. me.pc = "pages"
        BY <1>1, <2>2 DEF Sound
      <3>2. \A c \in Page(me.version) : Has(me.space, c)
        BY <1>1, <2>2, <3>1 DEF IInv, Filled, Page
      <3> QED
        BY <1>1, <2>2, <3>1, <3>2, WritersHaveSpaces
    <2> QED
      BY <2>1, <2>2
  <1>6. \/ n \in Version \cup {me.seen.space}
        \/ p = Cron /\ ~Streams(Idle) /\ ~Streams(ToInvalidate(p))
    BY <1>1, <1>3, WritersHaveSpaces DEF Sound
  <1>7. Offers(p, new, Idle, ToInvalidate(p))
    BY <1>1, <1>4, <1>5, <1>6 DEF Offers, Working
  <1> QED
    BY <1>1, <1>2, <1>7, PutMoves

LEMMA DropPagesMoves ==
  ASSUME IInv, NEW p \in Process, DropPages(p)
  PROVE  Moves(p)
  <1> DEFINE me == proc[p]
             st == IF me.failed THEN ToInvalidate(p) ELSE Idle
  <1>1. /\ me \in Proc /\ Sound(p, me) /\ me.pc = "drop" /\ faults \in Nat
        /\ pages \in [Namespace -> SUBSET Nat] /\ lost \subseteq Namespace \X Nat
    BY DEF IInv, TypeOK, DropPages, At
  <1>2. p = Cron /\ me.space \in Name /\ Streams(me)
    BY <1>1 DEF Sound, Streams, Streaming, Proc
  <1>3. Fresh(me.space)
    BY <1>2 DEF IInv, Private
  <1>4. /\ pages' = [pages EXCEPT ![me.space] = {}] /\ Go(p, st)
        /\ builds' = builds /\ lost' = lost /\ faults' = faults
    BY DEF DropPages, store
  <1>5. KeepsTables(p, {me.space})
    BY <1>1, <1>2, <1>3, <1>4 DEF KeepsTables, Has, WillHave, Fresh
  <1>6. Sound(p, st) /\ GoesOn(p, st)
    BY SettledStates
  <1>7. PointsOn(p) /\ MirrorsOn(p, st)
    BY MirrorStays DEF PointsOn, DropPages, store
  <1>8. Steps(p, st, {me.space}) /\ st \in Proc
    BY <1>4, <1>5, <1>6, <1>7 DEF Steps, Sound
  <1> QED
    BY <1>2, <1>8 DEF Moves

LEMMA InvalidateMoves ==
  ASSUME IInv, NEW p \in Process, Invalidate(p)
  PROVE  Moves(p)
  <1> DEFINE me == proc[p]
             st == [me EXCEPT !.pc = "retire", !.seen = mirror]
  <1>1. /\ me \in Proc /\ Sound(p, me) /\ me.pc = "invalidate"
        /\ mirror \in Mirror /\ faults \in Nat
    BY DEF IInv, TypeOK, Invalidate, At
  <1>2. PointsOn(p) /\ MirrorsOn(p, Idle) /\ MirrorsOn(p, st)
    BY MirrorStays DEF PointsOn, Invalidate, store
  <1>3. CASE Go(p, Idle)
    BY <1>1, <1>2, <1>3, Quiet, SettledStates DEF Invalidate, store
  <1>4. CASE ~Overtaken(p) /\ Go(p, st) /\ mirror.kind # "none"
    <2>1. st \in Proc
      BY <1>1 DEF Proc
    <2>2. Sound(p, st)
      <3>1. mirror.gen <= me.gen
        BY <1>1, <1>4 DEF Proc, Overtaken, Mirror
      <3>2. /\ st.pc = "retire" /\ st.seen = mirror /\ st.gen = me.gen
            /\ st.mode = me.mode /\ st.same = me.same /\ st.space = me.space
        BY <1>1 DEF Proc
      <3> HIDE DEF st
      <3> QED
        BY <1>1, <2>1, <3>1, <3>2 DEF Sound, Working, Streaming
    <2>3. GoesOn(p, st)
      BY <1>1 DEF GoesOn, Working, Streams, Streaming, Proc
    <2> QED
      BY <1>1, <1>2, <1>4, <2>2, <2>3, Quiet DEF Invalidate, store
  <1> QED
    BY <1>3, <1>4 DEF Invalidate

LEMMA RetireMoves ==
  ASSUME IInv, NEW p \in Process, Retire(p)
  PROVE  Moves(p)
  <1>1. Goes(p, Idle)
    BY SettledStates DEF Goes
  <1>2. Offers(p, Tomb(proc[p].gen), Idle, Idle)
    BY DEF Offers
  <1> QED
    BY <1>1, <1>2, PutMoves DEF Retire, store

-----------------------------------------------------------------------------
LEMMA StartStreamMoves ==
  ASSUME IInv, NEW p \in Process, NEW n \in Name, StartStream(p, n)
  PROVE  Moves(p)
  <1> DEFINE st == [Idle EXCEPT !.pc = "mirror", !.mode = "stream", !.space = n,
                       !.version = pointer.version, !.gen = pointer.gen]
  <1>1. /\ p = Cron /\ pointer # NoPointer /\ ~InUse(n) /\ Go(p, st)
        /\ pages' = [pages EXCEPT ![n] = {}] /\ lost' = {l \in lost : l[1] # n}
        /\ builds' = builds /\ faults' = faults /\ faults \in Nat
        /\ pages \in [Namespace -> SUBSET Nat] /\ lost \subseteq Namespace \X Nat
    BY DEF IInv, TypeOK, StartStream, store
  <1>2. Fresh(n)
    BY <1>1 DEF InUse, Fresh
  <1>3. KeepsTables(p, {n})
    BY <1>1, <1>2 DEF KeepsTables, Has, WillHave, Fresh
  <1>4. pointer.version \in Version /\ pointer.gen \in Nat \ {0}
    <2>1. PICK f \in [1..builds -> Version] : Stamped(f)
      BY DEF IInv, Named
    <2>2. pointer.gen \in 1..builds /\ pointer.version = f[pointer.gen]
      BY <1>1, <2>1 DEF Stamped, StampsVersion
    <2> QED
      BY <2>1, <2>2 DEF IInv, TypeOK
  <1>5. /\ st.pc = "mirror" /\ st.mode = "stream" /\ st.space = n
        /\ st.version = pointer.version /\ st.gen = pointer.gen
        /\ st.seen = NoMirror /\ st.same = FALSE /\ st.index = 0
    BY DEF Idle
  <1>6. st \in Proc
    BY <1>4, Records DEF Proc, Namespace
  <1>7. NoMirror.gen = 0 /\ NoMirror.space = None
    BY DEF NoMirror
  <1> HIDE DEF st
  <1>8. Sound(p, st)
    BY <1>1, <1>4, <1>5, <1>6, <1>7 DEF Sound, Working
  <1>9. GoesOn(p, st)
    BY <1>1, <1>2, <1>5, <1>7 DEF GoesOn
  <1>10. PointsOn(p) /\ MirrorsOn(p, st)
    BY MirrorStays DEF PointsOn, StartStream, store
  <1>11. Steps(p, st, {n})
    BY <1>1, <1>3, <1>8, <1>9, <1>10 DEF Steps, st
  <1> QED
    BY <1>6, <1>11 DEF Moves

LEMMA FaultMoves ==
  ASSUME IInv, NEW p \in Process, Fail(p) \/ Crash(p)
  PROVE  Moves(p)
  <1>1. faults' \in Nat
    BY DEF IInv, TypeOK, Fail, Crash, Fault
  <1>2. PICK st \in {Idle, ToInvalidate(p), Failed(p)} :
            Go(p, st) /\ Sound(p, st) /\ GoesOn(p, st)
    <2>1. CASE Go(p, Idle) \/ Go(p, ToInvalidate(p))
      BY <2>1, SettledStates
    <2>2. CASE proc[p].pc \in {"copy", "pages"} /\ Go(p, Failed(p))
      BY <2>2, Backs DEF Streaming
    <2> QED
      BY <2>1, <2>2 DEF Fail, Crash
  <1>3. PointsOn(p) /\ MirrorsOn(p, st)
    BY MirrorStays DEF PointsOn, Fail, Crash, store
  <1> QED
    BY <1>1, <1>2, <1>3, Quiet DEF Fail, Crash, store

(* R2 loses a page, or nothing happens: the processes stay as they are.    *)
LEMMA TablesMove ==
  ASSUME IInv, UNCHANGED vars \/ \E n \in Namespace : \E c \in pages[n] : LosePage(n, c)
  PROVE  Moves(Cron)
  <1> DEFINE st == proc[Cron]
  <1>1. /\ st \in Proc /\ Sound(Cron, st) /\ proc \in [Process -> Proc]
        /\ Cron \in Process /\ faults \in Nat
        /\ pages \in [Namespace -> SUBSET Nat] /\ lost \subseteq Namespace \X Nat
    BY CronIsProcess DEF IInv, TypeOK
  <1>2. /\ pointer' = pointer /\ builds' = builds /\ proc' = proc /\ mirror' = mirror
    BY DEF LosePage, vars, store
  <1>3. /\ faults' \in Nat /\ pages' \in [Namespace -> SUBSET Nat]
        /\ lost' \subseteq Namespace \X Nat
        /\ \A n \in Namespace, c \in Nat : Has(n, c) => WillHave(n, c)
    <2>1. CASE UNCHANGED vars
      BY <1>1, <2>1 DEF vars, Has, WillHave
    <2>2. ASSUME NEW n \in Namespace, NEW c \in pages[n], LosePage(n, c)
          PROVE  /\ faults' \in Nat /\ pages' \in [Namespace -> SUBSET Nat]
                 /\ lost' \subseteq Namespace \X Nat
                 /\ \A m \in Namespace, d \in Nat : Has(m, d) => WillHave(m, d)
      <3>1. c \in Nat /\ faults' \in Nat /\ lost' = lost \cup {<<n, c>>}
            /\ pages' = [pages EXCEPT ![n] = pages[n] \ {c}]
        BY <1>1, <2>2 DEF LosePage, Fault
      <3> QED
        BY <1>1, <3>1 DEF Has, WillHave
    <2> QED
      BY <2>1, <2>2
  <1>4. KeepsTables(Cron, {}) /\ PointsOn(Cron) /\ MirrorsOn(Cron, st) /\ Go(Cron, st)
    BY <1>1, <1>2, <1>3, MirrorStays DEF KeepsTables, PointsOn, Go
  <1>5. GoesOn(Cron, st)
    <2>1. Streams(st) => Fresh(st.space)
      BY DEF IInv, Private
    <2>2. st.pc = "pages" /\ ~st.same => \A c \in 1..st.index : WillHave(st.space, c)
      BY <1>1, <1>3, WritersHaveSpaces DEF IInv, Filled
    <2> QED
      BY <2>1, <2>2 DEF GoesOn
  <1> QED
    BY <1>1, <1>4, <1>5 DEF Moves, Steps

LEMMA BuildKeepsIInv ==
  ASSUME IInv, NEW p \in Process, NEW x \in Version, Build(p, x)
  PROVE  IInv' /\ mirror' = mirror
  <1> DEFINE mode == IF p = Cron THEN "revalidate" ELSE "publish"
             st == [Idle EXCEPT !.pc = "built", !.version = x, !.gen = builds + 1,
                       !.mode = mode]
  <1>1. /\ builds \in Nat /\ builds' = builds + 1 /\ Go(p, st)
        /\ pointer' = pointer /\ mirror' = mirror /\ pages' = pages
        /\ faults' = faults /\ lost' = lost
    BY DEF Build, IInv, TypeOK
  <1> HIDE DEF mode
  <1>2. st \in Proc
    <2>1. builds + 1 \in Nat /\ mode \in {"publish", "revalidate"}
      BY <1>1 DEF mode
    <2> QED
      BY <2>1, Records DEF Proc
  <1>3. /\ st.pc = "built" /\ st.version = x /\ st.gen = builds + 1
        /\ st.mode \in {"publish", "revalidate"} /\ st.seen = NoMirror
        /\ st.same = FALSE /\ st.space = None /\ st.index = 0
    BY DEF Idle, mode
  <1>4. NoMirror.gen = 0 /\ NoMirror.space = None
    BY DEF NoMirror
  <1> HIDE DEF st
  <1>5. Sound(p, st)
    BY <1>1, <1>2, <1>3, <1>4 DEF Sound, Working, Streaming
  <1>6. /\ proc' \in [Process -> Proc] /\ proc'[p] = st
        /\ \A q \in Process : Sound(q, proc'[q])
        /\ \A q \in Process \ {p} : proc'[q] = proc[q]
    BY <1>1, <1>5, ProcStep DEF IInv, TypeOK
  <1>7. TypeOK'
    BY <1>1, <1>6 DEF IInv, TypeOK
  <1>8. Named'
    <2>1. PICK f \in [1..builds -> Version] : Stamped(f)
      BY DEF IInv, Named
    <2>2. PICK g \in [1..(builds + 1) -> Version] :
              /\ g[builds + 1] = x
              /\ \A i \in 1..builds : i \in 1..(builds + 1) /\ g[i] = f[i]
      <3> DEFINE h == [i \in 1..(builds + 1) |-> IF i = builds + 1 THEN x ELSE f[i]]
      <3>1. /\ h \in [1..(builds + 1) -> Version] /\ h[builds + 1] = x
            /\ \A i \in 1..builds : i \in 1..(builds + 1) /\ h[i] = f[i]
        BY <1>1
      <3> QED
        BY <3>1
    <2>3. \A q \in Process : proc'[q].pc \in Working =>
              proc'[q].gen \in 1..(builds + 1) /\ proc'[q].version = g[proc'[q].gen]
      <3>1. st.gen \in 1..(builds + 1) /\ st.version = g[st.gen]
        BY <1>1, <1>3, <2>2
      <3> QED
        BY <1>6, <2>1, <2>2, <3>1 DEF Stamped, StampsVersion
    <2>4. Stamped(g)'
      BY <1>1, <2>1, <2>2, <2>3 DEF Stamped, StampsVersion
    <2> QED
      BY <1>1, <2>2, <2>4 DEF Named
  <1>9. Private'
    BY <1>1, <1>3, <1>4, <1>6, CronIsProcess, NamesAreDistinct
    DEF IInv, Private, Fresh, Streams, Streaming, Sound
  <1>10. Filled' /\ Shown'
    BY <1>1, <1>3, <1>6 DEF IInv, Filled, Shown, Has, Page
  <1>11. \A q \in Process : Sound(q, proc[q])'
    BY <1>6 DEF Sound
  <1> QED
    BY <1>1, <1>7, <1>8, <1>9, <1>10, <1>11 DEF IInv

-----------------------------------------------------------------------------
LEMMA IInvInit == Init => IInv
  <1> SUFFICES ASSUME Init PROVE IInv
    OBVIOUS
  <1>1. /\ pointer = NoPointer /\ mirror = NoMirror /\ builds = 0 /\ lost = {}
        /\ \A p \in Process : proc[p] = Idle
    BY DEF Init
  <1>2. NoPointer \in Pointer /\ NoMirror.kind = "none"
    BY DEF NoPointer, Pointer, NoMirror
  <1>3. TypeOK
    BY <1>2, Records DEF Init, TypeOK
  <1>4. Idle.pc = "idle" /\ Idle.mode = "publish"
    BY DEF Idle
  <1>5. \A p \in Process : Sound(p, proc[p])
    BY <1>1, SoundStates
  <1>6. Named
    <2>1. PICK f : f \in [1..builds -> Version]
      <3>1. 1..builds = {}
        BY <1>1
      <3>2. [i \in {} |-> i] \in [{} -> Version]
        OBVIOUS
      <3> QED
        BY <3>1, <3>2
    <2> QED
      BY <1>1, <1>2, <1>4, <2>1 DEF Named, Stamped, Working
  <1>7. Private /\ Filled /\ Shown
    BY <1>1, <1>2, <1>4, CronIsProcess DEF Private, Filled, Shown, Streams
  <1> QED
    BY <1>3, <1>5, <1>6, <1>7 DEF IInv

LEMMA PublicationMoves ==
  ASSUME IInv, NEW p \in Process, Publication(p)
  PROVE  Moves(p)
  BY CommitMoves, ReadMirrorMoves, CheckPagesMoves, RenewMoves, HideMoves,
     CopyPagesMoves, WritePageMoves, ReusePageMoves, LoseRowsMoves, ActivateMoves,
     DropPagesMoves, InvalidateMoves, RetireMoves
  DEF Publication

LEMMA IInvStep == IInv /\ [Next]_vars => IInv' /\ mirror'.gen >= mirror.gen
  <1> SUFFICES ASSUME IInv, [Next]_vars PROVE IInv' /\ mirror'.gen >= mirror.gen
    OBVIOUS
  <1>1. CASE \E p \in Process : Moves(p)
    BY <1>1, MovesKeepIInv
  <1>2. ASSUME NEW p \in Process, NEW x \in Version, Build(p, x)
        PROVE  IInv' /\ mirror'.gen >= mirror.gen
    BY <1>2, BuildKeepsIInv DEF IInv, TypeOK, Mirror
  <1>3. CASE UNCHANGED vars \/ \E n \in Namespace : \E c \in pages[n] : LosePage(n, c)
    BY <1>1, <1>3, TablesMove, CronIsProcess
  <1>4. ASSUME NEW p \in Process, Fail(p) \/ Crash(p) PROVE \E q \in Process : Moves(q)
    BY <1>4, FaultMoves
  <1>5. ASSUME NEW p \in Process, Publication(p) \/ Stream(p)
        PROVE  \E q \in Process : Moves(q)
    BY <1>5, PublicationMoves, StartStreamMoves DEF Stream
  <1> QED
    BY <1>1, <1>2, <1>3, <1>4, <1>5 DEF Next, Environment

(* IInv is inductive.                                                      *)
THEOREM MirrorInvariance == Spec => []IInv
  BY IInvInit, IInvStep, PTL DEF Spec

(* Type correctness, for every set of versions, namespaces and operators.  *)
THEOREM MirrorTypeCorrect == Spec => []TypeOK
  <1>1. IInv => TypeOK
    BY DEF IInv
  <1> QED
    BY <1>1, MirrorInvariance, PTL

(* What the mirror shows has every page that R2 did not lose: no           *)
(* publication deletes a page that readers see, or shows one that it has   *)
(* not written.                                                            *)
THEOREM MirrorStaysWhole == Spec => []MirrorIsWhole
  <1>1. IInv => MirrorIsWhole
    BY DEF IInv, Shown, MirrorIsWhole, Has
  <1> QED
    BY <1>1, MirrorInvariance, PTL

(* A mirror that readers take for current shows what D1 has.               *)
THEOREM CurrentMirrorShowsCatalog == Spec => []CurrentMirrorAgrees
  <1>1. IInv => CurrentMirrorAgrees
    <2> SUFFICES ASSUME IInv, mirror.kind = "live", mirror.gen = pointer.gen
                 PROVE  mirror.version = pointer.version
      BY DEF CurrentMirrorAgrees
    <2>1. PICK f \in [1..builds -> Version] : Stamped(f)
      BY DEF IInv, Named
    <2>2. mirror.gen \in 1..builds /\ mirror.version = f[mirror.gen]
      BY <2>1 DEF Stamped, StampsVersion
    <2>3. pointer # NoPointer
      BY <2>2 DEF IInv, TypeOK, NoPointer
    <2> QED
      BY <2>1, <2>2, <2>3 DEF Stamped, StampsVersion
  <1> QED
    BY <1>1, MirrorInvariance, PTL

(* No step, and no publication however late, shows or hides an older       *)
(* generation than the mirror has.                                         *)
THEOREM MirrorNeverReturns == Spec => MirrorNeverGoesBack
  <1>1. IInv /\ [Next]_vars => [mirror'.gen >= mirror.gen]_mirror
    BY IInvStep
  <1> QED
    BY <1>1, MirrorInvariance, PTL DEF Spec, MirrorNeverGoesBack
=============================================================================
