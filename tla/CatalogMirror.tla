----------------------------- MODULE CatalogMirror -----------------------------
(***************************************************************************)
(* The mirror of the published catalog in R2: pages, written before the    *)
(* one object that points to them, and the publications that renew, hide,  *)
(* repair or replace what it shows.                                        *)
(*                                                                         *)
(* A refresh commits a version to D1 (CatalogProjection) and then tells    *)
(* the mirror. Operators publish what they built. The crons, which a lease *)
(* makes one process, renew or hide after a refresh, and stream what D1    *)
(* has into a private namespace. Readers use the mirror while it has the   *)
(* generation of D1, and D1 otherwise.                                     *)
(***************************************************************************)
EXTENDS Integers

CONSTANTS
    Version, Count, \* the number of pages of a version
    Name,           \* private page namespaces
    Operator, Cron, None,
    MaxBuilds, MaxFaults \* bounds

ASSUME CountsAreNatural == Count \in [Version -> Nat]
ASSUME NamesAreDistinct == /\ None \notin Version \cup Name
                           /\ Version \cap Name = {} /\ Cron \notin Operator
ASSUME BoundsAreNatural == MaxBuilds \in Nat /\ MaxFaults \in Nat

Process == Operator \cup {Cron}
Namespace == Version \cup Name
Page(x) == 1..Count[x]

VARIABLES
    pointer, \* D1's pointer
    mirror,  \* R2's pointer
    pages,   \* the pages of a namespace
    proc,    \* the refreshes and publications under way
    builds, faults,
    lost     \* pages that R2 lost

vars == <<pointer, mirror, pages, proc, builds, faults, lost>>

Pointer == [version : Version \cup {None}, gen : Nat]
NoPointer == [version |-> None, gen |-> 0]

(* A tombstone hides the mirror and keeps its generation. The record       *)
(* stands for its ETag, which R2 derives from the content.                 *)
Mirror == [kind : {"none", "tomb", "live"}, version : Version \cup {None},
           space : Namespace \cup {None}, gen : Nat]
NoMirror == [kind |-> "none", version |-> None, space |-> None, gen |-> 0]

(* Mutant of Tomb: the stamp of an unstamped tombstone.                    *)
TombUnstamped(gen) == [NoMirror EXCEPT !.kind = "tomb", !.gen = None]

Tomb(gen) == [NoMirror EXCEPT !.kind = "tomb", !.gen = gen]
Live(x, space, gen) ==
    [kind |-> "live", version |-> x, space |-> space, gen |-> gen]

Proc == [pc : {"idle", "built", "mirror", "check", "renew", "hide", "copy",
               "pages", "activate", "drop", "invalidate", "retire"},
         mode : {"publish", "revalidate", "stream"},
         version : Version \cup {None}, gen : Nat, seen : Mirror,
         same : BOOLEAN,  \* the pages of the mirror that was seen are reused
         from : Namespace \cup {None}, space : Namespace \cup {None},
         index : Nat,     \* pages done
         failed : BOOLEAN]
Idle == [pc |-> "idle", mode |-> "publish", version |-> None, gen |-> 0,
         seen |-> NoMirror, same |-> FALSE, from |-> None, space |-> None,
         index |-> 0, failed |-> FALSE]

(* Type correctness of the mirror and of the publications.                 *)
TypeOK ==
    /\ pointer \in Pointer /\ mirror \in Mirror
    /\ pages \in [Namespace -> SUBSET Nat] /\ lost \subseteq Namespace \X Nat
    /\ proc \in [Process -> Proc] /\ builds \in Nat /\ faults \in Nat

Init ==
    /\ pointer = NoPointer /\ mirror = NoMirror
    /\ pages = [n \in Namespace |-> {}] /\ lost = {}
    /\ proc = [p \in Process |-> Idle] /\ builds = 0 /\ faults = 0

Fault == faults < MaxFaults /\ faults' = faults + 1
Go(p, state) == proc' = [proc EXCEPT ![p] = state]
At(p, pc) == proc[p].pc = pc
ToPc(p, pc) == [proc[p] EXCEPT !.pc = pc]

store == <<pointer, builds>>

-----------------------------------------------------------------------------
(* The jobs are grouped, to whatever version they give by then, and the    *)
(* build is stamped: the generation, which no two builds share.            *)
Build(p, x) ==
    /\ At(p, "idle") /\ builds < MaxBuilds /\ builds' = builds + 1
    /\ Go(p, [Idle EXCEPT !.pc = "built", !.version = x, !.gen = builds + 1,
                 !.mode = IF p = Cron THEN "revalidate" ELSE "publish"])
    /\ UNCHANGED <<pointer, mirror, pages, faults, lost>>

(* D1 takes the build, or refuses it because the pointer moved meanwhile.  *)
Commit(p) ==
    /\ At(p, "built")
    /\ \/ /\ pointer' = [version |-> proc[p].version, gen |-> proc[p].gen]
          /\ Go(p, ToPc(p, "mirror"))
       \/ Go(p, Idle) /\ UNCHANGED pointer
    /\ UNCHANGED <<mirror, pages, builds, faults, lost>>

(* A stream pins the version of D1 and draws a new namespace, which may    *)
(* be one that nothing refers to any more.                                 *)
InUse(n) == \/ mirror.space = n
            \/ \E q \in Process : n \in {proc[q].space, proc[q].from,
                                         proc[q].seen.space}

StartStream(p, n) ==
    /\ p = Cron /\ At(p, "idle") /\ pointer # NoPointer /\ ~InUse(n)
    /\ pages' = [pages EXCEPT ![n] = {}]
    /\ lost' = {l \in lost : l[1] # n}
    /\ Go(p, [Idle EXCEPT !.pc = "mirror", !.mode = "stream", !.space = n,
                 !.version = pointer.version, !.gen = pointer.gen])
    /\ UNCHANGED <<store, mirror, faults>>

-----------------------------------------------------------------------------
(* Mutants of Overtaken: the generations are not compared; an equal one is *)
(* left alone too.                                                         *)
NeverOvertaken(p) == p \notin Process
OvertakenOrEqual(p) == mirror.kind # "none" /\ mirror.gen >= proc[p].gen

(* A mirror of a later generation is left alone.                           *)
Overtaken(p) == mirror.gen > proc[p].gen

ReadMirror(p) ==
    LET me == proc[p]
        held == mirror.kind = "live" /\ mirror.version = me.version
    IN  /\ At(p, "mirror")
        /\ Go(p, IF Overtaken(p) \/ (mirror.kind = "none" /\ me.mode = "revalidate")
                 THEN Idle
                 ELSE [me EXCEPT !.seen = mirror, !.same = held,
                         !.pc = IF me.mode = "stream" THEN "pages" ELSE "check"])
        /\ UNCHANGED <<store, mirror, pages, faults, lost>>

(* The pages are compared with the build; one that cannot be read does not *)
(* match.                                                                  *)
CheckPages(p) ==
    LET me == proc[p]
        whole == me.same /\ Page(me.version) \subseteq pages[me.seen.space]
        Checked(match) ==
            Go(p, IF me.mode = "revalidate"
                  THEN [me EXCEPT !.pc = "renew", !.same = match]
                  ELSE IF match THEN [me EXCEPT !.pc = "activate"]
                  ELSE [me EXCEPT !.pc = IF me.same THEN "hide" ELSE "pages",
                           !.space = me.version])
    IN  /\ At(p, "check")
        /\ \/ Checked(whole) /\ UNCHANGED faults
           \/ Checked(FALSE) /\ Fault
        /\ UNCHANGED <<store, mirror, pages, lost>>

(* A conditional put of R2's pointer: done, refused, or failed, with or    *)
(* without its effect.                                                     *)
PutMirror(p, new, done, refused, thrown) ==
    \/ /\ mirror = proc[p].seen /\ mirror' = new /\ Go(p, done)
       /\ UNCHANGED faults
    \/ /\ mirror # proc[p].seen /\ Go(p, refused)
       /\ UNCHANGED <<mirror, faults>>
    \/ /\ Fault /\ Go(p, thrown)
       /\ mirror' \in IF mirror = proc[p].seen THEN {mirror, new} ELSE {mirror}

(* A publication that fails hides the mirror; a stream drops its pages     *)
(* first, unless its pointer may have been put.                            *)
ToInvalidate(p) ==
    [Idle EXCEPT !.pc = "invalidate", !.mode = proc[p].mode, !.gen = proc[p].gen]
ToDrop(p, failed) == [ToInvalidate(p) EXCEPT !.pc = "drop",
                         !.space = proc[p].space, !.failed = failed]
Failed(p) == IF proc[p].mode = "stream" THEN ToDrop(p, TRUE) ELSE ToInvalidate(p)
Refused(p) == IF proc[p].mode = "stream" THEN ToDrop(p, FALSE) ELSE Idle

(* Mutant of Renew: whatever is shown is kept under the new generation.    *)
RenewUnchecked(p) ==
    LET me == proc[p] IN
    /\ At(p, "renew")
    /\ PutMirror(p, IF me.seen.kind = "live" THEN [me.seen EXCEPT !.gen = me.gen]
                    ELSE Tomb(me.gen),
                 Idle, Idle, ToInvalidate(p))
    /\ UNCHANGED <<store, pages, lost>>

(* Pages that hold the version are kept under its new generation.          *)
Renew(p) ==
    LET me == proc[p] IN
    /\ At(p, "renew")
    /\ PutMirror(p, IF me.same THEN [me.seen EXCEPT !.gen = me.gen]
                    ELSE Tomb(me.gen),
                 Idle, Idle, ToInvalidate(p))
    /\ UNCHANGED <<store, pages, lost>>

(* A mirror of this version that lacks a page is hidden before the repair. *)
Hide(p) ==
    LET me == proc[p]
        next == [me EXCEPT !.seen = Tomb(me.gen), !.same = FALSE]
    IN  /\ At(p, "hide")
        /\ PutMirror(p, Tomb(me.gen),
                     IF me.mode = "stream"
                     THEN [next EXCEPT !.pc = "copy", !.from = me.seen.space]
                     ELSE [next EXCEPT !.pc = "pages"],
                     Refused(p), Failed(p))
        /\ UNCHANGED <<store, pages, lost>>

(* The pages that a stream found whole so far are copied.                  *)
CopyPages(p) ==
    LET me == proc[p] IN
    /\ At(p, "copy")
    /\ IF 1..me.index \subseteq pages[me.from]
       THEN /\ pages' = [pages EXCEPT ![me.space] = 1..me.index]
            /\ Go(p, [me EXCEPT !.pc = "pages", !.from = None])
       ELSE Go(p, Failed(p)) /\ UNCHANGED pages
    /\ UNCHANGED <<store, mirror, faults, lost>>

(* A page of the build is written, or found in the mirror that was seen;   *)
(* one that is missing there, or cannot be read, has the mirror hidden.    *)
MorePages(p) == At(p, "pages") /\ proc[p].index < Count[proc[p].version]

WritePage(p) ==
    LET me == proc[p] IN
    /\ MorePages(p) /\ ~me.same
    /\ pages' = [pages EXCEPT ![me.space] = @ \cup {me.index + 1}]
    /\ lost' = lost \ {<<me.space, me.index + 1>>}
    /\ Go(p, [me EXCEPT !.index = @ + 1])
    /\ UNCHANGED <<store, mirror, faults>>

ReusePage(p) ==
    LET me == proc[p] IN
    /\ MorePages(p) /\ me.same
    /\ \/ /\ me.index + 1 \in pages[me.seen.space]
          /\ Go(p, [me EXCEPT !.index = @ + 1]) /\ UNCHANGED faults
       \/ /\ me.index + 1 \notin pages[me.seen.space]
          /\ Go(p, ToPc(p, "hide")) /\ UNCHANGED faults
       \/ Go(p, ToPc(p, "hide")) /\ Fault
    /\ UNCHANGED <<store, mirror, pages, lost>>

(* The rows of a version that D1 replaced may go while they are streamed:  *)
(* the stream ends short of its hash, and a page that differs for it has   *)
(* the mirror hidden first.                                                *)
LoseRows(p) ==
    LET me == proc[p] IN
    /\ MorePages(p) /\ me.mode = "stream" /\ me.version # pointer.version
    /\ \/ Go(p, Failed(p)) /\ UNCHANGED mirror
       \/ /\ me.same /\ mirror = me.seen /\ mirror' = Tomb(me.gen)
          /\ Go(p, Failed(p))
       \/ /\ me.same /\ mirror # me.seen /\ Go(p, Refused(p))
          /\ UNCHANGED mirror
    /\ UNCHANGED <<store, pages, faults, lost>>

(* Mutant of Activate: a stream whose put failed drops its pages, though   *)
(* the put may have had its effect.                                        *)
ActivateOrDrop(p) ==
    LET me == proc[p]
        space == IF me.same THEN me.seen.space ELSE me.space
    IN  /\ \/ At(p, "activate")
           \/ At(p, "pages") /\ me.index = Count[me.version]
        /\ PutMirror(p, Live(me.version, space, me.gen),
                     Idle, Refused(p), Failed(p))
        /\ UNCHANGED <<store, pages, lost>>

(* The pointer follows its pages.                                          *)
Activate(p) ==
    LET me == proc[p]
        space == IF me.same THEN me.seen.space ELSE me.space
    IN  /\ \/ At(p, "activate")
           \/ At(p, "pages") /\ me.index = Count[me.version]
        /\ PutMirror(p, Live(me.version, space, me.gen),
                     Idle, Refused(p), ToInvalidate(p))
        /\ UNCHANGED <<store, pages, lost>>

DropPages(p) ==
    /\ At(p, "drop")
    /\ pages' = [pages EXCEPT ![proc[p].space] = {}]
    /\ Go(p, IF proc[p].failed THEN ToInvalidate(p) ELSE Idle)
    /\ UNCHANGED <<store, mirror, faults, lost>>

Invalidate(p) ==
    /\ At(p, "invalidate")
    /\ Go(p, IF Overtaken(p) \/ mirror.kind = "none" THEN Idle
             ELSE [proc[p] EXCEPT !.pc = "retire", !.seen = mirror])
    /\ UNCHANGED <<store, mirror, pages, faults, lost>>

Retire(p) ==
    /\ At(p, "retire")
    /\ PutMirror(p, Tomb(proc[p].gen), Idle, Idle, Idle)
    /\ UNCHANGED <<store, pages, lost>>

-----------------------------------------------------------------------------
(* Any other call of R2, or of D1 by a stream, fails.                      *)
Fail(p) ==
    /\ Fault
    /\ \/ At(p, "mirror") /\ Go(p, ToInvalidate(p))
       \/ proc[p].pc \in {"copy", "pages"} /\ Go(p, Failed(p))
       \/ At(p, "invalidate") /\ Go(p, Idle)
    /\ UNCHANGED <<store, mirror, pages, lost>>

(* An invocation dies.                                                     *)
Crash(p) ==
    /\ ~At(p, "idle") /\ Fault /\ Go(p, Idle)
    /\ UNCHANGED <<store, mirror, pages, lost>>

(* A page of the mirror is deleted or damaged from outside.                *)
LosePage(n, c) ==
    /\ c \in pages[n] /\ Fault
    /\ pages' = [pages EXCEPT ![n] = @ \ {c}]
    /\ lost' = lost \cup {<<n, c>>}
    /\ UNCHANGED <<store, mirror, proc>>

Publication(p) ==
    \/ Commit(p) \/ ReadMirror(p) \/ CheckPages(p) \/ Renew(p) \/ Hide(p)
    \/ CopyPages(p) \/ WritePage(p) \/ ReusePage(p) \/ LoseRows(p)
    \/ Activate(p) \/ DropPages(p) \/ Invalidate(p) \/ Retire(p)

Stream(p) == \E n \in Name : StartStream(p, n)

Environment ==
    \/ \E p \in Process, x \in Version : Build(p, x)
    \/ \E p \in Process : Fail(p) \/ Crash(p)
    \/ \E n \in Namespace : \E c \in pages[n] : LosePage(n, c)

Next == Environment \/ \E p \in Process : Publication(p) \/ Stream(p)

Spec == Init /\ [][Next]_vars

(* What has begun goes on or dies, and the streaming cron comes again.     *)
Fairness ==
    /\ \A p \in Process : WF_vars(Publication(p))
    /\ WF_vars(Stream(Cron))
LiveSpec == Spec /\ Fairness

-----------------------------------------------------------------------------
(* A mirror that is shown has every page of its version but those that R2  *)
(* lost: no publication deletes, or fails to write, a page of it.          *)
MirrorIsWhole ==
    mirror.kind = "live" =>
        \A c \in Page(mirror.version) :
            c \in pages[mirror.space] \/ <<mirror.space, c>> \in lost

(* Readers take the mirror for current when it has the generation of D1:   *)
(* then it shows the version that D1 has.                                  *)
CurrentMirrorAgrees ==
    mirror.kind = "live" /\ mirror.gen = pointer.gen =>
        mirror.version = pointer.version

(* What the mirror shows or hides is never replaced by an older            *)
(* generation, so a slow publication cannot bring back what was withdrawn, *)
(* nor a reader get a page older than the generation it compared.          *)
MirrorNeverGoesBack == [][mirror'.gen >= mirror.gen]_mirror

(* The mirror comes to show what D1 has, with all of its pages, unless it  *)
(* has a later stamp than D1, as when two refreshes commit in the other    *)
(* order than they were stamped; the next refresh ends that.               *)
MirrorCatchesUp ==
    []<>(\/ /\ mirror.kind = "live" /\ mirror.gen = pointer.gen
            /\ Page(mirror.version) \subseteq pages[mirror.space]
         \/ mirror.gen > pointer.gen \/ pointer = NoPointer)
=============================================================================
