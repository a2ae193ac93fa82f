--------------------------- MODULE CatalogProjection ---------------------------
(***************************************************************************)
(* The published catalog in D1: the cards of a version, the manifest that  *)
(* names them, the pointer that names the version, and the refreshes that  *)
(* replace one version by another and clean up after it.                   *)
(*                                                                         *)
(* A version is the hash of its cards, so it stands for them. Refreshes of *)
(* the cron and of operators overlap, stall and die; the pointer's compare *)
(* and swap is all that orders them.                                       *)
(***************************************************************************)
EXTENDS Integers

CONSTANTS
    Version, Card, CardsOf, \* a version's cards
    Process,      \* the refreshes that may be under way at once
    None,
    Retention,    \* CATALOG_PROJECTION_RETENTION_MS
    MaxRefreshes, MaxClock, MaxCrashes \* bounds

ASSUME CardsAreKnown == CardsOf \in [Version -> SUBSET Card]
ASSUME NoneIsNoVersion == None \notin Version
ASSUME RetentionIsPositive == Retention \in Nat \ {0}
ASSUME BoundsAreNatural ==
    MaxRefreshes \in Nat /\ MaxClock \in Nat /\ MaxCrashes \in Nat

VARIABLES
    cards,     \* the card rows
    manifests, \* of a version: when its manifest was stamped, 0 if it has none
    pointer,   \* the pointer of the projection
    proc,      \* the refreshes under way
    clock, refreshes, crashes

vars == <<cards, manifests, pointer, proc, clock, refreshes, crashes>>

Retained == [Version -> Nat]
Unretained == [x \in Version |-> 0]

(* The generation stands for generatedAt, which no two refreshes share.    *)
Pointer == [version : Version \cup {None}, gen : Nat, retained : Retained]
NoPointer == [version |-> None, gen |-> 0, retained |-> Unretained]

Proc == [pc : {"idle", "built", "manifest", "stored", "write", "commit",
               "clean", "delete", "forget"},
         version : Version \cup {None}, gen : Nat,
         seen : Nat,           \* the generation the commit expects
         now : Nat, retained : Retained,
         todo : SUBSET Card, kept : SUBSET Card, expired : SUBSET Version,
         target : Version \cup {None}]
Idle == [pc |-> "idle", version |-> None, gen |-> 0, seen |-> 0, now |-> 0,
         retained |-> Unretained, todo |-> {}, kept |-> {}, expired |-> {},
         target |-> None]

(* Type correctness of the projection and of the refreshes.                *)
TypeOK ==
    /\ cards \subseteq Card /\ manifests \in [Version -> Nat]
    /\ pointer \in Pointer /\ proc \in [Process -> Proc]
    /\ clock \in Nat /\ refreshes \in Nat /\ crashes \in Nat

Init ==
    /\ cards = {} /\ manifests = Unretained /\ pointer = NoPointer
    /\ proc = [p \in Process |-> Idle]
    /\ clock = 1 /\ refreshes = 0 /\ crashes = 0

Go(p, state) == proc' = [proc EXCEPT ![p] = state]
At(p, pc) == proc[p].pc = pc

world == <<clock, refreshes, crashes>>

-----------------------------------------------------------------------------
(* The jobs are read and grouped, to whatever version they give by then.   *)
Build(p, x) ==
    /\ At(p, "idle") /\ refreshes < MaxRefreshes
    /\ refreshes' = refreshes + 1
    /\ Go(p, [Idle EXCEPT !.pc = "built", !.version = x,
                          !.gen = refreshes + 1])
    /\ UNCHANGED <<cards, manifests, pointer, clock, crashes>>

(* A version that is replaced stays retained, from now, for its readers.   *)
ReadPointer(p) ==
    LET x == proc[p].version
        same == pointer.version = x
    IN  /\ At(p, "built")
        /\ Go(p, [proc[p] EXCEPT
                !.pc = IF same THEN "commit" ELSE "manifest",
                !.seen = pointer.gen, !.now = clock,
                !.retained = [y \in Version |->
                    IF y = pointer.version /\ ~same THEN clock + Retention
                    ELSE IF pointer.retained[y] > clock THEN pointer.retained[y]
                    ELSE 0]])
        /\ UNCHANGED <<cards, manifests, pointer, world>>

(* The manifest comes before the rows are read, so that a cleanup sees the *)
(* cards that a refresh under way will use.                                *)
PutManifest(p) ==
    /\ At(p, "manifest")
    /\ manifests' = [manifests EXCEPT ![proc[p].version] = proc[p].now]
    /\ Go(p, [proc[p] EXCEPT !.pc = "stored"])
    /\ UNCHANGED <<cards, pointer, world>>

ReadStored(p) ==
    /\ At(p, "stored")
    /\ Go(p, [proc[p] EXCEPT !.pc = "write",
                 !.todo = CardsOf[proc[p].version] \ cards])
    /\ UNCHANGED <<cards, manifests, pointer, world>>

WriteCard(p, c) ==
    /\ At(p, "write") /\ c \in proc[p].todo
    /\ cards' = cards \cup {c}
    /\ Go(p, [proc[p] EXCEPT !.todo = @ \ {c}])
    /\ UNCHANGED <<manifests, pointer, world>>

Ready(p) == At(p, "commit") \/ (At(p, "write") /\ proc[p].todo = {})

(* Mutant of CommitPointer: the pointer moves whatever it is by now.       *)
CommitAnyPointer(p) ==
    LET me == proc[p] IN
    /\ Ready(p)
    /\ pointer' = [version |-> me.version, gen |-> me.gen,
                   retained |-> me.retained]
    /\ Go(p, [me EXCEPT !.pc = "clean", !.seen = 0])
    /\ UNCHANGED <<cards, manifests, world>>

(* The pointer moves if it is still the one that was read.                 *)
CommitPointer(p) ==
    LET me == proc[p] IN
    /\ Ready(p) /\ pointer.gen = me.seen
    /\ pointer' = [version |-> me.version, gen |-> me.gen,
                   retained |-> me.retained]
    /\ Go(p, [me EXCEPT !.pc = "clean", !.seen = 0])
    /\ UNCHANGED <<cards, manifests, world>>

RefuseCommit(p) ==
    /\ Ready(p) /\ pointer.gen # proc[p].seen
    /\ Go(p, Idle)
    /\ UNCHANGED <<cards, manifests, pointer, world>>

-----------------------------------------------------------------------------
(* Manifests past the retention that this refresh's pointer does not       *)
(* protect are expired, and the cards of every other manifest are kept.    *)
ListExpired(p) ==
    LET me == proc[p]
        stored == {x \in Version : manifests[x] > 0}
        kept == {x \in stored : \/ x = me.version \/ me.retained[x] > 0
                                \/ manifests[x] >= me.now - Retention}
    IN  /\ At(p, "clean")
        /\ Go(p, [me EXCEPT !.pc = "delete", !.expired = stored \ kept,
                     !.kept = UNION {CardsOf[x] : x \in kept},
                     !.retained = Unretained])
        /\ UNCHANGED <<cards, manifests, pointer, world>>

(* What each statement of the cleanup asks of the tables again.            *)
StillExpired(p, x) ==
    /\ manifests[x] > 0 /\ manifests[x] < proc[p].now - Retention
    /\ pointer.version # x /\ pointer.retained[x] = 0

(* Mutant of InOtherManifest: other manifests are not asked.               *)
InNoManifest(c, x) == c \notin Card /\ x \in Version

InOtherManifest(c, x) ==
    \E y \in Version \ {x} : manifests[y] > 0 /\ c \in CardsOf[y]

DeleteCards(p, x) ==
    /\ At(p, "delete") /\ x \in proc[p].expired
    /\ cards' = {c \in cards :
           \/ c \notin CardsOf[x] \ proc[p].kept
           \/ ~StillExpired(p, x) \/ InOtherManifest(c, x)}
    /\ Go(p, [proc[p] EXCEPT !.pc = "forget", !.target = x,
                 !.expired = @ \ {x}])
    /\ UNCHANGED <<manifests, pointer, world>>

(* Mutant of DeleteManifest: the version loses its place in the table.     *)
DeletePlace(p) ==
    LET x == proc[p].target IN
    /\ At(p, "forget")
    /\ manifests' = [y \in Version \ {x} |-> manifests[y]]
    /\ Go(p, [proc[p] EXCEPT !.pc = "delete", !.target = None])
    /\ UNCHANGED <<cards, pointer, world>>

DeleteManifest(p) ==
    LET x == proc[p].target IN
    /\ At(p, "forget")
    /\ manifests' = IF StillExpired(p, x) THEN [manifests EXCEPT ![x] = 0]
                    ELSE manifests
    /\ Go(p, [proc[p] EXCEPT !.pc = "delete", !.target = None])
    /\ UNCHANGED <<cards, pointer, world>>

EndRefresh(p) ==
    /\ At(p, "delete") /\ proc[p].expired = {}
    /\ Go(p, Idle)
    /\ UNCHANGED <<cards, manifests, pointer, world>>

-----------------------------------------------------------------------------
(* A statement fails or the invocation dies; a cleanup that fails is left  *)
(* to the next refresh.                                                    *)
Crash(p) ==
    /\ ~At(p, "idle") /\ crashes < MaxCrashes /\ crashes' = crashes + 1
    /\ Go(p, Idle)
    /\ UNCHANGED <<cards, manifests, pointer, clock, refreshes>>

TimePasses ==
    /\ clock < MaxClock /\ clock' = clock + 1
    /\ UNCHANGED <<cards, manifests, pointer, proc, refreshes, crashes>>

Step(p) ==
    \/ \E x \in Version : Build(p, x)
    \/ ReadPointer(p) \/ PutManifest(p) \/ ReadStored(p)
    \/ \E c \in Card : WriteCard(p, c)
    \/ CommitPointer(p) \/ RefuseCommit(p) \/ ListExpired(p)
    \/ \E x \in Version : DeleteCards(p, x)
    \/ DeleteManifest(p) \/ EndRefresh(p) \/ Crash(p)

Next == TimePasses \/ \E p \in Process : Step(p)

Spec == Init /\ [][Next]_vars

-----------------------------------------------------------------------------
Whole(x) == manifests[x] > 0 /\ CardsOf[x] \subseteq cards

(* The version the pointer names has its manifest and all of its cards,    *)
(* whatever refreshes and cleanups overlap, stall or die.                  *)
PublishedVersionIsWhole == pointer.version # None => Whole(pointer.version)

(* So has every version that the pointer retains, until it forgets it: a   *)
(* read that began on it can end on it.                                    *)
RetainedVersionsAreWhole ==
    \A x \in Version : pointer.retained[x] > 0 => Whole(x)
=============================================================================
