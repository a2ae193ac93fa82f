----------------------------- MODULE PushDelivery -----------------------------
(***************************************************************************)
(* Push alerts for the new roles of one employer's drop: the workers that  *)
(* send right after their poll, the drain that sends what they left and    *)
(* works off deferred and retryable receipts, the provider, and users who  *)
(* change their settings or delete their account.                          *)
(*                                                                         *)
(* A user has one device, and his filter matches every role. The drain     *)
(* does not overlap itself: its cron gives it ten minutes.                 *)
(***************************************************************************)
EXTENDS Integers, FiniteSets

CONSTANTS
    User, Role,
    Sender, Drain, \* the provider workers and the maintenance cron
    None,          \* no user
    MinimumRoles,  \* RELEASE_MINIMUM_ROLES: the roles that make a card
    MaxAttempts,   \* MAX_EXPO_PUSH_ATTEMPTS
    MaxFaults      \* bound on failures and changes of mind

ASSUME DrainIsNoSender == Drain \notin Sender
ASSUME NoneIsNoUser == None \notin User
ASSUME BoundsArePositive == /\ MinimumRoles \in Nat \ {0}
                            /\ MaxAttempts \in Nat \ {0} /\ MaxFaults \in Nat

Process == Sender \cup {Drain}
Pair == User \X Role

VARIABLES
    receipts, \* a receipt per user and role
    marker,   \* notification state of the canonical job
    account,  \* of a user
    active, enabled, \* users with an active device, with alerts on
    cards,    \* users with a release of this drop
    proc,     \* the invocations under way
    taken,    \* how often the provider took a push for a receipt, up to 2
    named,    \* receipts whose role a push that was taken named
    doubtful, \* receipts the drain pushed without a recorded answer
    wavering, \* users who changed their settings or left
    faults    \* faults spent so far

vars == <<receipts, marker, account, active, enabled, cards, proc, taken, named,
          doubtful, wavering, faults>>

(* The status with its delivery state:                                     *)
(* deferred and due (deferred/deferred, deliverAfter ahead or past),       *)
(* claimed, accepted and unknown (pending/...), retryable (.../claimed),   *)
(* delivered (ok/...), failed (error/definitive-failure) and dropped       *)
(* (error/claimed). Only an accepted receipt has a ticket.                 *)
State == {"none", "deferred", "due", "claimed", "accepted", "unknown",
          "retryable", "delivered", "failed", "dropped"}
Receipt == [state : State, attempts : Nat]
NoReceipt == [state |-> "none", attempts |-> 0]
NoReceipts == [x \in Pair |-> NoReceipt]

(* The ways the provider answers: a ticket, an ok without one, an error    *)
(* ticket that names the device or not, a retryable or another HTTP        *)
(* failure, no answer.                                                     *)
Answer == {"ticket", "noticket", "unregistered", "rejected", "throttled",
           "refused", "lost"}

Pass == {"send", "deferred", "inspect", "retry"}
Proc == [pc : {"idle", "poll", "next", "batch", "claim", "publish", "record",
               "mark"},
         pass : Pass, ready : BOOLEAN, roles : SUBSET Role,
         users : SUBSET User, devices : SUBSET User, list : SUBSET Pair,
         old : [Pair -> Receipt], user : User \cup {None},
         batches : SUBSET SUBSET Role, text : SUBSET Role,
         todo : SUBSET Role, claimed : SUBSET Role, later : BOOLEAN,
         answer : Answer]
Idle == [pc |-> "idle", pass |-> "send", ready |-> FALSE, roles |-> {},
         users |-> {}, devices |-> {}, list |-> {}, old |-> NoReceipts,
         user |-> None, batches |-> {}, text |-> {}, todo |-> {},
         claimed |-> {}, later |-> FALSE, answer |-> "ticket"]

(* Type correctness of the receipts, the settings and the invocations.     *)
TypeOK ==
    /\ receipts \in [Pair -> Receipt]
    /\ marker \in [Role -> {"none", "pending", "sent"}]
    /\ account \in [User -> {"live", "leaving", "gone"}]
    /\ {active, enabled, cards} \subseteq SUBSET User
    /\ proc \in [Process -> Proc]
    /\ taken \in [Pair -> 0..2] /\ named \in SUBSET Pair
    /\ doubtful \in SUBSET Pair /\ wavering \in SUBSET User /\ faults \in Nat

Init ==
    /\ receipts = NoReceipts /\ marker = [j \in Role |-> "none"]
    /\ account = [u \in User |-> "live"]
    /\ active = User /\ enabled \in SUBSET User /\ cards = {}
    /\ proc = [p \in Process |-> Idle]
    /\ taken = [x \in Pair |-> 0] /\ named = {} /\ doubtful = {}
    /\ wavering = {} /\ faults = 0

Fault == faults < MaxFaults /\ faults' = faults + 1
Forget(old, xs) == [x \in Pair |-> IF x \in xs THEN NoReceipt ELSE old[x]]
world == <<marker, account, enabled, wavering>>
ghosts == <<taken, named, doubtful>>

-----------------------------------------------------------------------------
(***************************************************************************)
(* Sending new roles: user by user, batch by batch, each role claimed      *)
(* before the one push of its batch.                                       *)
(***************************************************************************)
SendRoles(p, roles, ready) ==
    proc' = [proc EXCEPT ![p] = [Idle EXCEPT !.pc = "next", !.roles = roles,
                !.ready = ready, !.users = active, !.devices = active]]

(* A poll commits new roles; its worker then sends them or, for a source   *)
(* that does not, leaves them to the drain.                                *)
CommitRole(s, j) ==
    /\ proc[s].pc \in {"idle", "poll"} /\ marker[j] = "none"
    /\ marker' = [marker EXCEPT ![j] = "pending"]
    /\ proc' = [proc EXCEPT ![s].pc = "poll", ![s].roles = @ \cup {j}]
    /\ UNCHANGED <<receipts, account, active, enabled, cards, ghosts, wavering,
                   faults>>

EndPoll(s) ==
    /\ proc[s].pc = "poll"
    /\ \/ SendRoles(s, proc[s].roles, FALSE)
       \/ proc' = [proc EXCEPT ![s] = Idle]
    /\ UNCHANGED <<receipts, world, active, cards, ghosts, faults>>

StartDrain ==
    /\ proc[Drain].pc = "idle"
    /\ SendRoles(Drain, {j \in Role : marker[j] = "pending"},
                 active \cap enabled # {})
    /\ UNCHANGED <<receipts, world, active, cards, ghosts, faults>>

(* A drop of enough roles is one card, and so is one that has a card       *)
(* already, which only the drain knows; else each role has its own.        *)
Batches(p, u) ==
    IF Cardinality(proc[p].roles) >= MinimumRoles \/ (p = Drain /\ u \in cards)
    THEN {proc[p].roles} \ {{}} ELSE {{j} : j \in proc[p].roles}

NextUser(p, u) ==
    /\ proc[p].pc = "next" /\ proc[p].pass = "send" /\ u \in proc[p].users
    /\ proc' = IF u \in enabled
               THEN [proc EXCEPT ![p].pc = "batch", ![p].users = @ \ {u},
                        ![p].user = u, ![p].batches = Batches(p, u),
                        ![p].old = [x \in Pair |-> IF x[1] = u THEN receipts[x]
                                                   ELSE NoReceipt]]
               ELSE [proc EXCEPT ![p].users = @ \ {u}]
    /\ UNCHANGED <<receipts, world, active, cards, ghosts, faults>>

(* delivered() in the code: what an earlier send has dealt with.           *)
Delivered(r) == r.state \in {"delivered", "claimed", "accepted", "unknown",
                             "deferred", "due", "failed"}

(* Nothing of the batch was claimed, or it is for later, or it is out.     *)
BatchDone(p) ==
    \/ proc[p].pc = "batch"
    \/ /\ proc[p].pc = "claim" /\ proc[p].todo = {}
       /\ proc[p].claimed = {} \/ proc[p].later

NextBatch(p, b) ==
    LET fresh == {j \in b : ~Delivered(proc[p].old[<<proc[p].user, j>>])} IN
    /\ BatchDone(p) /\ b \in proc[p].batches
    /\ \E later \in BOOLEAN :
          proc' = IF fresh = {}
                  THEN [proc EXCEPT ![p].pc = "batch", ![p].batches = @ \ {b},
                           ![p].claimed = {}]
                  ELSE [proc EXCEPT ![p].pc = "claim", ![p].batches = @ \ {b},
                           ![p].text = b, ![p].todo = fresh, ![p].claimed = {},
                           ![p].later = later]
    /\ UNCHANGED <<receipts, world, active, cards, ghosts, faults>>

EndUser(p) ==
    /\ BatchDone(p) /\ proc[p].batches = {}
    /\ proc' = [proc EXCEPT ![p].pc = "next", ![p].user = None,
                   ![p].old = NoReceipts, ![p].text = {}, ![p].claimed = {},
                   ![p].later = FALSE]
    /\ UNCHANGED <<receipts, world, active, cards, ghosts, faults>>

(* Mutant of Claimable: a receipt that is to be retried is claimed too.     *)
ClaimableForRetry(u, j) ==
    /\ account[u] = "live"
    /\ receipts[<<u, j>>].state \in {"none", "failed", "dropped", "retryable"}

Claimable(u, j) == /\ account[u] = "live"
                   /\ receipts[<<u, j>>].state \in {"none", "failed", "dropped"}

(* Mutant of ClaimReceipt: the attempts are counted down.                   *)
ClaimReceiptCountingDown(p, j) ==
    LET x == <<proc[p].user, j>>
        claim == [state |-> "claimed",
                  attempts |-> proc[p].old[x].attempts - 1]
    IN  /\ proc[p].pc = "claim" /\ j \in proc[p].todo
        /\ Claimable(proc[p].user, j)
        /\ receipts' = [receipts EXCEPT ![x] = claim]
        /\ proc' = [proc EXCEPT ![p].todo = @ \ {j}, ![p].old[x] = claim,
                       ![p].claimed = @ \cup {j}]
        /\ UNCHANGED <<world, active, cards, ghosts, faults>>

ClaimReceipt(p, j) ==
    LET x == <<proc[p].user, j>>
        prior == proc[p].old[x].attempts
        claim == IF proc[p].later
                 THEN [state |-> "deferred", attempts |-> prior]
                 ELSE [state |-> "claimed", attempts |-> prior + 1]
    IN  /\ proc[p].pc = "claim" /\ j \in proc[p].todo
        /\ IF Claimable(proc[p].user, j)
           THEN /\ receipts' = [receipts EXCEPT ![x] = claim]
                /\ proc' = [proc EXCEPT ![p].todo = @ \ {j},
                               ![p].claimed = @ \cup {j},
                               ![p].old[x] = claim]
           ELSE /\ proc' = [proc EXCEPT ![p].todo = @ \ {j}]
                /\ UNCHANGED receipts
        /\ UNCHANGED <<world, active, cards, ghosts, faults>>

(* The drain writes the release of a card before it publishes.             *)
WriteCard(p) ==
    cards' = IF /\ p = Drain /\ proc[p].pass # "retry"
                /\ account[proc[p].user] = "live"
                /\ Cardinality(proc[p].text) >= MinimumRoles
             THEN cards \cup {proc[p].user} ELSE cards

(* What the provider takes and what its answer tells of it differ when the *)
(* answer is lost or has no ticket.                                        *)
Publish(p) ==
    LET pushed == {<<proc[p].user, j>> : j \in proc[p].claimed}
        told == {<<proc[p].user, j>> : j \in proc[p].text}
    IN  /\ \/ proc[p].pc = "publish"
           \/ proc[p].pc = "claim" /\ proc[p].todo = {} /\ ~BatchDone(p)
        /\ WriteCard(p)
        /\ \E answer \in Answer, took \in BOOLEAN :
              /\ IF answer = "ticket" THEN UNCHANGED faults ELSE Fault
              /\ answer = "ticket" => took
              /\ took => answer \in {"ticket", "noticket", "lost"}
              /\ proc' = [proc EXCEPT ![p].pc = "record", ![p].answer = answer]
              /\ taken' = [x \in Pair |->
                              IF took /\ x \in pushed /\ taken[x] < 2
                              THEN taken[x] + 1 ELSE taken[x]]
              /\ named' = IF took THEN named \cup told ELSE named
              /\ doubtful' = IF /\ took /\ proc[p].pass # "send"
                                /\ \/ answer # "ticket"
                                   \/ account[proc[p].user] # "live"
                             THEN doubtful \cup pushed ELSE doubtful
        /\ UNCHANGED <<receipts, world, active>>

(* A write for a user who is leaving throws, and ends the invocation.      *)
Outcome(pass, answer, attempts) ==
    CASE answer = "ticket" -> "accepted"
      [] answer = "lost" -> IF pass = "deferred" THEN "due" ELSE "unknown"
      [] answer = "noticket" /\ pass = "send" -> "unknown"
      [] /\ attempts < MaxAttempts
         /\ \/ answer = "throttled"
            \/ answer \in {"rejected", "noticket"} /\ pass # "send"
         -> "retryable"
      [] OTHER -> "failed"

Record(p) ==
    LET u == proc[p].user
        pushed == {<<u, j>> : j \in proc[p].claimed}
        After(r) == LET n == r.attempts + IF proc[p].pass = "send" THEN 0 ELSE 1
                    IN  [state |-> Outcome(proc[p].pass, proc[p].answer, n),
                         attempts |-> n]
    IN  /\ proc[p].pc = "record"
        /\ IF account[u] = "live"
           THEN /\ receipts' = [x \in Pair |-> IF x \in pushed
                                   THEN After(proc[p].old[x]) ELSE receipts[x]]
                /\ active' = IF proc[p].answer = "unregistered"
                             THEN active \ {u} ELSE active
                /\ proc' = [proc EXCEPT ![p].claimed = {}, ![p].text = {},
                               ![p].answer = "ticket",
                               ![p].old = Forget(@, pushed),
                               ![p].pc = IF proc[p].pass = "send" THEN "batch"
                                         ELSE "next"]
           ELSE /\ proc' = [proc EXCEPT ![p] = Idle]
                /\ UNCHANGED <<receipts, active>>
        /\ UNCHANGED <<world, cards, ghosts, faults>>

EndSend(p) ==
    /\ proc[p].pc = "next" /\ proc[p].pass = "send" /\ proc[p].users = {}
    /\ proc' = [proc EXCEPT ![p] = IF p = Drain THEN [@ EXCEPT !.pc = "mark"]
                                   ELSE Idle]
    /\ UNCHANGED <<receipts, world, active, cards, ghosts, faults>>

-----------------------------------------------------------------------------
(***************************************************************************)
(* The rest of the drain: marks, deferred, accepted, retryable receipts.   *)
(***************************************************************************)
Listed(pass) ==
    {x \in Pair : receipts[x].state =
        CASE pass = "deferred" -> "due" [] pass = "inspect" -> "accepted"
          [] OTHER -> "retryable"}

BeginPass(pass) ==
    proc' = [proc EXCEPT ![Drain] = [Idle EXCEPT !.pc = "next", !.pass = pass,
                !.devices = active, !.list = Listed(pass),
                !.old = [x \in Pair |-> IF x \in Listed(pass) THEN receipts[x]
                                        ELSE NoReceipt]]]

(* Mutants of MarkRoles: what is pending by now is marked; only what the    *)
(* provider accepted is.                                                   *)
MarkPendingRoles ==
    /\ proc[Drain].pc = "mark"
    /\ marker' = IF proc[Drain].ready
                 THEN [j \in Role |-> IF marker[j] = "pending" THEN "sent"
                                      ELSE marker[j]]
                 ELSE marker
    /\ BeginPass("deferred")
    /\ UNCHANGED <<receipts, account, active, enabled, cards, ghosts, wavering,
                   faults>>

MarkAcceptedRoles ==
    /\ proc[Drain].pc = "mark"
    /\ marker' = [j \in Role |->
                     IF /\ j \in proc[Drain].roles
                        /\ \E u \in User : receipts[<<u, j>>].state = "accepted"
                     THEN "sent" ELSE marker[j]]
    /\ BeginPass("deferred")
    /\ UNCHANGED <<receipts, account, active, enabled, cards, ghosts, wavering,
                   faults>>

(* Only a run that found a device with alerts on marks the roles.          *)
MarkRoles ==
    /\ proc[Drain].pc = "mark"
    /\ marker' = IF proc[Drain].ready
                 THEN [j \in Role |-> IF j \in proc[Drain].roles THEN "sent"
                                      ELSE marker[j]]
                 ELSE marker
    /\ BeginPass("deferred")
    /\ UNCHANGED <<receipts, account, active, enabled, cards, ghosts, wavering,
                   faults>>

EndPass ==
    LET d == proc[Drain] IN
    /\ d.pc = "next" /\ d.list = {}
    /\ \/ d.pass = "deferred" /\ BeginPass("inspect")
       \/ d.pass = "inspect" /\ BeginPass("retry")
       \/ d.pass = "retry" /\ proc' = [proc EXCEPT ![Drain] = Idle]
    /\ UNCHANGED <<receipts, world, active, cards, ghosts, faults>>

(* The drain writes one state for the receipts xs of a user.               *)
Write(u, xs, state) ==
    IF account[u] = "live"
    THEN /\ receipts' = [x \in Pair |-> IF x \in xs
                            THEN [proc[Drain].old[x] EXCEPT !.state = state]
                            ELSE receipts[x]]
         /\ proc' = [proc EXCEPT ![Drain].list = @ \ xs,
                                 ![Drain].old = Forget(@, xs)]
    ELSE proc' = [proc EXCEPT ![Drain] = Idle] /\ UNCHANGED receipts

Reachable(u) == u \in proc[Drain].devices /\ u \in enabled

(* The due roles of a user and drop go out in one push. If they are too    *)
(* few for a card, its text is that of the first role.                     *)
DeliverDeferred(u) ==
    LET d == proc[Drain]
        roles == {j \in Role : <<u, j>> \in d.list}
        card == Cardinality(roles) >= MinimumRoles \/ u \in cards
    IN  /\ d.pc = "next" /\ d.pass = "deferred" /\ roles # {}
        /\ IF Reachable(u)
           THEN /\ \E first \in roles :
                      proc' = [proc EXCEPT ![Drain].pc = "publish",
                                  ![Drain].user = u, ![Drain].claimed = roles,
                                  ![Drain].text = IF card THEN roles
                                                  ELSE {first},
                                  ![Drain].list = @ \ ({u} \X roles)]
                /\ UNCHANGED receipts
           ELSE Write(u, {u} \X roles, "failed")
        /\ UNCHANGED <<world, active, cards, ghosts, faults>>

(* A push that the provider gives up has not reached the device.           *)
InspectReceipt(u, j) ==
    LET x == <<u, j>> IN
    /\ proc[Drain].pc = "next" /\ proc[Drain].pass = "inspect"
    /\ x \in proc[Drain].list
    /\ \/ /\ proc' = [proc EXCEPT ![Drain].list = @ \ {x},
                                 ![Drain].old = Forget(@, {x})]
          /\ UNCHANGED <<receipts, active, taken, faults>>
       \/ Write(u, {x}, "delivered") /\ UNCHANGED <<active, taken, faults>>
       \/ /\ Fault /\ Write(u, {x}, "failed")
          /\ IF account[u] = "live"
             THEN /\ active' \in {active, active \ {u}}
                  /\ taken' = [taken EXCEPT ![x] = @ - 1]
             ELSE UNCHANGED <<active, taken>>
    /\ UNCHANGED <<world, cards, named, doubtful>>

(* Mutant of RetryReceipt: a receipt that cannot be retried is passed over. *)
RetryReceiptIfReachable(u, j) ==
    LET x == <<u, j>> IN
    /\ proc[Drain].pc = "next" /\ proc[Drain].pass = "retry"
    /\ x \in proc[Drain].list
    /\ proc' = IF Reachable(u)
               THEN [proc EXCEPT ![Drain].pc = "publish", ![Drain].user = u,
                        ![Drain].claimed = {j}, ![Drain].text = {j},
                        ![Drain].list = @ \ {x}]
               ELSE [proc EXCEPT ![Drain].list = @ \ {x}]
    /\ UNCHANGED <<receipts, world, active, cards, ghosts, faults>>

RetryReceipt(u, j) ==
    LET x == <<u, j>> IN
    /\ proc[Drain].pc = "next" /\ proc[Drain].pass = "retry"
    /\ x \in proc[Drain].list
    /\ IF Reachable(u) /\ proc[Drain].old[x].attempts < MaxAttempts
       THEN /\ proc' = [proc EXCEPT ![Drain].pc = "publish",
                           ![Drain].user = u, ![Drain].claimed = {j},
                           ![Drain].text = {j}, ![Drain].list = @ \ {x}]
            /\ UNCHANGED receipts
       ELSE Write(u, {x}, "dropped")
    /\ UNCHANGED <<world, active, cards, ghosts, faults>>

-----------------------------------------------------------------------------
(***************************************************************************)
(* The world.                                                              *)
(***************************************************************************)
TimeComes(x) ==
    /\ receipts[x].state = "deferred"
    /\ receipts' = [receipts EXCEPT ![x].state = "due"]
    /\ UNCHANGED <<world, active, cards, proc, ghosts, faults>>

Crash(p) ==
    /\ proc[p].pc # "idle" /\ Fault /\ proc' = [proc EXCEPT ![p] = Idle]
    /\ doubtful' = IF proc[p].pc = "record" /\ proc[p].pass # "send"
                   THEN doubtful \cup
                            {<<proc[p].user, j>> : j \in proc[p].claimed}
                   ELSE doubtful
    /\ UNCHANGED <<receipts, world, active, cards, taken, named>>

ChangeSettings(u) ==
    /\ account[u] = "live" /\ Fault /\ wavering' = wavering \cup {u}
    /\ \/ /\ enabled' = (enabled \ {u}) \cup ({u} \ enabled)
          /\ UNCHANGED active
       \/ /\ active' = (active \ {u}) \cup ({u} \ active)
          /\ UNCHANGED enabled
    /\ UNCHANGED <<receipts, marker, account, cards, proc, ghosts>>

(* The tombstone comes first; while an upload is under way or the storage  *)
(* fails the rest waits for the user to ask again.                         *)
BeginDeletion(u) ==
    /\ account[u] = "live" /\ account' = [account EXCEPT ![u] = "leaving"]
    /\ wavering' = wavering \cup {u}
    /\ UNCHANGED <<receipts, marker, active, enabled, cards, proc,
                   ghosts, faults>>

DeleteUser(u) ==
    /\ account[u] = "leaving" /\ account' = [account EXCEPT ![u] = "gone"]
    /\ receipts' = [x \in Pair |-> IF x[1] = u THEN NoReceipt ELSE receipts[x]]
    /\ active' = active \ {u} /\ enabled' = enabled \ {u}
    /\ cards' = cards \ {u}
    /\ UNCHANGED <<marker, proc, ghosts, wavering, faults>>

-----------------------------------------------------------------------------
Step(p) ==
    \/ \E u \in User : NextUser(p, u)
    \/ \E b \in SUBSET Role : NextBatch(p, b)
    \/ \E j \in Role : ClaimReceipt(p, j)
    \/ EndUser(p) \/ Publish(p) \/ Record(p) \/ EndSend(p)

SenderStep(s) == Step(s) \/ EndPoll(s) \/ \E j \in Role : CommitRole(s, j)

DrainStep ==
    \/ Step(Drain) \/ StartDrain \/ MarkRoles \/ EndPass
    \/ \E u \in User : DeliverDeferred(u)
    \/ \E u \in User, j \in Role : InspectReceipt(u, j) \/ RetryReceipt(u, j)

Environment ==
    \/ \E x \in Pair : TimeComes(x)
    \/ \E p \in Process : Crash(p)
    \/ \E u \in User : ChangeSettings(u) \/ BeginDeletion(u) \/ DeleteUser(u)

Next == DrainStep \/ Environment \/ \E s \in Sender : SenderStep(s)

Spec == Init /\ [][Next]_vars

(* The cron goes on, and time passes. *)
Fairness == WF_vars(DrainStep) /\ \A x \in Pair : WF_vars(TimeComes(x))
LiveSpec == Spec /\ Fairness

-----------------------------------------------------------------------------
(* A push for one role reaches a device at most once, however the senders  *)
(* and the drain overlap, die and read old receipts; the exceptions are    *)
(* pushes of the drain whose answer was lost or without a ticket, and      *)
(* users who are leaving.                                                  *)
RoleReachesDeviceOnce ==
    \A x \in Pair : taken[x] > 1 => x \in doubtful

(* When the drain takes a role off its list, every user with alerts on has *)
(* a receipt for it, unless he changed his settings or left.               *)
MarkedRolesHaveReceipts ==
    \A u \in (active \cap enabled) \ wavering, j \in Role :
        marker[j] = "sent" => receipts[<<u, j>>].state # "none"

(* A role the provider accepted for a user was in the text of a push.      *)
AcceptedRolesWereNamed ==
    \A x \in Pair : receipts[x].state \in {"accepted", "delivered"}
                       => x \in named

(* Deferred and retryable pushes come to rest, and roles are marked when   *)
(* someone wants them, unless a deletion is under way, whose receipts the  *)
(* drain cannot write.                                                     *)
Leaving == \E u \in User : account[u] = "leaving"
WaitingPushesRest ==
    \A x \in Pair :
        []<>(receipts[x].state \notin {"deferred", "due", "retryable"} \/ Leaving)
PendingRolesAreMarked ==
    \A j \in Role : []<>(marker[j] # "pending" \/ active \cap enabled = {}
                         \/ Leaving)
=============================================================================
