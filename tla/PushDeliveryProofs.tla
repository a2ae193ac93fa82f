-------------------------- MODULE PushDeliveryProofs --------------------------
(***************************************************************************)
(* Proofs about push alerts, for any users, roles and senders.             *)
(*                                                                         *)
(* Two invocations never work on one receipt: who claimed it, and the      *)
(* drain that listed it as due, accepted or retryable, find it as they     *)
(* left it while its user has his account, because every other write asks  *)
(* for a state that it is not in. So the states of the receipts tell what  *)
(* the provider can have taken; after the user has asked to leave no       *)
(* receipt of his is claimed any more, and what the drain still pushes to  *)
(* him counts as doubtful.                                                 *)
(***************************************************************************)
EXTENDS PushDelivery, TLAPS

(* What the control state of an invocation says of the rest of its state.  *)
Shaped(p, d) ==
    /\ d.pc \in {"batch", "claim", "publish", "record"} => d.user \in User
    /\ d.pc \in {"idle", "poll", "batch", "claim", "mark"} => d.pass = "send"
    /\ d.pc = "publish" => d.pass \in {"deferred", "retry"}
    /\ d.pc = "record" => d.pass # "inspect"
    /\ d.pass # "send" => p = Drain
    /\ d.pass = "send" => d.list = {}

Shape == \A p \in Process : Shaped(p, proc[p])

(* An invocation has claimed or taken up a receipt, or lists it.           *)
Holds(p, x) ==
    /\ \/ proc[p].pc \in {"publish", "record"}
       \/ proc[p].pc = "claim" /\ ~proc[p].later
    /\ x[1] = proc[p].user /\ x[2] \in proc[p].claimed

Works(p, x) == Holds(p, x) \/ x \in proc[p].list

Alone ==
    \A p \in Process, x \in Pair :
        /\ Holds(p, x) => x \notin proc[p].list
        /\ Works(p, x) => \A q \in Process : Works(q, x) => q = p

(* The state of the receipts that a pass works on.                         *)
Expected(pass) ==
    CASE pass = "send" -> "claimed" [] pass = "deferred" -> "due"
      [] pass = "inspect" -> "accepted" [] OTHER -> "retryable"

(* What an invocation has read of the receipts it works on still holds.    *)
Unchanged(p, x) ==
    /\ receipts[x] = proc[p].old[x]
    /\ receipts[x].state = Expected(proc[p].pass)

Fresh ==
    \A p \in Process, x \in Pair :
        Works(p, x) /\ account[x[1]] # "gone" => Unchanged(p, x)

(* Nothing was pushed for the receipt, or its answer was not recorded.     *)
Unsent(x) == taken[x] = 0 \/ x \in doubtful

Answered(p, x) ==
    /\ proc[p].pc = "claim" => Unsent(x)
    /\ proc[p].pc = "record" =>
          /\ proc[p].answer = "ticket" => taken[x] > 0
          /\ proc[p].pass = "send"
             /\ proc[p].answer \notin {"ticket", "noticket", "lost"} => Unsent(x)

AnswersTell == \A p \in Process, x \in Pair : Holds(p, x) => Answered(p, x)

(* What the state of a receipt tells of its pushes.                        *)
Accepted(x) == /\ Holds(Drain, x) /\ proc[Drain].pc = "record"
               /\ proc[Drain].answer = "ticket"

Accounted(x) ==
    /\ receipts[x].state \in {"none", "failed", "dropped", "deferred"}
         => Unsent(x)
    /\ receipts[x].state \in {"due", "retryable"} => Unsent(x) \/ Accepted(x)
    /\ receipts[x].state = "accepted" => taken[x] > 0

StatesTell ==
    \A x \in Pair :
        /\ account[x[1]] = "gone" => receipts[x] = NoReceipt
        /\ account[x[1]] = "live" => Accounted(x)

Core == Alone /\ Fresh /\ AnswersTell /\ StatesTell /\ RoleReachesDeviceOnce

(* Users with alerts on who never changed their mind.                      *)
Steady == (active \cap enabled) \ wavering
Had(x) == receipts[x].state # "none"

(* The drain has not come to the role yet.                                 *)
ToCome(u, j) ==
    LET d == proc[Drain] IN
    \/ d.pc # "mark" /\ u \in d.users
    \/ /\ d.pc \in {"batch", "claim", "record"} /\ d.user = u
       /\ (\E b \in d.batches : j \in b) \/ (d.pc = "claim" /\ j \in d.todo)

DrainCovers ==
    proc[Drain].pass = "send" =>
        \A u \in Steady, j \in Role :
            /\ proc[Drain].old[<<u, j>>].state # "none" => Had(<<u, j>>)
            /\ j \in proc[Drain].roles => Had(<<u, j>>) \/ ToCome(u, j)

Covered == /\ \A u \in User : account[u] # "live" => u \in wavering
           /\ MarkedRolesHaveReceipts
           /\ DrainCovers

IInv == TypeOK /\ Shape /\ Core /\ Covered

-----------------------------------------------------------------------------
LEMMA Idles ==
    /\ NoReceipt \in Receipt /\ NoReceipts \in [Pair -> Receipt]
    /\ Idle \in Proc /\ Idle.pc = "idle" /\ Idle.list = {} /\ Idle.pass = "send"
    /\ Idle.claimed = {} /\ Idle.old = NoReceipts /\ Idle.roles = {}
    /\ \A x \in Pair : NoReceipts[x] = NoReceipt
    /\ NoReceipt.state = "none" /\ Drain \in Process
    /\ \A p \in Process : Shaped(p, Idle)
<1>1. NoReceipt \in Receipt /\ NoReceipt.state = "none"
  BY DEF NoReceipt, Receipt, State
<1>2. /\ NoReceipts \in [Pair -> Receipt]
      /\ \A x \in Pair : NoReceipts[x] = NoReceipt
  BY <1>1 DEF NoReceipts
<1>3. /\ Idle.pc = "idle" /\ Idle.list = {} /\ Idle.pass = "send"
      /\ Idle.claimed = {} /\ Idle.old = NoReceipts /\ Idle.roles = {}
  BY DEF Idle
<1>4. Idle \in Proc
  BY <1>2 DEF Idle, Proc, Pass, Answer
<1> QED
  BY <1>1, <1>2, <1>3, <1>4 DEF Shaped, Process

(* A step of one invocation leaves the state of the others alone.          *)
Moves(p) == /\ proc'[p] \in Proc /\ Shaped(p, proc'[p])
            /\ proc' = [proc EXCEPT ![p] = proc'[p]]

LEMMA MovesAlone ==
    ASSUME TypeOK, Shape, NEW p \in Process, Moves(p)
    PROVE  /\ proc' \in [Process -> Proc] /\ Shape'
           /\ \A q \in Process \ {p} : proc'[q] = proc[q]
<1>1. /\ proc' \in [Process -> Proc]
      /\ \A q \in Process \ {p} : proc'[q] = proc[q]
  BY DEF TypeOK, Moves
<1> QED
  BY <1>1 DEF Shape, Shaped, Moves

LEMMA OthersWorkOn ==
    ASSUME TypeOK, Shape, NEW p \in Process, Moves(p)
    PROVE  \A q \in Process \ {p}, x \in Pair :
               /\ Holds(q, x)' = Holds(q, x) /\ Works(q, x)' = Works(q, x)
               /\ proc'[q] = proc[q]
  BY MovesAlone DEF Holds, Works

(* A step of one invocation that writes no receipt, after which it works   *)
(* on no other receipts and is at no new claim or answer.                  *)
LEMMA QuietKeepsCore ==
    ASSUME TypeOK, Shape, Core, NEW p \in Process, Moves(p),
           receipts' = receipts, taken' = taken, account' = account,
           doubtful \subseteq doubtful',
           ASSUME NEW x \in Pair, Works(p, x)'
           PROVE  /\ Works(p, x) /\ proc'[p].old[x] = proc[p].old[x]
                  /\ proc'[p].pass = proc[p].pass
                  /\ Holds(p, x)' => x \notin proc'[p].list,
           ASSUME NEW x \in Pair, Holds(p, x)'
           PROVE  \/ proc'[p].pc \notin {"claim", "record"}
                  \/ Holds(p, x) /\ {proc[p].pc, proc'[p].pc} = {"claim"},
           ASSUME NEW x \in Pair, Holds(p, x), proc[p].pc = "record",
                  proc[p].pass # "send", account[x[1]] = "live"
           PROVE  x \in doubtful'
    PROVE  Core'
<1>1. \A q \in Process \ {p}, x \in Pair :
          /\ Holds(q, x)' = Holds(q, x) /\ Works(q, x)' = Works(q, x)
          /\ proc'[q] = proc[q]
  BY OthersWorkOn
<1>2. \A q \in Process, x \in Pair : Works(q, x)' =>
          /\ Works(q, x) /\ proc'[q].old[x] = proc[q].old[x]
          /\ proc'[q].pass = proc[q].pass
          /\ Holds(q, x)' => x \notin proc'[q].list
  BY <1>1 DEF Core, Alone
<1>3. Alone'
  BY <1>2 DEF Core, Alone, Works
<1>4. Fresh'
  BY <1>2 DEF Core, Fresh, Unchanged
<1>5. \A x \in Pair : Unsent(x) => Unsent(x)'
  BY DEF Unsent
<1>6. AnswersTell'
  BY <1>1, <1>5 DEF Core, AnswersTell, Answered
<1>7. StatesTell'
  <2>1. ASSUME NEW x \in Pair, account[x[1]] = "live",
               receipts[x].state \in {"due", "retryable"}
        PROVE  Unsent(x)' \/ Accepted(x)'
    <3>1. CASE Unsent(x)
      BY <3>1, <1>5
    <3>2. CASE Accepted(x) /\ p = Drain
      <4>1. Expected(proc[p].pass) \in {"due", "retryable"} /\ Holds(p, x)
        BY <2>1, <3>2 DEF Accepted, Core, Fresh, Unchanged, Works
      <4>2. proc[p].pass # "send"
        BY <4>1 DEF Expected
      <4> QED
        BY <2>1, <3>2, <4>1, <4>2 DEF Accepted, Unsent
    <3>3. CASE Accepted(x) /\ p # Drain
      BY <3>3, <1>1, Idles DEF Accepted
    <3> QED
      BY <2>1, <3>1, <3>2, <3>3 DEF Core, StatesTell, Accounted
  <2> QED
    BY <2>1, <1>5 DEF Core, StatesTell, Accounted
<1>8. RoleReachesDeviceOnce'
  BY DEF Core, RoleReachesDeviceOnce
<1> QED
  BY <1>3, <1>4, <1>6, <1>7, <1>8 DEF Core

(* A user stays covered as long as no receipt of his goes.                 *)
LEMMA CoveredFollows ==
    ASSUME Covered, Steady' \subseteq Steady, wavering \subseteq wavering',
           \A u \in User : account'[u] = account[u] \/ u \in wavering',
           \A u \in Steady', j \in Role : Had(<<u, j>>) => Had(<<u, j>>)',
           \A u \in Steady', j \in Role :
              marker'[j] = "sent" => marker[j] = "sent" \/ Had(<<u, j>>)',
           DrainCovers'
    PROVE  Covered'
<1>1. MarkedRolesHaveReceipts'
  BY DEF Covered, MarkedRolesHaveReceipts, Steady, Had
<1>2. \A u \in User : account'[u] # "live" => u \in wavering'
  BY DEF Covered
<1> QED
  BY <1>1, <1>2 DEF Covered

LEMMA DrainElsewhere ==
    ASSUME DrainCovers, proc'[Drain] = proc[Drain], Steady' \subseteq Steady,
           \A u \in Steady', j \in Role : Had(<<u, j>>) => Had(<<u, j>>)'
    PROVE  DrainCovers'
<1>1. \A u, j : ToCome(u, j)' <=> ToCome(u, j)
  BY DEF ToCome
<1> QED
  BY <1>1 DEF DrainCovers

(* A step of an invocation that changes its own state and, at most, a      *)
(* marker, a card, what is doubtful and the faults.                        *)
Quietly(p) ==
    /\ Moves(p)
    /\ UNCHANGED <<receipts, account, active, enabled, wavering, taken, named>>
    /\ marker' \in [Role -> {"none", "pending", "sent"}] /\ cards' \subseteq User
    /\ \A j \in Role : marker'[j] = "sent" => marker[j] = "sent"
    /\ doubtful \subseteq doubtful' /\ doubtful' \subseteq Pair /\ faults' \in Nat

(* It works on no more receipts than before, and has no answer any more.   *)
Drops(p) ==
    /\ \A x \in Pair : Works(p, x)' =>
          /\ Works(p, x) /\ proc'[p].old[x] = proc[p].old[x]
          /\ proc'[p].pass = proc[p].pass
          /\ Holds(p, x)' => x \notin proc'[p].list
    /\ \A x \in Pair : Holds(p, x)' =>
          \/ proc'[p].pc \notin {"claim", "record"}
          \/ Holds(p, x) /\ {proc[p].pc, proc'[p].pc} = {"claim"}

LEMMA QuietKeepsRest ==
    ASSUME IInv, NEW p \in Process, Quietly(p), p = Drain => DrainCovers'
    PROVE  TypeOK' /\ Shape' /\ Covered'
<1>1. /\ proc' \in [Process -> Proc] /\ Shape'
      /\ \A q \in Process \ {p} : proc'[q] = proc[q]
  BY MovesAlone DEF IInv, Quietly
<1>2. TypeOK'
  BY <1>1 DEF IInv, TypeOK, Quietly
<1>3. Steady' = Steady /\ \A x \in Pair : Had(x)' = Had(x)
  BY DEF Quietly, Steady, Had
<1>4. /\ \A u \in Steady', j \in Role : Had(<<u, j>>) => Had(<<u, j>>)'
      /\ Steady' \subseteq Steady
  BY <1>3 DEF Had, Quietly
<1>5. DrainCovers'
  <2>1. CASE p # Drain
    BY <1>1, <1>4, <2>1, Idles, DrainElsewhere DEF IInv, Covered
  <2> QED
    BY <2>1
<1>6. Covered'
  BY <1>4, <1>5, CoveredFollows DEF IInv, Quietly
<1> QED
  BY <1>1, <1>2, <1>6

LEMMA QuietKeeps ==
    ASSUME IInv, NEW p \in Process, Quietly(p), Drops(p),
           p = Drain => DrainCovers',
           ASSUME NEW x \in Pair, Holds(p, x), proc[p].pc = "record",
                  proc[p].pass # "send", account[x[1]] = "live"
           PROVE  x \in doubtful'
    PROVE  IInv'
<1>1. TypeOK' /\ Shape' /\ Covered'
  BY QuietKeepsRest
<1>2. Core'
  BY QuietKeepsCore DEF IInv, Quietly, Drops
<1> QED
  BY <1>1, <1>2 DEF IInv

(* A step after which the invocation works on nothing.                     *)
LEMMA RestKeeps ==
    ASSUME IInv, NEW p \in Process, Quietly(p), proc'[p].list = {},
           proc'[p].pc \in {"claim", "publish", "record"}
              => proc'[p].claimed = {},
           p = Drain => DrainCovers',
           proc[p].pc # "record"
    PROVE  IInv'
<1>1. \A x \in Pair : ~Works(p, x)'
  BY DEF Works, Holds
<1>2. Drops(p)
  BY <1>1 DEF Drops, Works
<1> QED
  BY <1>2, QuietKeeps

(* An invocation that ends.                                                *)
LEMMA EndKeeps ==
    ASSUME IInv, NEW p \in Process, Quietly(p), proc'[p] = Idle,
           ASSUME NEW x \in Pair, Holds(p, x), proc[p].pc = "record",
                  proc[p].pass # "send", account[x[1]] = "live"
           PROVE  x \in doubtful'
    PROVE  IInv'
<1>1. \A x \in Pair : ~Works(p, x)'
  BY Idles DEF Works, Holds
<1>2. Drops(p)
  BY <1>1 DEF Drops, Works
<1>3. \A u \in User, j \in Role : Idle.old[<<u, j>>].state = "none"
  BY Idles DEF Pair
<1>4. Steady' \subseteq User
  BY DEF IInv, TypeOK, Quietly, Steady
<1>5. p = Drain => DrainCovers'
  BY <1>3, <1>4, Idles DEF DrainCovers
<1> QED
  BY <1>2, <1>5, QuietKeeps


-----------------------------------------------------------------------------
(* Sending new roles.                                                      *)
LEMMA CommitRoleKeeps ==
    ASSUME IInv, NEW s \in Sender, NEW j \in Role, CommitRole(s, j)
    PROVE  IInv'
<1> DEFINE st == [proc[s] EXCEPT !.pc = "poll", !.roles = @ \cup {j}]
<1>1. /\ s \in Process /\ s # Drain /\ proc[s] \in Proc /\ Shaped(s, proc[s])
      /\ proc[s].pc \in {"idle", "poll"}
  BY DrainIsNoSender DEF Process, IInv, TypeOK, Shape, CommitRole
<1>2. proc' = [proc EXCEPT ![s] = st]
  BY <1>1 DEF CommitRole, IInv, TypeOK
<1>3. /\ st \in Proc /\ st.pc = "poll" /\ st.list = proc[s].list
      /\ st.pass = proc[s].pass
  BY <1>1 DEF Proc
<1> HIDE DEF st
<1>4. /\ Shaped(s, st) /\ st.list = {} /\ proc'[s] = st
  BY <1>1, <1>2, <1>3 DEF Shaped, IInv, TypeOK
<1>5. Quietly(s)
  BY <1>2, <1>3, <1>4 DEF CommitRole, Quietly, Moves, ghosts, IInv, TypeOK
<1> QED
  BY <1>1, <1>3, <1>4, <1>5, RestKeeps

LEMMA SendRolesState ==
    ASSUME IInv, NEW p \in Process, NEW roles \in SUBSET Role,
           NEW ready \in BOOLEAN, SendRoles(p, roles, ready)
    PROVE  /\ Moves(p) /\ proc'[p].list = {} /\ proc'[p].pc = "next"
           /\ proc'[p].users = active /\ proc'[p].old = NoReceipts
<1> DEFINE st == [Idle EXCEPT !.pc = "next", !.roles = roles,
                     !.ready = ready, !.users = active, !.devices = active]
<1>1. /\ proc' = [proc EXCEPT ![p] = st] /\ active \subseteq User
      /\ proc \in [Process -> Proc]
  BY DEF SendRoles, IInv, TypeOK
<1>2. /\ st.pc = "next" /\ st.list = {} /\ st.pass = "send"
      /\ st.users = active /\ st.old = NoReceipts
  BY DEF Idle
<1>3. st \in Proc
  BY <1>1, Idles DEF Proc
<1> HIDE DEF st
<1> QED
  BY <1>1, <1>2, <1>3 DEF Moves, Shaped

LEMMA EndPollKeeps ==
    ASSUME IInv, NEW s \in Sender, EndPoll(s)
    PROVE  IInv'
<1>1. /\ s \in Process /\ s # Drain /\ proc[s] \in Proc
      /\ proc[s].roles \in SUBSET Role /\ proc[s].pc = "poll"
  BY DrainIsNoSender DEF Process, IInv, TypeOK, EndPoll, Proc
<1>2. Moves(s) => Quietly(s)
  BY DEF EndPoll, Quietly, world, ghosts, IInv, TypeOK
<1>3. CASE SendRoles(s, proc[s].roles, FALSE)
  BY <1>1, <1>2, <1>3, SendRolesState, RestKeeps
<1>4. CASE proc' = [proc EXCEPT ![s] = Idle]
  <2>1. proc'[s] = Idle /\ Moves(s)
    BY <1>1, <1>4, Idles DEF Moves, IInv, TypeOK
  <2> QED
    BY <1>1, <1>2, <2>1, EndKeeps
<1> QED
  BY <1>3, <1>4 DEF EndPoll

LEMMA StartDrainKeeps ==
    ASSUME IInv, StartDrain
    PROVE  IInv'
<1> DEFINE roles == {j \in Role : marker[j] = "pending"}
           ready == active \cap enabled # {}
<1>1. SendRoles(Drain, roles, ready) /\ proc[Drain].pc = "idle"
  BY DEF StartDrain
<1>2. roles \in SUBSET Role /\ ready \in BOOLEAN
  OBVIOUS
<1> HIDE DEF roles, ready
<1>3. /\ Moves(Drain) /\ proc'[Drain].list = {} /\ proc'[Drain].pc = "next"
      /\ proc'[Drain].users = active /\ proc'[Drain].old = NoReceipts
  BY <1>1, <1>2, Idles, SendRolesState
<1>4. Quietly(Drain)
  BY <1>3 DEF StartDrain, Quietly, world, ghosts, IInv, TypeOK
<1>5. DrainCovers'
  <2>1. Steady' \subseteq User /\ Steady' \subseteq proc'[Drain].users
    BY <1>3, <1>4 DEF Steady, Quietly, IInv, TypeOK
  <2>2. \A u \in User, j \in Role : NoReceipts[<<u, j>>].state = "none"
    BY Idles DEF Pair
  <2> QED
    BY <1>3, <2>1, <2>2 DEF DrainCovers, ToCome
<1> QED
  BY <1>1, <1>3, <1>4, <1>5, Idles, RestKeeps

(* The batches hold the roles of a send, and no others.                    *)
LEMMA BatchesCover ==
    ASSUME TypeOK, NEW p \in Process, NEW u \in User
    PROVE  /\ Batches(p, u) \subseteq SUBSET Role
           /\ \A j \in proc[p].roles : \E b \in Batches(p, u) : j \in b
<1> DEFINE all == proc[p].roles
<1>1. all \subseteq Role
  BY DEF TypeOK, Proc
<1> HIDE DEF all
<1>2. CASE Batches(p, u) = {all} \ {{}}
  <2>1. \A j \in all : all \in Batches(p, u)
    BY <1>2
  <2> QED
    BY <1>1, <1>2, <2>1 DEF all
<1>3. CASE Batches(p, u) = {{j} : j \in all}
  <2>1. \A j \in all : {j} \in Batches(p, u) /\ j \in {j}
    BY <1>3
  <2> QED
    BY <1>1, <1>3, <2>1 DEF all
<1> QED
  BY <1>2, <1>3 DEF Batches, all

LEMMA NextUserKeeps ==
    ASSUME IInv, NEW p \in Process, NEW u \in User, NextUser(p, u)
    PROVE  IInv'
<1> DEFINE d == proc[p]
           seen == [x \in Pair |-> IF x[1] = u THEN receipts[x] ELSE NoReceipt]
           on == [d EXCEPT !.pc = "batch", !.users = @ \ {u}, !.user = u,
                     !.batches = Batches(p, u), !.old = seen]
           off == [d EXCEPT !.users = @ \ {u}]
<1>1. /\ d \in Proc /\ Shaped(p, d) /\ d.pc = "next" /\ d.pass = "send"
      /\ receipts \in [Pair -> Receipt] /\ proc \in [Process -> Proc]
  BY DEF IInv, TypeOK, Shape, NextUser
<1>2. Moves(p) => Quietly(p)
  BY DEF NextUser, Quietly, world, ghosts, IInv, TypeOK
<1>3. CASE u \in enabled
  <2>1. /\ Batches(p, u) \subseteq SUBSET Role
        /\ \A j \in d.roles : \E b \in Batches(p, u) : j \in b
    BY BatchesCover DEF IInv
  <2>2. seen \in [Pair -> Receipt]
    BY <1>1, Idles
  <2>3. proc' = [proc EXCEPT ![p] = on]
    BY <1>1, <1>3 DEF NextUser
  <2>4. \A j \in Role : /\ <<u, j>> \in Pair /\ seen[<<u, j>>] = receipts[<<u, j>>]
                        /\ \A v \in User \ {u} : seen[<<v, j>>].state = "none"
    BY Idles DEF Pair
  <2> HIDE DEF seen
  <2>5. /\ on \in Proc /\ on.pc = "batch" /\ on.users = d.users \ {u}
        /\ on.user = u /\ on.batches = Batches(p, u) /\ on.old = seen
        /\ on.list = d.list /\ on.pass = d.pass /\ on.roles = d.roles
    BY <1>1, <2>1, <2>2 DEF Proc
  <2> HIDE DEF on
  <2>6. /\ proc'[p] = on /\ Moves(p) /\ on.list = {}
    BY <1>1, <2>3, <2>5 DEF Moves, Shaped
  <2>7. p = Drain => DrainCovers'
    <3> SUFFICES ASSUME p = Drain, NEW v \in Steady, NEW j \in Role
                 PROVE  /\ on.old[<<v, j>>].state # "none" => Had(<<v, j>>)
                        /\ j \in on.roles => Had(<<v, j>>) \/ ToCome(v, j)'
      BY <1>2, <2>6 DEF DrainCovers, Steady, Had, Quietly
    <3>1. v \in User /\ (j \in d.roles => Had(<<v, j>>) \/ ToCome(v, j))
      BY <1>1 DEF IInv, Covered, DrainCovers, TypeOK, Steady
    <3>2. on.old[<<v, j>>].state # "none" => Had(<<v, j>>)
      BY <2>4, <2>5, <3>1 DEF Had
    <3>3. ToCome(v, j) /\ j \in d.roles => ToCome(v, j)'
      BY <1>1, <2>1, <2>5, <2>6 DEF ToCome
    <3> QED
      BY <2>5, <3>1, <3>2, <3>3
  <2> QED
    BY <1>1, <1>2, <2>5, <2>6, <2>7, RestKeeps
<1>4. CASE u \notin enabled
  <2>1. proc' = [proc EXCEPT ![p] = off]
    BY <1>1, <1>4 DEF NextUser
  <2>2. /\ off \in Proc /\ off.pc = "next" /\ off.users = d.users \ {u}
        /\ off.list = d.list /\ off.pass = d.pass /\ off.roles = d.roles
        /\ off.old = d.old
    BY <1>1 DEF Proc
  <2> HIDE DEF off
  <2>3. proc'[p] = off /\ Moves(p) /\ off.list = {}
    BY <1>1, <2>1, <2>2 DEF Moves, Shaped
  <2>4. p = Drain => DrainCovers'
    <3> SUFFICES ASSUME p = Drain, NEW v \in Steady, NEW j \in Role
                 PROVE  /\ off.old[<<v, j>>].state # "none" => Had(<<v, j>>)
                        /\ j \in off.roles => Had(<<v, j>>) \/ ToCome(v, j)'
      BY <1>2, <2>3 DEF DrainCovers, Steady, Had, Quietly
    <3>1. /\ v \in enabled
          /\ d.old[<<v, j>>].state # "none" => Had(<<v, j>>)
          /\ j \in d.roles => Had(<<v, j>>) \/ ToCome(v, j)
      BY <1>1 DEF IInv, Covered, DrainCovers, Steady
    <3>2. ToCome(v, j) => ToCome(v, j)'
      BY <1>1, <1>4, <2>2, <2>3, <3>1 DEF ToCome
    <3> QED
      BY <2>2, <3>1, <3>2
  <2> QED
    BY <1>1, <1>2, <2>2, <2>3, <2>4, RestKeeps
<1> QED
  BY <1>3, <1>4


(* What the drain covers follows from step to step.                        *)
LEMMA DrainGoesOn ==
    ASSUME IInv, Quietly(Drain),
           proc'[Drain].pass = "send" => proc[Drain].pass = "send",
           ASSUME NEW u \in Steady, NEW j \in Role, u \in User,
                  proc[Drain].pass = "send",
                  proc[Drain].old[<<u, j>>].state # "none" => Had(<<u, j>>)
           PROVE  /\ proc'[Drain].old[<<u, j>>].state # "none" => Had(<<u, j>>)
                  /\ j \in proc'[Drain].roles => j \in proc[Drain].roles
                  /\ ToCome(u, j) => Had(<<u, j>>) \/ ToCome(u, j)'
    PROVE  DrainCovers'
<1>1. Steady' = Steady /\ \A x \in Pair : Had(x)' = Had(x)
  BY DEF Quietly, Steady, Had
<1>2. \A u \in Steady, j \in Role : u \in User /\ <<u, j>> \in Pair
  BY DEF IInv, TypeOK, Steady, Pair
<1> QED
  BY <1>1, <1>2 DEF IInv, Covered, DrainCovers

LEMMA NextBatchKeeps ==
    ASSUME IInv, NEW p \in Process, NEW b \in SUBSET Role, NextBatch(p, b)
    PROVE  IInv'
<1> DEFINE d == proc[p]
           fresh == {j \in b : ~Delivered(d.old[<<d.user, j>>])}
<1>1. /\ d \in Proc /\ Shaped(p, d) /\ d.pc \in {"batch", "claim"}
      /\ proc \in [Process -> Proc] /\ fresh \subseteq Role
      /\ d.pc = "claim" => d.todo = {}
  BY DEF IInv, TypeOK, Shape, NextBatch, BatchDone
<1>2. Moves(p) => Quietly(p)
  BY DEF NextBatch, Quietly, world, ghosts, IInv, TypeOK
<1>3. d.user \in User /\ d.pass = "send" /\ d.list = {}
  BY <1>1 DEF Shaped
<1>4. \A j \in b \ fresh : d.old[<<d.user, j>>].state # "none"
  BY DEF Delivered
<1>5. PICK later \in BOOLEAN :
          proc' = IF fresh = {}
                  THEN [proc EXCEPT ![p].pc = "batch", ![p].batches = @ \ {b},
                           ![p].claimed = {}]
                  ELSE [proc EXCEPT ![p].pc = "claim", ![p].batches = @ \ {b},
                           ![p].text = b, ![p].todo = fresh, ![p].claimed = {},
                           ![p].later = later]
  BY DEF NextBatch
<1> HIDE DEF fresh
<1>6. /\ Moves(p) /\ proc'[p].pc \in {"batch", "claim"} /\ proc'[p].list = {}
      /\ proc'[p].claimed = {} /\ proc'[p].old = d.old
      /\ proc'[p].roles = d.roles /\ proc'[p].users = d.users
      /\ proc'[p].batches = d.batches \ {b} /\ proc'[p].user = d.user
      /\ \A j \in fresh : proc'[p].pc = "claim" /\ j \in proc'[p].todo
  <2>1. CASE fresh = {}
    <3> DEFINE st == [d EXCEPT !.pc = "batch", !.batches = @ \ {b},
                         !.claimed = {}]
    <3>1. proc' = [proc EXCEPT ![p] = st]
      BY <1>1, <1>5, <2>1
    <3>2. /\ st \in Proc /\ st.pc = "batch" /\ st.list = d.list
          /\ st.claimed = {} /\ st.old = d.old /\ st.roles = d.roles
          /\ st.users = d.users /\ st.batches = d.batches \ {b}
          /\ st.user = d.user /\ st.pass = d.pass
      BY <1>1 DEF Proc
    <3> HIDE DEF st
    <3>3. Shaped(p, st) /\ proc'[p] = st
      BY <1>1, <1>3, <3>1, <3>2 DEF Shaped
    <3> QED
      BY <1>3, <2>1, <3>1, <3>2, <3>3 DEF Moves
  <2>2. CASE fresh # {}
    <3> DEFINE st == [d EXCEPT !.pc = "claim", !.batches = @ \ {b}, !.text = b,
                         !.todo = fresh, !.claimed = {}, !.later = later]
    <3>1. proc' = [proc EXCEPT ![p] = st]
      BY <1>1, <1>5, <2>2
    <3>2. /\ st \in Proc /\ st.pc = "claim" /\ st.list = d.list
          /\ st.claimed = {} /\ st.old = d.old /\ st.roles = d.roles
          /\ st.users = d.users /\ st.batches = d.batches \ {b}
          /\ st.user = d.user /\ st.pass = d.pass /\ st.todo = fresh
      BY <1>1 DEF Proc
    <3> HIDE DEF st
    <3>3. Shaped(p, st) /\ proc'[p] = st
      BY <1>1, <1>3, <3>1, <3>2 DEF Shaped
    <3> QED
      BY <1>3, <3>1, <3>2, <3>3 DEF Moves
  <2> QED
    BY <2>1, <2>2
<1>7. p = Drain => DrainCovers'
  <2> SUFFICES ASSUME p = Drain, NEW u \in Steady, NEW j \in Role,
                      d.old[<<u, j>>].state # "none" => Had(<<u, j>>),
                      ToCome(u, j)
               PROVE  Had(<<u, j>>) \/ ToCome(u, j)'
    BY <1>2, <1>3, <1>6, DrainGoesOn
  <2>1. CASE u \in d.users
    BY <1>6, <2>1 DEF ToCome
  <2>2. CASE d.user = u /\ \E c \in d.batches \ {b} : j \in c
    BY <1>6, <2>2 DEF ToCome
  <2>3. CASE d.user = u /\ j \in b
    BY <1>4, <1>6, <2>3 DEF ToCome
  <2> QED
    BY <1>1, <2>1, <2>2, <2>3 DEF ToCome
<1> QED
  BY <1>1, <1>2, <1>6, <1>7, RestKeeps

LEMMA EndUserKeeps ==
    ASSUME IInv, NEW p \in Process, EndUser(p)
    PROVE  IInv'
<1> DEFINE d == proc[p]
           st == [d EXCEPT !.pc = "next", !.user = None, !.old = NoReceipts,
                     !.text = {}, !.claimed = {}, !.later = FALSE]
<1>1. /\ d \in Proc /\ Shaped(p, d) /\ d.pc \in {"batch", "claim"}
      /\ proc \in [Process -> Proc] /\ d.batches = {}
      /\ d.pc = "claim" => d.todo = {}
  BY DEF IInv, TypeOK, Shape, EndUser, BatchDone
<1>2. Moves(p) => Quietly(p)
  BY DEF EndUser, Quietly, world, ghosts, IInv, TypeOK
<1>3. d.pass = "send" /\ d.list = {}
  BY <1>1 DEF Shaped
<1>4. proc' = [proc EXCEPT ![p] = st]
  BY <1>1 DEF EndUser
<1>5. /\ st \in Proc /\ st.pc = "next" /\ st.list = d.list
      /\ st.claimed = {} /\ st.old = NoReceipts /\ st.roles = d.roles
      /\ st.users = d.users /\ st.pass = d.pass
  BY <1>1, Idles DEF Proc
<1> HIDE DEF st
<1>6. Moves(p) /\ proc'[p] = st
  BY <1>1, <1>3, <1>4, <1>5 DEF Moves, Shaped
<1>7. p = Drain => DrainCovers'
  <2> SUFFICES ASSUME p = Drain, NEW u \in Steady, NEW j \in Role, u \in User
               PROVE  /\ NoReceipts[<<u, j>>].state = "none"
                      /\ ToCome(u, j) => ToCome(u, j)'
    BY <1>2, <1>3, <1>5, <1>6, DrainGoesOn
  <2>1. NoReceipts[<<u, j>>].state = "none"
    BY Idles DEF Pair
  <2>2. ToCome(u, j) => ToCome(u, j)'
    BY <1>1, <1>5, <1>6 DEF ToCome
  <2> QED
    BY <2>1, <2>2
<1> QED
  BY <1>1, <1>2, <1>3, <1>5, <1>6, <1>7, RestKeeps

LEMMA EndSendKeeps ==
    ASSUME IInv, NEW p \in Process, EndSend(p)
    PROVE  IInv'
<1> DEFINE d == proc[p]
           st == [d EXCEPT !.pc = "mark"]
<1>1. /\ d \in Proc /\ Shaped(p, d) /\ d.pc = "next" /\ d.pass = "send"
      /\ d.users = {} /\ proc \in [Process -> Proc] /\ d.list = {}
  BY DEF IInv, TypeOK, Shape, EndSend, Shaped
<1>2. Moves(p) => Quietly(p)
  BY DEF EndSend, Quietly, world, ghosts, IInv, TypeOK
<1>3. CASE p = Drain
  <2>1. proc' = [proc EXCEPT ![p] = st]
    BY <1>1, <1>3 DEF EndSend
  <2>2. /\ st \in Proc /\ st.pc = "mark" /\ st.list = d.list /\ st.old = d.old
        /\ st.roles = d.roles /\ st.users = d.users /\ st.pass = d.pass
    BY <1>1 DEF Proc
  <2> HIDE DEF st
  <2>3. Moves(p) /\ proc'[p] = st
    BY <1>1, <2>1, <2>2 DEF Moves, Shaped
  <2>4. \A u, j : ~ToCome(u, j)
    BY <1>1, <1>3 DEF ToCome
  <2>5. DrainCovers'
    BY <1>2, <1>3, <2>2, <2>3, <2>4, DrainGoesOn
  <2> QED
    BY <1>1, <1>2, <2>2, <2>3, <2>5, RestKeeps
<1>4. CASE p # Drain
  <2>1. proc'[p] = Idle /\ Moves(p)
    BY <1>1, <1>4, Idles DEF Moves, EndSend
  <2> QED
    BY <1>1, <1>2, <2>1, EndKeeps
<1> QED
  BY <1>3, <1>4

LEMMA CrashKeeps ==
    ASSUME IInv, NEW p \in Process, Crash(p)
    PROVE  IInv'
<1> DEFINE pushed == {<<proc[p].user, j>> : j \in proc[p].claimed}
<1>1. proc \in [Process -> Proc] /\ proc[p] \in Proc /\ Shaped(p, proc[p])
  BY DEF IInv, TypeOK, Shape
<1>2. proc'[p] = Idle /\ Moves(p)
  BY <1>1, Idles DEF Moves, Crash
<1>3. proc[p].pc = "record" => pushed \subseteq Pair
  BY <1>1 DEF Shaped, Proc, Pair
<1>4. Quietly(p)
  BY <1>2, <1>3 DEF Crash, Fault, Quietly, world, IInv, TypeOK
<1>5. ASSUME NEW x \in Pair, Holds(p, x), proc[p].pc = "record",
             proc[p].pass # "send"
      PROVE  x \in doubtful'
  <2>1. x = <<proc[p].user, x[2]>> /\ x[2] \in proc[p].claimed
    BY <1>5 DEF Holds, Pair
  <2> QED
    BY <1>5, <2>1 DEF Crash
<1> QED
  BY <1>2, <1>4, <1>5, EndKeeps


(* Nobody works on a receipt that can be claimed.                          *)
LEMMA ClaimableIsFree ==
    ASSUME IInv, NEW u \in User, NEW j \in Role, Claimable(u, j)
    PROVE  /\ \A q \in Process : ~Works(q, <<u, j>>)
           /\ Unsent(<<u, j>>)
<1> DEFINE x == <<u, j>>
<1>1. /\ x \in Pair /\ account[x[1]] = "live"
      /\ receipts[x].state \in {"none", "failed", "dropped"}
  BY DEF Claimable, Pair
<1> HIDE DEF x
<1>2. \A pass : Expected(pass) \notin {"none", "failed", "dropped"}
  BY DEF Expected
<1>3. \A q \in Process : ~Works(q, x)
  BY <1>1, <1>2 DEF IInv, Core, Fresh, Unchanged
<1>4. Unsent(x)
  BY <1>1 DEF IInv, Core, StatesTell, Accounted
<1> QED
  BY <1>3, <1>4 DEF x

(* A claim: what it waits for cannot change under another one.             *)
LEMMA ClaimKeeps ==
    ASSUME IInv, NEW p \in Process, NEW j \in Role, NEW u \in User,
           NEW x \in Pair, u = proc[p].user, x = <<u, j>>,
           ClaimReceipt(p, j), Claimable(u, j)
    PROVE  IInv'
<1> DEFINE d == proc[p]
           claim == IF d.later
                    THEN [state |-> "deferred", attempts |-> d.old[x].attempts]
                    ELSE [state |-> "claimed", attempts |-> d.old[x].attempts + 1]
<1>1. /\ d \in Proc /\ Shaped(p, d) /\ d.pc = "claim" /\ j \in d.todo
      /\ proc \in [Process -> Proc] /\ receipts \in [Pair -> Receipt]
  BY DEF IInv, TypeOK, Shape, ClaimReceipt
<1>2. d.pass = "send" /\ d.list = {} /\ account[x[1]] = "live"
  BY <1>1 DEF Shaped, Claimable
<1> DEFINE st == [d EXCEPT !.todo = @ \ {j}, !.claimed = @ \cup {j},
                     !.old[x] = claim]
<1>3. /\ proc' = [proc EXCEPT ![p] = st]
      /\ receipts' = [receipts EXCEPT ![x] = claim]
      /\ UNCHANGED <<marker, account, enabled, wavering, active, cards,
                     taken, named, doubtful, faults>>
  BY <1>1 DEF ClaimReceipt, world, ghosts
<1>4. /\ d.old \in [Pair -> Receipt] /\ d.old[x].attempts \in Nat
      /\ d.claimed \subseteq Role /\ d.later \in BOOLEAN
  BY <1>1, <1>2 DEF Proc, Receipt
<1>5. /\ claim \in Receipt
      /\ claim.state = IF d.later THEN "deferred" ELSE "claimed"
  BY <1>4 DEF Receipt, State
<1> HIDE DEF claim
<1>6. /\ st \in Proc /\ st.pc = "claim" /\ st.list = d.list
      /\ st.old = [d.old EXCEPT ![x] = claim]
      /\ st.claimed = d.claimed \cup {j} /\ st.later = d.later
      /\ st.user = d.user
      /\ st.roles = d.roles /\ st.users = d.users /\ st.pass = d.pass
      /\ st.batches = d.batches /\ st.todo = d.todo \ {j}
  BY <1>1, <1>4, <1>5 DEF Proc
<1> HIDE DEF st
<1>7. Moves(p) /\ proc'[p] = st
  BY <1>1, <1>2, <1>3, <1>6 DEF Moves, Shaped
<1>8. /\ receipts' \in [Pair -> Receipt] /\ receipts'[x] = claim
      /\ \A y \in Pair \ {x} : receipts'[y] = receipts[y]
      /\ st.old[x] = claim /\ \A y \in Pair \ {x} : st.old[y] = d.old[y]
  BY <1>1, <1>2, <1>3, <1>4, <1>5, <1>6
<1>9. /\ proc' \in [Process -> Proc] /\ Shape'
      /\ \A q \in Process \ {p}, y \in Pair :
            /\ Holds(q, y)' = Holds(q, y) /\ Works(q, y)' = Works(q, y)
            /\ proc'[q] = proc[q]
  BY <1>7, MovesAlone, OthersWorkOn DEF IInv
<1>10. TypeOK'
  BY <1>3, <1>8, <1>9 DEF IInv, TypeOK
<1>11. (\A q \in Process : ~Works(q, x)) /\ Unsent(x)
  BY <1>2, ClaimableIsFree DEF IInv
<1>12. /\ \A y \in Pair \ {x} : Works(p, y)' <=> Works(p, y)
       /\ \A y \in Pair \ {x} : Holds(p, y)' <=> Holds(p, y)
       /\ Works(p, x)' => ~d.later
  BY <1>1, <1>2, <1>4, <1>6, <1>7 DEF Works, Holds, Pair
<1>13. Alone'
  <2>1. \A q \in Process, y \in Pair : Works(q, y)' => Works(q, y) \/ (q = p /\ y = x)
    BY <1>9, <1>12
  <2>2. \A q \in Process, y \in Pair : Holds(q, y)' => y \notin proc'[q].list
    BY <1>2, <1>6, <1>7, <1>9 DEF IInv, Core, Alone
  <2> QED
    BY <1>11, <2>1, <2>2 DEF IInv, Core, Alone
<1>14. Fresh'
  <2>1. ASSUME NEW q \in Process, NEW y \in Pair \ {x}, Works(q, y)',
               account[y[1]] # "gone"
        PROVE  Unchanged(q, y)'
    <3>1. Works(q, y) /\ proc'[q].old[y] = proc[q].old[y]
          /\ proc'[q].pass = proc[q].pass
      <4>1. CASE q = p
        BY <1>6, <1>7, <1>8, <1>12, <2>1, <4>1
      <4>2. CASE q # p
        BY <1>9, <2>1, <4>2
      <4> QED
        BY <4>1, <4>2
    <3> QED
      BY <1>8, <2>1, <3>1 DEF IInv, Core, Fresh, Unchanged
  <2>2. \A q \in Process : Works(q, x)' => q = p /\ ~d.later
    BY <1>2, <1>9, <1>11, <1>12
  <2>3. ~d.later => Unchanged(p, x)'
    BY <1>2, <1>5, <1>6, <1>7, <1>8 DEF Unchanged, Expected
  <2> QED
    BY <1>3, <2>1, <2>2, <2>3 DEF Fresh
<1>15. \A y \in Pair : Unsent(y)' <=> Unsent(y)
  BY <1>3 DEF Unsent
<1>16. AnswersTell'
  <2> SUFFICES ASSUME NEW q \in Process, NEW y \in Pair, Holds(q, y)'
               PROVE  Answered(q, y)'
    BY DEF AnswersTell
  <2>1. CASE q = p /\ y = x
    BY <1>6, <1>7, <1>11, <1>15, <2>1 DEF Answered
  <2>2. CASE q = p /\ y # x
    BY <1>1, <1>6, <1>7, <1>12, <1>15, <2>2
    DEF Answered, IInv, Core, AnswersTell
  <2>3. CASE q # p
    BY <1>3, <1>9, <1>15, <2>3 DEF Answered, IInv, Core, AnswersTell
  <2> QED
    BY <2>1, <2>2, <2>3
<1>17. StatesTell'
  <2>1. \A y \in Pair : Accepted(y) => Accepted(y)'
    BY <1>1, <1>9, Idles DEF Accepted
  <2>2. ASSUME NEW y \in Pair \ {x}, account[y[1]] = "live"
        PROVE  Accounted(y)'
    <3>1. Accounted(y)
      BY <2>2 DEF IInv, Core, StatesTell
    <3> QED
      BY <1>3, <1>8, <1>15, <2>1, <3>1 DEF Accounted
  <2>3. Accounted(x)' /\ account[x[1]] = "live"
    BY <1>2, <1>5, <1>8, <1>11, <1>15 DEF Accounted, Claimable
  <2> QED
    BY <1>3, <1>8, <2>2, <2>3 DEF IInv, Core, StatesTell
<1>18. RoleReachesDeviceOnce'
  BY <1>3 DEF IInv, Core, RoleReachesDeviceOnce
<1>19. \A y \in Pair : Had(y) => Had(y)'
  BY <1>5, <1>8 DEF Had
<1>20. /\ Steady' = Steady /\ \A w \in Steady', i \in Role :
                                 Had(<<w, i>>) => Had(<<w, i>>)'
  BY <1>3, <1>19 DEF Steady, IInv, TypeOK, Pair
<1>21. DrainCovers'
  <2>1. CASE p # Drain
    BY <1>9, <1>20, <1>2, <2>1, Idles, DrainElsewhere DEF IInv, Covered
  <2>2. CASE p = Drain
    <3> SUFFICES ASSUME NEW v \in Steady, NEW i \in Role
                 PROVE  /\ st.old[<<v, i>>].state # "none" => Had(<<v, i>>)'
                        /\ i \in st.roles => Had(<<v, i>>)' \/ ToCome(v, i)'
      BY <1>7, <1>20, <2>2 DEF DrainCovers
    <3>1. /\ v \in User /\ <<v, i>> \in Pair
          /\ d.old[<<v, i>>].state # "none" => Had(<<v, i>>)
          /\ i \in d.roles => Had(<<v, i>>) \/ ToCome(v, i)
      BY <1>2, <2>2 DEF IInv, Covered, DrainCovers, TypeOK, Steady, Pair
    <3>2. CASE <<v, i>> = x
      BY <1>5, <1>8, <3>2 DEF Had
    <3>3. CASE <<v, i>> # x
      <4>1. ToCome(v, i) => ToCome(v, i)'
        BY <1>1, <1>6, <1>7, <2>2, <3>3 DEF ToCome
      <4> QED
        BY <1>6, <1>8, <1>19, <3>1, <3>3, <4>1
    <3> QED
      BY <3>2, <3>3
  <2> QED
    BY <2>1, <2>2
<1>22. Covered'
  BY <1>3, <1>20, <1>21, CoveredFollows DEF IInv
<1> QED
  BY <1>9, <1>10, <1>13, <1>14, <1>16, <1>17, <1>18, <1>22 DEF IInv, Core

LEMMA ClaimReceiptKeeps ==
    ASSUME IInv, NEW p \in Process, NEW j \in Role, ClaimReceipt(p, j)
    PROVE  IInv'
<1> DEFINE d == proc[p]
<1>1. /\ d \in Proc /\ Shaped(p, d) /\ d.pc = "claim" /\ j \in d.todo
      /\ proc \in [Process -> Proc] /\ receipts \in [Pair -> Receipt]
  BY DEF IInv, TypeOK, Shape, ClaimReceipt
<1>2. d.user \in User /\ d.pass = "send" /\ d.list = {} /\ <<d.user, j>> \in Pair
  BY <1>1 DEF Shaped, Pair
<1>3. CASE ~Claimable(d.user, j)
  <2> DEFINE st == [d EXCEPT !.todo = @ \ {j}]
  <2>1. proc' = [proc EXCEPT ![p] = st] /\ receipts' = receipts
    BY <1>1, <1>3 DEF ClaimReceipt
  <2>2. /\ st \in Proc /\ st.pc = "claim" /\ st.list = d.list /\ st.old = d.old
        /\ st.claimed = d.claimed /\ st.later = d.later /\ st.user = d.user
        /\ st.roles = d.roles /\ st.users = d.users /\ st.pass = d.pass
        /\ st.batches = d.batches /\ st.todo = d.todo \ {j}
    BY <1>1 DEF Proc
  <2> HIDE DEF st
  <2>3. Moves(p) /\ proc'[p] = st
    BY <1>1, <1>2, <2>1, <2>2 DEF Moves, Shaped
  <2>4. Quietly(p)
    BY <2>1, <2>3 DEF ClaimReceipt, Quietly, world, ghosts, IInv, TypeOK
  <2>5. Drops(p)
    BY <1>1, <1>2, <2>2, <2>3 DEF Drops, Works, Holds
  <2>6. p = Drain => DrainCovers'
    <3> SUFFICES ASSUME p = Drain, NEW u \in Steady, NEW i \in Role, u \in User,
                        ToCome(u, i)
                 PROVE  Had(<<u, i>>) \/ ToCome(u, i)'
      BY <1>2, <2>2, <2>3, <2>4, DrainGoesOn
    <3>1. CASE u = d.user /\ i = j
      BY <1>3, <3>1 DEF Claimable, Had, IInv, Covered, Steady
    <3>2. CASE u # d.user \/ i # j
      BY <1>1, <2>2, <2>3, <3>2 DEF ToCome
    <3> QED
      BY <3>1, <3>2
  <2> QED
    BY <1>1, <2>4, <2>5, <2>6, QuietKeeps
<1>4. CASE Claimable(d.user, j)
  BY <1>2, <1>4, ClaimKeeps
<1> QED
  BY <1>3, <1>4


LEMMA PublishKeeps ==
    ASSUME IInv, NEW p \in Process, NEW pushed,
           pushed = {<<proc[p].user, j>> : j \in proc[p].claimed}, Publish(p)
    PROVE  IInv'
<1> DEFINE d == proc[p]
<1>1. /\ d \in Proc /\ Shaped(p, d) /\ proc \in [Process -> Proc]
      /\ \/ d.pc = "publish"
         \/ d.pc = "claim" /\ d.todo = {} /\ ~d.later
  BY DEF IInv, TypeOK, Shape, Publish, BatchDone
<1>2. /\ d.user \in User /\ d.pass \in {"send", "deferred", "retry"}
      /\ d.claimed \subseteq Role /\ d.text \subseteq Role
      /\ d.pass = "send" <=> d.pc = "claim"
      /\ d.pass # "send" => p = Drain
  BY <1>1 DEF Shaped, Proc
<1>3. PICK answer \in Answer, took \in BOOLEAN :
          /\ IF answer = "ticket" THEN UNCHANGED faults ELSE Fault
          /\ answer = "ticket" => took
          /\ took => answer \in {"ticket", "noticket", "lost"}
          /\ proc' = [proc EXCEPT ![p].pc = "record", ![p].answer = answer]
          /\ taken' = [x \in Pair |-> IF took /\ x \in pushed /\ taken[x] < 2
                                      THEN taken[x] + 1 ELSE taken[x]]
          /\ named' = IF took
                      THEN named \cup {<<d.user, j>> : j \in d.text}
                      ELSE named
          /\ doubtful' = IF /\ took /\ d.pass # "send"
                            /\ answer # "ticket" \/ account[d.user] # "live"
                         THEN doubtful \cup pushed ELSE doubtful
  BY DEF Publish
<1>4. /\ UNCHANGED <<receipts, marker, account, active, enabled, wavering>>
      /\ cards' \subseteq User
  BY <1>2 DEF Publish, WriteCard, world, IInv, TypeOK
<1>5. /\ \A x \in Pair : Holds(p, x) <=> x \in pushed
      /\ pushed \subseteq Pair /\ \A x \in pushed : x[1] = d.user
  BY <1>1, <1>2 DEF Holds, Pair
<1> DEFINE st == [d EXCEPT !.pc = "record", !.answer = answer]
<1>6. proc' = [proc EXCEPT ![p] = st]
  BY <1>1, <1>3
<1>7. /\ st \in Proc /\ st.pc = "record" /\ st.answer = answer
      /\ st.pass = d.pass /\ st.list = d.list /\ st.old = d.old
      /\ st.user = d.user /\ st.claimed = d.claimed /\ st.roles = d.roles
      /\ st.users = d.users /\ st.batches = d.batches
  BY <1>1 DEF Proc
<1> HIDE DEF st
<1>8. Moves(p) /\ proc'[p] = st
  BY <1>1, <1>2, <1>6, <1>7 DEF Moves, Shaped
<1>9. /\ proc' \in [Process -> Proc] /\ Shape'
      /\ \A q \in Process \ {p} : proc'[q] = proc[q]
      /\ \A q \in Process \ {p}, y \in Pair :
            Holds(q, y)' = Holds(q, y) /\ Works(q, y)' = Works(q, y)
  BY <1>8, MovesAlone, OthersWorkOn DEF IInv
<1>10. /\ taken \in [Pair -> 0..2] /\ taken' \in [Pair -> 0..2]
       /\ doubtful \subseteq doubtful' /\ doubtful' \subseteq Pair
       /\ named' \subseteq Pair /\ faults' \in Nat
  <2>1. taken \in [Pair -> 0..2] /\ taken' \in [Pair -> 0..2]
    BY <1>3 DEF IInv, TypeOK
  <2>2. {<<d.user, j>> : j \in d.text} \subseteq Pair
    BY <1>2 DEF Pair
  <2>3. named' \subseteq Pair
    BY <1>3, <2>2 DEF IInv, TypeOK
  <2> QED
    BY <1>3, <1>5, <2>1, <2>3 DEF IInv, TypeOK, Fault
<1>11. TypeOK'
  BY <1>4, <1>9, <1>10 DEF IInv, TypeOK
<1>12. \A x \in Pair : Holds(p, x)' <=> Holds(p, x)
  BY <1>1, <1>7, <1>8 DEF Holds
<1>13. \A q \in Process, x \in Pair :
           /\ Holds(q, x)' <=> Holds(q, x)
           /\ Works(q, x)' <=> Works(q, x)
           /\ proc'[q].old = proc[q].old /\ proc'[q].list = proc[q].list
           /\ proc'[q].pass = proc[q].pass
  BY <1>7, <1>8, <1>9, <1>12 DEF Works
<1>14. Alone'
  BY <1>13 DEF IInv, Core, Alone
<1>15. Fresh'
  BY <1>4, <1>13 DEF IInv, Core, Fresh, Unchanged
<1>16. \A x \in Pair \ pushed : taken'[x] = taken[x] /\ (Unsent(x) => Unsent(x)')
  BY <1>3, <1>10 DEF Unsent
<1>17. ASSUME NEW x \in pushed
       PROVE  /\ d.pass = "send" \/ account[x[1]] = "live" => Unsent(x)
              /\ d.pass # "send" /\ account[x[1]] = "live"
                   => receipts[x].state \in {"due", "retryable"}
              /\ d.pass = "send" /\ account[x[1]] = "live"
                   => receipts[x].state = "claimed"
  <2>1. x \in Pair /\ Holds(p, x) /\ Works(p, x)
    BY <1>5, <1>17 DEF Works
  <2>2. CASE d.pass = "send"
    BY <1>2, <2>1, <2>2
    DEF IInv, Core, AnswersTell, Answered, Fresh, Unchanged, Expected
  <2>3. CASE d.pass # "send"
    <3>1. ~Accepted(x)
      BY <1>1, <1>2, <2>3 DEF Accepted
    <3>2. account[x[1]] = "live" => receipts[x].state \in {"due", "retryable"}
      BY <1>2, <2>1, <2>3 DEF IInv, Core, Fresh, Unchanged, Expected
    <3> QED
      BY <2>1, <2>3, <3>1, <3>2 DEF IInv, Core, StatesTell, Accounted
  <2> QED
    BY <2>2, <2>3
<1>18. ASSUME NEW x \in pushed
       PROVE  /\ took => taken'[x] > 0
              /\ ~took => taken'[x] = taken[x] /\ (Unsent(x) => Unsent(x)')
              /\ took /\ d.pass # "send"
                 /\ (answer # "ticket" \/ account[x[1]] # "live") => x \in doubtful'
              /\ Unsent(x) => taken'[x] <= 1 \/ x \in doubtful'
  <2>1. x \in Pair /\ x[1] = d.user /\ taken[x] \in 0..2
    BY <1>5, <1>10, <1>18
  <2> QED
    BY <1>3, <1>10, <1>18, <2>1 DEF Unsent
<1>19. AnswersTell'
  <2> SUFFICES ASSUME NEW q \in Process, NEW x \in Pair, Holds(q, x)
               PROVE  Answered(q, x)'
    BY <1>13 DEF AnswersTell
  <2>1. Answered(q, x)
    BY DEF IInv, Core, AnswersTell
  <2>2. CASE q # p
    <3>1. x \notin pushed
      BY <1>5, <2>2 DEF IInv, Core, Alone, Works
    <3> QED
      BY <1>9, <1>16, <2>1, <2>2, <3>1 DEF Answered
  <2>3. CASE q = p
    BY <1>3, <1>5, <1>7, <1>8, <1>17, <1>18, <2>3 DEF Answered
  <2> QED
    BY <2>2, <2>3
<1>20. StatesTell'
  <2> SUFFICES ASSUME NEW x \in Pair, account[x[1]] = "live"
               PROVE  Accounted(x)'
    BY <1>4 DEF IInv, Core, StatesTell
  <2>1. Accounted(x)
    BY DEF IInv, Core, StatesTell
  <2>2. Accepted(x) => Accepted(x)'
    BY <1>1, <1>9, Idles DEF Accepted
  <2>3. CASE x \notin pushed
    BY <1>4, <1>16, <2>1, <2>2, <2>3 DEF Accounted
  <2>4. CASE x \in pushed /\ d.pass = "send"
    BY <1>4, <1>17, <2>4 DEF Accounted
  <2>5. CASE x \in pushed /\ d.pass # "send"
    <3>1. receipts[x].state \in {"due", "retryable"} /\ Unsent(x)
      BY <1>17, <2>5
    <3>2. Unsent(x)' \/ Accepted(x)'
      <4>1. CASE took /\ answer = "ticket"
        BY <1>2, <1>5, <1>7, <1>8, <1>12, <2>5, <4>1 DEF Accepted
      <4>2. CASE ~took \/ answer # "ticket"
        BY <1>18, <2>5, <3>1, <4>2 DEF Unsent
      <4> QED
        BY <4>1, <4>2
    <3> QED
      BY <1>4, <3>1, <3>2 DEF Accounted
  <2> QED
    BY <2>3, <2>4, <2>5
<1>21. RoleReachesDeviceOnce'
  <2> SUFFICES ASSUME NEW x \in Pair, taken'[x] > 1 PROVE x \in doubtful'
    BY DEF RoleReachesDeviceOnce
  <2>1. taken[x] > 1 => x \in doubtful'
    BY <1>10 DEF IInv, Core, RoleReachesDeviceOnce
  <2>2. CASE x \notin pushed
    BY <1>16, <2>1, <2>2
  <2>3. CASE x \in pushed
    BY <1>10, <1>17, <1>18, <2>1, <2>3
  <2> QED
    BY <2>2, <2>3
<1>22. /\ Steady' = Steady /\ \A u \in Steady', i \in Role :
                                 Had(<<u, i>>) => Had(<<u, i>>)'
  BY <1>4 DEF Steady, Had
<1>23. DrainCovers'
  <2>1. CASE p # Drain
    BY <1>9, <1>22, <1>2, <2>1, Idles, DrainElsewhere DEF IInv, Covered
  <2>2. CASE p = Drain
    <3>1. d.pass = "send" => \A u, j : ToCome(u, j) => ToCome(u, j)'
      BY <1>1, <1>2, <1>7, <1>8, <2>2 DEF ToCome
    <3> QED
      BY <1>4, <1>7, <1>8, <1>22, <2>2, <3>1 DEF IInv, Covered, DrainCovers, Had
  <2> QED
    BY <2>1, <2>2
<1>24. Covered'
  BY <1>4, <1>22, <1>23, CoveredFollows DEF IInv
<1> QED
  BY <1>9, <1>11, <1>14, <1>15, <1>19, <1>20, <1>21, <1>24 DEF IInv, Core


(* An invocation writes some of the receipts that it works on and leaves   *)
(* them.                                                                   *)
LEMMA WriteKeepsCore ==
    ASSUME TypeOK, Shape, Core, NEW p \in Process, Moves(p),
           NEW xs \in SUBSET Pair,
           account' = account, doubtful' = doubtful, taken' \in [Pair -> 0..2],
           \A x \in xs : Works(p, x) /\ account[x[1]] = "live",
           \A x \in Pair : Holds(p, x) => x \in xs,
           \A x \in Pair : ~Holds(p, x)',
           \A x \in Pair : Works(p, x)' =>
              /\ Works(p, x) /\ x \notin xs /\ proc'[p].old[x] = proc[p].old[x]
              /\ proc'[p].pass = proc[p].pass,
           \A x \in Pair \ xs : receipts'[x] = receipts[x] /\ taken'[x] = taken[x],
           \A x \in xs :
              /\ taken'[x] <= taken[x]
              /\ receipts'[x].state \in {"none", "failed", "dropped", "deferred",
                                         "due", "retryable"}
                   => taken'[x] = 0 \/ x \in doubtful
              /\ receipts'[x].state = "accepted" => taken'[x] > 0
    PROVE  Core'
<1>1. /\ \A q \in Process \ {p}, x \in Pair :
            Holds(q, x)' = Holds(q, x) /\ Works(q, x)' = Works(q, x)
      /\ \A q \in Process \ {p} : proc'[q] = proc[q]
  BY OthersWorkOn, MovesAlone
<1>2. \A q \in Process \ {p}, x \in Pair : Works(q, x) => x \notin xs
  BY DEF Core, Alone
<1>3. \A q \in Process, x \in Pair : Works(q, x)' =>
          /\ Works(q, x) /\ x \notin xs /\ proc'[q].old[x] = proc[q].old[x]
          /\ proc'[q].pass = proc[q].pass
  BY <1>1, <1>2
<1>4. \A q \in Process, x \in Pair : Holds(q, x)' =>
          /\ q # p /\ Holds(q, x) /\ x \notin xs /\ x \notin proc'[q].list
  BY <1>1, <1>2 DEF Core, Alone, Works
<1>5. Alone'
  BY <1>3, <1>4 DEF Core, Alone
<1>6. Fresh'
  BY <1>3 DEF Core, Fresh, Unchanged
<1>7. AnswersTell'
  BY <1>1, <1>4 DEF Core, AnswersTell, Answered, Unsent
<1>8. StatesTell'
  <2>1. ASSUME NEW x \in Pair \ xs, account[x[1]] = "live"
        PROVE  Accounted(x)'
    <3>1. Accounted(x)
      BY <2>1 DEF Core, StatesTell
    <3>2. Accepted(x) => Accepted(x)'
      <4>1. CASE p = Drain
        BY <4>1 DEF Accepted
      <4>2. CASE p # Drain
        BY <1>1, <4>2, Idles DEF Accepted
      <4> QED
        BY <4>1, <4>2
    <3> QED
      BY <3>1, <3>2 DEF Accounted, Unsent
  <2>2. \A x \in xs : Accounted(x)'
    BY DEF Accounted, Unsent
  <2>3. \A x \in xs : account[x[1]] # "gone"
    OBVIOUS
  <2> QED
    BY <2>1, <2>2, <2>3 DEF Core, StatesTell
<1>9. RoleReachesDeviceOnce'
  <2> SUFFICES ASSUME NEW x \in Pair, taken'[x] > 1 PROVE x \in doubtful
    BY DEF RoleReachesDeviceOnce
  <2>1. taken[x] \in 0..2 /\ taken'[x] \in 0..2 /\ taken'[x] <= taken[x]
    BY DEF TypeOK
  <2> QED
    BY <2>1 DEF Core, RoleReachesDeviceOnce
<1> QED
  BY <1>5, <1>6, <1>7, <1>8, <1>9 DEF Core

(* What an answer makes of a receipt.                                      *)
LEMMA OutcomeTells ==
    ASSUME NEW pass \in Pass, NEW answer \in Answer, NEW n
    PROVE  LET after == Outcome(pass, answer, n) IN
           /\ after \in State \ {"none"}
           /\ after = "accepted" => answer = "ticket"
           /\ after \in {"none", "failed", "dropped", "deferred", "due", "retryable"}
                => /\ answer # "ticket"
                   /\ pass = "send" => answer \notin {"noticket", "lost"}
  BY DEF Outcome, State, Pass, Answer

LEMMA RecordKeeps ==
    ASSUME IInv, NEW p \in Process, NEW pushed, NEW u,
           u = proc[p].user,
           pushed = {<<proc[p].user, j>> : j \in proc[p].claimed}, Record(p)
    PROVE  IInv'
<1> DEFINE d == proc[p]
           After(r) == LET n == r.attempts + IF d.pass = "send" THEN 0 ELSE 1
                       IN  [state |-> Outcome(d.pass, d.answer, n),
                            attempts |-> n]
<1>1. /\ d \in Proc /\ Shaped(p, d) /\ d.pc = "record"
      /\ proc \in [Process -> Proc] /\ receipts \in [Pair -> Receipt]
      /\ taken \in [Pair -> 0..2]
  BY DEF IInv, TypeOK, Shape, Record
<1>2. /\ u \in User /\ d.pass \in Pass \ {"inspect"} /\ d.answer \in Answer
      /\ d.pass # "send" => p = Drain
      /\ d.pass = "send" => d.list = {}
      /\ d.claimed \subseteq Role /\ d.list \subseteq Pair
      /\ d.old \in [Pair -> Receipt]
  BY <1>1 DEF Shaped, Proc
<1>3. /\ pushed \subseteq Pair /\ \A x \in pushed : x[1] = u
      /\ \A x \in Pair : Holds(p, x) <=> x \in pushed
  BY <1>1, <1>2 DEF Holds, Pair
<1>4. CASE account[u] # "live"
  <2>1. proc'[p] = Idle /\ Moves(p)
    BY <1>1, <1>4, Idles DEF Moves, Record
  <2>2. Quietly(p)
    BY <1>4, <2>1 DEF Record, Quietly, world, ghosts, IInv, TypeOK
  <2>3. \A x \in Pair : Holds(p, x) => account[x[1]] # "live"
    BY <1>3, <1>4
  <2> QED
    BY <2>1, <2>2, <2>3, EndKeeps
<1>5. CASE account[u] = "live"
  <2> DEFINE st == [d EXCEPT !.claimed = {}, !.text = {}, !.answer = "ticket",
                       !.old = Forget(@, pushed),
                       !.pc = IF d.pass = "send" THEN "batch" ELSE "next"]
  <2>1. /\ proc' = [proc EXCEPT ![p] = st]
        /\ receipts' = [x \in Pair |-> IF x \in pushed THEN After(d.old[x])
                                       ELSE receipts[x]]
        /\ active' \subseteq active
        /\ UNCHANGED <<marker, account, enabled, wavering, cards, taken,
                       named, doubtful, faults>>
    BY <1>1, <1>5 DEF Record, world, ghosts
  <2>2. /\ Forget(d.old, pushed) \in [Pair -> Receipt]
        /\ \A x \in pushed : Forget(d.old, pushed)[x] = NoReceipt
        /\ \A x \in Pair \ pushed : Forget(d.old, pushed)[x] = d.old[x]
    BY <1>2, <1>3, Idles DEF Forget
  <2>3. \A x \in Pair : /\ After(d.old[x]) \in Receipt
                        /\ \E n : After(d.old[x]).state = Outcome(d.pass, d.answer, n)
    <3> SUFFICES ASSUME NEW x \in Pair
                 PROVE  /\ After(d.old[x]) \in Receipt
                        /\ \E n : After(d.old[x]).state
                                    = Outcome(d.pass, d.answer, n)
      OBVIOUS
    <3> DEFINE n == d.old[x].attempts + IF d.pass = "send" THEN 0 ELSE 1
    <3>1. n \in Nat
      BY <1>2 DEF Receipt
    <3> HIDE DEF n
    <3>2. Outcome(d.pass, d.answer, n) \in State
      BY <1>2, OutcomeTells
    <3>3. After(d.old[x]) = [state |-> Outcome(d.pass, d.answer, n),
                             attempts |-> n]
      BY DEF n
    <3> QED
      BY <3>1, <3>2, <3>3 DEF Receipt
  <2> HIDE DEF After
  <2>4. /\ st \in Proc /\ st.pc = (IF d.pass = "send" THEN "batch" ELSE "next")
        /\ st.list = d.list /\ st.pass = d.pass /\ st.user = d.user
        /\ st.old = Forget(d.old, pushed)
        /\ st.roles = d.roles /\ st.users = d.users /\ st.batches = d.batches
    BY <1>1, <2>2 DEF Proc, Answer
  <2> HIDE DEF st
  <2>5. Moves(p) /\ proc'[p] = st
    BY <1>1, <1>2, <2>1, <2>4 DEF Moves, Shaped
  <2>6. /\ receipts' \in [Pair -> Receipt]
        /\ \A x \in Pair \ pushed : receipts'[x] = receipts[x]
        /\ \A x \in pushed : receipts'[x].state \in State \ {"none"}
    BY <1>1, <1>2, <1>3, <2>1, <2>3, OutcomeTells
  <2>7. ASSUME NEW x \in pushed
        PROVE  /\ receipts'[x].state \in {"none", "failed", "dropped",
                                         "deferred", "due", "retryable"}
                    => Unsent(x)
               /\ receipts'[x].state = "accepted" => taken[x] > 0
    <3>1. /\ x \in Pair /\ Holds(p, x) /\ Works(p, x) /\ account[x[1]] = "live"
          /\ receipts'[x] = After(d.old[x]) /\ Answered(p, x)
      BY <1>3, <1>5, <2>1, <2>7 DEF Works, IInv, Core, AnswersTell
    <3>2. PICK n : receipts'[x].state = Outcome(d.pass, d.answer, n)
      BY <2>3, <3>1
    <3>3. receipts'[x].state = "accepted" => taken[x] > 0
      BY <1>1, <1>2, <3>1, <3>2, OutcomeTells DEF Answered
    <3>4. CASE d.pass = "send"
      BY <1>1, <1>2, <3>1, <3>2, <3>3, <3>4, OutcomeTells DEF Answered
    <3>5. CASE d.pass # "send"
      <4>1. receipts[x].state \in {"due", "retryable"}
        BY <1>2, <3>1, <3>5
        DEF IInv, Core, Fresh, Unchanged, Expected, Pass
      <4>2. d.answer # "ticket" => Unsent(x)
        BY <1>2, <3>1, <3>5, <4>1
        DEF IInv, Core, StatesTell, Accounted, Accepted
      <4> QED
        BY <1>2, <3>2, <3>3, <4>2, OutcomeTells
    <3> QED
      BY <3>4, <3>5
  <2>8. /\ proc' \in [Process -> Proc] /\ Shape'
        /\ \A q \in Process \ {p} : proc'[q] = proc[q]
    BY <2>5, MovesAlone DEF IInv
  <2>9. TypeOK'
    BY <2>1, <2>6, <2>8 DEF IInv, TypeOK
  <2>10. Core'
    <3>1. \A x \in Pair : ~Holds(p, x)'
      BY <2>4, <2>5 DEF Holds
    <3>2. \A x \in Pair : Works(p, x)' => x \in d.list /\ x \notin pushed
      BY <1>3, <2>4, <2>5, <3>1 DEF Works, IInv, Core, Alone
    <3>3. \A x \in Pair : Works(p, x)' =>
              /\ Works(p, x) /\ x \notin pushed
              /\ proc'[p].old[x] = proc[p].old[x]
              /\ proc'[p].pass = proc[p].pass
      BY <2>2, <2>4, <2>5, <3>2 DEF Works
    <3>4. \A x \in pushed : /\ Works(p, x) /\ account[x[1]] = "live"
                            /\ taken[x] \in 0..2
      BY <1>1, <1>3, <1>5 DEF Works
    <3>5. /\ pushed \in SUBSET Pair /\ taken' \in [Pair -> 0..2]
          /\ account' = account /\ doubtful' = doubtful
          /\ \A x \in Pair \ pushed : receipts'[x] = receipts[x]
                                      /\ taken'[x] = taken[x]
      BY <1>1, <1>3, <2>1, <2>6
    <3>6. \A x \in pushed :
              /\ taken'[x] <= taken[x]
              /\ receipts'[x].state \in {"none", "failed", "dropped",
                                         "deferred", "due", "retryable"}
                   => taken'[x] = 0 \/ x \in doubtful
              /\ receipts'[x].state = "accepted" => taken'[x] > 0
      BY <2>1, <2>7, <3>4 DEF Unsent
    <3>7. \A x \in Pair : Holds(p, x) => x \in pushed
      BY <1>3
    <3> QED
      BY <2>5, <3>1, <3>3, <3>4, <3>5, <3>6, <3>7, WriteKeepsCore DEF IInv
  <2>11. \A x \in Pair : Had(x) => Had(x)'
    BY <2>6 DEF Had
  <2>12. /\ Steady' \subseteq Steady
         /\ \A v \in Steady', i \in Role : Had(<<v, i>>) => Had(<<v, i>>)'
    BY <2>1, <2>11 DEF Steady, IInv, TypeOK, Pair
  <2>13. DrainCovers'
    <3>1. CASE p # Drain
      BY <2>8, <2>12, <3>1, Idles, DrainElsewhere DEF IInv, Covered
    <3>2. CASE p = Drain
      <4> SUFFICES ASSUME d.pass = "send", NEW v \in Steady', NEW i \in Role
                   PROVE  /\ st.old[<<v, i>>].state # "none" => Had(<<v, i>>)'
                          /\ i \in st.roles => Had(<<v, i>>)' \/ ToCome(v, i)'
        BY <2>4, <2>5, <3>2 DEF DrainCovers
      <4>1. /\ v \in Steady /\ <<v, i>> \in Pair
            /\ d.old[<<v, i>>].state # "none" => Had(<<v, i>>)
            /\ i \in d.roles => Had(<<v, i>>) \/ ToCome(v, i)
        BY <2>12, <3>2 DEF IInv, Covered, DrainCovers, TypeOK, Steady, Pair
      <4>2. ToCome(v, i) => ToCome(v, i)'
        BY <1>1, <2>4, <2>5, <3>2 DEF ToCome
      <4>3. st.old[<<v, i>>].state # "none" => d.old[<<v, i>>].state # "none"
        BY <2>2, <2>4, <4>1, Idles
      <4> QED
        BY <2>4, <2>11, <4>1, <4>2, <4>3
    <3> QED
      BY <3>1, <3>2
  <2>14. Covered'
    BY <2>1, <2>12, <2>13, CoveredFollows DEF IInv
  <2> QED
    BY <2>8, <2>9, <2>10, <2>14 DEF IInv
<1> QED
  BY <1>4, <1>5


-----------------------------------------------------------------------------
(* The rest of the drain.                                                  *)

(* A pass lists receipts that nobody works on, and reads them.             *)
LEMMA BeginPassKeeps ==
    ASSUME IInv, NEW pass \in {"deferred", "inspect", "retry"},
           proc[Drain].pc \in {"mark", "next"}, BeginPass(pass),
           UNCHANGED <<receipts, account, active, enabled, wavering, cards,
                       taken, named, doubtful, faults>>,
           marker' \in [Role -> {"none", "pending", "sent"}],
           \A u \in Steady, j \in Role :
              marker'[j] = "sent" => marker[j] = "sent" \/ Had(<<u, j>>)
    PROVE  IInv'
<1> DEFINE listed == Listed(pass)
           seen == [x \in Pair |-> IF x \in listed THEN receipts[x]
                                   ELSE NoReceipt]
           st == [Idle EXCEPT !.pc = "next", !.pass = pass, !.devices = active,
                     !.list = listed, !.old = seen]
<1>1. /\ proc \in [Process -> Proc] /\ receipts \in [Pair -> Receipt]
      /\ active \subseteq User /\ Drain \in Process
  BY Idles DEF IInv, TypeOK
<1>2. proc' = [proc EXCEPT ![Drain] = st]
  BY DEF BeginPass
<1>3. /\ listed \subseteq Pair /\ seen \in [Pair -> Receipt]
      /\ \A x \in listed : /\ receipts[x].state = Expected(pass)
                           /\ seen[x] = receipts[x]
      /\ Expected(pass) \notin {"claimed", "none"}
  BY <1>1, Idles DEF Listed, Expected
<1> HIDE DEF listed, seen
<1>4. /\ st.pc = "next" /\ st.list = listed /\ st.pass = pass /\ st.old = seen
  BY DEF Idle
<1>5. st \in Proc
  BY <1>1, <1>3, Idles DEF Proc, Pass
<1> HIDE DEF st
<1>6. Moves(Drain) /\ proc'[Drain] = st
  BY <1>1, <1>2, <1>4, <1>5 DEF Moves, Shaped
<1>7. /\ proc' \in [Process -> Proc] /\ Shape'
      /\ \A q \in Process \ {Drain} : proc'[q] = proc[q]
      /\ \A q \in Process \ {Drain}, x \in Pair :
            Holds(q, x)' = Holds(q, x) /\ Works(q, x)' = Works(q, x)
  BY <1>1, <1>6, MovesAlone, OthersWorkOn DEF IInv
<1>8. TypeOK'
  BY <1>7 DEF IInv, TypeOK
<1>9. \A x \in Pair : ~Holds(Drain, x)' /\ (Works(Drain, x)' <=> x \in listed)
  BY <1>4, <1>6 DEF Holds, Works
<1>10. \A q \in Process \ {Drain}, x \in listed : ~Works(q, x)
  <2> SUFFICES ASSUME NEW q \in Process \ {Drain}, NEW x \in listed,
                      Works(q, x)
               PROVE  FALSE
    OBVIOUS
  <2>1. x \in Pair /\ proc[q].pass = "send"
    BY <1>3 DEF IInv, Shape, Shaped
  <2>2. account[x[1]] # "gone"
    BY <1>3, <2>1, Idles DEF IInv, Core, StatesTell
  <2> QED
    BY <1>3, <2>1, <2>2 DEF IInv, Core, Fresh, Unchanged, Expected
<1>11. Alone'
  BY <1>7, <1>9, <1>10 DEF IInv, Core, Alone
<1>12. Fresh'
  <2>1. \A x \in listed : Unchanged(Drain, x)'
    BY <1>3, <1>4, <1>6 DEF Unchanged
  <2>2. \A q \in Process \ {Drain}, x \in Pair :
            Works(q, x)' /\ account[x[1]] # "gone" => Unchanged(q, x)'
    BY <1>7 DEF IInv, Core, Fresh, Unchanged
  <2> QED
    BY <1>9, <2>1, <2>2 DEF Fresh
<1>13. AnswersTell'
  BY <1>7, <1>9 DEF IInv, Core, AnswersTell, Answered, Unsent
<1>14. StatesTell'
  <2>1. \A x : ~Accepted(x)
    BY DEF Accepted
  <2>2. \A x \in Pair : Accounted(x) => Accounted(x)'
    BY <2>1 DEF Accounted, Unsent
  <2> QED
    BY <2>2 DEF IInv, Core, StatesTell
<1>15. RoleReachesDeviceOnce'
  BY DEF IInv, Core, RoleReachesDeviceOnce
<1>16. Covered'
  <2>1. Steady' = Steady /\ \A u, j : Had(<<u, j>>)' <=> Had(<<u, j>>)
    BY DEF Steady, Had
  <2>2. DrainCovers'
    BY <1>4, <1>6 DEF DrainCovers
  <2> QED
    BY <2>1, <2>2, CoveredFollows DEF IInv
<1> QED
  BY <1>7, <1>8, <1>11, <1>12, <1>13, <1>14, <1>15, <1>16 DEF IInv, Core

LEMMA MarkRolesKeeps ==
    ASSUME IInv, MarkRoles
    PROVE  IInv'
<1>1. /\ proc[Drain].pc = "mark" /\ BeginPass("deferred")
      /\ UNCHANGED <<receipts, account, active, enabled, wavering, cards,
                     taken, named, doubtful, faults>>
  BY DEF MarkRoles, ghosts
<1>2. \A j \in Role : marker'[j] = "sent"
                        => marker[j] = "sent" \/ j \in proc[Drain].roles
  BY DEF MarkRoles
<1>3. marker' \in [Role -> {"none", "pending", "sent"}]
  BY DEF MarkRoles, IInv, TypeOK
<1>4. \A u \in Steady, j \in proc[Drain].roles : j \in Role => Had(<<u, j>>)
  BY <1>1, Idles DEF IInv, Shape, Shaped, Covered, DrainCovers, ToCome
<1> QED
  BY <1>1, <1>2, <1>3, <1>4, BeginPassKeeps

LEMMA EndPassKeeps ==
    ASSUME IInv, EndPass
    PROVE  IInv'
<1>1. /\ proc[Drain].pc = "next"
      /\ UNCHANGED <<receipts, marker, account, active, enabled, wavering,
                     cards, taken, named, doubtful, faults>>
      /\ marker' \in [Role -> {"none", "pending", "sent"}]
  BY DEF EndPass, world, ghosts, IInv, TypeOK
<1>2. CASE BeginPass("inspect") \/ BeginPass("retry")
  BY <1>1, <1>2, BeginPassKeeps
<1>3. CASE proc' = [proc EXCEPT ![Drain] = Idle]
  <2>1. proc'[Drain] = Idle /\ Moves(Drain)
    BY <1>3, Idles DEF Moves, IInv, TypeOK
  <2>2. Quietly(Drain)
    BY <1>1, <2>1 DEF Quietly, IInv, TypeOK
  <2> QED
    BY <1>1, <2>1, <2>2, Idles, EndKeeps
<1> QED
  BY <1>2, <1>3 DEF EndPass

(* A pass writes one state for receipts that it has listed.                *)
LEMMA PassWriteKeeps ==
    ASSUME IInv, NEW u \in User, NEW xs \in SUBSET Pair,
           NEW state \in {"delivered", "failed", "dropped"},
           proc[Drain].pc = "next", proc[Drain].pass # "send",
           xs \subseteq proc[Drain].list,
           \A x \in xs : x[1] = u, Write(u, xs, state),
           UNCHANGED <<marker, account, enabled, wavering, cards, named,
                       doubtful>>,
           active' \subseteq active, faults' \in Nat,
           account[u] # "live" => active' = active /\ taken' = taken,
           taken' \in [Pair -> 0..2],
           \A x \in Pair \ xs : taken'[x] = taken[x],
           \A x \in xs : taken'[x] <= taken[x],
           account[u] = "live" /\ state # "delivered" =>
              \A x \in xs : taken'[x] = 0 \/ x \in doubtful
    PROVE  IInv'
<1> DEFINE d == proc[Drain]
           left == Forget(d.old, xs)
           st == [d EXCEPT !.list = @ \ xs, !.old = left]
<1>1. /\ d \in Proc /\ Shaped(Drain, d) /\ Drain \in Process
      /\ proc \in [Process -> Proc] /\ receipts \in [Pair -> Receipt]
      /\ taken \in [Pair -> 0..2] /\ d.old \in [Pair -> Receipt]
  BY Idles DEF IInv, TypeOK, Shape, Proc
<1>2. CASE account[u] # "live"
  <2>1. proc'[Drain] = Idle /\ Moves(Drain)
    BY <1>1, <1>2, Idles DEF Moves, Write
  <2>2. Quietly(Drain)
    BY <1>2, <2>1 DEF Write, Quietly, IInv, TypeOK
  <2> QED
    BY <1>1, <2>1, <2>2, EndKeeps
<1>3. CASE account[u] = "live"
  <2>1. /\ proc' = [proc EXCEPT ![Drain] = st]
        /\ receipts' = [x \in Pair |-> IF x \in xs
                           THEN [d.old[x] EXCEPT !.state = state]
                           ELSE receipts[x]]
    BY <1>1, <1>3 DEF Write
  <2>2. /\ left \in [Pair -> Receipt]
        /\ \A x \in Pair \ xs : left[x] = d.old[x]
    BY <1>1, Idles DEF Forget
  <2> HIDE DEF left
  <2>3. /\ st \in Proc /\ st.pc = "next" /\ st.list = d.list \ xs
        /\ st.old = left /\ st.pass = d.pass
    BY <1>1, <2>2 DEF Proc
  <2> HIDE DEF st
  <2>4. Moves(Drain) /\ proc'[Drain] = st
    BY <1>1, <2>1, <2>3 DEF Moves, Shaped
  <2>5. /\ receipts' \in [Pair -> Receipt]
        /\ \A x \in Pair \ xs : receipts'[x] = receipts[x]
        /\ \A x \in xs : receipts'[x].state = state
    <3>1. \A x \in xs : [d.old[x] EXCEPT !.state = state] \in Receipt
      BY <1>1 DEF Receipt, State
    <3>2. \A x \in xs : [d.old[x] EXCEPT !.state = state].state = state
      BY <1>1 DEF Receipt
    <3> QED
      BY <1>1, <2>1, <3>1, <3>2
  <2>6. /\ proc' \in [Process -> Proc] /\ Shape'
    BY <1>1, <2>4, MovesAlone DEF IInv
  <2>7. TypeOK'
    BY <2>5, <2>6 DEF IInv, TypeOK
  <2>8. Core'
    <3>1. \A x \in Pair : ~Holds(Drain, x) /\ ~Holds(Drain, x)'
      BY <2>3, <2>4 DEF Holds
    <3>2. \A x \in Pair : Works(Drain, x)' =>
              /\ Works(Drain, x) /\ x \notin xs
              /\ proc'[Drain].old[x] = proc[Drain].old[x]
              /\ proc'[Drain].pass = proc[Drain].pass
      BY <2>2, <2>3, <2>4, <3>1 DEF Works
    <3>3. \A x \in xs : Works(Drain, x) /\ account[x[1]] = "live"
      BY <1>3 DEF Works
    <3>4. \A x \in xs :
              /\ taken'[x] <= taken[x]
              /\ receipts'[x].state \in {"none", "failed", "dropped",
                                         "deferred", "due", "retryable"}
                   => taken'[x] = 0 \/ x \in doubtful
              /\ receipts'[x].state = "accepted" => taken'[x] > 0
      BY <1>3, <2>5
    <3>5. \A x \in Pair \ xs : receipts'[x] = receipts[x] /\ taken'[x] = taken[x]
      BY <2>5
    <3> QED
      BY <1>1, <2>4, <3>1, <3>2, <3>3, <3>4, <3>5, WriteKeepsCore DEF IInv
  <2>9. \A x \in Pair : Had(x) => Had(x)'
    BY <2>5 DEF Had
  <2>10. /\ Steady' \subseteq Steady
         /\ \A v \in Steady', j \in Role : Had(<<v, j>>) => Had(<<v, j>>)'
    BY <2>9 DEF Steady, IInv, TypeOK, Pair
  <2>11. DrainCovers'
    BY <2>3, <2>4 DEF DrainCovers
  <2>12. Covered'
    BY <2>10, <2>11, CoveredFollows DEF IInv
  <2> QED
    BY <2>6, <2>7, <2>8, <2>12 DEF IInv
<1> QED
  BY <1>2, <1>3


(* The drain takes up receipts that it has listed.                         *)
LEMMA TakeUpKeeps ==
    ASSUME IInv, NEW u \in User, NEW roles \in SUBSET Role,
           NEW text \in SUBSET Role,
           proc[Drain].pc = "next", proc[Drain].pass \in {"deferred", "retry"},
           \A j \in roles : <<u, j>> \in proc[Drain].list,
           proc' = [proc EXCEPT ![Drain].pc = "publish", ![Drain].user = u,
                       ![Drain].claimed = roles, ![Drain].text = text,
                       ![Drain].list = @ \ ({u} \X roles)],
           UNCHANGED <<receipts, world, active, cards, ghosts, faults>>
    PROVE  IInv'
<1> DEFINE d == proc[Drain]
           st == [d EXCEPT !.pc = "publish", !.user = u, !.claimed = roles,
                     !.text = text, !.list = @ \ ({u} \X roles)]
<1>1. /\ d \in Proc /\ Shaped(Drain, d) /\ Drain \in Process
      /\ proc \in [Process -> Proc]
  BY Idles DEF IInv, TypeOK, Shape
<1>2. proc' = [proc EXCEPT ![Drain] = st]
  BY <1>1
<1>3. /\ st \in Proc /\ st.pc = "publish" /\ st.user = u /\ st.claimed = roles
      /\ st.list = d.list \ ({u} \X roles) /\ st.old = d.old
      /\ st.pass = d.pass
  BY <1>1 DEF Proc
<1> HIDE DEF st
<1>4. Moves(Drain) /\ proc'[Drain] = st
  BY <1>1, <1>2, <1>3 DEF Moves, Shaped
<1>5. Quietly(Drain)
  BY <1>4 DEF Quietly, world, ghosts, IInv, TypeOK
<1>6. \A x \in Pair : Holds(Drain, x)' => x \in d.list /\ x \in {u} \X roles
  BY <1>3, <1>4 DEF Holds, Pair
<1>7. Drops(Drain)
  BY <1>3, <1>4, <1>6 DEF Drops, Works
<1>8. DrainCovers'
  BY <1>3, <1>4 DEF DrainCovers
<1>9. \A x : ~(Holds(Drain, x) /\ proc[Drain].pc = "record")
  OBVIOUS
<1> QED
  BY <1>1, <1>5, <1>7, <1>8, <1>9, QuietKeeps

(* What is due or retryable has not reached its device.                    *)
LEMMA ListedIsUnsent ==
    ASSUME IInv, NEW x \in proc[Drain].list, account[x[1]] = "live",
           proc[Drain].pc = "next", proc[Drain].pass # "send"
    PROVE  /\ x \in Pair /\ taken[x] \in 0..2
           /\ proc[Drain].pass # "inspect" => Unsent(x)
           /\ proc[Drain].pass = "inspect"
                => taken[x] > 0 /\ (taken[x] > 1 => x \in doubtful)
<1>1. /\ x \in Pair /\ Works(Drain, x) /\ taken[x] \in 0..2
      /\ proc[Drain].pass \in Pass /\ ~Accepted(x)
  BY Idles DEF IInv, TypeOK, Proc, Works, Accepted
<1>2. receipts[x].state = Expected(proc[Drain].pass)
  BY <1>1, Idles DEF IInv, Core, Fresh, Unchanged
<1>3. Accounted(x)
  BY <1>1 DEF IInv, Core, StatesTell
<1> QED
  BY <1>1, <1>2, <1>3
  DEF Accounted, Expected, Pass, IInv, Core, RoleReachesDeviceOnce

LEMMA DeliverDeferredKeeps ==
    ASSUME IInv, NEW u \in User, DeliverDeferred(u)
    PROVE  IInv'
<1> DEFINE d == proc[Drain]
           roles == {j \in Role : <<u, j>> \in d.list}
           card == Cardinality(roles) >= MinimumRoles \/ u \in cards
<1>1. /\ d.pc = "next" /\ d.pass = "deferred"
      /\ UNCHANGED <<world, active, cards, ghosts, faults>>
  BY DEF DeliverDeferred
<1>2. /\ roles \in SUBSET Role /\ \A j \in roles : <<u, j>> \in d.list
      /\ \A x \in {u} \X roles : x \in d.list /\ x[1] = u /\ x \in Pair
  BY DEF Pair
<1>3. CASE Reachable(u)
  <2>1. PICK first \in roles :
            /\ proc' = [proc EXCEPT ![Drain].pc = "publish",
                           ![Drain].user = u, ![Drain].claimed = roles,
                           ![Drain].text = IF card THEN roles ELSE {first},
                           ![Drain].list = @ \ ({u} \X roles)]
            /\ receipts' = receipts
    BY <1>3 DEF DeliverDeferred
  <2> DEFINE text == IF card THEN roles ELSE {first}
  <2>2. text \in SUBSET Role
    OBVIOUS
  <2> HIDE DEF roles, card
  <2>3. proc' = [proc EXCEPT ![Drain].pc = "publish",
                    ![Drain].user = u, ![Drain].claimed = roles,
                    ![Drain].text = text, ![Drain].list = @ \ ({u} \X roles)]
    BY <2>1
  <2> HIDE DEF text
  <2> QED
    BY <1>1, <1>2, <2>1, <2>2, <2>3, TakeUpKeeps
<1>4. CASE ~Reachable(u)
  <2> DEFINE xs == {u} \X roles
  <2>1. Write(u, xs, "failed")
    BY <1>4 DEF DeliverDeferred
  <2>2. /\ xs \in SUBSET Pair /\ xs \subseteq d.list /\ \A x \in xs : x[1] = u
    BY <1>2
  <2> HIDE DEF xs
  <2>3. /\ taken' = taken /\ taken \in [Pair -> 0..2] /\ faults' \in Nat
        /\ active' = active
        /\ UNCHANGED <<marker, account, enabled, wavering, cards, named,
                       doubtful>>
    BY <1>1 DEF world, ghosts, IInv, TypeOK
  <2>4. account[u] = "live" => \A x \in xs : taken[x] = 0 \/ x \in doubtful
    BY <1>1, <2>2, ListedIsUnsent DEF Unsent
  <2>5. \A x \in xs : taken'[x] <= taken[x]
    BY <2>2, <2>3
  <2> QED
    BY <1>1, <2>1, <2>2, <2>3, <2>4, <2>5, PassWriteKeeps
<1> QED
  BY <1>3, <1>4

LEMMA RetryReceiptKeeps ==
    ASSUME IInv, NEW u \in User, NEW j \in Role, RetryReceipt(u, j)
    PROVE  IInv'
<1> DEFINE d == proc[Drain]
           x == <<u, j>>
           again == Reachable(u) /\ d.old[x].attempts < MaxAttempts
<1>1. /\ d.pc = "next" /\ d.pass = "retry" /\ x \in d.list /\ x \in Pair
      /\ x[1] = u /\ {x} = {u} \X {j}
      /\ UNCHANGED <<world, active, cards, ghosts, faults>>
  BY DEF RetryReceipt, Pair
<1>2. CASE again
  <2>1. proc' = [proc EXCEPT ![Drain].pc = "publish",
                    ![Drain].user = u, ![Drain].claimed = {j},
                    ![Drain].text = {j}, ![Drain].list = @ \ ({u} \X {j})]
        /\ receipts' = receipts
    BY <1>1, <1>2 DEF RetryReceipt
  <2>2. /\ {j} \in SUBSET Role /\ \A i \in {j} : <<u, i>> \in proc[Drain].list
        /\ proc[Drain].pc = "next" /\ proc[Drain].pass \in {"deferred", "retry"}
        /\ UNCHANGED <<receipts, world, active, cards, ghosts, faults>>
    BY <1>1, <2>1
  <2> QED
    BY <2>1, <2>2, TakeUpKeeps
<1>3. CASE ~again
  <2>1. Write(u, {x}, "dropped")
    BY <1>3 DEF RetryReceipt
  <2>2. /\ {x} \in SUBSET Pair /\ {x} \subseteq d.list
        /\ \A y \in {x} : y[1] = u
    BY <1>1
  <2>3. /\ taken' = taken /\ taken \in [Pair -> 0..2] /\ faults' \in Nat
        /\ active' = active
        /\ UNCHANGED <<marker, account, enabled, wavering, cards, named,
                       doubtful>>
    BY <1>1 DEF world, ghosts, IInv, TypeOK
  <2>4. account[u] = "live" => \A y \in {x} : taken[y] = 0 \/ y \in doubtful
    BY <1>1, ListedIsUnsent DEF Unsent
  <2>5. \A y \in {x} : taken'[y] <= taken[y]
    BY <1>1, <2>3
  <2> HIDE DEF x
  <2> QED
    BY <1>1, <2>1, <2>2, <2>3, <2>4, <2>5, PassWriteKeeps
<1> QED
  BY <1>2, <1>3

LEMMA InspectReceiptKeeps ==
    ASSUME IInv, NEW u \in User, NEW j \in Role, InspectReceipt(u, j)
    PROVE  IInv'
<1> DEFINE d == proc[Drain]
           x == <<u, j>>
<1>1. /\ d.pc = "next" /\ d.pass = "inspect" /\ x \in d.list /\ x \in Pair
      /\ x[1] = u
      /\ UNCHANGED <<marker, account, enabled, wavering, cards, named,
                     doubtful>>
      /\ taken \in [Pair -> 0..2] /\ faults \in Nat
  BY DEF InspectReceipt, Pair, world, IInv, TypeOK
<1>2. /\ {x} \in SUBSET Pair /\ {x} \subseteq d.list
      /\ \A y \in {x} : y[1] = u
  BY <1>1
<1>3. account[u] = "live" => taken[x] > 0 /\ (taken[x] > 1 => x \in doubtful)
  BY <1>1, ListedIsUnsent
<1> HIDE DEF x
<1>4. CASE /\ proc' = [proc EXCEPT ![Drain].list = @ \ {x},
                                   ![Drain].old = Forget(@, {x})]
           /\ UNCHANGED <<receipts, active, taken, faults>>
  <2> DEFINE left == Forget(d.old, {x})
             st == [d EXCEPT !.list = @ \ {x}, !.old = left]
  <2>1. /\ d \in Proc /\ Shaped(Drain, d) /\ Drain \in Process
        /\ proc \in [Process -> Proc] /\ d.old \in [Pair -> Receipt]
    BY Idles DEF IInv, TypeOK, Shape, Proc
  <2>2. proc' = [proc EXCEPT ![Drain] = st]
    BY <1>4, <2>1
  <2>3. /\ left \in [Pair -> Receipt]
        /\ \A y \in Pair \ {x} : left[y] = d.old[y]
    BY <2>1, Idles DEF Forget
  <2> HIDE DEF left
  <2>4. /\ st \in Proc /\ st.pc = "next" /\ st.list = d.list \ {x}
        /\ st.old = left /\ st.pass = d.pass
    BY <1>1, <2>1, <2>3 DEF Proc
  <2> HIDE DEF st
  <2>5. Moves(Drain) /\ proc'[Drain] = st
    BY <1>1, <2>1, <2>2, <2>4 DEF Moves, Shaped
  <2>6. Quietly(Drain)
    BY <1>1, <1>4, <2>5 DEF Quietly, IInv, TypeOK
  <2>7. Drops(Drain)
    BY <2>3, <2>4, <2>5 DEF Drops, Works, Holds
  <2>8. DrainCovers'
    BY <1>1, <2>4, <2>5 DEF DrainCovers
  <2> QED
    BY <1>1, <2>1, <2>6, <2>7, <2>8, QuietKeeps
<1>5. CASE Write(u, {x}, "delivered") /\ UNCHANGED <<active, taken, faults>>
  <2>1. \A y \in {x} : taken'[y] <= taken[y]
    BY <1>1, <1>5
  <2> QED
    BY <1>1, <1>2, <1>5, <2>1, PassWriteKeeps
<1>6. CASE /\ Fault /\ Write(u, {x}, "failed")
           /\ IF account[u] = "live"
              THEN /\ active' \in {active, active \ {u}}
                   /\ taken' = [taken EXCEPT ![x] = @ - 1]
              ELSE UNCHANGED <<active, taken>>
  <2>1. /\ active' \subseteq active /\ faults' \in Nat
        /\ account[u] # "live" => active' = active /\ taken' = taken
    BY <1>1, <1>6 DEF Fault
  <2>2. /\ taken' \in [Pair -> 0..2]
        /\ \A y \in Pair \ {x} : taken'[y] = taken[y]
        /\ \A y \in {x} : taken'[y] <= taken[y]
        /\ account[u] = "live" => \A y \in {x} : taken'[y] = 0 \/ y \in doubtful
    BY <1>1, <1>3, <1>6
  <2> QED
    BY <1>1, <1>2, <1>6, <2>1, <2>2, PassWriteKeeps
<1> QED
  BY <1>4, <1>5, <1>6 DEF InspectReceipt, x


-----------------------------------------------------------------------------
(* The world.                                                              *)
LEMMA TimeComesKeeps ==
    ASSUME IInv, NEW x \in Pair, TimeComes(x)
    PROVE  IInv'
<1>1. /\ receipts \in [Pair -> Receipt] /\ receipts[x].state = "deferred"
      /\ receipts' = [receipts EXCEPT ![x].state = "due"]
      /\ UNCHANGED <<marker, account, enabled, wavering, active, cards, proc,
                     taken, named, doubtful, faults>>
  BY DEF TimeComes, world, ghosts, IInv, TypeOK
<1>2. /\ receipts' \in [Pair -> Receipt] /\ receipts'[x].state = "due"
      /\ \A y \in Pair \ {x} : receipts'[y] = receipts[y]
  BY <1>1 DEF Receipt, State
<1>3. TypeOK' /\ Shape'
  BY <1>1, <1>2 DEF IInv, TypeOK, Shape, Shaped
<1>4. \A q, y : /\ Holds(q, y)' <=> Holds(q, y)
                /\ Works(q, y)' <=> Works(q, y)
  BY <1>1 DEF Holds, Works
<1>5. \A q \in Process : Works(q, x) => account[x[1]] = "gone"
  BY <1>1 DEF IInv, Core, Fresh, Unchanged, Expected
<1>6. Alone'
  BY <1>1, <1>4 DEF IInv, Core, Alone
<1>7. Fresh'
  BY <1>1, <1>2, <1>4, <1>5 DEF IInv, Core, Fresh, Unchanged
<1>8. AnswersTell'
  BY <1>1, <1>4 DEF IInv, Core, AnswersTell, Answered, Unsent
<1>9. StatesTell'
  <2>1. account[x[1]] # "gone"
    BY <1>1, Idles DEF IInv, Core, StatesTell
  <2>2. \A y \in Pair \ {x} : Accounted(y) => Accounted(y)'
    BY <1>1, <1>2, <1>4 DEF Accounted, Accepted, Unsent
  <2>3. Accounted(x) => Accounted(x)'
    BY <1>1, <1>2 DEF Accounted, Unsent
  <2> QED
    BY <1>1, <1>2, <2>1, <2>2, <2>3 DEF IInv, Core, StatesTell
<1>10. RoleReachesDeviceOnce'
  BY <1>1 DEF IInv, Core, RoleReachesDeviceOnce
<1>11. \A y \in Pair : Had(y) => Had(y)'
  BY <1>2 DEF Had
<1>12. /\ Steady' = Steady
       /\ \A v \in Steady', j \in Role : Had(<<v, j>>) => Had(<<v, j>>)'
  BY <1>1, <1>11 DEF Steady, IInv, TypeOK, Pair
<1>13. Covered'
  BY <1>1, <1>12, DrainElsewhere, CoveredFollows DEF IInv, Covered
<1> QED
  BY <1>3, <1>6, <1>7, <1>8, <1>9, <1>10, <1>13 DEF IInv, Core

(* What a user does to his settings or his account.                        *)
LEMMA UserKeeps ==
    ASSUME IInv, NEW u \in User,
           UNCHANGED <<marker, proc, taken, named, doubtful>>,
           account' \in [User -> {"live", "leaving", "gone"}],
           \A v \in User \ {u} : account'[v] = account[v],
           account'[u] = account[u] \/ (u \in wavering' /\ account'[u] # "live"),
           account[u] = "gone" => account'[u] = "gone",
           wavering \subseteq wavering', wavering' \subseteq User,
           u \in wavering', faults' \in Nat,
           active' \ {u} = active \ {u}, active' \subseteq User,
           enabled' \ {u} = enabled \ {u}, enabled' \subseteq User,
           cards' \subseteq User,
           \/ receipts' = receipts /\ account'[u] # "gone"
           \/ /\ account'[u] = "gone"
              /\ receipts' = [x \in Pair |-> IF x[1] = u THEN NoReceipt
                                             ELSE receipts[x]]
    PROVE  IInv'
<1>1. /\ receipts \in [Pair -> Receipt] /\ receipts' \in [Pair -> Receipt]
      /\ \A x \in Pair : x[1] # u => receipts'[x] = receipts[x]
      /\ \A x \in Pair : x[1] = u /\ account'[u] = "gone"
                           => receipts'[x] = NoReceipt
      /\ \A x \in Pair : account'[u] # "gone" => receipts'[x] = receipts[x]
  BY Idles DEF IInv, TypeOK
<1>2. TypeOK' /\ Shape'
  BY <1>1 DEF IInv, TypeOK, Shape, Shaped
<1>3. \A q, y : /\ Holds(q, y)' <=> Holds(q, y)
                /\ Works(q, y)' <=> Works(q, y)
                /\ Accepted(y)' <=> Accepted(y)
                /\ Unsent(y)' <=> Unsent(y)
  BY DEF Holds, Works, Accepted, Unsent
<1>4. \A x \in Pair : x[1] \in User
  BY DEF Pair
<1>5. \A x \in Pair : /\ account'[x[1]] # "gone"
                           => account[x[1]] # "gone" /\ receipts'[x] = receipts[x]
                      /\ account'[x[1]] = "live" => account[x[1]] = "live"
  BY <1>1, <1>4
<1>6. Alone'
  BY <1>3 DEF IInv, Core, Alone
<1>7. Fresh'
  BY <1>3, <1>5 DEF IInv, Core, Fresh, Unchanged
<1>8. AnswersTell'
  BY <1>3 DEF IInv, Core, AnswersTell, Answered
<1>9. StatesTell'
  <2>1. ASSUME NEW x \in Pair, account'[x[1]] = "live" PROVE Accounted(x)'
    <3>1. Accounted(x) /\ receipts'[x] = receipts[x]
      BY <1>5, <2>1 DEF IInv, Core, StatesTell
    <3> QED
      BY <1>3, <3>1 DEF Accounted
  <2>2. \A x \in Pair : account'[x[1]] = "gone" => receipts'[x] = NoReceipt
    BY <1>1, <1>4 DEF IInv, Core, StatesTell
  <2> QED
    BY <2>1, <2>2 DEF StatesTell
<1>10. RoleReachesDeviceOnce'
  BY DEF IInv, Core, RoleReachesDeviceOnce
<1>11. Steady' \subseteq Steady \ {u}
  BY DEF Steady
<1>12. \A v \in Steady', j \in Role : Had(<<v, j>>) => Had(<<v, j>>)'
  <2> SUFFICES ASSUME NEW v \in Steady', NEW j \in Role
               PROVE  receipts'[<<v, j>>] = receipts[<<v, j>>]
    BY DEF Had
  <2>1. v # u /\ <<v, j>> \in Pair /\ <<v, j>>[1] = v
    BY <1>11 DEF Steady, IInv, TypeOK, Pair
  <2> QED
    BY <1>1, <2>1
<1>13. \A v \in User : account'[v] = account[v] \/ v \in wavering'
  OBVIOUS
<1>14. Covered'
  BY <1>11, <1>12, <1>13, DrainElsewhere, CoveredFollows DEF IInv, Covered
<1> QED
  BY <1>2, <1>6, <1>7, <1>8, <1>9, <1>10, <1>14 DEF IInv, Core

LEMMA ChangeSettingsKeeps ==
    ASSUME IInv, NEW u \in User, ChangeSettings(u)
    PROVE  IInv'
<1>1. /\ account \in [User -> {"live", "leaving", "gone"}]
      /\ active \subseteq User /\ enabled \subseteq User /\ cards \subseteq User
      /\ wavering \subseteq User /\ faults \in Nat
  BY DEF IInv, TypeOK
<1>2. /\ account[u] = "live" /\ faults' = faults + 1
      /\ wavering' = wavering \cup {u}
      /\ UNCHANGED <<receipts, marker, account, cards, proc, taken, named,
                     doubtful>>
      /\ active' \ {u} = active \ {u} /\ active' \subseteq active \cup {u}
      /\ enabled' \ {u} = enabled \ {u} /\ enabled' \subseteq enabled \cup {u}
  BY DEF ChangeSettings, Fault, ghosts
<1> QED
  BY <1>1, <1>2, UserKeeps

LEMMA BeginDeletionKeeps ==
    ASSUME IInv, NEW u \in User, BeginDeletion(u)
    PROVE  IInv'
<1>1. /\ account \in [User -> {"live", "leaving", "gone"}]
      /\ active \subseteq User /\ enabled \subseteq User /\ cards \subseteq User
      /\ wavering \subseteq User /\ faults \in Nat
  BY DEF IInv, TypeOK
<1>2. /\ account[u] = "live" /\ wavering' = wavering \cup {u}
      /\ account' = [account EXCEPT ![u] = "leaving"]
      /\ UNCHANGED <<receipts, marker, active, enabled, cards, proc, taken,
                     named, doubtful, faults>>
  BY DEF BeginDeletion, ghosts
<1>3. /\ account' \in [User -> {"live", "leaving", "gone"}]
      /\ account'[u] = "leaving"
      /\ \A v \in User \ {u} : account'[v] = account[v]
  BY <1>1, <1>2
<1> QED
  BY <1>1, <1>2, <1>3, UserKeeps

LEMMA DeleteUserKeeps ==
    ASSUME IInv, NEW u \in User, DeleteUser(u)
    PROVE  IInv'
<1>1. /\ account \in [User -> {"live", "leaving", "gone"}]
      /\ active \subseteq User /\ enabled \subseteq User /\ cards \subseteq User
      /\ wavering \subseteq User /\ faults \in Nat
  BY DEF IInv, TypeOK
<1>2. /\ account[u] = "leaving" /\ account' = [account EXCEPT ![u] = "gone"]
      /\ receipts' = [x \in Pair |-> IF x[1] = u THEN NoReceipt
                                     ELSE receipts[x]]
      /\ active' = active \ {u} /\ enabled' = enabled \ {u}
      /\ cards' = cards \ {u}
      /\ UNCHANGED <<marker, proc, taken, named, doubtful, wavering, faults>>
  BY DEF DeleteUser, ghosts
<1>3. /\ account' \in [User -> {"live", "leaving", "gone"}]
      /\ account'[u] = "gone" /\ u \in wavering
      /\ \A v \in User \ {u} : account'[v] = account[v]
  BY <1>1, <1>2 DEF IInv, Covered
<1> QED
  BY <1>1, <1>2, <1>3, UserKeeps

-----------------------------------------------------------------------------
LEMMA IInvInit == Init => IInv
<1> SUFFICES ASSUME Init PROVE IInv
  OBVIOUS
<1>1. /\ receipts \in [Pair -> Receipt] /\ proc \in [Process -> Proc]
      /\ \A p \in Process : proc[p] = Idle
      /\ \A x \in Pair : receipts[x] = NoReceipt /\ taken[x] = 0
  BY Idles DEF Init, NoReceipts
<1>2. TypeOK
  BY <1>1 DEF Init, TypeOK
<1>3. Shape
  BY <1>1, Idles DEF Shape
<1>4. \A p \in Process, x \in Pair : ~Works(p, x) /\ ~Holds(p, x)
  BY <1>1, Idles DEF Works, Holds
<1>5. Alone /\ Fresh /\ AnswersTell
  BY <1>4 DEF Alone, Fresh, AnswersTell
<1>6. StatesTell
  BY <1>1, Idles DEF StatesTell, Accounted, Unsent
<1>7. RoleReachesDeviceOnce
  BY <1>1 DEF RoleReachesDeviceOnce
<1>8. Covered
  <2>1. DrainCovers
    <3>1. \A u \in Steady, j \in Role : NoReceipts[<<u, j>>].state = "none"
      BY <1>2, Idles DEF Steady, Pair, TypeOK
    <3> QED
      BY <1>1, <3>1, Idles DEF DrainCovers
  <2> QED
    BY <2>1 DEF Init, Covered, MarkedRolesHaveReceipts
<1> QED
  BY <1>2, <1>3, <1>5, <1>6, <1>7, <1>8 DEF IInv, Core

LEMMA StepKeeps ==
    ASSUME IInv, NEW p \in Process, Step(p)
    PROVE  IInv'
<1>1. CASE \E u \in User : NextUser(p, u)
  BY <1>1, NextUserKeeps
<1>2. CASE \E b \in SUBSET Role : NextBatch(p, b)
  BY <1>2, NextBatchKeeps
<1>3. CASE \E j \in Role : ClaimReceipt(p, j)
  BY <1>3, ClaimReceiptKeeps
<1>4. CASE EndUser(p) \/ EndSend(p)
  BY <1>4, EndUserKeeps, EndSendKeeps
<1>5. CASE Publish(p) \/ Record(p)
  BY <1>5, PublishKeeps, RecordKeeps
<1> QED
  BY <1>1, <1>2, <1>3, <1>4, <1>5 DEF Step

LEMMA IInvStep == IInv /\ [Next]_vars => IInv'
<1> SUFFICES ASSUME IInv, [Next]_vars PROVE IInv'
  OBVIOUS
<1>1. CASE UNCHANGED vars
  <2>1. \A q, y : /\ Holds(q, y)' <=> Holds(q, y)
                  /\ Works(q, y)' <=> Works(q, y)
                  /\ Accepted(y)' <=> Accepted(y)
                  /\ Unsent(y)' <=> Unsent(y)
                  /\ Had(y)' <=> Had(y)
                  /\ \A j : ToCome(q, j)' <=> ToCome(q, j)
    BY <1>1 DEF vars, Holds, Works, Accepted, Unsent, Had, ToCome
  <2>2. TypeOK' /\ Shape' /\ Steady' = Steady
    BY <1>1 DEF vars, IInv, TypeOK, Shape, Shaped, Steady
  <2>3. Core'
    BY <1>1, <2>1
    DEF vars, IInv, Core, Alone, Fresh, Unchanged, AnswersTell, Answered,
        StatesTell, Accounted, RoleReachesDeviceOnce
  <2>4. Covered'
    BY <1>1, <2>1, <2>2
    DEF vars, IInv, Covered, MarkedRolesHaveReceipts, DrainCovers
  <2> QED
    BY <2>2, <2>3, <2>4 DEF IInv
<1>2. CASE DrainStep
  <2>1. CASE Step(Drain)
    BY <2>1, Idles, StepKeeps
  <2>2. CASE StartDrain \/ MarkRoles \/ EndPass
    BY <2>2, StartDrainKeeps, MarkRolesKeeps, EndPassKeeps
  <2>3. CASE \E u \in User : DeliverDeferred(u)
    BY <2>3, DeliverDeferredKeeps
  <2>4. CASE \E u \in User, j \in Role : InspectReceipt(u, j) \/ RetryReceipt(u, j)
    BY <2>4, InspectReceiptKeeps, RetryReceiptKeeps
  <2> QED
    BY <1>2, <2>1, <2>2, <2>3, <2>4 DEF DrainStep
<1>3. CASE Environment
  BY <1>3, TimeComesKeeps, CrashKeeps, ChangeSettingsKeeps, BeginDeletionKeeps,
     DeleteUserKeeps DEF Environment
<1>4. ASSUME NEW s \in Sender, SenderStep(s) PROVE IInv'
  BY <1>4, StepKeeps, EndPollKeeps, CommitRoleKeeps DEF SenderStep, Process
<1> QED
  BY <1>1, <1>2, <1>3, <1>4 DEF Next

(* Whatever the senders, the drain, the provider and the users do, what    *)
(* the invocations have read and what the states of the receipts tell of   *)
(* their pushes stays true.                                                *)
THEOREM PushInvariance == Spec => []IInv
  BY IInvInit, IInvStep, PTL DEF Spec

(* Receipts, settings and invocations are well typed: a receipt that the   *)
(* provider gives up had been taken.                                       *)
THEOREM PushTypeCorrect == Spec => []TypeOK
<1>1. IInv => TypeOK
  BY DEF IInv
<1> QED
  BY <1>1, PushInvariance, PTL

(* A push for one role reaches a device at most once, but for the pushes   *)
(* of the drain whose answer was lost or without a ticket and for users    *)
(* who are leaving, for any number of senders that overlap, die and act on *)
(* receipts they read long ago.                                            *)
THEOREM RolesReachDevicesOnce == Spec => []RoleReachesDeviceOnce
<1>1. IInv => RoleReachesDeviceOnce
  BY DEF IInv, Core
<1> QED
  BY <1>1, PushInvariance, PTL

(* No role is taken off the drain's list while a user with alerts on, who  *)
(* never changed his mind, has no receipt for it.                          *)
THEOREM MarkedRolesAreReceipted == Spec => []MarkedRolesHaveReceipts
<1>1. IInv => MarkedRolesHaveReceipts
  BY DEF IInv, Covered
<1> QED
  BY <1>1, PushInvariance, PTL


-----------------------------------------------------------------------------
(* What a push names. Every push but one names the roles it is for: that   *)
(* of the deferred roles that are too few for a card.                      *)
DeferredPushesNameAll ==
    proc[Drain].pc = "publish" /\ proc[Drain].pass = "deferred"
        => proc[Drain].claimed \subseteq proc[Drain].text

Told(p) ==
    LET d == proc[p] IN
    /\ d.pc \in {"claim", "publish", "record"} => d.claimed \subseteq d.text
    /\ d.pc = "claim" => d.todo \subseteq d.text
    /\ d.pc = "record" /\ d.answer = "ticket"
         => \A j \in d.text : <<d.user, j>> \in named

Naming == AcceptedRolesWereNamed /\ \A p \in Process : Told(p)

Taken(x) == receipts[x].state \in {"accepted", "delivered"}

LEMMA NamingFollows ==
    ASSUME Naming, NEW p \in Process, Told(p)',
           \A q \in Process \ {p} : proc'[q] = proc[q],
           named \subseteq named',
           \A x \in Pair : Taken(x)' => Taken(x) \/ x \in named'
    PROVE  Naming'
<1>1. \A q \in Process \ {p} : Told(q)'
  BY DEF Naming, Told
<1> QED
  BY <1>1 DEF Naming, AcceptedRolesWereNamed, Taken

(* Steps of a send.                                                        *)
LEMMA SendKeepsNaming ==
    ASSUME IInv, Naming, NEW p \in Process, Step(p)
    PROVE  Naming'
<1> DEFINE d == proc[p]
<1>1. /\ proc \in [Process -> Proc] /\ d \in Proc /\ Shaped(p, d)
      /\ Told(p) /\ receipts \in [Pair -> Receipt]
  BY DEF IInv, TypeOK, Shape, Naming
<1>2. CASE \E u \in User : NextUser(p, u)
  <2>1. PICK u \in User : NextUser(p, u)
    BY <1>2
  <2>2. /\ proc'[p].pc \in {"batch", "next"}
        /\ \A q \in Process \ {p} : proc'[q] = proc[q]
    BY <1>1, <2>1 DEF NextUser, Proc
  <2> QED
    BY <2>1, <2>2, NamingFollows DEF NextUser, Told, Taken, ghosts
<1>3. CASE \E b \in SUBSET Role : NextBatch(p, b)
  <2>1. PICK b \in SUBSET Role : NextBatch(p, b)
    BY <1>3
  <2> DEFINE fresh == {j \in b : ~Delivered(d.old[<<d.user, j>>])}
  <2>2. PICK later \in BOOLEAN :
          proc' = IF fresh = {}
                  THEN [proc EXCEPT ![p].pc = "batch", ![p].batches = @ \ {b},
                           ![p].claimed = {}]
                  ELSE [proc EXCEPT ![p].pc = "claim", ![p].batches = @ \ {b},
                           ![p].text = b, ![p].todo = fresh, ![p].claimed = {},
                           ![p].later = later]
    BY <2>1 DEF NextBatch
  <2>3. fresh \subseteq b
    OBVIOUS
  <2> HIDE DEF fresh
  <2>4. /\ \/ proc'[p].pc = "batch"
           \/ /\ proc'[p].pc = "claim" /\ proc'[p].claimed = {}
              /\ proc'[p].todo = fresh /\ proc'[p].text = b
        /\ \A q \in Process \ {p} : proc'[q] = proc[q]
    BY <1>1, <2>2 DEF Proc
  <2> QED
    BY <2>1, <2>3, <2>4, NamingFollows DEF NextBatch, Told, Taken, ghosts
<1>4. CASE \E j \in Role : ClaimReceipt(p, j)
  <2>1. PICK j \in Role : ClaimReceipt(p, j)
    BY <1>4
  <2>2. /\ proc'[p].pc = "claim" /\ d.pc = "claim"
        /\ proc'[p].todo \subseteq d.todo /\ proc'[p].text = d.text
        /\ proc'[p].claimed \subseteq d.claimed \cup {j} /\ j \in d.todo
        /\ \A q \in Process \ {p} : proc'[q] = proc[q]
    BY <1>1, <2>1 DEF ClaimReceipt, Proc
  <2>3. Told(p)' /\ named' = named
    BY <1>1, <2>1, <2>2 DEF Told, ClaimReceipt, ghosts
  <2>4. \A x \in Pair : Taken(x)' => Taken(x)
    <3>1. \A x \in Pair : \/ receipts'[x] = receipts[x]
                          \/ receipts'[x].state \in {"deferred", "claimed"}
      BY <1>1, <2>1 DEF ClaimReceipt
    <3> QED
      BY <3>1 DEF Taken
  <2> QED
    BY <2>2, <2>3, <2>4, NamingFollows
<1>5. CASE EndUser(p)
  <2>1. proc'[p].pc = "next" /\ \A q \in Process \ {p} : proc'[q] = proc[q]
    BY <1>1, <1>5 DEF EndUser, Proc
  <2> QED
    BY <1>5, <2>1, NamingFollows DEF EndUser, Told, Taken, ghosts
<1>6. CASE EndSend(p)
  <2>1. /\ proc'[p].pc \in {"mark", "idle"}
        /\ \A q \in Process \ {p} : proc'[q] = proc[q]
    BY <1>1, <1>6, Idles DEF EndSend, Proc
  <2> QED
    BY <1>6, <2>1, NamingFollows DEF EndSend, Told, Taken, ghosts
<1>7. CASE Publish(p)
  <2>1. PICK answer \in Answer, took \in BOOLEAN :
            /\ answer = "ticket" => took
            /\ proc' = [proc EXCEPT ![p].pc = "record", ![p].answer = answer]
            /\ named' = IF took
                        THEN named \cup {<<d.user, j>> : j \in d.text}
                        ELSE named
    BY <1>7 DEF Publish
  <2>2. /\ proc'[p].pc = "record" /\ proc'[p].answer = answer
        /\ proc'[p].text = d.text /\ proc'[p].claimed = d.claimed
        /\ proc'[p].user = d.user
        /\ \A q \in Process \ {p} : proc'[q] = proc[q]
    BY <1>1, <2>1 DEF Proc
  <2>3. d.pc \in {"claim", "publish"} /\ receipts' = receipts
    BY <1>7 DEF Publish
  <2>4. Told(p)'
    BY <1>1, <2>1, <2>2, <2>3 DEF Told
  <2> QED
    BY <2>1, <2>2, <2>3, <2>4, NamingFollows DEF Taken
<1>8. CASE Record(p)
  <2> DEFINE pushed == {<<d.user, j>> : j \in d.claimed}
  <2>1. /\ proc'[p].pc \in {"batch", "next", "idle"}
        /\ \A q \in Process \ {p} : proc'[q] = proc[q]
    <3>1. CASE account[d.user] = "live"
      <4> DEFINE st == [d EXCEPT !.claimed = {}, !.text = {},
                           !.answer = "ticket", !.old = Forget(@, pushed),
                           !.pc = IF d.pass = "send" THEN "batch" ELSE "next"]
      <4>1. proc' = [proc EXCEPT ![p] = st]
        BY <1>1, <1>8, <3>1 DEF Record
      <4>2. st.pc \in {"batch", "next"}
        BY <1>1 DEF Proc
      <4> HIDE DEF st
      <4> QED
        BY <1>1, <4>1, <4>2
    <3>2. CASE account[d.user] # "live"
      BY <1>1, <1>8, <3>2, Idles DEF Record
    <3> QED
      BY <3>1, <3>2
  <2>2. d.pc = "record" /\ named' = named
    BY <1>8 DEF Record, ghosts
  <2>3. d.pass \in Pass /\ d.answer \in Answer
    BY <1>1 DEF Proc
  <2>4. d.answer = "ticket" => pushed \subseteq named
    BY <1>1, <2>2 DEF Told
  <2>5. \A x \in Pair :
           \/ receipts'[x] = receipts[x]
           \/ /\ x \in pushed
              /\ \E n : receipts'[x].state = Outcome(d.pass, d.answer, n)
    <3> DEFINE m(x) == d.old[x].attempts + IF d.pass = "send" THEN 0 ELSE 1
    <3>1. CASE account[d.user] = "live"
      <4>1. \A x \in Pair : receipts'[x] =
               IF x \in pushed
               THEN [state |-> Outcome(d.pass, d.answer, m(x)),
                     attempts |-> m(x)]
               ELSE receipts[x]
        BY <1>8, <3>1 DEF Record
      <4>2. ASSUME NEW x \in Pair, x \in pushed
            PROVE  receipts'[x].state = Outcome(d.pass, d.answer, m(x))
        <5> HIDE DEF m, pushed
        <5>1. receipts'[x] = [state |-> Outcome(d.pass, d.answer, m(x)),
                              attempts |-> m(x)]
          BY <4>1, <4>2
        <5> QED
          BY <5>1
      <4> HIDE DEF m, pushed
      <4> QED
        BY <4>1, <4>2
    <3>2. CASE account[d.user] # "live"
      BY <1>8, <3>2 DEF Record
    <3> QED
      BY <3>1, <3>2
  <2>6. \A n : Outcome(d.pass, d.answer, n) \in {"accepted", "delivered"}
                 => d.answer = "ticket"
    BY <2>3 DEF Outcome, Pass, Answer
  <2> HIDE DEF pushed
  <2>7. \A x \in Pair : Taken(x)' => Taken(x) \/ x \in named'
    BY <2>2, <2>4, <2>5, <2>6 DEF Taken
  <2> QED
    BY <2>1, <2>2, <2>7, NamingFollows DEF Told
<1> QED
  BY <1>2, <1>3, <1>4, <1>5, <1>6, <1>7, <1>8 DEF Step

(* A pass that writes does not say that a push was taken that was not.     *)
LEMMA WriteNamesNothing ==
    ASSUME IInv, NEW u \in User, NEW xs \in SUBSET Pair,
           NEW state \in {"delivered", "failed", "dropped"},
           xs \subseteq proc[Drain].list, \A x \in xs : x[1] = u,
           proc[Drain].pc = "next", Write(u, xs, state),
           state = "delivered" => proc[Drain].pass = "inspect"
    PROVE  /\ proc'[Drain].pc \in {"next", "idle"}
           /\ \A q \in Process \ {Drain} : proc'[q] = proc[q]
           /\ \A x \in Pair : Taken(x)' => Taken(x)
<1> DEFINE d == proc[Drain]
<1>1. /\ proc \in [Process -> Proc] /\ d \in Proc
      /\ receipts \in [Pair -> Receipt] /\ d.old \in [Pair -> Receipt]
  BY Idles DEF IInv, TypeOK, Proc
<1>2. /\ proc'[Drain].pc \in {"next", "idle"}
      /\ \A q \in Process \ {Drain} : proc'[q] = proc[q]
  BY <1>1, Idles DEF Write, Proc
<1>3. \A x \in xs : [d.old[x] EXCEPT !.state = state].state = state
  BY <1>1 DEF Receipt
<1>4. ASSUME NEW x \in xs, account[u] = "live", state = "delivered"
      PROVE  Taken(x)
  <2>1. Works(Drain, x) /\ d.pass = "inspect" /\ x \in Pair
    BY <1>4 DEF Works
  <2> QED
    BY <1>4, <2>1, Idles DEF IInv, Core, Fresh, Unchanged, Expected, Taken
<1>5. \A x \in Pair : Taken(x)' => Taken(x)
  <2>1. CASE account[u] = "live"
    <3>1. \A x \in Pair : receipts'[x] = IF x \in xs
                             THEN [d.old[x] EXCEPT !.state = state]
                             ELSE receipts[x]
      BY <2>1 DEF Write
    <3> QED
      BY <1>3, <1>4, <2>1, <3>1 DEF Taken
  <2>2. CASE account[u] # "live"
    BY <2>2 DEF Write, Taken
  <2> QED
    BY <2>1, <2>2
<1> QED
  BY <1>2, <1>5

LEMMA SendRolesMove ==
    ASSUME IInv, NEW p \in Process, NEW roles, NEW ready,
           SendRoles(p, roles, ready)
    PROVE  /\ proc'[p].pc = "next"
           /\ \A q \in Process \ {p} : proc'[q] = proc[q]
<1> DEFINE st == [Idle EXCEPT !.pc = "next", !.roles = roles,
                     !.ready = ready, !.users = active, !.devices = active]
<1>1. proc' = [proc EXCEPT ![p] = st] /\ proc \in [Process -> Proc]
  BY DEF SendRoles, IInv, TypeOK
<1>2. st.pc = "next"
  BY DEF Idle
<1> HIDE DEF st
<1> QED
  BY <1>1, <1>2

LEMMA BeginPassMoves ==
    ASSUME IInv, NEW pass, BeginPass(pass)
    PROVE  /\ proc'[Drain].pc = "next"
           /\ \A q \in Process \ {Drain} : proc'[q] = proc[q]
<1> DEFINE seen == [x \in Pair |-> IF x \in Listed(pass) THEN receipts[x]
                                   ELSE NoReceipt]
           st == [Idle EXCEPT !.pc = "next", !.pass = pass, !.devices = active,
                     !.list = Listed(pass), !.old = seen]
<1>1. proc' = [proc EXCEPT ![Drain] = st] /\ proc \in [Process -> Proc]
  BY DEF BeginPass, IInv, TypeOK
<1>2. st.pc = "next"
  BY DEF Idle
<1> HIDE DEF st
<1> QED
  BY <1>1, <1>2, Idles

(* Steps of the rest of the drain.                                         *)
LEMMA DrainKeepsNaming ==
    ASSUME IInv, Naming, DeferredPushesNameAll',
           \/ StartDrain \/ MarkRoles \/ EndPass
           \/ \E u \in User : DeliverDeferred(u)
           \/ \E u \in User, j \in Role : InspectReceipt(u, j) \/ RetryReceipt(u, j)
    PROVE  Naming'
<1> DEFINE d == proc[Drain]
<1>1. /\ proc \in [Process -> Proc] /\ d \in Proc /\ Drain \in Process
      /\ Idle \in Proc /\ d.list \subseteq Pair
  BY Idles DEF IInv, TypeOK, Proc
<1>2. \A x \in Pair : x = <<x[1], x[2]>> /\ x[1] \in User /\ x[2] \in Role
  BY DEF Pair
<1>3. CASE StartDrain \/ MarkRoles \/ EndPass
  <2>1. /\ proc'[Drain].pc \in {"next", "idle"}
        /\ \A q \in Process \ {Drain} : proc'[q] = proc[q]
    <3>1. CASE StartDrain
      BY <1>1, <3>1, SendRolesMove DEF StartDrain
    <3>2. CASE MarkRoles
      BY <1>1, <3>2, BeginPassMoves DEF MarkRoles
    <3>3. CASE EndPass
      BY <1>1, <3>3, Idles, BeginPassMoves DEF EndPass
    <3> QED
      BY <1>3, <3>1, <3>2, <3>3
  <2>2. receipts' = receipts /\ named' = named
    BY <1>3 DEF StartDrain, MarkRoles, EndPass, ghosts
  <2> QED
    BY <1>1, <2>1, <2>2, NamingFollows DEF Told, Taken
<1>4. CASE \E u \in User : DeliverDeferred(u)
  <2>1. PICK u \in User : DeliverDeferred(u)
    BY <1>4
  <2> DEFINE xs == {u} \X {j \in Role : <<u, j>> \in d.list}
  <2>2. d.pc = "next" /\ d.pass = "deferred" /\ named' = named
    BY <2>1 DEF DeliverDeferred, ghosts
  <2>3. CASE Reachable(u)
    <3>1. /\ proc'[Drain].pc = "publish" /\ proc'[Drain].pass = "deferred"
          /\ receipts' = receipts
          /\ \A q \in Process \ {Drain} : proc'[q] = proc[q]
      <4> DEFINE roles == {j \in Role : <<u, j>> \in d.list}
                 card == Cardinality(roles) >= MinimumRoles \/ u \in cards
      <4>1. PICK text, list :
               /\ proc' = [proc EXCEPT ![Drain].pc = "publish",
                              ![Drain].user = u, ![Drain].claimed = roles,
                              ![Drain].text = text, ![Drain].list = list]
               /\ receipts' = receipts
        <5>1. PICK first \in roles :
                 /\ proc' = [proc EXCEPT ![Drain].pc = "publish",
                                ![Drain].user = u, ![Drain].claimed = roles,
                                ![Drain].text = IF card THEN roles
                                                ELSE {first},
                                ![Drain].list = @ \ ({u} \X roles)]
                 /\ receipts' = receipts
          BY <2>1, <2>3 DEF DeliverDeferred
        <5> HIDE DEF roles, card
        <5> QED
          BY <5>1
      <4> HIDE DEF roles
      <4> QED
        BY <1>1, <2>2, <4>1 DEF Proc
    <3> QED
      BY <1>1, <2>2, <3>1, NamingFollows DEF Told, Taken, DeferredPushesNameAll
  <2>4. CASE ~Reachable(u)
    <3>1. Write(u, xs, "failed")
      BY <2>1, <2>4 DEF DeliverDeferred
    <3>2. xs \in SUBSET Pair /\ xs \subseteq d.list /\ \A x \in xs : x[1] = u
      BY DEF Pair
    <3> HIDE DEF xs
    <3>3. /\ proc'[Drain].pc \in {"next", "idle"}
          /\ \A q \in Process \ {Drain} : proc'[q] = proc[q]
          /\ \A x \in Pair : Taken(x)' => Taken(x)
      BY <2>2, <3>1, <3>2, WriteNamesNothing
    <3> QED
      BY <1>1, <2>2, <3>3, NamingFollows DEF Told
  <2> QED
    BY <2>3, <2>4
<1>5. ASSUME NEW u \in User, NEW j \in Role, InspectReceipt(u, j)
      PROVE  Naming'
  <2> DEFINE x == <<u, j>>
  <2>1. /\ d.pc = "next" /\ d.pass = "inspect" /\ named' = named
        /\ {x} \in SUBSET Pair /\ {x} \subseteq d.list
        /\ \A y \in {x} : y[1] = u
    BY <1>5 DEF InspectReceipt, Pair
  <2>2. \/ /\ proc' = [proc EXCEPT ![Drain].list = @ \ {x},
                                   ![Drain].old = Forget(@, {x})]
           /\ receipts' = receipts
        \/ Write(u, {x}, "delivered") \/ Write(u, {x}, "failed")
    BY <1>5 DEF InspectReceipt
  <2> HIDE DEF x
  <2>3. /\ proc'[Drain].pc \in {"next", "idle"}
        /\ \A q \in Process \ {Drain} : proc'[q] = proc[q]
        /\ \A y \in Pair : Taken(y)' => Taken(y)
    <3>1. CASE /\ proc' = [proc EXCEPT ![Drain].list = @ \ {x},
                                       ![Drain].old = Forget(@, {x})]
               /\ receipts' = receipts
      BY <1>1, <2>1, <3>1 DEF Proc, Taken
    <3>2. CASE Write(u, {x}, "delivered") \/ Write(u, {x}, "failed")
      BY <2>1, <3>2, WriteNamesNothing
    <3> QED
      BY <2>2, <3>1, <3>2
  <2> QED
    BY <1>1, <2>1, <2>3, NamingFollows DEF Told
<1>6. ASSUME NEW u \in User, NEW j \in Role, RetryReceipt(u, j)
      PROVE  Naming'
  <2> DEFINE x == <<u, j>>
             again == Reachable(u) /\ d.old[x].attempts < MaxAttempts
  <2>0. /\ d.pc = "next" /\ d.pass = "retry" /\ x \in d.list /\ x \in Pair
        /\ x[1] = u /\ UNCHANGED ghosts
    BY <1>6 DEF RetryReceipt, Pair
  <2>1. /\ d.pc = "next" /\ d.pass = "retry" /\ named' = named
        /\ {x} \in SUBSET Pair /\ {x} \subseteq d.list
        /\ \A y \in {x} : y[1] = u
    BY <2>0 DEF ghosts
  <2>2. CASE again
    <3>1. /\ proc'[Drain].pc = "publish" /\ proc'[Drain].claimed = {j}
          /\ proc'[Drain].text = {j} /\ receipts' = receipts
          /\ \A q \in Process \ {Drain} : proc'[q] = proc[q]
      <4>1. /\ proc' = [proc EXCEPT ![Drain].pc = "publish",
                           ![Drain].user = u, ![Drain].claimed = {j},
                           ![Drain].text = {j}, ![Drain].list = @ \ {x}]
            /\ receipts' = receipts
        BY <1>6, <2>0, <2>2 DEF RetryReceipt
      <4> HIDE DEF x
      <4> QED
        BY <1>1, <4>1 DEF Proc
    <3> QED
      BY <1>1, <2>1, <3>1, NamingFollows DEF Told, Taken
  <2>3. CASE ~again
    <3>1. Write(u, {x}, "dropped")
      BY <1>6, <2>3 DEF RetryReceipt
    <3> HIDE DEF x
    <3>2. /\ proc'[Drain].pc \in {"next", "idle"}
          /\ \A q \in Process \ {Drain} : proc'[q] = proc[q]
          /\ \A y \in Pair : Taken(y)' => Taken(y)
      BY <2>1, <3>1, WriteNamesNothing
    <3> QED
      BY <1>1, <2>1, <3>2, NamingFollows DEF Told
  <2> QED
    BY <2>2, <2>3
<1> QED
  BY <1>3, <1>4, <1>5, <1>6

LEMMA NamingStep ==
    IInv /\ Naming /\ DeferredPushesNameAll' /\ [Next]_vars => Naming'
<1> SUFFICES ASSUME IInv, Naming, DeferredPushesNameAll', [Next]_vars
             PROVE  Naming'
  OBVIOUS
<1>1. CASE UNCHANGED vars
  BY <1>1, Idles, NamingFollows DEF vars, Told, Taken, Naming
<1>2. CASE DrainStep
  BY <1>2, Idles, SendKeepsNaming, DrainKeepsNaming DEF DrainStep
<1>3. ASSUME NEW s \in Sender, SenderStep(s) PROVE Naming'
  <2>1. s \in Process /\ proc \in [Process -> Proc] /\ proc[s] \in Proc
    BY DEF Process, IInv, TypeOK
  <2>2. CASE Step(s)
    BY <2>1, <2>2, SendKeepsNaming
  <2>3. CASE EndPoll(s) \/ \E j \in Role : CommitRole(s, j)
    <3>1. /\ proc'[s].pc \in {"next", "idle", "poll"}
          /\ \A q \in Process \ {s} : proc'[q] = proc[q]
      <4>1. CASE EndPoll(s)
        BY <2>1, <4>1, Idles, SendRolesMove DEF EndPoll
      <4>2. CASE \E j \in Role : CommitRole(s, j)
        BY <2>1, <4>2 DEF CommitRole, Proc
      <4> QED
        BY <2>3, <4>1, <4>2
    <3> QED
      BY <2>1, <2>3, <3>1, NamingFollows
      DEF EndPoll, CommitRole, Told, Taken, ghosts
  <2> QED
    BY <1>3, <2>2, <2>3 DEF SenderStep
<1>4. CASE Environment
  <2>1. CASE \E p \in Process : Crash(p)
    <3>1. PICK p \in Process : Crash(p)
      BY <2>1
    <3>2. /\ proc'[p].pc = "idle" /\ \A q \in Process \ {p} : proc'[q] = proc[q]
      BY <3>1, Idles DEF Crash, IInv, TypeOK
    <3> QED
      BY <3>1, <3>2, NamingFollows DEF Crash, Told, Taken
  <2>2. CASE \/ \E x \in Pair : TimeComes(x)
             \/ \E u \in User : ChangeSettings(u) \/ BeginDeletion(u)
                                \/ DeleteUser(u)
    <3>1. proc' = proc /\ named' = named
      BY <2>2 DEF TimeComes, ChangeSettings, BeginDeletion, DeleteUser, ghosts
    <3>2. \A x \in Pair : Taken(x)' => Taken(x)
      <4>1. receipts \in [Pair -> Receipt] /\ NoReceipt.state = "none"
        BY Idles DEF IInv, TypeOK
      <4>2. \A x \in Pair : \/ receipts'[x] = receipts[x]
                            \/ receipts'[x].state \in {"due", "none"}
        BY <2>2, <4>1
        DEF TimeComes, ChangeSettings, BeginDeletion, DeleteUser, Receipt
      <4> QED
        BY <4>2 DEF Taken
    <3> QED
      BY <3>1, <3>2, Idles, NamingFollows DEF Told, Naming
  <2> QED
    BY <1>4, <2>1, <2>2 DEF Environment
<1> QED
  BY <1>1, <1>2, <1>3, <1>4 DEF Next

(* A role the provider accepted for a user was in the text of a push, as   *)
(* long as the drain's deferred pushes name all of their roles. What the   *)
(* run push_silent shows is the only way to an alert that nobody reads.    *)
THEOREM OnlyDeferredPushesAreSilent ==
    Spec /\ []DeferredPushesNameAll => []AcceptedRolesWereNamed
<1>1. Init => Naming
  <2> SUFFICES ASSUME Init PROVE Naming
    OBVIOUS
  <2>1. IInv /\ \A p \in Process : proc[p] = Idle
    BY IInvInit DEF Init
  <2>2. \A x \in Pair : receipts[x].state = "none"
    BY Idles DEF Init
  <2> QED
    BY <2>1, <2>2, Idles DEF Naming, AcceptedRolesWereNamed, Told
<1>2. Naming => AcceptedRolesWereNamed
  BY DEF Naming
<1> QED
  BY <1>1, <1>2, NamingStep, PushInvariance, PTL DEF Spec
=============================================================================
