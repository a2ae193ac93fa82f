----------------------------- MODULE LanePromise ------------------------------
(***************************************************************************)
(* What the admission lane promises to whoever reads its ledger. For each  *)
(* role the ledger states a verdict, or none for the time being:           *)
(*                                                                         *)
(*   admitted  the catalog shows the role with this material,              *)
(*   blocked   the catalog does not show the role,                         *)
(*   gone      its source no longer lists the role, nor does the catalog.  *)
(*                                                                         *)
(* The catalog changes only while the ledger states none, a verdict that   *)
(* is stated is true, and it has to be withdrawn before another is stated. *)
(* A role alerts at most once, and only in a step that shows it: the first *)
(* time, or later when the role is promoted. Nothing that hides a role, or *)
(* states or withdraws a verdict on it, raises or takes back an alert.     *)
(***************************************************************************)
CONSTANTS Id, Material, None

VARIABLES verdict, catalog, alerts

Verdict == [kind : {"none", "blocked", "gone"}, material : {None}]
              \cup [kind : {"admitted"}, material : Material]
NoVerdict == [kind |-> "none", material |-> None]

Init ==
    /\ verdict = [i \in Id |-> NoVerdict]
    /\ catalog = [i \in Id |-> "none"] /\ alerts = {}

Show(i) ==
    /\ verdict[i] = NoVerdict
    /\ \E m \in Material : catalog' = [catalog EXCEPT ![i] = m]
    /\ alerts' \in {alerts, alerts \cup {i}}
    /\ UNCHANGED verdict

Hide(i) ==
    /\ verdict[i] = NoVerdict /\ catalog[i] # "none"
    /\ catalog' = [catalog EXCEPT ![i] = "closed"]
    /\ UNCHANGED <<verdict, alerts>>

True(v, role) ==
    IF v.kind = "admitted" THEN role = v.material ELSE role \in {"none", "closed"}

State(i) ==
    /\ verdict[i] = NoVerdict
    /\ \E v \in Verdict \ {NoVerdict} :
          True(v, catalog[i]) /\ verdict' = [verdict EXCEPT ![i] = v]
    /\ UNCHANGED <<catalog, alerts>>

Withdraw(i) ==
    /\ verdict' = [verdict EXCEPT ![i] = NoVerdict]
    /\ UNCHANGED <<catalog, alerts>>

Next == \E i \in Id : Show(i) \/ Hide(i) \/ State(i) \/ Withdraw(i)

Spec == Init /\ [][Next]_<<verdict, catalog, alerts>>
=============================================================================
