-------------------------- MODULE MCCatalogProjection --------------------------
(* The instances that the runs of the projection check: two versions with  *)
(* a card each and one that has both.                                      *)
EXTENDS CatalogProjection, TLC

CONSTANTS first, second, both, card1, card2

SharedCards == first :> {card1} @@ second :> {card2} @@ both :> {card1, card2}
OwnCards == first :> {card1} @@ second :> {card2}
AnyRefresh == Permutations(Process)
=============================================================================
