---------------------------- MODULE MCCatalogMirror ----------------------------
(* The instance that the run of the mirror checks: a version of two pages  *)
(* and one of one.                                                         *)
EXTENDS CatalogMirror, TLC

CONSTANTS a, b

TwoAndOne == a :> 2 @@ b :> 1
=============================================================================
