-------------------------- MODULE MCPostingCatalog --------------------------
(***************************************************************************)
(* Instances of PostingCatalog for TLC.                                    *)
(***************************************************************************)
EXTENDS PostingCatalog, TLC

Symmetry == Permutations(Official) \cup Permutations(Source \ Official)
=============================================================================
