--------------------------- MODULE MCAdmissionLane ---------------------------
(***************************************************************************)
(* Instances of AdmissionLane for TLC.                                     *)
(***************************************************************************)
EXTENDS AdmissionLane, TLC

Symmetry == Permutations(Consumer) \cup Permutations(Material) \cup Permutations(Id)
=============================================================================
