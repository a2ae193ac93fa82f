------------------------- MODULE MCAdmissionDispatch -------------------------
(***************************************************************************)
(* Instances of AdmissionDispatch for TLC.                                 *)
(***************************************************************************)
EXTENDS AdmissionDispatch, TLC

CONSTANTS i1

OneSource == (i1 :> 1)
=============================================================================
