---------------------------- MODULE MCPushDelivery ----------------------------
(***************************************************************************)
(* Instances of PushDelivery for TLC.                                      *)
(***************************************************************************)
EXTENDS PushDelivery
=============================================================================
