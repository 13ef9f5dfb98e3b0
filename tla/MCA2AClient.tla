---------------------------- MODULE MCA2AClient ----------------------------
(* Instances of A2AClient for TLC.                                         *)
EXTENDS A2AClient, TLC
=============================================================================
