------------------------------ MODULE MCAuditLog ------------------------------
(* Instances of AuditLog for TLC.                                          *)
EXTENDS AuditLog, TLC

MCSymmetry == Permutations(Recorders) \cup Permutations(Clearers)
=============================================================================
