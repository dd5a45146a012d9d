----------------------------- MODULE MCIdempotent -----------------------------
(***************************************************************************)
(* Instances of IdempotentWrite for TLC: names for its constants.  The run *)
(* checks liveness, so no symmetry is declared.                            *)
(***************************************************************************)
EXTENDS IdempotentWrite

CONSTANTS c1, c2, r1, i1, i2
===============================================================================
