------------------------------ MODULE MCTaskRoom ------------------------------
(***************************************************************************)
(* Instances of TaskRoom for TLC.  Identity mA may hold two sessions at a  *)
(* time (a conversation and its successor), identity mB has one.           *)
(***************************************************************************)
EXTENDS TaskRoom, TLC

CONSTANTS sA1, sA2, sB, mA, mB, pDir, pFile

MCMemberOf == [s \in Sessions |-> IF s = sB THEN mB ELSE mA]

\* A directory pattern overlaps the file below it; both overlap themselves.
MCOverlapping == Paths \X Paths

LeaseSymmetry == Permutations(Leases)
SessionSymmetry == Permutations({sA1, sA2})
===============================================================================
