------------------------------ MODULE MCRegistry ------------------------------
(***************************************************************************)
(* Two directories, d1 and d2, each the top of a work tree of its own: two *)
(* clones, which may get the same origin.  A behaviour has two calls that  *)
(* overlap, or one call and directories that are named without a check;    *)
(* it stays with what it has.                                              *)
(***************************************************************************)
EXTENDS Registry, TLC

CONSTANTS d1, d2, top

VARIABLE part

TwoTrees == {d1, d2}
TreeRoot == [d \in TwoTrees |-> d]
TreePath == [d \in TwoTrees |-> top]

MCInit == Init /\ part \in {"overlap", "unchecked"}

MCNext ==
    /\ Next
    /\ part = "overlap" => named' = {}
    /\ part = "unchecked" => \E c \in Calls : \A b \in Calls \ {c} : call'[b].pc = "idle"
    /\ UNCHANGED part

MCSpec == MCInit /\ [][MCNext]_<<vars, part>>

Symmetry == Permutations(Keys) \cup Permutations(Calls) \cup Permutations(Dirs)
=============================================================================
