---------------------------- MODULE MCEdgesLapse ----------------------------
(***************************************************************************)
(* Two questions about TaskRoom that need few rows each: the edges between *)
(* three tasks, which one session edits, and the lease of a client that    *)
(* died, beside one task and three sessions.  No guard on an edge looks at *)
(* a lease, nor the other way round; a behaviour has one of the two and    *)
(* stays with it.                                                          *)
(***************************************************************************)
EXTENDS MCTaskRoom

VARIABLE part

MCInit == Init /\ part \in {"edges", "lapse"}

MCNext ==
    /\ Next
    /\ part = "edges" => /\ \A l \in Leases : lease'[l] = NoLease
                         /\ \A s \in Sessions \ {sB} : sess'[s] = "absent"
    /\ part = "lapse" => \E t \in Tasks : \A u \in Tasks \ {t} : task'[u] = AbsentTask
    /\ UNCHANGED part

\* Time passes whatever the clients do.
MCSpec == MCInit /\ [][MCNext]_<<vars, part>> /\ WF_vars(Tick)

\* Sound for DeadLeasesLapse: where there is a lease, there is one task for good.
TaskSymmetry == Permutations(Tasks)
=============================================================================
