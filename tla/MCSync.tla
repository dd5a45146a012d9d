-------------------------------- MODULE MCSync --------------------------------
(***************************************************************************)
(* RoomSync and LogViews: the readers of the event log.  They share the    *)
(* log only, so that a behaviour has one of them and stays with it.        *)
(***************************************************************************)
EXTENDS RoomSync, LogViews, TLC

VARIABLE part

syncOnly == <<readCursor, acks, request, joinedAt, told>>
viewsOnly == <<view, window, fetch, reports, reported>>

MCInit == Init /\ ViewsInit /\ part \in {"sync", "views"} /\ (part = "sync" => view = "audit")

MCNext ==
    \/ part = "sync" /\ Next /\ UNCHANGED <<viewsOnly, part>>
    \/ part = "views" /\ ViewsNext /\ UNCHANGED <<syncOnly, part>>

MCSpec == MCInit /\ [][MCNext]_<<vars, viewsOnly, part>>

RequestSymmetry == Permutations(Requests)
===============================================================================
