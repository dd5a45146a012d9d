------------------------------ MODULE SessionOps ------------------------------
(***************************************************************************)
(* Joining and leaving a Room, heartbeats, and the two things nobody calls:*)
(* a client that dies and the clock.                                       *)
(***************************************************************************)
EXTENDS RoomState

CONSTANT MayDie    \* sessions whose client may disappear (a bound)

\* join_room: a new session row of an active member.  It neither closes the
\* member's other sessions nor moves their tasks and leases.
JoinRoom(s) ==
    /\ sess[s] = "absent"
    /\ sess' = [sess EXCEPT ![s] = "open"]
    /\ latest' = [latest EXCEPT ![MemberOf[s]] = s]
    /\ UNCHANGED <<task, deps, lease, handoff, assignment>>

\* Fault: only the leases still in force are released.
LeftBehindInForce(s) == {l \in Unreleased : lease[l].sess = s /\ lease[l].left > 0}

\* leave_session: every unreleased lease of the session is released with it;
\* the tasks it owns stay with it.
LeftBehind(s) == {l \in Unreleased : lease[l].sess = s}

LeaveSession(s) ==
    /\ Authenticated(s)
    /\ sess' = [sess EXCEPT ![s] = "left"]
    /\ ReleaseLeases(LeftBehind(s))
    /\ UNCHANGED <<latest, task, deps, handoff, assignment>>

\* Faults: a heartbeat that revives a lapsed lease, and one that renews for the
\* whole identity.
RenewableEvenLapsed(s) == {l \in Leases : lease[l].sess = s}
RenewableByIdentity(s) ==
    {l \in Unreleased : SameAgentIdentity(lease[l].sess, s) /\ lease[l].left > 0}

\* heartbeat renews what the session holds and has not lost yet.
Renewable(s) == {l \in Leases : lease[l].sess = s /\ lease[l].left > 0}

Heartbeat(s) ==
    /\ Authenticated(s)
    /\ lease' = [l \in Leases |-> IF l \in Renewable(s)
                                  THEN [lease[l] EXCEPT !.left = Ttl] ELSE lease[l]]
    /\ UNCHANGED <<sess, latest, task, deps, handoff, assignment>>

\* The client process is gone: the row stays as it is, with left_at NULL.
ClientDies(s) ==
    /\ s \in MayDie
    /\ sess[s] = "open"
    /\ sess' = [sess EXCEPT ![s] = "dead"]
    /\ UNCHANGED <<latest, task, deps, lease, handoff, assignment>>

\* Time passes; expires_at is compared with the clock, no row is written.
Tick ==
    /\ \E l \in Leases : lease[l].left > 0
    /\ lease' = [l \in Leases |-> IF lease[l].left > 0
                                  THEN [lease[l] EXCEPT !.left = @ - 1] ELSE lease[l]]
    /\ UNCHANGED <<sess, latest, task, deps, handoff, assignment>>
===============================================================================
