------------------------------- MODULE LeaseOps -------------------------------
(***************************************************************************)
(* File leases: acquire_lease with its conflict test and same-member       *)
(* takeover, and release_lease.                                            *)
(***************************************************************************)
EXTENDS RoomState

LeaseModesConflict(left, right) ==
    /\ "readonly" \notin {left, right}
    /\ "exclusive" \in {left, right}

PatternsOverlap(p, q) == <<p, q>> \in Overlapping

\* released_at IS NULL AND expires_at > now: active purely by its own TTL.
Active(l) == lease[l].sess # None /\ lease[l].left > 0

\* A task may back a lease while it is unfinished and not somebody else's.
LeasableFor(s, t) ==
    \/ t = None
    \/ /\ t \in Created
       /\ task[t].exec \notin {"cancelled", "completed"}
       /\ task[t].owner \in {None, s}

\* Active leases of other sessions that the request collides with, those of the
\* caller's own identity (taken over) and those of others (a conflict).
Rivals(s, p, m) ==
    {l \in Leases : /\ Active(l)
                    /\ lease[l].sess # s
                    /\ PatternsOverlap(p, lease[l].path)
                    /\ LeaseModesConflict(m, lease[l].mode)}
Superseded(s, p, m) == {l \in Rivals(s, p, m) : SameAgentIdentity(lease[l].sess, s)}
Conflicts(s, p, m) == Rivals(s, p, m) \ Superseded(s, p, m)

AlreadyHeld(s, p) ==
    {l \in Leases : Active(l) /\ lease[l].sess = s /\ lease[l].path = p}

AcquireLease(s, l, p, m, t) ==
    /\ Authenticated(s)
    /\ LeasableFor(s, t)
    /\ Conflicts(s, p, m) = {}
    /\ AlreadyHeld(s, p) = {}
    /\ lease[l] = NoLease \/ l \in Superseded(s, p, m)
    /\ lease' = [k \in Leases |->
                   CASE k = l -> [sess |-> s, task |-> t, path |-> p,
                                  mode |-> m, left |-> Ttl]
                     [] k # l /\ k \in Superseded(s, p, m) -> NoLease
                     [] OTHER -> lease[k]]
    /\ UNCHANGED <<sess, latest, task, deps, handoff, assignment>>

\* The session already holds the pattern: its row is returned as it is, in the
\* mode it has, and only the superseded leases of its siblings go.
ReuseLease(s, p, m, t) ==
    /\ Authenticated(s)
    /\ LeasableFor(s, t)
    /\ Conflicts(s, p, m) = {}
    /\ AlreadyHeld(s, p) # {}
    /\ ReleaseLeases(Superseded(s, p, m))
    /\ UNCHANGED <<sess, latest, task, deps, handoff, assignment>>

\* A refused request still commits what it did before the refusal, unless it
\* carries a request id: then the enclosing idempotent transaction rolls back.
RefuseLease(s, p, m, t) ==
    /\ Authenticated(s)
    /\ LeasableFor(s, t)
    /\ Conflicts(s, p, m) # {}
    /\ \E hasRequestId \in BOOLEAN :
          IF hasRequestId THEN UNCHANGED lease ELSE ReleaseLeases(Superseded(s, p, m))
    /\ UNCHANGED <<sess, latest, task, deps, handoff, assignment>>

ReleaseLease(s, l) ==
    /\ Authenticated(s)
    /\ lease[l].sess = s
    /\ ReleaseLeases({l})
    /\ UNCHANGED <<sess, latest, task, deps, handoff, assignment>>
===============================================================================
