------------------------------- MODULE TaskRoom -------------------------------
(***************************************************************************)
(* One Project Room: sessions, the task state machine, delegation and file *)
(* leases together, with what they promise each other.                     *)
(***************************************************************************)
EXTENDS SessionOps, TaskOps, DelegationOps, LeaseOps

Init ==
    /\ sess = [s \in Sessions |-> "absent"]
    /\ latest = [m \in Members |-> None]
    /\ task = [t \in Tasks |-> AbsentTask]
    /\ deps = [t \in Tasks |-> {}]
    /\ lease = [l \in Leases |-> NoLease]
    /\ handoff = [t \in Tasks |-> NoHandoff]
    /\ assignment = [a \in Assignments |-> NoAssignment]

Actors == Sessions \cup {None}

SessionStep ==
    \E s \in Sessions : JoinRoom(s) \/ LeaveSession(s) \/ Heartbeat(s) \/ ClientDies(s)

ClaimStep ==
    \E s \in Sessions, t \in Tasks : ClaimTask(s, t) \/ ReclaimTask(s, t)

ContractStep ==
    \/ \E s \in Sessions, t \in Tasks, D \in SUBSET Tasks : CreateTask(s, t, D)
    \/ \E actor \in Actors, t \in Tasks : ReleaseTask(actor, t)
    \/ \E actor \in Actors, t \in Tasks, D \in SUBSET Tasks :
          \/ CancelTask(actor, t, D)
          \/ ReleaseByUpdate(actor, t, D)
          \/ \E next \in LegacyTaskStatuses : UpdateTask(actor, t, next, D)

EvidenceStep ==
    \/ \E s \in Sessions, t \in Tasks :
          WorkReport(s, t) \/ \E approved \in BOOLEAN : SubmitReview(s, t, approved)
    \/ \E actor \in Actors, t \in Tasks, result \in {"done", "failed"} :
          SubmitIntegration(actor, t, result)

Targets ==
    {NoTarget} \cup {SessionTarget(s) : s \in Sessions}
               \cup {MemberTarget(m) : m \in Members}

AssignmentStep ==
    \/ \E by \in Actors, t \in Tasks, target \in Targets, role \in BOOLEAN :
          \/ \E slot \in Assignments : AssignTask(by, t, target, role, slot)
          \/ RepeatAssignment(by, t, target, role)
    \/ \E s \in Sessions, a \in Assignments :
          AcceptAssignment(s, a) \/ RefuseAssignment(s, a)

HandoffStep ==
    \E t \in Tasks :
       \/ \E actor \in Actors, to \in Sessions : RequestHandoff(actor, t, to)
       \/ \E s \in Sessions : AcceptHandoff(s, t) \/ RefuseHandoff(s, t)

LeaseStep ==
    \E s \in Sessions :
       \/ \E p \in Paths, m \in Modes, t \in Tasks \cup {None} :
             \/ \E l \in Leases : AcquireLease(s, l, p, m, t)
             \/ ReuseLease(s, p, m, t)
             \/ RefuseLease(s, p, m, t)
       \/ \E l \in Leases : ReleaseLease(s, l)

Next ==
    \/ SessionStep \/ ClaimStep \/ ContractStep \/ EvidenceStep
    \/ AssignmentStep \/ HandoffStep \/ LeaseStep \/ Tick

Spec == Init /\ [][Next]_vars

\* Time passes whatever the clients do; nobody else is obliged to act.
FairSpec == Spec /\ WF_vars(Tick)

-------------------------------------------------------------------------------
\* The faces a legacy status stands for.
FacesAgree(r) ==
    CASE r.status \in ReopenExecution ->
            /\ r.exec = r.status
            /\ r.verif \in {"not_required", "changes_requested"}
            /\ r.integ = "pending"
      [] r.status = "awaiting_review" ->
            r.exec = "completed" /\ r.verif = "pending" /\ r.integ = "pending"
      [] r.status = "verified" ->
            /\ r.exec = "completed" /\ r.verif = "approved"
            /\ r.integ \in {"pending", "failed"}
      [] r.status = "done" ->
            r.exec = "completed" /\ r.verif = "approved" /\ r.integ = "done"
      [] r.status = "cancelled" ->
            r.exec = "cancelled" /\ r.verif = "not_required" /\ r.integ = "pending"

\* The eight legacy statuses are a function of the three faces and back: no
\* handler, whichever subset of the four columns it writes, lets them drift
\* apart (claim writes two columns, review four, integration two).
LegacyFacesAgree == \A t \in Created : FacesAgree(task[t])

\* The phase "unclassified" is for damaged data only: no sequence of commands
\* produces a triple of faces that task_view cannot name.
PhaseClassified ==
    \A t \in Created :
       TaskPhase(MakeFaces(task[t].exec, task[t].verif, task[t].integ)) # "unclassified"

\* A task has an owner exactly while somebody answers for it: never a claimable
\* or cancelled task with an owner, never work, review or result without one.
OwnedWhileAnswered ==
    \A t \in Tasks : (task[t].owner = None) <=>
                     (task[t].status \in {Absent, "todo", "cancelled"})

\* What is approved was reported by one identity and reviewed by another, after
\* any sequence of reclaims, handoffs, reassignments and releases in between.
IndependentApproval ==
    \A t \in Tasks : task[t].verif = "approved" =>
       /\ task[t].reporter # None /\ task[t].reviewer # None
       /\ task[t].reporter # task[t].reviewer

\* Two leases in force on overlapping patterns in conflicting modes belong to
\* the same identity, also after takeovers, reclaims, expiries and renewals.
LeaseExclusion ==
    \A k, l \in Leases :
       (/\ Active(k) /\ Active(l)
        /\ PatternsOverlap(lease[k].path, lease[l].path)
        /\ LeaseModesConflict(lease[k].mode, lease[l].mode))
       => SameAgentIdentity(lease[k].sess, lease[l].sess)

\* No lease outlives its holder's stay: leaving releases what was acquired,
\* inherited by a reclaim or renewed, and nobody who has left inherits.
LeaseHolderPresent ==
    \A l \in Unreleased : sess[lease[l].sess] \in {"open", "dead"}

\* The dependency graph has no cycle, whatever sequence of creations and edits
\* built it: every set of tasks has one that depends on none of the set.
Acyclic ==
    \A S \in SUBSET Tasks : S # {} => \E t \in S : deps[t] \cap S = {}

\* An integrated task is never touched again: no late answer to an assignment
\* or handoff, no update and no reclaim changes its status, faces or owner.
DoneIsFinal ==
    [][\A t \in Tasks : task[t].status = "done" => task'[t] = task[t]]_vars

\* An owner that has not left loses its task to another identity only by the
\* handoff that names both of them.
HandedOver(t) ==
    handoff[t].from = task[t].owner /\ handoff[t].to = task'[t].owner

NoSilentTakeover ==
    [][\A t \in Tasks :
         (/\ task[t].owner # None /\ task'[t].owner \notin {None, task[t].owner}
          /\ ~SameAgentIdentity(task[t].owner, task'[t].owner)
          /\ sess[task[t].owner] # "left")
         => HandedOver(t)]_vars

\* A request for changes stays visible through releases, claims, handoffs and
\* updates until the work is reported again or the task is cancelled.
ChangesRequestedRemembered ==
    [][\A t \in Tasks : task[t].verif = "changes_requested" =>
          \/ task'[t].verif = "changes_requested"
          \/ task'[t].status \in {"awaiting_review", "cancelled"}]_vars

\* The file leases of a client that died do not block the others for ever: they
\* lapse or move on, however often the sessions of its identity call.
DeadLeasesLapse ==
    \A s \in Sessions, l \in Leases :
       (sess[s] = "dead" /\ lease[l].sess = s) ~> ~(lease[l].sess = s /\ Active(l))
===============================================================================
