-------------------------------- MODULE TaskOps --------------------------------
(***************************************************************************)
(* The task state machine: creation, claim and reclaim, update, release,   *)
(* cancellation, work report, review and integration.                      *)
(***************************************************************************)
EXTENDS RoomState

\* Fault: an update that leaves the verification and integration faces alone.
StatusRowTwoColumns(t, status) ==
    [task[t] EXCEPT !.status = status,
                    !.exec = TaskStateForLegacyStatus(status, task[t].verif).exec]

StatusRow(t, status) ==
    SetFaces(task[t], status, TaskStateForLegacyStatus(status, task[t].verif))

CreateTask(s, t, D) ==
    /\ Authenticated(s)
    /\ t \notin Created
    /\ D \subseteq Created
    /\ task' = [task EXCEPT ![t] = SetFaces(@, "todo",
                                     MakeFaces("todo", "not_required", "pending"))]
    /\ deps' = [deps EXCEPT ![t] = D]
    /\ UNCHANGED <<sess, latest, lease, handoff, assignment>>

-------------------------------------------------------------------------------
Integrated(t) == task[t].verif = "approved" /\ task[t].integ = "done"

\* claim_task on an unowned task.
ClaimTask(s, t) ==
    /\ Authenticated(s)
    /\ task[t].owner = None
    /\ task[t].exec = "todo"
    /\ \A d \in deps[t] : Integrated(d)
    /\ task' = [task EXCEPT ![t].owner = s, ![t].status = "claimed",
                            ![t].exec = "claimed"]
    /\ UNCHANGED <<sess, latest, deps, lease, handoff, assignment>>

\* claim_task with reclaim or takeover.  reclaim is refused while the owner is
\* connected, takeover is not, so the owner's presence guards nothing here.
MayReclaim(s, t) ==
    /\ task[t].owner \notin {None, s}
    /\ SameAgentIdentity(s, task[t].owner)
    /\ InWork(t)

ReclaimTask(s, t) ==
    /\ Authenticated(s)
    /\ MayReclaim(s, t)
    /\ task' = [task EXCEPT ![t].owner = s]
    /\ lease' = [l \in Leases |-> IF l \in OwnerLeases(t, task[t].owner)
                                  THEN [lease[l] EXCEPT !.sess = s] ELSE lease[l]]
    /\ UNCHANGED <<sess, latest, deps, handoff, assignment>>

-------------------------------------------------------------------------------
\* Faults: a release that keeps the owner, and one that forgets the verdict.
ReleaseRowOwned(t) == StatusRow(t, "todo")
ReleaseRowForgetful(t) ==
    [SetFaces(task[t], "todo", MakeFaces("todo", "not_required", "pending"))
       EXCEPT !.owner = None]

\* _release_task_locked: back to the claimable pool.  Only the owner's leases
\* for the task are released; every pending assignment and handoff is cancelled.
ReleaseRow(t) == [StatusRow(t, "todo") EXCEPT !.owner = None]

ReleaseTaskLocked(t) ==
    /\ InWork(t)
    /\ task[t].owner # None
    /\ task' = [task EXCEPT ![t] = ReleaseRow(t)]
    /\ ReleaseLeases(OwnerLeases(t, task[t].owner))
    /\ DropAssignments(PendingAssignments(t))
    /\ handoff' = [handoff EXCEPT ![t] = NoHandoff]
    /\ UNCHANGED <<sess, latest>>

ReleaseTask(actor, t) ==
    /\ SessionOrManagement(actor)
    /\ actor # None => task[t].owner = actor
    /\ ReleaseTaskLocked(t)
    /\ UNCHANGED deps

-------------------------------------------------------------------------------
MayUpdate(actor, t) ==
    /\ SessionOrManagement(actor)
    /\ t \in Created
    /\ actor # None => task[t].owner \in {None, actor}

\* Fault: only the direct dependencies are searched for a cycle.
ReachesDirectly(a, b) == b \in deps[a]

\* The recursive query: b is in every set that holds a's dependencies and is
\* closed under the dependencies of its members.
Reaches(a, b) ==
    \A S \in SUBSET Tasks :
        (deps[a] \subseteq S /\ \A x \in S : deps[x] \subseteq S) => b \in S

DependenciesAllowed(t, D) ==
    /\ D \subseteq Created \ {t}
    /\ \A d \in D : ~Reaches(d, t)

\* Dependencies are part of the contract a review locks; D = deps[t] is a call
\* that does not pass depends_on.
WriteDependencies(t, status, D) ==
    /\ D = deps[t] \/ status \notin StructuredStatuses
    /\ DependenciesAllowed(t, D)
    /\ deps' = [deps EXCEPT ![t] = D]

\* Every update rewrites the three faces from the status, also when the status
\* is not part of the call (next is then the current one).
StatusWrite(t, next) ==
    /\ next \in LegacyTaskTransitions[task[t].status]
    /\ next # task[t].status => next \notin StructuredStatuses
    /\ task' = [task EXCEPT ![t] =
                  [StatusRow(t, next) EXCEPT
                     !.owner = IF next \in {"todo", "cancelled"} THEN None ELSE @]]

\* The cleanup of a cancellation hangs on the event type, and leaving "blocked"
\* is named task.unblocked before task.cancelled is considered.
CancelCleanup(t, next) ==
    next = "cancelled" /\ task[t].status \notin {"blocked", "cancelled"}

ReleasesFirst(t, next) == next = "todo" /\ task[t].owner # None /\ InWork(t)

UpdateTask(actor, t, next, D) ==
    /\ MayUpdate(actor, t)
    /\ ~ReleasesFirst(t, next)
    /\ ~CancelCleanup(t, next)
    /\ StatusWrite(t, next)
    /\ WriteDependencies(t, task[t].status, D)
    /\ UNCHANGED <<sess, latest, lease, handoff, assignment>>

\* _cancel_task_resources_locked: the leases of every session, unlike a release.
CancelTask(actor, t, D) ==
    /\ MayUpdate(actor, t)
    /\ CancelCleanup(t, "cancelled")
    /\ StatusWrite(t, "cancelled")
    /\ WriteDependencies(t, task[t].status, D)
    /\ ReleaseLeases(TaskLeases(t))
    /\ DropAssignments(PendingAssignments(t))
    /\ handoff' = [handoff EXCEPT ![t] = NoHandoff]
    /\ UNCHANGED <<sess, latest>>

\* task_update(status=todo) on a task in work is a release, after which the
\* other fields of the call are written to the released row.
ReleaseByUpdate(actor, t, D) ==
    /\ MayUpdate(actor, t)
    /\ ReleasesFirst(t, "todo")
    /\ ReleaseTaskLocked(t)
    /\ WriteDependencies(t, "todo", D)

-------------------------------------------------------------------------------
\* submit_work_report: the checks made before git is asked are made again in
\* the writing transaction, so only the latter guard the step.
WorkReport(s, t) ==
    /\ Authenticated(s)
    /\ task[t].owner = s
    /\ InWork(t)
    /\ task' = [task EXCEPT ![t] =
                  [SetFaces(@, "awaiting_review",
                            MakeFaces("completed", "pending", "pending"))
                     EXCEPT !.reporter = MemberOf[s], !.reviewer = None]]
    /\ ReleaseLeases(OwnerLeases(t, s))
    /\ UNCHANGED <<sess, latest, deps, handoff, assignment>>

AwaitingReview(t) ==
    /\ task[t].status = "awaiting_review"
    /\ task[t].exec = "completed"
    /\ task[t].verif = "pending"

\* Fault: independence decided by session instead of identity.
IndependentSession(s, t) == task[t].owner # s

Independent(s, t) == task[t].owner = None \/ ~SameAgentIdentity(s, task[t].owner)

VerdictRow(t, approved) ==
    IF approved
    THEN SetFaces(task[t], "verified", MakeFaces("completed", "approved", "pending"))
    ELSE SetFaces(task[t], "in_progress",
                  MakeFaces("in_progress", "changes_requested", "pending"))

SubmitReview(s, t, approved) ==
    /\ Authenticated(s)
    /\ AwaitingReview(t)
    /\ Independent(s, t)
    /\ task' = [task EXCEPT ![t] =
                  [VerdictRow(t, approved) EXCEPT !.reviewer = MemberOf[s]]]
    /\ UNCHANGED <<sess, latest, deps, lease, handoff, assignment>>

SubmitIntegration(actor, t, result) ==
    /\ SessionOrManagement(actor)
    /\ task[t].status = "verified"
    /\ task[t].exec = "completed" /\ task[t].verif = "approved"
    /\ task[t].integ # "done"
    /\ task' = [task EXCEPT ![t].status = IF result = "done" THEN "done" ELSE "verified",
                            ![t].integ = result]
    /\ UNCHANGED <<sess, latest, deps, lease, handoff, assignment>>
===============================================================================
