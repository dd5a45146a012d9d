---------------------------- MODULE TaskRoomProofs ----------------------------
(***************************************************************************)
(* Proofs about TaskRoom: type correctness, on which the rest relies; the  *)
(* leases; the state machine of the tasks; the changes that were asked     *)
(* for; and the dependencies.  The invariants of the tasks speak of one    *)
(* row at a time, so the inductive invariant is RowInv of every row, and a *)
(* step has to be looked at only for the row it writes.  The graph of the  *)
(* dependencies, which relates the rows, comes last.                       *)
(***************************************************************************)
EXTENDS TaskRoom, TLAPS

-------------------------------------------------------------------------------
\* Rows and values.

\* task_state_for_legacy_status answers with a triple of known states.
LEMMA FacesTyped ==
    ASSUME NEW status \in LegacyTaskStatuses, NEW v \in VerificationStatuses
    PROVE  TaskStateForLegacyStatus(status, v) \in Faces
BY DEF LegacyTaskStatuses, VerificationStatuses, ExecutionStatuses,
       IntegrationStatuses, Faces, MakeFaces, TaskStateForLegacyStatus

\* Writing a status and a triple of known states into a row leaves a row.
LEMMA SetFacesTyped ==
    ASSUME NEW row \in TaskRows, NEW status \in LegacyTaskStatuses, NEW f \in Faces
    PROVE  SetFaces(row, status, f) \in TaskRows
BY DEF SetFaces, TaskRows, Faces

\* The row a status update writes.
LEMMA StatusRowTyped ==
    ASSUME TypeOK, NEW t \in Tasks, NEW status \in LegacyTaskStatuses
    PROVE  StatusRow(t, status) \in TaskRows
<1>1. task[t] \in TaskRows
  BY DEF TypeOK
<1>2. task[t].verif \in VerificationStatuses
  BY <1>1 DEF TaskRows
<1> QED BY <1>1, <1>2, FacesTyped, SetFacesTyped DEF StatusRow

\* The null rows are rows.
LEMMA NullRowsTyped ==
    /\ NoLease \in LeaseRows
    /\ NoHandoff \in HandoffRows
    /\ NoAssignment \in AssignmentRows
    /\ AbsentTask \in TaskRows
BY LeaseAssumption
   DEF NoLease, LeaseRows, NoHandoff, HandoffRows, NoAssignment, AssignmentRows,
       AbsentTask, TaskRows, SessionOrNull, MemberOrNull, ExecutionStatuses,
       VerificationStatuses, IntegrationStatuses, Absent

\* Releasing leases, dropping assignments and clearing a handoff keep the types.
LEMMA ReleasesTyped ==
    ASSUME TypeOK, NEW R
    PROVE  /\ ReleaseLeases(R) => lease' \in [Leases -> LeaseRows]
           /\ DropAssignments(R) => assignment' \in [Assignments -> AssignmentRows]
           /\ \A t \in Tasks : handoff' = [handoff EXCEPT ![t] = NoHandoff]
                               => handoff' \in [Tasks -> HandoffRows]
BY NullRowsTyped DEF TypeOK, ReleaseLeases, DropAssignments

-------------------------------------------------------------------------------
\* Type correctness, action by action.  The first rows are rows of the schema.
THEOREM InitTyped == Init => TypeOK
BY NullRowsTyped DEF Init, TypeOK, SessionStates, SessionOrNull

LEMMA SessionStepTyped == ASSUME TypeOK, SessionStep PROVE TypeOK'
<1> PICK s \in Sessions : JoinRoom(s) \/ LeaveSession(s) \/ Heartbeat(s) \/ ClientDies(s)
  BY DEF SessionStep
<1>1. CASE JoinRoom(s)
  BY <1>1, IdentityAssumption DEF JoinRoom, TypeOK, SessionStates, SessionOrNull
<1>2. CASE LeaveSession(s)
  BY <1>2, ReleasesTyped DEF LeaveSession, TypeOK, SessionStates
<1>3. CASE Heartbeat(s)
  <2>1. \A l \in Leases : [lease[l] EXCEPT !.left = Ttl] \in LeaseRows
    BY LeaseAssumption DEF TypeOK, LeaseRows
  <2> QED BY <1>3, <2>1 DEF Heartbeat, TypeOK
<1>4. CASE ClientDies(s)
  BY <1>4 DEF ClientDies, TypeOK, SessionStates
<1> QED BY <1>1, <1>2, <1>3, <1>4

LEMMA TickTyped == ASSUME TypeOK, Tick PROVE TypeOK'
<1>1. \A l \in Leases : lease[l].left > 0 =>
         [lease[l] EXCEPT !.left = @ - 1] \in LeaseRows
  <2> SUFFICES ASSUME NEW l \in Leases, lease[l].left > 0
               PROVE  [lease[l] EXCEPT !.left = @ - 1] \in LeaseRows
    OBVIOUS
  <2>1. lease[l] \in LeaseRows
    BY DEF TypeOK
  <2>2. lease[l].left - 1 \in 0..Ttl
    BY <2>1, LeaseAssumption DEF LeaseRows
  <2> QED BY <2>1, <2>2 DEF LeaseRows
<1> QED BY <1>1 DEF Tick, TypeOK

LEMMA ClaimStepTyped == ASSUME TypeOK, ClaimStep PROVE TypeOK'
<1> PICK s \in Sessions, t \in Tasks : ClaimTask(s, t) \/ ReclaimTask(s, t)
  BY DEF ClaimStep
<1>1. task[t] \in TaskRows
  BY DEF TypeOK
<1>2. CASE ClaimTask(s, t)
  BY <1>1, <1>2 DEF ClaimTask, TypeOK, TaskRows, SessionOrNull, LegacyTaskStatuses,
                    ExecutionStatuses
<1>3. CASE ReclaimTask(s, t)
  <2>1. \A l \in Leases : [lease[l] EXCEPT !.sess = s] \in LeaseRows
    BY DEF TypeOK, LeaseRows, SessionOrNull
  <2>2. task' \in [Tasks -> TaskRows]
    BY <1>1, <1>3 DEF ReclaimTask, TypeOK, TaskRows, SessionOrNull
  <2> QED BY <1>3, <2>1, <2>2 DEF ReclaimTask, TypeOK
<1> QED BY <1>2, <1>3

LEMMA StatusWriteTyped ==
    ASSUME TypeOK, NEW t \in Tasks, NEW next \in LegacyTaskStatuses, StatusWrite(t, next)
    PROVE  task' \in [Tasks -> TaskRows]
<1> DEFINE owner == IF next \in {"todo", "cancelled"} THEN None ELSE StatusRow(t, next).owner
<1>1. StatusRow(t, next) \in TaskRows
  BY StatusRowTyped
<1>2. owner \in SessionOrNull
  BY <1>1 DEF TaskRows, SessionOrNull
<1>3. [StatusRow(t, next) EXCEPT !.owner = owner] \in TaskRows
  BY <1>1, <1>2 DEF TaskRows
<1>4. task' = [task EXCEPT ![t] = [StatusRow(t, next) EXCEPT !.owner = owner]]
  BY DEF StatusWrite
<1> QED BY <1>3, <1>4 DEF TypeOK

LEMMA ReleaseLockedTyped ==
    ASSUME TypeOK, NEW t \in Tasks, ReleaseTaskLocked(t)
    PROVE  /\ task' \in [Tasks -> TaskRows]
           /\ lease' \in [Leases -> LeaseRows]
           /\ handoff' \in [Tasks -> HandoffRows]
           /\ assignment' \in [Assignments -> AssignmentRows]
<1>1. StatusRow(t, "todo") \in TaskRows
  BY StatusRowTyped DEF LegacyTaskStatuses
<1>2. ReleaseRow(t) \in TaskRows
  BY <1>1 DEF ReleaseRow, TaskRows, SessionOrNull
<1>3. task' \in [Tasks -> TaskRows]
  BY <1>2 DEF ReleaseTaskLocked, TypeOK
<1> QED BY <1>3, ReleasesTyped DEF ReleaseTaskLocked

LEMMA WriteDependenciesTyped ==
    ASSUME TypeOK, NEW t \in Tasks, NEW status, NEW D \in SUBSET Tasks,
           WriteDependencies(t, status, D)
    PROVE  deps' \in [Tasks -> SUBSET Tasks]
BY DEF TypeOK, WriteDependencies

LEMMA ContractStepTyped == ASSUME TypeOK, ContractStep PROVE TypeOK'
<1>1. ASSUME NEW s \in Sessions, NEW t \in Tasks, NEW D \in SUBSET Tasks,
             CreateTask(s, t, D)
      PROVE  TypeOK'
  <2>1. MakeFaces("todo", "not_required", "pending") \in Faces
    BY DEF MakeFaces, Faces, ExecutionStatuses, VerificationStatuses, IntegrationStatuses
  <2>2. SetFaces(task[t], "todo", MakeFaces("todo", "not_required", "pending"))
           \in TaskRows
    BY <2>1, SetFacesTyped DEF TypeOK, LegacyTaskStatuses
  <2> QED BY <1>1, <2>2 DEF CreateTask, TypeOK
<1>2. ASSUME NEW actor \in Actors, NEW t \in Tasks, ReleaseTask(actor, t)
      PROVE  TypeOK'
  BY <1>2, ReleaseLockedTyped DEF ReleaseTask, ReleaseTaskLocked, TypeOK
<1>3. ASSUME NEW actor \in Actors, NEW t \in Tasks, NEW D \in SUBSET Tasks,
             CancelTask(actor, t, D)
      PROVE  TypeOK'
  <2>1. task' \in [Tasks -> TaskRows]
    BY <1>3, StatusWriteTyped DEF CancelTask, LegacyTaskStatuses
  <2>2. deps' \in [Tasks -> SUBSET Tasks]
    BY <1>3, WriteDependenciesTyped DEF CancelTask
  <2>3. lease' \in [Leases -> LeaseRows] /\ assignment' \in [Assignments -> AssignmentRows]
    BY <1>3, ReleasesTyped DEF CancelTask
  <2>4. handoff' \in [Tasks -> HandoffRows]
    BY <1>3, ReleasesTyped DEF CancelTask
  <2> QED BY <1>3, <2>1, <2>2, <2>3, <2>4 DEF CancelTask, TypeOK
<1>4. ASSUME NEW actor \in Actors, NEW t \in Tasks, NEW D \in SUBSET Tasks,
             ReleaseByUpdate(actor, t, D)
      PROVE  TypeOK'
  BY <1>4, ReleaseLockedTyped, WriteDependenciesTyped
     DEF ReleaseByUpdate, ReleaseTaskLocked, TypeOK
<1>5. ASSUME NEW actor \in Actors, NEW t \in Tasks, NEW D \in SUBSET Tasks,
             NEW next \in LegacyTaskStatuses, UpdateTask(actor, t, next, D)
      PROVE  TypeOK'
  <2>1. task' \in [Tasks -> TaskRows]
    BY <1>5, StatusWriteTyped DEF UpdateTask
  <2>2. deps' \in [Tasks -> SUBSET Tasks]
    BY <1>5, WriteDependenciesTyped DEF UpdateTask
  <2> QED BY <1>5, <2>1, <2>2 DEF UpdateTask, TypeOK
<1> QED BY <1>1, <1>2, <1>3, <1>4, <1>5 DEF ContractStep

LEMMA EvidenceStepTyped == ASSUME TypeOK, EvidenceStep PROVE TypeOK'
<1>1. ASSUME NEW s \in Sessions, NEW t \in Tasks, WorkReport(s, t) PROVE TypeOK'
  <2> DEFINE row == SetFaces(task[t], "awaiting_review",
                             MakeFaces("completed", "pending", "pending"))
  <2>1. row \in TaskRows
    BY SetFacesTyped DEF TypeOK, LegacyTaskStatuses, MakeFaces, Faces,
       ExecutionStatuses, VerificationStatuses, IntegrationStatuses
  <2>2. [row EXCEPT !.reporter = MemberOf[s], !.reviewer = None] \in TaskRows
    BY <2>1, IdentityAssumption DEF TaskRows, MemberOrNull
  <2>3. lease' \in [Leases -> LeaseRows]
    BY <1>1, ReleasesTyped DEF WorkReport
  <2> QED BY <1>1, <2>2, <2>3 DEF WorkReport, TypeOK
<1>2. ASSUME NEW s \in Sessions, NEW t \in Tasks, NEW approved \in BOOLEAN,
             SubmitReview(s, t, approved)
      PROVE  TypeOK'
  <2>1. VerdictRow(t, approved) \in TaskRows
    BY SetFacesTyped DEF VerdictRow, TypeOK, LegacyTaskStatuses, MakeFaces, Faces,
       ExecutionStatuses, VerificationStatuses, IntegrationStatuses
  <2>2. [VerdictRow(t, approved) EXCEPT !.reviewer = MemberOf[s]] \in TaskRows
    BY <2>1, IdentityAssumption DEF TaskRows, MemberOrNull
  <2> QED BY <1>2, <2>2 DEF SubmitReview, TypeOK
<1>3. ASSUME NEW actor \in Actors, NEW t \in Tasks, NEW result \in {"done", "failed"},
             SubmitIntegration(actor, t, result)
      PROVE  TypeOK'
  <2>1. task[t] \in TaskRows
    BY DEF TypeOK
  <2>2. task' \in [Tasks -> TaskRows]
    BY <1>3, <2>1 DEF SubmitIntegration, TypeOK, TaskRows, LegacyTaskStatuses,
                      IntegrationStatuses
  <2> QED BY <1>3, <2>2 DEF SubmitIntegration, TypeOK
<1> QED BY <1>1, <1>2, <1>3 DEF EvidenceStep

LEMMA AssignmentStepTyped == ASSUME TypeOK, AssignmentStep PROVE TypeOK'
<1>1. ASSUME NEW by \in Actors, NEW t \in Tasks, NEW target \in Targets,
             NEW role \in BOOLEAN, NEW slot \in Assignments,
             AssignTask(by, t, target, role, slot)
      PROVE  TypeOK'
  <2>1. target.to \in SessionOrNull /\ target.member \in MemberOrNull
    BY DEF Targets, NoTarget, SessionTarget, MemberTarget, TypeOK, SessionOrNull,
           MemberOrNull
  <2>2. [task |-> t, by |-> by, to |-> target.to, member |-> target.member,
         role |-> role] \in AssignmentRows
    BY <2>1 DEF AssignmentRows, Actors, SessionOrNull
  <2> QED BY <1>1, <2>2, NullRowsTyped DEF AssignTask, TypeOK
<1>2. ASSUME NEW by \in Actors, NEW t \in Tasks, NEW target \in Targets,
             NEW role \in BOOLEAN, RepeatAssignment(by, t, target, role)
      PROVE  TypeOK'
  <2>1. target.member \in MemberOrNull
    BY DEF Targets, NoTarget, SessionTarget, MemberTarget, MemberOrNull
  <2>2. PICK a \in Assignments :
          assignment' = [assignment EXCEPT ![a].member =
                           IF @ = None THEN target.member ELSE @]
    BY <1>2 DEF RepeatAssignment, Repeated, PendingAssignments
  <2>3. assignment[a] \in AssignmentRows
    BY DEF TypeOK
  <2>4. assignment' \in [Assignments -> AssignmentRows]
    BY <2>1, <2>2, <2>3 DEF TypeOK, AssignmentRows
  <2> QED BY <1>2, <2>4 DEF RepeatAssignment, TypeOK
<1>3. ASSUME NEW s \in Sessions, NEW a \in Assignments, AcceptAssignment(s, a)
      PROVE  TypeOK'
  <2>1. assignment[a].task \in Tasks
    BY <1>3 DEF AcceptAssignment, Eligible, TypeOK, AssignmentRows
  <2>2. task[assignment[a].task] \in TaskRows
    BY <2>1 DEF TypeOK
  <2>3. task' \in [Tasks -> TaskRows]
    BY <1>3, <2>1, <2>2 DEF AcceptAssignment, TypeOK, TaskRows, SessionOrNull,
                            LegacyTaskStatuses, ExecutionStatuses
  <2>4. assignment' \in [Assignments -> AssignmentRows]
    BY <1>3, ReleasesTyped DEF AcceptAssignment
  <2> QED BY <1>3, <2>3, <2>4 DEF AcceptAssignment, TypeOK
<1>4. ASSUME NEW s \in Sessions, NEW a \in Assignments, RefuseAssignment(s, a)
      PROVE  TypeOK'
  BY <1>4, ReleasesTyped DEF RefuseAssignment, TypeOK
<1> QED BY <1>1, <1>2, <1>3, <1>4 DEF AssignmentStep

LEMMA HandoffStepTyped == ASSUME TypeOK, HandoffStep PROVE TypeOK'
<1> PICK t \in Tasks :
       \/ \E actor \in Actors, to \in Sessions : RequestHandoff(actor, t, to)
       \/ \E s \in Sessions : AcceptHandoff(s, t) \/ RefuseHandoff(s, t)
  BY DEF HandoffStep
<1>1. task[t] \in TaskRows
  BY DEF TypeOK
<1>2. ASSUME NEW actor \in Actors, NEW to \in Sessions, RequestHandoff(actor, t, to)
      PROVE  TypeOK'
  <2>1. [from |-> task[t].owner, to |-> to] \in HandoffRows
    BY <1>1, <1>2 DEF RequestHandoff, HandoffRows, TaskRows, SessionOrNull
  <2> QED BY <1>2, <2>1 DEF RequestHandoff, TypeOK
<1>3. ASSUME NEW s \in Sessions, AcceptHandoff(s, t) PROVE TypeOK'
  <2>1. task' \in [Tasks -> TaskRows]
    BY <1>1, <1>3 DEF AcceptHandoff, TypeOK, TaskRows, SessionOrNull
  <2>2. lease' \in [Leases -> LeaseRows] /\ handoff' \in [Tasks -> HandoffRows]
    BY <1>3, ReleasesTyped DEF AcceptHandoff
  <2> QED BY <1>3, <2>1, <2>2 DEF AcceptHandoff, TypeOK
<1>4. ASSUME NEW s \in Sessions, RefuseHandoff(s, t) PROVE TypeOK'
  BY <1>4, ReleasesTyped DEF RefuseHandoff, TypeOK
<1> QED BY <1>2, <1>3, <1>4

LEMMA LeaseStepTyped == ASSUME TypeOK, LeaseStep PROVE TypeOK'
<1> PICK s \in Sessions :
       \/ \E p \in Paths, m \in Modes, t \in Tasks \cup {None} :
             \/ \E l \in Leases : AcquireLease(s, l, p, m, t)
             \/ ReuseLease(s, p, m, t)
             \/ RefuseLease(s, p, m, t)
       \/ \E l \in Leases : ReleaseLease(s, l)
  BY DEF LeaseStep
<1>1. ASSUME NEW p \in Paths, NEW m \in Modes, NEW t \in Tasks \cup {None},
             NEW l \in Leases, AcquireLease(s, l, p, m, t)
      PROVE  TypeOK'
  <2>1. [sess |-> s, task |-> t, path |-> p, mode |-> m, left |-> Ttl] \in LeaseRows
    BY LeaseAssumption DEF LeaseRows, SessionOrNull
  <2> QED BY <1>1, <2>1, NullRowsTyped DEF AcquireLease, TypeOK
<1>2. ASSUME NEW p \in Paths, NEW m \in Modes, NEW t \in Tasks \cup {None},
             ReuseLease(s, p, m, t) \/ RefuseLease(s, p, m, t)
      PROVE  TypeOK'
  BY <1>2, ReleasesTyped DEF ReuseLease, RefuseLease, TypeOK
<1>3. ASSUME NEW l \in Leases, ReleaseLease(s, l) PROVE TypeOK'
  BY <1>3, ReleasesTyped DEF ReleaseLease, TypeOK
<1> QED BY <1>1, <1>2, <1>3

LEMMA NextTyped == TypeOK /\ [Next]_vars => TypeOK'
<1>1. CASE UNCHANGED vars
  BY <1>1 DEF vars, TypeOK
<1> QED BY <1>1, SessionStepTyped, TickTyped, ClaimStepTyped, ContractStepTyped,
           EvidenceStepTyped, AssignmentStepTyped, HandoffStepTyped, LeaseStepTyped
        DEF Next

\* Every row the handlers write is a row of the schema: statuses, faces, owners,
\* lease lifetimes and targets stay in their domains.
THEOREM TypeCorrect == Spec => []TypeOK
BY InitTyped, NextTyped, PTL DEF Spec

-------------------------------------------------------------------------------
(* File leases.  Apart from acquire_lease, no handler makes a lease that    *)
(* was not there: it leaves a row as it is, releases it, lets it lapse,     *)
(* renews one in force or moves it within its identity to a session that    *)
(* is there.                                                                *)

LeaseInv == LeaseExclusion /\ LeaseHolderPresent

Present(s) == sess[s] \in {"open", "dead"}

\* What becomes of a lease row in such a step.
LeaseCarried(l) == lease'[l].sess # None =>
    /\ lease[l].sess # None
    /\ lease'[l].path = lease[l].path /\ lease'[l].mode = lease[l].mode
    /\ SameAgentIdentity(lease'[l].sess, lease[l].sess)
    /\ lease'[l].left > 0 => lease[l].left > 0
    /\ sess'[lease'[l].sess] \in {"open", "dead"}

LEMMA CarriedKeeps ==
    ASSUME TypeOK, LeaseInv, \A l \in Leases : LeaseCarried(l)
    PROVE  LeaseInv'
<1>1. LeaseHolderPresent'
  BY DEF LeaseCarried, LeaseHolderPresent, Unreleased
<1>2. LeaseExclusion'
  <2> SUFFICES ASSUME NEW k \in Leases, NEW l \in Leases, Active(k)', Active(l)',
                      PatternsOverlap(lease'[k].path, lease'[l].path),
                      LeaseModesConflict(lease'[k].mode, lease'[l].mode)
               PROVE  SameAgentIdentity(lease'[k].sess, lease'[l].sess)
    BY DEF LeaseExclusion, PatternsOverlap, LeaseModesConflict, SameAgentIdentity
  <2>1. \A h \in {k, l} : /\ Active(h)
                          /\ lease'[h].path = lease[h].path /\ lease'[h].mode = lease[h].mode
                          /\ SameAgentIdentity(lease'[h].sess, lease[h].sess)
    BY DEF LeaseCarried, Active
  <2>2. SameAgentIdentity(lease[k].sess, lease[l].sess)
    BY <2>1 DEF LeaseInv, LeaseExclusion
  <2> QED BY <2>1, <2>2 DEF SameAgentIdentity
<1> QED BY <1>1, <1>2 DEF LeaseInv

\* A row nobody wrote, or one that was released.
LEMMA LeaseStands ==
    ASSUME LeaseInv, NEW l \in Leases, UNCHANGED sess, lease'[l] \in {lease[l], NoLease}
    PROVE  LeaseCarried(l)
<1>1. NoLease.sess = None
  BY DEF NoLease
<1>2. lease[l].sess # None => Present(lease[l].sess)
  BY DEF LeaseInv, LeaseHolderPresent, Unreleased, Present
<1> HIDE DEF NoLease
<1> QED BY <1>1, <1>2 DEF LeaseCarried, SameAgentIdentity, Present

LEMMA ReleasedLeases ==
    ASSUME LeaseInv, NEW R, UNCHANGED sess, ReleaseLeases(R)
    PROVE  \A l \in Leases : LeaseCarried(l)
BY LeaseStands DEF ReleaseLeases

LEMMA SessionStepCarries ==
    ASSUME TypeOK, LeaseInv, SessionStep
    PROVE  \A l \in Leases : LeaseCarried(l)
<1> PICK s \in Sessions : JoinRoom(s) \/ LeaveSession(s) \/ Heartbeat(s) \/ ClientDies(s)
  BY DEF SessionStep
<1> SUFFICES ASSUME NEW l \in Leases PROVE LeaseCarried(l)
  OBVIOUS
<1>1. lease[l] \in LeaseRows /\ (lease[l].sess # None => lease[l].sess \in Sessions)
  BY DEF TypeOK, LeaseRows, SessionOrNull
<1>2. lease[l].sess # None => Present(lease[l].sess)
  BY DEF LeaseInv, LeaseHolderPresent, Unreleased, Present
<1>3. CASE JoinRoom(s)
  BY <1>1, <1>2, <1>3 DEF JoinRoom, LeaseCarried, Present, SameAgentIdentity, TypeOK
<1>4. CASE LeaveSession(s)
  <2>1. /\ lease'[l] = IF l \in LeftBehind(s) THEN NoLease ELSE lease[l]
        /\ \A r \in Sessions : r # s => sess'[r] = sess[r]
    BY <1>4 DEF LeaveSession, ReleaseLeases, TypeOK
  <2>2. NoLease.sess = None
    BY DEF NoLease
  <2> HIDE DEF NoLease
  <2> QED BY <1>1, <1>2, <2>1, <2>2
          DEF LeaseCarried, LeftBehind, Unreleased, Present, SameAgentIdentity
<1>5. CASE Heartbeat(s)
  <2>1. /\ UNCHANGED sess
        /\ lease'[l] = IF l \in Renewable(s) THEN [lease[l] EXCEPT !.left = Ttl] ELSE lease[l]
    BY <1>5 DEF Heartbeat
  <2> QED BY <1>1, <1>2, <2>1 DEF Renewable, LeaseCarried, LeaseRows, Present, SameAgentIdentity
<1>6. CASE ClientDies(s)
  BY <1>1, <1>2, <1>6 DEF ClientDies, LeaseCarried, Present, SameAgentIdentity, TypeOK
<1> QED BY <1>3, <1>4, <1>5, <1>6

LEMMA TickCarries ==
    ASSUME TypeOK, LeaseInv, Tick
    PROVE  \A l \in Leases : LeaseCarried(l)
<1> SUFFICES ASSUME NEW l \in Leases PROVE LeaseCarried(l)
  OBVIOUS
<1>1. lease[l] \in LeaseRows
  BY DEF TypeOK
<1>2. lease[l].sess # None => Present(lease[l].sess)
  BY DEF LeaseInv, LeaseHolderPresent, Unreleased, Present
<1>3. /\ UNCHANGED sess
      /\ lease'[l] = IF lease[l].left > 0 THEN [lease[l] EXCEPT !.left = lease[l].left - 1]
                     ELSE lease[l]
  BY DEF Tick
<1> QED BY <1>1, <1>2, <1>3 DEF LeaseCarried, LeaseRows, Present, SameAgentIdentity

\* claim_task with reclaim or takeover moves the leases of the task to the
\* caller, whose identity they had.
LEMMA ReclaimCarries ==
    ASSUME TypeOK, LeaseInv, NEW s \in Sessions, NEW t \in Tasks, ReclaimTask(s, t)
    PROVE  \A l \in Leases : LeaseCarried(l)
<1> SUFFICES ASSUME NEW l \in Leases PROVE LeaseCarried(l)
  OBVIOUS
<1>1. CASE l \in OwnerLeases(t, task[t].owner)
  <2>1. lease[l] \in LeaseRows
    BY DEF TypeOK
  <2>2. /\ lease[l].sess # None /\ lease[l].sess = task[t].owner
        /\ lease'[l] = [lease[l] EXCEPT !.sess = s]
        /\ sess' = sess /\ sess[s] = "open"
        /\ SameAgentIdentity(s, task[t].owner)
    BY <1>1 DEF ReclaimTask, MayReclaim, OwnerLeases, Unreleased, Authenticated
  <2> QED BY <2>1, <2>2 DEF LeaseCarried, LeaseRows
<1>2. CASE l \notin OwnerLeases(t, task[t].owner)
  BY <1>2, LeaseStands DEF ReclaimTask
<1> QED BY <1>1, <1>2

\* Every other handler of tasks and delegations releases leases or leaves them.
LEMMA TaskStepCarries ==
    ASSUME TypeOK, LeaseInv,
           ClaimStep \/ ContractStep \/ EvidenceStep \/ AssignmentStep \/ HandoffStep
    PROVE  \A l \in Leases : LeaseCarried(l)
<1>1. ASSUME UNCHANGED <<sess, lease>> PROVE \A l \in Leases : LeaseCarried(l)
  BY <1>1, LeaseStands
<1>2. CASE ClaimStep
  BY <1>1, <1>2, ReclaimCarries DEF ClaimStep, ClaimTask
<1>3. CASE ContractStep
  <2>1. ASSUME NEW actor \in Actors, NEW t \in Tasks, ReleaseTask(actor, t)
        PROVE  \A l \in Leases : LeaseCarried(l)
    BY <2>1, ReleasedLeases DEF ReleaseTask, ReleaseTaskLocked
  <2>2. ASSUME NEW actor \in Actors, NEW t \in Tasks, NEW D \in SUBSET Tasks,
               CancelTask(actor, t, D) \/ ReleaseByUpdate(actor, t, D)
        PROVE  \A l \in Leases : LeaseCarried(l)
    BY <2>2, ReleasedLeases DEF CancelTask, ReleaseByUpdate, ReleaseTaskLocked
  <2>3. ASSUME NEW actor \in Actors, NEW t \in Tasks, NEW D \in SUBSET Tasks,
               NEW next \in LegacyTaskStatuses, UpdateTask(actor, t, next, D)
        PROVE  \A l \in Leases : LeaseCarried(l)
    BY <1>1, <2>3 DEF UpdateTask
  <2>4. ASSUME NEW s \in Sessions, NEW t \in Tasks, NEW D \in SUBSET Tasks, CreateTask(s, t, D)
        PROVE  \A l \in Leases : LeaseCarried(l)
    BY <1>1, <2>4 DEF CreateTask
  <2> QED BY <1>3, <2>1, <2>2, <2>3, <2>4 DEF ContractStep
<1>4. CASE EvidenceStep
  <2>1. ASSUME NEW s \in Sessions, NEW t \in Tasks, WorkReport(s, t)
        PROVE  \A l \in Leases : LeaseCarried(l)
    BY <2>1, ReleasedLeases DEF WorkReport
  <2> QED BY <1>1, <1>4, <2>1 DEF EvidenceStep, SubmitReview, SubmitIntegration
<1>5. CASE AssignmentStep
  <2>1. ASSUME NEW by \in Actors, NEW t \in Tasks, NEW target \in Targets,
               NEW role \in BOOLEAN,
               \/ \E slot \in Assignments : AssignTask(by, t, target, role, slot)
               \/ RepeatAssignment(by, t, target, role)
        PROVE  UNCHANGED <<sess, lease>>
    BY <2>1 DEF AssignTask, RepeatAssignment
  <2>2. ASSUME NEW s \in Sessions, NEW a \in Assignments,
               AcceptAssignment(s, a) \/ RefuseAssignment(s, a)
        PROVE  UNCHANGED <<sess, lease>>
    BY <2>2 DEF AcceptAssignment, RefuseAssignment
  <2> QED BY <1>1, <1>5, <2>1, <2>2 DEF AssignmentStep
<1>6. CASE HandoffStep
  <2>1. ASSUME NEW s \in Sessions, NEW t \in Tasks, AcceptHandoff(s, t)
        PROVE  \A l \in Leases : LeaseCarried(l)
    BY <2>1, ReleasedLeases DEF AcceptHandoff
  <2> QED BY <1>1, <1>6, <2>1 DEF HandoffStep, RequestHandoff, RefuseHandoff
<1> QED BY <1>2, <1>3, <1>4, <1>5, <1>6

LEMMA ConflictSymmetric ==
    /\ \A p, q : PatternsOverlap(p, q) => PatternsOverlap(q, p)
    /\ \A m, n : LeaseModesConflict(m, n) => LeaseModesConflict(n, m)
BY PathAssumption DEF PatternsOverlap, LeaseModesConflict

\* acquire_lease inserts a row only when no other identity's lease stands against
\* it; its own siblings' are released.
LEMMA AcquireKeeps ==
    ASSUME TypeOK, LeaseInv, NEW s \in Sessions, NEW l \in Leases, NEW p \in Paths,
           NEW m \in Modes, NEW t \in Tasks \cup {None}, AcquireLease(s, l, p, m, t)
    PROVE  LeaseInv'
<1> DEFINE new == [sess |-> s, task |-> t, path |-> p, mode |-> m, left |-> Ttl]
<1>1. new.sess = s /\ new.path = p /\ new.mode = m
  OBVIOUS
<1>2. /\ sess' = sess /\ sess[s] = "open" /\ Conflicts(s, p, m) = {}
      /\ lease'[l] = new
  BY DEF AcquireLease, Authenticated
<1>3. \A k \in Leases \ {l} :
        lease'[k] = IF k \in Superseded(s, p, m) THEN NoLease ELSE lease[k]
  BY DEF AcquireLease
<1> HIDE DEF new
<1>4. \A k \in Leases \ {l} : LeaseCarried(k)
  BY <1>2, <1>3, LeaseStands
<1>5. LeaseHolderPresent'
  BY <1>1, <1>2, <1>4 DEF LeaseHolderPresent, Unreleased, LeaseCarried
<1>6. ASSUME NEW k \in Leases \ {l}, Active(k)',
             PatternsOverlap(p, lease'[k].path), LeaseModesConflict(m, lease'[k].mode)
      PROVE  SameAgentIdentity(s, lease'[k].sess)
  <2>1. NoLease.sess = None
    BY DEF NoLease
  <2> HIDE DEF NoLease
  <2>2. k \notin Superseded(s, p, m) /\ lease'[k] = lease[k] /\ Active(k)
    BY <1>3, <1>6, <2>1 DEF Active
  <2>3. lease[k].sess # s => k \in Rivals(s, p, m)
    BY <1>6, <2>2 DEF Rivals
  <2>4. lease[k].sess = s
    BY <1>2, <2>2, <2>3 DEF Conflicts
  <2> QED BY <2>2, <2>4 DEF SameAgentIdentity
<1>7. LeaseExclusion'
  <2> SUFFICES ASSUME NEW k \in Leases, NEW h \in Leases, Active(k)', Active(h)',
                      PatternsOverlap(lease'[k].path, lease'[h].path),
                      LeaseModesConflict(lease'[k].mode, lease'[h].mode)
               PROVE  SameAgentIdentity(lease'[k].sess, lease'[h].sess)
    BY DEF LeaseExclusion, PatternsOverlap, LeaseModesConflict, SameAgentIdentity
  <2>1. CASE k = l /\ h = l
    BY <2>1 DEF SameAgentIdentity
  <2>2. CASE k = l /\ h # l
    BY <1>1, <1>2, <1>6, <2>2
  <2>3. CASE k # l /\ h = l
    <3>1. PatternsOverlap(p, lease'[k].path) /\ LeaseModesConflict(m, lease'[k].mode)
      BY <1>1, <1>2, <2>3, ConflictSymmetric
    <3> QED BY <1>1, <1>2, <1>6, <2>3, <3>1 DEF SameAgentIdentity
  <2>4. CASE k # l /\ h # l
    <3>1. \A i \in {k, h} : /\ Active(i)
                            /\ lease'[i].path = lease[i].path /\ lease'[i].mode = lease[i].mode
                            /\ SameAgentIdentity(lease'[i].sess, lease[i].sess)
      BY <1>4, <2>4 DEF LeaseCarried, Active
    <3>2. SameAgentIdentity(lease[k].sess, lease[h].sess)
      BY <3>1 DEF LeaseInv, LeaseExclusion
    <3> QED BY <3>1, <3>2 DEF SameAgentIdentity
  <2> QED BY <2>1, <2>2, <2>3, <2>4
<1> QED BY <1>5, <1>7 DEF LeaseInv

LEMMA LeaseStepKeeps == ASSUME TypeOK, LeaseInv, LeaseStep PROVE LeaseInv'
<1> PICK s \in Sessions :
       \/ \E p \in Paths, m \in Modes, t \in Tasks \cup {None} :
             \/ \E l \in Leases : AcquireLease(s, l, p, m, t)
             \/ ReuseLease(s, p, m, t)
             \/ RefuseLease(s, p, m, t)
       \/ \E l \in Leases : ReleaseLease(s, l)
  BY DEF LeaseStep
<1>1. ASSUME NEW p \in Paths, NEW m \in Modes, NEW t \in Tasks \cup {None},
             ReuseLease(s, p, m, t) \/ RefuseLease(s, p, m, t)
      PROVE  LeaseInv'
  <2>1. UNCHANGED sess /\ (UNCHANGED lease \/ ReleaseLeases(Superseded(s, p, m)))
    BY <1>1 DEF ReuseLease, RefuseLease
  <2> QED BY <2>1, LeaseStands, ReleasedLeases, CarriedKeeps
<1>2. ASSUME NEW l \in Leases, ReleaseLease(s, l) PROVE LeaseInv'
  BY <1>2, ReleasedLeases, CarriedKeeps DEF ReleaseLease
<1> QED BY <1>1, <1>2, AcquireKeeps

LEMMA InitLeases == Init => LeaseInv
<1> SUFFICES ASSUME Init PROVE LeaseInv
  OBVIOUS
<1>1. \A l \in Leases : lease[l].sess = None
  BY DEF Init, NoLease
<1> QED BY <1>1 DEF LeaseInv, LeaseExclusion, LeaseHolderPresent, Unreleased, Active

LEMMA NextLeases == TypeOK /\ LeaseInv /\ [Next]_vars => LeaseInv'
<1>1. ASSUME LeaseInv, UNCHANGED vars PROVE LeaseInv'
  BY <1>1 DEF vars, LeaseInv, LeaseExclusion, LeaseHolderPresent, Unreleased, Active,
     PatternsOverlap, LeaseModesConflict, SameAgentIdentity
<1> QED BY <1>1, SessionStepCarries, TickCarries, TaskStepCarries, LeaseStepKeeps, CarriedKeeps
        DEF Next

\* The two properties of the leases are inductive together with the types: what
\* acquire_file_lease grants conflicts with no identity's lease but its own.
THEOREM LeaseInvariant == Spec => [](TypeOK /\ LeaseInv)
BY InitTyped, NextTyped, InitLeases, NextLeases, PTL DEF Spec

\* Two leases in force on overlapping patterns in conflicting modes belong to one
\* identity, for any patterns, sessions and lifetimes (acquire_lease,
\* _active_conflicts, heartbeat, the reclaim of claim_task).
THEOREM AlwaysExclusive == Spec => []LeaseExclusion
BY LeaseInvariant, PTL DEF LeaseInv

\* Nobody who has left, or never joined, holds a lease.
THEOREM HolderAlwaysPresent == Spec => []LeaseHolderPresent
BY LeaseInvariant, PTL DEF LeaseInv

-------------------------------------------------------------------------------
(* One row of the tasks. *)

RowOwned(r) == (r.owner = None) <=> (r.status \in {Absent, "todo", "cancelled"})

RowApproved(r) == r.verif = "approved" =>
    r.reporter # None /\ r.reviewer # None /\ r.reporter # r.reviewer

\* The strengthening: who is reviewed is who reported, because no handler moves
\* a task that awaits review to another owner; and a row that was never
\* inserted is the null row.
RowReported(r) == r.status = "awaiting_review" =>
    r.owner # None /\ r.reporter = MemberOf[r.owner]

RowInv(r) ==
    /\ r \in TaskRows
    /\ r.status = Absent => r = AbsentTask
    /\ r.status # Absent => FacesAgree(r)
    /\ RowOwned(r)
    /\ RowApproved(r)
    /\ RowReported(r)

WorkflowInv == \A t \in Tasks : RowInv(task[t])

-------------------------------------------------------------------------------
\* The tuple a status update writes agrees with the status, provided the task
\* did not carry an approval back to work.
LEMMA LegacyFaces ==
    ASSUME NEW status \in LegacyTaskStatuses, NEW v \in VerificationStatuses,
           v = "approved" => status \notin ReopenExecution
    PROVE  LET f == TaskStateForLegacyStatus(status, v) IN
           CASE status \in ReopenExecution ->
                   /\ f.exec = status
                   /\ f.verif \in {"not_required", "changes_requested"}
                   /\ f.integ = "pending"
             [] status = "awaiting_review" ->
                   f.exec = "completed" /\ f.verif = "pending" /\ f.integ = "pending"
             [] status = "verified" ->
                   f.exec = "completed" /\ f.verif = "approved" /\ f.integ = "pending"
             [] status = "done" ->
                   f.exec = "completed" /\ f.verif = "approved" /\ f.integ = "done"
             [] status = "cancelled" ->
                   f.exec = "cancelled" /\ f.verif = "not_required"
                   /\ f.integ = "pending"
BY DEF TaskStateForLegacyStatus, MakeFaces, LegacyTaskStatuses, VerificationStatuses,
       ReopenExecution

\* SetFaces writes the four status columns and no other.
LEMMA SetFacesFields ==
    ASSUME NEW row \in TaskRows, NEW status, NEW f \in Faces
    PROVE  /\ SetFaces(row, status, f).status = status
           /\ SetFaces(row, status, f).exec = f.exec
           /\ SetFaces(row, status, f).verif = f.verif
           /\ SetFaces(row, status, f).integ = f.integ
           /\ SetFaces(row, status, f).owner = row.owner
           /\ SetFaces(row, status, f).reporter = row.reporter
           /\ SetFaces(row, status, f).reviewer = row.reviewer
BY DEF SetFaces, TaskRows, Faces

\* The statuses an approved task can move to never reopen it.
LEMMA ApprovedStaysClosed ==
    ASSUME NEW r, RowInv(r), r.status # Absent, r.verif = "approved",
           NEW next \in LegacyTaskTransitions[r.status]
    PROVE  next \in {"verified", "done", "cancelled"}
<1>1. r.status \in {"verified", "done"}
  BY DEF RowInv, FacesAgree, TaskRows, LegacyTaskStatuses, ReopenExecution
<1> QED BY <1>1 DEF LegacyTaskTransitions

\* update_task: the row of a status write.
LEMMA StatusWriteKeeps ==
    ASSUME TypeOK, WorkflowInv, NEW t \in Tasks, task[t].status # Absent,
           NEW next \in LegacyTaskStatuses, StatusWrite(t, next)
    PROVE  RowInv(task'[t])
<1> DEFINE r == task[t]
           f == TaskStateForLegacyStatus(next, r.verif)
           w == StatusRow(t, next)
           o == IF next \in {"todo", "cancelled"} THEN None ELSE w.owner
<1>1. RowInv(r) /\ r \in TaskRows /\ r.verif \in VerificationStatuses
  BY DEF WorkflowInv, RowInv, TaskRows
<1>2. f \in Faces
  BY <1>1, FacesTyped
<1>3. next \in LegacyTaskTransitions[r.status]
  BY DEF StatusWrite
<1>4. r.verif = "approved" => next \notin ReopenExecution
  BY <1>1, <1>3, ApprovedStaysClosed DEF ReopenExecution
<1>5. /\ w \in TaskRows
      /\ w.status = next /\ w.exec = f.exec /\ w.verif = f.verif /\ w.integ = f.integ
      /\ w.owner = r.owner /\ w.reporter = r.reporter /\ w.reviewer = r.reviewer
  BY <1>1, <1>2, SetFacesFields, StatusRowTyped DEF StatusRow
<1>6. task'[t] = [w EXCEPT !.owner = o]
  BY DEF StatusWrite, TypeOK
<1>7. /\ task'[t] \in TaskRows
      /\ task'[t].status = next /\ task'[t].exec = f.exec /\ task'[t].verif = f.verif
      /\ task'[t].integ = f.integ /\ task'[t].owner = o
      /\ task'[t].reporter = r.reporter /\ task'[t].reviewer = r.reviewer
  BY <1>1, <1>5, <1>6 DEF TaskRows, SessionOrNull
<1>8. FacesAgree(task'[t])
  <2>1. next \in ReopenExecution =>
           /\ f.exec = next /\ f.verif \in {"not_required", "changes_requested"}
           /\ f.integ = "pending"
    BY <1>1, <1>4, LegacyFaces DEF ReopenExecution
  <2>2. /\ next = "awaiting_review" =>
             f.exec = "completed" /\ f.verif = "pending" /\ f.integ = "pending"
        /\ next = "verified" =>
             f.exec = "completed" /\ f.verif = "approved" /\ f.integ = "pending"
        /\ next = "done" =>
             f.exec = "completed" /\ f.verif = "approved" /\ f.integ = "done"
        /\ next = "cancelled" =>
             f.exec = "cancelled" /\ f.verif = "not_required" /\ f.integ = "pending"
    BY <1>1, <1>4, LegacyFaces DEF ReopenExecution
  <2> HIDE DEF f
  <2> QED BY <1>7, <2>1, <2>2 DEF FacesAgree, LegacyTaskStatuses, ReopenExecution
<1>9. RowOwned(task'[t])
  <2>1. CASE next \in {"todo", "cancelled"}
    BY <1>7, <2>1 DEF RowOwned
  <2>2. CASE next \notin {"todo", "cancelled"}
    <3>1. r.status \notin {Absent, "todo", "cancelled"}
      <4>1. LegacyTaskTransitions["todo"] = {"todo", "cancelled"}
            /\ LegacyTaskTransitions["cancelled"] = {"todo", "cancelled"}
        BY DEF LegacyTaskTransitions
      <4> QED BY <1>3, <2>2, <4>1
    <3>2. r.owner # None
      BY <1>1, <3>1 DEF RowInv, RowOwned
    <3>3. task'[t].owner = r.owner /\ task'[t].status = next
      BY <1>5, <1>7, <2>2
    <3> QED BY <2>2, <3>2, <3>3 DEF RowOwned, Absent, LegacyTaskStatuses
  <2> QED BY <2>1, <2>2
<1>10. next \in StructuredStatuses => r.status = next
  BY DEF StatusWrite
<1>11. RowApproved(task'[t])
  <2>1. task'[t].verif = "approved" => next \in {"verified", "done"}
    BY <1>7, <1>8 DEF FacesAgree, LegacyTaskStatuses, ReopenExecution
  <2>2. next \in {"verified", "done"} => r.verif = "approved"
    <3>1. SUFFICES ASSUME next \in {"verified", "done"} PROVE r.verif = "approved"
      OBVIOUS
    <3>2. r.status = next
      BY <3>1, <1>10 DEF StructuredStatuses
    <3>3. FacesAgree(r)
      BY <1>1 DEF RowInv
    <3> QED BY <3>1, <3>2, <3>3 DEF FacesAgree, ReopenExecution
  <2> QED BY <1>1, <1>7, <2>1, <2>2 DEF RowInv, RowApproved
<1>12. RowReported(task'[t])
  BY <1>1, <1>5, <1>7, <1>10 DEF RowInv, RowReported, StructuredStatuses
<1> QED BY <1>7, <1>8, <1>9, <1>11, <1>12
        DEF RowInv, Absent, LegacyTaskStatuses

\* A row untouched by a step keeps its invariant.
LEMMA OthersKeep ==
    ASSUME TypeOK, WorkflowInv, NEW t \in Tasks, NEW row,
           task' = [task EXCEPT ![t] = row], RowInv(row)
    PROVE  WorkflowInv'
<1> SUFFICES ASSUME NEW u \in Tasks PROVE RowInv(task'[u])
  BY DEF WorkflowInv
<1> QED BY DEF TypeOK, WorkflowInv

-------------------------------------------------------------------------------
\* The handlers, one after the other.  Every step but these leaves task alone.

LEMMA InitWorkflow == Init => WorkflowInv
BY NullRowsTyped DEF Init, WorkflowInv, RowInv, AbsentTask, Absent, RowOwned,
                     RowApproved, RowReported

LEMMA CreateKeeps ==
    ASSUME TypeOK, WorkflowInv, NEW s \in Sessions, NEW t \in Tasks,
           NEW D \in SUBSET Tasks, CreateTask(s, t, D)
    PROVE  WorkflowInv'
<1> DEFINE row == SetFaces(task[t], "todo", MakeFaces("todo", "not_required", "pending"))
<1>1. task[t] = AbsentTask
  BY DEF CreateTask, Created, WorkflowInv, RowInv
<1>2. RowInv(row)
  <2>1. MakeFaces("todo", "not_required", "pending") \in Faces
    BY DEF MakeFaces, Faces, ExecutionStatuses, VerificationStatuses, IntegrationStatuses
  <2>2. row \in TaskRows
    BY <1>1, <2>1, NullRowsTyped, SetFacesTyped DEF LegacyTaskStatuses
  <2> QED BY <1>1, <2>2 DEF RowInv, SetFaces, MakeFaces, AbsentTask, Absent, FacesAgree,
            ReopenExecution, RowOwned, RowApproved, RowReported
<1>3. task' = [task EXCEPT ![t] = row]
  BY DEF CreateTask
<1> QED BY <1>2, <1>3, OthersKeep

\* In work means claimed, in progress or blocked, hence owned and not approved.
LEMMA InWorkRow ==
    ASSUME WorkflowInv, NEW t \in Tasks, InWork(t)
    PROVE  /\ task[t].status \in {"claimed", "in_progress", "blocked"}
           /\ task[t].exec = task[t].status
           /\ task[t].verif \in {"not_required", "changes_requested"}
           /\ task[t].integ = "pending"
           /\ task[t].owner # None
<1>1. RowInv(task[t]) /\ task[t].status # Absent
  BY DEF WorkflowInv, RowInv, InWork, ReleaseExecutionStatuses, AbsentTask, Absent
<1>2. FacesAgree(task[t]) /\ task[t].status \in LegacyTaskStatuses
  BY <1>1 DEF RowInv, TaskRows
<1>3. task[t].status \in {"claimed", "in_progress", "blocked"}
  BY <1>2 DEF FacesAgree, InWork, ReleaseExecutionStatuses, ReopenExecution,
              LegacyTaskStatuses
<1>4. task[t].owner # None
  BY <1>1, <1>3 DEF RowInv, RowOwned
<1> QED BY <1>2, <1>3, <1>4 DEF FacesAgree, ReopenExecution

LEMMA ClaimKeeps ==
    ASSUME TypeOK, WorkflowInv, ClaimStep
    PROVE  WorkflowInv'
<1> PICK s \in Sessions, t \in Tasks : ClaimTask(s, t) \/ ReclaimTask(s, t)
  BY DEF ClaimStep
<1> DEFINE r == task[t]
<1>1. RowInv(r) /\ s # None
  BY IdentityAssumption DEF WorkflowInv
<1>2. CASE ClaimTask(s, t)
  <2> DEFINE row == [r EXCEPT !.owner = s, !.status = "claimed", !.exec = "claimed"]
  <2>1. r.status # Absent
    BY <1>1, <1>2 DEF ClaimTask, RowInv, AbsentTask, Absent
  <2>2. r.status = "todo"
    BY <1>1, <1>2, <2>1 DEF ClaimTask, RowInv, FacesAgree, ReopenExecution,
                            LegacyTaskStatuses, TaskRows
  <2>3. row \in TaskRows
    BY <1>1 DEF RowInv, TaskRows, SessionOrNull, LegacyTaskStatuses, ExecutionStatuses
  <2>4. RowInv(row)
    BY <1>1, <2>1, <2>2, <2>3
       DEF RowInv, TaskRows, FacesAgree, ReopenExecution, RowOwned, RowApproved,
           RowReported, Absent
  <2>5. task' = [task EXCEPT ![t] = row]
    BY <1>2 DEF ClaimTask, TypeOK
  <2> QED BY <2>4, <2>5, OthersKeep
<1>3. CASE ReclaimTask(s, t)
  <2> DEFINE row == [r EXCEPT !.owner = s]
  <2>1. r.status \in {"claimed", "in_progress", "blocked"}
    BY <1>3, InWorkRow DEF ReclaimTask, MayReclaim
  <2>2. RowInv(row)
    BY <1>1, <2>1 DEF RowInv, TaskRows, SessionOrNull, FacesAgree, ReopenExecution,
                      RowOwned, RowApproved, RowReported, Absent
  <2>3. task' = [task EXCEPT ![t] = row]
    BY <1>3 DEF ReclaimTask
  <2> QED BY <2>2, <2>3, OthersKeep
<1> QED BY <1>2, <1>3

LEMMA ReleaseKeeps ==
    ASSUME TypeOK, WorkflowInv, NEW t \in Tasks, ReleaseTaskLocked(t)
    PROVE  WorkflowInv'
<1> DEFINE r == task[t]
           f == TaskStateForLegacyStatus("todo", r.verif)
           row == ReleaseRow(t)
<1>1. RowInv(r) /\ r \in TaskRows
  BY DEF WorkflowInv, RowInv
<1>2. r.verif \in {"not_required", "changes_requested"} /\ r.verif \in VerificationStatuses
  BY <1>1, InWorkRow DEF ReleaseTaskLocked, TaskRows
<1>3. /\ f \in Faces /\ f.exec = "todo"
      /\ f.verif \in {"not_required", "changes_requested"} /\ f.integ = "pending"
  BY <1>2, FacesTyped, LegacyFaces DEF LegacyTaskStatuses, ReopenExecution
<1>4. LET w == StatusRow(t, "todo") IN
      /\ w \in TaskRows
      /\ w.status = "todo" /\ w.exec = f.exec /\ w.verif = f.verif /\ w.integ = f.integ
  BY <1>1, <1>3, SetFacesFields, StatusRowTyped DEF StatusRow, LegacyTaskStatuses
<1>5. /\ row \in TaskRows /\ row.owner = None
      /\ row.status = "todo" /\ row.exec = "todo" /\ row.verif = f.verif
      /\ row.integ = "pending"
  BY <1>3, <1>4 DEF ReleaseRow, TaskRows, SessionOrNull
<1>6. RowInv(row)
  BY <1>3, <1>5 DEF RowInv, FacesAgree, ReopenExecution, RowOwned, RowApproved,
                    RowReported, Absent
<1>7. task' = [task EXCEPT ![t] = row]
  BY DEF ReleaseTaskLocked
<1> QED BY <1>6, <1>7, OthersKeep

LEMMA StatusKeeps ==
    ASSUME TypeOK, WorkflowInv, NEW t \in Created, NEW next \in LegacyTaskStatuses,
           StatusWrite(t, next)
    PROVE  WorkflowInv'
<1>1. t \in Tasks /\ RowInv(task'[t])
  BY StatusWriteKeeps DEF Created
<1> SUFFICES ASSUME NEW u \in Tasks, u # t PROVE RowInv(task'[u])
  BY <1>1 DEF WorkflowInv
<1> QED BY DEF StatusWrite, TypeOK, WorkflowInv

LEMMA ContractKeeps ==
    ASSUME TypeOK, WorkflowInv, ContractStep
    PROVE  WorkflowInv'
<1>1. ASSUME NEW actor \in Actors, NEW t \in Tasks, NEW D \in SUBSET Tasks,
             \/ CancelTask(actor, t, D)
             \/ \E next \in LegacyTaskStatuses : UpdateTask(actor, t, next, D)
      PROVE  WorkflowInv'
  BY <1>1, StatusKeeps DEF CancelTask, UpdateTask, MayUpdate, LegacyTaskStatuses
<1>2. ASSUME NEW actor \in Actors, NEW t \in Tasks, NEW D \in SUBSET Tasks,
             ReleaseTask(actor, t) \/ ReleaseByUpdate(actor, t, D)
      PROVE  WorkflowInv'
  BY <1>2, ReleaseKeeps DEF ReleaseTask, ReleaseByUpdate
<1>3. ASSUME NEW actor \in Actors, NEW t \in Tasks, ReleaseTask(actor, t)
      PROVE  WorkflowInv'
  BY <1>3, ReleaseKeeps DEF ReleaseTask
<1> QED BY <1>1, <1>2, <1>3, CreateKeeps DEF ContractStep

LEMMA EvidenceKeeps ==
    ASSUME TypeOK, WorkflowInv, EvidenceStep
    PROVE  WorkflowInv'
<1>1. ASSUME NEW s \in Sessions, NEW t \in Tasks, WorkReport(s, t)
      PROVE  WorkflowInv'
  <2> DEFINE r == task[t]
             f == MakeFaces("completed", "pending", "pending")
             w == SetFaces(r, "awaiting_review", f)
             row == [w EXCEPT !.reporter = MemberOf[s], !.reviewer = None]
  <2>1. /\ f \in Faces
        /\ f.exec = "completed" /\ f.verif = "pending" /\ f.integ = "pending"
    BY DEF MakeFaces, Faces, ExecutionStatuses, VerificationStatuses, IntegrationStatuses
  <2>2. r \in TaskRows /\ r.owner = s /\ s # None /\ MemberOf[s] \in MemberOrNull
    BY <1>1, IdentityAssumption DEF TypeOK, WorkReport, MemberOrNull
  <2> HIDE DEF f
  <2>3. /\ w \in TaskRows /\ w.owner = s /\ w.status = "awaiting_review"
        /\ w.exec = "completed" /\ w.verif = "pending" /\ w.integ = "pending"
    <3>1. w \in TaskRows
      BY <2>1, <2>2, SetFacesTyped DEF LegacyTaskStatuses
    <3>2. /\ w.owner = r.owner /\ w.status = "awaiting_review"
          /\ w.exec = f.exec /\ w.verif = f.verif /\ w.integ = f.integ
      BY <2>1, <2>2, SetFacesFields
    <3> QED BY <2>1, <2>2, <3>1, <3>2
  <2> HIDE DEF w
  <2>4. /\ row \in TaskRows /\ row.owner = s /\ row.status = "awaiting_review"
        /\ row.exec = "completed" /\ row.verif = "pending" /\ row.integ = "pending"
        /\ row.reporter = MemberOf[s]
    BY <2>2, <2>3 DEF TaskRows, MemberOrNull
  <2>5. RowInv(row)
    BY <2>2, <2>4 DEF RowInv, FacesAgree, ReopenExecution, RowOwned, RowApproved,
                      RowReported, Absent
  <2>6. task' = [task EXCEPT ![t] = row]
    BY <1>1 DEF WorkReport, w, f
  <2> QED BY <2>5, <2>6, OthersKeep
<1>2. ASSUME NEW s \in Sessions, NEW t \in Tasks, NEW approved \in BOOLEAN,
             SubmitReview(s, t, approved)
      PROVE  WorkflowInv'
  <2> DEFINE r == task[t]
             w == VerdictRow(t, approved)
             row == [w EXCEPT !.reviewer = MemberOf[s]]
  <2>1. /\ RowInv(r) /\ r \in TaskRows /\ MemberOf[s] \in Members
        /\ MemberOf[s] # None
    BY IdentityAssumption DEF WorkflowInv, RowInv
  <2>2. /\ r.status = "awaiting_review" /\ r.owner # None /\ r.owner \in Sessions
        /\ r.reporter = MemberOf[r.owner] /\ r.reporter # MemberOf[s]
        /\ r.reporter # None
    BY <1>2, <2>1, IdentityAssumption
       DEF SubmitReview, AwaitingReview, Independent, SameAgentIdentity, RowInv,
           RowReported, TaskRows, SessionOrNull
  <2>3. /\ w \in TaskRows /\ w.owner = r.owner /\ w.reporter = r.reporter
        /\ approved => /\ w.status = "verified" /\ w.exec = "completed"
                       /\ w.verif = "approved" /\ w.integ = "pending"
        /\ ~approved => /\ w.status = "in_progress" /\ w.exec = "in_progress"
                        /\ w.verif = "changes_requested" /\ w.integ = "pending"
    <3> DEFINE yes == MakeFaces("completed", "approved", "pending")
               no  == MakeFaces("in_progress", "changes_requested", "pending")
    <3>1. /\ yes \in Faces /\ no \in Faces
          /\ yes.exec = "completed" /\ yes.verif = "approved" /\ yes.integ = "pending"
          /\ no.exec = "in_progress" /\ no.verif = "changes_requested"
          /\ no.integ = "pending"
      BY DEF MakeFaces, Faces, ExecutionStatuses, VerificationStatuses,
             IntegrationStatuses
    <3>2. CASE approved
      <4>1. w = SetFaces(r, "verified", yes)
        BY <3>2 DEF VerdictRow
      <4> HIDE DEF w, yes
      <4>2. w \in TaskRows
        BY <2>1, <3>1, <4>1, SetFacesTyped DEF LegacyTaskStatuses
      <4>3. /\ w.owner = r.owner /\ w.reporter = r.reporter /\ w.status = "verified"
            /\ w.exec = yes.exec /\ w.verif = yes.verif /\ w.integ = yes.integ
        BY <2>1, <3>1, <4>1, SetFacesFields
      <4> QED BY <3>1, <3>2, <4>2, <4>3
    <3>3. CASE ~approved
      <4>1. w = SetFaces(r, "in_progress", no)
        BY <3>3 DEF VerdictRow
      <4> HIDE DEF w, no
      <4>2. w \in TaskRows
        BY <2>1, <3>1, <4>1, SetFacesTyped DEF LegacyTaskStatuses
      <4>3. /\ w.owner = r.owner /\ w.reporter = r.reporter /\ w.status = "in_progress"
            /\ w.exec = no.exec /\ w.verif = no.verif /\ w.integ = no.integ
        BY <2>1, <3>1, <4>1, SetFacesFields
      <4> QED BY <3>1, <3>3, <4>2, <4>3
    <3> QED BY <3>2, <3>3
  <2> HIDE DEF w
  <2>4. /\ row \in TaskRows /\ row.owner = r.owner /\ row.reporter = r.reporter
        /\ row.reviewer = MemberOf[s] /\ row.status = w.status /\ row.exec = w.exec
        /\ row.verif = w.verif /\ row.integ = w.integ
    BY <2>1, <2>3 DEF TaskRows, MemberOrNull
  <2>5. RowInv(row)
    BY <2>1, <2>2, <2>3, <2>4
       DEF RowInv, FacesAgree, ReopenExecution, RowOwned, RowApproved, RowReported,
           Absent
  <2>6. task' = [task EXCEPT ![t] = row]
    BY <1>2 DEF SubmitReview, w
  <2> QED BY <2>5, <2>6, OthersKeep
<1>3. ASSUME NEW actor \in Actors, NEW t \in Tasks, NEW result \in {"done", "failed"},
             SubmitIntegration(actor, t, result)
      PROVE  WorkflowInv'
  <2> DEFINE r == task[t]
             status == IF result = "done" THEN "done" ELSE "verified"
             row == [r EXCEPT !.status = status, !.integ = result]
  <2>1. RowInv(r) /\ r \in TaskRows
    BY DEF WorkflowInv, RowInv
  <2>2. r.status = "verified" /\ r.exec = "completed" /\ r.verif = "approved"
    BY <1>3 DEF SubmitIntegration
  <2>3. /\ row \in TaskRows /\ row.status = status /\ row.integ = result
        /\ row.exec = r.exec /\ row.verif = r.verif /\ row.owner = r.owner
        /\ row.reporter = r.reporter /\ row.reviewer = r.reviewer
    BY <2>1 DEF TaskRows, LegacyTaskStatuses, IntegrationStatuses
  <2>4. RowInv(row)
    BY <2>1, <2>2, <2>3 DEF RowInv, FacesAgree, ReopenExecution, RowOwned, RowApproved,
                            RowReported, Absent
  <2>5. task' = [task EXCEPT ![t] = row]
    BY <1>3 DEF SubmitIntegration, TypeOK
  <2> QED BY <2>4, <2>5, OthersKeep
<1> QED BY <1>1, <1>2, <1>3 DEF EvidenceStep

\* A task whose assignment can be accepted is claimable, the caller's own claim
\* or abandoned work, never one under review or beyond.
LEMMA AcceptableRow ==
    ASSUME TypeOK, WorkflowInv, NEW t \in Tasks, NEW s \in Sessions, Acceptable(s, t)
    PROVE  /\ task[t].status \in {"todo", "claimed", "in_progress"}
           /\ task[t].verif \in {"not_required", "changes_requested"}
           /\ task[t].integ = "pending"
<1>1. RowInv(task[t]) /\ task[t].exec \in {"todo", "claimed", "in_progress"}
  BY DEF WorkflowInv, Acceptable, Abandoned
<1>2. FacesAgree(task[t]) /\ task[t].status \in LegacyTaskStatuses
  BY <1>1 DEF RowInv, TaskRows, AbsentTask, Absent
<1> QED BY <1>1, <1>2 DEF FacesAgree, ReopenExecution, LegacyTaskStatuses

LEMMA AssignmentKeeps ==
    ASSUME TypeOK, WorkflowInv, AssignmentStep
    PROVE  WorkflowInv'
<1>1. ASSUME UNCHANGED task PROVE WorkflowInv'
  BY <1>1 DEF WorkflowInv
<1>2. ASSUME NEW s \in Sessions, NEW a \in Assignments, AcceptAssignment(s, a)
      PROVE  WorkflowInv'
  <2> DEFINE t == assignment[a].task
             r == task[t]
             row == [r EXCEPT !.owner = s, !.status = "claimed", !.exec = "claimed"]
  <2>1. t \in Tasks /\ s # None
    BY <1>2, IdentityAssumption DEF AcceptAssignment, Eligible, TypeOK, AssignmentRows
  <2>2. Acceptable(s, t)
    BY <1>2 DEF AcceptAssignment
  <2> HIDE DEF t
  <2>3. RowInv(r) /\ r \in TaskRows
    BY <2>1 DEF WorkflowInv, RowInv
  <2>4. /\ r.verif \in {"not_required", "changes_requested"}
        /\ r.integ = "pending"
    BY <2>1, <2>2, AcceptableRow
  <2>5. /\ row \in TaskRows /\ row.status = "claimed" /\ row.exec = "claimed"
        /\ row.owner = s /\ row.verif = r.verif /\ row.integ = r.integ
    BY <2>3 DEF TaskRows, SessionOrNull, LegacyTaskStatuses, ExecutionStatuses
  <2>6. RowInv(row)
    BY <2>1, <2>4, <2>5 DEF RowInv, FacesAgree, ReopenExecution, RowOwned, RowApproved,
                            RowReported, Absent
  <2>7. task' = [task EXCEPT ![t] = row]
    BY <1>2, <2>1 DEF AcceptAssignment, TypeOK, t
  <2> QED BY <2>1, <2>6, <2>7, OthersKeep
<1>3. ASSUME NEW s \in Sessions, NEW a \in Assignments, RefuseAssignment(s, a)
      PROVE  WorkflowInv'
  BY <1>1, <1>3 DEF RefuseAssignment
<1>4. ASSUME NEW by \in Actors, NEW t \in Tasks, NEW target \in Targets,
             NEW role \in BOOLEAN,
             \/ \E slot \in Assignments : AssignTask(by, t, target, role, slot)
             \/ RepeatAssignment(by, t, target, role)
      PROVE  WorkflowInv'
  BY <1>1, <1>4 DEF AssignTask, RepeatAssignment
<1> QED BY <1>2, <1>3, <1>4 DEF AssignmentStep

LEMMA HandoffKeeps ==
    ASSUME TypeOK, WorkflowInv, HandoffStep
    PROVE  WorkflowInv'
<1>1. ASSUME UNCHANGED task PROVE WorkflowInv'
  BY <1>1 DEF WorkflowInv
<1>2. ASSUME NEW s \in Sessions, NEW t \in Tasks, AcceptHandoff(s, t)
      PROVE  WorkflowInv'
  <2> DEFINE r == task[t]
             row == [r EXCEPT !.owner = s]
  <2>1. RowInv(r) /\ r \in TaskRows /\ s # None /\ handoff[t].to = s
    BY <1>2, IdentityAssumption DEF WorkflowInv, RowInv, AcceptHandoff
  <2>2. Transferable(t) /\ r.owner # None
    BY <1>2, <2>1, IdentityAssumption
       DEF AcceptHandoff, HandoffStands, TypeOK, HandoffRows, NoHandoff
  <2>3. r.status \notin {Absent, "todo", "cancelled"}
    BY <2>1, <2>2 DEF RowInv, RowOwned
  <2>4. r.status # "awaiting_review"
    BY <2>1, <2>2 DEF Transferable, RowInv, FacesAgree, ReopenExecution, Absent
  <2>5. /\ row \in TaskRows /\ row.owner = s /\ row.status = r.status
        /\ row.exec = r.exec /\ row.verif = r.verif /\ row.integ = r.integ
        /\ row.reporter = r.reporter /\ row.reviewer = r.reviewer
    BY <2>1 DEF TaskRows, SessionOrNull
  <2>6. FacesAgree(row)
    BY <2>1, <2>3, <2>5 DEF RowInv, FacesAgree
  <2>7. RowInv(row)
    BY <2>1, <2>3, <2>4, <2>5, <2>6 DEF RowInv, RowOwned, RowApproved, RowReported
  <2>8. task' = [task EXCEPT ![t] = row]
    BY <1>2 DEF AcceptHandoff
  <2> QED BY <2>7, <2>8, OthersKeep
<1> QED BY <1>1, <1>2 DEF HandoffStep, RequestHandoff, RefuseHandoff

\* Sessions, leases and the clock leave the task rows alone.
LEMMA ElsewhereKeepsTasks ==
    ASSUME SessionStep \/ LeaseStep \/ Tick \/ UNCHANGED vars
    PROVE  task' = task
<1>1. CASE SessionStep
  BY <1>1 DEF SessionStep, JoinRoom, LeaveSession, Heartbeat, ClientDies
<1>2. CASE LeaseStep
  <2>1. ASSUME NEW s \in Sessions, NEW p \in Paths, NEW m \in Modes,
               NEW t \in Tasks \cup {None},
               \/ \E l \in Leases : AcquireLease(s, l, p, m, t)
               \/ ReuseLease(s, p, m, t)
               \/ RefuseLease(s, p, m, t)
        PROVE  task' = task
    BY <2>1 DEF AcquireLease, ReuseLease, RefuseLease
  <2>2. ASSUME NEW s \in Sessions, NEW l \in Leases, ReleaseLease(s, l)
        PROVE  task' = task
    BY <2>2 DEF ReleaseLease
  <2> QED BY <1>2, <2>1, <2>2 DEF LeaseStep
<1>3. CASE Tick \/ UNCHANGED vars
  BY <1>3 DEF Tick, vars
<1> QED BY <1>1, <1>2, <1>3

LEMMA NextWorkflow == TypeOK /\ WorkflowInv /\ [Next]_vars => WorkflowInv'
<1> SUFFICES ASSUME TypeOK, WorkflowInv, [Next]_vars PROVE WorkflowInv'
  OBVIOUS
<1>1. ASSUME UNCHANGED task PROVE WorkflowInv'
  BY <1>1 DEF WorkflowInv
<1>2. CASE SessionStep \/ LeaseStep \/ Tick \/ UNCHANGED vars
  BY <1>1, <1>2, ElsewhereKeepsTasks
<1> QED BY <1>2, ClaimKeeps, ContractKeeps, EvidenceKeeps,
           AssignmentKeeps, HandoffKeeps
        DEF Next

\* Every task is in a phase that its faces, owner, report and review agree with.
THEOREM WorkflowInvariant == Spec => [](TypeOK /\ WorkflowInv)
BY InitTyped, NextTyped, InitWorkflow, NextWorkflow, PTL DEF Spec

-------------------------------------------------------------------------------
\* The invariants the runs check, for any number of sessions, members and tasks.

\* The legacy status column and the three faces never drift apart.
THEOREM FacesAlwaysAgree == Spec => []LegacyFacesAgree
<1>1. WorkflowInv => LegacyFacesAgree
  BY DEF WorkflowInv, RowInv, LegacyFacesAgree, Created
<1> QED BY <1>1, WorkflowInvariant, PTL

\* No sequence of commands reaches the phase "unclassified".
THEOREM AlwaysClassified == Spec => []PhaseClassified
<1>1. WorkflowInv => PhaseClassified
  <2> SUFFICES ASSUME WorkflowInv, NEW t \in Tasks, task[t].status # Absent
               PROVE  TaskPhase(MakeFaces(task[t].exec, task[t].verif, task[t].integ))
                        # "unclassified"
    BY DEF PhaseClassified, Created
  <2> DEFINE f == MakeFaces(task[t].exec, task[t].verif, task[t].integ)
  <2> SUFFICES TaskPhase(f) # "unclassified"
    OBVIOUS
  <2>1. FacesAgree(task[t]) /\ task[t].status \in LegacyTaskStatuses
    BY DEF WorkflowInv, RowInv, TaskRows
  <2>2. /\ f.exec = task[t].exec /\ f.verif = task[t].verif /\ f.integ = task[t].integ
    BY DEF MakeFaces
  <2> HIDE DEF f
  <2>3. CASE task[t].status \in ReopenExecution
    <3>1. f.exec \in ReopenExecution /\ f.integ = "pending"
          /\ f.verif \in {"not_required", "changes_requested"}
      BY <2>1, <2>2, <2>3 DEF FacesAgree, ReopenExecution
    <3>2. CASE f.verif = "changes_requested"
      BY <3>1, <3>2 DEF TaskPhase, ReopenExecution, ClosedVerification
    <3>3. CASE f.verif = "not_required"
      <4>1. TaskPhase(f) = f.exec
        BY <3>1, <3>3 DEF TaskPhase, ReopenExecution, ClosedVerification
      <4> QED BY <3>1, <4>1 DEF ReopenExecution
    <3> QED BY <3>1, <3>2, <3>3
  <2>4. CASE task[t].status \notin ReopenExecution
    <3>1. \/ f.exec = "completed" /\ f.verif = "pending" /\ f.integ = "pending"
          \/ f.exec = "completed" /\ f.verif = "approved" /\ f.integ = "pending"
          \/ f.exec = "completed" /\ f.verif = "approved" /\ f.integ = "failed"
          \/ f.exec = "completed" /\ f.verif = "approved" /\ f.integ = "done"
          \/ f.exec = "cancelled" /\ f.verif = "not_required" /\ f.integ = "pending"
      BY <2>1, <2>2, <2>4 DEF FacesAgree, ReopenExecution, LegacyTaskStatuses
    <3>2. TaskPhase(f) \in {"awaiting_review", "pending_integration",
                            "integration_failed", "done", "cancelled"}
      BY <3>1 DEF TaskPhase, ReopenExecution, ClosedVerification
    <3> QED BY <3>2
  <2> QED BY <2>3, <2>4
<1> QED BY <1>1, WorkflowInvariant, PTL

\* A task has an owner exactly while somebody answers for it.
THEOREM AlwaysOwnedWhileAnswered == Spec => []OwnedWhileAnswered
<1>1. WorkflowInv => OwnedWhileAnswered
  BY DEF WorkflowInv, RowInv, OwnedWhileAnswered, RowOwned
<1> QED BY <1>1, WorkflowInvariant, PTL

\* What is approved was reported by one identity and reviewed by another.
THEOREM AlwaysIndependent == Spec => []IndependentApproval
<1>1. WorkflowInv => IndependentApproval
  BY DEF WorkflowInv, RowInv, IndependentApproval, RowApproved
<1> QED BY <1>1, WorkflowInvariant, PTL

-------------------------------------------------------------------------------
\* What a step may never do.

\* A step that writes one row leaves the others as they are.
LEMMA OneRow ==
    ASSUME NEW t \in Tasks, NEW u \in Tasks, u # t, NEW row, TypeOK,
           task' = [task EXCEPT ![t] = row]
    PROVE  task'[u] = task[u]
BY DEF TypeOK

\* An integrated row: no handler's guard lets it through, and an update that
\* repeats the status writes the values it already has.
LEMMA DoneRow ==
    ASSUME WorkflowInv, NEW t \in Tasks, task[t].status = "done"
    PROVE  /\ task[t] \in TaskRows
           /\ task[t].exec = "completed" /\ task[t].verif = "approved"
           /\ task[t].integ = "done" /\ task[t].owner # None
BY DEF WorkflowInv, RowInv, FacesAgree, ReopenExecution, RowOwned, Absent

LEMMA DoneStatusWrite ==
    ASSUME TypeOK, WorkflowInv, NEW t \in Tasks, task[t].status = "done",
           NEW next \in LegacyTaskStatuses, StatusWrite(t, next)
    PROVE  task'[t] = task[t]
<1> DEFINE r == task[t]
           f == TaskStateForLegacyStatus("done", r.verif)
<1>1. /\ r \in TaskRows /\ r.status = "done"
      /\ r.exec = "completed" /\ r.verif = "approved" /\ r.integ = "done"
  BY DoneRow
<1>2. next = "done"
  BY DEF StatusWrite, LegacyTaskTransitions
<1>3. f.exec = "completed" /\ f.verif = "approved" /\ f.integ = "done"
  BY DEF TaskStateForLegacyStatus, MakeFaces
<1>4. SetFaces(r, "done", f) = r
  BY <1>1, <1>3 DEF SetFaces, TaskRows
<1>5. task'[t] = [r EXCEPT !.owner = r.owner]
  BY <1>2, <1>4 DEF StatusWrite, StatusRow, TypeOK
<1> QED BY <1>1, <1>5 DEF TaskRows

\* The steps that may write the row of t, for a t that is integrated.
LEMMA DoneStep ==
    ASSUME TypeOK, WorkflowInv, [Next]_vars, NEW u \in Tasks, task[u].status = "done"
    PROVE  task'[u] = task[u]
<1>1. /\ task[u].exec = "completed" /\ task[u].verif = "approved"
      /\ task[u].integ = "done" /\ task[u].owner # None
  BY DoneRow
<1>2. CASE SessionStep \/ LeaseStep \/ Tick \/ UNCHANGED vars
  BY <1>2, ElsewhereKeepsTasks
<1>3. CASE ClaimStep
  <2> PICK s \in Sessions, t \in Tasks : ClaimTask(s, t) \/ ReclaimTask(s, t)
    BY <1>3 DEF ClaimStep
  <2>1. t # u
    BY <1>1 DEF ClaimTask, ReclaimTask, MayReclaim, InWork, ReleaseExecutionStatuses
  <2> QED BY <2>1 DEF ClaimTask, ReclaimTask, TypeOK
<1>4. CASE ContractStep
  <2>1. ASSUME NEW s \in Sessions, NEW t \in Tasks, NEW D \in SUBSET Tasks,
               CreateTask(s, t, D)
        PROVE  task'[u] = task[u]
    BY <2>1 DEF CreateTask, Created, TypeOK, Absent
  <2>2. ASSUME NEW t \in Tasks, ReleaseTaskLocked(t) PROVE task'[u] = task[u]
    BY <1>1, <2>2 DEF ReleaseTaskLocked, InWork, ReleaseExecutionStatuses, TypeOK
  <2>3. ASSUME NEW t \in Tasks, NEW next \in LegacyTaskStatuses, StatusWrite(t, next)
        PROVE  task'[u] = task[u]
    <3>1. CASE t = u
      BY <2>3, <3>1, DoneStatusWrite
    <3>2. CASE t # u
      BY <2>3, <3>2 DEF StatusWrite, TypeOK
    <3> QED BY <3>1, <3>2
  <2> QED BY <1>4, <2>1, <2>2, <2>3
          DEF ContractStep, ReleaseTask, ReleaseByUpdate, CancelTask, UpdateTask,
              LegacyTaskStatuses
<1>5. CASE EvidenceStep
  <2>1. ASSUME NEW s \in Sessions, NEW t \in Tasks, WorkReport(s, t)
        PROVE  task'[u] = task[u]
    BY <1>1, <2>1 DEF WorkReport, InWork, ReleaseExecutionStatuses, TypeOK
  <2>2. ASSUME NEW s \in Sessions, NEW t \in Tasks, NEW approved \in BOOLEAN,
               SubmitReview(s, t, approved)
        PROVE  task'[u] = task[u]
    BY <2>2 DEF SubmitReview, AwaitingReview, TypeOK
  <2>3. ASSUME NEW actor \in Actors, NEW t \in Tasks, NEW result \in {"done", "failed"},
               SubmitIntegration(actor, t, result)
        PROVE  task'[u] = task[u]
    BY <2>3 DEF SubmitIntegration, TypeOK
  <2> QED BY <1>5, <2>1, <2>2, <2>3 DEF EvidenceStep
<1>6. CASE AssignmentStep
  <2>1. ASSUME NEW s \in Sessions, NEW a \in Assignments, AcceptAssignment(s, a)
        PROVE  task'[u] = task[u]
    <3>1. assignment[a].task \in Tasks
      BY <2>1 DEF AcceptAssignment, Eligible, TypeOK, AssignmentRows
    <3>2. assignment[a].task # u
      BY <1>1, <2>1 DEF AcceptAssignment, Acceptable, Abandoned
    <3> QED BY <2>1, <3>1, <3>2 DEF AcceptAssignment, TypeOK
  <2>2. ASSUME NEW s \in Sessions, NEW a \in Assignments, RefuseAssignment(s, a)
        PROVE  task'[u] = task[u]
    BY <2>2 DEF RefuseAssignment
  <2>3. ASSUME NEW by \in Actors, NEW t \in Tasks, NEW target \in Targets,
               NEW role \in BOOLEAN,
               \/ \E slot \in Assignments : AssignTask(by, t, target, role, slot)
               \/ RepeatAssignment(by, t, target, role)
        PROVE  task'[u] = task[u]
    BY <2>3 DEF AssignTask, RepeatAssignment
  <2> QED BY <1>6, <2>1, <2>2, <2>3 DEF AssignmentStep
<1>7. CASE HandoffStep
  <2>1. ASSUME NEW s \in Sessions, NEW t \in Tasks, AcceptHandoff(s, t)
        PROVE  task'[u] = task[u]
    BY <1>1, <2>1 DEF AcceptHandoff, HandoffStands, Transferable, TypeOK
  <2>2. ASSUME NEW t \in Tasks,
               \/ \E actor \in Actors, to \in Sessions : RequestHandoff(actor, t, to)
               \/ \E s \in Sessions : RefuseHandoff(s, t)
        PROVE  task'[u] = task[u]
    BY <2>2 DEF RequestHandoff, RefuseHandoff
  <2> QED BY <1>7, <2>1, <2>2 DEF HandoffStep
<1> QED BY <1>2, <1>3, <1>4, <1>5, <1>6, <1>7 DEF Next

\* An integrated task is never touched again.
THEOREM DoneStaysDone == Spec => DoneIsFinal
<1>1. TypeOK /\ WorkflowInv /\ [Next]_vars
      => [\A t \in Tasks : task[t].status = "done" => task'[t] = task[t]]_vars
  BY DoneStep
<1> QED BY <1>1, WorkflowInvariant, PTL DEF Spec, DoneIsFinal

-------------------------------------------------------------------------------
(* What a review asked to change is remembered until the next report.       *)

Remembered(r) == r.verif = "changes_requested" \/ r.status \in {"awaiting_review", "cancelled"}

\* A task that was sent back is open again.
LEMMA SentBackRow ==
    ASSUME WorkflowInv, NEW t \in Tasks, task[t].verif = "changes_requested"
    PROVE  task[t] \in TaskRows /\ task[t].status \in ReopenExecution
<1>1. /\ task[t] \in TaskRows
      /\ task[t].status = Absent => task[t] = AbsentTask
      /\ task[t].status # Absent => FacesAgree(task[t])
  BY DEF WorkflowInv, RowInv
<1>2. task[t].status # Absent
  BY <1>1 DEF AbsentTask
<1> QED BY <1>1, <1>2 DEF FacesAgree, TaskRows, LegacyTaskStatuses, ReopenExecution

\* A status write of an open task keeps the verdict in the columns.
LEMMA SentBackWrite ==
    ASSUME TypeOK, WorkflowInv, NEW t \in Tasks, task[t].verif = "changes_requested",
           NEW next \in LegacyTaskStatuses, next \in ReopenExecution \cup {"cancelled"}
    PROVE  Remembered(StatusRow(t, next))
<1> DEFINE f == TaskStateForLegacyStatus(next, task[t].verif)
<1>1. task[t] \in TaskRows
  BY SentBackRow
<1>2. f \in Faces
  BY <1>1, FacesTyped DEF TaskRows
<1>3. f.verif = "changes_requested" \/ next = "cancelled"
  BY DEF TaskStateForLegacyStatus, MakeFaces, ReopenExecution
<1> HIDE DEF f
<1>4. StatusRow(t, next) = SetFaces(task[t], next, f)
  BY DEF StatusRow, f
<1> QED BY <1>1, <1>2, <1>3, <1>4, SetFacesFields DEF Remembered

LEMMA ContractRemembers ==
    ASSUME TypeOK, WorkflowInv, ContractStep, NEW u \in Tasks,
           task[u].verif = "changes_requested"
    PROVE  Remembered(task'[u])
<1>1. task[u] \in TaskRows /\ task[u].status \in ReopenExecution
  BY SentBackRow
<1>2. ASSUME NEW s \in Sessions, NEW t \in Tasks, NEW D \in SUBSET Tasks, CreateTask(s, t, D)
      PROVE  Remembered(task'[u])
  <2>1. t # u
    BY <1>1, <1>2 DEF CreateTask, Created, ReopenExecution, Absent
  <2> QED BY <1>2, <2>1 DEF CreateTask, TypeOK, Remembered
<1>3. ASSUME NEW t \in Tasks, ReleaseTaskLocked(t) PROVE Remembered(task'[u])
  <2>1. CASE t = u
    <3>1. StatusRow(u, "todo") \in TaskRows /\ Remembered(StatusRow(u, "todo"))
      BY SentBackWrite, StatusRowTyped DEF LegacyTaskStatuses, ReopenExecution
    <3>2. task'[u] = [StatusRow(u, "todo") EXCEPT !.owner = None]
      BY <1>3, <2>1 DEF ReleaseTaskLocked, ReleaseRow, TypeOK
    <3> QED BY <3>1, <3>2 DEF Remembered, TaskRows
  <2>2. CASE t # u
    BY <1>3, <2>2 DEF ReleaseTaskLocked, TypeOK, Remembered
  <2> QED BY <2>1, <2>2
<1>4. ASSUME NEW t \in Tasks, NEW next \in LegacyTaskStatuses, StatusWrite(t, next)
      PROVE  Remembered(task'[u])
  <2>1. CASE t = u
    <3> DEFINE w == StatusRow(u, next)
               o == IF next \in {"todo", "cancelled"} THEN None ELSE w.owner
    <3>1. next \in ReopenExecution \cup {"cancelled"}
      <4>1. next \notin StructuredStatuses
        BY <1>1, <1>4, <2>1 DEF StatusWrite, StructuredStatuses, ReopenExecution
      <4> QED BY <4>1 DEF StructuredStatuses, LegacyTaskStatuses, ReopenExecution
    <3>2. w \in TaskRows /\ Remembered(w)
      BY <3>1, SentBackWrite, StatusRowTyped
    <3>3. task'[u] = [w EXCEPT !.owner = o]
      BY <1>4, <2>1 DEF StatusWrite, TypeOK
    <3> HIDE DEF w, o
    <3> QED BY <3>2, <3>3 DEF Remembered, TaskRows
  <2>2. CASE t # u
    BY <1>4, <2>2 DEF StatusWrite, TypeOK, Remembered
  <2> QED BY <2>1, <2>2
<1> QED BY <1>2, <1>3, <1>4
        DEF ContractStep, ReleaseTask, ReleaseByUpdate, CancelTask, UpdateTask,
            LegacyTaskStatuses

LEMMA RemembersStep ==
    ASSUME TypeOK, WorkflowInv, [Next]_vars, NEW u \in Tasks,
           task[u].verif = "changes_requested"
    PROVE  Remembered(task'[u])
<1>1. task[u] \in TaskRows /\ task[u].status \in ReopenExecution
  BY SentBackRow
<1>2. ASSUME task'[u] = task[u] PROVE Remembered(task'[u])
  BY <1>2 DEF Remembered
<1>3. CASE SessionStep \/ LeaseStep \/ Tick \/ UNCHANGED vars
  BY <1>2, <1>3, ElsewhereKeepsTasks
<1>4. CASE ClaimStep
  <2> PICK s \in Sessions, t \in Tasks : ClaimTask(s, t) \/ ReclaimTask(s, t)
    BY <1>4 DEF ClaimStep
  <2>1. CASE t = u
    BY <1>1, <2>1 DEF ClaimTask, ReclaimTask, TypeOK, TaskRows, Remembered
  <2>2. CASE t # u
    BY <1>2, <2>2 DEF ClaimTask, ReclaimTask, TypeOK
  <2> QED BY <2>1, <2>2
<1>5. CASE EvidenceStep
  <2>1. ASSUME NEW s \in Sessions, NEW t \in Tasks, WorkReport(s, t)
        PROVE  Remembered(task'[u])
    <3>1. CASE t = u
      <4> DEFINE row == SetFaces(task[u], "awaiting_review",
                                 MakeFaces("completed", "pending", "pending"))
      <4>1. MakeFaces("completed", "pending", "pending") \in Faces
        BY DEF MakeFaces, Faces, ExecutionStatuses, VerificationStatuses, IntegrationStatuses
      <4>3. row \in TaskRows /\ row.status = "awaiting_review"
        BY <1>1, <4>1, SetFacesTyped, SetFacesFields DEF LegacyTaskStatuses
      <4>2. task'[u] = [row EXCEPT !.reporter = MemberOf[s], !.reviewer = None]
        BY <2>1, <3>1 DEF WorkReport, TypeOK
      <4> HIDE DEF row
      <4> QED BY <4>2, <4>3 DEF Remembered, TaskRows
    <3>2. CASE t # u
      BY <1>2, <2>1, <3>2 DEF WorkReport, TypeOK
    <3> QED BY <3>1, <3>2
  <2>2. ASSUME NEW s \in Sessions, NEW t \in Tasks, NEW approved \in BOOLEAN,
               SubmitReview(s, t, approved)
        PROVE  Remembered(task'[u])
    BY <1>2, <2>2 DEF SubmitReview, AwaitingReview, TypeOK
  <2>3. ASSUME NEW actor \in Actors, NEW t \in Tasks, NEW result \in {"done", "failed"},
               SubmitIntegration(actor, t, result)
        PROVE  Remembered(task'[u])
    BY <1>2, <2>3 DEF SubmitIntegration, TypeOK
  <2> QED BY <1>5, <2>1, <2>2, <2>3 DEF EvidenceStep
<1>6. CASE AssignmentStep
  <2>1. ASSUME NEW s \in Sessions, NEW a \in Assignments, AcceptAssignment(s, a)
        PROVE  Remembered(task'[u])
    <3>1. assignment[a].task \in Tasks
      BY <2>1 DEF AcceptAssignment, Eligible, TypeOK, AssignmentRows
    <3> QED BY <1>1, <2>1, <3>1 DEF AcceptAssignment, TypeOK, TaskRows, Remembered
  <2>2. ASSUME NEW s \in Sessions, NEW a \in Assignments, RefuseAssignment(s, a)
        PROVE  task'[u] = task[u]
    BY <2>2 DEF RefuseAssignment
  <2>3. ASSUME NEW by \in Actors, NEW t \in Tasks, NEW target \in Targets,
               NEW role \in BOOLEAN,
               \/ \E slot \in Assignments : AssignTask(by, t, target, role, slot)
               \/ RepeatAssignment(by, t, target, role)
        PROVE  task'[u] = task[u]
    BY <2>3 DEF AssignTask, RepeatAssignment
  <2> QED BY <1>2, <1>6, <2>1, <2>2, <2>3 DEF AssignmentStep
<1>7. CASE HandoffStep
  <2>1. ASSUME NEW s \in Sessions, NEW t \in Tasks, AcceptHandoff(s, t)
        PROVE  Remembered(task'[u])
    BY <1>1, <2>1 DEF AcceptHandoff, TypeOK, TaskRows, Remembered
  <2>2. ASSUME NEW t \in Tasks,
               \/ \E actor \in Actors, to \in Sessions : RequestHandoff(actor, t, to)
               \/ \E s \in Sessions : RefuseHandoff(s, t)
        PROVE  task'[u] = task[u]
    BY <2>2 DEF RequestHandoff, RefuseHandoff
  <2> QED BY <1>2, <1>7, <2>1, <2>2 DEF HandoffStep
<1> QED BY <1>3, <1>4, <1>5, <1>6, <1>7, ContractRemembers DEF Next

\* A review's request for changes stands in the columns of the task through
\* releases, claims, handoffs and updates, until a report answers it or the task
\* is cancelled (submit_review, update_task, release_task).
THEOREM ChangesAlwaysRemembered == Spec => ChangesRequestedRemembered
<1>1. TypeOK /\ WorkflowInv /\ [Next]_vars
      => [\A t \in Tasks : task[t].verif = "changes_requested" =>
            \/ task'[t].verif = "changes_requested"
            \/ task'[t].status \in {"awaiting_review", "cancelled"}]_vars
  BY RemembersStep DEF Remembered
<1> QED BY <1>1, WorkflowInvariant, PTL DEF Spec, ChangesRequestedRemembered

-------------------------------------------------------------------------------
\* A status write, a release and the evidence handlers give no task to anybody.
LEMMA ContractGivesNothing ==
    ASSUME TypeOK, WorkflowInv, ContractStep, NEW u \in Tasks
    PROVE  task'[u].owner \in {None, task[u].owner}
<1>1. ASSUME NEW s \in Sessions, NEW t \in Tasks, NEW D \in SUBSET Tasks,
             CreateTask(s, t, D)
      PROVE  task'[u].owner \in {None, task[u].owner}
  BY <1>1 DEF CreateTask, SetFaces, TypeOK, TaskRows
<1>2. ASSUME NEW t \in Tasks, ReleaseTaskLocked(t)
      PROVE  task'[u].owner \in {None, task[u].owner}
  <2>1. StatusRow(t, "todo") \in TaskRows
    BY StatusRowTyped DEF LegacyTaskStatuses
  <2>2. ReleaseRow(t).owner = None
    BY <2>1 DEF ReleaseRow, TaskRows
  <2> QED BY <1>2, <2>2 DEF ReleaseTaskLocked, TypeOK
<1>3. ASSUME NEW t \in Tasks, NEW next \in LegacyTaskStatuses, StatusWrite(t, next)
      PROVE  task'[u].owner \in {None, task[u].owner}
  <2> DEFINE w == StatusRow(t, next)
             o == IF next \in {"todo", "cancelled"} THEN None ELSE w.owner
  <2>1. w \in TaskRows
    BY StatusRowTyped
  <2>2. task[t] \in TaskRows
        /\ TaskStateForLegacyStatus(next, task[t].verif) \in Faces
    BY FacesTyped DEF TypeOK, TaskRows
  <2>3. w.owner = task[t].owner
    BY <2>2, SetFacesFields DEF StatusRow
  <2>4. task' = [task EXCEPT ![t] = [w EXCEPT !.owner = o]]
    BY <1>3 DEF StatusWrite
  <2>5. [w EXCEPT !.owner = o].owner = o
    BY <2>1 DEF TaskRows
  <2> QED BY <2>3, <2>4, <2>5 DEF TypeOK
<1> QED BY <1>1, <1>2, <1>3
        DEF ContractStep, ReleaseTask, ReleaseByUpdate, CancelTask, UpdateTask,
            LegacyTaskStatuses

LEMMA EvidenceGivesNothing ==
    ASSUME TypeOK, EvidenceStep, NEW u \in Tasks
    PROVE  task'[u].owner = task[u].owner
<1>1. ASSUME NEW s \in Sessions, NEW t \in Tasks, WorkReport(s, t)
      PROVE  task'[u].owner = task[u].owner
  BY <1>1 DEF WorkReport, SetFaces, TypeOK, TaskRows
<1>2. ASSUME NEW s \in Sessions, NEW t \in Tasks, NEW approved \in BOOLEAN,
             SubmitReview(s, t, approved)
      PROVE  task'[u].owner = task[u].owner
  BY <1>2 DEF SubmitReview, VerdictRow, SetFaces, TypeOK, TaskRows
<1>3. ASSUME NEW actor \in Actors, NEW t \in Tasks, NEW result \in {"done", "failed"},
             SubmitIntegration(actor, t, result)
      PROVE  task'[u].owner = task[u].owner
  BY <1>3 DEF SubmitIntegration, TypeOK, TaskRows
<1> QED BY <1>1, <1>2, <1>3 DEF EvidenceStep

\* The steps that give a task to another session: a claim takes an unowned task,
\* a reclaim stays within the identity, an acceptance takes an unowned or an
\* abandoned task, and a handoff names both sides.
LEMMA TakeoverStep ==
    ASSUME TypeOK, WorkflowInv, [Next]_vars, NEW u \in Tasks,
           task[u].owner # None, task'[u].owner \notin {None, task[u].owner},
           ~SameAgentIdentity(task[u].owner, task'[u].owner),
           sess[task[u].owner] # "left"
    PROVE  HandedOver(u)
<1>1. CASE SessionStep \/ LeaseStep \/ Tick \/ UNCHANGED vars
  BY <1>1, ElsewhereKeepsTasks
<1>2. CASE ContractStep
  BY <1>2, ContractGivesNothing
<1>3. CASE EvidenceStep
  BY <1>3, EvidenceGivesNothing
<1>4. CASE ClaimStep
  <2> PICK s \in Sessions, t \in Tasks : ClaimTask(s, t) \/ ReclaimTask(s, t)
    BY <1>4 DEF ClaimStep
  <2>1. t = u
    BY DEF ClaimTask, ReclaimTask, TypeOK
  <2>2. ReclaimTask(s, u)
    BY <2>1 DEF ClaimTask
  <2>3. task'[u].owner = s
    BY <2>2 DEF ReclaimTask, TypeOK, TaskRows
  <2> QED BY <2>2, <2>3 DEF ReclaimTask, MayReclaim, SameAgentIdentity
<1>5. CASE AssignmentStep
  <2>1. ASSUME NEW s \in Sessions, NEW a \in Assignments, AcceptAssignment(s, a)
        PROVE  FALSE
    <3>1. assignment[a].task \in Tasks
      BY <2>1 DEF AcceptAssignment, Eligible, TypeOK, AssignmentRows
    <3>2. assignment[a].task = u
      BY <2>1, <3>1 DEF AcceptAssignment, TypeOK
    <3>3. task'[u].owner = s
      BY <2>1, <3>2 DEF AcceptAssignment, TypeOK, TaskRows
    <3>4. Abandoned(u)
      BY <2>1, <3>2, <3>3 DEF AcceptAssignment, Acceptable
    <3> QED BY <3>4 DEF Abandoned
  <2>2. ASSUME NEW s \in Sessions, NEW a \in Assignments, RefuseAssignment(s, a)
        PROVE  task' = task
    BY <2>2 DEF RefuseAssignment
  <2>3. ASSUME NEW by \in Actors, NEW t \in Tasks, NEW target \in Targets,
               NEW role \in BOOLEAN,
               \/ \E slot \in Assignments : AssignTask(by, t, target, role, slot)
               \/ RepeatAssignment(by, t, target, role)
        PROVE  task' = task
    BY <2>3 DEF AssignTask, RepeatAssignment
  <2> QED BY <1>5, <2>1, <2>2, <2>3 DEF AssignmentStep
<1>6. CASE HandoffStep
  <2>1. ASSUME NEW s \in Sessions, NEW t \in Tasks, AcceptHandoff(s, t)
        PROVE  HandedOver(u)
    <3>1. t = u
      BY <2>1 DEF AcceptHandoff, TypeOK
    <3>2. task'[u].owner = s
      BY <2>1, <3>1 DEF AcceptHandoff, TypeOK, TaskRows
    <3> QED BY <2>1, <3>1, <3>2 DEF AcceptHandoff, HandoffStands, HandedOver
  <2>2. ASSUME NEW t \in Tasks,
               \/ \E actor \in Actors, to \in Sessions : RequestHandoff(actor, t, to)
               \/ \E s \in Sessions : RefuseHandoff(s, t)
        PROVE  task' = task
    BY <2>2 DEF RequestHandoff, RefuseHandoff
  <2> QED BY <1>6, <2>1, <2>2 DEF HandoffStep
<1> QED BY <1>1, <1>2, <1>3, <1>4, <1>5, <1>6 DEF Next

\* An owner that has not left loses its task to another identity only by a
\* handoff that names both of them.
THEOREM NeverTakenSilently == Spec => NoSilentTakeover
<1>1. TypeOK /\ WorkflowInv /\ [Next]_vars
      => [\A t \in Tasks :
            (/\ task[t].owner # None /\ task'[t].owner \notin {None, task[t].owner}
             /\ ~SameAgentIdentity(task[t].owner, task'[t].owner)
             /\ sess[task[t].owner] # "left")
            => HandedOver(t)]_vars
  BY TakeoverStep
<1> QED BY <1>1, WorkflowInvariant, PTL DEF Spec, NoSilentTakeover

-------------------------------------------------------------------------------
(* The dependency graph.  update_task asks, for each new dependency,        *)
(* whether the recursive query reaches the task over the graph as it is,    *)
(* then replaces the row's edges: no step closes a cycle.                   *)

\* A task that was never created has no edges and no edge leads to it.
EdgesCreated ==
    \A t \in Tasks : /\ deps[t] \subseteq Created
                     /\ t \notin Created => deps[t] = {}

DependencyInv == Acyclic /\ EdgesCreated

\* What the query reaches from D, with D itself, is closed under dependencies.
LEMMA ReachClosed ==
    ASSUME TypeOK, NEW D \in SUBSET Tasks,
           NEW x \in Tasks, x \in D \/ \E d \in D : Reaches(d, x),
           NEW y \in deps[x]
    PROVE  \E d \in D : Reaches(d, y)
<1>1. y \in Tasks
  BY DEF TypeOK
<1>2. CASE x \in D
  BY <1>2 DEF Reaches
<1>3. CASE \E d \in D : Reaches(d, x)
  <2> PICK d \in D : Reaches(d, x)
    BY <1>3
  <2> QED BY DEF Reaches
<1> QED BY <1>2, <1>3

\* Replacing the edges of one task by edges from which the query does not reach
\* it leaves the graph without a cycle.
LEMMA RewireKeepsAcyclic ==
    ASSUME TypeOK, Acyclic, NEW t \in Tasks, NEW D \in SUBSET Tasks,
           t \notin D, \A d \in D : ~Reaches(d, t),
           deps' = [deps EXCEPT ![t] = D]
    PROVE  Acyclic'
<1> SUFFICES ASSUME NEW S \in SUBSET Tasks, S # {}
             PROVE  \E x \in S : deps'[x] \cap S = {}
  BY DEF Acyclic
<1> DEFINE R == {x \in Tasks : x \in D \/ \E d \in D : Reaches(d, x)}
<1>1. t \notin R
  OBVIOUS
<1>2. \A x \in R : deps[x] \subseteq R
  <2> SUFFICES ASSUME NEW x \in R, NEW y \in deps[x] PROVE y \in R
    OBVIOUS
  <2>1. y \in Tasks
    BY DEF TypeOK
  <2>2. \E d \in D : Reaches(d, y)
    BY ReachClosed
  <2> QED BY <2>1, <2>2
<1>3. CASE S \cap R # {}
  <2>1. PICK x \in S \cap R : deps[x] \cap (S \cap R) = {}
    BY <1>3 DEF Acyclic
  <2>2. x # t /\ deps[x] \subseteq R
    BY <1>1, <1>2, <2>1
  <2>3. deps'[x] = deps[x]
    BY <2>2 DEF TypeOK
  <2>4. deps'[x] \cap S = {}
    BY <2>1, <2>2, <2>3
  <2> QED BY <2>1, <2>4
<1>4. CASE S \cap R = {} /\ t \in S
  <2>1. deps'[t] = D /\ D \subseteq R
    BY DEF TypeOK
  <2> QED BY <1>4, <2>1
<1>5. CASE S \cap R = {} /\ t \notin S
  <2>1. PICK x \in S : deps[x] \cap S = {}
    BY DEF Acyclic
  <2>2. deps'[x] = deps[x]
    BY <1>5 DEF TypeOK
  <2> QED BY <2>1, <2>2
<1> QED BY <1>3, <1>4, <1>5

\* A new task is on no cycle: nothing depends on it yet.
LEMMA NewTaskUnreached ==
    ASSUME TypeOK, EdgesCreated, NEW t \in Tasks, t \notin Created, NEW d \in Tasks
    PROVE  ~Reaches(d, t)
<1>1. Created \in SUBSET Tasks
  BY DEF Created
<1>2. deps[d] \subseteq Created /\ \A x \in Created : deps[x] \subseteq Created
  BY <1>1 DEF EdgesCreated
<1> QED BY <1>1, <1>2 DEF Reaches

-------------------------------------------------------------------------------
\* Rows are never deleted: a task that exists goes on existing.
LEMMA NoRowVanishes ==
    ASSUME TypeOK, WorkflowInv, [Next]_vars, NEW u \in Created
    PROVE  u \in Created'
<1>0. u \in Tasks /\ task[u].status # Absent
  BY DEF Created
<1> SUFFICES task'[u].status # Absent
  BY <1>0 DEF Created
<1>1. CASE SessionStep \/ LeaseStep \/ Tick \/ UNCHANGED vars
  BY <1>0, <1>1, ElsewhereKeepsTasks
<1>2. CASE ClaimStep
  <2> PICK s \in Sessions, t \in Tasks : ClaimTask(s, t) \/ ReclaimTask(s, t)
    BY <1>2 DEF ClaimStep
  <2>1. CASE ClaimTask(s, t)
    BY <1>0, <2>1 DEF ClaimTask, TypeOK, TaskRows, Absent
  <2>2. CASE ReclaimTask(s, t)
    BY <1>0, <2>2 DEF ReclaimTask, TypeOK, TaskRows, Absent
  <2> QED BY <2>1, <2>2
<1>3. CASE ContractStep
  <2>1. ASSUME NEW s \in Sessions, NEW t \in Tasks, NEW D \in SUBSET Tasks,
               CreateTask(s, t, D)
        PROVE  task'[u].status # Absent
    BY <1>0, <2>1 DEF CreateTask, TypeOK, Created
  <2>2. ASSUME NEW t \in Tasks, ReleaseTaskLocked(t)
        PROVE  task'[u].status # Absent
    BY <1>0, <2>2 DEF ReleaseTaskLocked, ReleaseRow, StatusRow, SetFaces, TypeOK,
                      TaskRows, Absent
  <2>3. ASSUME NEW t \in Tasks, NEW next \in LegacyTaskStatuses, StatusWrite(t, next)
        PROVE  task'[u].status # Absent
    BY <1>0, <2>3 DEF StatusWrite, StatusRow, SetFaces, TypeOK, TaskRows,
                      LegacyTaskStatuses, Absent
  <2>4. "cancelled" \in LegacyTaskStatuses
    BY DEF LegacyTaskStatuses
  <2> QED BY <1>3, <2>1, <2>2, <2>3, <2>4
          DEF ContractStep, ReleaseTask, ReleaseByUpdate, CancelTask, UpdateTask
<1>4. CASE EvidenceStep
  <2>1. ASSUME NEW s \in Sessions, NEW t \in Tasks, WorkReport(s, t)
        PROVE  task'[u].status # Absent
    BY <1>0, <2>1 DEF WorkReport, SetFaces, TypeOK, TaskRows, Absent
  <2>2. ASSUME NEW s \in Sessions, NEW t \in Tasks, NEW approved \in BOOLEAN,
               SubmitReview(s, t, approved)
        PROVE  task'[u].status # Absent
    BY <1>0, <2>2 DEF SubmitReview, VerdictRow, SetFaces, TypeOK, TaskRows, Absent
  <2>3. ASSUME NEW actor \in Actors, NEW t \in Tasks, NEW result \in {"done", "failed"},
               SubmitIntegration(actor, t, result)
        PROVE  task'[u].status # Absent
    BY <1>0, <2>3 DEF SubmitIntegration, TypeOK, TaskRows, Absent
  <2> QED BY <1>4, <2>1, <2>2, <2>3 DEF EvidenceStep
<1>5. CASE AssignmentStep
  <2>1. ASSUME NEW s \in Sessions, NEW a \in Assignments, AcceptAssignment(s, a)
        PROVE  task'[u].status # Absent
    <3>1. assignment[a].task \in Tasks
      BY <2>1 DEF AcceptAssignment, Eligible, TypeOK, AssignmentRows
    <3> QED BY <1>0, <2>1, <3>1 DEF AcceptAssignment, TypeOK, TaskRows, Absent
  <2>2. ASSUME NEW s \in Sessions, NEW a \in Assignments, RefuseAssignment(s, a)
        PROVE  task' = task
    BY <2>2 DEF RefuseAssignment
  <2>3. ASSUME NEW by \in Actors, NEW t \in Tasks, NEW target \in Targets,
               NEW role \in BOOLEAN,
               \/ \E slot \in Assignments : AssignTask(by, t, target, role, slot)
               \/ RepeatAssignment(by, t, target, role)
        PROVE  task' = task
    BY <2>3 DEF AssignTask, RepeatAssignment
  <2> QED BY <1>0, <1>5, <2>1, <2>2, <2>3 DEF AssignmentStep
<1>6. CASE HandoffStep
  BY <1>0, <1>6 DEF HandoffStep, RequestHandoff, AcceptHandoff, RefuseHandoff, TypeOK,
                    TaskRows, Absent
<1> QED BY <1>1, <1>2, <1>3, <1>4, <1>5, <1>6 DEF Next

\* A step writes the edges of at most one task, one that exists after it, and
\* only edges to existing tasks from which the query does not reach it.
LEMMA EdgesWritten ==
    ASSUME TypeOK, WorkflowInv, EdgesCreated, [Next]_vars
    PROVE  \/ deps' = deps
           \/ \E t \in Created' : \E D \in SUBSET (Created \ {t}) :
                 /\ \A d \in D : ~Reaches(d, t)
                 /\ deps' = [deps EXCEPT ![t] = D]
<1>1. CASE ~ContractStep
  <2>1. UNCHANGED vars => deps' = deps
    BY DEF vars
  <2>2. SessionStep => deps' = deps
    BY DEF SessionStep, JoinRoom, LeaveSession, Heartbeat, ClientDies
  <2>3. LeaseStep => deps' = deps
    <3>1. ASSUME NEW s \in Sessions, NEW p \in Paths, NEW m \in Modes,
                 NEW t \in Tasks \cup {None},
                 \/ \E l \in Leases : AcquireLease(s, l, p, m, t)
                 \/ ReuseLease(s, p, m, t)
                 \/ RefuseLease(s, p, m, t)
          PROVE  deps' = deps
      BY <3>1 DEF AcquireLease, ReuseLease, RefuseLease
    <3>2. ASSUME NEW s \in Sessions, NEW l \in Leases, ReleaseLease(s, l)
          PROVE  deps' = deps
      BY <3>2 DEF ReleaseLease
    <3> QED BY <3>1, <3>2 DEF LeaseStep
  <2>4. Tick => deps' = deps
    BY DEF Tick
  <2>5. ClaimStep => deps' = deps
    BY DEF ClaimStep, ClaimTask, ReclaimTask
  <2>6. EvidenceStep => deps' = deps
    BY DEF EvidenceStep, WorkReport, SubmitReview, SubmitIntegration
  <2>7. AssignmentStep => deps' = deps
    <3>1. ASSUME NEW s \in Sessions, NEW a \in Assignments,
                 AcceptAssignment(s, a) \/ RefuseAssignment(s, a)
          PROVE  deps' = deps
      BY <3>1 DEF AcceptAssignment, RefuseAssignment
    <3>2. ASSUME NEW by \in Actors, NEW t \in Tasks, NEW target \in Targets,
                 NEW role \in BOOLEAN,
                 \/ \E slot \in Assignments : AssignTask(by, t, target, role, slot)
                 \/ RepeatAssignment(by, t, target, role)
          PROVE  deps' = deps
      BY <3>2 DEF AssignTask, RepeatAssignment
    <3> QED BY <3>1, <3>2 DEF AssignmentStep
  <2>8. HandoffStep => deps' = deps
    BY DEF HandoffStep, RequestHandoff, AcceptHandoff, RefuseHandoff
  <2> QED BY <1>1, <2>1, <2>2, <2>3, <2>4, <2>5, <2>6, <2>7, <2>8 DEF Next
<1>2. CASE ContractStep
  <2>1. ASSUME NEW s \in Sessions, NEW t \in Tasks, NEW D \in SUBSET Tasks,
               CreateTask(s, t, D)
        PROVE  /\ t \in Created' /\ D \subseteq Created \ {t}
               /\ \A d \in D : ~Reaches(d, t)
               /\ deps' = [deps EXCEPT ![t] = D]
    <3>1. task'[t].status = "todo"
      BY <2>1 DEF CreateTask, SetFaces, TypeOK, TaskRows
    <3> QED BY <2>1, <3>1, NewTaskUnreached DEF CreateTask, Created, Absent
  <2>2. ASSUME NEW t \in Created, NEW status, NEW D \in SUBSET Tasks,
               WriteDependencies(t, status, D)
        PROVE  /\ t \in Created' /\ D \subseteq Created \ {t}
               /\ \A d \in D : ~Reaches(d, t)
               /\ deps' = [deps EXCEPT ![t] = D]
    BY <2>2, NoRowVanishes DEF WriteDependencies, DependenciesAllowed
  <2>3. ASSUME NEW actor \in Actors, NEW t \in Tasks, ReleaseTask(actor, t)
        PROVE  deps' = deps
    BY <2>3 DEF ReleaseTask
  <2> QED BY <1>2, <2>1, <2>2, <2>3
          DEF ContractStep, ReleaseByUpdate, CancelTask, UpdateTask, MayUpdate
<1> QED BY <1>1, <1>2

LEMMA NextDependencies ==
    TypeOK /\ WorkflowInv /\ DependencyInv /\ [Next]_vars => DependencyInv'
<1> SUFFICES ASSUME TypeOK, WorkflowInv, Acyclic, EdgesCreated, [Next]_vars
             PROVE  Acyclic' /\ EdgesCreated'
  BY DEF DependencyInv
<1>1. Created \subseteq Created'
  BY NoRowVanishes
<1>2. CASE deps' = deps
  <2>1. Acyclic'
    BY <1>2 DEF Acyclic
  <2>2. EdgesCreated'
    BY <1>1, <1>2 DEF EdgesCreated
  <2> QED BY <2>1, <2>2
<1>3. ASSUME NEW t \in Created', NEW D \in SUBSET (Created \ {t}),
             \A d \in D : ~Reaches(d, t), deps' = [deps EXCEPT ![t] = D]
      PROVE  Acyclic' /\ EdgesCreated'
  <2>1. t \in Tasks /\ D \in SUBSET Tasks
    BY DEF Created
  <2>2. Acyclic'
    BY <1>3, <2>1, RewireKeepsAcyclic
  <2>3. EdgesCreated'
    BY <1>1, <1>3, <2>1 DEF EdgesCreated, TypeOK
  <2> QED BY <2>2, <2>3
<1> QED BY <1>2, <1>3, EdgesWritten

\* No sequence of creations and edits builds a cycle of dependencies, which
\* would leave every task on it unclaimable.
THEOREM AlwaysAcyclic == Spec => []Acyclic
<1>1. Init => DependencyInv
  BY DEF Init, DependencyInv, Acyclic, EdgesCreated
<1>2. DependencyInv => Acyclic
  BY DEF DependencyInv
<1> QED BY <1>1, <1>2, NextDependencies, WorkflowInvariant, PTL DEF Spec
===============================================================================
