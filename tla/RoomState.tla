------------------------------- MODULE RoomState -------------------------------
(***************************************************************************)
(* The rows of one Project that the task, delegation and lease handlers of *)
(* services.py read and write.  Every handler runs in one write            *)
(* transaction (BEGIN IMMEDIATE, or the PostgreSQL advisory lock), so each *)
(* handler is one action of the modules that extend this one.              *)
(***************************************************************************)
EXTENDS Naturals, TaskContract

CONSTANTS Sessions,     \* agent_sessions rows that may come to exist
          Members,      \* project_members rows: the durable software identities
          MemberOf,     \* the member join_room binds each session to
          Tasks,        \* tasks rows that may come to exist
          Leases,       \* file_leases rows unreleased at the same time (a bound)
          Assignments,  \* task_assignments rows pending at the same time (a bound)
          HandoffTasks, \* tasks whose handoff is explored (a bound)
          Paths,        \* normalised path patterns
          Overlapping,  \* the pairs of patterns for which patterns_overlap holds
          Modes,        \* the lease modes that are requested
          Ttl,          \* lease lifetime, in clock ticks
          Qualified,    \* sessions that match the target role and capability
          None          \* SQL NULL; as an actor, the authorized management caller

ASSUME IdentityAssumption ==
    /\ MemberOf \in [Sessions -> Members]
    /\ Qualified \subseteq Sessions
    /\ HandoffTasks \subseteq Tasks
    /\ None \notin Sessions \cup Members \cup Tasks \cup Paths

ASSUME PathAssumption ==
    /\ Overlapping \subseteq Paths \X Paths
    /\ \A p, q \in Paths : <<p, q>> \in Overlapping => <<q, p>> \in Overlapping

ASSUME LeaseAssumption ==
    /\ Modes \subseteq {"readonly", "shared", "exclusive"}
    /\ Ttl \in Nat \ {0}

VARIABLES sess,        \* session -> "absent" | "open" | "dead" | "left"
          latest,      \* member  -> its most recently created session
          task,        \* task    -> row
          deps,        \* task    -> the tasks it depends on
          lease,       \* lease   -> row, NoLease when free or released
          handoff,     \* task    -> its pending handoff, or NoHandoff
          assignment   \* slot    -> a pending assignment, or NoAssignment

vars == <<sess, latest, task, deps, lease, handoff, assignment>>

-------------------------------------------------------------------------------
NoLease == [sess |-> None, task |-> None, path |-> None, mode |-> "none", left |-> 0]
NoHandoff == [from |-> None, to |-> None]
NoAssignment ==
    [task |-> None, by |-> None, to |-> None, member |-> None, role |-> FALSE]
AbsentTask ==
    [status |-> Absent, exec |-> Absent, verif |-> "not_required",
     integ |-> "pending", owner |-> None, reporter |-> None, reviewer |-> None]

SessionOrNull == Sessions \cup {None}
MemberOrNull == Members \cup {None}
SessionStates == {"absent", "open", "dead", "left"}

\* reporter: identity of the last work report; reviewer: identity of the review
\* that answered it, if one did (the work_reports and reviews rows).
TaskRows ==
    [status : LegacyTaskStatuses \cup {Absent}, exec : ExecutionStatuses \cup {Absent},
     verif : VerificationStatuses, integ : IntegrationStatuses,
     owner : SessionOrNull, reporter : MemberOrNull, reviewer : MemberOrNull]
LeaseRows ==
    [sess : SessionOrNull, task : Tasks \cup {None}, path : Paths \cup {None},
     mode : Modes \cup {"none"}, left : 0..Ttl]
HandoffRows == [from : Sessions, to : Sessions] \cup {NoHandoff}
AssignmentRows ==
    [task : Tasks \cup {None}, by : SessionOrNull, to : SessionOrNull,
     member : MemberOrNull, role : BOOLEAN]

TypeOK ==
    /\ sess \in [Sessions -> SessionStates]
    /\ latest \in [Members -> SessionOrNull]
    /\ task \in [Tasks -> TaskRows]
    /\ deps \in [Tasks -> SUBSET Tasks]
    /\ lease \in [Leases -> LeaseRows]
    /\ handoff \in [Tasks -> HandoffRows]
    /\ assignment \in [Assignments -> AssignmentRows]

-------------------------------------------------------------------------------
\* _authenticate: the row exists, the token is valid and the session has not
\* left.  An expired token cannot be renewed, so it is a session that makes no
\* further call; "dead" is such a session (or a crashed client).
Authenticated(s) == sess[s] = "open"

\* A management credential stands in for a session in the handlers that allow it.
SessionOrManagement(actor) == actor = None \/ (actor \in Sessions /\ Authenticated(actor))

SameAgentIdentity(s, r) == MemberOf[s] = MemberOf[r]

Created == {t \in Tasks : task[t].status # Absent}

\* Rows with released_at IS NULL; the expired ones are among them.
Unreleased == {l \in Leases : lease[l].sess # None}
OwnerLeases(t, s) == {l \in Unreleased : lease[l].task = t /\ lease[l].sess = s}
TaskLeases(t) == {l \in Unreleased : lease[l].task = t}

ReleaseLeases(released) ==
    lease' = [l \in Leases |-> IF l \in released THEN NoLease ELSE lease[l]]

\* Execution states from which an owner may withdraw: the owner is still working.
InWork(t) == task[t].exec \in ReleaseExecutionStatuses

PendingAssignments(t) == {a \in Assignments : assignment[a].task = t}

DropAssignments(cancelled) ==
    assignment' = [a \in Assignments |->
                     IF a \in cancelled THEN NoAssignment ELSE assignment[a]]

SetFaces(row, status, f) ==
    [row EXCEPT !.status = status, !.exec = f.exec, !.verif = f.verif,
                !.integ = f.integ]
===============================================================================
