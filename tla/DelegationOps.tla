----------------------------- MODULE DelegationOps -----------------------------
(***************************************************************************)
(* Giving a task to somebody else: assignment to a session, a member or a  *)
(* role, and the owner's handoff to another session.  Both wait for the    *)
(* answer of the other side, and the task may move on in the meantime.     *)
(***************************************************************************)
EXTENDS RoomState

\* A target names a session, a member (with the session it joined with last) or
\* a role and capability, which the session-directed forms may add as well.
SessionTarget(s) == [to |-> s, member |-> None]
MemberTarget(m) == [to |-> latest[m], member |-> m]
NoTarget == [to |-> None, member |-> None]

Joined(s) == sess[s] # "absent"

TargetOK(target, role) ==
    /\ target = NoTarget => role
    /\ target.to # None => Joined(target.to)
    /\ target.member # None => target.to # None

\* The pending assignments the same assigner already made with the same target.
Repeated(t, by, target, role) ==
    {a \in PendingAssignments(t) : /\ assignment[a].by = by
                                   /\ assignment[a].to = target.to
                                   /\ assignment[a].role = role}

\* A reassignment cancels what waits for another session or another member; a
\* pending one for the same target by somebody else stays.
Stale(t, target) ==
    {a \in PendingAssignments(t) : \/ assignment[a].to # target.to
                                   \/ assignment[a].member # target.member}

Assignable(by, t, target, role) ==
    /\ SessionOrManagement(by)
    /\ t \in Created
    /\ task[t].exec \notin {"completed", "cancelled"}
    /\ TargetOK(target, role)

AssignTask(by, t, target, role, slot) ==
    /\ Assignable(by, t, target, role)
    /\ Repeated(t, by, target, role) = {}
    /\ assignment[slot] = NoAssignment \/ slot \in Stale(t, target)
    /\ assignment' = [a \in Assignments |->
                        CASE a = slot -> [task |-> t, by |-> by, to |-> target.to,
                                          member |-> target.member, role |-> role]
                          [] a # slot /\ a \in Stale(t, target) -> NoAssignment
                          [] OTHER -> assignment[a]]
    /\ UNCHANGED <<sess, latest, task, deps, lease, handoff>>

\* The same request again returns the pending row; a session-directed one
\* becomes member-directed when the repetition names the member.
RepeatAssignment(by, t, target, role) ==
    /\ Assignable(by, t, target, role)
    /\ \E a \in Repeated(t, by, target, role) :
          assignment' = [assignment EXCEPT ![a].member =
                           IF @ = None THEN target.member ELSE @]
    /\ UNCHANGED <<sess, latest, task, deps, lease, handoff>>

Eligible(s, a) ==
    /\ assignment[a].task # None
    /\ \/ assignment[a].to \in {None, s}
       \/ assignment[a].member = MemberOf[s]
    /\ assignment[a].role => s \in Qualified

\* Work a review sent back may be taken from an owner who has left.
Abandoned(t) ==
    /\ task[t].exec = "in_progress"
    /\ task[t].verif = "changes_requested"
    /\ task[t].owner # None /\ sess[task[t].owner] = "left"

\* Fault: the owner may accept whatever became of the task meanwhile.
AcceptableByOwner(s, t) ==
    CASE task[t].owner = s -> TRUE
      [] task[t].owner = None -> task[t].exec = "todo"
      [] OTHER -> Abandoned(t)

Acceptable(s, t) ==
    IF task[t].owner \in {None, s} THEN task[t].exec \in {"todo", "claimed"}
    ELSE Abandoned(t)

AcceptAssignment(s, a) ==
    /\ Authenticated(s)
    /\ Eligible(s, a)
    /\ LET t == assignment[a].task
       IN /\ Acceptable(s, t)
          /\ task' = [task EXCEPT ![t].owner = s, ![t].status = "claimed",
                                  ![t].exec = "claimed"]
    /\ DropAssignments({a})
    /\ UNCHANGED <<sess, latest, deps, lease, handoff>>

\* "declined" and "blocked" only close the assignment.
RefuseAssignment(s, a) ==
    /\ Authenticated(s)
    /\ Eligible(s, a)
    /\ DropAssignments({a})
    /\ UNCHANGED <<sess, latest, task, deps, lease, handoff>>

-------------------------------------------------------------------------------
\* The owner's work, or work approved and not yet integrated.
Transferable(t) ==
    /\ task[t].exec # "cancelled"
    /\ task[t].exec = "completed" => task[t].verif = "approved" /\ task[t].integ = "pending"

\* handoff_task: by the owner, or by management in the owner's name.
RequestHandoff(actor, t, to) ==
    /\ t \in HandoffTasks
    /\ SessionOrManagement(actor)
    /\ task[t].owner # None
    /\ actor # None => task[t].owner = actor
    /\ Transferable(t)
    /\ to # task[t].owner /\ Joined(to)
    /\ handoff[t] = NoHandoff
    /\ handoff' = [handoff EXCEPT ![t] = [from |-> task[t].owner, to |-> to]]
    /\ UNCHANGED <<sess, latest, task, deps, lease, assignment>>

\* Fault: the owner is not compared with the one who asked for the handoff.
HandoffStandsUnowned(t) == Transferable(t)

HandoffStands(t) ==
    /\ task[t].owner = handoff[t].from
    /\ Transferable(t)

AcceptHandoff(s, t) ==
    /\ Authenticated(s)
    /\ handoff[t].to = s
    /\ HandoffStands(t)
    /\ task' = [task EXCEPT ![t].owner = s]
    /\ ReleaseLeases(OwnerLeases(t, handoff[t].from))
    /\ handoff' = [handoff EXCEPT ![t] = NoHandoff]
    /\ UNCHANGED <<sess, latest, deps, assignment>>

RefuseHandoff(s, t) ==
    /\ Authenticated(s)
    /\ handoff[t].to = s
    /\ handoff' = [handoff EXCEPT ![t] = NoHandoff]
    /\ UNCHANGED <<sess, latest, task, deps, lease, assignment>>
===============================================================================
