----------------------------- MODULE TaskContract -----------------------------
(***************************************************************************)
(* The pure task contract of contracts.py: the legacy status machine, the  *)
(* three state faces (execution, verification, integration) a legacy       *)
(* status stands for, and the view phase projected from the faces.         *)
(***************************************************************************)

\* Row value of a task that has not been inserted yet; not a status of the code.
Absent == "absent"

LegacyTaskStatuses ==
    {"todo", "claimed", "in_progress", "blocked",
     "awaiting_review", "verified", "done", "cancelled"}

LegacyTaskTransitions ==
    [todo            |-> {"todo", "cancelled"},
     claimed         |-> {"claimed", "in_progress", "blocked", "todo", "cancelled"},
     in_progress     |-> {"in_progress", "blocked", "todo", "cancelled"},
     blocked         |-> {"blocked", "in_progress", "todo", "cancelled"},
     awaiting_review |-> {"awaiting_review", "cancelled"},
     verified        |-> {"verified", "done", "cancelled"},
     done            |-> {"done"},
     cancelled       |-> {"cancelled", "todo"}]

ExecutionStatuses ==
    {"todo", "claimed", "in_progress", "blocked", "completed", "cancelled"}
VerificationStatuses ==
    {"not_required", "pending", "changes_requested", "approved"}
IntegrationStatuses == {"pending", "done", "failed"}

\* Execution states in which a task has an owner who is still working on it.
ReleaseExecutionStatuses == {"claimed", "in_progress", "blocked"}

\* States only a work report, a review or an integration may enter.
StructuredStatuses == {"awaiting_review", "verified", "done"}

Faces == [exec : ExecutionStatuses, verif : VerificationStatuses,
          integ : IntegrationStatuses]

MakeFaces(e, v, i) == [exec |-> e, verif |-> v, integ |-> i]

\* task_state_for_legacy_status: only a task that goes back to work remembers
\* that a review had asked for changes.
TaskStateForLegacyStatus(status, previousVerification) ==
    CASE status = "awaiting_review" -> MakeFaces("completed", "pending", "pending")
      [] status = "verified"        -> MakeFaces("completed", "approved", "pending")
      [] status = "done"            -> MakeFaces("completed", "approved", "done")
      [] status = "cancelled"       -> MakeFaces("cancelled", "not_required", "pending")
      [] OTHER -> MakeFaces(status,
                            IF previousVerification \in {"changes_requested", "approved"}
                            THEN previousVerification ELSE "not_required",
                            "pending")

ClosedVerification == {"approved", "not_required"}
ReopenExecution == {"todo", "claimed", "in_progress", "blocked"}

\* task_view: the phase of a (execution, verification, integration) triple.
TaskPhase(f) ==
    CASE f.exec = "cancelled" /\ f.integ = "pending" -> "cancelled"
      [] f.exec = "completed" /\ f.verif \in ClosedVerification /\ f.integ = "done"
            -> "done"
      [] f.exec = "completed" /\ f.verif \in ClosedVerification /\ f.integ = "failed"
            -> "integration_failed"
      [] f.verif = "changes_requested" /\ f.exec \in ReopenExecution
            /\ f.integ = "pending" -> "changes_requested"
      [] f.exec = "completed" /\ f.verif = "pending" /\ f.integ = "pending"
            -> "awaiting_review"
      [] f.exec = "completed" /\ f.verif \in ClosedVerification /\ f.integ = "pending"
            -> "pending_integration"
      [] f.exec \in ReopenExecution /\ f.verif = "not_required" /\ f.integ = "pending"
            -> f.exec
      [] OTHER -> "unclassified"
===============================================================================
