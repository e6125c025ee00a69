---------------------------- MODULE TaskLifecycle ----------------------------
(***************************************************************************)
(* What the task state machine promises: one status per task, moved only   *)
(* along the table of validate_task_transition                             *)
(* (crates/conductor-core/src/goal_tasks.rs:42-79).  This is the abstract  *)
(* specification; GoalTasks is the one with the SQL statements.            *)
(***************************************************************************)
CONSTANTS Tasks

VARIABLE status

\* "absent" and "deleted" stand for "no row"; ids are never used again.
Statuses ==
    { "proposed", "queued", "claimed", "running", "awaiting_permission",
      "awaiting_input", "review_ready", "accepted", "rework_required",
      "blocked", "failed", "cancelled" }

NoRowStatuses == {"absent", "deleted"}

Targets == [ s \in Statuses |->
    CASE s = "proposed"            -> {"queued", "claimed", "cancelled"}
      [] s = "queued"              -> {"claimed", "cancelled"}
      [] s = "claimed"             -> {"running", "cancelled"}
      [] s = "running"             -> {"awaiting_permission", "awaiting_input",
                                       "review_ready", "accepted", "blocked",
                                       "failed", "cancelled"}
      [] s = "awaiting_permission" -> {"running", "cancelled"}
      [] s = "awaiting_input"      -> {"running", "cancelled"}
      [] s = "review_ready"        -> {"accepted", "rework_required", "failed"}
      [] s = "rework_required"     -> {"queued"}
      [] s = "blocked"             -> {"queued", "running", "failed", "cancelled"}
      [] OTHER                     -> {} ]

\* validate_task_transition(from, to).is_ok()
Legal(from, to) == from \in Statuses /\ to \in Targets[from]

Terminal == {"accepted", "failed", "cancelled"}

Init == status = [t \in Tasks |-> "absent"]

Create(t) ==
    /\ status[t] = "absent"
    /\ status' = [status EXCEPT ![t] = "proposed"]

Move(t, to) ==
    /\ Legal(status[t], to)
    /\ status' = [status EXCEPT ![t] = to]

Delete(t) ==
    /\ status[t] \in Statuses
    /\ status' = [status EXCEPT ![t] = "deleted"]

Next ==
    \E t \in Tasks :
        \/ Create(t)
        \/ \E to \in Statuses : Move(t, to)
        \/ Delete(t)

Spec == Init /\ [][Next]_status

=============================================================================
