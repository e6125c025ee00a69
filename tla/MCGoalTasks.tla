----------------------------- MODULE MCGoalTasks -----------------------------
(***************************************************************************)
(* Small instances of GoalTasks for TLC.  The configurations choose how    *)
(* many tasks, leases and concurrent callers there are.                    *)
(***************************************************************************)
EXTENDS GoalTasks, TLC

CONSTANTS w1

MCWorkspaces == {w1}
MCWorkspaceOf == [t \in Tasks |-> w1]
MCScopes == {{}}

Symmetry == Permutations(LeaseIds) \cup Permutations(Callers)
            \cup Permutations(Holders) \cup Permutations(Tasks)

=============================================================================
