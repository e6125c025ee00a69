--------------------------- MODULE MCTaskExecution ---------------------------
(***************************************************************************)
(* Small instances of TaskExecution for TLC: t1 is older than t2, t2 is    *)
(* routed, and two executions may be in flight.                            *)
(***************************************************************************)
EXTENDS TaskExecution, TLC

CONSTANTS w1, t1, t2, e1, e2, l1, l2, l3, l4

MCTasks == {t1, t2}
MCExecutors == {e1, e2}
MCCallers == {Runner, Orchestrator, User} \cup MCExecutors
MCHolders == {RunnerAgent, McpAgent}
MCMcpTasks == {t2}
MCAge == [t \in MCTasks |-> IF t = t1 THEN 1 ELSE 2]
MCWorkspaces == {w1}
MCWorkspaceOf == [t \in MCTasks |-> w1]
MCScopes == {{}}

\* Lease ids and executions are interchangeable; used in the runs without
\* liveness only.
Symmetry == Permutations(LeaseIds) \cup Permutations(MCExecutors)

=============================================================================
