------------------------- MODULE MCGoalOrchestrator -------------------------
(***************************************************************************)
(* Small instances of GoalOrchestrator for TLC.                            *)
(***************************************************************************)
EXTENDS GoalOrchestrator, TLC

CONSTANTS t1, t2, t3

Intents(n) == [says |-> "intents", intents |-> n, sound |-> TRUE]
Complete == [says |-> "complete", intents |-> 0, sound |-> TRUE]
Silence == [says |-> "nothing", intents |-> 0, sound |-> TRUE]

Agents(available, occupied) == [available |-> available, occupied |-> occupied]

\* One agent is busy: of three tasks two are granted; three are: none is.
MCReplies == {Intents(3), Complete}
MCHeartbeats == {Agents(0, 1), Agents(1, 3)}

\* One task, or as many as decide finds agents for.
MCGatedReplies == {Intents(1), Silence}
MCGatedHeartbeats == {Agents(1, 0)}

MCOneIntent == {Intents(1)}
MCTwoIntents == {Intents(2), Complete}
MCNoAgents == {Agents(0, 0)}

\* budget_json, or what Budget::default says.
MCTwoCycles == [max_cycles |-> 2, max_agent_runs |-> 50]
MCDefaultBudget == [max_cycles |-> 10, max_agent_runs |-> 50]

Symmetry == Permutations(TaskIds)

=============================================================================
