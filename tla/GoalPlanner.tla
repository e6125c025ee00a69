----------------------------- MODULE GoalPlanner -----------------------------
(***************************************************************************)
(* The plan a tick dispatches: from what observe has read and what the     *)
(* model replies to the tasks that may be created now                      *)
(* (crates/conductor-core/src/goal_orchestrator/: observe.rs, orient.rs,   *)
(* contracts.rs, decide.rs, dispatch.rs).  These are functions without     *)
(* state; GoalOrchestrator calls them.                                     *)
(***************************************************************************)
EXTENDS Integers

MaxIntents == 5
MaxParallelAgents == 3

\* What a tick reads: how many tasks of the goal are neither failed nor
\* cancelled, whether one of them is blocked or sent back, the number of the
\* cycle, and the agents whose heartbeat says idle or working, or else.
Reports ==
    [open : Nat, blockers : BOOLEAN, cycle : Nat, available : Nat, occupied : Nat]

\* budget_json of the goal.  Wall time and tool calls are limited as well, but
\* nobody counts them.
Budgets == [max_cycles : Nat, max_agent_runs : Nat]

\* What comes back from the model: intents, with a title and a fact each or
\* not; that the goal is complete; any other object; or nothing that is JSON,
\* be it that no model answers.
ReplyRecords ==
    [says : {"intents", "complete", "other", "nothing"}, intents : Nat, sound : BOOLEAN]

\* A plan: the tasks it has, those that filter_dispatch grants, and whether
\* neither a blocker nor the budget speaks against it.
Plans ==
    {p \in [planned : Nat, granted : 0 .. MaxParallelAgents, clear : BOOLEAN] :
        p.granted <= p.planned}

----------------------------------------------------------------------------
\* Budget::is_exhausted, of budget_for_goal.
Exhausted(report, budget) ==
    report.cycle >= budget.max_cycles \/ report.open >= budget.max_agent_runs

\* validate_reason_output: Noop is the shape that any object fits.
Understood(reply) ==
    \/ reply.says \in {"complete", "other"}
    \/ reply.says = "intents" /\ reply.intents <= MaxIntents /\ reply.sound

\* decide_llm: a task for each intent.
Reasoned(reply) == IF reply.says = "intents" THEN reply.intents ELSE 0

\* decide, when decide_llm fails: one task for a goal that has none, then one
\* for each agent that is available.
Improvised(report) ==
    IF report.blockers THEN 0
    ELSE IF report.open = 0 THEN 1 ELSE report.available

Planned(report, budget, reply) ==
    IF Exhausted(report, budget) THEN 0
    ELSE IF Understood(reply) THEN Reasoned(reply) ELSE Improvised(report)

\* filter_dispatch.  Planned tasks have neither dependencies nor a scope and no
\* failures are remembered, so the parallel limit alone holds tasks back; the
\* agents that count as active are those that are not available.
Granted(planned, report) ==
    LET free == MaxParallelAgents - report.occupied
    IN IF free <= 0 THEN 0 ELSE IF planned <= free THEN planned ELSE free

\* decide_llm or decide, apply_plan_approval and filter_dispatch.  A plan that
\* says "complete" goes on like any plan without tasks.
PlanFor(report, budget, reply) ==
    LET planned == Planned(report, budget, reply)
    IN [ planned |-> planned, granted |-> Granted(planned, report),
         clear |-> ~report.blockers /\ ~Exhausted(report, budget) ]

=============================================================================
