----------------------------- MODULE MCCompanion ----------------------------
(***************************************************************************)
(* What answers the user and works for him, for TLC: chat turns, agent     *)
(* runs, the choice of their models, a team, the command-line runner, the  *)
(* alerts about stuck tasks and the tool rounds of a turn.                 *)
(* As in MCServices a behaviour picks one of them at the start and the     *)
(* others rest.  There is no symmetry here: turns and runs are checked for *)
(* progress too.                                                           *)
(***************************************************************************)
EXTENDS ChatTurns, AgentRuns, ModelRouting, AgentTeams, RunnerRuns, Nudges,
        ToolRounds, TLC

CONSTANTS
    Focuses,     \* the services a run of TLC picks from
    p1, p2,      \* processes or calls: whoever acts in a service
    x1, x2       \* rows or the calls that own them: what is acted upon

VARIABLE focus   \* the service this behaviour exercises

restVars == <<focus, turnVars, agentVars, routingVars, teamVars, runnerVars,
              nudgeVars, roundVars>>

Two == {p1, p2}
TwoMore == {x1, x2}

\* Policies of two kinds, for any phase and for one, with and without a
\* profile, switched on and off.
Policy(kind, phase, profile, priority, enabled) ==
    [kind |-> kind, phase |-> phase, profile |-> profile, priority |-> priority,
     enabled |-> enabled]

MCPolicyInputs ==
    { Policy("coding", "none", NoProfile, 0, FALSE), Policy("planning", "explore", NoProfile, 1, TRUE) }
        \cup { Policy("planning", "none", p, 0, TRUE) : p \in Profiles }

MCStalled == <<"task1", "task2">>

\* What a turn asks for: a question, a broad one, plans, a long turn, one that
\* plans, a goal task's.
Wish(long, planOnly, broad, allowed, context, override) ==
    [long |-> long, planOnly |-> planOnly, broad |-> broad, allowed |-> allowed,
     tiers |-> context, context |-> context, legacy |-> {}, override |-> override]

MCQuestion == Wish(FALSE, FALSE, FALSE, {"look"}, {"write"}, {})

MCWishes ==
    LET all == {"search", "look", "write"}
    IN { MCQuestion,
         Wish(FALSE, FALSE, TRUE, all, {}, {}), Wish(FALSE, TRUE, TRUE, all, {"write"}, {}),
         Wish(TRUE, FALSE, TRUE, {"look"}, {"write"}, {}),
         Wish(TRUE, TRUE, FALSE, {"look", "write"}, {}, {}),
         Wish(TRUE, FALSE, TRUE, all, {}, {"look", "write"}) }

CompanionTypeOK ==
    /\ focus \in Focuses
    /\ (focus = "turns" => TurnsTypeOK)
    /\ (focus = "agents" => AgentsTypeOK)
    /\ (focus = "routes" => RoutingTypeOK)
    /\ (focus = "teams" => TeamsTypeOK)
    /\ (focus = "runner" => RunnerTypeOK)
    /\ (focus = "nudges" => NudgesTypeOK)
    /\ (focus = "rounds" => ToolRoundsTypeOK)

CompanionInit ==
    /\ focus \in Focuses
    /\ TurnsInit /\ AgentsInit /\ RoutingInit /\ TeamsInit /\ RunnerInit
    /\ NudgesInit /\ ToolRoundsInit
    \* A service at rest has one initial state.
    /\ focus # "rounds" =>
          package = "absent" /\ connector = "unknown" /\ wish = MCQuestion

\* The one service takes a step.
Only(service) == focus = service /\ UNCHANGED focus

CompanionNext ==
    \/ /\ Only("turns") /\ TurnsNext
       /\ UNCHANGED <<agentVars, routingVars, teamVars, runnerVars, nudgeVars,
                      roundVars>>
    \/ /\ Only("agents") /\ AgentsNext
       /\ UNCHANGED <<turnVars, routingVars, teamVars, runnerVars, nudgeVars,
                      roundVars>>
    \/ /\ Only("routes") /\ RoutingNext
       /\ UNCHANGED <<turnVars, agentVars, teamVars, runnerVars, nudgeVars,
                      roundVars>>
    \/ /\ Only("teams") /\ TeamsNext
       /\ UNCHANGED <<turnVars, agentVars, routingVars, runnerVars, nudgeVars,
                      roundVars>>
    \/ /\ Only("runner") /\ RunnerNext
       /\ UNCHANGED <<turnVars, agentVars, routingVars, teamVars, nudgeVars,
                      roundVars>>
    \/ /\ Only("nudges") /\ NudgesNext
       /\ UNCHANGED <<turnVars, agentVars, routingVars, teamVars, runnerVars,
                      roundVars>>
    \/ /\ Only("rounds") /\ ToolRoundsNext
       /\ UNCHANGED <<turnVars, agentVars, routingVars, teamVars, runnerVars,
                      nudgeVars>>

CompanionSpec == CompanionInit /\ [][CompanionNext]_restVars

\* A service at rest owes nothing: what is promised to happen is not enabled
\* in its initial state.  Only the pacer's timer fires there too.
FairCompanionSpec == CompanionSpec /\ TurnsFairness /\ AgentsFairness
                         /\ RunnerFairness /\ NudgesFairness
                         /\ WF_nudgeVars(focus = "nudges" /\ Beat)

=============================================================================
