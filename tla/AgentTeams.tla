------------------------------ MODULE AgentTeams -----------------------------
(***************************************************************************)
(* One team of agents and its members (agent_teams.rs).  The ticks of the  *)
(* goal loop, the verdict commands, the tools of a chat, the command line  *)
(* and the threads that watch runs all write it, each by reading a row,    *)
(* changing a field and writing the whole row back.                        *)
(*                                                                         *)
(*   TeamCallers   calls that may be under way at a time                   *)
(*   TeamAgents    agents that may be made members                         *)
(***************************************************************************)
EXTENDS FiniteSets

CONSTANTS TeamCallers, TeamAgents, NoAgentId

ASSUME TeamsAssumption == NoAgentId \notin TeamAgents

VARIABLES
    teamRow,      \* the lifecycle in the row of the team
    memberRow,    \* memberRow[a]: the row of agent a as a member
    teamCall,     \* teamCall[c]: a call, what it is after and what it has read
    stripped      \* history: a row took task and run from a member who had one

teamVars == <<teamRow, memberRow, teamCall, stripped>>

Lifecycles == {"draft", "planning", "awaiting_plan_approval", "executing",
               "awaiting_review", "accepted", "rework_required"}

ValidTransitions ==
    [draft |-> {"planning"}, planning |-> {"awaiting_plan_approval", "executing"},
     awaiting_plan_approval |-> {"executing", "rework_required"},
     executing |-> {"awaiting_review"}, awaiting_review |-> {"accepted", "rework_required"},
     accepted |-> {"archived"}, rework_required |-> {"planning"}, absent |-> {}]

\* A member with a task or a run counts as an executor.
MemberRows == [there : BOOLEAN, task : BOOLEAN, run : BOOLEAN, status : {"idle", "completed"}]
NoMemberRow == [there |-> FALSE, task |-> FALSE, run |-> FALSE, status |-> "idle"]
Executor(row) == row.task \/ row.run
HasExecutor == \E a \in TeamAgents : Executor(memberRow[a])

Calling(at, op, agent, target, team, row) ==
    [at |-> at, op |-> op, agent |-> agent, target |-> target, team |-> team, row |-> row]
NotCalling == Calling("idle", "move", NoAgentId, "absent", "absent", NoMemberRow)

TeamsTypeOK ==
    /\ teamRow \in Lifecycles \cup {"absent"}
    /\ memberRow \in [TeamAgents -> MemberRows]
    /\ teamCall \in [TeamCallers ->
           [at : {"idle", "checked", "write"}, op : {"create", "move", "status", "bind"},
            agent : TeamAgents \cup {NoAgentId}, target : Lifecycles \cup {"absent"},
            team : Lifecycles \cup {"absent"}, row : MemberRows]]
    /\ stripped \in BOOLEAN

TeamsInit ==
    /\ teamRow = "absent" /\ memberRow = [a \in TeamAgents |-> NoMemberRow]
    /\ teamCall = [c \in TeamCallers |-> NotCalling] /\ stripped = FALSE

CallerGoes(c, call) == teamCall' = [teamCall EXCEPT ![c] = call]

\* The goal loop looks for the team first and creates it when there is none;
\* two ticks may both find none.
LooksForTeam(c) ==
    /\ teamCall[c] = NotCalling /\ teamRow = "absent"
    /\ CallerGoes(c, Calling("write", "create", NoAgentId, "draft", "absent", NoMemberRow))
    /\ UNCHANGED <<teamRow, memberRow, stripped>>

\* create_team is an upsert: it starts a team over that is there already.  A
\* tool of a chat may name any id without looking.
CreateTeam(c) ==
    /\ \/ teamCall[c].at = "write" /\ teamCall[c].op = "create"
       \/ teamCall[c] = NotCalling
    /\ teamRow' = "draft" /\ CallerGoes(c, NotCalling)
    /\ UNCHANGED <<memberRow, stripped>>

\* A member's row is written whole.
PutMember(a, row) ==
    /\ memberRow' = [memberRow EXCEPT ![a] = row]
    /\ stripped' = (stripped \/ (Executor(memberRow[a]) /\ ~Executor(row)))

\* add_member: the goal loop adds an agent with its task, a tool or the
\* command line with or without a run.
AddMember(a) ==
    /\ teamRow # "absent"
    /\ \E task \in BOOLEAN, run \in BOOLEAN :
          /\ task => ~run
          /\ PutMember(a, [there |-> TRUE, task |-> task, run |-> run, status |-> "idle"])
    /\ UNCHANGED <<teamRow, teamCall>>

\* set_member_status and bind_member_run_to_task read the member first.
ReadsMember(c) ==
    /\ teamCall[c] = NotCalling
    /\ \E a \in TeamAgents, op \in {"status", "bind"} :
          /\ memberRow[a].there
          /\ op = "bind" => memberRow[a].task
          /\ CallerGoes(c, Calling("write", op, a, "absent", "absent", memberRow[a]))
    /\ UNCHANGED <<teamRow, memberRow, stripped>>

WritesMember(c) ==
    LET me == teamCall[c]
        row == IF me.op = "bind" THEN [me.row EXCEPT !.run = TRUE]
               ELSE [me.row EXCEPT !.status = "completed"]
    IN /\ me.at = "write" /\ me.op \in {"status", "bind"}
       /\ PutMember(me.agent, row)
       /\ CallerGoes(c, NotCalling) /\ UNCHANGED teamRow

\* Faulty: an approval need not be waited for.
AllowedFromAnyPlan(from, to) ==
    to \in ValidTransitions[from] \/ (from = "draft" /\ to = "executing")

\* validate_transition
Allowed(from, to) == to \in ValidTransitions[from]

\* transition_team_lifecycle: the team is read and the step validated; on the
\* way to executing the members are read for an executor; then the row that
\* was read is written back with the new lifecycle.
ReadsTeam(c) ==
    /\ teamCall[c] = NotCalling
    /\ \E target \in Lifecycles :
          /\ Allowed(teamRow, target)
          /\ CallerGoes(c, Calling(IF target = "executing" THEN "checked" ELSE "write",
                                   "move", NoAgentId, target, teamRow, NoMemberRow))
    /\ UNCHANGED <<teamRow, memberRow, stripped>>

\* ensure_active_executor
EnsuresExecutor(c) ==
    /\ teamCall[c].at = "checked"
    /\ CallerGoes(c, IF HasExecutor THEN [teamCall[c] EXCEPT !.at = "write"] ELSE NotCalling)
    /\ UNCHANGED <<teamRow, memberRow, stripped>>

MovesTeam(c) ==
    /\ teamCall[c].at = "write" /\ teamCall[c].op = "move"
    /\ teamRow' = teamCall[c].target /\ CallerGoes(c, NotCalling)
    /\ UNCHANGED <<memberRow, stripped>>

TeamsNext ==
    \/ \E a \in TeamAgents : AddMember(a)
    \/ \E c \in TeamCallers :
          \/ LooksForTeam(c) \/ CreateTeam(c) \/ ReadsMember(c) \/ WritesMember(c)
          \/ ReadsTeam(c) \/ EnsuresExecutor(c) \/ MovesTeam(c)

TeamsSpec == TeamsInit /\ [][TeamsNext]_teamVars

---------------------------------------------------------------------------
\* This step is the write of a call that had read another lifecycle.
StaleMove ==
    \E c \in TeamCallers : /\ teamCall[c].at = "write" /\ teamCall[c].op = "move"
                           /\ teamCall[c].team # teamRow /\ teamCall'[c] = NotCalling

\* A team goes through its lifecycle one valid step at a time and executes
\* only with somebody to do the work, although the step is validated and the
\* executor looked for before the row is written.  What breaks it are a
\* second creation, which starts the team over, a call that validated against
\* a lifecycle another call has left (agent_teams.rs:726-747, 983-1000), and a
\* member that is added again or written from an old row, which takes his
\* task and run from him (agent_teams.rs:449-478, 497-552).
TeamsFollowTheirLifecycle ==
    [][/\ teamRow' # teamRow =>
             teamRow' = "draft" \/ teamRow' \in ValidTransitions[teamRow] \/ StaleMove
       /\ teamRow' = "executing" => HasExecutor' \/ stripped']_teamVars

=============================================================================
