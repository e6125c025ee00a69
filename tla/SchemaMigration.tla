---------------------------- MODULE SchemaMigration ----------------------------
(***************************************************************************)
(* How a process opens the database: db.rs                                 *)
(*                                                                         *)
(*   Openers   the processes: the desktop and runs of the command line     *)
(*   Watches   sets of tables; a behaviour is about one of them, since     *)
(*             statements about different tables commute                   *)
(*                                                                         *)
(* migrate runs one script on whatever database it finds, statement by     *)
(* statement and without a transaction, so two processes that open the     *)
(* database at the same time interleave.  Every added column is a look and *)
(* an ALTER.  A table is the set of its columns; "id" stands for those it  *)
(* has always had, and what has none does not exist.                       *)
(***************************************************************************)
EXTENDS Integers, Sequences, FiniteSets, SequencesExt

CONSTANTS Openers, Watches

----------------------------------------------------------------------------
(* The statements                                                          *)

Statement(verb, table, columns) == [verb |-> verb, table |-> table, columns |-> columns]

\* CREATE TABLE IF NOT EXISTS, with the columns among those later added.
NewTable(table, columns) == << Statement("create", table, columns) >>
NewTables(tables) == [i \in DOMAIN tables |-> Statement("create", tables[i], {})]

\* ensure_column, and an ALTER TABLE ADD COLUMN whose error is ignored.
Ensures(table, columns) ==
    [i \in DOMAIN columns |-> Statement("ensure", table, {columns[i]})]
Tries(table, columns) == [i \in DOMAIN columns |-> Statement("try", table, {columns[i]})]

\* An index on, or an UPDATE of, added columns; the other indexes cannot fail.
Uses(table, columns) == << Statement("use", table, columns) >>

----------------------------------------------------------------------------
(* The script, region by region                                            *)

TaskColumns == << "session_id", "terminal_id", "cwd", "current_request",
                  "last_output_summary", "last_event_at", "permission_summary" >>
TasksScript ==
    NewTable("tasks", Range(TaskColumns)) \o Ensures("tasks", TaskColumns)
    \o Uses("tasks", {"session_id"}) \o Uses("tasks", {"terminal_id", "cwd"})

\* migrate_legacy_agent_tasks_table comes before the renamed table is complete.
TaskListsScript ==
    NewTables(<<"task_lists", "agent_tasklist_items">>)
    \o << Statement("move", "agent_tasks", {}) >>
    \o NewTables(<<"task_dependencies">>)
    \o Ensures("agent_tasklist_items", <<"legacy_id", "est_minutes">>)
    \o NewTables(<<"notification_state">>)

\* The chat's tables up to the sessions and messages, ...
MessagesScript ==
    NewTable("chat_messages", {"seq", "tool_calls"}) \o NewTables(<<"chat_sessions">>)
    \o Tries("chat_messages", <<"session_id", "run_id">>) \o Ensures("chat_messages", <<"seq">>)
    \o Ensures("chat_sessions",
               <<"title", "archived", "updated_at", "session_kind", "goal_id">>)
    \o Ensures("chat_messages", <<"turn_id">>)

\* ... the turns, and their indexes.
TurnColumns == <<"goal_cycle_id", "agent_task_id", "goal_id">>
TurnsScript ==
    NewTable("chat_turns", Range(TurnColumns))
    \o NewTables(<<"chat_turn_events", "chat_message_projections", "memory_candidates">>)
TurnIndexesScript ==
    Uses("chat_messages", {"seq"}) \o Tries("chat_messages", <<"tool_calls">>)
    \o Uses("chat_messages", {"seq"}) \o Uses("chat_messages", {"turn_id"})
    \o Ensures("chat_turns", TurnColumns)

MemoryColumns ==
    << "scope", "workspace_id", "path_prefix", "source_session_id", "source_turn_id",
       "source_message_id", "source_projection_id", "source_tool_call_id", "goal_id",
       "source", "confidence", "sensitivity", "expires_at", "last_used_at", "status",
       "interaction_count", "last_reinforced_at" >>
MemoryScript ==
    NewTables(<<"affection_state">>)
    \o NewTable("memory_entries", Range(MemoryColumns)) \o Ensures("memory_entries", MemoryColumns)
MemoryIndexesScript ==
    Uses("memory_entries", {"scope"}) \o Uses("memory_entries", {"workspace_id"})
    \o Uses("memory_entries", {"path_prefix"}) \o Uses("memory_entries", {"source_session_id"})
    \o Uses("memory_entries", {"goal_id"})
    \o NewTables(<<"conversation_summaries", "memory_chunks", "memory_embeddings",
                    "workspaces", "avatar_state">>)

ProposalColumns ==
    << "workspace_id", "source", "title", "tool_id", "tool_input_json", "risk_level",
       "dry_run", "result_ref", "updated_at", "agent_task_id" >>
ProposalsScript ==
    NewTable("action_proposals", Range(ProposalColumns) \cup {"grant_id"})
    \o Ensures("action_proposals", ProposalColumns)
    \o Uses("action_proposals", {"updated_at"}) \o Uses("action_proposals", {"workspace_id"})

RunsScript ==
    NewTables(<<"tool_runs", "agent_runs", "agent_teams", "agent_team_members">>)
    \o Ensures("agent_teams", <<"lifecycle", "write_scope_json">>)
    \o NewTables(<<"agent_mailbox_messages", "todos">>)

CallColumns == << "workspace_id", "turn_id", "llm_tool_call_id", "risk_level", "proposal_id",
                  "permission_grant_id", "command_run_id" >>
ToolCallsScript ==
    NewTable("tool_calls", Range(CallColumns) \ {"turn_id"}) \o Ensures("tool_calls", CallColumns)
    \o Uses("tool_calls", {"turn_id"}) \o Uses("tool_calls", {"workspace_id"})
    \o Uses("tool_calls", {"llm_tool_call_id"}) \o Uses("tool_calls", {"command_run_id"})
    \o Uses("tool_calls", {"proposal_id"})

RunColumns == << "tool_call_id", "agent_run_id", "permission_grant_id", "risk_level",
                 "env_delta_json" >>
CommandRunsScript ==
    NewTables(<<"permission_grants">>) \o Ensures("action_proposals", <<"grant_id">>)
    \o NewTable("command_runs", Range(RunColumns)) \o Ensures("command_runs", RunColumns)
    \o Uses("command_runs", {"tool_call_id"}) \o Uses("command_runs", {"agent_run_id"})

ConnectorsScript ==
    NewTables(<<"codex_sessions", "skill_packages", "skill_capabilities", "connectors",
                 "capability_grants">>)

\* The runtime: here agent_tasks is the table of goal tasks.
GoalsScript ==
    NewTables(<<"workspace_runtimes", "goal_runs">>)
    \o NewTable("goal_cycles", {"last_graph_hash"}) \o Ensures("goal_cycles", <<"last_graph_hash">>)
    \o NewTables(<<"goal_hints", "dispatch_plans">>) \o NewTable("agent_tasks", {"goal_id"})
RuntimeScript ==
    NewTables(<<"agent_run_refs", "agent_messages", "work_leases", "agent_heartbeats",
                 "runtime_events", "workspace_projection_state">>)
RuntimeIndexesScript == Uses("agent_tasks", {"goal_id"})

RoutingScript ==
    NewTable("llm_profiles", {"transport"}) \o Tries("llm_profiles", <<"transport">>)
    \o NewTables(<<"agent_backends", "routing_policies">>)
    \o Tries("routing_policies", <<"caller_phase">>) \o NewTables(<<"route_decisions">>)

Script == TasksScript \o TaskListsScript \o MessagesScript \o TurnsScript \o TurnIndexesScript
          \o MemoryScript \o MemoryIndexesScript \o ProposalsScript \o RunsScript
          \o ToolCallsScript \o CommandRunsScript \o ConnectorsScript \o GoalsScript
          \o RuntimeScript \o RuntimeIndexesScript \o RoutingScript

Tables == { Script[i].table : i \in DOMAIN Script }
Columns(t) == {"id"} \cup UNION { Script[i].columns : i \in {j \in DOMAIN Script : Script[j].table = t} }

ASSUME SchemaMigrationAssumption == \A w \in Watches : w \subseteq Tables

\* The statements a watch is about.
ScriptFor == [w \in Watches |-> SelectSeq(Script, LAMBDA s : s.table \in w)]

\* What a statement leaves of its table, whatever it finds.  The table of goal
\* tasks has its column only from its CREATE.
Brings(s) ==
    CASE s.verb = "create" -> {"id"} \cup (IF s.table = "agent_tasks" THEN s.columns ELSE {})
      [] s.verb \in {"ensure", "try"} -> s.columns
      [] OTHER -> {}
Brought(script, n, t) ==
    UNION {Brings(script[i]) : i \in {j \in 1 .. (n - 1) : script[j].table = t}}

\* The order of migrate (db.rs): a table is created before a column is added to
\* it, a column is there before it is used, and nothing is missing at the end.
\* The old task list is moved before agent_tasks is created anew.
ScriptInOrder(script, w) ==
    /\ script \in Seq(Range(Script)) /\ script # <<>>
    /\ \A i \in DOMAIN script :
          LET s == script[i] IN
          /\ s.verb \in {"create", "ensure", "try", "use", "move"}
          /\ s.table \in w /\ s.columns \subseteq Columns(s.table)
          /\ s.verb \in {"ensure", "try"} => "id" \in Brought(script, i, s.table)
          /\ s.verb = "use" => s.columns \subseteq Brought(script, i, s.table)
          /\ s.table = "agent_tasks" => s.verb \in {"create", "use", "move"}
          /\ s.table = "agent_tasks" /\ s.verb = "create" =>
                s.columns = {"goal_id"} /\ \E j \in 1 .. (i - 1) : script[j].verb = "move"
          /\ s.verb = "move" =>
                s.table = "agent_tasks" /\ Brought(script, i, "agent_tasks") = {}
    /\ \A t \in w : Columns(t) \subseteq Brought(script, Len(script) + 1, t)

ASSUME ScriptAssumption == \A w \in Watches : ScriptInOrder(ScriptFor[w], w)

----------------------------------------------------------------------------
(* The database and its openers                                            *)

VARIABLES
    watched,     \* the watch of this behaviour; {} before there is a database
    schema,      \* schema[t]: the columns of a watched table
    opening,     \* opening[p]: where a process is in the script
    contested,   \* history: processes whose migration another one interfered with
    itemIn,      \* the tables an item of the old task list is in, or "lost"
    written,    \* "none", "stored", or "lost": a goal task written after an open
    outpaced     \* history: agent_tasks was dropped by a migration that was contested

schemaVars == <<watched, schema, opening, contested, itemIn, written, outpaced>>

OpeningPlaces == {"closed", "running", "altering", "looking", "copying", "dropping",
                  "open", "failed"}
OpeningAt(place, n) == [at |-> place, next |-> n]
NotOpening == OpeningAt("closed", 0)

SchemaTypeOK ==
    /\ watched \in Watches \cup {{}}
    /\ schema \in [watched -> SUBSET UNION {Columns(t) : t \in watched}]
    /\ \A p \in Openers :
          /\ opening[p].at \in OpeningPlaces
          /\ opening[p].next = 0 \/ opening[p].next \in DOMAIN ScriptFor[watched]
    /\ contested \subseteq Openers
    /\ itemIn \subseteq {"agent_tasks", "agent_tasklist_items", "lost"}
    /\ written \in {"none", "stored", "lost"}
    /\ outpaced \in BOOLEAN

SchemaInit ==
    /\ watched = {} /\ schema = <<>>
    /\ opening = [p \in Openers |-> NotOpening]
    /\ contested = {} /\ itemIn = {} /\ written = "none" /\ outpaced = FALSE

\* A new database, or one of an older version: each table without what was
\* added to it, or current.  agent_tasks without goal_id is the old task list.
FindsDatabase ==
    /\ watched = {}
    /\ \E w \in Watches :
          /\ watched' = w
          /\ schema' \in { f \in [w -> UNION {{{}, {"id"}, Columns(t)} : t \in w}] :
                               /\ \A t \in w : f[t] \in {{}, {"id"}, Columns(t)}
                               /\ \/ \A t \in w : f[t] # {}
                                  \/ \A t \in w : f[t] \in {{}, {"id"}} }
    /\ itemIn' = {t \in {"agent_tasks"} \cap watched' : schema'[t] = {"id"}}
    /\ UNCHANGED <<opening, contested, written, outpaced>>

Migrating(p) == opening[p].at \notin {"closed", "open", "failed"}
Todo(p) == ScriptFor[watched][opening[p].next]
Exists(t) == schema[t] # {}

\* Table t gets these columns; migrations that are under way notice.
Alters(p, t, columns) ==
    /\ schema' = [schema EXCEPT ![t] = columns]
    /\ contested' = IF columns = schema[t] THEN contested
                    ELSE contested \cup {q \in Openers \ {p} : Migrating(q)}

OpeningGoes(p, place) == opening' = [opening EXCEPT ![p].at = place]

\* The next statement about the watched tables, or the pool is there.
GoesOn(p) ==
    opening' = [opening EXCEPT ![p] =
        IF @.next = Len(ScriptFor[watched]) THEN OpeningAt("open", 0)
        ELSE OpeningAt("running", @.next + 1)]

\* An error ends migrate; the pool is not kept and the next call tries again.
OpenFails(p) == opening' = [opening EXCEPT ![p] = OpeningAt("failed", 0)]

\* pool: no pool is there yet.
Opens(p) ==
    /\ watched # {} /\ opening[p].at \in {"closed", "failed"}
    /\ opening' = [opening EXCEPT ![p] = OpeningAt("running", 1)]
    /\ contested' = contested \ {p}
    /\ UNCHANGED <<watched, schema, itemIn, written, outpaced>>

\* CREATE, a statement whose error is ignored, or one that needs its columns.
Executes(p) ==
    LET s == Todo(p) IN
    /\ opening[p].at = "running" /\ s.verb \in {"create", "try", "use"}
    /\ IF s.verb = "use" /\ ~(s.columns \subseteq schema[s.table])
          THEN OpenFails(p) /\ UNCHANGED <<schema, contested>>
          ELSE /\ GoesOn(p)
               /\ Alters(p, s.table,
                         IF s.verb = "create" /\ ~Exists(s.table) THEN {"id"} \cup s.columns
                         ELSE IF s.verb = "try" /\ Exists(s.table) THEN schema[s.table] \cup s.columns
                         ELSE schema[s.table])
    /\ UNCHANGED <<watched, itemIn, written, outpaced>>

\* ensure_column looks the column up, ...
LooksUpColumn(p) ==
    LET s == Todo(p) IN
    /\ opening[p].at = "running" /\ s.verb = "ensure"
    /\ IF s.columns \subseteq schema[s.table] THEN GoesOn(p) ELSE OpeningGoes(p, "altering")
    /\ UNCHANGED <<watched, schema, contested, itemIn, written, outpaced>>

\* ... and adds it, which fails if it has come to be there meanwhile.
AddsColumn(p) ==
    LET s == Todo(p) IN
    /\ opening[p].at = "altering"
    /\ IF ~Exists(s.table) \/ s.columns \subseteq schema[s.table]
          THEN OpenFails(p) /\ UNCHANGED <<schema, contested>>
          ELSE Alters(p, s.table, schema[s.table] \cup s.columns) /\ GoesOn(p)
    /\ UNCHANGED <<watched, itemIn, written, outpaced>>

\* migrate_legacy_agent_tasks_table: is there a table of the name, ...
LooksForOldList(p) ==
    /\ opening[p].at = "running" /\ Todo(p).verb = "move"
    /\ IF Exists("agent_tasks") THEN OpeningGoes(p, "looking") ELSE GoesOn(p)
    /\ UNCHANGED <<watched, schema, contested, itemIn, written, outpaced>>

\* Faulty: any table of the name is taken for the old one.
TakesForOldList(p) ==
    /\ opening[p].at = "looking"
    /\ OpeningGoes(p, "copying")
    /\ UNCHANGED <<watched, schema, contested, itemIn, written, outpaced>>

\* ... is it the old one, ...
ChecksOldList(p) ==
    /\ opening[p].at = "looking"
    /\ IF "goal_id" \in schema["agent_tasks"] THEN GoesOn(p) ELSE OpeningGoes(p, "copying")
    /\ UNCHANGED <<watched, schema, contested, itemIn, written, outpaced>>

\* ... INSERT OR IGNORE ... SELECT, which names columns of the old list, ...
CopiesItems(p) ==
    /\ opening[p].at = "copying"
    /\ IF schema["agent_tasks"] = {"id"}
          THEN /\ OpeningGoes(p, "dropping")
               /\ itemIn' = IF "agent_tasks" \in itemIn
                            THEN itemIn \cup {"agent_tasklist_items"} ELSE itemIn
          ELSE OpenFails(p) /\ UNCHANGED itemIn
    /\ UNCHANGED <<watched, schema, contested, written, outpaced>>

\* ... and DROP TABLE, with whatever agent_tasks is by now.
DropsOldList(p) ==
    /\ opening[p].at = "dropping"
    /\ IF Exists("agent_tasks")
          THEN /\ Alters(p, "agent_tasks", {}) /\ GoesOn(p)
               /\ itemIn' = IF itemIn = {"agent_tasks"} THEN {"lost"}
                            ELSE itemIn \ {"agent_tasks"}
               /\ written' = IF written = "stored" THEN "lost" ELSE written
               /\ outpaced' = (outpaced \/ p \in contested)
          ELSE OpenFails(p) /\ UNCHANGED <<schema, contested, itemIn, written, outpaced>>
    /\ UNCHANGED watched

\* A goal task is created through an opened database.
WritesGoalTask(p) ==
    /\ opening[p].at = "open" /\ "agent_tasks" \in watched
    /\ written = "none" /\ "goal_id" \in schema["agent_tasks"]
    /\ written' = "stored"
    /\ UNCHANGED <<watched, schema, opening, contested, itemIn, outpaced>>

\* A process ends, at any statement; the next one opens the database anew.
OpenerEnds(p) ==
    /\ opening[p].at # "closed"
    /\ opening' = [opening EXCEPT ![p] = NotOpening]
    /\ contested' = contested \ {p}
    /\ UNCHANGED <<watched, schema, itemIn, written, outpaced>>

SchemaNext ==
    \/ FindsDatabase
    \/ \E p \in Openers :
          \/ Opens(p) \/ OpenerEnds(p) \/ WritesGoalTask(p)
          \/ Executes(p) \/ LooksUpColumn(p) \/ AddsColumn(p)
          \/ LooksForOldList(p) \/ ChecksOldList(p) \/ CopiesItems(p) \/ DropsOldList(p)

SchemaSpec == SchemaInit /\ [][SchemaNext]_schemaVars

----------------------------------------------------------------------------
(* Property                                                                *)

(***************************************************************************)
(* Whatever version left the database and wherever earlier migrations      *)
(* died: a process that got its pool sees every table and column           *)
(* (db.rs:26-45), an item of the old task list is in the old table or in   *)
(* the renamed one (db.rs:1993-2035), a stored goal task stays stored, and *)
(* opening fails only when another process changes the tables at the same  *)
(* time.  The exception is a DROP TABLE that comes late, after another     *)
(* migration has put the table of goal tasks in the place of the old one.  *)
(***************************************************************************)
OpenedDatabasesAreWhole ==
    /\ \A p \in Openers :
          /\ opening[p].at = "open" /\ ~outpaced => \A t \in watched : schema[t] = Columns(t)
          /\ opening[p].at = "failed" => p \in contested
    /\ outpaced \/ written # "lost"
    /\ "lost" \notin itemIn

=============================================================================
