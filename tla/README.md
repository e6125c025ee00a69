# Personal Conductor: a TLA+ model

This directory holds TLA+ modules for Personal Conductor, a desktop companion
that chats, keeps goals and lets agents work on them. The modules cover what
decides who works on what and when it counts as done (leases, the task service,
the execution of tasks, the goal orchestrator), what answers the user and acts
for him (chat turns, tools, approvals, agent runs, model calls), what is kept
(database migration, memory, configuration, the review queue, the pet) and what
the windows show of it. TLC checks every module on small instances. TLAPS proves
the core for every number of tasks, agents, callers, approvals, calls and plans.
`PROJECT.json` lists every run, mutant, finding, hazard and theorem, and maps
each definition to the lines it was translated from.

Line numbers below are those of `crates/conductor-core/src/` unless a path says
otherwise.

## 1. The system

The user talks to the companion in a chat. A turn of the chat assembles a
prompt, calls a language model, runs the tools the model asks for and stores the
answer. A message may also start a *goal*. A worker thread of the desktop
*ticks* goals: every tick looks at the goal's rows and moves the goal and its
current *cycle* one phase on (observe, orient, decide, dispatch, execute,
review, summarise). Dispatching creates *tasks*, which an external *runner*
process claims and either asks the desktop to execute or hands to a command-line
agent. Beside that, timers of the desktop watch for stuck work, let the pet's
mood decay and clean up. Nearly everything is kept in one SQLite database;
the configuration and some signals are files.

Four facts shape every module:

* **Statements interleave.** The pool has five connections in WAL mode
  (`db.rs:36-39`), and apart from the claim of a task list's item the services
  open no transaction. Each SQL statement is atomic; between two statements of
  one call any other call may run. Most operations read a row, validate the
  change, and then write `WHERE id = ?` or the whole row, so they write what an
  older read allowed.
* **Anything may die between two statements**: the runner, the hooks and the
  command line are processes of their own, the desktop holds all other callers,
  and a timeout drops a future at whichever await it stands.
* **Nothing cleans up.** `leases::expire_scan` and
  `recovery::recover_on_startup` have no caller outside the tests.
* **Windows are caches.** A window asks, waits and merges; events tell it to ask
  again; answers arrive in any order.

### Inventory

| Component | State | Operations | Talks to | What is hard | What makes it correct |
|---|---|---|---|---|---|
| Leases (`leases.rs`) | `work_leases`: holder, target, status, expiry | acquire, renew, release, expire_scan | tasks | check and insert are two statements; scan and renew write by id | conflicting leases only from races; no early expiry; a finished lease stays so |
| Goal tasks (`goal_tasks.rs`) | `agent_tasks`: status, claimed_by, result | create, claim, start, complete, accept, fail, block, resume, rework, writebacks, delete | leases, goals | read-validate-write by id; a lease is released before the row is written | the transition table; claims backed by leases; verdicts stand |
| Task execution (`conductor-cli/agent_run.rs`, `runtime_api.rs`, desktop `worker.rs`) | the runner's place, signal files, running executions | poll, claim, start, signal, watch, execute, write back | tasks, orchestrator | two processes and a file between them; late failures | no task executed twice; every task gets an outcome |
| Agent adapters (`adapters/`) | run rows, processes of the runner | spawn, wait, stop, settle, review | tasks, runs | a stale run settles a newer attempt | an attempt is settled by its own run |
| Goals (`goals.rs`) | `goal_runs`, `goal_cycles` | status changes, create_cycle, advance, hash | orchestrator | read-validate-write; two rows per cycle creation | one open cycle; status and phase agree |
| Goal orchestrator (`goal_orchestrator/`) | none of its own | tick_goal, start, pause, resume, cancel, approve, reject, verdict | goals, tasks, teams, hints | ticks race with commands; debounce by hash | governed dispatch; a reviewed and justified verdict; progress |
| Agent teams (`agent_teams.rs`) | team, members, mailbox | create, add, bind, transition | orchestrator, agent runs | whole rows written back; team and cycle move separately | one valid step at a time, an executor before executing |
| Agent runs (`agent_runs.rs`) | run rows, processes, threads | start, stop, finish | tasks, teams | stop, timeout and exit race; the thread dies, the child does not | one verdict, told by row, task and team |
| Permissions, proposals (`permissions.rs`, `proposals.rs`) | grants, proposals, tool runs | request, approve, reject, execute | tools, UI | ids from MAX + 1; approve races with reject and execute | decisions stand; executions bounded by approvals |
| Tool calls (`tool_calls.rs`, `chat/tools.rs`, `tools/`) | call rows, threads, files | check, execute, settle | chat, proposals | a dropped turn's thread goes on; whole files written back | the row tells what happened to the file |
| Command runs (`command_runs.rs`) | row and object of a run, registry | start, kill, finish, persist | tools | kill races with exit; two copies | one final status |
| Chat (`chat/`) | sessions, turns, events, messages | send, stream, rounds of tools, titles | desktop, models | the timeout drops a turn anywhere; several writers of one list of events | a turn ends once, as the user was told |
| Model calls and routing (`llm.rs`, `routing.rs`, `model_resolver.rs`, `llm_profiles.rs`) | policies, profiles, keys; one request | resolve, retry, parse a stream | configuration | three sources read one by one; chunks cut anywhere | one source per request; no event lost or doubled |
| Task list, review queue (`tasklist.rs`, `tasks.rs`, `lock.rs`) | items, dependencies; reviews, `tasks.md` | create, update, claim; hook events, verdicts, render | tools, hook processes | an old update overwrites a claim; hooks of one session overlap | one claimant; one open review per session |
| Memory (`memory.rs`) | entries, chunks, vectors | set, delete, rebuild, promote, search | chat | an entry and its chunk are separate rows | the search finds what there is, and nothing else |
| Storage (`db.rs`) | the schema | migrate | every process | a long script without a transaction | an opened database is whole |
| Configuration (`config.rs`) | one JSON file | load, save | all | a load writes; a write empties first | what was saved outlives its readers |
| Companion (`avatar.rs`, `expression.rs`, `affection.rs`, `pacer.rs`, `initiative.rs`) | pet rows, alerts, quiet mode | dress, feel, decay, alert, keep quiet | chat, timers | whole rows written back minutes later | choices and moods are not lost; quiet is kept |
| Subagents, codex (`codex.rs`) | sessions, live entries, processes | start, interrupt, stop, resume | tools | two copies; late exits | a tracked session is what its row says |
| Desktop frontend (`apps/desktop/src/`) | what the windows show | fetch, merge, click | all of the above | answers in any order | a window at rest shows what is stored |
| Hints, skills, connectors, policy | rows that filter or wake | create, match | goals, chat | - | they appear where they take effect |
| Recovery, heartbeats, MCP, sense, events, projection | stale marks, processes, logs, views | - | - | - | not modelled, section 8 |

`PROJECT.json` has one entry per component with its status.

## 2. The modules

```
LeaseTable ----------+-- WorkLeases --------+-- WorkLeasesProofs
TaskLifecycle --+    +-- GoalTasks ---------+-- MCGoalTasks
                |        |  +-- TaskExecution --+-- TaskExecutionProofs (GoalTasks too), MCTaskExecution
                +-refines+
GoalPlanner ----+------- GoalOrchestrator --+-- GoalOrchestratorProofs, MCGoalOrchestrator

MCServices:   WorkLeases Proposals PermissionGrants CommandRuns TaskListItems
              CodexSessions ModelCalls SchemaMigration MemoryEntries ReviewQueue
              Pet (PetAvatar PetMood PetAffection) ChatView ConfigFile ToolCalls
              GoalChats SessionList WorkPanels
MCCompanion:  ChatTurns AgentRuns AgentTeams RunnerRuns Nudges
              ToolRounds (ModelRouting)

ToolProofs:      CommandRuns ToolCalls PermissionGrants Proposals ModelCalls
StorageProofs:   MemoryEntries ConfigFile ReviewQueue TaskListItems SchemaMigration
SessionProofs:   CodexSessions SessionList GoalChats Pet WorkPanels (ChatView)
ServicesProofs:  MCServices with the three above and WorkLeasesProofs
CompanionProofs: MCCompanion
```

`MCServices` and `MCCompanion` check many services in one run each. No
statement of one service writes what another one reads, so a behaviour picks a
service at the start (`focus`) and the others rest: every interleaving within a
service is explored, and the state spaces add up instead of multiplying.

### The goal loop

**LeaseTable** is the table `work_leases` and the one question asked of it:
`Conflicts` is `check_conflicts` (220-277), `Inserted` the INSERT of `acquire`.
Write scopes are sets of paths, a path a sequence of names, so "overlaps" is
the prefix relation of `scopes_overlap`.

**WorkLeases** is `leases.rs` with its clock. A call is cut at its statements:
`acquire` is check, insert; `renew` is read, write; `release` is one guarded
update; `expire_scan` reads the overdue ids and then writes them one by one.

**TaskLifecycle** is the abstract specification of a task: a status that moves
along the table of `validate_task_transition` (42-79), and may be deleted.

**GoalTasks** is `goal_tasks.rs` with its lease work. A variable `calls[c]` says
what caller `c` is in the middle of: `Begin` is the first SELECT with its
validation, `Check` the conflict check of a claim, `FindLease` the look-up
of the claim to give back, `Write` the final UPDATE. The eleven operations
differ in which of these they have and in what the UPDATE is guarded by; the
operators `AfterRead`, `Releasing`, `Matches`, `Storing` hold those differences.
`Crash` drops a call at any statement.

**TaskExecution** composes the actors the desktop really has around GoalTasks:
the runner's loop, the signal file, the watcher, executions through chat
(guarded writebacks) or the router (claim and start if needed), the
orchestrator's `tick_executing` and the user's resume. Each actor waits for
its own call to return.

**GoalOrchestrator** is `tick_goal` and the user's commands for one goal. Every
invocation is a *script* of statements still to run, so that the worker's tick
and a command interleave statement by statement; a failing statement drops the
rest, as `?` does. Tasks move as TaskLifecycle allows, in one step each: their
statements are the subject of GoalTasks. Facts and hints both change the graph's
hash; hints stand for both.

**GoalPlanner** is what a tick decides, as functions without state: from what
observe has read (the goal's tasks, its cycle, the agents' heartbeats, chosen from
`Heartbeats`), the model's reply (chosen from `Replies`) and the goal's `Budget`
to the number of tasks planned, the number `filter_dispatch` grants, and whether a
blocker or the budget speaks against the plan.

**RunnerRuns** is the runner's other branch (`agent_run.rs` of the CLI,
`adapters/claude_p.rs`): it spawns a command-line agent for a task, a thread
waits for the child and settles run and task, while stops, the runtime API and
later attempts write the same rows. **AgentRuns** is `agent_runs.rs`: background
runs of a team's members, with the thread that writes run, task, member and
team. An error before the row is written ends the thread (`FinishFails`); the
writes after it are each tried once and dropped when they fail (`WriteFails`). A
team is moved on only when some member's row names a run when all are counted;
starting a run does not put it there, so `CountsMembers` leaves it open, and
`unbound` remembers. **AgentTeams** is the lifecycle of a team and its members under
overlapping callers.

### Chat, tools and models

**ChatTurns** is one turn: the row and its numbered events, the call of
`send_message_v2` with its arms, the detached writer of the first token, the
tool call it executes, the registry of active runs and the overall timeout.
**ToolRounds** is the same turn seen from the model: which tools it is offered,
the rounds of calls and replies, and what becomes the answer when the model
gives none. **ToolCalls** is the row of a call beside the thread that reads and
writes a file. **Proposals** is what a refused call becomes: proposal, approval,
execution. **PermissionGrants** is `permissions.rs`. **CommandRuns** is a
shell command as a row and as an object in memory. **CodexSessions** is
`codex.rs`. **ModelRouting** resolves policy, profile, key and configuration to
one request. Its loads are those of ConfigFile in short: a load returns what the
file holds or, when it meets a write, the defaults (`DefaultConfig`), and a load that
fails gives the model in the code (`BuiltInModel`), the defaults or no call, as its
caller does; other loads write back what they had read (`WritesBack`).
**ModelCalls** makes that request: key schemes, limit names, the
answer as a whole or as a stream cut anywhere. **TaskListItems** is
`tasklist.rs`: the lists that agents share.

### What is kept

**SchemaMigration** is `db.rs`: every process runs one script of looks and
ALTERs on whatever database it finds. **MemoryEntries** is `memory.rs` for
one key: entries, chunks, recall. **ReviewQueue** is `tasks.rs` with the hook
processes and the file lock. **ConfigFile** is `config.rs` with every reader,
which writes too. **PetAvatar**, **PetMood** and **PetAffection** are the pet's
look, mood and fondness, **Pet** puts the three together; **Nudges** is the pacer with the quiet mode.

### What the windows show

**ChatView** is `useChatSession.ts`: the messages of a window between the stored
ones, answers and events. The end of a turn is told twice, by the answer of its call
and by `reply_stored` (`announced`), that of a background execution by the event
alone; the list fetched on the event ends the request, as the active one or with
its entry among the projected runs (`EndsRequest`). So a prompt that was cancelled or
timed out is repaired, and the exceptions are what nobody told (`missed`): a
session left, a fetch or a turn that failed without an event, a job that could not
store. **GoalChats** binds a conversation to the goals that
grow out of it. **SessionList** is the list of conversations and its titles.
**WorkPanels** are the panels of proposals, runs and goal tasks; it EXTENDS
ChatView, so that `WindowsShowWhatIsThere` can speak of both.

### State and code

| Model | Code |
|---|---|
| `leases[l]` | a row of `work_leases`; `NoRow` is a UUID not handed out yet |
| `tasks[t]` (GoalTasks) | a row of `agent_tasks`: `status`, `claimed_by`, whether there is a result; "absent" and "deleted" mean no row |
| `calls[c]` | a future suspended at an `.await` in `goal_tasks.rs` or `leases.rs`, with its locals |
| `signals`, `watcher`, `execs` (TaskExecution) | `*.exec` files, the path the watcher has read, spawned executions |
| `goal`, `cycles[n]` | `goal_runs` and `goal_cycles`; the team of a cycle is a field of the cycle |
| `cycles[n].hash`, `cycles[n].plan` | `last_graph_hash`, compared by the debounce (`mod.rs:292`); history: the last plan decided |
| `Replies`, `Heartbeats`, `Budget` | what `decide_llm` gets back, `agent_heartbeats`, `budget_json` |
| `script[c]` | the rest of an invocation of `tick_goal` or of a command |
| `proposals`, `grants` | `action_proposals`, `permission_grants`: rows in the order of their ids |
| `row[r]`, `memory[r]`, `liveRuns` (CommandRuns) | a row of `command_runs`, the object behind its mutex, `LIVE_RUNS` |
| `callRow`, `worker`, `fileText` (ToolCalls) | a row of `tool_calls`, the blocking thread, who has a part in the file's text |
| `turn`, `send`, `outer`, `token` (ChatTurns) | the row of `chat_turns`, the call, its timeout arm, the detached task |
| `offers`, `rounds`, `records` (ToolRounds) | `tool_defs`, the loop's counter, `all_tool_records` |
| `run`, `keeper`, `child` (AgentRuns); `cliRow`, `watcher`, `cliChild` (RunnerRuns) | the row of a run, the thread that waits, the process |
| `stored`, `live` (CodexSessions) | `codex_sessions`, `LIVE_SESSIONS` |
| `entries`, `chunks` (MemoryEntries) | `memory_entries`, `memory_chunks` |
| `schema[t]`, `opening[p]` | the columns of a table, a process's place in the script |
| `configFile`, `configWindow` | what the file holds or that it is torn, the settings a window has in hand |
| `displayed`, `projected`; `listed`; `sideRows`; `onScreen` | React state of the chat window, the panels, the sidebar, the workbench |

History variables (their declarations say "history") record what happened and
are read by properties only: an overlap, a lost answer, who was told what.

## 3. Runs

Passing runs:

| Run | Question | Instance |
|---|---|---|
| `tasks_concurrent` | Which relations between tasks and claims survive two concurrent callers that may die anywhere? | 1 task, 3 leases, 2 callers, 2 agents, 11 operations |
| `tasks_serial` | With one caller at a time, does the service implement TaskLifecycle? | 2 tasks, 3 leases, 1 caller |
| `execution_deaths` | Do the desktop's own actors ever claim or execute a task twice, with deaths and resumes? | 2 tasks (one routed), 4 leases, 2 executions, 2 deaths, 2 resumes |
| `execution_live` | Without deaths, does every queued task get an outcome? | as above with 3 leases, 1 resume and no deaths |
| `goals_approval` | Do goal, cycle, team and tasks agree with the approval gate on, seven commands racing with the ticks and a death at any statement? | 2 tasks, 2 cycles, 1 hint, 1 death |
| `goals_live` | As the desktop is configured, does every started goal reach its verdict, governed and without failed tasks? | 3 tasks, 1 cycle, 1 hint |
| `services` | What does each service beside the goal loop keep of its promises when its callers interleave and die anywhere? | nineteen services, two callers and two rows each |
| `companion` | Does what answers the user and works for him keep its promises, and does it get done? | seven services, under fairness |

### What they show

The goal loop:

* `ClaimsAreBackedByLeases`, `WorkIsClaimed`, `SettledTasksStaySettled`
  (GoalTasks): what remains true of the task service under any interleaving. A
  verdict can be overwritten, but only by a call that had read the row before
  it; with the serial caller it cannot, the service implements its transition
  table (`ImplementsLifecycle`) and no parked task keeps its lease
  (`ParkedTasksHoldNoLease`).
* `NoDoubleExecution`, `AcceptedTasksAreComplete`, `EveryTaskGetsAnOutcome`
  (TaskExecution): the races that the task service allows in general are not
  reached by the desktop's own actors, whose protocol is narrower. A task is
  never executed twice at once nor claimed twice, what is accepted has a result
  and holds no claim, and without deaths every queued task ends.
* `PhasesKeepTheirOrder`, `GoalVerdictsStand`, `CyclesAreGoverned`,
  `StartedGoalsReachVerdict` (GoalOrchestrator): one cycle at a time is open, a
  cycle under review has its team under review, and tasks exist only once their
  cycle has left the planning phases; a verdict stays; never more tasks than
  were granted, and no acceptance over failed ones. The order of the
  orchestrator's statements is what keeps a death, a second tick or a command
  from dispatching twice or accepting too much.

Services (`services`):

* `ConflictsOnlyFromRaces`, `LeasesRunTheirTerm` (WorkLeases): two active leases
  conflict only if the acquires that inserted them overlapped; no lease ends
  before its term or comes back after it.
* `ApprovalsBoundExecutions` (Proposals): an approved proposal is executed at
  most as often as it was approved times the callers there are, and a proposal
  that nobody approved as what it is now never, unless two chats took one
  number at once. `DecisionsStand` (PermissionGrants): a decided grant stays.
* `VerdictsAreRecorded` (CommandRuns), `CallsTellTheFile` (ToolCalls): what a
  row says of a command or of a file is what happened, except in the named
  overlaps.
* `ItemsAreClaimedInTurn` (TaskListItems), `ReviewsAreKept` (ReviewQueue),
  `SessionsAreTracked` (CodexSessions): one claimant, one open review, one
  entry per running session.
* `OpenedDatabasesAreWhole` (SchemaMigration), `RowsAndChunksAgree`
  (MemoryEntries), `SettingsOutliveTheirReaders` (ConfigFile), `PetStaysItself`
  (the conjunction of `PetKeepsChoices`, `SavedMoodsAreRemembered` and
  `FondnessFollowsTheDays`): what is kept outlives its readers, writers and
  deaths.
* `AnswersMatchReplies` (ModelCalls): what is shown while a call streams is always
  the texts of the reply up to some event; a call that returns carries every event
  the provider sent, once and in order, and does not fail where a way to ask is
  accepted.
* `WindowsShowWhatIsThere` (the conjunction of `SettledViewIsComplete` and
  `PanelsShowTheTables`), `GoalsStayWithTheirChat`, `NamesAreKept`: once nothing
  is on its way, the windows show what is stored. What the chat window may lack
  was taken away by an older list, cleared, beyond the history's length, or belongs to
  a request of whose end it was neither told nor answered (`hidden`, `missed`).

What answers (`companion`):

* `TurnsReturnAsClosed` (ChatTurns): every turn returns, and closes as what the
  user was told. `AnswersAreAccountedFor` (ModelRouting and ToolRounds): a
  request has one source, and the model of one configuration meets the endpoint of
  another only when a load was disturbed (`disturbed`); a turn's offers stay within the user's wishes, no
  run of a tool is passed over, and the answer is the model's only if it was one.
* `RunsEndAndAreReported` (AgentRuns), `AttemptsAreSettledByTheirRuns`
  (RunnerRuns), `TeamsFollowTheirLifecycle` (AgentTeams): a run gets one verdict,
  told by row, task and team, or its thread died or met an error, and that is all
  that can keep it running.
* `NudgesKeepQuietAndReturn` (Nudges): quiet is kept and ends, and a task that
  stays stuck is named again.

Most of these properties name their exceptions: the overlap, the death or the
lost answer that really breaks the promise in the code. The exception is a
history variable, so a run shows that nothing else breaks it.

Each property of a passing run has a mutant in `PROJECT.json`: a change to a
mapped definition, of the kind a programming error would make, under which TLC
finds the property violated. The mutated forms stand next to the originals in
the modules, marked `Faulty`; no specification uses them.

Runs that end in a violation, each of a sentence the repository says of itself:

| Run | The repository says | What happens |
|---|---|---|
| `double_claim` | a task's second claim fails (`goal_tasks.rs:863`, `879-880`) | both callers pass the conflict check before either inserts |
| `stuck_queue` | after a runner's death the lease times out and the task can be claimed again (`docs/Agent状态机收口-评审与派工方案-20260531.md:331`) | a death between the lease's INSERT and the task's UPDATE leaves the task unclaimable for ever |
| `approved_plan` | an approved plan is executed by the next tick (`goal_orchestrator/mod.rs:945`, `agent_teams.rs:1915`) | the tick that parked for the approval had stored the hash; the debounce stops every later tick |
| `unreviewed_task` | only terminal tasks are judged (`mod.rs:506`) | a task that becomes ready between two lists of one tick is never accepted |

`double_claim` quotes a test that claims one after the other, which is the case
the theorem `SerialClaimsAreExclusive` covers. `approved_plan` concerns the
orchestrator with the approval gate, which the tests and the library support;
the desktop's worker runs without it (`worker.rs:756`).

### Bounds, and why they are enough

* Two callers and two rows in every service (`p1`, `p2`, `x1`, `x2`): every
  hazard of the inventory is a race of two calls over one row, or of one call
  with itself after a death. The properties that count callers are proved for
  any number; the file tools were also run with three calls by hand.
* One task where the operations of different tasks share no row (leases of
  other tasks cannot conflict with a claim); two where an order among tasks
  matters (the runner takes the oldest) and in the refinement.
* Three or four leases: one more than the attempts that can be in flight, so
  that claim, release and claim again happens. A claim is not enabled when no
  id is left, which stands for the end of the observed history.
* `MaxTime` 2 with a term (`TTL`) of 1: a lease can be overdue and renewed.
* `MaxCrashes`, `MaxQuits`, `MaxRestarts`, `MaxLosses`, `MaxRunnerEnds`,
  `MaxInterrupted`: deaths (`MaxLosses` counts errors of a run's thread too); a second one finds what the first left where the
  bound is two. `MaxResumes`, `MaxHints`, `MaxCycles`: one hint wakes a
  debounced cycle; two cycles let a send-back start another one.
* `MaxProposals`, `MaxApprovals`, `MaxGrants`, `MaxItems`, `MaxReviews` 2: two
  rows can take one number; a second approval follows an execution.
* `MaxProcesses` 2 (a codex session is resumed once), `MaxWriters` 3 (hook
  processes in all, two at a time), `MaxChanges` 3 (of the avatar), `MaxPolicies`
  2 and `MaxSaves` 1 (a save meets a resolution), `MaxSettings` 2 (a save is
  overtaken), `MaxStamps` 4 and `KeptMoods` 2 (ten in the code: a prune has
  something to delete), `Top` 2 and `MaxDays` 3 (affection is a hundred in the
  code; three days without a word is the limit that matters), `CooldownBeats` 2
  and `MaxAlerts` 2, `HistoryLimit` 3 (a history can be too short),
  `MaxTurns` 3 (of the chat window: two prompts and an execution, or two
  prompts and a cancel, a clear, a retry, a switch or a failed fetch, or one prompt,
  an execution and such a turn), `RecallLimit` 1 (five in the code: an entry can be left out),
  `MaxReads` 2, `MaxBegun` 2, `MaxHappenings` 2 (things that happen to one
  session), `MaxRounds` 2 and `MaxCalls` 2 (ten and twenty-four rounds in the
  code: the last round is reached).
* `GivenStatuses` and `GivenBlockers` are what callers of the task list send;
  `Watches` are the sets of tables a migration is looked at through, since
  statements about different tables commute; `MCModelReplies`, `MCWishes` and
  `MCPolicyInputs` are the inputs that make a difference to the code's branches.
* Plans of up to three tasks: more, fewer and as many as are granted.

Symmetry is used for ids that are interchangeable, in runs without liveness;
`services` uses a VIEW instead, which also leaves out the services that rest.
`CHECK_DEADLOCK FALSE` is set because each system may really come to rest:
finished goals, and finite histories of ids and hints.

### Fairness

TaskExecution: weak fairness of the runner (a polling loop), the watcher and the
orchestrator (timers), each execution (a spawned future) and the rest of a
resume that was begun. Deaths, and the user's decision to resume, are
not fair. GoalOrchestrator: weak fairness of the worker (a two-second timer),
of a command once it was given, and of the work on each task, which is what
`EveryTaskGetsAnOutcome` establishes one level down. In `companion`:
`TurnsFairness` (the call's future, its timers and the overall timeout, which
fire whatever hangs), `AgentsFairness` and `RunnerFairness` (threads that
wait for a child with a time limit), `NudgesFairness` (the loop that takes the
alerts) and the pacer's beat. What the model or the user may do is not fair.
Weak fairness is enough: none of these steps is disabled by another actor for
ever and again.

`goals_live` leaves out `pause`, `accept` and `send_back`: with them the goal can
really get stuck. The user's verdict and the worker's tick both walk the cycle
from reviewing to completed, and the loser's error leaves the goal in
`awaiting_review` without an open cycle; a pause that validated
`running` before the acceptance writes `blocked` after it. Both are listed as
hazards. `goals_approval` leaves out `approve_and_tick`, the desktop's
approval command: two tickers may dispatch one plan twice when the gate is on.

## 4. Proofs

Eight modules hold the theorems, each for every number of tasks, agents, callers,
leases, plans, approvals, calls, replies or files. TLC has checked each
inductive invariant before it was proved. A theorem's comment says it in words;
`PROJECT.json` lists them with the property of a run that they state.

### Task service: `TaskExecutionProofs`, first part

| Theorem | Statement | Argument |
|---|---|---|
| `TypeCorrect` | `Spec => []TypeOK` | inductive as it stands; its part `WellFormed` ties a call's step to its operation |
| `ClaimsBacked` | `Spec => []ClaimsAreBackedByLeases` | `BackedInv`: a claim about to write its UPDATE has its lease row; rows are never deleted (`LeaseRowsStay`) |
| `WorkClaimed` | `Spec => []WorkIsClaimed` | a call past its validation that does not start from the queue works on a task that has a claimer; `claimed_by` is never cleared |
| `SettledStays` | `Spec => SettledTasksStaySettled` | only a call in flight can write a settled row |
| `ClaimsBounded` | `Spec => []ClaimsBoundedByCallers` | `BoundInv`: active claims plus claims about to be inserted never exceed the callers |
| `SerialClaimsAreExclusive` | with one caller, `Spec => []OneClaimPerTask` | corollary: the bound is one |
| `SerialCallsFollowLifecycle` | with one caller, `Spec => ImplementsLifecycle` | the refinement: `ReadsStand`, nobody moves the row between the caller's SELECT and its UPDATE (a delete may remove it), so what the UPDATE writes is a step of the table from what was read |
| `SerialParkedTasksAreFree` | with one caller, `Spec => []ParkedTasksHoldNoLease` | `ParkedInv`: the call that parks a task has released its claim before it writes the row, and no claim can be inserted in between |

`SerialClaimsAreExclusive` and the run `double_claim` together say exactly what
the code promises: exclusive claims if calls do not overlap, and not otherwise.

### Leases: `WorkLeasesProofs`

| Theorem | Statement | Argument |
|---|---|---|
| `LeasesTypeCorrect` | `Spec => []TypeOK` | `LeaseInv`: an UPDATE by id keeps the table's type only because the row it names is there |
| `LeasesRun` | `Spec => LeasesRunTheirTerm` | the two next ones in one property |
| `FinishedStayFinished` | `Spec => FinishedLeasesStayFinished` | from what a step may do to a row (`RowsStep`) |
| `NoneExpiresEarly` | `Spec => []NoLeaseExpiresEarly` | a row's expiry is never below acquisition plus term (`RowInv`), because a renewal is not older than its lease; what the scan has read has outlived its term, and time does not run back |
| `OnlyRacesConflict` | `Spec => []ConflictsOnlyFromRaces` | an acquire about to insert does not conflict with any row its check saw (`CallInv`), and rows change neither their request nor back to active |
| `SerialLeasesAreExclusive` | with one caller, `Spec => []NoConflictingActiveLeases` | of two rows the later was checked against the earlier (`SerialInv`); between requests of one type a conflict is mutual (`ClashSymmetric`) |

### Task execution: `TaskExecutionProofs`, second part

`ExecInvHolds` is the inductive invariant of the composition of runner, signal
file, watcher, executions, orchestrator and user; `ExecTypeCorrect`,
`ExecutionsAreSingle` (`NoDoubleExecution`) and `AcceptedIsComplete`
(`AcceptedTasksAreComplete`) follow from it. The argument is that a task is in
*at most one hand*: the user's, the runner's, the signal file's, an execution's
or the orchestrator's. Which hand it is in bounds the status of its row and the
claims that may be active, and a call in flight is known to the hand that waits
for it. The services' own invariant does not suffice: it allows the races of
GoalTasks, which the hands exclude.

### Goals: `GoalOrchestratorProofs`

`GoalTypeCorrect` (`GoalTypeOK`) is a statement about *scripts*: every invocation
is a sequence of typed statements, whose checked writes stand only in front, and
every statement that runs leaves such a sequence. `GoalVerdictsAreFinal`
(`GoalVerdictsStand`) follows with the goal's transition table, whose only exit
from accepted and cancelled is an archiving nobody asks for.
`CyclesAlwaysStayInBudget` (`CyclesStayInBudget`, a conjunct of
`PhasesKeepTheirOrder`) says for every reply, heartbeat and budget that a cycle
whose number has reached the budget has no tasks: a plan for such a cycle grants
nothing (`PlansAreBounded`), so that no `create_task` of any script names it, also
when the script has waited while others ticked. The lemma `Least`
gets induction over the cycles' numbers from the library's well-founded
minimum.

`PhasesAlwaysKeepTheirOrder` states the whole of `PhasesKeepTheirOrder`. The order
is not kept by what a statement checks but by when it was chosen: a script is
picked for the phase a cycle is in, and waits. `PhaseInv` therefore says of every
statement still to run that its cycle is where the statement expects it. That
holds because a phase can be left by the worker alone, or by the worker and the
user only while the goal awaits review or is accepted, where neither of them
starts work (`Readies`, `MayFollow`). The theorem assumes that `approve_and_tick`
is not among the commands: it makes the user a second ticker, and TLC shows that
two tickers leave two verdicts on one reviewing cycle (section 6).

`GrantsAreAlwaysKept` and `CyclesAreAlwaysGoverned` (`CyclesAreGoverned`): a plan's
hash is written before its tasks (`HashInOrder`); the INSERTs stand in front of
the call that assigns the team and are never more than the plan has left
(`CreatesInOrder`, `Room`), so a death between two of them loses tasks and never
adds one. The acceptance half is `ConcludeInv`: without a verdict of the user a
goal stays in its first cycle, the worker concludes only when it has read every
task as done, and done tasks stay done until one is created, which happens only
while the cycle executes. The theorems assume that the user gives no verdict of
his own (`accept`, `send_back`, `approve_and_tick`), as the property does; he may
pause, resume, cancel, approve and reject whenever he likes.

### Tools and model calls: `ToolProofs`

`GrantsTypeCorrect` and `GrantDecisionsStand` (`DecisionsStand`) are about
`permissions.rs`. `ProposalsTypeCorrect` and `ApprovalsBound`
(`ApprovalsBoundExecutions`) are about proposals: an approval opens a window in
which each of the N executors reads the row at most once, and which the first
mark closes. So attempts + readers past their read + N is at most approvals
times N while the row is approved, and attempts + pending at most approvals times
N otherwise.

`CommandsTypeCorrect` and `VerdictsRecorded` (`VerdictsAreRecorded`): the stored
verdict of a command is that of the object in memory wherever the task that
follows the process stands (`RunInv`). `ToolCallsTypeCorrect` and `CallsTell`
(`CallsTellTheFile`): a thread that works alone carries all that the file owes;
as soon as two overlap, everything owed is at stake.

The attempt to prove `CallsTell` refuted an earlier form of the property, which
named only pairs: an append, an edit that read before it and a replace that
overlaps the edit lose the append's part. The history variable `collided` now
records what was at stake.

`AnswersAlwaysMatchReplies` (`AnswersMatchReplies`) is proved for every set of
replies, of any length, cut into chunks at any token. The invariant `ModelInv`
says that while a call reads there is a number k of payloads that have been taken
in: the answer tells the first k payloads (`TellsAnswer`), and the buffer with what is
still to come is the wire from the k-th payload on (`Ahead`, `Follows`), so that the
next complete event in the buffer can only be payload k + 1. While it asks,
some way that is left is one the provider accepts, if it accepts the key or asks for
none (`AskingInv`): a refusal takes off only the way that was tried. `ModelCallsAssumption`
says what a provider sends: an end mark stands last, and the first piece of a
tool call, and no other, has its name.

### What answers and who acts: `CompanionProofs`

Four services whose run also checks liveness have their safety part proved, with
their type invariants:

| Theorem | States | Argument |
|---|---|---|
| `TurnsAlwaysCloseAsTold` | the invariant in `TurnsReturnAsClosed` | `TurnInv`: where the call stands says in which arm it is, how much is stored and whether it would be recovered; a row is "failed" only past the arm that found nothing to recover, and a call is open only at the tool, on the way to `fail_incomplete_for_turn`, or after a death |
| `RunsAreAlwaysReported` | the invariant in `RunsEndAndAreReported` | `AgentsInv`: up to its record a run has no verdict and its task is running, from then on both are the thread's outcome; a stop holds a row without a verdict, so one that comes late is an overwrite. Whoever finds a member undone cannot be the last thread, unless a status could not be written (`unwritten`); who finds all done moves the team or leaves `unbound` |
| `OldRunsAlwaysStandBack` | `OldRunsStandBack`, in `AttemptsAreSettledByTheirRuns` | `RunnerInv`: a run under way is that of the running attempt, or somebody settled its attempt, or the task has failed for good |
| `QuietIsAlwaysKept` | `QuietIsKept`, in `NudgesKeepQuietAndReturn` | `QuietInv`: while the last request's time runs its quiet is in force, and an alert in judgement was taken before |

`AllAreWritten` (the threads of all members are done and none failed to write) would
hold of a team without members, which AgentRuns therefore excludes
(`AgentRunsAssumption`): a run is started for a member.

`AnswersAreAlwaysAccountedFor` (`AnswersAreAccountedFor`) joins the two theorems
about what answers. `RequestsAlwaysHaveOneSource`: a resolution that waits for its
profile has seen every enabled row the profile had since its policy was read
(`ResolutionInv`), and model, endpoint and key are taken from one row or left open
together; a configuration a call holds, and a model it took from one, is what the
file holds now or the call is marked as disturbed. `RoundsAreAlwaysAccountedFor`: where the turn stands says how many runs
have no record yet and whose text stands for the answer (`RoundsInv`); that a narrow
turn is never a long one, and so has no override, keeps later offers within the
wishes. `TeamsAlwaysFollowTheirLifecycle` (`TeamsFollowTheirLifecycle`, `TeamsInv`): a
caller writes back a whole row that a lifecycle step leads to from what it read,
so a step that is not one of the table needs another writer in between.

`CompanionKeepsItsTypes` (`CompanionTypeOK`) and `CompanionKeepsItsPromises` carry all
this over to `MCCompanion`: a behaviour of the composition is one of each service
(`EachServiceAsSpecified`), because the services at rest stutter. Two numbers need an
invariant beside those above: a policy is numbered when it is inserted, and there
is room for the one drafted (`NumbersInv`); the tools run and those asked for
are at most `MaxCalls` for every round begun (`CountsInv`).

### What is kept: `StorageProofs`

| Theorem | Property | Argument |
|---|---|---|
| `RowsAndChunksAlwaysAgree` | `RowsAndChunksAgree` | a row, and an id on its way to becoming one, were chosen when there was none, so the later of two saw the earlier or overlapped it; a call that will write a chunk holds only rows, or ids known to be gone |
| `SettingsOutlive` | `SettingsOutliveTheirReaders` | while a save that is on time writes, the file is empty, whatever others hold is late and every other window is stale; so a call that is on time carries what is saved or what is wanted |
| `ItemsAreAlwaysClaimedInTurn` | `ItemsAreClaimedInTurn` | the claimants of an item are its owner, unless an update wrote an old owner back; an item that can be claimed has the dependencies its creator stored |
| `ReviewsAreAlwaysKept` | `ReviewsAreKept` | a hook that has still to write is as good as an open task of the session it will name; the render's view is the rows as long as the lock is held |
| `DatabasesAlwaysOpenWhole` | `OpenedDatabasesAreWhole` | `SchemaInv`: what an opener has behind it is in the tables, save `agent_tasks` after a DROP that was overtaken while the opening was contested; past the move `agent_tasks` is never the old table; only a contested opening fails |

The last theorem speaks of every script that keeps the order of `migrate`
(`ScriptAssumption`: the move of `agent_tasks` once, after what it needs and before
what needs it). TLC evaluates that assumption on the script of the run.

`ReviewsAreKept`, too, was stronger before its proof: with a session in two
terminals a hook may adopt the task of the other terminal by its terminal and
rename it to its own session, so an overlap has to count the session of the task
in hand beside that of the event. And three hooks on one task refuted a first
`SessionsInv`: two that have the same task in hand do no harm to each other
(`InHandApart`).

### Sessions, windows and the pet: `SessionProofs`

| Theorem | Property | Argument |
|---|---|---|
| `SessionsAreAlwaysTracked` | `SessionsAreTracked` | `CodexInv`: an entry says what its row says even while the lock is held; nobody else acts on a session whose entry is still to come; what is alive or ending is at most `MaxProcesses` |
| `NamesAreAlwaysKept` | `NamesAreKept` | `ListInv`: where a call stands and what it has read bounds which rows it may still add (`SideCallInv`); the filled and the pinned session of the window have rows (`FilledInv`, `PinnedInv`) |
| `GoalsAlwaysStayWithTheirChat` | `GoalsStayWithTheirChat` | `ChatInv`: one action is in flight unless they are tangled (`LinkedInv`), a switch carries the goal of its row (`SwitchInv`), and a goal whose verdict is still untold is in the loop's hands (`TellerInv`) |
| `PetAlwaysStaysItself` | `PetStaysItself` | the three lines below |
| `PetAlwaysKeepsChoices` | `PetKeepsChoices` | `AvatarInv`: an automatic change past its read saw no lock |
| `SavedMoodsAreAlwaysRemembered` | `SavedMoodsAreRemembered` | `MoodInv`: writers that are open together are crossed, the stamp of an uncrossed one is later than every row, and a prune keeps the latest row |
| `WindowsAlwaysShowWhatIsThere` | `WindowsShowWhatIsThere` | a stored message missing from the chat window is still on its way (with an answer that is expected, an event or a fetch) or known to be lost; an entry that runs belongs to a request not ended, announced, fetched for or missed; a panel shows what its last fetch read, and one whose answers can arrive in the wrong order knows it is behind (`FreshReadFollows`, `LateInOrder`) |
| `FondnessAlwaysFollowsTheDays` | `FondnessFollowsTheDays` | `FondInv`: as long as nobody mixed with another, what the one holder carries is the stored row but for the days that wore off; the streak is the run of days up to the last talk |

### All services together: `ServicesProofs`

`ServicesKeepTheirTypes` (`ServicesTypeOK`) and `ServicesKeepTheirPromises` say of
`MCServices` what the modules above say of each service: the composition is
specified as each of them is (`EachServiceAsSpecified`), so every property the run
`services` checks holds of it for all values of the constants, the exclusions named in
each property aside. Most type invariants are parts of the invariants above. Two are
not, and have one of their own: what the workbench shows and what a list carries is a
row, and an action about to show a list has read one (`RowsInv`, GoalChats); an opener
that is not in the script has no place in it (`RestsInv`, SchemaMigration).

### Assumptions, and what stays with TLC

The theorems assume the named `ASSUME`s of the modules: nulls lie outside the
types they stand beside, `Callers` is finite, a team has members, requests,
replies, heartbeats and the budget are well-typed, scripts keep the order of
`migrate`, bounds are natural numbers. TLC evaluates every one of them in some
run. Hypotheses of a theorem itself are: one caller (the `Serial` ones), and the
commands left out by the three theorems on phases, grants and cycles.

Only model-checked is liveness: `EveryTaskGetsAnOutcome`,
`StartedGoalsReachVerdict` and the liveness parts of four companion properties
(`EveryTurnReturns` in `TurnsReturnAsClosed`, `RunningRunsEnd` in
`RunsEndAndAreReported`, and what stands beside the safety part in
`AttemptsAreSettledByTheirRuns` and `NudgesKeepQuietAndReturn`). Fairness and ENABLED
are outside what the prover handles. Every other property of a passing run is
stated by a theorem.

## 5. Abstractions

* SQL rows keep the columns the properties tell apart. Timestamps exist only
  where a property is about them (WorkLeases, PetAvatar, PetMood, PetAffection,
  Nudges), as an order or a small number; result texts are a Boolean.
* In GoalOrchestrator a task's operation is one step, and so is reading and
  writing a team's row. The interleavings inside them are those of GoalTasks
  and AgentTeams.
* `observe` is two steps, the goal's row and then everything else: the goal's
  status is what a tick carries across its later statements.
* `create_goal` is the initial state. Archiving and deletion are not modelled.
* In TaskExecution the router's branches for a task that is still queued or only
  claimed are modelled but not reached: the runner has started every task it
  signals. Panics inside an execution are not modelled.
* After a rejected plan the cycle keeps its hash and the team stays
  `rework_required`; the model does the same.
* A message, a setting, a mood or a file's text is the set of those who have a
  part in it; a stream is a sequence of tokens, not of characters.
* Services that share no row are modelled apart. Where one calls another (a turn
  calls tools, a tick moves tasks), the caller's module has the callee's outcomes
  as a choice.

## 6. What the code does that a reader may not expect

The models follow the code, so they contain these; the properties name them as
exceptions. None is a statement about what the repository promises elsewhere
(those are the violation runs).

*Goals.* An empty plan (`{}`, `contracts.rs:35`, "nothing to do for now") gets
the goal accepted (`mod.rs:624`); so does the plan of a cycle whose budget is used
up, which is empty too. An accepted cycle without tasks is told to
nobody (`worker.rs:350-366`). `list_active_goals` looks at fifty goals.

*Approvals.* An approved `ask_write` proposal is refused again by the trust level
when it is executed. Killing a command never stops its process. A failed spawn
leaves a command "prepared".

*Codex.* `stop` does not kill the process; the guard of resume and the table
differ; sessions that run at a restart stay running; the exit of an old process
overwrites a resumed session.

*Agents.* A stopped or stale `claude_p` run may leave the task running or settle
a newer attempt; a failed bind leaves a child nobody waits for; `stop` and
`finish_run` overwrite each other. A sidecar file or a database that cannot be read
or written when a child ends leaves row, task and member running
(`agent_runs.rs:298`); a team whose members were never bound to a run does not come up
for review (`agent_runs.rs:395`). `create_team` with an existing id starts it
over; `add_member` resets a member; a mailbox is limited before it is filtered.

*Models.* A stream that is cut counts as complete. A default model is loaded apart
from its endpoint: a load that meets the file emptied, or fails, joins a default or
built-in model to the configured endpoint (`model_resolver.rs:275`). Policies are limited to one
before they are filtered by phase; callers without a phase take any; an update
of a profile without a key erases it.

*Tools.* A turn that is dropped leaves the thread of its tool going; a
`replace_all` that finds nothing succeeds with zero; rows in execution at a death
stay so. Execution does not check whether a tool was offered, or `plan_only`.
`tool_name_for_llm` maps two names to one. The recovery prompt's list of written
artifacts is always empty, because records carry `file__write` and are compared
with `file.write` (`chat/send_v2.rs:423`).

*Memory.* `memory_update` does not index; forgetting by key cleans one chunk;
a rebuild drops the chunks of candidates; `set` on a row that was deleted
meanwhile succeeds; dependency cycles of a task list are not checked.

*Storage and configuration.* Two processes that open the database at once can
make an open fail, and a late `DROP TABLE agent_tasks` takes the new table. A load
of the configuration writes it back; a write is not atomic; the settings window
drops fields it does not know; a key cannot be cleared.

*Companion.* Avatar INSERTs leave out the activity; a failed turn loses its mood;
affection decays at every load; the initiative loop dies at its first check that
is older than thirty seconds (`block_on` inside the runtime); the pacer's
cooldown starts also for alerts that quiet mode drops, and only the first
stalled task is announced; a shorter later request for quiet replaces a longer one.

*Windows.* A background message has no projection and appears only when it is
the only kind there is; `history_for_session` returns the oldest rows
(`chat/db.rs:31`); texts that are fetched are not recognised as those shown
optimistically; a stored reply can overtake the end of its turn
(`docs/chat-turn-line-contract-20260603.md:248`), in which case its fetch ends the
request before the call's answer, and the answer's history is not taken. A fetch that
fails is not repeated and leaves the projected run on display. Two quick first messages make
two goals; `ensure_chat_session` makes duplicates; a title of one's own that starts
with "会话 " is overwritten; panels show an empty list when a call fails.

## 7. Plan

Done, in this order: LeaseTable and WorkLeases; TaskLifecycle and GoalTasks with
the refinement; TaskExecution; GoalOrchestrator; the services and the companion,
module by module; the proofs of section 4.

Open:

1. A violation run for the racing verdict and the late pause, when a slot of the
   runs is free.
2. The mailbox of teams; `recover_on_startup` composed with GoalTasks, to say what
   calling it would and would not repair.
3. The liveness properties, with a prover that handles fairness (section 4).

## 8. Not modelled

* Recovery, heartbeats' scan, `route_task`, `seed_default_policies`,
  `select_backend`, `archive_team`, `check_write_scope_conflict`, CodexAdapter,
  ReviewAgentAdapter's run loop, `chat/handler.rs` and memory's pattern
  aggregation: no production code calls them.
* MCP clients, connectors' services, web and office tools: process and network
  I/O whose other side is outside the repository.
* Events and projections: an append-only log nothing modelled reads back, and
  read-only views. Sense, music, scenes, personas: texts and samples.
* Prompts, summaries, rankings, request bodies: data.
* AgentLanes, MemoryPanel, ReasoningTimeline and the drawing components.

## 9. Running it

```
tlc -workers 2 -config Services.cfg MCServices
tlc -workers 2 -config GoalTasksSerial.cfg MCGoalTasks
tlapm TaskExecutionProofs.tla
tlapm ServicesProofs.tla
```

`PROJECT.json` names the module and configuration of every run.
