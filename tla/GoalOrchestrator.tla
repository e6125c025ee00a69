--------------------------- MODULE GoalOrchestrator ---------------------------
(***************************************************************************)
(* One goal, from its start to its verdict                                 *)
(* (crates/conductor-core/src/goal_orchestrator/ and goals.rs).  The       *)
(* desktop's worker ticks the goal every two seconds; the user's commands  *)
(* run beside it in the same process.  Neither takes a lock or opens a     *)
(* transaction, so their SQL statements interleave.                        *)
(*                                                                         *)
(* An invocation is a script: the statements it still has to run, with     *)
(* what it remembers from the ones it ran.  A statement that reads may put *)
(* further ones in front; a statement that fails drops the rest, as `?`    *)
(* does.  Tasks move as TaskLifecycle allows: GoalTasks and TaskExecution  *)
(* are the modules that say how.  A team's row is read and written in one  *)
(* step, and so is a task's.                                               *)
(***************************************************************************)
EXTENDS GoalPlanner, Sequences, FiniteSets

CONSTANTS
    Worker, User,     \* the two callers
    TaskIds,          \* ids create_task may hand out
    Replies,          \* what the model may reply to the Decide phase
    Heartbeats,       \* how many agents there may be, available and not
    Budget,           \* budget_json of the goal
    RequireApproval,  \* OrchestratorConfig.require_plan_approval
    Commands,         \* the commands the user gives: a subset of AllCommands
    MaxCycles,        \* bound: cycles of the goal
    MaxHints,         \* bound: hints the user adds
    MaxCrashes        \* bound: deaths of the desktop process

VARIABLES
    goal,      \* its row in goal_runs: status and current_cycle_id
    cycles,    \* its rows in goal_cycles by age, each with its team's lifecycle
    tasks,     \* the rows of agent_tasks
    script,    \* script[c]: what c's invocation is still to do
    hints,     \* how many hints there are
    crashes    \* deaths so far

vars == <<goal, cycles, tasks, script, hints, crashes>>

Callers == {Worker, User}

Lifecycle == INSTANCE TaskLifecycle
             WITH Tasks <- TaskIds, status <- [t \in TaskIds |-> tasks[t].status]

AllCommands ==
    { "pause", "resume", "cancel", "approve", "approve_and_tick", "reject",
      "accept", "send_back" }

ASSUME PlanAssumption ==
    /\ Replies \subseteq ReplyRecords
    /\ Heartbeats \subseteq [available : Nat, occupied : Nat]
    /\ Budget \in Budgets

ASSUME CommandAssumption == Commands \subseteq AllCommands

ASSUME BoundAssumption ==
    /\ RequireApproval \in BOOLEAN /\ Worker # User
    /\ MaxCycles \in Nat /\ MaxHints \in Nat /\ MaxCrashes \in Nat

----------------------------------------------------------------------------
(* The two state machines of goals.rs and the one of agent_teams.rs.       *)

GoalTargets ==
    [ draft |-> {"planning"},
      planning |-> {"awaiting_plan_approval", "running"},
      awaiting_plan_approval |-> {"running", "rework_required"},
      running |-> {"awaiting_review", "blocked", "failed", "cancelled"},
      awaiting_review |-> {"accepted", "rework_required"},
      rework_required |-> {"planning"},
      blocked |-> {"running", "failed", "cancelled"},
      failed |-> {"archived"}, cancelled |-> {"archived"},
      accepted |-> {"archived"}, archived |-> {} ]

GoalStatuses == DOMAIN GoalTargets

Phases == << "observing", "orienting", "deciding", "dispatching",
             "executing", "reviewing", "summarizing" >>

Ended == {"completed", "failed", "blocked", "cancelled"}

\* validate_cycle_transition(from, to).is_ok()
PhaseFollows(from, to) ==
    \/ from = "blocked" /\ \E i \in DOMAIN Phases : Phases[i] = to
    \/ \E i \in DOMAIN Phases :
          /\ Phases[i] = from
          /\ to \in Ended \/ (i + 1 \in DOMAIN Phases /\ Phases[i + 1] = to)

TeamTargets ==
    [ none |-> {}, draft |-> {"planning"},
      planning |-> {"awaiting_plan_approval", "executing"},
      awaiting_plan_approval |-> {"executing", "rework_required"},
      executing |-> {"awaiting_review"},
      awaiting_review |-> {"accepted", "rework_required"},
      accepted |-> {"archived"}, rework_required |-> {"planning"}, archived |-> {} ]

----------------------------------------------------------------------------
(* What the orchestrator reads.                                            *)

CycleTasks(n) == {t \in TaskIds : tasks[t].cycle = n}

AnyTask(n, statuses) == \E t \in CycleTasks(n) : tasks[t].status \in statuses

OpenCycles == {n \in DOMAIN cycles : cycles[n].status \notin Ended}

\* Faulty: observe finds the cycle by the goal's current_cycle_id.
CurrentIfOpen == IF goal.current \in OpenCycles THEN goal.current ELSE 0

\* observe: the newest cycle that has not ended; 0 is None.
NewestOpen ==
    IF OpenCycles = {} THEN 0
    ELSE CHOOSE n \in OpenCycles : \A m \in OpenCycles : m <= n

\* observe: the tasks the Decide phase knows of.
OpenTasks ==
    {t \in TaskIds : tasks[t].status \in Lifecycle!Statuses \ {"failed", "cancelled"}}

Report(n, agents) ==
    [ open |-> Cardinality(OpenTasks),
      blockers |-> \E t \in OpenTasks : tasks[t].status \in {"blocked", "rework_required"},
      cycle |-> n, available |-> agents.available, occupied |-> agents.occupied ]

\* compute_observe_hash: the hints and the open intents (facts move like hints).
GraphHash ==
    [ hints |-> hints,
      intents |-> { <<t, tasks[t].status>> :
                      t \in {u \in TaskIds :
                               tasks[u].status \in {"proposed", "queued", "claimed"}} } ]

NoHash == [hints |-> -1, intents |-> {}]
NoPlan == [planned |-> 0, granted |-> 0, clear |-> TRUE]

Progressing == {"proposed", "queued", "claimed", "running"}
Waiting == {"awaiting_permission", "awaiting_input"}

----------------------------------------------------------------------------
(* Statements of a script.                                                 *)

MoveGoal(to) == [do |-> "move_goal", to |-> to]
MoveGoalIf(from, to) == [do |-> "move_goal_if", from |-> from, to |-> to]
MoveCycle(n, to) == [do |-> "move_cycle", n |-> n, to |-> to]
MoveTeam(n, to) == [do |-> "move_team", n |-> n, to |-> to]
On(do, n) == [do |-> do, n |-> n]
OnTask(do, t) == [do |-> do, task |-> t]
SetHash(n, hash, plan) == [do |-> "set_hash", n |-> n, hash |-> hash, plan |-> plan]

When(cond, steps) == IF cond THEN steps ELSE <<>>

At(c, do) == script[c] # <<>> /\ Head(script[c]).do = do
This(c) == Head(script[c])
Then(c, steps) == script' = [script EXCEPT ![c] = steps \o Tail(@)]
Fails(c) == script' = [script EXCEPT ![c] = <<>>]

\* One statement per listed row, in some order.
Orders(S) == {q \in [1 .. Cardinality(S) -> S] : \A t \in S : \E i \in DOMAIN q : q[i] = t}

\* A tick of a cycle that is not being dispatched.  `gated` is the ticker's
\* require_plan_approval: only the worker's tick has the configured one.
PhaseScript(n, s, gated) ==
    CASE cycles[n].status = "observing"   -> <<MoveCycle(n, "orienting")>>
      [] cycles[n].status = "orienting"   -> <<MoveCycle(n, "deciding")>>
      [] cycles[n].status = "deciding"    ->
            When(gated /\ s = "planning",
                 <<MoveGoal("awaiting_plan_approval")>>)
            \o <<MoveCycle(n, "dispatching")>>
      [] cycles[n].status = "executing"   -> <<On("accept_ready", n), On("weigh", n)>>
      [] cycles[n].status = "reviewing"   -> <<On("review", n)>>
      [] cycles[n].status = "summarizing" -> <<MoveCycle(n, "completed")>>

\* Faulty: the tasks filter_dispatch holds back are created as well.
ActOnTheWholePlan(n, plan) ==
    When(plan.granted > 0,
         [i \in 1 .. plan.planned |-> On("create_task", n)] \o <<On("staff_team", n)>>)

\* act: the tasks of the plan one by one, then their team.
Act(n, plan) ==
    When(plan.granted > 0,
         [i \in 1 .. plan.granted |-> On("create_task", n)] \o <<On("staff_team", n)>>)

\* Faulty: a plan without tasks is parked like one whose tasks are all held.
ExecuteParksEmptyPlans(n, s, plan) ==
    When(s \in {"planning", "awaiting_plan_approval"}, <<MoveGoal("running")>>)
    \o When(plan.granted > 0, <<MoveCycle(n, "executing")>> \o Act(n, plan))

\* tick_goal from "Transition to running and execute the plan" on: a plan whose
\* tasks are all held or rejected is parked.
Execute(n, s, plan) ==
    When(s \in {"planning", "awaiting_plan_approval"}, <<MoveGoal("running")>>)
    \o When(plan.planned = 0 \/ plan.granted > 0,
            <<MoveCycle(n, "executing")>> \o Act(n, plan))

\* A tick of a cycle that is being dispatched, with the debounce first.
DispatchScript(n, s, plan, gated) ==
    When(cycles[n].hash # GraphHash,
         <<SetHash(n, GraphHash, plan)>>
         \o IF gated /\ s \in {"planning", "awaiting_plan_approval"}
            THEN When(s = "planning", <<MoveGoal("awaiting_plan_approval")>>)
                 \o <<On("plan_team", n)>>
            ELSE When(gated => plan.clear, Execute(n, s, plan)))

\* Faulty: the cycle enters reviewing before its team does.
WeighScriptTeamLast(n) ==
    IF AnyTask(n, Progressing) THEN <<>>
    ELSE IF AnyTask(n, {"blocked"} \cup Waiting)
    THEN <<MoveGoalIf({"running"}, "blocked")>>
    ELSE << MoveGoalIf({"running"}, "awaiting_review"), MoveCycle(n, "reviewing"),
            On("review_team", n) >>

\* tick_executing, after the second look at the tasks.
WeighScript(n) ==
    IF AnyTask(n, Progressing) THEN <<>>
    ELSE IF AnyTask(n, {"blocked"} \cup Waiting)
    THEN <<MoveGoalIf({"running"}, "blocked")>>
    ELSE << MoveGoalIf({"running"}, "awaiting_review"), On("review_team", n),
            MoveCycle(n, "reviewing") >>

\* Faulty: a failed task does not count as a failure.
ReviewScriptForgetsFailed(n) ==
    IF AnyTask(n, {"blocked"})
    THEN <<MoveGoalIf({"awaiting_review", "running"}, "blocked")>>
    ELSE <<MoveGoalIf({"running"}, "awaiting_review")>>
         \o When(~AnyTask(n, Progressing \cup Waiting \cup {"rework_required"}),
                 <<[do |-> "verdict", accepted |-> TRUE]>>)

\* tick_reviewing.
ReviewScript(n) ==
    IF AnyTask(n, {"blocked"})
    THEN <<MoveGoalIf({"awaiting_review", "running"}, "blocked")>>
    ELSE <<MoveGoalIf({"running"}, "awaiting_review")>>
         \o When(~AnyTask(n, Progressing \cup Waiting \cup {"rework_required", "failed"}),
                 <<[do |-> "verdict", accepted |-> TRUE]>>)

\* apply_goal_review_verdict, after its guard.
VerdictScript(n, to) ==
    << SetHash(n, GraphHash, cycles[n].plan), MoveCycle(n, "summarizing"),
       MoveCycle(n, "completed"), [do |-> "close_team", n |-> n, to |-> to],
       MoveGoal(to) >>

----------------------------------------------------------------------------
(* The statements.                                                         *)

\* observe: the goal's row.
Observe(c) ==
    /\ At(c, "observe")
    /\ Then(c, When(goal.status \notin {"draft", "blocked", "failed", "cancelled",
                                        "accepted", "archived"},
                    <<[do |-> "look", status |-> goal.status]>>))
    /\ UNCHANGED <<goal, cycles, tasks, hints, crashes>>

\* observe: cycles, tasks and hints; then the arms of tick_goal.
Look(c) ==
    /\ At(c, "look")
    /\ LET s == IF This(c).status = "rework_required" THEN "planning" ELSE This(c).status
           replan == When(This(c).status = "rework_required", <<MoveGoal("planning")>>)
           n == NewestOpen
           gated == RequireApproval /\ c = Worker
       IN \/ n = 0 /\ Then(c, replan \o When(s = "planning", <<[do |-> "create_cycle"]>>))
          \/ /\ n # 0 /\ cycles[n].status # "dispatching"
             /\ Then(c, replan \o PhaseScript(n, s, gated))
          \/ /\ n # 0 /\ cycles[n].status = "dispatching"
             /\ \E reply \in Replies, agents \in Heartbeats :
                   Then(c, replan \o DispatchScript(n, s, PlanFor(Report(n, agents), Budget, reply),
                                                   gated))
    /\ UNCHANGED <<goal, cycles, tasks, hints, crashes>>

\* create_cycle: the INSERT; the tick goes on with the new cycle.
CreateCycle(c) ==
    /\ At(c, "create_cycle") /\ Len(cycles) < MaxCycles
    /\ cycles' = Append(cycles, [ status |-> "observing", hash |-> NoHash,
                                  plan |-> NoPlan, team |-> "none" ])
    /\ Then(c, << On("link_cycle", Len(cycles) + 1),
                  MoveCycle(Len(cycles) + 1, "orienting") >>)
    /\ UNCHANGED <<goal, tasks, hints, crashes>>

\* create_cycle: UPDATE goal_runs SET current_cycle_id.
LinkCycle(c) ==
    /\ At(c, "link_cycle")
    /\ goal' = [goal EXCEPT !.current = This(c).n]
    /\ Then(c, <<>>)
    /\ UNCHANGED <<cycles, tasks, hints, crashes>>

\* Faulty: the transition is not validated.
CheckNoGoal(c) ==
    /\ At(c, "move_goal")
    /\ Then(c, <<[do |-> "write_goal", to |-> This(c).to]>>)
    /\ UNCHANGED <<goal, cycles, tasks, hints, crashes>>

\* update_goal_status: the SELECT and the validation, then the UPDATE by id.
CheckGoal(c) ==
    /\ At(c, "move_goal")
    /\ \/ /\ This(c).to \in GoalTargets[goal.status]
          /\ Then(c, <<[do |-> "write_goal", to |-> This(c).to]>>)
       \/ This(c).to \notin GoalTargets[goal.status] /\ Fails(c)
    /\ UNCHANGED <<goal, cycles, tasks, hints, crashes>>

WriteGoal(c) ==
    /\ At(c, "write_goal")
    /\ goal' = [goal EXCEPT !.status = This(c).to]
    /\ Then(c, <<>>)
    /\ UNCHANGED <<cycles, tasks, hints, crashes>>

\* get_goal, and update_goal_status if the status asks for it.
CheckGoalIf(c) ==
    /\ At(c, "move_goal_if")
    /\ Then(c, When(goal.status \in This(c).from, <<MoveGoal(This(c).to)>>))
    /\ UNCHANGED <<goal, cycles, tasks, hints, crashes>>

\* advance_cycle_phase: likewise.
CheckCycle(c) ==
    /\ At(c, "move_cycle")
    /\ LET from == cycles[This(c).n].status
       IN \/ /\ PhaseFollows(from, This(c).to)
             /\ Then(c, <<[This(c) EXCEPT !.do = "write_cycle"]>>)
          \/ ~PhaseFollows(from, This(c).to) /\ Fails(c)
    /\ UNCHANGED <<goal, cycles, tasks, hints, crashes>>

WriteCycle(c) ==
    /\ At(c, "write_cycle")
    /\ cycles' = [cycles EXCEPT ![This(c).n].status = This(c).to]
    /\ Then(c, <<>>)
    /\ UNCHANGED <<goal, tasks, hints, crashes>>

\* set_cycle_hash; the plan is history.
WriteHash(c) ==
    /\ At(c, "set_hash")
    /\ cycles' = [cycles EXCEPT ![This(c).n].hash = This(c).hash,
                                ![This(c).n].plan = This(c).plan]
    /\ Then(c, <<>>)
    /\ UNCHANGED <<goal, tasks, hints, crashes>>

\* Faulty: the task is not bound to its cycle.
CreateUnboundTask(c, t) ==
    /\ At(c, "create_task")
    /\ tasks[t].status = "absent"
    /\ tasks' = [tasks EXCEPT ![t].status = "proposed"]
    /\ Then(c, <<OnTask("queue_task", t)>>)
    /\ UNCHANGED <<goal, cycles, hints, crashes>>

\* act: create_task, and the call that queues it.
CreateTask(c, t) ==
    /\ At(c, "create_task")
    /\ tasks[t].status = "absent"
    /\ tasks' = [tasks EXCEPT ![t] = [status |-> "proposed", cycle |-> This(c).n]]
    /\ Then(c, <<OnTask("queue_task", t)>>)
    /\ UNCHANGED <<goal, cycles, hints, crashes>>

\* rework_task in act, accept_review_ready_task in tick_executing,
\* resume_blocked_task in resume.  Only act goes on after an error.
TaskCalls == [queue_task |-> "queued", accept_task |-> "accepted", resume_task |-> "queued"]

CallTask(c) ==
    \E do \in DOMAIN TaskCalls :
        /\ At(c, do)
        /\ LET t == This(c).task
           IN \/ /\ Lifecycle!Legal(tasks[t].status, TaskCalls[do])
                 /\ tasks' = [tasks EXCEPT ![t].status = TaskCalls[do]]
                 /\ Then(c, <<>>)
              \/ /\ ~Lifecycle!Legal(tasks[t].status, TaskCalls[do])
                 /\ IF do = "queue_task" THEN Then(c, <<>>) ELSE Fails(c)
                 /\ UNCHANGED tasks
        /\ UNCHANGED <<goal, cycles, hints, crashes>>

\* list_tasks_by_cycle, and a call for each row that is ready or blocked.
ListTasks(c) ==
    /\ \/ /\ At(c, "accept_ready")
          /\ \E q \in Orders({t \in CycleTasks(This(c).n) : tasks[t].status = "review_ready"}) :
                Then(c, [i \in DOMAIN q |-> OnTask("accept_task", q[i])])
       \/ /\ At(c, "resume_tasks")
          /\ \E q \in Orders({t \in CycleTasks(This(c).n) : tasks[t].status = "blocked"}) :
                Then(c, [i \in DOMAIN q |-> OnTask("resume_task", q[i])])
       \/ At(c, "weigh") /\ Then(c, WeighScript(This(c).n))
       \/ At(c, "review") /\ Then(c, ReviewScript(This(c).n))
    /\ UNCHANGED <<goal, cycles, tasks, hints, crashes>>

\* get_team, create_team if there is none, and the transitions to run.
Staffing(team, last) ==
    CASE team \in {"none", "draft"} -> <<"planning", last>>
      [] team = "planning" -> <<last>>
      [] OTHER -> <<>>

StaffTeam(c) ==
    /\ \/ At(c, "plan_team") \/ At(c, "staff_team")
    /\ LET n == This(c).n
           team == cycles[n].team
           moves == IF This(c).do = "plan_team"
                    THEN Staffing(team, "awaiting_plan_approval")
                    ELSE IF team = "awaiting_plan_approval" THEN <<"executing">>
                    ELSE Staffing(team, "executing")
       IN /\ cycles' = [cycles EXCEPT ![n].team = IF team = "none" THEN "draft" ELSE team]
          /\ Then(c, [i \in DOMAIN moves |-> MoveTeam(n, moves[i])])
    /\ UNCHANGED <<goal, tasks, hints, crashes>>

\* transition_team_lifecycle.  A team enters executing with the members act
\* has just added to it.
WriteTeam(c) ==
    /\ At(c, "move_team")
    /\ LET n == This(c).n
       IN \/ /\ This(c).to \in TeamTargets[cycles[n].team]
             /\ cycles' = [cycles EXCEPT ![n].team = This(c).to]
             /\ Then(c, <<>>)
          \/ /\ This(c).to \notin TeamTargets[cycles[n].team]
             /\ Fails(c)
             /\ UNCHANGED cycles
    /\ UNCHANGED <<goal, tasks, hints, crashes>>

\* sync_team_lifecycle(AwaitingReview): nothing to do without a team.
SyncTeam(c) ==
    /\ At(c, "review_team")
    /\ Then(c, When(cycles[This(c).n].team \notin {"none", "awaiting_review"},
                    <<MoveTeam(This(c).n, "awaiting_review")>>))
    /\ UNCHANGED <<goal, cycles, tasks, hints, crashes>>

\* apply_goal_review_verdict: its guard, and its transition of the team.
Verdict(c) ==
    /\ At(c, "verdict")
    /\ \/ /\ goal.status = "awaiting_review" /\ goal.current # 0
          /\ Then(c, VerdictScript(goal.current, IF This(c).accepted
                                                 THEN "accepted" ELSE "rework_required"))
       \/ ~(goal.status = "awaiting_review" /\ goal.current # 0) /\ Fails(c)
    /\ UNCHANGED <<goal, cycles, tasks, hints, crashes>>

CloseTeam(c) ==
    /\ At(c, "close_team")
    /\ cycles' = [cycles EXCEPT ![This(c).n].team =
                     IF @ = "awaiting_review" THEN This(c).to ELSE @]
    /\ Then(c, <<>>)
    /\ UNCHANGED <<goal, tasks, hints, crashes>>

Advance(c) ==
    \/ Observe(c) \/ Look(c) \/ CreateCycle(c) \/ LinkCycle(c)
    \/ CheckGoal(c) \/ WriteGoal(c) \/ CheckGoalIf(c)
    \/ CheckCycle(c) \/ WriteCycle(c) \/ WriteHash(c)
    \/ \E t \in TaskIds : CreateTask(c, t)
    \/ CallTask(c) \/ ListTasks(c)
    \/ StaffTeam(c) \/ WriteTeam(c) \/ SyncTeam(c)
    \/ Verdict(c) \/ CloseTeam(c)


----------------------------------------------------------------------------
(* The callers.                                                            *)

\* advance_active_goals_once: list_active_goals, and a tick for this one.
WorkerTick ==
    /\ script[Worker] = <<>>
    /\ goal.status \in {"planning", "awaiting_plan_approval", "running",
                        "awaiting_review", "rework_required"}
    /\ script' = [script EXCEPT ![Worker] = <<[do |-> "observe"]>>]
    /\ UNCHANGED <<goal, cycles, tasks, hints, crashes>>

\* What a command does once its guard has let it in.  A plan is rejected by the
\* team that was asked, the other commands are given for the goal.
CommandScript ==
    [ pause |-> <<MoveGoal("blocked")>>,
      resume |-> When(goal.current # 0, <<On("resume_tasks", goal.current)>>)
                 \o <<MoveGoal("running")>>,
      cancel |-> <<MoveGoal("cancelled")>>,
      approve |-> <<MoveGoal("running")>>,
      approve_and_tick |-> <<MoveGoal("running"), [do |-> "observe"]>>,
      reject |-> <<MoveGoal("rework_required"), MoveTeam(NewestOpen, "rework_required")>>,
      accept |-> <<[do |-> "verdict", accepted |-> TRUE]>>,
      send_back |-> <<[do |-> "verdict", accepted |-> FALSE]>> ]

Allows(command) ==
    CASE command = "pause" -> goal.status = "running"
      [] command = "resume" -> goal.status = "blocked"
      [] command = "cancel" -> goal.status \notin {"accepted", "archived", "cancelled"}
      [] command \in {"approve", "approve_and_tick"} ->
            goal.status = "awaiting_plan_approval"
      [] command = "reject" ->
            /\ goal.status = "awaiting_plan_approval" /\ NewestOpen # 0
            /\ cycles[NewestOpen].team = "awaiting_plan_approval"
      [] command = "accept" -> goal.status = "awaiting_review"
      [] command = "send_back" -> goal.status = "awaiting_review" /\ Len(cycles) < MaxCycles

UserCommand(command) ==
    /\ script[User] = <<>>
    /\ Allows(command)
    /\ script' = [script EXCEPT ![User] = CommandScript[command]]
    /\ UNCHANGED <<goal, cycles, tasks, hints, crashes>>

\* start.
StartGoal ==
    /\ script[User] = <<>> /\ goal.status = "draft"
    /\ script' = [script EXCEPT ![User] = <<MoveGoal("planning")>>]
    /\ UNCHANGED <<goal, cycles, tasks, hints, crashes>>

AddHint ==
    /\ hints < MaxHints
    /\ hints' = hints + 1
    /\ UNCHANGED <<goal, cycles, tasks, script, crashes>>

\* What the executors of TaskExecution do to a task.
TaskOutcomes ==
    [queued |-> {"claimed"}, claimed |-> {"running"},
     running |-> {"review_ready", "blocked", "failed"}]

TaskWork(t) ==
    /\ tasks[t].status \in DOMAIN TaskOutcomes
    /\ \E to \in TaskOutcomes[tasks[t].status] :
          tasks' = [tasks EXCEPT ![t].status = to]
    /\ UNCHANGED <<goal, cycles, script, hints, crashes>>

\* The process dies with what it had under way.
DesktopDies ==
    /\ crashes < MaxCrashes
    /\ script' = [c \in Callers |-> <<>>]
    /\ crashes' = crashes + 1
    /\ UNCHANGED <<goal, cycles, tasks, hints>>

Init ==
    /\ goal = [status |-> "draft", current |-> 0]
    /\ cycles = <<>>
    /\ tasks = [t \in TaskIds |-> [status |-> "absent", cycle |-> 0]]
    /\ script = [c \in Callers |-> <<>>]
    /\ hints = 0 /\ crashes = 0

Next ==
    \/ WorkerTick \/ StartGoal \/ AddHint \/ DesktopDies
    \/ \E command \in Commands : UserCommand(command)
    \/ \E c \in Callers : Advance(c)
    \/ \E t \in TaskIds : TaskWork(t)

GoalSpec == Init /\ [][Next]_vars

\* The worker's loop goes on, a command that was given is carried out, and a
\* task that was queued is worked on until it has an outcome.
Fairness ==
    /\ WF_vars(WorkerTick \/ Advance(Worker))
    /\ WF_vars(Advance(User))
    /\ \A t \in TaskIds : WF_vars(TaskWork(t))

FairGoalSpec == GoalSpec /\ Fairness

----------------------------------------------------------------------------
(* Properties.                                                             *)

\* Every row of goal_runs, goal_cycles and agent_tasks holds what its column
\* may, and a task names a cycle that exists.
GoalTypeOK ==
    /\ goal \in [status : GoalStatuses, current : 0 .. Len(cycles)]
    /\ \A n \in DOMAIN cycles :
          /\ cycles[n].status \in Ended \cup {Phases[i] : i \in DOMAIN Phases}
          /\ cycles[n].team \in DOMAIN TeamTargets
          /\ cycles[n].plan \in Plans
    /\ \A t \in TaskIds :
          /\ tasks[t].status \in Lifecycle!Statuses \cup Lifecycle!NoRowStatuses
          /\ tasks[t].cycle \in 0 .. Len(cycles)
          /\ tasks[t].cycle = 0 <=> tasks[t].status = "absent"
    /\ hints \in 0 .. MaxHints /\ crashes \in 0 .. MaxCrashes

\* A cycle that has used up the budget of its goal has no tasks
\* (decide.rs:26-30).
CyclesStayInBudget ==
    \A t \in TaskIds : tasks[t].cycle # 0 => tasks[t].cycle < Budget.max_cycles

\* A goal has at most one cycle that has not ended, whichever statement the
\* process died at: create_cycle's two statements are not a transaction
\* (goals.rs:413-433), and the next tick takes up the cycle the first one left
\* (observe.rs:45-51).
\*
\* The statements of a tick come in an order a death can interrupt anywhere.
\* A cycle under review has no team, or a team under review: tick_executing
\* moves the team first (mod.rs:483-484), so a team that cannot go there keeps
\* the cycle back.  And the tasks of a cycle exist only once it has left the
\* planning phases (mod.rs:376-383), so a process that dies while it creates
\* them cannot create them a second time. 
PhasesKeepTheirOrder ==
    /\ Cardinality(OpenCycles) <= 1
    /\ \A n \in DOMAIN cycles :
          cycles[n].status = "reviewing" => cycles[n].team \in {"none", "awaiting_review"}
    /\ \A t \in TaskIds :
          tasks[t].cycle # 0 =>
              cycles[tasks[t].cycle].status \notin {"observing", "orienting", "deciding",
                                                     "dispatching"}
    /\ CyclesStayInBudget

\* A goal that was accepted or cancelled stays so whatever is called later,
\* although the callers act on statuses they read earlier: what overwrites a
\* verdict is a write whose check came before it, as update_goal_status checks
\* and writes in two statements (goals.rs:302-330).
Standing == goal.status \in {"accepted", "cancelled"} /\ \A c \in Callers : ~At(c, "write_goal")

GoalVerdictsStand == [][Standing => Standing' /\ goal'.status = goal.status]_vars

\* A cycle never has more tasks than filter_dispatch granted to its last plan,
\* however often it is ticked (mod.rs:292-298, 355-383).
\*
\* Without the user's verdict a goal is accepted only if no task of its last
\* cycle failed, is blocked or is still under way (mod.rs:506-530).
CyclesAreGoverned ==
    /\ \A n \in DOMAIN cycles : Cardinality(CycleTasks(n)) <= cycles[n].plan.granted
    /\ goal.status = "accepted" =>
          \A t \in CycleTasks(goal.current) : tasks[t].status \in {"accepted", "review_ready"}

\* The states in which the user has to act: a verdict on a failed task, or a
\* hint for a plan whose tasks were all held back.
WaitsForTheUser ==
    \/ goal.status = "awaiting_review" /\ AnyTask(goal.current, {"failed"})
    \/ \E n \in OpenCycles :
          cycles[n].status = "dispatching" /\ cycles[n].plan.planned > 0
          /\ cycles[n].plan.granted = 0

\* A goal that was started is accepted, cancelled or blocked, or waits for the
\* user: the ticks carry it through every phase, and again after each resume.
StartedGoalsReachVerdict ==
    goal.status \in {"planning", "running"} ~>
        (goal.status \in {"accepted", "cancelled", "blocked"} \/ WaitsForTheUser)

\* "assert_eq!(running_cycle.status, "executing")" after approve_goal_plan and
\* a tick (mod.rs:926-942, agent_teams.rs:1898-1917): an approved plan is
\* carried out.
HasCycleIn(status) == \E n \in DOMAIN cycles : cycles[n].status = status

ApprovedPlansAreCarriedOut ==
    (goal.status = "running" /\ HasCycleIn("dispatching")) ~>
        (HasCycleIn("executing") \/ goal.status # "running")

\* "Only auto-verdict when ALL tasks have reached a terminal state"
\* (mod.rs:506): an accepted goal has no task that still waits for its review.
AcceptedGoalsAreReviewed ==
    goal.status = "accepted" => ~AnyTask(goal.current, {"review_ready"})

=============================================================================
