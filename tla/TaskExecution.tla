---------------------------- MODULE TaskExecution ----------------------------
(***************************************************************************)
(* How the desktop application runs the tasks of a dispatched goal, as the *)
(* composition of the actors that call the task service of GoalTasks:      *)
(*                                                                         *)
(*   Runner        conductor-cli agent_run.rs: poll, claim the oldest      *)
(*                 queued task, start it, ask for its execution            *)
(*   signal files  runtime_api.rs execute_task_handler writes one          *)
(*   Watcher       worker.rs spawn_exec_signal_watcher picks it up         *)
(*   Executors     worker.rs execute_goal_task_via_chat / _via_mcp_router  *)
(*   Orchestrator  goal_orchestrator tick_executing accepts what is ready  *)
(*   User          goal_orchestrator resume requeues what is blocked       *)
(*                                                                         *)
(* Every actor waits for its call to return before its next move, but the  *)
(* calls of different actors interleave statement by statement.            *)
(***************************************************************************)
EXTENDS GoalTasks

CONSTANTS
    Runner, Orchestrator, User,  \* the callers of these names
    Executors,                   \* executions the watcher may have in flight
    RunnerAgent, McpAgent,       \* agent ids: "desktop-runner", "mcp-router-executor"
    McpTasks,                    \* tasks whose agent_kind is "mcp_router"
    Age,                         \* created_at of each task
    MaxCrashes,                  \* bound: process deaths in a behaviour
    MaxResumes                   \* bound: resumes the user asks for

ASSUME ActorAssumption ==
    /\ Callers = {Runner, Orchestrator, User} \cup Executors
    /\ Runner # Orchestrator /\ Runner # User /\ Orchestrator # User
    /\ {Runner, Orchestrator, User} \cap Executors = {}
    /\ Holders = {RunnerAgent, McpAgent}
    /\ McpTasks \subseteq Tasks /\ Age \in [Tasks -> Nat]
    /\ MaxCrashes \in Nat /\ MaxResumes \in Nat
    /\ Operations = {"claim", "start", "accept", "fail", "resume",
                     "writeback_blocked", "writeback_review_ready"}

VARIABLES
    runner,     \* the runner's place in its loop and its task
    signals,    \* the tasks with a *.exec file
    watcher,    \* the task whose file the watcher has read
    execs,      \* execs[e]: place and task of an execution
    todo,       \* todo[a]: tasks the orchestrator or the user is still to call for
    budget      \* crashes and resumes still allowed

actorVars == <<runner, signals, watcher, execs, todo, budget>>
allVars == <<tasks, leases, calls, runner, signals, watcher, execs, todo, budget>>

At(place, t) == [at |-> place, task |-> t]

RunnerPlaces ==
    {"poll", "selected", "claiming", "starting", "signalling", "failing"}

ExecPlaces ==
    { "free", "loaded", "replying", "writing", "failing",
      "mcp_claiming", "mcp_starting", "routing", "routed" }

Loopers == {Orchestrator, User}

ExecTypeOK ==
    /\ TypeOK
    /\ runner \in [at : RunnerPlaces, task : Tasks \cup {NoTask}]
    /\ signals \subseteq Tasks
    /\ watcher \in Tasks \cup {NoTask}
    /\ execs \in [Executors -> [at : ExecPlaces, task : Tasks \cup {NoTask}]]
    /\ todo \in [Loopers -> SUBSET Tasks]
    /\ budget \in [crashes : 0 .. MaxCrashes, resumes : 0 .. MaxResumes]

\* act() has created the tasks of the cycle and queued them.
ExecInit ==
    /\ tasks = [t \in Tasks |->
                   [status |-> "queued", claimed_by |-> Nobody, result |-> FALSE]]
    /\ leases = [l \in LeaseIds |-> NoRow]
    /\ calls = [c \in Callers |-> Outside("idle")]
    /\ runner = At("poll", NoTask)
    /\ signals = {}
    /\ watcher = NoTask
    /\ execs = [e \in Executors |-> At("free", NoTask)]
    /\ todo = [a \in Loopers |-> {}]
    /\ budget = [crashes |-> MaxCrashes, resumes |-> MaxResumes]

Succeeded(c) == calls[c].pc = "ok"
Errored(c) == calls[c].pc = "err"

\* A statement of a call in flight; only the tables and the call change.
ServiceStep(c) == Step(c) /\ UNCHANGED actorVars

----------------------------------------------------------------------------
(* The runner (agent_run.rs:43-86) and the handlers it posts to.           *)

RunnerGoes(place, t) ==
    /\ runner' = At(place, t)
    /\ UNCHANGED <<signals, watcher, execs, todo, budget>>

Queued == {t \in Tasks : tasks[t].status = "queued"}

\* POST /runtime/tasks/claim: the SELECT of the oldest queued task.
RunnerSelect(t) ==
    /\ runner.at = "poll"
    /\ t \in Queued /\ \A u \in Queued : Age[t] <= Age[u]
    /\ RunnerGoes("selected", t)
    /\ UNCHANGED vars

RunnerClaim ==
    /\ runner.at = "selected"
    /\ Begin(Runner, "claim", runner.task, RunnerAgent)
    /\ RunnerGoes("claiming", runner.task)

RunnerStart ==
    /\ runner.at = "claiming" /\ Succeeded(Runner)
    /\ Begin(Runner, "start", runner.task, RunnerAgent)
    /\ RunnerGoes("starting", runner.task)

\* Faulty: the desktop does not start the runner again.
RunnerExitsForGood ==
    /\ runner.at \in {"claiming", "starting"} /\ Errored(Runner)
    /\ RunnerGoes("exited", NoTask)
    /\ UNCHANGED vars

\* claim_next_task(..).await? and start_task(..).await? leave run(); the
\* desktop starts the runner again (worker.rs:831-879).
RunnerExits ==
    /\ runner.at \in {"claiming", "starting"} /\ Errored(Runner)
    /\ RunnerGoes("poll", NoTask)
    /\ UNCHANGED vars

\* POST .../execute, the look at the status.  A 409 is an execution error, and
\* the runner posts .../fail.
RunnerExecute ==
    /\ runner.at = "starting" /\ Succeeded(Runner)
    /\ \/ /\ tasks[runner.task].status = "running"
          /\ RunnerGoes("signalling", runner.task)
          /\ UNCHANGED vars
       \/ /\ tasks[runner.task].status # "running"
          /\ Begin(Runner, "fail", runner.task, RunnerAgent)
          /\ RunnerGoes("failing", runner.task)

\* POST .../execute, the file.
RunnerSignal ==
    /\ runner.at = "signalling"
    /\ signals' = signals \cup {runner.task}
    /\ runner' = At("poll", NoTask)
    /\ UNCHANGED <<watcher, execs, todo, budget>>
    /\ UNCHANGED vars

\* Whatever the answer to .../fail, the loop goes on.
RunnerFailed ==
    /\ runner.at = "failing" /\ ~InFlight(Runner)
    /\ RunnerGoes("poll", NoTask)
    /\ UNCHANGED vars

RunnerNext ==
    \/ \E t \in Tasks : RunnerSelect(t)
    \/ RunnerClaim \/ RunnerStart \/ RunnerExits
    \/ RunnerExecute \/ RunnerSignal \/ RunnerFailed
    \/ ServiceStep(Runner)

----------------------------------------------------------------------------
(* The signal watcher and the executions it spawns (worker.rs:921-978).    *)

WatcherRead(t) ==
    /\ watcher = NoTask
    /\ t \in signals
    /\ watcher' = t
    /\ UNCHANGED <<runner, signals, execs, todo, budget>>
    /\ UNCHANGED vars

\* Faulty: the signal file stays.
WatcherSpawnKeepsSignal(e) ==
    /\ watcher # NoTask
    /\ execs[e].at = "free"
    /\ execs' = [execs EXCEPT ![e] = At("loaded", watcher)]
    /\ watcher' = NoTask
    /\ UNCHANGED <<runner, signals, todo, budget>>
    /\ UNCHANGED vars

\* "Remove the signal file before executing to prevent double-execution."
WatcherSpawn(e) ==
    /\ watcher # NoTask
    /\ execs[e].at = "free"
    /\ signals' = signals \ {watcher}
    /\ execs' = [execs EXCEPT ![e] = At("loaded", watcher)]
    /\ watcher' = NoTask
    /\ UNCHANGED <<runner, todo, budget>>
    /\ UNCHANGED vars

WatcherNext ==
    \/ \E t \in Tasks : WatcherRead(t)
    \/ \E e \in Executors : WatcherSpawn(e)

ExecGoes(e, place) ==
    /\ execs' = [execs EXCEPT ![e] =
           IF place = "free" THEN At("free", NoTask) ELSE At(place, @.task)]
    /\ UNCHANGED <<runner, signals, watcher, todo, budget>>

\* An execution calls the service and waits at a place for the answer.
ExecCalls(e, op, place) ==
    /\ Begin(e, op, execs[e].task, McpAgent)
    /\ ExecGoes(e, place)

\* dispatch_result is Err: the watcher's fail_task.
ExecFails(e) == ExecCalls(e, "fail", "failing")

\* execute_goal_task_via_chat up to the model call.
ExecChat(e) ==
    /\ execs[e].at = "loaded" /\ execs[e].task \notin McpTasks
    /\ ExecGoes(e, "replying")
    /\ UNCHANGED vars

\* Faulty: a failed model call is not reported.
ExecReplyIgnoresErrors(e) ==
    /\ execs[e].at = "replying"
    /\ \/ ExecGoes(e, "free") /\ UNCHANGED vars
       \/ \E op \in {"writeback_review_ready", "writeback_blocked"} :
             ExecCalls(e, op, "writing")

\* The model call fails, or it replies and the reply decides the writeback.
ExecReply(e) ==
    /\ execs[e].at = "replying"
    /\ \/ ExecFails(e)
       \/ \E op \in {"writeback_review_ready", "writeback_blocked"} :
             ExecCalls(e, op, "writing")

\* The result is committed; then it is projected into the goal's session, and
\* an error of either is an error of the execution (worker.rs:1411-1454, 1521).
ExecProjects(e) ==
    /\ execs[e].at = "writing"
    /\ \/ Succeeded(e) /\ ExecGoes(e, "free") /\ UNCHANGED vars
       \/ (Succeeded(e) \/ Errored(e)) /\ ExecFails(e)

\* execute_goal_task_via_mcp_router up to the router: claim and start only if
\* needed, and `?` on each call.
ExecMcp(e) ==
    /\ execs[e].task \in McpTasks
    /\ LET s == tasks[execs[e].task].status
       IN \/ /\ execs[e].at = "loaded"
             /\ \/ s \in {"proposed", "queued"} /\ ExecCalls(e, "claim", "mcp_claiming")
                \/ s = "claimed" /\ ExecCalls(e, "start", "mcp_starting")
                \/ s = "running" /\ ExecGoes(e, "routing") /\ UNCHANGED vars
                \/ /\ s \notin {"proposed", "queued", "claimed", "running"}
                   /\ ExecFails(e)
          \/ /\ execs[e].at = "mcp_claiming"
             /\ Succeeded(e) /\ ExecCalls(e, "start", "mcp_starting")
          \/ /\ execs[e].at = "mcp_starting"
             /\ Succeeded(e) /\ ExecGoes(e, "routing") /\ UNCHANGED vars
          \/ /\ execs[e].at \in {"mcp_claiming", "mcp_starting"}
             /\ Errored(e) /\ ExecFails(e)

\* The router's answer, or "unavailable", is the result.
ExecRoute(e) ==
    /\ execs[e].at = "routing"
    /\ ExecCalls(e, "writeback_review_ready", "routed")

ExecRouted(e) ==
    /\ execs[e].at = "routed"
    /\ \/ Succeeded(e) /\ ExecGoes(e, "free") /\ UNCHANGED vars
       \/ Errored(e) /\ ExecFails(e)

ExecFailed(e) ==
    /\ execs[e].at = "failing" /\ ~InFlight(e)
    /\ ExecGoes(e, "free")
    /\ UNCHANGED vars

ExecNext(e) ==
    \/ ExecChat(e) \/ ExecReply(e) \/ ExecProjects(e)
    \/ ExecMcp(e) \/ ExecRoute(e) \/ ExecRouted(e) \/ ExecFailed(e)
    \/ ServiceStep(e)

----------------------------------------------------------------------------
(* The orchestrator's tick and the user's resume: list, then one call per  *)
(* listed task; an error ends the loop.                                    *)

Lists(a, s) ==
    /\ todo[a] = {} /\ ~InFlight(a)
    /\ \E t \in Tasks : tasks[t].status = s
    /\ todo' = [todo EXCEPT ![a] = {t \in Tasks : tasks[t].status = s}]
    /\ calls' = [calls EXCEPT ![a] = Outside("idle")]
    /\ UNCHANGED <<tasks, leases, runner, signals, watcher, execs>>

CallsNext(a, op, t) ==
    /\ t \in todo[a] /\ ~Errored(a)
    /\ Begin(a, op, t, RunnerAgent)
    /\ todo' = [todo EXCEPT ![a] = @ \ {t}]
    /\ UNCHANGED <<runner, signals, watcher, execs, budget>>

GivesUp(a) ==
    /\ todo[a] # {} /\ Errored(a)
    /\ todo' = [todo EXCEPT ![a] = {}]
    /\ UNCHANGED <<runner, signals, watcher, execs, budget>>
    /\ UNCHANGED vars

\* tick_executing: accept every review_ready task (mod.rs:443-447).
OrchestratorNext ==
    \/ Lists(Orchestrator, "review_ready") /\ UNCHANGED budget
    \/ \E t \in Tasks : CallsNext(Orchestrator, "accept", t)
    \/ GivesUp(Orchestrator)
    \/ ServiceStep(Orchestrator)

\* resume: requeue every blocked task of the cycle (mod.rs:114-119).
UserAsks ==
    /\ budget.resumes > 0
    /\ Lists(User, "blocked")
    /\ budget' = [budget EXCEPT !.resumes = @ - 1]

UserResumes ==
    \/ \E t \in Tasks : CallsNext(User, "resume", t)
    \/ GivesUp(User)
    \/ ServiceStep(User)

----------------------------------------------------------------------------
(* Deaths.  The tables and the signal files survive.                       *)

\* The runner process ends; the handler of its request is dropped.
RunnerDies ==
    /\ budget.crashes > 0
    /\ runner.at # "poll"
    /\ calls' = [calls EXCEPT ![Runner] = Outside("idle")]
    /\ runner' = At("poll", NoTask)
    /\ budget' = [budget EXCEPT !.crashes = @ - 1]
    /\ UNCHANGED <<tasks, leases, signals, watcher, execs, todo>>

\* The desktop process ends and is started again; the runner's requests fail
\* and it is started again too.
DesktopDies ==
    /\ budget.crashes > 0
    /\ calls' = [c \in Callers |-> Outside("idle")]
    /\ runner' = At("poll", NoTask)
    /\ watcher' = NoTask
    /\ execs' = [e \in Executors |-> At("free", NoTask)]
    /\ todo' = [a \in Loopers |-> {}]
    /\ budget' = [budget EXCEPT !.crashes = @ - 1]
    /\ UNCHANGED <<tasks, leases, signals>>

ExecutionNext ==
    \/ RunnerNext
    \/ WatcherNext
    \/ \E e \in Executors : ExecNext(e)
    \/ OrchestratorNext
    \/ UserAsks \/ UserResumes
    \/ RunnerDies \/ DesktopDies

(***************************************************************************)
(* The runner polls, the watcher and the orchestrator run on timers, and a *)
(* spawned execution or a call that was made runs on; nobody has to ask    *)
(* for a resume, and nothing has to die.                                   *)
(***************************************************************************)
Fairness ==
    /\ WF_allVars(RunnerNext)
    /\ WF_allVars(WatcherNext)
    /\ \A e \in Executors : WF_allVars(ExecNext(e))
    /\ WF_allVars(OrchestratorNext)
    /\ WF_allVars(UserResumes)

ExecutionSpec == ExecInit /\ [][ExecutionNext]_allVars

FairExecutionSpec == ExecutionSpec /\ Fairness

Executing(e) == execs[e].at \in {"replying", "routing"}

----------------------------------------------------------------------------
(***************************************************************************)
(* No task is executed twice at the same time ("prevent double-execution", *)
(* worker.rs:946), even when a late failure, a resume and a restart of the *)
(* desktop overlap with the signal file of another attempt.  And with the  *)
(* desktop's own actors a task never has two active claims, deaths         *)
(* included: the runner is the only one to claim while a task is queued,   *)
(* and the router's executor only finds tasks the runner has started.      *)
(***************************************************************************)
NoDoubleExecution ==
    /\ \A e, f \in Executors :
          e # f /\ Executing(e) /\ Executing(f) => execs[e].task # execs[f].task
    /\ \A t \in Tasks : Cardinality(ActiveClaims(leases, t)) <= 1

(***************************************************************************)
(* A task the orchestrator accepted has a result, although the accept may  *)
(* race with a resume, which clears it; and once nobody is calling for the *)
(* task it holds no active claim: neither the late failure of its executor *)
(* (worker.rs:967), which looks for the same lease as the accept, nor a    *)
(* death between releasing the lease and writing the row leaves one.       *)
(***************************************************************************)
AcceptedTasksAreComplete ==
    \A t \in Tasks : tasks[t].status = "accepted" =>
        /\ tasks[t].result
        /\ Quiet(t) => ActiveClaims(leases, t) = {}

(***************************************************************************)
(* Without deaths, every queued task is executed to an outcome: accepted,  *)
(* failed, or blocked for the user to look at.                             *)
(***************************************************************************)
EveryTaskGetsAnOutcome ==
    \A t \in Tasks :
        tasks[t].status = "queued" ~>
            tasks[t].status \in {"accepted", "failed", "blocked"}

(***************************************************************************)
(* Also with deaths, no task stays queued for ever: the state-machine plan *)
(* in docs/ (20260531, line 331) says that the lease of a runner that died *)
(* times out and the task can be claimed again.                            *)
(***************************************************************************)
QueueKeepsMoving ==
    \A t \in Tasks : tasks[t].status = "queued" ~> tasks[t].status # "queued"

=============================================================================
