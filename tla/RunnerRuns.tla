------------------------------ MODULE RunnerRuns -----------------------------
(***************************************************************************)
(* The command-line runner and the processes it starts for one goal task   *)
(* (agent_run.rs of the CLI, adapters/claude_p.rs).  The runner claims the *)
(* task, starts it and spawns claude -p; a thread of the runner waits for  *)
(* the child and settles run and task.  Meanwhile the runtime API, which   *)
(* the child and the user may call, settles or blocks the task itself, and *)
(* a task that was blocked or sent back is started again.                  *)
(*                                                                         *)
(*   CliRuns    ids of runs, none used twice                               *)
(***************************************************************************)
EXTENDS Integers, FiniteSets

CONSTANTS
    CliRuns, NoCliRun,
    MaxRunnerEnds    \* bound: ends of the runner in a behaviour

ASSUME RunnerAssumption == NoCliRun \notin CliRuns /\ MaxRunnerEnds \in Nat

VARIABLES
    cliTask,       \* status of the task
    attempt,       \* the run its present attempt was started for
    cliRow,        \* cliRow[r]: status in the row of run r
    cliChild,      \* cliChild[r]: the process of run r
    watcher,       \* watcher[r]: how far the runner, then its thread, is with r
    verdict,       \* verdict[r]: what the thread saw of the child
    stopCall,      \* stopCall[r]: a stop of r has read its row
    runnerEnds,
    interfered,    \* history: runs whose attempt another hand settled
    unwatched      \* history: runs nobody waits for or reports

runnerVars == <<cliTask, attempt, cliRow, cliChild, watcher, verdict, stopCall,
                runnerEnds, interfered, unwatched>>

CliVerdicts == {"succeeded", "failed"}
Places == {"none", "created", "spawned", "recorded", "failing", "watching", "seen",
           "reading", "ended", "settling", "done"}

\* The runner itself is busy with a run until its thread takes over.
Busy(r) == watcher[r] \in {"created", "spawned", "recorded", "failing"}

RunnerTypeOK ==
    /\ cliTask \in {"queued", "running", "blocked", "review_ready", "accepted", "failed"}
    /\ attempt \in CliRuns \cup {NoCliRun}
    /\ cliRow \in [CliRuns -> {"none", "queued", "running", "stopped"} \cup CliVerdicts]
    /\ cliChild \in [CliRuns -> {"none", "alive", "ended"}]
    /\ watcher \in [CliRuns -> Places]
    /\ verdict \in [CliRuns -> CliVerdicts \cup {"none"}]
    /\ stopCall \in [CliRuns -> BOOLEAN]
    /\ runnerEnds \in 0 .. MaxRunnerEnds
    /\ interfered \subseteq CliRuns /\ unwatched \subseteq CliRuns

RunnerInit ==
    /\ cliTask = "queued" /\ attempt = NoCliRun
    /\ cliRow = [r \in CliRuns |-> "none"] /\ cliChild = [r \in CliRuns |-> "none"]
    /\ watcher = [r \in CliRuns |-> "none"] /\ verdict = [r \in CliRuns |-> "none"]
    /\ stopCall = [r \in CliRuns |-> FALSE]
    /\ runnerEnds = 0 /\ interfered = {} /\ unwatched = {}

WatcherGoes(r, from, to) == watcher[r] = from /\ watcher' = [watcher EXCEPT ![r] = to]

\* The row of a run is written whole.
PutRow(r, status) == cliRow' = [cliRow EXCEPT ![r] = status]

---------------------------------------------------------------------------
\* The runner: claim_next_task and start_task, then spawn_with_timeout, which
\* records the run, spawns the child, records it as running and binds it to a
\* member of the team; the first error ends it and is reported.

StartsTask(r) ==
    /\ cliTask = "queued" /\ \A other \in CliRuns : ~Busy(other)
    /\ WatcherGoes(r, "none", "created")
    /\ cliTask' = "running" /\ attempt' = r /\ PutRow(r, "queued")
    /\ UNCHANGED <<cliChild, verdict, stopCall, runnerEnds, interfered, unwatched>>

SpawnsProcess(r) ==
    /\ WatcherGoes(r, "created", "spawned")
    /\ cliChild' = [cliChild EXCEPT ![r] = "alive"]
    /\ UNCHANGED <<cliTask, attempt, cliRow, verdict, stopCall, runnerEnds, interfered, unwatched>>

RecordsProcess(r) ==
    /\ WatcherGoes(r, "spawned", "recorded") /\ PutRow(r, "running")
    /\ UNCHANGED <<cliTask, attempt, cliChild, verdict, stopCall, runnerEnds, interfered, unwatched>>

\* bind_executor_run_to_team_member; then the thread is started.
BindsMember(r) ==
    /\ WatcherGoes(r, "recorded", "watching")
    /\ UNCHANGED <<cliTask, attempt, cliRow, cliChild, verdict, stopCall, runnerEnds,
                   interfered, unwatched>>

\* An error leaves the row, and a child there may be, as they are.
SpawnFails(r) ==
    /\ watcher[r] \in {"created", "spawned", "recorded"}
    /\ WatcherGoes(r, watcher[r], "failing") /\ unwatched' = unwatched \cup {r}
    /\ UNCHANGED <<cliTask, attempt, cliRow, cliChild, verdict, stopCall, runnerEnds, interfered>>

\* What fail_task accepts.
Failable == cliTask \in {"running", "review_ready", "blocked"}

\* fail_task_via_runtime_api; an error of it is only printed.
ReportsFailure(r) ==
    /\ WatcherGoes(r, "failing", "done")
    /\ \/ Failable /\ cliTask' = "failed"
       \/ UNCHANGED cliTask
    /\ UNCHANGED <<attempt, cliRow, cliChild, verdict, stopCall, runnerEnds, interfered, unwatched>>

---------------------------------------------------------------------------
\* The thread: wait_for_child and finish_run.

ProcessEnds(r) ==
    /\ cliChild[r] = "alive" /\ cliChild' = [cliChild EXCEPT ![r] = "ended"]
    /\ UNCHANGED <<cliTask, attempt, cliRow, watcher, verdict, stopCall, runnerEnds,
                   interfered, unwatched>>

\* Faulty: a child past its timeout is waited for.
WaitsForever(r) ==
    /\ cliChild[r] = "ended" /\ WatcherGoes(r, "watching", "seen")
    /\ \E seen \in CliVerdicts : verdict' = [verdict EXCEPT ![r] = seen]
    /\ UNCHANGED <<cliTask, attempt, cliRow, cliChild, stopCall, runnerEnds, interfered, unwatched>>

\* The child has ended, or is killed when its time is up.
WaitsFor(r) ==
    /\ WatcherGoes(r, "watching", "seen")
    /\ cliChild' = [cliChild EXCEPT ![r] = "ended"]
    /\ \E seen \in CliVerdicts :
          /\ cliChild[r] = "alive" => seen = "failed"
          /\ verdict' = [verdict EXCEPT ![r] = seen]
    /\ UNCHANGED <<cliTask, attempt, cliRow, stopCall, runnerEnds, interfered, unwatched>>

\* A run that was stopped is left alone, its task with it.
ReadsRun(r) ==
    /\ WatcherGoes(r, "seen", IF cliRow[r] = "stopped" THEN "done" ELSE "reading")
    /\ UNCHANGED <<cliTask, attempt, cliRow, cliChild, verdict, stopCall, runnerEnds,
                   interfered, unwatched>>

RecordsVerdict(r) ==
    /\ WatcherGoes(r, "reading", "ended") /\ PutRow(r, verdict[r])
    /\ UNCHANGED <<cliTask, attempt, cliChild, verdict, stopCall, runnerEnds, interfered, unwatched>>

\* update_task_on_completion: the task is read first and left alone when it is
\* not running.  Its chat gets the result in any case.
ReadsTask(r) ==
    /\ WatcherGoes(r, "ended", IF cliTask = "running" THEN "settling" ELSE "done")
    /\ UNCHANGED <<cliTask, attempt, cliRow, cliChild, verdict, stopCall, runnerEnds,
                   interfered, unwatched>>

\* A success is written to a task still running; a failure goes through
\* fail_task, which accepts more.
Settles(r) ==
    /\ WatcherGoes(r, "settling", "done")
    /\ cliTask' = IF verdict[r] = "succeeded" /\ cliTask = "running" THEN "review_ready"
                  ELSE IF verdict[r] = "failed" /\ Failable THEN "failed"
                  ELSE cliTask
    /\ interfered' = IF cliTask' # cliTask /\ cliTask = "running" THEN interfered \cup ({attempt} \ {r})
                     ELSE interfered
    /\ UNCHANGED <<attempt, cliRow, cliChild, verdict, stopCall, runnerEnds, unwatched>>

ThreadRuns(r) == WaitsFor(r) \/ ReadsRun(r) \/ RecordsVerdict(r) \/ ReadsTask(r) \/ Settles(r)

---------------------------------------------------------------------------
\* The others.

\* stop of agent_runs: the row is read, the process told to end and the row
\* written back as stopped.
StopReadsRow(r) ==
    /\ ~stopCall[r] /\ cliRow[r] \in {"queued", "running"}
    /\ stopCall' = [stopCall EXCEPT ![r] = TRUE]
    /\ UNCHANGED <<cliTask, attempt, cliRow, cliChild, watcher, verdict, runnerEnds,
                   interfered, unwatched>>

StopWritesRow(r) ==
    /\ stopCall[r] /\ stopCall' = [stopCall EXCEPT ![r] = FALSE] /\ PutRow(r, "stopped")
    /\ UNCHANGED <<cliTask, attempt, cliChild, watcher, verdict, runnerEnds, interfered, unwatched>>

\* The runtime API completes, fails or blocks the task while it runs.
ApiSettles ==
    /\ cliTask = "running" /\ cliTask' \in {"accepted", "failed", "blocked"}
    /\ interfered' = interfered \cup {attempt}
    /\ UNCHANGED <<attempt, cliRow, cliChild, watcher, verdict, stopCall, runnerEnds, unwatched>>

\* Blocked work, and work a reviewer sends back, is queued again.
Requeues ==
    /\ cliTask \in {"blocked", "review_ready"} /\ cliTask' = "queued"
    /\ UNCHANGED <<attempt, cliRow, cliChild, watcher, verdict, stopCall, runnerEnds,
                   interfered, unwatched>>

\* The runner is interrupted, or was to run once and finds no other task: its
\* threads end with it, the children do not.
RunnerEnds ==
    LET cut == {r \in CliRuns : watcher[r] \notin {"none", "done"}}
    IN /\ runnerEnds < MaxRunnerEnds /\ runnerEnds' = runnerEnds + 1
       /\ watcher' = [r \in CliRuns |-> IF r \in cut THEN "done" ELSE watcher[r]]
       /\ unwatched' = unwatched \cup cut
       /\ UNCHANGED <<cliTask, attempt, cliRow, cliChild, verdict, stopCall, interfered>>

RunnerNext ==
    \/ \E r \in CliRuns :
          \/ StartsTask(r) \/ SpawnsProcess(r) \/ RecordsProcess(r) \/ BindsMember(r)
          \/ SpawnFails(r) \/ ReportsFailure(r) \/ ProcessEnds(r) \/ ThreadRuns(r)
          \/ StopReadsRow(r) \/ StopWritesRow(r)
    \/ ApiSettles \/ Requeues \/ RunnerEnds

RunnerSpec == RunnerInit /\ [][RunnerNext]_runnerVars

\* The runner goes on with a run, and its thread polls and kills at the timeout.
RunnerFairness ==
    \A r \in CliRuns :
        /\ WF_runnerVars(SpawnsProcess(r) \/ RecordsProcess(r) \/ BindsMember(r))
        /\ WF_runnerVars(ReportsFailure(r))
        /\ WF_runnerVars(ThreadRuns(r))

---------------------------------------------------------------------------
\* The thread of an older run settles a newer attempt only when somebody else
\* had settled the older one over that run's head (claude_p.rs:516-540).
OldRunsStandBack ==
    [][\A r \in CliRuns :
           (watcher[r] = "settling" /\ cliTask' # cliTask /\ watcher'[r] = "done") =>
               r = attempt \/ r \in interfered]_runnerVars

\* A task that runs is settled while the runner lives, and by the run that was
\* started for it: it stays running only when its run was stopped, could not
\* be started properly or lost its runner (claude_p.rs:474-540,
\* agent_run.rs:43-87).
AttemptsAreSettledByTheirRuns ==
    /\ OldRunsStandBack
    /\ \A r \in CliRuns :
          (cliTask = "running" /\ attempt = r) ~>
              \/ cliTask # "running" \/ attempt # r
              \/ r \in unwatched \/ cliRow[r] = "stopped"

=============================================================================
