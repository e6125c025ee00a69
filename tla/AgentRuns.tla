------------------------------ MODULE AgentRuns ------------------------------
(***************************************************************************)
(* Background runs of the command-line agent: agent_runs.rs.               *)
(*                                                                         *)
(*   Members  members of one team; each is given one run (its metadata     *)
(*            carries a goal task, the team and the member)                *)
(*   Stops    calls of stop that may be in flight at once                  *)
(*                                                                         *)
(* Every write of a run is an upsert of the whole row: what a writer did   *)
(* not see it overwrites.  A thread waits for the child, which outlives    *)
(* the desktop while the thread does not.  What the thread cannot write    *)
(* nobody learns of.                                                       *)
(***************************************************************************)
EXTENDS Integers, FiniteSets

CONSTANTS
    Members, Stops, NoMember,
    MaxLosses       \* bound: deaths of the desktop, and errors that end or
                    \*   thin out a thread, in a behaviour

\* A team whose members are given runs has members.
ASSUME AgentRunsAssumption ==
    Members # {} /\ NoMember \notin Members /\ MaxLosses \in Nat

VARIABLES
    run,          \* run[m]: status of the row and whether it has the pid
    child,        \* child[m]: the process of claude -p
    keeper,       \* keeper[m]: the call that starts m's run, then its thread
    outcome,      \* outcome[m]: what the thread saw of the child
    stopping,     \* stopping[s]: what a call of stop is doing and has read
    goalTask,     \* goalTask[m]: status of the task of m
    member,       \* member[m]: status of the member
    team,         \* lifecycle of the team
    losses,       \* history: deaths of the desktop and such errors so far
    signalled,    \* history: members whose child was sent a signal
    overwritten,  \* history: members one of whose writes was lost
    abandoned,    \* history: members whose thread died with the desktop
    unfinished,   \* history: members whose thread met an error before it wrote
    unwritten,    \* history: members of whom the task, the status or the team
                  \*   could not be written
    unbound       \* history: all members were done and no row of theirs named a
                  \*   run when they were counted

agentVars == <<run, child, keeper, outcome, stopping, goalTask, member, team, losses,
               signalled, overwritten, abandoned, unfinished, unwritten, unbound>>

Verdicts == {"succeeded", "failed"}
AgentRows == [status : {"none", "queued", "stopped"}, pid : {FALSE}]
                 \cup [status : {"running", "stopped"} \cup Verdicts, pid : {TRUE}]
KeeperPlaces == {"none", "queued", "spawned", "watching", "seen", "reading", "recorded",
                 "tasked", "counting", "advancing", "done", "gone"}
StopAt(place, m, row) == [at |-> place, member |-> m, row |-> row]
NoRunRow == [status |-> "none", pid |-> FALSE]
NoStop == StopAt("idle", NoMember, NoRunRow)

AgentsTypeOK ==
    /\ run \in [Members -> AgentRows]
    /\ child \in [Members -> {"none", "alive", "ended"}]
    /\ keeper \in [Members -> KeeperPlaces]
    /\ outcome \in [Members -> Verdicts \cup {"none"}]
    /\ stopping \in [Stops -> [at : {"idle", "read", "terminated"},
                               member : Members \cup {NoMember}, row : AgentRows]]
    /\ \A s \in Stops : stopping[s].at # "idle" => stopping[s].member \in Members
    /\ goalTask \in [Members -> {"running", "review_ready", "failed"}]
    /\ member \in [Members -> {"running", "completed", "failed"}]
    /\ team \in {"executing", "awaiting_review"}
    /\ losses \in 0 .. MaxLosses /\ unbound \in BOOLEAN
    /\ \A some \in {signalled, overwritten, abandoned, unfinished, unwritten} :
          some \subseteq Members

AgentsInit ==
    /\ run = [m \in Members |-> NoRunRow] /\ child = [m \in Members |-> "none"]
    /\ keeper = [m \in Members |-> "none"] /\ outcome = [m \in Members |-> "none"]
    /\ stopping = [s \in Stops |-> NoStop]
    /\ goalTask = [m \in Members |-> "running"] /\ member = [m \in Members |-> "running"]
    /\ team = "executing" /\ losses = 0
    /\ signalled = {} /\ overwritten = {} /\ abandoned = {}
    /\ unfinished = {} /\ unwritten = {} /\ unbound = FALSE

KeeperGoes(m, from, to) == keeper[m] = from /\ keeper' = [keeper EXCEPT ![m] = to]

\* upsert; the write of another since the writer's read is lost.
Upserts(m, seen, row) ==
    /\ run' = [run EXCEPT ![m] = row]
    /\ overwritten' = IF run[m].status \in seen THEN overwritten ELSE overwritten \cup {m}

---------------------------------------------------------------------------
\* start_claude_run and spawn_claude.

StartsRun(m) ==
    /\ KeeperGoes(m, "none", "queued")
    /\ run' = [run EXCEPT ![m] = [status |-> "queued", pid |-> FALSE]]
    /\ UNCHANGED <<child, overwritten>>

\* Without a log file or a program the row stays queued, and so it does when
\* it cannot be written once the child runs.
StartFails(m) ==
    /\ KeeperGoes(m, "queued", "gone") \/ KeeperGoes(m, "spawned", "gone")
    /\ UNCHANGED <<run, child, overwritten>>

SpawnsChild(m) ==
    /\ KeeperGoes(m, "queued", "spawned")
    /\ child' = [child EXCEPT ![m] = "alive"]
    /\ UNCHANGED <<run, overwritten>>

\* Faulty: the row is written from what was known before the spawn.
RecordsNoPid(m) ==
    /\ KeeperGoes(m, "spawned", "watching")
    /\ Upserts(m, {"queued"}, [status |-> "running", pid |-> FALSE])
    /\ UNCHANGED child

RecordsRunning(m) ==
    /\ KeeperGoes(m, "spawned", "watching")
    /\ Upserts(m, {"queued"}, [status |-> "running", pid |-> TRUE])
    /\ UNCHANGED child

Starting(m) ==
    /\ StartsRun(m) \/ StartFails(m) \/ SpawnsChild(m) \/ RecordsRunning(m)
    /\ UNCHANGED <<outcome, stopping, goalTask, member, team, losses, signalled,
                   abandoned, unfinished, unwritten, unbound>>

---------------------------------------------------------------------------
\* The thread: wait_for_child, then finish_spawned_run.

ChildEnds(m) ==
    /\ child[m] = "alive"
    /\ child' = [child EXCEPT ![m] = "ended"]
    /\ UNCHANGED <<run, keeper, outcome, stopping, goalTask, member, team, losses,
                   signalled, overwritten, abandoned, unfinished, unwritten, unbound>>

\* Faulty: a child past its timeout is waited for.
SeesEnd(m) ==
    /\ child[m] = "ended"
    /\ KeeperGoes(m, "watching", "seen")
    /\ \E verdict \in Verdicts : outcome' = [outcome EXCEPT ![m] = verdict]
    /\ UNCHANGED <<run, child, goalTask, member, team, overwritten>>

\* The child ended, or is killed at the timeout.
WaitsForChild(m) ==
    /\ KeeperGoes(m, "watching", "seen")
    /\ child' = [child EXCEPT ![m] = "ended"]
    /\ \E verdict \in Verdicts :
          /\ child[m] = "alive" \/ m \in signalled => verdict = "failed"
          /\ outcome' = [outcome EXCEPT ![m] = verdict]
    /\ UNCHANGED <<run, goalTask, member, team, overwritten>>

\* Nothing is written back for a run that is stopped.
FinishReads(m) ==
    /\ \/ run[m].status # "stopped" /\ KeeperGoes(m, "seen", "reading")
       \/ run[m].status = "stopped" /\ KeeperGoes(m, "seen", "gone")
    /\ UNCHANGED <<run, child, outcome, goalTask, member, team, overwritten>>

\* The row or a sidecar file cannot be read, the output or the row not be
\* written: the error ends the thread, and whoever called it drops it.
FinishFails(m) ==
    /\ KeeperGoes(m, "seen", "gone") \/ KeeperGoes(m, "reading", "gone")
    /\ losses < MaxLosses /\ losses' = losses + 1
    /\ unfinished' = unfinished \cup {m}
    /\ UNCHANGED <<run, child, outcome, goalTask, member, team, overwritten, unwritten>>

FinishRecords(m) ==
    /\ KeeperGoes(m, "reading", "recorded")
    /\ Upserts(m, {"queued", "running"}, [status |-> outcome[m], pid |-> TRUE])
    /\ UNCHANGED <<child, outcome, goalTask, member, team>>

\* Faulty: the task of a failed run is left running.
WritesGoodTask(m) ==
    /\ KeeperGoes(m, "recorded", "tasked")
    /\ goalTask' = IF outcome[m] = "succeeded" THEN [goalTask EXCEPT ![m] = "review_ready"]
                                               ELSE goalTask
    /\ UNCHANGED <<run, child, outcome, member, team, overwritten>>

\* set_task_result_ref_review_ready or fail_task, of a task still running.
WritesTask(m) ==
    /\ KeeperGoes(m, "recorded", "tasked")
    /\ goalTask' = IF goalTask[m] # "running" THEN goalTask
                   ELSE [goalTask EXCEPT ![m] = IF outcome[m] = "succeeded" THEN "review_ready"
                                                                            ELSE "failed"]
    /\ UNCHANGED <<run, child, outcome, member, team, overwritten>>

\* set_member_status.
SetsMember(m) ==
    /\ KeeperGoes(m, "tasked", "counting")
    /\ member' = [member EXCEPT ![m] = IF outcome[m] = "succeeded" THEN "completed"
                                                                    ELSE "failed"]
    /\ UNCHANGED <<run, child, outcome, goalTask, team, overwritten>>

AllDone == \A n \in Members : member[n] \in {"completed", "failed"}

\* list_members.  A row names a run when add_member or an adapter put it there
\* and nobody wrote an older row back; the start of a run does not (AgentTeams).
CountsMembers(m) ==
    /\ \/ KeeperGoes(m, "counting", IF AllDone THEN "advancing" ELSE "done") /\ UNCHANGED unbound
       \/ AllDone /\ KeeperGoes(m, "counting", "done") /\ unbound' = TRUE
    /\ UNCHANGED <<run, child, outcome, goalTask, member, team, overwritten>>

\* transition_team_lifecycle, the task list and the notice to the turn.
AdvancesTeam(m) ==
    /\ KeeperGoes(m, "advancing", "done")
    /\ team' = "awaiting_review"
    /\ UNCHANGED <<run, child, outcome, goalTask, member, overwritten>>

\* Each of these writes is tried once: its error is dropped, and the thread
\* goes on to the next.  Without a list of the members there is no team.
WriteFails(m) ==
    /\ \/ KeeperGoes(m, "recorded", "tasked") \/ KeeperGoes(m, "tasked", "counting")
       \/ KeeperGoes(m, "counting", "done") \/ KeeperGoes(m, "advancing", "done")
    /\ losses < MaxLosses /\ losses' = losses + 1
    /\ unwritten' = unwritten \cup {m}
    /\ UNCHANGED <<run, child, outcome, goalTask, member, team, overwritten, unfinished>>

Keeping(m) ==
    /\ \/ /\ \/ WaitsForChild(m) \/ FinishReads(m) \/ FinishRecords(m)
             \/ WritesTask(m) \/ SetsMember(m) \/ AdvancesTeam(m)
          /\ UNCHANGED <<losses, unfinished, unwritten, unbound>>
       \/ CountsMembers(m) /\ UNCHANGED <<losses, unfinished, unwritten>>
       \/ (FinishFails(m) \/ WriteFails(m)) /\ UNCHANGED unbound
    /\ UNCHANGED <<stopping, signalled, abandoned>>

---------------------------------------------------------------------------
\* stop.

StopGoes(s, next) == stopping' = [stopping EXCEPT ![s] = next]

StopReads(s, m) ==
    /\ stopping[s] = NoStop
    /\ run[m].status \in {"queued", "running"}
    /\ StopGoes(s, StopAt("read", m, run[m]))
    /\ UNCHANGED <<run, child, signalled, overwritten>>

\* terminate_pid; an error of it is recorded and does not stop the stop.
StopTerminates(s) ==
    /\ stopping[s].at = "read"
    /\ signalled' = IF stopping[s].row.pid /\ child[stopping[s].member] = "alive"
                    THEN signalled \cup {stopping[s].member} ELSE signalled
    /\ StopGoes(s, [stopping[s] EXCEPT !.at = "terminated"])
    /\ UNCHANGED <<run, child, overwritten>>

StopRecords(s) ==
    /\ stopping[s].at = "terminated"
    /\ LET m == stopping[s].member IN
          Upserts(m, {stopping[s].row.status}, [stopping[s].row EXCEPT !.status = "stopped"])
    /\ StopGoes(s, NoStop)
    /\ UNCHANGED <<child, signalled>>

Stopping ==
    /\ \E s \in Stops :
          \/ \E m \in Members : StopReads(s, m)
          \/ StopTerminates(s)
          \/ StopRecords(s)
    /\ UNCHANGED <<keeper, outcome, goalTask, member, team, losses, abandoned,
                   unfinished, unwritten, unbound>>

---------------------------------------------------------------------------
\* The desktop dies: threads and calls are gone, children are not.
DesktopIsLost ==
    /\ losses < MaxLosses
    /\ losses' = losses + 1
    /\ LET cut == {m \in Members : keeper[m] \notin {"none", "done", "gone"}} IN
          /\ abandoned' = abandoned \cup cut
          /\ keeper' = [m \in Members |-> IF m \in cut THEN "gone" ELSE keeper[m]]
    /\ stopping' = [s \in Stops |-> NoStop]
    /\ UNCHANGED <<run, child, outcome, goalTask, member, team, signalled, overwritten,
                   unfinished, unwritten, unbound>>

AgentsNext ==
    \/ \E m \in Members : Starting(m) \/ ChildEnds(m) \/ Keeping(m)
    \/ Stopping
    \/ DesktopIsLost

AgentsSpec == AgentsInit /\ [][AgentsNext]_agentVars

\* The thread of a run goes on: wait_for_child polls and kills at the timeout.
AgentsFairness ==
    \A m \in Members : WF_agentVars(Keeping(m))

---------------------------------------------------------------------------
\* What a finished run leaves agrees: the task is up for review exactly when
\* the row says succeeded and failed exactly when it says failed, and a stop
\* that was not overwritten leaves the task running (agent_runs.rs:289-370).
\* And when the threads of all the members' runs have ended and written them
\* back, in whatever order they overlapped, the team awaits review, unless no
\* member's row named a run when they were counted (agent_runs.rs:389-416).
RunIsReported(m) ==
    keeper[m] \in {"done", "gone"} /\ m \notin overwritten \cup abandoned \cup unwritten =>
        /\ run[m].status = "succeeded" <=> goalTask[m] = "review_ready"
        /\ run[m].status = "failed" <=> goalTask[m] = "failed"

AllAreWritten == unwritten = {} /\ \A m \in Members : keeper[m] = "done"

\* A run recorded as running gets a verdict while the desktop lives, or else
\* its thread met an error of a file or of the database before it could write:
\* the thread kills a child that does not end (agent_runs.rs:271-287).
RunningRunsEnd ==
    \A m \in Members : run[m].status = "running" ~>
        run[m].status \in Verdicts \cup {"stopped"} \/ m \in abandoned \cup unfinished

\* A run that is recorded as running ends, and then its row, its task and its
\* team tell the same (agent_runs.rs:271-416).
RunsEndAndAreReported ==
    /\ []((\A m \in Members : RunIsReported(m))
          /\ (AllAreWritten /\ ~ unbound => team = "awaiting_review"))
    /\ RunningRunsEnd
===========================================================================
