----------------------------- MODULE CommandRuns -----------------------------
(***************************************************************************)
(* Shell commands run in the background: command_runs.rs, the tracked      *)
(* execution of shell/mod.rs and the tools bash.execute and bash.cancel of *)
(* tools/shell.rs.                                                         *)
(*                                                                         *)
(*   Runs      calls of bash.execute; each has a row of command_runs, an   *)
(*             object in memory behind a mutex, and a process              *)
(*   Killers   calls of bash.cancel that may be in flight at once          *)
(*                                                                         *)
(* The row is written when the run is created and when it ends; the object *)
(* carries the status in between and is found through the registry         *)
(* LIVE_RUNS.  An actor is cut at its statements and its locks.            *)
(***************************************************************************)
EXTENDS Integers, FiniteSets

CONSTANTS
    Runs, Killers, NoRun,
    MaxRestarts     \* bound: restarts of the desktop in a behaviour

ASSUME CommandRunsAssumption ==
    NoRun \notin Runs /\ MaxRestarts \in Nat

VARIABLES
    row,          \* row[r]: what command_runs stores
    memory,       \* memory[r]: the object of the run
    liveRuns,     \* LIVE_RUNS: the runs a kill can find in memory
    process,      \* process[r]: the operating system's process
    tracking,     \* tracking[r]: where the background task of r is
    killing,      \* killing[k]: what a call of kill is doing
    unfollowed,   \* history: runs whose process could not be spawned or waited for
    orphaned,     \* history: runs that lost their task in a restart
    blind,        \* history: runs a kill did not find in memory
    restarts      \* history: restarts so far

commandVars == <<row, memory, liveRuns, process, tracking, killing,
                 unfollowed, orphaned, blind, restarts>>

Finished == {"exited", "timed_out", "killed"}
RunStatuses == {"none", "prepared", "awaiting_permission", "streaming"} \cup Finished

\* reported: exit code and output tails are those of the ended process.
RunRecords == [status : RunStatuses, reported : BOOLEAN]
NoRecord == [status |-> "none", reported |-> FALSE]

\* CommandRunStatus::valid_transitions; starting lasts no statement.
CanBecome(from, to) ==
    \/ from = "prepared" /\ to \in {"awaiting_permission", "starting", "killed"}
    \/ from = "awaiting_permission" /\ to \in {"starting", "killed"}
    \/ from \in {"starting", "streaming"} /\ to \in Finished
    \/ from = "starting" /\ to = "streaming"

\* transition, its error ignored as all callers but kill do.
Turned(rec, to) == IF CanBecome(rec.status, to) THEN [rec EXCEPT !.status = to] ELSE rec

Tracks == {"none", "inserted", "spawned", "waiting", "ended", "persisted", "done"}
KillPlaces == {"idle", "found", "updating", "unregistering", "missed", "read"}
KillAt(place, r) == [at |-> place, run |-> r]
NoKill == KillAt("idle", NoRun)

CommandsTypeOK ==
    /\ row \in [Runs -> RunRecords] /\ memory \in [Runs -> RunRecords]
    /\ liveRuns \subseteq Runs
    /\ process \in [Runs -> {"none", "alive", "ended"}]
    /\ tracking \in [Runs -> Tracks]
    /\ killing \in [Killers -> [at : KillPlaces, run : Runs \cup {NoRun}]]
    /\ \A k \in Killers : killing[k].at # "idle" => killing[k].run \in Runs
    /\ unfollowed \subseteq Runs /\ orphaned \subseteq Runs /\ blind \subseteq Runs
    /\ restarts \in 0 .. MaxRestarts

CommandsInit ==
    /\ row = [r \in Runs |-> NoRecord] /\ memory = [r \in Runs |-> NoRecord]
    /\ liveRuns = {}
    /\ process = [r \in Runs |-> "none"]
    /\ tracking = [r \in Runs |-> "none"]
    /\ killing = [k \in Killers |-> NoKill]
    /\ unfollowed = {} /\ orphaned = {} /\ blind = {}
    /\ restarts = 0

\* A kill holds the mutex of the object from its transition to its return.
Locked(r) ==
    \E k \in Killers : killing[k].run = r /\ killing[k].at \in {"updating", "unregistering"}

----------------------------------------------------------------------------
(* bash.execute and its background task                                    *)

TrackGoes(r, place) ==
    /\ tracking' = [tracking EXCEPT ![r] = place]
    /\ UNCHANGED <<killing, orphaned, blind, restarts>>

\* execute_bash_tool: the object and its row, then the task is spawned.
Execute(r) ==
    /\ tracking[r] = "none" /\ row[r] = NoRecord
    /\ \E s \in {"prepared", "awaiting_permission"} :
          /\ memory' = [memory EXCEPT ![r].status = s]
          /\ row' = [row EXCEPT ![r].status = s]
    /\ TrackGoes(r, "inserted")
    /\ UNCHANGED <<liveRuns, process, unfollowed>>

\* execute_tracked up to register_live: the process, and both transitions in
\* one critical section.  The row is not written.
Spawn(r) ==
    /\ tracking[r] = "inserted" /\ ~Locked(r)
    /\ process' = [process EXCEPT ![r] = "alive"]
    /\ memory' = [memory EXCEPT ![r] = Turned(Turned(@, "starting"), "streaming")]
    /\ TrackGoes(r, "spawned")
    /\ UNCHANGED <<row, liveRuns, unfollowed>>

\* A blocked command, a bad directory or a failed spawn: the transition to
\* exited is not valid from prepared, and its error is ignored.
SpawnFails(r) ==
    /\ tracking[r] = "inserted" /\ ~Locked(r)
    /\ LET ended == [Turned(memory[r], "exited") EXCEPT !.reported = TRUE]
       IN memory' = [memory EXCEPT ![r] = ended] /\ row' = [row EXCEPT ![r] = ended]
    /\ unfollowed' = unfollowed \cup {r}
    /\ TrackGoes(r, "done")
    /\ UNCHANGED <<liveRuns, process>>

\* register_live.
Register(r) ==
    /\ tracking[r] = "spawned"
    /\ liveRuns' = liveRuns \cup {r}
    /\ TrackGoes(r, "waiting")
    /\ UNCHANGED <<row, memory, process, unfollowed>>

ProcessEnds(r) ==
    /\ process[r] = "alive"
    /\ process' = [process EXCEPT ![r] = "ended"]
    /\ UNCHANGED <<row, memory, liveRuns, tracking, killing, unfollowed,
                   orphaned, blind, restarts>>

Ends(r, s) ==
    /\ memory' = [memory EXCEPT ![r] = [Turned(@, s) EXCEPT !.reported = TRUE]]
    /\ TrackGoes(r, "ended")
    /\ UNCHANGED <<row, liveRuns, unfollowed>>

\* Faulty: the exit overwrites whatever the status is.
WaitOverwrites(r) ==
    /\ tracking[r] = "waiting" /\ process[r] = "ended" /\ ~Locked(r)
    /\ memory' = [memory EXCEPT ![r] = [status |-> "exited", reported |-> TRUE]]
    /\ TrackGoes(r, "ended")
    /\ UNCHANGED <<row, liveRuns, process, unfollowed>>

\* SpawnedProcess::wait: the process has ended, or is killed at its timeout.
Wait(r) ==
    /\ tracking[r] = "waiting" /\ process[r] = "ended" /\ ~Locked(r)
    /\ Ends(r, "exited")
    /\ UNCHANGED process

TimesOut(r) ==
    /\ tracking[r] = "waiting" /\ process[r] = "alive" /\ ~Locked(r)
    /\ process' = [process EXCEPT ![r] = "ended"]
    /\ Ends(r, "timed_out")

\* An error of the wait itself: nothing is recorded, the registry keeps the run.
WaitFails(r) ==
    /\ tracking[r] = "waiting"
    /\ unfollowed' = unfollowed \cup {r}
    /\ TrackGoes(r, "done")
    /\ UNCHANGED <<row, memory, liveRuns, process>>

\* Faulty: a killed run is not stored, as its kill has stored it already.
PersistUnlessKilled(r) ==
    /\ tracking[r] = "ended" /\ ~Locked(r)
    /\ row' = IF memory[r].status = "killed" THEN row ELSE [row EXCEPT ![r] = memory[r]]
    /\ TrackGoes(r, "persisted")
    /\ UNCHANGED <<memory, liveRuns, process, unfollowed>>

\* persist_and_unregister: a copy of the object, the UPDATE, the registry.
Persist(r) ==
    /\ tracking[r] = "ended" /\ ~Locked(r)
    /\ row' = [row EXCEPT ![r] = memory[r]]
    /\ TrackGoes(r, "persisted")
    /\ UNCHANGED <<memory, liveRuns, process, unfollowed>>

Unregister(r) ==
    /\ tracking[r] = "persisted"
    /\ liveRuns' = liveRuns \ {r}
    /\ TrackGoes(r, "done")
    /\ UNCHANGED <<row, memory, process, unfollowed>>

TrackStep(r) ==
    \/ Spawn(r) \/ SpawnFails(r) \/ Register(r)
    \/ Wait(r) \/ TimesOut(r) \/ WaitFails(r) \/ Persist(r) \/ Unregister(r)

----------------------------------------------------------------------------
(* kill                                                                    *)

KillGoes(k, next) ==
    /\ killing' = [killing EXCEPT ![k] = next]
    /\ UNCHANGED <<process, tracking, unfollowed, orphaned, restarts>>

\* get_live.  The id is known once bash.execute has returned.
KillLooks(k, r) ==
    /\ killing[k].at = "idle" /\ tracking[r] # "none"
    /\ KillGoes(k, KillAt(IF r \in liveRuns THEN "found" ELSE "missed", r))
    /\ blind' = IF r \in liveRuns THEN blind ELSE blind \cup {r}
    /\ UNCHANGED <<row, memory, liveRuns>>

\* The lock, the check and the transition of the object.
KillLocks(k) ==
    LET r == killing[k].run
    IN /\ killing[k].at = "found" /\ ~Locked(r)
       /\ IF memory[r].status \in Finished
             THEN KillGoes(k, NoKill) /\ UNCHANGED memory
             ELSE /\ memory' = [memory EXCEPT ![r] = Turned(@, "killed")]
                  /\ KillGoes(k, KillAt("updating", r))
       /\ UNCHANGED <<row, liveRuns, blind>>

KillUpdates(k) ==
    LET r == killing[k].run
    IN /\ killing[k].at = "updating"
       /\ row' = [row EXCEPT ![r] = memory[r]]
       /\ KillGoes(k, KillAt("unregistering", r))
       /\ UNCHANGED <<memory, liveRuns, blind>>

KillUnregisters(k) ==
    /\ killing[k].at = "unregistering"
    /\ liveRuns' = liveRuns \ {killing[k].run}
    /\ KillGoes(k, NoKill)
    /\ UNCHANGED <<row, memory, blind>>

\* Not in the registry: the row is read and checked, ...
KillReads(k) ==
    LET r == killing[k].run
    IN /\ killing[k].at = "missed"
       /\ KillGoes(k, IF row[r].status \in Finished THEN NoKill ELSE KillAt("read", r))
       /\ UNCHANGED <<row, memory, liveRuns, blind>>

\* ... and written back as a whole: no row that was not finished has a report.
KillWrites(k) ==
    /\ killing[k].at = "read"
    /\ row' = [row EXCEPT ![killing[k].run] = [status |-> "killed", reported |-> FALSE]]
    /\ KillGoes(k, NoKill)
    /\ UNCHANGED <<memory, liveRuns, blind>>

KillStep(k) ==
    \/ KillLocks(k) \/ KillUpdates(k) \/ KillUnregisters(k)
    \/ KillReads(k) \/ KillWrites(k)

----------------------------------------------------------------------------
\* The desktop ends and starts again: memory is lost, rows and processes stay.
Restart ==
    /\ restarts < MaxRestarts
    /\ restarts' = restarts + 1
    /\ orphaned' = orphaned \cup {r \in Runs : tracking[r] \notin {"none", "done"}}
    /\ tracking' = [r \in Runs |-> IF tracking[r] = "none" THEN "none" ELSE "done"]
    /\ memory' = [r \in Runs |-> NoRecord]
    /\ liveRuns' = {}
    /\ killing' = [k \in Killers |-> NoKill]
    /\ UNCHANGED <<row, process, unfollowed, blind>>

CommandsNext ==
    \/ \E r \in Runs : Execute(r) \/ TrackStep(r) \/ ProcessEnds(r)
    \/ \E k \in Killers : KillStep(k) \/ \E r \in Runs : KillLooks(k, r)
    \/ Restart

CommandsSpec == CommandsInit /\ [][CommandsNext]_commandVars

----------------------------------------------------------------------------
(* Properties                                                              *)

(***************************************************************************)
(* The object and the row are two copies of a run, written by its task and *)
(* by kills (command_runs.rs:351-389, shell/mod.rs:277-357).  When the     *)
(* task is through, the row has the run's verdict and its report, unless   *)
(* the spawn or the wait failed, the desktop was restarted or a kill did   *)
(* not find the object.                                                    *)
(*                                                                         *)
(* The first verdict stays: a kill that comes after the exit is refused,   *)
(* an exit after a kill does not rename it.  Only a kill that did not find *)
(* the object in the registry (it reads the row before the process is      *)
(* registered, or the stale row of a run whose task is about to end it)    *)
(* can have its verdict overwritten or overwrite another.                  *)
(***************************************************************************)
VerdictsAreRecorded ==
    /\ [](\A r \in Runs \ (unfollowed \cup orphaned \cup blind) :
             tracking[r] = "done" => row[r].status \in Finished /\ row[r].reported)
    /\ [][\A r \in Runs \ blind :
             row[r].status \in Finished => row'[r].status = row[r].status]_commandVars

=============================================================================
