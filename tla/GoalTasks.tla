------------------------------ MODULE GoalTasks ------------------------------
(***************************************************************************)
(* The task service (crates/conductor-core/src/goal_tasks.rs) together     *)
(* with the task_claim leases it takes and gives back, under concurrent    *)
(* calls.  Callers are the tokio tasks that may be inside the module at    *)
(* once: handlers of the runtime API, the execution-signal watcher, the    *)
(* goal orchestrator, the threads that watch agent processes.              *)
(*                                                                         *)
(* Every operation is cut at its SQL statements.  Most of them have the    *)
(* shape  SELECT ; validate_task_transition ; [lease work] ; UPDATE WHERE  *)
(* id = ?  with no transaction, so the row may have changed by the time of *)
(* the UPDATE.  The operations and the order of their statements:          *)
(*                                                                         *)
(*   claim              read, check, insert, write                         *)
(*   start resume rework send_back       read, write                       *)
(*   complete accept fail block          read, find, release, write        *)
(*   writeback_blocked                   find, release, guarded write      *)
(*   writeback_review_ready              guarded write                     *)
(***************************************************************************)
EXTENDS LeaseTable, FiniteSets

CONSTANTS
    Callers,      \* concurrent invocations
    Operations,   \* the operations the callers use: a subset of AllOperations
    WorkspaceOf,  \* workspace_id of each task
    NoLease,      \* no lease found
    Nobody        \* claimed_by IS NULL

VARIABLES
    tasks,        \* the table agent_tasks
    leases,       \* the table work_leases
    calls         \* calls[c]: where c's current invocation has got to

vars == <<tasks, leases, calls>>

status == [t \in Tasks |-> tasks[t].status]

Lifecycle == INSTANCE TaskLifecycle

----------------------------------------------------------------------------
(* Operations and what they do to the row.                                 *)

\* The status an operation writes.
Target ==
    [ claim |-> "claimed", start |-> "running", complete |-> "accepted",
      accept |-> "accepted", fail |-> "failed", block |-> "blocked",
      resume |-> "queued", rework |-> "queued", send_back |-> "rework_required",
      writeback_blocked |-> "blocked", writeback_review_ready |-> "review_ready" ]

AllOperations == DOMAIN Target

ASSUME OperationsAssumption == Operations \subseteq AllOperations

ASSUME CallersAssumption == IsFiniteSet(Callers)

ASSUME WorkspaceAssumption == WorkspaceOf \in [Tasks -> Workspaces]

ASSUME NullAssumption ==
    Nobody \notin Holders /\ NoLease \notin LeaseIds /\ {} \in Scopes

\* Faulty: the blocked writeback, or all that is not a failure, keeps the lease.
ReleasingByTheUser == {"complete", "accept", "fail", "block"}
ReleasingOnFailure == {"fail", "block", "writeback_blocked"}

\* Operations that look for the claim's lease and release it.
Releasing == {"complete", "accept", "fail", "block", "writeback_blocked"}

\* Operations whose UPDATE says AND status = 'running'.
Guarded == {"writeback_blocked", "writeback_review_ready"}

\* The statement after the read.
AfterRead(op) ==
    CASE op = "claim"      -> "check"
      [] op \in Releasing  -> "find"
      [] OTHER             -> "write"

\* Operations that store a result_ref, and the one that clears it.
Storing == {"complete", "writeback_blocked", "writeback_review_ready"}
Clearing == {"resume"}

RowStatuses == Lifecycle!Statuses \cup Lifecycle!NoRowStatuses

TaskRows ==
    [ status : RowStatuses, claimed_by : Holders \cup {Nobody}, result : BOOLEAN ]

Steps == {"check", "insert", "find", "release", "write"}

\* pc is "idle" before the first call, "ok" or "err" after a call returned.
CallStates ==
    [ pc : Steps \cup {"idle", "ok", "err"}, op : AllOperations \cup {"none"},
      task : Tasks \cup {NoTask}, agent : Holders \cup {Nobody},
      lease : LeaseIds \cup {NoLease} ]

\* A caller that is not inside the module, and how its last call ended.
Outside(pc) ==
    [pc |-> pc, op |-> "none", task |-> NoTask, agent |-> Nobody, lease |-> NoLease]

InFlight(c) == calls[c].pc \in Steps

Quiet(t) == \A c \in Callers : InFlight(c) => calls[c].task # t

Present(t) == tasks[t].status \in Lifecycle!Statuses

\* What the arguments of a call in flight are.
WellFormed(call) ==
    call.pc \in Steps =>
        /\ call.op \in Operations /\ call.task \in Tasks
        /\ call.pc \in {"check", "insert"} => call.op = "claim"
        /\ call.pc \in {"find", "release"} => call.op \in Releasing
        /\ call.pc = "release" => call.lease \in LeaseIds
        /\ call.op = "claim" => call.agent \in Holders

TypeOK ==
    /\ tasks \in [Tasks -> TaskRows]
    /\ leases \in LeaseTables
    /\ calls \in [Callers -> CallStates]
    /\ \A c \in Callers : WellFormed(calls[c])

Init ==
    /\ tasks = [t \in Tasks |->
                   [status |-> "absent", claimed_by |-> Nobody, result |-> FALSE]]
    /\ leases = [l \in LeaseIds |-> NoRow]
    /\ calls = [c \in Callers |-> Outside("idle")]

----------------------------------------------------------------------------
(* Steps of an invocation.                                                 *)

Goto(c, pc) == calls' = [calls EXCEPT ![c].pc = pc]

Return(c, pc) == calls' = [calls EXCEPT ![c] = Outside(pc)]

ClaimRequest(t, a) ==
    [ workspace |-> WorkspaceOf[t], holder |-> a, task |-> t,
      type |-> "task_claim", scope |-> {} ]

\* Faulty: no operation validates the transition.
AdmitsAnything(op, t) == TRUE

\* The guarded operations read nothing first; the others validate.
Admits(op, t) == op \in Guarded \/ Lifecycle!Legal(tasks[t].status, Target[op])

\* The call arrives.  Operations with a leading SELECT read the row and
\* validate the transition in the same breath; the others go to their first
\* statement.  An absent row or an illegal transition is an error.
Begin(c, op, t, a) ==
    /\ ~InFlight(c)
    /\ \/ /\ Admits(op, t)
          /\ calls' = [calls EXCEPT ![c] =
                 [ pc |-> AfterRead(op), op |-> op, task |-> t,
                   agent |-> IF op = "claim" THEN a ELSE Nobody, lease |-> NoLease ]]
       \/ /\ ~Admits(op, t)
          /\ Return(c, "err")
    /\ UNCHANGED <<tasks, leases>>

\* Faulty: the claim does not look for conflicts, or takes no lease at all.
CheckNothing(c) ==
    /\ calls[c].pc = "check"
    /\ Goto(c, "insert")
    /\ UNCHANGED <<tasks, leases>>

CheckOnly(c) ==
    /\ calls[c].pc = "check"
    /\ LET req == ClaimRequest(calls[c].task, calls[c].agent)
       IN \/ Conflicts(leases, req) = {} /\ Goto(c, "write")
          \/ Conflicts(leases, req) # {} /\ Return(c, "err")
    /\ UNCHANGED <<tasks, leases>>

\* leases::acquire, the conflict check.
Check(c) ==
    /\ calls[c].pc = "check"
    /\ LET req == ClaimRequest(calls[c].task, calls[c].agent)
       IN \/ Conflicts(leases, req) = {} /\ Goto(c, "insert")
          \/ Conflicts(leases, req) # {} /\ Return(c, "err")
    /\ UNCHANGED <<tasks, leases>>

\* leases::acquire, the INSERT under a fresh id.
InsertLease(c, l) ==
    /\ calls[c].pc = "insert"
    /\ leases[l] = NoRow
    /\ leases' = Inserted(leases, l, ClaimRequest(calls[c].task, calls[c].agent))
    /\ Goto(c, "write")
    /\ UNCHANGED tasks

\* Faulty: releases the lease it did not find.
FindLeaseUnchecked(c) ==
    /\ calls[c].pc = "find"
    /\ LET claims == ActiveClaims(leases, calls[c].task)
       IN \/ claims = {} /\ Goto(c, "release")
          \/ \E l \in claims :
                calls' = [calls EXCEPT ![c].pc = "release", ![c].lease = l]
    /\ UNCHANGED <<tasks, leases>>

\* release_task_lease: SELECT ... LIMIT 1, no ORDER BY.
FindLease(c) ==
    /\ calls[c].pc = "find"
    /\ LET claims == ActiveClaims(leases, calls[c].task)
       IN \/ claims = {} /\ Goto(c, "write")
          \/ \E l \in claims :
                calls' = [calls EXCEPT ![c].pc = "release", ![c].lease = l]
    /\ UNCHANGED <<tasks, leases>>

\* release_task_lease: leases::release(&lid).await?  A lease that is no longer
\* active is an error, and the error ends the whole operation.
ReleaseLease(c) ==
    /\ calls[c].pc = "release"
    /\ \/ /\ CanRelease(leases, calls[c].lease)
          /\ leases' = WithStatus(leases, calls[c].lease, "released")
          /\ calls' = [calls EXCEPT ![c].pc = "write", ![c].lease = NoLease]
       \/ /\ ~CanRelease(leases, calls[c].lease)
          /\ Return(c, "err")
          /\ UNCHANGED leases
    /\ UNCHANGED tasks

\* The row as the operation's UPDATE leaves it.
Updated(row, op, a) ==
    [ status     |-> Target[op],
      claimed_by |-> IF op = "claim" THEN a ELSE row.claimed_by,
      result     |-> op \in Storing \/ (row.result /\ op \notin Clearing) ]

\* Faulty: the writebacks do not say AND status = 'running'.
MatchesAnyRow(op, t) == Present(t)

\* Does the UPDATE's WHERE clause find the row?
Matches(op, t) ==
    Present(t) /\ (op \in Guarded => tasks[t].status = "running")

\* The UPDATE.  Zero rows is an error: rows_affected() in the guarded
\* operations, the final get_task in the others.
Write(c) ==
    /\ calls[c].pc = "write"
    /\ LET t == calls[c].task  op == calls[c].op
       IN \/ /\ Matches(op, t)
             /\ tasks' = [tasks EXCEPT ![t] = Updated(@, op, calls[c].agent)]
             /\ Return(c, "ok")
          \/ /\ ~Matches(op, t)
             /\ Return(c, "err")
             /\ UNCHANGED tasks
    /\ UNCHANGED leases

\* The process dies, or the handler's future is dropped with its connection.
Crash(c) ==
    /\ InFlight(c)
    /\ Return(c, "idle")
    /\ UNCHANGED <<tasks, leases>>

Step(c) ==
    \/ Check(c)
    \/ \E l \in LeaseIds : InsertLease(c, l)
    \/ FindLease(c)
    \/ ReleaseLease(c)
    \/ Write(c)

----------------------------------------------------------------------------
(* Operations of one statement.                                            *)

CreateTask(t) ==
    /\ tasks[t].status = "absent"
    /\ tasks' = [tasks EXCEPT ![t].status = "proposed"]
    /\ UNCHANGED <<leases, calls>>

\* The row goes, its lease stays.
DeleteTask(t) ==
    /\ Present(t)
    /\ tasks' = [tasks EXCEPT ![t].status = "deleted"]
    /\ UNCHANGED <<leases, calls>>

Next ==
    \/ \E t \in Tasks : CreateTask(t) \/ DeleteTask(t)
    \/ \E c \in Callers :
        \/ \E op \in Operations, t \in Tasks, a \in Holders : Begin(c, op, t, a)
        \/ Step(c)
        \/ Crash(c)

Spec == Init /\ [][Next]_vars

----------------------------------------------------------------------------
(***************************************************************************)
(* Whoever a task says has claimed it did take out a lease on it: the      *)
(* INSERT of the lease comes before the UPDATE of the task in every        *)
(* interleaving, refusal and crash of claim_task (goal_tasks.rs:312-339).  *)
(***************************************************************************)
ClaimsAreBackedByLeases ==
    \A t \in Tasks : tasks[t].claimed_by # Nobody =>
        \E l \in Taken(leases) :
            /\ leases[l].req.task = t
            /\ leases[l].req.holder = tasks[t].claimed_by

(***************************************************************************)
(* No task gets past the queue, let alone to a result, without ever having *)
(* been claimed, although start, complete, fail, ... overwrite the status  *)
(* they read earlier without looking again.                                *)
(***************************************************************************)
WorkIsClaimed ==
    \A t \in Tasks :
        Present(t) /\ tasks[t].status \notin {"proposed", "queued"} =>
            tasks[t].claimed_by # Nobody

(***************************************************************************)
(* A task never has more active claims than there are concurrent callers:  *)
(* the surplus over one comes from claims that all passed the conflict     *)
(* check before the first INSERT (leases.rs:38-64), never from a claim     *)
(* that began later.  One caller at a time means at most one claim.        *)
(***************************************************************************)
ClaimsBoundedByCallers ==
    \A t \in Tasks :
        Cardinality(ActiveClaims(leases, t)) <= Cardinality(Callers)

(***************************************************************************)
(* A finished task on which no unguarded call is still in flight has its   *)
(* verdict for good: every call that arrives later is refused, or its      *)
(* UPDATE finds no running row.  Only a call that had read the row before  *)
(* the verdict can overwrite it.                                           *)
(***************************************************************************)
Pending(c, t) ==
    InFlight(c) /\ calls[c].task = t /\ calls[c].op \notin Guarded

Settled(t) ==
    /\ tasks[t].status \in Lifecycle!Terminal
    /\ \A c \in Callers : ~Pending(c, t)

VerdictStands ==
    \A t \in Tasks : Settled(t) =>
        \/ Settled(t)' /\ tasks'[t].status = tasks[t].status
        \/ tasks'[t].status = "deleted"

SettledTasksStaySettled == [][VerdictStands]_vars

(***************************************************************************)
(* With one caller at a time, a task that is blocked or finished holds no  *)
(* active claim, crashes included, so it can be claimed again once it is   *)
(* requeued: every path to these statuses releases the lease before the    *)
(* UPDATE.                                                                 *)
(***************************************************************************)
ParkedTasksHoldNoLease ==
    \A t \in Tasks :
        /\ Quiet(t)
        /\ tasks[t].status \in {"blocked"} \cup Lifecycle!Terminal
        => ActiveClaims(leases, t) = {}

(***************************************************************************)
(* With one caller at a time the service implements the transition table   *)
(* of validate_task_transition.                                            *)
(***************************************************************************)
ImplementsLifecycle == Lifecycle!Spec

(***************************************************************************)
(* What claim_task is tested to guarantee (goal_tasks.rs:863, 879-880):    *)
(* only one claim of a task succeeds.                                      *)
(***************************************************************************)
OneClaimPerTask ==
    \A t \in Tasks : Cardinality(ActiveClaims(leases, t)) <= 1

=============================================================================
