------------------------- MODULE TaskExecutionProofs -------------------------
(***************************************************************************)
(* Proofs about the task service of GoalTasks, for every number of tasks,  *)
(* leases, agents and concurrent callers, and about the runner and its     *)
(* executions that TaskExecution composes with it.                         *)
(***************************************************************************)
EXTENDS TaskExecution, FiniteSetTheorems, TLAPS

----------------------------------------------------------------------------
(* The table of validate_task_transition.                                  *)

(***************************************************************************)
(* No status that is in the table leads out of the finished ones, the ones *)
(* a claim starts from are unclaimed, and only a requeue leads back.       *)
(***************************************************************************)
LEMMA TransitionFacts ==
    ASSUME NEW from, NEW op \in AllOperations, Lifecycle!Legal(from, Target[op])
    PROVE  /\ from \in Lifecycle!Statuses \ Lifecycle!Terminal
           /\ from \in {"proposed", "queued"} =>
                 op \in {"claim", "resume", "rework"}
BY DEF AllOperations, Target, Lifecycle!Legal, Lifecycle!Targets,
       Lifecycle!Statuses, Lifecycle!Terminal

\* What the updates write is a status.
LEMMA TargetType ==
    \A op \in AllOperations : Target[op] \in Lifecycle!Statuses
BY DEF AllOperations, Target, Lifecycle!Statuses

----------------------------------------------------------------------------
(* Type correctness.                                                       *)

\* The request claim_task makes is one acquire may be called with.
LEMMA ClaimRequestType ==
    ASSUME NEW t \in Tasks, NEW a \in Holders
    PROVE  ClaimRequest(t, a) \in LeaseRequests
BY WorkspaceAssumption, NullAssumption
   DEF ClaimRequest, LeaseRequests, LeaseTypes

\* Changing one call, and nothing else, keeps the calls well typed.
LEMMA CallsType ==
    ASSUME TypeOK, NEW c \in Callers,
           NEW call \in CallStates, WellFormed(call),
           calls' = [calls EXCEPT ![c] = call]
    PROVE  /\ calls' \in [Callers -> CallStates]
           /\ \A d \in Callers : WellFormed(calls'[d])
BY DEF TypeOK

\* A returned call is well typed.
LEMMA OutsideType ==
    \A pc \in {"idle", "ok", "err"} :
        Outside(pc) \in CallStates /\ WellFormed(Outside(pc))
BY DEF Outside, CallStates, WellFormed, Steps

LEMMA ReturnType ==
    ASSUME TypeOK, NEW c \in Callers, NEW pc \in {"idle", "ok", "err"},
           Return(c, pc)
    PROVE  /\ calls' \in [Callers -> CallStates]
           /\ \A d \in Callers : WellFormed(calls'[d])
BY OutsideType, CallsType DEF Return

LEMMA GotoType ==
    ASSUME TypeOK, NEW c \in Callers, NEW pc \in {"insert", "write"},
           calls[c].pc \in Steps, pc = "insert" => calls[c].op = "claim",
           Goto(c, pc)
    PROVE  /\ calls' \in [Callers -> CallStates]
           /\ \A d \in Callers : WellFormed(calls'[d])
<1> DEFINE call == [calls[c] EXCEPT !.pc = pc]
<1>1. call \in CallStates /\ WellFormed(call)
  BY DEF TypeOK, CallStates, WellFormed, Steps
<1>2. calls' = [calls EXCEPT ![c] = call]
  BY DEF Goto, TypeOK
<1> QED
  BY <1>1, <1>2, CallsType

\* Every statement keeps the three tables well typed.
LEMMA TypeStep == TypeOK /\ [Next]_vars => TypeOK'
<1> SUFFICES ASSUME TypeOK, [Next]_vars PROVE TypeOK'
  OBVIOUS
<1>1. ASSUME NEW t \in Tasks, CreateTask(t) PROVE TypeOK'
  BY <1>1 DEF TypeOK, CreateTask, TaskRows, RowStatuses, Lifecycle!Statuses
<1>2. ASSUME NEW t \in Tasks, DeleteTask(t) PROVE TypeOK'
  BY <1>2 DEF TypeOK, DeleteTask, TaskRows, RowStatuses, Lifecycle!NoRowStatuses
<1>3. ASSUME NEW c \in Callers, NEW op \in Operations, NEW t \in Tasks,
             NEW a \in Holders, Begin(c, op, t, a)
      PROVE  TypeOK'
  <2> DEFINE call == [ pc |-> AfterRead(op), op |-> op, task |-> t,
                       agent |-> IF op = "claim" THEN a ELSE Nobody,
                       lease |-> NoLease ]
  <2>1. call \in CallStates /\ WellFormed(call)
    BY OperationsAssumption
       DEF CallStates, WellFormed, AfterRead, Steps, Releasing
  <2>2. CASE calls' = [calls EXCEPT ![c] = call]
    BY <1>3, <2>1, <2>2, CallsType DEF Begin, TypeOK
  <2>3. CASE Return(c, "err")
    BY <1>3, <2>3, ReturnType DEF Begin, TypeOK
  <2> QED
    BY <1>3, <2>2, <2>3 DEF Begin
<1>4. ASSUME NEW c \in Callers, Check(c) PROVE TypeOK'
  <2>1. calls[c].pc \in Steps /\ calls[c].op = "claim"
    BY <1>4 DEF Check, TypeOK, WellFormed, Steps
  <2>2. CASE Goto(c, "insert")
    BY <1>4, <2>1, <2>2, GotoType DEF Check, TypeOK
  <2>3. CASE Return(c, "err")
    BY <1>4, <2>3, ReturnType DEF Check, TypeOK
  <2> QED
    BY <1>4, <2>2, <2>3 DEF Check
<1>5. ASSUME NEW c \in Callers, NEW l \in LeaseIds, InsertLease(c, l)
      PROVE  TypeOK'
  <2>1. calls[c].pc \in Steps /\ calls[c].task \in Tasks /\ calls[c].agent \in Holders
    BY <1>5 DEF InsertLease, TypeOK, WellFormed, Steps
  <2>2. ClaimRequest(calls[c].task, calls[c].agent) \in LeaseRequests
    BY <2>1, ClaimRequestType
  <2>3. leases' \in LeaseTables
    BY <1>5, <2>2
       DEF InsertLease, Inserted, LeaseTables, LeaseRows, LeaseStatuses, TypeOK
  <2> QED
    BY <1>5, <2>1, <2>3, GotoType DEF InsertLease, TypeOK
<1>6. ASSUME NEW c \in Callers, FindLease(c) PROVE TypeOK'
  <2>1. calls[c].pc = "find" /\ calls[c].pc \in Steps
    BY <1>6 DEF FindLease, Steps
  <2>2. CASE Goto(c, "write")
    BY <1>6, <2>1, <2>2, GotoType DEF FindLease, TypeOK
  <2>3. ASSUME NEW l \in LeaseIds,
               calls' = [calls EXCEPT ![c].pc = "release", ![c].lease = l]
        PROVE  TypeOK'
    <3> DEFINE call == [calls[c] EXCEPT !.pc = "release", !.lease = l]
    <3>1. call \in CallStates /\ WellFormed(call)
      BY <2>1 DEF TypeOK, CallStates, WellFormed, Steps
    <3>2. calls' = [calls EXCEPT ![c] = call]
      BY <2>3 DEF TypeOK
    <3> QED
      BY <1>6, <3>1, <3>2, CallsType DEF FindLease, TypeOK
  <2> QED
    BY <1>6, <2>2, <2>3 DEF FindLease, ActiveClaims, ActiveLeases, Taken
<1>7. ASSUME NEW c \in Callers, ReleaseLease(c) PROVE TypeOK'
  <2>1. CASE Return(c, "err") /\ UNCHANGED leases
    BY <1>7, <2>1, ReturnType DEF ReleaseLease, TypeOK
  <2>2. CASE /\ CanRelease(leases, calls[c].lease)
             /\ leases' = WithStatus(leases, calls[c].lease, "released")
             /\ calls' = [calls EXCEPT ![c].pc = "write", ![c].lease = NoLease]
    <3> DEFINE call == [calls[c] EXCEPT !.pc = "write", !.lease = NoLease]
    <3>1. call \in CallStates /\ WellFormed(call)
      BY <1>7 DEF ReleaseLease, TypeOK, CallStates, WellFormed, Steps
    <3>2. calls' = [calls EXCEPT ![c] = call]
      BY <2>2 DEF TypeOK
    <3>3. leases' \in LeaseTables
      BY <2>2 DEF CanRelease, ActiveLeases, Taken, WithStatus, TypeOK,
                  LeaseTables, LeaseRows, LeaseStatuses
    <3> QED
      BY <1>7, <3>1, <3>2, <3>3, CallsType DEF ReleaseLease, TypeOK
  <2> QED
    BY <1>7, <2>1, <2>2 DEF ReleaseLease
<1>8. ASSUME NEW c \in Callers, Write(c) PROVE TypeOK'
  <2> DEFINE t == calls[c].task  op == calls[c].op
  <2>1. CASE Return(c, "err") /\ UNCHANGED tasks
    BY <1>8, <2>1, ReturnType DEF Write, TypeOK
  <2>2. CASE /\ tasks' = [tasks EXCEPT ![t] = Updated(@, op, calls[c].agent)]
             /\ Return(c, "ok")
    <3>1. t \in Tasks /\ op \in AllOperations
          /\ (op = "claim" => calls[c].agent \in Holders)
      BY <1>8, OperationsAssumption DEF Write, TypeOK, WellFormed, Steps
    <3>2. Updated(tasks[t], op, calls[c].agent) \in TaskRows
      BY <3>1, TargetType DEF Updated, TypeOK, TaskRows, RowStatuses
    <3>3. tasks' \in [Tasks -> TaskRows]
      BY <2>2, <3>1, <3>2 DEF TypeOK
    <3> QED
      BY <1>8, <2>2, <3>3, ReturnType DEF Write, TypeOK
  <2> QED
    BY <1>8, <2>1, <2>2 DEF Write
<1>9. ASSUME NEW c \in Callers, Crash(c) PROVE TypeOK'
  BY <1>9, ReturnType DEF Crash, TypeOK
<1>10. CASE UNCHANGED vars
  BY <1>10 DEF vars, TypeOK
<1> QED
  BY <1>1, <1>2, <1>3, <1>4, <1>5, <1>6, <1>7, <1>8, <1>9, <1>10
     DEF Next, Step

(***************************************************************************)
(* The three tables keep their types through every statement of every      *)
(* operation of goal_tasks.rs, crashes included.                           *)
(***************************************************************************)
THEOREM TypeCorrect == Spec => []TypeOK
<1>1. Init => TypeOK
  <2> SUFFICES ASSUME Init PROVE TypeOK
    OBVIOUS
  <2>1. tasks \in [Tasks -> TaskRows]
    BY DEF Init, TaskRows, RowStatuses, Lifecycle!NoRowStatuses
  <2>2. leases \in LeaseTables
    BY DEF Init, LeaseTables
  <2>3. calls \in [Callers -> CallStates] /\ \A c \in Callers : WellFormed(calls[c])
    BY OutsideType DEF Init
  <2> QED
    BY <2>1, <2>2, <2>3 DEF TypeOK
<1>2. TypeOK /\ [Next]_vars => TypeOK'
  BY TypeStep
<1> QED
  BY <1>1, <1>2, PTL DEF Spec

----------------------------------------------------------------------------
(* What a step may do to the tables.                                       *)

\* Rows of work_leases are never deleted, and what they were granted for
\* never changes: an UPDATE only sets the status.
LEMMA LeaseRowsStay ==
    ASSUME TypeOK, [Next]_vars, NEW l \in Taken(leases)
    PROVE  l \in Taken(leases') /\ leases'[l].req = leases[l].req
<1> USE DEF Taken
<1>1. ASSUME NEW c \in Callers, NEW k \in LeaseIds, InsertLease(c, k)
      PROVE  leases'[l] = leases[l]
  BY <1>1 DEF InsertLease, Inserted, TypeOK, LeaseTables
<1>2. ASSUME NEW c \in Callers, ReleaseLease(c)
      PROVE  leases'[l] # NoRow /\ leases'[l].req = leases[l].req
  <2>1. CASE UNCHANGED leases
    BY <2>1
  <2>2. CASE leases' = WithStatus(leases, calls[c].lease, "released")
    <3>1. leases[l] \in LeaseRows
      BY DEF TypeOK, LeaseTables
    <3>2. [leases[l] EXCEPT !.status = "released"] \in LeaseRows
      BY <3>1 DEF LeaseRows, LeaseStatuses
    <3>3. leases'[l] \in {leases[l], [leases[l] EXCEPT !.status = "released"]}
      BY <2>2 DEF WithStatus, TypeOK, LeaseTables
    <3> QED
      BY <3>1, <3>2, <3>3, NoRowAssumption DEF LeaseRows
  <2> QED
    BY <1>2, <2>1, <2>2 DEF ReleaseLease
<1>3. CASE UNCHANGED leases
  BY <1>3
<1> QED
  BY <1>1, <1>2, <1>3
     DEF Next, Step, Begin, Check, FindLease, Write, Crash, CreateTask,
         DeleteTask, vars

\* Only Begin and the UPDATE look at what a claim is for; claimed_by is set
\* by the UPDATE of claim_task and cleared by nothing.
LEMMA TaskRowsStep ==
    ASSUME TypeOK, [Next]_vars, NEW t \in Tasks
    PROVE  \/ /\ tasks'[t].claimed_by = tasks[t].claimed_by
              /\ tasks'[t].status \in {tasks[t].status, "proposed", "deleted"}
              /\ tasks'[t].status = "proposed" =>
                    tasks[t].status \in {"absent", "proposed"}
           \/ \E c \in Callers :
                 /\ calls[c].pc = "write" /\ calls[c].task = t
                 /\ Matches(calls[c].op, t)
                 /\ tasks'[t] = Updated(tasks[t], calls[c].op, calls[c].agent)
<1>1. ASSUME NEW u \in Tasks, CreateTask(u) \/ DeleteTask(u)
      PROVE  /\ tasks'[t].claimed_by = tasks[t].claimed_by
             /\ tasks'[t].status \in {tasks[t].status, "proposed", "deleted"}
             /\ tasks'[t].status = "proposed" =>
                   tasks[t].status \in {"absent", "proposed"}
  BY <1>1 DEF CreateTask, DeleteTask, TypeOK, TaskRows
<1>2. ASSUME NEW c \in Callers, Write(c)
      PROVE  \/ tasks'[t] = tasks[t]
             \/ /\ calls[c].pc = "write" /\ calls[c].task = t
                /\ Matches(calls[c].op, t)
                /\ tasks'[t] = Updated(tasks[t], calls[c].op, calls[c].agent)
  BY <1>2 DEF Write, TypeOK
<1>3. CASE UNCHANGED tasks
  BY <1>3
<1> QED
  BY <1>1, <1>2, <1>3
     DEF Next, Step, Begin, Check, InsertLease, FindLease, ReleaseLease, Crash, vars

\* The call c stays on its way with the arguments it began with; a claim
\* comes to its UPDATE by the INSERT of its lease.
KeepsArguments(c) ==
    /\ calls[c].pc \in Steps
    /\ calls'[c].op = calls[c].op
    /\ calls'[c].task = calls[c].task
    /\ calls'[c].agent = calls[c].agent
    /\ calls'[c].pc = "write" /\ calls[c].op = "claim" =>
          calls[c].pc = "write" \/ \E l \in LeaseIds : InsertLease(c, l)

\* The call c arrives in this step, and its SELECT admits it.
Arrives(c, op, t, a) ==
    /\ Admits(op, t)
    /\ tasks' = tasks
    /\ calls'[c] = [ pc |-> AfterRead(op), op |-> op, task |-> t,
                     agent |-> IF op = "claim" THEN a ELSE Nobody,
                     lease |-> NoLease ]

\* Every call that is in flight after a step has arrived in it, or was in
\* flight before with the same arguments.
LEMMA CallsStep ==
    ASSUME TypeOK, [Next]_vars, NEW c \in Callers, calls'[c].pc \in Steps
    PROVE  \/ KeepsArguments(c)
           \/ \E op \in Operations, t \in Tasks, a \in Holders : Arrives(c, op, t, a)
<1> USE DEF TypeOK, CallStates
<1>0. CASE calls'[c] = calls[c]
  BY <1>0 DEF KeepsArguments
<1>1. ASSUME NEW d \in Callers, NEW op \in Operations, NEW t \in Tasks,
             NEW a \in Holders, Begin(d, op, t, a)
      PROVE  calls'[c] = calls[c] \/ Arrives(c, op, t, a)
  BY <1>1 DEF Begin, Return, Outside, Steps, Arrives
<1>2. ASSUME NEW d \in Callers, Check(d)
      PROVE  calls'[c] = calls[c] \/ KeepsArguments(c)
  <2>1. CASE Goto(d, "insert")
    BY <1>2, <2>1 DEF Check, Goto, KeepsArguments, Steps
  <2>2. CASE Return(d, "err")
    BY <2>2 DEF Return, Outside, Steps
  <2> QED
    BY <1>2, <2>1, <2>2 DEF Check
<1>3. ASSUME NEW d \in Callers, NEW l \in LeaseIds, InsertLease(d, l)
      PROVE  calls'[c] = calls[c] \/ KeepsArguments(c)
  <2>1. CASE d # c
    BY <1>3, <2>1 DEF InsertLease, Goto
  <2>2. CASE d = c
    <3>1. /\ calls[c].pc \in Steps
          /\ calls'[c] = [calls[c] EXCEPT !.pc = "write"]
      BY <1>3, <2>2 DEF InsertLease, Goto, Steps
    <3>2. \E k \in LeaseIds : InsertLease(c, k)
      BY <1>3, <2>2
    <3> QED
      BY <3>1, <3>2 DEF KeepsArguments
  <2> QED
    BY <2>1, <2>2
<1>4. ASSUME NEW d \in Callers, FindLease(d)
      PROVE  calls'[c] = calls[c] \/ KeepsArguments(c)
  <2>1. calls[d].op # "claim" /\ calls[d].pc \in Steps
    BY <1>4 DEF FindLease, WellFormed, Releasing, Steps
  <2>2. CASE Goto(d, "write")
    BY <2>1, <2>2 DEF Goto, KeepsArguments
  <2>3. ASSUME NEW l \in LeaseIds,
               calls' = [calls EXCEPT ![d].pc = "release", ![d].lease = l]
        PROVE  calls'[c] = calls[c] \/ KeepsArguments(c)
    BY <2>1, <2>3 DEF KeepsArguments
  <2> QED
    BY <1>4, <2>2, <2>3 DEF FindLease, ActiveClaims, ActiveLeases, Taken
<1>5. ASSUME NEW d \in Callers, ReleaseLease(d)
      PROVE  calls'[c] = calls[c] \/ KeepsArguments(c)
  <2>1. calls[d].op # "claim" /\ calls[d].pc \in Steps
    BY <1>5 DEF ReleaseLease, WellFormed, Releasing, Steps
  <2>2. CASE Return(d, "err")
    BY <2>2 DEF Return, Outside, Steps
  <2>3. CASE calls' = [calls EXCEPT ![d].pc = "write", ![d].lease = NoLease]
    BY <2>1, <2>3 DEF KeepsArguments
  <2> QED
    BY <1>5, <2>2, <2>3 DEF ReleaseLease
<1>6. ASSUME NEW d \in Callers, Write(d) \/ Crash(d)
      PROVE  calls'[c] = calls[c]
  BY <1>6 DEF Write, Crash, Return, Outside, Steps
<1>7. CASE UNCHANGED calls
  BY <1>7, <1>0
<1> QED
  BY <1>0, <1>1, <1>2, <1>3, <1>4, <1>5, <1>6, <1>7
     DEF Next, Step, CreateTask, DeleteTask, vars

----------------------------------------------------------------------------
(* Claims are backed by leases.                                            *)

\* A lease on t has been taken out for a.
Backed(table, t, a) ==
    \E l \in Taken(table) : table[l].req.task = t /\ table[l].req.holder = a

\* ClaimsAreBackedByLeases, and a claim about to be written has its lease.
BackedInv ==
    /\ ClaimsAreBackedByLeases
    /\ \A c \in Callers :
          calls[c].pc = "write" /\ calls[c].op = "claim" =>
              Backed(leases, calls[c].task, calls[c].agent)

LEMMA BackedStays ==
    ASSUME TypeOK, [Next]_vars, NEW t, NEW a, Backed(leases, t, a)
    PROVE  Backed(leases', t, a)
BY LeaseRowsStay DEF Backed

(***************************************************************************)
(* A task's claimed_by names an agent that did take out a lease on it,     *)
(* whatever calls interleave with claim_task (goal_tasks.rs:312-339) and   *)
(* wherever they crash.                                                    *)
(***************************************************************************)
THEOREM ClaimsBacked == Spec => []ClaimsAreBackedByLeases
<1>1. Init => BackedInv
  BY DEF Init, BackedInv, ClaimsAreBackedByLeases, Outside
<1>2. TypeOK /\ BackedInv /\ [Next]_vars => BackedInv'
  <2> SUFFICES ASSUME TypeOK, BackedInv, [Next]_vars PROVE BackedInv'
    OBVIOUS
  <2>1. ASSUME NEW t \in Tasks, tasks'[t].claimed_by # Nobody
        PROVE  Backed(leases', t, tasks'[t].claimed_by)
    <3>1. CASE tasks'[t].claimed_by = tasks[t].claimed_by
      <4>1. Backed(leases, t, tasks[t].claimed_by)
        BY <2>1, <3>1 DEF BackedInv, ClaimsAreBackedByLeases, Backed
      <4> QED
        BY <3>1, <4>1, BackedStays DEF Backed
    <3>2. ASSUME NEW c \in Callers, calls[c].pc = "write", calls[c].task = t,
                 tasks'[t] = Updated(tasks[t], calls[c].op, calls[c].agent),
                 tasks'[t].claimed_by # tasks[t].claimed_by
          PROVE  Backed(leases', t, tasks'[t].claimed_by)
      <4>1. calls[c].op = "claim" /\ tasks'[t].claimed_by = calls[c].agent
        BY <3>2 DEF Updated
      <4>2. Backed(leases, t, calls[c].agent)
        BY <3>2, <4>1 DEF BackedInv
      <4> QED
        BY <4>1, <4>2, BackedStays DEF Backed
    <3> QED
      BY <3>1, <3>2, TaskRowsStep
  <2>2. ASSUME NEW c \in Callers, calls'[c].pc = "write", calls'[c].op = "claim"
        PROVE  Backed(leases', calls'[c].task, calls'[c].agent)
    <3>1. CASE KeepsArguments(c) /\ calls[c].pc = "write"
      <4>1. Backed(leases, calls[c].task, calls[c].agent)
        BY <2>2, <3>1 DEF KeepsArguments, BackedInv
      <4> QED
        BY <3>1, <4>1, BackedStays DEF KeepsArguments, Backed
    <3>2. ASSUME KeepsArguments(c), NEW l \in LeaseIds, InsertLease(c, l)
          PROVE  Backed(leases', calls'[c].task, calls'[c].agent)
      <4>1. leases'[l] = [ req |-> ClaimRequest(calls[c].task, calls[c].agent),
                          status |-> "active" ]
        BY <3>2 DEF InsertLease, Inserted, TypeOK, LeaseTables
      <4>2. leases'[l] # NoRow
        <5>1. calls[c].task \in Tasks /\ calls[c].agent \in Holders
          BY <3>2 DEF InsertLease, TypeOK, WellFormed, Steps
        <5> QED
          BY <4>1, <5>1, ClaimRequestType, NoRowAssumption
             DEF LeaseRows, LeaseStatuses
      <4> QED
        BY <3>2, <4>1, <4>2 DEF KeepsArguments, Backed, Taken, ClaimRequest
    <3>3. ASSUME NEW op, NEW t, NEW a, Arrives(c, op, t, a) PROVE FALSE
      BY <2>2, <3>3 DEF Arrives, AfterRead
    <3> QED
      BY <2>2, <3>1, <3>2, <3>3, CallsStep DEF KeepsArguments, Steps
  <2> QED
    BY <2>1, <2>2 DEF BackedInv, ClaimsAreBackedByLeases, Backed
<1>3. BackedInv => ClaimsAreBackedByLeases
  BY DEF BackedInv
<1> QED
  BY <1>1, <1>2, <1>3, TypeCorrect, PTL DEF Spec

----------------------------------------------------------------------------
(* Work is claimed.                                                        *)

\* Operations that may find a task nobody has claimed yet.
FromTheQueue == Guarded \cup {"claim", "resume", "rework"}

\* WorkIsClaimed, and so is the work a call in flight has read.
WorkInv ==
    /\ WorkIsClaimed
    /\ \A c \in Callers :
          InFlight(c) /\ calls[c].op \notin FromTheQueue =>
              tasks[calls[c].task].claimed_by # Nobody

\* A claim is never forgotten.
LEMMA ClaimedStays ==
    ASSUME TypeOK, [Next]_vars, NEW t \in Tasks, tasks[t].claimed_by # Nobody
    PROVE  tasks'[t].claimed_by # Nobody
<1>1. ASSUME NEW c \in Callers, calls[c].pc = "write",
             tasks'[t] = Updated(tasks[t], calls[c].op, calls[c].agent)
      PROVE  tasks'[t].claimed_by # Nobody
  BY <1>1, NullAssumption DEF TypeOK, WellFormed, Steps, Updated
<1> QED
  BY <1>1, TaskRowsStep

(***************************************************************************)
(* No task leaves the queue, let alone is finished, without having been    *)
(* claimed, although the UPDATEs of start, complete, accept, fail and      *)
(* block (goal_tasks.rs) do not look at the row again.                     *)
(***************************************************************************)
THEOREM WorkClaimed == Spec => []WorkIsClaimed
<1>1. Init => WorkInv
  BY DEF Init, WorkInv, WorkIsClaimed, InFlight, Outside, Steps, Present,
         Lifecycle!Statuses
<1>2. TypeOK /\ WorkInv /\ [Next]_vars => WorkInv'
  <2> SUFFICES ASSUME TypeOK, WorkInv, [Next]_vars PROVE WorkInv'
    OBVIOUS
  <2>1. ASSUME NEW t \in Tasks, tasks'[t].status \in Lifecycle!Statuses,
               tasks'[t].status \notin {"proposed", "queued"}
        PROVE  tasks'[t].claimed_by # Nobody
    <3>1. CASE /\ tasks'[t].claimed_by = tasks[t].claimed_by
               /\ tasks'[t].status \in {tasks[t].status, "proposed", "deleted"}
      <4>1. tasks[t].status = tasks'[t].status
        BY <2>1, <3>1 DEF Lifecycle!Statuses
      <4> QED
        BY <2>1, <3>1, <4>1 DEF WorkInv, WorkIsClaimed, Present
    <3>2. ASSUME NEW c \in Callers, calls[c].pc = "write", calls[c].task = t,
                 Matches(calls[c].op, t),
                 tasks'[t] = Updated(tasks[t], calls[c].op, calls[c].agent)
          PROVE  tasks'[t].claimed_by # Nobody
      <4>1. CASE calls[c].op = "claim"
        BY <3>2, <4>1, NullAssumption DEF Updated, TypeOK, WellFormed, Steps
      <4>2. CASE calls[c].op \in Guarded
        <5>1. tasks[t].claimed_by # Nobody
          BY <3>2, <4>2 DEF Matches, Present, WorkInv, WorkIsClaimed
        <5> QED
          BY <5>1, ClaimedStays
      <4>3. CASE calls[c].op \in {"resume", "rework"}
        BY <2>1, <3>2, <4>3 DEF Updated, Target
      <4>4. CASE calls[c].op \notin FromTheQueue
        <5>1. tasks[t].claimed_by # Nobody
          BY <3>2, <4>4 DEF WorkInv, InFlight, Steps
        <5> QED
          BY <5>1, ClaimedStays
      <4> QED
        BY <4>1, <4>2, <4>3, <4>4 DEF FromTheQueue
    <3> QED
      BY <3>1, <3>2, TaskRowsStep
  <2>2. ASSUME NEW c \in Callers, calls'[c].pc \in Steps,
               calls'[c].op \notin FromTheQueue
        PROVE  tasks'[calls'[c].task].claimed_by # Nobody
    <3>1. CASE KeepsArguments(c)
      <4>1. calls[c].task \in Tasks /\ tasks[calls[c].task].claimed_by # Nobody
        BY <2>2, <3>1 DEF KeepsArguments, WorkInv, InFlight, TypeOK, WellFormed
      <4> QED
        BY <3>1, <4>1, ClaimedStays DEF KeepsArguments
    <3>2. ASSUME NEW op \in Operations, NEW t \in Tasks, NEW a \in Holders,
                 Arrives(c, op, t, a)
          PROVE  tasks'[calls'[c].task].claimed_by # Nobody
      <4>1. op \notin FromTheQueue /\ calls'[c].task = t /\ tasks' = tasks
        BY <2>2, <3>2 DEF Arrives
      <4>2. Lifecycle!Legal(tasks[t].status, Target[op]) /\ op \in AllOperations
        BY <3>2, <4>1, OperationsAssumption DEF Arrives, Admits, FromTheQueue
      <4>3. /\ tasks[t].status \in Lifecycle!Statuses
            /\ tasks[t].status \notin {"proposed", "queued"}
        BY <4>1, <4>2, TransitionFacts DEF FromTheQueue
      <4> QED
        BY <4>1, <4>3 DEF WorkInv, WorkIsClaimed, Present
    <3> QED
      BY <2>2, <3>1, <3>2, CallsStep
  <2> QED
    BY <2>1, <2>2 DEF WorkInv, WorkIsClaimed, InFlight, Present
<1>3. WorkInv => WorkIsClaimed
  BY DEF WorkInv
<1> QED
  BY <1>1, <1>2, <1>3, TypeCorrect, PTL DEF Spec

----------------------------------------------------------------------------
(* Verdicts stand once nobody can overwrite them.                          *)

(***************************************************************************)
(* accepted, failed and cancelled have no successor in the table, and the  *)
(* guarded writebacks find no running row: only a call that had read the   *)
(* row before the verdict can overwrite it (goal_tasks.rs:476-501, 1130).  *)
(***************************************************************************)
THEOREM SettledStays == Spec => SettledTasksStaySettled
<1>1. TypeOK /\ [Next]_vars => VerdictStands
  <2> SUFFICES ASSUME TypeOK, [Next]_vars,
                      NEW t \in Tasks, Settled(t), tasks'[t].status # "deleted"
               PROVE  Settled(t)' /\ tasks'[t].status = tasks[t].status
    BY DEF VerdictStands
  <2>1. tasks[t].status \in Lifecycle!Terminal
    BY DEF Settled
  <2>2. tasks'[t].status = tasks[t].status
    <3>1. ASSUME NEW c \in Callers, calls[c].pc = "write", calls[c].task = t,
                 Matches(calls[c].op, t)
          PROVE  FALSE
      <4>1. calls[c].op \notin Guarded
        BY <2>1, <3>1 DEF Matches, Lifecycle!Terminal
      <4> QED
        BY <3>1, <4>1 DEF Settled, Pending, InFlight, Steps
    <3> QED
      BY <2>1, <3>1, TaskRowsStep DEF Lifecycle!Terminal
  <2>3. ASSUME NEW c \in Callers, Pending(c, t)' PROVE FALSE
    <3>1. /\ calls'[c].pc \in Steps /\ calls'[c].task = t
          /\ calls'[c].op \notin Guarded
      BY <2>3 DEF Pending, InFlight
    <3>2. CASE KeepsArguments(c)
      BY <3>1, <3>2 DEF KeepsArguments, Settled, Pending, InFlight
    <3>3. ASSUME NEW op \in Operations, NEW u \in Tasks, NEW a \in Holders,
                 Arrives(c, op, u, a)
          PROVE  FALSE
      <4>1. op \in AllOperations /\ Lifecycle!Legal(tasks[t].status, Target[op])
        BY <3>1, <3>3, OperationsAssumption DEF Arrives, Admits
      <4> QED
        BY <2>1, <4>1, TransitionFacts
    <3> QED
      BY <3>1, <3>2, <3>3, CallsStep
  <2> QED
    BY <2>1, <2>2, <2>3 DEF Settled
<1>2. TypeOK /\ [Next]_vars => [VerdictStands]_vars
  BY <1>1
<1> QED
  BY <1>2, TypeCorrect, PTL DEF Spec, SettledTasksStaySettled

----------------------------------------------------------------------------
(* Claims are bounded by the callers that may race.                        *)

\* The callers that have passed the conflict check of a claim of t.
Inserting(t) == {c \in Callers : calls[c].pc = "insert" /\ calls[c].task = t}

\* Every lease is a claim that claim_task has asked for.
ClaimRows ==
    \A l \in Taken(leases) :
        /\ leases[l].req.task \in Tasks
        /\ leases[l].req.workspace = WorkspaceOf[leases[l].req.task]

\* The claims of a task that are, or can still become, active.
ClaimBound(t) ==
    /\ IsFiniteSet(ActiveClaims(leases, t))
    /\ Cardinality(ActiveClaims(leases, t)) + Cardinality(Inserting(t))
          <= Cardinality(Callers)

BoundInv == ClaimRows /\ \A t \in Tasks : ClaimBound(t)

\* A finite set of at most one element has no two.
LEMMA NoTwoInOne ==
    ASSUME NEW S, IsFiniteSet(S), Cardinality(S) <= 1
    PROVE  \A x, y \in S : x = y
<1>1. Cardinality(S) = 0 \/ Cardinality(S) = 1
  BY FS_CardinalityType
<1>2. S = {} \/ \E x : S = {x}
  BY <1>1, FS_EmptySet, FS_Singleton
<1> QED
  BY <1>2

LEMMA InsertingFinite ==
    \A t : /\ IsFiniteSet(Inserting(t))
           /\ Cardinality(Inserting(t)) \in Nat
           /\ Cardinality(Inserting(t)) <= Cardinality(Callers)
           /\ Cardinality(Callers) \in Nat
BY CallersAssumption, FS_Subset, FS_CardinalityType DEF Inserting

\* A step that adds neither a claim nor an insert keeps the bound.
LEMMA BoundShrinks ==
    ASSUME NEW t \in Tasks, ClaimBound(t),
           ActiveClaims(leases', t) \subseteq ActiveClaims(leases, t),
           Inserting(t)' \subseteq Inserting(t)
    PROVE  ClaimBound(t)'
<1>1. /\ IsFiniteSet(ActiveClaims(leases', t))
      /\ Cardinality(ActiveClaims(leases', t)) <= Cardinality(ActiveClaims(leases, t))
  BY FS_Subset DEF ClaimBound
<1>2. Cardinality(Inserting(t)') <= Cardinality(Inserting(t))
  BY InsertingFinite, FS_Subset
<1>3. /\ Cardinality(ActiveClaims(leases, t)) \in Nat
      /\ Cardinality(ActiveClaims(leases', t)) \in Nat
      /\ Cardinality(Inserting(t)) \in Nat
      /\ Cardinality(Inserting(t)') \in Nat
      /\ Cardinality(Callers) \in Nat
  BY <1>1, InsertingFinite, FS_CardinalityType, FS_Subset DEF ClaimBound
<1> QED
  BY <1>1, <1>2, <1>3 DEF ClaimBound

\* A check that passes finds no active claim of its task.
LEMMA CheckFindsNoClaim ==
    ASSUME TypeOK, ClaimRows, NEW c \in Callers, calls[c].pc = "check",
           Conflicts(leases, ClaimRequest(calls[c].task, calls[c].agent)) = {}
    PROVE  ActiveClaims(leases, calls[c].task) = {}
<1>1. calls[c].task \in Tasks
  BY DEF TypeOK, WellFormed, Steps
<1> QED
  BY <1>1, NoTaskAssumption
     DEF ClaimRows, Conflicts, Clash, ClaimRequest, ActiveClaims, ActiveLeases

\* Only the INSERT of a claim adds a row, and it is a row of this kind.
LEMMA ClaimRowsStep ==
    ASSUME TypeOK, ClaimRows, [Next]_vars
    PROVE  ClaimRows'
<1>1. ASSUME NEW c \in Callers, NEW l \in LeaseIds, InsertLease(c, l)
      PROVE  ClaimRows'
  <2>1. calls[c].task \in Tasks
    BY <1>1 DEF InsertLease, TypeOK, WellFormed, Steps
  <2> QED
    BY <1>1, <2>1
       DEF InsertLease, Inserted, ClaimRows, Taken, ClaimRequest,
           TypeOK, LeaseTables
<1>2. CASE Taken(leases') \subseteq Taken(leases)
  BY <1>2, LeaseRowsStay DEF ClaimRows
<1>3. ASSUME NEW c \in Callers, ReleaseLease(c)
      PROVE  Taken(leases') \subseteq Taken(leases)
  BY <1>3 DEF ReleaseLease, CanRelease, ActiveLeases, Taken, WithStatus,
              TypeOK, LeaseTables
<1>4. CASE UNCHANGED leases
  BY <1>2, <1>4
<1> QED
  BY <1>1, <1>2, <1>3, <1>4
     DEF Next, Step, Begin, Check, FindLease, Write, Crash, CreateTask,
         DeleteTask, vars

\* A release takes its lease off the active ones, and no other.
LEMMA ReleaseShrinks ==
    ASSUME TypeOK, NEW c \in Callers, ReleaseLease(c), NEW t
    PROVE  /\ ActiveClaims(leases', t) \subseteq ActiveClaims(leases, t)
           /\ calls'[c].pc = "write" => calls[c].lease \notin ActiveClaims(leases', t)
<1>1. CASE UNCHANGED leases /\ Return(c, "err")
  BY <1>1 DEF Return, Outside, TypeOK
<1>2. CASE /\ CanRelease(leases, calls[c].lease)
           /\ leases' = WithStatus(leases, calls[c].lease, "released")
  <2> DEFINE k == calls[c].lease
  <2>1. leases[k] \in LeaseRows
    BY <1>2 DEF CanRelease, ActiveLeases, Taken, TypeOK, LeaseTables
  <2>2. leases'[k].status = "released"
    BY <1>2, <2>1 DEF CanRelease, ActiveLeases, Taken, WithStatus, TypeOK,
                      LeaseTables, LeaseRows
  <2>3. \A l \in LeaseIds : l # k => leases'[l] = leases[l]
    BY <1>2 DEF WithStatus, TypeOK, LeaseTables
  <2> QED
    BY <2>2, <2>3 DEF ActiveClaims, ActiveLeases, Taken
<1> QED
  BY <1>1, <1>2 DEF ReleaseLease

\* The INSERT turns a pending claim into an active one.
LEMMA InsertKeepsBound ==
    ASSUME TypeOK, NEW c \in Callers, NEW l \in LeaseIds, InsertLease(c, l),
           NEW t \in Tasks, calls[c].task = t, ClaimBound(t)
    PROVE  ClaimBound(t)'
<1> DEFINE active == ActiveClaims(leases, t)
           pending == Inserting(t)
<1>1. c \in pending /\ Inserting(t)' = pending \ {c}
  BY DEF InsertLease, Goto, Inserting, TypeOK, CallStates
<1>2. l \notin active /\ ActiveClaims(leases', t) \subseteq active \cup {l}
  BY DEF InsertLease, Inserted, ActiveClaims, ActiveLeases, Taken, TypeOK, LeaseTables
<1>3. /\ IsFiniteSet(active \cup {l})
      /\ Cardinality(active \cup {l}) = Cardinality(active) + 1
  BY <1>2, FS_AddElement DEF ClaimBound
<1>4. Cardinality(pending \ {c}) = Cardinality(pending) - 1
  BY <1>1, InsertingFinite, FS_RemoveElement
<1>5. /\ IsFiniteSet(ActiveClaims(leases', t))
      /\ Cardinality(ActiveClaims(leases', t)) <= Cardinality(active) + 1
  BY <1>2, <1>3, FS_Subset
<1>6. /\ Cardinality(active) \in Nat /\ Cardinality(pending) \in Nat
      /\ Cardinality(ActiveClaims(leases', t)) \in Nat
      /\ Cardinality(Callers) \in Nat
  BY <1>5, InsertingFinite, FS_CardinalityType DEF ClaimBound
<1>7. Cardinality(active) + Cardinality(pending) <= Cardinality(Callers)
  BY DEF ClaimBound
<1>8. Cardinality(ActiveClaims(leases', t)) + Cardinality(pending \ {c})
        <= Cardinality(Callers)
  BY <1>4, <1>5, <1>6, <1>7
<1> QED
  BY <1>1, <1>5, <1>8 DEF ClaimBound

\* The bound is an invariant.
LEMMA BoundHolds == Spec => []BoundInv
<1>1. Init => BoundInv
  <2> SUFFICES ASSUME Init PROVE BoundInv
    OBVIOUS
  <2>1. Taken(leases) = {}
    BY DEF Init, Taken
  <2>2. ASSUME NEW t \in Tasks PROVE ClaimBound(t)
    <3>1. ActiveClaims(leases, t) = {}
      BY <2>1 DEF ActiveClaims, ActiveLeases
    <3> QED
      BY <3>1, FS_EmptySet, InsertingFinite DEF ClaimBound
  <2> QED
    BY <2>1, <2>2 DEF BoundInv, ClaimRows
<1>2. TypeOK /\ BoundInv /\ [Next]_vars => BoundInv'
  <2> SUFFICES ASSUME TypeOK, BoundInv, [Next]_vars PROVE BoundInv'
    OBVIOUS
  <2>1. ClaimRows'
    BY ClaimRowsStep DEF BoundInv
  <2>2. ASSUME NEW t \in Tasks PROVE ClaimBound(t)'
    <3>0. ClaimBound(t) /\ ClaimRows
      BY DEF BoundInv
    <3>1. ASSUME NEW c \in Callers, Check(c) PROVE ClaimBound(t)'
      <4>1. CASE calls[c].task # t \/ ~Goto(c, "insert")
        <5>1. Inserting(t)' \subseteq Inserting(t)
          BY <3>1, <4>1 DEF Check, Goto, Return, Outside, Inserting, TypeOK, CallStates
        <5> QED
          BY <3>0, <3>1, <5>1, BoundShrinks DEF Check
      <4>2. CASE calls[c].task = t /\ Goto(c, "insert")
        <5>1. Conflicts(leases, ClaimRequest(t, calls[c].agent)) = {}
          BY <3>1, <4>2 DEF Check, Goto, Return, Outside, TypeOK, CallStates
        <5>2. ActiveClaims(leases', t) = {}
          BY <3>0, <3>1, <4>2, <5>1, CheckFindsNoClaim DEF Check
        <5>3. /\ Cardinality(Inserting(t)') \in Nat
              /\ Cardinality(Inserting(t)') <= Cardinality(Callers)
          BY CallersAssumption, FS_Subset, FS_CardinalityType DEF Inserting
        <5> QED
          BY <5>2, <5>3, FS_EmptySet DEF ClaimBound
      <4> QED
        BY <4>1, <4>2
    <3>2. ASSUME NEW c \in Callers, NEW l \in LeaseIds, InsertLease(c, l)
          PROVE  ClaimBound(t)'
      <4>1. CASE calls[c].task = t
        BY <3>0, <3>2, <4>1, InsertKeepsBound
      <4>2. CASE calls[c].task # t
        <5>1. Inserting(t)' \subseteq Inserting(t)
          BY <3>2, <4>2 DEF InsertLease, Goto, Inserting, TypeOK, CallStates
        <5>2. ActiveClaims(leases', t) \subseteq ActiveClaims(leases, t)
          BY <3>2, <4>2
             DEF InsertLease, Inserted, ClaimRequest, ActiveClaims, ActiveLeases,
                 Taken, TypeOK, LeaseTables
        <5> QED
          BY <3>0, <5>1, <5>2, BoundShrinks
      <4> QED
        BY <4>1, <4>2
    <3>3. ASSUME NEW c \in Callers, ReleaseLease(c) PROVE ClaimBound(t)'
      <4>1. Inserting(t)' \subseteq Inserting(t)
        BY <3>3 DEF ReleaseLease, Return, Outside, Inserting, TypeOK, CallStates
      <4>2. ActiveClaims(leases', t) \subseteq ActiveClaims(leases, t)
        BY <3>3, ReleaseShrinks
      <4> QED
        BY <3>0, <4>1, <4>2, BoundShrinks
    <3>4. ASSUME NEW c \in Callers,
                 NEW op \in Operations, NEW u \in Tasks, NEW a \in Holders,
                 Begin(c, op, u, a)
          PROVE  ClaimBound(t)'
      <4>1. Inserting(t)' \subseteq Inserting(t)
        BY <3>4 DEF Begin, Return, Outside, AfterRead, Inserting, TypeOK, CallStates
      <4> QED
        BY <3>0, <3>4, <4>1, BoundShrinks DEF Begin
    <3>5. ASSUME NEW c \in Callers, FindLease(c) \/ Write(c) \/ Crash(c)
          PROVE  ClaimBound(t)'
      <4>1. Inserting(t)' \subseteq Inserting(t)
        BY <3>5 DEF FindLease, Write, Crash, Goto, Return, Outside, Inserting,
                    TypeOK, CallStates
      <4> QED
        BY <3>0, <3>5, <4>1, BoundShrinks DEF FindLease, Write, Crash
    <3>6. CASE UNCHANGED <<leases, calls>>
      BY <3>0, <3>6, BoundShrinks DEF Inserting
    <3> QED
      BY <3>1, <3>2, <3>3, <3>4, <3>5, <3>6
         DEF Next, Step, CreateTask, DeleteTask, vars
  <2> QED
    BY <2>1, <2>2 DEF BoundInv
<1> QED
  BY <1>1, <1>2, TypeCorrect, PTL DEF Spec

(***************************************************************************)
(* A task never has more active claims than there are concurrent callers:  *)
(* surplus claims come only from claim_task calls that had all passed      *)
(* check_conflicts before the first INSERT (leases.rs:38-64).              *)
(***************************************************************************)
THEOREM ClaimsBounded == Spec => []ClaimsBoundedByCallers
<1>1. BoundInv => ClaimsBoundedByCallers
  <2> SUFFICES ASSUME NEW t \in Tasks, ClaimBound(t)
               PROVE  Cardinality(ActiveClaims(leases, t)) <= Cardinality(Callers)
    BY DEF BoundInv, ClaimsBoundedByCallers
  <2> QED
    BY InsertingFinite, FS_CardinalityType DEF ClaimBound
<1> QED
  BY <1>1, BoundHolds, PTL

(***************************************************************************)
(* With one call at a time a task has at most one active claim: the        *)
(* exclusivity of claim_task fails only under concurrent calls.            *)
(***************************************************************************)
COROLLARY SerialClaimsAreExclusive ==
    ASSUME Cardinality(Callers) = 1
    PROVE  Spec => []OneClaimPerTask
<1>1. ClaimsBoundedByCallers => OneClaimPerTask
  BY DEF ClaimsBoundedByCallers, OneClaimPerTask
<1> QED
  BY <1>1, ClaimsBounded, PTL


----------------------------------------------------------------------------
(* One call at a time.                                                     *)

OneCaller == \A c, d \in Callers : c = d

LEMMA AloneIsOne == Cardinality(Callers) = 1 => OneCaller
BY CallersAssumption, FS_Singleton DEF OneCaller

\* What an unguarded call was allowed by the row it read is still allowed, or
\* the row is gone: nobody else moves the task meanwhile.
ReadsStand ==
    \A c \in Callers :
        InFlight(c) /\ calls[c].op \notin Guarded =>
            \/ tasks[calls[c].task].status = "deleted"
            \/ Lifecycle!Legal(tasks[calls[c].task].status, Target[calls[c].op])

LEMMA ReadsStandStep ==
    ASSUME OneCaller, TypeOK, ReadsStand, [Next]_vars
    PROVE  ReadsStand'
<1> SUFFICES ASSUME NEW c \in Callers, InFlight(c)', calls'[c].op \notin Guarded
             PROVE  \/ tasks'[calls'[c].task].status = "deleted"
                    \/ Lifecycle!Legal(tasks'[calls'[c].task].status, Target[calls'[c].op])
  BY DEF ReadsStand, InFlight
<1> DEFINE t == calls[c].task
<1>1. ASSUME NEW op \in Operations, NEW u \in Tasks, NEW a \in Holders, Arrives(c, op, u, a)
      PROVE  Lifecycle!Legal(tasks'[calls'[c].task].status, Target[calls'[c].op])
  BY <1>1 DEF Arrives, Admits
<1>2. CASE KeepsArguments(c)
  <2>1. /\ calls'[c].task = t /\ calls'[c].op = calls[c].op /\ t \in Tasks
        /\ \/ tasks[t].status = "deleted"
           \/ Lifecycle!Legal(tasks[t].status, Target[calls[c].op])
    BY <1>2 DEF KeepsArguments, ReadsStand, InFlight, TypeOK, WellFormed
  <2>2. tasks[t].status # "absent"
    BY <2>1 DEF Lifecycle!Legal, Lifecycle!Statuses
  <2>3. ASSUME NEW u \in Tasks, CreateTask(u) \/ DeleteTask(u)
        PROVE  tasks'[t].status \in {tasks[t].status, "deleted"}
    BY <2>1, <2>2, <2>3 DEF CreateTask, DeleteTask, TypeOK, TaskRows
  <2>4. ASSUME NEW d \in Callers, Write(d)
        PROVE  FALSE
    BY <2>4 DEF OneCaller, Write, Return, Outside, InFlight, Steps, TypeOK
  <2>5. UNCHANGED tasks => tasks'[t].status = tasks[t].status
    OBVIOUS
  <2>6. tasks'[t].status \in {tasks[t].status, "deleted"}
    BY <2>3, <2>4, <2>5
       DEF Next, Step, Begin, Check, InsertLease, FindLease, ReleaseLease, Crash, vars
  <2> QED
    BY <2>1, <2>6
<1> QED
  BY <1>1, <1>2, CallsStep DEF InFlight

\* A step of the service is a step along the table of
\* validate_task_transition, or one the table does not see.
LEMMA StepFollowsLifecycle ==
    ASSUME TypeOK, ReadsStand, [Next]_vars
    PROVE  [Lifecycle!Next]_status
<1>1. ASSUME NEW t \in Tasks, CreateTask(t) PROVE Lifecycle!Create(t)
  BY <1>1 DEF CreateTask, Lifecycle!Create, status, TypeOK, TaskRows
<1>2. ASSUME NEW t \in Tasks, DeleteTask(t) PROVE Lifecycle!Delete(t)
  BY <1>2 DEF DeleteTask, Present, Lifecycle!Delete, status, TypeOK, TaskRows
<1>3. ASSUME NEW c \in Callers, Write(c), tasks' # tasks
      PROVE  \E t \in Tasks : \E to \in Lifecycle!Statuses : Lifecycle!Move(t, to)
  <2> DEFINE t == calls[c].task
             op == calls[c].op
             to == Target[op]
  <2>1. /\ t \in Tasks /\ op \in AllOperations /\ Matches(op, t)
        /\ tasks' = [tasks EXCEPT ![t] = Updated(@, op, calls[c].agent)]
    BY <1>3, OperationsAssumption DEF Write, TypeOK, WellFormed, Steps
  <2>2. to \in Lifecycle!Statuses
    BY <2>1, TargetType
  <2>3. Lifecycle!Legal(tasks[t].status, to)
    <3>1. CASE op \in Guarded
      BY <2>1, <3>1 DEF Matches, Guarded, Target, Lifecycle!Legal, Lifecycle!Targets,
                        Lifecycle!Statuses
    <3>2. CASE op \notin Guarded
      <4>1. tasks[t].status # "deleted"
        BY <2>1 DEF Matches, Present, Lifecycle!Statuses
      <4> QED
        BY <1>3, <3>2, <4>1 DEF ReadsStand, InFlight, Write, Steps
    <3> QED
      BY <3>1, <3>2
  <2>4. status' = [status EXCEPT ![t] = to]
    <3>1. \A u \in Tasks : tasks'[u].status = IF u = t THEN to ELSE tasks[u].status
      BY <2>1 DEF Updated, TypeOK, TaskRows
    <3> QED
      BY <2>1, <3>1 DEF status
  <2>5. status[t] = tasks[t].status
    BY <2>1 DEF status
  <2> QED
    BY <2>1, <2>2, <2>3, <2>4, <2>5 DEF Lifecycle!Move
<1>4. CASE UNCHANGED tasks
  BY <1>4 DEF status
<1> QED
  BY <1>1, <1>2, <1>3, <1>4
     DEF Next, Step, Begin, Check, InsertLease, FindLease, ReleaseLease, Crash, vars,
         Lifecycle!Next

(***************************************************************************)
(* With one call at a time the service implements the table of             *)
(* validate_task_transition: every step maps to a move along the table, a  *)
(* creation, a deletion or a stutter.  An operation may find its row gone, *)
(* never moved.                                                            *)
(***************************************************************************)
THEOREM SerialCallsFollowLifecycle ==
    ASSUME Cardinality(Callers) = 1
    PROVE  Spec => ImplementsLifecycle
<1>0. OneCaller
  BY AloneIsOne
<1>1. Init => ReadsStand /\ Lifecycle!Init
  BY DEF Init, ReadsStand, InFlight, Outside, Steps, Lifecycle!Init, status
<1>2. TypeOK /\ ReadsStand /\ [Next]_vars => ReadsStand'
  BY <1>0, ReadsStandStep
<1>3. TypeOK /\ ReadsStand /\ [Next]_vars => [Lifecycle!Next]_status
  BY StepFollowsLifecycle
<1> QED
  BY <1>1, <1>2, <1>3, TypeCorrect, PTL DEF Spec, ImplementsLifecycle, Lifecycle!Spec

Parked == {"blocked"} \cup Lifecycle!Terminal

\* What a parked task and a call on its way there know of the task's claim;
\* a claim under way works on a task that is not parked.
ParkedInv ==
    /\ \A t \in Tasks : tasks[t].status \in Parked => ActiveClaims(leases, t) = {}
    /\ \A c \in Callers :
          /\ calls[c].pc = "release" =>
                ActiveClaims(leases, calls[c].task) \subseteq {calls[c].lease}
          /\ calls[c].pc = "write" /\ calls[c].op \in Releasing =>
                ActiveClaims(leases, calls[c].task) = {}

\* Only operations that have released the claim park a task.
LEMMA ParkingReleases ==
    \A op \in AllOperations : Target[op] \in Parked => op \in Releasing
BY DEF AllOperations, Target, Parked, Lifecycle!Terminal, Releasing

\* A claim that may be inserted is one of a task that is not parked.
LEMMA ClaimsStartUnparked ==
    ASSUME TypeOK, ReadsStand, NEW c \in Callers, calls[c].pc = "insert"
    PROVE  tasks[calls[c].task].status \notin Parked
<1>1. calls[c].op = "claim" /\ InFlight(c)
  BY DEF TypeOK, WellFormed, InFlight, Steps
<1>2. \/ tasks[calls[c].task].status = "deleted"
      \/ Lifecycle!Legal(tasks[calls[c].task].status, "claimed")
  BY <1>1 DEF ReadsStand, Guarded, Target
<1> QED
  BY <1>2 DEF Parked, Lifecycle!Legal, Lifecycle!Targets, Lifecycle!Terminal,
              Lifecycle!Statuses

LEMMA ParkedStep ==
    ASSUME OneCaller, TypeOK, ReadsStand, OneClaimPerTask,
           \A t \in Tasks : IsFiniteSet(ActiveClaims(leases, t)),
           ParkedInv, [Next]_vars
    PROVE  ParkedInv'
<1> USE DEF ParkedInv
\* Steps that leave the tasks, or park none, and add no claim.
<1>0. ASSUME \A t \in Tasks : /\ ActiveClaims(leases', t) \subseteq ActiveClaims(leases, t)
                              /\ tasks'[t].status \in Parked =>
                                    \/ tasks[t].status \in Parked
                                    \/ ActiveClaims(leases, t) = {}
      PROVE  \A t \in Tasks : tasks'[t].status \in Parked => ActiveClaims(leases', t) = {}
  BY <1>0
<1>1. ASSUME NEW t \in Tasks, CreateTask(t) \/ DeleteTask(t)
      PROVE  ParkedInv'
  <2>1. \A u \in Tasks : tasks'[u].status \in Parked => tasks[u].status \in Parked
    BY <1>1 DEF CreateTask, DeleteTask, TypeOK, TaskRows, Parked, Lifecycle!Terminal
  <2>2. leases' = leases /\ calls' = calls
    BY <1>1 DEF CreateTask, DeleteTask
  <2> QED
    BY <2>1, <2>2
\* The other steps are the caller's, and there is one.
<1>2. ASSUME NEW c \in Callers, leases' = leases, tasks' = tasks,
             calls' = [calls EXCEPT ![c] = calls'[c]],
             calls'[c].pc \notin {"release", "write"}
      PROVE  ParkedInv'
  BY <1>2 DEF OneCaller, TypeOK
<1>3. ASSUME NEW c \in Callers, NEW op \in Operations, NEW t \in Tasks, NEW a \in Holders,
             Begin(c, op, t, a)
      PROVE  ParkedInv'
  <2>1. leases' = leases /\ tasks' = tasks
    BY <1>3 DEF Begin
  <2>2. ~(calls'[c].pc = "write" /\ calls'[c].op \in Releasing) /\ calls'[c].pc # "release"
    BY <1>3 DEF Begin, AfterRead, Return, Outside, TypeOK
  <2>3. \A d \in Callers : d = c
    BY DEF OneCaller
  <2> QED
    BY <2>1, <2>2, <2>3
<1>4. ASSUME NEW c \in Callers, Check(c)
      PROVE  ParkedInv'
  BY <1>4, <1>2 DEF Check, Goto, Return, Outside, TypeOK, CallStates, OneCaller
<1>5. ASSUME NEW c \in Callers, NEW l \in LeaseIds, InsertLease(c, l)
      PROVE  ParkedInv'
  <2>1. /\ tasks[calls[c].task].status \notin Parked /\ calls[c].task \in Tasks
        /\ calls[c].op = "claim"
    BY <1>5, ClaimsStartUnparked DEF InsertLease, TypeOK, WellFormed, Steps
  <2>2. \A t \in Tasks : t # calls[c].task =>
            ActiveClaims(leases', t) \subseteq ActiveClaims(leases, t)
    BY <1>5 DEF InsertLease, Inserted, ClaimRequest, ActiveClaims, ActiveLeases, Taken,
                TypeOK, LeaseTables
  <2>3. calls'[c].pc = "write" /\ calls'[c].op = "claim" /\ tasks' = tasks
    BY <1>5, <2>1 DEF InsertLease, Goto, TypeOK, CallStates
  <2>4. \A d \in Callers : d = c
    BY DEF OneCaller
  <2> QED
    BY <2>1, <2>2, <2>3, <2>4 DEF Releasing
<1>6. ASSUME NEW c \in Callers, FindLease(c)
      PROVE  ParkedInv'
  <2> DEFINE t == calls[c].task
  <2>1. t \in Tasks /\ leases' = leases /\ tasks' = tasks
    BY <1>6 DEF FindLease, TypeOK, WellFormed, Steps
  <2>2. \A d \in Callers : d = c
    BY DEF OneCaller
  <2>3. CASE ActiveClaims(leases, t) = {} /\ Goto(c, "write")
    <3>1. calls'[c].pc = "write" /\ calls'[c].task = t
      BY <2>3 DEF Goto, TypeOK, CallStates
    <3> QED
      BY <2>1, <2>2, <2>3, <3>1
  <2>4. ASSUME NEW l \in ActiveClaims(leases, t),
               calls' = [calls EXCEPT ![c].pc = "release", ![c].lease = l]
        PROVE  ParkedInv'
    <3>1. calls'[c].pc = "release" /\ calls'[c].task = t /\ calls'[c].lease = l
      BY <2>4 DEF TypeOK, CallStates
    <3>2. ActiveClaims(leases, t) = {l}
      <4>1. IsFiniteSet(ActiveClaims(leases, t)) /\ Cardinality(ActiveClaims(leases, t)) <= 1
        BY <2>1 DEF OneClaimPerTask
      <4> QED
        BY <2>4, <4>1, NoTwoInOne
    <3> QED
      BY <2>1, <2>2, <3>1, <3>2
  <2> QED
    BY <1>6, <2>3, <2>4 DEF FindLease
<1>7. ASSUME NEW c \in Callers, ReleaseLease(c)
      PROVE  ParkedInv'
  <2> DEFINE t == calls[c].task
  <2>1. t \in Tasks /\ tasks' = tasks /\ calls[c].pc = "release"
    BY <1>7 DEF ReleaseLease, TypeOK, WellFormed, Steps
  <2>2. \A d \in Callers : d = c
    BY DEF OneCaller
  <2>3. \A u \in Tasks : ActiveClaims(leases', u) \subseteq ActiveClaims(leases, u)
    BY <1>7, ReleaseShrinks
  <2>4. CASE Return(c, "err")
    BY <2>1, <2>2, <2>3, <2>4 DEF Return, Outside, TypeOK
  <2>5. CASE calls' = [calls EXCEPT ![c].pc = "write", ![c].lease = NoLease]
    <3>1. calls'[c].pc = "write" /\ calls'[c].task = t
      BY <2>5 DEF TypeOK, CallStates
    <3>2. ActiveClaims(leases', t) = {}
      BY <1>7, <2>1, <2>3, <3>1, ReleaseShrinks
    <3> QED
      BY <2>1, <2>2, <2>3, <3>1, <3>2
  <2> QED
    BY <1>7, <2>4, <2>5 DEF ReleaseLease
<1>8. ASSUME NEW c \in Callers, Write(c)
      PROVE  ParkedInv'
  <2> DEFINE t == calls[c].task
             op == calls[c].op
  <2>1. t \in Tasks /\ op \in AllOperations /\ leases' = leases /\ calls[c].pc = "write"
    BY <1>8, OperationsAssumption DEF Write, TypeOK, WellFormed, Steps
  <2>2. calls'[c].pc \in {"ok", "err"}
    BY <1>8 DEF Write, Return, Outside, TypeOK
  <2>3. \A d \in Callers : d = c
    BY DEF OneCaller
  <2>4. \A u \in Tasks : \/ tasks'[u] = tasks[u]
                         \/ u = t /\ tasks'[u].status = Target[op]
    BY <1>8 DEF Write, Updated, TypeOK
  <2>5. Target[op] \in Parked => ActiveClaims(leases, t) = {}
    BY <2>1, ParkingReleases
  <2> QED
    BY <2>1, <2>2, <2>3, <2>4, <2>5
<1>9. ASSUME NEW c \in Callers, Crash(c)
      PROVE  ParkedInv'
  BY <1>9, <1>2 DEF Crash, Return, Outside, TypeOK
<1>10. CASE UNCHANGED vars
  BY <1>10 DEF vars
<1> QED
  BY <1>1, <1>3, <1>4, <1>5, <1>6, <1>7, <1>8, <1>9, <1>10 DEF Next, Step

(***************************************************************************)
(* With one call at a time a task that is blocked or finished holds no     *)
(* active claim, deaths included: a call that parks a task has released    *)
(* the one claim there is, and a claim under way is not of a parked task.  *)
(***************************************************************************)
THEOREM SerialParkedTasksAreFree ==
    ASSUME Cardinality(Callers) = 1
    PROVE  Spec => []ParkedTasksHoldNoLease
<1>1. OneCaller
  BY AloneIsOne
<1>2. Init => ReadsStand /\ ParkedInv
  <2> SUFFICES ASSUME Init PROVE ReadsStand /\ ParkedInv
    OBVIOUS
  <2>1. \A t \in Tasks : tasks[t].status \notin Parked
    BY DEF Init, Parked, Lifecycle!Terminal
  <2>2. \A c \in Callers : calls[c].pc = "idle"
    BY DEF Init, Outside
  <2> QED
    BY <2>1, <2>2 DEF ReadsStand, ParkedInv, InFlight, Steps
<1>3. TypeOK /\ ReadsStand /\ OneClaimPerTask /\ BoundInv /\ ParkedInv /\ [Next]_vars
        => ReadsStand' /\ ParkedInv'
  BY <1>1, ReadsStandStep, ParkedStep DEF BoundInv, ClaimBound
<1>4. ParkedInv => ParkedTasksHoldNoLease
  BY DEF ParkedInv, ParkedTasksHoldNoLease, Parked
<1> QED
  BY <1>2, <1>3, <1>4, TypeCorrect, BoundHolds, SerialClaimsAreExclusive, PTL DEF Spec

----------------------------------------------------------------------------
(***************************************************************************)
(* The composition of TaskExecution: for every number of tasks,            *)
(* executions, leases, deaths and resumes, no task is executed twice at    *)
(* the same time and what was accepted is complete.                        *)
(*                                                                         *)
(* The argument: at any time at most one actor has a task in hand (the     *)
(* user who resumes it, the runner who claims and starts it, its signal    *)
(* file, its execution, the orchestrator who accepts it), and who that is  *)
(* bounds the statuses the row can have.  Only late failures write without *)
(* having the task in hand, and what they write is final.                  *)
(***************************************************************************)

----------------------------------------------------------------------------
(* The invariant.                                                          *)

\* What the runner's place says about its call.
RunnerOp == [claiming |-> {"claim"}, starting |-> {"start"}, failing |-> {"fail"}]

\* What an execution's place says about its call.
ExecOp == [ writing |-> {"writeback_review_ready", "writeback_blocked"},
            routed  |-> {"writeback_review_ready"},
            failing |-> {"fail"} ]

\* A call in flight is the one its actor waits for; the router's executor is
\* never at the calls it makes for tasks nobody has started.
LinkInv ==
    /\ runner.at # "poll" => runner.task \in Tasks
    /\ InFlight(Runner) =>
          /\ runner.at \in DOMAIN RunnerOp
          /\ calls[Runner].op \in RunnerOp[runner.at]
          /\ calls[Runner].task = runner.task
    /\ \A e \in Executors :
          /\ execs[e].at # "free" => execs[e].task \in Tasks
          /\ execs[e].at \notin {"mcp_claiming", "mcp_starting"}
          /\ InFlight(e) =>
                /\ execs[e].at \in DOMAIN ExecOp
                /\ calls[e].op \in ExecOp[execs[e].at]
                /\ calls[e].task = execs[e].task
    /\ InFlight(Orchestrator) => calls[Orchestrator].op = "accept"
    /\ InFlight(User) => calls[User].op = "resume"
    /\ watcher # NoTask => watcher \in signals

\* What a loop has called for is off its list.
TodoInv == \A a \in Loopers : InFlight(a) => calls[a].task \notin todo[a]

\* The actor c has the task in hand.
LooperHas(a, t) == t \in todo[a] \/ (InFlight(a) /\ calls[a].task = t)

RunnerHas(t) ==
    /\ runner.task = t
    /\ \/ runner.at \in {"claiming", "starting"} /\ ~Errored(Runner)
       \/ runner.at = "signalling"

ExecHas(e, t) ==
    /\ execs[e].task = t
    /\ \/ execs[e].at \in {"loaded", "replying", "routing"}
       \/ execs[e].at \in {"writing", "routed"} /\ InFlight(e)

Has(c, t) ==
    \/ c \in Loopers /\ LooperHas(c, t)
    \/ c = Runner /\ RunnerHas(t)
    \/ c \in Executors /\ ExecHas(c, t)

\* The statuses of a task c has in hand: what its next statement expects, or
\* what a late failure has made of it.
RunnerExpects ==
    IF runner.at = "claiming" /\ InFlight(Runner) THEN "queued"
    ELSE IF runner.at = "claiming" \/ InFlight(Runner) THEN "claimed"
    ELSE "running"

HandStatuses(c) ==
    {"failed"} \cup
        IF c = User THEN {"blocked"}
        ELSE IF c = Orchestrator THEN {"review_ready", "accepted"}
        ELSE IF c = Runner THEN {RunnerExpects}
        ELSE {"running"}

LiveStatuses ==
    {"queued", "claimed", "running", "review_ready", "accepted", "blocked", "failed"}

\* A task is in one hand at most.
HandsOf(t) ==
    /\ \A c, d \in Callers : Has(c, t) /\ Has(d, t) => c = d
    /\ \A c \in Callers : Has(c, t) => tasks[t].status \in HandStatuses(c)
    /\ t \in signals =>
          /\ \A c \in Callers : ~Has(c, t)
          /\ tasks[t].status \in {"running", "failed"}
    /\ tasks[t].status \in LiveStatuses
    /\ tasks[t].status \in {"review_ready", "accepted"} => tasks[t].result
    /\ Has(Orchestrator, t) => tasks[t].result

HandInv == \A t \in Tasks : HandsOf(t)

\* One active claim at most, none while one is being inserted, and none left
\* once the accept has gone past its release.
ClaimsOf(t) ==
    /\ \A k, l \in ActiveClaims(leases, t) : k = l
    /\ calls[Runner].pc = "insert" /\ calls[Runner].task = t =>
          ActiveClaims(leases, t) = {}
    /\ InFlight(Orchestrator) /\ calls[Orchestrator].task = t =>
          /\ calls[Orchestrator].pc = "write" => ActiveClaims(leases, t) = {}
          /\ calls[Orchestrator].pc = "release" =>
                ActiveClaims(leases, t) \subseteq {calls[Orchestrator].lease}
    /\ tasks[t].status = "accepted" => ActiveClaims(leases, t) = {}

ClaimInv == ClaimRows /\ \A t \in Tasks : ClaimsOf(t)

ExecInv == ExecTypeOK /\ LinkInv /\ TodoInv /\ HandInv /\ ClaimInv

----------------------------------------------------------------------------
(* What the calls of the task service do.                                  *)

\* A statement of c's call changes no other call; it goes on with the same
\* arguments, fails, or ends with the UPDATE of its row.
LEMMA StepEffect ==
    ASSUME TypeOK, NEW c \in Callers, Step(c)
    PROVE  /\ calls[c].pc \in Steps
           /\ \A d \in Callers : d # c => calls'[d] = calls[d]
           /\ \/ /\ calls'[c].pc \in Steps /\ tasks' = tasks
                 /\ calls'[c].op = calls[c].op /\ calls'[c].task = calls[c].task
              \/ calls'[c].pc = "err" /\ tasks' = tasks
              \/ /\ calls'[c].pc = "ok" /\ calls[c].pc = "write"
                 /\ Matches(calls[c].op, calls[c].task)
                 /\ tasks' = [tasks EXCEPT ![calls[c].task] =
                                 Updated(@, calls[c].op, calls[c].agent)]
<1> USE DEF TypeOK, CallStates, Steps
<1>1. CASE Check(c)
  BY <1>1 DEF Check, Goto, Return, Outside
<1>2. ASSUME NEW l \in LeaseIds, InsertLease(c, l)
      PROVE  /\ calls[c].pc \in Steps
             /\ \A d \in Callers : d # c => calls'[d] = calls[d]
             /\ calls'[c].pc \in Steps /\ tasks' = tasks
             /\ calls'[c].op = calls[c].op /\ calls'[c].task = calls[c].task
  BY <1>2 DEF InsertLease, Goto
<1>3. CASE FindLease(c)
  BY <1>3 DEF FindLease, Goto
<1>4. CASE ReleaseLease(c)
  BY <1>4 DEF ReleaseLease, Return, Outside
<1>5. CASE Write(c)
  BY <1>5 DEF Write, Return, Outside
<1> QED
  BY <1>1, <1>2, <1>3, <1>4, <1>5 DEF Step

\* A call is only made by an actor whose last one has returned.
LEMMA BeginEffect ==
    ASSUME TypeOK, NEW c \in Callers, NEW op \in AllOperations, NEW t, NEW a,
           Begin(c, op, t, a)
    PROVE  /\ calls[c].pc \notin Steps
           /\ tasks' = tasks /\ leases' = leases
           /\ \A d \in Callers : d # c => calls'[d] = calls[d]
           /\ \/ /\ Admits(op, t)
                 /\ calls'[c].pc = AfterRead(op) /\ calls'[c].pc \in Steps
                 /\ calls'[c].op = op /\ calls'[c].task = t
              \/ ~Admits(op, t) /\ calls'[c].pc = "err"
BY DEF Begin, InFlight, Return, Outside, AfterRead, Steps, TypeOK, CallStates,
       Releasing

----------------------------------------------------------------------------
(* Types.                                                                  *)

\* The actors keep to the operations the service knows.
LEMMA ServiceSteps ==
    ASSUME TypeOK,
           \/ UNCHANGED vars
           \/ \E c \in Callers : Step(c)
           \/ \E c \in Callers, op \in Operations, t \in Tasks, a \in Holders :
                 Begin(c, op, t, a)
    PROVE  TypeOK'
BY TypeStep DEF Next

LEMMA OutsideCalls ==
    ASSUME TypeOK, tasks' = tasks, leases' = leases,
           calls' \in [Callers -> CallStates],
           \A c \in Callers : calls'[c] \in {calls[c], Outside("idle")}
    PROVE  TypeOK'
BY OutsideType DEF TypeOK

LEMMA ActorsAreCallers ==
    /\ Runner \in Callers /\ Orchestrator \in Callers /\ User \in Callers
    /\ Executors \subseteq Callers /\ Loopers \subseteq Callers
    /\ RunnerAgent \in Holders /\ McpAgent \in Holders
    /\ Operations \subseteq AllOperations
BY ActorAssumption, OperationsAssumption DEF Loopers

LEMMA RunnerTypes ==
    ASSUME ExecTypeOK, LinkInv, RunnerNext
    PROVE  ExecTypeOK'
<1> USE ActorAssumption, ActorsAreCallers DEF ExecTypeOK
<1>1. ASSUME NEW t \in Tasks, RunnerSelect(t) PROVE ExecTypeOK'
  BY <1>1, ServiceSteps DEF RunnerSelect, RunnerGoes, At, RunnerPlaces
<1>2. CASE RunnerClaim
  <2>1. TypeOK'
    BY <1>2, ServiceSteps DEF RunnerClaim, LinkInv
  <2> QED
    BY <1>2, <2>1 DEF RunnerClaim, RunnerGoes, At, RunnerPlaces
<1>3. CASE RunnerStart
  <2>1. TypeOK'
    BY <1>3, ServiceSteps DEF RunnerStart, LinkInv
  <2> QED
    BY <1>3, <2>1 DEF RunnerStart, RunnerGoes, At, RunnerPlaces
<1>4. CASE RunnerExits
  BY <1>4, ServiceSteps DEF RunnerExits, RunnerGoes, At, RunnerPlaces
<1>5. CASE RunnerExecute
  <2>1. TypeOK'
    BY <1>5, ServiceSteps DEF RunnerExecute, LinkInv
  <2> QED
    BY <1>5, <2>1 DEF RunnerExecute, RunnerGoes, At, RunnerPlaces
<1>6. CASE RunnerSignal
  BY <1>6, ServiceSteps DEF RunnerSignal, At, RunnerPlaces, LinkInv
<1>7. CASE RunnerFailed
  BY <1>7, ServiceSteps DEF RunnerFailed, RunnerGoes, At, RunnerPlaces
<1>8. CASE ServiceStep(Runner)
  BY <1>8, ServiceSteps DEF ServiceStep, actorVars
<1> QED
  BY <1>1, <1>2, <1>3, <1>4, <1>5, <1>6, <1>7, <1>8 DEF RunnerNext

LEMMA WatcherTypes ==
    ASSUME ExecTypeOK, WatcherNext
    PROVE  ExecTypeOK'
BY ServiceSteps
   DEF ExecTypeOK, WatcherNext, WatcherRead, WatcherSpawn, At, ExecPlaces

LEMMA ExecGoesType ==
    ASSUME ExecTypeOK, TypeOK', NEW e \in Executors, NEW place \in ExecPlaces,
           ExecGoes(e, place)
    PROVE  ExecTypeOK'
BY DEF ExecTypeOK, ExecGoes, At, ExecPlaces

LEMMA ExecCallsType ==
    ASSUME ExecTypeOK, LinkInv, NEW e \in Executors, NEW place \in ExecPlaces,
           NEW op \in Operations, execs[e].at # "free", ExecCalls(e, op, place)
    PROVE  ExecTypeOK'
<1>1. TypeOK'
  BY ActorsAreCallers, ServiceSteps DEF ExecCalls, LinkInv, ExecTypeOK
<1> QED
  BY <1>1, ExecGoesType DEF ExecCalls

LEMMA ExecTypes ==
    ASSUME ExecTypeOK, LinkInv, NEW e \in Executors, ExecNext(e)
    PROVE  ExecTypeOK'
<1> USE ActorAssumption, ActorsAreCallers DEF ExecPlaces
<1>0. UNCHANGED vars => TypeOK'
  BY ServiceSteps DEF ExecTypeOK
<1>1. CASE ExecChat(e)
  BY <1>0, <1>1, ExecGoesType DEF ExecChat
<1>2. CASE ExecReply(e)
  BY <1>2, ExecCallsType DEF ExecReply, ExecFails
<1>3. CASE ExecProjects(e)
  BY <1>0, <1>3, ExecGoesType, ExecCallsType DEF ExecProjects, ExecFails
<1>4. CASE ExecMcp(e)
  BY <1>0, <1>4, ExecGoesType, ExecCallsType DEF ExecMcp, ExecFails
<1>5. CASE ExecRoute(e)
  BY <1>5, ExecCallsType DEF ExecRoute
<1>6. CASE ExecRouted(e)
  BY <1>0, <1>6, ExecGoesType, ExecCallsType DEF ExecRouted, ExecFails
<1>7. CASE ExecFailed(e)
  BY <1>0, <1>7, ExecGoesType DEF ExecFailed
<1>8. CASE ServiceStep(e)
  BY <1>8, ServiceSteps DEF ServiceStep, actorVars, ExecTypeOK
<1> QED
  BY <1>1, <1>2, <1>3, <1>4, <1>5, <1>6, <1>7, <1>8 DEF ExecNext

LEMMA LooperTypes ==
    ASSUME ExecTypeOK, OrchestratorNext \/ UserAsks \/ UserResumes
    PROVE  ExecTypeOK'
<1> USE ActorAssumption, ActorsAreCallers
<1>1. ASSUME NEW a \in Loopers, NEW s, Lists(a, s), budget' \in
                [crashes : 0 .. MaxCrashes, resumes : 0 .. MaxResumes]
      PROVE  ExecTypeOK'
  <2>1. TypeOK'
    BY <1>1, OutsideType, OutsideCalls DEF Lists, ExecTypeOK, TypeOK
  <2> QED
    BY <1>1, <2>1 DEF Lists, ExecTypeOK
<1>2. ASSUME NEW a \in Loopers, NEW op \in Operations, NEW t \in Tasks,
             CallsNext(a, op, t)
      PROVE  ExecTypeOK'
  <2>1. TypeOK'
    BY <1>2, ServiceSteps DEF CallsNext, ExecTypeOK
  <2> QED
    BY <1>2, <2>1 DEF CallsNext, ExecTypeOK
<1>3. ASSUME NEW a \in Loopers, GivesUp(a) PROVE ExecTypeOK'
  <2>1. TypeOK'
    BY <1>3, ServiceSteps DEF GivesUp, ExecTypeOK
  <2> QED
    BY <1>3, <2>1 DEF GivesUp, ExecTypeOK
<1>4. ASSUME NEW a \in Loopers, ServiceStep(a) PROVE ExecTypeOK'
  BY <1>4, ServiceSteps DEF ServiceStep, actorVars, ExecTypeOK
<1>5. CASE OrchestratorNext
  BY <1>1, <1>2, <1>3, <1>4, <1>5 DEF OrchestratorNext, Loopers, ExecTypeOK
<1>6. CASE UserAsks
  <2>1. budget' \in [crashes : 0 .. MaxCrashes, resumes : 0 .. MaxResumes]
    BY <1>6 DEF UserAsks, ExecTypeOK
  <2> QED
    BY <1>1, <1>6, <2>1 DEF UserAsks, Loopers
<1>7. CASE UserResumes
  BY <1>2, <1>3, <1>4, <1>7 DEF UserResumes, Loopers
<1> QED
  BY <1>5, <1>6, <1>7

LEMMA DeathTypes ==
    ASSUME ExecTypeOK, RunnerDies \/ DesktopDies
    PROVE  ExecTypeOK'
<1> USE ActorAssumption, ActorsAreCallers
<1>1. budget' \in [crashes : 0 .. MaxCrashes, resumes : 0 .. MaxResumes]
  BY DEF RunnerDies, DesktopDies, ExecTypeOK
<1>2. TypeOK'
  BY OutsideType, OutsideCalls DEF RunnerDies, DesktopDies, ExecTypeOK, TypeOK
<1> QED
  BY <1>1, <1>2
     DEF RunnerDies, DesktopDies, ExecTypeOK, At, RunnerPlaces, ExecPlaces

LEMMA ExecTypeStep ==
    ExecTypeOK /\ LinkInv /\ [ExecutionNext]_allVars => ExecTypeOK'
<1> SUFFICES ASSUME ExecTypeOK, LinkInv, [ExecutionNext]_allVars PROVE ExecTypeOK'
  OBVIOUS
<1>1. CASE UNCHANGED allVars
  <2>1. TypeOK'
    BY <1>1, ServiceSteps DEF allVars, vars, ExecTypeOK
  <2> QED
    BY <1>1, <2>1 DEF allVars, ExecTypeOK
<1> QED
  BY <1>1, RunnerTypes, WatcherTypes, ExecTypes, LooperTypes, DeathTypes
     DEF ExecutionNext

----------------------------------------------------------------------------
(* Calls belong to whoever waits for them.                                 *)

\* An execution goes to a place without a call, its last one having returned.
LEMMA ExecGoesLink ==
    ASSUME ExecTypeOK, LinkInv, NEW e \in Executors, ~InFlight(e),
           NEW place \in {"free", "replying", "routing"},
           ExecGoes(e, place), UNCHANGED vars,
           execs[e].at # "free"
    PROVE  LinkInv'
BY DEF LinkInv, ExecGoes, At, InFlight, vars, ExecTypeOK

LEMMA ExecCallsLink ==
    ASSUME ExecTypeOK, LinkInv, NEW e \in Executors, execs[e].at # "free",
           NEW place \in DOMAIN ExecOp, NEW op \in ExecOp[place],
           ExecCalls(e, op, place)
    PROVE  LinkInv'
<1> USE ActorAssumption, ActorsAreCallers
<1>1. execs[e].task \in Tasks /\ op \in AllOperations
  BY DEF LinkInv, ExecOp, AllOperations, Target
<1>2. /\ \A d \in Callers : d # e => calls'[d] = calls[d]
      /\ calls'[e].pc \in Steps => calls'[e].op = op /\ calls'[e].task = execs[e].task
  BY <1>1, BeginEffect DEF ExecCalls, ExecTypeOK, Steps
<1>3. /\ \A f \in Executors : f # e => execs'[f] = execs[f]
      /\ execs'[e].at = place /\ execs'[e].task = execs[e].task
      /\ UNCHANGED <<runner, watcher, signals>>
  BY DEF ExecCalls, ExecGoes, At, ExecTypeOK, ExecOp
<1>4. place \notin {"free", "mcp_claiming", "mcp_starting"}
  BY DEF ExecOp
<1> QED
  BY <1>1, <1>2, <1>3, <1>4 DEF LinkInv, InFlight

\* A statement of a call in flight leaves it where its actor waits for it.
LEMMA StatementLink ==
    ASSUME ExecTypeOK, LinkInv, NEW c \in Callers, ServiceStep(c)
    PROVE  LinkInv'
<1> USE ActorsAreCallers
<1>1. \A d \in Callers : InFlight(d)' =>
          InFlight(d) /\ calls'[d].op = calls[d].op /\ calls'[d].task = calls[d].task
  BY StepEffect DEF ServiceStep, ExecTypeOK, InFlight, Steps
<1>2. UNCHANGED actorVars
  BY DEF ServiceStep
<1> QED
  BY <1>1, <1>2 DEF LinkInv, actorVars

LEMMA RunnerLink ==
    ASSUME ExecTypeOK, LinkInv, RunnerNext
    PROVE  LinkInv'
<1> USE ActorAssumption, ActorsAreCallers DEF RunnerGoes, At, RunnerOp
<1>1. ASSUME NEW t \in Tasks, RunnerSelect(t) PROVE LinkInv'
  BY <1>1 DEF RunnerSelect, LinkInv, InFlight, vars
<1>2. ASSUME NEW op \in Operations, NEW place,
             runner.at # "poll",
             Begin(Runner, op, runner.task, RunnerAgent), RunnerGoes(place, runner.task),
             place \in DOMAIN RunnerOp, op \in RunnerOp[place]
      PROVE  LinkInv'
  <2>1. op \in AllOperations
    BY OperationsAssumption
  <2>2. /\ \A d \in Callers : d # Runner => calls'[d] = calls[d]
        /\ calls'[Runner].pc \in Steps =>
              calls'[Runner].op = op /\ calls'[Runner].task = runner.task
    BY <1>2, <2>1, BeginEffect DEF ExecTypeOK, Steps
  <2> QED
    BY <1>2, <2>2 DEF LinkInv, InFlight
<1>3. CASE RunnerClaim
  BY <1>2, <1>3 DEF RunnerClaim
<1>4. CASE RunnerStart
  BY <1>2, <1>4 DEF RunnerStart
<1>5. CASE RunnerExits
  BY <1>5 DEF RunnerExits, LinkInv, InFlight, Errored, Steps, vars
<1>6. CASE RunnerExecute
  <2>1. CASE UNCHANGED vars /\ RunnerGoes("signalling", runner.task)
    BY <1>6, <2>1 DEF RunnerExecute, LinkInv, InFlight, Succeeded, Steps, vars
  <2> QED
    BY <1>2, <1>6, <2>1 DEF RunnerExecute
<1>7. CASE RunnerSignal
  BY <1>7 DEF RunnerSignal, LinkInv, InFlight, vars
<1>8. CASE RunnerFailed
  BY <1>8 DEF RunnerFailed, LinkInv, InFlight, vars
<1>9. CASE ServiceStep(Runner)
  BY <1>9, StatementLink
<1> QED
  BY <1>1, <1>3, <1>4, <1>5, <1>6, <1>7, <1>8, <1>9 DEF RunnerNext

LEMMA WatcherLink ==
    ASSUME ExecTypeOK, LinkInv, WatcherNext
    PROVE  LinkInv'
<1> USE NoTaskAssumption DEF LinkInv, InFlight, vars, ExecTypeOK
<1>1. ASSUME NEW t \in Tasks, WatcherRead(t) PROVE LinkInv'
  BY <1>1 DEF WatcherRead
<1>2. ASSUME NEW e \in Executors, WatcherSpawn(e) PROVE LinkInv'
  BY <1>2 DEF WatcherSpawn, At, ExecOp
<1> QED
  BY <1>1, <1>2 DEF WatcherNext

\* Whoever has the task in hand finds it running, or failed.
LEMMA NoRouterClaims ==
    ASSUME ExecTypeOK, LinkInv, HandInv, NEW e \in Executors, execs[e].at = "loaded"
    PROVE  tasks[execs[e].task].status \in {"running", "failed"}
<1>1. execs[e].task \in Tasks /\ e \in Callers
  BY ActorsAreCallers DEF LinkInv
<1>2. Has(e, execs[e].task)
  BY DEF Has, ExecHas
<1> QED
  BY <1>1, <1>2, ActorAssumption DEF HandInv, HandsOf, HandStatuses

LEMMA ExecLink ==
    ASSUME ExecTypeOK, LinkInv, HandInv, NEW e \in Executors, ExecNext(e)
    PROVE  LinkInv'
<1> USE DEF ExecFails, ExecOp
<1>0. InFlight(e) => execs[e].at \in {"writing", "routed", "failing"}
  BY DEF LinkInv
<1>1. CASE ExecChat(e)
  BY <1>0, <1>1, ExecGoesLink DEF ExecChat
<1>2. CASE ExecReply(e)
  BY <1>2, ExecCallsLink DEF ExecReply
<1>3. CASE ExecProjects(e)
  BY <1>3, ExecGoesLink, ExecCallsLink
     DEF ExecProjects, Succeeded, InFlight, Steps
<1>4. CASE ExecMcp(e)
  BY <1>0, <1>4, NoRouterClaims, ExecGoesLink, ExecCallsLink DEF ExecMcp, LinkInv
<1>5. CASE ExecRoute(e)
  BY <1>5, ExecCallsLink DEF ExecRoute
<1>6. CASE ExecRouted(e)
  BY <1>6, ExecGoesLink, ExecCallsLink DEF ExecRouted, Succeeded, InFlight, Steps
<1>7. CASE ExecFailed(e)
  BY <1>7, ExecGoesLink DEF ExecFailed
<1>8. CASE ServiceStep(e)
  BY <1>8, StatementLink, ActorsAreCallers
<1> QED
  BY <1>1, <1>2, <1>3, <1>4, <1>5, <1>6, <1>7, <1>8 DEF ExecNext

LEMMA LooperLink ==
    ASSUME ExecTypeOK, LinkInv, OrchestratorNext \/ UserAsks \/ UserResumes
    PROVE  LinkInv'
<1> USE ActorAssumption, ActorsAreCallers
<1>1. ASSUME NEW a \in Loopers, NEW s, Lists(a, s) PROVE LinkInv'
  BY <1>1 DEF Lists, LinkInv, InFlight, Outside, Steps, ExecTypeOK, TypeOK, Loopers
<1>2. ASSUME NEW a \in Loopers, NEW op \in Operations, NEW t \in Tasks,
             CallsNext(a, op, t),
             op = (IF a = Orchestrator THEN "accept" ELSE "resume")
      PROVE  LinkInv'
  <2>1. op \in AllOperations
    BY OperationsAssumption
  <2>2. /\ \A d \in Callers : d # a => calls'[d] = calls[d]
        /\ calls'[a].pc \in Steps => calls'[a].op = op /\ calls'[a].task = t
    BY <1>2, <2>1, BeginEffect DEF CallsNext, ExecTypeOK, Steps
  <2> QED
    BY <1>2, <2>2 DEF CallsNext, LinkInv, InFlight, Loopers
<1>3. ASSUME NEW a \in Loopers, GivesUp(a) PROVE LinkInv'
  BY <1>3 DEF GivesUp, LinkInv, InFlight, vars
<1>4. ASSUME NEW a \in Loopers, ServiceStep(a) PROVE LinkInv'
  BY <1>4, StatementLink
<1>5. CASE OrchestratorNext
  BY <1>1, <1>2, <1>3, <1>4, <1>5 DEF OrchestratorNext, Loopers
<1>6. CASE UserAsks
  BY <1>1, <1>6 DEF UserAsks, Loopers
<1>7. CASE UserResumes
  BY <1>2, <1>3, <1>4, <1>7 DEF UserResumes, Loopers
<1> QED
  BY <1>5, <1>6, <1>7

LEMMA DeathLink ==
    ASSUME ExecTypeOK, LinkInv, RunnerDies \/ DesktopDies
    PROVE  LinkInv'
BY ActorAssumption, ActorsAreCallers
   DEF RunnerDies, DesktopDies, LinkInv, InFlight, Outside, Steps, At,
       ExecTypeOK, TypeOK

LEMMA LinkStep ==
    ExecTypeOK /\ LinkInv /\ HandInv /\ [ExecutionNext]_allVars => LinkInv'
<1> SUFFICES ASSUME ExecTypeOK, LinkInv, HandInv, [ExecutionNext]_allVars
             PROVE  LinkInv'
  OBVIOUS
<1>1. CASE UNCHANGED allVars
  BY <1>1 DEF allVars, LinkInv, InFlight
<1> QED
  BY <1>1, RunnerLink, WatcherLink, ExecLink, LooperLink, DeathLink
     DEF ExecutionNext

\* A loop's list changes when it lists, calls or gives up, and never grows
\* while a call of it is under way.
LEMMA TodoStep ==
    ExecTypeOK /\ LinkInv /\ TodoInv /\ [ExecutionNext]_allVars => TodoInv'
<1> SUFFICES ASSUME ExecTypeOK, LinkInv, TodoInv, [ExecutionNext]_allVars,
                    NEW a \in Loopers, InFlight(a)'
             PROVE  calls'[a].task \notin todo'[a]
  BY DEF TodoInv
<1> USE ActorAssumption, ActorsAreCallers DEF ExecTypeOK, TodoInv
<1>1. CASE todo'[a] = todo[a] /\ calls'[a] = calls[a]
  BY <1>1 DEF InFlight
<1>2. ASSUME NEW c \in Callers, ServiceStep(c) PROVE calls'[a].task \notin todo'[a]
  <2>1. InFlight(a) /\ calls'[a].task = calls[a].task
    BY <1>2, StepEffect DEF ServiceStep, InFlight, Steps
  <2> QED
    BY <1>2, <2>1 DEF ServiceStep, actorVars
<1>3. ASSUME NEW c \in Callers, c # a, todo' = todo, NEW op \in Operations, NEW t, NEW h,
             Begin(c, op, t, h)
      PROVE  calls'[a].task \notin todo'[a]
  <2>1. calls'[a] = calls[a]
    BY <1>3, BeginEffect
  <2> QED
    BY <1>1, <1>3, <2>1
<1>4. CASE RunnerNext
  <2>1. CASE UNCHANGED vars /\ todo' = todo
    BY <1>1, <2>1 DEF vars
  <2> QED
    BY <1>2, <1>3, <1>4, <2>1
       DEF RunnerNext, RunnerSelect, RunnerClaim, RunnerStart, RunnerExits, RunnerExecute,
           RunnerSignal, RunnerFailed, RunnerGoes, Loopers
<1>5. CASE WatcherNext
  BY <1>1, <1>5 DEF WatcherNext, WatcherRead, WatcherSpawn, vars
<1>6. ASSUME NEW e \in Executors, ExecNext(e) PROVE calls'[a].task \notin todo'[a]
  <2>1. CASE UNCHANGED vars /\ todo' = todo
    BY <1>1, <2>1 DEF vars
  <2>2. ASSUME NEW op \in Operations, NEW place, ExecCalls(e, op, place)
        PROVE  calls'[a].task \notin todo'[a]
    BY <1>3, <2>2 DEF ExecCalls, ExecGoes, Loopers
  <2> QED
    BY <1>2, <1>6, <2>1, <2>2
       DEF ExecNext, ExecChat, ExecReply, ExecProjects, ExecMcp, ExecRoute, ExecRouted,
           ExecFailed, ExecFails, ExecGoes
<1>7. ASSUME NEW b \in Loopers, NEW s, Lists(b, s) PROVE calls'[a].task \notin todo'[a]
  BY <1>1, <1>7 DEF Lists, InFlight, Outside, Steps, TypeOK
<1>8. ASSUME NEW b \in Loopers, NEW op \in Operations, NEW t \in Tasks, CallsNext(b, op, t)
      PROVE  calls'[a].task \notin todo'[a]
  <2>1. /\ \A d \in Callers : d # b => calls'[d] = calls[d]
        /\ InFlight(b)' => calls'[b].task = t
        /\ todo' = [todo EXCEPT ![b] = @ \ {t}]
    BY <1>8, BeginEffect DEF CallsNext, InFlight, Steps
  <2>2. CASE b = a
    BY <2>1, <2>2
  <2>3. CASE b # a
    BY <1>1, <2>1, <2>3
  <2> QED
    BY <2>2, <2>3
<1>9. ASSUME NEW b \in Loopers, GivesUp(b) PROVE calls'[a].task \notin todo'[a]
  BY <1>1, <1>9 DEF GivesUp, vars
<1>10. CASE OrchestratorNext \/ UserAsks \/ UserResumes
  BY <1>2, <1>7, <1>8, <1>9, <1>10 DEF OrchestratorNext, UserAsks, UserResumes, Loopers
<1>11. CASE RunnerDies \/ DesktopDies
  BY <1>1, <1>11 DEF RunnerDies, DesktopDies, Loopers, InFlight, Outside, Steps, TypeOK
<1> QED
  BY <1>1, <1>4, <1>5, <1>6, <1>10, <1>11 DEF ExecutionNext, allVars

----------------------------------------------------------------------------
(* A task is in one hand at most.                                          *)

\* What an actor has in hand is its own state's.
LEMMA OthersKeep ==
    ASSUME NEW c \in Callers,
           \A d \in Callers : d # c => calls'[d] = calls[d],
           c # Runner => runner' = runner,
           \A e \in Executors : e # c => execs'[e] = execs[e],
           \A a \in Loopers : a # c => todo'[a] = todo[a],
           NEW d \in Callers, d # c, NEW t
    PROVE  /\ Has(d, t)' <=> Has(d, t)
           /\ HandStatuses(d)' = HandStatuses(d)
<1> USE ActorAssumption, ActorsAreCallers
<1>1. InFlight(d)' <=> InFlight(d)
  BY DEF InFlight
<1>2. HandStatuses(d)' = HandStatuses(d)
  BY <1>1 DEF HandStatuses, RunnerExpects
<1>3. CASE d \in Loopers
  BY <1>1, <1>2, <1>3 DEF Has, LooperHas, Loopers
<1>4. CASE d = Runner
  BY <1>1, <1>2, <1>4 DEF Has, RunnerHas, Errored, Loopers
<1>5. CASE d \in Executors
  BY <1>1, <1>2, <1>5 DEF Has, ExecHas, Loopers
<1> QED
  BY <1>3, <1>4, <1>5 DEF Loopers

\* A row that nobody takes in hand or writes stays in at most one hand.
LEMMA HandStays ==
    ASSUME NEW t \in Tasks, HandsOf(t), tasks'[t] = tasks[t],
           \A c \in Callers :
               Has(c, t)' => Has(c, t) /\ tasks[t].status \in HandStatuses(c)',
           t \in signals' => t \in signals
    PROVE  HandsOf(t)'
BY ActorsAreCallers DEF HandsOf

\* A row that is in nobody else's hand may be taken.
LEMMA HandTaken ==
    ASSUME NEW t \in Tasks, HandsOf(t), tasks'[t] = tasks[t], NEW c \in Callers,
           \A d \in Callers : d # c => ~Has(d, t)',
           tasks[t].status \in HandStatuses(c)', t \notin signals',
           c = Orchestrator => tasks[t].result
    PROVE  HandsOf(t)'
BY ActorsAreCallers DEF HandsOf

\* An actor who lets go of what it had, or keeps it.
LEMMA ActorKeeps ==
    ASSUME HandInv, NEW c \in Callers, tasks' = tasks, signals' \subseteq signals,
           \A d \in Callers : d # c => calls'[d] = calls[d],
           c # Runner => runner' = runner,
           \A e \in Executors : e # c => execs'[e] = execs[e],
           \A a \in Loopers : a # c => todo'[a] = todo[a],
           \A t \in Tasks :
               Has(c, t)' => Has(c, t) /\ tasks[t].status \in HandStatuses(c)'
    PROVE  HandInv'
<1> SUFFICES ASSUME NEW t \in Tasks PROVE HandsOf(t)'
  BY DEF HandInv
<1>1. HandsOf(t)
  BY DEF HandInv
<1>2. \A d \in Callers : d # c =>
          (Has(d, t)' <=> Has(d, t)) /\ HandStatuses(d)' = HandStatuses(d)
  BY OthersKeep
<1>3. \A d \in Callers : Has(d, t)' => Has(d, t) /\ tasks[t].status \in HandStatuses(d)'
  BY <1>1, <1>2 DEF HandsOf
<1> QED
  BY <1>1, <1>3, HandStays

\* What the table of validate_task_transition admits of the statuses here.
LEMMA LiveAdmits ==
    ASSUME NEW t \in Tasks, tasks[t].status \in LiveStatuses
    PROVE  /\ Admits("claim", t) => tasks[t].status = "queued"
           /\ Admits("start", t) => tasks[t].status \in {"claimed", "blocked"}
           /\ Admits("accept", t) => tasks[t].status \in {"review_ready", "running"}
           /\ Admits("resume", t) => tasks[t].status = "blocked"
BY DEF Admits, Guarded, Target, Lifecycle!Legal, Lifecycle!Targets,
       Lifecycle!Statuses, LiveStatuses

LEMMA RunnerHand ==
    ASSUME ExecTypeOK, LinkInv, HandInv, RunnerNext, ~ServiceStep(Runner)
    PROVE  HandInv'
<1> USE ActorAssumption, ActorsAreCallers DEF ExecTypeOK, At, RunnerGoes
<1> DEFINE t0 == runner.task
<1>0. /\ {"claim", "start", "fail"} \subseteq AllOperations
      /\ \A t : Has(Runner, t) <=> RunnerHas(t)
      /\ \A t : Has(Runner, t)' <=> RunnerHas(t)'
      /\ HandStatuses(Runner) = {"failed", RunnerExpects}
      /\ HandStatuses(Runner)' = {"failed", RunnerExpects'}
  BY DEF AllOperations, Target, Has, Loopers, HandStatuses
<1>1. CASE UNCHANGED vars /\ runner'.at \in {"selected", "poll"} /\ signals' = signals
           /\ UNCHANGED <<execs, todo>>
  <2>1. \A t : ~RunnerHas(t)'
    BY <1>1 DEF RunnerHas
  <2> QED
    BY <1>0, <1>1, <2>1, ActorKeeps DEF vars
<1>2. CASE RunnerClaim
  <2>1. /\ t0 \in Tasks /\ tasks' = tasks /\ signals' = signals
        /\ \A d \in Callers : d # Runner => calls'[d] = calls[d]
        /\ UNCHANGED <<execs, todo>>
        /\ runner'.at = "claiming" /\ runner'.task = t0
        /\ calls'[Runner].pc # "err" =>
              Admits("claim", t0) /\ InFlight(Runner)'
    BY <1>0, <1>2, BeginEffect DEF RunnerClaim, LinkInv, InFlight
  <2>2. \A d \in Callers : \A t : d # Runner =>
            (Has(d, t)' <=> Has(d, t)) /\ HandStatuses(d)' = HandStatuses(d)
    BY <2>1, OthersKeep
  <2>3. ASSUME NEW t \in Tasks PROVE HandsOf(t)'
    <3>1. HandsOf(t)
      BY DEF HandInv
    <3>2. CASE ~Has(Runner, t)'
      BY <2>1, <2>2, <3>1, <3>2, HandStays DEF HandsOf
    <3>3. CASE Has(Runner, t)'
      <4>1. t = t0 /\ Admits("claim", t0) /\ InFlight(Runner)'
        BY <1>0, <2>1, <3>3 DEF RunnerHas, Errored
      <4>2. tasks[t].status = "queued"
        BY <3>1, <4>1, LiveAdmits DEF HandsOf
      <4>3. ~RunnerHas(t)
        BY <1>2 DEF RunnerClaim, RunnerHas
      <4>4. t \notin signals /\ \A d \in Callers : ~Has(d, t)
        BY <1>0, <3>1, <4>2, <4>3 DEF HandsOf, HandStatuses
      <4>5. "queued" \in HandStatuses(Runner)'
        BY <1>0, <2>1, <4>1 DEF RunnerExpects
      <4> QED
        BY <2>1, <2>2, <3>1, <4>2, <4>4, <4>5, HandTaken
    <3> QED
      BY <3>2, <3>3
  <2> QED
    BY <2>3 DEF HandInv
<1>3. CASE RunnerStart
  <2>1. /\ t0 \in Tasks /\ tasks' = tasks /\ signals' = signals
        /\ \A d \in Callers : d # Runner => calls'[d] = calls[d]
        /\ UNCHANGED <<execs, todo>>
        /\ runner'.at = "starting" /\ runner'.task = t0
        /\ calls'[Runner].pc # "err" =>
              Admits("start", t0) /\ InFlight(Runner)'
    BY <1>0, <1>3, BeginEffect DEF RunnerStart, LinkInv, InFlight
  <2>2. /\ RunnerHas(t0) /\ RunnerExpects = "claimed"
    BY <1>3 DEF RunnerStart, RunnerHas, Succeeded, Errored, RunnerExpects, InFlight, Steps
  <2>3. tasks[t0].status \in {"failed", "claimed"} /\ tasks[t0].status \in LiveStatuses
    BY <1>0, <2>1, <2>2 DEF HandInv, HandsOf
  <2>4. ASSUME NEW t \in Tasks, Has(Runner, t)'
        PROVE  Has(Runner, t) /\ tasks[t].status \in HandStatuses(Runner)'
    <3>1. t = t0 /\ Admits("start", t0) /\ InFlight(Runner)'
      BY <1>0, <2>1, <2>4 DEF RunnerHas, Errored
    <3>2. tasks[t].status = "claimed"
      BY <2>1, <2>3, <3>1, LiveAdmits
    <3> QED
      BY <1>0, <2>1, <2>2, <3>1, <3>2 DEF RunnerExpects
  <2> QED
    BY <2>1, <2>4, ActorKeeps
<1>4. CASE RunnerExecute
  <2>1. /\ tasks' = tasks /\ signals' = signals
        /\ \A d \in Callers : d # Runner => calls'[d] = calls[d]
        /\ UNCHANGED <<execs, todo>>
        /\ runner'.at = "failing" \/
              /\ runner'.at = "signalling" /\ runner'.task = t0
              /\ tasks[t0].status = "running" /\ UNCHANGED vars
    BY <1>0, <1>4, BeginEffect DEF RunnerExecute, LinkInv, vars
  <2>2. ASSUME NEW t \in Tasks, Has(Runner, t)'
        PROVE  Has(Runner, t) /\ tasks[t].status \in HandStatuses(Runner)'
    <3>1. t = t0 /\ tasks[t0].status = "running" /\ runner'.at = "signalling"
          /\ UNCHANGED vars
      BY <1>0, <2>1, <2>2 DEF RunnerHas
    <3>2. RunnerHas(t0) /\ ~InFlight(Runner) /\ ~InFlight(Runner)'
      BY <1>4, <3>1 DEF RunnerExecute, RunnerHas, Succeeded, Errored, InFlight, Steps, vars
    <3> QED
      BY <1>0, <3>1, <3>2 DEF RunnerExpects
  <2> QED
    BY <2>1, <2>2, ActorKeeps
<1>5. CASE RunnerSignal
  <2>1. RunnerHas(t0) /\ t0 \in Tasks /\ \A t : ~RunnerHas(t)'
    BY <1>5 DEF RunnerSignal, RunnerHas, LinkInv
  <2>2. RunnerExpects = "running"
    BY <1>5 DEF RunnerSignal, RunnerExpects, LinkInv, RunnerOp
  <2>3. /\ \A d \in Callers : d # Runner => calls'[d] = calls[d]
        /\ UNCHANGED <<execs, todo, tasks>> /\ signals' = signals \cup {t0}
    BY <1>5 DEF RunnerSignal, vars
  <2>4. \A d \in Callers : \A t : d # Runner =>
            (Has(d, t)' <=> Has(d, t)) /\ HandStatuses(d)' = HandStatuses(d)
    BY <2>3, OthersKeep
  <2>5. ASSUME NEW t \in Tasks PROVE HandsOf(t)'
    <3>1. HandsOf(t)
      BY DEF HandInv
    <3>2. CASE t # t0
      BY <1>0, <2>1, <2>3, <2>4, <3>1, <3>2, HandStays DEF HandsOf
    <3>3. CASE t = t0
      <4>1. tasks[t].status \in {"running", "failed"}
        BY <1>0, <2>1, <2>2, <3>1, <3>3 DEF HandsOf
      <4>2. \A c \in Callers : ~Has(c, t)'
        BY <1>0, <2>1, <2>4, <3>1, <3>3 DEF HandsOf
      <4> QED
        BY <2>3, <3>1, <4>1, <4>2 DEF HandsOf
    <3> QED
      BY <3>2, <3>3
  <2> QED
    BY <2>5 DEF HandInv
<1> QED
  BY <1>1, <1>2, <1>3, <1>4, <1>5
     DEF RunnerNext, RunnerSelect, RunnerExits, RunnerFailed, ServiceStep

LEMMA WatcherHand ==
    ASSUME ExecTypeOK, LinkInv, HandInv, WatcherNext
    PROVE  HandInv'
<1> USE ActorAssumption, ActorsAreCallers DEF ExecTypeOK, At
<1>1. ASSUME NEW t \in Tasks, WatcherRead(t) PROVE HandInv'
  BY <1>1, ActorKeeps
     DEF WatcherRead, vars, Has, LooperHas, RunnerHas, ExecHas, InFlight, Errored,
         HandStatuses, RunnerExpects, HandInv, HandsOf
<1>2. ASSUME NEW e \in Executors, WatcherSpawn(e) PROVE HandInv'
  <2>1. /\ tasks' = tasks /\ calls' = calls /\ runner' = runner /\ todo' = todo
        /\ \A f \in Executors : f # e => execs'[f] = execs[f]
        /\ execs'[e].at = "loaded" /\ execs'[e].task = watcher
        /\ watcher \in signals /\ signals' = signals \ {watcher}
        /\ execs[e].at = "free"
    BY <1>2 DEF WatcherSpawn, LinkInv, vars
  <2>2. \A d \in Callers : \A t : d # e =>
            (Has(d, t)' <=> Has(d, t)) /\ HandStatuses(d)' = HandStatuses(d)
    BY <2>1, OthersKeep
  <2>3. /\ \A t : Has(e, t)' => t = watcher
        /\ HandStatuses(e)' = {"failed", "running"}
    BY <2>1 DEF Has, ExecHas, Loopers, HandStatuses
  <2>4. ASSUME NEW t \in Tasks PROVE HandsOf(t)'
    <3>1. HandsOf(t)
      BY DEF HandInv
    <3>2. CASE t # watcher
      <4>1. \A c \in Callers :
                Has(c, t)' => Has(c, t) /\ tasks[t].status \in HandStatuses(c)'
        BY <2>2, <2>3, <3>1, <3>2 DEF HandsOf
      <4> QED
        BY <2>1, <3>1, <4>1, HandStays
    <3>3. CASE t = watcher
      <4>1. \A d \in Callers : ~Has(d, t)
        BY <2>1, <3>1, <3>3 DEF HandsOf
      <4>2. tasks[t].status \in {"failed", "running"}
        BY <2>1, <3>1, <3>3 DEF HandsOf
      <4> QED
        BY <2>1, <2>2, <2>3, <3>1, <3>3, <4>1, <4>2, HandTaken DEF Loopers
    <3> QED
      BY <3>2, <3>3
  <2> QED
    BY <2>4 DEF HandInv
<1> QED
  BY <1>1, <1>2 DEF WatcherNext

\* An execution that goes on has the task it had, or has let go of it.
LEMMA ExecHand ==
    ASSUME ExecTypeOK, LinkInv, HandInv, NEW e \in Executors, ExecNext(e),
           ~ServiceStep(e)
    PROVE  HandInv'
<1> USE ActorAssumption, ActorsAreCallers DEF ExecTypeOK, At
<1>0. /\ {"fail", "claim", "start", "writeback_review_ready", "writeback_blocked"}
            \subseteq AllOperations
      /\ \A t : Has(e, t) <=> ExecHas(e, t)
      /\ \A t : Has(e, t)' <=> ExecHas(e, t)'
      /\ HandStatuses(e)' = HandStatuses(e)
  BY DEF AllOperations, Target, Has, Loopers, HandStatuses
<1>1. ASSUME NEW place, ExecGoes(e, place) \/ \E op \in AllOperations : ExecCalls(e, op, place),
             tasks' = tasks, \A d \in Callers : d # e => calls'[d] = calls[d],
             \A t : ExecHas(e, t)' => ExecHas(e, t)
      PROVE  HandInv'
  <2>1. \A f \in Executors : f # e => execs'[f] = execs[f]
    BY <1>1 DEF ExecGoes, ExecCalls
  <2>2. UNCHANGED <<runner, signals, todo>>
    BY <1>1 DEF ExecGoes, ExecCalls
  <2> QED
    BY <1>0, <1>1, <2>1, <2>2, ActorKeeps DEF HandInv, HandsOf
<1>2. ASSUME NEW place, ExecGoes(e, place), UNCHANGED vars,
             \/ place = "free"
             \/ place \in {"replying", "routing"} /\ execs[e].at = "loaded"
      PROVE  HandInv'
  <2>1. \A t : ExecHas(e, t)' => ExecHas(e, t)
    BY <1>2 DEF ExecGoes, ExecHas
  <2> QED
    BY <1>1, <1>2, <2>1 DEF vars
<1>3. ASSUME NEW op \in AllOperations, NEW place, ExecCalls(e, op, place),
             \/ place \in {"failing", "mcp_claiming", "mcp_starting"}
             \/ place \in {"writing", "routed"} /\ execs[e].at \in {"replying", "routing"}
      PROVE  HandInv'
  <2>1. \A t : ExecHas(e, t)' => ExecHas(e, t)
    BY <1>3 DEF ExecCalls, ExecGoes, ExecHas
  <2> QED
    BY <1>1, <1>3, <2>1, BeginEffect DEF ExecCalls
<1>4. CASE ExecChat(e)
  BY <1>2, <1>4 DEF ExecChat
<1>5. CASE ExecReply(e)
  BY <1>0, <1>3, <1>5 DEF ExecReply, ExecFails
<1>6. CASE ExecProjects(e)
  BY <1>0, <1>2, <1>3, <1>6 DEF ExecProjects, ExecFails
<1>7. CASE ExecMcp(e)
  BY <1>0, <1>2, <1>3, <1>7 DEF ExecMcp, ExecFails, LinkInv
<1>8. CASE ExecRoute(e)
  BY <1>0, <1>3, <1>8 DEF ExecRoute
<1>9. CASE ExecRouted(e)
  BY <1>0, <1>2, <1>3, <1>9 DEF ExecRouted, ExecFails
<1>10. CASE ExecFailed(e)
  BY <1>2, <1>10 DEF ExecFailed
<1> QED
  BY <1>4, <1>5, <1>6, <1>7, <1>8, <1>9, <1>10 DEF ExecNext

LEMMA LooperHand ==
    ASSUME ExecTypeOK, LinkInv, HandInv, OrchestratorNext \/ UserAsks \/ UserResumes,
           \A a \in Loopers : ~ServiceStep(a)
    PROVE  HandInv'
<1> USE ActorAssumption, ActorsAreCallers DEF ExecTypeOK, Loopers
<1>0. /\ {"accept", "resume"} \subseteq AllOperations
      /\ \A a \in Loopers : \A t : Has(a, t) <=> LooperHas(a, t)
      /\ \A a \in Loopers : \A t : Has(a, t)' <=> LooperHas(a, t)'
      /\ \A a \in Loopers : HandStatuses(a)' = HandStatuses(a)
  BY DEF AllOperations, Target, Has, HandStatuses
<1>1. ASSUME NEW a \in Loopers, NEW s \in LiveStatuses, Lists(a, s),
             s = (IF a = User THEN "blocked" ELSE "review_ready")
      PROVE  HandInv'
  <2>1. /\ UNCHANGED <<tasks, signals, runner, execs>>
        /\ \A d \in Callers : d # a => calls'[d] = calls[d]
        /\ \A b \in Loopers : b # a => todo'[b] = todo[b]
        /\ todo'[a] = {t \in Tasks : tasks[t].status = s}
        /\ ~InFlight(a) /\ todo[a] = {} /\ ~InFlight(a)'
    BY <1>1 DEF Lists, InFlight, Outside, Steps, TypeOK
  <2>2. \A d \in Callers : \A t : d # a =>
            (Has(d, t)' <=> Has(d, t)) /\ HandStatuses(d)' = HandStatuses(d)
    BY <2>1, OthersKeep
  <2>3. ASSUME NEW t \in Tasks PROVE HandsOf(t)'
    <3>1. HandsOf(t)
      BY DEF HandInv
    <3>2. Has(a, t)' => tasks[t].status = s
      BY <1>0, <2>1 DEF LooperHas
    <3>3. CASE tasks[t].status # s
      BY <2>1, <2>2, <3>1, <3>2, <3>3, HandStays DEF HandsOf
    <3>4. CASE tasks[t].status = s
      <4>1. ~Has(a, t)
        BY <1>0, <2>1 DEF LooperHas
      <4>2. \A d \in Callers : d # a => ~Has(d, t)
        BY <1>1, <3>1, <3>4 DEF HandsOf, HandStatuses, RunnerExpects
      <4>3. t \notin signals /\ s \in HandStatuses(a)
        BY <1>1, <3>1, <3>4 DEF HandsOf, HandStatuses
      <4>4. a = Orchestrator => tasks[t].result
        BY <1>1, <3>1, <3>4 DEF HandsOf
      <4> QED
        BY <1>0, <2>1, <2>2, <3>1, <3>4, <4>2, <4>3, <4>4, HandTaken
    <3> QED
      BY <3>3, <3>4
  <2> QED
    BY <2>3 DEF HandInv
<1>2. ASSUME NEW a \in Loopers, NEW op \in AllOperations, NEW t \in Tasks,
             CallsNext(a, op, t)
      PROVE  HandInv'
  <2>1. /\ UNCHANGED <<tasks, signals, runner, execs>>
        /\ \A d \in Callers : d # a => calls'[d] = calls[d]
        /\ \A b \in Loopers : b # a => todo'[b] = todo[b]
        /\ todo'[a] = todo[a] \ {t} /\ t \in todo[a]
        /\ InFlight(a)' => calls'[a].task = t
    BY <1>2, BeginEffect DEF CallsNext, InFlight, Steps
  <2>2. \A u \in Tasks : Has(a, u)' => Has(a, u)
    BY <1>0, <2>1 DEF LooperHas
  <2> QED
    BY <1>0, <2>1, <2>2, ActorKeeps DEF HandInv, HandsOf
<1>3. ASSUME NEW a \in Loopers, GivesUp(a) PROVE HandInv'
  <2>1. /\ UNCHANGED <<tasks, calls, signals, runner, execs>>
        /\ \A b \in Loopers : b # a => todo'[b] = todo[b]
        /\ todo'[a] = {}
    BY <1>3 DEF GivesUp, vars
  <2>2. \A u \in Tasks : Has(a, u)' => Has(a, u)
    BY <1>0, <2>1 DEF LooperHas, InFlight
  <2> QED
    BY <1>0, <2>1, <2>2, ActorKeeps DEF HandInv, HandsOf
<1>4. CASE OrchestratorNext
  BY <1>0, <1>1, <1>2, <1>3, <1>4 DEF OrchestratorNext, LiveStatuses
<1>5. CASE UserAsks
  BY <1>1, <1>5 DEF UserAsks, LiveStatuses
<1>6. CASE UserResumes
  BY <1>0, <1>2, <1>3, <1>6 DEF UserResumes
<1> QED
  BY <1>4, <1>5, <1>6

LEMMA DeathHand ==
    ASSUME ExecTypeOK, LinkInv, HandInv, RunnerDies \/ DesktopDies
    PROVE  HandInv'
<1> USE ActorAssumption, ActorsAreCallers DEF ExecTypeOK, At
<1>1. CASE RunnerDies
  <2>1. \A t : ~Has(Runner, t)'
    BY <1>1 DEF RunnerDies, Has, RunnerHas, Loopers
  <2> QED
    BY <1>1, <2>1, ActorKeeps DEF RunnerDies
<1>2. CASE DesktopDies
  <2>1. \A c \in Callers : \A t : ~Has(c, t)'
    BY <1>2 DEF DesktopDies, Has, RunnerHas, LooperHas, ExecHas, Loopers, InFlight,
                Outside, Steps
  <2>2. tasks' = tasks /\ signals' = signals
    BY <1>2 DEF DesktopDies
  <2> QED
    BY <2>1, <2>2, HandStays DEF HandInv
<1> QED
  BY <1>1, <1>2

\* Whoever makes a call that is not a late failure has the task in hand.
LEMMA CallerHas ==
    ASSUME ExecTypeOK, LinkInv, NEW c \in Callers, InFlight(c), calls[c].op # "fail"
    PROVE  Has(c, calls[c].task)
<1> USE ActorAssumption, ActorsAreCallers
<1>1. CASE c \in Loopers
  BY <1>1 DEF Has, LooperHas
<1>2. CASE c = Runner
  BY <1>2 DEF Has, RunnerHas, LinkInv, RunnerOp, Errored, InFlight, Steps
<1>3. CASE c \in Executors
  BY <1>3 DEF Has, ExecHas, LinkInv, ExecOp
<1> QED
  BY <1>1, <1>2, <1>3 DEF Loopers

\* After its UPDATE, an actor has at most what it had, and the row is as it
\* expects it then.
LEMMA WriterHand ==
    ASSUME ExecTypeOK, LinkInv, TodoInv, NEW c \in Callers, ServiceStep(c),
           calls[c].pc = "write", calls'[c].pc = "ok",
           NEW t \in Tasks, Has(c, t)'
    PROVE  /\ Has(c, t)
           /\ t # calls[c].task => HandStatuses(c)' = HandStatuses(c)
           /\ t = calls[c].task => c # User /\ Target[calls[c].op] \in HandStatuses(c)'
<1> USE ActorAssumption, ActorsAreCallers DEF ServiceStep, actorVars
<1>0. InFlight(c) /\ ~InFlight(c)'
  BY DEF InFlight, Steps
<1>1. CASE c \in Loopers
  BY <1>0, <1>1 DEF Has, LooperHas, HandStatuses, TodoInv, Loopers
<1>2. CASE c = Runner
  <2>1. RunnerHas(t)'
    BY <1>2 DEF Has, Loopers
  <2>2. /\ calls[c].task = t /\ runner' = runner /\ runner.task = t
        /\ runner.at \in {"claiming", "starting"} /\ calls[c].op \in RunnerOp[runner.at]
    BY <1>0, <1>2, <2>1 DEF RunnerHas, LinkInv, RunnerOp
  <2>3. Has(c, t)
    BY <1>0, <1>2, <2>2 DEF Has, RunnerHas, Errored, InFlight, Steps
  <2>4. Target[calls[c].op] = RunnerExpects'
    BY <1>0, <1>2, <2>2 DEF RunnerExpects, RunnerOp, Target
  <2> QED
    BY <1>2, <2>2, <2>3, <2>4 DEF HandStatuses
<1>3. CASE c \in Executors
  BY <1>0, <1>3 DEF Has, ExecHas, LinkInv, ExecOp, Loopers
<1> QED
  BY <1>1, <1>2, <1>3 DEF Loopers

LEMMA StatementHand ==
    ASSUME ExecTypeOK, LinkInv, TodoInv, HandInv, NEW c \in Callers, ServiceStep(c)
    PROVE  HandInv'
<1> USE ActorAssumption, ActorsAreCallers DEF ExecTypeOK
<1> DEFINE t0 == calls[c].task
           op == calls[c].op
<1>0. /\ UNCHANGED <<runner, signals, execs, todo>>
      /\ \A d \in Callers : d # c => calls'[d] = calls[d]
      /\ InFlight(c) /\ op \in AllOperations /\ t0 \in Tasks
  BY StepEffect, OperationsAssumption
     DEF ServiceStep, actorVars, InFlight, TypeOK, WellFormed
<1>1. CASE /\ tasks' = tasks
           /\ calls'[c].pc \in Steps
           /\ calls'[c].op = op /\ calls'[c].task = t0
  <2>1. \A t : Has(c, t)' => Has(c, t) /\ HandStatuses(c)' = HandStatuses(c)
    BY <1>0, <1>1 DEF Has, LooperHas, RunnerHas, ExecHas, InFlight, Errored,
                      HandStatuses, RunnerExpects, Steps
  <2>2. \A t \in Tasks :
            Has(c, t)' => Has(c, t) /\ tasks[t].status \in HandStatuses(c)'
    BY <2>1 DEF HandInv, HandsOf
  <2> QED
    BY <1>0, <1>1, <2>2, ActorKeeps
<1>2. CASE tasks' = tasks /\ calls'[c].pc = "err"
  <2>1. \A t \in Tasks : Has(c, t)' => Has(c, t) /\ HandStatuses(c)' = HandStatuses(c)
    BY <1>0, <1>2 DEF Has, LooperHas, RunnerHas, ExecHas, InFlight, Errored,
                      HandStatuses, Steps, LinkInv, RunnerOp, Loopers
  <2>2. \A t \in Tasks :
            Has(c, t)' => Has(c, t) /\ tasks[t].status \in HandStatuses(c)'
    BY <2>1 DEF HandInv, HandsOf
  <2> QED
    BY <1>0, <1>2, <2>2, ActorKeeps
<1>3. CASE /\ calls'[c].pc = "ok" /\ calls[c].pc = "write"
           /\ Matches(op, t0)
           /\ tasks' = [tasks EXCEPT ![t0] = Updated(@, op, calls[c].agent)]
  <2>1. \A d \in Callers : \A t : d # c =>
            (Has(d, t)' <=> Has(d, t)) /\ HandStatuses(d)' = HandStatuses(d)
    BY <1>0, OthersKeep
  <2>2. ASSUME NEW t \in Tasks, t # t0 PROVE HandsOf(t)'
    <3>1. HandsOf(t) /\ tasks'[t] = tasks[t]
      BY <1>3, <2>2 DEF HandInv, TypeOK
    <3>2. Has(c, t)' => Has(c, t) /\ HandStatuses(c)' = HandStatuses(c)
      BY <1>3, <2>2, WriterHand
    <3>3. \A d \in Callers :
              Has(d, t)' => Has(d, t) /\ tasks[t].status \in HandStatuses(d)'
      BY <2>1, <3>1, <3>2 DEF HandsOf
    <3> QED
      BY <1>0, <3>1, <3>3, HandStays
  <2>3. ASSUME NEW t \in Tasks, t = t0 PROVE HandsOf(t)'
    <3>1. HandsOf(t) /\ tasks'[t] = Updated(tasks[t], op, calls[c].agent)
      BY <1>0, <1>3, <2>3 DEF HandInv, TypeOK
    <3>2. /\ tasks'[t].status = Target[op]
          /\ tasks'[t].result = (op \in Storing \/ (tasks[t].result /\ op \notin Clearing))
      BY <3>1 DEF Updated
    <3>3. op \in {"claim", "start", "accept", "fail", "resume",
                  "writeback_blocked", "writeback_review_ready"}
      BY <1>0 DEF InFlight, TypeOK, WellFormed
    <3>4. tasks'[t].status \in LiveStatuses
      BY <3>2, <3>3 DEF Target, LiveStatuses
    <3>5. \A d \in Callers : Has(d, t)' => Has(d, t)
      <4>1. Has(c, t)' => Has(c, t)
        BY <1>0, <1>3, <2>3, WriterHand
      <4> QED
        BY <2>1, <4>1
    <3>6. Has(c, t)' => Target[op] \in HandStatuses(c)'
      BY <1>0, <1>3, <2>3, WriterHand
    <3>7. CASE op = "fail"
      <4>1. tasks'[t].status = "failed" /\ tasks'[t].result = tasks[t].result
        BY <3>1, <3>2, <3>7 DEF Target, Storing, Clearing, TypeOK, TaskRows
      <4>2. \A d \in Callers : "failed" \in HandStatuses(d)'
        BY DEF HandStatuses
      <4> QED
        BY <1>0, <3>1, <3>4, <3>5, <4>1, <4>2 DEF HandsOf
    <3>8. CASE op # "fail"
      <4>1. Has(c, t)
        BY <1>0, <2>3, <3>8, CallerHas
      <4>2. t \notin signals' /\ \A d \in Callers : d # c => ~Has(d, t)'
        BY <1>0, <2>1, <3>1, <4>1 DEF HandsOf
      <4>3. \A d \in Callers : Has(d, t)' => tasks'[t].status \in HandStatuses(d)'
        BY <3>2, <3>6, <4>2
      <4>4. op = "accept" => c = Orchestrator
        BY <1>0 DEF LinkInv, RunnerOp, ExecOp
      <4>5. tasks'[t].status \in {"review_ready", "accepted"} => tasks'[t].result
        <5>1. CASE op = "accept"
          <6>1. tasks[t].result
            BY <3>1, <4>1, <4>4, <5>1 DEF HandsOf
          <6> QED
            BY <3>2, <5>1, <6>1 DEF Clearing
        <5>2. CASE op = "writeback_review_ready"
          BY <3>2, <5>2 DEF Storing
        <5>3. CASE op \notin {"accept", "writeback_review_ready"}
          BY <3>2, <3>3, <5>3 DEF Target
        <5> QED
          BY <5>1, <5>2, <5>3
      <4>6. Has(Orchestrator, t)' => tasks'[t].result
        BY <1>0, <3>1, <3>2, <3>5, <4>2 DEF HandsOf, LinkInv, Clearing
      <4> QED
        BY <3>4, <4>2, <4>3, <4>5, <4>6 DEF HandsOf
    <3> QED
      BY <3>7, <3>8
  <2> QED
    BY <2>2, <2>3 DEF HandInv
<1> QED
  BY <1>1, <1>2, <1>3, StepEffect DEF ServiceStep

LEMMA HandStep ==
    ExecTypeOK /\ LinkInv /\ TodoInv /\ HandInv /\ [ExecutionNext]_allVars => HandInv'
<1> SUFFICES ASSUME ExecTypeOK, LinkInv, TodoInv, HandInv, [ExecutionNext]_allVars
             PROVE  HandInv'
  OBVIOUS
<1>1. CASE \E c \in Callers : ServiceStep(c)
  BY <1>1, StatementHand
<1>2. CASE UNCHANGED allVars
  BY <1>2 DEF allVars, HandInv, HandsOf, Has, LooperHas, RunnerHas, ExecHas, InFlight,
              Errored, HandStatuses, RunnerExpects
<1>3. CASE \A c \in Callers : ~ServiceStep(c)
  BY <1>2, <1>3, ActorsAreCallers, RunnerHand, WatcherHand, ExecHand, LooperHand, DeathHand
     DEF ExecutionNext
<1> QED
  BY <1>1, <1>3

----------------------------------------------------------------------------
(* Claims.                                                                 *)

\* An actor's own moves leave the tables alone and put no call past its first
\* statement.
LEMMA ActorMoves ==
    ASSUME ExecTypeOK, [ExecutionNext]_allVars, \A c \in Callers : ~ServiceStep(c)
    PROVE  /\ tasks' = tasks /\ leases' = leases
           /\ \A c \in Callers :
                 \/ calls'[c] = calls[c]
                 \/ ~InFlight(c)'
                 \/ calls'[c].pc = AfterRead(calls'[c].op)
<1> DEFINE Quietly(c) ==
               \/ calls'[c] = calls[c]
               \/ ~InFlight(c)'
               \/ calls'[c].pc = AfterRead(calls'[c].op)
           Moved == tasks' = tasks /\ leases' = leases /\ \A c \in Callers : Quietly(c)
<1> SUFFICES Moved
  OBVIOUS
<1> USE ActorAssumption, ActorsAreCallers DEF ExecTypeOK
<1>1. ASSUME NEW c \in Callers, NEW op \in AllOperations, NEW t, NEW a, Begin(c, op, t, a)
      PROVE  Moved
  <2>1. Quietly(c)
    BY <1>1, BeginEffect DEF InFlight, Steps
  <2>2. \A d \in Callers : d # c => Quietly(d)
    BY <1>1, BeginEffect
  <2> QED
    BY <1>1, <2>1, <2>2 DEF Begin
<1>2. CASE UNCHANGED vars
  BY <1>2 DEF vars
<1>3. CASE RunnerNext
  BY <1>1, <1>2, <1>3
     DEF RunnerNext, RunnerSelect, RunnerClaim, RunnerStart, RunnerExits,
         RunnerExecute, RunnerSignal, RunnerFailed
<1>4. CASE WatcherNext
  BY <1>2, <1>4 DEF WatcherNext, WatcherRead, WatcherSpawn
<1>5. ASSUME NEW e \in Executors, ExecNext(e) PROVE Moved
  <2>1. ASSUME NEW op \in Operations, NEW place, ExecCalls(e, op, place) PROVE Moved
    BY <1>1, <2>1 DEF ExecCalls
  <2> QED
    BY <1>2, <1>5, <2>1
       DEF ExecNext, ExecChat, ExecReply, ExecProjects, ExecMcp, ExecRoute, ExecRouted,
           ExecFailed, ExecFails
<1>6. ASSUME NEW a \in Loopers, NEW s, Lists(a, s) PROVE Moved
  BY <1>6 DEF Lists, InFlight, Outside, Steps, TypeOK
<1>7. CASE OrchestratorNext \/ UserAsks \/ UserResumes
  BY <1>1, <1>2, <1>6, <1>7
     DEF OrchestratorNext, UserAsks, UserResumes, CallsNext, GivesUp, Loopers
<1>8. CASE RunnerDies \/ DesktopDies
  BY <1>8 DEF RunnerDies, DesktopDies, InFlight, Outside, Steps, TypeOK
<1> QED
  BY <1>2, <1>3, <1>4, <1>5, <1>7, <1>8 DEF ExecutionNext, allVars, vars

\* Nobody else's claim, call or row is touched.
LEMMA ClaimsStay ==
    ASSUME NEW t \in Tasks, ClaimsOf(t),
           ActiveClaims(leases', t) \subseteq ActiveClaims(leases, t),
           tasks'[t].status = "accepted" =>
               tasks[t].status = "accepted" \/ ActiveClaims(leases, t) = {},
           calls'[Runner] = calls[Runner]
               \/ calls'[Runner].pc # "insert" \/ calls'[Runner].task # t,
           calls'[Orchestrator] = calls[Orchestrator]
               \/ calls'[Orchestrator].pc \notin {"write", "release"}
               \/ calls'[Orchestrator].task # t
    PROVE  ClaimsOf(t)'
BY DEF ClaimsOf, InFlight

\* Only the runner claims, and only the orchestrator accepts.
LEMMA WhoCalls ==
    ASSUME ExecTypeOK, LinkInv, NEW c \in Callers, InFlight(c)
    PROVE  /\ calls[c].task \in Tasks
           /\ calls[c].op = "claim" => c = Runner
           /\ calls[c].op = "accept" <=> c = Orchestrator
           /\ calls[c].op # "complete"
BY ActorAssumption, ActorsAreCallers
   DEF LinkInv, RunnerOp, ExecOp, ExecTypeOK, TypeOK, WellFormed, InFlight

LEMMA StatementClaims ==
    ASSUME ExecInv, NEW c \in Callers, ServiceStep(c), NEW t \in Tasks
    PROVE  ClaimsOf(t)'
<1> USE ActorAssumption, ActorsAreCallers DEF ExecTypeOK
<1>0. /\ ExecTypeOK /\ LinkInv /\ HandInv /\ ClaimRows /\ ClaimsOf(t)
      /\ calls[c].pc \in Steps /\ InFlight(c)
      /\ \A d \in Callers : d # c => calls'[d] = calls[d]
  BY StepEffect DEF ExecInv, ClaimInv, ServiceStep, InFlight
<1>1. CASE Check(c)
  <2>1. calls[c].op = "claim" /\ c = Runner
    BY <1>0, <1>1, WhoCalls DEF Check, TypeOK, WellFormed, Steps
  <2>2. CASE calls[c].task = t /\ calls'[c].pc = "insert"
    <3>1. Conflicts(leases, ClaimRequest(calls[c].task, calls[c].agent)) = {}
      BY <1>0, <1>1, <2>2 DEF Check, Return, Outside, TypeOK
    <3>2. ActiveClaims(leases, t) = {}
      BY <1>0, <1>1, <2>2, <3>1, CheckFindsNoClaim DEF Check
    <3> QED
      BY <1>1, <3>2 DEF Check, ClaimsOf
  <2>3. CASE calls'[c].pc # "insert" \/ calls[c].task # t
    <3>1. calls'[c].pc = "insert" => calls'[c].task = calls[c].task
      BY <1>0, <1>1 DEF Check, Goto, Return, Outside, TypeOK, CallStates
    <3> QED
      BY <1>0, <1>1, <2>1, <2>3, <3>1, ClaimsStay DEF Check
  <2> QED
    BY <2>2, <2>3
<1>2. ASSUME NEW l \in LeaseIds, InsertLease(c, l) PROVE ClaimsOf(t)'
  <2>1. calls[c].op = "claim" /\ c = Runner /\ calls'[c].pc = "write"
    BY <1>0, <1>2, WhoCalls DEF InsertLease, Goto, TypeOK, WellFormed, Steps, CallStates
  <2>2. CASE calls[c].task = t
    <3>1. ActiveClaims(leases, t) = {}
      BY <1>0, <1>2, <2>1, <2>2 DEF ClaimsOf, InsertLease
    <3>2. ActiveClaims(leases', t) \subseteq {l}
      BY <1>0, <1>2, <3>1
         DEF InsertLease, Inserted, ActiveClaims, ActiveLeases, Taken, TypeOK, LeaseTables
    <3>3. Has(c, t)
      BY <1>0, <2>1, <2>2, CallerHas
    <3>4. ~(InFlight(Orchestrator) /\ calls[Orchestrator].task = t)
      BY <1>0, <2>1, <3>3 DEF HandInv, HandsOf, Has, LooperHas, Loopers
    <3>5. tasks'[t].status # "accepted"
      BY <1>0, <1>2, <2>1, <3>3
         DEF HandInv, HandsOf, HandStatuses, RunnerExpects, InsertLease
    <3> QED
      BY <1>0, <2>1, <3>2, <3>4, <3>5 DEF ClaimsOf, InFlight
  <2>3. CASE calls[c].task # t
    <3>1. ActiveClaims(leases', t) \subseteq ActiveClaims(leases, t)
      BY <1>0, <1>2, <2>3
         DEF InsertLease, Inserted, ClaimRequest, ActiveClaims, ActiveLeases, Taken,
             TypeOK, LeaseTables
    <3> QED
      BY <1>0, <1>2, <2>1, <3>1, ClaimsStay DEF InsertLease
  <2> QED
    BY <2>2, <2>3
<1>3. CASE FindLease(c)
  <2>1. tasks' = tasks /\ leases' = leases /\ calls'[c].pc # "insert"
    BY <1>0, <1>3 DEF FindLease, Goto, TypeOK, CallStates
  <2>2. CASE c # Orchestrator \/ calls[c].task # t
    <3>1. calls'[c].task = calls[c].task
      BY <1>0, <1>3 DEF FindLease, Goto, TypeOK, CallStates
    <3> QED
      BY <1>0, <2>1, <2>2, <3>1, ClaimsStay
  <2>3. CASE c = Orchestrator /\ calls[c].task = t
    <3>1. \/ calls'[c].pc = "write" /\ ActiveClaims(leases, t) = {}
          \/ calls'[c].pc = "release" /\ calls'[c].lease \in ActiveClaims(leases, t)
      BY <1>0, <1>3, <2>3 DEF FindLease, Goto, TypeOK, CallStates
    <3> QED
      BY <1>0, <2>1, <2>3, <3>1 DEF ClaimsOf
  <2> QED
    BY <2>2, <2>3
<1>4. CASE ReleaseLease(c)
  <2>0. /\ ActiveClaims(leases', t) \subseteq ActiveClaims(leases, t)
        /\ calls'[c].pc = "write" => calls[c].lease \notin ActiveClaims(leases', t)
    BY <1>0, <1>4, ReleaseShrinks
  <2>1. /\ tasks' = tasks /\ calls'[c].pc \notin {"insert", "release"}
        /\ calls'[c].pc = "write" => calls'[c].task = calls[c].task
    BY <1>0, <1>4 DEF ReleaseLease, Return, Outside, TypeOK, CallStates
  <2>2. CASE c # Orchestrator \/ calls[c].task # t \/ calls'[c].pc # "write"
    BY <1>0, <2>0, <2>1, <2>2, ClaimsStay
  <2>3. CASE c = Orchestrator /\ calls[c].task = t /\ calls'[c].pc = "write"
    <3>1. ActiveClaims(leases', t) = {}
      BY <1>0, <1>4, <2>0, <2>3 DEF ClaimsOf, ReleaseLease
    <3> QED
      BY <2>1, <2>3, <3>1 DEF ClaimsOf
  <2> QED
    BY <2>2, <2>3
<1>5. CASE Write(c)
  <2>1. leases' = leases /\ calls'[c].pc \in {"ok", "err"}
    BY <1>0, <1>5 DEF Write, Return, Outside, TypeOK
  <2>2. CASE tasks'[t].status # "accepted" \/ tasks' = tasks
    BY <1>0, <2>1, <2>2, ClaimsStay
  <2>3. CASE tasks'[t].status = "accepted" /\ tasks' # tasks
    <3>1. \/ tasks'[t] = tasks[t]
          \/ calls[c].task = t /\ Target[calls[c].op] = "accepted"
      BY <1>0, <1>5, <2>3 DEF Write, Updated, TypeOK
    <3>2. CASE tasks'[t] = tasks[t]
      BY <1>0, <2>1, <3>2, ClaimsStay
    <3>3. CASE calls[c].task = t /\ Target[calls[c].op] = "accepted"
      <4>1. calls[c].op \in {"accept", "complete"}
        BY <1>0, <3>3 DEF Target, TypeOK, WellFormed
      <4>2. c = Orchestrator
        BY <1>0, <4>1, WhoCalls
      <4>3. ActiveClaims(leases, t) = {}
        BY <1>0, <1>5, <3>3, <4>2 DEF ClaimsOf, Write
      <4> QED
        BY <1>0, <2>1, <4>3, ClaimsStay
    <3> QED
      BY <3>1, <3>2, <3>3
  <2> QED
    BY <2>2, <2>3
<1> QED
  BY <1>1, <1>2, <1>3, <1>4, <1>5 DEF ServiceStep, Step

LEMMA ClaimStep ==
    ExecInv /\ LinkInv' /\ [ExecutionNext]_allVars => ClaimInv'
<1> SUFFICES ASSUME ExecInv, LinkInv', [ExecutionNext]_allVars PROVE ClaimInv'
  OBVIOUS
<1> USE ActorsAreCallers
<1>1. ASSUME NEW c \in Callers, ServiceStep(c) PROVE ClaimInv'
  <2>1. ClaimRows'
    BY <1>1, ClaimRowsStep DEF ServiceStep, Next, ExecInv, ExecTypeOK, ClaimInv
  <2> QED
    BY <1>1, <2>1, StatementClaims DEF ClaimInv
<1>2. CASE \A c \in Callers : ~ServiceStep(c)
  <2>1. /\ tasks' = tasks /\ leases' = leases
        /\ \A c \in Callers :
              \/ calls'[c] = calls[c]
              \/ ~InFlight(c)'
              \/ calls'[c].pc = AfterRead(calls'[c].op)
    BY <1>2, ActorMoves DEF ExecInv
  <2>2. ClaimRows'
    BY <2>1 DEF ExecInv, ClaimInv, ClaimRows
  <2>3. calls'[Runner] = calls[Runner] \/ calls'[Runner].pc # "insert"
    BY <2>1 DEF AfterRead, InFlight, Steps
  <2>4. calls'[Orchestrator] = calls[Orchestrator]
            \/ calls'[Orchestrator].pc \notin {"write", "release"}
    BY <2>1 DEF LinkInv, AfterRead, Releasing, InFlight, Steps
  <2>5. ASSUME NEW t \in Tasks PROVE ClaimsOf(t)'
    BY <2>1, <2>3, <2>4, ClaimsStay DEF ExecInv, ClaimInv
  <2> QED
    BY <2>2, <2>5 DEF ClaimInv
<1> QED
  BY <1>1, <1>2

----------------------------------------------------------------------------
(* The theorems.                                                           *)

LEMMA ExecInitInv == ExecInit => ExecInv
<1> SUFFICES ASSUME ExecInit PROVE ExecInv
  OBVIOUS
<1> USE ActorAssumption, ActorsAreCallers
<1>1. \A c \in Callers : calls[c].pc = "idle" /\ ~InFlight(c)
  BY DEF ExecInit, Outside, InFlight, Steps
<1>2. \A c \in Callers : calls[c] \in CallStates /\ WellFormed(calls[c])
  BY OutsideType DEF ExecInit
<1>3. TypeOK
  BY <1>2 DEF ExecInit, TypeOK, TaskRows, RowStatuses, Lifecycle!Statuses, LeaseTables
<1>4. ExecTypeOK
  BY <1>3 DEF ExecInit, ExecTypeOK, At, RunnerPlaces, ExecPlaces
<1>5. LinkInv
  BY <1>1 DEF ExecInit, LinkInv, At
<1>6. TodoInv
  BY <1>1 DEF TodoInv, Loopers
<1>7. HandInv
  <2>1. \A c \in Callers : \A t : ~Has(c, t)
    BY <1>1 DEF ExecInit, Has, LooperHas, RunnerHas, ExecHas, Loopers, At
  <2> QED
    BY <2>1 DEF ExecInit, HandInv, HandsOf, LiveStatuses
<1>8. Taken(leases) = {}
  BY DEF ExecInit, Taken
<1>9. ClaimInv
  BY <1>1, <1>8
     DEF ExecInit, ClaimInv, ClaimRows, ClaimsOf, ActiveClaims, ActiveLeases
<1> QED
  BY <1>4, <1>5, <1>6, <1>7, <1>9 DEF ExecInv

(***************************************************************************)
(* The inductive invariant: every action of every actor, every statement   *)
(* of their calls (goal_tasks.rs) and every death keeps it.                *)
(***************************************************************************)
THEOREM ExecInvHolds == ExecutionSpec => []ExecInv
<1>1. ExecInv /\ [ExecutionNext]_allVars => ExecInv'
  BY ExecTypeStep, LinkStep, TodoStep, HandStep, ClaimStep DEF ExecInv
<1> QED
  BY <1>1, ExecInitInv, PTL DEF ExecutionSpec

(***************************************************************************)
(* The tables, the calls and the actors' places keep their types through   *)
(* every interleaving of the runner (agent_run.rs), the signal watcher and *)
(* its executions (worker.rs), the orchestrator, the user and the deaths.  *)
(***************************************************************************)
THEOREM ExecTypeCorrect == ExecutionSpec => []ExecTypeOK
<1>1. ExecInv => ExecTypeOK
  BY DEF ExecInv
<1> QED
  BY <1>1, ExecInvHolds, PTL

(***************************************************************************)
(* For any number of tasks, executions, deaths and resumes no task is      *)
(* executed twice at the same time (worker.rs:946), and no task has two    *)
(* active claims: two executions of one task would both have it in hand.   *)
(***************************************************************************)
THEOREM ExecutionsAreSingle == ExecutionSpec => []NoDoubleExecution
<1>1. ExecInv => NoDoubleExecution
  <2> SUFFICES ASSUME ExecInv PROVE NoDoubleExecution
    OBVIOUS
  <2> USE ActorAssumption, ActorsAreCallers
  <2>1. ASSUME NEW e \in Executors, NEW f \in Executors, e # f, Executing(e), Executing(f)
        PROVE  execs[e].task # execs[f].task
    <3>1. /\ execs[e].task \in Tasks
          /\ Has(e, execs[e].task) /\ Has(f, execs[f].task)
      BY <2>1 DEF ExecInv, LinkInv, Executing, Has, ExecHas
    <3> QED
      BY <2>1, <3>1 DEF ExecInv, HandInv, HandsOf
  <2>2. ASSUME NEW t \in Tasks PROVE Cardinality(ActiveClaims(leases, t)) <= 1
    <3>1. \A k, l \in ActiveClaims(leases, t) : k = l
      BY DEF ExecInv, ClaimInv, ClaimsOf
    <3>2. \/ ActiveClaims(leases, t) = {}
          \/ \E l : ActiveClaims(leases, t) = {l}
      BY <3>1
    <3>3. CASE ActiveClaims(leases, t) = {}
      BY <3>3, FS_EmptySet
    <3>4. ASSUME NEW l, ActiveClaims(leases, t) = {l}
          PROVE  Cardinality(ActiveClaims(leases, t)) <= 1
      <4>1. Cardinality({l}) = 1
        BY FS_Singleton
      <4> QED
        BY <3>4, <4>1
    <3> QED
      BY <3>2, <3>3, <3>4
  <2> QED
    BY <2>1, <2>2 DEF NoDoubleExecution
<1> QED
  BY <1>1, ExecInvHolds, PTL

(***************************************************************************)
(* What the orchestrator accepted has a result and holds no claim, also    *)
(* when the accept races with a resume, a late failure or a death between  *)
(* the release of the lease and the UPDATE of the row (goal_tasks.rs       *)
(* accept_task, worker.rs:967).                                            *)
(***************************************************************************)
THEOREM AcceptedIsComplete == ExecutionSpec => []AcceptedTasksAreComplete
<1>1. ExecInv => AcceptedTasksAreComplete
  BY DEF ExecInv, HandInv, HandsOf, ClaimInv, ClaimsOf, AcceptedTasksAreComplete
<1> QED
  BY <1>1, ExecInvHolds, PTL

=============================================================================
