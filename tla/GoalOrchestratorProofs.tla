----------------------- MODULE GoalOrchestratorProofs -----------------------
(***************************************************************************)
(* Proofs about a goal, its cycles and the scripts of the worker and of    *)
(* the user.                                                               *)
(***************************************************************************)
EXTENDS GoalOrchestrator, FiniteSetTheorems, SequenceTheorems, TLAPS

----------------------------------------------------------------------------
(* What may stand in a script while the goal has N cycles.                 *)

GoalGoes == {"planning", "awaiting_plan_approval", "running", "awaiting_review", "blocked",
             "rework_required", "accepted", "cancelled"}
CycleGoes == {"orienting", "deciding", "dispatching", "executing", "reviewing", "summarizing",
              "completed"}
CycleStatuses == Ended \cup {Phases[i] : i \in DOMAIN Phases}
TeamGoes == {"planning", "awaiting_plan_approval", "executing", "awaiting_review",
             "rework_required"}
TaskRowStatuses == Lifecycle!Statuses \cup Lifecycle!NoRowStatuses
Hashes == [hints : Int, intents : SUBSET (TaskIds \X TaskRowStatuses)]

\* The cycles whose budget is not used up.
Funded(N) == {n \in 1 .. N : n < Budget.max_cycles}

\* Statements that may stand anywhere.
Plain(N) ==
    [do : {"observe", "create_cycle"}]
    \cup [do : {"move_goal"}, to : GoalGoes]
    \cup [do : {"move_goal_if"}, from : SUBSET GoalStatuses, to : GoalGoes]
    \cup [do : {"move_cycle"}, n : 1 .. N, to : CycleGoes]
    \cup [do : {"move_team"}, n : 1 .. N, to : TeamGoes]
    \cup [do : {"close_team"}, n : 1 .. N, to : {"accepted", "rework_required"}]
    \cup [do : {"create_task"}, n : Funded(N)]
    \cup [do : {"staff_team", "plan_team", "accept_ready", "weigh", "review",
                "resume_tasks", "review_team"}, n : 1 .. N]
    \cup [do : DOMAIN TaskCalls, task : TaskIds]
    \cup [do : {"set_hash"}, n : 1 .. N, hash : Hashes, plan : Plans]
    \cup [do : {"verdict"}, accepted : BOOLEAN]

\* Statements that stand in front only: the writes whose checks have been made.
Front(N) ==
    [do : {"look"}, status : GoalStatuses]
    \cup [do : {"link_cycle"}, n : 1 .. N]
    \cup [do : {"write_goal"}, to : GoalGoes]
    \cup [do : {"write_cycle"}, n : 1 .. N, to : CycleGoes]

Steps(N) == Plain(N) \cup Front(N)

CycleRows == [status : CycleStatuses, hash : Hashes, plan : Plans, team : DOMAIN TeamTargets]
TaskRows ==
    [status : TaskRowStatuses, cycle : {n \in Nat : n = 0 \/ n < Budget.max_cycles}]

ScriptOK(c) ==
    /\ script[c] \in Seq(Steps(Len(cycles)))
    /\ script[c] # <<>> => Tail(script[c]) \in Seq(Plain(Len(cycles)))

GoalInv ==
    /\ GoalTypeOK
    /\ cycles \in Seq(CycleRows) /\ goal \in [status : GoalStatuses, current : Nat]
    /\ tasks \in [TaskIds -> TaskRows] /\ hints \in Nat
    /\ script \in [Callers -> Seq(Steps(Len(cycles)))]
    /\ \A c \in Callers : ScriptOK(c)
    /\ IsFiniteSet({t \in TaskIds : tasks[t].status # "absent"})
----------------------------------------------------------------------------
(* Plans.                                                                  *)

\* What filter_dispatch grants is no more than was planned, and no more than
\* the agents there may be.
LEMMA GrantsAreBounded ==
  ASSUME NEW report \in Reports, NEW planned \in Nat
  PROVE  /\ Granted(planned, report) \in 0 .. MaxParallelAgents
         /\ Granted(planned, report) <= planned
<1>1. report.occupied \in Nat
  BY DEF Reports
<1> QED
  BY <1>1 DEF Granted, MaxParallelAgents

\* A plan is what its columns may hold; a cycle whose budget is used up is
\* granted nothing.
LEMMA PlansAreBounded ==
  ASSUME NEW report \in Reports, NEW budget \in Budgets, NEW reply \in ReplyRecords
  PROVE  /\ PlanFor(report, budget, reply) \in Plans
         /\ report.cycle >= budget.max_cycles => PlanFor(report, budget, reply).granted = 0
<1> DEFINE planned == Planned(report, budget, reply)
<1>1. planned \in Nat
  BY DEF Planned, Reasoned, Improvised, Reports, ReplyRecords
<1>2. report.cycle >= budget.max_cycles => planned = 0
  BY DEF Planned, Exhausted
<1> HIDE DEF planned
<1>3. Granted(planned, report) \in 0 .. MaxParallelAgents /\ Granted(planned, report) <= planned
  BY <1>1, GrantsAreBounded
<1>4. PlanFor(report, budget, reply) =
         [ planned |-> planned, granted |-> Granted(planned, report),
           clear |-> ~report.blockers /\ ~Exhausted(report, budget) ]
  BY DEF PlanFor, planned
<1>5. (~report.blockers /\ ~Exhausted(report, budget)) \in BOOLEAN
  OBVIOUS
<1>6. planned = 0 => Granted(planned, report) = 0
  BY <1>3 DEF MaxParallelAgents
<1> QED
  BY <1>1, <1>2, <1>3, <1>4, <1>5, <1>6 DEF Plans

LEMMA PlansMade ==
  ASSUME GoalInv, NEW n \in Nat, NEW agents \in Heartbeats, NEW reply \in Replies
  PROVE  /\ PlanFor(Report(n, agents), Budget, reply) \in Plans
         /\ n >= Budget.max_cycles => PlanFor(Report(n, agents), Budget, reply).granted = 0
<1>1. OpenTasks \subseteq {t \in TaskIds : tasks[t].status # "absent"}
  BY DEF OpenTasks, Lifecycle!Statuses
<1>2. Cardinality(OpenTasks) \in Nat
  BY <1>1, FS_Subset, FS_CardinalityType DEF GoalInv
<1>3. (\E t \in OpenTasks : tasks[t].status \in {"blocked", "rework_required"}) \in BOOLEAN
  OBVIOUS
<1>4. Report(n, agents) \in Reports /\ Report(n, agents).cycle = n
  BY <1>2, <1>3, PlanAssumption DEF Report, Reports
<1> QED
  BY <1>4, PlanAssumption, PlansAreBounded

----------------------------------------------------------------------------
(* Scripts.                                                                *)

LEMMA StepsMade ==
  ASSUME NEW N \in Nat
  PROVE  /\ \A to \in GoalGoes : MoveGoal(to) \in Plain(N)
         /\ \A from \in SUBSET GoalStatuses, to \in GoalGoes : MoveGoalIf(from, to) \in Plain(N)
         /\ \A n \in 1 .. N : \A to \in CycleGoes : MoveCycle(n, to) \in Plain(N)
         /\ \A n \in 1 .. N : \A to \in TeamGoes : MoveTeam(n, to) \in Plain(N)
         /\ \A n \in 1 .. N :
               \A do \in {"staff_team", "plan_team", "accept_ready", "weigh", "review",
                          "resume_tasks", "review_team"} : On(do, n) \in Plain(N)
         /\ \A n \in Funded(N) : On("create_task", n) \in Plain(N)
         /\ \A do \in DOMAIN TaskCalls : \A t \in TaskIds : OnTask(do, t) \in Plain(N)
         /\ \A n \in 1 .. N : \A hash \in Hashes, plan \in Plans :
               SetHash(n, hash, plan) \in Plain(N)
         /\ [do |-> "observe"] \in Plain(N) /\ [do |-> "create_cycle"] \in Plain(N)
         /\ \A b \in BOOLEAN : [do |-> "verdict", accepted |-> b] \in Plain(N)
         /\ \A n \in 1 .. N : \A to \in {"accepted", "rework_required"} :
               [do |-> "close_team", n |-> n, to |-> to] \in Plain(N)
         /\ \A s \in GoalStatuses : [do |-> "look", status |-> s] \in Front(N)
         /\ \A n \in 1 .. N : On("link_cycle", n) \in Front(N)
         /\ \A to \in GoalGoes : [do |-> "write_goal", to |-> to] \in Front(N)
  BY DEF Plain, Front, MoveGoal, MoveGoalIf, MoveCycle, MoveTeam, On, OnTask, SetHash

LEMMA StepsRead ==
  ASSUME NEW N \in Nat, NEW s \in Steps(N)
  PROVE  /\ s.do = "look" => s.status \in GoalStatuses
         /\ s.do \in {"move_goal", "write_goal", "move_goal_if"} => s.to \in GoalGoes
         /\ s.do \in {"move_cycle", "write_cycle"} => s.n \in 1 .. N /\ s.to \in CycleGoes
         /\ s.do = "move_cycle" => [s EXCEPT !.do = "write_cycle"] \in Front(N)
         /\ s.do = "move_team" => s.n \in 1 .. N /\ s.to \in TeamGoes
         /\ s.do = "close_team" => s.n \in 1 .. N /\ s.to \in {"accepted", "rework_required"}
         /\ s.do \in {"create_task", "staff_team", "plan_team", "accept_ready", "weigh", "review",
                      "resume_tasks", "review_team", "link_cycle"} => s.n \in 1 .. N
         /\ s.do = "create_task" => s.n < Budget.max_cycles
         /\ s.do \in DOMAIN TaskCalls => s.task \in TaskIds
         /\ s.do = "set_hash" => s.n \in 1 .. N /\ s.hash \in Hashes /\ s.plan \in Plans
         /\ s.do = "verdict" => s.accepted \in BOOLEAN
<1> USE DEF TaskCalls
<1>1. CASE s \in [do : {"observe", "create_cycle"}] \cup [do : {"move_goal"}, to : GoalGoes]
               \cup [do : {"move_goal_if"}, from : SUBSET GoalStatuses, to : GoalGoes]
  BY <1>1
<1>2. CASE s \in [do : {"move_cycle"}, n : 1 .. N, to : CycleGoes]
  <2>1. [s EXCEPT !.do = "write_cycle"] \in [do : {"write_cycle"}, n : 1 .. N, to : CycleGoes]
    BY <1>2
  <2> QED
    BY <1>2, <2>1 DEF Front
<1>3. CASE s \in [do : {"move_team"}, n : 1 .. N, to : TeamGoes]
               \cup [do : {"close_team"}, n : 1 .. N, to : {"accepted", "rework_required"}]
               \cup [do : DOMAIN TaskCalls, task : TaskIds]
  BY <1>3
<1>4. CASE s \in [do : {"create_task"}, n : Funded(N)]
               \cup [do : {"staff_team", "plan_team", "accept_ready", "weigh", "review",
                        "resume_tasks", "review_team"}, n : 1 .. N]
               \cup [do : {"set_hash"}, n : 1 .. N, hash : Hashes, plan : Plans]
               \cup [do : {"verdict"}, accepted : BOOLEAN]
  BY <1>4 DEF Funded
<1>5. CASE s \in Front(N)
  BY <1>5 DEF Front
<1> QED
  BY <1>1, <1>2, <1>3, <1>4, <1>5 DEF Steps, Plain

LEMMA StepsGrow ==
  ASSUME NEW N \in Nat, NEW M \in Nat, N <= M
  PROVE  Plain(N) \subseteq Plain(M) /\ Steps(N) \subseteq Steps(M)
<1>1. 1 .. N \subseteq 1 .. M
  OBVIOUS
<1>2. Plain(N) \subseteq Plain(M)
  <2>1. Funded(N) \subseteq Funded(M)
    BY <1>1 DEF Funded
  <2> QED
    BY <1>1, <2>1 DEF Plain
<1>3. Front(N) \subseteq Front(M)
  BY <1>1 DEF Front
<1> QED
  BY <1>2, <1>3 DEF Steps

\* What a statement in front never is.
LEMMA PlainIsNoWrite ==
  ASSUME NEW N \in Nat, NEW s \in Plain(N)
  PROVE  s.do \notin {"look", "link_cycle", "write_goal", "write_cycle"}
  BY DEF Plain, TaskCalls

LEMMA SeqsGrow ==
  ASSUME NEW P, NEW Q, P \subseteq Q, NEW s \in Seq(P)
  PROVE  s \in Seq(Q)
  OBVIOUS

\* A statement puts further ones in front, or its write.
LEMMA ScriptGoesOn ==
  ASSUME NEW P, NEW Q, P \subseteq Q, NEW s \in Seq(Q), s # <<>>, Tail(s) \in Seq(P),
         NEW steps, steps \in Seq(P) \/ (\E x \in Q : steps = <<x>>)
  PROVE  LET r == steps \o Tail(s)
         IN r \in Seq(Q) /\ (r # <<>> => Tail(r) \in Seq(P))
<1>1. CASE steps \in Seq(P)
  <2>1. steps \o Tail(s) \in Seq(P)
    BY <1>1
  <2>2. steps \o Tail(s) # <<>> => Tail(steps \o Tail(s)) \in Seq(P)
    BY <2>1
  <2> QED
    BY <2>1, <2>2, SeqsGrow
<1>2. ASSUME NEW x \in Q, steps = <<x>>
      PROVE  LET r == steps \o Tail(s)
             IN r \in Seq(Q) /\ (r # <<>> => Tail(r) \in Seq(P))
  <2>1. Tail(s) \in Seq(Q)
    BY SeqsGrow
  <2>2. steps \o Tail(s) \in Seq(Q)
    BY <1>2, <2>1
  <2>3. Tail(steps \o Tail(s)) = Tail(s)
    BY <1>2, <2>1
  <2> QED
    BY <2>2, <2>3
<1> QED
  BY <1>1, <1>2

LEMMA Cut ==
  ASSUME NEW P, NEW s \in Seq(P), NEW b
  PROVE  When(b, s) \in Seq(P)
<1>1. <<>> \in Seq(P)
  OBVIOUS
<1> QED
  BY <1>1 DEF When

\* Every set of natural numbers has a least element, so one that is bounded has
\* a greatest.
LEMMA Least ==
  ASSUME NEW T, T \subseteq Nat, T # {}
  PROVE  \E x \in T : \A y \in T : x <= y
<1>1. PICK R : IsWellFoundedOn(R, Nat) /\ \A x, y \in Nat : <<x, y>> \in R <=> x < y
  <2>1. IsWellFoundedOn(OpToRel(<, Nat), Nat)
    BY NatLessThanWellFounded
  <2>2. \A x, y \in Nat : <<x, y>> \in OpToRel(<, Nat) <=> x < y
    BY DEF OpToRel
  <2> QED
    BY <2>1, <2>2
<1>0. \A r, s, t : IsWellFoundedOn(r, s) /\ t \subseteq s /\ t # {} =>
               \E x \in t : \A y \in t : ~ (<<y, x>> \in r)
  BY WFMin, ZenonT(30)
<1>2. PICK x \in T : \A y \in T : ~ (<<y, x>> \in R)
  <2>1. IsWellFoundedOn(R, Nat)
    BY <1>1
  <2> QED
    BY <2>1, <1>0, ZenonT(30)
<1>3. ASSUME NEW y \in T
      PROVE  x <= y
  <2>1. x \in Nat /\ y \in Nat
    OBVIOUS
  <2>2. ~ (<<y, x>> \in R)
    BY <1>2
  <2>3. <<y, x>> \in R <=> y < x
    BY <1>1, <2>1, Zenon
  <2> QED
    BY <2>1, <2>2, <2>3
<1> QED
  BY <1>3

LEMMA HasMax ==
  ASSUME NEW N \in Nat, NEW S, S \subseteq 1 .. N, S # {}
  PROVE  \E n \in S : \A m \in S : m <= n
<1> DEFINE T == {k \in Nat : \E n \in S : k = N - n}
<1>1. T # {}
  <2>1. PICK n \in S : TRUE
    OBVIOUS
  <2>2. N - n \in T
    BY <2>1
  <2> QED
    BY <2>2
<1>2. PICK x \in T : \A y \in T : x <= y
  BY <1>1, Least
<1>3. PICK n \in S : x = N - n
  BY <1>2
<1>4. ASSUME NEW m \in S
      PROVE  m <= n
  <2>1. N - m \in T /\ N - m \in Nat
    OBVIOUS
  <2>2. x <= N - m
    BY <1>2, <2>1
  <2> QED
    BY <1>3, <2>2
<1> QED
  BY <1>3, <1>4

\* The observed hash, and the cycle a tick finds.
LEMMA Observed ==
  ASSUME GoalInv
  PROVE  /\ GraphHash \in Hashes
         /\ NewestOpen \in 0 .. Len(cycles)
         /\ NewestOpen # 0 => NewestOpen \in OpenCycles
<1>1. GraphHash \in Hashes
  <2>1. tasks \in [TaskIds -> TaskRows] /\ hints \in Int
    BY DEF GoalInv
  <2>2. ASSUME NEW t \in TaskIds
        PROVE  <<t, tasks[t].status>> \in TaskIds \X TaskRowStatuses
    BY <2>1 DEF TaskRows
  <2>3. GraphHash.intents \subseteq TaskIds \X TaskRowStatuses /\ GraphHash.hints = hints
    BY <2>2 DEF GraphHash
  <2> QED
    BY <2>1, <2>3 DEF GraphHash, Hashes
<1>2. OpenCycles \subseteq 1 .. Len(cycles) /\ Len(cycles) \in Nat
  BY DEF OpenCycles, GoalInv
<1>3. ASSUME OpenCycles # {}
      PROVE  \E n \in OpenCycles : \A m \in OpenCycles : m <= n
  BY <1>2, <1>3, HasMax
<1>4. CASE OpenCycles # {}
  <2>1. NewestOpen \in OpenCycles
    BY <1>3, <1>4, Zenon DEF NewestOpen
  <2> QED
    BY <1>1, <1>2, <2>1
<1> QED
  BY <1>1, <1>2, <1>4 DEF NewestOpen

LEMMA ScriptsMade ==
  ASSUME GoalInv, NEW n \in 1 .. Len(cycles)
  PROVE  LET P == Plain(Len(cycles))
         IN /\ \A s, gated : n \in OpenCycles /\ cycles[n].status # "dispatching" =>
                  PhaseScript(n, s, gated) \in Seq(P)
            /\ \A s, gated : \A plan \in Plans :
                  (n >= Budget.max_cycles => plan.granted = 0) =>
                     DispatchScript(n, s, plan, gated) \in Seq(P)
            /\ WeighScript(n) \in Seq(P) /\ ReviewScript(n) \in Seq(P)
            /\ \A to \in {"accepted", "rework_required"} : VerdictScript(n, to) \in Seq(P)
<1> DEFINE N == Len(cycles)
           P == Plain(N)
<1>1. N \in Nat /\ cycles[n] \in CycleRows
  BY DEF GoalInv
<1>2. /\ \A to \in GoalGoes : MoveGoal(to) \in P
      /\ \A to \in CycleGoes : MoveCycle(n, to) \in P
      /\ n \in Funded(N) => On("create_task", n) \in P
      /\ \A do \in {"staff_team", "plan_team", "accept_ready", "weigh", "review",
                     "resume_tasks", "review_team"} : On(do, n) \in P
      /\ \A hash \in Hashes, plan \in Plans : SetHash(n, hash, plan) \in P
      /\ \A from \in SUBSET GoalStatuses, to \in GoalGoes : MoveGoalIf(from, to) \in P
      /\ [do |-> "verdict", accepted |-> TRUE] \in P
      /\ \A to \in {"accepted", "rework_required"} : [do |-> "close_team", n |-> n, to |-> to] \in P
  BY <1>1, StepsMade
<1>3. GraphHash \in Hashes
  BY Observed
<1> HIDE DEF P
<1>4. \A x \in P : <<x>> \in Seq(P)
  OBVIOUS
<1>5. \A x, y \in P : <<x, y>> \in Seq(P)
  OBVIOUS
<1>6. \A x, y, z \in P : <<x, y, z>> \in Seq(P)
  OBVIOUS
<1>7. <<>> \in Seq(P) /\ \A s, t \in Seq(P) : s \o t \in Seq(P)
  OBVIOUS
<1>8. \A b : \A s \in Seq(P) : When(b, s) \in Seq(P)
  BY <1>7 DEF When
<1>9. {"running"} \subseteq GoalStatuses /\ {"awaiting_review", "running"} \subseteq GoalStatuses
  BY DEF GoalStatuses, GoalTargets
<1>10. ASSUME NEW s, NEW gated, n \in OpenCycles, cycles[n].status # "dispatching"
       PROVE  PhaseScript(n, s, gated) \in Seq(P)
  <2>1. cycles[n].status \in {"observing", "orienting", "deciding", "executing", "reviewing",
                              "summarizing"}
    BY <1>1, <1>10 DEF OpenCycles, CycleRows, CycleStatuses, Phases
  <2>2. <<MoveCycle(n, "orienting")>> \in Seq(P) /\ <<MoveCycle(n, "deciding")>> \in Seq(P)
          /\ <<MoveCycle(n, "dispatching")>> \in Seq(P) /\ <<MoveCycle(n, "completed")>> \in Seq(P)
    BY <1>2, <1>4 DEF CycleGoes
  <2>3. <<On("accept_ready", n), On("weigh", n)>> \in Seq(P) /\ <<On("review", n)>> \in Seq(P)
    BY <1>2, <1>4, <1>5
  <2>4. When(gated /\ s = "planning", <<MoveGoal("awaiting_plan_approval")>>)
           \o <<MoveCycle(n, "dispatching")>> \in Seq(P)
    BY <1>2, <1>4, <1>7, <1>8, <2>2 DEF GoalGoes
  <2> QED
    BY <2>1, <2>2, <2>3, <2>4 DEF PhaseScript
<1>11. ASSUME NEW plan \in Plans, n >= Budget.max_cycles => plan.granted = 0
       PROVE  Act(n, plan) \in Seq(P)
  <2>1. plan.granted \in Nat
    BY DEF Plans
  <2>2. CASE plan.granted = 0
    BY <1>7, <2>2 DEF Act, When
  <2>3. CASE plan.granted > 0
    <3>1. n \in Funded(N)
      BY <1>1, <1>11, <2>1, <2>3, PlanAssumption DEF Funded, Budgets
    <3>2. [i \in 1 .. plan.granted |-> On("create_task", n)] \in Seq(P)
      BY <1>2, <2>1, <3>1
    <3> QED
      BY <1>2, <1>4, <1>7, <1>8, <3>2 DEF Act
  <2> QED
    BY <2>1, <2>2, <2>3
<1>12. ASSUME NEW s, NEW gated, NEW plan \in Plans, n >= Budget.max_cycles => plan.granted = 0
       PROVE  DispatchScript(n, s, plan, gated) \in Seq(P)
  <2>1. Execute(n, s, plan) \in Seq(P)
    <3>1. <<MoveGoal("running")>> \in Seq(P) /\ <<MoveCycle(n, "executing")>> \in Seq(P)
      BY <1>2, <1>4 DEF GoalGoes, CycleGoes
    <3>2. <<MoveCycle(n, "executing")>> \o Act(n, plan) \in Seq(P)
      BY <1>7, <1>11, <1>12, <3>1
    <3> QED
      BY <1>7, <1>8, <3>1, <3>2 DEF Execute
  <2>2. <<SetHash(n, GraphHash, plan)>> \in Seq(P)
    BY <1>2, <1>3, <1>4
  <2>3. When(s = "planning", <<MoveGoal("awaiting_plan_approval")>>) \o <<On("plan_team", n)>> \in Seq(P)
    BY <1>2, <1>4, <1>7, <1>8 DEF GoalGoes
  <2>4. When(gated => plan.clear, Execute(n, s, plan)) \in Seq(P)
    BY <1>8, <2>1
  <2> QED
    BY <1>7, <1>8, <2>2, <2>3, <2>4 DEF DispatchScript
<1>13. WeighScript(n) \in Seq(P)
  BY <1>2, <1>4, <1>6, <1>7, <1>9 DEF WeighScript, GoalGoes, CycleGoes
<1>14. ReviewScript(n) \in Seq(P)
  BY <1>2, <1>4, <1>7, <1>8, <1>9 DEF ReviewScript, GoalGoes
<1>15. ASSUME NEW to \in {"accepted", "rework_required"}
       PROVE  VerdictScript(n, to) \in Seq(P)
  <2>1. cycles[n].plan \in Plans
    BY <1>1 DEF CycleRows
  <2>2. \A a, b, c, d, e \in P : <<a, b, c, d, e>> \in Seq(P)
    OBVIOUS
  <2> QED
    BY <1>2, <1>3, <2>1, <2>2 DEF VerdictScript, GoalGoes, CycleGoes
<1> QED
  BY <1>10, <1>12, <1>13, <1>14, <1>15 DEF P

\* The caller's next statement is the UPDATE of update_goal_status.
Writing(c) == At(c, "write_goal")

LEMMA OnlyOne ==
  ASSUME NEW x, NEW y, <<x>> = <<y>>
  PROVE  x = y
  OBVIOUS

LEMMA PlainOnly ==
  ASSUME NEW N \in Nat, NEW x, <<x>> \in Seq(Plain(N))
  PROVE  x.do # "write_goal"
<1>1. <<x>>[1] \in Plain(N) /\ <<x>>[1] = x
  OBVIOUS
<1> QED
  BY <1>1, PlainIsNoWrite

\* A caller's script goes on while the goal has no fewer cycles than before.
LEMMA ScriptsKept ==
  ASSUME GoalInv, NEW c \in Callers, script[c] # <<>>, Len(cycles') \in Nat,
         Len(cycles) <= Len(cycles'), NEW steps, Then(c, steps),
         \/ steps \in Seq(Plain(Len(cycles')))
         \/ \E x \in Steps(Len(cycles')) : steps = <<x>>
  PROVE  /\ script' \in [Callers -> Seq(Steps(Len(cycles')))]
         /\ \A d \in Callers : ScriptOK(d)'
         /\ Writing(c)' => \E x : steps = <<x>> /\ x.do = "write_goal"
<1> DEFINE P == Plain(Len(cycles'))
           Q == Steps(Len(cycles'))
           O == Plain(Len(cycles))
           R == Steps(Len(cycles))
<1>1. O \subseteq P /\ R \subseteq Q
  BY StepsGrow DEF GoalInv
<1>2. P \subseteq Q
  BY DEF Steps
<1>3. \A d \in Callers : script[d] \in Seq(R) /\ (script[d] # <<>> => Tail(script[d]) \in Seq(O))
  BY DEF GoalInv, ScriptOK
<1> SUFFICES /\ script' \in [Callers -> Seq(Q)]
             /\ \A d \in Callers : script'[d] # <<>> => Tail(script'[d]) \in Seq(P)
             /\ Writing(c)' => \E x : steps = <<x>> /\ x.do = "write_goal"
  BY DEF ScriptOK
<1>0. \A x \in P : x.do # "write_goal"
  BY PlainIsNoWrite
<1>4. steps \in Seq(P) \/ \E x \in Q : steps = <<x>>
  OBVIOUS
<1> HIDE DEF P, Q, O, R
<1>5. \A d \in Callers : script[d] \in Seq(Q) /\ (script[d] # <<>> => Tail(script[d]) \in Seq(P))
  BY <1>1, <1>3, SeqsGrow
<1>6. LET r == steps \o Tail(script[c]) IN r \in Seq(Q) /\ (r # <<>> => Tail(r) \in Seq(P))
  BY <1>2, <1>4, <1>5, ScriptGoesOn
<1>7. script' = [script EXCEPT ![c] = steps \o Tail(script[c])] /\ DOMAIN script = Callers
  BY DEF Then, GoalInv
<1>8. ASSUME Writing(c)'
      PROVE  \E x : steps = <<x>> /\ x.do = "write_goal"
  <2>1. script'[c] = steps \o Tail(script[c]) /\ script'[c] # <<>> /\ Head(script'[c]).do = "write_goal"
    BY <1>7, <1>8 DEF Writing, At
  <2>2. steps \notin Seq(P)
    <3>1. SUFFICES ASSUME steps \in Seq(P)
                   PROVE  FALSE
      OBVIOUS
    <3>2. steps \o Tail(script[c]) \in Seq(P)
      BY <1>5, <3>1
    <3>3. Head(script'[c]) \in P
      BY <2>1, <3>2
    <3> QED
      BY <1>0, <2>1, <3>3
  <2>3. PICK x \in Q : steps = <<x>>
    BY <1>4, <2>2
  <2>4. Head(<<x>> \o Tail(script[c])) = x
    BY <1>5
  <2> QED
    BY <2>1, <2>3, <2>4
<1> QED
  BY <1>5, <1>6, <1>7, <1>8

LEMMA ScriptsKeptHere ==
  ASSUME GoalInv, NEW c \in Callers, script[c] # <<>>, UNCHANGED cycles,
         NEW steps \in Seq(Plain(Len(cycles))), Then(c, steps)
  PROVE  /\ script' \in [Callers -> Seq(Steps(Len(cycles')))]
         /\ \A d \in Callers : ScriptOK(d)'
         /\ ~Writing(c)'
<1>1. Len(cycles') = Len(cycles) /\ Len(cycles) \in Nat
  BY DEF GoalInv
<1>2. steps \in Seq(Plain(Len(cycles'))) /\ Len(cycles) <= Len(cycles')
  BY <1>1
<1>3. \A x : steps = <<x>> => x.do # "write_goal"
  BY <1>1, PlainOnly
<1> QED
  BY <1>1, <1>2, <1>3, ScriptsKept

LEMMA ScriptFails ==
  ASSUME GoalInv, NEW c \in Callers, Fails(c), UNCHANGED cycles
  PROVE  /\ script' \in [Callers -> Seq(Steps(Len(cycles')))]
         /\ \A d \in Callers : ScriptOK(d)'
         /\ ~Writing(c)'
<1>1. script' = [script EXCEPT ![c] = <<>>] /\ DOMAIN script = Callers
  BY DEF Fails, GoalInv
<1>2. <<>> \in Seq(Steps(Len(cycles)))
  OBVIOUS
<1> QED
  BY <1>1, <1>2 DEF GoalInv, ScriptOK, Writing, At

\* What stands in front of a script.
LEMMA InFront ==
  ASSUME GoalInv, NEW c \in Callers, NEW do, At(c, do)
  PROVE  This(c) \in Steps(Len(cycles)) /\ This(c).do = do /\ script[c] # <<>>
  BY DEF At, This, GoalInv

\* The tables do not change.
LEMMA TablesKept ==
  ASSUME GoalInv, UNCHANGED <<goal, cycles, tasks, hints, crashes>>,
         script' \in [Callers -> Seq(Steps(Len(cycles')))], \A d \in Callers : ScriptOK(d)'
  PROVE  GoalInv'
  BY DEF GoalInv, GoalTypeOK, CycleTasks

LEMMA OnlyScriptMoves ==
  ASSUME GoalInv, NEW c \in Callers, script[c] # <<>>, UNCHANGED <<goal, cycles, tasks, hints, crashes>>,
         NEW steps, Then(c, steps),
         \/ steps \in Seq(Plain(Len(cycles)))
         \/ \E x \in Steps(Len(cycles)) : steps = <<x>>
  PROVE  GoalInv' /\ (Writing(c)' => \E x : steps = <<x>> /\ x.do = "write_goal")
<1>1. Len(cycles') \in Nat /\ Len(cycles) <= Len(cycles')
  BY DEF GoalInv
<1> QED
  BY <1>1, ScriptsKept, TablesKept

LEMMA OnlyScriptGoesOn ==
  ASSUME GoalInv, NEW c \in Callers, script[c] # <<>>, UNCHANGED <<goal, cycles, tasks, hints, crashes>>,
         NEW steps \in Seq(Plain(Len(cycles))), Then(c, steps)
  PROVE  GoalInv' /\ ~Writing(c)'
  BY ScriptsKeptHere, TablesKept

\* A row of goal_cycles changes.
LEMMA OneCycleMoves ==
  ASSUME GoalInv, NEW c \in Callers, script[c] # <<>>, UNCHANGED <<goal, tasks, hints, crashes>>,
         NEW n \in 1 .. Len(cycles), NEW row \in CycleRows, cycles' = [cycles EXCEPT ![n] = row],
         NEW steps \in Seq(Plain(Len(cycles))), Then(c, steps)
  PROVE  GoalInv' /\ ~Writing(c)'
<1>1. cycles' \in Seq(CycleRows) /\ Len(cycles') = Len(cycles) /\ Len(cycles) \in Nat
  BY DEF GoalInv
<1>2. /\ script' \in [Callers -> Seq(Steps(Len(cycles')))] /\ \A d \in Callers : ScriptOK(d)'
      /\ ~Writing(c)'
  <2>1. Len(cycles) <= Len(cycles') /\ steps \in Seq(Plain(Len(cycles')))
    BY <1>1
  <2>2. \A x : steps = <<x>> => x.do # "write_goal"
    BY <1>1, PlainOnly
  <2> QED
    BY <1>1, <2>1, <2>2, ScriptsKept
<1>3. \A m \in DOMAIN cycles' : cycles'[m] \in CycleRows
  BY <1>1
<1>4. GoalTypeOK'
  BY <1>1, <1>3 DEF GoalInv, GoalTypeOK, CycleRows, CycleStatuses, Plans
<1> QED
  BY <1>1, <1>2, <1>4 DEF GoalInv

\* A row of agent_tasks that is there changes its status.
LEMMA OneTaskMoves ==
  ASSUME GoalInv, NEW t \in TaskIds, tasks[t].status # "absent", UNCHANGED <<goal, cycles, hints, crashes>>,
         NEW to \in Lifecycle!Statuses, tasks' = [tasks EXCEPT ![t].status = to],
         script' \in [Callers -> Seq(Steps(Len(cycles')))], \A d \in Callers : ScriptOK(d)'
  PROVE  GoalInv'
<1>1. tasks \in [TaskIds -> TaskRows] /\ to # "absent" /\ to \in TaskRowStatuses
  BY DEF GoalInv, TaskRowStatuses, Lifecycle!Statuses
<1>2. /\ tasks' \in [TaskIds -> TaskRows]
      /\ \A u \in TaskIds : tasks'[u].cycle = tasks[u].cycle
      /\ \A u \in TaskIds : tasks'[u].status = IF u = t THEN to ELSE tasks[u].status
  BY <1>1 DEF TaskRows
<1>3. {u \in TaskIds : tasks'[u].status # "absent"} = {u \in TaskIds : tasks[u].status # "absent"}
  BY <1>1, <1>2
<1>4. GoalTypeOK'
  BY <1>1, <1>2 DEF GoalInv, GoalTypeOK, TaskRowStatuses
<1> QED
  BY <1>2, <1>3, <1>4 DEF GoalInv

LEMMA AdvanceKeeps ==
  ASSUME GoalInv, NEW c \in Callers, Advance(c)
  PROVE  /\ GoalInv'
         /\ Writing(c)' => CheckGoal(c) /\ This(c).to \in GoalTargets[goal.status]
<1> DEFINE N == Len(cycles)
           P == Plain(N)
           s == This(c)
<1>1. /\ N \in Nat /\ cycles \in Seq(CycleRows) /\ \A m \in 1 .. N : cycles[m] \in CycleRows
      /\ goal \in [status : GoalStatuses, current : Nat] /\ goal.current \in 0 .. N
      /\ tasks \in [TaskIds -> TaskRows] /\ DOMAIN cycles = 1 .. N
  BY DEF GoalInv, GoalTypeOK
<1>2. <<>> \in Seq(P) /\ \A x \in P : <<x>> \in Seq(P)
  OBVIOUS
<1>3. \A b : \A q \in Seq(P) : When(b, q) \in Seq(P)
  BY Cut
<1>4. \A q, r \in Seq(P) : q \o r \in Seq(P)
  OBVIOUS
<1>5. CASE Observe(c)
  <2>1. [do |-> "look", status |-> goal.status] \in Steps(N)
    BY <1>1, StepsMade DEF Steps
  <2>2. PICK steps : /\ Then(c, steps)
                     /\ steps = <<>> \/ steps = <<[do |-> "look", status |-> goal.status]>>
    BY <1>5 DEF Observe, When
  <2>3. script[c] # <<>> /\ UNCHANGED <<goal, cycles, tasks, hints, crashes>>
    BY <1>5 DEF Observe, At
  <2>4. CASE steps = <<>>
    BY <1>2, <2>2, <2>3, <2>4, OnlyScriptGoesOn
  <2>5. CASE steps = <<[do |-> "look", status |-> goal.status]>>
    BY <2>1, <2>2, <2>3, <2>5, OnlyScriptMoves, OnlyOne
  <2> QED
    BY <2>2, <2>4, <2>5
<1>6. CASE Look(c)
  <2>1. script[c] # <<>> /\ UNCHANGED <<goal, cycles, tasks, hints, crashes>>
    BY <1>6 DEF Look, At
  <2>2. <<[do |-> "create_cycle"]>> \in Seq(P) /\ <<MoveGoal("planning")>> \in Seq(P)
    BY <1>1, <1>2, StepsMade DEF GoalGoes
  <2>3. \E steps \in Seq(P) : Then(c, steps)
    <3> DEFINE n == NewestOpen
               p == IF This(c).status = "rework_required" THEN "planning" ELSE This(c).status
               replan == When(This(c).status = "rework_required", <<MoveGoal("planning")>>)
               gated == RequireApproval /\ c = Worker
    <3>1. replan \in Seq(P)
      BY <1>3, <2>2
    <3>2. CASE n = 0
      <4>1. replan \o When(p = "planning", <<[do |-> "create_cycle"]>>) \in Seq(P)
        BY <1>3, <1>4, <2>2, <3>1
      <4>2. Then(c, replan \o When(p = "planning", <<[do |-> "create_cycle"]>>))
        BY <1>6, <3>2 DEF Look
      <4> QED
        BY <4>1, <4>2
    <3>3. CASE n # 0
      <4>1. n \in 1 .. N /\ n \in OpenCycles
        BY <1>1, <3>3, Observed
      <4>2. CASE cycles[n].status # "dispatching"
        <5>1. PhaseScript(n, p, gated) \in Seq(P)
          BY <4>1, <4>2, ScriptsMade
        <5>2. Then(c, replan \o PhaseScript(n, p, gated))
          BY <1>6, <3>3, <4>2 DEF Look
        <5> QED
          BY <1>4, <3>1, <5>1, <5>2
      <4>3. CASE cycles[n].status = "dispatching"
        <5>1. PICK reply \in Replies, agents \in Heartbeats :
                 Then(c, replan \o DispatchScript(n, p, PlanFor(Report(n, agents), Budget, reply), gated))
          BY <1>6, <3>3, <4>3 DEF Look
        <5> DEFINE plan == PlanFor(Report(n, agents), Budget, reply)
        <5>3. plan \in Plans /\ (n >= Budget.max_cycles => plan.granted = 0)
          BY <1>1, <4>1, PlansMade
        <5>2. DispatchScript(n, p, plan, gated) \in Seq(P)
          BY <4>1, <5>3, ScriptsMade
        <5> QED
          BY <1>4, <3>1, <5>1, <5>2
      <4> QED
        BY <4>2, <4>3
    <3> QED
      BY <3>2, <3>3
  <2> QED
    BY <2>1, <2>3, OnlyScriptGoesOn
<1>7. CASE CreateCycle(c)
  <2> DEFINE row == [status |-> "observing", hash |-> NoHash, plan |-> NoPlan, team |-> "none"]
  <2>1. row \in CycleRows
    BY DEF CycleRows, CycleStatuses, Phases, Hashes, NoHash, Plans, NoPlan, MaxParallelAgents, TeamTargets
  <2>2. cycles' = Append(cycles, row) /\ script[c] # <<>> /\ UNCHANGED <<goal, tasks, hints, crashes>>
    BY <1>7 DEF CreateCycle, At
  <2>3. cycles' \in Seq(CycleRows) /\ Len(cycles') = N + 1
    BY <1>1, <2>1, <2>2
  <2>4. Then(c, <<On("link_cycle", N + 1)>> \o <<MoveCycle(N + 1, "orienting")>>)
    <3>1. <<On("link_cycle", N + 1)>> \o <<MoveCycle(N + 1, "orienting")>>
             = <<On("link_cycle", N + 1), MoveCycle(N + 1, "orienting")>>
      <4>1. ASSUME NEW A, NEW a \in A, NEW b \in A
            PROVE  <<a>> \o <<b>> = <<a, b>>
        <5>1. <<a>> \in Seq(A) /\ <<b>> \in Seq(A) /\ <<a, b>> \in Seq(A)
          OBVIOUS
        <5>2. Len(<<a>> \o <<b>>) = 2 /\ (<<a>> \o <<b>>)[1] = a /\ (<<a>> \o <<b>>)[2] = b
                /\ <<a>> \o <<b>> \in Seq(A)
          BY <5>1
        <5>3. \A i \in 1 .. 2 : (<<a>> \o <<b>>)[i] = <<a, b>>[i]
          BY <5>2
        <5> QED
          BY <5>1, <5>2, <5>3, SeqEqual
      <4> DEFINE a == On("link_cycle", N + 1)
                 b == MoveCycle(N + 1, "orienting")
      <4>2. a \in {a, b} /\ b \in {a, b}
        OBVIOUS
      <4> QED
        BY ONLY <4>1, <4>2
    <3> QED
      BY <1>7, <3>1 DEF CreateCycle
  <2> DEFINE Q == Steps(Len(cycles'))
             R == Plain(Len(cycles'))
  <2>5. On("link_cycle", N + 1) \in Q /\ MoveCycle(N + 1, "orienting") \in R /\ R \subseteq Q
    BY <1>1, <2>3, StepsMade DEF CycleGoes, Steps
  <2>6. /\ script' \in [Callers -> Seq(Q)] /\ \A d \in Callers : ScriptOK(d)' /\ ~Writing(c)'
    <3> DEFINE r == <<MoveCycle(N + 1, "orienting")>> \o Tail(script[c])
    <3>1. Tail(script[c]) \in Seq(R)
      <4>1. Plain(N) \subseteq R
        BY <1>1, <2>3, StepsGrow
      <4> QED
        BY <2>2, <4>1, SeqsGrow DEF GoalInv, ScriptOK
    <3>2. script' = [script EXCEPT ![c] = <<On("link_cycle", N + 1)>> \o r]
      <4>1. (<<On("link_cycle", N + 1)>> \o <<MoveCycle(N + 1, "orienting")>>) \o Tail(script[c])
               = <<On("link_cycle", N + 1)>> \o r
        BY <2>5, <3>1
      <4> QED
        BY <2>4, <4>1 DEF Then
    <3>3. r \in Seq(R)
      BY <2>5, <3>1
    <3> HIDE DEF r, Q, R
    <3>4. r \in Seq(Q)
      BY <2>5, <3>3, SeqsGrow
    <3>5. <<On("link_cycle", N + 1)>> \o r \in Seq(Q) /\ Tail(<<On("link_cycle", N + 1)>> \o r) = r
      BY <2>5, <3>4
    <3>6. \A d \in Callers : script[d] \in Seq(Q) /\ (script[d] # <<>> => Tail(script[d]) \in Seq(R))
      <4>1. Plain(N) \subseteq R /\ Steps(N) \subseteq Q
        BY <1>1, <2>3, StepsGrow DEF R, Q
      <4> QED
        BY <4>1, SeqsGrow DEF GoalInv, ScriptOK
    <3>7. DOMAIN script = Callers
      BY DEF GoalInv
    <3>8. script' \in [Callers -> Seq(Q)]
      BY <3>2, <3>5, <3>6, <3>7
    <3>9. \A d \in Callers : script'[d] # <<>> => Tail(script'[d]) \in Seq(R)
      BY <3>2, <3>3, <3>5, <3>6, <3>7
    <3>10. ~Writing(c)'
      <4>1. Head(<<On("link_cycle", N + 1)>> \o r) = On("link_cycle", N + 1)
        BY <3>4
      <4> QED
        BY <3>2, <3>7, <4>1 DEF Writing, At, On
    <3> QED
      BY <3>8, <3>9, <3>10 DEF ScriptOK, Q, R
  <2>7. \A m \in DOMAIN cycles' : cycles'[m] \in CycleRows
    BY <2>3
  <2>8. GoalTypeOK'
    BY <1>1, <2>2, <2>3, <2>7 DEF GoalInv, GoalTypeOK, CycleRows, CycleStatuses, Plans
  <2> QED
    BY <2>2, <2>3, <2>6, <2>8 DEF GoalInv
<1>8. CASE LinkCycle(c)
  <2>1. s.n \in 1 .. N /\ script[c] # <<>>
    BY <1>1, <1>8, InFront, StepsRead DEF LinkCycle
  <2>2. goal' = [goal EXCEPT !.current = s.n] /\ Then(c, <<>>) /\ UNCHANGED <<cycles, tasks, hints, crashes>>
    BY <1>8 DEF LinkCycle
  <2>3. /\ script' \in [Callers -> Seq(Steps(Len(cycles')))] /\ \A d \in Callers : ScriptOK(d)'
        /\ ~Writing(c)'
    BY <1>2, <2>1, <2>2, ScriptsKeptHere
  <2>4. goal' \in [status : GoalStatuses, current : Nat] /\ goal'.current \in 0 .. Len(cycles')
    BY <1>1, <2>1, <2>2
  <2> QED
    BY <2>2, <2>3, <2>4 DEF GoalInv, GoalTypeOK
<1>9. CASE CheckGoal(c)
  <2>1. s.to \in GoalGoes /\ script[c] # <<>>
    BY <1>1, <1>9, InFront, StepsRead DEF CheckGoal
  <2>2. [do |-> "write_goal", to |-> s.to] \in Steps(N)
    BY <1>1, <2>1, StepsMade DEF Steps
  <2>3. UNCHANGED <<goal, cycles, tasks, hints, crashes>>
    BY <1>9 DEF CheckGoal
  <2>4. CASE s.to \in GoalTargets[goal.status] /\ Then(c, <<[do |-> "write_goal", to |-> s.to]>>)
    BY <1>9, <2>1, <2>2, <2>3, <2>4, OnlyScriptMoves
  <2>5. CASE Fails(c)
    BY <2>3, <2>5, ScriptFails, TablesKept
  <2> QED
    BY <1>9, <2>4, <2>5 DEF CheckGoal
<1>10. CASE WriteGoal(c)
  <2>1. s.to \in GoalGoes /\ script[c] # <<>>
    BY <1>1, <1>10, InFront, StepsRead DEF WriteGoal
  <2>2. goal' = [goal EXCEPT !.status = s.to] /\ Then(c, <<>>) /\ UNCHANGED <<cycles, tasks, hints, crashes>>
    BY <1>10 DEF WriteGoal
  <2>3. /\ script' \in [Callers -> Seq(Steps(Len(cycles')))] /\ \A d \in Callers : ScriptOK(d)'
        /\ ~Writing(c)'
    BY <1>2, <2>1, <2>2, ScriptsKeptHere
  <2>4. s.to \in GoalStatuses
    BY <2>1 DEF GoalGoes, GoalStatuses, GoalTargets
  <2> QED
    BY <1>1, <2>2, <2>3, <2>4 DEF GoalInv, GoalTypeOK
<1>11. CASE CheckGoalIf(c)
  <2>1. s.to \in GoalGoes /\ script[c] # <<>>
    BY <1>1, <1>11, InFront, StepsRead DEF CheckGoalIf
  <2>2. MoveGoal(s.to) \in P
    BY <1>1, <2>1, StepsMade
  <2>3. When(goal.status \in s.from, <<MoveGoal(s.to)>>) \in Seq(P)
    BY <1>2, <1>3, <2>2
  <2> QED
    BY <1>11, <2>1, <2>3, OnlyScriptGoesOn DEF CheckGoalIf
<1>12. CASE CheckCycle(c)
  <2>1. [s EXCEPT !.do = "write_cycle"] \in Steps(N) /\ script[c] # <<>>
    BY <1>1, <1>12, InFront, StepsRead DEF CheckCycle, Steps
  <2>2. UNCHANGED <<goal, cycles, tasks, hints, crashes>>
    BY <1>12 DEF CheckCycle
  <2>3. CASE Then(c, <<[s EXCEPT !.do = "write_cycle"]>>)
    <3>1. [s EXCEPT !.do = "write_cycle"].do = "write_cycle"
      BY <1>1, <1>12, InFront, StepsRead DEF CheckCycle
    <3> DEFINE e == [s EXCEPT !.do = "write_cycle"]
    <3>2. e \in Steps(N) /\ Then(c, <<e>>) /\ e.do = "write_cycle"
      BY <2>1, <2>3, <3>1
    <3> HIDE DEF e
    <3>3. \A x : <<e>> = <<x>> => x.do # "write_goal"
      BY <3>2, OnlyOne
    <3> QED
      BY <2>1, <2>2, <3>2, <3>3, OnlyScriptMoves
  <2>4. CASE Fails(c)
    BY <2>2, <2>4, ScriptFails, TablesKept
  <2> QED
    BY <1>12, <2>3, <2>4 DEF CheckCycle
<1>13. CASE WriteCycle(c)
  <2>1. s.n \in 1 .. N /\ s.to \in CycleGoes /\ script[c] # <<>>
    BY <1>1, <1>13, InFront, StepsRead DEF WriteCycle
  <2>2. s.to \in CycleStatuses
    BY <2>1 DEF CycleStatuses, CycleGoes, Ended, Phases
  <2>3. cycles' = [cycles EXCEPT ![s.n] = [cycles[s.n] EXCEPT !.status = s.to]]
    BY <1>1, <1>13, <2>1 DEF WriteCycle
  <2>4. [cycles[s.n] EXCEPT !.status = s.to] \in CycleRows
    BY <1>1, <2>1, <2>2 DEF CycleRows
  <2> QED
    BY <1>2, <1>13, <2>1, <2>3, <2>4, OneCycleMoves DEF WriteCycle
<1>14. CASE WriteHash(c)
  <2>1. s.n \in 1 .. N /\ s.hash \in Hashes /\ s.plan \in Plans /\ script[c] # <<>>
    BY <1>1, <1>14, InFront, StepsRead DEF WriteHash
  <2>2. cycles' = [cycles EXCEPT ![s.n] = [cycles[s.n] EXCEPT !.hash = s.hash, !.plan = s.plan]]
    BY <1>1, <1>14, <2>1 DEF WriteHash
  <2>3. [cycles[s.n] EXCEPT !.hash = s.hash, !.plan = s.plan] \in CycleRows
    BY <1>1, <2>1 DEF CycleRows
  <2> QED
    BY <1>2, <1>14, <2>1, <2>2, <2>3, OneCycleMoves DEF WriteHash
<1>15. ASSUME NEW t \in TaskIds, CreateTask(c, t)
       PROVE  GoalInv' /\ ~Writing(c)'
  <2>1. s.n \in 1 .. N /\ s.n < Budget.max_cycles /\ script[c] # <<>>
    BY <1>1, <1>15, InFront, StepsRead DEF CreateTask
  <2>2. Then(c, <<OnTask("queue_task", t)>>) /\ UNCHANGED <<goal, cycles, hints, crashes>>
    BY <1>15 DEF CreateTask
  <2>3. <<OnTask("queue_task", t)>> \in Seq(P)
    BY <1>1, <1>2, StepsMade DEF TaskCalls
  <2>4. /\ script' \in [Callers -> Seq(Steps(Len(cycles')))] /\ \A d \in Callers : ScriptOK(d)'
        /\ ~Writing(c)'
    BY <2>1, <2>2, <2>3, ScriptsKeptHere
  <2>5. /\ tasks' \in [TaskIds -> TaskRows]
        /\ \A u \in TaskIds : tasks'[u] = IF u = t THEN [status |-> "proposed", cycle |-> s.n] ELSE tasks[u]
    BY <1>1, <1>15, <2>1 DEF CreateTask, TaskRows, TaskRowStatuses, Lifecycle!Statuses
  <2>6. {u \in TaskIds : tasks'[u].status # "absent"} = {u \in TaskIds : tasks[u].status # "absent"} \cup {t}
    BY <2>5
  <2>7. IsFiniteSet({u \in TaskIds : tasks'[u].status # "absent"})
    <3>1. IsFiniteSet({u \in TaskIds : tasks[u].status # "absent"})
      BY DEF GoalInv
    <3> QED
      BY <2>6, <3>1, FS_AddElement
  <2>8. GoalTypeOK'
    BY <1>1, <2>1, <2>2, <2>5 DEF GoalInv, GoalTypeOK, TaskRowStatuses, Lifecycle!Statuses
  <2> QED
    BY <2>2, <2>4, <2>5, <2>7, <2>8 DEF GoalInv
<1>16. CASE CallTask(c)
  <2>1. PICK do \in DOMAIN TaskCalls :
           /\ At(c, do)
           /\ \/ /\ Lifecycle!Legal(tasks[s.task].status, TaskCalls[do])
                 /\ tasks' = [tasks EXCEPT ![s.task].status = TaskCalls[do]]
                 /\ Then(c, <<>>)
              \/ /\ ~Lifecycle!Legal(tasks[s.task].status, TaskCalls[do])
                 /\ IF do = "queue_task" THEN Then(c, <<>>) ELSE Fails(c)
                 /\ UNCHANGED tasks
           /\ UNCHANGED <<goal, cycles, hints, crashes>>
    BY <1>16 DEF CallTask
  <2>2. s.task \in TaskIds /\ script[c] # <<>>
    BY <1>1, <2>1, InFront, StepsRead
  <2>3. CASE Then(c, <<>>) /\ UNCHANGED tasks
    BY <1>2, <2>1, <2>2, <2>3, OnlyScriptMoves
  <2>4. CASE Fails(c) /\ UNCHANGED tasks
    BY <2>1, <2>4, ScriptFails, TablesKept
  <2>5. CASE /\ Lifecycle!Legal(tasks[s.task].status, TaskCalls[do])
             /\ tasks' = [tasks EXCEPT ![s.task].status = TaskCalls[do]]
             /\ Then(c, <<>>)
    <3>1. /\ script' \in [Callers -> Seq(Steps(Len(cycles')))] /\ \A d \in Callers : ScriptOK(d)'
          /\ ~Writing(c)'
      BY <1>2, <2>1, <2>2, <2>5, ScriptsKeptHere
    <3>2. tasks[s.task].status # "absent" /\ TaskCalls[do] \in Lifecycle!Statuses
      BY <2>5 DEF Lifecycle!Legal, Lifecycle!Statuses, TaskCalls
    <3> QED
      BY <2>1, <2>2, <2>5, <3>1, <3>2, OneTaskMoves
  <2> QED
    BY <2>1, <2>3, <2>4, <2>5
<1>17. CASE ListTasks(c)
  <2>1. script[c] # <<>> /\ UNCHANGED <<goal, cycles, tasks, hints, crashes>>
    BY <1>17 DEF ListTasks, At
  <2>2. s.n \in 1 .. N
    BY <1>1, <1>17, InFront, StepsRead DEF ListTasks
  <2>3. ASSUME NEW st, st # "absent", NEW do \in DOMAIN TaskCalls,
               NEW q \in Orders({t \in CycleTasks(s.n) : tasks[t].status = st}),
               Then(c, [i \in DOMAIN q |-> OnTask(do, q[i])])
        PROVE  GoalInv' /\ ~Writing(c)'
    <3> DEFINE S == {t \in CycleTasks(s.n) : tasks[t].status = st}
    <3>1. IsFiniteSet(S)
      <4>1. S \subseteq {t \in TaskIds : tasks[t].status # "absent"}
        BY <2>3 DEF CycleTasks
      <4> QED
        BY <4>1, FS_Subset DEF GoalInv
    <3>2. Cardinality(S) \in Nat
      BY <3>1, FS_CardinalityType
    <3>3. q \in [1 .. Cardinality(S) -> S] /\ S \subseteq TaskIds
      BY <2>3 DEF Orders, CycleTasks
    <3>4. \A i \in DOMAIN q : OnTask(do, q[i]) \in P
      BY <1>1, <2>3, <3>3, StepsMade
    <3> HIDE DEF P, S
    <3>5. [i \in DOMAIN q |-> OnTask(do, q[i])] \in Seq(P)
      BY <3>2, <3>3, <3>4
    <3> QED
      BY <2>1, <2>3, <3>5, OnlyScriptGoesOn DEF P
  <2>4. CASE Then(c, WeighScript(s.n)) \/ Then(c, ReviewScript(s.n))
    BY <2>1, <2>2, <2>4, ScriptsMade, OnlyScriptGoesOn
  <2>5. ASSUME NEW q \in Orders({t \in CycleTasks(s.n) : tasks[t].status = "review_ready"}),
               Then(c, [i \in DOMAIN q |-> OnTask("accept_task", q[i])])
        PROVE  GoalInv' /\ ~Writing(c)'
    BY <2>3, <2>5 DEF TaskCalls
  <2>6. ASSUME NEW q \in Orders({t \in CycleTasks(s.n) : tasks[t].status = "blocked"}),
               Then(c, [i \in DOMAIN q |-> OnTask("resume_task", q[i])])
        PROVE  GoalInv' /\ ~Writing(c)'
    BY <2>3, <2>6 DEF TaskCalls
  <2> QED
    BY <1>17, <2>4, <2>5, <2>6 DEF ListTasks
<1>18. CASE StaffTeam(c)
  <2> DEFINE team == cycles[s.n].team
             moves == IF s.do = "plan_team" THEN Staffing(team, "awaiting_plan_approval")
                      ELSE IF team = "awaiting_plan_approval" THEN <<"executing">>
                      ELSE Staffing(team, "executing")
             row == [cycles[s.n] EXCEPT !.team = IF team = "none" THEN "draft" ELSE team]
  <2>1. s.n \in 1 .. N /\ script[c] # <<>>
    BY <1>1, <1>18, InFront, StepsRead DEF StaffTeam
  <2>2. team \in DOMAIN TeamTargets /\ cycles[s.n] \in CycleRows
    BY <1>1, <2>1 DEF CycleRows
  <2>3. row \in CycleRows
    BY <2>2 DEF CycleRows, TeamTargets
  <2>4. moves \in Seq(TeamGoes)
    <3>1. \A last \in TeamGoes :
             <<"planning", last>> \in Seq(TeamGoes) /\ <<last>> \in Seq(TeamGoes)
      BY DEF TeamGoes
    <3>2. <<>> \in Seq(TeamGoes) /\ {"awaiting_plan_approval", "executing"} \subseteq TeamGoes
      BY DEF TeamGoes
    <3>3. \A last \in TeamGoes : Staffing(team, last) \in Seq(TeamGoes)
      BY <3>1, <3>2 DEF Staffing
    <3> QED
      BY <3>1, <3>2, <3>3
  <2>5. cycles' = [cycles EXCEPT ![s.n] = row] /\ UNCHANGED <<goal, tasks, hints, crashes>>
          /\ Then(c, [i \in DOMAIN moves |-> MoveTeam(s.n, moves[i])])
    BY <1>1, <1>18, <2>1 DEF StaffTeam
  <2>6. \A to \in TeamGoes : MoveTeam(s.n, to) \in P
    BY <1>1, <2>1, StepsMade
  <2> HIDE DEF moves, row, P
  <2>7. [i \in DOMAIN moves |-> MoveTeam(s.n, moves[i])] \in Seq(P)
    BY <2>4, <2>6
  <2> QED
    BY <2>1, <2>3, <2>5, <2>7, OneCycleMoves DEF P
<1>19. CASE WriteTeam(c)
  <2>1. s.n \in 1 .. N /\ s.to \in TeamGoes /\ script[c] # <<>>
    BY <1>1, <1>19, InFront, StepsRead DEF WriteTeam
  <2>2. UNCHANGED <<goal, tasks, hints, crashes>>
    BY <1>19 DEF WriteTeam
  <2>3. CASE cycles' = [cycles EXCEPT ![s.n].team = s.to] /\ Then(c, <<>>)
    <3>1. cycles' = [cycles EXCEPT ![s.n] = [cycles[s.n] EXCEPT !.team = s.to]]
      BY <1>1, <2>1, <2>3
    <3>2. [cycles[s.n] EXCEPT !.team = s.to] \in CycleRows
      BY <1>1, <2>1 DEF CycleRows, TeamGoes, TeamTargets
    <3> QED
      BY <1>2, <2>1, <2>2, <2>3, <3>1, <3>2, OneCycleMoves
  <2>4. CASE Fails(c) /\ UNCHANGED cycles
    BY <2>2, <2>4, ScriptFails, TablesKept
  <2> QED
    BY <1>19, <2>3, <2>4 DEF WriteTeam
<1>20. CASE SyncTeam(c)
  <2>1. s.n \in 1 .. N /\ script[c] # <<>>
    BY <1>1, <1>20, InFront, StepsRead DEF SyncTeam
  <2>2. MoveTeam(s.n, "awaiting_review") \in P
    BY <1>1, <2>1, StepsMade DEF TeamGoes
  <2>3. \E steps \in Seq(P) : Then(c, steps)
    BY <1>2, <1>3, <1>20, <2>2 DEF SyncTeam
  <2> QED
    BY <1>20, <2>1, <2>3, OnlyScriptGoesOn DEF SyncTeam
<1>21. CASE Verdict(c)
  <2>1. script[c] # <<>> /\ UNCHANGED <<goal, cycles, tasks, hints, crashes>>
    BY <1>21 DEF Verdict, At
  <2>2. CASE Fails(c)
    BY <2>1, <2>2, ScriptFails, TablesKept
  <2>3. CASE goal.current # 0 /\ \E to \in {"accepted", "rework_required"} :
                                    Then(c, VerdictScript(goal.current, to))
    <3>1. goal.current \in 1 .. N
      BY <1>1, <2>3
    <3> QED
      BY <2>1, <2>3, <3>1, ScriptsMade, OnlyScriptGoesOn
  <2> QED
    BY <1>21, <2>2, <2>3 DEF Verdict
<1>22. CASE CloseTeam(c)
  <2>1. s.n \in 1 .. N /\ s.to \in {"accepted", "rework_required"} /\ script[c] # <<>>
    BY <1>1, <1>22, InFront, StepsRead DEF CloseTeam
  <2> DEFINE row == [cycles[s.n] EXCEPT !.team = IF @ = "awaiting_review" THEN s.to ELSE @]
  <2>2. cycles' = [cycles EXCEPT ![s.n] = row] /\ row \in CycleRows
    BY <1>1, <1>22, <2>1 DEF CloseTeam, CycleRows, TeamTargets
  <2> HIDE DEF row
  <2> QED
    BY <1>2, <1>22, <2>1, <2>2, OneCycleMoves DEF CloseTeam
<1> QED
  BY <1>5, <1>6, <1>7, <1>8, <1>9, <1>10, <1>11, <1>12, <1>13, <1>14, <1>15, <1>16, <1>17, <1>18,
     <1>19, <1>20, <1>21, <1>22 DEF Advance

\* A caller is given a script: nothing else changes.
LEMMA ScriptGiven ==
  ASSUME GoalInv, NEW c \in Callers, NEW steps \in Seq(Plain(Len(cycles))),
         script' = [script EXCEPT ![c] = steps], UNCHANGED <<goal, cycles, tasks, hints, crashes>>
  PROVE  GoalInv' /\ ~Writing(c)'
<1> DEFINE P == Plain(Len(cycles))
           Q == Steps(Len(cycles))
<1>1. P \subseteq Q /\ \A x \in P : x.do # "write_goal"
  BY PlainIsNoWrite DEF Steps, GoalInv
<1>2. \A d \in Callers : script[d] \in Seq(Q) /\ (script[d] # <<>> => Tail(script[d]) \in Seq(P))
  BY DEF GoalInv, ScriptOK
<1>3. steps \in Seq(P) /\ DOMAIN script = Callers
  BY DEF GoalInv
<1> HIDE DEF P, Q
<1>4. steps \in Seq(Q)
  BY <1>1, <1>3, SeqsGrow
<1>5. steps # <<>> => Tail(steps) \in Seq(P) /\ Head(steps).do # "write_goal"
  BY <1>1, <1>3
<1>6. /\ script' \in [Callers -> Seq(Q)]
      /\ \A d \in Callers : script'[d] # <<>> => Tail(script'[d]) \in Seq(P)
      /\ script'[c] = steps
  BY <1>2, <1>3, <1>4, <1>5
<1>7. /\ script' \in [Callers -> Seq(Steps(Len(cycles')))] /\ \A d \in Callers : ScriptOK(d)'
  BY <1>6 DEF ScriptOK, P, Q
<1> QED
  BY <1>5, <1>6, <1>7, TablesKept DEF Writing, At

LEMMA CommandKeeps ==
  ASSUME GoalInv, NEW command \in AllCommands, UserCommand(command)
  PROVE  GoalInv' /\ ~Writing(User)'
<1> DEFINE N == Len(cycles)
           P == Plain(N)
<1>1. N \in Nat /\ goal.current \in 0 .. N
  BY DEF GoalInv, GoalTypeOK
<1>2. /\ \A to \in GoalGoes : MoveGoal(to) \in P
      /\ \A n \in 1 .. N : \A to \in TeamGoes : MoveTeam(n, to) \in P
      /\ \A n \in 1 .. N : On("resume_tasks", n) \in P
      /\ [do |-> "observe"] \in P
      /\ \A b \in BOOLEAN : [do |-> "verdict", accepted |-> b] \in P
  BY <1>1, StepsMade
<1>3. command = "reject" => NewestOpen \in 1 .. N
  BY <1>1, Observed DEF UserCommand, Allows
<1>4. \A x \in P : <<x>> \in Seq(P)
  OBVIOUS
<1>5. \A x, y \in P : <<x, y>> \in Seq(P)
  OBVIOUS
<1>6. goal.current # 0 => <<On("resume_tasks", goal.current)>> \in Seq(P)
  BY <1>1, <1>2, <1>4
<1>7. When(goal.current # 0, <<On("resume_tasks", goal.current)>>) \in Seq(P)
  BY <1>6 DEF When
<1>8. \A q, r \in Seq(P) : q \o r \in Seq(P)
  OBVIOUS
<1>9. CommandScript[command] \in Seq(P)
  <2>1. CASE command = "resume"
    <3>1. <<MoveGoal("running")>> \in Seq(P)
      BY <1>2, <1>4 DEF GoalGoes
    <3> QED
      BY <1>7, <1>8, <2>1, <3>1 DEF CommandScript
  <2>2. CASE command = "reject"
    <3>1. MoveTeam(NewestOpen, "rework_required") \in P /\ MoveGoal("rework_required") \in P
      BY <1>2, <1>3, <2>2 DEF GoalGoes, TeamGoes
    <3> QED
      BY <1>5, <2>2, <3>1 DEF CommandScript
  <2>3. CASE command \notin {"resume", "reject"}
    <3>1. {"blocked", "cancelled", "running"} \subseteq GoalGoes
      BY DEF GoalGoes
    <3>2. <<MoveGoal("blocked")>> \in Seq(P) /\ <<MoveGoal("cancelled")>> \in Seq(P)
            /\ <<MoveGoal("running")>> \in Seq(P)
      BY <1>2, <1>4, <3>1
    <3>3. <<MoveGoal("running"), [do |-> "observe"]>> \in Seq(P)
      BY <1>2, <1>5, <3>1
    <3>4. <<[do |-> "verdict", accepted |-> TRUE]>> \in Seq(P)
            /\ <<[do |-> "verdict", accepted |-> FALSE]>> \in Seq(P)
      BY <1>2, <1>4
    <3>5. CASE command = "pause"
      BY <3>2, <3>5 DEF CommandScript
    <3>6. CASE command = "cancel"
      BY <3>2, <3>6 DEF CommandScript
    <3>8. CASE command = "approve"
      BY <3>2, <3>8 DEF CommandScript
    <3>9. CASE command = "accept"
      BY <3>4, <3>9 DEF CommandScript
    <3>10. CASE command = "send_back"
      BY <3>4, <3>10 DEF CommandScript
    <3>7. CASE command = "approve_and_tick"
      BY <3>3, <3>7 DEF CommandScript
    <3> QED
      BY <2>3, <3>5, <3>6, <3>7, <3>8, <3>9, <3>10 DEF AllCommands
  <2> QED
    BY <2>1, <2>2, <2>3
<1>10. User \in Callers /\ script' = [script EXCEPT ![User] = CommandScript[command]]
         /\ UNCHANGED <<goal, cycles, tasks, hints, crashes>>
  BY DEF UserCommand, Callers
<1> QED
  BY <1>9, <1>10, ScriptGiven

\* What any step leaves: the invariant, and nobody about to write the goal's
\* status who was not before, but one who has just checked it.
LEMMA GoalStepKeeps ==
  ASSUME GoalInv, [Next]_vars
  PROVE  /\ GoalInv'
         /\ \A c \in Callers :
               Writing(c)' => Writing(c) \/ (CheckGoal(c) /\ This(c).to \in GoalTargets[goal.status])
         /\ goal'.status # goal.status => \E c \in Callers : Writing(c)
<1>0. Len(cycles) \in Nat /\ Worker \in Callers /\ User \in Callers /\ DOMAIN script = Callers
  BY DEF GoalInv, Callers
<1>1. ASSUME NEW c \in Callers, Advance(c)
      PROVE  /\ GoalInv'
             /\ \A d \in Callers :
                   Writing(d)' => Writing(d) \/ (CheckGoal(d) /\ This(d).to \in GoalTargets[goal.status])
             /\ goal'.status # goal.status => \E d \in Callers : Writing(d)
  <2>1. \A d \in Callers \ {c} : script'[d] = script[d]
    BY <1>0, <1>1
       DEF Advance, Observe, Look, CreateCycle, LinkCycle, CheckGoal, WriteGoal, CheckGoalIf,
           CheckCycle, WriteCycle, WriteHash, CreateTask, CallTask, ListTasks, StaffTeam, WriteTeam,
           SyncTeam, Verdict, CloseTeam, Then, Fails
  <2>2. \A d \in Callers \ {c} : Writing(d)' = Writing(d)
    BY <2>1 DEF Writing, At
  <2>3. goal'.status # goal.status => Writing(c)
    <3>1. LinkCycle(c) => goal'.status = goal.status
      BY DEF LinkCycle, GoalInv
    <3> QED
      BY <1>1, <3>1
         DEF Advance, Observe, Look, CreateCycle, CheckGoal, WriteGoal, CheckGoalIf,
             CheckCycle, WriteCycle, WriteHash, CreateTask, CallTask, ListTasks, StaffTeam, WriteTeam,
             SyncTeam, Verdict, CloseTeam, Writing
  <2>4. GoalInv' /\ (Writing(c)' => CheckGoal(c) /\ This(c).to \in GoalTargets[goal.status])
    BY <1>1, AdvanceKeeps
  <2> QED
    BY <2>2, <2>3, <2>4
<1>2. ASSUME NEW c \in Callers, NEW steps \in Seq(Plain(Len(cycles))),
             script' = [script EXCEPT ![c] = steps], UNCHANGED <<goal, cycles, tasks, hints, crashes>>
      PROVE  GoalInv' /\ \A d \in Callers : Writing(d)' => Writing(d)
  <2>1. GoalInv' /\ ~Writing(c)'
    BY <1>2, ScriptGiven
  <2>2. \A d \in Callers \ {c} : Writing(d)' = Writing(d)
    BY <1>0, <1>2 DEF Writing, At
  <2> QED
    BY <2>1, <2>2
<1>5. ASSUME NEW command \in Commands, UserCommand(command)
      PROVE  GoalInv' /\ (\A d \in Callers : Writing(d)' => Writing(d)) /\ goal' = goal
  <2>1. GoalInv' /\ ~Writing(User)'
    BY <1>5, CommandKeeps, CommandAssumption
  <2>2. \A d \in Callers \ {User} : Writing(d)' = Writing(d)
    BY <1>0, <1>5 DEF UserCommand, Writing, At
  <2> QED
    BY <1>5, <2>1, <2>2 DEF UserCommand
<1>6. CASE AddHint
  <2>1. hints' = hints + 1 /\ hints' <= MaxHints /\ hints' \in Nat
          /\ UNCHANGED <<goal, cycles, tasks, script, crashes>>
    BY <1>6, BoundAssumption DEF AddHint, GoalInv
  <2> QED
    BY <2>1, BoundAssumption DEF GoalInv, GoalTypeOK, ScriptOK, Writing, At
<1>7. CASE DesktopDies
  <2>1. script' = [c \in Callers |-> <<>>] /\ crashes' = crashes + 1 /\ crashes < MaxCrashes
          /\ UNCHANGED <<goal, cycles, tasks, hints>>
    BY <1>7 DEF DesktopDies
  <2>2. script' \in [Callers -> Seq(Steps(Len(cycles')))] /\ \A d \in Callers : ScriptOK(d)' /\ ~Writing(d)'
    BY <2>1 DEF ScriptOK, Writing, At
  <2>3. crashes' \in 0 .. MaxCrashes
    BY <2>1, BoundAssumption DEF GoalInv, GoalTypeOK
  <2> QED
    BY <2>1, <2>2, <2>3 DEF GoalInv, GoalTypeOK
<1>8. ASSUME NEW t \in TaskIds, TaskWork(t)
      PROVE  GoalInv' /\ (\A d \in Callers : Writing(d)' => Writing(d)) /\ goal' = goal
  <2>1. PICK to \in {"claimed", "running", "review_ready", "blocked", "failed"} :
           tasks' = [tasks EXCEPT ![t].status = to]
    <3>1. \A st \in DOMAIN TaskOutcomes :
             TaskOutcomes[st] \subseteq {"claimed", "running", "review_ready", "blocked", "failed"}
      BY DEF TaskOutcomes
    <3> QED
      BY <1>8, <3>1 DEF TaskWork
  <2>2. tasks[t].status # "absent" /\ to \in Lifecycle!Statuses
          /\ UNCHANGED <<goal, cycles, script, hints, crashes>>
    BY <1>8 DEF TaskWork, TaskOutcomes, Lifecycle!Statuses
  <2>3. script' \in [Callers -> Seq(Steps(Len(cycles')))] /\ \A d \in Callers : ScriptOK(d)'
    BY <2>2 DEF GoalInv, ScriptOK
  <2> QED
    BY <2>1, <2>2, <2>3, OneTaskMoves DEF Writing, At
<1>9. CASE UNCHANGED vars
  BY <1>9 DEF vars, GoalInv, GoalTypeOK, ScriptOK, Writing, At
<1>10. CASE WorkerTick \/ StartGoal \/ AddHint \/ DesktopDies
  <2>1. goal' = goal
    BY <1>10 DEF WorkerTick, StartGoal, AddHint, DesktopDies
  <2>2. GoalInv' /\ \A d \in Callers : Writing(d)' => Writing(d)
    <3>1. CASE AddHint
      BY <1>6, <3>1 DEF AddHint, Writing, At
    <3>2. CASE DesktopDies
      BY <1>7, <3>2 DEF DesktopDies, Writing, At
    <3>3. CASE WorkerTick
      <4>1. <<[do |-> "observe"]>> \in Seq(Plain(Len(cycles)))
        BY <1>0, StepsMade
      <4> QED
        BY <1>0, <1>2, <3>3, <4>1 DEF WorkerTick
    <3>4. CASE StartGoal
      <4>1. <<MoveGoal("planning")>> \in Seq(Plain(Len(cycles)))
        BY <1>0, StepsMade DEF GoalGoes
      <4> QED
        BY <1>0, <1>2, <3>4, <4>1 DEF StartGoal
    <3> QED
      BY <1>10, <3>1, <3>2, <3>3, <3>4
  <2> QED
    BY <2>1, <2>2
<1> QED
  BY <1>1, <1>5, <1>8, <1>9, <1>10 DEF Next

LEMMA GoalInitInv == Init => GoalInv
<1> SUFFICES ASSUME Init
             PROVE  GoalInv
  OBVIOUS
<1> USE DEF Init
<1>1. <<>> \in Seq(Steps(Len(cycles))) /\ cycles \in Seq(CycleRows) /\ Len(cycles) = 0
  OBVIOUS
<1>2. script \in [Callers -> Seq(Steps(Len(cycles)))] /\ \A c \in Callers : ScriptOK(c)
  BY <1>1 DEF ScriptOK
<1>3. tasks \in [TaskIds -> TaskRows] /\ \A t \in TaskIds : tasks[t].status = "absent"
  BY DEF TaskRows, TaskRowStatuses, Lifecycle!NoRowStatuses
<1>4. IsFiniteSet({t \in TaskIds : tasks[t].status # "absent"})
  <2>1. {t \in TaskIds : tasks[t].status # "absent"} = {}
    BY <1>3
  <2> QED
    BY <2>1, FS_EmptySet
<1>5. GoalTypeOK
  BY <1>1, <1>3, BoundAssumption DEF GoalTypeOK, GoalStatuses, GoalTargets, TaskRows, TaskRowStatuses
<1>6. goal \in [status : GoalStatuses, current : Nat] /\ hints \in Nat
  BY DEF GoalStatuses, GoalTargets
<1> QED
  BY <1>1, <1>2, <1>3, <1>4, <1>5, <1>6 DEF GoalInv

LEMMA GoalInvariant == GoalSpec => []GoalInv
<1>1. GoalInv /\ [Next]_vars => GoalInv'
  BY GoalStepKeeps
<1> QED
  BY <1>1, GoalInitInv, PTL DEF GoalSpec

\* Whatever statements of the worker and the user interleave, and wherever the
\* process dies: every row of goal_runs, goal_cycles and agent_tasks holds what
\* its column may, and a task names a cycle that exists.
THEOREM GoalTypeCorrect == GoalSpec => []GoalTypeOK
<1>1. GoalInv => GoalTypeOK
  BY DEF GoalInv
<1> QED
  BY <1>1, GoalInvariant, PTL

\* A goal that was accepted or cancelled stays so, unless somebody who had
\* checked its status before then writes it: from there the table leads to
\* "archived" only, and no call asks for that (goals.rs:302-330).
THEOREM GoalVerdictsAreFinal == GoalSpec => GoalVerdictsStand
<1>1. GoalInv /\ [Next]_vars => [Standing => Standing' /\ goal'.status = goal.status]_vars
  <2> SUFFICES ASSUME GoalInv, [Next]_vars, Standing
               PROVE  Standing' /\ goal'.status = goal.status
    BY DEF vars
  <2>1. \A c \in Callers : ~Writing(c)
    BY DEF Standing, Writing
  <2>2. goal'.status = goal.status
    BY <2>1, GoalStepKeeps
  <2>3. ASSUME NEW c \in Callers, CheckGoal(c)
        PROVE  This(c).to \notin GoalTargets[goal.status]
    <3>1. This(c).to \in GoalGoes
      <4>1. Len(cycles) \in Nat /\ This(c) \in Steps(Len(cycles)) /\ This(c).do = "move_goal"
        BY <2>3, InFront DEF CheckGoal, GoalInv
      <4> QED
        BY <4>1, StepsRead
    <3> QED
      BY <3>1 DEF Standing, GoalTargets, GoalGoes
  <2>4. \A c \in Callers : ~Writing(c)'
    BY <2>1, <2>3, GoalStepKeeps
  <2> QED
    BY <2>2, <2>4 DEF Standing, Writing
<1> QED
  BY <1>1, GoalInvariant, PTL DEF GoalSpec, GoalVerdictsStand

\* Whatever the model replies and whoever ticks, a cycle whose number has
\* reached the budget of its goal never has a task (decide.rs:26-30).
THEOREM CyclesAlwaysStayInBudget == GoalSpec => []CyclesStayInBudget
<1>1. GoalInv => CyclesStayInBudget
  BY DEF GoalInv, TaskRows, CyclesStayInBudget
<1> QED
  BY <1>1, GoalInvariant, PTL

----------------------------------------------------------------------------
(* The order of the phases.  What the next statements of a caller mean     *)
(* depends on the goal's status and on its newest cycle: older cycles are  *)
(* completed and stay so.                                                  *)

View ==
    [ goal |-> goal.status, newest |-> Len(cycles),
      phase |-> IF cycles = <<>> THEN "none" ELSE cycles[Len(cycles)].status,
      team |-> IF cycles = <<>> THEN "none" ELSE cycles[Len(cycles)].team ]

Early == {"draft", "planning", "awaiting_plan_approval", "rework_required"}
Replanned == {"planning", "rework_required"}
Judged == {"awaiting_review", "accepted"}
Planning == {"observing", "orienting", "deciding"}
Closing == {"summarizing", "completed"}
Late == {"executing", "reviewing"} \cup Closing

GoalWrites == {"move_goal", "write_goal"}
CycleWrites == {"move_cycle", "write_cycle"}
Sets(x, to) == x.do \in CycleWrites /\ x.to = to

Onward(from, to) ==
    \/ from = "observing" /\ to = "orienting"
    \/ from = "orienting" /\ to = "deciding"
    \/ from = "deciding" /\ to = "dispatching"
    \/ from = "dispatching" /\ to = "executing"
    \/ from = "executing" /\ to = "reviewing"

\* The statements the worker still has to run were chosen for a phase that only
\* the worker can leave, or leave together with the user.
WorkerMeans(x, v) ==
    /\ x.do \notin {"resume_tasks", "resume_task"}
    /\ x.do \in GoalWrites \cup {"move_goal_if"} =>
          \/ x.to = "planning" /\ x.do # "move_goal_if"
          \/ /\ x.to = "awaiting_plan_approval" /\ x.do # "move_goal_if"
             /\ RequireApproval /\ v.phase \in {"deciding", "dispatching"}
          \/ x.to = "running" /\ x.do # "move_goal_if" /\ ~RequireApproval
          \/ x.to \in {"awaiting_review", "blocked", "accepted"} /\ v.phase \in Late
    /\ x.do = "write_goal" =>
          /\ x.to = "planning" => v.goal \in Replanned
          /\ v.goal \in Judged => x.to \in Judged
    /\ x.do \in CycleWrites =>
          \/ Onward(v.phase, x.to) /\ x.n = v.newest
          \/ x.to \in Closing
    /\ Sets(x, "executing") /\ RequireApproval => v.goal \notin Early
    /\ x.do \in {"create_task", "staff_team"} =>
          x.n = v.newest /\ v.phase \in {"dispatching", "executing"}
    /\ x.do = "plan_team" => x.n = v.newest /\ v.phase = "dispatching"
    /\ x.do = "move_team" =>
          /\ x.n = v.newest /\ v.phase \in {"dispatching", "executing"}
          /\ x.to = "awaiting_review" => v.phase = "executing"
    /\ x.do \in {"accept_ready", "weigh", "review_team"} =>
          x.n = v.newest /\ v.phase = "executing"
    /\ x.do = "review" => v.phase \in Late
    /\ x.do = "create_cycle" => v.phase \in {"none", "completed"} /\ v.goal \in Replanned
    /\ x.do = "look" =>
          /\ x.status # "draft"
          /\ x.status \in Replanned => v.goal \in Replanned
          /\ x.status \notin Early /\ v.goal \in Early => v.phase \in Late
    /\ x.do = "verdict" => x.accepted = TRUE

\* The user's: a plan is rejected while it waits for approval, and a verdict
\* closes a cycle while the goal waits for it.
UserMeans(x, v) ==
    /\ x.do \in GoalWrites \cup CycleWrites
                \cup {"resume_tasks", "resume_task", "move_team", "verdict", "set_hash",
                      "close_team"}
    /\ x.do \in GoalWrites =>
          /\ x.to = "planning" => v.goal = "draft"
          /\ x.to = "running" => v.goal \notin Replanned \cup {"draft"}
          /\ x.to = "accepted" => v.goal \in Judged
          /\ x.to = "rework_required" => v.goal \in Judged \cup {"awaiting_plan_approval"}
          /\ x.to \notin {"awaiting_plan_approval", "awaiting_review"}
    /\ x.do = "write_goal" /\ x.to # "planning" => v.goal \notin Replanned \cup {"draft"}
    /\ x.do \in CycleWrites \cup {"set_hash", "close_team"} => v.goal \in Judged
    /\ x.do \in CycleWrites => x.to \in Closing
    /\ x.do = "move_team" =>
          /\ x.to = "rework_required" /\ RequireApproval
          /\ x.n = v.newest /\ v.phase = "dispatching"
          /\ v.goal \in Replanned \cup {"awaiting_plan_approval"}

\* A cycle is closed from reviewing on, whoever closes it.
Means(c, x, v) ==
    /\ IF c = Worker THEN WorkerMeans(x, v) ELSE UserMeans(x, v)
    /\ x.do = "write_cycle" /\ x.to \in Closing =>
          x.n = v.newest /\ v.phase \in {"reviewing"} \cup Closing

\* What must hold when x comes to the front of its script ...
Ready(x, v) ==
    /\ Sets(x, "completed") \/ x.do = "close_team" => x.n = v.newest /\ v.phase \in Closing
    /\ Sets(x, "reviewing") => v.team \in {"none", "awaiting_review"}
    /\ x.do \in {"create_task", "staff_team"} => v.phase = "executing"

\* ... and the statement before x that brings it about.
Readies(e, x) ==
    \/ Sets(e, "summarizing") /\ Sets(x, "completed") /\ e.n = x.n
    \/ Sets(e, "completed") /\ x.do = "close_team" /\ e.n = x.n
    \/ /\ Sets(x, "reviewing")
       /\ \/ e.do = "review_team"
          \/ e.do = "move_team" /\ e.to = "awaiting_review"
    \/ Sets(e, "executing") /\ x.do \in {"create_task", "staff_team"}

\* y may stand behind x in the script of c.
MayFollow(c, x, y) ==
    /\ y.do \notin {"look", "link_cycle", "write_goal", "write_cycle"}
    /\ x.do \notin {"observe", "look", "create_cycle", "review", "weigh", "verdict",
                    "plan_team", "staff_team"}
    /\ x.do \in CycleWrites =>
          \/ x.to = "executing" /\ y.do \in {"create_task", "staff_team"}
          \/ x.to = "summarizing" /\ y.do = "move_cycle" /\ y.to = "completed"
          \/ x.to \in Closing /\ y.do = "close_team"
          \/ x.to \in Closing /\ y.do = "move_goal" /\ y.to \in {"accepted", "rework_required"}
    /\ y.do = "create_cycle" => x.do \in GoalWrites /\ x.to = "planning"
    /\ RequireApproval /\ Sets(y, "executing") => ~ (x.do \in GoalWrites /\ x.to \in Early)
    /\ Sets(y, "reviewing") =>
          \/ x.do \in GoalWrites \cup {"move_goal_if", "review_team"}
          \/ x.do = "move_team" /\ x.to = "awaiting_review"
    /\ c = User => /\ x.do \in GoalWrites => y.do = "move_team" /\ x.to = "rework_required"
                   /\ x.do # "move_team"

InOrder(c, s, v) ==
    \A j \in DOMAIN s :
        /\ Means(c, s[j], v)
        /\ Ready(s[j], v) \/ \E i \in 1 .. (j - 1) : Readies(s[i], s[j])
        /\ \A i \in 1 .. (j - 1) : MayFollow(c, s[i], s[j])

ViewOK(v) ==
    /\ v.phase \in {"none", "dispatching"} \cup Planning \cup Late
    /\ v.phase \in Planning => v.team = "none"
    /\ v.phase = "reviewing" => v.team \in {"none", "awaiting_review"}
    /\ v.goal \in Judged => v.phase \in Late
    /\ v.goal = "awaiting_plan_approval" =>
          RequireApproval /\ v.phase \in {"deciding", "dispatching"}

\* The rows themselves.
TablesInOrder ==
    /\ ViewOK(View)
    /\ \A n \in DOMAIN cycles : n # Len(cycles) => cycles[n].status = "completed"
    /\ \A t \in TaskIds :
          tasks[t].cycle # 0 /\ tasks[t].cycle = Len(cycles) => View.phase \in Late

PhaseInv ==
    /\ TablesInOrder
    /\ goal.status = "draft" => script[Worker] = <<>>
    /\ \A c \in Callers : InOrder(c, script[c], View)

LEMMA MeansWhat ==
  ASSUME NEW x, NEW v
  PROVE  LET closing == x.do = "write_cycle" /\ x.to \in Closing =>
                           x.n = v.newest /\ v.phase \in {"reviewing"} \cup Closing
         IN /\ Means(Worker, x, v) <=> WorkerMeans(x, v) /\ closing
            /\ Means(User, x, v) <=> UserMeans(x, v) /\ closing
  BY BoundAssumption DEF Means

\* Two parts of a script.
LEMMA Joins ==
  ASSUME NEW S, NEW a \in Seq(S), NEW b \in Seq(S), NEW c, NEW v,
         InOrder(c, a, v),
         \A j \in DOMAIN b : Means(c, b[j], v),
         \A j \in DOMAIN b : \/ Ready(b[j], v)
                             \/ \E i \in 1 .. (j - 1) : Readies(b[i], b[j])
                             \/ \E i \in DOMAIN a : Readies(a[i], b[j]),
         \A j \in DOMAIN b : \A i \in 1 .. (j - 1) : MayFollow(c, b[i], b[j]),
         \A i \in DOMAIN a, j \in DOMAIN b : MayFollow(c, a[i], b[j])
  PROVE  InOrder(c, a \o b, v)
<1> DEFINE r == a \o b
<1>1. /\ Len(a) \in Nat /\ Len(b) \in Nat /\ Len(r) = Len(a) + Len(b) /\ r \in Seq(S)
      /\ DOMAIN a = 1 .. Len(a) /\ DOMAIN b = 1 .. Len(b) /\ DOMAIN r = 1 .. Len(r)
  OBVIOUS
<1>2. /\ \A k \in 1 .. Len(a) : r[k] = a[k]
      /\ \A k \in 1 .. Len(b) : r[Len(a) + k] = b[k]
  BY <1>1
<1> HIDE DEF r
<1> SUFFICES ASSUME NEW j \in DOMAIN r
             PROVE  /\ Means(c, r[j], v)
                    /\ Ready(r[j], v) \/ \E i \in 1 .. (j - 1) : Readies(r[i], r[j])
                    /\ \A i \in 1 .. (j - 1) : MayFollow(c, r[i], r[j])
  BY DEF InOrder, r
<1>3. CASE j <= Len(a)
  <2>1. j \in DOMAIN a /\ r[j] = a[j] /\ \A i \in 1 .. (j - 1) : r[i] = a[i]
    BY <1>1, <1>2, <1>3
  <2> QED
    BY <2>1 DEF InOrder
<1>4. CASE j > Len(a)
  <2>1. PICK k \in 1 .. Len(b) : j = Len(a) + k
    <3>1. j - Len(a) \in 1 .. Len(b) /\ j = Len(a) + (j - Len(a))
      BY <1>1, <1>4
    <3> QED
      BY <3>1
  <2>2. k \in DOMAIN b /\ r[j] = b[k]
    BY <1>1, <1>2, <2>1
  <2>3. \A i \in DOMAIN a : i \in 1 .. (j - 1) /\ r[i] = a[i]
    BY <1>1, <1>2, <2>1
  <2>4. \A i \in 1 .. (k - 1) : Len(a) + i \in 1 .. (j - 1) /\ r[Len(a) + i] = b[i]
    BY <1>1, <1>2, <2>1
  <2>5. Ready(r[j], v) \/ \E i \in 1 .. (j - 1) : Readies(r[i], r[j])
    <3>1. CASE Ready(b[k], v)
      BY <2>2, <3>1
    <3>2. ASSUME NEW i \in 1 .. (k - 1), Readies(b[i], b[k])
          PROVE  \E m \in 1 .. (j - 1) : Readies(r[m], r[j])
      BY <2>2, <2>4, <3>2
    <3>3. ASSUME NEW i \in DOMAIN a, Readies(a[i], b[k])
          PROVE  \E m \in 1 .. (j - 1) : Readies(r[m], r[j])
      BY <2>2, <2>3, <3>3
    <3> QED
      BY <2>2, <3>1, <3>2, <3>3
  <2>6. ASSUME NEW i \in 1 .. (j - 1)
        PROVE  MayFollow(c, r[i], r[j])
    <3>1. CASE i <= Len(a)
      <4>1. i \in DOMAIN a
        BY <1>1, <3>1
      <4>2. r[i] = a[i]
        BY <2>3, <4>1
      <4> QED
        BY <2>2, <4>1, <4>2
    <3>2. CASE i > Len(a)
      <4>1. i - Len(a) \in 1 .. (k - 1) /\ i = Len(a) + (i - Len(a))
        BY <1>1, <2>1, <3>2
      <4>2. r[i] = b[i - Len(a)]
        BY <2>4, <4>1
      <4> QED
        BY <2>2, <4>1, <4>2
    <3> QED
      BY <1>1, <3>1, <3>2
  <2> QED
    BY <2>2, <2>5, <2>6
<1> QED
  BY <1>1, <1>3, <1>4

\* The statement in front makes way for the statements of t, and what the
\* caller sees turns from v to w.
LEMMA GoesOn ==
  ASSUME NEW S, NEW s \in Seq(S), s # <<>>, NEW t \in Seq(S), NEW c, NEW v, NEW w,
         InOrder(c, s, v), InOrder(c, t, w),
         \A y : MayFollow(c, Head(s), y) /\ Means(c, y, v) =>
                   /\ Means(c, y, w)
                   /\ Ready(y, v) => Ready(y, w)
                   /\ Readies(Head(s), y) =>
                         Ready(y, w) \/ \E k \in DOMAIN t : Readies(t[k], y)
                   /\ \A k \in DOMAIN t : MayFollow(c, t[k], y)
  PROVE  InOrder(c, t \o Tail(s), w)
<1> DEFINE b == Tail(s)
           h == Head(s)
<1>1. /\ b \in Seq(S) /\ Len(s) \in Nat /\ Len(b) = Len(s) - 1 /\ h = s[1]
      /\ DOMAIN b = 1 .. (Len(s) - 1) /\ DOMAIN s = 1 .. Len(s)
      /\ \A j \in DOMAIN b : b[j] = s[j + 1]
  OBVIOUS
<1> HIDE DEF b, h
<1>2. ASSUME NEW j \in DOMAIN b
      PROVE  /\ Means(c, b[j], v) /\ MayFollow(c, h, b[j])
             /\ Ready(b[j], v) \/ Readies(h, b[j])
                  \/ \E i \in 1 .. (j - 1) : Readies(b[i], b[j])
             /\ \A i \in 1 .. (j - 1) : MayFollow(c, b[i], b[j])
  <2>1. j + 1 \in DOMAIN s /\ b[j] = s[j + 1] /\ 1 \in 1 .. ((j + 1) - 1) /\ j \in Nat
    BY <1>1
  <2>2. ASSUME NEW i \in 1 .. (j - 1)
        PROVE  i + 1 \in 1 .. ((j + 1) - 1) /\ b[i] = s[i + 1]
    <3>1. i \in DOMAIN b /\ i + 1 \in 1 .. ((j + 1) - 1)
      BY <1>1, <2>1
    <3> QED
      BY <1>1, <3>1
  <2>3. /\ Means(c, s[j + 1], v)
        /\ Ready(s[j + 1], v) \/ \E i \in 1 .. ((j + 1) - 1) : Readies(s[i], s[j + 1])
        /\ \A i \in 1 .. ((j + 1) - 1) : MayFollow(c, s[i], s[j + 1])
    BY <2>1 DEF InOrder
  <2>4. ASSUME NEW i \in 1 .. ((j + 1) - 1), Readies(s[i], s[j + 1])
        PROVE  Readies(h, b[j]) \/ \E m \in 1 .. (j - 1) : Readies(b[m], b[j])
    <3>1. CASE i = 1
      BY <1>1, <2>1, <2>4, <3>1
    <3>2. CASE i # 1
      <4>1. i - 1 \in 1 .. (j - 1) /\ (i - 1) + 1 = i
        BY <2>1, <3>2
      <4>2. b[i - 1] = s[i]
        BY <2>2, <4>1
      <4> QED
        BY <2>1, <2>4, <4>1, <4>2
    <3> QED
      BY <3>1, <3>2
  <2>5. MayFollow(c, h, b[j])
    BY <1>1, <2>1, <2>3
  <2>6. \A i \in 1 .. (j - 1) : MayFollow(c, b[i], b[j])
    BY <2>1, <2>2, <2>3
  <2> QED
    BY <2>1, <2>3, <2>4, <2>5, <2>6
<1>3. \A j \in DOMAIN b : Means(c, b[j], w)
  BY <1>2 DEF h
<1>4. ASSUME NEW j \in DOMAIN b
      PROVE  \/ Ready(b[j], w)
             \/ \E i \in 1 .. (j - 1) : Readies(b[i], b[j])
             \/ \E i \in DOMAIN t : Readies(t[i], b[j])
  BY <1>2 DEF h
<1>5. \A j \in DOMAIN b : \A i \in 1 .. (j - 1) : MayFollow(c, b[i], b[j])
  BY <1>2
<1>6. \A i \in DOMAIN t, j \in DOMAIN b : MayFollow(c, t[i], b[j])
  BY <1>2 DEF h
<1> QED
  BY <1>1, <1>3, <1>4, <1>5, <1>6, Joins DEF b

\* A script that waits while what its caller sees turns from v to w.
LEMMA Stands ==
  ASSUME NEW s, NEW c, NEW v, NEW w, InOrder(c, s, v),
         \A y : Means(c, y, v) => Means(c, y, w) /\ (Ready(y, v) => Ready(y, w))
  PROVE  InOrder(c, s, w)
  BY DEF InOrder

\* Short scripts.
LEMMA ShortScripts ==
  ASSUME NEW c, NEW v
  PROVE  /\ InOrder(c, <<>>, v)
         /\ \A x : Means(c, x, v) /\ Ready(x, v) => InOrder(c, <<x>>, v)
         /\ \A x, y : /\ Means(c, x, v) /\ Ready(x, v) /\ Means(c, y, v) /\ MayFollow(c, x, y)
                      /\ Ready(y, v) \/ Readies(x, y)
                      => InOrder(c, <<x, y>>, v)
<1>1. InOrder(c, <<>>, v)
  BY DEF InOrder
<1>2. ASSUME NEW x, Means(c, x, v), Ready(x, v)
      PROVE  InOrder(c, <<x>>, v)
  <2>1. DOMAIN <<x>> = {1} /\ <<x>>[1] = x /\ 1 .. (1 - 1) = {}
    OBVIOUS
  <2> QED
    BY <1>2, <2>1 DEF InOrder
<1>3. ASSUME NEW x, NEW y, Means(c, x, v), Ready(x, v), Means(c, y, v), MayFollow(c, x, y),
             Ready(y, v) \/ Readies(x, y)
      PROVE  InOrder(c, <<x, y>>, v)
  <2>1. /\ DOMAIN <<x, y>> = {1, 2} /\ <<x, y>>[1] = x /\ <<x, y>>[2] = y
        /\ 1 .. (1 - 1) = {} /\ 1 .. (2 - 1) = {1}
    OBVIOUS
  <2> QED
    BY <1>3, <2>1 DEF InOrder
<1> QED
  BY <1>1, <1>2, <1>3

----------------------------------------------------------------------------
(* What each write changes for the two callers.                            *)

LEMMA WorkerWritesGoal ==
  ASSUME NEW v, NEW w, NEW h, ViewOK(v), v.goal # "draft",
         h.do = "write_goal", Means(Worker, h, v),
         w.goal = h.to, w.newest = v.newest, w.phase = v.phase, w.team = v.team
  PROVE  /\ ViewOK(w) /\ w.goal # "draft"
         /\ \A y : MayFollow(Worker, h, y) /\ Means(Worker, y, v) => Means(Worker, y, w)
         /\ \A y : Means(User, y, v) => Means(User, y, w)
         /\ \A y : Ready(y, v) => Ready(y, w)
<1>0. WorkerMeans(h, v)
  BY MeansWhat
<1>1. /\ h.to \in {"planning", "awaiting_plan_approval", "running", "awaiting_review",
                   "blocked", "accepted"}
      /\ h.to = "planning" => v.goal \in Replanned
      /\ v.goal \in Judged => h.to \in Judged
      /\ h.to = "awaiting_plan_approval" =>
            RequireApproval /\ v.phase \in {"deciding", "dispatching"}
      /\ h.to = "running" => ~ RequireApproval
      /\ h.to \in {"awaiting_review", "blocked", "accepted"} => v.phase \in Late
  BY <1>0 DEF WorkerMeans, GoalWrites
<1>2. ViewOK(w) /\ w.goal # "draft"
  BY <1>1 DEF ViewOK, Judged, Late, Closing
<1>3. ASSUME NEW y, MayFollow(Worker, h, y), Means(Worker, y, v)
      PROVE  Means(Worker, y, w)
  <2>1. /\ y.do \notin {"look", "link_cycle", "write_goal", "write_cycle"}
        /\ y.do = "create_cycle" => h.to = "planning"
        /\ RequireApproval /\ Sets(y, "executing") => h.to \notin Early
    BY <1>3 DEF MayFollow, GoalWrites
  <2>2. WorkerMeans(y, v)
    BY <1>3, MeansWhat
  <2>3. WorkerMeans(y, w)
    BY <1>1, <2>1, <2>2 DEF WorkerMeans, Replanned
  <2> QED
    BY <2>1, <2>3, MeansWhat
<1>4. ASSUME NEW y, Means(User, y, v)
      PROVE  Means(User, y, w)
  <2>1. UserMeans(y, v)
    BY <1>4, MeansWhat
  <2>2. UserMeans(y, w)
    BY <1>1, <2>1 DEF UserMeans, ViewOK, Replanned, Judged, Late, Closing
  <2> QED
    BY <1>4, <2>2, MeansWhat
<1>5. \A y : Ready(y, v) => Ready(y, w)
  BY DEF Ready
<1> QED
  BY <1>2, <1>3, <1>4, <1>5

LEMMA UserWritesGoal ==
  ASSUME NEW v, NEW w, NEW h, ViewOK(v),
         h.do = "write_goal", Means(User, h, v), h.to \in GoalGoes,
         w.goal = h.to, w.newest = v.newest, w.phase = v.phase, w.team = v.team
  PROVE  /\ ViewOK(w) /\ w.goal # "draft"
         /\ \A y : MayFollow(User, h, y) /\ Means(User, y, v) => Means(User, y, w)
         /\ v.goal # "draft" => \A y : Means(Worker, y, v) => Means(Worker, y, w)
         /\ \A y : Ready(y, v) => Ready(y, w)
<1>0. UserMeans(h, v)
  BY MeansWhat
<1>1. /\ h.to \in {"planning", "running", "blocked", "cancelled", "accepted", "rework_required"}
      /\ h.to = "planning" => v.goal = "draft"
      /\ h.to # "planning" => v.goal \notin Replanned \cup {"draft"}
      /\ h.to = "accepted" => v.goal \in Judged
      /\ h.to = "rework_required" => v.goal \in Judged \cup {"awaiting_plan_approval"}
  BY <1>0 DEF UserMeans, GoalWrites, GoalGoes
<1>2. ViewOK(w) /\ w.goal # "draft"
  BY <1>1 DEF ViewOK, Judged, Late, Closing
<1>3. ASSUME NEW y, MayFollow(User, h, y), Means(User, y, v)
      PROVE  Means(User, y, w)
  <2>1. y.do = "move_team" /\ h.to = "rework_required"
    BY <1>3 DEF MayFollow, GoalWrites
  <2>2. UserMeans(y, v)
    BY <1>3, MeansWhat
  <2>3. UserMeans(y, w)
    BY <2>1, <2>2 DEF UserMeans, Replanned, GoalWrites, CycleWrites
  <2> QED
    BY <2>1, <2>3, MeansWhat
<1>4. ASSUME v.goal # "draft", NEW y, Means(Worker, y, v)
      PROVE  Means(Worker, y, w)
  <2>1. WorkerMeans(y, v)
    BY <1>4, MeansWhat
  <2>2. h.to # "planning"
    BY <1>1, <1>4
  <2>3. WorkerMeans(y, w)
    BY <1>1, <1>4, <2>1, <2>2
       DEF WorkerMeans, ViewOK, Replanned, Judged, Late, Closing, Early, Sets, Onward
  <2> QED
    BY <1>4, <2>3, MeansWhat
<1>5. \A y : Ready(y, v) => Ready(y, w)
  BY DEF Ready
<1> QED
  BY <1>2, <1>3, <1>4, <1>5

LEMMA WorkerWritesCycle ==
  ASSUME NEW v, NEW w, NEW h, ViewOK(v),
         h.do = "write_cycle", Means(Worker, h, v), Ready(h, v),
         w.goal = v.goal, w.newest = v.newest, w.phase = h.to, w.team = v.team
  PROVE  /\ ViewOK(w) /\ h.n = v.newest /\ (v.phase \in Late => w.phase \in Late)
         /\ \A y : MayFollow(Worker, h, y) /\ Means(Worker, y, v) =>
               /\ Means(Worker, y, w)
               /\ Ready(y, v) \/ Readies(h, y) => Ready(y, w)
         /\ \A y : Means(User, y, v) => Means(User, y, w) /\ (Ready(y, v) => Ready(y, w))
<1>0. WorkerMeans(h, v)
  BY MeansWhat
<1>1. /\ Onward(v.phase, h.to) \/ (h.to \in Closing /\ v.phase \in {"reviewing"} \cup Closing)
      /\ h.n = v.newest
      /\ h.to = "executing" /\ RequireApproval => v.goal \notin Early
      /\ h.to = "completed" => v.phase \in Closing
      /\ h.to = "reviewing" => v.team \in {"none", "awaiting_review"}
  <2>1. h.do \in CycleWrites
    BY DEF CycleWrites
  <2>2. /\ (Onward(v.phase, h.to) /\ h.n = v.newest) \/ h.to \in Closing
        /\ h.to = "executing" /\ RequireApproval => v.goal \notin Early
    BY <1>0, <2>1 DEF WorkerMeans, Sets
  <2>3. h.to \in Closing => h.n = v.newest /\ v.phase \in {"reviewing"} \cup Closing
    BY MeansWhat
  <2>4. /\ h.to = "completed" => v.phase \in Closing
        /\ h.to = "reviewing" => v.team \in {"none", "awaiting_review"}
    BY <2>1 DEF Ready, Sets
  <2> QED
    BY <2>2, <2>3, <2>4
<1>2. ViewOK(w) /\ (v.phase \in Late => w.phase \in Late)
  BY <1>1 DEF ViewOK, Judged, Late, Closing, Early, Planning, Onward
<1>3. ASSUME NEW y, MayFollow(Worker, h, y), Means(Worker, y, v)
      PROVE  Means(Worker, y, w) /\ (Ready(y, v) \/ Readies(h, y) => Ready(y, w))
  <2>1. /\ y.do \notin {"look", "link_cycle", "write_goal", "write_cycle"}
        /\ \/ h.to = "executing" /\ y.do \in {"create_task", "staff_team"}
           \/ h.to = "summarizing" /\ y.do = "move_cycle" /\ y.to = "completed"
           \/ h.to \in Closing /\ y.do = "close_team"
           \/ h.to \in Closing /\ y.do = "move_goal" /\ y.to \in {"accepted", "rework_required"}
    BY <1>3 DEF MayFollow, CycleWrites
  <2>2. WorkerMeans(y, v)
    BY <1>3, MeansWhat
  <2>3. WorkerMeans(y, w)
    BY <1>1, <2>1, <2>2
       DEF WorkerMeans, GoalWrites, CycleWrites, Sets, Late, Closing, Onward
  <2>4. Ready(y, v) \/ Readies(h, y) => Ready(y, w)
    BY <1>1, <2>1 DEF Ready, Readies, Sets, CycleWrites, Closing
  <2> QED
    BY <2>1, <2>3, <2>4, MeansWhat
<1>4. ASSUME NEW y, Means(User, y, v)
      PROVE  Means(User, y, w) /\ (Ready(y, v) => Ready(y, w))
  <2>1. UserMeans(y, v)
    BY <1>4, MeansWhat
  <2>2. UserMeans(y, w)
    BY <1>1, <2>1 DEF UserMeans, Onward, Replanned, Early, Closing
  <2>3. y.do = "write_cycle" /\ y.to \in Closing =>
           y.n = w.newest /\ w.phase \in {"reviewing"} \cup Closing
    BY <1>1, <1>4, MeansWhat DEF Onward, Closing
  <2>4. Ready(y, v) => Ready(y, w)
    <3>1. ~ Sets(y, "reviewing") /\ y.do \notin {"create_task", "staff_team"}
      BY <2>1 DEF UserMeans, Sets, Closing, GoalWrites, CycleWrites
    <3>2. v.phase \in Closing => w.phase \in Closing
      BY <1>1 DEF Onward, Closing
    <3> QED
      BY <3>1, <3>2 DEF Ready
  <2> QED
    BY <2>2, <2>3, <2>4, MeansWhat
<1> QED
  BY <1>1, <1>2, <1>3, <1>4

LEMMA UserWritesCycle ==
  ASSUME NEW v, NEW w, NEW h, ViewOK(v),
         h.do = "write_cycle", Means(User, h, v), Ready(h, v),
         w.goal = v.goal, w.newest = v.newest, w.phase = h.to, w.team = v.team
  PROVE  /\ ViewOK(w) /\ h.n = v.newest /\ (v.phase \in Late => w.phase \in Late)
         /\ \A y : MayFollow(User, h, y) /\ Means(User, y, v) =>
               /\ Means(User, y, w)
               /\ Ready(y, v) \/ Readies(h, y) => Ready(y, w)
         /\ \A y : Means(Worker, y, v) => Means(Worker, y, w) /\ (Ready(y, v) => Ready(y, w))
<1>0. UserMeans(h, v)
  BY MeansWhat
<1>1. /\ h.to \in Closing /\ v.phase \in {"reviewing"} \cup Closing
      /\ h.n = v.newest /\ v.goal \in Judged
      /\ h.to = "completed" => v.phase \in Closing
  BY <1>0, MeansWhat DEF UserMeans, CycleWrites, Sets, Ready
<1>2. ViewOK(w) /\ (v.phase \in Late => w.phase \in Late)
  BY <1>1 DEF ViewOK, Judged, Late, Closing, Planning
<1>3. ASSUME NEW y, MayFollow(User, h, y), Means(User, y, v)
      PROVE  Means(User, y, w) /\ (Ready(y, v) \/ Readies(h, y) => Ready(y, w))
  <2>1. /\ y.do \notin {"look", "link_cycle", "write_goal", "write_cycle"}
        /\ \/ y.do = "move_cycle" /\ y.to = "completed"
           \/ y.do = "close_team"
           \/ y.do = "move_goal" /\ y.to \in {"accepted", "rework_required"}
    BY <1>1, <1>3 DEF MayFollow, CycleWrites, Closing
  <2>2. UserMeans(y, v)
    BY <1>3, MeansWhat
  <2>3. UserMeans(y, w)
    BY <1>1, <2>1, <2>2 DEF UserMeans
  <2>4. Ready(y, v) \/ Readies(h, y) => Ready(y, w)
    BY <1>1, <2>1 DEF Ready, Readies, Sets, CycleWrites, Closing
  <2> QED
    BY <2>1, <2>3, <2>4, MeansWhat
<1>4. ASSUME NEW y, Means(Worker, y, v)
      PROVE  Means(Worker, y, w) /\ (Ready(y, v) => Ready(y, w))
  <2>1. WorkerMeans(y, v)
    BY <1>4, MeansWhat
  <2>2. WorkerMeans(y, w)
    BY <1>1, <2>1 DEF WorkerMeans, Onward, Judged, Replanned, Late, Closing
  <2>3. Ready(y, v) => Ready(y, w)
    BY <1>1, <2>1 DEF Ready, Sets, Closing
  <2> QED
    BY <1>1, <1>4, <2>2, <2>3, MeansWhat DEF Closing
<1> QED
  BY <1>1, <1>2, <1>3, <1>4

LEMMA WorkerMovesTeam ==
  ASSUME NEW v, NEW w, NEW h, ViewOK(v),
         h.do \in {"plan_team", "staff_team", "move_team"}, Means(Worker, h, v),
         w.goal = v.goal, w.newest = v.newest, w.phase = v.phase,
         h.do = "move_team" => w.team = h.to
  PROVE  /\ ViewOK(w)
         /\ \A y : Means(Worker, y, v) => Means(Worker, y, w)
         /\ \A y : MayFollow(Worker, h, y) /\ (Ready(y, v) \/ Readies(h, y)) => Ready(y, w)
         /\ \A y : Means(User, y, v) => Means(User, y, w) /\ (Ready(y, v) => Ready(y, w))
<1>0. v.phase \in {"dispatching", "executing"}
  BY MeansWhat DEF WorkerMeans
<1>1. ViewOK(w)
  BY <1>0 DEF ViewOK, Planning
<1>2. \A c, y : Means(c, y, v) => Means(c, y, w)
  BY DEF Means, WorkerMeans, UserMeans
<1>3. ASSUME NEW y, MayFollow(Worker, h, y), Ready(y, v) \/ Readies(h, y)
      PROVE  Ready(y, w)
  <2>1. h.do = "move_team" /\ (Sets(y, "reviewing") => h.to = "awaiting_review")
    BY <1>3 DEF MayFollow, GoalWrites
  <2>2. Readies(h, y) => Sets(y, "reviewing") /\ h.to = "awaiting_review"
    BY <2>1 DEF Readies, Sets, CycleWrites
  <2>3. CASE Sets(y, "reviewing")
    BY <2>1, <2>3 DEF Ready, Sets, CycleWrites
  <2>4. CASE ~ Sets(y, "reviewing")
    BY <1>3, <2>2, <2>4 DEF Ready
  <2> QED
    BY <2>3, <2>4
<1>4. ASSUME NEW y, Means(User, y, v), Ready(y, v)
      PROVE  Ready(y, w)
  <2>1. ~ Sets(y, "reviewing")
    BY <1>4, MeansWhat DEF UserMeans, Sets, Closing
  <2> QED
    BY <1>4, <2>1 DEF Ready
<1> QED
  BY <1>1, <1>2, <1>3, <1>4

LEMMA UserMovesTeam ==
  ASSUME NEW v, NEW w, NEW h, ViewOK(v),
         h.do = "move_team", Means(User, h, v),
         w.goal = v.goal, w.newest = v.newest, w.phase = v.phase
  PROVE  /\ ViewOK(w)
         /\ \A y : Means(Worker, y, v) => Means(Worker, y, w) /\ (Ready(y, v) => Ready(y, w))
<1>0. v.phase = "dispatching"
  BY MeansWhat DEF UserMeans
<1>1. ViewOK(w)
  BY <1>0 DEF ViewOK, Planning
<1>2. \A c, y : Means(c, y, v) => Means(c, y, w)
  BY DEF Means, WorkerMeans, UserMeans
<1>3. ASSUME NEW y, Means(Worker, y, v), Ready(y, v)
      PROVE  Ready(y, w)
  <2>1. ~ Sets(y, "reviewing")
    BY <1>0, <1>3, MeansWhat DEF WorkerMeans, Sets, Onward, Closing
  <2> QED
    BY <1>3, <2>1 DEF Ready
<1> QED
  BY <1>1, <1>2, <1>3

LEMMA TeamIsClosed ==
  ASSUME NEW v, NEW w, NEW h, NEW c \in Callers, ViewOK(v), h.do = "close_team", Ready(h, v),
         w.goal = v.goal, w.newest = v.newest, w.phase = v.phase
  PROVE  /\ ViewOK(w) /\ h.n = v.newest
         /\ \A d, y : Means(d, y, v) => Means(d, y, w)
         /\ \A d \in Callers : \A y : Means(d, y, v) /\ Ready(y, v) => Ready(y, w)
<1>0. v.phase \in Closing /\ h.n = v.newest
  BY DEF Ready
<1>1. ViewOK(w)
  BY <1>0 DEF ViewOK, Planning, Closing
<1>2. \A d, y : Means(d, y, v) => Means(d, y, w)
  BY DEF Means, WorkerMeans, UserMeans
<1>3. ASSUME NEW d \in Callers, NEW y, Means(d, y, v), Ready(y, v)
      PROVE  Ready(y, w)
  <2>1. d = Worker \/ d = User
    BY DEF Callers
  <2>2. ~ Sets(y, "reviewing")
    BY <1>0, <1>3, <2>1, MeansWhat DEF WorkerMeans, UserMeans, Sets, Onward, Closing
  <2> QED
    BY <1>3, <2>2 DEF Ready
<1> QED
  BY <1>0, <1>1, <1>2, <1>3

LEMMA CycleIsCreated ==
  ASSUME NEW v, NEW w, NEW h, ViewOK(v), h.do = "create_cycle", Means(Worker, h, v),
         w.goal = v.goal, w.phase = "observing", w.team = "none"
  PROVE  /\ ViewOK(w) /\ v.phase \in {"none", "completed"}
         /\ \A y : Means(User, y, v) => Means(User, y, w) /\ (Ready(y, v) => Ready(y, w))
<1>0. v.phase \in {"none", "completed"} /\ v.goal \in Replanned
  BY MeansWhat DEF WorkerMeans
<1>1. ViewOK(w)
  BY <1>0 DEF ViewOK, Planning, Replanned, Judged
<1>2. ASSUME NEW y, Means(User, y, v)
      PROVE  Means(User, y, w) /\ (Ready(y, v) => Ready(y, w))
  <2>1. UserMeans(y, v)
    BY <1>2, MeansWhat
  <2>2. y.do \notin CycleWrites \cup {"set_hash", "close_team", "move_team"}
    BY <1>0, <2>1 DEF UserMeans, Judged, Replanned
  <2>3. UserMeans(y, w)
    BY <2>1, <2>2 DEF UserMeans
  <2>4. Ready(y, w)
    BY <2>1, <2>2 DEF UserMeans, Ready, Sets, GoalWrites, CycleWrites
  <2> QED
    BY <2>2, <2>3, <2>4, MeansWhat DEF CycleWrites
<1> QED
  BY <1>0, <1>1, <1>2

----------------------------------------------------------------------------
(* What the callers see, and the scripts they choose.                      *)

LEMMA PhasesLead ==
  ASSUME NEW from, from \in {"completed"} \cup {Phases[i] : i \in DOMAIN Phases},
         NEW to \in CycleGoes, PhaseFollows(from, to)
  PROVE  /\ \/ Onward(from, to)
            \/ from = "reviewing" /\ to = "summarizing"
            \/ to = "completed"
         /\ from # "completed"
<1>1. DOMAIN Phases = 1 .. 7
  BY DEF Phases
<1>2. PICK i \in 1 .. 7 : /\ Phases[i] = from
                          /\ to \in Ended \/ (i + 1 \in 1 .. 7 /\ Phases[i + 1] = to)
  BY <1>1 DEF PhaseFollows, Phases
<1>3. to \in Ended => to = "completed"
  BY DEF Ended, CycleGoes
<1>4. from # "completed"
  BY <1>2 DEF Phases
<1>5. CASE i + 1 \in 1 .. 7 /\ Phases[i + 1] = to
  <2>1. i \in {1, 2, 3, 4, 5, 6}
    BY <1>5
  <2> QED
    BY <1>2, <1>4, <1>5, <2>1 DEF Phases, Onward
<1> QED
  BY <1>2, <1>3, <1>4, <1>5

LEMMA ViewRead ==
  ASSUME GoalInv, PhaseInv
  PROVE  /\ View.goal = goal.status /\ View.newest = Len(cycles) /\ Len(cycles) \in Nat
         /\ cycles = <<>> => View.phase = "none"
         /\ cycles # <<>> => /\ View.phase = cycles[Len(cycles)].status
                             /\ View.phase # "none"
                             /\ View.team = cycles[Len(cycles)].team
                             /\ Len(cycles) \in DOMAIN cycles
         /\ \A n \in DOMAIN cycles :
               /\ cycles[n].status \in {"completed"} \cup {Phases[i] : i \in DOMAIN Phases}
               /\ n # Len(cycles) => cycles[n].status = "completed"
               /\ n = Len(cycles) => View.phase = cycles[n].status /\ View.team = cycles[n].team
         /\ OpenCycles = IF View.phase \in {"none", "completed"} THEN {} ELSE {Len(cycles)}
<1>1. cycles \in Seq(CycleRows) /\ Len(cycles) \in Nat /\ DOMAIN cycles = 1 .. Len(cycles)
  BY DEF GoalInv
<1>2. /\ View.goal = goal.status /\ View.newest = Len(cycles)
      /\ View.phase = IF cycles = <<>> THEN "none" ELSE cycles[Len(cycles)].status
      /\ View.team = IF cycles = <<>> THEN "none" ELSE cycles[Len(cycles)].team
  BY DEF View
<1>3. cycles # <<>> => Len(cycles) \in DOMAIN cycles
  BY <1>1
<1>4. \A n \in DOMAIN cycles : cycles # <<>>
  BY <1>1
<1>5. ViewOK(View) /\ \A n \in DOMAIN cycles : n # Len(cycles) => cycles[n].status = "completed"
  BY DEF PhaseInv, TablesInOrder
<1>6. {Phases[i] : i \in DOMAIN Phases} =
         {"observing", "orienting", "deciding", "dispatching", "executing", "reviewing", "summarizing"}
  <2>1. DOMAIN Phases = 1 .. 7
    BY DEF Phases
  <2> QED
    BY <2>1 DEF Phases
<1>7. View.phase \in {"none", "completed"} \cup {Phases[i] : i \in DOMAIN Phases}
  BY <1>5, <1>6 DEF ViewOK, Planning, Late, Closing
<1>8. ASSUME NEW n \in DOMAIN cycles
      PROVE  cycles[n].status \in CycleStatuses
  <2>1. cycles[n] \in CycleRows
    BY <1>1
  <2> QED
    BY <2>1 DEF CycleRows
<1>9. "none" \notin CycleStatuses
  BY <1>6 DEF CycleStatuses, Ended
<1>13. cycles # <<>> => View.phase # "none"
  BY <1>2, <1>3, <1>8, <1>9
<1>10. \A n \in DOMAIN cycles :
          cycles[n].status \in {"completed"} \cup {Phases[i] : i \in DOMAIN Phases}
  BY <1>2, <1>4, <1>5, <1>7, <1>8, <1>9
<1>11. \A n \in DOMAIN cycles : cycles[n].status \in Ended <=> cycles[n].status = "completed"
  BY <1>6, <1>10 DEF Ended
<1>12. OpenCycles = IF View.phase \in {"none", "completed"} THEN {} ELSE {Len(cycles)}
  <2>1. CASE View.phase \in {"none", "completed"}
    <3>1. \A n \in DOMAIN cycles : cycles[n].status = "completed"
      BY <1>2, <1>4, <1>5, <1>8, <1>9, <2>1
    <3> QED
      BY <1>11, <2>1, <3>1 DEF OpenCycles
  <2>2. CASE View.phase \notin {"none", "completed"}
    <3>1. cycles # <<>> /\ cycles[Len(cycles)].status # "completed"
      BY <1>2, <2>2
    <3> QED
      BY <1>3, <1>5, <1>11, <2>2, <3>1 DEF OpenCycles
  <2> QED
    BY <2>1, <2>2
<1> QED
  BY <1>1, <1>2, <1>3, <1>4, <1>5, <1>10, <1>12, <1>13

LEMMA NewestRead ==
  ASSUME GoalInv, PhaseInv
  PROVE  /\ NewestOpen = 0 => View.phase \in {"none", "completed"}
         /\ NewestOpen # 0 => /\ NewestOpen = Len(cycles) /\ NewestOpen \in DOMAIN cycles
                              /\ View.phase = cycles[NewestOpen].status
                              /\ View.team = cycles[NewestOpen].team
                              /\ View.phase \notin {"none", "completed"}
<1>1. CASE View.phase \in {"none", "completed"}
  <2>1. NewestOpen = 0
    BY <1>1, ViewRead DEF NewestOpen
  <2> QED
    BY <1>1, <2>1
<1>2. CASE View.phase \notin {"none", "completed"}
  <2>1. OpenCycles = {Len(cycles)} /\ Len(cycles) \in Nat /\ cycles # <<>>
    BY <1>2, ViewRead
  <2>2. \E n \in OpenCycles : \A m \in OpenCycles : m <= n
    BY <2>1
  <2>3. NewestOpen \in OpenCycles
    BY <2>1, <2>2, Zenon DEF NewestOpen
  <2>4. NewestOpen = Len(cycles) /\ NewestOpen # 0 /\ NewestOpen \in DOMAIN cycles
    BY <2>1, <2>3 DEF OpenCycles, GoalInv
  <2> QED
    BY <1>2, <2>4, ViewRead
<1> QED
  BY <1>1, <1>2

\* One statement before a script.
LEMMA Prefixed ==
  ASSUME NEW S, NEW x \in S, NEW t \in Seq(S), NEW c, NEW v, Means(c, x, v), Ready(x, v),
         InOrder(c, t, v), \A k \in DOMAIN t : MayFollow(c, x, t[k])
  PROVE  InOrder(c, <<x>> \o t, v)
<1>1. <<x>> \in Seq(S) /\ DOMAIN <<x>> = {1} /\ <<x>>[1] = x
  OBVIOUS
<1>2. InOrder(c, <<x>>, v)
  BY ShortScripts
<1>3. \A i \in DOMAIN <<x>>, j \in DOMAIN t : MayFollow(c, <<x>>[i], t[j])
  BY <1>1
<1>4. /\ \A j \in DOMAIN t : Means(c, t[j], v)
      /\ \A j \in DOMAIN t : Ready(t[j], v) \/ \E i \in 1 .. (j - 1) : Readies(t[i], t[j])
      /\ \A j \in DOMAIN t : \A i \in 1 .. (j - 1) : MayFollow(c, t[i], t[j])
  BY DEF InOrder
<1> HIDE DEF InOrder
<1> QED
  BY <1>1, <1>2, <1>3, <1>4, Joins

LEMMA Single ==
  ASSUME NEW x
  PROVE  DOMAIN <<x>> = {1} /\ <<x>>[1] = x /\ <<x>> \o <<>> = <<x>> /\ <<>> \o <<x>> = <<x>>
<1>1. <<x>> \in Seq({x}) /\ <<>> \in Seq({x})
  OBVIOUS
<1> QED
  BY <1>1

LEMMA Couple ==
  ASSUME NEW x, NEW y
  PROVE  /\ DOMAIN <<x, y>> = {1, 2} /\ <<x, y>>[1] = x /\ <<x, y>>[2] = y
         /\ <<x>> \o <<y>> = <<x, y>>
<1>1. <<x>> \in Seq({x, y}) /\ <<y>> \in Seq({x, y}) /\ <<x, y>> \in Seq({x, y})
  OBVIOUS
<1>2. /\ Len(<<x>> \o <<y>>) = 2 /\ Len(<<x, y>>) = 2 /\ <<x>> \o <<y>> \in Seq({x, y})
      /\ (<<x>> \o <<y>>)[1] = x /\ (<<x>> \o <<y>>)[2] = y
  BY <1>1
<1>3. \A i \in 1 .. 2 : (<<x>> \o <<y>>)[i] = <<x, y>>[i]
  BY <1>2
<1>4. <<x>> \o <<y>> = <<x, y>>
  BY <1>1, <1>2, <1>3, SeqEqual
<1> QED
  BY <1>4

LEMMA PhaseScriptInOrder ==
  ASSUME GoalInv, PhaseInv, NEW n \in OpenCycles, cycles[n].status # "dispatching",
         NEW s, NEW gated \in BOOLEAN, gated => RequireApproval
  PROVE  /\ InOrder(Worker, PhaseScript(n, s, gated), View)
         /\ \A k \in DOMAIN PhaseScript(n, s, gated) :
               ~ Sets(PhaseScript(n, s, gated)[k], "executing")
<1> DEFINE t == PhaseScript(n, s, gated)
<1>1. /\ n = Len(cycles) /\ View.newest = n /\ View.phase = cycles[n].status
      /\ n \in DOMAIN cycles /\ cycles[n].status \notin {"none", "completed"}
  <2>1. View.phase \notin {"none", "completed"} /\ n = Len(cycles)
    BY ViewRead
  <2> QED
    BY <2>1, ViewRead
<1>2. View.phase \in {"observing", "orienting", "deciding", "executing", "reviewing", "summarizing"}
  <2>1. ViewOK(View)
    BY DEF PhaseInv, TablesInOrder
  <2> QED
    BY <1>1, <2>1 DEF ViewOK, Planning, Late, Closing
<1>3. PICK S : /\ \A to \in GoalGoes : MoveGoal(to) \in S
               /\ \A to \in CycleGoes : MoveCycle(n, to) \in S
  <2>1. n \in 1 .. Len(cycles) /\ Len(cycles) \in Nat
    BY <1>1 DEF GoalInv
  <2> QED
    BY <2>1, StepsMade
<1> DEFINE v == View
<1>4. /\ View.newest = n /\ View.phase = cycles[n].status
  BY <1>1
<1> HIDE DEF View
<1>5. ASSUME NEW to, Onward(View.phase, to), to \in {"orienting", "deciding", "dispatching"}
      PROVE  /\ InOrder(Worker, <<MoveCycle(n, to)>>, View)
             /\ Means(Worker, MoveCycle(n, to), View)
             /\ ~ Sets(MoveCycle(n, to), "executing")
  <2>1. /\ MoveCycle(n, to).do = "move_cycle" /\ MoveCycle(n, to).n = n
        /\ MoveCycle(n, to).to = to
    BY DEF MoveCycle
  <2>2. WorkerMeans(MoveCycle(n, to), View)
    BY <1>4, <1>5, <2>1 DEF WorkerMeans, GoalWrites, CycleWrites, Sets
  <2>3. Means(Worker, MoveCycle(n, to), View) /\ Ready(MoveCycle(n, to), View)
    BY <1>5, <2>1, <2>2, MeansWhat DEF Ready, Sets
  <2> QED
    BY <1>5, <2>1, <2>3, ShortScripts DEF Sets
<1>6. CASE View.phase = "observing"
  <2>1. t = <<MoveCycle(n, "orienting")>>
    BY <1>4, <1>6 DEF PhaseScript
  <2> QED
    BY <1>5, <1>6, <2>1, Single DEF Onward
<1>7. CASE View.phase = "orienting"
  <2>1. t = <<MoveCycle(n, "deciding")>>
    BY <1>4, <1>7 DEF PhaseScript
  <2> QED
    BY <1>5, <1>7, <2>1, Single DEF Onward
<1>8. CASE View.phase = "deciding"
  <2> DEFINE x == MoveGoal("awaiting_plan_approval")
             y == MoveCycle(n, "dispatching")
  <2>1. t = When(gated /\ s = "planning", <<x>>) \o <<y>>
    BY <1>4, <1>8 DEF PhaseScript
  <2>2. InOrder(Worker, <<y>>, View) /\ ~ Sets(y, "executing") /\ Means(Worker, y, View)
    BY <1>5, <1>8 DEF Onward
  <2>3. /\ x.do = "move_goal" /\ x.to = "awaiting_plan_approval"
        /\ y.do = "move_cycle" /\ y.to = "dispatching"
    BY DEF MoveGoal, MoveCycle
  <2> HIDE DEF x, y
  <2>4. CASE ~ (gated /\ s = "planning")
    <3>1. t = <<y>>
      BY <2>1, <2>4, Single DEF When
    <3> QED
      BY <2>2, <3>1, Single
  <2>5. CASE gated /\ s = "planning"
    <3>1. t = <<x, y>>
      BY <2>1, <2>5, Couple DEF When
    <3>2. WorkerMeans(x, View)
      BY <1>8, <2>3, <2>5 DEF WorkerMeans, GoalWrites, CycleWrites, Sets
    <3>3. Means(Worker, x, View) /\ Ready(x, View) /\ Ready(y, View)
      BY <2>3, <3>2, MeansWhat DEF Ready, Sets, CycleWrites
    <3>4. MayFollow(Worker, x, y)
      BY <2>3, BoundAssumption DEF MayFollow, Sets, CycleWrites
    <3>5. InOrder(Worker, <<x, y>>, View)
      BY <2>2, <3>3, <3>4, ShortScripts
    <3>6. ~ Sets(x, "executing")
      BY <2>3 DEF Sets, CycleWrites
    <3> QED
      BY <2>2, <3>1, <3>5, <3>6, Couple
  <2> QED
    BY <2>4, <2>5
<1>9. CASE View.phase = "executing"
  <2> DEFINE x == On("accept_ready", n)
             y == On("weigh", n)
  <2>1. t = <<x, y>>
    BY <1>4, <1>9 DEF PhaseScript
  <2>2. x.do = "accept_ready" /\ x.n = n /\ y.do = "weigh" /\ y.n = n
    BY DEF On
  <2> HIDE DEF x, y
  <2>3. WorkerMeans(x, View) /\ WorkerMeans(y, View)
    BY <1>4, <1>9, <2>2 DEF WorkerMeans, GoalWrites, CycleWrites, Sets
  <2>4. Means(Worker, x, View) /\ Means(Worker, y, View)
    BY <2>2, <2>3, MeansWhat
  <2>5. Ready(x, View) /\ Ready(y, View) /\ ~ Sets(x, "executing") /\ ~ Sets(y, "executing")
    BY <2>2 DEF Ready, Sets, CycleWrites
  <2>6. MayFollow(Worker, x, y)
    BY <2>2, BoundAssumption DEF MayFollow, Sets, CycleWrites
  <2>7. InOrder(Worker, <<x, y>>, View)
    BY <2>4, <2>5, <2>6, ShortScripts
  <2> QED
    BY <2>1, <2>5, <2>7, Couple
<1>10. CASE View.phase = "reviewing"
  <2> DEFINE x == On("review", n)
  <2>1. t = <<x>>
    BY <1>4, <1>10 DEF PhaseScript
  <2>2. x.do = "review" /\ x.n = n
    BY DEF On
  <2> HIDE DEF x
  <2>3. WorkerMeans(x, View)
    BY <1>10, <2>2 DEF WorkerMeans, GoalWrites, CycleWrites, Sets, Late
  <2>4. Means(Worker, x, View) /\ Ready(x, View) /\ ~ Sets(x, "executing")
    BY <2>2, <2>3, MeansWhat DEF Ready, Sets, CycleWrites
  <2>5. InOrder(Worker, <<x>>, View)
    BY <2>4, ShortScripts
  <2> QED
    BY <2>1, <2>4, <2>5, Single
<1>11. CASE View.phase = "summarizing"
  <2> DEFINE x == MoveCycle(n, "completed")
  <2>1. t = <<x>>
    BY <1>4, <1>11 DEF PhaseScript
  <2>2. x.do = "move_cycle" /\ x.n = n /\ x.to = "completed"
    BY DEF MoveCycle
  <2> HIDE DEF x
  <2>3. WorkerMeans(x, View)
    BY <2>2 DEF WorkerMeans, GoalWrites, CycleWrites, Sets, Closing
  <2>4. Means(Worker, x, View) /\ Ready(x, View) /\ ~ Sets(x, "executing")
    BY <1>4, <1>11, <2>2, <2>3, MeansWhat DEF Ready, Sets, CycleWrites, Closing
  <2>5. InOrder(Worker, <<x>>, View)
    BY <2>4, ShortScripts
  <2> QED
    BY <2>1, <2>4, <2>5, Single
<1> QED
  BY <1>2, <1>6, <1>7, <1>8, <1>9, <1>10, <1>11

LEMMA Triple ==
  ASSUME NEW x, NEW y, NEW z
  PROVE  <<x>> \o <<y, z>> = <<x, y, z>>
<1> DEFINE S == {x, y, z}
           r == <<x>> \o <<y, z>>
<1>1. <<x>> \in Seq(S) /\ <<y, z>> \in Seq(S) /\ <<x, y, z>> \in Seq(S)
  OBVIOUS
<1>2. /\ Len(r) = 3 /\ Len(<<x, y, z>>) = 3 /\ r \in Seq(S)
      /\ r[1] = x /\ r[2] = y /\ r[3] = z
  BY <1>1
<1> HIDE DEF r
<1>3. \A i \in 1 .. 3 : r[i] = <<x, y, z>>[i]
  BY <1>2
<1>4. r = <<x, y, z>>
  BY <1>1, <1>2, <1>3, SeqEqual
<1> QED
  BY <1>4 DEF r

\* A cycle enters executing before its tasks are created.
LEMMA ActInOrder ==
  ASSUME NEW n, NEW v, v.newest = n, v.phase = "dispatching", NEW plan \in Plans,
         RequireApproval => v.goal \notin Early
  PROVE  LET S == {MoveCycle(n, "executing"), On("create_task", n), On("staff_team", n)}
             t == <<MoveCycle(n, "executing")>> \o Act(n, plan)
         IN t \in Seq(S) /\ InOrder(Worker, t, v)
<1> DEFINE m == MoveCycle(n, "executing")
           x == On("create_task", n)
           y == On("staff_team", n)
           S == {m, x, y}
           a == <<m>>
           b == Act(n, plan)
<1>1. /\ m.do = "move_cycle" /\ m.n = n /\ m.to = "executing"
      /\ x.do = "create_task" /\ x.n = n /\ y.do = "staff_team" /\ y.n = n
  BY DEF MoveCycle, On
<1>2. b = When(plan.granted > 0, [i \in 1 .. plan.granted |-> x] \o <<y>>)
  BY DEF Act
<1>3. plan.granted \in Nat
  BY DEF Plans, MaxParallelAgents
<1> HIDE DEF m, x, y
<1>4. a \in Seq(S) /\ DOMAIN a = {1} /\ a[1] = m
  BY Single
<1>5. /\ b \in Seq(S)
      /\ \A j \in DOMAIN b : b[j] \in {x, y}
      /\ \A j \in DOMAIN b : \A i \in 1 .. (j - 1) : b[i] = x
  <2>1. CASE ~ plan.granted > 0
    <3>1. b = <<>>
      BY <1>2, <2>1 DEF When
    <3> QED
      BY <3>1
  <2>2. CASE plan.granted > 0
    <3> DEFINE g == [i \in 1 .. plan.granted |-> x]
    <3>1. g \in Seq(S) /\ Len(g) = plan.granted /\ \A i \in 1 .. plan.granted : g[i] = x
      BY <1>3
    <3>0. <<y>> \in Seq(S)
      OBVIOUS
    <3>2. b = g \o <<y>>
      BY <1>2, <2>2, Zenon DEF When
    <3> HIDE DEF g, b
    <3>3. /\ b \in Seq(S) /\ Len(b) = plan.granted + 1 /\ DOMAIN b = 1 .. Len(b)
          /\ \A i \in 1 .. plan.granted : b[i] = x
          /\ b[plan.granted + 1] = y
      BY <1>3, <3>0, <3>1, <3>2
    <3>4. \A j \in DOMAIN b : b[j] \in {x, y}
      BY <1>3, <3>3
    <3>5. ASSUME NEW j \in DOMAIN b, NEW i \in 1 .. (j - 1)
          PROVE  b[i] = x
      <4>1. i \in 1 .. plan.granted
        BY <1>3, <3>3
      <4> QED
        BY <3>3, <4>1
    <3> QED
      BY <3>3, <3>4, <3>5
  <2> QED
    BY <2>1, <2>2
<1> HIDE DEF b
<1>6. Means(Worker, m, v) /\ Means(Worker, x, v) /\ Means(Worker, y, v)
  <2>1. WorkerMeans(m, v)
    BY <1>1 DEF WorkerMeans, GoalWrites, CycleWrites, Sets, Onward
  <2>2. WorkerMeans(x, v) /\ WorkerMeans(y, v)
    BY <1>1 DEF WorkerMeans, GoalWrites, CycleWrites, Sets
  <2> QED
    BY <1>1, <2>1, <2>2, MeansWhat
<1>7. Ready(m, v) /\ Readies(m, x) /\ Readies(m, y)
  BY <1>1 DEF Ready, Readies, Sets, CycleWrites
<1>8. /\ MayFollow(Worker, m, x) /\ MayFollow(Worker, m, y)
      /\ MayFollow(Worker, x, x) /\ MayFollow(Worker, x, y)
  BY <1>1, BoundAssumption DEF MayFollow, Sets, GoalWrites, CycleWrites
<1>9. InOrder(Worker, a, v)
  BY <1>6, <1>7, ShortScripts
<1> HIDE DEF a
<1>10. InOrder(Worker, a \o b, v)
  <2>1. \A j \in DOMAIN b : Means(Worker, b[j], v) /\ Readies(m, b[j]) /\ MayFollow(Worker, m, b[j])
    BY <1>5, <1>6, <1>7, <1>8
  <2>2. \A j \in DOMAIN b : \E i \in DOMAIN a : Readies(a[i], b[j])
    BY <1>4, <2>1
  <2>3. \A i \in DOMAIN a, j \in DOMAIN b : MayFollow(Worker, a[i], b[j])
    BY <1>4, <2>1
  <2>4. \A j \in DOMAIN b : \A i \in 1 .. (j - 1) : MayFollow(Worker, b[i], b[j])
    BY <1>5, <1>8
  <2> QED
    BY <1>4, <1>5, <1>9, <2>1, <2>2, <2>3, <2>4, Joins
<1>11. a \o b \in Seq(S)
  BY <1>4, <1>5
<1> QED
  BY <1>10, <1>11 DEF a, b, m, x, y

LEMMA DispatchScriptInOrder ==
  ASSUME NEW n, View.newest = n, View.phase = "dispatching", NEW s, NEW plan \in Plans,
         NEW gated \in BOOLEAN, gated <=> RequireApproval,
         RequireApproval /\ s \notin {"planning", "awaiting_plan_approval"} =>
            View.goal \notin Early
  PROVE  LET t == DispatchScript(n, s, plan, gated)
         IN /\ InOrder(Worker, t, View)
            /\ RequireApproval /\ s \in {"planning", "awaiting_plan_approval"} =>
                  \A k \in DOMAIN t : ~ Sets(t[k], "executing")
<1> DEFINE t == DispatchScript(n, s, plan, gated)
           h == SetHash(n, GraphHash, plan)
           x == MoveGoal("awaiting_plan_approval")
           y == On("plan_team", n)
           r == MoveGoal("running")
           m == MoveCycle(n, "executing")
           S == {m, On("create_task", n), On("staff_team", n)}
           e == <<m>> \o Act(n, plan)
           held == s \in {"planning", "awaiting_plan_approval"}
           carried == plan.planned = 0 \/ plan.granted > 0
           u == IF gated /\ held THEN When(s = "planning", <<x>>) \o <<y>>
                ELSE When(gated => plan.clear, When(held, <<r>>) \o When(carried, e))
<1>1. t = When(cycles[n].hash # GraphHash, <<h>> \o u)
  BY DEF DispatchScript, Execute
<1>2. /\ h.do = "set_hash" /\ x.do = "move_goal" /\ x.to = "awaiting_plan_approval"
      /\ y.do = "plan_team" /\ y.n = n /\ r.do = "move_goal" /\ r.to = "running"
      /\ m.do = "move_cycle" /\ m.to = "executing"
      /\ On("create_task", n).do = "create_task" /\ On("staff_team", n).do = "staff_team"
  BY DEF SetHash, MoveGoal, MoveCycle, On
<1>3. RequireApproval /\ ~ held => View.goal \notin Early
  OBVIOUS
<1>4. (RequireApproval => View.goal \notin Early) => e \in Seq(S) /\ InOrder(Worker, e, View)
  BY ActInOrder
<1> HIDE DEF View, t, h, x, y, r, m, e, u
<1>5. /\ u \in Seq({x, y, r} \cup S) /\ InOrder(Worker, u, View)
      /\ RequireApproval /\ held => u \in Seq({x, y})
  <2>1. CASE gated /\ held
    <3>1. u = When(s = "planning", <<x>>) \o <<y>>
      BY <2>1 DEF u
    <3>2. WorkerMeans(x, View) /\ WorkerMeans(y, View)
      BY <1>2, <2>1 DEF WorkerMeans, GoalWrites, CycleWrites, Sets
    <3>3. /\ Means(Worker, x, View) /\ Means(Worker, y, View) /\ Ready(x, View) /\ Ready(y, View)
          /\ MayFollow(Worker, x, y)
      BY <1>2, <3>2, MeansWhat, BoundAssumption
         DEF Ready, MayFollow, Sets, GoalWrites, CycleWrites
    <3>4. InOrder(Worker, <<x, y>>, View) /\ InOrder(Worker, <<y>>, View)
      BY <3>3, ShortScripts
    <3>5. u = <<x, y>> \/ u = <<y>>
      <4>1. CASE s = "planning"
        <5>1. u = <<x>> \o <<y>>
          BY <3>1, <4>1 DEF When
        <5> QED
          BY <5>1, Couple
      <4>2. CASE s # "planning"
        <5>1. u = <<>> \o <<y>>
          BY <3>1, <4>2 DEF When
        <5> QED
          BY <5>1, Single
      <4> QED
        BY <4>1, <4>2
    <3>6. /\ <<x, y>> \in Seq({x, y}) /\ <<y>> \in Seq({x, y})
          /\ <<x, y>> \in Seq({x, y, r} \cup S) /\ <<y>> \in Seq({x, y, r} \cup S)
      OBVIOUS
    <3> QED
      BY <3>4, <3>5, <3>6
  <2>2. CASE ~ (gated /\ held)
    <3> DEFINE z == When(carried, e)
    <3>0. RequireApproval => View.goal \notin Early
      BY <1>3, <2>2
    <3>1. z \in Seq(S) /\ InOrder(Worker, z, View)
      <4>1. <<>> \in Seq(S) /\ InOrder(Worker, <<>>, View)
        BY ShortScripts
      <4> QED
        BY <1>4, <3>0, <4>1 DEF When
    <3>2. u = <<>> \/ u = When(held, <<r>>) \o z
      BY <2>2 DEF u, When
    <3> HIDE DEF z
    <3>3. z \in Seq({x, y, r} \cup S) /\ <<>> \o z = z
      BY <3>1
    <3>4. CASE u = <<>>
      <4>1. <<>> \in Seq({x, y, r} \cup S) /\ InOrder(Worker, <<>>, View)
        BY ShortScripts
      <4> QED
        BY <2>2, <3>4, <4>1
    <3>5. CASE u = When(held, <<r>>) \o z /\ ~ held
      BY <2>2, <3>1, <3>3, <3>5 DEF When
    <3>6. CASE u = When(held, <<r>>) \o z /\ held
      <4>1. u = <<r>> \o z /\ ~ RequireApproval
        BY <2>2, <3>6 DEF When
      <4>2. WorkerMeans(r, View)
        BY <1>2, <4>1 DEF WorkerMeans, GoalWrites, CycleWrites, Sets
      <4>3. Means(Worker, r, View) /\ Ready(r, View)
        BY <1>2, <4>2, MeansWhat DEF Ready, Sets, CycleWrites
      <4>4. \A k \in S : MayFollow(Worker, r, k)
        BY <1>2, <4>1, BoundAssumption DEF MayFollow, Sets, GoalWrites, CycleWrites
      <4>5. \A k \in DOMAIN z : z[k] \in S
        BY <3>1
      <4>6. \A k \in DOMAIN z : MayFollow(Worker, r, z[k])
        BY <4>4, <4>5
      <4>7. r \in {x, y, r} \cup S
        OBVIOUS
      <4>8. InOrder(Worker, u, View)
        BY <3>1, <3>3, <4>1, <4>3, <4>6, <4>7, Prefixed
      <4>9. <<r>> \in Seq({x, y, r} \cup S)
        BY <4>7
      <4> QED
        BY <2>2, <3>3, <4>1, <4>8, <4>9
    <3> QED
      BY <3>2, <3>4, <3>5, <3>6
  <2> QED
    BY <2>1, <2>2
<1> DEFINE T == {h, x, y, r} \cup S
<1>6. InOrder(Worker, <<h>> \o u, View)
  <2>1. WorkerMeans(h, View)
    BY <1>2 DEF WorkerMeans, GoalWrites, CycleWrites, Sets
  <2>2. Means(Worker, h, View) /\ Ready(h, View)
    BY <1>2, <2>1, MeansWhat DEF Ready, Sets, CycleWrites
  <2>3. \A k \in {x, y, r} \cup S : MayFollow(Worker, h, k)
    BY <1>2, BoundAssumption DEF MayFollow, Sets, GoalWrites, CycleWrites
  <2>4. \A k \in DOMAIN u : MayFollow(Worker, h, u[k])
    <3>1. \A k \in DOMAIN u : u[k] \in {x, y, r} \cup S
      BY <1>5
    <3> QED
      BY <2>3, <3>1
  <2>5. u \in Seq(T) /\ h \in T
    BY <1>5
  <2> QED
    BY <1>5, <2>2, <2>4, <2>5, Prefixed
<1>7. ASSUME RequireApproval, held
      PROVE  \A k \in DOMAIN (<<h>> \o u) : ~ Sets((<<h>> \o u)[k], "executing")
  <2>1. \A k \in {h, x, y} : ~ Sets(k, "executing")
    BY <1>2 DEF Sets, CycleWrites
  <2>2. <<h>> \in Seq({h, x, y}) /\ u \in Seq({h, x, y})
    BY <1>5, <1>7
  <2>3. <<h>> \o u \in Seq({h, x, y})
    BY <2>2
  <2> HIDE DEF u
  <2>4. \A k \in DOMAIN (<<h>> \o u) : (<<h>> \o u)[k] \in {h, x, y}
    BY <2>3
  <2> QED
    BY <2>1, <2>4
<1>8. InOrder(Worker, <<>>, View)
  BY ShortScripts
<1>9. t = <<>> \/ t = <<h>> \o u
  BY <1>1 DEF When
<1>10. CASE t = <<>>
  BY <1>8, <1>10 DEF t
<1>11. CASE t = <<h>> \o u
  BY <1>6, <1>7, <1>11 DEF t
<1> QED
  BY <1>9, <1>10, <1>11

LEMMA WeighScriptInOrder ==
  ASSUME NEW n, View.newest = n, View.phase = "executing"
  PROVE  InOrder(Worker, WeighScript(n), View)
<1> DEFINE b == MoveGoalIf({"running"}, "blocked")
           x == MoveGoalIf({"running"}, "awaiting_review")
           y == On("review_team", n)
           z == MoveCycle(n, "reviewing")
<1>1. \/ WeighScript(n) = <<>> \/ WeighScript(n) = <<b>> \/ WeighScript(n) = <<x, y, z>>
  BY DEF WeighScript
<1>2. /\ b.do = "move_goal_if" /\ b.to = "blocked"
      /\ x.do = "move_goal_if" /\ x.to = "awaiting_review"
      /\ y.do = "review_team" /\ y.n = n
      /\ z.do = "move_cycle" /\ z.n = n /\ z.to = "reviewing"
  BY DEF MoveGoalIf, On, MoveCycle
<1> HIDE DEF View, b, x, y, z
<1>3. WorkerMeans(b, View) /\ WorkerMeans(x, View)
  BY <1>2 DEF WorkerMeans, GoalWrites, CycleWrites, Sets, Late
<1>4. WorkerMeans(y, View)
  BY <1>2 DEF WorkerMeans, GoalWrites, CycleWrites, Sets
<1>5. WorkerMeans(z, View)
  BY <1>2 DEF WorkerMeans, GoalWrites, CycleWrites, Sets, Onward
<1>6. /\ Means(Worker, b, View) /\ Means(Worker, x, View) /\ Means(Worker, y, View)
      /\ Means(Worker, z, View)
  BY <1>2, <1>3, <1>4, <1>5, MeansWhat
<1>7. Ready(b, View) /\ Ready(x, View) /\ Ready(y, View) /\ Readies(y, z)
  BY <1>2 DEF Ready, Readies, Sets, CycleWrites
<1>8. MayFollow(Worker, x, y) /\ MayFollow(Worker, x, z) /\ MayFollow(Worker, y, z)
  BY <1>2, BoundAssumption DEF MayFollow, Sets, GoalWrites, CycleWrites
<1>9. InOrder(Worker, <<>>, View) /\ InOrder(Worker, <<b>>, View) /\ InOrder(Worker, <<y, z>>, View)
  BY <1>6, <1>7, <1>8, ShortScripts
<1>10. InOrder(Worker, <<x, y, z>>, View)
  <2>1. \A k \in DOMAIN <<y, z>> : MayFollow(Worker, x, <<y, z>>[k])
    BY <1>8, Couple
  <2>2. <<y, z>> \in Seq({x, y, z})
    OBVIOUS
  <2>3. InOrder(Worker, <<x>> \o <<y, z>>, View)
    BY <1>6, <1>7, <1>9, <2>1, <2>2, Prefixed
  <2> QED
    BY <2>3, Triple
<1> QED
  BY <1>1, <1>9, <1>10

LEMMA ReviewScriptInOrder ==
  ASSUME NEW n, View.phase \in Late
  PROVE  InOrder(Worker, ReviewScript(n), View)
<1> DEFINE b == MoveGoalIf({"awaiting_review", "running"}, "blocked")
           x == MoveGoalIf({"running"}, "awaiting_review")
           y == [do |-> "verdict", accepted |-> TRUE]
<1>1. \/ ReviewScript(n) = <<b>> \/ ReviewScript(n) = <<x>> \/ ReviewScript(n) = <<x, y>>
  BY Single, Couple DEF ReviewScript, When
<1>2. /\ b.do = "move_goal_if" /\ b.to = "blocked"
      /\ x.do = "move_goal_if" /\ x.to = "awaiting_review"
      /\ y.do = "verdict" /\ y.accepted = TRUE
  BY DEF MoveGoalIf
<1> HIDE DEF View, b, x, y
<1>3. WorkerMeans(b, View) /\ WorkerMeans(x, View) /\ WorkerMeans(y, View)
  BY <1>2 DEF WorkerMeans, GoalWrites, CycleWrites, Sets
<1>4. Means(Worker, b, View) /\ Means(Worker, x, View) /\ Means(Worker, y, View)
  BY <1>2, <1>3, MeansWhat
<1>5. Ready(b, View) /\ Ready(x, View) /\ Ready(y, View) /\ MayFollow(Worker, x, y)
  BY <1>2, BoundAssumption DEF Ready, MayFollow, Sets, GoalWrites, CycleWrites
<1> QED
  BY <1>1, <1>4, <1>5, ShortScripts

LEMMA VerdictScriptInOrder ==
  ASSUME NEW c \in Callers, NEW n, NEW to, ViewOK(View), View.goal = "awaiting_review",
         to = "accepted" \/ (c = User /\ to = "rework_required")
  PROVE  InOrder(c, VerdictScript(n, to), View)
<1> DEFINE s1 == SetHash(n, GraphHash, cycles[n].plan)
           s2 == MoveCycle(n, "summarizing")
           s3 == MoveCycle(n, "completed")
           s4 == [do |-> "close_team", n |-> n, to |-> to]
           s5 == MoveGoal(to)
<1>1. VerdictScript(n, to) = <<s1, s2, s3, s4, s5>>
  BY DEF VerdictScript
<1>2. /\ s1.do = "set_hash"
      /\ s2.do = "move_cycle" /\ s2.n = n /\ s2.to = "summarizing"
      /\ s3.do = "move_cycle" /\ s3.n = n /\ s3.to = "completed"
      /\ s4.do = "close_team" /\ s4.n = n
      /\ s5.do = "move_goal" /\ s5.to = to
  BY DEF SetHash, MoveCycle, MoveGoal
<1>3. View.phase \in Late
  BY DEF ViewOK, Judged
<1> DEFINE t == <<s1, s2, s3, s4, s5>>
<1>4. /\ DOMAIN t = {1, 2, 3, 4, 5}
      /\ t[1] = s1 /\ t[2] = s2 /\ t[3] = s3 /\ t[4] = s4 /\ t[5] = s5
  OBVIOUS
<1> HIDE DEF View, s1, s2, s3, s4, s5, t
<1>5. c = Worker \/ c = User
  BY DEF Callers
<1>6. \A x \in {s1, s2, s3, s4, s5} : Means(c, x, View)
  <2>1. CASE c = Worker
    <3>1. to = "accepted"
      BY <2>1, BoundAssumption
    <3>2. \A x \in {s1, s2, s3, s4, s5} : WorkerMeans(x, View)
      BY <1>2, <1>3, <3>1 DEF WorkerMeans, GoalWrites, CycleWrites, Sets, Closing
    <3> QED
      BY <1>2, <2>1, <3>2, MeansWhat
  <2>2. CASE c = User
    <3>1. \A x \in {s1, s2, s3, s4, s5} : UserMeans(x, View)
      BY <1>2 DEF UserMeans, GoalWrites, CycleWrites, Judged, Closing
    <3> QED
      BY <1>2, <2>2, <3>1, MeansWhat
  <2> QED
    BY <1>5, <2>1, <2>2
<1>7. /\ Ready(s1, View) /\ Ready(s2, View) /\ Ready(s5, View)
      /\ Readies(s2, s3) /\ Readies(s3, s4)
  BY <1>2 DEF Ready, Readies, Sets, CycleWrites
<1>8. /\ \A x \in {s2, s3, s4, s5} : MayFollow(c, s1, x)
      /\ \A x \in {s3, s4, s5} : MayFollow(c, s2, x)
      /\ \A x \in {s4, s5} : MayFollow(c, s3, x)
      /\ MayFollow(c, s4, s5)
  BY <1>2 DEF MayFollow, Sets, GoalWrites, CycleWrites, Closing
<1>9. ASSUME NEW j \in DOMAIN t
      PROVE  /\ Means(c, t[j], View)
             /\ Ready(t[j], View) \/ \E i \in 1 .. (j - 1) : Readies(t[i], t[j])
             /\ \A i \in 1 .. (j - 1) : MayFollow(c, t[i], t[j])
  <2>1. CASE j = 1
    BY <1>4, <1>6, <1>7, <2>1
  <2>2. CASE j = 2
    BY <1>4, <1>6, <1>7, <1>8, <2>2
  <2>3. CASE j = 3
    <3>1. 1 .. (3 - 1) = {1, 2}
      OBVIOUS
    <3> QED
      BY <1>4, <1>6, <1>7, <1>8, <2>3, <3>1
  <2>4. CASE j = 4
    <3>1. 1 .. (4 - 1) = {1, 2, 3}
      OBVIOUS
    <3> QED
      BY <1>4, <1>6, <1>7, <1>8, <2>4, <3>1
  <2>5. CASE j = 5
    <3>1. 1 .. (5 - 1) = {1, 2, 3, 4}
      OBVIOUS
    <3> QED
      BY <1>4, <1>6, <1>7, <1>8, <2>5, <3>1
  <2> QED
    BY <1>4, <2>1, <2>2, <2>3, <2>4, <2>5
<1> QED
  BY <1>1, <1>9 DEF InOrder, t

----------------------------------------------------------------------------
(* The steps.                                                              *)

LEMMA HeadMeans ==
  ASSUME GoalInv, PhaseInv, NEW c \in Callers, script[c] # <<>>
  PROVE  /\ Means(c, This(c), View) /\ Ready(This(c), View)
         /\ This(c) \in Steps(Len(cycles)) /\ This(c) = Head(script[c])
         /\ script[c] \in Seq(Steps(Len(cycles)))
         /\ c = Worker \/ c = User
<1>1. script[c] \in Seq(Steps(Len(cycles)))
  BY DEF GoalInv
<1>2. 1 \in DOMAIN script[c] /\ This(c) = script[c][1] /\ This(c) = Head(script[c]) /\ 1 .. (1 - 1) = {}
      /\ This(c) \in Steps(Len(cycles))
  BY <1>1 DEF This
<1>3. InOrder(c, script[c], View)
  BY DEF PhaseInv
<1> QED
  BY <1>1, <1>2, <1>3 DEF InOrder, Callers

\* One caller's script goes on, the other's waits.
LEMMA ScriptTurns ==
  ASSUME GoalInv, PhaseInv, NEW c \in Callers, script[c] # <<>>, NEW T, NEW t \in Seq(T), Then(c, t),
         TablesInOrder', goal'.status = "draft" => goal.status = "draft",
         InOrder(c, t, View'),
         \A y : MayFollow(c, This(c), y) /\ Means(c, y, View) =>
                   /\ Means(c, y, View')
                   /\ Ready(y, View) => Ready(y, View')
                   /\ Readies(This(c), y) =>
                         Ready(y, View') \/ \E k \in DOMAIN t : Readies(t[k], y)
                   /\ \A k \in DOMAIN t : MayFollow(c, t[k], y),
         \A d \in Callers : d # c => InOrder(d, script[d], View')
  PROVE  PhaseInv'
<1> DEFINE S == Steps(Len(cycles)) \cup T
           s == script[c]
<1>1. s \in Seq(S) /\ t \in Seq(S) /\ This(c) = Head(s) /\ DOMAIN script = Callers
  <2>1. s \in Seq(Steps(Len(cycles)))
    BY DEF GoalInv
  <2> QED
    BY <2>1 DEF GoalInv, This
<1>2. InOrder(c, s, View)
  BY DEF PhaseInv
<1>3. script'[c] = t \o Tail(s) /\ \A d \in Callers : d # c => script'[d] = script[d]
  BY <1>1 DEF Then
<1>4. InOrder(c, t \o Tail(s), View')
  <2> DEFINE v == View
             w == View'
  <2> HIDE DEF S, v, w
  <2>1. /\ InOrder(c, s, v) /\ InOrder(c, t, w)
        /\ \A y : MayFollow(c, Head(s), y) /\ Means(c, y, v) =>
                   /\ Means(c, y, w)
                   /\ Ready(y, v) => Ready(y, w)
                   /\ Readies(Head(s), y) =>
                         Ready(y, w) \/ \E k \in DOMAIN t : Readies(t[k], y)
                   /\ \A k \in DOMAIN t : MayFollow(c, t[k], y)
    BY <1>1, <1>2 DEF v, w
  <2>2. InOrder(c, t \o Tail(s), w)
    BY <1>1, <2>1, GoesOn
  <2> QED
    BY <2>2 DEF w
<1>5. \A d \in Callers : InOrder(d, script'[d], View')
  BY <1>3, <1>4
<1>6. goal'.status = "draft" => script'[Worker] = <<>>
  <2>1. ASSUME goal'.status = "draft"
        PROVE  script'[Worker] = <<>>
    <3>1. goal.status = "draft" /\ script[Worker] = <<>>
      BY <2>1 DEF PhaseInv
    <3>2. Worker # c /\ Worker \in Callers
      BY <3>1 DEF Callers
    <3> QED
      BY <1>3, <3>1, <3>2
  <2> QED
    BY <2>1
<1> QED
  BY <1>5, <1>6 DEF PhaseInv

LEMMA OnlyScriptTurns ==
  ASSUME GoalInv, PhaseInv, NEW c \in Callers, script[c] # <<>>, NEW T, NEW t \in Seq(T), Then(c, t),
         TablesInOrder', View' = View, goal'.status = goal.status,
         InOrder(c, t, View),
         \A y : MayFollow(c, This(c), y) /\ Means(c, y, View) =>
                   /\ Readies(This(c), y) =>
                         Ready(y, View) \/ \E k \in DOMAIN t : Readies(t[k], y)
                   /\ \A k \in DOMAIN t : MayFollow(c, t[k], y)
  PROVE  PhaseInv'
<1>1. \A d \in Callers : InOrder(d, script[d], View')
  BY DEF PhaseInv
<1> HIDE DEF View
<1> QED
  BY <1>1, ScriptTurns

LEMMA ScriptEnds ==
  ASSUME GoalInv, PhaseInv, NEW c \in Callers, Fails(c),
         TablesInOrder', View' = View, goal'.status = goal.status
  PROVE  PhaseInv'
<1>1. DOMAIN script = Callers
  BY DEF GoalInv
<1>2. script'[c] = <<>> /\ \A d \in Callers : d # c => script'[d] = script[d]
  BY <1>1 DEF Fails
<1>3. Worker \in Callers
  BY DEF Callers
<1>4. \A d \in Callers : InOrder(d, script'[d], View')
  BY <1>2, ShortScripts DEF PhaseInv
<1>5. goal'.status = "draft" => script'[Worker] = <<>>
  BY <1>2, <1>3 DEF PhaseInv
<1> QED
  BY <1>4, <1>5 DEF PhaseInv

LEMMA TablesStay ==
  ASSUME PhaseInv, UNCHANGED <<cycles, tasks>>, goal'.status = goal.status
  PROVE  TablesInOrder' /\ View' = View
<1>1. View' = View
  BY DEF View
<1>2. TablesInOrder
  BY DEF PhaseInv
<1> QED
  BY <1>1, <1>2 DEF TablesInOrder

\* The newest cycle's row changes.
LEMMA NewestTurns ==
  ASSUME GoalInv, PhaseInv, UNCHANGED tasks, goal'.status = goal.status,
         NEW row \in CycleRows, Len(cycles) \in DOMAIN cycles,
         cycles' = [cycles EXCEPT ![Len(cycles)] = row]
  PROVE  /\ View'.goal = View.goal /\ View'.newest = View.newest
         /\ View'.phase = row.status /\ View'.team = row.team
         /\ ViewOK(View') /\ (View.phase \in Late => View'.phase \in Late) => TablesInOrder'
<1>1. cycles \in Seq(CycleRows) /\ Len(cycles) \in Nat /\ DOMAIN cycles = 1 .. Len(cycles)
  BY DEF GoalInv
<1>2. /\ Len(cycles') = Len(cycles) /\ DOMAIN cycles' = DOMAIN cycles
      /\ cycles'[Len(cycles)] = row /\ cycles' # <<>>
      /\ \A n \in DOMAIN cycles : n # Len(cycles) => cycles'[n] = cycles[n]
  BY <1>1
<1>3. /\ View'.goal = View.goal /\ View'.newest = View.newest
      /\ View'.phase = row.status /\ View'.team = row.team
  BY <1>2 DEF View
<1>4. ASSUME ViewOK(View'), View.phase \in Late => View'.phase \in Late
      PROVE  TablesInOrder'
  <2>1. \A n \in DOMAIN cycles' : n # Len(cycles') => cycles'[n].status = "completed"
    BY <1>2 DEF PhaseInv, TablesInOrder
  <2>2. \A t \in TaskIds :
           tasks'[t].cycle # 0 /\ tasks'[t].cycle = Len(cycles') => View'.phase \in Late
    BY <1>2, <1>4 DEF PhaseInv, TablesInOrder
  <2> QED
    BY <1>4, <2>1, <2>2 DEF TablesInOrder
<1> QED
  BY <1>3, <1>4

\* What the status table allows.
LEMMA GoalMovesWhat ==
  ASSUME NEW from \in GoalStatuses, NEW to \in GoalTargets[from]
  PROVE  /\ to = "planning" => from \in {"draft", "rework_required"}
         /\ from \in {"draft", "rework_required"} => to = "planning"
         /\ from = "planning" => to \in {"awaiting_plan_approval", "running"}
         /\ from \in Judged => to \in {"accepted", "rework_required", "archived"}
  BY DEF GoalStatuses, GoalTargets, Judged

\* Only the worker ticks.
LEMMA WorkersOwn ==
  ASSUME GoalInv, PhaseInv, NEW c \in Callers, script[c] # <<>>,
         This(c).do \in {"observe", "look", "create_cycle", "link_cycle", "move_goal_if",
                         "create_task", "queue_task", "accept_ready", "accept_task", "weigh",
                         "review", "plan_team", "staff_team", "review_team"}
  PROVE  c = Worker /\ WorkerMeans(This(c), View)
<1>1. c = Worker \/ (c = User /\ UserMeans(This(c), View))
  BY HeadMeans, MeansWhat
<1>2. c = Worker
  BY <1>1 DEF UserMeans, GoalWrites, CycleWrites
<1>3. Means(c, This(c), View)
  BY HeadMeans
<1> QED
  BY <1>2, <1>3, MeansWhat

LEMMA UsersOwn ==
  ASSUME GoalInv, PhaseInv, NEW c \in Callers, script[c] # <<>>,
         This(c).do \in {"resume_tasks", "resume_task"}
  PROVE  c = User /\ UserMeans(This(c), View)
<1>1. c = User \/ (c = Worker /\ WorkerMeans(This(c), View))
  BY HeadMeans, MeansWhat
<1>2. c = User
  BY <1>1 DEF WorkerMeans
<1>3. Means(c, This(c), View)
  BY HeadMeans
<1> QED
  BY <1>2, <1>3, MeansWhat

LEMMA ObserveInOrder ==
  ASSUME GoalInv, PhaseInv, NEW c \in Callers, Observe(c)
  PROVE  PhaseInv'
<1> DEFINE x == [do |-> "look", status |-> goal.status]
<1>1. script[c] # <<>> /\ This(c).do = "observe" /\ UNCHANGED <<goal, cycles, tasks>>
  BY DEF Observe, At, This
<1>2. PICK t : Then(c, t) /\ (t = <<>> \/ (t = <<x>> /\ goal.status # "draft"))
  BY DEF Observe, When
<1>3. c = Worker
  BY <1>1, WorkersOwn
<1>4. TablesInOrder' /\ View' = View /\ View.goal = goal.status
  BY <1>1, TablesStay, ViewRead
<1>5. x.do = "look" /\ x.status = goal.status
  OBVIOUS
<1> HIDE DEF x, View
<1>6. goal.status # "draft" => InOrder(c, <<x>>, View)
  <2>1. ASSUME goal.status # "draft"
        PROVE  WorkerMeans(x, View)
    BY <1>4, <1>5, <2>1 DEF WorkerMeans, GoalWrites, CycleWrites, Sets
  <2>2. WorkerMeans(x, View) => Means(Worker, x, View) /\ Ready(x, View)
    BY <1>5, MeansWhat DEF Ready, Sets, CycleWrites
  <2> QED
    BY <1>3, <2>1, <2>2, ShortScripts
<1>7. InOrder(c, t, View) /\ t \in Seq({x})
  <2>1. <<x>> \in Seq({x}) /\ <<>> \in Seq({x})
    OBVIOUS
  <2> QED
    BY <1>2, <1>6, <2>1, ShortScripts
<1>8. \A y : ~ MayFollow(c, This(c), y)
  BY <1>1 DEF MayFollow
<1> QED
  BY <1>1, <1>2, <1>4, <1>7, <1>8, OnlyScriptTurns

\* A goal that was sent back is planned again first.
LEMMA ReplanInOrder ==
  ASSUME NEW S, NEW t \in Seq(S), InOrder(Worker, t, View), NEW again \in BOOLEAN,
         \A k \in DOMAIN t : t[k].do \notin {"look", "link_cycle", "write_goal", "write_cycle"},
         again => \A k \in DOMAIN t : ~ (RequireApproval /\ Sets(t[k], "executing"))
  PROVE  /\ InOrder(Worker, When(again, <<MoveGoal("planning")>>) \o t, View)
         /\ When(again, <<MoveGoal("planning")>>) \o t \in Seq(S \cup {MoveGoal("planning")})
<1> DEFINE x == MoveGoal("planning")
<1>1. x.do = "move_goal" /\ x.to = "planning"
  BY DEF MoveGoal
<1> HIDE DEF x, View
<1>2. t \in Seq(S \cup {x}) /\ <<x>> \in Seq(S \cup {x}) /\ <<>> \o t = t
  OBVIOUS
<1>3. CASE ~ again
  BY <1>2, <1>3 DEF When, x
<1>4. CASE again
  <2>1. When(again, <<x>>) = <<x>>
    BY <1>4 DEF When
  <2>2. WorkerMeans(x, View)
    BY <1>1 DEF WorkerMeans, GoalWrites, CycleWrites, Sets
  <2>3. Means(Worker, x, View) /\ Ready(x, View)
    BY <1>1, <2>2, MeansWhat DEF Ready, Sets, CycleWrites
  <2>4. ASSUME NEW k \in DOMAIN t
        PROVE  MayFollow(Worker, x, t[k])
    <3>1. /\ t[k].do \notin {"look", "link_cycle", "write_goal", "write_cycle"}
          /\ ~ (RequireApproval /\ Sets(t[k], "executing"))
      BY <1>4
    <3> QED
      BY <1>1, <3>1, BoundAssumption DEF MayFollow, GoalWrites, CycleWrites
  <2>5. InOrder(Worker, <<x>> \o t, View)
    BY <1>2, <2>3, <2>4, Prefixed
  <2>6. <<x>> \o t \in Seq(S \cup {x})
    BY <1>2
  <2> QED
    BY <2>1, <2>5, <2>6 DEF x
<1> QED
  BY <1>3, <1>4

LEMMA LookInOrder ==
  ASSUME GoalInv, PhaseInv, NEW c \in Callers, Look(c)
  PROVE  PhaseInv'
<1> DEFINE z == This(c).status
           s == IF z = "rework_required" THEN "planning" ELSE z
           again == z = "rework_required"
           n == NewestOpen
           gated == RequireApproval /\ c = Worker
           P == Plain(Len(cycles))
<1>1. script[c] # <<>> /\ This(c).do = "look" /\ UNCHANGED <<goal, cycles, tasks>>
  BY DEF Look, At, This
<1>2. c = Worker /\ WorkerMeans(This(c), View)
  BY <1>1, WorkersOwn
<1>3. TablesInOrder' /\ View' = View /\ View.goal = goal.status /\ Len(cycles) \in Nat
  BY <1>1, TablesStay, ViewRead
<1>4. /\ z # "draft"
      /\ z \in Replanned => View.goal \in Replanned
      /\ z \notin Early /\ View.goal \in Early => View.phase \in Late
  BY <1>1, <1>2 DEF WorkerMeans
<1>5. gated \in BOOLEAN /\ (gated <=> RequireApproval) /\ again \in BOOLEAN
  BY <1>2, BoundAssumption
<1>6. PICK t : /\ Then(c, When(again, <<MoveGoal("planning")>>) \o t)
               /\ \/ n = 0 /\ t = When(s = "planning", <<[do |-> "create_cycle"]>>)
                  \/ n # 0 /\ cycles[n].status # "dispatching" /\ t = PhaseScript(n, s, gated)
                  \/ /\ n # 0 /\ cycles[n].status = "dispatching"
                     /\ \E reply \in Replies, agents \in Heartbeats :
                           t = DispatchScript(n, s, PlanFor(Report(n, agents), Budget, reply), gated)
  BY DEF Look
<1> SUFFICES t \in Seq(P) /\ InOrder(Worker, t, View)
             /\ (again => \A k \in DOMAIN t : ~ (RequireApproval /\ Sets(t[k], "executing")))
  <2>1. \A k \in DOMAIN t : t[k] \in P
    OBVIOUS
  <2>2. \A k \in DOMAIN t : t[k].do \notin {"look", "link_cycle", "write_goal", "write_cycle"}
    BY <1>3, <2>1, PlainIsNoWrite
  <2> DEFINE r == When(again, <<MoveGoal("planning")>>) \o t
  <2>3. InOrder(Worker, r, View) /\ r \in Seq(P \cup {MoveGoal("planning")})
    <3> HIDE DEF again, P, View
    <3> QED
      BY <1>5, <2>2, ReplanInOrder
  <2>4. \A y : ~ MayFollow(c, This(c), y)
    BY <1>1 DEF MayFollow
  <2> HIDE DEF P, again
  <2>5. Then(c, r)
    BY <1>6
  <2> HIDE DEF r
  <2> QED
    BY <1>1, <1>2, <1>3, <2>3, <2>4, <2>5, OnlyScriptTurns
<1>7. CASE n = 0
  <2> DEFINE x == [do |-> "create_cycle"]
  <2>1. t = When(s = "planning", <<x>>)
    BY <1>6, <1>7
  <2>2. View.phase \in {"none", "completed"}
    BY <1>7, NewestRead
  <2>3. x \in P /\ x.do = "create_cycle"
    BY <1>3, StepsMade
  <2> HIDE DEF x, View, P
  <2>4. s = "planning" => z \in Replanned
    BY DEF Replanned
  <2>5. s = "planning" => InOrder(Worker, <<x>>, View)
    <3>1. s = "planning" => WorkerMeans(x, View)
      BY <1>4, <2>2, <2>3, <2>4 DEF WorkerMeans, GoalWrites, CycleWrites, Sets
    <3>2. WorkerMeans(x, View) => Means(Worker, x, View) /\ Ready(x, View)
      BY <2>3, MeansWhat DEF Ready, Sets, CycleWrites
    <3> QED
      BY <3>1, <3>2, ShortScripts
  <2>6. <<x>> \in Seq(P) /\ DOMAIN <<x>> = {1} /\ <<x>>[1] = x /\ ~ Sets(x, "executing")
    BY <2>3, Single DEF Sets, CycleWrites
  <2>7. InOrder(Worker, <<>>, View) /\ <<>> \in Seq(P)
    BY ShortScripts
  <2>8. CASE s = "planning"
    <3>1. t = <<x>>
      BY <2>1, <2>8 DEF When
    <3> QED
      BY <2>5, <2>6, <2>8, <3>1
  <2>9. CASE s # "planning"
    <3>1. t = <<>>
      BY <2>1, <2>9 DEF When
    <3> QED
      BY <2>7, <3>1
  <2> QED
    BY <2>8, <2>9
<1>8. CASE n # 0 /\ cycles[n].status # "dispatching"
  <2>1. t = PhaseScript(n, s, gated)
    BY <1>6, <1>8
  <2>2. n \in OpenCycles /\ n \in 1 .. Len(cycles)
    BY <1>8, Observed DEF OpenCycles, GoalInv
  <2>3. PhaseScript(n, s, gated) \in Seq(P)
    BY <1>8, <2>2, ScriptsMade
  <2> HIDE DEF n, s, gated, View, P
  <2>4. /\ InOrder(Worker, PhaseScript(n, s, gated), View)
        /\ \A k \in DOMAIN PhaseScript(n, s, gated) :
               ~ Sets(PhaseScript(n, s, gated)[k], "executing")
    BY <1>5, <1>8, <2>2, PhaseScriptInOrder
  <2> QED
    BY <2>1, <2>3, <2>4
<1>9. CASE n # 0 /\ cycles[n].status = "dispatching"
  <2>1. PICK reply \in Replies, agents \in Heartbeats :
           t = DispatchScript(n, s, PlanFor(Report(n, agents), Budget, reply), gated)
    BY <1>6, <1>9
  <2> DEFINE plan == PlanFor(Report(n, agents), Budget, reply)
  <2>2. n \in 1 .. Len(cycles) /\ n \in Nat /\ n = Len(cycles) /\ View.phase = "dispatching"
        /\ View.newest = n
    <3>1. n = Len(cycles) /\ n \in DOMAIN cycles /\ View.phase = cycles[n].status
      BY <1>9, NewestRead
    <3> QED
      BY <1>9, <3>1, ViewRead DEF GoalInv
  <2>3. plan \in Plans /\ (n >= Budget.max_cycles => plan.granted = 0)
    <3> HIDE DEF n
    <3> QED
      BY <2>2, PlansMade
  <2>4. DispatchScript(n, s, plan, gated) \in Seq(P)
    <3> HIDE DEF n, s, gated, plan
    <3> QED
      BY <2>2, <2>3, ScriptsMade
  <2>5. RequireApproval /\ s \notin {"planning", "awaiting_plan_approval"} => View.goal \notin Early
    BY <1>4, <2>2 DEF Early, Late, Closing
  <2>6. again => s \in {"planning", "awaiting_plan_approval"}
    OBVIOUS
  <2>7. t = DispatchScript(n, s, plan, gated)
    BY <2>1
  <2> HIDE DEF n, s, gated, plan, View, P, again
  <2>8. /\ InOrder(Worker, t, View)
        /\ RequireApproval /\ s \in {"planning", "awaiting_plan_approval"} =>
              \A k \in DOMAIN t : ~ Sets(t[k], "executing")
    BY <1>5, <2>2, <2>3, <2>5, <2>7, DispatchScriptInOrder
  <2> QED
    BY <2>4, <2>6, <2>7, <2>8
<1> QED
  BY <1>7, <1>8, <1>9

LEMMA CreateCycleInOrder ==
  ASSUME GoalInv, PhaseInv, NEW c \in Callers, CreateCycle(c)
  PROVE  PhaseInv'
<1> DEFINE row == [ status |-> "observing", hash |-> NoHash, plan |-> NoPlan, team |-> "none" ]
           N == Len(cycles)
           x == On("link_cycle", N + 1)
           y == MoveCycle(N + 1, "orienting")
<1>1. /\ script[c] # <<>> /\ This(c).do = "create_cycle" /\ UNCHANGED <<goal, tasks>>
      /\ cycles' = Append(cycles, row) /\ Then(c, <<x, y>>)
  BY DEF CreateCycle, At, This
<1>2. c = Worker /\ Means(Worker, This(c), View)
  BY <1>1, WorkersOwn, HeadMeans
<1>3. /\ N \in Nat /\ Len(cycles') = N + 1 /\ DOMAIN cycles' = 1 .. (N + 1) /\ cycles' # <<>>
      /\ cycles'[N + 1] = row /\ \A n \in 1 .. N : cycles'[n] = cycles[n]
      /\ DOMAIN cycles = 1 .. N
  <2> DEFINE S == CycleRows \cup {row}
  <2>1. cycles \in Seq(CycleRows)
    BY DEF GoalInv
  <2>2. cycles \in Seq(S) /\ row \in S
    BY <2>1, SeqsGrow
  <2> HIDE DEF S, row
  <2> QED
    BY <1>1, <2>2
<1>4. /\ View'.goal = View.goal /\ View'.newest = N + 1 /\ View'.phase = "observing"
      /\ View'.team = "none"
  BY <1>1, <1>3 DEF View
<1>5. ViewOK(View)
  BY DEF PhaseInv, TablesInOrder
<1>6. /\ ViewOK(View') /\ View.phase \in {"none", "completed"}
      /\ \A u : Means(User, u, View) => Means(User, u, View') /\ (Ready(u, View) => Ready(u, View'))
  <2> DEFINE v == View
             w == View'
  <2>1. w.goal = v.goal /\ w.phase = "observing" /\ w.team = "none" /\ ViewOK(v)
        /\ Means(Worker, This(c), v)
    BY <1>2, <1>4, <1>5
  <2> HIDE DEF v, w
  <2>2. /\ ViewOK(w) /\ v.phase \in {"none", "completed"}
        /\ \A u : Means(User, u, v) => Means(User, u, w) /\ (Ready(u, v) => Ready(u, w))
    BY <1>1, <2>1, CycleIsCreated
  <2> QED
    BY <2>2 DEF v, w
<1>7. TablesInOrder'
  <2>1. \A n \in 1 .. N : cycles[n].status = "completed"
    <3>1. N # 0 => cycles # <<>>
      BY <1>3
    <3>2. N # 0 => cycles[N].status = "completed"
      BY <1>3, <1>6, <3>1, ViewRead
    <3> QED
      BY <1>3, <3>2 DEF PhaseInv, TablesInOrder
  <2>2. \A n \in DOMAIN cycles' : n # Len(cycles') => cycles'[n].status = "completed"
    BY <1>3, <2>1
  <2>3. \A t \in TaskIds : tasks'[t].cycle # Len(cycles')
    <3>1. \A t \in TaskIds : tasks[t].cycle \in 0 .. N
      BY DEF GoalInv, GoalTypeOK
    <3> QED
      BY <1>1, <1>3, <3>1
  <2> QED
    BY <1>6, <2>2, <2>3 DEF TablesInOrder
<1>8. /\ x.do = "link_cycle" /\ x.n = N + 1
      /\ y.do = "move_cycle" /\ y.n = N + 1 /\ y.to = "orienting"
  BY DEF On, MoveCycle
<1> DEFINE w == View'
<1>9. w.newest = N + 1 /\ w.phase = "observing"
  BY <1>4
<1> HIDE DEF x, y, View, w
<1>10. InOrder(Worker, <<x, y>>, w)
  <2>1. WorkerMeans(x, w) /\ WorkerMeans(y, w)
    BY <1>8, <1>9 DEF WorkerMeans, GoalWrites, CycleWrites, Sets, Onward
  <2>2. Means(Worker, x, w) /\ Means(Worker, y, w)
    BY <1>8, <2>1, MeansWhat
  <2>3. Ready(x, w) /\ Ready(y, w)
    BY <1>8 DEF Ready, Sets, CycleWrites
  <2>4. MayFollow(Worker, x, y)
    BY <1>8, BoundAssumption DEF MayFollow, Sets, GoalWrites, CycleWrites
  <2> QED
    BY <2>2, <2>3, <2>4, ShortScripts
<1>11. \A u : ~ MayFollow(c, This(c), u)
  BY <1>1 DEF MayFollow
<1>12. ASSUME NEW d \in Callers, d # c
       PROVE  InOrder(d, script[d], View')
  <2>1. d = User
    BY <1>2, <1>12 DEF Callers
  <2>2. InOrder(User, script[d], View)
    BY <2>1 DEF PhaseInv
  <2> DEFINE v == View
  <2>3. \A u : Means(User, u, v) => Means(User, u, w) /\ (Ready(u, v) => Ready(u, w))
    BY <1>6 DEF w
  <2> HIDE DEF v
  <2>4. InOrder(User, script[d], w)
    BY <2>2, <2>3, Stands DEF v
  <2> QED
    BY <2>1, <2>4 DEF w
<1>13. <<x, y>> \in Seq({x, y}) /\ InOrder(c, <<x, y>>, View')
  BY <1>2, <1>10 DEF w
<1>14. goal'.status = "draft" => goal.status = "draft"
  BY <1>1
<1> QED
  BY <1>1, <1>7, <1>11, <1>12, <1>13, <1>14, ScriptTurns

LEMMA LinkCycleInOrder ==
  ASSUME GoalInv, PhaseInv, NEW c \in Callers, LinkCycle(c)
  PROVE  PhaseInv'
<1>1. /\ script[c] # <<>> /\ This(c).do = "link_cycle" /\ UNCHANGED <<cycles, tasks>>
      /\ goal' = [goal EXCEPT !.current = This(c).n] /\ Then(c, <<>>)
  BY DEF LinkCycle, At, This
<1>2. goal'.status = goal.status
  BY <1>1 DEF GoalInv
<1>3. TablesInOrder' /\ View' = View
  BY <1>1, <1>2, TablesStay
<1>4. InOrder(c, <<>>, View) /\ <<>> \in Seq({}) /\ DOMAIN <<>> = {}
  BY ShortScripts
<1>5. \A y : ~ Readies(This(c), y)
  BY <1>1 DEF Readies, Sets, CycleWrites
<1> QED
  BY <1>1, <1>2, <1>3, <1>4, <1>5, OnlyScriptTurns

\* A check is passed, and the write it was for comes next.
LEMMA CheckGoalInOrder ==
  ASSUME GoalInv, PhaseInv, NEW c \in Callers, CheckGoal(c)
  PROVE  PhaseInv'
<1> DEFINE h == This(c)
           x == [do |-> "write_goal", to |-> h.to]
<1>1. script[c] # <<>> /\ h.do = "move_goal" /\ UNCHANGED <<goal, cycles, tasks>>
  BY DEF CheckGoal, At, This
<1>2. TablesInOrder' /\ View' = View /\ View.goal = goal.status
  BY <1>1, TablesStay, ViewRead
<1>3. CASE Fails(c)
  BY <1>1, <1>2, <1>3, ScriptEnds
<1>4. CASE h.to \in GoalTargets[goal.status] /\ Then(c, <<x>>)
  <2>1. Means(c, h, View) /\ (c = Worker \/ c = User)
    BY <1>1, HeadMeans
  <2>2. goal.status \in GoalStatuses
    BY DEF GoalInv
  <2>3. x.do = "write_goal" /\ x.to = h.to
    OBVIOUS
  <2>4. /\ h.to = "planning" => View.goal \in {"draft", "rework_required"}
        /\ View.goal \in {"draft", "rework_required"} => h.to = "planning"
        /\ View.goal = "planning" => h.to \in {"awaiting_plan_approval", "running"}
        /\ View.goal \in Judged => h.to \in {"accepted", "rework_required", "archived"}
    BY <1>2, <1>4, <2>2, GoalMovesWhat
  <2>5. c = Worker => View.goal # "draft"
    BY <1>1, <1>2 DEF PhaseInv
  <2> HIDE DEF x, h, View
  <2>6. Means(c, x, View)
    <3>1. CASE c = Worker
      <4>1. WorkerMeans(h, View)
        BY <2>1, <3>1, MeansWhat
      <4>2. WorkerMeans(x, View)
        BY <1>1, <2>3, <2>4, <2>5, <3>1, <4>1
           DEF WorkerMeans, GoalWrites, CycleWrites, Sets, Replanned, Judged
      <4> QED
        BY <2>3, <3>1, <4>2, MeansWhat
    <3>2. CASE c = User
      <4>1. UserMeans(h, View)
        BY <2>1, <3>2, MeansWhat
      <4>2. UserMeans(x, View)
        BY <1>1, <2>3, <2>4, <3>2, <4>1 DEF UserMeans, GoalWrites, CycleWrites, Replanned
      <4> QED
        BY <2>3, <3>2, <4>2, MeansWhat
    <3> QED
      BY <2>1, <3>1, <3>2
  <2>7. Ready(x, View)
    BY <2>3 DEF Ready, Sets, CycleWrites
  <2>8. InOrder(c, <<x>>, View)
    BY <2>6, <2>7, ShortScripts
  <2>9. ASSUME NEW y, MayFollow(c, h, y)
        PROVE  ~ Readies(h, y) /\ MayFollow(c, x, y)
    <3>1. ~ Readies(h, y)
      BY <1>1 DEF Readies, Sets, CycleWrites
    <3>2. MayFollow(c, x, y)
      BY <1>1, <2>3, <2>9 DEF MayFollow, GoalWrites, CycleWrites
    <3> QED
      BY <3>1, <3>2
  <2>10. <<x>> \in Seq({x}) /\ DOMAIN <<x>> = {1} /\ <<x>>[1] = x
    OBVIOUS
  <2> QED
    BY <1>1, <1>2, <1>4, <2>8, <2>9, <2>10, OnlyScriptTurns DEF h
<1> QED
  BY <1>3, <1>4 DEF CheckGoal

LEMMA WriteGoalInOrder ==
  ASSUME GoalInv, PhaseInv, NEW c \in Callers, WriteGoal(c)
  PROVE  PhaseInv'
<1> DEFINE h == This(c)
           v == View
           w == View'
<1>1. /\ script[c] # <<>> /\ h.do = "write_goal" /\ UNCHANGED <<cycles, tasks>>
      /\ goal' = [goal EXCEPT !.status = h.to] /\ Then(c, <<>>)
  BY DEF WriteGoal, At, This
<1>2. goal'.status = h.to
  BY <1>1 DEF GoalInv
<1>3. w.goal = h.to /\ w.newest = v.newest /\ w.phase = v.phase /\ w.team = v.team
  BY <1>1, <1>2 DEF View
<1>4. Means(c, h, v) /\ (c = Worker \/ c = User) /\ h \in Steps(Len(cycles)) /\ h.to \in GoalGoes
  <2>1. Len(cycles) \in Nat /\ h \in Steps(Len(cycles))
    BY <1>1, HeadMeans DEF GoalInv
  <2> QED
    BY <1>1, <2>1, HeadMeans, StepsRead
<1>5. ViewOK(v) /\ v.goal = goal.status /\ (c = Worker => goal.status # "draft")
  BY <1>1 DEF PhaseInv, TablesInOrder, View
<1>6. \A d \in Callers : InOrder(d, script[d], v)
  BY DEF PhaseInv
<1>7. /\ ViewOK(w) /\ w.goal # "draft"
      /\ \A y : MayFollow(c, h, y) /\ Means(c, y, v) => Means(c, y, w) /\ (Ready(y, v) => Ready(y, w))
      /\ \A d \in Callers : d # c => InOrder(d, script[d], w)
  <2> HIDE DEF h, v, w
  <2>1. CASE c = Worker
    <3>1. /\ ViewOK(w) /\ w.goal # "draft"
          /\ \A y : MayFollow(Worker, h, y) /\ Means(Worker, y, v) => Means(Worker, y, w)
          /\ \A y : Means(User, y, v) => Means(User, y, w)
          /\ \A y : Ready(y, v) => Ready(y, w)
      BY <1>1, <1>3, <1>4, <1>5, <2>1, WorkerWritesGoal
    <3>2. User \in Callers /\ InOrder(User, script[User], w)
      BY <1>6, <3>1, Stands DEF Callers
    <3> QED
      BY <2>1, <3>1, <3>2 DEF Callers
  <2>2. CASE c = User
    <3>1. /\ ViewOK(w) /\ w.goal # "draft"
          /\ \A y : MayFollow(User, h, y) /\ Means(User, y, v) => Means(User, y, w)
          /\ v.goal # "draft" => \A y : Means(Worker, y, v) => Means(Worker, y, w)
          /\ \A y : Ready(y, v) => Ready(y, w)
      BY <1>1, <1>3, <1>4, <1>5, <2>2, UserWritesGoal
    <3>2. Worker \in Callers /\ InOrder(Worker, script[Worker], w)
      <4>1. CASE v.goal = "draft"
        <5>1. script[Worker] = <<>>
          BY <1>5, <4>1 DEF PhaseInv
        <5> QED
          BY <5>1, ShortScripts DEF Callers
      <4>2. CASE v.goal # "draft"
        BY <1>6, <3>1, <4>2, Stands DEF Callers
      <4> QED
        BY <4>1, <4>2
    <3> QED
      BY <2>2, <3>1, <3>2 DEF Callers
  <2> QED
    BY <1>4, <2>1, <2>2
<1>8. TablesInOrder'
  <2>1. View'.phase = View.phase /\ UNCHANGED <<cycles, tasks>>
    BY <1>1, <1>3
  <2> HIDE DEF View
  <2> QED
    BY <1>7, <2>1 DEF TablesInOrder, PhaseInv
<1>9. \A y : ~ Readies(h, y)
  BY <1>1 DEF Readies, Sets, CycleWrites
<1>10. InOrder(c, <<>>, w) /\ <<>> \in Seq({}) /\ DOMAIN <<>> = {}
  BY ShortScripts
<1>11. goal'.status # "draft"
  BY <1>2, <1>3, <1>7
<1> HIDE DEF View
<1> QED
  BY <1>1, <1>7, <1>8, <1>9, <1>10, <1>11, ScriptTurns

LEMMA CheckGoalIfInOrder ==
  ASSUME GoalInv, PhaseInv, NEW c \in Callers, CheckGoalIf(c)
  PROVE  PhaseInv'
<1> DEFINE h == This(c)
           x == MoveGoal(h.to)
<1>1. script[c] # <<>> /\ h.do = "move_goal_if" /\ UNCHANGED <<goal, cycles, tasks>>
  BY DEF CheckGoalIf, At, This
<1>2. TablesInOrder' /\ View' = View
  BY <1>1, TablesStay
<1>3. PICK t : Then(c, t) /\ (t = <<>> \/ t = <<x>>)
  BY DEF CheckGoalIf, When
<1>4. c = Worker /\ WorkerMeans(h, View)
  BY <1>1, WorkersOwn
<1>5. x.do = "move_goal" /\ x.to = h.to
  BY DEF MoveGoal
<1> HIDE DEF x, h, View
<1>6. h.to \in {"awaiting_review", "blocked", "accepted"} /\ View.phase \in Late
  BY <1>1, <1>4 DEF WorkerMeans, GoalWrites
<1>7. InOrder(c, <<x>>, View)
  <2>1. WorkerMeans(x, View)
    BY <1>5, <1>6 DEF WorkerMeans, GoalWrites, CycleWrites, Sets
  <2>2. Means(Worker, x, View) /\ Ready(x, View)
    BY <1>5, <2>1, MeansWhat DEF Ready, Sets, CycleWrites
  <2> QED
    BY <1>4, <2>2, ShortScripts
<1>8. ASSUME NEW y, MayFollow(c, h, y)
      PROVE  ~ Readies(h, y) /\ MayFollow(c, x, y)
  <2>1. ~ Readies(h, y)
    BY <1>1 DEF Readies, Sets, CycleWrites
  <2>2. MayFollow(c, x, y)
    BY <1>1, <1>4, <1>5, <1>6, <1>8, BoundAssumption DEF MayFollow, GoalWrites, CycleWrites, Early
  <2> QED
    BY <2>1, <2>2
<1>9. /\ <<x>> \in Seq({x}) /\ DOMAIN <<x>> = {1} /\ <<x>>[1] = x
      /\ <<>> \in Seq({x}) /\ DOMAIN <<>> = {} /\ InOrder(c, <<>>, View)
  BY ShortScripts, Single
<1>10. t \in Seq({x}) /\ InOrder(c, t, View) /\ \A k \in DOMAIN t : t[k] = x
  BY <1>3, <1>7, <1>9
<1>11. goal'.status = goal.status
  BY <1>1
<1> QED
  BY <1>1, <1>2, <1>3, <1>8, <1>10, <1>11, OnlyScriptTurns DEF h

LEMMA CheckCycleInOrder ==
  ASSUME GoalInv, PhaseInv, NEW c \in Callers, CheckCycle(c)
  PROVE  PhaseInv'
<1> DEFINE h == This(c)
           x == [h EXCEPT !.do = "write_cycle"]
           N == Len(cycles)
<1>1. script[c] # <<>> /\ h.do = "move_cycle" /\ UNCHANGED <<goal, cycles, tasks>>
  BY DEF CheckCycle, At, This
<1>2. TablesInOrder' /\ View' = View /\ goal'.status = goal.status
  BY <1>1, TablesStay
<1>3. CASE Fails(c)
  BY <1>1, <1>2, <1>3, ScriptEnds
<1>4. CASE PhaseFollows(cycles[h.n].status, h.to) /\ Then(c, <<x>>)
  <2>1. Means(c, h, View) /\ (c = Worker \/ c = User) /\ Ready(h, View) /\ h \in Steps(N) /\ N \in Nat
    BY <1>1, HeadMeans DEF GoalInv
  <2>2. h.n \in 1 .. N /\ h.to \in CycleGoes
    BY <1>1, <2>1, StepsRead
  <2>3. x.do = "write_cycle" /\ x.to = h.to /\ x.n = h.n
    <3>1. h \in [do : {"move_cycle"}, n : 1 .. N, to : CycleGoes]
      BY <1>1, <2>1 DEF Steps, Plain, Front, TaskCalls
    <3> QED
      BY <3>1
  <2>4. h.n \in DOMAIN cycles
    BY <2>2 DEF GoalInv
  <2>5. /\ cycles[h.n].status \in {"completed"} \cup {Phases[i] : i \in DOMAIN Phases}
        /\ h.n # N => cycles[h.n].status = "completed"
        /\ h.n = N => View.phase = cycles[h.n].status
        /\ View.newest = N
    BY <2>4, ViewRead
  <2>6. /\ h.n = View.newest /\ View.phase # "completed"
        /\ \/ Onward(View.phase, h.to)
           \/ View.phase = "reviewing" /\ h.to = "summarizing"
           \/ h.to = "completed"
    <3>1. /\ cycles[h.n].status # "completed"
          /\ \/ Onward(cycles[h.n].status, h.to)
             \/ cycles[h.n].status = "reviewing" /\ h.to = "summarizing"
             \/ h.to = "completed"
      BY <1>4, <2>2, <2>5, PhasesLead
    <3> QED
      BY <2>5, <3>1
  <2> HIDE DEF x, h, View
  <2>7. h.to = "completed" => View.phase \in Closing
    BY <1>1, <2>1 DEF Ready, Sets, CycleWrites
  <2>8. h.to \in Closing => View.phase \in {"reviewing"} \cup Closing
    BY <2>6, <2>7 DEF Onward, Closing
  <2>9. Means(c, x, View)
    <3>1. CASE c = Worker
      <4>1. WorkerMeans(h, View)
        BY <2>1, <3>1, MeansWhat
      <4>2. WorkerMeans(x, View)
        BY <1>1, <2>3, <4>1 DEF WorkerMeans, GoalWrites, CycleWrites, Sets
      <4> QED
        BY <2>3, <2>6, <2>8, <3>1, <4>2, MeansWhat
    <3>2. CASE c = User
      <4>1. UserMeans(h, View)
        BY <2>1, <3>2, MeansWhat
      <4>2. UserMeans(x, View)
        BY <1>1, <2>3, <4>1 DEF UserMeans, GoalWrites, CycleWrites
      <4> QED
        BY <2>3, <2>6, <2>8, <3>2, <4>2, MeansWhat
    <3> QED
      BY <2>1, <3>1, <3>2
  <2>10. Ready(x, View)
    BY <1>1, <2>1, <2>3 DEF Ready, Sets, CycleWrites
  <2>11. InOrder(c, <<x>>, View)
    BY <2>9, <2>10, ShortScripts
  <2>12. ASSUME NEW y, MayFollow(c, h, y)
         PROVE  (Readies(h, y) => Readies(x, y)) /\ MayFollow(c, x, y)
    <3>1. Readies(h, y) => Readies(x, y)
      BY <1>1, <2>3 DEF Readies, Sets, CycleWrites
    <3>2. MayFollow(c, x, y)
      BY <1>1, <2>3, <2>12 DEF MayFollow, GoalWrites, CycleWrites
    <3> QED
      BY <3>1, <3>2
  <2>13. <<x>> \in Seq({x}) /\ DOMAIN <<x>> = {1} /\ <<x>>[1] = x
    BY Single
  <2> QED
    BY <1>1, <1>2, <1>4, <2>11, <2>12, <2>13, OnlyScriptTurns DEF h
<1> QED
  BY <1>3, <1>4 DEF CheckCycle

LEMMA WriteCycleInOrder ==
  ASSUME GoalInv, PhaseInv, NEW c \in Callers, WriteCycle(c)
  PROVE  PhaseInv'
<1> DEFINE h == This(c)
           v == View
           w == View'
           N == Len(cycles)
<1>1. /\ script[c] # <<>> /\ h.do = "write_cycle" /\ UNCHANGED <<goal, tasks>>
      /\ cycles' = [cycles EXCEPT ![h.n].status = h.to] /\ Then(c, <<>>)
  BY DEF WriteCycle, At, This
<1>2. Means(c, h, v) /\ Ready(h, v) /\ (c = Worker \/ c = User) /\ h \in Steps(N) /\ N \in Nat
  BY <1>1, HeadMeans DEF GoalInv
<1>3. h.n \in 1 .. N /\ h.to \in CycleGoes
  BY <1>1, <1>2, StepsRead
<1>4. ViewOK(v) /\ v.newest = N
  BY DEF PhaseInv, TablesInOrder, View
<1>5. h.n = v.newest
  <2> HIDE DEF h, v
  <2>1. CASE c = Worker
    <3>1. WorkerMeans(h, v)
      BY <1>2, <2>1, MeansWhat
    <3> QED
      BY <1>1, <1>2, <3>1, MeansWhat DEF WorkerMeans, Means, CycleWrites
  <2>2. CASE c = User
    <3>1. UserMeans(h, v)
      BY <1>2, <2>2, MeansWhat
    <3> QED
      BY <1>1, <1>2, <3>1, MeansWhat DEF UserMeans, Means, CycleWrites
  <2> QED
    BY <1>2, <2>1, <2>2
<1> DEFINE row == [cycles[N] EXCEPT !.status = h.to]
<1>6. /\ N \in DOMAIN cycles /\ cycles[N] \in CycleRows /\ v.phase = cycles[N].status
      /\ v.team = cycles[N].team
  <2>1. N \in DOMAIN cycles /\ cycles[N] \in CycleRows
    BY <1>3, <1>4, <1>5 DEF GoalInv
  <2> QED
    BY <2>1, ViewRead
<1>7. row \in CycleRows /\ row.status = h.to /\ row.team = cycles[N].team
  <2>1. h.to \in CycleStatuses
    BY <1>3 DEF CycleStatuses, CycleGoes, Phases, Ended
  <2> QED
    BY <1>6, <2>1 DEF CycleRows
<1>8. cycles' = [cycles EXCEPT ![N] = row]
  BY <1>1, <1>4, <1>5
<1>9. /\ w.goal = v.goal /\ w.newest = v.newest /\ w.phase = h.to /\ w.team = v.team
      /\ ViewOK(w) /\ (v.phase \in Late => w.phase \in Late) => TablesInOrder'
  <2> HIDE DEF row, View
  <2> QED
    BY <1>1, <1>6, <1>7, <1>8, NewestTurns
<1>10. \A d \in Callers : InOrder(d, script[d], v)
  BY DEF PhaseInv
<1>11. /\ ViewOK(w) /\ (v.phase \in Late => w.phase \in Late)
       /\ \A y : MayFollow(c, h, y) /\ Means(c, y, v) =>
             Means(c, y, w) /\ (Ready(y, v) \/ Readies(h, y) => Ready(y, w))
       /\ \A d \in Callers : d # c => InOrder(d, script[d], w)
  <2> HIDE DEF h, v, w
  <2>1. CASE c = Worker
    <3>1. /\ ViewOK(w) /\ (v.phase \in Late => w.phase \in Late)
          /\ \A y : MayFollow(Worker, h, y) /\ Means(Worker, y, v) =>
                Means(Worker, y, w) /\ (Ready(y, v) \/ Readies(h, y) => Ready(y, w))
          /\ \A y : Means(User, y, v) => Means(User, y, w) /\ (Ready(y, v) => Ready(y, w))
      BY <1>1, <1>2, <1>4, <1>9, <2>1, WorkerWritesCycle
    <3>2. User \in Callers /\ InOrder(User, script[User], w)
      BY <1>10, <3>1, Stands DEF Callers
    <3> QED
      BY <2>1, <3>1, <3>2 DEF Callers
  <2>2. CASE c = User
    <3>1. /\ ViewOK(w) /\ (v.phase \in Late => w.phase \in Late)
          /\ \A y : MayFollow(User, h, y) /\ Means(User, y, v) =>
                Means(User, y, w) /\ (Ready(y, v) \/ Readies(h, y) => Ready(y, w))
          /\ \A y : Means(Worker, y, v) => Means(Worker, y, w) /\ (Ready(y, v) => Ready(y, w))
      BY <1>1, <1>2, <1>4, <1>9, <2>2, UserWritesCycle
    <3>2. Worker \in Callers /\ InOrder(Worker, script[Worker], w)
      BY <1>10, <3>1, Stands DEF Callers
    <3> QED
      BY <2>2, <3>1, <3>2 DEF Callers
  <2> QED
    BY <1>2, <2>1, <2>2
<1>12. InOrder(c, <<>>, w) /\ <<>> \in Seq({}) /\ DOMAIN <<>> = {}
  BY ShortScripts
<1> HIDE DEF View, row
<1> QED
  BY <1>1, <1>9, <1>11, <1>12, ScriptTurns

\* A statement that changes neither what its caller sees nor where tasks are.
LEMMA HeadGoes ==
  ASSUME GoalInv, PhaseInv, NEW c \in Callers, script[c] # <<>>, Then(c, <<>>),
         TablesInOrder', View' = View, goal'.status = goal.status,
         This(c).do \notin CycleWrites \cup {"review_team", "move_team"}
  PROVE  PhaseInv'
<1>1. InOrder(c, <<>>, View) /\ <<>> \in Seq({}) /\ DOMAIN <<>> = {}
  BY ShortScripts
<1>2. \A y : ~ Readies(This(c), y)
  BY DEF Readies, Sets
<1> QED
  BY <1>1, <1>2, OnlyScriptTurns

\* A script whose statements may stand anywhere.
LEMMA AnyOrder ==
  ASSUME NEW S, NEW t \in Seq(S), NEW c, NEW v,
         \A k \in DOMAIN t : Means(c, t[k], v) /\ Ready(t[k], v),
         \A i, k \in DOMAIN t : MayFollow(c, t[i], t[k])
  PROVE  InOrder(c, t, v)
<1>1. \A k \in DOMAIN t : \A i \in 1 .. (k - 1) : i \in DOMAIN t
  OBVIOUS
<1> QED
  BY <1>1 DEF InOrder

LEMMA WriteHashInOrder ==
  ASSUME GoalInv, PhaseInv, NEW c \in Callers, WriteHash(c)
  PROVE  PhaseInv'
<1> DEFINE h == This(c)
           N == Len(cycles)
           row == [cycles[h.n] EXCEPT !.hash = h.hash, !.plan = h.plan]
<1>1. script[c] # <<>> /\ h.do = "set_hash" /\ UNCHANGED <<goal, tasks>> /\ Then(c, <<>>)
  BY DEF WriteHash, At, This
<1>2. N \in Nat /\ h \in Steps(N) /\ cycles \in Seq(CycleRows)
  BY <1>1, HeadMeans DEF GoalInv
<1>3. h.n \in 1 .. N /\ h.hash \in Hashes /\ h.plan \in Plans
  BY <1>1, <1>2, StepsRead
<1>4. cycles[h.n] \in CycleRows
  BY <1>2, <1>3
<1>5. cycles' = [cycles EXCEPT ![h.n] = row] /\ row.status = cycles[h.n].status
         /\ row.team = cycles[h.n].team
  BY <1>2, <1>3, <1>4 DEF WriteHash, CycleRows
<1> HIDE DEF row, h
<1>6. /\ Len(cycles') = N /\ DOMAIN cycles' = DOMAIN cycles /\ (cycles' = <<>> <=> cycles = <<>>)
      /\ \A m \in DOMAIN cycles : /\ cycles'[m].status = cycles[m].status
                                  /\ cycles'[m].team = cycles[m].team
  BY <1>2, <1>3, <1>5
<1>7. View' = View
  <2>1. cycles # <<>> => N \in DOMAIN cycles
    BY <1>2
  <2> QED
    BY <1>1, <1>6, <2>1 DEF View
<1>8. TablesInOrder'
  <2>1. TablesInOrder
    BY DEF PhaseInv
  <2> HIDE DEF View
  <2> QED
    BY <1>1, <1>6, <1>7, <2>1 DEF TablesInOrder
<1>9. h.do \notin CycleWrites \cup {"review_team", "move_team"}
  BY <1>1 DEF CycleWrites
<1> QED
  BY <1>1, <1>7, <1>8, <1>9, HeadGoes DEF h

LEMMA CreateTaskInOrder ==
  ASSUME GoalInv, PhaseInv, NEW c \in Callers, NEW t \in TaskIds, CreateTask(c, t)
  PROVE  PhaseInv'
<1> DEFINE h == This(c)
           x == OnTask("queue_task", t)
<1>1. /\ script[c] # <<>> /\ h.do = "create_task" /\ UNCHANGED <<goal, cycles>>
      /\ Then(c, <<x>>) /\ tasks' = [tasks EXCEPT ![t] = [status |-> "proposed", cycle |-> h.n]]
  BY DEF CreateTask, At, This
<1>2. c = Worker /\ Ready(h, View)
  BY <1>1, WorkersOwn, HeadMeans
<1>3. x.do = "queue_task" /\ <<x>> \in Seq({x}) /\ DOMAIN <<x>> = {1} /\ <<x>>[1] = x
  BY Single DEF OnTask
<1>4. View' = View /\ TablesInOrder /\ View.phase \in Late
  <2>1. View' = View
    BY <1>1 DEF View
  <2> HIDE DEF View, h
  <2> QED
    BY <1>1, <1>2, <2>1 DEF PhaseInv, Ready, Late
<1> HIDE DEF View, h, x
<1>5. TablesInOrder'
  <2>1. \A u \in TaskIds : u # t => tasks'[u] = tasks[u]
    BY <1>1
  <2>2. ASSUME NEW u \in TaskIds, tasks'[u].cycle # 0, tasks'[u].cycle = Len(cycles')
        PROVE  View'.phase \in Late
    BY <1>4
  <2> QED
    BY <1>1, <1>4, <2>2 DEF TablesInOrder
<1>6. InOrder(c, <<x>>, View)
  <2>1. WorkerMeans(x, View)
    BY <1>3 DEF WorkerMeans, GoalWrites, CycleWrites, Sets
  <2>2. Means(Worker, x, View) /\ Ready(x, View)
    BY <1>3, <2>1, MeansWhat DEF Ready, Sets, CycleWrites
  <2> QED
    BY <1>2, <2>2, ShortScripts
<1>7. ASSUME NEW y, MayFollow(c, h, y)
      PROVE  ~ Readies(h, y) /\ MayFollow(c, x, y)
  <2>1. ~ Readies(h, y)
    BY <1>1 DEF Readies, Sets, CycleWrites
  <2>2. MayFollow(c, x, y)
    BY <1>1, <1>2, <1>3, <1>7, BoundAssumption DEF MayFollow, GoalWrites, CycleWrites
  <2> QED
    BY <2>1, <2>2
<1> QED
  BY <1>1, <1>3, <1>4, <1>5, <1>6, <1>7, OnlyScriptTurns DEF h

LEMMA CallTaskInOrder ==
  ASSUME GoalInv, PhaseInv, NEW c \in Callers, CallTask(c)
  PROVE  PhaseInv'
<1> DEFINE h == This(c)
<1>1. PICK do \in DOMAIN TaskCalls :
         /\ At(c, do)
         /\ \/ /\ tasks' = [tasks EXCEPT ![h.task].status = TaskCalls[do]]
               /\ Then(c, <<>>)
            \/ (Then(c, <<>>) \/ Fails(c)) /\ UNCHANGED tasks
         /\ UNCHANGED <<goal, cycles>>
  BY DEF CallTask
<1>2. script[c] # <<>> /\ h.do = do
  BY <1>1 DEF At, This
<1>3. h.do \notin CycleWrites \cup {"review_team", "move_team"}
  BY <1>2 DEF TaskCalls, CycleWrites
<1>4. View' = View /\ goal'.status = goal.status
  BY <1>1 DEF View
<1>5. TablesInOrder'
  <2>1. \A u \in TaskIds : tasks'[u].cycle = tasks[u].cycle
    <3>1. tasks \in [TaskIds -> TaskRows]
      BY DEF GoalInv
    <3>2. \A u \in TaskIds : DOMAIN tasks[u] = {"status", "cycle"}
      BY <3>1 DEF TaskRows
    <3> QED
      BY <1>1, <3>1, <3>2 DEF TaskRows
  <2>2. TablesInOrder
    BY DEF PhaseInv
  <2> HIDE DEF View, h
  <2> QED
    BY <1>1, <1>4, <2>1, <2>2 DEF TablesInOrder
<1> HIDE DEF View
<1>6. CASE Then(c, <<>>)
  BY <1>2, <1>3, <1>4, <1>5, <1>6, HeadGoes
<1>7. CASE Fails(c)
  BY <1>4, <1>5, <1>7, ScriptEnds
<1> QED
  BY <1>1, <1>6, <1>7

\* One call per listed task.
LEMMA CallsInOrder ==
  ASSUME GoalInv, PhaseInv, NEW c \in Callers, script[c] # <<>>, UNCHANGED <<goal, cycles, tasks>>,
         This(c).do \in {"accept_ready", "resume_tasks"},
         NEW do, (c = Worker /\ do = "accept_task") \/ (c = User /\ do = "resume_task"),
         NEW st, st # "absent", NEW q \in Orders({t \in CycleTasks(This(c).n) : tasks[t].status = st}),
         Then(c, [i \in DOMAIN q |-> OnTask(do, q[i])])
  PROVE  PhaseInv'
<1> DEFINE h == This(c)
           S == {t \in CycleTasks(h.n) : tasks[t].status = st}
           C == {OnTask(do, t) : t \in S}
           r == [i \in DOMAIN q |-> OnTask(do, q[i])]
<1>1. IsFiniteSet(S)
  <2>1. S \subseteq {t \in TaskIds : tasks[t].status # "absent"}
    BY DEF CycleTasks
  <2> QED
    BY <2>1, FS_Subset DEF GoalInv
<1>2. Cardinality(S) \in Nat /\ q \in [1 .. Cardinality(S) -> S]
  BY <1>1, FS_CardinalityType DEF Orders
<1>3. r \in Seq(C) /\ \A k \in DOMAIN r : r[k].do = do
  <2>1. \A i \in DOMAIN q : OnTask(do, q[i]) \in C /\ OnTask(do, q[i]).do = do
    BY <1>2 DEF OnTask
  <2> HIDE DEF C, S
  <2> QED
    BY <1>2, <2>1
<1>4. TablesInOrder' /\ View' = View
  BY TablesStay
<1> HIDE DEF View, h, r, C, S
<1>5. ASSUME NEW x, x.do = do
      PROVE  Means(c, x, View) /\ Ready(x, View)
  <2>1. c = Worker => WorkerMeans(x, View)
    BY <1>5, BoundAssumption DEF WorkerMeans, GoalWrites, CycleWrites, Sets
  <2>2. c = User => UserMeans(x, View)
    BY <1>5, BoundAssumption DEF UserMeans, GoalWrites, CycleWrites
  <2> QED
    BY <1>5, <2>1, <2>2, MeansWhat DEF Ready, Sets, CycleWrites
<1>6. ASSUME NEW x, NEW y, x.do = do, y.do = do
      PROVE  MayFollow(c, x, y)
  BY <1>6, BoundAssumption DEF MayFollow, GoalWrites, CycleWrites, Sets
<1>7. InOrder(c, r, View)
  BY <1>3, <1>5, <1>6, AnyOrder
<1>8. ASSUME NEW y, MayFollow(c, h, y)
      PROVE  ~ Readies(h, y) /\ \A x : x.do = do => MayFollow(c, x, y)
  <2>1. ~ Readies(h, y)
    BY DEF Readies, Sets, CycleWrites, h
  <2>2. ASSUME NEW x, x.do = do
        PROVE  MayFollow(c, x, y)
    BY <1>8, <2>2, BoundAssumption DEF MayFollow, GoalWrites, CycleWrites, Sets, h
  <2> QED
    BY <2>1, <2>2
<1>9. Then(c, r)
  BY DEF r
<1> QED
  BY <1>3, <1>4, <1>7, <1>8, <1>9, OnlyScriptTurns DEF h

LEMMA ListTasksInOrder ==
  ASSUME GoalInv, PhaseInv, NEW c \in Callers, ListTasks(c)
  PROVE  PhaseInv'
<1> DEFINE h == This(c)
           N == Len(cycles)
<1>1. script[c] # <<>> /\ UNCHANGED <<goal, cycles, tasks>>
  BY DEF ListTasks, At
<1>2. TablesInOrder' /\ View' = View /\ goal'.status = goal.status
  BY <1>1, TablesStay
<1>3. CASE /\ h.do = "accept_ready"
           /\ \E q \in Orders({t \in CycleTasks(h.n) : tasks[t].status = "review_ready"}) :
                 Then(c, [i \in DOMAIN q |-> OnTask("accept_task", q[i])])
  <2>1. c = Worker
    BY <1>1, <1>3, WorkersOwn
  <2> QED
    BY <1>1, <1>3, <2>1, CallsInOrder
<1>4. CASE /\ h.do = "resume_tasks"
           /\ \E q \in Orders({t \in CycleTasks(h.n) : tasks[t].status = "blocked"}) :
                 Then(c, [i \in DOMAIN q |-> OnTask("resume_task", q[i])])
  <2>1. c = User
    BY <1>1, <1>4, UsersOwn
  <2> QED
    BY <1>1, <1>4, <2>1, CallsInOrder
<1>5. CASE \/ h.do = "weigh" /\ Then(c, WeighScript(h.n))
           \/ h.do = "review" /\ Then(c, ReviewScript(h.n))
  <2>1. c = Worker /\ WorkerMeans(h, View)
    BY <1>1, <1>5, WorkersOwn
  <2>2. h.n \in 1 .. N
    <3>1. N \in Nat /\ h \in Steps(N)
      BY <1>1, HeadMeans DEF GoalInv
    <3> QED
      BY <1>5, <3>1, StepsRead
  <2>3. \A y : ~ MayFollow(c, h, y)
    BY <1>5 DEF MayFollow
  <2>4. WeighScript(h.n) \in Seq(Plain(N)) /\ ReviewScript(h.n) \in Seq(Plain(N))
    BY <2>2, ScriptsMade
  <2> HIDE DEF View, h
  <2>5. CASE h.do = "weigh" /\ Then(c, WeighScript(h.n))
    <3>1. h.n = View.newest /\ View.phase = "executing"
      BY <2>1, <2>5 DEF WorkerMeans
    <3>2. InOrder(c, WeighScript(h.n), View)
      BY <2>1, <3>1, WeighScriptInOrder
    <3> QED
      BY <1>1, <1>2, <2>3, <2>4, <2>5, <3>2, OnlyScriptTurns DEF h
  <2>6. CASE h.do = "review" /\ Then(c, ReviewScript(h.n))
    <3>1. View.phase \in Late
      BY <2>1, <2>6 DEF WorkerMeans
    <3>2. InOrder(c, ReviewScript(h.n), View)
      BY <2>1, <3>1, ReviewScriptInOrder
    <3> QED
      BY <1>1, <1>2, <2>3, <2>4, <2>6, <3>2, OnlyScriptTurns DEF h
  <2> QED
    BY <1>5, <2>5, <2>6
<1> QED
  BY <1>3, <1>4, <1>5 DEF ListTasks, At, This

\* The newest cycle's team changes.
LEMMA TeamTurns ==
  ASSUME GoalInv, PhaseInv, NEW c \in Callers, UNCHANGED <<goal, tasks>>, This(c).n = View.newest,
         This(c).n \in 1 .. Len(cycles), NEW team \in DOMAIN TeamTargets,
         cycles' = [cycles EXCEPT ![This(c).n].team = team]
  PROVE  /\ View'.goal = View.goal /\ View'.newest = View.newest
         /\ View'.phase = View.phase /\ View'.team = team
         /\ ViewOK(View') => TablesInOrder'
<1> DEFINE N == Len(cycles)
           row == [cycles[N] EXCEPT !.team = team]
<1>1. This(c).n = N /\ N \in DOMAIN cycles /\ cycles[N] \in CycleRows /\ View.phase = cycles[N].status
  <2>1. View.newest = N
    BY ViewRead
  <2>2. N \in DOMAIN cycles
    BY <2>1 DEF GoalInv
  <2> QED
    BY <2>1, <2>2, ViewRead DEF GoalInv
<1>2. row \in CycleRows /\ row.team = team /\ row.status = cycles[N].status
  BY <1>1 DEF CycleRows
<1>3. cycles' = [cycles EXCEPT ![N] = row]
  BY <1>1
<1> HIDE DEF row, View
<1> QED
  BY <1>1, <1>2, <1>3, NewestTurns

LEMMA StaffTeamInOrder ==
  ASSUME GoalInv, PhaseInv, NEW c \in Callers, StaffTeam(c)
  PROVE  PhaseInv'
<1> DEFINE h == This(c)
           N == Len(cycles)
           v == View
           w == View'
           team == cycles[h.n].team
           moves == IF h.do = "plan_team" THEN Staffing(team, "awaiting_plan_approval")
                    ELSE IF team = "awaiting_plan_approval" THEN <<"executing">>
                    ELSE Staffing(team, "executing")
           T == {"planning", "awaiting_plan_approval", "executing"}
           C == {MoveTeam(h.n, to) : to \in T}
           r == [i \in DOMAIN moves |-> MoveTeam(h.n, moves[i])]
<1>1. /\ script[c] # <<>> /\ h.do \in {"plan_team", "staff_team"} /\ UNCHANGED <<goal, tasks>>
      /\ Then(c, r) /\ cycles' = [cycles EXCEPT ![h.n].team = IF team = "none" THEN "draft" ELSE team]
  BY DEF StaffTeam, At, This
<1>2. c = Worker /\ WorkerMeans(h, v)
  BY <1>1, WorkersOwn
<1>3. h.n \in 1 .. N /\ h.n = v.newest /\ v.phase \in {"dispatching", "executing"}
  <2>1. N \in Nat /\ h \in Steps(N)
    BY <1>1, HeadMeans DEF GoalInv
  <2>2. h.n \in 1 .. N
    BY <1>1, <2>1, StepsRead
  <2> HIDE DEF h, v
  <2> QED
    BY <1>1, <1>2, <2>2 DEF WorkerMeans
<1>4. (IF team = "none" THEN "draft" ELSE team) \in DOMAIN TeamTargets
  <2>1. cycles[h.n] \in CycleRows
    BY <1>3 DEF GoalInv
  <2> QED
    BY <2>1 DEF CycleRows, TeamTargets
<1>5. /\ w.goal = v.goal /\ w.newest = v.newest /\ w.phase = v.phase
      /\ ViewOK(w) => TablesInOrder'
  <2> HIDE DEF View
  <2> QED
    BY <1>1, <1>3, <1>4, TeamTurns
<1>6. moves \in Seq(T)
  <2>1. /\ \A last \in T : <<"planning", last>> \in Seq(T) /\ <<last>> \in Seq(T)
        /\ <<>> \in Seq(T) /\ {"awaiting_plan_approval", "executing"} \subseteq T
    OBVIOUS
  <2>2. \A last \in T : Staffing(team, last) \in Seq(T)
    BY <2>1 DEF Staffing
  <2> QED
    BY <2>1, <2>2
<1>7. \A x \in C : x.do = "move_team" /\ x.n = h.n /\ x.to \in T
  BY DEF MoveTeam
<1>8. r \in Seq(C)
  <2>1. \A to \in T : MoveTeam(h.n, to) \in C
    OBVIOUS
  <2> HIDE DEF C, moves, T
  <2> QED
    BY <1>6, <2>1
<1>9. ViewOK(v) /\ Means(Worker, h, v) /\ InOrder(User, script[User], v) /\ User # Worker
  <2>1. User \in Callers
    BY DEF Callers
  <2> QED
    BY <1>1, <1>2, <2>1, HeadMeans, BoundAssumption DEF PhaseInv, TablesInOrder
<1> HIDE DEF h, v, w, C, r, moves, team
<1>10. /\ ViewOK(w)
       /\ \A y : Means(Worker, y, v) => Means(Worker, y, w)
       /\ \A y : MayFollow(Worker, h, y) /\ (Ready(y, v) \/ Readies(h, y)) => Ready(y, w)
       /\ \A y : Means(User, y, v) => Means(User, y, w) /\ (Ready(y, v) => Ready(y, w))
  BY <1>1, <1>5, <1>9, WorkerMovesTeam
<1>11. ASSUME NEW x \in C
       PROVE  Means(Worker, x, w) /\ Ready(x, w)
  <2>1. x.do = "move_team" /\ x.n = w.newest /\ x.to # "awaiting_review"
    BY <1>3, <1>5, <1>7
  <2>2. WorkerMeans(x, w)
    BY <1>3, <1>5, <2>1 DEF WorkerMeans, GoalWrites, CycleWrites, Sets
  <2> QED
    BY <2>1, <2>2, MeansWhat DEF Ready, Sets, CycleWrites
<1>12. ASSUME NEW x \in C, NEW y \in C
       PROVE  MayFollow(Worker, x, y)
  BY <1>7, <1>9 DEF MayFollow, GoalWrites, CycleWrites, Sets
<1>13. InOrder(c, r, w)
  <2>1. \A k \in DOMAIN r : r[k] \in C
    BY <1>8
  <2> QED
    BY <1>2, <1>8, <1>11, <1>12, <2>1, AnyOrder
<1>14. \A y : ~ MayFollow(c, h, y)
  BY <1>1 DEF MayFollow
<1>15. \A d \in Callers : d # c => InOrder(d, script[d], w)
  <2>1. InOrder(User, script[User], w)
    BY <1>9, <1>10, Stands
  <2> QED
    BY <1>2, <2>1 DEF Callers
<1> QED
  BY <1>1, <1>5, <1>8, <1>10, <1>13, <1>14, <1>15, ScriptTurns DEF h, w

LEMMA WriteTeamInOrder ==
  ASSUME GoalInv, PhaseInv, NEW c \in Callers, WriteTeam(c)
  PROVE  PhaseInv'
<1> DEFINE h == This(c)
           N == Len(cycles)
           v == View
           w == View'
<1>1. script[c] # <<>> /\ h.do = "move_team" /\ UNCHANGED <<goal, tasks>>
  BY DEF WriteTeam, At, This
<1>2. CASE Fails(c) /\ UNCHANGED cycles
  <2>1. TablesInOrder' /\ View' = View
    BY <1>1, <1>2, TablesStay
  <2> QED
    BY <1>1, <1>2, <2>1, ScriptEnds
<1>3. CASE cycles' = [cycles EXCEPT ![h.n].team = h.to] /\ Then(c, <<>>)
  <2>1. Means(c, h, v) /\ (c = Worker \/ c = User) /\ N \in Nat /\ h \in Steps(N)
    BY <1>1, HeadMeans DEF GoalInv
  <2>2. h.n \in 1 .. N /\ h.to \in DOMAIN TeamTargets
    <3>1. h.n \in 1 .. N /\ h.to \in TeamGoes
      BY <1>1, <2>1, StepsRead
    <3> QED
      BY <3>1 DEF TeamGoes, TeamTargets
  <2>3. h.n = v.newest
    <3> HIDE DEF h, v
    <3>1. CASE c = Worker
      BY <1>1, <2>1, <3>1, MeansWhat DEF WorkerMeans
    <3>2. CASE c = User
      BY <1>1, <2>1, <3>2, MeansWhat DEF UserMeans
    <3> QED
      BY <2>1, <3>1, <3>2
  <2>4. /\ w.goal = v.goal /\ w.newest = v.newest /\ w.phase = v.phase /\ w.team = h.to
        /\ ViewOK(w) => TablesInOrder'
    <3> HIDE DEF View
    <3> QED
      BY <1>1, <1>3, <2>2, <2>3, TeamTurns
  <2>5. ViewOK(v) /\ \A d \in Callers : InOrder(d, script[d], v)
    BY DEF PhaseInv, TablesInOrder
  <2>6. /\ ViewOK(w)
        /\ \A y : MayFollow(c, h, y) /\ Means(c, y, v) =>
              Means(c, y, w) /\ (Ready(y, v) \/ Readies(h, y) => Ready(y, w))
        /\ \A d \in Callers : d # c => InOrder(d, script[d], w)
    <3> HIDE DEF h, v, w
    <3>1. CASE c = Worker
      <4>1. /\ ViewOK(w)
            /\ \A y : Means(Worker, y, v) => Means(Worker, y, w)
            /\ \A y : MayFollow(Worker, h, y) /\ (Ready(y, v) \/ Readies(h, y)) => Ready(y, w)
            /\ \A y : Means(User, y, v) => Means(User, y, w) /\ (Ready(y, v) => Ready(y, w))
        BY <1>1, <2>1, <2>4, <2>5, <3>1, WorkerMovesTeam
      <4>2. InOrder(User, script[User], w)
        BY <2>5, <4>1, Stands DEF Callers
      <4> QED
        BY <3>1, <4>1, <4>2 DEF Callers
    <3>2. CASE c = User
      <4>1. /\ ViewOK(w)
            /\ \A y : Means(Worker, y, v) => Means(Worker, y, w) /\ (Ready(y, v) => Ready(y, w))
        BY <1>1, <2>1, <2>4, <2>5, <3>2, UserMovesTeam
      <4>2. InOrder(Worker, script[Worker], w)
        BY <2>5, <4>1, Stands DEF Callers
      <4>3. \A y : ~ MayFollow(c, h, y)
        BY <1>1, <3>2 DEF MayFollow
      <4> QED
        BY <3>2, <4>1, <4>2, <4>3 DEF Callers
    <3> QED
      BY <2>1, <3>1, <3>2
  <2>7. InOrder(c, <<>>, w) /\ <<>> \in Seq({}) /\ DOMAIN <<>> = {}
    BY ShortScripts
  <2> HIDE DEF View
  <2> QED
    BY <1>1, <1>3, <2>4, <2>6, <2>7, ScriptTurns
<1> QED
  BY <1>2, <1>3 DEF WriteTeam

LEMMA SyncTeamInOrder ==
  ASSUME GoalInv, PhaseInv, NEW c \in Callers, SyncTeam(c)
  PROVE  PhaseInv'
<1> DEFINE h == This(c)
           x == MoveTeam(h.n, "awaiting_review")
           N == Len(cycles)
<1>1. script[c] # <<>> /\ h.do = "review_team" /\ UNCHANGED <<goal, cycles, tasks>>
  BY DEF SyncTeam, At, This
<1>2. TablesInOrder' /\ View' = View /\ goal'.status = goal.status
  BY <1>1, TablesStay
<1>3. c = Worker /\ WorkerMeans(h, View)
  BY <1>1, WorkersOwn
<1>4. h.n = View.newest /\ View.phase = "executing" /\ View.team = cycles[h.n].team
  <2>1. h.n \in DOMAIN cycles
    <3>1. N \in Nat /\ h \in Steps(N)
      BY <1>1, HeadMeans DEF GoalInv
    <3>2. h.n \in 1 .. N
      BY <1>1, <3>1, StepsRead
    <3> QED
      BY <3>2 DEF GoalInv
  <2>2. View.newest = N /\ \A n \in DOMAIN cycles : n = N => View.team = cycles[n].team
    BY ViewRead
  <2> HIDE DEF View, h
  <2>3. h.n = View.newest /\ View.phase = "executing"
    BY <1>1, <1>3 DEF WorkerMeans
  <2> QED
    BY <2>1, <2>2, <2>3
<1>5. x.do = "move_team" /\ x.n = h.n /\ x.to = "awaiting_review"
  BY DEF MoveTeam
<1>6. \/ Then(c, <<x>>)
      \/ Then(c, <<>>) /\ View.team \in {"none", "awaiting_review"}
  BY <1>4 DEF SyncTeam, When
<1> HIDE DEF View, h, x
<1>7. CASE Then(c, <<x>>)
  <2>1. WorkerMeans(x, View)
    BY <1>4, <1>5 DEF WorkerMeans, GoalWrites, CycleWrites, Sets
  <2>2. Means(Worker, x, View) /\ Ready(x, View)
    BY <1>5, <2>1, MeansWhat DEF Ready, Sets, CycleWrites
  <2>3. InOrder(c, <<x>>, View)
    BY <1>3, <2>2, ShortScripts
  <2>4. ASSUME NEW y, MayFollow(c, h, y)
        PROVE  (Readies(h, y) => Readies(x, y)) /\ MayFollow(c, x, y)
    <3>1. Readies(h, y) => Readies(x, y)
      BY <1>1, <1>5 DEF Readies, Sets, CycleWrites
    <3>2. MayFollow(c, x, y)
      BY <1>1, <1>3, <1>5, <2>4, BoundAssumption DEF MayFollow, GoalWrites, CycleWrites
    <3> QED
      BY <3>1, <3>2
  <2>5. <<x>> \in Seq({x}) /\ DOMAIN <<x>> = {1} /\ <<x>>[1] = x
    BY Single
  <2> QED
    BY <1>1, <1>2, <1>7, <2>3, <2>4, <2>5, OnlyScriptTurns DEF h
<1>8. CASE Then(c, <<>>) /\ View.team \in {"none", "awaiting_review"}
  <2>1. ASSUME NEW y, Readies(h, y)
        PROVE  Ready(y, View)
    BY <1>1, <1>8, <2>1 DEF Readies, Ready, Sets, CycleWrites
  <2>2. InOrder(c, <<>>, View) /\ <<>> \in Seq({}) /\ DOMAIN <<>> = {}
    BY ShortScripts
  <2> QED
    BY <1>1, <1>2, <1>8, <2>1, <2>2, OnlyScriptTurns DEF h
<1> QED
  BY <1>6, <1>7, <1>8

LEMMA VerdictInOrder ==
  ASSUME GoalInv, PhaseInv, NEW c \in Callers, Verdict(c)
  PROVE  PhaseInv'
<1> DEFINE h == This(c)
           to == IF h.accepted THEN "accepted" ELSE "rework_required"
<1>1. script[c] # <<>> /\ h.do = "verdict" /\ UNCHANGED <<goal, cycles, tasks>>
  BY DEF Verdict, At, This
<1>2. TablesInOrder' /\ View' = View /\ goal'.status = goal.status /\ View.goal = goal.status
  BY <1>1, TablesStay, ViewRead
<1>3. CASE Fails(c)
  BY <1>2, <1>3, ScriptEnds
<1>4. CASE /\ goal.status = "awaiting_review" /\ goal.current # 0
           /\ Then(c, VerdictScript(goal.current, to))
  <2>1. to = "accepted" \/ (c = User /\ to = "rework_required")
    <3>1. c = Worker => h.accepted = TRUE
      BY <1>1, HeadMeans, MeansWhat DEF WorkerMeans
    <3> QED
      BY <3>1 DEF Callers
  <2>2. VerdictScript(goal.current, to) \in Seq(Plain(Len(cycles)))
    <3>1. goal.current \in 1 .. Len(cycles)
      BY <1>4 DEF GoalInv, GoalTypeOK
    <3> QED
      BY <2>1, <3>1, ScriptsMade
  <2>3. ViewOK(View)
    BY DEF PhaseInv, TablesInOrder
  <2>4. \A y : ~ MayFollow(c, h, y)
    BY <1>1 DEF MayFollow
  <2> HIDE DEF View, to
  <2>5. InOrder(c, VerdictScript(goal.current, to), View)
    BY <1>2, <1>4, <2>1, <2>3, VerdictScriptInOrder
  <2> QED
    BY <1>1, <1>2, <1>4, <2>2, <2>4, <2>5, OnlyScriptTurns
<1> QED
  BY <1>3, <1>4 DEF Verdict

LEMMA CloseTeamInOrder ==
  ASSUME GoalInv, PhaseInv, NEW c \in Callers, CloseTeam(c)
  PROVE  PhaseInv'
<1> DEFINE h == This(c)
           N == Len(cycles)
           v == View
           w == View'
           team == IF cycles[h.n].team = "awaiting_review" THEN h.to ELSE cycles[h.n].team
<1>1. script[c] # <<>> /\ h.do = "close_team" /\ UNCHANGED <<goal, tasks>> /\ Then(c, <<>>)
  BY DEF CloseTeam, At, This
<1>2. Ready(h, v) /\ N \in Nat /\ h \in Steps(N)
  BY <1>1, HeadMeans DEF GoalInv
<1>3. h.n \in 1 .. N /\ h.n = v.newest /\ h.to \in {"accepted", "rework_required"}
  BY <1>1, <1>2, StepsRead DEF Ready
<1>4. cycles' = [cycles EXCEPT ![h.n].team = team] /\ team \in DOMAIN TeamTargets
  <2>1. cycles \in Seq(CycleRows) /\ cycles[h.n] \in CycleRows
    BY <1>3 DEF GoalInv
  <2> QED
    BY <1>3, <2>1 DEF CloseTeam, CycleRows, TeamTargets
<1>5. /\ w.goal = v.goal /\ w.newest = v.newest /\ w.phase = v.phase
      /\ ViewOK(w) => TablesInOrder'
  <2> HIDE DEF View, team
  <2> QED
    BY <1>1, <1>3, <1>4, TeamTurns
<1>6. ViewOK(v) /\ \A d \in Callers : InOrder(d, script[d], v)
  BY DEF PhaseInv, TablesInOrder
<1> HIDE DEF h, v, w, team
<1>7. /\ ViewOK(w)
      /\ \A d, y : Means(d, y, v) => Means(d, y, w)
      /\ \A d \in Callers : \A y : Means(d, y, v) /\ Ready(y, v) => Ready(y, w)
  BY <1>1, <1>2, <1>5, <1>6, TeamIsClosed
<1>8. \A d \in Callers : InOrder(d, script[d], w)
  <2> SUFFICES ASSUME NEW d \in Callers
               PROVE  InOrder(d, script[d], w)
    OBVIOUS
  <2> QED
    BY <1>6, <1>7, Stands
<1>9. \A y : ~ Readies(h, y)
  BY <1>1 DEF Readies, Sets, CycleWrites
<1>10. InOrder(c, <<>>, w) /\ <<>> \in Seq({}) /\ DOMAIN <<>> = {}
  BY ShortScripts
<1> QED
  BY <1>1, <1>5, <1>7, <1>8, <1>9, <1>10, ScriptTurns DEF h, w, v

LEMMA AdvanceInOrder ==
  ASSUME GoalInv, PhaseInv, NEW c \in Callers, Advance(c)
  PROVE  PhaseInv'
<1>1. ASSUME NEW t \in TaskIds, CreateTask(c, t)
      PROVE  PhaseInv'
  BY <1>1, CreateTaskInOrder
<1> QED
  BY <1>1, ObserveInOrder, LookInOrder, CreateCycleInOrder, LinkCycleInOrder, CheckGoalInOrder,
     WriteGoalInOrder, CheckGoalIfInOrder, CheckCycleInOrder, WriteCycleInOrder,
     WriteHashInOrder, CallTaskInOrder, ListTasksInOrder, StaffTeamInOrder, WriteTeamInOrder,
     SyncTeamInOrder, VerdictInOrder, CloseTeamInOrder DEF Advance

\* A caller without a script is given one.
LEMMA GivenInOrder ==
  ASSUME GoalInv, PhaseInv, NEW c \in Callers, NEW s, script' = [script EXCEPT ![c] = s],
         UNCHANGED <<goal, cycles, tasks>>, InOrder(c, s, View),
         c = Worker => goal.status # "draft"
  PROVE  PhaseInv'
<1>1. TablesInOrder' /\ View' = View
  BY TablesStay
<1>2. DOMAIN script = Callers /\ script'[c] = s /\ \A d \in Callers : d # c => script'[d] = script[d]
  BY DEF GoalInv
<1>3. \A d \in Callers : InOrder(d, script'[d], View')
  BY <1>1, <1>2 DEF PhaseInv
<1>4. goal'.status = "draft" => script'[Worker] = <<>>
  BY <1>2 DEF PhaseInv, Callers
<1> QED
  BY <1>1, <1>3, <1>4 DEF PhaseInv

LEMMA TickInOrder ==
  ASSUME GoalInv, PhaseInv, WorkerTick
  PROVE  PhaseInv'
<1> DEFINE x == [do |-> "observe"]
<1>1. /\ script' = [script EXCEPT ![Worker] = <<x>>] /\ UNCHANGED <<goal, cycles, tasks>>
      /\ goal.status # "draft" /\ Worker \in Callers /\ x.do = "observe"
  BY DEF WorkerTick, Callers
<1> HIDE DEF x, View
<1>2. WorkerMeans(x, View)
  BY <1>1 DEF WorkerMeans, GoalWrites, CycleWrites, Sets
<1>3. Means(Worker, x, View) /\ Ready(x, View)
  BY <1>1, <1>2, MeansWhat DEF Ready, Sets, CycleWrites
<1>4. InOrder(Worker, <<x>>, View)
  BY <1>3, ShortScripts
<1> QED
  BY <1>1, <1>4, GivenInOrder

\* What the user may say first.
LEMMA UserSays ==
  ASSUME NEW v, NEW x,
         \/ /\ x.do = "move_goal"
            /\ \/ x.to = "planning" /\ v.goal = "draft"
               \/ x.to = "running" /\ v.goal \notin Replanned \cup {"draft"}
               \/ x.to \in {"blocked", "cancelled"}
               \/ x.to = "rework_required" /\ v.goal = "awaiting_plan_approval"
         \/ x.do \in {"resume_tasks", "verdict"}
  PROVE  Means(User, x, v) /\ Ready(x, v)
<1>1. UserMeans(x, v)
  BY DEF UserMeans, GoalWrites, CycleWrites
<1> QED
  BY <1>1, MeansWhat DEF Ready, Sets, CycleWrites

LEMMA CommandInOrder ==
  ASSUME GoalInv, PhaseInv, NEW command \in AllCommands \ {"approve_and_tick"}, UserCommand(command)
  PROVE  PhaseInv'
<1> DEFINE s == CommandScript[command]
           r == On("resume_tasks", goal.current)
           p == MoveGoal("running")
           b == MoveGoal("blocked")
           d == MoveGoal("cancelled")
           e == MoveGoal("rework_required")
           m == MoveTeam(NewestOpen, "rework_required")
           k == [do |-> "verdict", accepted |-> TRUE]
           l == [do |-> "verdict", accepted |-> FALSE]
<1>1. /\ script' = [script EXCEPT ![User] = s] /\ UNCHANGED <<goal, cycles, tasks>>
      /\ Allows(command) /\ User \in Callers /\ User # Worker
  BY BoundAssumption DEF UserCommand, Callers
<1>2. View.goal = goal.status
  BY ViewRead
<1>3. /\ r.do = "resume_tasks" /\ p.do = "move_goal" /\ p.to = "running"
      /\ b.do = "move_goal" /\ b.to = "blocked" /\ d.do = "move_goal" /\ d.to = "cancelled"
      /\ e.do = "move_goal" /\ e.to = "rework_required"
      /\ m.do = "move_team" /\ m.to = "rework_required" /\ m.n = NewestOpen
      /\ k.do = "verdict" /\ l.do = "verdict"
  BY DEF On, MoveGoal, MoveTeam
<1>4. /\ command = "pause" => s = <<b>>
      /\ command = "resume" => s = <<r, p>> \/ s = <<p>>
      /\ command = "cancel" => s = <<d>>
      /\ command = "approve" => s = <<p>>
      /\ command = "reject" => s = <<e, m>>
      /\ command = "accept" => s = <<k>>
      /\ command = "send_back" => s = <<l>>
  <2>1. When(goal.current # 0, <<r>>) \o <<p>> \in {<<r, p>>, <<p>>}
    BY Single, Couple DEF When
  <2>2. CommandScript.resume = When(goal.current # 0, <<r>>) \o <<p>>
    BY DEF CommandScript
  <2>3. command = "resume" => s = CommandScript.resume
    OBVIOUS
  <2> HIDE DEF r, p
  <2>4. command = "resume" => s = <<r, p>> \/ s = <<p>>
    BY <2>1, <2>2, <2>3
  <2>5. /\ CommandScript.pause = <<b>> /\ CommandScript.cancel = <<d>>
        /\ CommandScript.approve = <<MoveGoal("running")>> /\ CommandScript.reject = <<e, m>>
        /\ CommandScript.accept = <<k>> /\ CommandScript.send_back = <<l>>
    BY DEF CommandScript
  <2> HIDE DEF b, d, e, m, k, l
  <2> QED
    BY <2>4, <2>5 DEF p
<1>5. /\ command = "resume" => goal.status = "blocked"
      /\ command = "approve" => goal.status = "awaiting_plan_approval"
      /\ command = "reject" =>
            /\ goal.status = "awaiting_plan_approval" /\ NewestOpen # 0
            /\ cycles[NewestOpen].team = "awaiting_plan_approval"
  BY <1>1 DEF Allows
<1>6. command = "reject" =>
         RequireApproval /\ m.n = View.newest /\ View.phase = "dispatching"
  <2>1. SUFFICES ASSUME command = "reject"
                 PROVE  RequireApproval /\ m.n = View.newest /\ View.phase = "dispatching"
    OBVIOUS
  <2>2. NewestOpen = View.newest /\ View.team = "awaiting_plan_approval"
    BY <1>5, <2>1, NewestRead, ViewRead
  <2>3. ViewOK(View)
    BY DEF PhaseInv, TablesInOrder
  <2> HIDE DEF View
  <2> QED
    BY <1>2, <1>3, <1>5, <2>1, <2>2, <2>3 DEF ViewOK, Planning
<1> HIDE DEF View, s, r, p, b, d, e, m, k, l
<1>7. InOrder(User, s, View)
  <2>1. CASE command = "pause"
    BY <1>3, <1>4, <2>1, UserSays, ShortScripts
  <2>2. CASE command = "cancel"
    BY <1>3, <1>4, <2>2, UserSays, ShortScripts
  <2>3. CASE command = "accept"
    BY <1>3, <1>4, <2>3, UserSays, ShortScripts
  <2>4. CASE command = "send_back"
    BY <1>3, <1>4, <2>4, UserSays, ShortScripts
  <2>5. CASE command = "approve"
    <3>1. Means(User, p, View) /\ Ready(p, View)
      BY <1>2, <1>3, <1>5, <2>5, UserSays DEF Replanned
    <3> QED
      BY <1>4, <2>5, <3>1, ShortScripts
  <2>6. CASE command = "resume"
    <3>1. Means(User, p, View) /\ Ready(p, View) /\ Means(User, r, View) /\ Ready(r, View)
      BY <1>2, <1>3, <1>5, <2>6, UserSays DEF Replanned
    <3>2. MayFollow(User, r, p)
      BY <1>3 DEF MayFollow, GoalWrites, CycleWrites, Sets
    <3> QED
      BY <1>4, <2>6, <3>1, <3>2, ShortScripts
  <2>7. CASE command = "reject"
    <3>1. Means(User, e, View) /\ Ready(e, View)
      BY <1>2, <1>3, <1>5, <2>7, UserSays
    <3>2. UserMeans(m, View)
      BY <1>2, <1>3, <1>5, <1>6, <2>7 DEF UserMeans, GoalWrites, CycleWrites
    <3>3. Means(User, m, View) /\ Ready(m, View)
      BY <1>3, <3>2, MeansWhat DEF Ready, Sets, CycleWrites
    <3>4. MayFollow(User, e, m)
      BY <1>3 DEF MayFollow, GoalWrites, CycleWrites, Sets
    <3> QED
      BY <1>4, <2>7, <3>1, <3>3, <3>4, ShortScripts
  <2> QED
    BY <2>1, <2>2, <2>3, <2>4, <2>5, <2>6, <2>7 DEF AllCommands
<1> QED
  BY <1>1, <1>7, GivenInOrder

LEMMA PhaseStepKeeps ==
  ASSUME "approve_and_tick" \notin Commands, GoalInv, PhaseInv, [Next]_vars
  PROVE  PhaseInv'
<1>1. ASSUME NEW c \in Callers, Advance(c)
      PROVE  PhaseInv'
  BY <1>1, AdvanceInOrder
<1>2. ASSUME NEW command \in Commands, UserCommand(command)
      PROVE  PhaseInv'
  BY <1>2, CommandInOrder, CommandAssumption
<1>3. CASE WorkerTick
  BY <1>3, TickInOrder
<1>4. CASE StartGoal
  <2> DEFINE x == MoveGoal("planning")
  <2>1. /\ script' = [script EXCEPT ![User] = <<x>>] /\ UNCHANGED <<goal, cycles, tasks>>
        /\ goal.status = "draft" /\ User \in Callers /\ User # Worker
        /\ x.do = "move_goal" /\ x.to = "planning"
    BY <1>4, BoundAssumption DEF StartGoal, Callers, MoveGoal
  <2>2. View.goal = "draft"
    BY <2>1, ViewRead
  <2> HIDE DEF x, View
  <2>3. InOrder(User, <<x>>, View)
    BY <2>1, <2>2, UserSays, ShortScripts
  <2> QED
    BY <2>1, <2>3, GivenInOrder
<1>5. CASE AddHint \/ UNCHANGED vars
  <2>1. UNCHANGED <<goal, cycles, tasks, script>>
    BY <1>5 DEF AddHint, vars
  <2>2. TablesInOrder' /\ View' = View
    BY <2>1, TablesStay
  <2> HIDE DEF View
  <2> QED
    BY <2>1, <2>2 DEF PhaseInv
<1>6. CASE DesktopDies
  <2>1. script' = [c \in Callers |-> <<>>] /\ UNCHANGED <<goal, cycles, tasks>> /\ Worker \in Callers
    BY <1>6 DEF DesktopDies, Callers
  <2>2. TablesInOrder' /\ View' = View
    BY <2>1, TablesStay
  <2>3. \A c \in Callers : InOrder(c, <<>>, View')
    BY ShortScripts
  <2> QED
    BY <2>1, <2>2, <2>3 DEF PhaseInv
<1>7. ASSUME NEW t \in TaskIds, TaskWork(t)
      PROVE  PhaseInv'
  <2>1. UNCHANGED <<goal, cycles, script>> /\ \E to : tasks' = [tasks EXCEPT ![t].status = to]
    BY <1>7 DEF TaskWork
  <2>2. View' = View
    BY <2>1 DEF View
  <2>3. \A u \in TaskIds : tasks'[u].cycle = tasks[u].cycle
    <3>1. tasks \in [TaskIds -> TaskRows]
      BY DEF GoalInv
    <3> QED
      BY <2>1, <3>1 DEF TaskRows
  <2> HIDE DEF View
  <2>4. TablesInOrder'
    BY <2>1, <2>2, <2>3 DEF TablesInOrder, PhaseInv
  <2> QED
    BY <2>1, <2>2, <2>4 DEF PhaseInv
<1> QED
  BY <1>1, <1>2, <1>3, <1>4, <1>5, <1>6, <1>7 DEF Next

LEMMA PhaseInitInv == Init => PhaseInv
<1> SUFFICES ASSUME Init
             PROVE  PhaseInv
  OBVIOUS
<1>1. View.phase = "none" /\ View.goal = "draft" /\ View.team = "none"
  BY DEF Init, View
<1>2. ViewOK(View)
  BY <1>1 DEF ViewOK, Planning, Late, Judged
<1>3. TablesInOrder
  BY <1>2 DEF TablesInOrder, Init
<1>4. \A c \in Callers : script[c] = <<>>
  BY DEF Init
<1>5. Worker \in Callers
  BY DEF Callers
<1> HIDE DEF View
<1> QED
  BY <1>3, <1>4, <1>5, ShortScripts DEF PhaseInv

LEMMA PhasesFollow ==
  ASSUME GoalInv, PhaseInv
  PROVE  PhasesKeepTheirOrder
<1>1. Cardinality(OpenCycles) <= 1
  <2>1. OpenCycles = {} \/ OpenCycles = {Len(cycles)}
    BY ViewRead
  <2>2. CASE OpenCycles = {}
    BY <2>2, FS_EmptySet
  <2>3. CASE OpenCycles = {Len(cycles)}
    <3>1. Cardinality({Len(cycles)}) = 1
      BY FS_Singleton
    <3> QED
      BY <2>3, <3>1
  <2> QED
    BY <2>1, <2>2, <2>3
<1>2. ViewOK(View)
  BY DEF PhaseInv, TablesInOrder
<1>3. ASSUME NEW n \in DOMAIN cycles, cycles[n].status = "reviewing"
      PROVE  cycles[n].team \in {"none", "awaiting_review"}
  <2>1. View.phase = "reviewing" /\ View.team = cycles[n].team
    BY <1>3, ViewRead
  <2> QED
    BY <1>2, <2>1 DEF ViewOK
<1>4. ASSUME NEW t \in TaskIds, tasks[t].cycle # 0
      PROVE  cycles[tasks[t].cycle].status \notin {"observing", "orienting", "deciding",
                                                    "dispatching"}
  <2>1. tasks[t].cycle \in DOMAIN cycles
    BY <1>4 DEF GoalInv, GoalTypeOK
  <2>2. CASE tasks[t].cycle = Len(cycles)
    <3>1. View.phase \in Late
      BY <1>4, <2>2 DEF PhaseInv, TablesInOrder
    <3>2. View.phase = cycles[tasks[t].cycle].status
      BY <2>1, <2>2, ViewRead
    <3> HIDE DEF View
    <3> QED
      BY <3>1, <3>2 DEF Late, Closing
  <2>3. CASE tasks[t].cycle # Len(cycles)
    <3>1. cycles[tasks[t].cycle].status = "completed"
      BY <2>1, <2>3, ViewRead
    <3> QED
      BY <3>1
  <2> QED
    BY <2>2, <2>3
<1>5. CyclesStayInBudget
  BY DEF GoalInv, TaskRows, CyclesStayInBudget
<1> QED
  BY <1>1, <1>3, <1>4, <1>5 DEF PhasesKeepTheirOrder

\* Whatever statements of the worker and the user interleave, and wherever the
\* process dies, as long as nobody but the worker ticks the goal: it has at most
\* one cycle that has not ended (goals.rs:413-433, observe.rs:45-51), a cycle
\* under review has no team or a team under review (mod.rs:483-484), and the
\* tasks of a cycle exist only once it has left the planning phases
\* (mod.rs:376-383).
THEOREM PhasesAlwaysKeepTheirOrder ==
  ASSUME "approve_and_tick" \notin Commands
  PROVE  GoalSpec => []PhasesKeepTheirOrder
<1>1. GoalInv /\ PhaseInv /\ [Next]_vars => GoalInv' /\ PhaseInv'
  BY GoalStepKeeps, PhaseStepKeeps
<1>2. GoalInv /\ PhaseInv => PhasesKeepTheirOrder
  BY PhasesFollow
<1> QED
  BY <1>1, <1>2, GoalInitInv, PhaseInitInv, PTL DEF GoalSpec

----------------------------------------------------------------------------
(* What a plan grants.                                                     *)

PlanOf == [n \in DOMAIN cycles |-> cycles[n].plan]

\* How many tasks the newest cycle may still get.
Room ==
    IF cycles = <<>> THEN 0
    ELSE cycles[Len(cycles)].plan.granted - Cardinality(CycleTasks(Len(cycles)))

\* A plan is written before anything it is for; only the plan of the cycle that
\* is being dispatched can be another than the one the cycle has.
HashInOrder(c, s, v, p) ==
    \A j \in DOMAIN s : s[j].do = "set_hash" =>
        /\ \A i \in 1 .. (j - 1) : s[i].do \in GoalWrites
        /\ \/ s[j].plan = p[s[j].n]
           \/ c = Worker /\ v.phase = "dispatching" /\ s[j].n = v.newest

\* The INSERTs that are still to come stand in front of the call for the team:
\* from each on there are no more of them than the plan has left.
CreatesInOrder(s, v, room) ==
    \A j \in DOMAIN s : s[j].do = "create_task" =>
        /\ j < Len(s)
        /\ \/ \E i \in 1 .. (j - 1) :
                 /\ s[i].do = "set_hash" /\ s[i].n = v.newest
                 /\ v.phase = "dispatching" /\ Len(s) - j <= s[i].plan.granted
           \/ /\ \A i \in DOMAIN s : s[i].do # "set_hash"
              /\ Len(s) - j <= room

GrantsAreKept ==
    \A n \in DOMAIN cycles : Cardinality(CycleTasks(n)) <= cycles[n].plan.granted

GrantInv ==
    /\ GrantsAreKept
    /\ \A c \in Callers : /\ HashInOrder(c, script[c], View, PlanOf)
                          /\ CreatesInOrder(script[c], View, Room)


\* Where the statements of t \o Tail(s) come from.
LEMMA Comes ==
  ASSUME NEW S, NEW s \in Seq(S), s # <<>>, NEW t \in Seq(S)
  PROVE  LET u == t \o Tail(s)
         IN /\ Len(t) \in Nat /\ Len(s) \in Nat \ {0} /\ Len(u) = Len(t) + Len(s) - 1
            /\ DOMAIN u = 1 .. Len(u) /\ DOMAIN s = 1 .. Len(s) /\ DOMAIN t = 1 .. Len(t)
            /\ s[1] = Head(s)
            /\ \A i \in DOMAIN t : i \in DOMAIN u /\ u[i] = t[i]
            /\ \A k \in DOMAIN s : k # 1 =>
                  Len(t) + k - 1 \in DOMAIN u /\ u[Len(t) + k - 1] = s[k]
            /\ \A j \in DOMAIN u : j \in DOMAIN t \/ \E k \in DOMAIN s : k # 1 /\ j = Len(t) + k - 1
<1> DEFINE b == Tail(s)
           u == t \o b
<1>1. /\ b \in Seq(S) /\ Len(s) \in Nat /\ Len(s) # 0 /\ Len(b) = Len(s) - 1 /\ Head(s) = s[1]
      /\ DOMAIN b = 1 .. (Len(s) - 1) /\ DOMAIN s = 1 .. Len(s) /\ DOMAIN t = 1 .. Len(t)
      /\ Len(t) \in Nat
      /\ \A j \in 1 .. (Len(s) - 1) : b[j] = s[j + 1]
  OBVIOUS
<1> HIDE DEF b
<1>2. /\ Len(u) = Len(t) + Len(s) - 1 /\ DOMAIN u = 1 .. Len(u)
      /\ \A i \in 1 .. Len(t) : u[i] = t[i]
      /\ \A j \in 1 .. (Len(s) - 1) : u[Len(t) + j] = b[j]
  <2>0. b \in Seq(S) /\ t \in Seq(S)
    BY <1>1
  <2>1. Len(b) \in Nat /\ Len(u) = Len(t) + Len(b) /\ u \in Seq(S) /\ DOMAIN u = 1 .. Len(u)
    BY <2>0
  <2>2. \A i \in 1 .. Len(t) : u[i] = t[i]
    BY <2>0, <2>1
  <2>3. \A j \in 1 .. Len(b) : u[Len(t) + j] = b[j]
    BY <2>0, <2>1
  <2> QED
    BY <1>1, <2>1, <2>2, <2>3
<1> HIDE DEF u
<1>3. ASSUME NEW k \in DOMAIN s, k # 1
      PROVE  Len(t) + k - 1 \in DOMAIN u /\ u[Len(t) + k - 1] = s[k]
  <2>1. k - 1 \in 1 .. (Len(s) - 1) /\ Len(t) + k - 1 = Len(t) + (k - 1) /\ (k - 1) + 1 = k
    BY <1>1, <1>3
  <2>2. u[Len(t) + (k - 1)] = b[k - 1] /\ b[k - 1] = s[k]
    BY <1>1, <1>2, <2>1
  <2> QED
    BY <1>1, <1>2, <2>1, <2>2
<1>4. ASSUME NEW j \in DOMAIN u, j \notin DOMAIN t
      PROVE  \E k \in DOMAIN s : k # 1 /\ j = Len(t) + k - 1
  <2>1. j - Len(t) + 1 \in DOMAIN s /\ j - Len(t) + 1 # 1 /\ j = Len(t) + (j - Len(t) + 1) - 1
    BY <1>1, <1>2, <1>4
  <2> QED
    BY <2>1
<1>5. \A i \in DOMAIN t : i \in DOMAIN u /\ u[i] = t[i]
  BY <1>1, <1>2
<1> QED
  BY <1>1, <1>2, <1>3, <1>4, <1>5 DEF u, b

LEMMA GrantsGoOn ==
  ASSUME NEW S, NEW s \in Seq(S), s # <<>>, NEW t \in Seq(S), NEW c, NEW v, NEW w, NEW p, NEW q,
         NEW r \in Int, NEW x \in Int, NEW g \in Int,
         HashInOrder(c, s, v, p), CreatesInOrder(s, v, r),
         \A k \in DOMAIN t : t[k].do \notin {"set_hash", "create_task"},
         \/ /\ Head(s).do \in GoalWrites /\ \A k \in DOMAIN t : t[k].do \in GoalWrites
            /\ w.phase = v.phase /\ w.newest = v.newest /\ q = p /\ x = r
         \/ /\ Head(s).do \notin GoalWrites
            /\ Head(s).do = "set_hash" =>
                  /\ Head(s).plan.granted = g
                  /\ Head(s).n = v.newest /\ v.phase = "dispatching" => g <= x
            /\ Head(s).do = "create_task" => x = r - 1
            /\ Head(s).do \notin {"set_hash", "create_task"} => x = r
  PROVE  HashInOrder(c, t \o Tail(s), w, q) /\ CreatesInOrder(t \o Tail(s), w, x)
<1> DEFINE u == t \o Tail(s)
           h == Head(s)
<1>1. /\ Len(t) \in Nat /\ Len(s) \in Nat \ {0} /\ Len(u) = Len(t) + Len(s) - 1
      /\ DOMAIN u = 1 .. Len(u) /\ DOMAIN s = 1 .. Len(s) /\ DOMAIN t = 1 .. Len(t)
      /\ s[1] = h
      /\ \A i \in DOMAIN t : i \in DOMAIN u /\ u[i] = t[i]
      /\ \A k \in DOMAIN s : k # 1 => Len(t) + k - 1 \in DOMAIN u /\ u[Len(t) + k - 1] = s[k]
      /\ \A j \in DOMAIN u : j \in DOMAIN t \/ \E k \in DOMAIN s : k # 1 /\ j = Len(t) + k - 1
  BY Comes
<1> HIDE DEF u, h
<1>2. ASSUME NEW j \in DOMAIN u, u[j].do \in {"set_hash", "create_task"}
      PROVE  \E k \in DOMAIN s : k # 1 /\ j = Len(t) + k - 1 /\ u[j] = s[k]
  <2>1. j \notin DOMAIN t
    BY <1>1, <1>2
  <2> QED
    BY <1>1, <2>1
<1>3. CASE /\ h.do \in GoalWrites /\ \A k \in DOMAIN t : t[k].do \in GoalWrites
           /\ w.phase = v.phase /\ w.newest = v.newest /\ q = p /\ x = r
  <2>1. ASSUME NEW j \in DOMAIN u, u[j].do = "set_hash"
        PROVE  /\ \A i \in 1 .. (j - 1) : u[i].do \in GoalWrites
               /\ \/ u[j].plan = q[u[j].n]
                  \/ c = Worker /\ w.phase = "dispatching" /\ u[j].n = w.newest
    <3>1. PICK k \in DOMAIN s : k # 1 /\ j = Len(t) + k - 1 /\ u[j] = s[k]
      BY <1>2, <2>1
    <3>2. /\ \A i \in 1 .. (k - 1) : s[i].do \in GoalWrites
          /\ \/ s[k].plan = p[s[k].n]
             \/ c = Worker /\ v.phase = "dispatching" /\ s[k].n = v.newest
      BY <2>1, <3>1 DEF HashInOrder
    <3>3. ASSUME NEW i \in 1 .. (j - 1)
          PROVE  u[i].do \in GoalWrites
      <4>1. i \in DOMAIN u
        BY <1>1
      <4>2. CASE i \in DOMAIN t
        BY <1>1, <1>3, <4>2
      <4>3. ASSUME NEW m \in DOMAIN s, m # 1, i = Len(t) + m - 1
            PROVE  u[i].do \in GoalWrites
        <5>1. m \in 1 .. (k - 1) /\ u[i] = s[m]
          BY <1>1, <3>1, <4>3
        <5> QED
          BY <3>2, <5>1
      <4> QED
        BY <1>1, <4>1, <4>2, <4>3
    <3> QED
      BY <1>3, <3>1, <3>2, <3>3
  <2>2. ASSUME NEW j \in DOMAIN u, u[j].do = "create_task"
        PROVE  /\ j < Len(u)
               /\ \/ \E i \in 1 .. (j - 1) :
                        /\ u[i].do = "set_hash" /\ u[i].n = w.newest
                        /\ w.phase = "dispatching" /\ Len(u) - j <= u[i].plan.granted
                  \/ (\A i \in DOMAIN u : u[i].do # "set_hash") /\ Len(u) - j <= x
    <3>1. PICK k \in DOMAIN s : k # 1 /\ j = Len(t) + k - 1 /\ u[j] = s[k]
      BY <1>2, <2>2
    <3>2. /\ k < Len(s)
          /\ \/ \E i \in 1 .. (k - 1) :
                   /\ s[i].do = "set_hash" /\ s[i].n = v.newest
                   /\ v.phase = "dispatching" /\ Len(s) - k <= s[i].plan.granted
             \/ (\A i \in DOMAIN s : s[i].do # "set_hash") /\ Len(s) - k <= r
      BY <2>2, <3>1 DEF CreatesInOrder
    <3>3. j < Len(u) /\ Len(u) - j = Len(s) - k
      BY <1>1, <3>1, <3>2
    <3>4. ASSUME NEW i \in 1 .. (k - 1), s[i].do = "set_hash", s[i].n = v.newest,
                 v.phase = "dispatching", Len(s) - k <= s[i].plan.granted
          PROVE  \E m \in 1 .. (j - 1) :
                    /\ u[m].do = "set_hash" /\ u[m].n = w.newest
                    /\ w.phase = "dispatching" /\ Len(u) - j <= u[m].plan.granted
      <4>1. i # 1 /\ i \in DOMAIN s
        BY <1>1, <1>3, <3>1, <3>4 DEF GoalWrites
      <4>2. Len(t) + i - 1 \in 1 .. (j - 1) /\ u[Len(t) + i - 1] = s[i]
        BY <1>1, <3>1, <4>1
      <4> QED
        BY <1>3, <3>3, <3>4, <4>2
    <3>5. ASSUME \A i \in DOMAIN s : s[i].do # "set_hash"
          PROVE  \A i \in DOMAIN u : u[i].do # "set_hash"
      BY <1>2, <3>5
    <3> QED
      BY <1>3, <3>2, <3>3, <3>4, <3>5
  <2> QED
    BY <2>1, <2>2 DEF HashInOrder, CreatesInOrder, u
<1>4. CASE /\ h.do \notin GoalWrites
           /\ h.do = "set_hash" =>
                 /\ h.plan.granted = g
                 /\ h.n = v.newest /\ v.phase = "dispatching" => g <= x
           /\ h.do = "create_task" => x = r - 1
           /\ h.do \notin {"set_hash", "create_task"} => x = r
  <2>1. \A k \in DOMAIN s : k # 1 => s[k].do # "set_hash"
    BY <1>1, <1>4 DEF HashInOrder
  <2>2. \A j \in DOMAIN u : u[j].do # "set_hash"
    BY <1>2, <2>1
  <2>3. ASSUME NEW j \in DOMAIN u, u[j].do = "create_task"
        PROVE  j < Len(u) /\ Len(u) - j <= x
    <3>1. PICK k \in DOMAIN s : k # 1 /\ j = Len(t) + k - 1 /\ u[j] = s[k]
      BY <1>2, <2>3
    <3>2. /\ k < Len(s)
          /\ \/ \E i \in 1 .. (k - 1) :
                   /\ s[i].do = "set_hash" /\ s[i].n = v.newest
                   /\ v.phase = "dispatching" /\ Len(s) - k <= s[i].plan.granted
             \/ (\A i \in DOMAIN s : s[i].do # "set_hash") /\ Len(s) - k <= r
      BY <2>3, <3>1 DEF CreatesInOrder
    <3>3. j < Len(u) /\ Len(u) - j = Len(s) - k /\ k \in 2 .. Len(s)
      BY <1>1, <3>1, <3>2
    <3>4. ASSUME NEW i \in 1 .. (k - 1), s[i].do = "set_hash", s[i].n = v.newest,
                 v.phase = "dispatching", Len(s) - k <= s[i].plan.granted
          PROVE  Len(s) - k <= x
      <4>0. i \in DOMAIN s
        BY <1>1, <3>1
      <4>1. i = 1 /\ s[i] = h
        BY <1>1, <2>1, <3>4, <4>0
      <4>2. h.plan.granted = g /\ g <= x
        BY <1>4, <3>4, <4>1
      <4> QED
        BY <1>1, <3>3, <3>4, <4>1, <4>2
    <3>5. ASSUME \A i \in DOMAIN s : s[i].do # "set_hash", Len(s) - k <= r
          PROVE  Len(s) - k <= x
      <4>1. CASE h.do = "create_task"
        <5>1. Len(s) - 1 <= r
          <6>1. 1 \in DOMAIN s /\ s[1].do = "create_task" /\ 1 .. (1 - 1) = {}
            BY <1>1, <4>1
          <6> QED
            BY <6>1 DEF CreatesInOrder
        <5> QED
          BY <1>1, <1>4, <3>3, <4>1, <5>1
      <4>2. CASE h.do # "create_task"
        <5>1. h.do # "set_hash"
          BY <1>1, <3>5
        <5> QED
          BY <1>4, <3>5, <4>2, <5>1
      <4> QED
        BY <4>1, <4>2
    <3> QED
      BY <3>2, <3>3, <3>4, <3>5
  <2>4. HashInOrder(c, u, w, q)
    BY <2>2 DEF HashInOrder
  <2>5. CreatesInOrder(u, w, x)
    BY <2>2, <2>3 DEF CreatesInOrder
  <2> QED
    BY <2>4, <2>5 DEF u
<1> QED
  BY <1>3, <1>4 DEF h

\* A script that waits.
LEMMA GrantsStand ==
  ASSUME NEW s, NEW c, NEW v, NEW w, NEW p, NEW q, NEW r, NEW x, InOrder(c, s, v), User # Worker,
         x = r \/ c = User, HashInOrder(c, s, v, p), CreatesInOrder(s, v, r),
         \/ w.phase = v.phase /\ w.newest = v.newest
         \/ v.phase # "dispatching"
         \/ c = User,
         \A j \in DOMAIN s : s[j].do = "set_hash" => q[s[j].n] = p[s[j].n]
  PROVE  HashInOrder(c, s, w, q) /\ CreatesInOrder(s, w, x)
<1>1. c = User => \A j \in DOMAIN s : s[j].do # "create_task"
  <2>1. ASSUME c = User, NEW j \in DOMAIN s
        PROVE  s[j].do # "create_task"
    <3>1. Means(User, s[j], v)
      BY <2>1 DEF InOrder
    <3>2. UserMeans(s[j], v)
      BY <3>1, MeansWhat
    <3> QED
      BY <3>2 DEF UserMeans, GoalWrites, CycleWrites
  <2> QED
    BY <2>1
<1>2. HashInOrder(c, s, w, q)
  BY DEF HashInOrder
<1>3. CreatesInOrder(s, w, x)
  BY <1>1 DEF CreatesInOrder
<1> QED
  BY <1>2, <1>3

\* Nothing follows some statements.
LEMMA NothingFollows ==
  ASSUME NEW S, NEW s \in Seq(S), s # <<>>, NEW c, NEW v, InOrder(c, s, v),
         \A y : ~ MayFollow(c, Head(s), y), NEW T, NEW t \in Seq(T)
  PROVE  Tail(s) = <<>> /\ t \o Tail(s) = t /\ Len(s) = 1
<1>1. Len(s) \in Nat \ {0} /\ DOMAIN s = 1 .. Len(s) /\ s[1] = Head(s)
  OBVIOUS
<1>2. Len(s) = 1
  <2>1. SUFFICES ASSUME Len(s) # 1
                 PROVE  FALSE
    OBVIOUS
  <2>2. 2 \in DOMAIN s /\ 1 \in 1 .. (2 - 1)
    BY <1>1, <2>1
  <2>3. MayFollow(c, s[1], s[2])
    BY <2>2 DEF InOrder
  <2> QED
    BY <1>1, <2>3
<1>3. Tail(s) = <<>>
  <2>1. Tail(s) \in Seq(S) /\ Len(Tail(s)) = 0
    BY <1>2
  <2> QED
    BY <2>1
<1>4. t \o <<>> = t
  OBVIOUS
<1> QED
  BY <1>2, <1>3, <1>4


\* A script without such statements.
LEMMA NothingGranted ==
  ASSUME NEW c, NEW s, NEW v, NEW p, NEW r,
         \A j \in DOMAIN s : s[j].do \notin {"set_hash", "create_task"}
  PROVE  HashInOrder(c, s, v, p) /\ CreatesInOrder(s, v, r)
BY DEF HashInOrder, CreatesInOrder

LEMMA RoomIsInt ==
  ASSUME GoalInv
  PROVE  /\ Room \in Int
         /\ \A n \in DOMAIN cycles : /\ cycles[n].plan.granted \in Nat
                                     /\ n # 0 => /\ IsFiniteSet(CycleTasks(n))
                                                 /\ Cardinality(CycleTasks(n)) \in Nat
         /\ cycles # <<>> => Len(cycles) \in DOMAIN cycles /\ Len(cycles) # 0
         /\ DOMAIN cycles = 1 .. Len(cycles) /\ Len(cycles) \in Nat
<1>1. cycles \in Seq(CycleRows)
  BY DEF GoalInv
<1>2. \A n \in DOMAIN cycles : cycles[n].plan.granted \in Nat
  <2>0. \A n \in DOMAIN cycles : cycles[n] \in CycleRows
    BY <1>1
  <2>1. \A n \in DOMAIN cycles : cycles[n].plan \in Plans
    BY <2>0 DEF CycleRows
  <2> QED
    BY <2>1 DEF Plans, MaxParallelAgents
<1>3. ASSUME NEW n \in DOMAIN cycles, n # 0
      PROVE  IsFiniteSet(CycleTasks(n)) /\ Cardinality(CycleTasks(n)) \in Nat
  <2>1. CycleTasks(n) \subseteq {t \in TaskIds : tasks[t].status # "absent"}
    BY <1>3 DEF CycleTasks, GoalInv, GoalTypeOK
  <2> QED
    BY <2>1, FS_Subset, FS_CardinalityType DEF GoalInv
<1>4. /\ cycles # <<>> => Len(cycles) \in DOMAIN cycles /\ Len(cycles) # 0
      /\ DOMAIN cycles = 1 .. Len(cycles) /\ Len(cycles) \in Nat
  BY <1>1
<1>5. Room \in Int
  BY <1>2, <1>3, <1>4 DEF Room
<1> QED
  BY <1>2, <1>3, <1>4, <1>5

\* A step that changes no plan and gives no cycle another task.
PlansStay ==
    /\ Len(cycles') = Len(cycles) /\ DOMAIN cycles' = DOMAIN cycles
    /\ \A n \in DOMAIN cycles : cycles'[n].plan = cycles[n].plan
    /\ \A u \in TaskIds : tasks'[u].cycle = tasks[u].cycle

LEMMA RoomStays ==
  ASSUME GoalInv, GrantInv, PlansStay
  PROVE  PlanOf' = PlanOf /\ Room' = Room /\ GrantsAreKept' /\ View'.newest = View.newest
<1>1. \A n : CycleTasks(n)' = CycleTasks(n)
  BY DEF CycleTasks, PlansStay
<1>2. PlanOf' = PlanOf
  BY DEF PlanOf, PlansStay
<1>3. cycles' = <<>> <=> cycles = <<>>
  BY DEF PlansStay, GoalInv
<1>4. Room' = Room
  BY <1>1, <1>3, RoomIsInt DEF Room, PlansStay
<1>5. GrantsAreKept'
  BY <1>1 DEF GrantsAreKept, GrantInv, PlansStay
<1> QED
  BY <1>2, <1>4, <1>5 DEF View, PlansStay

LEMMA OthersStand ==
  ASSUME GoalInv, PhaseInv, GrantInv, PlansStay, NEW d \in Callers,
         View'.phase = View.phase \/ d = User \/ View.phase # "dispatching"
  PROVE  HashInOrder(d, script[d], View', PlanOf') /\ CreatesInOrder(script[d], View', Room')
<1>1. PlanOf' = PlanOf /\ Room' = Room /\ View'.newest = View.newest
  BY RoomStays
<1>2. /\ InOrder(d, script[d], View) /\ User # Worker
      /\ HashInOrder(d, script[d], View, PlanOf) /\ CreatesInOrder(script[d], View, Room)
  BY BoundAssumption DEF PhaseInv, GrantInv
<1> HIDE DEF View, PlanOf, Room
<1> QED
  BY <1>1, <1>2, GrantsStand

LEMMA QuietStep ==
  ASSUME GoalInv, PhaseInv, GrantInv, PlansStay,
         NEW c \in Callers, script[c] # <<>>, NEW T, NEW t \in Seq(T), Then(c, t),
         \A k \in DOMAIN t : t[k].do \notin {"set_hash", "create_task"},
         This(c).do \notin {"set_hash", "create_task"},
         This(c).do \in GoalWrites => \A k \in DOMAIN t : t[k].do \in GoalWrites,
         \/ View'.phase = View.phase
         \/ This(c).do \notin GoalWrites /\ (c = Worker \/ View.phase # "dispatching")
  PROVE  GrantInv'
<1> DEFINE S == Steps(Len(cycles)) \cup T
           s == script[c]
<1>1. s \in Seq(S) /\ t \in Seq(S) /\ This(c) = Head(s) /\ DOMAIN script = Callers
  <2>1. s \in Seq(Steps(Len(cycles)))
    BY DEF GoalInv
  <2> QED
    BY <2>1 DEF GoalInv, This
<1>2. script'[c] = t \o Tail(s) /\ \A d \in Callers : d # c => script'[d] = script[d]
  BY <1>1 DEF Then
<1>3. /\ PlanOf' = PlanOf /\ Room' = Room /\ GrantsAreKept' /\ View'.newest = View.newest
      /\ Room \in Int
  BY RoomStays, RoomIsInt
<1>4. ASSUME NEW d \in Callers, d # c
      PROVE  HashInOrder(d, script'[d], View', PlanOf') /\ CreatesInOrder(script'[d], View', Room')
  <2>1. c = Worker => d = User
    BY <1>4 DEF Callers
  <2> HIDE DEF View, PlanOf, Room
  <2> QED
    BY <1>2, <1>4, <2>1, OthersStand
<1>5. /\ HashInOrder(c, s, View, PlanOf) /\ CreatesInOrder(s, View, Room)
  BY DEF GrantInv
<1> DEFINE v == View
           w == View'
           p == PlanOf
           q == PlanOf'
           r == Room
           x == Room'
<1> HIDE DEF S, v, w, p, q, r, x
<1>6. HashInOrder(c, t \o Tail(s), w, q) /\ CreatesInOrder(t \o Tail(s), w, x)
  <2>1. /\ w.newest = v.newest /\ q = p /\ x = r /\ r \in Int /\ x \in Int
        /\ w.phase = v.phase \/ Head(s).do \notin GoalWrites
    BY <1>1, <1>3 DEF v, w, p, q, r, x
  <2>2. /\ HashInOrder(c, s, v, p) /\ CreatesInOrder(s, v, r)
    BY <1>5 DEF v, p, r
  <2>3. \/ /\ Head(s).do \in GoalWrites /\ \A k \in DOMAIN t : t[k].do \in GoalWrites
           /\ w.phase = v.phase /\ w.newest = v.newest /\ q = p /\ x = r
        \/ /\ Head(s).do \notin GoalWrites
           /\ Head(s).do = "set_hash" =>
                 /\ Head(s).plan.granted = 0
                 /\ Head(s).n = v.newest /\ v.phase = "dispatching" => 0 <= x
           /\ Head(s).do = "create_task" => x = r - 1
           /\ Head(s).do \notin {"set_hash", "create_task"} => x = r
    BY <1>1, <2>1
  <2> QED
    BY <1>1, <2>1, <2>2, <2>3, GrantsGoOn
<1>7. ASSUME NEW d \in Callers
      PROVE  HashInOrder(d, script'[d], View', PlanOf') /\ CreatesInOrder(script'[d], View', Room')
  BY <1>2, <1>4, <1>6 DEF w, q, x
<1> QED
  BY <1>3, <1>7 DEF GrantInv

LEMMA QuietEnd ==
  ASSUME GoalInv, PhaseInv, GrantInv, PlansStay, View'.phase = View.phase,
         NEW c \in Callers, NEW t, script' = [script EXCEPT ![c] = t],
         \A k \in DOMAIN t : t[k].do \notin {"set_hash", "create_task"}
  PROVE  GrantInv'
<1>1. DOMAIN script = Callers /\ script'[c] = t /\ \A d \in Callers : d # c => script'[d] = script[d]
  BY DEF GoalInv
<1>2. GrantsAreKept'
  BY RoomStays
<1>3. ASSUME NEW d \in Callers
      PROVE  HashInOrder(d, script'[d], View', PlanOf') /\ CreatesInOrder(script'[d], View', Room')
  <2> HIDE DEF View, PlanOf, Room
  <2> QED
    BY <1>1, OthersStand, NothingGranted
<1> QED
  BY <1>2, <1>3 DEF GrantInv


\* What leaves the rows of cycles alone, or their plans.
LEMMA PlansLeft ==
  ASSUME GoalInv, UNCHANGED cycles, \A u \in TaskIds : tasks'[u].cycle = tasks[u].cycle
  PROVE  PlansStay /\ View'.phase = View.phase
BY DEF PlansStay, View

LEMMA RowTurns ==
  ASSUME GoalInv, UNCHANGED tasks, NEW n \in DOMAIN cycles, NEW row, row.plan = cycles[n].plan,
         cycles' = [cycles EXCEPT ![n] = row]
  PROVE  PlansStay /\ (row.status = cycles[n].status => View'.phase = View.phase)
<1>1. cycles \in Seq(CycleRows)
  BY DEF GoalInv
<1>2. DOMAIN cycles = 1 .. Len(cycles) /\ Len(cycles) \in Nat
  BY <1>1
<1>3. DOMAIN cycles' = 1 .. Len(cycles) /\ cycles' \in Seq(CycleRows \cup {row})
  <2>1. cycles \in Seq(CycleRows \cup {row})
    BY <1>1, SeqsGrow
  <2> QED
    BY <1>2, <2>1
<1>4. Len(cycles') = Len(cycles)
  BY <1>2, <1>3
<1>5. /\ cycles'[n] = row /\ \A m \in DOMAIN cycles : m # n => cycles'[m] = cycles[m]
  OBVIOUS
<1>6. PlansStay
  BY <1>2, <1>3, <1>4, <1>5 DEF PlansStay
<1>7. ASSUME row.status = cycles[n].status
      PROVE  View'.phase = View.phase
  <2>1. cycles # <<>> /\ cycles' # <<>> /\ Len(cycles) \in DOMAIN cycles
    BY <1>2, <1>4
  <2>2. cycles'[Len(cycles)].status = cycles[Len(cycles)].status
    BY <1>5, <1>7, <2>1
  <2> QED
    BY <1>4, <2>1, <2>2 DEF View
<1> QED
  BY <1>6, <1>7

LEMMA NoneOrOne ==
  ASSUME NEW x, NEW t, t = <<>> \/ t = <<x>>
  PROVE  t \in Seq({x}) /\ \A k \in DOMAIN t : t[k] = x
<1>1. CASE t = <<>>
  <2>1. <<>> \in Seq({x}) /\ DOMAIN <<>> = {}
    OBVIOUS
  <2> QED
    BY <1>1, <2>1
<1>2. CASE t = <<x>>
  BY <1>2, Single
<1> QED
  BY <1>1, <1>2

LEMMA ObserveGrants ==
  ASSUME GoalInv, PhaseInv, GrantInv, NEW c \in Callers, Observe(c)
  PROVE  GrantInv'
<1> DEFINE x == [do |-> "look", status |-> goal.status]
<1>1. script[c] # <<>> /\ This(c).do = "observe" /\ UNCHANGED <<goal, cycles, tasks>>
  BY DEF Observe, At, This
<1>2. PICK t : Then(c, t) /\ (t = <<>> \/ t = <<x>>)
  BY DEF Observe, When
<1>3. x.do = "look"
  OBVIOUS
<1> HIDE DEF x, View
<1>4. t \in Seq({x}) /\ \A k \in DOMAIN t : t[k] = x
  BY <1>2, NoneOrOne
<1>5. PlansStay /\ View'.phase = View.phase
  BY <1>1, PlansLeft
<1> QED
  BY <1>1, <1>2, <1>3, <1>4, <1>5, QuietStep DEF GoalWrites

LEMMA LinkCycleGrants ==
  ASSUME GoalInv, PhaseInv, GrantInv, NEW c \in Callers, LinkCycle(c)
  PROVE  GrantInv'
<1>1. script[c] # <<>> /\ This(c).do = "link_cycle" /\ UNCHANGED <<cycles, tasks>> /\ Then(c, <<>>)
  BY DEF LinkCycle, At, This
<1>2. PlansStay /\ View'.phase = View.phase
  BY <1>1, PlansLeft
<1> HIDE DEF View
<1>3. <<>> \in Seq({}) /\ DOMAIN <<>> = {}
  OBVIOUS
<1> QED
  BY <1>1, <1>2, <1>3, QuietStep DEF GoalWrites

\* The checks and the writes they are for.
LEMMA CheckGrants ==
  ASSUME GoalInv, PhaseInv, GrantInv, NEW c \in Callers,
         CheckGoal(c) \/ CheckGoalIf(c) \/ CheckCycle(c) \/ WriteGoal(c)
  PROVE  GrantInv'
<1> DEFINE h == This(c)
<1>1. script[c] # <<>> /\ UNCHANGED <<cycles, tasks>>
  BY DEF CheckGoal, CheckGoalIf, CheckCycle, WriteGoal, At
<1>2. PlansStay /\ View'.phase = View.phase
  BY <1>1, PlansLeft
<1>3. ASSUME Fails(c)
      PROVE  GrantInv'
  <2>1. script' = [script EXCEPT ![c] = <<>>] /\ DOMAIN <<>> = {}
    BY <1>3 DEF Fails
  <2> HIDE DEF View
  <2> QED
    BY <1>2, <2>1, QuietEnd
<1>4. ASSUME NEW x, NEW t, Then(c, t), t = <<>> \/ t = <<x>>, x.do \notin {"set_hash", "create_task"},
             h.do \notin {"set_hash", "create_task"}, h.do \in GoalWrites => x.do \in GoalWrites
      PROVE  GrantInv'
  <2>1. t \in Seq({x}) /\ \A k \in DOMAIN t : t[k] = x
    BY <1>4, NoneOrOne
  <2> HIDE DEF View
  <2> QED
    BY <1>1, <1>2, <1>4, <2>1, QuietStep
<1>5. CASE CheckGoal(c)
  <2> DEFINE x == [do |-> "write_goal", to |-> h.to]
  <2>1. h.do = "move_goal" /\ x.do = "write_goal" /\ (Then(c, <<x>>) \/ Fails(c))
    BY <1>5 DEF CheckGoal, At, This
  <2> HIDE DEF x, h
  <2> QED
    BY <1>3, <1>4, <2>1 DEF GoalWrites
<1>6. CASE CheckGoalIf(c)
  <2> DEFINE x == MoveGoal(h.to)
  <2>1. h.do = "move_goal_if" /\ x.do = "move_goal" /\ (Then(c, <<x>>) \/ Then(c, <<>>))
    BY <1>6 DEF CheckGoalIf, At, This, MoveGoal, When
  <2> HIDE DEF x, h
  <2> QED
    BY <1>4, <2>1 DEF GoalWrites
<1>7. CASE CheckCycle(c)
  <2> DEFINE x == [h EXCEPT !.do = "write_cycle"]
  <2>1. h.do = "move_cycle" /\ (Then(c, <<x>>) \/ Fails(c))
    BY <1>7 DEF CheckCycle, At, This
  <2>2. x.do = "write_cycle"
    <3>1. h \in Steps(Len(cycles)) /\ Len(cycles) \in Nat
      BY <1>1, HeadMeans DEF GoalInv
    <3>2. h \in [do : {"move_cycle"}, n : 1 .. Len(cycles), to : CycleGoes]
      BY <2>1, <3>1 DEF Steps, Plain, Front, TaskCalls
    <3> QED
      BY <3>2
  <2> HIDE DEF x, h
  <2> QED
    BY <1>3, <1>4, <2>1, <2>2 DEF GoalWrites
<1>8. CASE WriteGoal(c)
  <2> DEFINE x == [do |-> "write_goal"]
  <2>1. h.do = "write_goal" /\ Then(c, <<>>) /\ x.do = "write_goal"
    BY <1>8 DEF WriteGoal, At, This
  <2> HIDE DEF x, h
  <2> QED
    BY <1>4, <2>1 DEF GoalWrites
<1> QED
  BY <1>5, <1>6, <1>7, <1>8

LEMMA WriteCycleGrants ==
  ASSUME GoalInv, PhaseInv, GrantInv, NEW c \in Callers, WriteCycle(c)
  PROVE  GrantInv'
<1> DEFINE h == This(c)
           row == [cycles[h.n] EXCEPT !.status = h.to]
<1>1. /\ script[c] # <<>> /\ h.do = "write_cycle" /\ UNCHANGED <<goal, tasks>>
      /\ cycles' = [cycles EXCEPT ![h.n].status = h.to] /\ Then(c, <<>>)
  BY DEF WriteCycle, At, This
<1>2. Means(c, h, View) /\ (c = Worker \/ c = User) /\ h \in Steps(Len(cycles)) /\ Len(cycles) \in Nat
  BY <1>1, HeadMeans DEF GoalInv
<1>3. h.n \in 1 .. Len(cycles)
  BY <1>1, <1>2, StepsRead
<1>4. h.n \in DOMAIN cycles /\ cycles[h.n] \in CycleRows
  BY <1>3 DEF GoalInv
<1>5. row.plan = cycles[h.n].plan /\ cycles' = [cycles EXCEPT ![h.n] = row]
  BY <1>1, <1>4 DEF CycleRows
<1> HIDE DEF h, row, View
<1>6. PlansStay
  BY <1>1, <1>4, <1>5, RowTurns
<1>7. c = Worker \/ View.phase # "dispatching"
  <2>1. CASE c = User
    <3>1. UserMeans(h, View) /\ (h.to \in Closing => View.phase \in {"reviewing"} \cup Closing)
      BY <1>1, <1>2, <2>1, MeansWhat
    <3> QED
      BY <1>1, <3>1 DEF UserMeans, CycleWrites, Closing
  <2> QED
    BY <1>2, <2>1
<1>8. <<>> \in Seq({}) /\ DOMAIN <<>> = {}
  OBVIOUS
<1> QED
  BY <1>1, <1>6, <1>7, <1>8, QuietStep DEF GoalWrites, h


\* A statement that reads, or writes a task's status or a team's.
LEMMA ReadGrants ==
  ASSUME GoalInv, PhaseInv, GrantInv, PlansStay, View'.phase = View.phase,
         NEW c \in Callers, script[c] # <<>>, NEW C, NEW t \in Seq(C), Then(c, t),
         \A x \in C : x.do \notin {"set_hash", "create_task"},
         This(c).do \notin {"set_hash", "create_task"} \cup GoalWrites
  PROVE  GrantInv'
<1>1. \A k \in DOMAIN t : t[k] \in C
  OBVIOUS
<1> HIDE DEF View
<1> QED
  BY <1>1, QuietStep

LEMMA QuietFails ==
  ASSUME GoalInv, PhaseInv, GrantInv, PlansStay, View'.phase = View.phase,
         NEW c \in Callers, Fails(c)
  PROVE  GrantInv'
<1>1. script' = [script EXCEPT ![c] = <<>>] /\ DOMAIN <<>> = {}
  BY DEF Fails
<1> HIDE DEF View
<1> QED
  BY <1>1, QuietEnd

LEMMA CallTaskGrants ==
  ASSUME GoalInv, PhaseInv, GrantInv, NEW c \in Callers, CallTask(c)
  PROVE  GrantInv'
<1>1. PICK do \in DOMAIN TaskCalls :
         /\ At(c, do)
         /\ \/ /\ tasks' = [tasks EXCEPT ![This(c).task].status = TaskCalls[do]]
               /\ Then(c, <<>>)
            \/ (Then(c, <<>>) \/ Fails(c)) /\ UNCHANGED tasks
         /\ UNCHANGED <<goal, cycles>>
  BY DEF CallTask
<1>2. script[c] # <<>> /\ This(c).do \notin {"set_hash", "create_task"} \cup GoalWrites
  BY <1>1 DEF At, This, TaskCalls, GoalWrites
<1>3. \A u \in TaskIds : tasks'[u].cycle = tasks[u].cycle
  <2>1. tasks \in [TaskIds -> TaskRows]
    BY DEF GoalInv
  <2>2. \A u \in TaskIds : DOMAIN tasks[u] = {"status", "cycle"}
    BY <2>1 DEF TaskRows
  <2> QED
    BY <1>1, <2>1, <2>2 DEF TaskRows
<1>4. PlansStay /\ View'.phase = View.phase
  BY <1>1, <1>3, PlansLeft
<1> HIDE DEF View
<1>5. CASE Then(c, <<>>)
  <2>1. <<>> \in Seq({}) /\ DOMAIN <<>> = {}
    OBVIOUS
  <2> QED
    BY <1>2, <1>4, <1>5, <2>1, QuietStep
<1>6. CASE Fails(c)
  BY <1>4, <1>6, QuietFails
<1> QED
  BY <1>1, <1>5, <1>6

LEMMA ListTasksGrants ==
  ASSUME GoalInv, PhaseInv, GrantInv, NEW c \in Callers, ListTasks(c)
  PROVE  GrantInv'
<1> DEFINE h == This(c)
           N == Len(cycles)
<1>1. script[c] # <<>> /\ UNCHANGED <<goal, cycles, tasks>>
  BY DEF ListTasks, At
<1>2. PlansStay /\ View'.phase = View.phase
  BY <1>1, PlansLeft
<1>3. ASSUME NEW do, do \in {"accept_task", "resume_task"}, NEW st, st # "absent",
             NEW q \in Orders({t \in CycleTasks(h.n) : tasks[t].status = st}),
             Then(c, [i \in DOMAIN q |-> OnTask(do, q[i])]), h.do \in {"accept_ready", "resume_tasks"}
      PROVE  GrantInv'
  <2> DEFINE S == {t \in CycleTasks(h.n) : tasks[t].status = st}
             C == {OnTask(do, t) : t \in S}
             r == [i \in DOMAIN q |-> OnTask(do, q[i])]
  <2>1. IsFiniteSet(S)
    <3>1. S \subseteq {t \in TaskIds : tasks[t].status # "absent"}
      BY <1>3 DEF CycleTasks
    <3> QED
      BY <3>1, FS_Subset DEF GoalInv
  <2>2. Cardinality(S) \in Nat /\ q \in [1 .. Cardinality(S) -> S]
    BY <2>1, FS_CardinalityType DEF Orders
  <2>3. r \in Seq(C)
    <3>1. \A i \in DOMAIN q : OnTask(do, q[i]) \in C
      BY <2>2
    <3> HIDE DEF C, S
    <3> QED
      BY <2>2, <3>1
  <2>4. \A x \in C : x.do \notin {"set_hash", "create_task"}
    BY <1>3 DEF OnTask
  <2>5. Then(c, r)
    BY <1>3
  <2> HIDE DEF View, r, C
  <2> QED
    BY <1>1, <1>2, <1>3, <2>3, <2>4, <2>5, ReadGrants DEF GoalWrites
<1>4. CASE \/ h.do = "weigh" /\ Then(c, WeighScript(h.n))
           \/ h.do = "review" /\ Then(c, ReviewScript(h.n))
  <2> DEFINE b == MoveGoalIf({"running"}, "blocked")
             d == MoveGoalIf({"awaiting_review", "running"}, "blocked")
             x == MoveGoalIf({"running"}, "awaiting_review")
             y == On("review_team", h.n)
             z == MoveCycle(h.n, "reviewing")
             a == [do |-> "verdict", accepted |-> TRUE]
             C == {b, d, x, y, z, a}
  <2>1. WeighScript(h.n) = <<>> \/ WeighScript(h.n) = <<b>> \/ WeighScript(h.n) = <<x, y, z>>
    BY DEF WeighScript
  <2>2. ReviewScript(h.n) = <<d>> \/ ReviewScript(h.n) = <<x>> \/ ReviewScript(h.n) = <<x, a>>
    BY Single, Couple DEF ReviewScript, When
  <2>3. \A e \in C : e.do \notin {"set_hash", "create_task"}
    BY DEF MoveGoalIf, On, MoveCycle
  <2> HIDE DEF View, b, d, x, y, z, a
  <2>4. /\ <<>> \in Seq(C) /\ <<b>> \in Seq(C) /\ <<x, y, z>> \in Seq(C)
        /\ <<d>> \in Seq(C) /\ <<x>> \in Seq(C) /\ <<x, a>> \in Seq(C)
    OBVIOUS
  <2>5. PICK t \in Seq(C) : Then(c, t)
    BY <1>4, <2>1, <2>2, <2>4
  <2> HIDE DEF C
  <2> QED
    BY <1>1, <1>2, <1>4, <2>3, <2>5, ReadGrants DEF GoalWrites
<1>5. \/ h.do = "accept_ready" /\ \E q \in Orders({t \in CycleTasks(h.n) : tasks[t].status = "review_ready"}) :
                                      Then(c, [i \in DOMAIN q |-> OnTask("accept_task", q[i])])
      \/ h.do = "resume_tasks" /\ \E q \in Orders({t \in CycleTasks(h.n) : tasks[t].status = "blocked"}) :
                                      Then(c, [i \in DOMAIN q |-> OnTask("resume_task", q[i])])
      \/ h.do = "weigh" /\ Then(c, WeighScript(h.n))
      \/ h.do = "review" /\ Then(c, ReviewScript(h.n))
  BY DEF ListTasks, At, This
<1> QED
  BY <1>3, <1>4, <1>5

\* What changes the team of a cycle.
LEMMA TeamGrants ==
  ASSUME GoalInv, NEW n \in DOMAIN cycles, NEW team, UNCHANGED tasks,
         cycles' = [cycles EXCEPT ![n].team = team]
  PROVE  PlansStay /\ View'.phase = View.phase
<1> DEFINE row == [cycles[n] EXCEPT !.team = team]
<1>1. cycles[n] \in CycleRows
  BY DEF GoalInv
<1>2. row.plan = cycles[n].plan /\ row.status = cycles[n].status
  BY <1>1 DEF CycleRows
<1>3. cycles' = [cycles EXCEPT ![n] = row]
  OBVIOUS
<1> HIDE DEF row
<1> QED
  BY <1>2, <1>3, RowTurns

LEMMA TeamsGrants ==
  ASSUME GoalInv, PhaseInv, GrantInv, NEW c \in Callers,
         StaffTeam(c) \/ WriteTeam(c) \/ SyncTeam(c) \/ CloseTeam(c)
  PROVE  GrantInv'
<1> DEFINE h == This(c)
           N == Len(cycles)
<1>1. script[c] # <<>> /\ UNCHANGED <<goal, tasks>>
      /\ h.do \in {"plan_team", "staff_team", "move_team", "review_team", "close_team"}
  BY DEF StaffTeam, WriteTeam, SyncTeam, CloseTeam, At, This
<1>2. h.n \in DOMAIN cycles
  <2>1. N \in Nat /\ h \in Steps(N)
    BY <1>1, HeadMeans DEF GoalInv
  <2>2. h.n \in 1 .. N
    BY <1>1, <2>1, StepsRead
  <2> QED
    BY <2>2 DEF GoalInv
<1>3. ASSUME UNCHANGED cycles \/ \E team : cycles' = [cycles EXCEPT ![h.n].team = team]
      PROVE  PlansStay /\ View'.phase = View.phase
  BY <1>1, <1>2, <1>3, TeamGrants, PlansLeft
<1>4. ASSUME Then(c, <<>>), PlansStay, View'.phase = View.phase
      PROVE  GrantInv'
  <2>1. <<>> \in Seq({}) /\ DOMAIN <<>> = {}
    OBVIOUS
  <2>2. h.do \notin {"set_hash", "create_task"} \cup GoalWrites
    BY <1>1 DEF GoalWrites
  <2> HIDE DEF View
  <2> QED
    BY <1>1, <1>4, <2>1, <2>2, QuietStep
<1>5. CASE StaffTeam(c)
  <2> DEFINE team == cycles[h.n].team
             moves == IF h.do = "plan_team" THEN Staffing(team, "awaiting_plan_approval")
                      ELSE IF team = "awaiting_plan_approval" THEN <<"executing">>
                      ELSE Staffing(team, "executing")
             T == {"planning", "awaiting_plan_approval", "executing"}
             C == {MoveTeam(h.n, to) : to \in T}
             r == [i \in DOMAIN moves |-> MoveTeam(h.n, moves[i])]
  <2>1. Then(c, r) /\ cycles' = [cycles EXCEPT ![h.n].team = IF team = "none" THEN "draft" ELSE team]
    BY <1>5 DEF StaffTeam, This
  <2>2. moves \in Seq(T)
    <3>1. /\ \A last \in T : <<"planning", last>> \in Seq(T) /\ <<last>> \in Seq(T)
          /\ <<>> \in Seq(T) /\ {"awaiting_plan_approval", "executing"} \subseteq T
      OBVIOUS
    <3>2. \A last \in T : Staffing(team, last) \in Seq(T)
      BY <3>1 DEF Staffing
    <3> QED
      BY <3>1, <3>2
  <2>3. \A x \in C : x.do = "move_team"
    BY DEF MoveTeam
  <2>4. r \in Seq(C)
    <3>1. \A to \in T : MoveTeam(h.n, to) \in C
      OBVIOUS
    <3> HIDE DEF C, moves, T
    <3> QED
      BY <2>2, <3>1
  <2>5. PlansStay /\ View'.phase = View.phase
    <3> HIDE DEF View
    <3> QED
      BY <1>3, <2>1
  <2> HIDE DEF View, C, r
  <2> QED
    BY <1>1, <2>1, <2>3, <2>4, <2>5, ReadGrants DEF GoalWrites
<1>6. CASE WriteTeam(c)
  <2>1. PlansStay /\ View'.phase = View.phase
    <3>1. UNCHANGED cycles \/ cycles' = [cycles EXCEPT ![h.n].team = h.to]
      BY <1>6 DEF WriteTeam, This
    <3> HIDE DEF View
    <3> QED
      BY <1>3, <3>1
  <2>2. Then(c, <<>>) \/ Fails(c)
    BY <1>6 DEF WriteTeam
  <2> HIDE DEF View
  <2>3. CASE Fails(c)
    BY <2>1, <2>3, QuietFails
  <2> QED
    BY <1>4, <2>1, <2>2, <2>3
<1>7. CASE SyncTeam(c)
  <2> DEFINE x == MoveTeam(h.n, "awaiting_review")
  <2>1. UNCHANGED cycles /\ x.do = "move_team"
    BY <1>7 DEF SyncTeam, MoveTeam
  <2>2. PICK t : Then(c, t) /\ (t = <<>> \/ t = <<x>>)
    BY <1>7 DEF SyncTeam, When, This
  <2> HIDE DEF View, x
  <2>3. t \in Seq({x})
    BY <2>2, NoneOrOne
  <2> QED
    BY <1>1, <1>3, <2>1, <2>2, <2>3, ReadGrants DEF GoalWrites
<1>8. CASE CloseTeam(c)
  <2>1. Then(c, <<>>) /\ \E team : cycles' = [cycles EXCEPT ![h.n].team = team]
    BY <1>8 DEF CloseTeam, This
  <2> HIDE DEF View
  <2> QED
    BY <1>3, <1>4, <2>1
<1> QED
  BY <1>5, <1>6, <1>7, <1>8


\* What the caller has after a step, and what the other one has.
LEMMA GrantsTurn ==
  ASSUME GoalInv, NEW c \in Callers, NEW u, script' = [script EXCEPT ![c] = u], GrantsAreKept',
         HashInOrder(c, u, View', PlanOf'), CreatesInOrder(u, View', Room'),
         \A d \in Callers : d # c =>
            HashInOrder(d, script[d], View', PlanOf') /\ CreatesInOrder(script[d], View', Room')
  PROVE  GrantInv'
<1>1. script'[c] = u /\ \A d \in Callers : d # c => script'[d] = script[d]
  BY DEF GoalInv
<1>2. ASSUME NEW d \in Callers
      PROVE  HashInOrder(d, script'[d], View', PlanOf') /\ CreatesInOrder(script'[d], View', Room')
  <2> HIDE DEF View, PlanOf, Room
  <2> QED
    BY <1>1
<1> QED
  BY <1>2 DEF GrantInv

\* The user writes a plan only while the goal is judged, and creates no tasks.
LEMMA UserGrantsNothing ==
  ASSUME PhaseInv, View.goal \notin Judged
  PROVE  \A j \in DOMAIN script[User] : script[User][j].do \notin {"set_hash", "create_task"}
<1>1. ASSUME NEW j \in DOMAIN script[User]
      PROVE  script[User][j].do \notin {"set_hash", "create_task"}
  <2> DEFINE x == script[User][j]
  <2>1. Means(User, x, View)
    BY DEF PhaseInv, InOrder, Callers
  <2> HIDE DEF x, View
  <2>2. UserMeans(x, View)
    BY <2>1, MeansWhat
  <2>3. x.do \notin {"set_hash", "create_task"}
    BY <2>2 DEF UserMeans, GoalWrites, CycleWrites
  <2> QED
    BY <2>3 DEF x
<1> QED
  BY <1>1

\* While a cycle is being dispatched it has no tasks.
LEMMA DispatchedRoom ==
  ASSUME GoalInv, PhaseInv, View.phase = "dispatching"
  PROVE  /\ CycleTasks(Len(cycles)) = {} /\ Room = cycles[Len(cycles)].plan.granted
         /\ View.goal \notin Judged /\ cycles # <<>>
<1>1. ViewOK(View) /\ TablesInOrder
  BY DEF PhaseInv, TablesInOrder
<1>2. cycles # <<>>
  BY DEF View
<1> HIDE DEF View
<1>3. View.phase \notin Late
  BY DEF Late, Closing
<1>4. CycleTasks(Len(cycles)) = {}
  BY <1>1, <1>2, <1>3, RoomIsInt DEF TablesInOrder, CycleTasks
<1>5. Room = cycles[Len(cycles)].plan.granted
  <2>1. cycles[Len(cycles)].plan.granted \in Nat
    BY <1>2, RoomIsInt
  <2> QED
    BY <1>2, <1>4, <2>1, FS_EmptySet DEF Room
<1> QED
  BY <1>1, <1>2, <1>3, <1>4, <1>5 DEF ViewOK

\* Its plan may be another one: the tasks it will have follow.
LEMMA WriteHashGrants ==
  ASSUME GoalInv, PhaseInv, GrantInv, NEW c \in Callers, WriteHash(c)
  PROVE  GrantInv'
<1> DEFINE h == This(c)
           N == Len(cycles)
           row == [cycles[h.n] EXCEPT !.hash = h.hash, !.plan = h.plan]
           s == script[c]
           u == <<>> \o Tail(s)
           S == Steps(N)
<1>1. s # <<>> /\ h.do = "set_hash" /\ UNCHANGED <<goal, tasks>> /\ script' = [script EXCEPT ![c] = u]
  BY DEF WriteHash, At, This, Then
<1>2. N \in Nat /\ h \in S /\ cycles \in Seq(CycleRows) /\ s \in Seq(S) /\ h = Head(s) /\ s[1] = h
      /\ 1 \in DOMAIN s /\ (c = Worker \/ c = User)
  <2>1. s \in Seq(S) /\ s # <<>> /\ h = Head(s)
    BY <1>1 DEF GoalInv, This
  <2>2. s[1] = h /\ 1 \in DOMAIN s
    BY <2>1
  <2> QED
    BY <1>1, <2>1, <2>2, HeadMeans DEF GoalInv
<1>3. h.n \in 1 .. N /\ h.plan \in Plans
  BY <1>1, <1>2, StepsRead
<1>4. cycles[h.n] \in CycleRows /\ h.n \in DOMAIN cycles /\ h.plan.granted \in Nat
  BY <1>2, <1>3 DEF Plans, MaxParallelAgents
<1>5. /\ cycles' = [cycles EXCEPT ![h.n] = row] /\ row.status = cycles[h.n].status
      /\ row.plan = h.plan
  BY <1>2, <1>3, <1>4 DEF WriteHash, CycleRows
<1>6. HashInOrder(c, s, View, PlanOf) /\ CreatesInOrder(s, View, Room)
  BY DEF GrantInv
<1>7. \/ h.plan = PlanOf[h.n]
      \/ c = Worker /\ View.phase = "dispatching" /\ h.n = View.newest
  <2> HIDE DEF h, View, PlanOf
  <2> QED
    BY <1>1, <1>2, <1>6 DEF HashInOrder
<1>8. PlanOf[h.n] = cycles[h.n].plan /\ View.newest = N
  BY <1>4 DEF PlanOf, View
<1>9. View'.phase = View.phase /\ View'.newest = N
  <2>1. cycles' # <<>> /\ cycles # <<>> /\ Len(cycles') = N /\ N \in DOMAIN cycles
        /\ cycles'[N].status = cycles[N].status
    BY <1>2, <1>3, <1>5
  <2> QED
    BY <2>1 DEF View
<1>10. DOMAIN cycles' = DOMAIN cycles /\ Len(cycles') = N /\ cycles' # <<>> /\ cycles # <<>>
       /\ cycles'[h.n].plan = h.plan
       /\ \A n \in DOMAIN cycles : n # h.n => cycles'[n] = cycles[n]
  BY <1>2, <1>3, <1>5
<1>11. \A n : CycleTasks(n)' = CycleTasks(n)
  BY <1>1 DEF CycleTasks
<1>12. Room \in Int /\ Room' \in Int
  <2>1. GrantsAreKept /\ Room \in Int
    BY RoomIsInt DEF GrantInv
  <2>2. cycles'[N].plan.granted \in Nat /\ Cardinality(CycleTasks(N)) \in Nat
    BY <1>2, <1>3, <1>4, <1>10, RoomIsInt
  <2> QED
    BY <1>10, <1>11, <2>1, <2>2 DEF Room
<1>13. h.n = N /\ View.phase = "dispatching" => Room' = h.plan.granted /\ CycleTasks(N) = {}
  <2>1. SUFFICES ASSUME h.n = N, View.phase = "dispatching"
                 PROVE  Room' = h.plan.granted /\ CycleTasks(N) = {}
    OBVIOUS
  <2>2. CycleTasks(N) = {}
    BY <2>1, DispatchedRoom
  <2>3. Cardinality(CycleTasks(N)) = 0
    BY <2>2, FS_EmptySet
  <2>4. Room' = cycles'[N].plan.granted - Cardinality(CycleTasks(N))
    BY <1>10, <1>11 DEF Room
  <2>5. cycles'[N].plan.granted = h.plan.granted /\ h.plan.granted \in Nat
    BY <1>4, <1>10, <2>1
  <2> HIDE DEF h, row
  <2> QED
    BY <2>2, <2>3, <2>4, <2>5
<1>14. GrantsAreKept' /\ (h.plan = PlanOf[h.n] => PlansStay)
  <2>1. h.plan = PlanOf[h.n] => PlansStay
    BY <1>1, <1>8, <1>10 DEF PlansStay
  <2>2. CASE h.plan = PlanOf[h.n]
    BY <2>1, <2>2, RoomStays
  <2>3. CASE View.phase = "dispatching" /\ h.n = View.newest
    <3>1. CycleTasks(N) = {}
      BY <1>8, <1>13, <2>3
    <3>2. Cardinality(CycleTasks(N)) = 0 /\ h.n = N
      BY <1>8, <2>3, <3>1, FS_EmptySet
    <3> HIDE DEF row, View, h
    <3>3. ASSUME NEW n \in DOMAIN cycles
          PROVE  Cardinality(CycleTasks(n)) <= cycles'[n].plan.granted
      <4>1. CASE n = N
        BY <1>4, <1>10, <3>2, <4>1
      <4>2. CASE n # N
        BY <1>10, <3>2, <4>2 DEF GrantInv, GrantsAreKept
      <4> QED
        BY <4>1, <4>2
    <3>4. \A n \in DOMAIN cycles : Cardinality(CycleTasks(n)') <= cycles'[n].plan.granted
      BY <1>11, <3>3
    <3> QED
      BY <1>10, <2>1, <3>4 DEF GrantsAreKept
  <2> QED
    BY <1>7, <2>1, <2>2, <2>3
<1>15. HashInOrder(c, u, View', PlanOf') /\ CreatesInOrder(u, View', Room')
  <2> DEFINE v == View
             w == View'
             p == PlanOf
             q == PlanOf'
             r == Room
             x == Room'
             g == h.plan.granted
  <2>1. /\ HashInOrder(c, s, v, p) /\ CreatesInOrder(s, v, r) /\ g \in Int /\ r \in Int /\ x \in Int
        /\ h.n = v.newest /\ v.phase = "dispatching" => g <= x
    BY <1>4, <1>6, <1>8, <1>12, <1>13
  <2>2. Head(s).do = "set_hash" /\ Head(s).n = h.n /\ Head(s).plan.granted = g
    BY <1>1, <1>2
  <2>3. s \in Seq(S) /\ s # <<>> /\ <<>> \in Seq(S) /\ DOMAIN <<>> = {}
    BY <1>1, <1>2
  <2> HIDE DEF h, v, w, p, q, r, x, g, s, S
  <2>4. HashInOrder(c, <<>> \o Tail(s), w, q) /\ CreatesInOrder(<<>> \o Tail(s), w, x)
    BY <2>1, <2>2, <2>3, GrantsGoOn DEF GoalWrites
  <2> QED
    BY <2>4 DEF w, q, x
<1>16. ASSUME NEW d \in Callers, d # c
       PROVE  HashInOrder(d, script[d], View', PlanOf') /\ CreatesInOrder(script[d], View', Room')
  <2>1. CASE h.plan = PlanOf[h.n]
    <3>1. PlansStay
      BY <1>14, <2>1
    <3> HIDE DEF View, PlanOf, Room
    <3> QED
      BY <1>9, <3>1, OthersStand
  <2>2. CASE c = Worker /\ View.phase = "dispatching"
    <3>1. d = User /\ View.goal \notin Judged
      BY <1>16, <2>2, DispatchedRoom DEF Callers
    <3>2. \A j \in DOMAIN script[d] : script[d][j].do \notin {"set_hash", "create_task"}
      BY <3>1, UserGrantsNothing
    <3> HIDE DEF View, PlanOf, Room
    <3> QED
      BY <3>2, NothingGranted
  <2> QED
    BY <1>7, <2>1, <2>2
<1> HIDE DEF View, PlanOf, Room, u
<1> QED
  BY <1>1, <1>14, <1>15, <1>16, GrantsTurn

LEMMA CreateTaskGrants ==
  ASSUME GoalInv, PhaseInv, GrantInv, NEW c \in Callers, NEW t \in TaskIds, CreateTask(c, t)
  PROVE  GrantInv'
<1> DEFINE h == This(c)
           N == Len(cycles)
           a == OnTask("queue_task", t)
           s == script[c]
           S == Steps(N) \cup {a}
           u == <<a>> \o Tail(s)
<1>1. /\ s # <<>> /\ h.do = "create_task" /\ UNCHANGED <<goal, cycles>> /\ tasks[t].status = "absent"
      /\ script' = [script EXCEPT ![c] = u]
      /\ tasks' = [tasks EXCEPT ![t] = [status |-> "proposed", cycle |-> h.n]]
  BY DEF CreateTask, At, This, Then
<1>2. c = Worker /\ WorkerMeans(h, View)
  BY <1>1, WorkersOwn
<1>3. s \in Seq(S) /\ h = Head(s) /\ s[1] = h /\ 1 \in DOMAIN s /\ N \in Nat /\ Len(s) \in Nat
  <2>1. s \in Seq(Steps(N)) /\ s # <<>> /\ h = Head(s)
    BY <1>1 DEF GoalInv, This
  <2>2. s[1] = h /\ 1 \in DOMAIN s /\ s \in Seq(S)
    BY <2>1, SeqsGrow
  <2> QED
    BY <1>1, <2>1, <2>2 DEF GoalInv
<1>4. h.n = N /\ N \in DOMAIN cycles /\ N # 0
  <2>1. h \in Steps(N)
    BY <1>1, HeadMeans
  <2>2. h.n \in 1 .. N
    BY <1>1, <1>3, <2>1, StepsRead
  <2>3. h.n = View.newest
    <3> HIDE DEF h, View
    <3> QED
      BY <1>1, <1>2 DEF WorkerMeans
  <2>4. View.newest = N
    BY DEF View
  <2> QED
    BY <2>2, <2>3, <2>4 DEF GoalInv
<1>5. View' = View /\ PlanOf' = PlanOf
  BY <1>1 DEF View, PlanOf
<1>6. HashInOrder(c, s, View, PlanOf) /\ CreatesInOrder(s, View, Room)
  BY DEF GrantInv
<1>7. 1 <= Room /\ Room \in Int
  <2>1. 1 < Len(s) /\ Len(s) - 1 <= Room
    <3>1. 1 .. (1 - 1) = {}
      OBVIOUS
    <3> HIDE DEF View, Room, h, s
    <3> QED
      BY <1>1, <1>3, <1>6, <3>1 DEF CreatesInOrder
  <2> QED
    BY <1>3, <2>1, RoomIsInt
<1>8. ASSUME NEW n \in DOMAIN cycles
      PROVE  CycleTasks(n)' = (IF n = N THEN CycleTasks(n) \cup {t} ELSE CycleTasks(n)) /\ t \notin CycleTasks(n)
  <2>1. tasks[t].cycle = 0 /\ DOMAIN tasks = TaskIds /\ n # 0
    BY <1>1, RoomIsInt DEF GoalInv, GoalTypeOK
  <2>2. \A b \in TaskIds : tasks'[b].cycle = IF b = t THEN N ELSE tasks[b].cycle
    BY <1>1, <1>4, <2>1
  <2> HIDE DEF h, N
  <2>3. CycleTasks(n)' = {b \in TaskIds : (IF b = t THEN N ELSE tasks[b].cycle) = n}
    BY <2>2 DEF CycleTasks
  <2> QED
    BY <2>1, <2>3 DEF CycleTasks
<1>9. ASSUME NEW n \in DOMAIN cycles
      PROVE  Cardinality(CycleTasks(n)') = Cardinality(CycleTasks(n)) + IF n = N THEN 1 ELSE 0
  <2>1. IsFiniteSet(CycleTasks(n)) /\ Cardinality(CycleTasks(n)) \in Nat
    BY RoomIsInt
  <2>2. CASE n = N
    <3>1. CycleTasks(n)' = CycleTasks(n) \cup {t} /\ t \notin CycleTasks(n)
      BY <1>8, <2>2
    <3>2. Cardinality(CycleTasks(n) \cup {t}) = Cardinality(CycleTasks(n)) + 1
      BY <2>1, <3>1, FS_AddElement
    <3> QED
      BY <2>2, <3>1, <3>2
  <2>3. CASE n # N
    <3>1. CycleTasks(n)' = CycleTasks(n)
      BY <1>8, <2>3
    <3> QED
      BY <2>1, <2>3, <3>1
  <2> QED
    BY <2>2, <2>3
<1>10. Room' = Room - 1 /\ GrantsAreKept'
  <2>1. /\ \A n \in DOMAIN cycles :
              /\ cycles[n].plan.granted \in Nat /\ Cardinality(CycleTasks(n)) \in Nat
              /\ Cardinality(CycleTasks(n)) <= cycles[n].plan.granted
        /\ cycles # <<>>
    <3>1. \A n \in DOMAIN cycles : n # 0
      BY RoomIsInt
    <3> QED
      BY <1>4, <3>1, RoomIsInt DEF GrantInv, GrantsAreKept
  <2>2. Room = cycles[N].plan.granted - Cardinality(CycleTasks(N))
    BY <2>1 DEF Room
  <2>3. ASSUME NEW n \in DOMAIN cycles
        PROVE  Cardinality(CycleTasks(n)') <= cycles[n].plan.granted
    <3>1. CASE n = N
      BY <1>7, <1>9, <2>1, <2>2, <3>1
    <3>2. CASE n # N
      BY <1>9, <2>1, <3>2
    <3> QED
      BY <3>1, <3>2
  <2>4. GrantsAreKept'
    BY <1>1, <2>3 DEF GrantsAreKept
  <2>5. Room' = Room - 1
    <3>1. ASSUME NEW n \in DOMAIN cycles, n = N
          PROVE  Room' = cycles[n].plan.granted - Cardinality(CycleTasks(n)')
      BY <1>1, <2>1, <3>1 DEF Room
    <3> HIDE DEF N
    <3>2. PICK n \in DOMAIN cycles : n = N
      BY <1>4
    <3>3. Room' = cycles[n].plan.granted - (Cardinality(CycleTasks(n)) + 1)
      BY <1>9, <3>1, <3>2
    <3> QED
      BY <2>1, <2>2, <3>2, <3>3
  <2> QED
    BY <2>4, <2>5
<1>11. HashInOrder(c, u, View', PlanOf') /\ CreatesInOrder(u, View', Room')
  <2> DEFINE v == View
             w == View'
             p == PlanOf
             q == PlanOf'
             r == Room
             x == Room'
             b == <<a>>
  <2>1. /\ HashInOrder(c, s, v, p) /\ CreatesInOrder(s, v, r) /\ r \in Int /\ x = r - 1
    BY <1>6, <1>7, <1>10
  <2>2. Head(s).do = "create_task"
    BY <1>1, <1>3
  <2>3. s \in Seq(S) /\ s # <<>> /\ b \in Seq(S)
    BY <1>1, <1>3
  <2>4. \A k \in DOMAIN b : b[k].do \notin {"set_hash", "create_task"}
    BY DEF OnTask
  <2> HIDE DEF h, v, w, p, q, r, x, s, S, b
  <2>5. x \in Int
    BY <2>1
  <2>6. HashInOrder(c, b \o Tail(s), w, q) /\ CreatesInOrder(b \o Tail(s), w, x)
    BY <2>1, <2>2, <2>3, <2>4, <2>5, GrantsGoOn DEF GoalWrites
  <2> QED
    BY <2>6 DEF w, q, x, b
<1>12. ASSUME NEW d \in Callers, d # c
       PROVE  HashInOrder(d, script[d], View', PlanOf') /\ CreatesInOrder(script[d], View', Room')
  <2>1. d = User /\ InOrder(d, script[d], View) /\ User # Worker
    BY <1>2, <1>12, BoundAssumption DEF Callers, PhaseInv
  <2>2. HashInOrder(d, script[d], View, PlanOf) /\ CreatesInOrder(script[d], View, Room)
    BY DEF GrantInv
  <2>3. View'.phase = View.phase /\ View'.newest = View.newest
    BY <1>5
  <2> HIDE DEF View, PlanOf, Room
  <2> QED
    BY <1>5, <2>1, <2>2, <2>3, GrantsStand
<1> HIDE DEF View, PlanOf, Room, u
<1> QED
  BY <1>1, <1>10, <1>11, <1>12, GrantsTurn


LEMMA CreateCycleGrants ==
  ASSUME GoalInv, PhaseInv, GrantInv, NEW c \in Callers, CreateCycle(c)
  PROVE  GrantInv'
<1> DEFINE row == [ status |-> "observing", hash |-> NoHash, plan |-> NoPlan, team |-> "none" ]
           N == Len(cycles)
           x == On("link_cycle", N + 1)
           y == MoveCycle(N + 1, "orienting")
           s == script[c]
           u == <<x, y>> \o Tail(s)
<1>1. /\ s # <<>> /\ This(c).do = "create_cycle" /\ UNCHANGED <<goal, tasks>>
      /\ cycles' = Append(cycles, row) /\ script' = [script EXCEPT ![c] = u]
  BY DEF CreateCycle, At, This, Then
<1>2. c = Worker /\ WorkerMeans(This(c), View)
  BY <1>1, WorkersOwn
<1>3. u = <<x, y>>
  <2>1. s \in Seq(Steps(N)) /\ This(c) = Head(s) /\ InOrder(c, s, View)
    BY <1>1 DEF GoalInv, PhaseInv, This
  <2>2. \A z : ~ MayFollow(c, Head(s), z)
    BY <1>1, <2>1 DEF MayFollow
  <2>3. <<x, y>> \in Seq({x, y})
    OBVIOUS
  <2> HIDE DEF View, x, y, s
  <2> QED
    BY <1>1, <2>1, <2>2, <2>3, NothingFollows
<1>4. \A k \in DOMAIN <<x, y>> : <<x, y>>[k].do \notin {"set_hash", "create_task"}
  <2>1. x.do = "link_cycle" /\ y.do = "move_cycle"
    BY DEF On, MoveCycle
  <2> QED
    BY <2>1, Couple
<1>5. View.goal \notin Judged
  <2> HIDE DEF View
  <2> QED
    BY <1>1, <1>2 DEF WorkerMeans, Judged, Replanned
<1>6. ASSUME NEW d \in Callers, d # c
      PROVE  \A j \in DOMAIN script[d] : script[d][j].do \notin {"set_hash", "create_task"}
  <2>1. d = User
    BY <1>2, <1>6 DEF Callers
  <2> QED
    BY <1>5, <2>1, UserGrantsNothing
<1>7. GrantsAreKept'
  <2>1. /\ N \in Nat /\ DOMAIN cycles' = 1 .. (N + 1) /\ DOMAIN cycles = 1 .. N
        /\ cycles'[N + 1] = row /\ \A n \in 1 .. N : cycles'[n] = cycles[n]
    <3> DEFINE S == CycleRows \cup {row}
    <3>1. cycles \in Seq(CycleRows)
      BY DEF GoalInv
    <3>2. cycles \in Seq(S) /\ row \in S /\ N \in Nat
      BY <3>1, SeqsGrow
    <3> HIDE DEF S, row
    <3> QED
      BY <1>1, <3>2
  <2>2. row.plan.granted = 0
    BY DEF NoPlan
  <2>3. \A n : CycleTasks(n)' = CycleTasks(n)
    BY <1>1 DEF CycleTasks
  <2>4. CycleTasks(N + 1) = {}
    <3>1. \A t \in TaskIds : tasks[t].cycle \in 0 .. N
      BY DEF GoalInv, GoalTypeOK
    <3> QED
      BY <2>1, <3>1 DEF CycleTasks
  <2>5. Cardinality(CycleTasks(N + 1)) = 0
    BY <2>4, FS_EmptySet
  <2> HIDE DEF row, N
  <2>6. ASSUME NEW n \in DOMAIN cycles'
        PROVE  Cardinality(CycleTasks(n)) <= cycles'[n].plan.granted
    <3>1. CASE n = N + 1
      BY <2>1, <2>2, <2>5, <3>1
    <3>2. CASE n # N + 1
      <4>1. n \in DOMAIN cycles /\ cycles'[n] = cycles[n]
        BY <2>1, <3>2
      <4> QED
        BY <4>1 DEF GrantInv, GrantsAreKept
    <3> QED
      BY <3>1, <3>2
  <2>7. \A n \in DOMAIN cycles' : Cardinality(CycleTasks(n)') <= cycles'[n].plan.granted
    BY <2>3, <2>6
  <2> QED
    BY <2>7 DEF GrantsAreKept
<1> HIDE DEF x, y, u, View, PlanOf, Room
<1> QED
  BY <1>1, <1>3, <1>4, <1>6, <1>7, NothingGranted, GrantsTurn

LEMMA VerdictGrants ==
  ASSUME GoalInv, PhaseInv, GrantInv, NEW c \in Callers, Verdict(c)
  PROVE  GrantInv'
<1> DEFINE to == IF This(c).accepted THEN "accepted" ELSE "rework_required"
           n == goal.current
           t == VerdictScript(n, to)
           s == script[c]
           u == t \o Tail(s)
<1>1. s # <<>> /\ This(c).do = "verdict" /\ UNCHANGED <<goal, cycles, tasks>>
  BY DEF Verdict, At, This
<1>2. PlansStay /\ View'.phase = View.phase
  BY <1>1, PlansLeft
<1>3. CASE Fails(c)
  <2> HIDE DEF View
  <2> QED
    BY <1>2, <1>3, QuietFails
<1>4. CASE n # 0 /\ Then(c, t)
  <2>1. n \in DOMAIN cycles
    BY <1>4 DEF GoalInv, GoalTypeOK
  <2>2. t \in Seq(Plain(Len(cycles)))
    <3>1. n \in 1 .. Len(cycles) /\ to \in {"accepted", "rework_required"}
      BY <2>1 DEF GoalInv
    <3> HIDE DEF to, n
    <3> QED
      BY <3>1, ScriptsMade
  <2>3. u = t
    <3>1. s \in Seq(Steps(Len(cycles))) /\ This(c) = Head(s) /\ InOrder(c, s, View)
      BY <1>1 DEF GoalInv, PhaseInv, This
    <3>2. \A z : ~ MayFollow(c, Head(s), z)
      BY <1>1, <3>1 DEF MayFollow
    <3> HIDE DEF View, t, s
    <3> QED
      BY <1>1, <2>2, <3>1, <3>2, NothingFollows
  <2>4. HashInOrder(c, t, View', PlanOf') /\ CreatesInOrder(t, View', Room')
    <3> DEFINE s1 == SetHash(n, GraphHash, cycles[n].plan)
               s2 == MoveCycle(n, "summarizing")
               s3 == MoveCycle(n, "completed")
               s4 == [do |-> "close_team", n |-> n, to |-> to]
               s5 == MoveGoal(to)
    <3>1. t = <<s1, s2, s3, s4, s5>>
      BY DEF VerdictScript
    <3>2. /\ s1.do = "set_hash" /\ s1.n = n /\ s1.plan = cycles[n].plan
          /\ s2.do = "move_cycle" /\ s3.do = "move_cycle" /\ s4.do = "close_team"
          /\ s5.do = "move_goal"
      BY DEF SetHash, MoveCycle, MoveGoal
    <3>3. PlanOf'[n] = cycles[n].plan
      BY <1>1, <2>1 DEF PlanOf
    <3> HIDE DEF s1, s2, s3, s4, s5, n
    <3>4. /\ DOMAIN t = 1 .. 5
          /\ t[1] = s1 /\ t[2] = s2 /\ t[3] = s3 /\ t[4] = s4 /\ t[5] = s5
      BY <3>1
    <3> HIDE DEF t
    <3>5. \A j \in DOMAIN t : /\ t[j].do # "create_task"
                              /\ t[j].do = "set_hash" => j = 1
      BY <3>2, <3>4
    <3>6. 1 .. (1 - 1) = {}
      OBVIOUS
    <3> HIDE DEF View, PlanOf, Room
    <3> QED
      BY <3>2, <3>3, <3>4, <3>5, <3>6 DEF HashInOrder, CreatesInOrder
  <2>5. \A d \in Callers :
           HashInOrder(d, script[d], View', PlanOf') /\ CreatesInOrder(script[d], View', Room')
    <3> HIDE DEF View, PlanOf, Room
    <3> QED
      BY <1>2, OthersStand
  <2>6. GrantsAreKept'
    BY <1>2, RoomStays
  <2>7. script' = [script EXCEPT ![c] = u]
    BY <1>4 DEF Then
  <2> HIDE DEF View, PlanOf, Room, t, u
  <2> QED
    BY <2>3, <2>4, <2>5, <2>6, <2>7, GrantsTurn
<1> QED
  BY <1>3, <1>4 DEF Verdict


\* The INSERTs of a plan, each in front of the call for the team.
Trailing(t, g) ==
    \A j \in DOMAIN t :
        /\ t[j].do # "set_hash"
        /\ t[j].do = "create_task" => j < Len(t) /\ Len(t) - j <= g

LEMMA Trails ==
  ASSUME NEW S, NEW a \in Seq(S), NEW b \in Seq(S), NEW g \in Nat, Trailing(b, g),
         \A k \in DOMAIN a : a[k].do \notin {"set_hash", "create_task"}
  PROVE  Trailing(a \o b, g)
<1> DEFINE r == a \o b
<1>1. /\ Len(a) \in Nat /\ Len(b) \in Nat /\ Len(r) = Len(a) + Len(b)
      /\ DOMAIN a = 1 .. Len(a) /\ DOMAIN b = 1 .. Len(b) /\ DOMAIN r = 1 .. Len(r)
  OBVIOUS
<1>2. /\ \A k \in 1 .. Len(a) : r[k] = a[k]
      /\ \A k \in 1 .. Len(b) : r[Len(a) + k] = b[k]
  BY <1>1
<1> HIDE DEF r
<1>3. ASSUME NEW j \in DOMAIN r
      PROVE  r[j].do # "set_hash" /\ (r[j].do = "create_task" => j < Len(r) /\ Len(r) - j <= g)
  <2>1. CASE j <= Len(a)
    <3>1. j \in DOMAIN a /\ r[j] = a[j]
      BY <1>1, <1>2, <2>1
    <3> QED
      BY <3>1
  <2>2. CASE j > Len(a)
    <3>1. PICK k \in DOMAIN b : k = j - Len(a)
      BY <1>1, <2>2
    <3>2. j = Len(a) + k /\ r[j] = b[k] /\ k \in Int
      BY <1>1, <1>2, <3>1
    <3>3. b[k].do # "set_hash" /\ (b[k].do = "create_task" => k < Len(b) /\ Len(b) - k <= g)
      BY DEF Trailing
    <3> QED
      BY <1>1, <3>2, <3>3
  <2> QED
    BY <1>1, <2>1, <2>2
<1> QED
  BY <1>3 DEF Trailing, r

LEMMA ActTrails ==
  ASSUME NEW n, NEW plan \in Plans
  PROVE  /\ Trailing(Act(n, plan), plan.granted)
         /\ Act(n, plan) \in Seq({On("create_task", n), On("staff_team", n)})
<1> DEFINE x == On("create_task", n)
           y == On("staff_team", n)
           S == {x, y}
           b == Act(n, plan)
           g == [i \in 1 .. plan.granted |-> x]
<1>1. x.do = "create_task" /\ y.do = "staff_team"
  BY DEF On
<1>2. b = When(plan.granted > 0, g \o <<y>>)
  BY DEF Act
<1>3. plan.granted \in Nat
  BY DEF Plans, MaxParallelAgents
<1> HIDE DEF x, y
<1>4. CASE ~ plan.granted > 0
  <2>1. b = <<>>
    BY <1>2, <1>4 DEF When
  <2>2. b \in Seq(S) /\ DOMAIN b = {}
    BY <2>1
  <2> HIDE DEF b
  <2>3. Trailing(b, plan.granted)
    BY <2>2 DEF Trailing
  <2> QED
    BY <2>2, <2>3 DEF b, x, y
<1>5. CASE plan.granted > 0
  <2>1. g \in Seq(S) /\ Len(g) = plan.granted /\ \A i \in 1 .. plan.granted : g[i] = x
    BY <1>3
  <2>2. <<y>> \in Seq(S)
    OBVIOUS
  <2>3. b = g \o <<y>>
    BY <1>2, <1>5, Zenon DEF When
  <2> HIDE DEF g, b
  <2>4. /\ b \in Seq(S) /\ Len(b) = plan.granted + 1 /\ DOMAIN b = 1 .. Len(b)
        /\ \A i \in 1 .. plan.granted : b[i] = x
        /\ b[plan.granted + 1] = y
    BY <1>3, <2>1, <2>2, <2>3
  <2>5. ASSUME NEW j \in DOMAIN b
        PROVE  b[j].do # "set_hash" /\ (b[j].do = "create_task" => j < Len(b) /\ Len(b) - j <= plan.granted)
    <3>1. CASE j \in 1 .. plan.granted
      BY <1>1, <1>3, <2>4, <3>1
    <3>2. CASE j = plan.granted + 1
      BY <1>1, <2>4, <3>2
    <3> QED
      BY <1>3, <2>4, <3>1, <3>2
  <2>6. Trailing(b, plan.granted)
    BY <2>5 DEF Trailing
  <2> QED
    BY <2>4, <2>6 DEF b, x, y
<1> QED
  BY <1>4, <1>5

LEMMA Shifted ==
  ASSUME NEW la \in Int, NEW lu \in Int, NEW k \in 1 .. lu, NEW j \in Int, NEW m, NEW lb,
         lb = lu + 1, m = la + 1, k = j - m
  PROVE  k + 1 \in 1 .. lb /\ j = la + (k + 1) /\ j = m + k
<1>1. k \in Int /\ 1 <= k /\ k <= lu /\ m \in Int /\ lb \in Int
  OBVIOUS
<1>2. k + 1 \in 1 .. lb
  BY <1>1
<1>3. j = m + k
  BY <1>1
<1> QED
  BY <1>1, <1>2, <1>3

\* A plan is written, and what it is for follows.
LEMMA PlanFirst ==
  ASSUME NEW S, NEW a \in Seq(S), \A k \in DOMAIN a : a[k].do \in GoalWrites,
         NEW h \in S, h.do = "set_hash", NEW u \in Seq(S), NEW g \in Nat, Trailing(u, g),
         h.plan.granted = g, NEW v, h.n = v.newest, v.phase = "dispatching", NEW p, NEW room
  PROVE  LET t == a \o (<<h>> \o u)
         IN HashInOrder(Worker, t, v, p) /\ CreatesInOrder(t, v, room)
<1> DEFINE b == <<h>> \o u
           t == a \o b
           m == Len(a) + 1
<1>1. /\ b \in Seq(S) /\ Len(b) = Len(u) + 1 /\ Len(u) \in Nat /\ b[1] = h
      /\ DOMAIN u = 1 .. Len(u) /\ \A k \in 1 .. Len(u) : b[k + 1] = u[k]
  OBVIOUS
<1> HIDE DEF b
<1>2. /\ Len(a) \in Nat /\ Len(t) = Len(a) + Len(b) /\ DOMAIN t = 1 .. Len(t)
      /\ DOMAIN a = 1 .. Len(a)
      /\ \A k \in 1 .. Len(a) : t[k] = a[k]
      /\ \A k \in 1 .. Len(b) : t[Len(a) + k] = b[k]
  <2>1. b \in Seq(S)
    BY <1>1
  <2>2. Len(a) \in Nat /\ Len(b) \in Nat /\ Len(t) = Len(a) + Len(b) /\ DOMAIN t = 1 .. Len(t)
        /\ DOMAIN a = 1 .. Len(a)
    BY <2>1
  <2>3. \A k \in 1 .. Len(a) : t[k] = a[k]
    BY <2>1, <2>2
  <2>4. \A k \in 1 .. Len(b) : t[Len(a) + k] = b[k]
    BY <2>1, <2>2
  <2> QED
    BY <2>2, <2>3, <2>4
<1> HIDE DEF t
<1>3. t[m] = h /\ \A i \in 1 .. (m - 1) : t[i].do \in GoalWrites
  BY <1>1, <1>2
<1>4. ASSUME NEW j \in DOMAIN t, t[j].do \in {"set_hash", "create_task"}, j # m
      PROVE  \E k \in DOMAIN u : j = m + k /\ t[j] = u[k]
  <2>1. j > m
    <3>1. ~ (j \in 1 .. (m - 1))
      BY <1>3, <1>4 DEF GoalWrites
    <3> QED
      BY <1>2, <1>4, <3>1
  <2>2. PICK k \in 1 .. Len(u) : k = j - m
    BY <1>1, <1>2, <2>1
  <2> DEFINE la == Len(a)
             lu == Len(u)
             lb == Len(b)
  <2>3. k + 1 \in 1 .. lb /\ j = la + (k + 1) /\ j = m + k
    <3>1. la \in Int /\ lu \in Int /\ lb = lu + 1 /\ m = la + 1
      BY <1>1, <1>2
    <3>2. j \in Int
      BY <1>2, <1>4
    <3>3. k \in 1 .. lu /\ k = j - m
      BY <2>2
    <3> HIDE DEF la, lu, lb, m
    <3> QED
      BY <3>1, <3>2, <3>3, Shifted
  <2>4. t[j] = b[k + 1] /\ b[k + 1] = u[k]
    BY <1>1, <1>2, <2>2, <2>3
  <2> QED
    BY <1>1, <2>3, <2>4
<1>5. \A j \in DOMAIN t : t[j].do = "set_hash" => j = m
  BY <1>4 DEF Trailing
<1>6. HashInOrder(Worker, t, v, p)
  BY <1>3, <1>5 DEF HashInOrder
<1>7. ASSUME NEW j \in DOMAIN t, t[j].do = "create_task"
      PROVE  /\ j < Len(t)
             /\ \E i \in 1 .. (j - 1) :
                   /\ t[i].do = "set_hash" /\ t[i].n = v.newest
                   /\ v.phase = "dispatching" /\ Len(t) - j <= t[i].plan.granted
  <2>1. j # m
    BY <1>3, <1>7
  <2>2. PICK k \in DOMAIN u : j = m + k /\ t[j] = u[k]
    BY <1>4, <1>7, <2>1
  <2>3. k < Len(u) /\ Len(u) - k <= g
    BY <1>7, <2>2 DEF Trailing
  <2>4. j < Len(t) /\ Len(t) - j <= g /\ m \in 1 .. (j - 1)
    BY <1>1, <1>2, <2>2, <2>3
  <2> QED
    BY <1>3, <2>4
<1>8. CreatesInOrder(t, v, room)
  BY <1>7 DEF CreatesInOrder
<1> QED
  BY <1>6, <1>8 DEF t, b

\* What a tick of a cycle that is being dispatched does after it has written
\* the plan.
LEMMA DispatchTrails ==
  ASSUME NEW n, NEW s, NEW plan \in Plans, NEW gated
  PROVE  \/ DispatchScript(n, s, plan, gated) = <<>>
         \/ \E S, u : /\ u \in Seq(S) /\ Trailing(u, plan.granted)
                      /\ DispatchScript(n, s, plan, gated) = <<SetHash(n, GraphHash, plan)>> \o u
<1> DEFINE t == DispatchScript(n, s, plan, gated)
           h == SetHash(n, GraphHash, plan)
           x == MoveGoal("awaiting_plan_approval")
           y == On("plan_team", n)
           r == MoveGoal("running")
           m == MoveCycle(n, "executing")
           S == {m, x, y, r, On("create_task", n), On("staff_team", n)}
           a == Act(n, plan)
           held == s \in {"planning", "awaiting_plan_approval"}
           carried == plan.planned = 0 \/ plan.granted > 0
           u == IF gated /\ held THEN When(s = "planning", <<x>>) \o <<y>>
                ELSE When(gated => plan.clear, When(held, <<r>>) \o When(carried, <<m>> \o a))
<1>1. t = When(cycles[n].hash # GraphHash, <<h>> \o u)
  BY DEF DispatchScript, Execute
<1>2. x.do = "move_goal" /\ y.do = "plan_team" /\ r.do = "move_goal" /\ m.do = "move_cycle"
  BY DEF MoveGoal, MoveCycle, On
<1>3. plan.granted \in Nat
  BY DEF Plans, MaxParallelAgents
<1>4. a \in Seq(S) /\ Trailing(a, plan.granted)
  <2>1. a \in Seq({On("create_task", n), On("staff_team", n)}) /\ Trailing(a, plan.granted)
    BY ActTrails
  <2> HIDE DEF a, m, x, y, r
  <2> QED
    BY <2>1
<1> HIDE DEF t, h, x, y, r, m, a, u
<1>5. <<>> \in Seq(S) /\ <<x>> \in Seq(S) /\ <<y>> \in Seq(S) /\ <<m>> \in Seq(S) /\ <<r>> \in Seq(S)
      /\ <<x, y>> \in Seq(S)
  OBVIOUS
<1>6. \A e \in {x, y, r, m} : e.do \notin {"set_hash", "create_task"}
  BY <1>2
<1>7. ASSUME NEW q, q = <<>> \/ (\E e \in {x, y, r, m} : q = <<e>>)
      PROVE  q \in Seq(S) /\ \A k \in DOMAIN q : q[k].do \notin {"set_hash", "create_task"}
  <2>1. CASE q = <<>>
    <3>1. DOMAIN q = {}
      BY <2>1
    <3> QED
      BY <1>5, <2>1, <3>1
  <2>2. ASSUME NEW e \in {x, y, r, m}, q = <<e>>
        PROVE  q \in Seq(S) /\ \A k \in DOMAIN q : q[k].do \notin {"set_hash", "create_task"}
    BY <1>5, <1>6, <2>2, Single
  <2> QED
    BY <1>7, <2>1, <2>2
<1>8. Trailing(<<>>, plan.granted) /\ Trailing(<<y>>, plan.granted)
  <2>1. DOMAIN <<>> = {} /\ DOMAIN <<y>> = {1} /\ <<y>>[1] = y
    OBVIOUS
  <2> QED
    BY <1>2, <2>1 DEF Trailing
<1>9. u \in Seq(S) /\ Trailing(u, plan.granted)
  <2>1. CASE gated /\ held
    <3> DEFINE q == When(s = "planning", <<x>>)
    <3>1. u = q \o <<y>> /\ (q = <<>> \/ q = <<x>>)
      BY <2>1 DEF u, When
    <3> HIDE DEF q
    <3>2. q \in Seq(S) /\ \A k \in DOMAIN q : q[k].do \notin {"set_hash", "create_task"}
      BY <1>7, <3>1
    <3>3. q \o <<y>> \in Seq(S)
      BY <1>5, <3>2
    <3> QED
      BY <1>3, <1>5, <1>8, <3>1, <3>2, <3>3, Trails
  <2>2. CASE ~ (gated /\ held)
    <3> DEFINE q == When(held, <<r>>)
               z == When(carried, <<m>> \o a)
    <3>1. (u = <<>> \/ u = q \o z) /\ (q = <<>> \/ q = <<r>>) /\ (z = <<>> \/ z = <<m>> \o a)
      BY <2>2 DEF u, When
    <3> HIDE DEF q, z
    <3>2. q \in Seq(S) /\ \A k \in DOMAIN q : q[k].do \notin {"set_hash", "create_task"}
      BY <1>7, <3>1
    <3>3. <<m>> \in Seq(S) /\ \A k \in DOMAIN <<m>> : <<m>>[k].do \notin {"set_hash", "create_task"}
      BY <1>7
    <3>4. <<m>> \o a \in Seq(S) /\ Trailing(<<m>> \o a, plan.granted)
      <4>1. <<m>> \o a \in Seq(S)
        BY <1>4, <3>3
      <4> QED
        BY <1>3, <1>4, <3>3, <4>1, Trails
    <3>5. z \in Seq(S) /\ Trailing(z, plan.granted)
      BY <1>5, <1>8, <3>1, <3>4
    <3>6. q \o z \in Seq(S) /\ Trailing(q \o z, plan.granted)
      <4>1. q \o z \in Seq(S)
        BY <3>2, <3>5
      <4> QED
        BY <1>3, <3>2, <3>5, <4>1, Trails
    <3> QED
      BY <1>5, <1>8, <3>1, <3>6
  <2> QED
    BY <2>1, <2>2
<1>10. t = <<>> \/ t = <<h>> \o u
  BY <1>1 DEF When
<1> QED
  BY <1>9, <1>10 DEF t, h


\* A tick of any other cycle grants nothing.
LEMMA PhaseScriptGrants ==
  ASSUME GoalInv, PhaseInv, NEW n \in OpenCycles, cycles[n].status # "dispatching",
         NEW s, NEW gated
  PROVE  \A k \in DOMAIN PhaseScript(n, s, gated) :
            PhaseScript(n, s, gated)[k].do \notin {"set_hash", "create_task"}
<1> DEFINE x == MoveGoal("awaiting_plan_approval")
           y(to) == MoveCycle(n, to)
           a == On("accept_ready", n)
           b == On("weigh", n)
           d == On("review", n)
<1>1. cycles[n].status \in {"observing", "orienting", "deciding", "executing", "reviewing",
                            "summarizing"}
  <2>1. ViewOK(View) /\ View.phase = cycles[n].status /\ View.phase \notin {"none", "completed"}
    BY ViewRead DEF PhaseInv, TablesInOrder
  <2> HIDE DEF View
  <2> QED
    BY <2>1 DEF ViewOK, Planning, Late, Closing
<1>2. /\ x.do = "move_goal" /\ a.do = "accept_ready" /\ b.do = "weigh" /\ d.do = "review"
      /\ \A to : y(to).do = "move_cycle"
  BY DEF MoveGoal, MoveCycle, On
<1>3. PhaseScript(n, s, gated) \in {<<a, b>>, <<d>>} \/ \E to : PhaseScript(n, s, gated) \in {<<y(to)>>, <<x, y(to)>>}
  <2>1. CASE cycles[n].status \in {"observing", "orienting", "summarizing"}
    BY <2>1 DEF PhaseScript
  <2>2. CASE cycles[n].status \in {"executing", "reviewing"}
    BY <2>2 DEF PhaseScript
  <2>3. CASE cycles[n].status = "deciding"
    <3> DEFINE q == gated /\ s = "planning"
    <3>1. PhaseScript(n, s, gated) = When(q, <<x>>) \o <<y("dispatching")>>
      BY <2>3 DEF PhaseScript
    <3> HIDE DEF x, y, q
    <3>2. CASE q
      BY <3>1, <3>2, Couple DEF When
    <3>3. CASE ~ q
      BY <3>1, <3>3, Single DEF When
    <3> QED
      BY <3>2, <3>3
  <2> QED
    BY <1>1, <2>1, <2>2, <2>3
<1> HIDE DEF x, y, a, b, d
<1> QED
  BY <1>2, <1>3, Single, Couple

LEMMA LookGrants ==
  ASSUME GoalInv, PhaseInv, GrantInv, NEW c \in Callers, Look(c)
  PROVE  GrantInv'
<1> DEFINE z == This(c).status
           e == IF z = "rework_required" THEN "planning" ELSE z
           again == z = "rework_required"
           n == NewestOpen
           gated == RequireApproval /\ c = Worker
           x == MoveGoal("planning")
           a == When(again, <<x>>)
           s == script[c]
<1>1. s # <<>> /\ This(c).do = "look" /\ UNCHANGED <<goal, cycles, tasks>>
  BY DEF Look, At, This
<1>2. c = Worker
  BY <1>1, WorkersOwn
<1>3. PlansStay /\ View'.phase = View.phase /\ View' = View
  BY <1>1, PlansLeft DEF View
<1>4. PlanOf' = PlanOf /\ Room' = Room /\ GrantsAreKept'
  BY <1>3, RoomStays
<1>5. a = <<>> \/ a = <<x>>
  BY DEF When
<1>6. x.do = "move_goal"
  BY DEF MoveGoal
<1>7. PICK t : /\ Then(c, a \o t)
               /\ \/ n = 0 /\ t = When(e = "planning", <<[do |-> "create_cycle"]>>)
                  \/ n # 0 /\ cycles[n].status # "dispatching" /\ t = PhaseScript(n, e, gated)
                  \/ /\ n # 0 /\ cycles[n].status = "dispatching"
                     /\ \E reply \in Replies, agents \in Heartbeats :
                           t = DispatchScript(n, e, PlanFor(Report(n, agents), Budget, reply), gated)
  BY DEF Look
<1> SUFFICES \E T : a \o t \in Seq(T) /\ HashInOrder(c, a \o t, View, PlanOf)
                    /\ CreatesInOrder(a \o t, View, Room)
  <2> DEFINE r == a \o t
  <2>1. PICK T : r \in Seq(T) /\ HashInOrder(c, r, View, PlanOf) /\ CreatesInOrder(r, View, Room)
    OBVIOUS
  <2>2. script' = [script EXCEPT ![c] = r \o Tail(s)]
    BY <1>7 DEF Then
  <2>3. r \o Tail(s) = r
    <3>1. s \in Seq(Steps(Len(cycles))) /\ This(c) = Head(s) /\ InOrder(c, s, View)
      BY <1>1 DEF GoalInv, PhaseInv, This
    <3>2. \A y : ~ MayFollow(c, Head(s), y)
      BY <1>1, <3>1 DEF MayFollow
    <3> HIDE DEF View, r, s
    <3> QED
      BY <1>1, <2>1, <3>1, <3>2, NothingFollows
  <2>4. \A d \in Callers :
           HashInOrder(d, script[d], View', PlanOf') /\ CreatesInOrder(script[d], View', Room')
    <3> HIDE DEF View, PlanOf, Room
    <3> QED
      BY <1>3, OthersStand
  <2>5. HashInOrder(c, r, View', PlanOf') /\ CreatesInOrder(r, View', Room')
    <3> HIDE DEF View, PlanOf, Room
    <3> QED
      BY <1>3, <1>4, <2>1
  <2> HIDE DEF View, PlanOf, Room, r
  <2> QED
    BY <1>4, <2>2, <2>3, <2>4, <2>5, GrantsTurn
<1> HIDE DEF View, PlanOf, Room, x, a
<1>8. ASSUME NEW T, t \in Seq(T), \A k \in DOMAIN t : t[k].do \notin {"set_hash", "create_task"}
      PROVE  \E U : a \o t \in Seq(U) /\ HashInOrder(c, a \o t, View, PlanOf)
                    /\ CreatesInOrder(a \o t, View, Room)
  <2> DEFINE U == T \cup {x}
  <2>1. a \in Seq(U) /\ t \in Seq(U) /\ \A k \in DOMAIN a : a[k] = x
    <3>1. a \in Seq({x}) /\ \A k \in DOMAIN a : a[k] = x
      BY <1>5, NoneOrOne
    <3> QED
      BY <1>8, <3>1, SeqsGrow
  <2>2. a \o t \in Seq(U)
    BY <2>1
  <2>3. \A k \in DOMAIN (a \o t) : (a \o t)[k].do \notin {"set_hash", "create_task"}
    <3> HIDE DEF U
    <3>1. /\ Len(a) \in Nat /\ Len(t) \in Nat /\ DOMAIN a = 1 .. Len(a) /\ DOMAIN t = 1 .. Len(t)
          /\ DOMAIN (a \o t) = 1 .. (Len(a) + Len(t))
          /\ \A k \in 1 .. (Len(a) + Len(t)) :
                (a \o t)[k] = IF k <= Len(a) THEN a[k] ELSE t[k - Len(a)]
      BY <2>1
    <3> DEFINE r == a \o t
    <3> HIDE DEF r
    <3>2. ASSUME NEW k \in DOMAIN r
          PROVE  r[k].do \notin {"set_hash", "create_task"}
      <4>1. CASE k <= Len(a)
        BY <1>6, <2>1, <3>1, <4>1 DEF r
      <4>2. CASE k > Len(a)
        <5>1. k - Len(a) \in DOMAIN t /\ r[k] = t[k - Len(a)]
          BY <3>1, <4>2 DEF r
        <5> QED
          BY <1>8, <5>1
      <4> QED
        BY <3>1, <4>1, <4>2 DEF r
    <3> QED
      BY <3>2 DEF r
  <2> HIDE DEF U
  <2> QED
    BY <2>2, <2>3, NothingGranted
<1>9. CASE n = 0
  <2> DEFINE y == [do |-> "create_cycle"]
  <2>1. (t = <<>> \/ t = <<y>>) /\ y.do = "create_cycle"
    BY <1>7, <1>9 DEF When
  <2> HIDE DEF y
  <2>2. t \in Seq({y}) /\ \A k \in DOMAIN t : t[k] = y
    BY <2>1, NoneOrOne
  <2> QED
    BY <1>8, <2>1, <2>2
<1>10. CASE n # 0 /\ cycles[n].status # "dispatching"
  <2>1. t = PhaseScript(n, e, gated)
    BY <1>7, <1>10
  <2>2. n \in OpenCycles /\ n \in 1 .. Len(cycles)
    BY <1>10, Observed DEF OpenCycles, GoalInv
  <2>3. PhaseScript(n, e, gated) \in Seq(Plain(Len(cycles)))
    BY <1>10, <2>2, ScriptsMade
  <2> HIDE DEF n, e, gated
  <2>4. \A k \in DOMAIN PhaseScript(n, e, gated) :
           PhaseScript(n, e, gated)[k].do \notin {"set_hash", "create_task"}
    BY <1>10, <2>2, PhaseScriptGrants
  <2> QED
    BY <1>8, <2>1, <2>3, <2>4
<1>11. CASE n # 0 /\ cycles[n].status = "dispatching"
  <2>1. PICK reply \in Replies, agents \in Heartbeats :
           t = DispatchScript(n, e, PlanFor(Report(n, agents), Budget, reply), gated)
    BY <1>7, <1>11
  <2> DEFINE plan == PlanFor(Report(n, agents), Budget, reply)
             h == SetHash(n, GraphHash, plan)
  <2>2. n \in Nat /\ View.phase = "dispatching" /\ View.newest = n
    <3>1. n = Len(cycles) /\ n \in DOMAIN cycles /\ View.phase = cycles[n].status
      BY <1>11, NewestRead
    <3> QED
      BY <1>11, <3>1, ViewRead DEF GoalInv
  <2>3. plan \in Plans
    <3> HIDE DEF n
    <3> QED
      BY <2>2, PlansMade
  <2>4. t = DispatchScript(n, e, plan, gated)
    BY <2>1
  <2>5. h.do = "set_hash" /\ h.n = n /\ h.plan = plan
    BY DEF SetHash
  <2> HIDE DEF n, e, gated, plan
  <2>6. \/ t = <<>>
        \/ \E S, u : u \in Seq(S) /\ Trailing(u, plan.granted) /\ t = <<h>> \o u
    BY <2>3, <2>4, DispatchTrails
  <2>7. plan.granted \in Nat
    BY <2>3 DEF Plans, MaxParallelAgents
  <2> HIDE DEF h
  <2>8. CASE t = <<>>
    <3>1. <<>> \in Seq({}) /\ DOMAIN <<>> = {}
      OBVIOUS
    <3> QED
      BY <1>8, <2>8, <3>1
  <2>9. ASSUME NEW S, NEW u, u \in Seq(S), Trailing(u, plan.granted), t = <<h>> \o u
        PROVE  \E U : a \o t \in Seq(U) /\ HashInOrder(c, a \o t, View, PlanOf)
                      /\ CreatesInOrder(a \o t, View, Room)
    <3> DEFINE U == S \cup {x, h}
    <3>1. a \in Seq(U) /\ u \in Seq(U) /\ h \in U /\ \A k \in DOMAIN a : a[k].do \in GoalWrites
      <4>1. a \in Seq({x}) /\ \A k \in DOMAIN a : a[k] = x
        BY <1>5, NoneOrOne
      <4> QED
        BY <1>6, <2>9, <4>1, SeqsGrow DEF GoalWrites
    <3>2. <<h>> \o u \in Seq(U)
      BY <3>1
    <3> HIDE DEF U
    <3>3. a \o (<<h>> \o u) \in Seq(U)
      BY <3>1, <3>2
    <3>4. HashInOrder(Worker, a \o (<<h>> \o u), View, PlanOf)
          /\ CreatesInOrder(a \o (<<h>> \o u), View, Room)
      BY <2>2, <2>5, <2>7, <2>9, <3>1, PlanFirst
    <3> QED
      BY <1>2, <2>9, <3>3, <3>4
  <2> QED
    BY <2>6, <2>8, <2>9
<1> QED
  BY <1>7, <1>9, <1>10, <1>11

LEMMA GrantStepKeeps ==
  ASSUME "approve_and_tick" \notin Commands, GoalInv, PhaseInv, GrantInv, [Next]_vars
  PROVE  GrantInv'
<1>1. ASSUME NEW c \in Callers, Advance(c)
      PROVE  GrantInv'
  <2>1. ASSUME NEW t \in TaskIds, CreateTask(c, t)
        PROVE  GrantInv'
    BY <2>1, CreateTaskGrants
  <2> QED
    BY <1>1, <2>1, ObserveGrants, LookGrants, CreateCycleGrants, LinkCycleGrants, CheckGrants,
       WriteCycleGrants, WriteHashGrants, CallTaskGrants, ListTasksGrants, TeamsGrants,
       VerdictGrants DEF Advance
<1>2. ASSUME NEW c \in Callers, NEW s, script' = [script EXCEPT ![c] = s],
             UNCHANGED <<goal, cycles, tasks>>,
             \A k \in DOMAIN s : s[k].do \notin {"set_hash", "create_task"}
      PROVE  GrantInv'
  <2>1. PlansStay /\ View'.phase = View.phase
    BY <1>2, PlansLeft
  <2> HIDE DEF View
  <2> QED
    BY <1>2, <2>1, QuietEnd
<1>3. ASSUME NEW command \in Commands, UserCommand(command)
      PROVE  GrantInv'
  <2> DEFINE r == On("resume_tasks", goal.current)
             p == MoveGoal("running")
             b == MoveGoal("blocked")
             d == MoveGoal("cancelled")
             e == MoveGoal("rework_required")
             m == MoveTeam(NewestOpen, "rework_required")
             k == [do |-> "verdict", accepted |-> TRUE]
             l == [do |-> "verdict", accepted |-> FALSE]
             s == CommandScript[command]
  <2>1. /\ r.do = "resume_tasks" /\ p.do = "move_goal" /\ b.do = "move_goal" /\ d.do = "move_goal"
        /\ e.do = "move_goal" /\ m.do = "move_team" /\ k.do = "verdict" /\ l.do = "verdict"
    BY DEF On, MoveGoal, MoveTeam
  <2>2. s \in {<<b>>, <<d>>, <<p>>, <<k>>, <<l>>, <<r, p>>, <<e, m>>}
    <3>1. When(goal.current # 0, <<r>>) \o <<p>> \in {<<r, p>>, <<p>>}
      BY Single, Couple DEF When
    <3>2. CommandScript.resume = When(goal.current # 0, <<r>>) \o <<p>>
      BY DEF CommandScript
    <3> HIDE DEF r, p
    <3>3. CommandScript.resume \in {<<r, p>>, <<p>>}
      BY <3>1, <3>2
    <3>4. /\ CommandScript.pause = <<b>> /\ CommandScript.cancel = <<d>>
          /\ CommandScript.approve = <<MoveGoal("running")>> /\ CommandScript.reject = <<e, m>>
          /\ CommandScript.accept = <<k>> /\ CommandScript.send_back = <<l>>
      BY DEF CommandScript
    <3>5. command \in {"pause", "resume", "cancel", "approve", "reject", "accept", "send_back"}
      BY CommandAssumption DEF AllCommands
    <3> HIDE DEF b, d, e, m, k, l
    <3> QED
      BY <3>3, <3>4, <3>5 DEF p
  <2>3. script' = [script EXCEPT ![User] = s] /\ UNCHANGED <<goal, cycles, tasks>> /\ User \in Callers
    BY <1>3 DEF UserCommand, Callers
  <2> HIDE DEF r, p, b, d, e, m, k, l, s
  <2>4. \A i \in DOMAIN s : s[i].do \notin {"set_hash", "create_task"}
    BY <2>1, <2>2, Single, Couple
  <2> QED
    BY <1>2, <2>3, <2>4
<1>4. CASE WorkerTick
  <2> DEFINE x == [do |-> "observe"]
  <2>1. /\ script' = [script EXCEPT ![Worker] = <<x>>] /\ UNCHANGED <<goal, cycles, tasks>>
        /\ Worker \in Callers /\ x.do = "observe"
    BY <1>4 DEF WorkerTick, Callers
  <2> HIDE DEF x
  <2> QED
    BY <1>2, <2>1, Single
<1>5. CASE StartGoal
  <2> DEFINE x == MoveGoal("planning")
  <2>1. /\ script' = [script EXCEPT ![User] = <<x>>] /\ UNCHANGED <<goal, cycles, tasks>>
        /\ User \in Callers /\ x.do = "move_goal"
    BY <1>5 DEF StartGoal, Callers, MoveGoal
  <2> HIDE DEF x
  <2> QED
    BY <1>2, <2>1, Single
<1>6. ASSUME UNCHANGED <<goal, cycles, script>>, \A u \in TaskIds : tasks'[u].cycle = tasks[u].cycle
      PROVE  GrantInv'
  <2>1. PlansStay /\ View'.phase = View.phase
    BY <1>6, PlansLeft
  <2>2. GrantsAreKept'
    BY <2>1, RoomStays
  <2>3. \A d \in Callers :
           HashInOrder(d, script'[d], View', PlanOf') /\ CreatesInOrder(script'[d], View', Room')
    <3> HIDE DEF View, PlanOf, Room
    <3> QED
      BY <1>6, <2>1, OthersStand
  <2> QED
    BY <2>2, <2>3 DEF GrantInv
<1>7. CASE AddHint \/ UNCHANGED vars
  BY <1>6, <1>7 DEF AddHint, vars
<1>8. CASE DesktopDies
  <2>1. script' = [d \in Callers |-> <<>>] /\ UNCHANGED <<goal, cycles, tasks>>
    BY <1>8 DEF DesktopDies
  <2>2. PlansStay
    BY <2>1, PlansLeft
  <2>3. GrantsAreKept'
    BY <2>2, RoomStays
  <2>4. DOMAIN <<>> = {}
    OBVIOUS
  <2>5. \A d \in Callers :
           HashInOrder(d, script'[d], View', PlanOf') /\ CreatesInOrder(script'[d], View', Room')
    <3> HIDE DEF View, PlanOf, Room
    <3> QED
      BY <2>1, <2>4, NothingGranted
  <2> QED
    BY <2>3, <2>5 DEF GrantInv
<1>9. ASSUME NEW t \in TaskIds, TaskWork(t)
      PROVE  GrantInv'
  <2>1. UNCHANGED <<goal, cycles, script>> /\ \E to : tasks' = [tasks EXCEPT ![t].status = to]
    BY <1>9 DEF TaskWork
  <2>2. \A u \in TaskIds : tasks'[u].cycle = tasks[u].cycle
    <3>1. tasks \in [TaskIds -> TaskRows]
      BY DEF GoalInv
    <3> QED
      BY <2>1, <3>1 DEF TaskRows
  <2> QED
    BY <1>6, <2>1, <2>2
<1> QED
  BY <1>1, <1>3, <1>4, <1>5, <1>7, <1>8, <1>9 DEF Next

LEMMA GrantInitInv == Init => GrantInv
<1> SUFFICES ASSUME Init
             PROVE  GrantInv
  OBVIOUS
<1>1. GrantsAreKept
  BY DEF Init, GrantsAreKept
<1>2. \A c \in Callers : script[c] = <<>>
  BY DEF Init
<1>3. DOMAIN <<>> = {}
  OBVIOUS
<1>4. \A c \in Callers : HashInOrder(c, script[c], View, PlanOf) /\ CreatesInOrder(script[c], View, Room)
  <2> HIDE DEF View, PlanOf, Room
  <2> QED
    BY <1>2, <1>3, NothingGranted
<1> QED
  BY <1>1, <1>4 DEF GrantInv

----------------------------------------------------------------------------
(* What an acceptance rests on when the user gives no verdict.             *)

\* All that was asked for is there.
AllDone ==
    \A t \in TaskIds : tasks[t].cycle # 0 => tasks[t].status \in {"accepted", "review_ready"}

\* The statuses that a goal's tasks ever have.
Seen ==
    { "absent", "proposed", "queued", "claimed", "running", "review_ready", "accepted",
      "blocked", "failed" }

Moves == GoalWrites \cup {"move_goal_if"}
Concludes(x) == x.do = "verdict" \/ Sets(x, "summarizing")
Accepts(x) == x.do \in Moves /\ x.to = "accepted"

\* What the user has under way is no verdict.
UserWaits(x, v) ==
    /\ x.do \notin {"verdict", "set_hash", "close_team"} \cup CycleWrites
    /\ x.do \in GoalWrites =>
          /\ x.to # "accepted"
          /\ x.to = "rework_required" => v.goal = "awaiting_plan_approval"

\* The worker concludes when it has seen in its review that all is done, and
\* accepts what it has concluded.
Concluded(s, v, current, done) ==
    \A j \in DOMAIN s :
        /\ s[j].do = "review" => v.phase = "reviewing"
        /\ Concludes(s[j]) => done /\ v.phase \in {"reviewing"} \cup Closing
        /\ Sets(s[j], "summarizing") =>
              /\ current # 0 /\ v.goal \notin Early
              /\ \A i \in 1 .. (j - 1) : s[i].do \notin Moves
        /\ Accepts(s[j]) =>
              /\ current # 0
              /\ v.phase \in Closing \/ \E i \in 1 .. (j - 1) : Sets(s[i], "summarizing")

\* The rows themselves.
Outcome ==
    /\ Len(cycles) <= 1
    /\ \A t \in TaskIds : tasks[t].status \in Seen
    /\ View.phase \in Closing => AllDone /\ View.goal \notin Early
    /\ View.goal = "accepted" => View.phase \in Closing /\ goal.current # 0

ConcludeInv ==
    /\ Outcome
    /\ \A j \in DOMAIN script[User] : UserWaits(script[User][j], View)
    /\ Concluded(script[Worker], View, goal.current, AllDone)

\* A statement that neither concludes nor accepts anything.
Modest(x, v) == (x.do = "review" => v.phase = "reviewing") /\ ~ Concludes(x) /\ ~ Accepts(x)

\* The statement in front makes way for the statements of t, as in GoesOn.
LEMMA ConcludedGoesOn ==
  ASSUME NEW S, NEW s \in Seq(S), s # <<>>, NEW t \in Seq(S), NEW v, NEW w,
         NEW current, NEW new, NEW d \in BOOLEAN, NEW e \in BOOLEAN,
         InOrder(Worker, s, v), Concluded(s, v, current, d), Concluded(t, w, new, e),
         current # 0 => new # 0,
         \A y : MayFollow(Worker, Head(s), y) =>
            /\ y.do = "review" /\ v.phase = "reviewing" => w.phase = "reviewing"
            /\ Concludes(y) /\ d /\ v.phase \in {"reviewing"} \cup Closing =>
                  e /\ w.phase \in {"reviewing"} \cup Closing
            /\ Sets(y, "summarizing") /\ Head(s).do \notin Moves /\ v.goal \notin Early =>
                  w.goal \notin Early /\ \A k \in DOMAIN t : t[k].do \notin Moves
            /\ Accepts(y) /\ Sets(Head(s), "summarizing") =>
                  w.phase \in Closing \/ \E k \in DOMAIN t : Sets(t[k], "summarizing")
            /\ Accepts(y) /\ v.phase \in Closing => w.phase \in Closing
  PROVE  Concluded(t \o Tail(s), w, new, e)
<1> DEFINE u == t \o Tail(s)
           h == Head(s)
<1>1. /\ Len(t) \in Nat /\ Len(s) \in Nat \ {0} /\ Len(u) = Len(t) + Len(s) - 1
      /\ DOMAIN u = 1 .. Len(u) /\ DOMAIN s = 1 .. Len(s) /\ DOMAIN t = 1 .. Len(t)
      /\ s[1] = h
      /\ \A i \in DOMAIN t : i \in DOMAIN u /\ u[i] = t[i]
      /\ \A k \in DOMAIN s : k # 1 => Len(t) + k - 1 \in DOMAIN u /\ u[Len(t) + k - 1] = s[k]
      /\ \A j \in DOMAIN u : j \in DOMAIN t \/ \E k \in DOMAIN s : k # 1 /\ j = Len(t) + k - 1
  BY Comes
<1> HIDE DEF u, h
<1>2. ASSUME NEW j \in DOMAIN t
      PROVE  /\ u[j].do = "review" => w.phase = "reviewing"
             /\ Concludes(u[j]) => e /\ w.phase \in {"reviewing"} \cup Closing
             /\ Sets(u[j], "summarizing") =>
                   /\ new # 0 /\ w.goal \notin Early
                   /\ \A i \in 1 .. (j - 1) : u[i].do \notin Moves
             /\ Accepts(u[j]) =>
                   /\ new # 0
                   /\ w.phase \in Closing \/ \E i \in 1 .. (j - 1) : Sets(u[i], "summarizing")
  <2>1. u[j] = t[j] /\ \A i \in 1 .. (j - 1) : i \in DOMAIN t /\ u[i] = t[i]
    BY <1>1
  <2>2. /\ t[j].do = "review" => w.phase = "reviewing"
        /\ Concludes(t[j]) => e /\ w.phase \in {"reviewing"} \cup Closing
        /\ Sets(t[j], "summarizing") =>
              /\ new # 0 /\ w.goal \notin Early
              /\ \A i \in 1 .. (j - 1) : t[i].do \notin Moves
        /\ Accepts(t[j]) =>
              /\ new # 0
              /\ w.phase \in Closing \/ \E i \in 1 .. (j - 1) : Sets(t[i], "summarizing")
    BY DEF Concluded
  <2> QED
    BY <2>1, <2>2
<1>3. ASSUME NEW k \in DOMAIN s, k # 1, NEW j \in DOMAIN u, j = Len(t) + k - 1
      PROVE  /\ u[j].do = "review" => w.phase = "reviewing"
             /\ Concludes(u[j]) => e /\ w.phase \in {"reviewing"} \cup Closing
             /\ Sets(u[j], "summarizing") =>
                   /\ new # 0 /\ w.goal \notin Early
                   /\ \A i \in 1 .. (j - 1) : u[i].do \notin Moves
             /\ Accepts(u[j]) =>
                   /\ new # 0
                   /\ w.phase \in Closing \/ \E i \in 1 .. (j - 1) : Sets(u[i], "summarizing")
  <2> DEFINE y == s[k]
  <2>1. u[j] = y /\ 1 \in 1 .. (k - 1)
    BY <1>1, <1>3
  <2>2. MayFollow(Worker, h, y)
    BY <1>1, <2>1 DEF InOrder
  <2>3. /\ y.do = "review" => v.phase = "reviewing"
        /\ Concludes(y) => d /\ v.phase \in {"reviewing"} \cup Closing
        /\ Sets(y, "summarizing") =>
              /\ current # 0 /\ v.goal \notin Early
              /\ \A i \in 1 .. (k - 1) : s[i].do \notin Moves
        /\ Accepts(y) =>
              /\ current # 0
              /\ v.phase \in Closing \/ \E i \in 1 .. (k - 1) : Sets(s[i], "summarizing")
    BY DEF Concluded
  <2>4. ASSUME NEW i \in 1 .. (j - 1)
        PROVE  i \in DOMAIN t \/ \E m \in 2 .. (k - 1) : u[i] = s[m]
    <3>1. i \in DOMAIN u
      BY <1>1
    <3>2. ASSUME NEW m \in DOMAIN s, m # 1, i = Len(t) + m - 1
          PROVE  m \in 2 .. (k - 1) /\ u[i] = s[m]
      BY <1>1, <1>3, <3>2
    <3> QED
      BY <1>1, <3>1, <3>2
  <2>5. ASSUME NEW i \in 2 .. (k - 1)
        PROVE  Len(t) + i - 1 \in 1 .. (j - 1) /\ u[Len(t) + i - 1] = s[i]
    <3>1. i \in DOMAIN s /\ i # 1
      BY <1>1
    <3>2. u[Len(t) + i - 1] = s[i]
      BY <1>1, <3>1
    <3>3. Len(t) + i - 1 \in 1 .. (j - 1)
      <4>1. Len(t) \in Int /\ Len(t) >= 0 /\ k \in Int /\ i \in Int /\ 2 <= i /\ i <= k - 1 /\ j = Len(t) + k - 1
        BY <1>1, <1>3
      <4> QED
        BY <4>1
    <3> QED
      BY <3>2, <3>3
  <2>6. \A m \in DOMAIN t : m \in 1 .. (j - 1) /\ u[m] = t[m]
    BY <1>1, <1>3
  <2> HIDE DEF y
  <2>7. ASSUME Sets(y, "summarizing")
        PROVE  new # 0 /\ w.goal \notin Early /\ \A i \in 1 .. (j - 1) : u[i].do \notin Moves
    <3>1. \A i \in 1 .. (k - 1) : s[i].do \notin Moves
      BY <2>3, <2>7
    <3>2. h.do \notin Moves
      BY <1>1, <2>1, <3>1
    <3>3. w.goal \notin Early /\ \A m \in DOMAIN t : t[m].do \notin Moves
      BY <2>2, <2>3, <2>7, <3>2 DEF h
    <3>4. \A m \in 2 .. (k - 1) : m \in 1 .. (k - 1)
      OBVIOUS
    <3> QED
      BY <2>3, <2>4, <2>6, <2>7, <3>1, <3>3, <3>4
  <2>8. ASSUME Accepts(y)
        PROVE  /\ new # 0
               /\ w.phase \in Closing \/ \E i \in 1 .. (j - 1) : Sets(u[i], "summarizing")
    <3>1. CASE v.phase \in Closing
      BY <2>2, <2>3, <2>8, <3>1 DEF h
    <3>2. ASSUME NEW i \in 1 .. (k - 1), Sets(s[i], "summarizing"), i = 1
          PROVE  w.phase \in Closing \/ \E m \in 1 .. (j - 1) : Sets(u[m], "summarizing")
      <4>1. Sets(h, "summarizing")
        BY <1>1, <3>2
      <4> QED
        BY <2>2, <2>6, <2>8, <4>1 DEF h
    <3>3. ASSUME NEW i \in 1 .. (k - 1), Sets(s[i], "summarizing"), i # 1
          PROVE  \E m \in 1 .. (j - 1) : Sets(u[m], "summarizing")
      <4>1. i \in 2 .. (k - 1)
        BY <3>3
      <4> QED
        BY <2>5, <3>3, <4>1
    <3> QED
      BY <2>3, <2>8, <3>1, <3>2, <3>3
  <2>9. u[j] = y
    BY <2>1
  <2>10. y.do = "review" => w.phase = "reviewing"
    BY <2>2, <2>3 DEF h
  <2>11. Concludes(y) => e /\ w.phase \in {"reviewing"} \cup Closing
    BY <2>2, <2>3 DEF h
  <2> QED
    BY <2>7, <2>8, <2>9, <2>10, <2>11
<1>4. ASSUME NEW j \in DOMAIN u
      PROVE  /\ u[j].do = "review" => w.phase = "reviewing"
             /\ Concludes(u[j]) => e /\ w.phase \in {"reviewing"} \cup Closing
             /\ Sets(u[j], "summarizing") =>
                   /\ new # 0 /\ w.goal \notin Early
                   /\ \A i \in 1 .. (j - 1) : u[i].do \notin Moves
             /\ Accepts(u[j]) =>
                   /\ new # 0
                   /\ w.phase \in Closing \/ \E i \in 1 .. (j - 1) : Sets(u[i], "summarizing")
  <2>1. CASE j \in DOMAIN t
    BY <1>2, <2>1
  <2>2. ASSUME NEW k \in DOMAIN s, k # 1, j = Len(t) + k - 1
        PROVE  /\ u[j].do = "review" => w.phase = "reviewing"
               /\ Concludes(u[j]) => e /\ w.phase \in {"reviewing"} \cup Closing
               /\ Sets(u[j], "summarizing") =>
                     /\ new # 0 /\ w.goal \notin Early
                     /\ \A i \in 1 .. (j - 1) : u[i].do \notin Moves
               /\ Accepts(u[j]) =>
                     /\ new # 0
                     /\ w.phase \in Closing \/ \E i \in 1 .. (j - 1) : Sets(u[i], "summarizing")
    BY <1>3, <2>2
  <2>3. j \in DOMAIN t \/ \E k \in DOMAIN s : k # 1 /\ j = Len(t) + k - 1
    BY <1>1
  <2> QED
    BY <2>1, <2>2, <2>3
<1> QED
  BY <1>4 DEF Concluded, u

\* A script that waits.
LEMMA ConcludedStands ==
  ASSUME NEW s, NEW v, NEW w, NEW current, NEW new, NEW d \in BOOLEAN, NEW e \in BOOLEAN,
         Concluded(s, v, current, d), w.phase = v.phase,
         v.goal \notin Early => w.goal \notin Early,
         current # 0 => new # 0,
         d /\ v.phase \in {"reviewing"} \cup Closing => e
  PROVE  Concluded(s, w, new, e)
  BY DEF Concluded

LEMMA NothingConcluded ==
  ASSUME NEW t, NEW v, NEW current, NEW d, \A k \in DOMAIN t : Modest(t[k], v)
  PROVE  Concluded(t, v, current, d)
  BY DEF Concluded, Modest, Concludes

LEMMA OneConcluded ==
  ASSUME NEW x, NEW v, NEW current, NEW d,
         /\ x.do = "review" => v.phase = "reviewing"
         /\ Concludes(x) => d /\ v.phase \in {"reviewing"} \cup Closing
         /\ Sets(x, "summarizing") => current # 0 /\ v.goal \notin Early
         /\ Accepts(x) => current # 0 /\ v.phase \in Closing
  PROVE  Concluded(<<x>>, v, current, d)
<1>1. DOMAIN <<x>> = {1} /\ <<x>>[1] = x /\ 1 .. (1 - 1) = {}
  OBVIOUS
<1> QED
  BY <1>1 DEF Concluded

----------------------------------------------------------------------------
(* Steps of the worker and of the user.                                    *)

LEMMA Booleans ==
  /\ AllDone \in BOOLEAN /\ AllDone' \in BOOLEAN
  /\ View.goal = goal.status /\ View'.goal = goal'.status
  /\ View.newest = Len(cycles) /\ View'.newest = Len(cycles')
BY DEF AllDone, View

LEMMA WorkerTurns ==
  ASSUME GoalInv, PhaseInv, ConcludeInv, script[Worker] # <<>>, NEW T, NEW t \in Seq(T),
         Then(Worker, t), Outcome',
         View.goal = "awaiting_plan_approval" => View'.goal = "awaiting_plan_approval",
         goal.current # 0 => goal'.current # 0,
         Concluded(t, View', goal'.current, AllDone'),
         \A y : MayFollow(Worker, This(Worker), y) =>
            /\ y.do = "review" /\ View.phase = "reviewing" => View'.phase = "reviewing"
            /\ Concludes(y) /\ AllDone /\ View.phase \in {"reviewing"} \cup Closing =>
                  AllDone' /\ View'.phase \in {"reviewing"} \cup Closing
            /\ Sets(y, "summarizing") /\ This(Worker).do \notin Moves /\ View.goal \notin Early =>
                  View'.goal \notin Early /\ \A k \in DOMAIN t : t[k].do \notin Moves
            /\ Accepts(y) /\ Sets(This(Worker), "summarizing") =>
                  View'.phase \in Closing \/ \E k \in DOMAIN t : Sets(t[k], "summarizing")
            /\ Accepts(y) /\ View.phase \in Closing => View'.phase \in Closing
  PROVE  ConcludeInv'
<1> DEFINE S == Steps(Len(cycles)) \cup T
           s == script[Worker]
           v == View
           w == View'
           d == AllDone
           e == AllDone'
           i == goal.current
           j == goal'.current
<1>1. s \in Seq(S) /\ t \in Seq(S) /\ DOMAIN script = Callers /\ This(Worker) = Head(s)
      /\ Worker \in Callers /\ User \in Callers /\ Worker # User
  <2>1. s \in Seq(Steps(Len(cycles)))
    BY DEF GoalInv, Callers
  <2> QED
    BY <2>1, BoundAssumption DEF GoalInv, Callers, This
<1>2. script'[Worker] = t \o Tail(s) /\ script'[User] = script[User]
  BY <1>1 DEF Then
<1>3. InOrder(Worker, s, v) /\ Concluded(s, v, i, d)
  BY <1>1 DEF PhaseInv, ConcludeInv
<1>4. d \in BOOLEAN /\ e \in BOOLEAN
  BY Booleans
<1>5. Concluded(t, w, j, e)
  OBVIOUS
<1>6. \A y : MayFollow(Worker, Head(s), y) =>
            /\ y.do = "review" /\ v.phase = "reviewing" => w.phase = "reviewing"
            /\ Concludes(y) /\ d /\ v.phase \in {"reviewing"} \cup Closing =>
                  e /\ w.phase \in {"reviewing"} \cup Closing
            /\ Sets(y, "summarizing") /\ Head(s).do \notin Moves /\ v.goal \notin Early =>
                  w.goal \notin Early /\ \A k \in DOMAIN t : t[k].do \notin Moves
            /\ Accepts(y) /\ Sets(Head(s), "summarizing") =>
                  w.phase \in Closing \/ \E k \in DOMAIN t : Sets(t[k], "summarizing")
            /\ Accepts(y) /\ v.phase \in Closing => w.phase \in Closing
  BY <1>1
<1>7. i # 0 => j # 0
  OBVIOUS
<1> HIDE DEF S, v, w, d, e, i, j
<1>8. Concluded(t \o Tail(s), w, j, e)
  BY <1>1, <1>3, <1>4, <1>5, <1>6, <1>7, ConcludedGoesOn
<1>9. ASSUME NEW k \in DOMAIN script[User]
      PROVE  UserWaits(script[User][k], w)
  <2>1. UserWaits(script[User][k], v)
    BY DEF ConcludeInv, v
  <2>2. v.goal = "awaiting_plan_approval" => w.goal = "awaiting_plan_approval"
    BY DEF v, w
  <2> QED
    BY <2>1, <2>2 DEF UserWaits
<1>10. Concluded(script'[Worker], View', goal'.current, AllDone')
  <2>1. Concluded(script'[Worker], w, j, e)
    BY <1>2, <1>8
  <2> QED
    BY <2>1 DEF w, j, e
<1>11. \A k \in DOMAIN script'[User] : UserWaits(script'[User][k], View')
  <2>1. \A k \in DOMAIN script'[User] : UserWaits(script'[User][k], w)
    BY <1>2, <1>9
  <2> QED
    BY <2>1 DEF w
<1> QED
  BY <1>10, <1>11 DEF ConcludeInv

\* A step of the worker's that leaves the goal and the phase alone.
LEMMA WorkerQuiet ==
  ASSUME GoalInv, PhaseInv, ConcludeInv, script[Worker] # <<>>, NEW T, NEW t \in Seq(T),
         Then(Worker, t), Outcome', View'.goal = View.goal, View'.phase = View.phase,
         goal.current # 0 => goal'.current # 0,
         AllDone /\ View.phase \in {"reviewing"} \cup Closing => AllDone',
         Concluded(t, View', goal'.current, AllDone'), ~ Sets(This(Worker), "summarizing"),
         \/ This(Worker).do \in Moves
         \/ \A k \in DOMAIN t : t[k].do \notin Moves
         \/ \A y : ~ MayFollow(Worker, This(Worker), y)
  PROVE  ConcludeInv'
<1> DEFINE d == AllDone
           e == AllDone'
<1>1. d \in BOOLEAN /\ e \in BOOLEAN
  BY Booleans
<1>2. d /\ View.phase \in {"reviewing"} \cup Closing => e
  OBVIOUS
<1> HIDE DEF View, d, e
<1>3. ASSUME NEW y, MayFollow(Worker, This(Worker), y)
      PROVE  /\ y.do = "review" /\ View.phase = "reviewing" => View'.phase = "reviewing"
             /\ Concludes(y) /\ d /\ View.phase \in {"reviewing"} \cup Closing =>
                   e /\ View'.phase \in {"reviewing"} \cup Closing
             /\ Sets(y, "summarizing") /\ This(Worker).do \notin Moves /\ View.goal \notin Early =>
                   View'.goal \notin Early /\ \A k \in DOMAIN t : t[k].do \notin Moves
             /\ Accepts(y) /\ Sets(This(Worker), "summarizing") =>
                   View'.phase \in Closing \/ \E k \in DOMAIN t : Sets(t[k], "summarizing")
             /\ Accepts(y) /\ View.phase \in Closing => View'.phase \in Closing
  BY <1>1, <1>2, <1>3
<1> QED
  BY <1>3, WorkerTurns DEF d, e

\* The user has u to do, and the phase is as it was.
LEMMA UserTurns ==
  ASSUME GoalInv, PhaseInv, ConcludeInv, NEW u, script' = [script EXCEPT ![User] = u],
         Outcome', View'.phase = View.phase, View.goal \notin Early => View'.goal \notin Early,
         goal.current # 0 => goal'.current # 0,
         AllDone /\ View.phase \in {"reviewing"} \cup Closing => AllDone',
         \A k \in DOMAIN u : UserWaits(u[k], View')
  PROVE  ConcludeInv'
<1> DEFINE v == View
           w == View'
           d == AllDone
           e == AllDone'
           i == goal.current
           j == goal'.current
<1>1. script'[User] = u /\ script'[Worker] = script[Worker]
  BY BoundAssumption DEF GoalInv, Callers
<1>2. d \in BOOLEAN /\ e \in BOOLEAN
  BY Booleans
<1>3. /\ Concluded(script[Worker], v, i, d) /\ w.phase = v.phase
      /\ v.goal \notin Early => w.goal \notin Early
      /\ i # 0 => j # 0
      /\ d /\ v.phase \in {"reviewing"} \cup Closing => e
  BY DEF ConcludeInv
<1> HIDE DEF v, w, d, e, i, j
<1>4. Concluded(script[Worker], w, j, e)
  BY <1>2, <1>3, ConcludedStands
<1>5. Concluded(script'[Worker], View', goal'.current, AllDone')
  <2>1. Concluded(script'[Worker], w, j, e)
    BY <1>1, <1>4
  <2> QED
    BY <2>1 DEF w, j, e
<1>6. \A k \in DOMAIN script'[User] : UserWaits(script'[User][k], View')
  <2>1. \A k \in DOMAIN u : UserWaits(u[k], w)
    BY DEF w
  <2>2. \A k \in DOMAIN script'[User] : UserWaits(script'[User][k], w)
    BY <1>1, <2>1
  <2> QED
    BY <2>2 DEF w
<1> QED
  BY <1>5, <1>6 DEF ConcludeInv

LEMMA UserGoesOn ==
  ASSUME GoalInv, PhaseInv, ConcludeInv, script[User] # <<>>, NEW T, NEW t \in Seq(T),
         Then(User, t), \A k \in DOMAIN t : UserWaits(t[k], View'),
         Outcome', View'.phase = View.phase, View.goal \notin Early => View'.goal \notin Early,
         goal.current # 0 => goal'.current # 0,
         AllDone /\ View.phase \in {"reviewing"} \cup Closing => AllDone',
         View'.goal = View.goal \/ This(User).do \in GoalWrites
  PROVE  ConcludeInv'
<1> DEFINE S == Steps(Len(cycles)) \cup T
           s == script[User]
           u == t \o Tail(s)
           v == View
           w == View'
<1>1. s \in Seq(S) /\ t \in Seq(S) /\ This(User) = Head(s) /\ User \in Callers /\ InOrder(User, s, v)
      /\ User # Worker
  <2>1. s \in Seq(Steps(Len(cycles)))
    BY DEF GoalInv, Callers
  <2> QED
    BY <2>1, BoundAssumption DEF GoalInv, PhaseInv, Callers, This
<1>2. script' = [script EXCEPT ![User] = u]
  BY <1>1 DEF Then
<1>3. /\ \A k \in DOMAIN t : UserWaits(t[k], w)
      /\ \A k \in DOMAIN s : UserWaits(s[k], v)
      /\ w.goal = v.goal \/ Head(s).do \in GoalWrites
  BY <1>1 DEF ConcludeInv
<1> HIDE DEF S, v, w
<1>4. /\ DOMAIN s = 1 .. Len(s) /\ s[1] = Head(s) /\ Len(s) \in Nat
      /\ \A i \in DOMAIN t : i \in DOMAIN u /\ u[i] = t[i]
      /\ \A k \in DOMAIN s : k # 1 => Len(t) + k - 1 \in DOMAIN u /\ u[Len(t) + k - 1] = s[k]
      /\ \A j \in DOMAIN u : j \in DOMAIN t \/ \E k \in DOMAIN s : k # 1 /\ j = Len(t) + k - 1
  <2>1. s \in Seq(S) /\ s # <<>> /\ t \in Seq(S)
    BY <1>1
  <2> HIDE DEF s
  <2> QED
    BY <2>1, Comes
<1> HIDE DEF u
<1>5. ASSUME NEW k \in DOMAIN s, k # 1
      PROVE  UserWaits(s[k], w)
  <2>1. CASE w.goal = v.goal
    BY <1>3, <2>1 DEF UserWaits
  <2>2. CASE Head(s).do \in GoalWrites
    <3>1. 1 \in 1 .. (k - 1)
      BY <1>4, <1>5
    <3>2. MayFollow(User, Head(s), s[k])
      BY <1>1, <1>4, <3>1 DEF InOrder
    <3>3. s[k].do = "move_team"
      BY <2>2, <3>2 DEF MayFollow
    <3> QED
      BY <3>3 DEF UserWaits, CycleWrites, GoalWrites
  <2> QED
    BY <1>3, <2>1, <2>2
<1>6. \A j \in DOMAIN u : UserWaits(u[j], w)
  BY <1>3, <1>4, <1>5
<1>7. \A j \in DOMAIN u : UserWaits(u[j], View')
  BY <1>6 DEF w
<1> HIDE DEF View
<1> QED
  BY <1>2, <1>7, UserTurns

\* What the user has under way.
LEMMA UsersShare ==
  ASSUME GoalInv, PhaseInv, ConcludeInv, script[User] # <<>>
  PROVE  /\ This(User).do \in GoalWrites \cup {"resume_tasks", "resume_task", "move_team"}
         /\ UserMeans(This(User), View) /\ UserWaits(This(User), View)
<1>1. User \in Callers /\ script[User] \in Seq(Steps(Len(cycles)))
  BY DEF Callers, GoalInv
<1>2. 1 \in DOMAIN script[User] /\ This(User) = script[User][1]
  BY <1>1 DEF This
<1>3. UserWaits(This(User), View)
  BY <1>2 DEF ConcludeInv
<1>4. UserMeans(This(User), View)
  BY <1>1, HeadMeans, MeansWhat
<1> QED
  BY <1>3, <1>4 DEF UserMeans, UserWaits

\* The worker's next statement.
LEMMA WorkersNext ==
  ASSUME GoalInv, PhaseInv, ConcludeInv, script[Worker] # <<>>
  PROVE  LET h == This(Worker)
         IN /\ WorkerMeans(h, View) /\ Ready(h, View)
            /\ h.do = "write_cycle" /\ h.to \in Closing =>
                  h.n = View.newest /\ View.phase \in {"reviewing"} \cup Closing
            /\ h.do = "review" => View.phase = "reviewing"
            /\ Concludes(h) => AllDone /\ View.phase \in {"reviewing"} \cup Closing
            /\ Sets(h, "summarizing") => goal.current # 0 /\ View.goal \notin Early
            /\ Accepts(h) => goal.current # 0 /\ View.phase \in Closing
<1>1. Worker \in Callers /\ script[Worker] \in Seq(Steps(Len(cycles)))
  BY DEF Callers, GoalInv
<1>2. 1 \in DOMAIN script[Worker] /\ This(Worker) = script[Worker][1] /\ 1 .. (1 - 1) = {}
  BY <1>1 DEF This
<1>3. Concluded(script[Worker], View, goal.current, AllDone)
  BY DEF ConcludeInv
<1>4. Means(Worker, This(Worker), View) /\ Ready(This(Worker), View)
  BY <1>1, HeadMeans
<1>5. WorkerMeans(This(Worker), View)
      /\ (This(Worker).do = "write_cycle" /\ This(Worker).to \in Closing =>
             This(Worker).n = View.newest /\ View.phase \in {"reviewing"} \cup Closing)
  BY <1>4, MeansWhat
<1> HIDE DEF View
<1> QED
  BY <1>2, <1>3, <1>4, <1>5 DEF Concluded

\* The rows, when the goal and the phase do not change.
LEMMA OutcomeStays ==
  ASSUME Outcome, UNCHANGED goal, View'.phase = View.phase, Len(cycles') = Len(cycles),
         \A t \in TaskIds : tasks'[t].status \in Seen,
         AllDone /\ View.phase \in {"reviewing"} \cup Closing => AllDone'
  PROVE  Outcome' /\ View'.goal = View.goal
<1>1. View'.goal = View.goal
  BY DEF View
<1> HIDE DEF View
<1> QED
  BY <1>1 DEF Outcome

LEMMA TasksStay ==
  ASSUME Outcome, UNCHANGED tasks
  PROVE  (\A t \in TaskIds : tasks'[t].status \in Seen) /\ (AllDone => AllDone')
  BY DEF Outcome, AllDone

\* What the worker has to do anew.
LEMMA WorkerAnew ==
  ASSUME GoalInv, ConcludeInv, NEW u, script' = [script EXCEPT ![Worker] = u], Outcome',
         View.goal = "awaiting_plan_approval" => View'.goal = "awaiting_plan_approval",
         Concluded(u, View', goal'.current, AllDone')
  PROVE  ConcludeInv'
<1> DEFINE v == View
           w == View'
<1>1. script'[Worker] = u /\ script'[User] = script[User]
  BY BoundAssumption DEF GoalInv, Callers
<1>2. Concluded(script'[Worker], View', goal'.current, AllDone')
  <2> HIDE DEF View, AllDone
  <2> QED
    BY <1>1
<1>3. /\ \A k \in DOMAIN script[User] : UserWaits(script[User][k], v)
      /\ v.goal = "awaiting_plan_approval" => w.goal = "awaiting_plan_approval"
  BY DEF ConcludeInv
<1> HIDE DEF v, w
<1>4. \A k \in DOMAIN script'[User] : UserWaits(script'[User][k], w)
  BY <1>1, <1>3 DEF UserWaits
<1>5. \A k \in DOMAIN script'[User] : UserWaits(script'[User][k], View')
  BY <1>4 DEF w
<1> QED
  BY <1>2, <1>5 DEF ConcludeInv

LEMMA TablesSame ==
  ASSUME Outcome, UNCHANGED <<goal, cycles, tasks>>
  PROVE  Outcome' /\ View' = View /\ (AllDone => AllDone') /\ goal'.current = goal.current
<1>1. View' = View /\ (AllDone => AllDone') /\ goal'.current = goal.current
  BY DEF View, AllDone
<1>2. Len(cycles') = Len(cycles) /\ \A t \in TaskIds : tasks'[t].status \in Seen
  BY DEF Outcome
<1> HIDE DEF View, AllDone
<1> QED
  BY <1>1, <1>2, OutcomeStays

\* A row of goal_cycles changes, but not its status.
LEMMA RowStays ==
  ASSUME GoalInv, Outcome, UNCHANGED <<goal, tasks>>, NEW n \in DOMAIN cycles, NEW row,
         row.status = cycles[n].status, cycles' = [cycles EXCEPT ![n] = row]
  PROVE  /\ Outcome' /\ View'.phase = View.phase /\ View'.goal = View.goal
         /\ (AllDone => AllDone') /\ goal'.current = goal.current
<1>1. cycles \in Seq(CycleRows) /\ DOMAIN cycles = 1 .. Len(cycles) /\ Len(cycles) \in Nat
  BY DEF GoalInv
<1>2. Len(cycles') = Len(cycles) /\ DOMAIN cycles' = 1 .. Len(cycles)
  <2>1. cycles \in Seq(CycleRows \cup {row})
    BY <1>1, SeqsGrow
  <2>2. cycles' \in Seq(CycleRows \cup {row}) /\ DOMAIN cycles' = 1 .. Len(cycles)
    BY <1>1, <2>1
  <2> QED
    BY <1>1, <2>2
<1>3. \A m \in DOMAIN cycles : cycles'[m].status = cycles[m].status
  OBVIOUS
<1>4. View'.phase = View.phase
  <2>1. cycles # <<>> /\ cycles' # <<>> /\ Len(cycles) \in DOMAIN cycles
    BY <1>1, <1>2
  <2>2. cycles'[Len(cycles)].status = cycles[Len(cycles)].status
    BY <1>3, <2>1
  <2> QED
    BY <1>2, <2>1, <2>2 DEF View
<1>5. (\A t \in TaskIds : tasks'[t].status \in Seen) /\ (AllDone => AllDone')
  BY TasksStay
<1> HIDE DEF View, AllDone
<1> QED
  BY <1>2, <1>4, <1>5, OutcomeStays

\* A caller drops what it had to do.
LEMMA Dropped ==
  ASSUME GoalInv, PhaseInv, ConcludeInv, NEW c \in Callers, Fails(c), Outcome',
         View'.phase = View.phase, View'.goal = View.goal, goal'.current = goal.current,
         AllDone => AllDone'
  PROVE  ConcludeInv'
<1>1. script' = [script EXCEPT ![c] = <<>>] /\ DOMAIN <<>> = {}
  BY DEF Fails
<1> HIDE DEF View, AllDone
<1>2. CASE c = User
  BY <1>1, <1>2, UserTurns
<1>3. CASE c = Worker
  BY <1>1, <1>3, NothingConcluded, WorkerAnew
<1> QED
  BY <1>2, <1>3 DEF Callers

\* The worker reads, or writes nothing that matters here.
LEMMA WorkerReads ==
  ASSUME GoalInv, PhaseInv, ConcludeInv, script[Worker] # <<>>, NEW C, NEW t \in Seq(C),
         Then(Worker, t), Outcome',
         View'.phase = View.phase, View'.goal = View.goal, goal'.current = goal.current,
         AllDone /\ View.phase \in {"reviewing"} \cup Closing => AllDone',
         \A x \in C : Modest(x, View), This(Worker).do \notin CycleWrites,
         \/ \A x \in C : x.do \notin Moves
         \/ \A y : ~ MayFollow(Worker, This(Worker), y)
  PROVE  ConcludeInv'
<1>1. \A k \in DOMAIN t : t[k] \in C
  OBVIOUS
<1>2. \A k \in DOMAIN t : Modest(t[k], View')
  <2> HIDE DEF View
  <2> QED
    BY <1>1 DEF Modest
<1> HIDE DEF View, AllDone
<1>3. Concluded(t, View', goal'.current, AllDone')
  BY <1>2, NothingConcluded
<1>4. ~ Sets(This(Worker), "summarizing")
  BY DEF Sets
<1> QED
  BY <1>1, <1>3, <1>4, WorkerQuiet

LEMMA ModestWhat ==
  ASSUME NEW x, NEW v, x.do \notin {"review", "verdict"} \cup Moves \cup CycleWrites
  PROVE  Modest(x, v)
BY DEF Modest, Concludes, Accepts, Sets

LEMMA ObserveConcludes ==
  ASSUME GoalInv, PhaseInv, ConcludeInv, NEW c \in Callers, Observe(c)
  PROVE  ConcludeInv'
<1> DEFINE x == [do |-> "look", status |-> goal.status]
<1>1. script[c] # <<>> /\ This(c).do = "observe" /\ UNCHANGED <<goal, cycles, tasks>>
  BY DEF Observe, At, This
<1>2. PICK t : Then(c, t) /\ (t = <<>> \/ t = <<x>>)
  BY DEF Observe, When
<1>3. x.do = "look"
  OBVIOUS
<1>4. c = Worker
  BY <1>1, WorkersOwn
<1> HIDE DEF x
<1>5. t \in Seq({x})
  BY <1>2, NoneOrOne
<1>6. Outcome' /\ View' = View /\ (AllDone => AllDone') /\ goal'.current = goal.current
  BY <1>1, TablesSame DEF ConcludeInv
<1>7. Modest(x, View) /\ x.do \notin Moves
  BY <1>3, ModestWhat DEF Moves, GoalWrites, CycleWrites
<1>8. This(Worker).do \notin CycleWrites
  BY <1>1, <1>4 DEF CycleWrites
<1>9. \A e \in {x} : Modest(e, View) /\ e.do \notin Moves
  BY <1>7
<1> HIDE DEF View, AllDone
<1> QED
  BY <1>1, <1>2, <1>4, <1>5, <1>6, <1>8, <1>9, WorkerReads

LEMMA LinkCycleConcludes ==
  ASSUME GoalInv, PhaseInv, ConcludeInv, NEW c \in Callers, LinkCycle(c)
  PROVE  ConcludeInv'
<1> DEFINE n == This(c).n
           d == AllDone
           e == AllDone'
<1>1. script[c] # <<>> /\ This(c).do = "link_cycle" /\ UNCHANGED <<cycles, tasks>> /\ Then(c, <<>>)
      /\ goal' = [goal EXCEPT !.current = n]
  BY DEF LinkCycle, At, This
<1>2. c = Worker
  BY <1>1, WorkersOwn
<1>3. n # 0
  <2>1. This(c) \in Steps(Len(cycles)) /\ Len(cycles) \in Nat
    BY <1>1, HeadMeans DEF GoalInv
  <2>2. n \in 1 .. Len(cycles)
    BY <1>1, <2>1, StepsRead
  <2> QED
    BY <2>2
<1>4. goal'.current # 0 /\ goal'.status = goal.status
  BY <1>1, <1>3 DEF GoalInv
<1>5. View' = View /\ (AllDone => AllDone')
  BY <1>1, <1>4 DEF View, AllDone
<1>6. Outcome'
  <2>1. Outcome
    BY DEF ConcludeInv
  <2>2. Len(cycles') = Len(cycles) /\ \A t \in TaskIds : tasks'[t].status \in Seen
    BY <1>1, <2>1 DEF Outcome
  <2> HIDE DEF View, AllDone
  <2> QED
    BY <1>4, <1>5, <2>1, <2>2 DEF Outcome
<1>7. <<>> \in Seq({}) /\ DOMAIN <<>> = {}
  OBVIOUS
<1>8. ~ Sets(This(Worker), "summarizing")
  BY <1>1, <1>2 DEF Sets, CycleWrites
<1> HIDE DEF View, AllDone
<1>9. Concluded(<<>>, View', goal'.current, AllDone')
  BY <1>7, NothingConcluded
<1> QED
  BY <1>1, <1>2, <1>4, <1>5, <1>6, <1>7, <1>8, <1>9, WorkerQuiet

\* The checks, and the writes they are for.
LEMMA CheckConcludes ==
  ASSUME GoalInv, PhaseInv, ConcludeInv, NEW c \in Callers,
         CheckGoal(c) \/ CheckGoalIf(c) \/ CheckCycle(c)
  PROVE  ConcludeInv'
<1> DEFINE h == This(c)
<1>1. script[c] # <<>> /\ UNCHANGED <<goal, cycles, tasks>>
  BY DEF CheckGoal, CheckGoalIf, CheckCycle, At
<1>2. Outcome' /\ View' = View /\ (AllDone => AllDone') /\ goal'.current = goal.current
  BY <1>1, TablesSame DEF ConcludeInv
<1>3. CASE Fails(c)
  <2> HIDE DEF View, AllDone
  <2> QED
    BY <1>2, <1>3, Dropped
<1>4. ASSUME c = User, NEW x, Then(c, <<x>>), h.do = "move_goal", x.do = "write_goal", x.to = h.to
      PROVE  ConcludeInv'
  <2>1. UserWaits(h, View)
    BY <1>1, <1>4, UsersShare
  <2> HIDE DEF View, AllDone, h
  <2>2. UserWaits(x, View')
    BY <1>2, <1>4, <2>1 DEF UserWaits, GoalWrites, CycleWrites
  <2>3. <<x>> \in Seq({x}) /\ \A k \in DOMAIN <<x>> : UserWaits((<<x>>)[k], View')
    BY <2>2, Single
  <2> QED
    BY <1>1, <1>2, <1>4, <2>3, UserGoesOn
<1>5. ASSUME c = Worker, NEW x, NEW t, t = <<>> \/ t = <<x>>, Then(c, t), x.do \in GoalWrites,
             h.do \in Moves, x.to = h.to
      PROVE  ConcludeInv'
  <2>1. Accepts(h) => goal.current # 0 /\ View.phase \in Closing
    BY <1>1, <1>5, WorkersNext
  <2>2. Accepts(x) => Accepts(h)
    BY <1>5 DEF Accepts
  <2>3. x.do \notin {"review", "verdict"} \cup CycleWrites
    BY <1>5 DEF GoalWrites, CycleWrites
  <2> HIDE DEF View, AllDone, h
  <2>4. ~ Concludes(x) /\ ~ Sets(x, "summarizing")
    BY <2>3 DEF Concludes, Sets
  <2>5. Concluded(t, View', goal'.current, AllDone')
    <3>1. CASE t = <<x>>
      BY <1>2, <2>1, <2>2, <2>3, <2>4, <3>1, OneConcluded
    <3>2. CASE t = <<>>
      <4>1. DOMAIN <<>> = {}
        OBVIOUS
      <4> QED
        BY <3>2, <4>1, NothingConcluded
    <3> QED
      BY <1>5, <3>1, <3>2
  <2>6. t \in Seq({x})
    BY <1>5, NoneOrOne
  <2>7. ~ Sets(h, "summarizing")
    BY <1>5 DEF Sets, Moves, GoalWrites, CycleWrites
  <2> QED
    BY <1>1, <1>2, <1>5, <2>5, <2>6, <2>7, WorkerQuiet DEF h
<1>6. CASE CheckGoal(c)
  <2> DEFINE x == [do |-> "write_goal", to |-> h.to]
  <2>1. h.do = "move_goal" /\ x.do = "write_goal" /\ x.to = h.to /\ (Then(c, <<x>>) \/ Fails(c))
    BY <1>6 DEF CheckGoal, At, This
  <2> HIDE DEF x, h
  <2> QED
    BY <1>3, <1>4, <1>5, <2>1 DEF GoalWrites, Moves, Callers
<1>7. CASE CheckGoalIf(c)
  <2> DEFINE x == MoveGoal(h.to)
  <2>1. h.do = "move_goal_if" /\ x.do = "move_goal" /\ x.to = h.to
        /\ (Then(c, <<x>>) \/ Then(c, <<>>))
    BY <1>7 DEF CheckGoalIf, At, This, MoveGoal, When
  <2>2. c = Worker
    BY <1>1, <2>1, WorkersOwn
  <2> HIDE DEF x, h
  <2> QED
    BY <1>5, <2>1, <2>2 DEF GoalWrites, Moves
<1>8. CASE CheckCycle(c)
  <2> DEFINE x == [h EXCEPT !.do = "write_cycle"]
             t == <<x>>
  <2>1. h.do = "move_cycle" /\ (Then(c, <<x>>) \/ Fails(c))
    BY <1>8 DEF CheckCycle, At, This
  <2>2. x.do = "write_cycle" /\ x.to = h.to
    <3>1. h \in Steps(Len(cycles)) /\ Len(cycles) \in Nat
      BY <1>1, HeadMeans DEF GoalInv
    <3>2. h \in [do : {"move_cycle"}, n : 1 .. Len(cycles), to : CycleGoes]
      BY <2>1, <3>1 DEF Steps, Plain, Front, TaskCalls
    <3> QED
      BY <3>2
  <2>3. c = Worker
    BY <1>1, <2>1, UsersShare DEF Callers, GoalWrites
  <2>4. /\ Concludes(h) => AllDone /\ View.phase \in {"reviewing"} \cup Closing
        /\ Sets(h, "summarizing") => goal.current # 0 /\ View.goal \notin Early
    BY <1>1, <2>3, WorkersNext
  <2> HIDE DEF View, AllDone, h, x
  <2>5. /\ Sets(x, "summarizing") <=> Sets(h, "summarizing")
        /\ Concludes(x) => Concludes(h)
        /\ ~ Accepts(x) /\ x.do # "review" /\ x.do \notin Moves
    BY <2>1, <2>2 DEF Sets, Concludes, Accepts, CycleWrites, GoalWrites, Moves
  <2>6. Concluded(t, View', goal'.current, AllDone')
    BY <1>2, <2>4, <2>5, OneConcluded
  <2>7. t \in Seq({x}) /\ DOMAIN t = {1} /\ t[1] = x
    BY Single
  <2>8. CASE Then(c, t)
    <3> HIDE DEF t
    <3>1. ASSUME NEW y, MayFollow(Worker, This(Worker), y)
          PROVE  /\ y.do = "review" /\ View.phase = "reviewing" => View'.phase = "reviewing"
                 /\ Concludes(y) /\ AllDone /\ View.phase \in {"reviewing"} \cup Closing =>
                       AllDone' /\ View'.phase \in {"reviewing"} \cup Closing
                 /\ Sets(y, "summarizing") /\ This(Worker).do \notin Moves /\ View.goal \notin Early =>
                       View'.goal \notin Early /\ \A k \in DOMAIN t : t[k].do \notin Moves
                 /\ Accepts(y) /\ Sets(This(Worker), "summarizing") =>
                       View'.phase \in Closing \/ \E k \in DOMAIN t : Sets(t[k], "summarizing")
                 /\ Accepts(y) /\ View.phase \in Closing => View'.phase \in Closing
      BY <1>2, <2>3, <2>5, <2>7 DEF h
    <3> QED
      BY <1>1, <1>2, <2>3, <2>6, <2>7, <2>8, <3>1, WorkerTurns
  <2> QED
    BY <1>3, <2>1, <2>8
<1> QED
  BY <1>6, <1>7, <1>8

LEMMA WriteGoalConcludes ==
  ASSUME GoalInv, PhaseInv, ConcludeInv, NEW c \in Callers, WriteGoal(c)
  PROVE  ConcludeInv'
<1> DEFINE h == This(c)
<1>1. script[c] # <<>> /\ UNCHANGED <<cycles, tasks>> /\ h.do = "write_goal" /\ Then(c, <<>>)
      /\ goal' = [goal EXCEPT !.status = h.to]
  BY DEF WriteGoal, At, This
<1>2. goal'.current = goal.current /\ goal'.status = h.to
  BY <1>1 DEF GoalInv
<1>3. /\ View'.phase = View.phase /\ View'.goal = h.to /\ (AllDone => AllDone')
      /\ Len(cycles') = Len(cycles) /\ \A t \in TaskIds : tasks'[t].status = tasks[t].status
  BY <1>1, <1>2 DEF View, AllDone
<1>4. /\ Outcome /\ ViewOK(View)
  BY DEF ConcludeInv, PhaseInv, TablesInOrder
<1>5. h.to \in GoalGoes
  <2>1. h \in Steps(Len(cycles)) /\ Len(cycles) \in Nat
    BY <1>1, HeadMeans DEF GoalInv
  <2> QED
    BY <1>1, <2>1, StepsRead
<1>6. <<>> \in Seq({}) /\ DOMAIN <<>> = {}
  OBVIOUS
<1>7. CASE c = Worker
  <2>1. WorkerMeans(h, View) /\ (Accepts(h) => goal.current # 0 /\ View.phase \in Closing)
    BY <1>1, <1>7, WorkersNext
  <2> HIDE DEF View, AllDone, h
  <2>2. h.to = "accepted" => goal.current # 0 /\ View.phase \in Closing
    BY <1>1, <2>1 DEF Accepts, Moves, GoalWrites
  <2>3. View.phase \in Closing => h.to \notin Early
    BY <1>1, <1>4, <1>5, <2>1 DEF Outcome, WorkerMeans, GoalWrites, Early, Replanned, Closing
  <2>4. View.goal = "awaiting_plan_approval" => h.to = "awaiting_plan_approval"
    BY <1>1, <1>4, <2>1 DEF WorkerMeans, ViewOK, GoalWrites, Replanned, Late, Closing
  <2>5. Outcome'
    BY <1>2, <1>3, <1>4, <2>2, <2>3 DEF Outcome
  <2>6. Concluded(<<>>, View', goal'.current, AllDone')
    BY <1>6, NothingConcluded
  <2>7. This(Worker).do \in Moves /\ ~ Sets(This(Worker), "summarizing")
    BY <1>1, <1>7 DEF Moves, GoalWrites, CycleWrites, Sets, h
  <2> QED
    BY <1>1, <1>2, <1>3, <1>6, <1>7, <2>4, <2>5, <2>6, <2>7, WorkerTurns
<1>8. CASE c = User
  <2>1. UserMeans(h, View) /\ UserWaits(h, View)
    BY <1>1, <1>8, UsersShare
  <2> HIDE DEF View, AllDone, h
  <2>2. View.goal \notin Early => h.to \notin Early
    BY <1>1, <1>5, <2>1 DEF UserMeans, UserWaits, GoalWrites, Early, GoalGoes
  <2>3. h.to # "accepted"
    BY <1>1, <2>1 DEF UserWaits, GoalWrites
  <2>4. Outcome'
    BY <1>2, <1>3, <1>4, <2>2, <2>3 DEF Outcome
  <2>5. This(User).do \in GoalWrites
    BY <1>1, <1>8 DEF GoalWrites, h
  <2> QED
    BY <1>1, <1>2, <1>3, <1>6, <1>8, <2>2, <2>4, <2>5, UserGoesOn
<1> QED
  BY <1>7, <1>8 DEF Callers

LEMMA WriteCycleConcludes ==
  ASSUME GoalInv, PhaseInv, ConcludeInv, NEW c \in Callers, WriteCycle(c)
  PROVE  ConcludeInv'
<1> DEFINE h == This(c)
           row == [cycles[h.n] EXCEPT !.status = h.to]
<1>1. /\ script[c] # <<>> /\ h.do = "write_cycle" /\ UNCHANGED <<goal, tasks>>
      /\ cycles' = [cycles EXCEPT ![h.n].status = h.to] /\ Then(c, <<>>)
  BY DEF WriteCycle, At, This
<1>2. c = Worker
  BY <1>1, UsersShare DEF Callers, GoalWrites
<1>3. /\ WorkerMeans(h, View) /\ Ready(h, View)
      /\ h.to \in Closing => h.n = View.newest /\ View.phase \in {"reviewing"} \cup Closing
      /\ Concludes(h) => AllDone /\ View.phase \in {"reviewing"} \cup Closing
      /\ Sets(h, "summarizing") => goal.current # 0 /\ View.goal \notin Early
  BY <1>1, <1>2, WorkersNext
<1>4. h.n = Len(cycles) /\ h.n \in DOMAIN cycles /\ cycles[h.n] \in CycleRows /\ h.to \in CycleGoes
  <2>1. h \in Steps(Len(cycles)) /\ Len(cycles) \in Nat /\ View.newest = Len(cycles)
    BY <1>1, HeadMeans, Booleans DEF GoalInv
  <2>2. h.n \in 1 .. Len(cycles) /\ h.to \in CycleGoes
    BY <1>1, <2>1, StepsRead
  <2>3. h.n = View.newest
    <3> HIDE DEF View, h
    <3> QED
      BY <1>1, <1>3 DEF WorkerMeans, CycleWrites
  <2> QED
    BY <2>1, <2>2, <2>3 DEF GoalInv
<1>5. row \in CycleRows /\ row.status = h.to /\ cycles' = [cycles EXCEPT ![Len(cycles)] = row]
  <2>1. h.to \in CycleStatuses
    <3> HIDE DEF h
    <3>1. CycleGoes \subseteq Ended \cup {Phases[i] : i \in DOMAIN Phases}
      <4>1. DOMAIN Phases = 1 .. 7
        BY DEF Phases
      <4>2. /\ Phases[2] = "orienting" /\ Phases[3] = "deciding" /\ Phases[4] = "dispatching"
            /\ Phases[5] = "executing" /\ Phases[6] = "reviewing" /\ Phases[7] = "summarizing"
        BY DEF Phases
      <4> QED
        BY <4>1, <4>2 DEF CycleGoes, Ended
    <3> QED
      BY <1>4, <3>1 DEF CycleStatuses
  <2> QED
    BY <1>1, <1>4, <2>1 DEF CycleRows
<1>6. /\ View'.goal = View.goal /\ View'.newest = View.newest /\ View'.phase = h.to
  <2> HIDE DEF View, row, h
  <2> QED
    BY <1>1, <1>4, <1>5, NewestTurns
<1>7. (AllDone => AllDone') /\ goal'.current = goal.current /\ Len(cycles') = Len(cycles)
      /\ \A t \in TaskIds : tasks'[t].status = tasks[t].status
  BY <1>1, <1>6, Booleans DEF AllDone
<1>8. <<>> \in Seq({}) /\ DOMAIN <<>> = {}
  OBVIOUS
<1>9. Outcome
  BY DEF ConcludeInv
<1> HIDE DEF View, AllDone, h, row
<1>10. h.to \in Closing => AllDone /\ View.goal \notin Early
  BY <1>1, <1>3, <1>9 DEF Outcome, Ready, Sets, Concludes, CycleWrites, Closing
<1>11. View.phase \in Closing => h.to \in Closing
  BY <1>1, <1>3 DEF WorkerMeans, Onward, CycleWrites, Closing
<1>12. Outcome'
  BY <1>6, <1>7, <1>9, <1>10, <1>11 DEF Outcome
<1>13. Concluded(<<>>, View', goal'.current, AllDone')
  BY <1>8, NothingConcluded
<1>14. ASSUME NEW y, MayFollow(Worker, This(Worker), y)
       PROVE  ~ Concludes(y) /\ y.do # "review" /\ (Accepts(y) => View'.phase \in Closing)
  BY <1>1, <1>2, <1>6, <1>14 DEF MayFollow, Concludes, Sets, Accepts, Moves, GoalWrites, CycleWrites, h
<1>15. \A y : Sets(y, "summarizing") => Concludes(y)
  BY DEF Concludes
<1> QED
  BY <1>1, <1>2, <1>6, <1>7, <1>8, <1>12, <1>13, <1>14, <1>15, WorkerTurns

LEMMA WriteHashConcludes ==
  ASSUME GoalInv, PhaseInv, ConcludeInv, NEW c \in Callers, WriteHash(c)
  PROVE  ConcludeInv'
<1> DEFINE h == This(c)
           row == [cycles[h.n] EXCEPT !.hash = h.hash, !.plan = h.plan]
<1>1. /\ script[c] # <<>> /\ h.do = "set_hash" /\ UNCHANGED <<goal, tasks>> /\ Then(c, <<>>)
      /\ cycles' = [cycles EXCEPT ![h.n].hash = h.hash, ![h.n].plan = h.plan]
  BY DEF WriteHash, At, This
<1>2. c = Worker
  BY <1>1, UsersShare DEF Callers, GoalWrites
<1>3. h.n \in DOMAIN cycles /\ cycles[h.n] \in CycleRows
  <2>1. h \in Steps(Len(cycles)) /\ Len(cycles) \in Nat
    BY <1>1, HeadMeans DEF GoalInv
  <2>2. h.n \in 1 .. Len(cycles)
    BY <1>1, <2>1, StepsRead
  <2> QED
    BY <2>2 DEF GoalInv
<1>4. row.status = cycles[h.n].status /\ cycles' = [cycles EXCEPT ![h.n] = row]
  BY <1>1, <1>3 DEF CycleRows
<1>5. Outcome
  BY DEF ConcludeInv
<1>6. <<>> \in Seq({})
  OBVIOUS
<1>7. This(Worker).do \notin CycleWrites
  BY <1>1, <1>2 DEF CycleWrites
<1> HIDE DEF View, AllDone, h, row
<1>8. /\ Outcome' /\ View'.phase = View.phase /\ View'.goal = View.goal
      /\ (AllDone => AllDone') /\ goal'.current = goal.current
  BY <1>1, <1>3, <1>4, <1>5, RowStays
<1>9. script[Worker] # <<>> /\ Then(Worker, <<>>)
  BY <1>1, <1>2
<1> QED
  <2> DEFINE T == {}
             t == <<>>
  <2>1. \A x \in T : Modest(x, View) /\ x.do \notin Moves
    OBVIOUS
  <2>2. AllDone /\ View.phase \in {"reviewing"} \cup Closing => AllDone'
    BY <1>8
  <2>3. t \in Seq(T) /\ Then(Worker, t)
    BY <1>6, <1>9
  <2>4. View'.phase = View.phase /\ View'.goal = View.goal /\ goal'.current = goal.current /\ Outcome'
    BY <1>8
  <2> HIDE DEF T, t
  <2> QED
    BY <1>7, <1>9, <2>1, <2>2, <2>3, <2>4, WorkerReads

LEMMA CreateTaskConcludes ==
  ASSUME GoalInv, PhaseInv, ConcludeInv, NEW c \in Callers, NEW t \in TaskIds, CreateTask(c, t)
  PROVE  ConcludeInv'
<1> DEFINE x == OnTask("queue_task", t)
<1>1. /\ script[c] # <<>> /\ This(c).do = "create_task" /\ UNCHANGED <<goal, cycles>>
      /\ tasks' = [tasks EXCEPT ![t] = [status |-> "proposed", cycle |-> This(c).n]]
      /\ Then(c, <<x>>)
  BY DEF CreateTask, At, This
<1>2. c = Worker
  BY <1>1, WorkersOwn
<1>3. View.phase = "executing"
  <2>1. Ready(This(c), View)
    BY <1>1, HeadMeans
  <2> HIDE DEF View
  <2> QED
    BY <1>1, <2>1 DEF Ready
<1>4. Outcome
  BY DEF ConcludeInv
<1>5. \A u \in TaskIds : tasks'[u].status \in Seen
  <2>1. tasks \in [TaskIds -> TaskRows]
    BY DEF GoalInv
  <2> QED
    BY <1>1, <1>4, <2>1 DEF Outcome, Seen
<1>6. View' = View /\ goal'.current = goal.current /\ Len(cycles') = Len(cycles)
  BY <1>1 DEF View
<1>7. x.do = "queue_task"
  BY DEF OnTask
<1> HIDE DEF View, AllDone, x
<1>8. Modest(x, View) /\ x.do \notin Moves
  BY <1>7, ModestWhat DEF Moves, GoalWrites, CycleWrites
<1>9. Outcome'
  BY <1>1, <1>3, <1>4, <1>5, <1>6, OutcomeStays DEF Closing
<1>10. <<x>> \in Seq({x}) /\ \A e \in {x} : Modest(e, View) /\ e.do \notin Moves
  BY <1>8, Single
<1>11. This(Worker).do \notin CycleWrites
  BY <1>1, <1>2 DEF CycleWrites
<1>12. ~ (View.phase \in {"reviewing"} \cup Closing)
  BY <1>3 DEF Closing
<1>13. script[Worker] # <<>> /\ Then(Worker, <<x>>)
  BY <1>1, <1>2
<1>14. View'.phase = View.phase /\ View'.goal = View.goal
  BY <1>6
<1> QED
  <2> DEFINE T == {x}
             t1 == <<x>>
  <2>1. t1 \in Seq(T) /\ Then(Worker, t1) /\ \A e \in T : Modest(e, View) /\ e.do \notin Moves
    BY <1>10, <1>13
  <2>2. AllDone /\ View.phase \in {"reviewing"} \cup Closing => AllDone'
    BY <1>12
  <2> HIDE DEF T, t1
  <2> QED
    BY <1>6, <1>9, <1>11, <1>13, <1>14, <2>1, <2>2, WorkerReads

\* What a call does to a task leaves what is done as it is.
LEMMA CalledTasks ==
  ASSUME GoalInv, Outcome, NEW t \in TaskIds, NEW to \in {"queued", "accepted"},
         Lifecycle!Legal(tasks[t].status, to), tasks' = [tasks EXCEPT ![t].status = to]
  PROVE  (\A u \in TaskIds : tasks'[u].status \in Seen) /\ (AllDone => AllDone')
<1>1. tasks \in [TaskIds -> TaskRows] /\ (tasks[t].cycle = 0 <=> tasks[t].status = "absent")
  BY DEF GoalInv, GoalTypeOK
<1>2. /\ \A u \in TaskIds : tasks'[u].cycle = tasks[u].cycle
      /\ \A u \in TaskIds : u # t => tasks'[u].status = tasks[u].status
      /\ tasks'[t].status = to
  <2>1. \A u \in TaskIds : DOMAIN tasks[u] = {"status", "cycle"}
    BY <1>1 DEF TaskRows
  <2> QED
    BY <1>1, <2>1 DEF TaskRows
<1>3. \A u \in TaskIds : tasks'[u].status \in Seen
  BY <1>2 DEF Outcome, Seen
<1>4. ASSUME AllDone
      PROVE  AllDone'
  <2>1. tasks[t].cycle # 0
    <3>1. tasks[t].status # "absent"
      BY DEF Lifecycle!Legal, Lifecycle!Statuses
    <3> QED
      BY <1>1, <3>1
  <2>2. tasks[t].status \in {"accepted", "review_ready"}
    BY <1>4, <2>1 DEF AllDone
  <2>3. to = "accepted"
    <3>1. /\ "accepted" \in Lifecycle!Statuses /\ "review_ready" \in Lifecycle!Statuses
          /\ Lifecycle!Targets["accepted"] = {}
          /\ Lifecycle!Targets["review_ready"] = {"accepted", "rework_required", "failed"}
      BY DEF Lifecycle!Targets, Lifecycle!Statuses
    <3>2. to \in Lifecycle!Targets[tasks[t].status]
      BY DEF Lifecycle!Legal
    <3> QED
      BY <2>2, <3>1, <3>2
  <2> QED
    BY <1>2, <1>4, <2>3 DEF AllDone
<1> QED
  BY <1>3, <1>4

LEMMA CallTaskConcludes ==
  ASSUME GoalInv, PhaseInv, ConcludeInv, NEW c \in Callers, CallTask(c)
  PROVE  ConcludeInv'
<1>1. PICK do \in DOMAIN TaskCalls :
         /\ At(c, do)
         /\ \/ /\ Lifecycle!Legal(tasks[This(c).task].status, TaskCalls[do])
               /\ tasks' = [tasks EXCEPT ![This(c).task].status = TaskCalls[do]]
               /\ Then(c, <<>>)
            \/ (Then(c, <<>>) \/ Fails(c)) /\ UNCHANGED tasks
         /\ UNCHANGED <<goal, cycles>>
  BY DEF CallTask
<1>2. script[c] # <<>> /\ This(c).do = do /\ TaskCalls[do] \in {"queued", "accepted"}
      /\ do \in {"queue_task", "accept_task", "resume_task"}
  BY <1>1 DEF At, This, TaskCalls
<1>3. This(c).task \in TaskIds
  <2>1. This(c) \in Steps(Len(cycles)) /\ Len(cycles) \in Nat
    BY <1>2, HeadMeans DEF GoalInv
  <2> QED
    BY <1>2, <2>1, StepsRead DEF TaskCalls
<1>4. Outcome
  BY DEF ConcludeInv
<1>5. (\A u \in TaskIds : tasks'[u].status \in Seen) /\ (AllDone => AllDone')
  BY <1>1, <1>2, <1>3, <1>4, CalledTasks, TasksStay
<1>6. View' = View /\ goal'.current = goal.current /\ Len(cycles') = Len(cycles)
  BY <1>1 DEF View
<1>7. Outcome'
  <2> HIDE DEF View, AllDone
  <2> QED
    BY <1>1, <1>4, <1>5, <1>6, OutcomeStays
<1>8. <<>> \in Seq({}) /\ DOMAIN <<>> = {}
  OBVIOUS
<1>9. CASE Fails(c)
  <2> HIDE DEF View, AllDone
  <2> QED
    BY <1>5, <1>6, <1>7, <1>9, Dropped
<1>10. CASE Then(c, <<>>) /\ c = Worker
  <2>1. This(Worker).do \notin CycleWrites
    BY <1>2, <1>10 DEF CycleWrites
  <2> HIDE DEF View, AllDone
  <2> QED
    BY <1>2, <1>5, <1>6, <1>7, <1>8, <1>10, <2>1, WorkerReads
<1>11. CASE Then(c, <<>>) /\ c = User
  <2> HIDE DEF View, AllDone
  <2> QED
    BY <1>2, <1>5, <1>6, <1>7, <1>8, <1>11, UserGoesOn
<1> QED
  BY <1>1, <1>9, <1>10, <1>11 DEF Callers

\* Every task of the goal is a task of its only cycle.
LEMMA AllReviewed ==
  ASSUME GoalInv, Outcome, NEW n \in 1 .. Len(cycles),
         ~ AnyTask(n, {"blocked"}),
         ~ AnyTask(n, Progressing \cup Waiting \cup {"rework_required", "failed"})
  PROVE  AllDone
<1>1. Len(cycles) \in Nat /\ \A t \in TaskIds :
         /\ tasks[t].cycle \in 0 .. Len(cycles)
         /\ tasks[t].cycle = 0 <=> tasks[t].status = "absent"
  BY DEF GoalInv, GoalTypeOK
<1>2. ASSUME NEW t \in TaskIds, tasks[t].cycle # 0
      PROVE  tasks[t].status \in {"accepted", "review_ready"}
  <2>1. tasks[t].cycle = n
    BY <1>1, <1>2 DEF Outcome
  <2>2. tasks[t].status \notin {"blocked"} \cup Progressing \cup Waiting \cup {"rework_required", "failed"}
    BY <2>1 DEF AnyTask, CycleTasks
  <2>3. tasks[t].status \in Seen /\ tasks[t].status # "absent"
    BY <1>1, <1>2 DEF Outcome
  <2> QED
    BY <2>2, <2>3 DEF Seen, Progressing
<1> QED
  BY <1>2 DEF AllDone

LEMMA ListTasksConcludes ==
  ASSUME GoalInv, PhaseInv, ConcludeInv, NEW c \in Callers, ListTasks(c)
  PROVE  ConcludeInv'
<1> DEFINE h == This(c)
<1>1. script[c] # <<>> /\ UNCHANGED <<goal, cycles, tasks>>
  BY DEF ListTasks, At
<1>2. Outcome' /\ View' = View /\ (AllDone => AllDone') /\ goal'.current = goal.current
  BY <1>1, TablesSame DEF ConcludeInv
<1>3. ASSUME NEW do, do \in {"accept_task", "resume_task"}, NEW st, st # "absent",
             NEW q \in Orders({t \in CycleTasks(h.n) : tasks[t].status = st}),
             Then(c, [i \in DOMAIN q |-> OnTask(do, q[i])]), h.do \in {"accept_ready", "resume_tasks"}
      PROVE  ConcludeInv'
  <2> DEFINE S == {t \in CycleTasks(h.n) : tasks[t].status = st}
             C == {OnTask(do, t) : t \in S}
             r == [i \in DOMAIN q |-> OnTask(do, q[i])]
  <2>1. IsFiniteSet(S)
    <3>1. S \subseteq {t \in TaskIds : tasks[t].status # "absent"}
      BY <1>3 DEF CycleTasks
    <3> QED
      BY <3>1, FS_Subset DEF GoalInv
  <2>2. Cardinality(S) \in Nat /\ q \in [1 .. Cardinality(S) -> S]
    BY <2>1, FS_CardinalityType DEF Orders
  <2>3. r \in Seq(C)
    <3>1. \A i \in DOMAIN q : OnTask(do, q[i]) \in C
      BY <2>2
    <3> HIDE DEF C, S
    <3> QED
      BY <2>2, <3>1
  <2>4. \A x \in C : x.do = do
    BY <1>3 DEF OnTask
  <2>5. Then(c, r) /\ \A k \in DOMAIN r : r[k].do = do
    BY <1>3 DEF OnTask
  <2>6. do \notin {"review", "verdict", "set_hash", "close_team"} \cup Moves \cup CycleWrites
        /\ h.do \notin CycleWrites
    BY <1>3 DEF Moves, GoalWrites, CycleWrites
  <2> HIDE DEF View, AllDone, r, C, h
  <2>7. CASE c = Worker
    <3>1. \A x \in C : Modest(x, View) /\ x.do \notin Moves
      BY <2>4, <2>6, ModestWhat
    <3> QED
      BY <1>1, <1>2, <2>3, <2>5, <2>6, <2>7, <3>1, WorkerReads DEF h
  <2>8. CASE c = User
    <3>1. \A k \in DOMAIN r : UserWaits(r[k], View')
      BY <2>5, <2>6 DEF UserWaits, Moves
    <3> QED
      BY <1>1, <1>2, <2>3, <2>5, <2>8, <3>1, UserGoesOn
  <2> QED
    BY <2>7, <2>8 DEF Callers
<1>4. CASE h.do = "weigh" /\ Then(c, WeighScript(h.n))
  <2> DEFINE b == MoveGoalIf({"running"}, "blocked")
             x == MoveGoalIf({"running"}, "awaiting_review")
             y == On("review_team", h.n)
             z == MoveCycle(h.n, "reviewing")
             C == {b, x, y, z}
  <2>1. WeighScript(h.n) = <<>> \/ WeighScript(h.n) = <<b>> \/ WeighScript(h.n) = <<x, y, z>>
    BY DEF WeighScript
  <2>2. \A e \in C : Modest(e, View)
    BY DEF MoveGoalIf, On, MoveCycle, Modest, Concludes, Accepts, Sets, Moves, GoalWrites, CycleWrites
  <2>3. c = Worker
    BY <1>1, <1>4, WorkersOwn
  <2> HIDE DEF View, AllDone, b, x, y, z
  <2>4. <<>> \in Seq(C) /\ <<b>> \in Seq(C) /\ <<x, y, z>> \in Seq(C)
    OBVIOUS
  <2>5. PICK t \in Seq(C) : Then(c, t)
    BY <1>4, <2>1, <2>4
  <2> HIDE DEF C
  <2>6. This(Worker).do \notin CycleWrites /\ \A e : ~ MayFollow(Worker, This(Worker), e)
    BY <1>4, <2>3 DEF MayFollow, CycleWrites
  <2> QED
    BY <1>1, <1>2, <2>2, <2>3, <2>5, <2>6, WorkerReads
<1>5. CASE h.do = "review" /\ Then(c, ReviewScript(h.n))
  <2> DEFINE d == MoveGoalIf({"awaiting_review", "running"}, "blocked")
             x == MoveGoalIf({"running"}, "awaiting_review")
             a == [do |-> "verdict", accepted |-> TRUE]
             t1 == <<d>>
             t2 == <<x>>
             t3 == <<x, a>>
             C == {d, x, a}
             done == AllDone
  <2>1. ReviewScript(h.n) = t1 \/ ReviewScript(h.n) = t2 \/ (ReviewScript(h.n) = t3 /\ AllDone)
    <3>1. CASE AnyTask(h.n, {"blocked"})
      BY <3>1 DEF ReviewScript
    <3>2. CASE ~ AnyTask(h.n, {"blocked"})
               /\ AnyTask(h.n, Progressing \cup Waiting \cup {"rework_required", "failed"})
      <4>1. ReviewScript(h.n) = <<x>> \o <<>>
        BY <3>2 DEF ReviewScript, When
      <4> QED
        BY <4>1, Single
    <3>3. CASE ~ AnyTask(h.n, {"blocked"})
               /\ ~ AnyTask(h.n, Progressing \cup Waiting \cup {"rework_required", "failed"})
      <4>1. ReviewScript(h.n) = <<x>> \o <<a>>
        BY <3>3 DEF ReviewScript, When
      <4>2. h.n \in 1 .. Len(cycles)
        <5>1. h \in Steps(Len(cycles)) /\ Len(cycles) \in Nat
          BY <1>1, HeadMeans DEF GoalInv
        <5> QED
          BY <1>5, <5>1, StepsRead
      <4>3. AllDone
        BY <3>3, <4>2, AllReviewed DEF ConcludeInv
      <4> QED
        BY <4>1, <4>3, Couple
    <3> QED
      BY <3>1, <3>2, <3>3
  <2>2. c = Worker
    BY <1>1, <1>5, WorkersOwn
  <2>3. View.phase = "reviewing"
    BY <1>1, <1>5, <2>2, WorkersNext
  <2>4. /\ Modest(d, View) /\ Modest(x, View) /\ a.do = "verdict"
        /\ d.do \in Moves /\ x.do \in Moves
    BY DEF MoveGoalIf, Modest, Concludes, Accepts, Sets, Moves, GoalWrites, CycleWrites
  <2>5. /\ DOMAIN t1 = {1} /\ t1[1] = d /\ DOMAIN t2 = {1} /\ t2[1] = x
        /\ DOMAIN t3 = {1, 2} /\ t3[1] = x /\ t3[2] = a
        /\ t1 \in Seq(C) /\ t2 \in Seq(C) /\ t3 \in Seq(C)
    OBVIOUS
  <2> HIDE DEF View, AllDone, d, x, a, t1, t2, t3, C, h
  <2>6. PICK t \in Seq(C) : Then(c, t) /\ (t = t1 \/ t = t2 \/ (t = t3 /\ done))
    BY <1>5, <2>1, <2>5
  <2>7. Concluded(t, View', goal'.current, AllDone')
    <3>1. CASE t = t1 \/ t = t2
      <4>1. \A k \in DOMAIN t : Modest(t[k], View')
        BY <1>2, <2>4, <2>5, <3>1
      <4> QED
        BY <4>1, NothingConcluded
    <3>2. CASE t = t3 /\ done
      <4>1. a.do # "review" /\ ~ Accepts(a) /\ ~ Sets(a, "summarizing")
        BY <2>4 DEF Accepts, Sets, Moves, GoalWrites, CycleWrites
      <4>2. /\ x.do = "review" => View'.phase = "reviewing"
            /\ ~ Concludes(x) /\ ~ Accepts(x) /\ ~ Sets(x, "summarizing")
        BY <1>2, <2>4 DEF Modest, Concludes
      <4>3. AllDone' /\ View'.phase = "reviewing"
        BY <1>2, <2>3, <3>2
      <4> DEFINE w == View'
                 e == AllDone'
                 i == goal'.current
      <4>4. e /\ w.phase = "reviewing" /\ (x.do = "review" => w.phase = "reviewing")
        BY <4>2, <4>3
      <4> HIDE DEF w, e, i
      <4>5. Concluded(t3, w, i, e)
        BY <2>5, <4>1, <4>2, <4>4 DEF Concluded
      <4> QED
        BY <3>2, <4>5 DEF w, e, i
    <3> QED
      BY <2>6, <3>1, <3>2
  <2>8. (\A e : ~ MayFollow(Worker, This(Worker), e)) /\ ~ Sets(This(Worker), "summarizing")
    BY <1>5, <2>2 DEF MayFollow, Sets, CycleWrites, h
  <2> QED
    BY <1>1, <1>2, <2>2, <2>6, <2>7, <2>8, WorkerQuiet
<1>6. \/ h.do = "accept_ready" /\ \E q \in Orders({t \in CycleTasks(h.n) : tasks[t].status = "review_ready"}) :
                                      Then(c, [i \in DOMAIN q |-> OnTask("accept_task", q[i])])
      \/ h.do = "resume_tasks" /\ \E q \in Orders({t \in CycleTasks(h.n) : tasks[t].status = "blocked"}) :
                                      Then(c, [i \in DOMAIN q |-> OnTask("resume_task", q[i])])
      \/ h.do = "weigh" /\ Then(c, WeighScript(h.n))
      \/ h.do = "review" /\ Then(c, ReviewScript(h.n))
  BY DEF ListTasks, At, This
<1> QED
  BY <1>3, <1>4, <1>5, <1>6

LEMMA TeamStays ==
  ASSUME GoalInv, Outcome, UNCHANGED <<goal, tasks>>, NEW n \in DOMAIN cycles, NEW team,
         cycles' = [cycles EXCEPT ![n].team = team]
  PROVE  /\ Outcome' /\ View'.phase = View.phase /\ View'.goal = View.goal
         /\ (AllDone => AllDone') /\ goal'.current = goal.current
<1> DEFINE row == [cycles[n] EXCEPT !.team = team]
<1>1. cycles[n] \in CycleRows
  BY DEF GoalInv
<1>2. row.status = cycles[n].status
  BY <1>1 DEF CycleRows
<1>3. cycles' = [cycles EXCEPT ![n] = row]
  OBVIOUS
<1> HIDE DEF row
<1> QED
  BY <1>2, <1>3, RowStays

LEMMA TeamsConclude ==
  ASSUME GoalInv, PhaseInv, ConcludeInv, NEW c \in Callers,
         StaffTeam(c) \/ WriteTeam(c) \/ SyncTeam(c) \/ CloseTeam(c)
  PROVE  ConcludeInv'
<1> DEFINE h == This(c)
<1>1. script[c] # <<>> /\ UNCHANGED <<goal, tasks>>
      /\ h.do \in {"plan_team", "staff_team", "move_team", "review_team", "close_team"}
  BY DEF StaffTeam, WriteTeam, SyncTeam, CloseTeam, At, This
<1>2. h.n \in DOMAIN cycles
  <2>1. Len(cycles) \in Nat /\ h \in Steps(Len(cycles))
    BY <1>1, HeadMeans DEF GoalInv
  <2>2. h.n \in 1 .. Len(cycles)
    BY <1>1, <2>1, StepsRead
  <2> QED
    BY <2>2 DEF GoalInv
<1>3. PICK T, t : /\ t \in Seq(T)
                  /\ \A x \in T : x.do = "move_team"
                  /\ Then(c, t) \/ Fails(c)
  <2>1. CASE StaffTeam(c)
    <3> DEFINE team == cycles[h.n].team
               moves == IF h.do = "plan_team" THEN Staffing(team, "awaiting_plan_approval")
                        ELSE IF team = "awaiting_plan_approval" THEN <<"executing">>
                        ELSE Staffing(team, "executing")
               U == {"planning", "awaiting_plan_approval", "executing"}
               C == {MoveTeam(h.n, to) : to \in U}
               r == [i \in DOMAIN moves |-> MoveTeam(h.n, moves[i])]
    <3>1. Then(c, r)
      BY <2>1 DEF StaffTeam, This
    <3>2. moves \in Seq(U)
      <4>1. /\ \A last \in U : <<"planning", last>> \in Seq(U) /\ <<last>> \in Seq(U)
            /\ <<>> \in Seq(U) /\ {"awaiting_plan_approval", "executing"} \subseteq U
        OBVIOUS
      <4>2. \A last \in U : Staffing(team, last) \in Seq(U)
        BY <4>1 DEF Staffing
      <4> QED
        BY <4>1, <4>2
    <3>3. \A x \in C : x.do = "move_team"
      BY DEF MoveTeam
    <3>4. r \in Seq(C)
      <4>1. \A to \in U : MoveTeam(h.n, to) \in C
        OBVIOUS
      <4> HIDE DEF C, moves, U
      <4> QED
        BY <3>2, <4>1
    <3> HIDE DEF C, r
    <3> QED
      BY <3>1, <3>3, <3>4
  <2>2. CASE WriteTeam(c) \/ CloseTeam(c)
    <3> DEFINE U == {}
               u == <<>>
    <3>1. u \in Seq(U) /\ (Then(c, u) \/ Fails(c)) /\ \A x \in U : x.do = "move_team"
      BY <2>2 DEF WriteTeam, CloseTeam
    <3> HIDE DEF U, u
    <3> QED
      BY <3>1
  <2>3. CASE SyncTeam(c)
    <3> DEFINE x == MoveTeam(h.n, "awaiting_review")
    <3>1. PICK u : Then(c, u) /\ (u = <<>> \/ u = <<x>>)
      BY <2>3 DEF SyncTeam, When, This
    <3>2. x.do = "move_team"
      BY DEF MoveTeam
    <3> HIDE DEF x
    <3>3. u \in Seq({x})
      BY <3>1, NoneOrOne
    <3> QED
      BY <3>1, <3>2, <3>3
  <2> QED
    BY <2>1, <2>2, <2>3
<1>4. /\ Outcome' /\ View'.phase = View.phase /\ View'.goal = View.goal
      /\ (AllDone => AllDone') /\ goal'.current = goal.current
  <2>1. UNCHANGED cycles \/ \E team : cycles' = [cycles EXCEPT ![h.n].team = team]
    BY DEF StaffTeam, WriteTeam, SyncTeam, CloseTeam, This
  <2>2. Outcome
    BY DEF ConcludeInv
  <2>3. CASE UNCHANGED cycles
    <3>1. View' = View
      BY <1>1, <2>3 DEF View
    <3> HIDE DEF View, AllDone
    <3> QED
      BY <1>1, <2>2, <2>3, <3>1, TablesSame
  <2>4. CASE \E team : cycles' = [cycles EXCEPT ![h.n].team = team]
    <3> HIDE DEF View, AllDone, h
    <3> QED
      BY <1>1, <1>2, <2>2, <2>4, TeamStays
  <2> QED
    BY <2>1, <2>3, <2>4
<1> HIDE DEF View, AllDone
<1>5. CASE Fails(c)
  BY <1>4, <1>5, Dropped
<1>6. CASE Then(c, t) /\ c = Worker
  <2>1. \A x \in T : Modest(x, View) /\ x.do \notin Moves
    BY <1>3, ModestWhat DEF Moves, GoalWrites, CycleWrites
  <2>2. This(Worker).do \notin CycleWrites
    BY <1>1, <1>6 DEF CycleWrites
  <2> QED
    BY <1>1, <1>3, <1>4, <1>6, <2>1, <2>2, WorkerReads
<1>7. CASE Then(c, t) /\ c = User
  <2>1. \A k \in DOMAIN t : t[k] \in T
    BY <1>3
  <2>2. \A k \in DOMAIN t : UserWaits(t[k], View')
    BY <1>3, <2>1 DEF UserWaits, GoalWrites, CycleWrites
  <2> QED
    BY <1>1, <1>3, <1>4, <1>7, <2>2, UserGoesOn
<1> QED
  BY <1>3, <1>5, <1>6, <1>7 DEF Callers

LEMMA VerdictConcludes ==
  ASSUME GoalInv, PhaseInv, ConcludeInv, NEW c \in Callers, Verdict(c)
  PROVE  ConcludeInv'
<1> DEFINE h == This(c)
           n == goal.current
           x1 == SetHash(n, GraphHash, cycles[n].plan)
           x2 == MoveCycle(n, "summarizing")
           x3 == MoveCycle(n, "completed")
           x4 == [do |-> "close_team", n |-> n, to |-> "accepted"]
           x5 == MoveGoal("accepted")
           t == <<x1, x2, x3, x4, x5>>
           S == {x1, x2, x3, x4, x5}
<1>1. script[c] # <<>> /\ UNCHANGED <<goal, cycles, tasks>> /\ h.do = "verdict"
  BY DEF Verdict, At, This
<1>2. Outcome' /\ View' = View /\ (AllDone => AllDone') /\ goal'.current = goal.current
  BY <1>1, TablesSame DEF ConcludeInv
<1>3. c = Worker
  BY <1>1, UsersShare DEF Callers, GoalWrites
<1>4. /\ h.accepted = TRUE /\ AllDone /\ View.phase \in {"reviewing"} \cup Closing
  <2>1. WorkerMeans(h, View) /\ (Concludes(h) => AllDone /\ View.phase \in {"reviewing"} \cup Closing)
    BY <1>1, <1>3, WorkersNext
  <2> HIDE DEF View, AllDone, h
  <2> QED
    BY <1>1, <2>1 DEF WorkerMeans, Concludes
<1>5. CASE Fails(c)
  <2> HIDE DEF View, AllDone
  <2> QED
    BY <1>2, <1>5, Dropped
<1>6. CASE goal.status = "awaiting_review" /\ n # 0 /\ Then(c, t)
  <2>1. View.goal = "awaiting_review"
    BY <1>6 DEF View
  <2>2. /\ x1.do = "set_hash" /\ x2.do = "move_cycle" /\ x2.to = "summarizing"
        /\ x3.do = "move_cycle" /\ x3.to = "completed" /\ x4.do = "close_team"
        /\ x5.do = "move_goal"
    BY DEF SetHash, MoveCycle, MoveGoal
  <2> HIDE DEF View, AllDone, x1, x2, x3, x4, x5, n, h
  <2>3. /\ DOMAIN t = 1 .. 5 /\ t[1] = x1 /\ t[2] = x2 /\ t[3] = x3 /\ t[4] = x4 /\ t[5] = x5
        /\ t \in Seq(S)
    OBVIOUS
  <2> HIDE DEF t, S
  <2>4. /\ \A k \in DOMAIN t : t[k].do \notin {"review", "verdict"}
        /\ \A k \in DOMAIN t : Sets(t[k], "summarizing") => k = 2
        /\ \A k \in DOMAIN t : Accepts(t[k]) => k = 5
        /\ Sets(t[2], "summarizing") /\ t[1].do \notin Moves
    BY <2>2, <2>3 DEF Sets, Accepts, CycleWrites, Moves, GoalWrites
  <2>5. 1 .. (2 - 1) = {1} /\ 2 \in 1 .. (5 - 1)
    OBVIOUS
  <2>6. Concluded(t, View', goal'.current, AllDone')
    <3> DEFINE w == View'
               e == AllDone'
               i == goal'.current
    <3>1. e /\ w.phase \in {"reviewing"} \cup Closing /\ w.goal = "awaiting_review" /\ i # 0
      BY <1>2, <1>4, <1>6, <2>1 DEF n
    <3> HIDE DEF w, e, i
    <3>2. ASSUME NEW j \in DOMAIN t
          PROVE  /\ t[j].do = "review" => w.phase = "reviewing"
                 /\ Concludes(t[j]) => e /\ w.phase \in {"reviewing"} \cup Closing
                 /\ Sets(t[j], "summarizing") =>
                       /\ i # 0 /\ w.goal \notin Early
                       /\ \A k \in 1 .. (j - 1) : t[k].do \notin Moves
                 /\ Accepts(t[j]) =>
                       /\ i # 0
                       /\ w.phase \in Closing \/ \E k \in 1 .. (j - 1) : Sets(t[k], "summarizing")
      <4>1. t[j].do # "review" /\ (Concludes(t[j]) => e /\ w.phase \in {"reviewing"} \cup Closing)
        BY <2>4, <3>1
      <4>2. ASSUME Sets(t[j], "summarizing")
            PROVE  i # 0 /\ w.goal \notin Early /\ \A k \in 1 .. (j - 1) : t[k].do \notin Moves
        <5>1. j = 2
          BY <2>4, <4>2
        <5> QED
          BY <2>4, <2>5, <3>1, <5>1 DEF Early
      <4>3. ASSUME Accepts(t[j])
            PROVE  i # 0 /\ \E k \in 1 .. (j - 1) : Sets(t[k], "summarizing")
        <5>1. j = 5
          BY <2>4, <4>3
        <5> QED
          BY <2>4, <2>5, <3>1, <5>1
      <4> QED
        BY <4>1, <4>2, <4>3
    <3>3. Concluded(t, w, i, e)
      BY <3>2 DEF Concluded
    <3> QED
      BY <3>3 DEF w, e, i
  <2>7. (\A e : ~ MayFollow(Worker, This(Worker), e)) /\ ~ Sets(This(Worker), "summarizing")
    BY <1>1, <1>3 DEF MayFollow, Sets, CycleWrites, h
  <2> QED
    BY <1>1, <1>2, <1>3, <1>6, <2>3, <2>6, <2>7, WorkerQuiet
<1>7. Fails(c) \/ (goal.status = "awaiting_review" /\ n # 0 /\ Then(c, t))
  <2>1. \/ Fails(c)
        \/ /\ goal.status = "awaiting_review" /\ goal.current # 0
           /\ Then(c, VerdictScript(goal.current, IF h.accepted THEN "accepted" ELSE "rework_required"))
    BY DEF Verdict, This
  <2>2. VerdictScript(n, "accepted") = t
    BY DEF VerdictScript
  <2>3. (IF h.accepted THEN "accepted" ELSE "rework_required") = "accepted"
    BY <1>4
  <2> HIDE DEF t, h
  <2> QED
    BY <2>1, <2>2, <2>3
<1> QED
  BY <1>5, <1>6, <1>7

LEMMA CreateCycleConcludes ==
  ASSUME GoalInv, PhaseInv, ConcludeInv, NEW c \in Callers, CreateCycle(c)
  PROVE  ConcludeInv'
<1> DEFINE row == [ status |-> "observing", hash |-> NoHash, plan |-> NoPlan, team |-> "none" ]
           x == On("link_cycle", Len(cycles) + 1)
           y == MoveCycle(Len(cycles) + 1, "orienting")
           t == <<x, y>>
           T == {x, y}
<1>1. /\ script[c] # <<>> /\ This(c).do = "create_cycle" /\ UNCHANGED <<goal, tasks>>
      /\ cycles' = Append(cycles, row) /\ Then(c, t)
  BY DEF CreateCycle, At, This
<1>2. c = Worker /\ WorkerMeans(This(c), View)
  BY <1>1, WorkersOwn
<1>3. Outcome
  BY DEF ConcludeInv
<1>4. View.phase = "none" /\ View.goal \in Replanned
  <2> HIDE DEF View
  <2> QED
    BY <1>1, <1>2, <1>3 DEF WorkerMeans, Outcome, Early, Replanned, Closing
<1>5. cycles = <<>>
  BY <1>4, ViewRead
<1>6. Len(cycles') = 1 /\ View'.phase = "observing" /\ View'.goal = View.goal
  <2>1. cycles' = <<row>>
    BY <1>1, <1>5
  <2>2. row.status = "observing"
    OBVIOUS
  <2> HIDE DEF row
  <2>3. Len(cycles') = 1 /\ cycles' # <<>> /\ cycles'[1] = row
    BY <2>1
  <2> QED
    BY <1>1, <2>2, <2>3 DEF View
<1>7. /\ AllDone => AllDone'
      /\ \A u \in TaskIds : tasks'[u].status \in Seen
      /\ goal'.current = goal.current
  BY <1>1, <1>3 DEF AllDone, Outcome
<1>8. x.do = "link_cycle" /\ y.do = "move_cycle" /\ y.to = "orienting"
  BY DEF On, MoveCycle
<1> HIDE DEF View, AllDone, x, y, row
<1>9. Outcome'
  BY <1>4, <1>6, <1>7 DEF Outcome, Closing, Replanned
<1>10. t \in Seq(T) /\ DOMAIN t = {1, 2} /\ t[1] = x /\ t[2] = y
  BY Couple
<1>11. Modest(x, View') /\ Modest(y, View')
  BY <1>8 DEF Modest, Concludes, Accepts, Sets, Moves, GoalWrites, CycleWrites
<1> HIDE DEF t, T
<1>12. Concluded(t, View', goal'.current, AllDone')
  <2>1. \A k \in DOMAIN t : Modest(t[k], View')
    BY <1>10, <1>11
  <2> QED
    BY <2>1, NothingConcluded
<1>13. \A e : ~ MayFollow(Worker, This(Worker), e)
  BY <1>1, <1>2 DEF MayFollow
<1>14. View.goal # "awaiting_plan_approval"
  BY <1>4 DEF Replanned
<1> QED
  BY <1>1, <1>2, <1>6, <1>7, <1>9, <1>10, <1>12, <1>13, <1>14, WorkerTurns

\* What a tick of a cycle that is being dispatched consists of.
LEMMA DispatchMade ==
  ASSUME NEW n, NEW s, NEW plan \in Plans, NEW gated
  PROVE  DispatchScript(n, s, plan, gated) \in
            Seq({ SetHash(n, GraphHash, plan), MoveGoal("awaiting_plan_approval"),
                  MoveGoal("running"), MoveCycle(n, "executing"), On("plan_team", n),
                  On("create_task", n), On("staff_team", n) })
<1> DEFINE t == DispatchScript(n, s, plan, gated)
           h == SetHash(n, GraphHash, plan)
           x == MoveGoal("awaiting_plan_approval")
           y == On("plan_team", n)
           r == MoveGoal("running")
           m == MoveCycle(n, "executing")
           e == On("create_task", n)
           f == On("staff_team", n)
           S == {h, x, r, m, y, e, f}
           a == Act(n, plan)
           held == s \in {"planning", "awaiting_plan_approval"}
           carried == plan.planned = 0 \/ plan.granted > 0
           q == When(s = "planning", <<x>>)
           p == When(held, <<r>>)
           z == When(carried, <<m>> \o a)
<1>1. t = When(cycles[n].hash # GraphHash,
               <<h>> \o IF gated /\ held THEN q \o <<y>> ELSE When(gated => plan.clear, p \o z))
  BY DEF DispatchScript, Execute
<1>2. a \in Seq(S)
  <2>1. a \in Seq({e, f})
    BY ActTrails
  <2> HIDE DEF a, h, x, y, r, m, e, f
  <2> QED
    BY <2>1, SeqsGrow
<1>3. q \in {<<>>, <<x>>} /\ p \in {<<>>, <<r>>} /\ z \in {<<>>, <<m>> \o a}
  BY DEF When
<1> HIDE DEF a, q, p, z, t, h, x, y, r, m, e, f
<1>4. /\ <<>> \in Seq(S) /\ <<x>> \in Seq(S) /\ <<r>> \in Seq(S) /\ <<h>> \in Seq(S)
      /\ <<y>> \in Seq(S) /\ <<m>> \in Seq(S)
  OBVIOUS
<1> DEFINE U == S
<1>5. /\ <<>> \in Seq(U) /\ <<x>> \in Seq(U) /\ <<r>> \in Seq(U) /\ <<h>> \in Seq(U)
      /\ <<y>> \in Seq(U) /\ <<m>> \in Seq(U) /\ a \in Seq(U)
  BY <1>2, <1>4
<1> HIDE DEF U
<1>6. q \in Seq(U) /\ p \in Seq(U) /\ <<m>> \o a \in Seq(U)
  <2>1. \A k, l : k \in Seq(U) /\ l \in Seq(U) => k \o l \in Seq(U)
    OBVIOUS
  <2>2. <<m>> \o a \in Seq(U)
    BY <1>5, <2>1
  <2>3. q = <<>> \/ q = <<x>>
    BY <1>3
  <2>4. p = <<>> \/ p = <<r>>
    BY <1>3
  <2> QED
    BY <1>5, <2>2, <2>3, <2>4
<1>7. z \in Seq(U)
  BY <1>3, <1>5, <1>6
<1>8. <<h>> \o (q \o <<y>>) \in Seq(U) /\ <<h>> \o (p \o z) \in Seq(U) /\ <<h>> \o <<>> \in Seq(U)
  <2>1. q \o <<y>> \in Seq(U) /\ p \o z \in Seq(U)
    BY <1>5, <1>6, <1>7
  <2> QED
    BY <1>5, <2>1
<1>9. t \in {<<>>, <<h>> \o (q \o <<y>>), <<h>> \o (p \o z), <<h>> \o <<>>}
  BY <1>1 DEF When
<1>10. t \in Seq(U)
  BY <1>5, <1>8, <1>9
<1> QED
  BY <1>10 DEF U, t, h, x, y, r, m, e, f

\* A tick of any other cycle.
LEMMA PhaseScriptMade ==
  ASSUME GoalInv, PhaseInv, NEW n \in OpenCycles, cycles[n].status # "dispatching",
         NEW s, NEW gated
  PROVE  \/ PhaseScript(n, s, gated) = <<On("review", n)>> /\ cycles[n].status = "reviewing"
         \/ PhaseScript(n, s, gated) = <<On("accept_ready", n), On("weigh", n)>>
         \/ \E to \in {"orienting", "deciding", "dispatching", "completed"} :
               \/ PhaseScript(n, s, gated) = <<MoveCycle(n, to)>>
               \/ PhaseScript(n, s, gated)
                     = <<MoveGoal("awaiting_plan_approval"), MoveCycle(n, to)>>
<1> DEFINE x == MoveGoal("awaiting_plan_approval")
           y(to) == MoveCycle(n, to)
<1>1. cycles[n].status \in {"observing", "orienting", "deciding", "executing", "reviewing",
                            "summarizing"}
  <2>1. ViewOK(View) /\ View.phase = cycles[n].status /\ View.phase \notin {"none", "completed"}
    BY ViewRead DEF PhaseInv, TablesInOrder
  <2> HIDE DEF View
  <2> QED
    BY <2>1 DEF ViewOK, Planning, Late, Closing
<1>2. CASE cycles[n].status \in {"observing", "orienting", "summarizing"}
  BY <1>2 DEF PhaseScript
<1>3. CASE cycles[n].status \in {"executing", "reviewing"}
  BY <1>3 DEF PhaseScript
<1>4. CASE cycles[n].status = "deciding"
  <2> DEFINE q == gated /\ s = "planning"
  <2>1. PhaseScript(n, s, gated) = When(q, <<x>>) \o <<y("dispatching")>>
    BY <1>4 DEF PhaseScript
  <2>2. PhaseScript(n, s, gated) = <<x, y("dispatching")>> \/ PhaseScript(n, s, gated) = <<y("dispatching")>>
    <3> HIDE DEF x, y, q
    <3>1. CASE q
      BY <2>1, <3>1, Couple DEF When
    <3>2. CASE ~ q
      BY <2>1, <3>2, Single DEF When
    <3> QED
      BY <3>1, <3>2
  <2> QED
    BY <2>2
<1> QED
  BY <1>1, <1>2, <1>3, <1>4

LEMMA LookConcludes ==
  ASSUME GoalInv, PhaseInv, ConcludeInv, NEW c \in Callers, Look(c)
  PROVE  ConcludeInv'
<1> DEFINE z == This(c).status
           e == IF z = "rework_required" THEN "planning" ELSE z
           again == z = "rework_required"
           n == NewestOpen
           gated == RequireApproval /\ c = Worker
           x == MoveGoal("planning")
           a == When(again, <<x>>)
<1>1. script[c] # <<>> /\ This(c).do = "look" /\ UNCHANGED <<goal, cycles, tasks>>
  BY DEF Look, At, This
<1>2. c = Worker
  BY <1>1, WorkersOwn
<1>3. Outcome' /\ View' = View /\ (AllDone => AllDone') /\ goal'.current = goal.current
  BY <1>1, TablesSame DEF ConcludeInv
<1>4. a = <<>> \/ a = <<x>>
  BY DEF When
<1>5. Modest(x, View)
  BY DEF MoveGoal, Modest, Concludes, Accepts, Sets, Moves, GoalWrites, CycleWrites
<1>6. PICK t : /\ Then(c, a \o t)
               /\ \/ n = 0 /\ t = When(e = "planning", <<[do |-> "create_cycle"]>>)
                  \/ n # 0 /\ cycles[n].status # "dispatching" /\ t = PhaseScript(n, e, gated)
                  \/ /\ n # 0 /\ cycles[n].status = "dispatching"
                     /\ \E reply \in Replies, agents \in Heartbeats :
                           t = DispatchScript(n, e, PlanFor(Report(n, agents), Budget, reply), gated)
  BY DEF Look
<1>7. ASSUME NEW T, t \in Seq(T), \A y \in T : Modest(y, View)
      PROVE  ConcludeInv'
  <2> DEFINE U == T \cup {x}
             u == a \o t
  <2> HIDE DEF View, AllDone, x, a
  <2>1. a \in Seq(U) /\ t \in Seq(U)
    <3>1. a \in Seq({x})
      BY <1>4, NoneOrOne
    <3> QED
      BY <1>7, <3>1, SeqsGrow
  <2>2. u \in Seq(U) /\ Then(Worker, u)
    BY <1>2, <1>6, <2>1
  <2>3. \A y \in U : Modest(y, View)
    BY <1>5, <1>7
  <2>4. This(Worker).do \notin CycleWrites /\ \A y : ~ MayFollow(Worker, This(Worker), y)
    BY <1>1, <1>2 DEF MayFollow, CycleWrites
  <2> HIDE DEF u, U
  <2> QED
    BY <1>1, <1>2, <1>3, <2>2, <2>3, <2>4, WorkerReads
<1>8. CASE n = 0
  <2> DEFINE y == [do |-> "create_cycle"]
  <2>1. (t = <<>> \/ t = <<y>>) /\ Modest(y, View)
    BY <1>6, <1>8 DEF When, Modest, Concludes, Accepts, Sets, Moves, GoalWrites, CycleWrites
  <2> HIDE DEF y, View
  <2>2. t \in Seq({y})
    BY <2>1, NoneOrOne
  <2> QED
    BY <1>7, <2>1, <2>2
<1>9. CASE n # 0 /\ cycles[n].status # "dispatching"
  <2>1. t = PhaseScript(n, e, gated)
    BY <1>6, <1>9
  <2>2. n \in OpenCycles /\ View.phase = cycles[n].status
    BY <1>9, Observed, NewestRead
  <2> HIDE DEF n, e, gated, View
  <2>3. \/ t = <<On("review", n)>> /\ View.phase = "reviewing"
        \/ t = <<On("accept_ready", n), On("weigh", n)>>
        \/ \E to \in {"orienting", "deciding", "dispatching", "completed"} :
              t = <<MoveCycle(n, to)>> \/ t = <<MoveGoal("awaiting_plan_approval"), MoveCycle(n, to)>>
    BY <1>9, <2>1, <2>2, PhaseScriptMade
  <2>4. CASE t = <<On("review", n)>> /\ View.phase = "reviewing"
    <3> DEFINE y == On("review", n)
    <3>1. Modest(y, View)
      BY <2>4 DEF On, Modest, Concludes, Accepts, Sets, Moves, GoalWrites, CycleWrites
    <3> HIDE DEF y
    <3>2. t \in Seq({y})
      BY <2>4 DEF y
    <3> QED
      BY <1>7, <3>1, <3>2
  <2>5. CASE t = <<On("accept_ready", n), On("weigh", n)>>
    <3> DEFINE y == On("accept_ready", n)
               q == On("weigh", n)
    <3>1. Modest(y, View) /\ Modest(q, View)
      BY DEF On, Modest, Concludes, Accepts, Sets, Moves, GoalWrites, CycleWrites
    <3> HIDE DEF y, q
    <3>2. t \in Seq({y, q})
      BY <2>5 DEF y, q
    <3> QED
      BY <1>7, <3>1, <3>2
  <2>6. ASSUME NEW to \in {"orienting", "deciding", "dispatching", "completed"},
               t = <<MoveCycle(n, to)>> \/ t = <<MoveGoal("awaiting_plan_approval"), MoveCycle(n, to)>>
        PROVE  ConcludeInv'
    <3> DEFINE y == MoveCycle(n, to)
               q == MoveGoal("awaiting_plan_approval")
    <3>1. Modest(y, View) /\ Modest(q, View)
      BY DEF MoveCycle, MoveGoal, Modest, Concludes, Accepts, Sets, Moves, GoalWrites, CycleWrites
    <3> HIDE DEF y, q
    <3>2. t \in Seq({y, q})
      <4>1. <<y>> \in Seq({y, q}) /\ <<q, y>> \in Seq({y, q})
        OBVIOUS
      <4>2. t = <<y>> \/ t = <<q, y>>
        BY <2>6 DEF y, q
      <4> QED
        BY <4>1, <4>2
    <3> QED
      BY <1>7, <3>1, <3>2
  <2> QED
    BY <2>3, <2>4, <2>5, <2>6
<1>10. CASE n # 0 /\ cycles[n].status = "dispatching"
  <2>1. PICK reply \in Replies, agents \in Heartbeats :
           t = DispatchScript(n, e, PlanFor(Report(n, agents), Budget, reply), gated)
    BY <1>6, <1>10
  <2> DEFINE plan == PlanFor(Report(n, agents), Budget, reply)
             h == SetHash(n, GraphHash, plan)
             S == { h, MoveGoal("awaiting_plan_approval"),
                    MoveGoal("running"), MoveCycle(n, "executing"), On("plan_team", n),
                    On("create_task", n), On("staff_team", n) }
  <2>2. n \in Nat
    BY <1>10, NewestRead DEF GoalInv
  <2>3. plan \in Plans
    <3> HIDE DEF n
    <3> QED
      BY <2>2, PlansMade
  <2>4. t = DispatchScript(n, e, plan, gated)
    BY <2>1
  <2> HIDE DEF n, e, gated, plan, View
  <2>5. t \in Seq(S)
    BY <2>3, <2>4, DispatchMade
  <2>6. \A y \in S : Modest(y, View)
    BY DEF MoveCycle, MoveGoal, On, SetHash, Modest, Concludes, Accepts, Sets, Moves, GoalWrites,
           CycleWrites
  <2> HIDE DEF S
  <2> QED
    BY <1>7, <2>5, <2>6
<1> QED
  BY <1>6, <1>8, <1>9, <1>10

LEMMA ConcludeStepKeeps ==
  ASSUME Commands \cap {"accept", "send_back", "approve_and_tick"} = {},
         GoalInv, PhaseInv, ConcludeInv, [Next]_vars
  PROVE  ConcludeInv'
<1>1. ASSUME NEW c \in Callers, Advance(c)
      PROVE  ConcludeInv'
  <2>1. ASSUME NEW t \in TaskIds, CreateTask(c, t)
        PROVE  ConcludeInv'
    BY <2>1, CreateTaskConcludes
  <2> QED
    BY <1>1, <2>1, ObserveConcludes, LookConcludes, CreateCycleConcludes, LinkCycleConcludes,
       CheckConcludes, WriteGoalConcludes, WriteCycleConcludes, WriteHashConcludes,
       CallTaskConcludes, ListTasksConcludes, TeamsConclude, VerdictConcludes DEF Advance
<1>2. Outcome
  BY DEF ConcludeInv
<1>3. ASSUME NEW u, script' = [script EXCEPT ![User] = u], UNCHANGED <<goal, cycles, tasks>>,
             \A k \in DOMAIN u : UserWaits(u[k], View)
      PROVE  ConcludeInv'
  <2>1. Outcome' /\ View' = View /\ (AllDone => AllDone') /\ goal'.current = goal.current
    BY <1>2, <1>3, TablesSame
  <2> HIDE DEF View, AllDone
  <2>2. \A k \in DOMAIN u : UserWaits(u[k], View')
    BY <1>3, <2>1
  <2> QED
    BY <1>3, <2>1, <2>2, UserTurns
<1>4. ASSUME NEW command \in Commands, UserCommand(command)
      PROVE  ConcludeInv'
  <2> DEFINE r == On("resume_tasks", goal.current)
             p == MoveGoal("running")
             b == MoveGoal("blocked")
             d == MoveGoal("cancelled")
             e == MoveGoal("rework_required")
             m == MoveTeam(NewestOpen, "rework_required")
             s == CommandScript[command]
  <2>1. /\ r.do = "resume_tasks" /\ m.do = "move_team"
        /\ p.do = "move_goal" /\ p.to = "running" /\ b.do = "move_goal" /\ b.to = "blocked"
        /\ d.do = "move_goal" /\ d.to = "cancelled"
        /\ e.do = "move_goal" /\ e.to = "rework_required"
    BY DEF On, MoveGoal, MoveTeam
  <2>2. UserWaits(r, View) /\ UserWaits(m, View) /\ UserWaits(p, View) /\ UserWaits(b, View)
        /\ UserWaits(d, View)
    <3> HIDE DEF r, p, b, d, m, View
    <3> QED
      BY <2>1 DEF UserWaits, GoalWrites, CycleWrites
  <2>3. s \in {<<b>>, <<d>>, <<p>>, <<r, p>>} \/ (s = <<e, m>> /\ UserWaits(e, View))
    <3>1. When(goal.current # 0, <<r>>) \o <<p>> \in {<<r, p>>, <<p>>}
      <4> HIDE DEF r, p, View
      <4>1. CASE goal.current # 0
        BY <4>1, Couple DEF When
      <4>2. CASE goal.current = 0
        BY <4>2, Single DEF When
      <4> QED
        BY <4>1, <4>2
    <3>2. CommandScript.resume = When(goal.current # 0, <<r>>) \o <<p>>
      BY DEF CommandScript
    <3>3. command = "reject" => UserWaits(e, View)
      <4>1. command = "reject" => View.goal = "awaiting_plan_approval"
        BY <1>4 DEF UserCommand, Allows, View
      <4> HIDE DEF e, View
      <4> QED
        BY <2>1, <4>1 DEF UserWaits, GoalWrites, CycleWrites
    <3> HIDE DEF r, p, View
    <3>4. CommandScript.resume \in {<<r, p>>, <<p>>}
      BY <3>1, <3>2
    <3>5. /\ CommandScript.pause = <<b>> /\ CommandScript.cancel = <<d>>
          /\ CommandScript.approve = <<MoveGoal("running")>> /\ CommandScript.reject = <<e, m>>
      BY DEF CommandScript
    <3>6. command \in {"pause", "resume", "cancel", "approve", "reject"}
      BY CommandAssumption DEF AllCommands
    <3> HIDE DEF b, d, e, m
    <3> QED
      BY <3>3, <3>4, <3>5, <3>6 DEF p
  <2>4. script' = [script EXCEPT ![User] = s] /\ UNCHANGED <<goal, cycles, tasks>>
    BY <1>4 DEF UserCommand
  <2> HIDE DEF r, p, b, d, e, m, s, View
  <2>5. \A i \in DOMAIN s : UserWaits(s[i], View)
    BY <2>2, <2>3, Single, Couple
  <2> QED
    BY <1>3, <2>4, <2>5
<1>5. CASE StartGoal
  <2> DEFINE x == MoveGoal("planning")
             u == <<x>>
  <2>1. script' = [script EXCEPT ![User] = u] /\ UNCHANGED <<goal, cycles, tasks>>
    BY <1>5 DEF StartGoal
  <2>2. UserWaits(x, View)
    BY DEF MoveGoal, UserWaits, GoalWrites, CycleWrites
  <2> HIDE DEF x, View
  <2>3. \A k \in DOMAIN u : UserWaits(u[k], View)
    BY <2>2, Single
  <2> HIDE DEF u
  <2> QED
    BY <1>3, <2>1, <2>3
<1>6. CASE WorkerTick
  <2> DEFINE x == [do |-> "observe"]
             u == <<x>>
  <2>1. script' = [script EXCEPT ![Worker] = u] /\ UNCHANGED <<goal, cycles, tasks>>
    BY <1>6 DEF WorkerTick
  <2>2. Outcome' /\ View' = View /\ (AllDone => AllDone') /\ goal'.current = goal.current
    BY <1>2, <2>1, TablesSame
  <2>3. Modest(x, View')
    BY DEF Modest, Concludes, Accepts, Sets, Moves, GoalWrites, CycleWrites
  <2> HIDE DEF x, View, AllDone
  <2>4. \A k \in DOMAIN u : Modest(u[k], View')
    BY <2>3, Single
  <2> HIDE DEF u
  <2>5. Concluded(u, View', goal'.current, AllDone')
    BY <2>4, NothingConcluded
  <2> QED
    BY <2>1, <2>2, <2>5, WorkerAnew
<1>7. ASSUME UNCHANGED <<goal, cycles, script>>, AllDone => AllDone',
             \A t \in TaskIds : tasks'[t].status \in Seen
      PROVE  ConcludeInv'
  <2>1. View' = View /\ goal'.current = goal.current /\ Len(cycles') = Len(cycles)
    BY <1>7 DEF View
  <2> DEFINE v == View
             w == View'
             d == AllDone
             e == AllDone'
  <2>2. d \in BOOLEAN /\ e \in BOOLEAN
    BY Booleans
  <2>3. Outcome'
    <3> HIDE DEF View, AllDone
    <3> QED
      BY <1>2, <1>7, <2>1, OutcomeStays
  <2>4. w = v /\ (d => e) /\ Concluded(script[Worker], v, goal.current, d)
        /\ \A k \in DOMAIN script[User] : UserWaits(script[User][k], v)
    BY <1>7, <2>1 DEF ConcludeInv
  <2> HIDE DEF v, w, d, e
  <2>5. Concluded(script[Worker], w, goal.current, e)
    BY <2>2, <2>4, ConcludedStands
  <2>6. /\ Concluded(script'[Worker], w, goal'.current, e)
        /\ \A k \in DOMAIN script'[User] : UserWaits(script'[User][k], w)
    BY <1>7, <2>4, <2>5
  <2> QED
    BY <2>3, <2>6 DEF ConcludeInv, w, e
<1>8. CASE AddHint \/ UNCHANGED vars
  <2>1. UNCHANGED <<goal, cycles, script, tasks>>
    BY <1>8 DEF AddHint, vars
  <2> HIDE DEF AllDone
  <2> QED
    BY <1>2, <1>7, <2>1, TasksStay
<1>9. CASE DesktopDies
  <2>1. /\ script' = [c \in Callers |-> <<>>] /\ UNCHANGED <<goal, cycles, tasks>>
    BY <1>9 DEF DesktopDies
  <2>2. script'[Worker] = <<>> /\ script'[User] = <<>> /\ DOMAIN <<>> = {}
    BY <2>1 DEF Callers
  <2>3. Outcome'
    BY <1>2, <2>1, TablesSame
  <2> HIDE DEF View, AllDone
  <2>4. Concluded(<<>>, View', goal'.current, AllDone')
    BY <2>2, NothingConcluded
  <2> QED
    BY <2>2, <2>3, <2>4 DEF ConcludeInv
<1>10. ASSUME NEW t \in TaskIds, TaskWork(t)
       PROVE  ConcludeInv'
  <2>1. PICK to : /\ tasks[t].status \in DOMAIN TaskOutcomes /\ to \in TaskOutcomes[tasks[t].status]
                  /\ tasks' = [tasks EXCEPT ![t].status = to]
                  /\ UNCHANGED <<goal, cycles, script>>
    BY <1>10 DEF TaskWork
  <2>2. tasks[t].status \in {"queued", "claimed", "running"}
        /\ to \in {"claimed", "running", "review_ready", "blocked", "failed"}
    BY <2>1 DEF TaskOutcomes
  <2>3. \A u \in TaskIds : /\ tasks'[u].cycle = tasks[u].cycle
                           /\ tasks'[u].status = IF u = t THEN to ELSE tasks[u].status
    <3>1. tasks \in [TaskIds -> TaskRows]
      BY DEF GoalInv
    <3> QED
      BY <2>1, <3>1 DEF TaskRows
  <2>4. \A u \in TaskIds : tasks'[u].status \in Seen
    <3>1. \A u \in TaskIds : tasks[u].status \in Seen
      BY <1>2 DEF Outcome
    <3> QED
      BY <2>2, <2>3, <3>1 DEF Seen
  <2>5. AllDone => AllDone'
    <3>1. tasks[t].cycle # 0
      BY <2>2 DEF GoalInv, GoalTypeOK
    <3>2. ~ AllDone
      BY <2>2, <3>1 DEF AllDone
    <3> QED
      BY <3>2
  <2> HIDE DEF AllDone
  <2> QED
    BY <1>7, <2>1, <2>4, <2>5
<1> QED
  BY <1>1, <1>4, <1>5, <1>6, <1>8, <1>9, <1>10 DEF Next

LEMMA ConcludeInitInv == Init => ConcludeInv
<1> SUFFICES ASSUME Init
             PROVE  ConcludeInv
  OBVIOUS
<1>1. goal.status = "draft" /\ cycles = <<>> /\ \A t \in TaskIds : tasks[t].status = "absent"
  BY DEF Init
<1>2. View.phase = "none" /\ View.goal = "draft" /\ Len(cycles) = 0
  BY <1>1 DEF View
<1>3. Outcome
  <2> HIDE DEF View, AllDone
  <2> QED
    BY <1>1, <1>2 DEF Outcome, Seen, Closing
<1>4. script[Worker] = <<>> /\ script[User] = <<>> /\ DOMAIN <<>> = {}
  BY DEF Init, Callers
<1> HIDE DEF View, AllDone
<1>5. Concluded(<<>>, View, goal.current, AllDone)
  BY <1>4, NothingConcluded
<1> QED
  BY <1>3, <1>4, <1>5 DEF ConcludeInv

\* A cycle never has more tasks than filter_dispatch granted to its last plan,
\* however often and by whomever it is ticked (mod.rs:292-298, 355-383), as
\* long as only the worker ticks.  The user may give any other command, and
\* the process may die between any two statements.
THEOREM GrantsAreAlwaysKept ==
  ASSUME "approve_and_tick" \notin Commands
  PROVE  GoalSpec => []GrantsAreKept
<1>1. Init => GoalInv /\ PhaseInv /\ GrantInv
  BY GoalInitInv, PhaseInitInv, GrantInitInv
<1>2. GoalInv /\ PhaseInv /\ GrantInv /\ [Next]_vars => (GoalInv /\ PhaseInv /\ GrantInv)'
  BY GoalStepKeeps, PhaseStepKeeps, GrantStepKeeps
<1>3. GrantInv => GrantsAreKept
  BY DEF GrantInv
<1> QED
  BY <1>1, <1>2, <1>3, PTL DEF GoalSpec

\* The governance of tick_goal (mod.rs:292-298, 355-383, 506-530): a cycle has
\* no more tasks than were granted to it, and a goal whose user gives no verdict
\* is accepted only with every task of its cycle finished.
THEOREM CyclesAreAlwaysGoverned ==
  ASSUME Commands \cap {"accept", "send_back", "approve_and_tick"} = {}
  PROVE  GoalSpec => []CyclesAreGoverned
<1> DEFINE I == GoalInv /\ PhaseInv /\ GrantInv /\ ConcludeInv
<1>1. Init => I
  BY GoalInitInv, PhaseInitInv, GrantInitInv, ConcludeInitInv
<1>2. I /\ [Next]_vars => I'
  <2>1. "approve_and_tick" \notin Commands
    OBVIOUS
  <2> QED
    BY <2>1, GoalStepKeeps, PhaseStepKeeps, GrantStepKeeps, ConcludeStepKeeps
<1>3. I => CyclesAreGoverned
  <2> SUFFICES ASSUME I
               PROVE  CyclesAreGoverned
    OBVIOUS
  <2>1. goal.status = "accepted" => AllDone /\ goal.current # 0
    <3>1. View.goal = goal.status
      BY Booleans
    <3> HIDE DEF View, AllDone
    <3> QED
      BY <3>1 DEF ConcludeInv, Outcome
  <2>2. goal.status = "accepted" =>
           \A t \in CycleTasks(goal.current) : tasks[t].status \in {"accepted", "review_ready"}
    BY <2>1 DEF AllDone, CycleTasks
  <2> QED
    BY <2>2 DEF CyclesAreGoverned, GrantInv, GrantsAreKept
<1> HIDE DEF I
<1> QED
  BY <1>1, <1>2, <1>3, PTL DEF GoalSpec

=============================================================================
