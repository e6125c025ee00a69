--------------------------- MODULE CompanionProofs --------------------------
(***************************************************************************)
(* Proofs about what answers the user and works for him: turns of the      *)
(* chat, requests of models, rounds of tools, background runs, the runner, *)
(* teams, alerts, and all of them side by side.                            *)
(***************************************************************************)
EXTENDS MCCompanion, FiniteSetTheorems, TLAPS

----------------------------------------------------------------------------
(* A turn of the chat                                                      *)

Statuses == {"received", "working", "reply_stored", "failed", "recovered", "timed_out",
             "completed"}

LEMMA StatusFacts ==
    /\ StatusOf("received") = "received" /\ StatusOf("context") = "working"
    /\ StatusOf("working") = "working" /\ StatusOf("unavailable") = "working"
    /\ StatusOf("offer") = "working" /\ StatusOf("reply_stored") = "reply_stored"
    /\ StatusOf("failed_recovered") = "recovered" /\ StatusOf("timeout") = "timed_out"
    /\ StatusOf("failed") = "failed" /\ StatusOf("done") = "completed"
BY Zenon DEF StatusOf

LEMMA FollowingFacts ==
    /\ Following("received") = Going("preparing") /\ Following("context") = Going("inner")
    /\ Following("working") = Going("inner") /\ Following("unavailable") = Going("closing")
    /\ Following("offer") = Going("replying") /\ Following("failed_recovered") = Going("replying")
    /\ Following("timeout") = Going("replying") /\ Following("reply_stored") = Staging("done")
    /\ Following("done") = Going("answered") /\ Following("failed") = Going("refused")
BY DEF Following

\* The type invariant with the statuses that the stages have.
TurnTypes ==
    /\ turn \in [status : {"none"} \cup Statuses, finished : BOOLEAN]
    /\ send \in [at : SendPlaces, step : {"read", "insert", "apply", "finish", "go"}]
    /\ outer \in {"no", "error", "timeout"}
    /\ token \in {"idle", "read", "insert", "apply"}
    /\ outdated \subseteq Writers
    /\ call \in {"none", "pending", "executing", "settled"}
    /\ replies \in 0 .. 2
    /\ partial \in BOOLEAN /\ active \in BOOLEAN /\ offered \in BOOLEAN
    /\ unrecorded \in BOOLEAN /\ overtaken \in BOOLEAN

LEMMA TurnTypesSuffice == TurnTypes => TurnsTypeOK
<1>1. {StatusOf(s) : s \in Stages} = Statuses
  <2>1. \A s \in Stages : StatusOf(s) \in Statuses
    BY DEF Stages, StatusOf, Statuses
  <2>2. {"received", "working", "reply_stored", "failed", "failed_recovered", "timeout", "done"}
            \subseteq Stages
    BY DEF Stages
  <2> QED
    BY <2>1, <2>2, StatusFacts DEF Statuses
<1>2. partial \in BOOLEAN /\ active \in BOOLEAN /\ offered \in BOOLEAN
      /\ unrecorded \in BOOLEAN /\ overtaken \in BOOLEAN
         => \A flag \in {partial, active, offered, unrecorded, overtaken} : flag \in BOOLEAN
  BY Zenon
<1> QED
  BY <1>1, <1>2, Zenon DEF TurnsTypeOK, TurnTypes

\* Before anything is stored, after it, and after the call has ended.
Asking == {"new", "received", "preparing", "context", "working", "inner", "pending", "tool",
           "offer", "unavailable"}
Stored == {"projection", "memory", "loading", "reply_stored", "done", "answered"}

\* Where the call is says which arm it is in, how much is stored and how much
\* of that would be recovered.
TurnInv ==
    /\ TurnTypes
    /\ send.at \in Asking \cup {"loading"} => outer = "no"
    /\ send.at = "timeout" => outer = "timeout"
    /\ send.at = "failed_recovered" => outer = "error" /\ partial
    /\ send.at = "failed" => outer = "error" /\ ~partial
    /\ send.at = "refused" => outer # "no"
    /\ send.at \in Asking => replies = 0
    /\ send.at = "replying" /\ outer = "no" => replies = 0
    /\ outer = "no" \/ send.at \in {"closing", "timeout", "failed_recovered", "replying", "failed"}
          => replies <= 1
    /\ send.at \in Stored => replies > 0
    /\ outer # "timeout" /\ (replies > 0 \/ send.at = "replying") => partial \/ offered
    /\ send.at = "replying" /\ outer = "error" => partial
    /\ send.at \in {"offer", "loading"} => offered
    \* A turn fails only when nothing would be recovered.
    /\ turn.status = "failed" =>
          /\ outer = "error" /\ ~partial
          /\ send.at \in {"failed", "refused", "lost"}
    /\ turn.status = "completed" => replies > 0
    /\ send.at \in Stages /\ send.step = "finish" => send.at \in {"done", "failed"}
    /\ send.at = "answered" /\ ~offered /\ ~unrecorded /\ ~overtaken
          => turn = [status |-> "completed", finished |-> TRUE]
    /\ call \in {"pending", "executing"} => send.at \in {"pending", "tool", "closing", "lost"}

LEMMA TurnInvariant == TurnsSpec => []TurnInv
<1>1. TurnsInit => TurnInv
  <2> SUFFICES ASSUME TurnsInit PROVE TurnInv
    OBVIOUS
  <2>1. partial \in BOOLEAN /\ active \in BOOLEAN /\ offered \in BOOLEAN
      /\ unrecorded \in BOOLEAN /\ overtaken \in BOOLEAN
    BY Zenon DEF TurnsInit
  <2> QED
   BY <2>1 DEF TurnsInit, TurnInv, TurnTypes, Statuses, Going, SendPlaces, Stages, Asking, Stored
<1>2. TurnInv /\ [TurnsNext]_turnVars => TurnInv'
  <2> SUFFICES ASSUME TurnInv, [TurnsNext]_turnVars
               PROVE  TurnInv'
    OBVIOUS
  <2> USE DEF TurnInv, TurnTypes, Statuses, SendPlaces, Stages, Writers, Asking, Stored
  <2>0. CASE UNCHANGED turnVars
    BY <2>0 DEF turnVars
  <2>1. ASSUME ReadsNumber
        PROVE  TurnInv'
    BY <2>1 DEF ReadsNumber, Artifacts, Sends
  <2>2. ASSUME InsertsStage
        PROVE  TurnInv'
    <3>0. UNCHANGED <<turn, outer, token, call, replies, partial, active, offered, overtaken>>
      BY <2>2 DEF InsertsStage
    <3>1. CASE "send" \in outdated
      <4>1. /\ send' = Following(send.at)
            /\ outdated' = outdated \ {"send"}
        BY <2>2, <3>1 DEF InsertsStage
      <4>2. unrecorded' \in BOOLEAN /\ (send.at = "done" => unrecorded')
        BY <2>2, <3>1, Zenon DEF InsertsStage
      <4> QED
        BY <2>2, <3>0, <3>1, <4>1, <4>2, FollowingFacts DEF InsertsStage, Going, Staging
    <3>2. CASE "send" \notin outdated
      BY <2>2, <3>0, <3>2 DEF InsertsStage, Takes
    <3> QED
      BY <3>1, <3>2
  <2>3. ASSUME AppliesStage
        PROVE  TurnInv'
    BY <2>3, FollowingFacts, StatusFacts DEF AppliesStage, Sends, Staging, Going
  <2>4. ASSUME Finishes
        PROVE  TurnInv'
    <3>1. send.at \in {"done", "failed"}
      BY <2>4 DEF Finishes
    <3>2. turn' = [status |-> StatusOf(send.at), finished |-> TRUE] /\ send' = Following(send.at)
      BY <2>4 DEF Finishes
    <3>3. UNCHANGED <<outdated, outer, token, call, replies, partial, active, offered, unrecorded, overtaken>>
      BY <2>4 DEF Finishes, Sends
    <3>4. CASE send.at = "done"
      <4>1. turn' = [status |-> "completed", finished |-> TRUE] /\ send' = Going("answered")
        BY <3>2, <3>4, StatusFacts, FollowingFacts
      <4> QED
        BY <3>3, <3>4, <4>1 DEF Going
    <3>5. CASE send.at = "failed"
      <4>1. turn' = [status |-> "failed", finished |-> TRUE] /\ send' = Going("refused")
        BY <3>2, <3>5, StatusFacts, FollowingFacts
      <4> QED
        BY <3>3, <3>5, <4>1 DEF Going
    <3> QED
      BY <3>1, <3>4, <3>5
  <2>5. ASSUME Creates
        PROVE  TurnInv'
    BY <2>5 DEF Creates, Goes, Going, Staging
  <2>6. ASSUME Prepares
        PROVE  TurnInv'
    <3>1. offered' \in BOOLEAN
      BY <2>6, Zenon DEF Prepares
    <3>2. send = Going("preparing") /\ UNCHANGED outdated
      BY <2>6 DEF Prepares, Goes
    <3>3. UNCHANGED <<turn, outer, token, call, replies, partial, active, unrecorded, overtaken>>
      BY <2>6 DEF Prepares
    <3>4. CASE send' = Staging("context") /\ UNCHANGED offered
      BY <3>1, <3>2, <3>3, <3>4 DEF Going, Staging
    <3>5. CASE send' = Staging("offer") /\ offered' = TRUE
      <4>1. offered'
        BY <3>5, Zenon
      <4> QED
        BY <3>1, <3>2, <3>3, <3>5, <4>1 DEF Going, Staging
    <3> QED
      BY <2>6, <3>4, <3>5 DEF Prepares, Goes
  <2>7. ASSUME AsksModel
        PROVE  TurnInv'
    <3>1. partial' \in BOOLEAN
      BY <2>7, Zenon DEF AsksModel
    <3>2. token' \in {"idle", "read", "insert", "apply"}
      BY <2>7 DEF AsksModel
    <3> QED
      BY <2>7, <3>1, <3>2 DEF AsksModel, Goes, Going, Staging
  <2>8. ASSUME CallsTool
        PROVE  TurnInv'
    BY <2>8 DEF CallsTool, Goes, Going, Staging
  <2>9. ASSUME MarksExecuting
        PROVE  TurnInv'
    BY <2>9 DEF MarksExecuting, Goes, Going, Staging
  <2>10. ASSUME SettlesTool
        PROVE  TurnInv'
    BY <2>10 DEF SettlesTool, Goes, Going, Staging
  <2>11. ASSUME Answers
        PROVE  TurnInv'
    BY <2>11 DEF Answers, Goes, Going, Staging
  <2>12. ASSUME StoresReply
        PROVE  TurnInv'
    BY <2>12 DEF StoresReply, Goes, Going, Staging
  <2>13. ASSUME Loads
        PROVE  TurnInv'
    BY <2>13 DEF Loads, Goes, Going, Staging
  <2>14. ASSUME InsertsArtifacts
        PROVE  TurnInv'
    <3>0. UNCHANGED <<turn, outer, token, call, replies, partial, active, offered, unrecorded, overtaken>>
      BY <2>14 DEF InsertsArtifacts
    <3>1. CASE "send" \in outdated
      <4>1. outdated' = outdated \ {"send"} /\ send.at \in {"projection", "memory"}
        BY <2>14, <3>1 DEF InsertsArtifacts, Artifacts
      <4>2. CASE outer = "no"
        <5>1. send' = Going("closing")
          BY <2>14, <3>1, <4>2 DEF InsertsArtifacts
        <5> QED
          BY <3>0, <4>1, <4>2, <5>1 DEF Going
      <4>3. CASE outer # "no"
        <5>1. send' = Going("refused")
          BY <2>14, <3>1, <4>3 DEF InsertsArtifacts
        <5> QED
          BY <3>0, <4>1, <4>3, <5>1 DEF Going
      <4> QED
        BY <4>2, <4>3
    <3>2. CASE "send" \notin outdated
      <4>1. outdated' \subseteq Writers
        BY <2>14, <3>2 DEF InsertsArtifacts, Takes
      <4>2. send' \in {Staging("reply_stored"), Staging("memory")} /\ send.at \in Artifacts
        BY <2>14, <3>2 DEF InsertsArtifacts
      <4> QED
        BY <3>0, <4>1, <4>2 DEF Artifacts, Staging
    <3> QED
      BY <3>1, <3>2
  <2>15. ASSUME Returns
        PROVE  TurnInv'
    <3>1. active' \in BOOLEAN
      BY <2>15, Zenon DEF Returns
    <3>2. UNCHANGED <<turn, send, outer, token, outdated, call, replies, partial, offered,
                      unrecorded, overtaken>>
      BY <2>15 DEF Returns
    <3> QED
      BY <3>1, <3>2
  <2>16. ASSUME Fails
        PROVE  TurnInv'
    BY <2>16 DEF Fails, InInner, Going, Staging
  <2>17. ASSUME Expires
        PROVE  TurnInv'
    BY <2>17 DEF Expires, InInner, Going
  <2>18. ASSUME Closes
        PROVE  TurnInv'
    <3>1. active' \in BOOLEAN
      BY <2>18, Zenon DEF Closes
    <3>2. TurnTypes'
      BY <2>18, <3>1 DEF Closes, Going, Staging
    <3>3. partial => partial = TRUE
      BY Zenon
    <3> QED
      BY <2>18, <3>1, <3>2, <3>3 DEF Closes, Going, Staging
  <2>19. ASSUME ArmFails
        PROVE  TurnInv'
    BY <2>19 DEF ArmFails, Going, Staging
  <2>20. ASSUME TokenReads, UNCHANGED <<send, outer, call, replies, partial, active, offered, unrecorded>>
        PROVE  TurnInv'
    BY <2>20 DEF TokenReads, TokenGoes
  <2>21. ASSUME TokenInserts, UNCHANGED <<send, outer, call, replies, partial, active, offered, unrecorded>>
        PROVE  TurnInv'
    <3>1. outdated' \subseteq Writers
      BY <2>21 DEF TokenInserts, Takes
    <3>2. token' \in {"idle", "apply"} /\ UNCHANGED <<turn, overtaken>>
      BY <2>21 DEF TokenInserts, TokenGoes
    <3> QED
      BY <2>21, <3>1, <3>2
  <2>22. ASSUME TokenApplies, UNCHANGED <<send, outer, call, replies, partial, active, offered, unrecorded>>
        PROVE  TurnInv'
    BY <2>22 DEF TokenApplies, TokenGoes
  <2>23. ASSUME OthersAppend
        PROVE  TurnInv'
    BY <2>23 DEF OthersAppend
  <2>24. ASSUME DesktopDies
        PROVE  TurnInv'
    <3>1. active' \in BOOLEAN
      BY <2>24, Zenon DEF DesktopDies
    <3> QED
      BY <2>24, <3>1 DEF DesktopDies, Going
  <2> QED
    BY <2>0, <2>1, <2>2, <2>3, <2>4, <2>5, <2>6, <2>7, <2>8, <2>9, <2>10, <2>11, <2>12,
       <2>13, <2>14, <2>15, <2>16, <2>17, <2>18, <2>19, <2>20, <2>21, <2>22, <2>23, <2>24
       DEF TurnsNext, StageStep, InnerStep, OuterStep, TokenStep
<1> QED
  BY <1>1, <1>2, PTL DEF TurnsSpec

\* The row of a turn, its writers and its calls keep their types.
THEOREM TurnsTypeCorrect == TurnsSpec => []TurnsTypeOK
<1>1. TurnInv => TurnsTypeOK
  BY TurnTypesSuffice DEF TurnInv
<1> QED
  BY <1>1, TurnInvariant, PTL

\* A turn that was created closes as what the user was told: completed only
\* with an answer, failed only without one, and with no tool call left open
\* (send_v2.rs:910-1240, 2310-2373).
THEOREM TurnsAlwaysCloseAsTold == TurnsSpec => [](turn.status # "none" => ClosingsMatchReplies)
<1>1. TurnInv => ClosingsMatchReplies
  BY DEF TurnInv, TurnTypes, ClosingsMatchReplies, Returned, Stored
<1> QED
  BY <1>1, TurnInvariant, PTL

----------------------------------------------------------------------------
(* Background runs of the agent                                            *)

\* As long as no write of a run is lost or fails, its row, its task and its
\* thread tell the same; a member whose status has been set is done.
Starts == {"none", "queued", "spawned", "watching", "seen", "reading"}
Reported == {"tasked", "counting", "advancing", "done"}
Counted == {"counting", "advancing", "done"}

RunTells(m) ==
    /\ keeper[m] \in Starts \cup {"gone"} => run[m].status \notin Verdicts
    /\ keeper[m] \in Starts \cup {"gone", "recorded"} => goalTask[m] = "running"
    /\ keeper[m] \in Reported \cup {"recorded"} => run[m].status = outcome[m]
    /\ keeper[m] \in Reported =>
          goalTask[m] = IF outcome[m] = "succeeded" THEN "review_ready" ELSE "failed"

AgentsInv ==
    /\ AgentsTypeOK
    /\ \A m \in Members :
          /\ keeper[m] \in Reported \cup {"seen", "reading", "recorded"} =>
                outcome[m] \in Verdicts
          /\ keeper[m] \in Counted /\ m \notin unwritten => member[m] \in {"completed", "failed"}
          /\ m \notin overwritten \cup abandoned \cup unwritten => RunTells(m)
    /\ AllAreWritten /\ ~ unbound => team = "awaiting_review"
    \* A stop works on a run that had no verdict when it was read.
    /\ \A s \in Stops : stopping[s].at # "idle" =>
          stopping[s].row.status \in {"queued", "running"}

LEMMA AgentRowTypes ==
    /\ [status |-> "queued", pid |-> FALSE] \in AgentRows
    /\ \A status \in {"running"} \cup Verdicts : [status |-> status, pid |-> TRUE] \in AgentRows
    /\ NoStop \in [at : {"idle", "read", "terminated"}, member : Members \cup {NoMember},
                   row : AgentRows]
    /\ NoStop.at = "idle"
BY DEF AgentRows, NoStop, StopAt, NoRunRow, Verdicts

LEMMA AgentsInvariant == AgentsSpec => []AgentsInv
<1> USE AgentRunsAssumption
<1>1. AgentsInit => AgentsInv
  <2> SUFFICES ASSUME AgentsInit PROVE AgentsInv
    OBVIOUS
  <2>0. unbound \in BOOLEAN
    BY Zenon DEF AgentsInit
  <2>1. AgentsTypeOK
    BY <2>0
       DEF AgentsInit, AgentsTypeOK, AgentRows, NoRunRow, NoStop, StopAt, KeeperPlaces, Verdicts
  <2>2. ~ AllAreWritten
    BY DEF AgentsInit, AllAreWritten
  <2> QED
    BY <2>1, <2>2
       DEF AgentsInit, AgentsInv, RunTells, Starts, Reported, Counted, NoRunRow, NoStop, StopAt, Verdicts
<1>2. AgentsInv /\ [AgentsNext]_agentVars => AgentsInv'
  <2> SUFFICES ASSUME AgentsInv, [AgentsNext]_agentVars
               PROVE  AgentsInv'
    OBVIOUS
  <2> USE DEF AgentsInv, AgentsTypeOK, RunTells, Starts, Reported, Counted, Verdicts,
              KeeperPlaces, KeeperGoes
  <2>1. CASE UNCHANGED agentVars
    BY <2>1 DEF agentVars, AllAreWritten
  <2>2. ASSUME NEW m \in Members, Starting(m)
        PROVE  AgentsInv'
    <3>1. UNCHANGED <<outcome, stopping, goalTask, member, team, losses, signalled, abandoned,
                      unfinished, unwritten, unbound>>
      BY <2>2 DEF Starting
    <3>2. keeper'[m] # "done" /\ keeper' \in [Members -> KeeperPlaces]
      BY <2>2 DEF Starting, StartsRun, StartFails, SpawnsChild, RecordsRunning
    <3>3. CASE StartsRun(m)
      <4>1. run' \in [Members -> AgentRows]
        BY <3>3, AgentRowTypes DEF StartsRun
      <4> QED
        BY <3>1, <3>2, <3>3, <4>1 DEF StartsRun, AllAreWritten
    <3>4. CASE StartFails(m)
      BY <3>1, <3>2, <3>4 DEF StartFails, AllAreWritten
    <3>5. CASE SpawnsChild(m)
      BY <3>1, <3>2, <3>5 DEF SpawnsChild, AllAreWritten
    <3>6. CASE RecordsRunning(m)
      <4>1. run' \in [Members -> AgentRows]
        BY <3>6, AgentRowTypes DEF RecordsRunning, Upserts
      <4> QED
        BY <3>1, <3>2, <3>6, <4>1 DEF RecordsRunning, Upserts, AllAreWritten
    <3> QED
      BY <2>2, <3>3, <3>4, <3>5, <3>6 DEF Starting
  <2>3. ASSUME NEW m \in Members, ChildEnds(m)
        PROVE  AgentsInv'
    BY <2>3 DEF ChildEnds, AllAreWritten
  <2>4. ASSUME NEW m \in Members, Keeping(m)
        PROVE  AgentsInv'
    <3>0. UNCHANGED <<stopping, signalled, abandoned>>
      BY <2>4 DEF Keeping
    <3>a. CASE /\ \/ WaitsForChild(m) \/ FinishReads(m) \/ FinishRecords(m)
                  \/ WritesTask(m) \/ SetsMember(m) \/ AdvancesTeam(m)
               /\ UNCHANGED <<losses, unfinished, unwritten, unbound>>
      <4>1. CASE WaitsForChild(m)
        BY <3>0, <3>a, <4>1 DEF WaitsForChild, AllAreWritten
      <4>2. CASE FinishReads(m)
        BY <3>0, <3>a, <4>2 DEF FinishReads, AllAreWritten
      <4>3. CASE FinishRecords(m)
        <5>1. run' \in [Members -> AgentRows]
          BY <4>3, AgentRowTypes DEF FinishRecords, Upserts
        <5> QED
          BY <3>0, <3>a, <4>3, <5>1 DEF FinishRecords, Upserts, AllAreWritten
      <4>4. CASE WritesTask(m)
        BY <3>0, <3>a, <4>4 DEF WritesTask, AllAreWritten
      <4>5. CASE SetsMember(m)
        BY <3>0, <3>a, <4>5 DEF SetsMember, AllAreWritten
      <4>6. CASE AdvancesTeam(m)
        BY <3>0, <3>a, <4>6 DEF AdvancesTeam, AllAreWritten
      <4> QED
        BY <3>a, <4>1, <4>2, <4>3, <4>4, <4>5, <4>6
    <3>b. CASE CountsMembers(m) /\ UNCHANGED <<losses, unfinished, unwritten>>
      <4>1. unbound' \in BOOLEAN
        BY <3>b, Zenon DEF CountsMembers
      \* When all are done and written, whoever counted last counted all of them.
      <4>2. AllAreWritten' => AllDone
        BY <3>b DEF CountsMembers, AllAreWritten, AllDone
      <4>3. ~ (AllAreWritten' /\ ~ unbound')
        <5>1. CASE KeeperGoes(m, "counting", IF AllDone THEN "advancing" ELSE "done")
          BY <4>2, <5>1 DEF AllAreWritten
        <5>2. CASE unbound' = TRUE
          BY <5>2, Zenon
        <5> QED
          BY <3>b, <5>1, <5>2 DEF CountsMembers
      <4>4. keeper' \in [Members -> KeeperPlaces]
        BY <3>b DEF CountsMembers
      <4>5. /\ keeper[m] = "counting" /\ keeper'[m] \in {"advancing", "done"}
            /\ \A n \in Members \ {m} : keeper'[n] = keeper[n]
        BY <3>b DEF CountsMembers
      <4>6. UNCHANGED <<run, child, outcome, goalTask, member, team, overwritten>>
        BY <3>b DEF CountsMembers
      <4> QED
        BY <3>0, <3>b, <4>1, <4>3, <4>4, <4>5, <4>6
    <3>c. CASE FinishFails(m) /\ UNCHANGED unbound
      BY <3>0, <3>c DEF FinishFails, AllAreWritten
    <3>d. CASE WriteFails(m) /\ UNCHANGED unbound
      <4>1. unwritten' = unwritten \cup {m} /\ ~ AllAreWritten'
        BY <3>d DEF WriteFails, AllAreWritten
      <4>2. /\ keeper' \in [Members -> KeeperPlaces]
            /\ keeper[m] \in Reported \cup {"recorded"} /\ keeper'[m] \in Reported
            /\ \A n \in Members \ {m} : keeper'[n] = keeper[n]
        BY <3>d DEF WriteFails
      <4>3. UNCHANGED <<run, child, outcome, goalTask, member, team, overwritten, unfinished>>
            /\ losses' \in 0 .. MaxLosses
        BY <3>d DEF WriteFails
      <4> QED
        BY <3>0, <3>d, <4>1, <4>2, <4>3
    <3> QED
      BY <2>4, <3>a, <3>b, <3>c, <3>d DEF Keeping
  <2>5. ASSUME Stopping
        PROVE  AgentsInv'
    <3>0. UNCHANGED <<keeper, outcome, goalTask, member, team, losses, abandoned,
                      unfinished, unwritten, unbound>>
      BY <2>5 DEF Stopping
    <3>1. ASSUME NEW s \in Stops, NEW m \in Members, StopReads(s, m)
          PROVE  AgentsInv'
      BY <3>0, <3>1 DEF StopReads, StopGoes, StopAt, AllAreWritten
    <3>2. ASSUME NEW s \in Stops, StopTerminates(s)
          PROVE  AgentsInv'
      BY <3>0, <3>2 DEF StopTerminates, StopGoes, AllAreWritten
    <3>3. ASSUME NEW s \in Stops, StopRecords(s)
          PROVE  AgentsInv'
      <4> DEFINE m == stopping[s].member
                 seen == stopping[s].row
      <4>1. m \in Members /\ seen.status \in {"queued", "running"} /\ seen \in AgentRows
        BY <3>3 DEF StopRecords
      <4>2. [seen EXCEPT !.status = "stopped"] \in AgentRows
        BY <4>1 DEF AgentRows
      <4>3. /\ run' = [run EXCEPT ![m] = [seen EXCEPT !.status = "stopped"]]
            /\ overwritten' = IF run[m].status \in {seen.status} THEN overwritten
                              ELSE overwritten \cup {m}
            /\ stopping' = [stopping EXCEPT ![s] = NoStop]
            /\ UNCHANGED <<child, signalled>>
        BY <3>3 DEF StopRecords, Upserts, StopGoes
      <4>4. [seen EXCEPT !.status = "stopped"].status = "stopped"
        BY <4>1 DEF AgentRows
      <4>5. NoStop \in [at : {"idle", "read", "terminated"},
                        member : Members \cup {NoMember}, row : AgentRows] /\ NoStop.at = "idle"
        BY DEF NoStop, StopAt, NoRunRow, AgentRows
      <4>6. run' \in [Members -> AgentRows] /\ overwritten' \subseteq Members
        BY <4>1, <4>2, <4>3
      <4>7. run'[m].status = "stopped" /\ \A n \in Members \ {m} : run'[n] = run[n]
        BY <4>1, <4>3, <4>4
      <4>8. \A n \in Members : (n \notin overwritten \cup abandoned \cup unwritten => RunTells(n))
        OBVIOUS
      <4>9. ASSUME NEW n \in Members, n \notin overwritten' \cup abandoned' \cup unwritten'
            PROVE  RunTells(n)'
        <5>1. n \notin overwritten \cup abandoned \cup unwritten
          BY <3>0, <4>3, <4>9
        <5>2. CASE n # m
          BY <3>0, <4>7, <5>1, <5>2
        <5>3. CASE n = m
          <6>1. run[m].status \in {"queued", "running"}
            BY <4>1, <4>3, <4>9, <5>3
          <6>2. keeper[m] \notin Reported \cup {"recorded"}
            BY <5>1, <5>3, <6>1, <4>1
          <6> QED
            BY <3>0, <4>1, <4>7, <5>1, <5>3, <6>2
        <5> QED
          BY <5>2, <5>3
      <4>10. stopping' \in [Stops -> [at : {"idle", "read", "terminated"},
                                      member : Members \cup {NoMember}, row : AgentRows]]
        BY <4>3, <4>5
      <4> HIDE DEF m, seen, RunTells
      <4> QED
        BY <3>0, <4>3, <4>5, <4>6, <4>9, <4>10 DEF AllAreWritten
    <3> QED
      BY <2>5, <3>1, <3>2, <3>3 DEF Stopping
  <2>6. ASSUME DesktopIsLost
        PROVE  AgentsInv'
    <3>1. stopping' \in [Stops -> [at : {"idle", "read", "terminated"},
                                  member : Members \cup {NoMember}, row : AgentRows]]
          /\ \A s \in Stops : stopping'[s].at = "idle"
      BY <2>6, AgentRowTypes DEF DesktopIsLost
    <3>2. /\ keeper' \in [Members -> KeeperPlaces] /\ abandoned' \subseteq Members
          /\ \A m \in Members : m \in abandoned' \/ (m \notin abandoned /\ keeper'[m] = keeper[m])
          /\ \A m \in Members : keeper'[m] = keeper[m] \/ keeper'[m] = "gone"
      BY <2>6 DEF DesktopIsLost
    <3>3. /\ UNCHANGED <<run, child, outcome, goalTask, member, team, signalled, overwritten,
                        unfinished, unwritten, unbound>>
          /\ losses' \in 0 .. MaxLosses
      BY <2>6 DEF DesktopIsLost
    <3>4. AllAreWritten' => AllAreWritten
      BY <3>2, <3>3 DEF AllAreWritten
    <3>5. ASSUME NEW m \in Members
          PROVE  /\ keeper'[m] \in Reported \cup {"seen", "reading", "recorded"} =>
                        outcome'[m] \in Verdicts
                 /\ keeper'[m] \in Counted /\ m \notin unwritten' =>
                        member'[m] \in {"completed", "failed"}
                 /\ m \notin overwritten' \cup abandoned' \cup unwritten' => RunTells(m)'
      BY <3>2, <3>3
    <3> HIDE DEF RunTells
    <3> QED
      BY <3>1, <3>2, <3>3, <3>4, <3>5 DEF AllAreWritten
  <2> QED
    BY <2>1, <2>2, <2>3, <2>4, <2>5, <2>6 DEF AgentsNext
<1> QED
  BY <1>1, <1>2, PTL DEF AgentsSpec

\* Rows, processes and threads of the agents' runs keep their types.
THEOREM AgentsTypeCorrect == AgentsSpec => []AgentsTypeOK
<1>1. AgentsInv => AgentsTypeOK
  BY DEF AgentsInv
<1> QED
  BY <1>1, AgentsInvariant, PTL

\* What a finished run leaves in its row and in its task agrees; and when all
\* the threads are done and nothing they wrote failed, the team awaits review,
\* unless no member's row named a run when all were counted
\* (agent_runs.rs:289-416).
THEOREM RunsAreAlwaysReported ==
    AgentsSpec => []((\A m \in Members : RunIsReported(m))
                     /\ (AllAreWritten /\ ~ unbound => team = "awaiting_review"))
<1>1. AgentsInv => \A m \in Members : RunIsReported(m)
  <2> SUFFICES ASSUME AgentsInv, NEW m \in Members PROVE RunIsReported(m)
    OBVIOUS
  <2> QED
    BY DEF AgentsInv, AgentsTypeOK, RunTells, RunIsReported, Starts, Reported, Verdicts
<1>2. AgentsInv => (AllAreWritten /\ ~ unbound => team = "awaiting_review")
  BY DEF AgentsInv
<1> QED
  BY <1>1, <1>2, AgentsInvariant, PTL

----------------------------------------------------------------------------
(* Alerts and quiet                                                        *)

\* Numbers have a least one.
LEMMA LeastOfSome ==
  ASSUME NEW T, T \subseteq Nat, T # {}
  PROVE  \E x \in T : \A y \in T : x <= y
<1>1. PICK R : IsWellFoundedOn(R, Nat) /\ \A x, y \in Nat : <<x, y>> \in R <=> x < y
  <2>1. IsWellFoundedOn(OpToRel(<, Nat), Nat)
    BY NatLessThanWellFounded
  <2>2. \A x, y \in Nat : <<x, y>> \in OpToRel(<, Nat) <=> x < y
    BY DEF OpToRel
  <2> QED
    BY <2>1, <2>2
<1>0. \A r, s, t : IsWellFoundedOn(r, s) /\ t \subseteq s /\ t # {} =>
               \E x \in t : \A y \in t : ~ (<<y, x>> \in r)
  BY WFMin, ZenonT(30)
<1>2. PICK x \in T : \A y \in T : ~ (<<y, x>> \in R)
  <2>1. IsWellFoundedOn(R, Nat)
    BY <1>1
  <2> QED
    BY <2>1, <1>0, ZenonT(30)
<1>3. ASSUME NEW y \in T
      PROVE  x <= y
  <2>1. x \in Nat /\ y \in Nat
    OBVIOUS
  <2>2. ~ (<<y, x>> \in R)
    BY <1>2
  <2>3. <<y, x>> \in R <=> y < x
    BY <1>1, <2>1, Zenon
  <2> QED
    BY <2>1, <2>2, <2>3
<1> QED
  BY <1>3

\* The first stalled task of the file is one of its tasks.
LEMMA FirstStalledType ==
  ASSUME stalled \subseteq StalledIds, stalled # {}
  PROVE  FirstStalled \in StalledIds
<1> DEFINE Stuck == {i \in DOMAIN StalledTasks : StalledTasks[i] \in stalled}
<1>1. Stuck \subseteq Nat
  BY NudgesAssumption
<1>2. Stuck # {}
  BY DEF StalledIds
<1>3. PICK i \in Stuck : \A j \in Stuck : i <= j
  BY <1>1, <1>2, LeastOfSome
<1>4. \E k \in DOMAIN StalledTasks :
         /\ StalledTasks[k] \in stalled
         /\ \A j \in DOMAIN StalledTasks : StalledTasks[j] \in stalled => k <= j
  BY <1>3
<1> QED
  BY <1>4, Zenon DEF FirstStalled, StalledIds

\* While the last request's time runs its quiet is in force, and an alert in
\* judgement was taken before it was made.
QuietInv ==
    /\ NudgesTypeOK
    /\ lastQuiet \in quietTimers => quietUntil = lastQuiet
    /\ monitor.at = "judging" => lastQuiet \notin quietTimers \/ monitor.disturbed

LEMMA BeatKeepsTypes ==
  ASSUME NudgesTypeOK, Beat
  PROVE  channel' \in Seq(Alerts) /\ Len(channel') <= MaxAlerts + 1
         /\ sinceAlert' \in [Kinds -> 0 .. CooldownBeats]
<1> USE NudgesAssumption
<1>1. PICK onTheHour \in BOOLEAN :
          LET due == (IF stalled = {} THEN {} ELSE {"stalled"})
                         \cup (IF onTheHour THEN {"hour"} ELSE {})
              allowed == {k \in due : sinceAlert[k] = CooldownBeats}
          IN /\ channel' = channel
                    \o (IF "stalled" \in allowed THEN <<Alert("stalled", FirstStalled)>> ELSE <<>>)
                    \o (IF "hour" \in allowed THEN <<Alert("hour", "none")>> ELSE <<>>)
             /\ sinceAlert' = [k \in Kinds |->
                    IF StartsCooldown(k, due) THEN 1
                    ELSE IF sinceAlert[k] = CooldownBeats THEN CooldownBeats
                    ELSE sinceAlert[k] + 1]
  BY DEF Beat
<1> DEFINE due == (IF stalled = {} THEN {} ELSE {"stalled"})
                      \cup (IF onTheHour THEN {"hour"} ELSE {})
           stuck == IF "stalled" \in {k \in due : sinceAlert[k] = CooldownBeats}
                    THEN <<Alert("stalled", FirstStalled)>> ELSE <<>>
           told == IF "hour" \in {k \in due : sinceAlert[k] = CooldownBeats}
                   THEN <<Alert("hour", "none")>> ELSE <<>>
<1>2. stuck \in Seq(Alerts) /\ Len(stuck) <= 1
  <2>1. CASE stalled = {}
    <3>1. stuck = <<>>
      BY <2>1
    <3> QED
      BY <3>1
  <2>2. CASE stalled # {}
    <3>1. Alert("stalled", FirstStalled) \in Alerts
      BY <2>2, FirstStalledType DEF NudgesTypeOK, Alerts
    <3>2. <<Alert("stalled", FirstStalled)>> \in Seq(Alerts)
          /\ Len(<<Alert("stalled", FirstStalled)>>) = 1
      BY <3>1
    <3> QED
      BY <3>2
  <2> QED
    BY <2>1, <2>2
<1>3. told \in Seq(Alerts) /\ Len(told) <= 1
  <2>1. <<Alert("hour", "none")>> \in Seq(Alerts) /\ Len(<<Alert("hour", "none")>>) = 1
    BY DEF Alerts
  <2> QED
    BY <2>1
<1>4. channel' = (channel \o stuck) \o told
  BY <1>1
<1>5. channel \in Seq(Alerts) /\ Len(channel) < MaxAlerts
  BY DEF Beat, NudgesTypeOK
<1>6. sinceAlert' = [k \in Kinds |->
                        IF StartsCooldown(k, due) THEN 1
                        ELSE IF sinceAlert[k] = CooldownBeats THEN CooldownBeats
                        ELSE sinceAlert[k] + 1]
  BY <1>1
<1>7. sinceAlert' \in [Kinds -> 0 .. CooldownBeats]
  <2> HIDE DEF due
  <2> QED
    BY <1>6 DEF NudgesTypeOK
<1>8. Len(channel') <= MaxAlerts + 1 /\ channel' \in Seq(Alerts)
  <2> HIDE DEF stuck, told
  <2>1. channel \o stuck \in Seq(Alerts) /\ Len(channel \o stuck) <= MaxAlerts
    BY <1>2, <1>5
  <2> QED
    BY <1>3, <1>4, <2>1
<1> QED
  BY <1>7, <1>8

LEMMA QuietInvariant == NudgesSpec => []QuietInv
<1> USE NudgesAssumption
<1>1. NudgesInit => QuietInv
  <2>1. 0 .. CooldownBeats = {n \in Int : 0 <= n /\ n <= CooldownBeats}
    OBVIOUS
  <2> QED
    BY <2>1 DEF NudgesInit, QuietInv, NudgesTypeOK, Waiting, MonitorAt, Alerts, Alert, Kinds
<1>2. QuietInv /\ [NudgesNext]_nudgeVars => QuietInv'
  <2> SUFFICES ASSUME QuietInv, [NudgesNext]_nudgeVars
               PROVE  QuietInv'
    OBVIOUS
  <2> USE DEF QuietInv, NudgesTypeOK
  <2>1. CASE UNCHANGED nudgeVars
    BY <2>1 DEF nudgeVars
  <2>2. ASSUME NEW t \in StalledIds, TaskStalls(t) \/ TaskMovesOn(t)
        PROVE  QuietInv'
    BY <2>2 DEF TaskStalls, TaskMovesOn
  <2>3. ASSUME Beat
        PROVE  QuietInv'
    <3>1. channel' \in Seq(Alerts) /\ Len(channel') <= MaxAlerts + 1
          /\ sinceAlert' \in [Kinds -> 0 .. CooldownBeats]
      BY <2>3, BeatKeepsTypes
    <3>2. UNCHANGED <<stalled, monitor, quietUntil, quietTimers, lastQuiet, initiative>>
      BY <2>3 DEF Beat
    <3> QED
      BY <3>1, <3>2
  <2>4. ASSUME TakesAlert
        PROVE  QuietInv'
    <3>1. Waiting \in [at : {"waiting", "judging"}, alert : Alerts, disturbed : BOOLEAN]
      BY DEF Waiting, MonitorAt, Alerts, Alert
    <3>2. Waiting.at = "waiting"
      BY DEF Waiting, MonitorAt
    <3>3. channel' \in Seq(Alerts) /\ Len(channel') <= MaxAlerts + 1
      BY <2>4 DEF TakesAlert
    <3>4. CASE quietUntil # NoQuiet
      BY <2>4, <3>1, <3>2, <3>3, <3>4 DEF TakesAlert
    <3>5. CASE quietUntil = NoQuiet
      <4>1. lastQuiet \notin quietTimers
        BY <3>5
      <4>2. Head(channel) \in Alerts
        BY <2>4 DEF TakesAlert
      <4>3. monitor' = MonitorAt("judging", Head(channel))
        BY <2>4, <3>5 DEF TakesAlert
      <4>4. MonitorAt("judging", Head(channel)) \in
                [at : {"waiting", "judging"}, alert : Alerts, disturbed : BOOLEAN]
        BY <4>2 DEF MonitorAt
      <4> QED
        BY <2>4, <3>3, <4>1, <4>3, <4>4 DEF TakesAlert
    <3> QED
      BY <3>4, <3>5
  <2>5. ASSUME Judges
        PROVE  QuietInv'
    BY <2>5 DEF Judges, Waiting, MonitorAt, Alerts, Alert
  <2>6. ASSUME NEW q \in QuietCalls, AsksQuiet(q)
        PROVE  QuietInv'
    BY <2>6 DEF AsksQuiet
  <2>7. ASSUME NEW q \in QuietCalls, TimeIsUp(q)
        PROVE  QuietInv'
    BY <2>7 DEF TimeIsUp, EndsQuiet
  <2>8. ASSUME ChecksInitiatives
        PROVE  QuietInv'
    BY <2>8 DEF ChecksInitiatives
  <2> QED
    BY <2>1, <2>2, <2>3, <2>4, <2>5, <2>6, <2>7, <2>8 DEF NudgesNext
<1> QED
  BY <1>1, <1>2, PTL DEF NudgesSpec

\* Alerts, cooldowns and requests for quiet keep their types.
THEOREM NudgesTypeCorrect == NudgesSpec => []NudgesTypeOK
<1>1. QuietInv => NudgesTypeOK
  BY DEF QuietInv
<1> QED
  BY <1>1, QuietInvariant, PTL

\* Quiet lasts as long as the last request for it: nothing is said meanwhile
\* but of an alert that was taken before (worker.rs:34-62, main.rs:60-86).
THEOREM QuietIsAlwaysKept == NudgesSpec => QuietIsKept
<1>1. QuietInv => (monitor.at = "judging" /\ monitor'.at = "waiting" =>
                       lastQuiet \notin quietTimers \/ monitor.disturbed)
  BY DEF QuietInv
<1> QED
  BY <1>1, QuietInvariant, PTL DEF QuietIsKept

----------------------------------------------------------------------------
(* The runner of the command line                                          *)

\* A run that is under way and not the one of the running attempt has been
\* interfered with, unless the task has failed for good.
UnderWay(r) == watcher[r] \notin {"none", "done"}

RunnerInv ==
    /\ RunnerTypeOK
    /\ \/ cliTask = "failed"
       \/ \A r \in CliRuns :
             UnderWay(r) => r \in interfered \/ (attempt = r /\ cliTask = "running")
    \* What has a verdict is written back; and what runs was started.
    /\ \A r \in CliRuns : watcher[r] \in {"seen", "reading"} => verdict[r] \in CliVerdicts
    /\ cliTask = "running" => attempt \in CliRuns

LEMMA RunnerInvariant == RunnerSpec => []RunnerInv
<1> USE RunnerAssumption
<1>1. RunnerInit => RunnerInv
  BY DEF RunnerInit, RunnerInv, RunnerTypeOK, UnderWay, Places, CliVerdicts
<1>2. RunnerInv /\ [RunnerNext]_runnerVars => RunnerInv'
  <2> SUFFICES ASSUME RunnerInv, [RunnerNext]_runnerVars
               PROVE  RunnerInv'
    OBVIOUS
  <2> USE DEF RunnerInv, RunnerTypeOK, UnderWay, CliVerdicts, Places
  <2>0. CASE UNCHANGED runnerVars
    BY <2>0 DEF runnerVars
  <2>1. ASSUME NEW r \in CliRuns, StartsTask(r)
        PROVE  RunnerInv'
    BY <2>1 DEF StartsTask, WatcherGoes, PutRow
  <2>2. ASSUME NEW r \in CliRuns, SpawnsProcess(r)
        PROVE  RunnerInv'
    BY <2>2 DEF SpawnsProcess, WatcherGoes
  <2>3. ASSUME NEW r \in CliRuns, RecordsProcess(r)
        PROVE  RunnerInv'
    BY <2>3 DEF RecordsProcess, WatcherGoes, PutRow
  <2>4. ASSUME NEW r \in CliRuns, BindsMember(r)
        PROVE  RunnerInv'
    BY <2>4 DEF BindsMember, WatcherGoes
  <2>5. ASSUME NEW r \in CliRuns, SpawnFails(r)
        PROVE  RunnerInv'
    BY <2>5 DEF SpawnFails, WatcherGoes
  <2>6. ASSUME NEW r \in CliRuns, ReportsFailure(r)
        PROVE  RunnerInv'
    BY <2>6 DEF ReportsFailure, WatcherGoes, Failable
  <2>7. ASSUME NEW r \in CliRuns, ProcessEnds(r)
        PROVE  RunnerInv'
    BY <2>7 DEF ProcessEnds
  <2>8. ASSUME NEW r \in CliRuns, WaitsFor(r)
        PROVE  RunnerInv'
    BY <2>8 DEF WaitsFor, WatcherGoes
  <2>9. ASSUME NEW r \in CliRuns, ReadsRun(r)
        PROVE  RunnerInv'
    BY <2>9 DEF ReadsRun, WatcherGoes
  <2>10. ASSUME NEW r \in CliRuns, RecordsVerdict(r)
        PROVE  RunnerInv'
    BY <2>10 DEF RecordsVerdict, WatcherGoes, PutRow
  <2>11. ASSUME NEW r \in CliRuns, ReadsTask(r)
        PROVE  RunnerInv'
    BY <2>11 DEF ReadsTask, WatcherGoes
  <2>12. ASSUME NEW r \in CliRuns, Settles(r)
        PROVE  RunnerInv'
    <3>1. CASE cliTask' = cliTask
      BY <2>12, <3>1 DEF Settles, WatcherGoes
    <3>2. CASE cliTask' # cliTask /\ cliTask' = "failed"
      BY <2>12, <3>2 DEF Settles, WatcherGoes
    <3>3. CASE cliTask = "running" /\ cliTask' = "review_ready"
      <4>1. interfered' = interfered \cup ({attempt} \ {r})
        BY <2>12, <3>3 DEF Settles
      <4> QED
        BY <2>12, <3>3, <4>1 DEF Settles, WatcherGoes
    <3> QED
      BY <2>12, <3>1, <3>2, <3>3 DEF Settles
  <2>13. ASSUME NEW r \in CliRuns, StopReadsRow(r) \/ StopWritesRow(r)
        PROVE  RunnerInv'
    BY <2>13 DEF StopReadsRow, StopWritesRow, PutRow
  <2>14. ASSUME ApiSettles
        PROVE  RunnerInv'
    BY <2>14 DEF ApiSettles
  <2>15. ASSUME Requeues
        PROVE  RunnerInv'
    BY <2>15 DEF Requeues
  <2>16. ASSUME RunnerEnds
        PROVE  RunnerInv'
    BY <2>16 DEF RunnerEnds
  <2> QED
    BY <2>0, <2>1, <2>2, <2>3, <2>4, <2>5, <2>6, <2>7, <2>8, <2>9, <2>10, <2>11, <2>12,
       <2>13, <2>14, <2>15, <2>16 DEF RunnerNext, ThreadRuns
<1> QED
  BY <1>1, <1>2, PTL DEF RunnerSpec

\* The task, its runs and their processes keep their types.
THEOREM RunnerTypeCorrect == RunnerSpec => []RunnerTypeOK
<1>1. RunnerInv => RunnerTypeOK
  BY DEF RunnerInv
<1> QED
  BY <1>1, RunnerInvariant, PTL

\* The thread of an older run settles a newer attempt only when somebody else
\* had settled the older one (claude_p.rs:516-540).
THEOREM OldRunsAlwaysStandBack == RunnerSpec => OldRunsStandBack
<1>1. RunnerInv /\ [RunnerNext]_runnerVars =>
         \A r \in CliRuns :
             (watcher[r] = "settling" /\ cliTask' # cliTask /\ watcher'[r] = "done") =>
                 r = attempt \/ r \in interfered
  <2> SUFFICES ASSUME RunnerInv, [RunnerNext]_runnerVars, NEW r \in CliRuns,
                      watcher[r] = "settling", cliTask' # cliTask, watcher'[r] = "done"
               PROVE  r = attempt \/ r \in interfered
    OBVIOUS
  <2>1. CASE cliTask = "failed"
    <3>1. cliTask' = cliTask
      BY <2>1 DEF RunnerNext, runnerVars, StartsTask, SpawnsProcess, RecordsProcess, BindsMember,
                  SpawnFails, ReportsFailure, Failable, ProcessEnds, ThreadRuns, WaitsFor, ReadsRun,
                  RecordsVerdict, ReadsTask, Settles, StopReadsRow, StopWritesRow, ApiSettles,
                  Requeues, RunnerEnds
    <3> QED
      BY <3>1
  <2>2. CASE cliTask # "failed"
    BY <2>2 DEF RunnerInv, UnderWay
  <2> QED
    BY <2>1, <2>2
<1> QED
  BY <1>1, RunnerInvariant, PTL DEF OldRunsStandBack, RunnerSpec

----------------------------------------------------------------------------
(* The request of a model call                                             *)

ResolutionRecord ==
    [at : {"idle", "loaded", "profile", "model", "request", "sent"}, context : Contexts,
     policy : {NoPolicy} \cup [kind : WorkKinds, phase : OodaPhases \cup {"none"},
                               profile : Profiles \cup {NoProfile}, priority : Int,
                               enabled : BOOLEAN, made : Nat],
     seen : SUBSET ProfileRows, held : Sources, disturbed : BOOLEAN, fallback : BOOLEAN,
     model : Sources, endpoint : Sources, key : Sources]

\* All of the request comes from the profile of the policy, but for a key that
\* the row did not have when it was read.
FromProfile(r) ==
    /\ r.endpoint \in Profiles /\ r.model = r.endpoint /\ r.policy.profile = r.endpoint
    /\ \/ r.key = r.endpoint /\ Row(TRUE, TRUE) \in r.seen
       \/ r.key \notin Profiles /\ Row(TRUE, FALSE) \in r.seen

\* What a load of the configuration can return.
Configurations == {DefaultConfig} \cup 0 .. MaxSaves

\* What is read so far comes from a profile or from the configuration, and
\* what comes from the configuration is what its file holds unless a load or a
\* write interfered.
ResolutionInv ==
    LET r == resolution
    IN /\ r.at = "idle" => r = NotResolving
       /\ r.policy # NoPolicy => Applies(r.policy, r.context)
       /\ r.at = "loaded" => r.policy = NoPolicy
       /\ r.at = "profile" /\ r.policy.profile \in Profiles
             /\ profiles[r.policy.profile].enabled => profiles[r.policy.profile] \in r.seen
       /\ r.at \in {"loaded", "profile", "model"} => r.endpoint = NoProfile /\ r.key = NoProfile
       /\ r.held \in Configurations \cup {NoProfile}
       /\ r.held # NoProfile => r.held = llmConfig \/ r.disturbed
       /\ r.at = "request" =>
             \/ FromProfile(r)
             \/ /\ r.endpoint = NoProfile /\ r.key = NoProfile /\ r.fallback
                /\ r.model = llmConfig \/ r.disturbed
       /\ r.at = "sent" =>
             \/ FromProfile(r)
             \/ /\ r.endpoint \in Configurations /\ r.key = r.endpoint /\ r.fallback
                /\ r.model = r.endpoint \/ r.disturbed

RoutingInv ==
    /\ profiles \in [Profiles -> ProfileRows]
    /\ policies \subseteq [kind : WorkKinds, phase : OodaPhases \cup {"none"},
                           profile : Profiles \cup {NoProfile}, priority : Int,
                           enabled : BOOLEAN, made : Nat]
    /\ created \in Nat /\ draft \in PolicyInputs \cup {NoPolicy}
    /\ saves \in 0 .. MaxSaves /\ llmConfig \in 0 .. saves
    /\ resolution \in ResolutionRecord
    /\ ResolutionInv

LEMMA NotResolvingType == NotResolving \in ResolutionRecord
<1>1. [kind |-> "coding", phase |-> "none"] \in Contexts
  BY DEF Contexts
<1>2. (CHOOSE c \in Contexts : TRUE) \in Contexts
  BY <1>1
<1> QED
  BY <1>2 DEF NotResolving, ResolutionRecord, Sources

LEMMA RoutingInitInv == RoutingInit => RoutingInv
<1> SUFFICES ASSUME RoutingInit PROVE RoutingInv
  OBVIOUS
<1>1. profiles \in [Profiles -> ProfileRows]
  BY DEF RoutingInit, ProfileRows
<1>2. ResolutionInv
  BY DEF RoutingInit, ResolutionInv, NotResolving
<1> QED
  BY <1>1, <1>2, NotResolvingType, RoutingAssumption DEF RoutingInit, RoutingInv

\* A new row of a profile is seen by the resolution that waits to read it.
LEMMA PutProfileKeeps ==
  ASSUME RoutingInv, NEW p \in Profiles, NEW stored \in ProfileRows, PutProfile(p, stored),
         UNCHANGED <<policies, created, draft, configurationVars>>
  PROVE  RoutingInv'
<1>1. profiles' \in [Profiles -> ProfileRows] /\ profiles' = [profiles EXCEPT ![p] = stored]
  BY DEF RoutingInv, PutProfile
<1>2. CASE resolution.at = "profile" /\ resolution.policy.profile = p /\ stored.enabled
  <2>1. resolution' = [resolution EXCEPT !.seen = @ \cup {stored}]
    BY <1>2 DEF PutProfile, Witnessed
  <2>2. resolution' \in ResolutionRecord
    BY <2>1 DEF RoutingInv, ResolutionRecord
  <2>3. ResolutionInv'
    BY <1>1, <1>2, <2>1
       DEF RoutingInv, ResolutionInv, ResolutionRecord, Applies, configurationVars
  <2> QED
    BY <1>1, <2>2, <2>3 DEF RoutingInv, configurationVars
<1>3. CASE ~(resolution.at = "profile" /\ resolution.policy.profile = p /\ stored.enabled)
  <2>0. resolution' = resolution
    BY <1>3 DEF PutProfile, Witnessed
  <2>1. ResolutionInv'
    <3>1. ASSUME resolution.at = "profile", resolution.policy.profile \in Profiles,
                 profiles'[resolution.policy.profile].enabled
          PROVE  profiles'[resolution.policy.profile] \in resolution.seen
      <4>1. CASE resolution.policy.profile = p
        <5>1. ~ stored.enabled
          BY <1>3, <3>1, <4>1
        <5> QED
          BY <1>1, <3>1, <4>1, <5>1 DEF RoutingInv
      <4>2. CASE resolution.policy.profile # p
        BY <1>1, <3>1, <4>2 DEF RoutingInv, ResolutionInv
      <4> QED
        BY <4>1, <4>2
    <3> QED
      BY <1>1, <2>0, <3>1 DEF RoutingInv, ResolutionInv, FromProfile, configurationVars
  <2> QED
    BY <1>1, <2>0, <2>1 DEF RoutingInv, configurationVars
<1> QED
  BY <1>2, <1>3

\* The file gets another content: a call that had loaded it is disturbed.
LEMMA RewrittenKeeps ==
  ASSUME RoutingInv, NEW content, Rewritten(content), saves' \in 0 .. MaxSaves,
         content \in 0 .. saves', UNCHANGED <<profiles, policies, created, draft>>
  PROVE  RoutingInv'
<1> DEFINE touched == resolution.disturbed \/ resolution.held # NoProfile
                                           \/ resolution.at = "request"
<1>1. llmConfig' = content /\ resolution' = [resolution EXCEPT !.disturbed = touched]
  BY DEF Rewritten
<1>2. resolution \in ResolutionRecord /\ touched \in BOOLEAN
  BY DEF RoutingInv
<1>3. resolution' \in ResolutionRecord
  BY <1>1, <1>2 DEF ResolutionRecord
<1>4. /\ resolution'.at = resolution.at /\ resolution'.context = resolution.context
      /\ resolution'.policy = resolution.policy /\ resolution'.seen = resolution.seen
      /\ resolution'.held = resolution.held /\ resolution'.fallback = resolution.fallback
      /\ resolution'.model = resolution.model /\ resolution'.endpoint = resolution.endpoint
      /\ resolution'.key = resolution.key
      /\ resolution'.disturbed = touched
  BY <1>1, <1>2 DEF ResolutionRecord
<1>5. resolution.at = "idle" => resolution' = NotResolving
  <2> SUFFICES ASSUME resolution.at = "idle" PROVE resolution' = NotResolving
    OBVIOUS
  <2>1. resolution = NotResolving
    BY DEF RoutingInv, ResolutionInv
  <2>2. NotResolving.disturbed = FALSE /\ NotResolving.held = NoProfile
        /\ NotResolving.at = "idle"
    BY DEF NotResolving
  <2>3. touched = FALSE
    BY <2>1, <2>2
  <2>4. NotResolving = [NotResolving EXCEPT !.disturbed = FALSE]
    BY <2>2, NotResolvingType DEF ResolutionRecord
  <2> HIDE DEF touched
  <2> QED
    BY <1>1, <2>1, <2>3, <2>4
<1>6. ResolutionInv'
  <2>1. FromProfile(resolution) => FromProfile(resolution')
    BY <1>4 DEF FromProfile
  <2> QED
    BY <1>1, <1>2, <1>4, <1>5, <2>1 DEF RoutingInv, ResolutionInv, Applies
<1> QED
  BY <1>1, <1>3, <1>6 DEF RoutingInv

LEMMA RoutingStepInv == RoutingInv /\ [RoutingNext]_routingVars => RoutingInv'
<1> SUFFICES ASSUME RoutingInv, [RoutingNext]_routingVars PROVE RoutingInv'
  OBVIOUS
<1> USE RoutingAssumption
<1>1. ASSUME NEW p \in Profiles, CreateProfile(p) \/ UpdateProfile(p) \/ DeleteProfile(p)
      PROVE  RoutingInv'
  <2>1. Deleted \in ProfileRows /\ \A e, k \in BOOLEAN : Row(e, k) \in ProfileRows
    BY DEF ProfileRows
  <2>2. PICK stored \in ProfileRows : PutProfile(p, stored)
    BY <1>1, <2>1 DEF CreateProfile, UpdateProfile, DeleteProfile
  <2>3. UNCHANGED <<policies, created, draft, configurationVars>>
    BY <1>1 DEF CreateProfile, UpdateProfile, DeleteProfile
  <2> QED
    BY <2>2, <2>3, PutProfileKeeps
<1>2. CASE SaveConfig
  <2>1. saves' \in 0 .. MaxSaves /\ saves + 1 \in 0 .. saves'
    BY <1>2 DEF SaveConfig, RoutingInv
  <2> QED
    BY <1>2, <2>1, RewrittenKeeps DEF SaveConfig
<1>12. CASE WritesBack
  <2>1. PICK content \in 0 .. saves : Rewritten(content)
    BY <1>12 DEF WritesBack
  <2>2. UNCHANGED <<profiles, policies, created, draft, saves>>
    BY <1>12 DEF WritesBack
  <2>3. saves' \in 0 .. MaxSaves /\ content \in 0 .. saves'
    BY <2>1, <2>2 DEF RoutingInv
  <2> QED
    BY <2>1, <2>2, <2>3, RewrittenKeeps
<1>3. CASE ValidatePolicy
  BY <1>3 DEF ValidatePolicy, RoutingInv, ResolutionInv, configurationVars
<1>4. CASE InsertPolicy
  <2>1. draft \in CreateRoutingPolicyInput
    BY <1>4 DEF InsertPolicy, RoutingInv
  <2> QED
    BY <1>4, <2>1
       DEF InsertPolicy, RoutingInv, ResolutionInv, CreateRoutingPolicyInput, configurationVars
<1>5. CASE DeletePolicy
  BY <1>5 DEF DeletePolicy, RoutingInv, ResolutionInv, configurationVars
<1>13. CASE CallerLoads
  <2>1. PICK content \in Loadable :
           resolution' = [resolution EXCEPT !.at = "loaded", !.held = content,
                              !.disturbed = content # llmConfig]
    BY <1>13 DEF CallerLoads
  <2>2. resolution \in ResolutionRecord /\ resolution = NotResolving
    BY <1>13 DEF CallerLoads, RoutingInv
  <2>3. UNCHANGED <<profiles, policies, created, draft, saves, llmConfig>>
    BY <1>13 DEF CallerLoads, configurationVars
  <2>4. content \in Configurations /\ content \in Sources
    BY DEF Loadable, Configurations, Sources, RoutingInv
  <2>5. (content # llmConfig) \in BOOLEAN
    OBVIOUS
  <2>6. resolution' \in ResolutionRecord
    BY <2>1, <2>2, <2>4, <2>5 DEF ResolutionRecord
  <2>7. /\ resolution'.at = "loaded" /\ resolution'.held = content
        /\ resolution'.disturbed = (content # llmConfig)
        /\ resolution'.policy = NoPolicy
        /\ resolution'.endpoint = NoProfile /\ resolution'.key = NoProfile
    BY <2>1, <2>2 DEF NotResolving
  <2>8. ResolutionInv'
    BY <2>3, <2>4, <2>7 DEF ResolutionInv, Configurations
  <2> QED
    BY <2>3, <2>6, <2>8 DEF RoutingInv
<1>6. CASE SelectPolicy
  <2> PICK context \in Contexts :
        LET begun == [resolution EXCEPT !.context = context, !.at = "model"]
        IN \/ resolution' = begun
           \/ \E p \in ListPolicies(context, 1) :
                 resolution' = [begun EXCEPT !.at = "profile", !.policy = p,
                     !.seen = {profiles[q] : q \in {v \in Profiles :
                                  v = p.profile /\ profiles[v].enabled}}]
    BY <1>6 DEF SelectPolicy
  <2> DEFINE begun == [resolution EXCEPT !.context = context, !.at = "model"]
             Seen(p) == {profiles[q] : q \in {v \in Profiles :
                                  v = p.profile /\ profiles[v].enabled}}
  <2>0. resolution \in ResolutionRecord /\ resolution.policy = NoPolicy
        /\ resolution.endpoint = NoProfile /\ resolution.key = NoProfile
        /\ UNCHANGED <<profiles, policies, created, draft, saves, llmConfig>>
    <3>1. NotResolving.policy = NoPolicy /\ NotResolving.endpoint = NoProfile
          /\ NotResolving.key = NoProfile
      BY DEF NotResolving
    <3>2. resolution.at \in {"idle", "loaded"}
          /\ UNCHANGED <<profiles, policies, created, draft, saves, llmConfig>>
      BY <1>6 DEF SelectPolicy, configurationVars
    <3> QED
      BY <3>1, <3>2 DEF RoutingInv, ResolutionInv
  <2>1. begun \in ResolutionRecord
    BY <2>0 DEF ResolutionRecord
  <2>2. begun.endpoint = NoProfile /\ begun.key = NoProfile /\ begun.policy = NoPolicy
        /\ begun.at = "model" /\ begun.context = context
        /\ begun.held = resolution.held /\ begun.disturbed = resolution.disturbed
    BY <2>0 DEF ResolutionRecord
  <2>a. /\ resolution.held \in Configurations \cup {NoProfile}
        /\ resolution.held # NoProfile => resolution.held = llmConfig \/ resolution.disturbed
    BY DEF RoutingInv, ResolutionInv
  <2> HIDE DEF begun
  <2>3. CASE resolution' = begun
    <3>1. ResolutionInv'
      BY <2>0, <2>2, <2>3, <2>a DEF ResolutionInv, Configurations
    <3> QED
      BY <2>0, <2>1, <2>3, <3>1 DEF RoutingInv
  <2>4. ASSUME NEW p \in ListPolicies(context, 1),
               resolution' = [begun EXCEPT !.at = "profile", !.policy = p, !.seen = Seen(p)]
        PROVE  RoutingInv'
    <3>1. p \in policies /\ Applies(p, context)
      BY <2>4 DEF ListPolicies, FirstRows
    <3>2. Seen(p) \in SUBSET ProfileRows
      <4>1. profiles \in [Profiles -> ProfileRows]
        BY DEF RoutingInv
      <4>2. \A q \in Profiles : profiles[q] \in ProfileRows
        BY <4>1
      <4> QED
        BY <4>2, Zenon
    <3>a. p.profile \in Profiles /\ profiles[p.profile].enabled => profiles[p.profile] \in Seen(p)
      OBVIOUS
    <3> HIDE DEF Seen
    <3>3. resolution' \in ResolutionRecord
      BY <2>1, <2>4, <3>1, <3>2 DEF RoutingInv, ResolutionRecord
    <3>5. /\ resolution'.at = "profile" /\ resolution'.policy = p
          /\ resolution'.context = context /\ resolution'.seen = Seen(p)
          /\ resolution'.endpoint = NoProfile /\ resolution'.key = NoProfile
          /\ resolution'.held = resolution.held
          /\ resolution'.disturbed = resolution.disturbed
      BY <2>1, <2>2, <2>4 DEF ResolutionRecord
    <3>6. ResolutionInv'
      BY <2>0, <2>a, <3>1, <3>5, <3>a DEF ResolutionInv, Configurations
    <3> QED
      BY <2>0, <3>3, <3>6 DEF RoutingInv
  <2> QED
    BY <2>3, <2>4 DEF begun
<1>7. CASE ReadProfile
  <2> DEFINE p == resolution.policy.profile
  <2>b. UNCHANGED <<profiles, policies, created, draft, saves, llmConfig>>
    BY <1>7 DEF ReadProfile, configurationVars
  <2>1. resolution \in ResolutionRecord /\ resolution.at = "profile"
    BY <1>7 DEF ReadProfile, RoutingInv
  <2>2. CASE Usable(p)
    <3>1. resolution' = [resolution EXCEPT !.at = "request", !.model = p, !.endpoint = p,
                             !.key = IF profiles[p].keyed THEN p ELSE NoProfile]
      BY <1>7, <2>2 DEF ReadProfile
    <3>2. p \in Profiles
      BY <2>1, <2>2 DEF Usable, ResolutionRecord, NoPolicy
    <3>3. profiles[p] \in {Row(TRUE, TRUE), Row(TRUE, FALSE)} /\ profiles[p] \in resolution.seen
          /\ (profiles[p].keyed <=> profiles[p] = Row(TRUE, TRUE))
      <4>1. profiles[p] \in ProfileRows /\ profiles[p].enabled
        BY <2>2, <3>2 DEF RoutingInv, Usable
      <4>2. ~NoRowYet.enabled /\ ~Deleted.enabled /\ \A k : ~Row(FALSE, k).enabled
        BY DEF NoRowYet, Deleted, Row
      <4>3. profiles[p] \in {Row(TRUE, TRUE), Row(TRUE, FALSE)}
        <5>1. profiles[p] # NoRowYet /\ profiles[p] # Deleted
          BY <4>1, <4>2
        <5>2. PICK e \in BOOLEAN, k \in BOOLEAN : profiles[p] = Row(e, k)
          BY <4>1, <5>1 DEF ProfileRows
        <5>3. Row(e, k).enabled = e
          BY DEF Row
        <5> QED
          BY <4>1, <5>2, <5>3
      <4>4. Row(TRUE, TRUE).keyed = TRUE /\ Row(TRUE, FALSE).keyed = FALSE
        BY DEF Row
      <4>5. profiles[p] \in resolution.seen
        BY <2>1, <3>2, <4>1 DEF RoutingInv, ResolutionInv
      <4> QED
        BY <4>3, <4>4, <4>5
    <3>4. resolution' \in ResolutionRecord
      BY <2>1, <3>1, <3>2 DEF ResolutionRecord, Sources
    <3>5. FromProfile(resolution')
      BY <2>1, <3>1, <3>2, <3>3 DEF FromProfile, ResolutionRecord
    <3>6. /\ resolution'.at = "request" /\ resolution'.policy = resolution.policy
          /\ resolution'.context = resolution.context /\ resolution'.held = resolution.held
          /\ resolution'.disturbed = resolution.disturbed
      BY <2>1, <3>1 DEF ResolutionRecord
    <3>7. ResolutionInv'
      BY <2>b, <3>5, <3>6 DEF RoutingInv, ResolutionInv, Configurations
    <3> QED
      BY <2>b, <3>4, <3>7 DEF RoutingInv
  <2>3. CASE ~Usable(p)
    <3>1. resolution' = [resolution EXCEPT !.at = "model", !.seen = {}]
      BY <1>7, <2>3 DEF ReadProfile
    <3>2. resolution' \in ResolutionRecord
      BY <2>1, <3>1 DEF ResolutionRecord
    <3>3. ResolutionInv'
      BY <2>1, <2>b, <3>1 DEF RoutingInv, ResolutionInv, ResolutionRecord, Configurations
    <3> QED
      BY <2>b, <3>2, <3>3 DEF RoutingInv
  <2> QED
    BY <2>2, <2>3
<1>8. CASE TakeDefaultModel
  <2>1. resolution \in ResolutionRecord /\ resolution.at = "model"
    BY <1>8 DEF TakeDefaultModel, RoutingInv
  <2>2. PICK source \in Loadable \cup {BuiltInModel} :
           resolution' = [resolution EXCEPT !.at = "request", !.model = source,
                              !.fallback = TRUE,
                              !.disturbed = resolution.disturbed \/ source # llmConfig]
    BY <1>8 DEF TakeDefaultModel
  <2>3. source \in Sources
    BY DEF Loadable, RoutingInv, Sources
  <2>4. UNCHANGED <<profiles, policies, created, draft, saves, llmConfig>>
    BY <1>8 DEF TakeDefaultModel, configurationVars
  <2>5. resolution' \in ResolutionRecord
    BY <2>1, <2>2, <2>3 DEF ResolutionRecord
  <2>6. /\ resolution'.at = "request" /\ resolution'.policy = resolution.policy
        /\ resolution'.context = resolution.context /\ resolution'.held = resolution.held
        /\ resolution'.disturbed = (resolution.disturbed \/ source # llmConfig)
        /\ resolution'.endpoint = resolution.endpoint /\ resolution'.key = resolution.key
        /\ resolution'.model = source /\ resolution'.fallback = TRUE
    BY <2>1, <2>2 DEF ResolutionRecord
  <2>7. ResolutionInv'
    BY <2>1, <2>4, <2>6 DEF RoutingInv, ResolutionInv, Configurations
  <2> QED
    BY <2>4, <2>5, <2>7 DEF RoutingInv
<1>9. CASE BuildRequest
  <2>1. resolution \in ResolutionRecord /\ resolution.at = "request"
    BY <1>9 DEF BuildRequest, RoutingInv
  <2>2. UNCHANGED <<profiles, policies, created, draft, saves, llmConfig>>
    BY <1>9 DEF BuildRequest, configurationVars
  \* Whatever configuration fills in, it is the file's or the call is disturbed.
  <2>3. ASSUME NEW configuration \in Configurations, NEW met \in BOOLEAN,
               configuration # llmConfig => met \/ resolution.disturbed,
               resolution' = [resolution EXCEPT !.at = "sent",
                   !.disturbed = resolution.disturbed \/ met,
                   !.endpoint = Given(resolution.endpoint, configuration),
                   !.key = Given(resolution.key, configuration)]
        PROVE  RoutingInv'
    <3>1. configuration \in Sources /\ configuration \notin Profiles
          /\ NoProfile \notin Profiles
      BY DEF Configurations, Sources
    <3>2. Given(resolution.endpoint, configuration) \in Sources
          /\ Given(resolution.key, configuration) \in Sources
      BY <2>1, <3>1 DEF Given, ResolutionRecord
    <3>3. resolution' \in ResolutionRecord
      BY <2>1, <2>3, <3>2 DEF ResolutionRecord
    <3>4. /\ resolution'.at = "sent" /\ resolution'.policy = resolution.policy
          /\ resolution'.context = resolution.context /\ resolution'.seen = resolution.seen
          /\ resolution'.model = resolution.model /\ resolution'.held = resolution.held
          /\ resolution'.fallback = resolution.fallback
          /\ resolution'.disturbed = (resolution.disturbed \/ met)
          /\ resolution'.endpoint = Given(resolution.endpoint, configuration)
          /\ resolution'.key = Given(resolution.key, configuration)
      BY <2>1, <2>3 DEF ResolutionRecord
    <3>5. CASE FromProfile(resolution)
      <4>1. FromProfile(resolution')
        BY <3>1, <3>4, <3>5 DEF FromProfile, Given
      <4> QED
        BY <2>2, <3>3, <3>4, <4>1 DEF RoutingInv, ResolutionInv, Configurations
    <3>6. CASE ~FromProfile(resolution)
      <4>1. resolution'.endpoint = configuration /\ resolution'.key = configuration
            /\ resolution'.fallback
            /\ (resolution'.model = configuration \/ resolution'.disturbed)
        BY <2>1, <2>3, <3>4, <3>6 DEF RoutingInv, ResolutionInv, Given
      <4> QED
        BY <2>2, <3>3, <3>4, <4>1 DEF RoutingInv, ResolutionInv, Configurations
    <3> QED
      BY <3>5, <3>6
  <2>4. CASE resolution.held # NoProfile
    <3>1. resolution.held \in Configurations
          /\ (resolution.held # llmConfig => resolution.disturbed)
      BY <2>4 DEF RoutingInv, ResolutionInv
    <3>2. resolution' = [resolution EXCEPT !.at = "sent",
                   !.disturbed = resolution.disturbed \/ FALSE,
                   !.endpoint = Given(resolution.endpoint, resolution.held),
                   !.key = Given(resolution.key, resolution.held)]
      BY <1>9, <2>4 DEF BuildRequest
    <3> QED
      BY <2>3, <3>1, <3>2
  <2>5. CASE resolution.held = NoProfile /\ resolution' # NotResolving
    <3>1. PICK content \in Loadable :
             resolution' = [resolution EXCEPT !.at = "sent",
                   !.disturbed = resolution.disturbed \/ content # llmConfig,
                   !.endpoint = Given(resolution.endpoint, content),
                   !.key = Given(resolution.key, content)]
      BY <1>9, <2>5 DEF BuildRequest
    <3>2. content \in Configurations /\ (content # llmConfig) \in BOOLEAN
      BY DEF Loadable, Configurations, RoutingInv
    <3> QED
      BY <2>3, <3>1, <3>2
  <2>6. CASE resolution' = NotResolving
    <3>1. ResolutionInv'
      BY <2>6 DEF ResolutionInv, NotResolving
    <3> QED
      BY <2>2, <2>6, <3>1, NotResolvingType DEF RoutingInv
  <2> QED
    BY <2>4, <2>5, <2>6
<1>10. CASE Answered
  <2>1. ResolutionInv'
    BY <1>10 DEF Answered, ResolutionInv, NotResolving
  <2> QED
    BY <1>10, <2>1, NotResolvingType DEF Answered, RoutingInv, configurationVars
<1>11. CASE UNCHANGED routingVars
  BY <1>11 DEF routingVars, configurationVars, RoutingInv, ResolutionInv
<1> QED
  BY <1>1, <1>2, <1>3, <1>4, <1>5, <1>6, <1>7, <1>8, <1>9, <1>10, <1>11,
     <1>12, <1>13 DEF RoutingNext

\* For any profiles, policies and saves, whoever changes them while a call of
\* a model is prepared: its request has one source, a profile or the
\* configuration, but for the key a profile lacks, a load that met a write and
\* a content that the file got in between (model_resolver.rs:184-280,
\* config.rs:402-437, llm.rs:70-85).
THEOREM RequestsAlwaysHaveOneSource == RoutingSpec => []RequestsHaveOneSource
<1>1. RoutingInv => RequestsHaveOneSource
  <2> SUFFICES ASSUME RoutingInv, resolution.at = "sent" PROVE RequestsHaveOneSource
    BY DEF RequestsHaveOneSource
  <2>1. Row(TRUE, TRUE) # Row(TRUE, FALSE)
    BY DEF Row
  <2> QED
    BY <2>1, RoutingAssumption DEF RoutingInv, ResolutionInv, FromProfile, Configurations,
                                      RequestsHaveOneSource
<1> QED
  BY <1>1, RoutingInitInv, RoutingStepInv, PTL DEF RoutingSpec

\* A row is numbered when it is inserted, and there is room for the one drafted.
NumbersInv ==
    /\ created \in 0 .. MaxPolicies
    /\ draft # NoPolicy => created < MaxPolicies
    /\ \A p \in policies : p.made \in 1 .. created

LEMMA NumbersStepInv == RoutingInv /\ NumbersInv /\ [RoutingNext]_routingVars => NumbersInv'
<1> SUFFICES ASSUME RoutingInv, NumbersInv, [RoutingNext]_routingVars PROVE NumbersInv'
  OBVIOUS
<1> USE RoutingAssumption
<1>1. CASE ValidatePolicy
  BY <1>1 DEF ValidatePolicy, NumbersInv
<1>2. CASE InsertPolicy
  <2>1. created' = created + 1 /\ draft' = NoPolicy /\ created < MaxPolicies
    BY <1>2 DEF InsertPolicy, NumbersInv
  <2>2. \A p \in policies' : p \in policies \/ p.made = created + 1
    BY <1>2 DEF InsertPolicy
  <2>3. created' \in 0 .. MaxPolicies /\ (draft' # NoPolicy => created' < MaxPolicies)
    BY <2>1 DEF NumbersInv, NoPolicy
  <2>4. ASSUME NEW p \in policies' PROVE p.made \in 1 .. created'
    BY <2>1, <2>2, <2>4 DEF NumbersInv
  <2> QED
    BY <2>3, <2>4 DEF NumbersInv
<1>3. CASE DeletePolicy
  <2>1. policies' \subseteq policies /\ UNCHANGED <<created, draft>>
    BY <1>3 DEF DeletePolicy
  <2> QED
    BY <2>1 DEF NumbersInv, NoPolicy
<1>4. ASSUME ~ValidatePolicy, ~InsertPolicy, ~DeletePolicy PROVE NumbersInv'
  <2>1. UNCHANGED <<policies, created, draft>>
    BY <1>4 DEF RoutingNext, CreateProfile, UpdateProfile, DeleteProfile, SaveConfig, WritesBack,
                CallerLoads, SelectPolicy, ReadProfile, TakeDefaultModel, BuildRequest, Answered,
                routingVars
  <2> QED
    BY <2>1 DEF NumbersInv, NoPolicy
<1> QED
  BY <1>1, <1>2, <1>3, <1>4

\* Everything the choice of a model keeps has its type, the numbers of the
\* policies included (routing.rs, model_resolver.rs).
LEMMA RoutingTypeCorrect == RoutingSpec => []RoutingTypeOK
<1>1. RoutingInit => NumbersInv
  BY RoutingAssumption DEF RoutingInit, NumbersInv
<1>2. RoutingInv /\ NumbersInv => RoutingTypeOK
  <2> SUFFICES ASSUME RoutingInv, NumbersInv PROVE RoutingTypeOK
    OBVIOUS
  <2>1. /\ resolution.at \in {"idle", "loaded", "profile", "model", "request", "sent"}
        /\ resolution.context \in Contexts /\ resolution.seen \subseteq ProfileRows
        /\ {resolution.held, resolution.model, resolution.endpoint, resolution.key}
              \subseteq Sources
    BY DEF RoutingInv, ResolutionRecord
  <2>2. \A p \in policies : /\ p.kind \in WorkKinds /\ p.profile \in Profiles \cup {NoProfile}
                            /\ p.phase \in OodaPhases \cup {"none"} /\ p.made \in 1 .. created
    BY DEF RoutingInv, NumbersInv
  <2> QED
    BY <2>1, <2>2 DEF RoutingInv, NumbersInv, RoutingTypeOK
<1> QED
  BY <1>1, <1>2, RoutingInitInv, RoutingStepInv, NumbersStepInv, PTL DEF RoutingSpec

----------------------------------------------------------------------------
(* The rounds of a turn                                                    *)

\* Where a turn stands says how many runs of tools have no record yet, which
\* text stands for the answer, and what the offers were built from.
RoundsInv ==
    /\ wish \in Wishes /\ offers \subseteq Catalog
    /\ calls \in Nat /\ executed \in Nat /\ records \in Nat
    /\ narrow => Search \in offers /\ ~wish.long
    /\ wish.planOnly => offers \subseteq Inspecting
    /\ wish.override # {} => offers \subseteq wish.override
    /\ roundsAt \notin {"ran", "timeout", "stored"} => executed = records
    /\ roundsAt = "ran" => executed = records + 1
    /\ executed \in {records, records + 1}
    /\ roundsAt = "refused" => executed = 0
    /\ roundsAt \in {"forcing", "recovering", "storing"} => calls = 0
    /\ complete =>
          calls = 0 /\ drafted = "text" /\ roundsAt \notin {"new", "asking", "calling", "ran"}
    /\ complete /\ roundsAt \in {"recovering", "storing"} => answerFrom # "none"
    /\ answerFrom = "model" =>
          /\ complete /\ executed = records
          /\ roundsAt \in {"recovering", "storing", "stored", "error", "timeout"}
    /\ roundsAt = "stored" => answerFrom # "none"

LEMMA OffersAreDefined ==
  ASSUME RoundsInv, Offers
  PROVE  /\ offers' \subseteq Catalog
         /\ narrow' => Search \in offers' /\ ~wish.long
         /\ wish.planOnly => offers' \subseteq Inspecting
         /\ wish.override # {} => offers' \subseteq wish.override
<1>1. wish.override # {} => wish.long /\ ~wish.planOnly
  BY ToolRoundsAssumption DEF RoundsInv
<1>2. Search \in Inspecting /\ Inspecting \subseteq Catalog
  BY ToolRoundsAssumption
<1>3. CASE narrow'
  <2>1. ~wish.long /\ offers' = Defined({Search} \cup Authorized({Search}))
    BY <1>3 DEF Offers, Narrows, CatalogOffers
  <2> QED
    BY <1>1, <1>2, <2>1 DEF Defined
<1>4. CASE ~narrow'
  <2>1. offers' = FirstOffers
    BY <1>4 DEF Offers
  <2> QED
    BY <1>1, <1>2, <1>4, <2>1 DEF FirstOffers, Defined
<1> QED
  BY <1>3, <1>4

LEMMA RoundsStepInv == RoundsInv /\ [ToolRoundsNext]_roundVars => RoundsInv'
<1> SUFFICES ASSUME RoundsInv, [ToolRoundsNext]_roundVars PROVE RoundsInv'
  OBVIOUS
<1>1. CASE AdministersSkill
  BY <1>1 DEF AdministersSkill, RoundsInv
<1>2. CASE Offers
  BY <1>2, OffersAreDefined DEF Offers, RoundsInv
<1>3. ASSUME NEW text \in {"none", "blank", "text"}, NEW n \in 0 .. MaxCalls, Replies(text, n)
      PROVE  RoundsInv'
  <2>1. n \in Nat
    BY ToolRoundsAssumption
  <2>2. /\ complete' => n = 0 /\ text = "text"
        /\ n > 0 => roundsAt' = "calling"
        /\ n = 0 => roundsAt' = "forcing"
        /\ roundsAt = "asking" /\ calls' = n
        /\ text = "text" => drafted' = "text"
        /\ UNCHANGED <<wish, narrow, answerFrom, offers, executed, records>>
    <3>1. complete' = (n = 0 /\ text = "text")
      BY <1>3 DEF Replies
    <3>2. complete' => n = 0 /\ text = "text"
      BY <3>1, Zenon
    <3>3. /\ n > 0 => roundsAt' = "calling"
          /\ n = 0 => roundsAt' = "forcing"
          /\ roundsAt = "asking" /\ calls' = n
          /\ text = "text" => drafted' = "text"
      BY <1>3, <2>1 DEF Replies
    <3> QED
      BY <1>3, <3>2, <3>3 DEF Replies, Rounds
  <2>3. ~complete /\ answerFrom # "model" /\ executed = records
    BY <2>2 DEF RoundsInv
  <2> QED
    BY <2>1, <2>2, <2>3 DEF RoundsInv
<1>4. CASE ExecutesNext
  BY <1>4 DEF ExecutesNext, Rounds, RoundsInv
<1>5. ASSUME NEW found \in Found, RecordsCall(found)
      PROVE  RoundsInv'
  BY <1>5 DEF RecordsCall, Rounds, RoundsInv
<1>6. CASE EndsRound
  <2>1. \/ offers' = offers
        \/ narrow /\ offers' = Defined({Search} \cup Authorized(discovered))
    BY <1>6 DEF EndsRound, CatalogOffers
  <2>2. /\ offers' \subseteq Catalog
        /\ narrow => Search \in offers'
        /\ wish.planOnly => offers' \subseteq Inspecting
        /\ wish.override # {} => offers' \subseteq wish.override
    BY <2>1, ToolRoundsAssumption DEF Defined, RoundsInv
  <2> QED
    BY <1>6, <2>2 DEF EndsRound, Rounds, RoundsInv
<1>7. CASE Forces
  BY <1>7 DEF Forces, Moves, TextStands, Ending, RoundsInv
<1>8. CASE Recovers
  BY <1>8 DEF Recovers, Moves, TextStands, Ending, RoundsInv
<1>9. CASE Stores
  BY <1>9 DEF Stores, Moves, Ending, RoundsInv
<1>10. CASE RoundsFail
  BY <1>10 DEF RoundsFail, Ending, RoundsInv
<1>11. CASE RoundsExpire
  BY <1>11 DEF RoundsExpire, Ending, RoundsInv
<1>12. CASE ReportsError
  BY <1>12 DEF ReportsError, RecoveredText, Ending, RoundsInv
<1>13. CASE ReportsTimeout
  BY <1>13 DEF ReportsTimeout, RecoveredText, Moves, Ending, RoundsInv
<1>14. CASE UNCHANGED roundVars
  BY <1>14 DEF roundVars, RoundsInv
<1> QED
  BY <1>1, <1>2, <1>3, <1>4, <1>5, <1>6, <1>7, <1>8, <1>9, <1>10, <1>11, <1>12, <1>13, <1>14
     DEF ToolRoundsNext

\* For any catalog, wishes and numbers of rounds and calls: the tools offered
\* stay within the wishes, no run of a tool is passed over, and the answer is
\* the model's only if it was one.
THEOREM RoundsAreAlwaysAccountedFor == ToolRoundsSpec => []RoundsAreAccountedFor
<1>1. ToolRoundsInit => RoundsInv
  BY DEF ToolRoundsInit, RoundsInv
<1>2. RoundsInv => RoundsAreAccountedFor
  BY DEF RoundsInv, RoundsAreAccountedFor, Begun
<1> QED
  BY <1>1, <1>2, RoundsStepInv, PTL DEF ToolRoundsSpec

\* A round adds at most MaxCalls calls to those of the rounds before it.
Asked == rounds * MaxCalls

CountsInv ==
    /\ package \in {"absent", "off", "on"}
    /\ connector \in {"unknown", "disabled", "risky", "usable"}
    /\ roundsAt \in RoundPlaces
    /\ narrow \in BOOLEAN /\ kept \in BOOLEAN /\ complete \in BOOLEAN
    /\ discovered \subseteq Catalog
    /\ drafted \in {"none", "blank", "text"}
    /\ answerFrom \in {"none", "model", "forced", "recovered", "fallback"}
    /\ rounds \in 0 .. MaxRounds /\ calls \in 0 .. MaxCalls
    /\ roundsAt = "asking" => calls = 0
    /\ roundsAt = "new" => calls = 0
    /\ Asked \in Nat /\ executed + calls <= Asked

\* The flags are assigned Boolean values.
LEMMA RoundFlags ==
  ASSUME CountsInv, [ToolRoundsNext]_roundVars
  PROVE  narrow' \in BOOLEAN /\ kept' \in BOOLEAN /\ complete' \in BOOLEAN
<1>1. ASSUME NEW text \in {"none", "blank", "text"}, NEW n \in 0 .. MaxCalls, Replies(text, n)
      PROVE  narrow' \in BOOLEAN /\ kept' \in BOOLEAN /\ complete' \in BOOLEAN
  <2>1. kept' = (kept \/ text = "text") /\ complete' = (n = 0 /\ text = "text") /\ narrow' = narrow
    BY <1>1 DEF Replies, Rounds
  <2> QED
    BY <2>1, Zenon DEF CountsInv
<1>2. CASE Offers
  <2>1. narrow' = Narrows /\ kept' = kept /\ complete' = complete
    BY <1>2 DEF Offers
  <2>2. Narrows \in BOOLEAN
    BY Zenon DEF Narrows
  <2> QED
    BY <2>1, <2>2, Zenon DEF CountsInv
<1>3. ASSUME Forces \/ Recovers \/ Stores
      PROVE  narrow' \in BOOLEAN /\ kept' \in BOOLEAN /\ complete' \in BOOLEAN
  <2>1. /\ kept' = TRUE \/ kept' = kept
        /\ complete' = TRUE \/ complete' = complete
        /\ narrow' = narrow
    BY <1>3, Zenon DEF Forces, Recovers, Stores, TextStands, Ending
  <2> QED
    BY <2>1, Zenon DEF CountsInv
<1>4. ASSUME \/ AdministersSkill \/ ExecutesNext \/ EndsRound \/ RoundsFail \/ RoundsExpire
             \/ ReportsError \/ ReportsTimeout \/ UNCHANGED roundVars
             \/ \E found \in Found : RecordsCall(found)
      PROVE  narrow' \in BOOLEAN /\ kept' \in BOOLEAN /\ complete' \in BOOLEAN
  <2>1. narrow' = narrow /\ kept' = kept /\ complete' = complete
    BY <1>4, Zenon DEF AdministersSkill, ExecutesNext, EndsRound, RoundsFail, RoundsExpire,
       ReportsError, ReportsTimeout, RecordsCall, Rounds, Ending, roundVars
  <2> QED
    BY <2>1, Zenon DEF CountsInv
<1> QED
  BY <1>1, <1>2, <1>3, <1>4, Zenon DEF ToolRoundsNext

LEMMA CountsStepInv == RoundsInv /\ CountsInv /\ [ToolRoundsNext]_roundVars => CountsInv'
<1> SUFFICES ASSUME RoundsInv, CountsInv, [ToolRoundsNext]_roundVars PROVE CountsInv'
  OBVIOUS
<1> USE ToolRoundsAssumption
<1>0. narrow' \in BOOLEAN /\ kept' \in BOOLEAN /\ complete' \in BOOLEAN
  BY RoundFlags
<1>1. CASE AdministersSkill
  BY <1>0, <1>1 DEF AdministersSkill, Imports, Switches, CountsInv, Asked, RoundPlaces
<1>2. CASE Offers
  BY <1>0, <1>2 DEF Offers, CountsInv, Asked, RoundPlaces
<1>3. ASSUME NEW text \in {"none", "blank", "text"}, NEW n \in 0 .. MaxCalls, Replies(text, n)
      PROVE  CountsInv'
  <2>1. /\ roundsAt = "asking" /\ rounds < MaxRounds /\ rounds' = rounds + 1
        /\ drafted' \in {"none", "blank", "text"} /\ calls' = n /\ discovered' = {}
        /\ roundsAt' \in {"calling", "forcing"}
        /\ UNCHANGED <<package, connector, answerFrom, executed>>
    BY <1>3 DEF Replies, Rounds, CountsInv
  <2>2. rounds \in Nat /\ rounds' \in 0 .. MaxRounds
    BY <2>1 DEF CountsInv
  <2>3. Asked' = Asked + MaxCalls /\ Asked \in Nat
    <3>1. (rounds + 1) * MaxCalls = rounds * MaxCalls + MaxCalls
      BY <2>2
    <3> QED
      BY <2>1, <3>1 DEF Asked, CountsInv
  <2>4. Asked' \in Nat /\ executed' + calls' <= Asked'
    BY <2>1, <2>3 DEF CountsInv, RoundsInv
  <2> QED
    BY <1>0, <2>1, <2>2, <2>4 DEF CountsInv, RoundPlaces
<1>4. CASE ExecutesNext
  <2>1. Asked' = Asked /\ executed' + calls' = executed + calls /\ calls' \in 0 .. MaxCalls
    BY <1>4 DEF ExecutesNext, Asked, CountsInv, RoundsInv
  <2> QED
    BY <1>0, <1>4, <2>1 DEF ExecutesNext, Rounds, CountsInv, RoundPlaces
<1>5. ASSUME NEW found \in Found, RecordsCall(found)
      PROVE  CountsInv'
  <2>1. found \subseteq Catalog
    BY <1>5 DEF Found
  <2> QED
    BY <1>0, <1>5, <2>1 DEF RecordsCall, Rounds, CountsInv, Asked, RoundPlaces
<1>6. CASE EndsRound
  BY <1>0, <1>6 DEF EndsRound, Rounds, CountsInv, Asked, RoundPlaces
<1>7. CASE Forces \/ Recovers \/ Stores
  BY <1>0, <1>7 DEF Forces, Recovers, Stores, Moves, TextStands, Ending, CountsInv, Asked,
     RoundPlaces
<1>8. CASE RoundsFail \/ RoundsExpire
  BY <1>0, <1>8 DEF RoundsFail, RoundsExpire, Ending, CountsInv, Asked, RoundPlaces
<1>9. CASE ReportsError \/ ReportsTimeout
  BY <1>0, <1>9 DEF ReportsError, ReportsTimeout, RecoveredText, Moves, Ending, CountsInv, Asked,
     RoundPlaces
<1>10. CASE UNCHANGED roundVars
  BY <1>10 DEF roundVars, CountsInv, Asked
<1> QED
  BY <1>1, <1>2, <1>3, <1>4, <1>5, <1>6, <1>7, <1>8, <1>9, <1>10 DEF ToolRoundsNext

LEMMA AskedIsBounded ==
  ASSUME CountsInv
  PROVE  Asked <= MaxRounds * MaxCalls /\ MaxRounds * MaxCalls \in Nat
<1>1. /\ rounds \in Nat /\ MaxRounds - rounds \in Nat /\ MaxCalls \in Nat /\ MaxRounds \in Nat
  BY ToolRoundsAssumption DEF CountsInv
<1>2. MaxRounds * MaxCalls = rounds * MaxCalls + (MaxRounds - rounds) * MaxCalls
  BY <1>1
<1>3. (MaxRounds - rounds) * MaxCalls \in Nat /\ rounds * MaxCalls \in Nat
  BY <1>1
<1> QED
  BY <1>2, <1>3 DEF Asked

\* A turn runs no more tools than its rounds may ask for, whatever the model
\* replies, and all else it keeps has its type (send_v2.rs:1683-2264).
LEMMA ToolRoundsTypeCorrect == ToolRoundsSpec => []ToolRoundsTypeOK
<1>1. ToolRoundsInit => RoundsInv /\ CountsInv
  <2> SUFFICES ASSUME ToolRoundsInit PROVE RoundsInv /\ CountsInv
    OBVIOUS
  <2>1. narrow \in BOOLEAN /\ kept \in BOOLEAN /\ complete \in BOOLEAN
    BY Zenon DEF ToolRoundsInit
  <2>2. Asked = 0
    BY ToolRoundsAssumption DEF ToolRoundsInit, Asked
  <2> QED
    BY <2>1, <2>2, ToolRoundsAssumption DEF ToolRoundsInit, RoundsInv, CountsInv, RoundPlaces
<1>2. RoundsInv /\ CountsInv => ToolRoundsTypeOK
  <2> SUFFICES ASSUME RoundsInv, CountsInv PROVE ToolRoundsTypeOK
    OBVIOUS
  <2> DEFINE bound == MaxRounds * MaxCalls
  <2>1. Asked <= bound /\ bound \in Nat /\ Asked \in Nat
    BY AskedIsBounded DEF CountsInv
  <2> HIDE DEF bound
  <2>2. executed \in 0 .. bound /\ records \in 0 .. bound
    BY <2>1 DEF RoundsInv, CountsInv
  <2>3. executed \in 0 .. MaxRounds * MaxCalls /\ records \in 0 .. MaxRounds * MaxCalls
    BY <2>2 DEF bound
  <2> QED
    BY <2>3 DEF RoundsInv, CountsInv, ToolRoundsTypeOK
<1> QED
  BY <1>1, <1>2, RoundsStepInv, CountsStepInv, PTL DEF ToolRoundsSpec

\* Whatever changes while a turn asks its models and runs its tools: each
\* request has one source, and what the user is answered matches the rounds.
THEOREM AnswersAreAlwaysAccountedFor == AnswersSpec => []AnswersAreAccountedFor
BY RequestsAlwaysHaveOneSource, RoundsAreAlwaysAccountedFor, PTL
   DEF AnswersSpec, AnswersAreAccountedFor

----------------------------------------------------------------------------
(* Teams of agents                                                         *)

\* A step on its way was validated against the lifecycle that was read, and
\* whoever is about to write executing has found an executor.
TeamsInv ==
    /\ TeamsTypeOK
    /\ \A c \in TeamCallers :
          /\ teamCall[c].at # "idle" /\ teamCall[c].op = "move" =>
                teamCall[c].target \in ValidTransitions[teamCall[c].team]
          /\ teamCall[c].at = "checked" => teamCall[c].op = "move"
          /\ teamCall[c].at = "write" /\ teamCall[c].op = "move"
             /\ teamCall[c].target = "executing" => HasExecutor \/ stripped
    /\ teamRow = "executing" => HasExecutor \/ stripped

LEMMA TeamsInitInv == TeamsInit => TeamsInv
<1>1. NoMemberRow \in MemberRows
  BY DEF NoMemberRow, MemberRows
<1>2. /\ NotCalling \in [at : {"idle", "checked", "write"},
                         op : {"create", "move", "status", "bind"},
            agent : TeamAgents \cup {NoAgentId}, target : Lifecycles \cup {"absent"},
            team : Lifecycles \cup {"absent"}, row : MemberRows]
      /\ NotCalling.at = "idle"
  BY <1>1 DEF NotCalling, Calling
<1> QED
  BY <1>1, <1>2 DEF TeamsInit, TeamsInv, TeamsTypeOK

\* Writing a member's row takes the last executor away only by stripping him.
LEMMA PutMemberKeeps ==
    ASSUME TeamsTypeOK, NEW a \in TeamAgents, NEW row \in MemberRows, PutMember(a, row)
    PROVE  /\ memberRow' \in [TeamAgents -> MemberRows] /\ stripped' \in BOOLEAN
           /\ HasExecutor \/ stripped => HasExecutor' \/ stripped'
<1>1. /\ memberRow' \in [TeamAgents -> MemberRows] /\ stripped' \in BOOLEAN
      /\ \A b \in TeamAgents : memberRow'[b] = IF b = a THEN row ELSE memberRow[b]
      /\ stripped' <=> (stripped \/ (Executor(memberRow[a]) /\ ~Executor(row)))
  BY DEF PutMember, TeamsTypeOK
<1>2. ASSUME NEW b \in TeamAgents, Executor(memberRow[b]) PROVE HasExecutor' \/ stripped'
  <2>1. CASE b = a /\ ~Executor(row)
    BY <1>1, <1>2, <2>1
  <2>2. CASE b # a \/ Executor(row)
    BY <1>1, <1>2, <2>2 DEF HasExecutor, Executor
  <2> QED
    BY <2>1, <2>2
<1> QED
  BY <1>1, <1>2 DEF HasExecutor

LEMMA TeamsStepInv ==
    ASSUME TeamsInv, [TeamsNext]_teamVars
    PROVE  TeamsInv'
<1> USE DEF TeamsInv, TeamsTypeOK
<1>1. ASSUME NEW a \in TeamAgents, AddMember(a) PROVE TeamsInv'
  <2>1. PICK task \in BOOLEAN, bound \in BOOLEAN :
           PutMember(a, [there |-> TRUE, task |-> task, run |-> bound, status |-> "idle"])
    BY <1>1 DEF AddMember
  <2>2. [there |-> TRUE, task |-> task, run |-> bound, status |-> "idle"] \in MemberRows
    BY DEF MemberRows
  <2>3. teamRow' = teamRow /\ teamCall' = teamCall
    BY <1>1 DEF AddMember
  <2> QED
    BY <2>1, <2>2, <2>3, PutMemberKeeps
<1>2. ASSUME NEW c \in TeamCallers, LooksForTeam(c) PROVE TeamsInv'
  BY <1>2 DEF LooksForTeam, CallerGoes, Calling, NoMemberRow, MemberRows, Lifecycles, HasExecutor
<1>3. ASSUME NEW c \in TeamCallers, CreateTeam(c) PROVE TeamsInv'
  BY <1>3 DEF CreateTeam, CallerGoes, NotCalling, Calling, NoMemberRow, MemberRows, Lifecycles,
              HasExecutor
<1>4. ASSUME NEW c \in TeamCallers, ReadsMember(c) PROVE TeamsInv'
  BY <1>4 DEF ReadsMember, CallerGoes, Calling, Lifecycles, HasExecutor
<1>5. ASSUME NEW c \in TeamCallers, WritesMember(c) PROVE TeamsInv'
  <2> DEFINE me == teamCall[c]
             row == IF me.op = "bind" THEN [me.row EXCEPT !.run = TRUE]
                    ELSE [me.row EXCEPT !.status = "completed"]
  <2>1. PutMember(me.agent, row) /\ teamRow' = teamRow
        /\ teamCall' = [teamCall EXCEPT ![c] = NotCalling]
    BY <1>5 DEF WritesMember, CallerGoes
  <2>2. row \in MemberRows
    BY DEF MemberRows
  <2>3. me.agent \in TeamAgents \/ me.agent = NoAgentId
    OBVIOUS
  <2> HIDE DEF row
  <2>4. /\ memberRow' \in [TeamAgents -> MemberRows] /\ stripped' \in BOOLEAN
        /\ HasExecutor \/ stripped => HasExecutor' \/ stripped'
    <3>1. CASE me.agent \in TeamAgents
      BY <2>1, <2>2, <3>1, PutMemberKeeps
    <3>2. CASE me.agent = NoAgentId
      <4>1. memberRow' = memberRow
        BY <2>1, <3>2, TeamsAssumption DEF PutMember
      <4> QED
        BY <2>1, <4>1 DEF PutMember, HasExecutor
    <3> QED
      BY <2>3, <3>1, <3>2
  <2>5. NotCalling \in [at : {"idle", "checked", "write"},
                        op : {"create", "move", "status", "bind"},
            agent : TeamAgents \cup {NoAgentId}, target : Lifecycles \cup {"absent"},
            team : Lifecycles \cup {"absent"}, row : MemberRows]
        /\ NotCalling.at = "idle"
    BY DEF NotCalling, Calling, NoMemberRow, MemberRows
  <2> QED
    BY <2>1, <2>4, <2>5
<1>6. ASSUME NEW c \in TeamCallers, ReadsTeam(c) PROVE TeamsInv'
  BY <1>6 DEF ReadsTeam, CallerGoes, Calling, Allowed, NoMemberRow, MemberRows, Lifecycles,
              HasExecutor
<1>7. ASSUME NEW c \in TeamCallers, EnsuresExecutor(c) PROVE TeamsInv'
  BY <1>7 DEF EnsuresExecutor, CallerGoes, NotCalling, Calling, NoMemberRow, MemberRows,
              HasExecutor
<1>8. ASSUME NEW c \in TeamCallers, MovesTeam(c) PROVE TeamsInv'
  BY <1>8 DEF MovesTeam, CallerGoes, NotCalling, Calling, NoMemberRow, MemberRows, HasExecutor
<1>9. CASE UNCHANGED teamVars
  BY <1>9 DEF teamVars, HasExecutor
<1> QED
  BY <1>1, <1>2, <1>3, <1>4, <1>5, <1>6, <1>7, <1>8, <1>9 DEF TeamsNext

LEMMA TeamsInvariant == TeamsSpec => []TeamsInv
BY TeamsInitInv, TeamsStepInv, PTL DEF TeamsSpec

\* Everything a team, its members and the calls about them hold has its type
\* (agent_teams.rs).
LEMMA TeamsTypeCorrect == TeamsSpec => []TeamsTypeOK
<1>1. TeamsInv => TeamsTypeOK
  BY DEF TeamsInv
<1> QED
  BY <1>1, TeamsInvariant, PTL

(***************************************************************************)
(* A team goes through its lifecycle one valid step at a time and executes *)
(* only with an executor, but for a team that is created again, a step     *)
(* validated against a lifecycle another call has left and a member who    *)
(* was stripped of his work (agent_teams.rs:449-478, 726-747, 983-1000).   *)
(***************************************************************************)
THEOREM TeamsAlwaysFollowTheirLifecycle == TeamsSpec => TeamsFollowTheirLifecycle
<1>1. TeamsInv /\ TeamsInv' /\ [TeamsNext]_teamVars =>
         [/\ teamRow' # teamRow =>
                teamRow' = "draft" \/ teamRow' \in ValidTransitions[teamRow] \/ StaleMove
          /\ teamRow' = "executing" => HasExecutor' \/ stripped']_teamVars
  <2> SUFFICES ASSUME TeamsInv, TeamsInv', TeamsNext, teamRow' # teamRow
               PROVE  teamRow' = "draft" \/ teamRow' \in ValidTransitions[teamRow] \/ StaleMove
    BY DEF TeamsInv
  <2>1. ASSUME NEW a \in TeamAgents, AddMember(a) PROVE FALSE
    BY <2>1 DEF AddMember
  <2>2. ASSUME NEW c \in TeamCallers,
               \/ LooksForTeam(c) \/ ReadsMember(c) \/ WritesMember(c)
               \/ ReadsTeam(c) \/ EnsuresExecutor(c)
        PROVE  FALSE
    BY <2>2 DEF LooksForTeam, ReadsMember, WritesMember, ReadsTeam, EnsuresExecutor
  <2>3. ASSUME NEW c \in TeamCallers, CreateTeam(c) PROVE teamRow' = "draft"
    BY <2>3 DEF CreateTeam
  <2>4. ASSUME NEW c \in TeamCallers, MovesTeam(c)
        PROVE  teamRow' \in ValidTransitions[teamRow] \/ StaleMove
    BY <2>4 DEF MovesTeam, CallerGoes, StaleMove, TeamsInv, TeamsTypeOK
  <2> QED
    BY <2>1, <2>2, <2>3, <2>4 DEF TeamsNext
<1> QED
  BY <1>1, TeamsInvariant, PTL DEF TeamsSpec, TeamsFollowTheirLifecycle

----------------------------------------------------------------------------
(* All of them side by side                                                *)

\* A behaviour of the whole is one of each service: what is not in focus
\* takes no step.
LEMMA EachServiceAsSpecified ==
    CompanionSpec => /\ TurnsSpec /\ AgentsSpec /\ RoutingSpec /\ TeamsSpec /\ RunnerSpec
                     /\ NudgesSpec /\ ToolRoundsSpec
<1>1. CompanionInit => /\ TurnsInit /\ AgentsInit /\ RoutingInit /\ TeamsInit /\ RunnerInit
                       /\ NudgesInit /\ ToolRoundsInit
  BY DEF CompanionInit
<1>2. [CompanionNext]_restVars =>
         /\ [TurnsNext]_turnVars /\ [AgentsNext]_agentVars /\ [RoutingNext]_routingVars
         /\ [TeamsNext]_teamVars /\ [RunnerNext]_runnerVars /\ [NudgesNext]_nudgeVars
         /\ [ToolRoundsNext]_roundVars
  BY Zenon DEF CompanionNext, restVars
<1> QED
  BY <1>1, <1>2, PTL DEF CompanionSpec, TurnsSpec, AgentsSpec, RoutingSpec, TeamsSpec, RunnerSpec,
     NudgesSpec, ToolRoundsSpec

(***************************************************************************)
(* Whatever service is exercised, all it keeps has its type, for any       *)
(* number of processes, agents, profiles, tasks and rounds: the rows,      *)
(* events and replies of the chat, of background runs, of teams and of     *)
(* alerts (chat/send_v2.rs, agent_runs.rs, routing.rs, agent_teams.rs,     *)
(* agent_runner.rs, proactive.rs).                                         *)
(***************************************************************************)
THEOREM CompanionKeepsItsTypes == CompanionSpec => []CompanionTypeOK
<1>1. CompanionInit => focus \in Focuses
  BY DEF CompanionInit
<1>2. focus \in Focuses /\ [CompanionNext]_restVars => (focus \in Focuses)'
  BY Zenon DEF CompanionNext, Only, restVars
<1>3. CompanionSpec => [](focus \in Focuses)
  BY <1>1, <1>2, PTL DEF CompanionSpec
<1>4. /\ focus \in Focuses /\ TurnsTypeOK /\ AgentsTypeOK /\ RoutingTypeOK /\ TeamsTypeOK
      /\ RunnerTypeOK /\ NudgesTypeOK /\ ToolRoundsTypeOK
      => CompanionTypeOK
  BY Zenon DEF CompanionTypeOK
<1> QED
  BY <1>3, <1>4, EachServiceAsSpecified, TurnsTypeCorrect, AgentsTypeCorrect, RoutingTypeCorrect,
     TeamsTypeCorrect, RunnerTypeCorrect, NudgesTypeCorrect, ToolRoundsTypeCorrect, PTL

(***************************************************************************)
(* Side by side the services keep every promise proved of each of them:    *)
(* answers, closings, reports, alerts, routes, rounds and teams.           *)
(***************************************************************************)
THEOREM CompanionKeepsItsPromises ==
    CompanionSpec =>
       /\ []AnswersAreAccountedFor /\ TeamsFollowTheirLifecycle
       /\ [](turn.status # "none" => ClosingsMatchReplies)
       /\ []((\A m \in Members : RunIsReported(m))
             /\ (AllAreWritten /\ ~ unbound => team = "awaiting_review"))
       /\ OldRunsStandBack /\ QuietIsKept
<1>1. RoutingSpec /\ ToolRoundsSpec => []AnswersAreAccountedFor
  BY AnswersAreAlwaysAccountedFor DEF AnswersSpec
<1> QED
  BY <1>1, EachServiceAsSpecified, TeamsAlwaysFollowTheirLifecycle, TurnsAlwaysCloseAsTold,
     RunsAreAlwaysReported, OldRunsAlwaysStandBack, QuietIsAlwaysKept, PTL

=============================================================================
