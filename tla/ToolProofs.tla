----------------------------- MODULE ToolProofs -----------------------------
(***************************************************************************)
(* Proofs about what a chat does outside of it and what the user allows:   *)
(* shell commands, the calls of the file tools, permission grants,         *)
(* proposals and the calls of models.                                      *)
(***************************************************************************)
EXTENDS CommandRuns, ToolCalls, PermissionGrants, Proposals, ModelCalls, FiniteSetTheorems,
        TLAPS

----------------------------------------------------------------------------
(* Shell commands                                                          *)

Early == {"prepared", "awaiting_permission"}
Unregistered == {"none", "inserted", "spawned"}

\* What the place of its task says about a run's two copies.
RunInv(r) ==
    /\ tracking[r] = "none" => row[r] = NoRecord /\ memory[r] = NoRecord
    /\ tracking[r] = "inserted" =>
          memory[r].status \in Early /\ (r \in blind \/ row[r].status \in Early)
    /\ tracking[r] = "spawned" => memory[r].status = "streaming"
    /\ tracking[r] = "waiting" => memory[r].status \in {"streaming"} \cup Finished
    /\ tracking[r] \in {"ended", "persisted"} =>
          memory[r].status \in Finished /\ memory[r].reported /\ ~Locked(r)
    /\ tracking[r] = "persisted" =>
          r \in blind \/ (row[r].status \in Finished /\ row[r].reported)
    /\ tracking[r] = "done" /\ r \notin unfollowed \cup orphaned \cup blind =>
          /\ memory[r].status # "streaming" /\ ~Locked(r)
          /\ row[r].status \in Finished /\ row[r].reported
    \* The registry has runs whose process was started in this life.
    /\ r \in liveRuns =>
          tracking[r] \notin Unregistered /\ memory[r].status \in {"streaming"} \cup Finished
    \* A stored verdict is the object's, while there is one.
    /\ \/ r \in blind \/ row[r].status \notin Finished \/ row[r].status = memory[r].status
       \/ memory[r] = NoRecord /\ tracking[r] = "done"

KillInv(k) ==
    LET r == killing[k].run
    IN /\ killing[k].at # "idle" => tracking[r] # "none"
       /\ killing[k].at \in {"missed", "read"} => r \in blind
       /\ killing[k].at \in {"found", "updating", "unregistering"} =>
             /\ tracking[r] \notin Unregistered
             /\ memory[r].status \in {"streaming"} \cup Finished
       /\ killing[k].at \in {"updating", "unregistering"} => memory[r].status = "killed"

CommandsInv ==
    /\ CommandsTypeOK
    /\ \A r \in Runs : RunInv(r)
    /\ \A k \in Killers : KillInv(k)

LEMMA CommandsInitInv == CommandsInit => CommandsInv
<1> SUFFICES ASSUME CommandsInit
             PROVE  CommandsInv
  OBVIOUS
<1> USE CommandRunsAssumption DEF CommandsInit
<1>1. CommandsTypeOK
  BY DEF CommandsTypeOK, RunRecords, NoRecord, RunStatuses, Tracks, NoKill, KillAt, KillPlaces
<1>2. ASSUME NEW r \in Runs
      PROVE  RunInv(r)
  BY DEF RunInv, NoRecord, Finished
<1>3. ASSUME NEW k \in Killers
      PROVE  KillInv(k)
  BY DEF KillInv, NoKill, KillAt
<1> QED
  BY <1>1, <1>2, <1>3 DEF CommandsInv

\* A run that a step leaves alone keeps what is known of it.
LEMMA RunKept ==
  ASSUME NEW r \in Runs, RunInv(r),
         row'[r] = row[r], memory'[r] = memory[r], tracking'[r] = tracking[r],
         r \in liveRuns' => r \in liveRuns, Locked(r)' => Locked(r),
         blind \subseteq blind', unfollowed \subseteq unfollowed', orphaned \subseteq orphaned'
  PROVE  RunInv(r)'
  BY DEF RunInv

\* So does a kill that does not move, if its run's object is no less far.
LEMMA KillKept ==
  ASSUME NEW k \in Killers, KillInv(k), killing'[k] = killing[k], blind \subseteq blind',
         LET r == killing[k].run
         IN /\ tracking[r] # "none" => tracking'[r] # "none"
            /\ tracking[r] \notin Unregistered => tracking'[r] \notin Unregistered
            /\ memory[r].status \in {"streaming"} \cup Finished =>
                  memory'[r].status \in {"streaming"} \cup Finished
            /\ Locked(r) => memory'[r] = memory[r]
  PROVE  KillInv(k)'
<1>1. killing[k].at \in {"updating", "unregistering"} => Locked(killing[k].run)
  BY DEF Locked
<1> QED
  BY <1>1 DEF KillInv

\* A step of one run keeps the invariant if it keeps that run's part of it and
\* does not touch an object a kill has locked.
LEMMA OneRunMoves ==
  ASSUME CommandsInv, NEW r \in Runs, NEW x \in RunRecords, NEW y \in RunRecords, NEW t \in Tracks,
         row' = [row EXCEPT ![r] = x], memory' = [memory EXCEPT ![r] = y],
         tracking' = [tracking EXCEPT ![r] = t],
         liveRuns' \subseteq Runs, liveRuns' \ {r} = liveRuns \ {r},
         process' \in [Runs -> {"none", "alive", "ended"}],
         unfollowed \subseteq unfollowed', unfollowed' \subseteq Runs,
         UNCHANGED <<killing, orphaned, blind, restarts>>,
         tracking[r] # "none" => t # "none",
         tracking[r] \notin Unregistered => t \notin Unregistered,
         memory[r].status \in {"streaming"} \cup Finished => y.status \in {"streaming"} \cup Finished,
         Locked(r) => y = memory[r],
         RunInv(r)'
  PROVE  CommandsInv'
<1>1. CommandsTypeOK /\ (\A s \in Runs : RunInv(s)) /\ (\A k \in Killers : KillInv(k))
  BY DEF CommandsInv
<1>2. CommandsTypeOK'
  BY <1>1 DEF CommandsTypeOK
<1>3. ASSUME NEW s \in Runs
      PROVE  RunInv(s)'
  <2>1. CASE s # r
    <3>1. /\ row'[s] = row[s] /\ memory'[s] = memory[s] /\ tracking'[s] = tracking[s]
          /\ s \in liveRuns' => s \in liveRuns
      BY <1>1, <2>1 DEF CommandsTypeOK
    <3>2. Locked(s)' => Locked(s)
      BY DEF Locked
    <3> QED
      BY <1>1, <3>1, <3>2, RunKept
  <2> QED
    BY <2>1
<1>4. ASSUME NEW k \in Killers
      PROVE  KillInv(k)'
  <2>1. CASE killing[k].run = r
    BY <1>1, <2>1, KillKept DEF CommandsTypeOK
  <2>2. CASE killing[k].run # r
    <3>1. /\ tracking'[killing[k].run] = tracking[killing[k].run]
          /\ memory'[killing[k].run] = memory[killing[k].run]
      BY <1>1, <2>2 DEF CommandsTypeOK
    <3> QED
      BY <1>1, <3>1, KillKept DEF CommandsTypeOK
  <2> QED
    BY <2>1, <2>2
<1> QED
  BY <1>2, <1>3, <1>4 DEF CommandsInv

\* What transition makes of a run whose process was started.
LEMMA TurnedVerdict ==
  ASSUME NEW rec \in RunRecords, rec.status \in {"streaming"} \cup Finished, NEW s \in Finished
  PROVE  /\ Turned(rec, s) \in RunRecords
         /\ Turned(rec, s).status \in Finished
         /\ rec.status \in Finished => Turned(rec, s) = rec
         /\ rec.status = "streaming" => Turned(rec, s).status = s
         /\ Turned(rec, s).reported = rec.reported
  BY DEF Turned, CanBecome, RunRecords, Finished, RunStatuses

LEMMA TrackStepInv ==
  ASSUME CommandsInv, NEW r \in Runs, Execute(r) \/ TrackStep(r) \/ ProcessEnds(r)
  PROVE  CommandsInv'
<1>1. CommandsTypeOK /\ RunInv(r) /\ \A k \in Killers : KillInv(k)
  BY DEF CommandsInv
<1>2. /\ row[r] \in RunRecords /\ memory[r] \in RunRecords /\ tracking[r] \in Tracks
      /\ row = [row EXCEPT ![r] = row[r]] /\ memory = [memory EXCEPT ![r] = memory[r]]
      /\ tracking = [tracking EXCEPT ![r] = tracking[r]]
      /\ liveRuns \subseteq Runs /\ unfollowed \subseteq Runs
      /\ process \in [Runs -> {"none", "alive", "ended"}]
  BY <1>1 DEF CommandsTypeOK
<1>3. UNCHANGED killing => (Locked(r)' <=> Locked(r))
  BY DEF Locked
<1>4. ASSUME Execute(r)
      PROVE  CommandsInv'
  <2>1. PICK s \in Early : /\ memory' = [memory EXCEPT ![r].status = s]
                           /\ row' = [row EXCEPT ![r].status = s]
    BY <1>4 DEF Execute, Early
  <2> DEFINE x == [row[r] EXCEPT !.status = s]
             y == [memory[r] EXCEPT !.status = s]
  <2>2. x \in RunRecords /\ y \in RunRecords /\ x.status = s /\ y.status = s
    BY <1>2 DEF RunRecords, RunStatuses, Early
  <2>3. /\ row' = [row EXCEPT ![r] = x] /\ memory' = [memory EXCEPT ![r] = y]
        /\ tracking' = [tracking EXCEPT ![r] = "inserted"] /\ tracking[r] = "none"
        /\ UNCHANGED <<killing, orphaned, blind, restarts, liveRuns, process, unfollowed>>
    BY <1>4, <2>1 DEF Execute, TrackGoes
  <2> HIDE DEF x, y
  <2>4. row'[r] = x /\ memory'[r] = y /\ tracking'[r] = "inserted"
    BY <1>1, <2>3 DEF CommandsTypeOK
  <2>5. RunInv(r)'
    BY <1>1, <2>2, <2>3, <2>4 DEF RunInv, Early, Finished, Unregistered
  <2>6. ~Locked(r)
    BY <1>1, <2>3 DEF Locked, KillInv, Unregistered
  <2>7. memory[r].status \notin {"streaming"} \cup Finished
    BY <1>1, <2>3 DEF RunInv, NoRecord, Finished
  <2>8. "inserted" \in Tracks
    BY DEF Tracks
  <2> QED
    BY <1>2, <2>2, <2>3, <2>5, <2>6, <2>7, <2>8, OneRunMoves DEF Unregistered
<1>5. ASSUME Spawn(r)
      PROVE  CommandsInv'
  <2> DEFINE y == Turned(Turned(memory[r], "starting"), "streaming")
  <2>1. memory[r].status \in Early /\ tracking[r] = "inserted" /\ ~Locked(r)
    BY <1>1, <1>5 DEF Spawn, RunInv
  <2>2. y \in RunRecords /\ y.status = "streaming"
    BY <1>2, <2>1 DEF Turned, CanBecome, RunRecords, RunStatuses, Early
  <2>3. /\ memory' = [memory EXCEPT ![r] = y] /\ tracking' = [tracking EXCEPT ![r] = "spawned"]
        /\ process' = [process EXCEPT ![r] = "alive"]
        /\ UNCHANGED <<row, killing, orphaned, blind, restarts, liveRuns, unfollowed>>
    BY <1>5 DEF Spawn, TrackGoes
  <2> HIDE DEF y
  <2>4. row'[r] = row[r] /\ memory'[r] = y /\ tracking'[r] = "spawned"
    BY <1>1, <2>3 DEF CommandsTypeOK
  <2>5. RunInv(r)'
    BY <1>1, <2>1, <2>2, <2>3, <2>4 DEF RunInv, Early, Finished, Unregistered
  <2>6. /\ row' = [row EXCEPT ![r] = row[r]] /\ "spawned" \in Tracks
        /\ process' \in [Runs -> {"none", "alive", "ended"}]
    BY <1>2, <2>3 DEF Tracks
  <2> QED
    BY <1>2, <2>1, <2>2, <2>3, <2>5, <2>6, OneRunMoves DEF Unregistered
<1>6. ASSUME SpawnFails(r)
      PROVE  CommandsInv'
  <2> DEFINE y == [Turned(memory[r], "exited") EXCEPT !.reported = TRUE]
  <2>1. memory[r].status \in Early /\ tracking[r] = "inserted" /\ ~Locked(r)
    BY <1>1, <1>6 DEF SpawnFails, RunInv
  <2>2. y \in RunRecords /\ y.status = memory[r].status
    BY <1>2, <2>1 DEF Turned, CanBecome, RunRecords, RunStatuses, Early
  <2>3. /\ memory' = [memory EXCEPT ![r] = y] /\ row' = [row EXCEPT ![r] = y]
        /\ tracking' = [tracking EXCEPT ![r] = "done"] /\ unfollowed' = unfollowed \cup {r}
        /\ UNCHANGED <<killing, orphaned, blind, restarts, liveRuns, process>>
    BY <1>6 DEF SpawnFails, TrackGoes
  <2> HIDE DEF y
  <2>4. row'[r] = y /\ memory'[r] = y /\ tracking'[r] = "done"
    BY <1>1, <2>3 DEF CommandsTypeOK
  <2>5. RunInv(r)'
    BY <1>1, <2>1, <2>2, <2>3, <2>4 DEF RunInv, Early, Finished, Unregistered
  <2>6. "done" \in Tracks /\ unfollowed' \subseteq Runs /\ unfollowed \subseteq unfollowed'
    BY <1>2, <2>3 DEF Tracks
  <2>7. memory[r].status \notin {"streaming"} \cup Finished
    BY <2>1 DEF Early, Finished
  <2> QED
    BY <1>2, <2>1, <2>2, <2>3, <2>5, <2>6, <2>7, OneRunMoves DEF Unregistered
<1>7. ASSUME Register(r)
      PROVE  CommandsInv'
  <2>1. /\ tracking[r] = "spawned" /\ tracking' = [tracking EXCEPT ![r] = "waiting"]
        /\ liveRuns' = liveRuns \cup {r}
        /\ UNCHANGED <<row, memory, killing, orphaned, blind, restarts, process, unfollowed>>
    BY <1>7 DEF Register, TrackGoes
  <2>2. tracking'[r] = "waiting"
    BY <1>1, <2>1 DEF CommandsTypeOK
  <2>3. RunInv(r)'
    BY <1>1, <2>1, <2>2 DEF RunInv, Early, Finished, Unregistered
  <2>4. "waiting" \in Tracks /\ liveRuns' \subseteq Runs /\ liveRuns' \ {r} = liveRuns \ {r}
    BY <1>2, <2>1 DEF Tracks
  <2> QED
    BY <1>2, <2>1, <2>3, <2>4, OneRunMoves DEF Unregistered
<1>8. ASSUME NEW s \in Finished, tracking[r] = "waiting", ~Locked(r), Ends(r, s),
             process' \in [Runs -> {"none", "alive", "ended"}]
      PROVE  CommandsInv'
  <2> DEFINE y == [Turned(memory[r], s) EXCEPT !.reported = TRUE]
  <2>1. memory[r].status \in {"streaming"} \cup Finished
    BY <1>1, <1>8 DEF RunInv
  <2>2. /\ y \in RunRecords /\ y.status \in Finished /\ y.reported
        /\ memory[r].status \in Finished => y.status = memory[r].status
    <3>1. /\ Turned(memory[r], s) \in RunRecords /\ Turned(memory[r], s).status \in Finished
          /\ memory[r].status \in Finished => Turned(memory[r], s).status = memory[r].status
      BY <1>2, <1>8, <2>1, TurnedVerdict
    <3> QED
      BY <3>1 DEF RunRecords
  <2>3. /\ memory' = [memory EXCEPT ![r] = y] /\ tracking' = [tracking EXCEPT ![r] = "ended"]
        /\ UNCHANGED <<row, killing, orphaned, blind, restarts, liveRuns, unfollowed>>
    BY <1>8 DEF Ends, TrackGoes
  <2> HIDE DEF y
  <2>4. memory'[r] = y /\ tracking'[r] = "ended"
    BY <1>1, <2>3 DEF CommandsTypeOK
  <2>5. RunInv(r)'
    BY <1>1, <1>3, <1>8, <2>1, <2>2, <2>3, <2>4 DEF RunInv, NoRecord, Finished, Unregistered
  <2>6. "ended" \in Tracks
    BY DEF Tracks
  <2> QED
    BY <1>2, <1>8, <2>2, <2>3, <2>5, <2>6, OneRunMoves DEF Unregistered
<1>9. ASSUME Wait(r) \/ TimesOut(r)
      PROVE  CommandsInv'
  <2>1. process' \in [Runs -> {"none", "alive", "ended"}]
    BY <1>2, <1>9 DEF Wait, TimesOut
  <2> QED
    BY <1>8, <1>9, <2>1 DEF Wait, TimesOut, Finished
<1>10. ASSUME WaitFails(r)
       PROVE  CommandsInv'
  <2>1. /\ tracking[r] = "waiting" /\ tracking' = [tracking EXCEPT ![r] = "done"]
        /\ unfollowed' = unfollowed \cup {r}
        /\ UNCHANGED <<row, memory, killing, orphaned, blind, restarts, liveRuns, process>>
    BY <1>10 DEF WaitFails, TrackGoes
  <2>2. tracking'[r] = "done"
    BY <1>1, <2>1 DEF CommandsTypeOK
  <2>3. RunInv(r)'
    BY <1>1, <2>1, <2>2 DEF RunInv, Early, Finished, Unregistered
  <2>4. "done" \in Tracks /\ unfollowed' \subseteq Runs
    BY <1>2, <2>1 DEF Tracks
  <2> QED
    BY <1>2, <2>1, <2>3, <2>4, OneRunMoves DEF Unregistered
<1>11. ASSUME Persist(r)
       PROVE  CommandsInv'
  <2>1. /\ tracking[r] = "ended" /\ tracking' = [tracking EXCEPT ![r] = "persisted"]
        /\ row' = [row EXCEPT ![r] = memory[r]]
        /\ UNCHANGED <<memory, killing, orphaned, blind, restarts, liveRuns, process, unfollowed>>
    BY <1>11 DEF Persist, TrackGoes
  <2>2. tracking'[r] = "persisted" /\ row'[r] = memory[r]
    BY <1>1, <2>1 DEF CommandsTypeOK
  <2>3. RunInv(r)'
    BY <1>1, <1>3, <2>1, <2>2 DEF RunInv, Unregistered
  <2>4. "persisted" \in Tracks
    BY DEF Tracks
  <2> QED
    BY <1>2, <2>1, <2>3, <2>4, OneRunMoves DEF Unregistered
<1>12. ASSUME Unregister(r)
       PROVE  CommandsInv'
  <2>1. /\ tracking[r] = "persisted" /\ tracking' = [tracking EXCEPT ![r] = "done"]
        /\ liveRuns' = liveRuns \ {r}
        /\ UNCHANGED <<row, memory, killing, orphaned, blind, restarts, process, unfollowed>>
    BY <1>12 DEF Unregister, TrackGoes
  <2>2. tracking'[r] = "done"
    BY <1>1, <2>1 DEF CommandsTypeOK
  <2>3. RunInv(r)'
    BY <1>1, <1>3, <2>1, <2>2 DEF RunInv, Unregistered, Finished
  <2>4. "done" \in Tracks /\ liveRuns' \subseteq Runs /\ liveRuns' \ {r} = liveRuns \ {r}
    BY <1>2, <2>1 DEF Tracks
  <2> QED
    BY <1>2, <2>1, <2>3, <2>4, OneRunMoves DEF Unregistered
<1>13. ASSUME ProcessEnds(r)
       PROVE  CommandsInv'
  <2>1. UNCHANGED <<row, memory, liveRuns, tracking, killing, unfollowed, orphaned, blind, restarts>>
    BY <1>13 DEF ProcessEnds
  <2>2. process' \in [Runs -> {"none", "alive", "ended"}]
    BY <1>2, <1>13 DEF ProcessEnds
  <2>3. RunInv(r)'
    BY <1>1, <1>3, <2>1 DEF RunInv
  <2> QED
    BY <1>2, <2>1, <2>2, <2>3, OneRunMoves
<1> QED
  BY <1>4, <1>5, <1>6, <1>7, <1>9, <1>10, <1>11, <1>12, <1>13 DEF TrackStep

\* The steps of a kill.  Only the object of its run, that object's row and the
\* registry can change, and the row of a run that was found changes to what
\* the object holds.
LEMMA KillMoves ==
  ASSUME CommandsInv, NEW k \in Killers, NEW r \in Runs, NEW n,
         killing[k].at # "idle" => killing[k].run = r,
         n.run = r \/ n = NoKill, n \in [at : KillPlaces, run : Runs \cup {NoRun}],
         n.at # "idle" => n.run \in Runs,
         killing' = [killing EXCEPT ![k] = n],
         NEW x \in RunRecords, NEW y \in RunRecords,
         row' = [row EXCEPT ![r] = x], memory' = [memory EXCEPT ![r] = y],
         liveRuns' \subseteq liveRuns,
         blind \subseteq blind', blind' \subseteq Runs,
         UNCHANGED <<process, tracking, unfollowed, orphaned, restarts>>,
         memory[r].status \in {"streaming"} \cup Finished => y.status \in {"streaming"} \cup Finished,
         Locked(r) => y = memory[r],
         RunInv(r)', KillInv(k)'
  PROVE  CommandsInv'
<1>1. CommandsTypeOK /\ (\A s \in Runs : RunInv(s)) /\ (\A j \in Killers : KillInv(j))
  BY DEF CommandsInv
<1>2. CommandsTypeOK'
  BY <1>1 DEF CommandsTypeOK
<1>3. /\ \A j \in Killers : j # k => killing'[j] = killing[j]
      /\ killing'[k] = n
  BY <1>1 DEF CommandsTypeOK
<1>4. ASSUME NEW s \in Runs
      PROVE  RunInv(s)'
  <2>1. CASE s # r
    <3>1. /\ row'[s] = row[s] /\ memory'[s] = memory[s] /\ tracking'[s] = tracking[s]
          /\ s \in liveRuns' => s \in liveRuns
      BY <1>1, <2>1 DEF CommandsTypeOK
    <3>2. Locked(s)' => Locked(s)
      BY <1>3, <2>1 DEF Locked, NoKill, KillAt
    <3> QED
      BY <1>1, <3>1, <3>2, RunKept
  <2> QED
    BY <2>1
<1>5. ASSUME NEW j \in Killers
      PROVE  KillInv(j)'
  <2>1. CASE j # k
    <3>1. killing'[j] = killing[j] /\ tracking'[killing[j].run] = tracking[killing[j].run]
      BY <1>3, <2>1
    <3>2. CASE killing[j].run = r
      BY <1>1, <3>1, <3>2, KillKept DEF CommandsTypeOK
    <3>3. CASE killing[j].run # r
      <4>1. memory'[killing[j].run] = memory[killing[j].run]
        BY <1>1, <3>3 DEF CommandsTypeOK
      <4> QED
        BY <1>1, <3>1, <4>1, KillKept
    <3> QED
      BY <3>2, <3>3
  <2> QED
    BY <2>1
<1> QED
  BY <1>2, <1>4, <1>5 DEF CommandsInv

LEMMA KillStepInv ==
  ASSUME CommandsInv, NEW k \in Killers, KillStep(k) \/ \E r \in Runs : KillLooks(k, r)
  PROVE  CommandsInv'
<1>1. CommandsTypeOK /\ (\A s \in Runs : RunInv(s)) /\ (\A j \in Killers : KillInv(j))
  BY DEF CommandsInv
<1>2. /\ blind \subseteq Runs /\ killing \in [Killers -> [at : KillPlaces, run : Runs \cup {NoRun}]]
      /\ \A r \in Runs :
            /\ row[r] \in RunRecords /\ memory[r] \in RunRecords
            /\ row = [row EXCEPT ![r] = row[r]] /\ memory = [memory EXCEPT ![r] = memory[r]]
  BY <1>1 DEF CommandsTypeOK
<1>3. /\ NoKill \in [at : KillPlaces, run : Runs \cup {NoRun}] /\ NoKill.at = "idle"
      /\ \A p \in KillPlaces, r \in Runs :
            /\ KillAt(p, r) \in [at : KillPlaces, run : Runs \cup {NoRun}]
            /\ KillAt(p, r).run = r /\ KillAt(p, r).at = p
  BY DEF NoKill, KillAt, KillPlaces
<1>4. ASSUME NEW r \in Runs, KillLooks(k, r)
      PROVE  CommandsInv'
  <2> DEFINE n == KillAt(IF r \in liveRuns THEN "found" ELSE "missed", r)
  <2>1. /\ killing[k].at = "idle" /\ killing' = [killing EXCEPT ![k] = n] /\ tracking[r] # "none"
        /\ blind' = IF r \in liveRuns THEN blind ELSE blind \cup {r}
        /\ UNCHANGED <<row, memory, liveRuns, process, tracking, unfollowed, orphaned, restarts>>
    BY <1>4 DEF KillLooks, KillGoes
  <2>2. /\ n \in [at : KillPlaces, run : Runs \cup {NoRun}] /\ n.run = r
        /\ n.at = IF r \in liveRuns THEN "found" ELSE "missed"
    BY <1>3 DEF KillPlaces
  <2> HIDE DEF n
  <2>3. killing'[k] = n
    BY <1>1, <2>1 DEF CommandsTypeOK
  <2>4. KillInv(k)'
    BY <1>1, <2>1, <2>2, <2>3 DEF KillInv, RunInv
  <2>5. Locked(r)' => Locked(r)
    BY <1>1, <2>1, <2>2, <2>3 DEF Locked, CommandsTypeOK
  <2>6. RunInv(r)'
    BY <1>1, <2>1, <2>5, RunKept
  <2>7. blind \subseteq blind' /\ blind' \subseteq Runs
    BY <1>2, <2>1
  <2> QED
    BY <1>2, <2>1, <2>2, <2>4, <2>6, <2>7, KillMoves
<1>5. ASSUME NEW r \in Runs, r = killing[k].run, NEW n \in {NoKill, KillAt("read", r)},
             killing[k].at \in {"found", "missed", "read", "unregistering"},
             n # NoKill => killing[k].at = "missed",
             killing' = [killing EXCEPT ![k] = n],
             NEW x \in RunRecords, row' = [row EXCEPT ![r] = x],
             x = row[r] \/ killing[k].at = "read",
             liveRuns' \subseteq liveRuns,
             UNCHANGED <<memory, blind, process, tracking, unfollowed, orphaned, restarts>>
      PROVE  CommandsInv'
  <2>1. killing'[k] = n /\ row'[r] = x
    BY <1>1, <1>5 DEF CommandsTypeOK
  <2>2. KillInv(k)'
    BY <1>1, <1>3, <1>5, <2>1 DEF KillInv, NoKill, KillAt
  <2>3. Locked(r)' => Locked(r)
    BY <1>1, <1>5, <2>1 DEF Locked, CommandsTypeOK, NoKill, KillAt
  <2>4. RunInv(r)'
    <3>1. CASE x = row[r]
      BY <1>1, <1>5, <2>1, <2>3, <3>1, RunKept
    <3>2. CASE killing[k].at = "read"
      <4>1. r \in blind
        BY <1>1, <1>5, <3>2 DEF KillInv
      <4>2. tracking[r] # "none"
        BY <1>1, <1>5 DEF KillInv
      <4> QED
        BY <1>1, <1>5, <2>1, <2>3, <4>1, <4>2 DEF RunInv
    <3> QED
      BY <1>5, <3>1, <3>2
  <2>5. n \in [at : KillPlaces, run : Runs \cup {NoRun}] /\ (n.at # "idle" => n.run = r)
          /\ (n.run = r \/ n = NoKill)
    BY <1>3, <1>5 DEF KillPlaces
  <2> QED
    BY <1>2, <1>5, <2>2, <2>4, <2>5, KillMoves
<1>6. ASSUME NEW r \in Runs, r = killing[k].run, KillLocks(k)
      PROVE  CommandsInv'
  <2>1. /\ killing[k].at = "found" /\ ~Locked(r)
        /\ UNCHANGED <<row, liveRuns, blind, process, tracking, unfollowed, orphaned, restarts>>
    BY <1>6 DEF KillLocks, KillGoes
  <2>2. tracking[r] \notin Unregistered /\ memory[r].status \in {"streaming"} \cup Finished
    BY <1>1, <1>6, <2>1 DEF KillInv
  <2>3. CASE memory[r].status \in Finished
    <3>1. killing' = [killing EXCEPT ![k] = NoKill] /\ UNCHANGED memory
      BY <1>6, <2>3 DEF KillLocks, KillGoes
    <3>2. row' = [row EXCEPT ![r] = row[r]] /\ row[r] \in RunRecords
      BY <1>2, <2>1
    <3> QED
      BY <1>6, <1>5, <2>1, <3>1, <3>2
  <2>4. CASE memory[r].status = "streaming"
    <3> DEFINE y == Turned(memory[r], "killed")
    <3>1. /\ killing' = [killing EXCEPT ![k] = KillAt("updating", r)]
          /\ memory' = [memory EXCEPT ![r] = y]
      BY <1>6, <2>4 DEF KillLocks, KillGoes, Finished
    <3>2. y \in RunRecords /\ y.status = "killed"
      BY <1>2, <2>4, TurnedVerdict DEF Finished
    <3> HIDE DEF y
    <3>3. memory'[r] = y /\ killing'[k] = KillAt("updating", r)
      BY <1>1, <3>1 DEF CommandsTypeOK
    <3>4. KillInv(k)'
      BY <1>1, <1>3, <1>6, <2>1, <2>2, <3>2, <3>3 DEF KillInv, KillPlaces, Finished
    <3>5. tracking[r] = "waiting" \/ tracking[r] = "done"
      BY <1>1, <2>2, <2>4 DEF RunInv, Unregistered, CommandsTypeOK, Tracks, Finished
    <3>6. RunInv(r)'
      BY <1>1, <2>1, <2>2, <2>4, <3>2, <3>3, <3>5 DEF RunInv, Finished, NoRecord, Unregistered
    <3>7. KillAt("updating", r) \in [at : KillPlaces, run : Runs \cup {NoRun}] /\ KillAt("updating", r).run = r
      BY <1>3 DEF KillPlaces
    <3> QED
      BY <1>2, <1>6, <2>1, <3>1, <3>2, <3>4, <3>6, <3>7, KillMoves DEF Finished
  <2> QED
    BY <2>2, <2>3, <2>4
<1>7. ASSUME NEW r \in Runs, r = killing[k].run, KillUpdates(k)
      PROVE  CommandsInv'
  <2>1. /\ killing[k].at = "updating" /\ row' = [row EXCEPT ![r] = memory[r]]
        /\ killing' = [killing EXCEPT ![k] = KillAt("unregistering", r)]
        /\ UNCHANGED <<memory, liveRuns, blind, process, tracking, unfollowed, orphaned, restarts>>
    BY <1>7 DEF KillUpdates, KillGoes
  <2>2. row'[r] = memory[r] /\ killing'[k] = KillAt("unregistering", r)
    BY <1>1, <2>1 DEF CommandsTypeOK
  <2>3. KillInv(k)'
    BY <1>1, <1>3, <1>7, <2>1, <2>2 DEF KillInv, KillPlaces
  <2>4. Locked(r) /\ tracking[r] \notin Unregistered
    BY <1>1, <1>7, <2>1 DEF Locked, KillInv
  <2>5. RunInv(r)'
    BY <1>1, <2>1, <2>2, <2>4 DEF RunInv, Unregistered
  <2>6. /\ KillAt("unregistering", r) \in [at : KillPlaces, run : Runs \cup {NoRun}]
        /\ KillAt("unregistering", r).run = r
    BY <1>3 DEF KillPlaces
  <2> QED
    BY <1>2, <1>7, <2>1, <2>3, <2>5, <2>6, KillMoves
<1>8. ASSUME NEW r \in Runs, r = killing[k].run,
             KillUnregisters(k) \/ KillReads(k) \/ KillWrites(k)
      PROVE  CommandsInv'
  <2>1. [status |-> "killed", reported |-> FALSE] \in RunRecords
    BY DEF RunRecords, RunStatuses, Finished
  <2> QED
    BY <1>2, <1>5, <1>8, <2>1 DEF KillUnregisters, KillReads, KillWrites, KillGoes
<1>9. KillStep(k) => killing[k].run \in Runs
  BY <1>1 DEF KillStep, KillLocks, KillUpdates, KillUnregisters, KillReads, KillWrites, CommandsTypeOK
<1> QED
  BY <1>4, <1>6, <1>7, <1>8, <1>9 DEF KillStep

LEMMA CommandsStepInv == CommandsInv /\ [CommandsNext]_commandVars => CommandsInv'
<1> SUFFICES ASSUME CommandsInv, [CommandsNext]_commandVars
             PROVE  CommandsInv'
  OBVIOUS
<1>1. CASE Restart
  <2>1. CommandsTypeOK /\ \A r \in Runs : RunInv(r)
    BY DEF CommandsInv
  <2>2. /\ NoRecord \in RunRecords /\ NoRecord.status = "none"
        /\ NoKill \in [at : KillPlaces, run : Runs \cup {NoRun}] /\ NoKill.at = "idle"
        /\ "none" \in Tracks /\ "done" \in Tracks
    BY DEF NoRecord, RunRecords, RunStatuses, NoKill, KillAt, KillPlaces, Tracks
  <2>3. CommandsTypeOK'
    BY <1>1, <2>1, <2>2, CommandRunsAssumption DEF Restart, CommandsTypeOK
  <2>4. ASSUME NEW r \in Runs
        PROVE  RunInv(r)'
    <3>1. memory'[r] = NoRecord /\ r \notin liveRuns' /\ row'[r] = row[r]
      BY <1>1 DEF Restart
    <3>2. ~Locked(r)'
      BY <1>1, <2>2 DEF Restart, Locked
    <3>3. CASE tracking[r] = "none"
      BY <1>1, <2>1, <3>1, <3>2, <3>3 DEF Restart, RunInv, NoRecord, Finished
    <3>4. CASE tracking[r] = "done"
      <4>1. tracking'[r] = "done"
        BY <1>1, <3>4 DEF Restart
      <4> QED
        BY <1>1, <2>1, <3>1, <3>2, <3>4, <4>1 DEF Restart, RunInv, NoRecord, Finished
    <3>5. CASE tracking[r] \notin {"none", "done"}
      <4>1. tracking'[r] = "done" /\ r \in orphaned'
        BY <1>1, <3>5 DEF Restart
      <4> QED
        BY <3>1, <3>2, <4>1 DEF RunInv, NoRecord
    <3> QED
      BY <3>3, <3>4, <3>5
  <2>5. ASSUME NEW k \in Killers
        PROVE  KillInv(k)'
    BY <1>1, <2>2 DEF Restart, KillInv
  <2> QED
    BY <2>3, <2>4, <2>5 DEF CommandsInv
<1>2. CASE UNCHANGED commandVars
  BY <1>2 DEF commandVars, CommandsInv, CommandsTypeOK, RunInv, KillInv, Locked
<1> QED
  BY <1>1, <1>2, TrackStepInv, KillStepInv DEF CommandsNext

LEMMA CommandsInvariant == CommandsSpec => []CommandsInv
  BY CommandsInitInv, CommandsStepInv, PTL DEF CommandsSpec

\* Rows, objects and the places of tasks and kills keep their types.
THEOREM CommandsTypeCorrect == CommandsSpec => []CommandsTypeOK
<1>1. CommandsInv => CommandsTypeOK
  BY DEF CommandsInv
<1> QED
  BY <1>1, CommandsInvariant, PTL

(***************************************************************************)
(* For any number of runs, kills and restarts: when the task of a run is   *)
(* through, its row has a verdict and a report, and the first verdict a    *)
(* row gets stays, unless spawn or wait failed, the desktop was restarted, *)
(* or a kill did not find the object (command_runs.rs:351-389,             *)
(* shell/mod.rs:277-357).                                                  *)
(***************************************************************************)
THEOREM VerdictsRecorded == CommandsSpec => VerdictsAreRecorded
<1>1. CommandsInv => \A r \in Runs \ (unfollowed \cup orphaned \cup blind) :
          tracking[r] = "done" => row[r].status \in Finished /\ row[r].reported
  BY DEF CommandsInv, RunInv
<1>2. CommandsInv /\ CommandsInv' /\ [CommandsNext]_commandVars =>
          [\A r \in Runs \ blind :
              row[r].status \in Finished => row'[r].status = row[r].status]_commandVars
  <2> SUFFICES ASSUME CommandsInv, CommandsInv', CommandsNext, NEW r \in Runs \ blind,
                      row[r].status \in Finished
               PROVE  row'[r].status = row[r].status
    OBVIOUS
  <2>1. CommandsTypeOK /\ RunInv(r) /\ \A k \in Killers : KillInv(k)
    BY DEF CommandsInv
  <2>2. row \in [Runs -> RunRecords] /\ NoRecord.status \notin Finished
    BY <2>1 DEF CommandsTypeOK, NoRecord, Finished
  <2>3. ASSUME NEW s \in Runs, Execute(s)
        PROVE  row'[r].status = row[r].status
    BY <2>2, <2>3 DEF Execute
  <2>4. ASSUME NEW s \in Runs, SpawnFails(s)
        PROVE  row'[r].status = row[r].status
    <3>1. s # r
      BY <2>1, <2>4 DEF SpawnFails, RunInv, Early, Finished
    <3> QED
      BY <2>2, <2>4, <3>1 DEF SpawnFails
  <2>5. ASSUME NEW s \in Runs, Persist(s)
        PROVE  row'[r].status = row[r].status
    BY <2>1, <2>2, <2>5 DEF Persist, RunInv
  <2>6. ASSUME NEW k \in Killers, KillUpdates(k)
        PROVE  row'[r].status = row[r].status
    BY <2>1, <2>2, <2>6 DEF KillUpdates, KillInv, RunInv, NoRecord
  <2>7. ASSUME NEW k \in Killers, KillWrites(k)
        PROVE  row'[r].status = row[r].status
    BY <2>1, <2>2, <2>7 DEF KillWrites, KillInv
  <2>8. \/ UNCHANGED row
        \/ \E s \in Runs : Execute(s) \/ SpawnFails(s) \/ Persist(s)
        \/ \E k \in Killers : KillUpdates(k) \/ KillWrites(k)
    BY DEF CommandsNext, TrackStep, Spawn, Register, Ends, Wait, TimesOut, WaitFails, Unregister,
           ProcessEnds, KillStep, KillLooks, KillLocks, KillUnregisters, KillReads, Restart
  <2> QED
    BY <2>3, <2>4, <2>5, <2>6, <2>7, <2>8
<1> QED
  BY <1>1, <1>2, CommandsInvariant, PTL DEF CommandsSpec, VerdictsAreRecorded

----------------------------------------------------------------------------
(* Calls of the file tools                                                 *)

Waiting == {"created", "marked", "scoped", "ask", "outside", "error"}
Reported == {"succeeded", "failed", "approval_required"}
AtWork == {"started", "holding", "emptied"}

\* What the file knows of a call whose thread has not touched it: nothing.
Untouched(c) == c \notin applied \cup owed \cup collided

\* What the place of a call says about its row, its thread and the file.
ToolCallInv(c) ==
    /\ toolCall[c].at = "idle" => callRow[c] = "none"
    /\ toolCall[c].at \in {"idle"} \cup Waiting =>
          worker[c] = NoWork /\ Untouched(c) /\ c \notin cutOff
    /\ toolCall[c].at \in {"waiting", "dropped"} \cup Waiting =>
          callRow[c] \in {"pending", "executing"}
    /\ toolCall[c].at = "waiting" => c \notin cutOff
    /\ toolCall[c].at = "dropped" => c \in cutOff
    /\ toolCall[c].at = "lost" => worker[c] = NoWork
    /\ callRow[c] \in Reported =>
          toolCall[c].at \in {"returned", "lost"} /\ (c \in cutOff \/ worker[c] = NoWork)
    /\ c \in cutOff => callRow[c] \notin {"succeeded", "approval_required"}
    /\ callRow[c] = "succeeded" /\ toolCall[c].kind \in {"write", "append", "edit"} => c \in applied
    /\ callRow[c] \in {"failed", "approval_required"} /\ c \notin cutOff => c \notin applied
    \* The thread.
    /\ worker[c].stage = "started" => Untouched(c)
    /\ worker[c].stage \in AtWork => c \notin applied /\ (Mutates(c) => trust = "trusted")
    /\ worker[c].stage \in {"holding", "emptied"} => toolCall[c].kind \in {"write", "edit", "edit_all"}
    /\ worker[c].stage \in {"holding", "emptied"} /\ toolCall[c].kind \in {"write", "edit"} =>
          c \in worker[c].text
    /\ worker[c].stage = "emptied" /\ toolCall[c].kind = "write" => worker[c].text = {c}
    /\ worker[c].stage = "holding" => toolCall[c].kind # "write"
    /\ worker[c].stage = "ended" =>
          worker[c].result # "none" /\ (worker[c].result = "outside" => Untouched(c))
    /\ worker[c].stage = "ended" =>
          IF worker[c].result = "done"
          THEN toolCall[c].kind \in {"write", "append", "edit"} => c \in applied
          ELSE c \notin applied

\* What c is about to write holds all that is owed and not at stake.
Saves(c) ==
    owed \ collided \subseteq
        worker[c].text \cup (IF c \in worker[c].text THEN {"old"} ELSE {})

\* As long as one thread changes the file alone, it carries what is owed.
\* Two that change it at once are at stake, and with them all that is owed.
FileInv ==
    /\ \A c \in Changing : c \in collided => owed \subseteq collided
    /\ \A c, d \in Changing : c # d => c \in collided
    /\ ~torn => /\ Changing = {} => owed \ collided \subseteq fileText
                /\ \A c \in Changing \ collided :
                      /\ worker[c].stage = "holding" => owed \ collided \subseteq fileText
                      /\ toolCall[c].kind = "write" \/ Saves(c)

ToolCallsInv ==
    /\ ToolCallsTypeOK
    /\ applied # {} => trust = "trusted"
    /\ \A c \in ToolCallIds : ToolCallInv(c)
    /\ FileInv

LEMMA ToolCallsInitInv == ToolCallsInit => ToolCallsInv
<1> SUFFICES ASSUME ToolCallsInit
             PROVE  ToolCallsInv
  OBVIOUS
<1> USE ToolCallsAssumption DEF ToolCallsInit, NoWork
<1>1. ToolCallsTypeOK
  BY DEF ToolCallsTypeOK, CallPlaces, ToolKinds, Mutating, Troubles, Parts
<1>2. \A c \in ToolCallIds : ToolCallInv(c)
  BY DEF ToolCallInv, Untouched, Waiting, Reported, AtWork
<1>3. FileInv
  BY DEF FileInv, Changing
<1> QED
  BY <1>1, <1>2, <1>3 DEF ToolCallsInv

LEMMA ToolCallsTypeStep ==
  ASSUME ToolCallsInv, ToolCallsNext
  PROVE  ToolCallsTypeOK'
<1>1. ToolCallsTypeOK
  BY DEF ToolCallsInv
<1> DEFINE FileCalls == [at : CallPlaces, kind : ToolKinds, trouble : Troubles]
           Rows == {"none", "pending", "executing", "succeeded", "failed", "approval_required"}
           Stages == {"none", "started", "holding", "emptied", "ended"}
           Works == [stage : Stages, text : SUBSET Parts,
                     result : {"none", "done", "miss", "outside"}]
<1>2. /\ toolCall \in [ToolCallIds -> FileCalls] /\ callRow \in [ToolCallIds -> Rows]
      /\ worker \in [ToolCallIds -> Works]
  BY <1>1 DEF ToolCallsTypeOK
<1>3. ASSUME NEW c \in ToolCallIds, NEW from, NEW to \in CallPlaces, CallGoes(c, from, to)
      PROVE  toolCall' \in [ToolCallIds -> FileCalls]
  BY <1>2, <1>3 DEF CallGoes
<1>4. ASSUME NEW c \in ToolCallIds, NEW s \in Rows, SetsRow(c, s)
      PROVE  callRow' \in [ToolCallIds -> Rows]
  BY <1>2, <1>4 DEF SetsRow
<1>5. ASSUME NEW c \in ToolCallIds, NEW x \in Works, worker' = [worker EXCEPT ![c] = x]
      PROVE  worker' \in [ToolCallIds -> Works]
  BY <1>2, <1>5
<1>6. ASSUME NEW c \in ToolCallIds, NEW g \in Stages, worker' = [worker EXCEPT ![c].stage = g]
      PROVE  worker' \in [ToolCallIds -> Works]
  BY <1>2, <1>6
<1>7. NoWork \in Works
  BY DEF NoWork
<1> HIDE DEF FileCalls, Rows, Works
<1>8. ASSUME NEW c \in ToolCallIds, CallStep(c)
      PROVE  ToolCallsTypeOK'
  <2>1. toolCall' \in [ToolCallIds -> FileCalls] /\ callRow' \in [ToolCallIds -> Rows]
    <3>1. CASE CreatesRow(c)
      <4>1. PICK kind \in ToolKinds, trouble \in Troubles :
               toolCall' = [toolCall EXCEPT ![c] = [at |-> "created", kind |-> kind, trouble |-> trouble]]
        BY <3>1 DEF CreatesRow
      <4>2. [at |-> "created", kind |-> kind, trouble |-> trouble] \in FileCalls
        BY DEF FileCalls, CallPlaces
      <4>3. "pending" \in Rows
        BY DEF Rows
      <4> QED
        BY <1>2, <1>4, <3>1, <4>1, <4>2, <4>3 DEF CreatesRow
    <3>2. ASSUME NEW from, NEW s \in {"failed", "succeeded", "executing", "approval_required"},
                 Settles(c, from, s)
          PROVE  toolCall' \in [ToolCallIds -> FileCalls] /\ callRow' \in [ToolCallIds -> Rows]
      BY <1>3, <1>4, <3>2 DEF Settles, CallPlaces, Rows
    <3>3. CASE RefusesArguments(c) \/ AsksApproval(c) \/ FailsCall(c)
      BY <3>2, <3>3 DEF RefusesArguments, AsksApproval, FailsCall
    <3>4. CASE MarksRow(c)
      BY <1>3, <1>4, <3>4 DEF MarksRow, CallPlaces, Rows
    <3>5. ASSUME NEW to \in CallPlaces, CallGoes(c, toolCall[c].at, to), UNCHANGED callRow
          PROVE  toolCall' \in [ToolCallIds -> FileCalls] /\ callRow' \in [ToolCallIds -> Rows]
      BY <1>2, <1>3, <3>5
    <3>6. CASE ChecksScope(c)
      BY <3>2, <3>5, <3>6 DEF ChecksScope, CallGoes, CallPlaces
    <3>7. CASE Admission(c)
      <4>1. PICK told \in {"error", "yes", "ask"} :
               CallGoes(c, "scoped", IF told = "yes" THEN "waiting" ELSE told)
        BY <3>7 DEF Admission, Admits
      <4>2. (IF told = "yes" THEN "waiting" ELSE told) \in CallPlaces
        BY DEF CallPlaces
      <4> QED
        BY <3>5, <3>7, <4>1, <4>2 DEF Admission, CallGoes
    <3>8. CASE Collects(c)
      <4>1. worker[c].result \in {"done", "miss", "outside"}
        BY <1>2, <3>8 DEF Works, Collects, ToolCallsInv, ToolCallInv
      <4>2. CASE worker[c].result = "done"
        BY <3>2, <3>8, <4>2 DEF Collects
      <4>3. CASE worker[c].result = "miss"
        BY <3>2, <3>8, <4>3 DEF Collects
      <4>4. CASE worker[c].result = "outside"
        BY <3>5, <3>8, <4>4 DEF Collects, CallGoes, CallPlaces
      <4> QED
        BY <4>1, <4>2, <4>3, <4>4
    <3> QED
      BY <1>8, <3>1, <3>3, <3>4, <3>6, <3>7, <3>8 DEF CallStep
  <2>2. worker' \in [ToolCallIds -> Works]
    BY <1>2, <1>5, <1>6, <1>7, <1>8
       DEF CallStep, CreatesRow, RefusesArguments, MarksRow, ChecksScope, Admission, Collects,
           AsksApproval, FailsCall
  <2>3. UNCHANGED <<trust, fileText, applied, owed, collided, cutOff, torn>>
    BY <1>8 DEF CallStep
  <2> QED
    BY <1>1, <2>1, <2>2, <2>3 DEF ToolCallsTypeOK, FileCalls, Rows, Works
<1>9. ASSUME NEW c \in ToolCallIds, WorkerStep(c)
      PROVE  ToolCallsTypeOK'
  <2>1. c \in Parts /\ fileText \subseteq Parts /\ owed \subseteq Parts /\ collided \subseteq Parts
          /\ worker[c].text \subseteq Parts /\ Changing \subseteq Parts /\ applied \subseteq ToolCallIds
    BY <1>1 DEF ToolCallsTypeOK, Parts, Changing
  <2>2. worker' \in [ToolCallIds -> Works]
    <3>1. ASSUME NEW text \in SUBSET Parts, NEW g \in Stages,
                 NEW result \in {"none", "done", "miss", "outside"}
          PROVE  [stage |-> g, text |-> text, result |-> result] \in Works
      BY DEF Works
    <3>2. {c} \subseteq Parts /\ (fileText \ {"old"}) \cup {c} \subseteq Parts /\ {} \subseteq Parts
      BY <2>1
    <3> QED
      BY <1>5, <1>6, <1>9, <2>1, <3>1, <3>2
         DEF WorkerStep, EndsAtOnce, Appends, OpensToWrite, ReadsToEdit, OpensToEdit, FillsFile,
             WorkEnds, Holds
  <2>3. collided' \subseteq Parts
    BY <1>9, <2>1
       DEF WorkerStep, EndsAtOnce, Appends, OpensToWrite, ReadsToEdit, OpensToEdit, FillsFile,
           ChangesBeside
  <2>4. fileText' \subseteq Parts /\ owed' \subseteq Parts /\ applied' \subseteq ToolCallIds
    BY <1>9, <2>1
       DEF WorkerStep, EndsAtOnce, Appends, OpensToWrite, ReadsToEdit, OpensToEdit, FillsFile,
           Appended
  <2>5. UNCHANGED <<trust, callRow, toolCall, cutOff, torn>>
    BY <1>9 DEF WorkerStep
  <2> QED
    BY <1>1, <2>2, <2>3, <2>4, <2>5 DEF ToolCallsTypeOK, Works
<1>10. ASSUME NEW c \in ToolCallIds, TurnEnds(c)
       PROVE  ToolCallsTypeOK'
  <2>1. toolCall' \in [ToolCallIds -> FileCalls]
    <3>1. {"dropped", "returned"} \subseteq CallPlaces
      BY DEF CallPlaces
    <3>2. TurnSettlesRow(c) => CallGoes(c, "dropped", "returned")
      BY DEF TurnSettlesRow
    <3>3. TurnDropsCall(c) => CallGoes(c, toolCall[c].at, "dropped")
      BY DEF TurnDropsCall, CallGoes
    <3> QED
      BY <1>3, <1>10, <3>1, <3>2, <3>3 DEF TurnEnds
  <2>2. callRow' \in [ToolCallIds -> Rows]
    BY <1>2, <1>10 DEF TurnEnds, TurnDropsCall, TurnSettlesRow, Rows
  <2>3. cutOff' \subseteq ToolCallIds /\ UNCHANGED <<trust, worker, fileText, applied, owed, collided, torn>>
    BY <1>1, <1>10 DEF TurnEnds, TurnDropsCall, TurnSettlesRow, ToolCallsTypeOK
  <2> QED
    BY <1>1, <2>1, <2>2, <2>3 DEF ToolCallsTypeOK, FileCalls, Rows
<1>11. CASE ToolsDie
  <2>1. toolCall' \in [ToolCallIds -> FileCalls]
    <3>1. ASSUME NEW c \in ToolCallIds
          PROVE  [toolCall[c] EXCEPT !.at = "lost"] \in FileCalls /\ toolCall[c] \in FileCalls
      BY <1>2 DEF FileCalls, CallPlaces
    <3> QED
      BY <1>11, <3>1 DEF ToolsDie
  <2>2. worker' \in [ToolCallIds -> Works] /\ torn' \in BOOLEAN
    BY <1>1, <1>7, <1>11 DEF ToolsDie, ToolCallsTypeOK
  <2> QED
    BY <1>1, <1>11, <2>1, <2>2 DEF ToolsDie, ToolCallsTypeOK, FileCalls, Works
<1> QED
  BY <1>8, <1>9, <1>10, <1>11 DEF ToolCallsNext

\* Only what is said of a call, its row, its thread and its part in the file
\* bears on its invariant.
LEMMA CallKept ==
  ASSUME NEW d \in ToolCallIds, ToolCallInv(d),
         toolCall'[d] = toolCall[d], callRow'[d] = callRow[d], worker'[d] = worker[d],
         trust' = trust, d \in applied' <=> d \in applied, d \in cutOff' <=> d \in cutOff,
         Untouched(d) /\ d \notin Changing => Untouched(d)'
  PROVE  ToolCallInv(d)'
<1>1. Mutates(d)' = Mutates(d)
  BY DEF Mutates
<1>2. worker[d].stage \in {"none", "started", "ended"} => d \notin Changing
  BY DEF Changing
<1>3. worker[d] = NoWork => worker[d].stage = "none"
  BY DEF NoWork
<1> QED
  BY <1>1, <1>2, <1>3 DEF ToolCallInv

\* The file does not change, nor those who are changing it.
LEMMA FileKept ==
  ASSUME FileInv, UNCHANGED <<fileText, owed, collided, torn>>, Changing' = Changing,
         \A d \in Changing : worker'[d] = worker[d] /\ toolCall'[d].kind = toolCall[d].kind
  PROVE  FileInv'
<1>1. \A d \in Changing : Saves(d)' = Saves(d)
  BY DEF Saves
<1> QED
  BY <1>1 DEF FileInv

\* A call moves while its thread does not touch the file.
LEMMA OneCallMoves ==
  ASSUME ToolCallsInv, NEW c \in ToolCallIds,
         UNCHANGED <<trust, fileText, applied, owed, collided, torn>>,
         \A d \in ToolCallIds \ {c} :
            /\ toolCall'[d] = toolCall[d] /\ callRow'[d] = callRow[d] /\ worker'[d] = worker[d]
            /\ d \in cutOff' <=> d \in cutOff,
         \/ worker'[c] = worker[c] /\ toolCall'[c].kind = toolCall[c].kind
         \/ worker[c].stage \in {"none", "ended"} /\ worker'[c].stage \in {"none", "started"},
         ToolCallInv(c)'
  PROVE  (\A d \in ToolCallIds : ToolCallInv(d)') /\ FileInv'
<1>1. ASSUME NEW d \in ToolCallIds \ {c}
      PROVE  ToolCallInv(d)'
  BY CallKept DEF ToolCallsInv, Untouched
<1>2. \A d \in ToolCallIds : d \in Changing' <=> d \in Changing
  BY DEF Changing
<1>3. Changing' = Changing
  BY <1>2 DEF Changing
<1>4. \A d \in Changing : worker'[d] = worker[d] /\ toolCall'[d].kind = toolCall[d].kind
  BY DEF Changing
<1>5. FileInv'
  BY <1>3, <1>4, FileKept DEF ToolCallsInv
<1> QED
  BY <1>1, <1>5

LEMMA CallStepKeeps ==
  ASSUME ToolCallsInv, NEW c \in ToolCallIds, CallStep(c)
  PROVE  (\A d \in ToolCallIds : ToolCallInv(d)') /\ FileInv'
<1>1. /\ toolCall \in [ToolCallIds -> [at : CallPlaces, kind : ToolKinds, trouble : Troubles]]
      /\ DOMAIN callRow = ToolCallIds /\ DOMAIN worker = ToolCallIds
      /\ worker[c] \in [stage : {"none", "started", "holding", "emptied", "ended"},
                        text : SUBSET Parts, result : {"none", "done", "miss", "outside"}]
      /\ ToolCallInv(c)
  BY DEF ToolCallsInv, ToolCallsTypeOK
<1>2. UNCHANGED <<trust, fileText, applied, owed, collided, cutOff, torn>>
  BY DEF CallStep
<1>3. Untouched(c)' = Untouched(c)
  BY <1>2 DEF Untouched
<1> DEFINE Others == \A d \in ToolCallIds \ {c} : toolCall'[d] = toolCall[d] /\ callRow'[d] = callRow[d]
                                          /\ worker'[d] = worker[d]
           Kind == toolCall'[c].kind = toolCall[c].kind
           Goal == (\A d \in ToolCallIds : ToolCallInv(d)') /\ FileInv'
\* A call goes on without its thread, or never had one.
<1>4. ASSUME NEW from, NEW to, CallGoes(c, from, to)
      PROVE  /\ toolCall[c].at = from /\ toolCall'[c].at = to /\ Kind
             /\ \A d \in ToolCallIds \ {c} : toolCall'[d] = toolCall[d]
  BY <1>1, <1>4 DEF CallGoes
<1>5. ASSUME NEW s, SetsRow(c, s)
      PROVE  callRow'[c] = s /\ \A d \in ToolCallIds \ {c} : callRow'[d] = callRow[d]
  BY <1>1, <1>5 DEF SetsRow
<1>6. ASSUME NEW from, NEW to, NEW s, CallGoes(c, from, to), callRow'[c] = s,
             \A d \in ToolCallIds \ {c} : callRow'[d] = callRow[d],
             UNCHANGED worker, from \in Waiting,
             \/ to = "marked" /\ s = "executing"
             \/ to \in {"scoped", "error", "ask"} /\ s = callRow[c]
             \/ to = "returned" /\ s \in {"failed", "approval_required"}
      PROVE  Goal
  <2>1. ToolCallInv(c)'
    BY <1>1, <1>2, <1>3, <1>4, <1>6 DEF ToolCallInv, Waiting, Reported, AtWork, NoWork, Mutates, Untouched
  <2> QED
    BY <1>2, <1>4, <1>6, <2>1, OneCallMoves
<1>7. CASE CreatesRow(c)
  <2>1. PICK kind \in ToolKinds, trouble \in Troubles :
           toolCall' = [toolCall EXCEPT ![c] = [at |-> "created", kind |-> kind, trouble |-> trouble]]
    BY <1>7 DEF CreatesRow
  <2>2. toolCall[c].at = "idle" /\ toolCall'[c].at = "created" /\ UNCHANGED worker
          /\ \A d \in ToolCallIds \ {c} : toolCall'[d] = toolCall[d]
    BY <1>1, <1>7, <2>1 DEF CreatesRow
  <2>3. callRow'[c] = "pending" /\ \A d \in ToolCallIds \ {c} : callRow'[d] = callRow[d]
    BY <1>5, <1>7 DEF CreatesRow
  <2>4. worker[c] = NoWork /\ Untouched(c) /\ c \notin cutOff
    BY <1>1, <2>2 DEF ToolCallInv
  <2>5. ToolCallInv(c)'
    BY <1>2, <1>3, <2>2, <2>3, <2>4 DEF ToolCallInv, Waiting, Reported, AtWork, NoWork, Untouched
  <2> QED
    BY <1>2, <2>2, <2>3, <2>4, <2>5, OneCallMoves DEF NoWork
<1>8. CASE RefusesArguments(c) \/ MarksRow(c) \/ AsksApproval(c) \/ FailsCall(c)
  BY <1>5, <1>6, <1>8
     DEF RefusesArguments, MarksRow, AsksApproval, FailsCall, Settles, Waiting
<1>9. CASE ChecksScope(c)
  BY <1>5, <1>6, <1>9 DEF ChecksScope, Settles, Waiting
<1>10. CASE Admission(c)
  <2> DEFINE admitted == IF toolCall[c].trouble = "incomplete" THEN "error" ELSE Admits(c)
  <2>1. CASE admitted = "yes"
    <3>0. CallGoes(c, "scoped", "waiting") /\ worker' = [worker EXCEPT ![c].stage = "started"]
            /\ UNCHANGED callRow
      BY <1>10, <2>1 DEF Admission
    <3>1. worker[c] = NoWork /\ Untouched(c) /\ c \notin cutOff
      BY <1>1, <1>4, <3>0 DEF ToolCallInv, Waiting
    <3>2. worker'[c].stage = "started" /\ \A d \in ToolCallIds \ {c} : worker'[d] = worker[d]
      BY <1>1, <3>0
    <3>3. Mutates(c)' = Mutates(c) /\ (Mutates(c) => trust = "trusted")
      BY <1>4, <2>1, <3>0 DEF Mutates, Admits
    <3>4. ToolCallInv(c)'
      BY <1>1, <1>2, <1>3, <1>4, <3>0, <3>1, <3>2, <3>3
         DEF ToolCallInv, Waiting, Reported, AtWork, Untouched
    <3> QED
      BY <1>2, <1>4, <3>0, <3>1, <3>2, <3>4, OneCallMoves DEF NoWork
  <2>2. CASE admitted # "yes"
    <3>1. admitted \in {"error", "ask"} /\ CallGoes(c, "scoped", admitted) /\ UNCHANGED <<callRow, worker>>
      BY <1>10, <2>2 DEF Admission, Admits
    <3> HIDE DEF admitted
    <3> QED
      BY <1>6, <3>1 DEF Waiting
  <2> QED
    BY <2>1, <2>2
<1>11. CASE Collects(c)
  <2>1. worker'[c] = NoWork /\ worker[c].stage = "ended" /\ worker[c].result \in {"done", "miss", "outside"}
          /\ \A d \in ToolCallIds \ {c} : worker'[d] = worker[d]
    BY <1>1, <1>11 DEF Collects, ToolCallInv
  <2>2. ASSUME NEW to \in {"returned", "outside"}, NEW s, CallGoes(c, "waiting", to),
               callRow'[c] = s, \A d \in ToolCallIds \ {c} : callRow'[d] = callRow[d],
               \/ worker[c].result = "done" /\ to = "returned" /\ s = "succeeded"
               \/ worker[c].result = "miss" /\ to = "returned" /\ s = "failed"
               \/ worker[c].result = "outside" /\ to = "outside" /\ s = callRow[c]
        PROVE  Goal
    <3>1. ToolCallInv(c)'
      BY <1>1, <1>2, <1>3, <1>4, <2>1, <2>2
         DEF ToolCallInv, Waiting, Reported, AtWork, NoWork, Mutates, Untouched
    <3> QED
      BY <1>2, <1>4, <2>1, <2>2, <3>1, OneCallMoves DEF NoWork
  <2>3. CASE worker[c].result = "outside"
    <3>1. CallGoes(c, "waiting", "outside") /\ UNCHANGED callRow
      BY <1>11, <2>3 DEF Collects
    <3> QED
      BY <2>2, <2>3, <3>1
  <2>4. CASE worker[c].result = "done"
    <3>1. CallGoes(c, "waiting", "returned") /\ SetsRow(c, "succeeded")
      BY <1>11, <2>4 DEF Collects, Settles
    <3> QED
      BY <1>5, <2>2, <2>4, <3>1
  <2>5. CASE worker[c].result = "miss"
    <3>1. CallGoes(c, "waiting", "returned") /\ SetsRow(c, "failed")
      BY <1>11, <2>5 DEF Collects, Settles
    <3> QED
      BY <1>5, <2>2, <2>5, <3>1
  <2> QED
    BY <2>1, <2>3, <2>4, <2>5
<1> QED
  BY <1>7, <1>8, <1>9, <1>10, <1>11 DEF CallStep

\* A thread changes the file while another does: all that is owed is at stake.
LEMMA AllAtStake ==
  ASSUME NEW c \in ToolCallIds, Changing \ {c} # {}, ChangesBeside(c),
         Changing' \subseteq Changing \cup {c}, owed' \subseteq owed \cup {c}
  PROVE  FileInv'
<1>1. owed' \subseteq collided' /\ Changing' \subseteq collided'
  BY DEF ChangesBeside
<1> QED
  BY <1>1 DEF FileInv

LEMMA WorkerStepKeeps ==
  ASSUME ToolCallsInv, NEW c \in ToolCallIds, WorkerStep(c)
  PROVE  /\ \A d \in ToolCallIds : ToolCallInv(d)'
         /\ applied' # {} => trust' = "trusted"
         /\ FileInv'
<1>1. /\ DOMAIN worker = ToolCallIds /\ ToolCallInv(c) /\ FileInv /\ c # "old"
      /\ worker[c] \in [stage : {"none", "started", "holding", "emptied", "ended"},
                        text : SUBSET Parts, result : {"none", "done", "miss", "outside"}]
      /\ toolCall[c].kind \in ToolKinds
  BY ToolCallsAssumption DEF ToolCallsInv, ToolCallsTypeOK
<1>2. UNCHANGED <<trust, callRow, toolCall, cutOff, torn>>
  BY DEF WorkerStep
<1>3. worker[c].stage \in AtWork
  BY DEF WorkerStep, EndsAtOnce, Appends, OpensToWrite, ReadsToEdit, OpensToEdit, FillsFile,
         MayOpen, AtWork
<1>4. \A d \in ToolCallIds \ {c} : worker'[d] = worker[d]
  BY <1>1 DEF WorkerStep, EndsAtOnce, Appends, OpensToWrite, ReadsToEdit, OpensToEdit, FillsFile,
              WorkEnds, Holds
<1>5. /\ applied \subseteq applied' /\ applied' \subseteq applied \cup {c}
      /\ owed' \subseteq owed \cup {c}
      /\ collided' \subseteq collided \cup owed \cup Changing \cup {c}
  BY DEF WorkerStep, EndsAtOnce, Appends, OpensToWrite, ReadsToEdit, OpensToEdit, FillsFile,
         ChangesBeside
<1>6. ASSUME NEW d \in ToolCallIds \ {c}
      PROVE  ToolCallInv(d)'
  <2>1. Untouched(d) /\ d \notin Changing => Untouched(d)'
    BY <1>5 DEF Untouched
  <2>2. ToolCallInv(d) /\ (d \in applied' <=> d \in applied)
    BY <1>5 DEF ToolCallsInv
  <2> QED
    BY <1>2, <1>4, <2>1, <2>2, CallKept
\* Whoever has a thread at work waits for it or has been dropped.
<1>7. /\ toolCall[c].at \notin {"idle", "lost"} \cup Waiting
      /\ callRow[c] \in Reported => c \in cutOff /\ callRow[c] = "failed"
      /\ c \notin applied /\ (Mutates(c) => trust = "trusted")
  BY <1>1, <1>3 DEF ToolCallInv, NoWork, AtWork, Reported
<1>8. ASSUME applied' # applied
      PROVE  Mutates(c)
  BY <1>1, <1>8 DEF WorkerStep, EndsAtOnce, Appends, OpensToWrite, ReadsToEdit, OpensToEdit, FillsFile,
         MayOpen, Mutates, Mutating, ToolCallInv
<1>9. applied' # {} => trust' = "trusted"
  BY <1>2, <1>7, <1>8 DEF ToolCallsInv
<1>10. Mutates(c)' = Mutates(c)
  BY <1>2 DEF Mutates
\* What the new state of the thread must say for the call.
<1>11. ASSUME \/ /\ worker'[c].stage = "ended" /\ worker'[c].result \in {"done", "miss", "outside"}
                 /\ worker'[c].result = "outside" => Untouched(c)'
                 /\ IF worker'[c].result = "done"
                    THEN toolCall[c].kind \in {"write", "append", "edit"} => c \in applied'
                    ELSE c \notin applied'
              \/ /\ worker'[c].stage \in {"holding", "emptied"} /\ c \notin applied'
                 /\ toolCall[c].kind \in {"write", "edit", "edit_all"}
                 /\ toolCall[c].kind \in {"write", "edit"} => c \in worker'[c].text
                 /\ worker'[c].stage = "emptied" /\ toolCall[c].kind = "write" => worker'[c].text = {c}
                 /\ worker'[c].stage = "holding" => toolCall[c].kind # "write"
       PROVE  ToolCallInv(c)'
  BY <1>1, <1>2, <1>7, <1>10, <1>11 DEF ToolCallInv, Reported, AtWork, NoWork, Waiting
<1>12. ASSUME c \notin Changing, c \notin Changing', UNCHANGED <<fileText, owed, collided>>
       PROVE  FileInv'
  <2>1. \A d \in ToolCallIds : d \in Changing' <=> d \in Changing
    BY <1>4, <1>12 DEF Changing
  <2>2. Changing' = Changing
    BY <2>1 DEF Changing
  <2> QED
    BY <1>1, <1>2, <1>4, <1>12, <2>2, FileKept DEF Changing
<1>13. Changing' \subseteq Changing \cup {c}
  BY <1>4 DEF Changing
<1>14. ASSUME Changing \ {c} # {}, ChangesBeside(c)
       PROVE  FileInv'
  BY <1>5, <1>13, <1>14, AllAtStake
<1>15. ASSUME Changing \ {c} = {}, ChangesBeside(c)
       PROVE  collided' = collided /\ (c \in Changing' => Changing' = {c})
                /\ (c \notin Changing' => Changing' = {})
  BY <1>13, <1>15 DEF ChangesBeside
<1>16. ASSUME worker[c].stage = "started"
       PROVE  c \notin Changing /\ Untouched(c)
  BY <1>1, <1>16 DEF Changing, ToolCallInv
<1>17. CASE EndsAtOnce(c)
  <2>1. worker'[c].stage = "ended" /\ worker'[c].result \in {"done", "outside"}
          /\ (worker'[c].result = "done" => ~Mutates(c)) /\ worker[c].stage = "started"
    BY <1>1, <1>17 DEF EndsAtOnce, WorkEnds
  <2>2. UNCHANGED <<fileText, applied, owed, collided>>
    BY <1>17 DEF EndsAtOnce
  <2>3. Untouched(c)' /\ c \notin Changing /\ c \notin Changing'
    BY <1>16, <2>1, <2>2 DEF Untouched, Changing
  <2> QED
    BY <1>6, <1>7, <1>9, <1>11, <1>12, <2>1, <2>2, <2>3 DEF Mutates, Mutating
<1>18. CASE Appends(c)
  <2>1. worker'[c].stage = "ended" /\ worker'[c].result = "done" /\ c \in applied'
          /\ ChangesBeside(c) /\ worker[c].stage = "started" /\ c \notin Changing'
    BY <1>1, <1>18 DEF Appends, WorkEnds, MayOpen, Changing
  <2>2. CASE Changing \ {c} = {}
    <3>1. Changing = {} /\ Changing' = {} /\ collided' = collided
      BY <1>15, <1>16, <2>1, <2>2
    <3> QED
      BY <1>1, <1>2, <1>6, <1>9, <1>11, <1>18, <2>1, <3>1 DEF FileInv, Appends, Appended
  <2> QED
    BY <1>6, <1>9, <1>11, <1>14, <2>1, <2>2
<1>19. CASE OpensToWrite(c)
  <2>1. worker'[c].stage = "emptied" /\ worker'[c].text = {c} /\ toolCall[c].kind = "write"
          /\ ChangesBeside(c) /\ worker[c].stage = "started" /\ c \in Changing'
    BY <1>1, <1>19 DEF OpensToWrite, Holds, MayOpen, Changing
  <2>2. ToolCallInv(c)'
    BY <1>7, <1>11, <1>19, <2>1 DEF OpensToWrite
  <2>3. CASE Changing \ {c} = {}
    <3>1. Changing' = {c} /\ collided' = collided /\ c \notin collided
      BY <1>15, <1>16, <2>1, <2>3 DEF Untouched
    <3>2. FileInv'
      BY <1>2, <2>1, <3>1 DEF FileInv
    <3> QED
      BY <1>6, <1>9, <2>2, <3>2
  <2> QED
    BY <1>6, <1>9, <1>14, <2>1, <2>2, <2>3
<1>20. CASE ReadsToEdit(c)
  <2>1. worker[c].stage = "started" /\ toolCall[c].kind \in {"edit", "edit_all"}
          /\ UNCHANGED <<fileText, applied, owed>>
    BY <1>20 DEF ReadsToEdit, MayOpen
  <2>2. CASE worker'[c].stage = "ended"
    <3>1. worker'[c].result = "miss" /\ UNCHANGED collided
      BY <1>1, <1>20, <2>2 DEF ReadsToEdit, WorkEnds, Holds
    <3>2. c \notin Changing'
      BY <2>2 DEF Changing
    <3>3. ToolCallInv(c)'
      BY <1>7, <1>11, <2>1, <2>2, <3>1
    <3> QED
      BY <1>6, <1>9, <1>12, <1>16, <2>1, <3>1, <3>2, <3>3
  <2>3. CASE worker'[c].stage # "ended"
    <3>1. /\ worker'[c].stage = "holding" /\ ChangesBeside(c) /\ c \in Changing'
          /\ \/ worker'[c].text = (fileText \ {"old"}) \cup {c}
             \/ worker'[c].text = fileText /\ toolCall[c].kind = "edit_all"
      BY <1>1, <1>20, <2>1, <2>3 DEF ReadsToEdit, WorkEnds, Holds, Changing
    <3>2. ToolCallInv(c)'
      BY <1>7, <1>11, <2>1, <3>1
    <3>3. CASE Changing \ {c} = {}
      <4>1. Changing' = {c} /\ Changing = {} /\ collided' = collided /\ c \notin collided
        BY <1>15, <1>16, <2>1, <3>1, <3>3 DEF Untouched
      <4>2. ~torn => owed' \ collided' \subseteq fileText' /\ Saves(c)'
        BY <1>1, <2>1, <3>1, <4>1 DEF FileInv, Saves
      <4>3. FileInv'
        BY <1>2, <4>1, <4>2 DEF FileInv
      <4> QED
        BY <1>6, <1>9, <3>2, <4>3
    <3> QED
      BY <1>6, <1>9, <1>14, <3>1, <3>2, <3>3
  <2> QED
    BY <2>2, <2>3
<1>21. CASE OpensToEdit(c)
  <2>1. worker[c].stage = "holding" /\ worker'[c].stage = "emptied" /\ worker'[c].text = worker[c].text
          /\ ChangesBeside(c) /\ UNCHANGED <<applied, owed>> /\ c \in Changing /\ c \in Changing'
    BY <1>1, <1>21 DEF OpensToEdit, Changing
  <2>2. ToolCallInv(c)'
    BY <1>1, <1>7, <1>11, <2>1 DEF ToolCallInv
  <2>3. CASE Changing \ {c} = {}
    <3>1. Changing' = {c} /\ collided' = collided
      BY <1>15, <2>1, <2>3
    <3>2. Saves(c)' = Saves(c) /\ toolCall[c].kind # "write"
      BY <1>1, <2>1, <3>1 DEF Saves, ToolCallInv
    <3>3. FileInv'
      BY <1>1, <1>2, <2>1, <3>1, <3>2 DEF FileInv
    <3> QED
      BY <1>6, <1>9, <2>2, <3>3
  <2> QED
    BY <1>6, <1>9, <1>14, <2>1, <2>2, <2>3
<1>22. CASE FillsFile(c)
  <2>1. worker[c].stage = "emptied" /\ worker'[c].stage = "ended" /\ worker'[c].result = "done"
          /\ ChangesBeside(c) /\ c \in Changing /\ c \notin Changing'
          /\ worker[c].text \subseteq fileText'
    BY <1>1, <1>22 DEF FillsFile, WorkEnds, Changing
  <2>2. toolCall[c].kind \in {"write", "edit", "edit_all"}
          /\ (toolCall[c].kind \in {"write", "edit"} => c \in worker[c].text)
          /\ (toolCall[c].kind = "write" => worker[c].text = {c})
    BY <1>1, <2>1 DEF ToolCallInv
  <2>3. ToolCallInv(c)'
    BY <1>11, <1>22, <2>1, <2>2 DEF FillsFile
  <2>4. CASE Changing \ {c} = {}
    <3>1. Changing' = {} /\ collided' = collided
      BY <1>15, <2>1, <2>4
    <3>2. ASSUME ~torn
          PROVE  owed' \ collided \subseteq fileText'
      <4>1. CASE toolCall[c].kind = "write"
        BY <1>22, <2>1, <2>2, <4>1 DEF FillsFile
      <4>2. CASE c \in collided
        BY <1>1, <1>22, <2>1, <2>2, <4>2 DEF FillsFile, FileInv
      <4>3. CASE c \notin collided /\ toolCall[c].kind # "write"
        <5>1. owed \ collided \subseteq worker[c].text \cup (IF c \in worker[c].text THEN {"old"} ELSE {})
          BY <1>1, <2>1, <3>2, <4>3 DEF FileInv, Saves
        <5> QED
          BY <1>22, <2>1, <4>3, <5>1 DEF FillsFile
      <4> QED
        BY <4>1, <4>2, <4>3
    <3>3. FileInv'
      BY <1>2, <3>1, <3>2 DEF FileInv
    <3> QED
      BY <1>6, <1>9, <2>3, <3>3
  <2> QED
    BY <1>6, <1>9, <1>14, <2>1, <2>3, <2>4
<1> QED
  BY <1>17, <1>18, <1>19, <1>20, <1>21, <1>22 DEF WorkerStep

LEMMA TurnEndKeeps ==
  ASSUME ToolCallsInv, NEW c \in ToolCallIds, TurnEnds(c)
  PROVE  (\A d \in ToolCallIds : ToolCallInv(d)') /\ FileInv'
<1>1. /\ toolCall \in [ToolCallIds -> [at : CallPlaces, kind : ToolKinds, trouble : Troubles]]
      /\ DOMAIN callRow = ToolCallIds /\ ToolCallInv(c)
  BY DEF ToolCallsInv, ToolCallsTypeOK
<1>2. UNCHANGED <<trust, worker, fileText, applied, owed, collided, torn>>
  BY DEF TurnEnds
<1>3. Untouched(c)' = Untouched(c)
  BY <1>2 DEF Untouched
<1>4. CASE TurnDropsCall(c)
  <2>1. /\ toolCall[c].at \in {"waiting", "dropped"} \cup Waiting
        /\ toolCall'[c].at = "dropped" /\ toolCall'[c].kind = toolCall[c].kind
        /\ c \in cutOff' /\ UNCHANGED callRow
        /\ \A d \in ToolCallIds \ {c} : toolCall'[d] = toolCall[d] /\ (d \in cutOff' <=> d \in cutOff)
    BY <1>1, <1>4 DEF TurnDropsCall, CallPlaces, Waiting
  <2>2. ToolCallInv(c)'
    BY <1>1, <1>2, <1>3, <2>1 DEF ToolCallInv, Waiting, Reported, AtWork, Mutates
  <2> QED
    BY <1>2, <2>1, <2>2, OneCallMoves
<1>5. CASE TurnSettlesRow(c)
  <2>1. /\ toolCall[c].at = "dropped" /\ toolCall'[c].at = "returned"
        /\ toolCall'[c].kind = toolCall[c].kind /\ callRow'[c] = "failed" /\ UNCHANGED cutOff
        /\ \A d \in ToolCallIds \ {c} : toolCall'[d] = toolCall[d] /\ callRow'[d] = callRow[d]
    BY <1>1, <1>5 DEF TurnSettlesRow, CallGoes, ToolCallInv
  <2>2. ToolCallInv(c)'
    BY <1>1, <1>2, <1>3, <2>1 DEF ToolCallInv, Waiting, Reported, AtWork, Mutates
  <2> QED
    BY <1>2, <2>1, <2>2, OneCallMoves
<1> QED
  BY <1>4, <1>5 DEF TurnEnds

LEMMA DeathKeepsCalls ==
  ASSUME ToolCallsInv, ToolsDie
  PROVE  (\A d \in ToolCallIds : ToolCallInv(d)') /\ FileInv'
<1>1. UNCHANGED <<trust, callRow, fileText, applied, owed, collided, cutOff>>
  BY DEF ToolsDie
<1>2. ASSUME NEW d \in ToolCallIds
      PROVE  ToolCallInv(d)'
  <2>1. ToolCallInv(d) /\ toolCall[d] \in [at : CallPlaces, kind : ToolKinds, trouble : Troubles]
    BY DEF ToolCallsInv, ToolCallsTypeOK
  <2>2. worker'[d] = NoWork /\ toolCall'[d].kind = toolCall[d].kind
          /\ toolCall'[d].at = (IF toolCall[d].at = "idle" THEN "idle" ELSE "lost")
    BY <2>1 DEF ToolsDie
  <2>3. Untouched(d)' = Untouched(d) /\ Mutates(d)' = Mutates(d)
    BY <1>1, <2>2 DEF Untouched, Mutates
  <2> QED
    BY <1>1, <2>1, <2>2, <2>3 DEF ToolCallInv, Waiting, Reported, AtWork, NoWork
<1>3. Changing' = {}
  BY DEF ToolsDie, Changing, NoWork
<1>4. ASSUME ~torn'
      PROVE  owed \ collided \subseteq fileText
  <2>1. ~torn /\ \A c \in Changing : worker[c].stage = "holding"
    BY <1>4 DEF ToolsDie, Changing
  <2> QED
    BY <2>1 DEF ToolCallsInv, FileInv
<1> QED
  BY <1>1, <1>2, <1>3, <1>4 DEF FileInv

LEMMA ToolCallsInvariant == ToolCallsSpec => []ToolCallsInv
<1>1. ToolCallsInv /\ [ToolCallsNext]_toolCallVars => ToolCallsInv'
  <2> SUFFICES ASSUME ToolCallsInv, [ToolCallsNext]_toolCallVars
               PROVE  ToolCallsInv'
    OBVIOUS
  <2>1. ASSUME NEW c \in ToolCallIds, CallStep(c) \/ TurnEnds(c)
        PROVE  ToolCallsInv'
    <3>1. ToolCallsNext /\ UNCHANGED <<trust, applied>>
      BY <2>1 DEF ToolCallsNext, CallStep, TurnEnds
    <3> QED
      BY <2>1, <3>1, ToolCallsTypeStep, CallStepKeeps, TurnEndKeeps DEF ToolCallsInv
  <2>2. ASSUME NEW c \in ToolCallIds, WorkerStep(c)
        PROVE  ToolCallsInv'
    <3>1. ToolCallsNext
      BY <2>2 DEF ToolCallsNext
    <3> QED
      BY <2>2, <3>1, ToolCallsTypeStep, WorkerStepKeeps DEF ToolCallsInv
  <2>3. CASE ToolsDie
    <3>1. ToolCallsNext /\ UNCHANGED <<trust, applied>>
      BY <2>3 DEF ToolCallsNext, ToolsDie
    <3> QED
      BY <2>3, <3>1, ToolCallsTypeStep, DeathKeepsCalls DEF ToolCallsInv
  <2>4. CASE UNCHANGED toolCallVars
    BY <2>4 DEF toolCallVars, ToolCallsInv, ToolCallsTypeOK, ToolCallInv, FileInv, Untouched, Mutates,
                Changing, Saves
  <2> QED
    BY <2>1, <2>2, <2>3, <2>4 DEF ToolCallsNext
<1> QED
  BY <1>1, ToolCallsInitInv, PTL DEF ToolCallsSpec

\* Rows, calls, threads and the text of the file keep their types.
THEOREM ToolCallsTypeCorrect == ToolCallsSpec => []ToolCallsTypeOK
<1>1. ToolCallsInv => ToolCallsTypeOK
  BY DEF ToolCallsInv
<1> QED
  BY <1>1, ToolCallsInvariant, PTL

\* However many calls of the file tools overlap, are cut off by their turns or
\* die with the desktop: the row of a call tells whether its part got into the
\* file, nothing gets in without a trusted workspace, and what got in stays
\* unless calls overlapped (chat/tools.rs:715-780, fs.rs:302-440).
THEOREM CallsTell == ToolCallsSpec => []CallsTellTheFile
<1>1. ToolCallsInv => CallsTellTheFile
  BY DEF ToolCallsInv, CallsTellTheFile, ToolCallInv, FileInv
<1> QED
  BY <1>1, ToolCallsInvariant, PTL

----------------------------------------------------------------------------
(* Permission grants                                                       *)

\* Any row, its number and the calls keep their types.
THEOREM GrantsTypeCorrect == GrantsSpec => []GrantsTypeOK
<1>1. GrantsInit => GrantsTypeOK
  BY GrantsAssumption DEF GrantsInit, GrantsTypeOK, Undeciding, GrantStatuses
<1>2. GrantsTypeOK /\ [GrantsNext]_grantVars => GrantsTypeOK'
  <2> SUFFICES ASSUME GrantsTypeOK, [GrantsNext]_grantVars
               PROVE  GrantsTypeOK'
    OBVIOUS
  <2> USE GrantsAssumption DEF GrantsTypeOK
  <2>1. ASSUME NEW a \in Askers, NumbersGrant(a)
        PROVE  GrantsTypeOK'
    BY <2>1 DEF NumbersGrant
  <2>2. ASSUME NEW a \in Askers, RequestsGrant(a)
        PROVE  GrantsTypeOK'
    <3>1. CASE requesting[a] \in DOMAIN grants
      <4>1. grants' \in Seq(GrantStatuses) /\ Len(grants') = Len(grants)
        BY <2>2, <3>1 DEF RequestsGrant, GrantStatuses
      <4> QED
        BY <2>2, <4>1 DEF RequestsGrant
    <3>2. CASE requesting[a] \notin DOMAIN grants
      <4>1. grants' \in Seq(GrantStatuses) /\ Len(grants') = Len(grants) + 1
        BY <2>2, <3>2 DEF RequestsGrant, GrantStatuses
      <4>2. Len(grants) < MaxGrants
        BY <2>2, <3>2 DEF RequestsGrant
      <4> QED
        BY <2>2, <4>1, <4>2 DEF RequestsGrant
    <3> QED
      BY <3>1, <3>2
  <2>3. ASSUME NEW d \in Deciders, NEW i \in DOMAIN grants, NEW target \in GrantStatuses,
               ReadsGrant(d, i, target)
        PROVE  GrantsTypeOK'
    BY <2>3 DEF ReadsGrant
  <2>4. ASSUME NEW d \in Deciders, DecidesGrant(d)
        PROVE  GrantsTypeOK'
    <3>1. grants' \in Seq(GrantStatuses) /\ Len(grants') = Len(grants)
      <4>1. deciding[d].target \in GrantStatuses
        OBVIOUS
      <4>2. CASE deciding[d].id \in DOMAIN grants
        BY <2>4, <4>1, <4>2 DEF DecidesGrant
      <4>3. CASE deciding[d].id \notin DOMAIN grants
        <5>1. grants' = grants
          BY <2>4, <4>3 DEF DecidesGrant
        <5> QED
          BY <5>1
      <4> QED
        BY <4>2, <4>3
    <3> QED
      BY <2>4, <3>1 DEF DecidesGrant, Undeciding, GrantStatuses
  <2>5. CASE GrantCallDies
    <3>1. ASSUME NEW a \in Askers, requesting' = [requesting EXCEPT ![a] = 0],
                 UNCHANGED <<grants, deciding>>
          PROVE  GrantsTypeOK'
      BY <3>1
    <3>2. ASSUME NEW d \in Deciders, deciding' = [deciding EXCEPT ![d] = Undeciding],
                 UNCHANGED <<grants, requesting>>
          PROVE  GrantsTypeOK'
      BY <3>2 DEF Undeciding, GrantStatuses
    <3> QED
      BY <2>5, <3>1, <3>2 DEF GrantCallDies
  <2>6. CASE UNCHANGED grantVars
    BY <2>6 DEF grantVars
  <2> QED
    BY <2>1, <2>2, <2>3, <2>4, <2>5, <2>6 DEF GrantsNext
<1> QED
  BY <1>1, <1>2, PTL DEF GrantsSpec

\* A grant that was denied, used, revoked or has expired stays so, as long as
\* no call has read it before or was given its number: no later call of any
\* kind finds a transition out of it (permissions.rs:404-429, 556-576).
THEOREM GrantDecisionsStand == GrantsSpec => DecisionsStand
<1>1. GrantsTypeOK /\ [GrantsNext]_grantVars =>
          [\A i \in DOMAIN grants : SettledGrantsStay(i)]_grantVars
  <2> SUFFICES ASSUME GrantsTypeOK, GrantsNext, NEW i \in DOMAIN grants,
                      grants[i] \in TerminalGrant, GrantUndisturbed(i)
               PROVE  i \in DOMAIN grants' /\ grants'[i] = grants[i] /\ GrantUndisturbed(i)'
    BY DEF SettledGrantsStay
  <2> USE DEF GrantsTypeOK, GrantUndisturbed
  <2>1. ASSUME NEW a \in Askers, NumbersGrant(a)
        PROVE  i \in DOMAIN grants' /\ grants'[i] = grants[i] /\ GrantUndisturbed(i)'
    BY <2>1 DEF NumbersGrant
  <2>2. ASSUME NEW a \in Askers, RequestsGrant(a)
        PROVE  i \in DOMAIN grants' /\ grants'[i] = grants[i] /\ GrantUndisturbed(i)'
    BY <2>2 DEF RequestsGrant
  <2>3. ASSUME NEW d \in Deciders, NEW j \in DOMAIN grants, NEW target \in GrantStatuses,
               ReadsGrant(d, j, target)
        PROVE  i \in DOMAIN grants' /\ grants'[i] = grants[i] /\ GrantUndisturbed(i)'
    <3>1. j # i
      BY <2>3 DEF ReadsGrant, GrantTargets, TerminalGrant
    <3> QED
      BY <2>3, <3>1 DEF ReadsGrant
  <2>4. ASSUME NEW d \in Deciders, DecidesGrant(d)
        PROVE  i \in DOMAIN grants' /\ grants'[i] = grants[i] /\ GrantUndisturbed(i)'
    BY <2>4 DEF DecidesGrant, Undeciding
  <2>5. CASE GrantCallDies
    BY <2>5 DEF GrantCallDies, Undeciding
  <2> QED
    BY <2>1, <2>2, <2>3, <2>4, <2>5 DEF GrantsNext
<1> QED
  BY <1>1, GrantsTypeCorrect, PTL DEF GrantsSpec, DecisionsStand

----------------------------------------------------------------------------
(* Proposals                                                               *)

\* What the places of calls say: a number taken is that of a row or the next
\* one, an execution holds the id of a row; the rows of tool_runs are those of
\* proposals whose tool has run, and the user acts on ids that were listed.
PlacesInv ==
    /\ \A c \in Chats :
          /\ asking[c].at # "idle" => asking[c].request \in ToolRequests
          /\ asking[c].at = "numbered" =>
                asking[c].id \in 1 .. (Len(proposals) + 1) /\ asking[c].id <= MaxProposals
    /\ \A e \in Executors :
          IF executing[e].at = "idle" THEN executing[e].id = 0
          ELSE executing[e].request \in ToolRequests /\ executing[e].id \in Ids
    /\ \A i \in ProposalIds : i \in toolRuns <=> attempts[i] > 0
    /\ \A i \in ProposalIds : shown[i] # NoRequest => i \in Ids

\* The executions of i that may still run its tool, and those that will
\* although it has been approved again meanwhile.
Pending(i) == {e \in Executors : executing[e].id = i /\ executing[e].at \in {"read", "running"}}
Marked(i) == {e \in Executors : executing[e].id = i /\ executing[e].at = "running"}
Approved(i) == i \in Ids /\ proposals[i].status = "approved"
Bought(i) == approvals[i] * Cardinality(Executors)

\* An approval opens a window in which every executor may read the row once;
\* the first that marks it closes the window.
Window(i) ==
    IF Approved(i)
    THEN attempts[i] + Cardinality(Marked(i)) + Cardinality(Executors) <= Bought(i)
    ELSE attempts[i] + Cardinality(Pending(i)) <= Bought(i)

\* A running proposal is in somebody's hands, or lost.
InHands(i) == \E e \in Executors : executing[e].id = i /\ executing[e].at # "read"
RunningInv ==
    \A i \in Ids : proposals[i].status = "running" =>
        InHands(i) \/ i \in interrupted \/ attempts[i] >= 2

\* Unless two chats took the same number, a number taken is the next one, and
\* a row keeps its request: what was shown, approved and read is one request.
AgreedInv ==
    \/ overlapped
    \/ /\ \A c, d \in Chats : asking[c].at = "numbered" =>
              /\ asking[c].id = Len(proposals) + 1
              /\ asking[d].at = "numbered" => c = d
       /\ \A i \in ProposalIds : shown[i] # NoRequest => shown[i] = proposals[i].request
       /\ \A i \in ProposalIds : Approved(i) => proposals[i].request \in agreed[i]
       /\ \A e \in Executors : executing[e].at # "idle" =>
              executing[e].request \in agreed[executing[e].id]

ProposalsInv ==
    /\ ProposalsTypeOK
    /\ PlacesInv
    /\ \A i \in ProposalIds : Window(i)
    /\ RunningInv
    /\ AgreedInv

LEMMA ProposalsInitInv == ProposalsInit => ProposalsInv
<1> SUFFICES ASSUME ProposalsInit
             PROVE  ProposalsInv
  OBVIOUS
<1> USE ProposalsAssumption DEF ProposalsInit, AtIdle, Doing
<1>1. ProposalsTypeOK
  <2>1. proposals \in Seq(ProposalRows) /\ Len(proposals) <= MaxProposals
    OBVIOUS
  <2>2. /\ asking \in [Chats -> [at : AskPlaces, request : ToolRequests \cup {NoRequest},
                                 id : 0 .. MaxProposals]]
        /\ executing \in [Executors -> [at : ExecutePlaces,
                                        request : ToolRequests \cup {NoRequest},
                                        id : 0 .. MaxProposals]]
    BY DEF AskPlaces, ExecutePlaces
  <2>3. /\ shown \in [ProposalIds -> ToolRequests \cup {NoRequest}]
        /\ agreed \in [ProposalIds -> SUBSET ToolRequests]
        /\ approvals \in [ProposalIds -> Nat]
        /\ attempts \in [ProposalIds -> Nat]
    OBVIOUS
  <2> QED
    BY <2>1, <2>2, <2>3 DEF ProposalsTypeOK
<1>2. PlacesInv
  BY DEF PlacesInv, Ids, ProposalIds
<1>3. ASSUME NEW i \in ProposalIds
      PROVE  Window(i)
  <2>1. Pending(i) = {} /\ ~Approved(i) /\ attempts[i] = 0 /\ approvals[i] = 0
    BY DEF Pending, Approved, Ids
  <2> QED
    BY <2>1, FS_EmptySet, FS_CardinalityType DEF Window, Bought
<1>4. RunningInv
  BY DEF RunningInv, Ids
<1>5. AgreedInv
  BY DEF AgreedInv, Approved, Ids, ProposalIds
<1> QED
  BY <1>1, <1>2, <1>3, <1>4, <1>5 DEF ProposalsInv

\* Every step leaves the table a sequence of rows that grows at its end.
LEMMA RowsGrow ==
  ASSUME ProposalsInv, [ProposalsNext]_proposalVars
  PROVE  /\ proposals' \in Seq(ProposalRows) /\ Len(proposals') <= MaxProposals
         /\ Len(proposals') \in {Len(proposals), Len(proposals) + 1}
<1> USE ProposalsAssumption DEF ProposalsInv, ProposalsTypeOK, Ids, StatusSet
<1>1. ASSUME NEW i \in DOMAIN proposals, NEW s \in ProposalStatuses, StatusSet(i, s)
      PROVE  proposals' \in Seq(ProposalRows) /\ Len(proposals') = Len(proposals)
  <2>1. proposals[i] \in ProposalRows
    OBVIOUS
  <2>2. [proposals[i] EXCEPT !.status = s] \in ProposalRows
    BY ONLY <2>1, s \in ProposalStatuses DEF ProposalRows
  <2> QED
    BY <1>1, <2>2
<1>2. ASSUME NEW c \in Chats, ChatProposes(c)
      PROVE  /\ proposals' \in Seq(ProposalRows) /\ Len(proposals') <= MaxProposals
             /\ Len(proposals') \in {Len(proposals), Len(proposals) + 1}
  <2> DEFINE proposed == [status |-> "pending", request |-> asking[c].request]
  <2>1. proposed \in ProposalRows
    BY <1>2 DEF ChatProposes, PlacesInv, ProposalRows, ProposalStatuses, Undecided
  <2>2. asking[c].id \in 1 .. (Len(proposals) + 1) /\ asking[c].id <= MaxProposals
    BY <1>2 DEF ChatProposes, PlacesInv
  <2> HIDE DEF proposed
  <2>3. CASE asking[c].id \in DOMAIN proposals
    <3>1. proposals' = [proposals EXCEPT ![asking[c].id] = proposed]
      BY <1>2, <2>3 DEF ChatProposes, proposed
    <3> QED
      BY <2>1, <2>3, <3>1
  <2>4. CASE asking[c].id \notin DOMAIN proposals
    <3>1. proposals' = Append(proposals, proposed)
      BY <1>2, <2>4 DEF ChatProposes, proposed
    <3>2. asking[c].id = Len(proposals) + 1
      BY <2>2, <2>4
    <3> QED
      BY <2>1, <2>2, <3>1, <3>2
  <2> QED
    BY <2>3, <2>4
<1>3. ASSUME UNCHANGED proposals
      PROVE  /\ proposals' \in Seq(ProposalRows) /\ Len(proposals') <= MaxProposals
             /\ Len(proposals') \in {Len(proposals), Len(proposals) + 1}
  BY <1>3
<1>4. ASSUME NEW c \in Chats, NEW r \in ToolRequests, ChatIsRefused(c, r) \/ ChatNumbers(c)
      PROVE  UNCHANGED proposals
  BY <1>4 DEF ChatIsRefused, ChatNumbers
<1>5. ASSUME NEW i \in DOMAIN proposals, UserApproves(i) \/ UserRejects(i)
      PROVE  proposals' \in Seq(ProposalRows) /\ Len(proposals') = Len(proposals)
  <2>1. "approved" \in ProposalStatuses /\ "rejected" \in ProposalStatuses
    BY DEF ProposalStatuses, Undecided
  <2> QED
    BY <1>1, <1>5, <2>1 DEF UserApproves, UserRejects
<1>6. ASSUME NEW e \in Executors, ExecutionMarks(e) \/ ExecutionSettles(e)
      PROVE  proposals' \in Seq(ProposalRows) /\ Len(proposals') = Len(proposals)
  <2>1. executing[e].id \in DOMAIN proposals
    BY <1>6 DEF ExecutionMarks, ExecutionSettles, PlacesInv
  <2>2. "running" \in ProposalStatuses /\ "succeeded" \in ProposalStatuses
           /\ "failed" \in ProposalStatuses
    BY DEF ProposalStatuses, Undecided
  <2> QED
    BY <1>1, <1>6, <2>1, <2>2 DEF ExecutionMarks, ExecutionSettles
<1>7. ASSUME NEW e \in Executors,
             ExecutionRuns(e) \/ ExecutionDies(e) \/ \E i \in DOMAIN proposals : ExecutionReads(e, i)
      PROVE  UNCHANGED proposals
  BY <1>7 DEF ExecutionRuns, ExecutionDies, ExecutionReads
<1>8. ASSUME UserLists \/ UNCHANGED proposalVars
      PROVE  UNCHANGED proposals
  BY <1>8 DEF UserLists, proposalVars
<1> HIDE DEF ProposalsInv, ProposalsTypeOK, StatusSet
<1>9. Len(proposals) <= MaxProposals /\ Len(proposals) \in Nat
  BY DEF ProposalsInv, ProposalsTypeOK
<1>10. CASE \E c \in Chats : ChatStep(c) \/ \E r \in ToolRequests : ChatIsRefused(c, r)
  BY <1>2, <1>3, <1>4, <1>10 DEF ChatStep, ChatIsRefused, ChatNumbers
<1>11. CASE \E i \in Ids : UserApproves(i) \/ UserRejects(i)
  BY <1>5, <1>9, <1>11
<1>12. CASE \E e \in Executors : ExecutionStep(e)
  BY <1>3, <1>6, <1>7, <1>9, <1>12 DEF ExecutionStep
<1>13. CASE \E e \in Executors : ExecutionDies(e) \/ \E i \in Ids : ExecutionReads(e, i)
  BY <1>3, <1>7, <1>13
<1>14. CASE UserLists \/ UNCHANGED proposalVars
  BY <1>3, <1>8, <1>14
<1> QED
  BY <1>10, <1>11, <1>12, <1>13, <1>14 DEF ProposalsNext

LEMMA ProposalsTypeStep ==
  ASSUME ProposalsInv, [ProposalsNext]_proposalVars
  PROVE  ProposalsTypeOK'
<1>1. proposals' \in Seq(ProposalRows) /\ Len(proposals') <= MaxProposals
  BY RowsGrow
<1>2. ProposalsTypeOK /\ PlacesInv
  BY DEF ProposalsInv
<1>3. \A i \in Ids : proposals[i].request \in ToolRequests /\ i \in ProposalIds
  <2> SUFFICES ASSUME NEW i \in Ids
               PROVE  proposals[i].request \in ToolRequests /\ i \in ProposalIds
    OBVIOUS
  <2>1. proposals[i] \in ProposalRows /\ i \in 1 .. Len(proposals) /\ Len(proposals) <= MaxProposals
    BY <1>2 DEF ProposalsTypeOK, Ids
  <2> QED
    BY <2>1, ProposalsAssumption DEF ProposalRows, ProposalIds
<1>4. ASSUME NEW c \in Chats, NEW p \in AskPlaces, NEW r \in ToolRequests \cup {NoRequest},
             NEW n \in 0 .. MaxProposals, asking' = [asking EXCEPT ![c] = Doing(p, r, n)]
      PROVE  asking' \in [Chats -> [at : AskPlaces, request : ToolRequests \cup {NoRequest},
                                    id : 0 .. MaxProposals]]
  BY <1>2, <1>4 DEF ProposalsTypeOK, Doing
<1>5. ASSUME NEW e \in Executors, NEW p \in ExecutePlaces,
             NEW r \in ToolRequests \cup {NoRequest}, NEW n \in 0 .. MaxProposals,
             executing' = [executing EXCEPT ![e] = Doing(p, r, n)]
      PROVE  executing' \in [Executors -> [at : ExecutePlaces,
                                 request : ToolRequests \cup {NoRequest}, id : 0 .. MaxProposals]]
  BY <1>2, <1>5 DEF ProposalsTypeOK, Doing
<1>6. ASSUME NEW e \in Executors, NEW p \in ExecutePlaces,
             executing' = [executing EXCEPT ![e].at = p]
      PROVE  executing' \in [Executors -> [at : ExecutePlaces,
                                 request : ToolRequests \cup {NoRequest}, id : 0 .. MaxProposals]]
  BY <1>2, <1>6 DEF ProposalsTypeOK
<1>7. ASSUME NEW i \in ProposalIds, attempts' = [attempts EXCEPT ![i] = @ + 1]
      PROVE  attempts' \in [ProposalIds -> Nat]
  BY <1>2, <1>7 DEF ProposalsTypeOK
<1>8. ASSUME NEW c \in Chats, NEW r \in ToolRequests, ChatIsRefused(c, r)
      PROVE  ProposalsTypeOK'
  <2>1. "unproposed" \in AskPlaces /\ 0 \in 0 .. MaxProposals
    BY ProposalsAssumption DEF AskPlaces
  <2>2. asking' = [asking EXCEPT ![c] = Doing("unproposed", r, 0)]
    BY <1>8 DEF ChatIsRefused, AskGoes
  <2>3. asking' \in [Chats -> [at : AskPlaces, request : ToolRequests \cup {NoRequest},
                             id : 0 .. MaxProposals]]
    BY <1>4, <2>1, <2>2
  <2> QED
    BY <1>1, <1>2, <1>8, <2>3 DEF ChatIsRefused, AskGoes, historyOfUser, ProposalsTypeOK
<1>9. ASSUME NEW c \in Chats, ChatNumbers(c)
      PROVE  ProposalsTypeOK'
  <2>1. Len(proposals) + 1 \in 0 .. MaxProposals
    BY <1>2, <1>9, ProposalsAssumption DEF ChatNumbers, ProposalsTypeOK
  <2>2. overlapped' \in BOOLEAN
    BY <1>9 DEF ChatNumbers
  <2>3. asking[c].request \in ToolRequests \cup {NoRequest}
    BY <1>2 DEF ProposalsTypeOK
  <2> QED
    BY <1>1, <1>2, <1>4, <1>9, <2>1, <2>2, <2>3
       DEF ChatNumbers, AskGoes, historyOfUser, AskPlaces, ProposalsTypeOK
<1>10. ASSUME NEW c \in Chats, ChatProposes(c)
       PROVE  ProposalsTypeOK'
  <2>1. "idle" \in AskPlaces /\ 0 \in 0 .. MaxProposals
    BY ProposalsAssumption DEF AskPlaces
  <2>2. asking' = [asking EXCEPT ![c] = Doing("idle", NoRequest, 0)]
    BY <1>10 DEF ChatProposes, AskGoes
  <2>3. asking' \in [Chats -> [at : AskPlaces, request : ToolRequests \cup {NoRequest},
                             id : 0 .. MaxProposals]]
    BY <1>4, <2>1, <2>2
  <2> QED
    BY <1>1, <1>2, <1>10, <2>3 DEF ChatProposes, AskGoes, historyOfUser, ProposalsTypeOK
<1>11. CASE UserLists
  <2>1. shown' \in [ProposalIds -> ToolRequests \cup {NoRequest}]
    BY <1>2, <1>3, <1>11 DEF UserLists, ProposalsTypeOK
  <2> QED
    BY <1>1, <1>2, <1>11, <2>1 DEF UserLists, ProposalsTypeOK
<1>12. ASSUME NEW i \in Ids, UserApproves(i)
       PROVE  ProposalsTypeOK'
  <2>1. shown[i] \in ToolRequests /\ i \in ProposalIds
    BY <1>2, <1>3, <1>12 DEF UserApproves, ProposalsTypeOK
  <2>2. agreed' \in [ProposalIds -> SUBSET ToolRequests] /\ approvals' \in [ProposalIds -> Nat]
    BY <1>2, <1>12, <2>1 DEF UserApproves, ProposalsTypeOK
  <2> QED
    BY <1>1, <1>2, <1>12, <2>2 DEF UserApproves, ProposalsTypeOK
<1>13. ASSUME NEW i \in Ids, UserRejects(i)
       PROVE  ProposalsTypeOK'
  BY <1>1, <1>2, <1>13 DEF UserRejects, historyOfUser, ProposalsTypeOK
<1>14. ASSUME NEW e \in Executors, NEW i \in Ids, ExecutionReads(e, i)
       PROVE  ProposalsTypeOK'
  <2>1. "read" \in ExecutePlaces /\ i \in 0 .. MaxProposals
    BY <1>3 DEF ExecutePlaces, ProposalIds
  <2>2. executing' = [executing EXCEPT ![e] = Doing("read", proposals[i].request, i)]
    BY <1>14 DEF ExecutionReads
  <2>3. executing' \in [Executors -> [at : ExecutePlaces,
                            request : ToolRequests \cup {NoRequest}, id : 0 .. MaxProposals]]
    BY <1>3, <1>5, <2>1, <2>2
  <2> QED
    BY <1>1, <1>2, <1>14, <2>3 DEF ExecutionReads, historyOfUser, ProposalsTypeOK
<1>15. ASSUME NEW e \in Executors, ExecutionMarks(e)
       PROVE  ProposalsTypeOK'
  BY <1>1, <1>2, <1>6, <1>15
     DEF ExecutionMarks, ExecutionGoes, historyOfUser, ExecutePlaces, ProposalsTypeOK
<1>16. ASSUME NEW e \in Executors, ExecutionEnds(e)
       PROVE  executing' \in [Executors -> [at : ExecutePlaces,
                                  request : ToolRequests \cup {NoRequest}, id : 0 .. MaxProposals]]
  <2>1. "idle" \in ExecutePlaces /\ 0 \in 0 .. MaxProposals
    BY ProposalsAssumption DEF ExecutePlaces
  <2>2. executing' = [executing EXCEPT ![e] = Doing("idle", NoRequest, 0)]
    BY <1>16 DEF ExecutionEnds, AtIdle
  <2> QED
    BY <1>5, <2>1, <2>2
<1>17. ASSUME NEW e \in Executors, ExecutionRuns(e)
       PROVE  ProposalsTypeOK'
  <2>1. executing[e].id \in ProposalIds
    BY <1>2, <1>3, <1>17 DEF ExecutionRuns, PlacesInv
  <2>2. executing' \in [Executors -> [at : ExecutePlaces,
                            request : ToolRequests \cup {NoRequest}, id : 0 .. MaxProposals]]
    BY <1>6, <1>16, <1>17 DEF ExecutionRuns, ExecutionGoes, ExecutePlaces
  <2>3. attempts' \in [ProposalIds -> Nat] /\ toolRuns' \subseteq ProposalIds
    BY <1>2, <1>7, <1>17, <2>1 DEF ExecutionRuns, ProposalsTypeOK
  <2>4. UNCHANGED <<proposals, asking, historyOfUser, overlapped, interrupted>>
    BY <1>17 DEF ExecutionRuns, ExecutionEnds, ExecutionGoes
  <2> QED
    BY <1>2, <2>2, <2>3, <2>4 DEF historyOfUser, ProposalsTypeOK
<1>18. ASSUME NEW e \in Executors, ExecutionSettles(e)
       PROVE  ProposalsTypeOK'
  BY <1>1, <1>2, <1>16, <1>18 DEF ExecutionSettles, ExecutionEnds, historyOfUser, ProposalsTypeOK
<1>19. ASSUME NEW e \in Executors, ExecutionDies(e)
       PROVE  ProposalsTypeOK'
  <2>1. executing[e].id \in ProposalIds
    BY <1>2, <1>3, <1>19 DEF ExecutionDies, PlacesInv
  <2>2. executing' = [executing EXCEPT ![e] = Doing("idle", NoRequest, 0)]
    BY <1>19 DEF ExecutionDies, AtIdle
  <2> QED
    <3>1. "idle" \in ExecutePlaces /\ 0 \in 0 .. MaxProposals
      BY ProposalsAssumption DEF ExecutePlaces
    <3>2. executing' \in [Executors -> [at : ExecutePlaces,
                              request : ToolRequests \cup {NoRequest}, id : 0 .. MaxProposals]]
      BY <1>5, <2>2, <3>1
    <3> QED
      BY <1>1, <1>2, <1>19, <2>1, <3>2 DEF ExecutionDies, historyOfUser, ProposalsTypeOK
<1>20. CASE UNCHANGED proposalVars
  BY <1>2, <1>20 DEF proposalVars, ProposalsTypeOK
<1> QED
  BY <1>8, <1>9, <1>10, <1>11, <1>12, <1>13, <1>14, <1>15, <1>17, <1>18, <1>19, <1>20
     DEF ProposalsNext, ChatStep, ExecutionStep

LEMMA PlacesStep ==
  ASSUME ProposalsInv, [ProposalsNext]_proposalVars
  PROVE  PlacesInv'
<1>1. ProposalsTypeOK /\ PlacesInv /\ ProposalsTypeOK'
  BY ProposalsTypeStep DEF ProposalsInv
<1>2. Ids \subseteq Ids' /\ Ids = 1 .. Len(proposals) /\ Ids' = 1 .. Len(proposals')
  BY <1>1, RowsGrow DEF Ids, ProposalsTypeOK
<1>3. Ids \subseteq ProposalIds
  BY <1>1, <1>2, ProposalsAssumption DEF ProposalsTypeOK, ProposalIds
<1> DEFINE Chatting == \A c \in Chats :
               /\ asking[c].at # "idle" => asking[c].request \in ToolRequests
               /\ asking[c].at = "numbered" =>
                     asking[c].id \in 1 .. (Len(proposals) + 1) /\ asking[c].id <= MaxProposals
           Attempting == \A e \in Executors :
               IF executing[e].at = "idle" THEN executing[e].id = 0
               ELSE executing[e].request \in ToolRequests /\ executing[e].id \in Ids
           Logged == \A i \in ProposalIds : i \in toolRuns <=> attempts[i] > 0
           Listed == \A i \in ProposalIds : shown[i] # NoRequest => i \in Ids
<1>4. Chatting'
  <2>1. ASSUME UNCHANGED asking
        PROVE  Chatting'
    BY <1>1, <2>1, RowsGrow DEF PlacesInv, ProposalsTypeOK
  <2>2. ASSUME NEW c \in Chats, NEW r \in ToolRequests, ChatIsRefused(c, r)
        PROVE  Chatting'
    BY <1>1, <2>2 DEF ChatIsRefused, AskGoes, Doing, PlacesInv, ProposalsTypeOK
  <2>3. ASSUME NEW c \in Chats, ChatNumbers(c)
        PROVE  Chatting'
    BY <1>1, <2>3, ProposalsAssumption
       DEF ChatNumbers, AskGoes, Doing, PlacesInv, ProposalsTypeOK
  <2>4. ASSUME NEW c \in Chats, ChatProposes(c)
        PROVE  Chatting'
    BY <1>1, <2>4, RowsGrow DEF ChatProposes, AskGoes, Doing, PlacesInv, ProposalsTypeOK
  <2>5. ASSUME \/ UserLists \/ UNCHANGED proposalVars
               \/ \E i \in Ids : UserApproves(i) \/ UserRejects(i)
               \/ \E e \in Executors : ExecutionStep(e) \/ ExecutionDies(e)
                                          \/ \E i \in Ids : ExecutionReads(e, i)
        PROVE  UNCHANGED asking
    BY <2>5 DEF UserLists, proposalVars, UserApproves, UserRejects, ExecutionStep, ExecutionMarks,
                ExecutionRuns, ExecutionSettles, ExecutionDies, ExecutionReads, ExecutionGoes,
                ExecutionEnds
  <2> HIDE DEF Chatting
  <2> QED
    BY <2>1, <2>2, <2>3, <2>4, <2>5 DEF ProposalsNext, ChatStep
<1>5. Attempting'
  <2>1. ASSUME UNCHANGED executing
        PROVE  Attempting'
    BY <1>1, <1>2, <2>1 DEF PlacesInv
  <2>2. ASSUME NEW e \in Executors, NEW i \in Ids, ExecutionReads(e, i)
        PROVE  Attempting'
    <3>1. proposals[i] \in ProposalRows
      BY <1>1 DEF ProposalsTypeOK, Ids
    <3>2. proposals[i].request \in ToolRequests
      BY <3>1 DEF ProposalRows
    <3> QED
      BY <1>1, <1>2, <2>2, <3>2 DEF ExecutionReads, Doing, PlacesInv, ProposalsTypeOK
  <2>3. ASSUME NEW e \in Executors, NEW p \in {"running", "succeeded", "failed"},
               executing[e].at # "idle", executing' = [executing EXCEPT ![e].at = p]
        PROVE  Attempting'
    BY <1>1, <1>2, <2>3 DEF PlacesInv, ProposalsTypeOK
  <2>4. ASSUME NEW e \in Executors, executing' = [executing EXCEPT ![e] = AtIdle]
        PROVE  Attempting'
    BY <1>1, <1>2, <2>4 DEF AtIdle, Doing, PlacesInv, ProposalsTypeOK
  <2>5. ASSUME NEW e \in Executors, ExecutionStep(e) \/ ExecutionDies(e)
        PROVE  Attempting'
    <3> HIDE DEF Attempting
    <3> QED
      BY <2>3, <2>4, <2>5 DEF ExecutionStep, ExecutionMarks, ExecutionRuns, ExecutionSettles,
                              ExecutionDies, ExecutionGoes, ExecutionEnds
  <2>6. ASSUME \/ UserLists \/ UNCHANGED proposalVars
               \/ \E i \in Ids : UserApproves(i) \/ UserRejects(i)
               \/ \E c \in Chats : ChatStep(c) \/ \E r \in ToolRequests : ChatIsRefused(c, r)
        PROVE  UNCHANGED executing
    BY <2>6 DEF UserLists, proposalVars, UserApproves, UserRejects, ChatStep, ChatIsRefused,
                ChatNumbers, ChatProposes, AskGoes
  <2> HIDE DEF Attempting
  <2> QED
    BY <2>1, <2>2, <2>5, <2>6 DEF ProposalsNext
<1>6. Logged'
  <2>1. ASSUME UNCHANGED <<toolRuns, attempts>>
        PROVE  Logged'
    BY <1>1, <2>1 DEF PlacesInv
  <2>2. ASSUME NEW e \in Executors, ExecutionRuns(e)
        PROVE  Logged'
    <3>1. executing[e].id \in ProposalIds
      BY <1>1, <1>3, <2>2 DEF ExecutionRuns, PlacesInv
    <3> QED
      BY <1>1, <2>2, <3>1 DEF ExecutionRuns, PlacesInv, ProposalsTypeOK
  <2>3. ASSUME \/ UserLists \/ UNCHANGED proposalVars
               \/ \E i \in Ids : UserApproves(i) \/ UserRejects(i)
               \/ \E c \in Chats : ChatStep(c) \/ \E r \in ToolRequests : ChatIsRefused(c, r)
               \/ \E e \in Executors : ExecutionMarks(e) \/ ExecutionSettles(e)
                      \/ ExecutionDies(e) \/ \E i \in Ids : ExecutionReads(e, i)
        PROVE  UNCHANGED <<toolRuns, attempts>>
    BY <2>3 DEF UserLists, proposalVars, UserApproves, UserRejects, ChatStep, ChatIsRefused,
                ChatNumbers, ChatProposes, AskGoes, ExecutionMarks, ExecutionSettles,
                ExecutionDies, ExecutionReads
  <2> HIDE DEF Logged
  <2> QED
    BY <2>1, <2>2, <2>3 DEF ProposalsNext, ExecutionStep
<1>7. Listed'
  <2>1. CASE UserLists
    BY <1>1, <1>2, <2>1 DEF UserLists, PlacesInv, ProposalsTypeOK
  <2>2. CASE ~UserLists
    <3>1. UNCHANGED shown
      BY <2>2 DEF ProposalsNext, proposalVars, UserApproves, UserRejects, ChatStep, ChatIsRefused,
                  ChatNumbers, ChatProposes, AskGoes, ExecutionStep, ExecutionMarks,
                  ExecutionRuns, ExecutionSettles, ExecutionDies, ExecutionReads, ExecutionGoes,
                  ExecutionEnds, historyOfUser
    <3> QED
      BY <1>1, <1>2, <3>1 DEF PlacesInv
  <2> QED
    BY <2>1, <2>2
<1> QED
  BY <1>4, <1>5, <1>6, <1>7 DEF PlacesInv

\* Executions that may still run the tool are finitely many, and marked ones
\* are among them.
LEMMA PendingFinite ==
  ASSUME NEW i
  PROVE  /\ IsFiniteSet(Pending(i)) /\ IsFiniteSet(Marked(i))
         /\ Cardinality(Pending(i)) \in Nat /\ Cardinality(Marked(i)) \in Nat
         /\ Cardinality(Executors) \in Nat
         /\ Cardinality(Pending(i)) <= Cardinality(Executors)
<1>1. Pending(i) \in SUBSET Executors /\ Marked(i) \in SUBSET Executors
  BY DEF Pending, Marked
<1> QED
  BY <1>1, ProposalsAssumption, FS_Subset, FS_CardinalityType

\* A step that neither approves i nor runs its tool, and lets executions of i
\* come only while it is approved.
LEMMA WindowKept ==
  ASSUME NEW i \in ProposalIds, ProposalsTypeOK, Window(i),
         attempts'[i] = attempts[i], approvals'[i] = approvals[i],
         IF Approved(i)' THEN Approved(i) /\ Marked(i)' \subseteq Marked(i)
         ELSE Approved(i) \/ Pending(i)' \subseteq Pending(i)
  PROVE  Window(i)'
<1>1. /\ IsFiniteSet(Pending(i)) /\ IsFiniteSet(Marked(i))
      /\ Cardinality(Pending(i)) \in Nat /\ Cardinality(Marked(i)) \in Nat
      /\ Cardinality(Executors) \in Nat
      /\ (Cardinality(Pending(i)) <= Cardinality(Executors))'
      /\ (Cardinality(Pending(i)) \in Nat /\ Cardinality(Marked(i)) \in Nat)'
  <2>1. /\ IsFiniteSet(Pending(i)) /\ IsFiniteSet(Marked(i))
        /\ Cardinality(Pending(i)) \in Nat /\ Cardinality(Marked(i)) \in Nat
        /\ Cardinality(Executors) \in Nat
        /\ Cardinality(Pending(i)) <= Cardinality(Executors)
    BY PendingFinite
  <2>2. Pending(i)' \in SUBSET Executors /\ Marked(i)' \in SUBSET Executors
    BY DEF Pending, Marked
  <2>3. (Cardinality(Pending(i)) <= Cardinality(Executors))'
    BY <2>2, ProposalsAssumption, FS_Subset
  <2>4. (Cardinality(Pending(i)) \in Nat /\ Cardinality(Marked(i)) \in Nat)'
    BY <2>2, ProposalsAssumption, FS_Subset, FS_CardinalityType
  <2> QED
    BY <2>1, <2>3, <2>4
<1>2. /\ Marked(i)' \subseteq Marked(i) => Cardinality(Marked(i)') <= Cardinality(Marked(i))
      /\ Pending(i)' \subseteq Pending(i) => Cardinality(Pending(i)') <= Cardinality(Pending(i))
  BY <1>1, FS_Subset
<1>3. attempts[i] \in Nat /\ approvals[i] \in Nat
  BY DEF ProposalsTypeOK
<1>4. Bought(i)' = Bought(i) /\ Bought(i) \in Nat
  BY <1>1, <1>3 DEF Bought
<1>5. CASE Approved(i)'
  BY <1>1, <1>2, <1>3, <1>4, <1>5 DEF Window
<1>6. CASE ~Approved(i)'
  BY <1>1, <1>2, <1>3, <1>4, <1>6 DEF Window
<1> QED
  BY <1>5, <1>6

LEMMA WindowStep ==
  ASSUME ProposalsInv, [ProposalsNext]_proposalVars, NEW i \in ProposalIds
  PROVE  Window(i)'
<1>1. ProposalsTypeOK /\ PlacesInv /\ Window(i)
  BY DEF ProposalsInv
<1>2. ASSUME NEW c \in Chats, ChatProposes(c)
      PROVE  Window(i)'
  <2>1. UNCHANGED <<executing, attempts, approvals>>
    BY <1>2 DEF ChatProposes, AskGoes, historyOfUser
  <2>2. Approved(i)' => Approved(i)
    <3>1. asking[c].id \in 1 .. (Len(proposals) + 1)
      BY <1>1, <1>2 DEF ChatProposes, PlacesInv
    <3> QED
      BY <1>1, <1>2, <3>1 DEF ChatProposes, Approved, Ids, ProposalsTypeOK
  <2> QED
    BY <1>1, <2>1, <2>2, WindowKept DEF Marked, Pending
<1>3. ASSUME UNCHANGED <<proposals, executing, attempts, approvals>>
      PROVE  Window(i)'
  BY <1>1, <1>3 DEF Window, Approved, Ids, Marked, Pending, Bought
<1>4. ASSUME NEW j \in Ids, UserApproves(j)
      PROVE  Window(i)'
  <2>0. UNCHANGED <<executing, attempts>>
    BY <1>4 DEF UserApproves
  <2>1. CASE i = j
    <3>1. /\ attempts[i] \in Nat /\ approvals[i] \in Nat /\ Cardinality(Executors) \in Nat
          /\ Cardinality(Marked(i)) \in Nat /\ Cardinality(Pending(i)) \in Nat
      BY <1>1, PendingFinite DEF ProposalsTypeOK
    <3>2. /\ approvals'[i] = approvals[i] + 1 /\ attempts'[i] = attempts[i]
          /\ Marked(i)' = Marked(i)
      BY <1>1, <1>4, <2>0, <2>1 DEF UserApproves, Marked, ProposalsTypeOK
    <3>6. Approved(i)'
      <4>1. i \in DOMAIN proposals /\ proposals[i] \in ProposalRows
        BY <1>1, <2>1 DEF Ids, ProposalsTypeOK
      <4>2. proposals' = [proposals EXCEPT ![i].status = "approved"]
        BY <1>4, <2>1 DEF UserApproves, StatusSet
      <4> QED
        BY <4>1, <4>2 DEF Approved, Ids, ProposalRows
    <3>3. Bought(i)' = Bought(i) + Cardinality(Executors) /\ Bought(i) \in Nat
      <4>1. \A k, n \in Nat : (k + 1) * n = k * n + n /\ k * n \in Nat
        OBVIOUS
      <4> QED
        BY <3>1, <3>2, <4>1 DEF Bought
    <3>4. Marked(i) \subseteq Pending(i)
      BY DEF Marked, Pending
    <3>5. Cardinality(Marked(i)) <= Cardinality(Pending(i))
      BY <3>4, PendingFinite, FS_Subset
    <3> QED
      BY <1>1, <3>1, <3>2, <3>3, <3>5, <3>6 DEF Window
  <2>2. CASE i # j
    <3>1. (Approved(i)' <=> Approved(i)) /\ approvals'[i] = approvals[i]
      BY <1>1, <1>4, <2>2 DEF UserApproves, StatusSet, Approved, Ids, ProposalsTypeOK
    <3> QED
      BY <1>1, <2>0, <3>1, WindowKept DEF Marked, Pending
  <2> QED
    BY <2>1, <2>2
<1>5. ASSUME NEW j \in Ids, UserRejects(j)
      PROVE  Window(i)'
  <2>1. Approved(i)' => Approved(i)
    BY <1>1, <1>5 DEF UserRejects, StatusSet, Approved, Ids, ProposalsTypeOK, ProposalRows
  <2>2. UNCHANGED <<executing, attempts, approvals>>
    BY <1>5 DEF UserRejects, historyOfUser
  <2> QED
    BY <1>1, <2>1, <2>2, WindowKept DEF Marked, Pending
<1>6. ASSUME NEW e \in Executors, NEW j \in Ids, ExecutionReads(e, j)
      PROVE  Window(i)'
  <2>1. UNCHANGED <<proposals, attempts, approvals>> /\ Approved(j)
    BY <1>6 DEF ExecutionReads, historyOfUser, Approved
  <2>2. \A f \in Executors : f # e => executing'[f] = executing[f]
    BY <1>1, <1>6 DEF ExecutionReads, ProposalsTypeOK
  <2>3. executing'[e].id = j /\ executing'[e].at = "read"
    BY <1>1, <1>6 DEF ExecutionReads, ProposalsTypeOK, Doing
  <2>4. Marked(i)' \subseteq Marked(i) /\ (i # j => Pending(i)' \subseteq Pending(i))
    BY <2>2, <2>3 DEF Marked, Pending
  <2> QED
    BY <1>1, <2>1, <2>4, WindowKept DEF Approved, Ids
<1>7. ASSUME NEW e \in Executors, ExecutionMarks(e)
      PROVE  Window(i)'
  <2>1. UNCHANGED <<attempts, approvals>> /\ executing' = [executing EXCEPT ![e].at = "running"]
    BY <1>7 DEF ExecutionMarks, ExecutionGoes, historyOfUser
  <2>2. /\ \A f \in Executors : f # e => executing'[f] = executing[f]
        /\ executing'[e].id = executing[e].id /\ executing[e].at = "read"
    BY <1>1, <1>7, <2>1 DEF ProposalsTypeOK, ExecutionMarks
  <2>3. Pending(i)' \subseteq Pending(i)
    BY <2>2 DEF Pending
  <2>4. executing[e].id \in Ids
    BY <1>1, <2>2 DEF PlacesInv
  <2>5. Approved(i)' => Approved(i) /\ i # executing[e].id
    BY <1>1, <1>7, <2>4
       DEF ExecutionMarks, StatusSet, Approved, Ids, ProposalsTypeOK, ProposalRows
  <2>6. i # executing[e].id => Marked(i)' \subseteq Marked(i)
    BY <2>2 DEF Marked
  <2> QED
    BY <1>1, <2>1, <2>3, <2>5, <2>6, WindowKept
<1>8. ASSUME NEW e \in Executors, ExecutionRuns(e)
      PROVE  Window(i)'
  <2>1. UNCHANGED <<proposals, approvals>>
    BY <1>8 DEF ExecutionRuns, ExecutionEnds, ExecutionGoes, historyOfUser
  <2>2. /\ \A f \in Executors : f # e => executing'[f] = executing[f]
        /\ executing[e].at = "running" /\ executing'[e].at \notin {"read", "running"}
    BY <1>1, <1>8
       DEF ExecutionRuns, ExecutionEnds, ExecutionGoes, AtIdle, Doing, ProposalsTypeOK
  <2>3. CASE i # executing[e].id
    <3>1. Marked(i)' \subseteq Marked(i) /\ Pending(i)' \subseteq Pending(i)
      BY <2>2 DEF Marked, Pending
    <3>2. attempts'[i] = attempts[i]
      BY <1>1, <1>8, <2>3 DEF ExecutionRuns, ProposalsTypeOK
    <3> QED
      BY <1>1, <2>1, <3>1, <3>2, WindowKept DEF Approved, Ids
  <2>4. CASE i = executing[e].id
    <3>1. e \in Marked(i) /\ Marked(i)' = Marked(i) \ {e}
      BY <2>2, <2>4 DEF Marked
    <3>2. e \in Pending(i) /\ Pending(i)' = Pending(i) \ {e}
      BY <2>2, <2>4 DEF Pending
    <3>3. attempts'[i] = attempts[i] + 1 /\ attempts[i] \in Nat
      BY <1>1, <1>8, <2>4 DEF ExecutionRuns, ProposalsTypeOK
    <3>4. /\ Cardinality(Marked(i)') = Cardinality(Marked(i)) - 1
          /\ Cardinality(Pending(i)') = Cardinality(Pending(i)) - 1
      BY <3>1, <3>2, PendingFinite, FS_RemoveElement
    <3>5. Bought(i)' = Bought(i) /\ (Approved(i)' <=> Approved(i))
      BY <2>1 DEF Bought, Approved, Ids
    <3>6. /\ Cardinality(Marked(i)) \in Nat /\ Cardinality(Pending(i)) \in Nat
          /\ Cardinality(Executors) \in Nat
      BY PendingFinite
    <3> QED
      BY <1>1, <3>3, <3>4, <3>5, <3>6 DEF Window
  <2> QED
    BY <2>3, <2>4
<1>9. ASSUME NEW e \in Executors, ExecutionSettles(e) \/ ExecutionDies(e)
      PROVE  Window(i)'
  <2>1. UNCHANGED <<attempts, approvals>> /\ executing' = [executing EXCEPT ![e] = AtIdle]
    BY <1>9 DEF ExecutionSettles, ExecutionEnds, ExecutionDies, historyOfUser
  <2>2. Marked(i)' \subseteq Marked(i) /\ Pending(i)' \subseteq Pending(i)
    BY <1>1, <2>1 DEF Marked, Pending, AtIdle, Doing, ProposalsTypeOK
  <2>3. Approved(i)' => Approved(i)
    <3>1. CASE UNCHANGED proposals
      BY <3>1 DEF Approved, Ids
    <3>2. ASSUME NEW s \in {"succeeded", "failed"}, StatusSet(executing[e].id, s)
          PROVE  Approved(i)' => Approved(i)
      BY <1>1, <3>2 DEF StatusSet, Approved, Ids, ProposalsTypeOK, ProposalRows
    <3> QED
      BY <1>9, <3>1, <3>2 DEF ExecutionSettles, ExecutionDies
  <2> QED
    BY <1>1, <2>1, <2>2, <2>3, WindowKept
<1>10. ASSUME \/ UserLists \/ UNCHANGED proposalVars
              \/ \E c \in Chats : ChatNumbers(c) \/ \E r \in ToolRequests : ChatIsRefused(c, r)
       PROVE  UNCHANGED <<proposals, executing, attempts, approvals>>
  BY <1>10 DEF UserLists, proposalVars, ChatIsRefused, ChatNumbers, AskGoes, historyOfUser
<1> QED
  BY <1>2, <1>3, <1>4, <1>5, <1>6, <1>7, <1>8, <1>9, <1>10
     DEF ProposalsNext, ChatStep, ExecutionStep

LEMMA RunningStep ==
  ASSUME ProposalsInv, [ProposalsNext]_proposalVars
  PROVE  RunningInv'
<1> SUFFICES ASSUME NEW i \in Ids', proposals'[i].status = "running"
             PROVE  InHands(i)' \/ i \in interrupted' \/ attempts'[i] >= 2
  BY DEF RunningInv
<1>1. ProposalsTypeOK /\ PlacesInv /\ RunningInv
  BY DEF ProposalsInv
<1>2. i \in Nat \ {0} /\ i \in ProposalIds
  BY RowsGrow, ProposalsAssumption DEF Ids, ProposalIds
<1>3. /\ interrupted \subseteq interrupted'
      /\ attempts[i] \in Nat /\ attempts'[i] \in Nat /\ attempts'[i] >= attempts[i]
  <2>1. attempts' = attempts \/ \E j : attempts' = [attempts EXCEPT ![j] = @ + 1]
    BY DEF ProposalsNext, proposalVars, UserLists, UserApproves, UserRejects, ChatStep,
           ChatIsRefused, ChatNumbers, ChatProposes, AskGoes, ExecutionStep, ExecutionMarks,
           ExecutionRuns, ExecutionSettles, ExecutionDies, ExecutionReads
  <2>2. attempts[i] \in Nat /\ attempts' \in [ProposalIds -> Nat]
    BY <1>1, <1>2, ProposalsTypeStep DEF ProposalsTypeOK
  <2>3. attempts'[i] >= attempts[i]
    BY <1>1, <1>2, <2>1, <2>2 DEF ProposalsTypeOK
  <2>4. interrupted \subseteq interrupted'
    BY DEF ProposalsNext, proposalVars, UserLists, UserApproves, UserRejects, ChatStep,
           ChatIsRefused, ChatNumbers, ChatProposes, AskGoes, ExecutionStep, ExecutionMarks,
           ExecutionRuns, ExecutionSettles, ExecutionDies, ExecutionReads, ExecutionGoes,
           ExecutionEnds
  <2> QED
    BY <1>2, <2>2, <2>3, <2>4
<1>4. ASSUME i \in Ids, proposals[i].status = "running", InHands(i) => InHands(i)'
      PROVE  InHands(i)' \/ i \in interrupted' \/ attempts'[i] >= 2
  BY <1>1, <1>3, <1>4 DEF RunningInv
<1>5. ASSUME UNCHANGED <<proposals, executing>>
      PROVE  InHands(i)' \/ i \in interrupted' \/ attempts'[i] >= 2
  BY <1>4, <1>5 DEF Ids, InHands
<1>6. ASSUME NEW c \in Chats, ChatProposes(c)
      PROVE  i \in Ids /\ proposals[i].status = "running" /\ UNCHANGED executing
  <2>1. asking[c].id \in 1 .. (Len(proposals) + 1)
    BY <1>1, <1>6 DEF ChatProposes, PlacesInv
  <2> QED
    BY <1>1, <1>6, <2>1 DEF ChatProposes, AskGoes, Ids, ProposalsTypeOK
<1>7. ASSUME NEW j \in Ids, UserApproves(j) \/ UserRejects(j)
      PROVE  i \in Ids /\ proposals[i].status = "running" /\ UNCHANGED executing
  <2>1. ASSUME NEW s \in {"approved", "rejected"}, StatusSet(j, s)
        PROVE  i \in Ids /\ proposals[i].status = "running"
    BY <1>1, <2>1 DEF StatusSet, Ids, ProposalsTypeOK, ProposalRows
  <2> QED
    BY <1>7, <2>1 DEF UserApproves, UserRejects
<1>8. ASSUME NEW e \in Executors, NEW j \in Ids, ExecutionReads(e, j)
      PROVE  i \in Ids /\ proposals[i].status = "running" /\ (InHands(i) => InHands(i)')
  <2>1. UNCHANGED proposals /\ \A f \in Executors : f # e => executing'[f] = executing[f]
    BY <1>1, <1>8 DEF ExecutionReads, ProposalsTypeOK
  <2>2. executing[e].id # i
    BY <1>1, <1>2, <1>8 DEF ExecutionReads, PlacesInv
  <2> QED
    BY <2>1, <2>2 DEF InHands, Ids
<1>9. ASSUME NEW e \in Executors, ExecutionMarks(e)
      PROVE  InHands(i)' \/ (i \in Ids /\ proposals[i].status = "running" /\ (InHands(i) => InHands(i)'))
  <2>1. /\ \A f \in Executors : f # e => executing'[f] = executing[f]
        /\ executing'[e].id = executing[e].id /\ executing[e].at = "read"
        /\ executing'[e].at = "running" /\ executing[e].id \in Ids
    BY <1>1, <1>9 DEF ProposalsTypeOK, ExecutionMarks, ExecutionGoes, PlacesInv
  <2>2. i # executing[e].id => i \in Ids /\ proposals[i].status = "running"
    BY <1>1, <1>9, <2>1 DEF ExecutionMarks, StatusSet, Ids, ProposalsTypeOK, ProposalRows
  <2> QED
    BY <2>1, <2>2 DEF InHands
<1>10. ASSUME NEW e \in Executors, ExecutionRuns(e)
       PROVE  InHands(i)' \/ i \in interrupted' \/ attempts'[i] >= 2
  <2>1. UNCHANGED proposals /\ \A f \in Executors : f # e => executing'[f] = executing[f]
    BY <1>1, <1>10 DEF ExecutionRuns, ExecutionEnds, ExecutionGoes, ProposalsTypeOK
  <2>2. CASE executing[e].id # i
    <3>1. InHands(i) => InHands(i)'
      BY <2>1, <2>2 DEF InHands
    <3> QED
      BY <1>4, <2>1, <3>1 DEF Ids
  <2>3. CASE executing[e].id = i /\ i \in toolRuns
    <3>1. attempts[i] > 0 /\ attempts'[i] = attempts[i] + 1
      BY <1>1, <1>2, <1>10, <2>3 DEF PlacesInv, ExecutionRuns, ProposalsTypeOK
    <3> QED
      BY <1>3, <3>1
  <2>4. CASE executing[e].id = i /\ i \notin toolRuns
    <3>1. executing'[e].id = i /\ executing'[e].at # "read"
      BY <1>1, <1>10, <2>4 DEF ExecutionRuns, ExecutionGoes, ProposalsTypeOK
    <3> QED
      BY <3>1 DEF InHands
  <2> QED
    BY <2>2, <2>3, <2>4
<1>11. ASSUME NEW e \in Executors, ExecutionSettles(e)
       PROVE  i \in Ids /\ proposals[i].status = "running" /\ (InHands(i) => InHands(i)')
  <2>1. /\ \A f \in Executors : f # e => executing'[f] = executing[f]
        /\ executing[e].id \in Ids
    BY <1>1, <1>11 DEF ExecutionSettles, ExecutionEnds, ProposalsTypeOK, PlacesInv
  <2>2. i \in Ids /\ i # executing[e].id /\ proposals[i].status = "running"
    BY <1>1, <1>11, <2>1 DEF ExecutionSettles, StatusSet, Ids, ProposalsTypeOK, ProposalRows
  <2> QED
    BY <2>1, <2>2 DEF InHands
<1>12. ASSUME NEW e \in Executors, ExecutionDies(e)
       PROVE  InHands(i)' \/ i \in interrupted' \/ attempts'[i] >= 2
  <2>1. /\ \A f \in Executors : f # e => executing'[f] = executing[f]
        /\ UNCHANGED proposals /\ executing[e].id \in interrupted'
    BY <1>1, <1>12 DEF ExecutionDies, ProposalsTypeOK
  <2>2. i # executing[e].id => (InHands(i) => InHands(i)')
    BY <2>1 DEF InHands
  <2> QED
    BY <1>4, <2>1, <2>2 DEF Ids
<1>13. ASSUME \/ UserLists \/ UNCHANGED proposalVars
              \/ \E c \in Chats : ChatNumbers(c) \/ \E r \in ToolRequests : ChatIsRefused(c, r)
       PROVE  UNCHANGED <<proposals, executing>>
  BY <1>13 DEF UserLists, proposalVars, ChatIsRefused, ChatNumbers, AskGoes, historyOfUser
<1>14. ASSUME i \in Ids, proposals[i].status = "running", UNCHANGED executing
       PROVE  InHands(i)' \/ i \in interrupted' \/ attempts'[i] >= 2
  BY <1>4, <1>14 DEF InHands
<1>15. CASE \/ UserLists \/ UNCHANGED proposalVars \/ \E j \in Ids : UserApproves(j) \/ UserRejects(j)
            \/ \E c \in Chats : ChatStep(c) \/ \E r \in ToolRequests : ChatIsRefused(c, r)
  BY <1>5, <1>6, <1>7, <1>13, <1>14, <1>15 DEF ChatStep
<1>16. CASE \E e \in Executors : \/ ExecutionStep(e) \/ ExecutionDies(e)
                                 \/ \E j \in Ids : ExecutionReads(e, j)
  BY <1>4, <1>8, <1>9, <1>10, <1>11, <1>12, <1>16 DEF ExecutionStep
<1> QED
  BY <1>15, <1>16 DEF ProposalsNext

\* A row that was there keeps its request unless a proposal is made for its id.
LEMMA RequestsKept ==
  ASSUME ProposalsInv, [ProposalsNext]_proposalVars, ~\E c \in Chats : ChatProposes(c)
  PROVE  /\ Ids' = Ids /\ Len(proposals') = Len(proposals)
         /\ \A i \in Ids : proposals'[i].request = proposals[i].request
<1>1. ProposalsTypeOK /\ PlacesInv
  BY DEF ProposalsInv
<1>2. ASSUME NEW i \in Ids, NEW s \in ProposalStatuses, StatusSet(i, s)
      PROVE  /\ Ids' = Ids /\ Len(proposals') = Len(proposals)
             /\ \A j \in Ids : proposals'[j].request = proposals[j].request
  BY <1>1, <1>2 DEF StatusSet, Ids, ProposalsTypeOK, ProposalRows
<1>3. \/ UNCHANGED proposals
      \/ \E i \in Ids, s \in {"approved", "rejected", "running", "succeeded", "failed"} : StatusSet(i, s)
  <2>1. ASSUME NEW e \in Executors, ExecutionMarks(e) \/ ExecutionSettles(e)
        PROVE  \E i \in Ids, s \in {"running", "succeeded", "failed"} : StatusSet(i, s)
    <3>1. executing[e].id \in Ids
      BY <1>1, <2>1 DEF ExecutionMarks, ExecutionSettles, PlacesInv
    <3> QED
      BY <2>1, <3>1 DEF ExecutionMarks, ExecutionSettles
  <2>2. ASSUME NEW e \in Executors,
               ExecutionRuns(e) \/ ExecutionDies(e) \/ \E i \in Ids : ExecutionReads(e, i)
        PROVE  UNCHANGED proposals
    BY <2>2 DEF ExecutionRuns, ExecutionDies, ExecutionReads
  <2>3. ASSUME NEW i \in Ids, UserApproves(i) \/ UserRejects(i)
        PROVE  \E s \in {"approved", "rejected"} : StatusSet(i, s)
    BY <2>3 DEF UserApproves, UserRejects
  <2>4. ASSUME \/ UserLists \/ UNCHANGED proposalVars
               \/ \E c \in Chats : ChatNumbers(c) \/ \E r \in ToolRequests : ChatIsRefused(c, r)
        PROVE  UNCHANGED proposals
    BY <2>4 DEF UserLists, proposalVars, ChatIsRefused, ChatNumbers
  <2> QED
    BY <2>1, <2>2, <2>3, <2>4 DEF ProposalsNext, ChatStep, ExecutionStep
<1>4. {"approved", "rejected", "running", "succeeded", "failed"} \subseteq ProposalStatuses
  BY DEF ProposalStatuses, Undecided
<1>5. CASE UNCHANGED proposals
  BY <1>5 DEF Ids
<1> QED
  BY <1>2, <1>3, <1>4, <1>5

LEMMA AgreedStep ==
  ASSUME ProposalsInv, [ProposalsNext]_proposalVars
  PROVE  AgreedInv'
<1>1. ProposalsTypeOK /\ PlacesInv /\ AgreedInv
  BY DEF ProposalsInv
<1>2. overlapped => overlapped'
  BY DEF ProposalsNext, proposalVars, UserLists, UserApproves, UserRejects, ChatStep,
         ChatIsRefused, ChatNumbers, ChatProposes, ExecutionStep, ExecutionMarks, ExecutionRuns,
         ExecutionSettles, ExecutionDies, ExecutionReads, ExecutionGoes, ExecutionEnds
<1> SUFFICES ASSUME ~overlapped, ~overlapped'
             PROVE  AgreedInv'
  BY <1>2 DEF AgreedInv
<1> DEFINE InTurn == \A c, d \in Chats : asking[c].at = "numbered" =>
                         /\ asking[c].id = Len(proposals) + 1
                         /\ asking[d].at = "numbered" => c = d
           AsShown == \A i \in ProposalIds : shown[i] # NoRequest => shown[i] = proposals[i].request
           AsAgreed == \A i \in ProposalIds : Approved(i) => proposals[i].request \in agreed[i]
           AsRead == \A e \in Executors : executing[e].at # "idle" =>
                         executing[e].request \in agreed[executing[e].id]
<1>3. InTurn /\ AsShown /\ AsAgreed /\ AsRead
  BY <1>1 DEF AgreedInv
<1>4. ASSUME NEW c \in Chats, ChatProposes(c)
      PROVE  AgreedInv'
  <2>1. /\ asking[c].id = Len(proposals) + 1 /\ asking[c].id \notin Ids
        /\ proposals' = Append(proposals, [status |-> "pending", request |-> asking[c].request])
        /\ Ids = 1 .. Len(proposals)
    BY <1>1, <1>3, <1>4 DEF ChatProposes, Ids, ProposalsTypeOK
  <2>2. \A d \in Chats : asking'[d].at # "numbered"
    BY <1>1, <1>3, <1>4 DEF ChatProposes, AskGoes, Doing, ProposalsTypeOK
  <2>3. UNCHANGED <<shown, agreed, executing>>
    BY <1>4 DEF ChatProposes, AskGoes, historyOfUser
  <2>4. \A i \in Ids : proposals'[i] = proposals[i] /\ i \in Ids'
    BY <1>1, <2>1 DEF Ids, ProposalsTypeOK
  <2>5. \A i \in ProposalIds : Approved(i)' => Approved(i) /\ i \in Ids
    <3> SUFFICES ASSUME NEW i \in ProposalIds, Approved(i)'
                 PROVE  Approved(i) /\ i \in Ids
      OBVIOUS
    <3>1. i \in Ids' /\ proposals'[i].status = "approved"
      BY DEF Approved
    <3>2. i \in Ids
      BY <1>1, <2>1, <3>1 DEF Ids, ProposalsTypeOK
    <3> QED
      BY <2>4, <3>1, <3>2 DEF Approved
  <2>6. AsShown'
    BY <1>1, <1>3, <2>3, <2>4 DEF PlacesInv
  <2>7. AsAgreed' /\ AsRead'
    BY <1>3, <2>3, <2>4, <2>5
  <2> QED
    BY <2>2, <2>6, <2>7 DEF AgreedInv
<1>5. ASSUME ~\E c \in Chats : ChatProposes(c)
      PROVE  AgreedInv'
  <2>1. /\ Ids' = Ids /\ Len(proposals') = Len(proposals)
        /\ \A i \in Ids : proposals'[i].request = proposals[i].request
    BY <1>5, RequestsKept
  <2>2. InTurn'
    <3>1. ASSUME UNCHANGED asking
          PROVE  InTurn'
      BY <1>3, <2>1, <3>1
    <3>2. ASSUME NEW c \in Chats, NEW r \in ToolRequests, ChatIsRefused(c, r)
          PROVE  InTurn'
      BY <1>1, <1>3, <2>1, <3>2 DEF ChatIsRefused, AskGoes, Doing, ProposalsTypeOK
    <3>3. ASSUME NEW c \in Chats, ChatNumbers(c)
          PROVE  InTurn'
      <4>1. /\ asking'[c].id = Len(proposals) + 1
            /\ \A d \in Chats : d # c => asking'[d] = asking[d]
        BY <1>1, <3>3 DEF ChatNumbers, AskGoes, Doing, ProposalsTypeOK
      <4>2. \A d \in Chats : d # c => asking[d].at # "numbered"
        BY <1>3, <3>3 DEF ChatNumbers
      <4> QED
        BY <2>1, <4>1, <4>2
    <3>4. ASSUME \/ UserLists \/ UNCHANGED proposalVars
                 \/ \E i \in Ids : UserApproves(i) \/ UserRejects(i)
                 \/ \E e \in Executors : ExecutionStep(e) \/ ExecutionDies(e)
                                            \/ \E i \in Ids : ExecutionReads(e, i)
          PROVE  UNCHANGED asking
      BY <3>4 DEF UserLists, proposalVars, UserApproves, UserRejects, ExecutionStep,
                  ExecutionMarks, ExecutionRuns, ExecutionSettles, ExecutionDies, ExecutionReads,
                  ExecutionGoes, ExecutionEnds
    <3> HIDE DEF InTurn
    <3> QED
      BY <1>5, <3>1, <3>2, <3>3, <3>4 DEF ProposalsNext, ChatStep
  <2>3. AsShown'
    <3>1. CASE UserLists
      BY <1>1, <1>3, <2>1, <3>1 DEF UserLists, PlacesInv, ProposalsTypeOK
    <3>2. CASE UNCHANGED shown
      BY <1>1, <1>3, <2>1, <3>2 DEF PlacesInv
    <3>3. UserLists \/ UNCHANGED shown
      BY DEF ProposalsNext, proposalVars, UserApproves, UserRejects, ChatStep,
             ChatIsRefused, ChatNumbers, ChatProposes, AskGoes, ExecutionStep, ExecutionMarks,
             ExecutionRuns, ExecutionSettles, ExecutionDies, ExecutionReads, ExecutionGoes,
             ExecutionEnds, historyOfUser
    <3> QED
      BY <3>1, <3>2, <3>3
  <2>4. \A i \in ProposalIds : agreed[i] \subseteq agreed'[i]
    <3>1. CASE \E i \in Ids : UserApproves(i)
      BY <1>1, <3>1 DEF UserApproves, ProposalsTypeOK
    <3>2. CASE UNCHANGED agreed
      BY <3>2
    <3>3. (\E i \in Ids : UserApproves(i)) \/ UNCHANGED agreed
      BY DEF ProposalsNext, proposalVars, UserLists, UserRejects, ChatStep,
             ChatIsRefused, ChatNumbers, ChatProposes, AskGoes, ExecutionStep, ExecutionMarks,
             ExecutionRuns, ExecutionSettles, ExecutionDies, ExecutionReads, ExecutionGoes,
             ExecutionEnds, historyOfUser
    <3> QED
      BY <3>1, <3>2, <3>3
  <2>5. AsAgreed'
    <3> SUFFICES ASSUME NEW i \in ProposalIds, Approved(i)'
                 PROVE  proposals'[i].request \in agreed'[i]
      OBVIOUS
    <3>1. i \in Ids /\ proposals'[i].request = proposals[i].request
      BY <2>1 DEF Approved
    <3>2. CASE UserApproves(i)
      <4>1. shown[i] = proposals[i].request /\ shown[i] \in agreed'[i]
        BY <1>1, <1>3, <3>2 DEF UserApproves, ProposalsTypeOK
      <4> QED
        BY <3>1, <4>1
    <3>3. CASE ~UserApproves(i)
      <4>1. Approved(i)
        <5>1. ASSUME NEW j \in Ids, NEW s \in ProposalStatuses, StatusSet(j, s),
                     j # i \/ s # "approved"
              PROVE  Approved(i)
          BY <1>1, <3>1, <5>1
             DEF StatusSet, Approved, Ids, ProposalsTypeOK, ProposalRows
        <5>2. ASSUME NEW e \in Executors, ExecutionMarks(e) \/ ExecutionSettles(e)
              PROVE  \E j \in Ids, s \in {"running", "succeeded", "failed"} : StatusSet(j, s)
          <6>1. executing[e].id \in Ids
            BY <1>1, <5>2 DEF ExecutionMarks, ExecutionSettles, PlacesInv
          <6> QED
            BY <5>2, <6>1 DEF ExecutionMarks, ExecutionSettles
        <5>3. ASSUME NEW j \in Ids, UserApproves(j) \/ UserRejects(j)
              PROVE  Approved(i)
          <6>1. "approved" \in ProposalStatuses /\ "rejected" \in ProposalStatuses
            BY DEF ProposalStatuses, Undecided
          <6> QED
            BY <3>3, <5>1, <5>3, <6>1 DEF UserApproves, UserRejects
        <5>4. {"running", "succeeded", "failed"} \subseteq ProposalStatuses
          BY DEF ProposalStatuses, Undecided
        <5>5. CASE UNCHANGED proposals
          BY <5>5 DEF Approved, Ids
        <5>6. \/ UNCHANGED proposals
              \/ \E j \in Ids : UserApproves(j) \/ UserRejects(j)
              \/ \E e \in Executors : ExecutionMarks(e) \/ ExecutionSettles(e)
          BY <1>5 DEF ProposalsNext, proposalVars, UserLists, ChatStep, ChatIsRefused,
                      ChatNumbers, ExecutionStep, ExecutionRuns, ExecutionDies, ExecutionReads
        <5> QED
          BY <5>1, <5>2, <5>3, <5>4, <5>5, <5>6
      <4> QED
        BY <1>3, <2>4, <3>1, <4>1
    <3> QED
      BY <3>2, <3>3
  <2>6. AsRead'
    <3> SUFFICES ASSUME NEW e \in Executors, executing'[e].at # "idle"
                 PROVE  executing'[e].request \in agreed'[executing'[e].id]
      OBVIOUS
    <3>1. CASE \E i \in Ids : ExecutionReads(e, i)
      <4>1. PICK i \in Ids : ExecutionReads(e, i)
        BY <3>1
      <4>2. executing'[e].request = proposals[i].request /\ executing'[e].id = i /\ Approved(i)
        BY <1>1, <4>1 DEF ExecutionReads, Doing, Approved, ProposalsTypeOK
      <4>3. i \in ProposalIds
        BY <1>1, ProposalsAssumption DEF Ids, ProposalIds, ProposalsTypeOK
      <4> QED
        BY <1>3, <2>4, <4>2, <4>3
    <3>2. CASE ~\E i \in Ids : ExecutionReads(e, i)
      <4>1. /\ executing[e].at # "idle" /\ executing'[e].request = executing[e].request
            /\ executing'[e].id = executing[e].id
        <5>1. CASE UNCHANGED executing
          BY <5>1
        <5>2. ASSUME NEW f \in Executors, NEW i \in Ids, ExecutionReads(f, i)
              PROVE  executing'[e] = executing[e]
          BY <1>1, <3>2, <5>2 DEF ExecutionReads, ProposalsTypeOK
        <5>3. ASSUME NEW f \in Executors, executing' = [executing EXCEPT ![f] = AtIdle]
              PROVE  executing'[e] = executing[e]
          BY <1>1, <5>3 DEF AtIdle, Doing, ProposalsTypeOK
        <5>4. ASSUME NEW f \in Executors, NEW p \in ExecutePlaces, executing[f].at # "idle",
                     executing' = [executing EXCEPT ![f].at = p]
              PROVE  /\ executing[e].at # "idle" /\ executing'[e].request = executing[e].request
                     /\ executing'[e].id = executing[e].id
          BY <1>1, <5>4 DEF ProposalsTypeOK
        <5>5. ASSUME NEW f \in Executors, ExecutionStep(f) \/ ExecutionDies(f)
              PROVE  /\ executing[e].at # "idle" /\ executing'[e].request = executing[e].request
                     /\ executing'[e].id = executing[e].id
          BY <5>3, <5>4, <5>5 DEF ExecutionStep, ExecutionMarks, ExecutionRuns, ExecutionSettles,
                                  ExecutionDies, ExecutionGoes, ExecutionEnds, ExecutePlaces
        <5>6. \/ UNCHANGED executing
              \/ \E f \in Executors : \/ ExecutionStep(f) \/ ExecutionDies(f)
                                      \/ \E i \in Ids : ExecutionReads(f, i)
          BY <1>5 DEF ProposalsNext, proposalVars, UserLists, UserApproves, UserRejects, ChatStep,
                      ChatIsRefused, ChatNumbers, AskGoes
        <5> QED
          BY <5>1, <5>2, <5>5, <5>6
      <4>2. executing[e].id \in ProposalIds
        BY <1>1, <4>1, ProposalsAssumption DEF PlacesInv, Ids, ProposalIds, ProposalsTypeOK
      <4> QED
        BY <1>3, <2>4, <4>1, <4>2
    <3> QED
      BY <3>1, <3>2
  <2> QED
    BY <2>2, <2>3, <2>5, <2>6 DEF AgreedInv
<1> QED
  BY <1>4, <1>5

LEMMA ProposalsInvariant == ProposalsSpec => []ProposalsInv
<1>1. ProposalsInv /\ [ProposalsNext]_proposalVars => ProposalsInv'
  BY ProposalsTypeStep, PlacesStep, WindowStep, RunningStep, AgreedStep DEF ProposalsInv, ProposalIds
<1> QED
  BY <1>1, ProposalsInitInv, PTL DEF ProposalsSpec

THEOREM ProposalsTypeCorrect == ProposalsSpec => []ProposalsTypeOK
<1>1. ProposalsInv => ProposalsTypeOK
  BY DEF ProposalsInv
<1> QED
  BY <1>1, ProposalsInvariant, PTL

(***************************************************************************)
(* Whatever the number of executors, chats and deaths: an approval buys at *)
(* most one execution per executor, a proposal is left running only by a   *)
(* death or a second execution, and what is executed was shown and agreed  *)
(* to under its id unless two chats held one new number                    *)
(* (proposals.rs:336-370, 430-620).                                        *)
(***************************************************************************)
THEOREM ApprovalsBound == ProposalsSpec => []ApprovalsBoundExecutions
<1>1. ProposalsInv => ApprovalsBoundExecutions
  <2> SUFFICES ASSUME ProposalsInv
               PROVE  ApprovalsBoundExecutions
    OBVIOUS
  <2>1. ASSUME NEW i \in ProposalIds
        PROVE  attempts[i] <= approvals[i] * Cardinality(Executors)
    <3>1. /\ Cardinality(Pending(i)) \in Nat /\ Cardinality(Marked(i)) \in Nat
          /\ Cardinality(Executors) \in Nat
      BY PendingFinite
    <3>2. attempts[i] \in Nat /\ approvals[i] \in Nat /\ Window(i)
      BY DEF ProposalsInv, ProposalsTypeOK
    <3>3. Bought(i) \in Nat
      BY <3>1, <3>2 DEF Bought
    <3>4. attempts[i] <= Bought(i)
      BY <3>1, <3>2, <3>3 DEF Window
    <3> QED
      BY <3>4 DEF Bought
  <2>2. ASSUME NEW i \in Ids, proposals[i].status = "running",
               \A e \in Executors : executing[e].id # i
        PROVE  i \in interrupted \/ attempts[i] >= 2
    BY <2>2 DEF ProposalsInv, RunningInv, InHands
  <2>3. overlapped \/ \A e \in Executors : executing[e].at # "idle" =>
                          executing[e].request \in agreed[executing[e].id]
    BY DEF ProposalsInv, AgreedInv
  <2> QED
    BY <2>1, <2>2, <2>3 DEF ApprovalsBoundExecutions
<1> QED
  BY <1>1, ProposalsInvariant, PTL

----------------------------------------------------------------------------
(* Calls of a model                                                        *)

Fragments == {p.of : p \in {q \in ReplyPayloads : q.kind \in {"text", "call"}}}
Tokens == {CR, LF} \cup ReplyPayloads

LEMMA CountedPositions ==
    ASSUME NEW size \in Nat, NEW S \in SUBSET (1 .. size)
    PROVE  /\ IsFiniteSet(S) /\ Cardinality(S) \in Nat
           /\ \A n \in S : Rank(S, n) \in 1 .. Cardinality(S)
           /\ \A m, n \in S : m < n => Rank(S, m) < Rank(S, n)
<1>0. \A n \in S : n \in Nat
  OBVIOUS
<1>1. IsFiniteSet(S) /\ Cardinality(S) \in Nat
  <2>1. IsFiniteSet(1 .. size)
    BY FS_Interval
  <2>2. IsFiniteSet(S)
    BY <2>1, FS_Subset
  <2> QED
    BY <2>2, FS_CardinalityType
<1>2. ASSUME NEW n \in S
      PROVE  Rank(S, n) \in 1 .. Cardinality(S)
  <2> DEFINE below == {m \in S : m <= n}
  <2>1. below \subseteq S /\ n \in below
    OBVIOUS
  <2>2. IsFiniteSet(below) /\ Cardinality(below) \in Nat /\ Cardinality(below) <= Cardinality(S)
    BY <1>1, <2>1, FS_Subset, FS_CardinalityType
  <2>3. Cardinality(below) # 0
    BY <2>1, <2>2, FS_EmptySet
  <2> QED
    BY <1>1, <2>2, <2>3 DEF Rank
<1>3. ASSUME NEW m \in S, NEW n \in S, m < n
      PROVE  Rank(S, m) < Rank(S, n)
  <2> DEFINE lower == {x \in S : x <= m}
             upper == {x \in S : x <= n}
  <2>1. /\ \A x \in lower : x \in upper
        /\ n \in upper /\ n \notin lower
    BY <1>0, <1>3
  <2>2. IsFiniteSet(upper)
    BY <1>1, FS_Subset
  <2>3. Cardinality(lower) < Cardinality(upper)
    <3>1. lower \in SUBSET upper /\ lower # upper
      BY <2>1
    <3> HIDE DEF lower, upper
    <3> QED
      BY <2>2, <3>1, FS_Subset, FS_CardinalityType
  <2> QED
    BY <2>3 DEF Rank
<1> QED
  BY <1>1, <1>2, <1>3

LEMMA NothingToTell ==
    ASSUME NEW payloads, NEW S \in SUBSET Nat, 0 \notin S
    PROVE  UpTo(S, 0) = {} /\ Tells(<<>>, payloads, UpTo(S, 0))
<1>1. \A n \in S : n \in Nat /\ n # 0
  OBVIOUS
<1>2. \A n \in S : ~ (n <= 0)
  BY <1>1
<1>3. UpTo(S, 0) = {}
  BY <1>2 DEF UpTo
<1> QED
  BY <1>3, FS_EmptySet DEF Tells

LEMMA TellsTheNext ==
    ASSUME NEW T, NEW parts \in Seq(T), NEW payloads, NEW size \in Nat, NEW S \in SUBSET (1 .. size),
           NEW k \in 0 .. size - 1, k + 1 \in S, payloads[k + 1].of \in T,
           Tells(parts, payloads, UpTo(S, k))
    PROVE  Tells(Append(parts, payloads[k + 1].of), payloads, UpTo(S, k + 1))
<1> DEFINE before == UpTo(S, k)
           upto == UpTo(S, k + 1)
           longer == Append(parts, payloads[k + 1].of)
<1>0. \A n \in S : n \in Nat /\ (n <= k + 1 <=> n <= k \/ n = k + 1)
  OBVIOUS
<1>1. upto = before \cup {k + 1} /\ k + 1 \notin before
  <2>1. ~ (k + 1 <= k) /\ k + 1 <= k + 1
    OBVIOUS
  <2>2. \A n \in S : n <= k + 1 <=> n <= k \/ n = k + 1
    BY <1>0
  <2> QED
    BY <2>1, <2>2, Zenon DEF UpTo
<1>2. IsFiniteSet(before) /\ before \in SUBSET (1 .. size) /\ upto \in SUBSET (1 .. size)
  BY CountedPositions DEF UpTo
<1>3. Cardinality(upto) = Cardinality(before) + 1 /\ Cardinality(before) \in Nat
  BY <1>1, <1>2, FS_AddElement, FS_CardinalityType
<1>4. Len(parts) = Cardinality(before)
  BY DEF Tells
<1>5. /\ Len(longer) = Len(parts) + 1 /\ longer[Len(parts) + 1] = payloads[k + 1].of
      /\ \A j \in 1 .. Len(parts) : longer[j] = parts[j]
  OBVIOUS
<1>6. ASSUME NEW n \in upto
      PROVE  longer[Rank(upto, n)] = payloads[n].of
  <2>1. CASE n = k + 1
    <3>1. {m \in upto : m <= n} = upto
      BY <2>1 DEF UpTo
    <3> QED
      BY <1>3, <1>4, <1>5, <2>1, <3>1 DEF Rank
  <2>2. CASE n \in before
    <3>1. {m \in upto : m <= n} = {m \in before : m <= n}
      <4>1. n <= k /\ n \in Nat
        BY <1>0, <2>2 DEF UpTo
      <4>2. \A m \in upto : m <= n => m \in before
        BY <1>0, <4>1 DEF UpTo
      <4> QED
        BY <1>1, <4>2
    <3>2. Rank(upto, n) = Rank(before, n)
      BY <3>1 DEF Rank
    <3>3. Rank(before, n) \in 1 .. Cardinality(before)
      BY <1>2, <2>2, CountedPositions
    <3>4. parts[Rank(before, n)] = payloads[n].of
      BY <2>2 DEF Tells
    <3> QED
      BY <1>4, <1>5, <3>2, <3>3, <3>4
  <2> QED
    BY <1>1, <2>1, <2>2
<1> QED
  BY <1>3, <1>4, <1>5, <1>6 DEF Tells

LEMMA TellsTheSame ==
    ASSUME NEW S \in SUBSET Nat, NEW k \in Nat, k + 1 \notin S
    PROVE  UpTo(S, k + 1) = UpTo(S, k)
<1>1. \A n \in S : n <= k + 1 <=> n <= k
  OBVIOUS
<1> QED
  BY <1>1 DEF UpTo

LEMMA PartsOfTells ==
    ASSUME NEW payloads, NEW size \in Nat, NEW S \in SUBSET (1 .. size)
    PROVE  Tells(PartsOf(payloads, S), payloads, S)
<1>1. /\ Cardinality(S) \in Nat
      /\ \A n \in S : Rank(S, n) \in 1 .. Cardinality(S)
      /\ \A m, n \in S : m < n => Rank(S, m) < Rank(S, n)
  BY CountedPositions
<1>2. Len(PartsOf(payloads, S)) = Cardinality(S)
  BY <1>1 DEF PartsOf
<1>3. ASSUME NEW n \in S
      PROVE  PartsOf(payloads, S)[Rank(S, n)] = payloads[n].of
  <2>1. \A m \in S : Rank(S, m) = Rank(S, n) <=> m = n
    BY <1>1
  <2>2. (CHOOSE m \in S : Rank(S, m) = Rank(S, n)) = n
    BY <2>1
  <2> QED
    BY <1>1, <2>2 DEF PartsOf
<1> QED
  BY <1>2, <1>3 DEF Tells

----------------------------------------------------------------------------
(* What is on the wire                                                     *)

Step(r) == IF r.crlf THEN 5 ELSE 3

LEMMA ReplyFacts ==
    ASSUME NEW r \in ModelReplies
    PROVE  /\ r.crlf \in BOOLEAN /\ r.closed \in BOOLEAN /\ r.payloads \in Seq(ReplyPayloads)
           /\ \A n \in 1 .. Len(r.payloads) :
                 /\ r.payloads[n] \in ReplyPayloads /\ Payload(r.payloads[n])
                 /\ r.payloads[n] # CR /\ r.payloads[n] # LF
                 /\ r.payloads[n] = Done => n = Len(r.payloads)
<1>1. ASSUME NEW n \in 1 .. Len(r.payloads)
      PROVE  /\ Payload(r.payloads[n]) /\ (r.payloads[n] = Done => n = Len(r.payloads))
             /\ r.payloads[n] \in ReplyPayloads
  BY ModelCallsAssumption
<1>2. ASSUME NEW p, Payload(p) PROVE p # CR /\ p # LF
  BY <1>2 DEF Payload, CR, LF, Comment, Done, Text, Piece
<1> QED
  BY <1>1, <1>2, ModelCallsAssumption

\* The token at a place of the wire, counted in events of one payload and its
\* empty line.
LEMMA WireFacts ==
    ASSUME NEW r \in ModelReplies
    PROVE  /\ Step(r) \in {3, 5} /\ Len(r.payloads) \in Nat
           /\ Len(Wire(r)) = IF r.closed \/ Len(r.payloads) = 0 THEN Len(r.payloads) * Step(r)
                             ELSE Len(r.payloads) * Step(r) - (Step(r) - 1)
           /\ Len(Wire(r)) \in Nat /\ Wire(r) = [m \in 1 .. Len(Wire(r)) |-> Wire(r)[m]]
           /\ \A k \in 0 .. Len(r.payloads) - 1, j \in 0 .. Step(r) - 1 :
                 k * Step(r) + 1 + j <= Len(Wire(r)) =>
                    Wire(r)[k * Step(r) + 1 + j] = IF j = 0 THEN r.payloads[k + 1] ELSE Blank(r)[j]
<1> DEFINE n == Len(r.payloads)
<1>1. n \in Nat
  BY ReplyFacts
<1>2. CASE r.crlf
  <2>1. Len(Blank(r)) = 4 /\ Step(r) = 5
    BY <1>2 DEF Blank, Step
  <2> DEFINE length == IF r.closed \/ n * 5 = 0 THEN n * 5 ELSE n * 5 - 4
  <2>2. Wire(r) = [k \in 1 .. length |-> IF k % 5 = 1 THEN r.payloads[k \div 5 + 1]
                                        ELSE Blank(r)[(k - 1) % 5]]
    BY <2>1 DEF Wire
  <2>3. length \in Nat /\ (n * 5 = 0 <=> n = 0)
    BY <1>1
  <2>4. Len(Wire(r)) = length /\ Wire(r) = [m \in 1 .. Len(Wire(r)) |-> Wire(r)[m]]
    <3> HIDE DEF length
    <3>1. Len(Wire(r)) = length
      BY <2>2, <2>3
    <3> QED
      BY <2>2, <3>1
  <2>5. ASSUME NEW k \in 0 .. n - 1, NEW j \in 0 .. 4, k * 5 + 1 + j <= length
        PROVE  Wire(r)[k * 5 + 1 + j] = IF j = 0 THEN r.payloads[k + 1] ELSE Blank(r)[j]
    <3> DEFINE place == k * 5 + 1 + j
    <3>1. place \in 1 .. length /\ (place % 5 = 1 <=> j = 0) /\ (place - 1) % 5 = j
          /\ (j = 0 => place \div 5 = k)
      BY <2>3, <2>5
    <3> HIDE DEF place
    <3>2. Wire(r)[place] = IF place % 5 = 1 THEN r.payloads[place \div 5 + 1]
                           ELSE Blank(r)[(place - 1) % 5]
      BY <2>2, <3>1
    <3>3. Wire(r)[place] = IF j = 0 THEN r.payloads[k + 1] ELSE Blank(r)[j]
      BY <3>1, <3>2
    <3> QED
      BY <3>3 DEF place
  <2> QED
    BY <1>1, <2>1, <2>3, <2>4, <2>5
<1>3. CASE ~r.crlf
  <2>1. Len(Blank(r)) = 2 /\ Step(r) = 3
    BY <1>3 DEF Blank, Step
  <2> DEFINE length == IF r.closed \/ n * 3 = 0 THEN n * 3 ELSE n * 3 - 2
  <2>2. Wire(r) = [k \in 1 .. length |-> IF k % 3 = 1 THEN r.payloads[k \div 3 + 1]
                                        ELSE Blank(r)[(k - 1) % 3]]
    BY <2>1 DEF Wire
  <2>3. length \in Nat /\ (n * 3 = 0 <=> n = 0)
    BY <1>1
  <2>4. Len(Wire(r)) = length /\ Wire(r) = [m \in 1 .. Len(Wire(r)) |-> Wire(r)[m]]
    <3> HIDE DEF length
    <3>1. Len(Wire(r)) = length
      BY <2>2, <2>3
    <3> QED
      BY <2>2, <3>1
  <2>5. ASSUME NEW k \in 0 .. n - 1, NEW j \in 0 .. 2, k * 3 + 1 + j <= length
        PROVE  Wire(r)[k * 3 + 1 + j] = IF j = 0 THEN r.payloads[k + 1] ELSE Blank(r)[j]
    <3> DEFINE place == k * 3 + 1 + j
    <3>1. place \in 1 .. length /\ (place % 3 = 1 <=> j = 0) /\ (place - 1) % 3 = j
          /\ (j = 0 => place \div 3 = k)
      BY <2>3, <2>5
    <3> HIDE DEF place
    <3>2. Wire(r)[place] = IF place % 3 = 1 THEN r.payloads[place \div 3 + 1]
                           ELSE Blank(r)[(place - 1) % 3]
      BY <2>2, <3>1
    <3>3. Wire(r)[place] = IF j = 0 THEN r.payloads[k + 1] ELSE Blank(r)[j]
      BY <3>1, <3>2
    <3> QED
      BY <3>3 DEF place
  <2> QED
    BY <1>1, <2>1, <2>3, <2>4, <2>5
<1> QED
  BY <1>2, <1>3, ReplyFacts

LEMMA WireTokens ==
    ASSUME NEW r \in ModelReplies
    PROVE  Wire(r) \in Seq(Tokens)
<1> DEFINE n == Len(r.payloads)
<1>1. Len(Wire(r)) \in Nat /\ Wire(r) = [k \in 1 .. Len(Wire(r)) |-> Wire(r)[k]]
  BY WireFacts
<1>2. ASSUME NEW m \in 1 .. Len(Wire(r))
      PROVE  Wire(r)[m] \in Tokens
  <2>1. PICK k \in Nat, j \in 0 .. Step(r) - 1 : m = k * Step(r) + 1 + j
    <3>1. CASE r.crlf
      <4>1. (m - 1) \div 5 \in Nat /\ (m - 1) % 5 \in 0 .. 4
            /\ m = ((m - 1) \div 5) * 5 + 1 + ((m - 1) % 5)
        BY <1>1
      <4> QED
        BY <3>1, <4>1 DEF Step
    <3>2. CASE ~r.crlf
      <4>1. (m - 1) \div 3 \in Nat /\ (m - 1) % 3 \in 0 .. 2
            /\ m = ((m - 1) \div 3) * 3 + 1 + ((m - 1) % 3)
        BY <1>1
      <4> QED
        BY <3>2, <4>1 DEF Step
    <3> QED
      BY <3>1, <3>2
  <2>2. k < n
    <3>0. n \in Nat /\ m <= Len(Wire(r))
      BY <1>1, WireFacts
    <3>1. CASE r.crlf
      <4>1. Step(r) = 5
        BY <3>1 DEF Step
      <4>2. Len(Wire(r)) <= n * 5
        BY <3>0, <4>1, WireFacts
      <4>3. m = k * 5 + 1 + j /\ j \in 0 .. 4
        BY <2>1, <4>1
      <4> QED
        BY <3>0, <4>2, <4>3
    <3>2. CASE ~r.crlf
      <4>1. Step(r) = 3
        BY <3>2 DEF Step
      <4>2. Len(Wire(r)) <= n * 3
        BY <3>0, <4>1, WireFacts
      <4>3. m = k * 3 + 1 + j /\ j \in 0 .. 2
        BY <2>1, <4>1
      <4> QED
        BY <3>0, <4>2, <4>3
    <3> QED
      BY <3>1, <3>2
  <2>3. Wire(r)[m] = IF j = 0 THEN r.payloads[k + 1] ELSE Blank(r)[j]
    BY <2>1, <2>2, WireFacts
  <2>4. j # 0 => Blank(r)[j] \in {CR, LF}
    BY <2>1 DEF Blank, Step
  <2>5. r.payloads[k + 1] \in ReplyPayloads
    BY <2>1, <2>2, ReplyFacts, WireFacts
  <2> QED
    BY <2>3, <2>4, <2>5 DEF Tokens
<1> QED
  BY <1>1, <1>2

\* The empty lines are found by their tokens.
LEMMA MarksByTokens ==
    ASSUME NEW b \in Seq(Tokens), NEW i \in DOMAIN b
    PROVE  /\ BeginsAt(<<LF, LF>>, b, i) <=> i + 1 <= Len(b) /\ b[i] = LF /\ b[i + 1] = LF
           /\ BeginsAt(<<CR, LF, CR, LF>>, b, i) <=>
                 /\ i + 3 <= Len(b) /\ b[i] = CR /\ b[i + 1] = LF
                 /\ b[i + 2] = CR /\ b[i + 3] = LF
<1>1. i \in Nat /\ Len(b) \in Nat
  OBVIOUS
<1>2. BeginsAt(<<LF, LF>>, b, i) <=> i + 1 <= Len(b) /\ b[i] = LF /\ b[i + 1] = LF
  <2>1. DOMAIN <<LF, LF>> = {1, 2} /\ Len(<<LF, LF>>) = 2
    OBVIOUS
  <2>2. i + 1 - 1 = i /\ i + 2 - 1 = i + 1
    BY <1>1
  <2> QED
    BY <2>1, <2>2 DEF BeginsAt
<1>3. BeginsAt(<<CR, LF, CR, LF>>, b, i) <=>
         i + 3 <= Len(b) /\ b[i] = CR /\ b[i + 1] = LF /\ b[i + 2] = CR /\ b[i + 3] = LF
  <2>1. DOMAIN <<CR, LF, CR, LF>> = {1, 2, 3, 4} /\ Len(<<CR, LF, CR, LF>>) = 4
    OBVIOUS
  <2>2. i + 1 - 1 = i /\ i + 2 - 1 = i + 1 /\ i + 3 - 1 = i + 2 /\ i + 4 - 1 = i + 3
    BY <1>1
  <2> QED
    BY <2>1, <2>2 DEF BeginsAt
<1> QED
  BY <1>2, <1>3

\* What the buffer holds of the wire from its k-th event on.
HoldsWire(b, r, k) ==
    /\ b \in Seq(Tokens) /\ k \in 0 .. Len(r.payloads)
    /\ k * Step(r) + Len(b) <= Len(Wire(r))
    /\ \A j \in 1 .. Len(b) : b[j] = Wire(r)[k * Step(r) + j]

LEMMA BufferFacts ==
    ASSUME NEW r \in ModelReplies, NEW k, NEW b, HoldsWire(b, r, k)
    PROVE  /\ Len(b) \in Nat
           /\ Len(b) > 0 => k < Len(r.payloads) /\ b[1] = r.payloads[k + 1]
           /\ \A j \in 1 .. Step(r) - 1 : j + 1 <= Len(b) => b[j + 1] = Blank(r)[j]
           /\ Len(b) > Step(r) => k + 1 < Len(r.payloads)
<1> DEFINE n == Len(r.payloads)
<1>1. n \in Nat /\ k \in Nat /\ k <= n /\ Len(b) \in Nat /\ Step(r) \in {3, 5}
      /\ Len(Wire(r)) \in Nat
  BY WireFacts DEF HoldsWire
<1>2. Len(b) > 0 => k < n
  <2>1. CASE Step(r) = 3
    BY <1>1, <2>1, WireFacts DEF HoldsWire
  <2>2. CASE Step(r) = 5
    BY <1>1, <2>2, WireFacts DEF HoldsWire
  <2> QED
    BY <1>1, <2>1, <2>2
<1>3. Len(b) > Step(r) => k + 1 < n
  <2>1. CASE Step(r) = 3
    BY <1>1, <2>1, WireFacts DEF HoldsWire
  <2>2. CASE Step(r) = 5
    BY <1>1, <2>2, WireFacts DEF HoldsWire
  <2> QED
    BY <1>1, <2>1, <2>2
<1>4. ASSUME NEW j \in 0 .. Step(r) - 1, j + 1 <= Len(b)
      PROVE  b[j + 1] = IF j = 0 THEN r.payloads[k + 1] ELSE Blank(r)[j]
  <2>1. b[j + 1] = Wire(r)[k * Step(r) + (j + 1)]
    BY <1>1, <1>4 DEF HoldsWire
  <2>2. k * Step(r) \in Nat
    BY <1>1
  <2>3. k * Step(r) + (j + 1) = k * Step(r) + 1 + j /\ k * Step(r) + 1 + j <= Len(Wire(r))
    BY <1>1, <1>4, <2>2 DEF HoldsWire
  <2>4. k \in 0 .. n - 1
    BY <1>1, <1>2, <1>4
  <2> QED
    BY <2>1, <2>3, <2>4, WireFacts
<1> QED
  BY <1>1, <1>2, <1>3, <1>4

LEMMA MarksFound ==
    ASSUME NEW r \in ModelReplies, NEW k, NEW b, HoldsWire(b, r, k)
    PROVE  /\ Len(b) < Step(r) => Marks(b) = {}
           /\ Len(b) >= Step(r) =>
                 Marks(b) # {} /\ FirstMark(b) = 2 /\ MarkAt(b, 2) = Step(r) - 1
<1>1. Len(b) \in Nat /\ b \in Seq(Tokens) /\ DOMAIN b = 1 .. Len(b)
  BY BufferFacts DEF HoldsWire
<1>2. CR # LF
  BY DEF CR, LF
<1>3. Len(b) > 0 => b[1] # CR /\ b[1] # LF
  <2>1. Len(b) > 0 => k + 1 \in 1 .. Len(r.payloads) /\ b[1] = r.payloads[k + 1]
    <3>1. Len(b) > 0 => k < Len(r.payloads) /\ b[1] = r.payloads[k + 1]
      BY BufferFacts
    <3>2. k \in 0 .. Len(r.payloads) /\ Len(r.payloads) \in Nat
      BY WireFacts DEF HoldsWire
    <3> QED
      BY <3>1, <3>2
  <2> QED
    BY <2>1, ReplyFacts
<1>4. \A i \in DOMAIN b :
         /\ MarkAt(b, i) > 0 <=> BeginsAt(<<CR, LF, CR, LF>>, b, i) \/ BeginsAt(<<LF, LF>>, b, i)
  BY DEF MarkAt
<1>5. Len(b) > 0 => ~ (MarkAt(b, 1) > 0)
  <2> SUFFICES ASSUME Len(b) > 0 PROVE ~ (MarkAt(b, 1) > 0)
    OBVIOUS
  <2>1. 1 \in DOMAIN b
    BY <1>1
  <2>2. ~BeginsAt(<<CR, LF, CR, LF>>, b, 1) /\ ~BeginsAt(<<LF, LF>>, b, 1)
    BY <1>1, <1>3, <2>1, MarksByTokens
  <2> QED
    BY <1>4, <2>1, <2>2
<1>6. CASE r.crlf
  <2>1. Step(r) = 5 /\ Blank(r) = <<CR, LF, CR, LF>>
    BY <1>6 DEF Step, Blank
  <2>2. /\ 2 <= Len(b) => b[2] = CR
        /\ 3 <= Len(b) => b[3] = LF
        /\ 4 <= Len(b) => b[4] = CR
        /\ 5 <= Len(b) => b[5] = LF
    <3>1. \A j \in 1 .. 4 : j + 1 <= Len(b) => b[j + 1] = Blank(r)[j]
      BY <2>1, BufferFacts
    <3>2. /\ 2 <= Len(b) => b[2] = Blank(r)[1]
          /\ 3 <= Len(b) => b[3] = Blank(r)[2]
          /\ 4 <= Len(b) => b[4] = Blank(r)[3]
          /\ 5 <= Len(b) => b[5] = Blank(r)[4]
      BY <1>1, <3>1
    <3> QED
      BY <2>1, <3>2
  <2>3. ASSUME Len(b) < 5, NEW i \in DOMAIN b
        PROVE  ~ (MarkAt(b, i) > 0)
    BY <1>1, <1>2, <1>3, <1>4, <2>2, <2>3, MarksByTokens
  <2>4. ASSUME Len(b) >= 5
        PROVE  2 \in Marks(b) /\ MarkAt(b, 2) = 4 /\ \A i \in Marks(b) : 2 <= i
    <3>1. BeginsAt(<<CR, LF, CR, LF>>, b, 2)
      BY <1>1, <2>2, <2>4, MarksByTokens
    <3> QED
      BY <1>1, <1>5, <2>4, <3>1 DEF MarkAt, Marks
  <2>5. Len(b) >= 5 => FirstMark(b) = 2
    <3> SUFFICES ASSUME Len(b) >= 5 PROVE FirstMark(b) = 2
      OBVIOUS
    <3>1. Marks(b) \subseteq Nat
      BY <1>1 DEF Marks
    <3>2. \A i \in Marks(b) : (\A j \in Marks(b) : i <= j) <=> i = 2
      BY <2>4, <3>1
    <3> QED
      BY <2>4, <3>2 DEF FirstMark
  <2> QED
    BY <2>1, <2>3, <2>4, <2>5 DEF Marks
<1>7. CASE ~r.crlf
  <2>1. Step(r) = 3 /\ Blank(r) = <<LF, LF>>
    BY <1>7 DEF Step, Blank
  <2>2. (2 <= Len(b) => b[2] = LF) /\ (3 <= Len(b) => b[3] = LF)
    <3>1. \A j \in 1 .. 2 : j + 1 <= Len(b) => b[j + 1] = Blank(r)[j]
      BY <2>1, BufferFacts
    <3>2. (2 <= Len(b) => b[2] = Blank(r)[1]) /\ (3 <= Len(b) => b[3] = Blank(r)[2])
      BY <1>1, <3>1
    <3> QED
      BY <2>1, <3>2
  <2>3. ASSUME Len(b) < 3, NEW i \in DOMAIN b
        PROVE  ~ (MarkAt(b, i) > 0)
    BY <1>1, <1>2, <1>3, <1>4, <2>2, <2>3, MarksByTokens
  <2>4. ASSUME Len(b) >= 3
        PROVE  2 \in Marks(b) /\ MarkAt(b, 2) = 2 /\ \A i \in Marks(b) : 2 <= i
    <3>1. BeginsAt(<<LF, LF>>, b, 2) /\ ~BeginsAt(<<CR, LF, CR, LF>>, b, 2)
      BY <1>1, <1>2, <2>2, <2>4, MarksByTokens
    <3> QED
      BY <1>1, <1>5, <2>4, <3>1 DEF MarkAt, Marks
  <2>5. Len(b) >= 3 => FirstMark(b) = 2
    <3> SUFFICES ASSUME Len(b) >= 3 PROVE FirstMark(b) = 2
      OBVIOUS
    <3>1. Marks(b) \subseteq Nat
      BY <1>1 DEF Marks
    <3>2. \A i \in Marks(b) : (\A j \in Marks(b) : i <= j) <=> i = 2
      BY <2>4, <3>1
    <3> QED
      BY <2>4, <3>2 DEF FirstMark
  <2> QED
    BY <2>1, <2>3, <2>4, <2>5 DEF Marks
<1> QED
  BY <1>6, <1>7

\* An event has at most one payload, its first token.
LEMMA EventData ==
    ASSUME NEW raw \in Seq(Tokens), NEW p, Payload(p), Len(raw) > 0, raw[1] = p,
           \A j \in DOMAIN raw : j # 1 => raw[j] \in {CR, LF}
    PROVE  LET data == {i \in DOMAIN raw : IsData(raw[i])}
           IN (data = {} => p = Comment) /\ (data # {} => data = {1})
<1>1. ~IsData(CR) /\ ~IsData(LF)
  BY DEF IsData, CR, LF
<1>2. ~IsData(p) => p = Comment
  BY DEF IsData, Payload, Text, Piece, Done, Comment
<1>3. 1 \in DOMAIN raw
  OBVIOUS
<1> QED
  BY <1>1, <1>2, <1>3

LEMMA EventHandled ==
    ASSUME NEW raw \in Seq(Tokens), NEW p, Payload(p), Len(raw) > 0, raw[1] = p,
           \A j \in DOMAIN raw : j # 1 => raw[j] \in {CR, LF},
           NEW last \in BOOLEAN, Handles(raw, last)
    PROVE  /\ streamed' = IF p.kind = "text" THEN Append(streamed, p.of) ELSE streamed
           /\ last \/ p = Done => Concludes(Applies(answer, p))
           /\ ~ (last \/ p = Done) => answer' = Applies(answer, p) /\ calling' = calling
<1> DEFINE data == {i \in DOMAIN raw : IsData(raw[i])}
           payload == IF data = {} THEN Comment ELSE raw[CHOOSE i \in data : TRUE]
<1>1. (data = {} => p = Comment) /\ (data # {} => data = {1})
  BY EventData
<1>2. payload = p
  BY <1>1
<1>3. ~ \E i, j \in data : i # j
  BY <1>1
<1>4. /\ IF last \/ payload = Done THEN Concludes(Applies(answer, payload))
         ELSE answer' = Applies(answer, payload) /\ UNCHANGED calling
      /\ streamed' = IF payload.kind = "text" THEN Append(streamed, payload.of) ELSE streamed
  BY <1>3, Zenon DEF Handles
<1> HIDE DEF payload
<1> QED
  BY <1>2, <1>4

LEMMA NothingHandled ==
    ASSUME Handles(<<>>, TRUE)
    PROVE  streamed' = streamed /\ Concludes(answer)
<1> DEFINE data == {i \in DOMAIN <<>> : IsData(<<>>[i])}
           payload == IF data = {} THEN Comment ELSE <<>>[CHOOSE i \in data : TRUE]
<1>1. data = {} /\ payload = Comment
  OBVIOUS
<1>2. Applies(answer, Comment) = answer /\ Comment.kind # "text"
  BY DEF Applies, AppliesAnthropic, AppliesOpenAi, Comment
<1>3. /\ Concludes(Applies(answer, payload))
      /\ streamed' = IF payload.kind = "text" THEN Append(streamed, payload.of) ELSE streamed
  <2>1. ~ \E i, j \in data : i # j
    BY <1>1
  <2> QED
    BY <2>1, Zenon DEF Handles
<1> HIDE DEF payload
<1> QED
  BY <1>1, <1>2, <1>3

\* What an answer holds when the first k payloads of its reply were parsed.
Answers == [text : Seq(Fragments), calls : [Indices -> Seq(Fragments)]]

TellsAnswer(ans, r, k) ==
    /\ ans \in Answers /\ k \in 0 .. Len(r.payloads)
    /\ Tells(ans.text, r.payloads, UpTo(Texts(r.payloads), k))
    /\ \A i \in Indices : Tells(ans.calls[i], r.payloads, UpTo(Pieces(r.payloads, i), k))

LEMMA LongerText ==
    ASSUME NEW ans \in Answers, NEW x \in Fragments
    PROVE  LET new == [ans EXCEPT !.text = Append(@, x)]
           IN new \in Answers /\ new.text = Append(ans.text, x) /\ new.calls = ans.calls
<1>1. ans.text \in Seq(Fragments) /\ Append(ans.text, x) \in Seq(Fragments)
  BY DEF Answers
<1> QED
  BY <1>1 DEF Answers

LEMMA LongerCall ==
    ASSUME NEW ans \in Answers, NEW i \in Indices, NEW x \in Fragments
    PROVE  LET new == [ans EXCEPT !.calls[i] = Append(@, x)]
           IN /\ new \in Answers /\ new.text = ans.text
              /\ new.calls[i] = Append(ans.calls[i], x)
              /\ \A j \in Indices : j # i => new.calls[j] = ans.calls[j]
<1>1. ans.calls \in [Indices -> Seq(Fragments)] /\ ans.calls[i] \in Seq(Fragments)
      /\ Append(ans.calls[i], x) \in Seq(Fragments)
  BY DEF Answers
<1>2. [ans.calls EXCEPT ![i] = Append(@, x)] \in [Indices -> Seq(Fragments)]
  BY <1>1
<1> QED
  BY <1>1, <1>2 DEF Answers

LEMMA AnswerOfNext ==
    ASSUME NEW r \in ModelReplies, NEW k, NEW ans, TellsAnswer(ans, r, k), k < Len(r.payloads)
    PROVE  /\ TellsAnswer(Applies(ans, r.payloads[k + 1]), r, k + 1)
           /\ Applies(ans, r.payloads[k + 1]).text =
                 IF r.payloads[k + 1].kind = "text" THEN Append(ans.text, r.payloads[k + 1].of)
                 ELSE ans.text
<1> DEFINE p == r.payloads[k + 1]
           n == Len(r.payloads)
<1>0. ans \in Answers
  BY DEF TellsAnswer
<1>1. k \in Nat /\ n \in Nat /\ k + 1 \in 1 .. n /\ k \in 0 .. n - 1 /\ DOMAIN r.payloads = 1 .. n
  BY ReplyFacts DEF TellsAnswer
<1>2. Payload(p) /\ p \in ReplyPayloads
  BY <1>1, ReplyFacts
<1>3. Texts(r.payloads) \in SUBSET (1 .. n) /\ \A i \in Indices : Pieces(r.payloads, i) \in SUBSET (1 .. n)
  BY <1>1 DEF Texts, Pieces
<1>4. p.kind \in {"text", "call"} => p.of \in Fragments
  BY <1>2 DEF Fragments
<1>5. ans.text \in Seq(Fragments) /\ ans.calls \in [Indices -> Seq(Fragments)]
  BY DEF TellsAnswer, Answers
<1>6. CASE p.kind = "text"
  <2>0. p.of \in Fragments
    BY <1>4, <1>6
  <2>1. Applies(ans, p) = [ans EXCEPT !.text = Append(@, p.of)]
    BY <1>6 DEF Applies, AppliesAnthropic, AppliesOpenAi
  <2> DEFINE new == [ans EXCEPT !.text = Append(@, p.of)]
  <2>2. new \in Answers /\ new.text = Append(ans.text, p.of) /\ new.calls = ans.calls
    BY <1>0, <2>0, LongerText
  <2>3. Tells(new.text, r.payloads, UpTo(Texts(r.payloads), k + 1))
    <3>1. k + 1 \in Texts(r.payloads)
      BY <1>1, <1>6 DEF Texts
    <3>2. Tells(ans.text, r.payloads, UpTo(Texts(r.payloads), k))
      BY DEF TellsAnswer
    <3> QED
      <4>1. Tells(Append(ans.text, r.payloads[k + 1].of), r.payloads,
                  UpTo(Texts(r.payloads), k + 1))
        BY <1>1, <1>3, <2>0, <1>5, <3>1, <3>2, TellsTheNext
      <4> QED
        BY <2>2, <4>1
  <2>4. ASSUME NEW i \in Indices
        PROVE  Tells(new.calls[i], r.payloads, UpTo(Pieces(r.payloads, i), k + 1))
    <3>1. k + 1 \notin Pieces(r.payloads, i)
      BY <1>6 DEF Pieces
    <3>2. UpTo(Pieces(r.payloads, i), k + 1) = UpTo(Pieces(r.payloads, i), k)
      BY <1>1, <1>3, <3>1, TellsTheSame
    <3> QED
      BY <2>2, <3>2 DEF TellsAnswer
  <2> QED
    BY <1>1, <1>6, <2>1, <2>2, <2>3, <2>4 DEF TellsAnswer
<1>7. CASE p.kind = "call"
  <2>0. p.of \in Fragments
    BY <1>4, <1>7
  <2> DEFINE x == p.index
             parts == ans.calls[x]
  <2>1. x \in Indices
    BY <1>2, <1>7 DEF Payload, Text, Comment, Done, Piece
  <2>2. k + 1 \in Pieces(r.payloads, x) /\ k + 1 \notin Texts(r.payloads)
        /\ \A i \in Indices \ {x} : k + 1 \notin Pieces(r.payloads, i)
    BY <1>1, <1>7 DEF Texts, Pieces
  <2>3. parts \in Seq(Fragments) /\ Tells(parts, r.payloads, UpTo(Pieces(r.payloads, x), k))
    BY <1>5, <2>1 DEF TellsAnswer
  <2>4. Applies(ans, p) = [ans EXCEPT !.calls[x] = Append(@, p.of)]
    <3>1. CASE ~ (request.protocol # "openai" /\ p.of = "name")
      BY <1>7, <3>1 DEF Applies, AppliesAnthropic, AppliesOpenAi
    <3>2. CASE request.protocol # "openai" /\ p.of = "name"
      <4>1. \A m \in Pieces(r.payloads, x) : k + 1 <= m
        BY <2>1, <2>2, <3>2, ModelCallsAssumption
      <4>2. UpTo(Pieces(r.payloads, x), k) = {}
        BY <1>1, <1>3, <2>1, <4>1 DEF UpTo
      <4>3. Len(parts) = 0
        BY <2>3, <4>2, FS_EmptySet DEF Tells
      <4>4. parts = <<>>
        BY <2>3, <4>3
      <4>5. Named(parts) = Append(parts, p.of)
        BY <3>2, <4>4 DEF Named, Contains
      <4>6. Applies(ans, p) = [ans EXCEPT !.calls[x] = Named(@)]
        BY <1>7, <3>2 DEF Applies, AppliesAnthropic
      <4> QED
        BY <4>5, <4>6
    <3> QED
      BY <3>1, <3>2
  <2> DEFINE new == [ans EXCEPT !.calls[x] = Append(@, p.of)]
  <2>5. /\ new \in Answers /\ new.text = ans.text /\ new.calls[x] = Append(parts, p.of)
        /\ \A i \in Indices \ {x} : new.calls[i] = ans.calls[i]
    <3>1. \A i \in Indices \ {x} : i # x
      OBVIOUS
    <3> QED
      BY <1>0, <2>0, <2>1, <3>1, LongerCall
  <2>6. Tells(new.calls[x], r.payloads, UpTo(Pieces(r.payloads, x), k + 1))
    <3>1. Tells(Append(parts, r.payloads[k + 1].of), r.payloads,
                UpTo(Pieces(r.payloads, x), k + 1))
      <4>1. Pieces(r.payloads, x) \in SUBSET (1 .. n)
        BY <1>3, <2>1
      <4> HIDE DEF x, parts
      <4> QED
        BY <1>1, <2>0, <2>2, <2>3, <4>1, TellsTheNext
    <3> QED
      BY <2>5, <3>1
  <2>7. ASSUME NEW i \in Indices \ {x}
        PROVE  Tells(new.calls[i], r.payloads, UpTo(Pieces(r.payloads, i), k + 1))
    <3>1. UpTo(Pieces(r.payloads, i), k + 1) = UpTo(Pieces(r.payloads, i), k)
      BY <1>1, <1>3, <2>2, TellsTheSame
    <3> QED
      BY <2>5, <3>1 DEF TellsAnswer
  <2>8. Tells(new.text, r.payloads, UpTo(Texts(r.payloads), k + 1))
    <3>1. UpTo(Texts(r.payloads), k + 1) = UpTo(Texts(r.payloads), k)
      BY <1>1, <1>3, <2>2, TellsTheSame
    <3> QED
      BY <2>5, <3>1 DEF TellsAnswer
  <2>9. TellsAnswer(new, r, k + 1)
    <3> HIDE DEF new
    <3>1. \A i \in Indices : Tells(new.calls[i], r.payloads, UpTo(Pieces(r.payloads, i), k + 1))
      BY <2>6, <2>7
    <3> QED
      BY <1>1, <2>5, <2>8, <3>1 DEF TellsAnswer
  <2> QED
    BY <1>7, <2>4, <2>5, <2>9
<1>8. CASE p.kind \notin {"text", "call"}
  <2>1. Applies(ans, p) = ans
    BY <1>8 DEF Applies, AppliesAnthropic, AppliesOpenAi
  <2>2. k + 1 \notin Texts(r.payloads) /\ \A i \in Indices : k + 1 \notin Pieces(r.payloads, i)
    BY <1>8 DEF Texts, Pieces
  <2>3. /\ UpTo(Texts(r.payloads), k + 1) = UpTo(Texts(r.payloads), k)
        /\ \A i \in Indices : UpTo(Pieces(r.payloads, i), k + 1) = UpTo(Pieces(r.payloads, i), k)
    BY <1>1, <1>3, <2>2, TellsTheSame
  <2> QED
    BY <1>1, <1>8, <2>1, <2>3 DEF TellsAnswer
<1> QED
  BY <1>6, <1>7, <1>8

\* When all payloads were parsed, the answer is the reply, and each of its
\* calls has a name.
LEMMA WholeAnswer ==
    ASSUME NEW r \in ModelReplies, NEW ans, TellsAnswer(ans, r, Len(r.payloads))
    PROVE  /\ Tells(ans.text, r.payloads, Texts(r.payloads))
           /\ \A i \in Indices : Tells(ans.calls[i], r.payloads, Pieces(r.payloads, i))
           /\ \A i \in Indices : ~Nameless(ans, i)
<1> DEFINE n == Len(r.payloads)
<1>1. n \in Nat /\ DOMAIN r.payloads = 1 .. n
  BY ReplyFacts
<1>2. Texts(r.payloads) \in SUBSET (1 .. n) /\ \A i \in Indices : Pieces(r.payloads, i) \in SUBSET (1 .. n)
  BY <1>1 DEF Texts, Pieces
<1>3. \A S \in SUBSET (1 .. n) : UpTo(S, n) = S
  <2> TAKE S \in SUBSET (1 .. n)
  <2>1. \A m \in S : m <= n
    BY <1>1
  <2> QED
    BY <2>1, Zenon DEF UpTo
<1>4. /\ Tells(ans.text, r.payloads, Texts(r.payloads))
      /\ \A i \in Indices : Tells(ans.calls[i], r.payloads, Pieces(r.payloads, i))
  BY <1>2, <1>3 DEF TellsAnswer
<1>5. ASSUME NEW i \in Indices, Nameless(ans, i)
      PROVE  FALSE
  <2> DEFINE S == Pieces(r.payloads, i)
             parts == ans.calls[i]
  <2>1. parts \in Seq(Fragments) /\ parts # <<>>
    BY <1>5 DEF TellsAnswer, Answers, Nameless
  <2>2. S \in SUBSET (1 .. n) /\ Tells(parts, r.payloads, S)
    BY <1>2, <1>4
  <2>3. S # {}
    <3>1. Len(parts) # 0
      BY <2>1
    <3> QED
      BY <2>2, <3>1, FS_EmptySet DEF Tells
  <2>4. PICK first \in S : r.payloads[first].of = "name"
    BY <2>3, ModelCallsAssumption
  <2>5. Rank(S, first) \in 1 .. Len(parts) /\ parts[Rank(S, first)] = "name"
    BY <1>1, <2>2, <2>4, CountedPositions DEF Tells
  <2> QED
    BY <1>5, <2>5 DEF Nameless, Contains
<1> QED
  BY <1>4, <1>5

----------------------------------------------------------------------------
(* The ways to ask                                                         *)

Ways == Schemes \X Fields
Has(items, item) == \E n \in DOMAIN items : items[n] = item

LEMMA Pushed ==
    ASSUME NEW items \in Seq(Ways), NEW item \in Ways
    PROVE  /\ PushUnique(items, item) \in Seq(Ways) /\ Has(PushUnique(items, item), item)
           /\ \A x : Has(items, x) => Has(PushUnique(items, item), x)
<1>1. CASE Contains(items, item)
  BY <1>1 DEF PushUnique, Contains, Has
<1>2. CASE ~Contains(items, item)
  <2> DEFINE new == Append(items, item)
  <2>1. /\ new \in Seq(Ways) /\ Len(new) = Len(items) + 1 /\ new[Len(items) + 1] = item
        /\ \A j \in 1 .. Len(items) : new[j] = items[j]
        /\ Len(items) \in Nat /\ DOMAIN items = 1 .. Len(items) /\ DOMAIN new = 1 .. Len(new)
    OBVIOUS
  <2> HIDE DEF new
  <2>2. Has(new, item) /\ \A x : Has(items, x) => Has(new, x)
    BY <2>1 DEF Has
  <2> QED
    BY <1>2, <2>1, <2>2 DEF PushUnique, new
<1> QED
  BY <1>1, <1>2

LEMMA PushedBoth ==
    ASSUME NEW items \in Seq(Ways), NEW auth \in Schemes, NEW field \in Fields
    PROVE  /\ PushBoth(items, auth, field) \in Seq(Ways)
           /\ \A f \in Fields : Has(PushBoth(items, auth, field), <<auth, f>>)
           /\ \A x : Has(items, x) => Has(PushBoth(items, auth, field), x)
<1>1. Alternate(field) \in Fields /\ \A f \in Fields : f = field \/ f = Alternate(field)
  BY DEF Fields, Alternate
<1>2. <<auth, field>> \in Ways /\ <<auth, Alternate(field)>> \in Ways
  BY <1>1 DEF Ways
<1> DEFINE one == PushUnique(items, <<auth, field>>)
<1>3. /\ one \in Seq(Ways) /\ Has(one, <<auth, field>>)
      /\ \A x : Has(items, x) => Has(one, x)
  BY <1>2, Pushed
<1> HIDE DEF one
<1> DEFINE two == PushUnique(one, <<auth, Alternate(field)>>)
<1>4. /\ two \in Seq(Ways) /\ Has(two, <<auth, Alternate(field)>>)
      /\ \A x : Has(one, x) => Has(two, x)
  BY <1>2, <1>3, Pushed
<1>5. two = PushBoth(items, auth, field)
  BY DEF one, PushBoth
<1> HIDE DEF two
<1>6. \A f \in Fields : Has(two, <<auth, f>>)
  BY <1>1, <1>3, <1>4
<1> QED
  BY <1>3, <1>4, <1>5, <1>6

\* A call asks in the way it prefers, with either field if there are two, and
\* with a key in every way there is.
LEMMA AttemptsSuffice ==
    ASSUME NEW r \in ModelRequests
    PROVE  /\ AttemptsOf(r) \in Seq(Ways) /\ AttemptsOf(r) # <<>>
           /\ \A auth \in Schemes, field \in Fields : r.keyed \/ auth = r.auth =>
                 IF r.protocol = "openai" THEN Has(AttemptsOf(r), <<auth, field>>)
                 ELSE Has(AttemptsOf(r), <<auth, r.field>>)
<1>1. /\ r.auth \in Schemes /\ r.field \in Fields /\ r.keyed \in BOOLEAN
      /\ Schemes = {"bearer", "api-key", "x-api-key"}
  BY ModelCallsAssumption DEF Schemes
<1>2. <<>> \in Seq(Ways)
  OBVIOUS
<1>3. CASE r.protocol = "openai"
  <2> DEFINE first == PushBoth(<<>>, r.auth, r.field)
  <2>1. first \in Seq(Ways) /\ \A f \in Fields : Has(first, <<r.auth, f>>)
    BY <1>1, <1>2, PushedBoth
  <2> HIDE DEF first
  <2> DEFINE bearer == PushBoth(first, "bearer", r.field)
  <2>2. /\ bearer \in Seq(Ways) /\ \A f \in Fields : Has(bearer, <<"bearer", f>>)
        /\ \A x : Has(first, x) => Has(bearer, x)
    BY <1>1, <2>1, PushedBoth
  <2> HIDE DEF bearer
  <2> DEFINE apiKey == PushBoth(bearer, "api-key", r.field)
  <2>3. /\ apiKey \in Seq(Ways) /\ \A f \in Fields : Has(apiKey, <<"api-key", f>>)
        /\ \A x : Has(bearer, x) => Has(apiKey, x)
    BY <1>1, <2>2, PushedBoth
  <2> HIDE DEF apiKey
  <2> DEFINE all == PushBoth(apiKey, "x-api-key", r.field)
  <2>4. /\ all \in Seq(Ways) /\ \A f \in Fields : Has(all, <<"x-api-key", f>>)
        /\ \A x : Has(apiKey, x) => Has(all, x)
    BY <1>1, <2>3, PushedBoth
  <2> HIDE DEF all
  <2>5. AttemptsOf(r) = IF r.keyed THEN all ELSE first
    BY <1>3 DEF AttemptsOf, OpenAiAttempts, first, bearer, apiKey, all
  <2>6. \A auth \in Schemes, f \in Fields :
           /\ Has(all, <<auth, f>>)
           /\ auth = r.auth => Has(first, <<auth, f>>)
    BY <1>1, <2>1, <2>2, <2>3, <2>4
  <2>7. first # <<>> /\ all # <<>>
    BY <1>1, <2>6 DEF Has
  <2> QED
    BY <1>1, <1>3, <2>1, <2>4, <2>5, <2>6, <2>7
<1>4. CASE r.protocol # "openai"
  <2>1. \A auth \in Schemes : <<auth, r.field>> \in Ways
    BY <1>1 DEF Ways
  <2> DEFINE first == << <<r.auth, r.field>> >>
  <2>2. first \in Seq(Ways) /\ Has(first, <<r.auth, r.field>>)
    <3>1. first \in Seq(Ways) /\ 1 \in DOMAIN first /\ first[1] = <<r.auth, r.field>>
      BY <1>1, <2>1
    <3> QED
      BY <3>1 DEF Has
  <2> HIDE DEF first
  <2> DEFINE own == PushUnique(first, <<"x-api-key", r.field>>)
  <2>3. /\ own \in Seq(Ways) /\ Has(own, <<"x-api-key", r.field>>)
        /\ \A x : Has(first, x) => Has(own, x)
    BY <1>1, <2>1, <2>2, Pushed
  <2> HIDE DEF own
  <2> DEFINE apiKey == PushUnique(own, <<"api-key", r.field>>)
  <2>4. /\ apiKey \in Seq(Ways) /\ Has(apiKey, <<"api-key", r.field>>)
        /\ \A x : Has(own, x) => Has(apiKey, x)
    BY <1>1, <2>1, <2>3, Pushed
  <2> HIDE DEF apiKey
  <2> DEFINE all == PushUnique(apiKey, <<"bearer", r.field>>)
  <2>5. /\ all \in Seq(Ways) /\ Has(all, <<"bearer", r.field>>)
        /\ \A x : Has(apiKey, x) => Has(all, x)
    BY <1>1, <2>1, <2>4, Pushed
  <2> HIDE DEF all
  <2>6. AttemptsOf(r) = IF r.keyed THEN all ELSE first
    BY <1>4 DEF AttemptsOf, AnthropicAttempts, first, own, apiKey, all
  <2>7. \A auth \in Schemes :
           /\ Has(all, <<auth, r.field>>)
           /\ auth = r.auth => Has(first, <<auth, r.field>>)
    BY <1>1, <2>2, <2>3, <2>4, <2>5
  <2>8. first # <<>> /\ all # <<>>
    BY <1>1, <2>7 DEF Has
  <2> QED
    BY <1>1, <1>4, <2>2, <2>5, <2>6, <2>7, <2>8
<1> QED
  BY <1>3, <1>4

----------------------------------------------------------------------------
(* The inductive invariant                                                 *)

\* The wire goes on, after what is in the buffer, with rest.
Follows(rest, b, r, k) ==
    /\ HoldsWire(b, r, k) /\ rest \in Seq(Tokens)
    /\ k * Step(r) + Len(b) + Len(rest) = Len(Wire(r))
    /\ \A j \in 1 .. Len(rest) : rest[j] = Wire(r)[k * Step(r) + Len(b) + j]

\* The buffer and what comes after it are the wire from the k-th event on,
\* all of it unless the connection was closed.
Ahead(k) ==
    /\ HoldsWire(buffer, reply, k)
    /\ IF cut THEN incoming = <<>> ELSE Follows(incoming, buffer, reply, k)

ReadingInv ==
    /\ reply \in ModelReplies /\ request.streaming /\ streamed = answer.text
    /\ \E k \in 0 .. Len(reply.payloads) : TellsAnswer(answer, reply, k) /\ Ahead(k)

\* While refused, a call that can succeed still has a way that is accepted.
AskingInv ==
    /\ request \in ModelRequests /\ ways # <<>>
    /\ request.keyed \/ provider.auth = "none" =>
          \E n \in DOMAIN ways : Accepts(ways[n])

NotAnswered ==
    /\ reply = NoReply /\ answer = NoAnswer /\ streamed = <<>>
    /\ buffer = <<>> /\ incoming = <<>> /\ ~cut

ModelTypes ==
    /\ request \in ModelRequests \cup {NoAsk}
    /\ provider \in [auth : Schemes \cup {"none"}, field : Fields]
    /\ ways \in Seq(Ways)
    /\ calling \in {"idle", "asking", "reading", "returned", "failed"}
    /\ reply \in ModelReplies \cup {NoReply}
    /\ incoming \in Seq(Tokens) /\ buffer \in Seq(Tokens)
    /\ streamed \in Seq(Fragments) /\ \A i \in DOMAIN streamed : Text(streamed[i]) \in ReplyPayloads
    /\ cut \in BOOLEAN /\ broken \in BOOLEAN

ModelInv ==
    /\ ModelTypes
    /\ calling \in {"idle", "asking"} => NotAnswered
    /\ calling = "asking" => AskingInv
    /\ calling = "reading" => ReadingInv /\ request \in ModelRequests
    /\ AnswersMatchReplies

LEMMA NothingIsSaid ==
    /\ NoReply.payloads = <<>> /\ NoAnswer \in Answers
    /\ \A r \in ModelReplies \cup {NoReply} :
          /\ Len(r.payloads) \in Nat /\ Texts(r.payloads) \in SUBSET Nat
          /\ 0 \notin Texts(r.payloads)
          /\ Tells(<<>>, r.payloads, UpTo(Texts(r.payloads), 0))
    /\ \A r \in ModelReplies : TellsAnswer(NoAnswer, r, 0)
<1>1. NoReply.payloads = <<>> /\ NoAnswer \in Answers
  BY DEF NoReply, NoAnswer, Answers
<1>2. ASSUME NEW r \in ModelReplies \cup {NoReply}
      PROVE  /\ Len(r.payloads) \in Nat /\ DOMAIN r.payloads = 1 .. Len(r.payloads)
             /\ \A i \in Indices : Pieces(r.payloads, i) \in SUBSET Nat /\ 0 \notin Pieces(r.payloads, i)
             /\ Texts(r.payloads) \in SUBSET Nat /\ 0 \notin Texts(r.payloads)
  <2>1. r.payloads \in Seq(ReplyPayloads)
    <3>1. CASE r \in ModelReplies
      BY <3>1, ReplyFacts
    <3>2. CASE r = NoReply
      <4>1. r.payloads = <<>>
        BY <1>1, <3>2
      <4> QED
        BY <4>1
    <3> QED
      BY <3>1, <3>2
  <2> QED
    BY <2>1 DEF Texts, Pieces
<1>3. ASSUME NEW r \in ModelReplies \cup {NoReply}
      PROVE  Tells(<<>>, r.payloads, UpTo(Texts(r.payloads), 0))
  BY <1>2, NothingToTell
<1>4. ASSUME NEW r \in ModelReplies
      PROVE  TellsAnswer(NoAnswer, r, 0)
  <2>1. NoAnswer.text = <<>> /\ \A i \in Indices : NoAnswer.calls[i] = <<>>
    BY DEF NoAnswer
  <2>2. \A i \in Indices : Tells(<<>>, r.payloads, UpTo(Pieces(r.payloads, i), 0))
    BY <1>2, NothingToTell
  <2> QED
    BY <1>1, <1>2, <1>3, <2>1, <2>2 DEF TellsAnswer
<1> QED
  BY <1>1, <1>2, <1>3, <1>4

LEMMA UntouchedMatches ==
    ASSUME NotAnswered, reply \in ModelReplies \cup {NoReply},
           calling \in {"idle", "asking", "reading"} \/ (calling = "failed" /\ broken)
    PROVE  AnswersMatchReplies
<1>1. 0 \in 0 .. Len(reply.payloads)
  BY NothingIsSaid
<1>2. Tells(streamed, reply.payloads, UpTo(Texts(reply.payloads), 0))
  BY NothingIsSaid DEF NotAnswered
<1> QED
  BY <1>1, <1>2 DEF AnswersMatchReplies

LEMMA ModelInitInv == ModelCallsInit => ModelInv
<1> SUFFICES ASSUME ModelCallsInit PROVE ModelInv
  OBVIOUS
<1>1. ModelTypes
  <2>1. cut \in BOOLEAN /\ broken \in BOOLEAN
    BY Zenon DEF ModelCallsInit
  <2>2. provider \in [auth : Schemes \cup {"none"}, field : Fields]
    BY DEF ModelCallsInit, AnyProvider, Fields
  <2>3. /\ ways \in Seq(Ways) /\ incoming \in Seq(Tokens) /\ buffer \in Seq(Tokens)
        /\ streamed \in Seq(Fragments) /\ DOMAIN streamed = {}
    BY DEF ModelCallsInit
  <2>4. /\ request \in ModelRequests \cup {NoAsk} /\ reply \in ModelReplies \cup {NoReply}
        /\ calling \in {"idle", "asking", "reading", "returned", "failed"}
    BY DEF ModelCallsInit
  <2> QED
    BY <2>1, <2>2, <2>3, <2>4 DEF ModelTypes
<1>2. NotAnswered
  BY DEF ModelCallsInit, NotAnswered
<1>3. AnswersMatchReplies
  BY <1>1, <1>2, UntouchedMatches DEF ModelCallsInit, ModelTypes
<1> QED
  BY <1>1, <1>2, <1>3 DEF ModelInv, ModelCallsInit

\* An answer whose calls have names is returned as it is; any answer ends the call.
LEMMA Concluded ==
    ASSUME NEW ans \in Answers, Concludes(ans)
    PROVE  /\ calling' \in {"returned", "failed"}
           /\ (\A i \in Indices : ~Nameless(ans, i)) =>
                 /\ calling' = "returned" /\ answer'.text = ans.text
                 /\ \A i \in Indices : answer'.calls[i] = ans.calls[i]
<1>1. calling' \in {"returned", "failed"}
  BY DEF Concludes
<1>2. ASSUME \A i \in Indices : ~Nameless(ans, i)
      PROVE  /\ calling' = "returned" /\ answer'.text = ans.text
             /\ \A i \in Indices : answer'.calls[i] = ans.calls[i]
  <2>1. /\ calling' = "returned"
        /\ answer' = [ans EXCEPT !.calls =
                         [i \in Indices |-> IF Nameless(ans, i) THEN <<>> ELSE @[i]]]
    BY <1>2, Zenon DEF Concludes
  <2> DEFINE kept == [i \in Indices |-> IF Nameless(ans, i) THEN <<>> ELSE ans.calls[i]]
  <2>2. answer' = [ans EXCEPT !.calls = kept]
    BY <2>1, Zenon
  <2>3. \A i \in Indices : kept[i] = ans.calls[i]
    BY <1>2
  <2> HIDE DEF kept
  <2>4. answer'.text = ans.text /\ answer'.calls = kept
    BY <2>2 DEF Answers
  <2> QED
    BY <2>1, <2>3, <2>4
<1> QED
  BY <1>1, <1>2

\* A reply's texts are what the user may be texts.
LEMMA TextsAreSaid ==
    ASSUME NEW p \in ReplyPayloads, Payload(p), p.kind = "text", NEW texts \in Seq(Fragments),
           \A i \in DOMAIN texts : Text(texts[i]) \in ReplyPayloads
    PROVE  /\ Append(texts, p.of) \in Seq(Fragments)
           /\ \A i \in DOMAIN Append(texts, p.of) : Text(Append(texts, p.of)[i]) \in ReplyPayloads
<1>1. p = Text(p.of)
  BY DEF Payload, Comment, Done, Text, Piece
<1>2. p.of \in Fragments
  BY DEF Fragments
<1> DEFINE new == Append(texts, p.of)
<1>3. /\ new \in Seq(Fragments) /\ DOMAIN new = 1 .. Len(texts) + 1 /\ new[Len(texts) + 1] = p.of
      /\ \A i \in 1 .. Len(texts) : new[i] = texts[i]
      /\ DOMAIN texts = 1 .. Len(texts) /\ Len(texts) \in Nat
  BY <1>2
<1> HIDE DEF new
<1>4. \A i \in 1 .. Len(texts) + 1 : i \in 1 .. Len(texts) \/ i = Len(texts) + 1
  BY <1>3
<1>5. Text(new[Len(texts) + 1]) \in ReplyPayloads
  BY <1>1, <1>3
<1>6. \A i \in 1 .. Len(texts) : Text(new[i]) \in ReplyPayloads
  BY <1>3
<1> QED
  BY <1>3, <1>4, <1>5, <1>6 DEF new

LEMMA CallsInv ==
    ASSUME ModelInv, Calls
    PROVE  ModelInv'
<1>1. PICK r \in ModelRequests : request' = r /\ ways' = AttemptsOf(r)
  BY DEF Calls
<1>2. /\ calling = "idle" /\ calling' = "asking" /\ NotAnswered
      /\ provider' \in [auth : Schemes \cup {"none"}, field : Fields]
      /\ reply' = reply /\ incoming' = incoming /\ buffer' = buffer /\ answer' = answer
      /\ streamed' = streamed /\ cut' = cut /\ broken' = broken
  BY DEF Calls, ModelInv
<1>3. NotAnswered'
  BY <1>2 DEF NotAnswered
<1>4. ModelTypes'
  <2>1. cut' \in BOOLEAN /\ broken' \in BOOLEAN
    BY <1>2, Zenon DEF ModelInv, ModelTypes
  <2>2. ways' \in Seq(Ways) /\ request' \in ModelRequests \cup {NoAsk}
    BY <1>1, AttemptsSuffice
  <2> QED
    BY <1>2, <2>1, <2>2 DEF ModelInv, ModelTypes
<1>5. AskingInv'
  <2>1. request' \in ModelRequests /\ ways' # <<>>
    BY <1>1, AttemptsSuffice
  <2>2. ASSUME r.keyed \/ provider'.auth = "none"
        PROVE  \E n \in DOMAIN ways' : Accepts(ways[n])'
    <3> DEFINE auth == IF provider'.auth = "none" THEN r.auth ELSE provider'.auth
               field == IF r.protocol = "openai" THEN provider'.field ELSE r.field
    <3>1. auth \in Schemes /\ provider'.field \in Fields /\ (r.keyed \/ auth = r.auth)
      BY <1>2, <2>2, ModelCallsAssumption DEF Schemes
    <3>2. Has(ways', <<auth, field>>)
      BY <1>1, <3>1, AttemptsSuffice
    <3>3. \A way : way = <<auth, field>> =>
             /\ provider'.auth \in {"none", way[1]}
             /\ r.protocol = "openai" => way[2] = provider'.field
      OBVIOUS
    <3>4. PICK n \in DOMAIN ways' : ways'[n] = <<auth, field>>
      BY <3>2 DEF Has
    <3> HIDE DEF auth, field
    <3> QED
      BY <1>1, <3>3, <3>4 DEF Accepts
  <2> QED
    BY <1>1, <2>1, <2>2 DEF AskingInv
<1>6. AnswersMatchReplies'
  <2>1. AnswersMatchReplies
    BY DEF ModelInv
  <2> QED
    BY <1>2, <2>1 DEF AnswersMatchReplies
<1> QED
  BY <1>2, <1>3, <1>4, <1>5, <1>6 DEF ModelInv

LEMMA IsRefusedInv ==
    ASSUME ModelInv, IsRefused
    PROVE  ModelInv'
<1>1. /\ calling = "asking" /\ ~Accepts(Head(ways)) /\ ways' = Tail(ways)
      /\ calling' = IF Tail(ways) = <<>> THEN "failed" ELSE "asking"
      /\ request' = request /\ provider' = provider
      /\ reply' = reply /\ incoming' = incoming /\ buffer' = buffer /\ answer' = answer
      /\ streamed' = streamed /\ cut' = cut /\ broken' = broken
  BY DEF IsRefused
<1>2. NotAnswered /\ AskingInv /\ ways \in Seq(Ways) /\ ways # <<>>
  BY <1>1 DEF ModelInv, ModelTypes, AskingInv
<1>3. NotAnswered'
  BY <1>1, <1>2 DEF NotAnswered
<1>4. /\ Tail(ways) \in Seq(Ways) /\ Len(ways) \in Nat /\ Len(ways) > 0
      /\ Len(Tail(ways)) = Len(ways) - 1
      /\ \A n \in 1 .. Len(ways) - 1 : Tail(ways)[n] = ways[n + 1]
      /\ Head(ways) = ways[1] /\ DOMAIN ways = 1 .. Len(ways)
      /\ DOMAIN Tail(ways) = 1 .. Len(ways) - 1
  BY <1>2
<1>5. ModelTypes'
  <2>1. cut' \in BOOLEAN /\ broken' \in BOOLEAN
    BY <1>1, Zenon DEF ModelInv, ModelTypes
  <2> QED
    BY <1>1, <1>4, <2>1 DEF ModelInv, ModelTypes
<1>6. ASSUME request.keyed \/ provider.auth = "none"
      PROVE  \E n \in DOMAIN Tail(ways) : Accepts(Tail(ways)[n])
  <2>1. PICK n \in DOMAIN ways : Accepts(ways[n])
    BY <1>2, <1>6 DEF AskingInv
  <2>2. n # 1
    BY <1>1, <1>4, <2>1
  <2>3. n - 1 \in DOMAIN Tail(ways) /\ Tail(ways)[n - 1] = ways[n]
    BY <1>4, <2>2
  <2> QED
    BY <2>1, <2>3
<1>7. CASE Tail(ways) # <<>>
  <2>1. \A n : Accepts(ways[n])' <=> Accepts(Tail(ways)[n])
    BY <1>1 DEF Accepts
  <2>2. AskingInv'
    BY <1>1, <1>2, <1>6, <1>7, <2>1 DEF AskingInv
  <2>3. AnswersMatchReplies'
    <3>1. AnswersMatchReplies
      BY DEF ModelInv
    <3> QED
      BY <1>1, <1>7, <3>1 DEF AnswersMatchReplies
  <2> QED
    BY <1>1, <1>3, <1>5, <1>7, <2>2, <2>3 DEF ModelInv
<1>8. CASE Tail(ways) = <<>>
  <2>1. DOMAIN Tail(ways) = {}
    BY <1>8
  <2>2. ~request.keyed /\ provider.auth # "none"
    BY <1>6, <2>1
  <2>3. AnswersMatchReplies'
    <3>1. AnswersMatchReplies
      BY DEF ModelInv
    <3> QED
      BY <1>1, <1>8, <2>2, <3>1 DEF AnswersMatchReplies
  <2> QED
    BY <1>1, <1>5, <1>8, <2>3 DEF ModelInv
<1> QED
  BY <1>7, <1>8

LEMMA BreaksInv ==
    ASSUME ModelInv, Breaks
    PROVE  ModelInv'
<1>1. /\ calling' = "failed" /\ broken'
      /\ request' = request /\ provider' = provider /\ ways' = ways
      /\ reply' = reply /\ incoming' = incoming /\ buffer' = buffer /\ answer' = answer
      /\ streamed' = streamed /\ cut' = cut
  BY DEF Breaks
<1>2. ModelTypes'
  <2>1. cut' \in BOOLEAN /\ broken' \in BOOLEAN
    BY <1>1, Zenon DEF ModelInv, ModelTypes, Breaks
  <2> QED
    BY <1>1, <2>1 DEF ModelInv, ModelTypes
<1>3. AnswersMatchReplies'
  <2>1. AnswersMatchReplies
    BY DEF ModelInv
  <2> QED
    BY <1>1, <2>1 DEF AnswersMatchReplies
<1> QED
  BY <1>1, <1>2, <1>3 DEF ModelInv

LEMMA AnswersWholeInv ==
    ASSUME ModelInv, AnswersWhole
    PROVE  ModelInv'
<1>1. PICK r \in ModelReplies :
         /\ reply' = r
         /\ answer' = [text |-> PartsOf(r.payloads, Texts(r.payloads)),
                       calls |-> [i \in Indices |-> PartsOf(r.payloads, Pieces(r.payloads, i))]]
  BY DEF AnswersWhole
<1>2. /\ calling = "asking" /\ calling' = "returned" /\ ~request.streaming
      /\ request' = request /\ provider' = provider /\ ways' = ways
      /\ incoming' = incoming /\ buffer' = buffer
      /\ streamed' = streamed /\ cut' = cut /\ broken' = broken
  BY DEF AnswersWhole
<1>3. NotAnswered
  BY <1>2 DEF ModelInv
<1>4. ModelTypes'
  <2>1. cut' \in BOOLEAN /\ broken' \in BOOLEAN
    BY <1>2, Zenon DEF ModelInv, ModelTypes
  <2> QED
    BY <1>1, <1>2, <2>1 DEF ModelInv, ModelTypes
<1>5. AnswersMatchReplies'
  <2>1. Len(r.payloads) \in Nat /\ DOMAIN r.payloads = 1 .. Len(r.payloads)
    BY ReplyFacts
  <2>2. /\ Texts(r.payloads) \in SUBSET (1 .. Len(r.payloads))
        /\ \A i \in Indices : Pieces(r.payloads, i) \in SUBSET (1 .. Len(r.payloads))
    BY <2>1 DEF Texts, Pieces
  <2>3. /\ Tells(PartsOf(r.payloads, Texts(r.payloads)), r.payloads, Texts(r.payloads))
        /\ \A i \in Indices : Tells(PartsOf(r.payloads, Pieces(r.payloads, i)), r.payloads,
                                    Pieces(r.payloads, i))
    BY <2>1, <2>2, PartsOfTells
  <2>4. /\ Tells(answer'.text, r.payloads, Texts(r.payloads))
        /\ \A i \in Indices : Tells(answer'.calls[i], r.payloads, Pieces(r.payloads, i))
    BY <1>1, <2>3
  <2>5. 0 \in 0 .. Len(r.payloads) /\ Tells(streamed', r.payloads, UpTo(Texts(r.payloads), 0))
    BY <1>2, <1>3, <2>1, NothingIsSaid DEF NotAnswered
  <2>6. \E k \in 0 .. Len(r.payloads) : Tells(streamed', r.payloads, UpTo(Texts(r.payloads), k))
    BY <2>5
  <2> QED
    BY <1>1, <1>2, <2>4, <2>6 DEF AnswersMatchReplies
<1> QED
  BY <1>2, <1>4, <1>5 DEF ModelInv

LEMMA OpensStreamInv ==
    ASSUME ModelInv, OpensStream
    PROVE  ModelInv'
<1>1. PICK r \in ModelReplies : reply' = r /\ incoming' = Wire(r)
  BY DEF OpensStream
<1>2. /\ calling = "asking" /\ calling' = "reading" /\ request.streaming
      /\ request' = request /\ provider' = provider /\ ways' = ways
      /\ buffer' = buffer /\ answer' = answer
      /\ streamed' = streamed /\ cut' = cut /\ broken' = broken
  BY DEF OpensStream
<1>3. NotAnswered /\ request \in ModelRequests
  BY <1>2 DEF ModelInv, AskingInv
<1>4. ModelTypes'
  <2>1. cut' \in BOOLEAN /\ broken' \in BOOLEAN
    BY <1>2, Zenon DEF ModelInv, ModelTypes
  <2>2. incoming' \in Seq(Tokens)
    BY <1>1, WireTokens
  <2> QED
    BY <1>1, <1>2, <2>1, <2>2 DEF ModelInv, ModelTypes
<1>5. Len(r.payloads) \in Nat /\ Len(Wire(r)) \in Nat /\ 0 * Step(r) = 0
  BY WireFacts
<1>6. HoldsWire(buffer', reply', 0)
  <2>1. buffer' = <<>> /\ Len(buffer') = 0
    BY <1>2, <1>3 DEF NotAnswered
  <2> QED
    BY <1>1, <1>5, <2>1 DEF HoldsWire
<1>7. Ahead(0)'
  <2>1. buffer' = <<>> /\ Len(buffer') = 0 /\ ~cut'
    BY <1>2, <1>3 DEF NotAnswered
  <2>2. 0 * Step(r) + Len(buffer') = 0 /\ 0 * Step(r) + Len(buffer') + Len(incoming') = Len(Wire(r))
    BY <1>1, <1>5, <2>1
  <2>3. \A j \in 1 .. Len(incoming') : incoming'[j] = Wire(r)[0 * Step(r) + Len(buffer') + j]
    BY <1>1, <2>2
  <2> QED
    BY <1>1, <1>4, <1>6, <2>1, <2>2, <2>3 DEF Ahead, ModelTypes, Follows
<1>8. TellsAnswer(answer', reply', 0)
  BY <1>1, <1>2, <1>3, NothingIsSaid DEF NotAnswered
<1>9. ReadingInv'
  <2>1. streamed' = answer'.text
    BY <1>2, <1>3 DEF NotAnswered, NoAnswer
  <2>2. 0 \in 0 .. Len(reply'.payloads)
    BY <1>1, <1>5
  <2> QED
    BY <1>1, <1>2, <1>7, <1>8, <2>1, <2>2 DEF ReadingInv
<1>10. AnswersMatchReplies'
  <2>1. 0 \in 0 .. Len(r.payloads) /\ Tells(streamed', r.payloads, UpTo(Texts(r.payloads), 0))
    BY <1>2, <1>3, <1>5, NothingIsSaid DEF NotAnswered
  <2> QED
    BY <1>1, <1>2, <2>1 DEF AnswersMatchReplies
<1> QED
  BY <1>2, <1>3, <1>4, <1>9, <1>10 DEF ModelInv

LEMMA MovedLengths ==
    ASSUME NEW base \in Nat, NEW before \in Nat, NEW rest \in Nat, NEW n \in 1 .. rest
    PROVE  /\ base + (before + n) + (rest - n) = base + before + rest
           /\ base + (before + n) <= base + before + rest
OBVIOUS

LEMMA SumRegrouped ==
    ASSUME NEW base \in Nat, NEW before \in Nat, NEW n \in Nat, NEW j \in Nat
    PROVE  base + before + (n + j) = base + (before + n) + j
OBVIOUS

LEMMA ChunkMoved ==
    ASSUME NEW b \in Seq(Tokens), NEW rest \in Seq(Tokens), NEW n \in 1 .. Len(rest)
    PROVE  LET longer == b \o SubSeq(rest, 1, n)
               less == SubSeq(rest, n + 1, Len(rest))
           IN /\ longer \in Seq(Tokens) /\ less \in Seq(Tokens)
              /\ Len(longer) = Len(b) + n /\ Len(less) = Len(rest) - n
              /\ \A j \in 1 .. Len(b) : longer[j] = b[j]
              /\ \A j \in 1 .. n : longer[Len(b) + j] = rest[j]
              /\ \A j \in 1 .. Len(rest) - n : less[j] = rest[n + j]
<1> DEFINE moved == SubSeq(rest, 1, n)
<1>1. moved \in Seq(Tokens) /\ Len(moved) = n /\ \A j \in 1 .. n : moved[j] = rest[j]
  OBVIOUS
<1> HIDE DEF moved
<1>2. /\ b \o moved \in Seq(Tokens) /\ Len(b \o moved) = Len(b) + n
      /\ \A j \in 1 .. Len(b) : (b \o moved)[j] = b[j]
      /\ \A j \in 1 .. n : (b \o moved)[Len(b) + j] = moved[j]
  BY <1>1
<1> DEFINE less == SubSeq(rest, n + 1, Len(rest))
<1>3. /\ less \in Seq(Tokens) /\ Len(less) = Len(rest) - n
      /\ \A j \in 1 .. Len(rest) - n : less[j] = rest[n + j]
  OBVIOUS
<1> QED
  BY <1>1, <1>2, <1>3 DEF moved

\* A chunk moves from what is ahead to the buffer, cut wherever it is.
LEMMA FollowsChunk ==
    ASSUME NEW r \in ModelReplies, NEW k, NEW b, NEW rest, Follows(rest, b, r, k),
           NEW n \in 1 .. Len(rest),
           NEW longer, longer = b \o SubSeq(rest, 1, n),
           NEW less, less = SubSeq(rest, n + 1, Len(rest))
    PROVE  Follows(less, longer, r, k)
<1> DEFINE base == k * Step(r)
<1>1. /\ b \in Seq(Tokens) /\ k \in 0 .. Len(r.payloads)
      /\ \A j \in 1 .. Len(b) : b[j] = Wire(r)[base + j]
      /\ Len(b) \in Nat /\ Len(rest) \in Nat /\ Len(Wire(r)) \in Nat /\ rest \in Seq(Tokens)
  BY WireFacts DEF HoldsWire, Follows
<1>2. base \in Nat
  <2>1. k \in Nat /\ (Step(r) = 3 \/ Step(r) = 5)
    BY <1>1, WireFacts
  <2> QED
    BY <2>1
<1>3. /\ longer \in Seq(Tokens) /\ less \in Seq(Tokens)
      /\ Len(longer) = Len(b) + n /\ Len(less) = Len(rest) - n
      /\ \A j \in 1 .. Len(b) : longer[j] = b[j]
      /\ \A j \in 1 .. n : longer[Len(b) + j] = rest[j]
      /\ \A j \in 1 .. Len(rest) - n : less[j] = rest[n + j]
  BY <1>1, ChunkMoved
<1>4. /\ base + Len(b) + Len(rest) = Len(Wire(r))
      /\ \A j \in 1 .. Len(rest) : rest[j] = Wire(r)[base + Len(b) + j]
  BY DEF Follows
<1> HIDE DEF base
<1>5. base + Len(longer) + Len(less) = Len(Wire(r)) /\ base + Len(longer) <= Len(Wire(r))
  <2>1. /\ base + (Len(b) + n) + (Len(rest) - n) = base + Len(b) + Len(rest)
        /\ base + (Len(b) + n) <= base + Len(b) + Len(rest)
    BY <1>1, <1>2, MovedLengths
  <2> QED
    BY <1>3, <1>4, <2>1, Zenon
<1>6. \A j \in 1 .. Len(longer) : longer[j] = Wire(r)[base + j]
  <2> TAKE j \in 1 .. Len(longer)
  <2>1. CASE j <= Len(b)
    BY <1>1, <1>3, <2>1
  <2>2. CASE j > Len(b)
    <3>1. j - Len(b) \in 1 .. n /\ j = Len(b) + (j - Len(b)) /\ j - Len(b) \in 1 .. Len(rest)
          /\ base + Len(b) + (j - Len(b)) = base + j
      BY <1>1, <1>2, <1>3, <2>2
    <3>2. longer[j] = rest[j - Len(b)]
      BY <1>3, <3>1
    <3>3. rest[j - Len(b)] = Wire(r)[base + Len(b) + (j - Len(b))]
      BY <1>4, <3>1, Zenon
    <3> QED
      BY <3>1, <3>2, <3>3
  <2> QED
    BY <1>1, <2>1, <2>2
<1>7. \A j \in 1 .. Len(less) : less[j] = Wire(r)[base + Len(longer) + j]
  <2> TAKE j \in 1 .. Len(less)
  <2>1. Len(longer) = Len(b) + n /\ Len(less) = Len(rest) - n /\ j \in 1 .. Len(less)
    BY <1>3
  <2>2. n + j \in 1 .. Len(rest) /\ j \in 1 .. Len(rest) - n
    <3>1. j \in 1 .. Len(rest) - n
      BY <2>1, Zenon
    <3> QED
      BY <1>1, <3>1
  <2>3. base + Len(b) + (n + j) = base + Len(longer) + j
    <3>1. j \in Nat /\ n \in Nat
      BY <2>2
    <3>2. base + Len(b) + (n + j) = base + (Len(b) + n) + j
      BY <1>1, <1>2, <3>1, SumRegrouped
    <3> QED
      BY <2>1, <3>2, Zenon
  <2> QED
    BY <1>3, <1>4, <2>2, <2>3
<1>8. HoldsWire(longer, r, k)
  BY <1>1, <1>3, <1>5, <1>6 DEF HoldsWire, base
<1> QED
  BY <1>3, <1>5, <1>7, <1>8 DEF base, Follows

LEMMA ReceivesChunkInv ==
    ASSUME ModelInv, ReceivesChunk
    PROVE  ModelInv'
<1>1. /\ calling = "reading" /\ calling' = calling /\ incoming # <<>>
      /\ request' = request /\ provider' = provider /\ ways' = ways /\ reply' = reply
      /\ answer' = answer /\ streamed' = streamed /\ cut' = cut /\ broken' = broken
  BY DEF ReceivesChunk
<1>2. PICK n \in 1 .. Len(incoming) :
         /\ buffer' = buffer \o SubSeq(incoming, 1, n)
         /\ incoming' = SubSeq(incoming, n + 1, Len(incoming))
  BY DEF ReceivesChunk
<1>3. ReadingInv /\ request \in ModelRequests
  BY <1>1 DEF ModelInv
<1>4. PICK k \in 0 .. Len(reply.payloads) : TellsAnswer(answer, reply, k) /\ Ahead(k)
  BY <1>3 DEF ReadingInv
<1>5. ~cut
  BY <1>1, <1>4 DEF Ahead
<1>6. Ahead(k)'
  <2>1. Follows(incoming, buffer, reply, k)
    BY <1>4, <1>5 DEF Ahead
  <2>2. reply \in ModelReplies
    BY <1>3 DEF ReadingInv
  <2>3. Follows(incoming', buffer', reply, k)
    BY <1>2, <2>1, <2>2, FollowsChunk
  <2> QED
    BY <1>1, <1>5, <2>3 DEF Ahead, Follows
<1>7. ReadingInv'
  BY <1>1, <1>3, <1>4, <1>6 DEF ReadingInv
<1>8. ModelTypes'
  <2>1. cut' \in BOOLEAN /\ broken' \in BOOLEAN
    BY <1>1, Zenon DEF ModelInv, ModelTypes
  <2>2. buffer' \in Seq(Tokens) /\ incoming' \in Seq(Tokens)
    BY <1>1, <1>5, <1>6 DEF Ahead, Follows, HoldsWire
  <2> QED
    BY <1>1, <2>1, <2>2 DEF ModelInv, ModelTypes
<1>9. AnswersMatchReplies'
  <2>1. AnswersMatchReplies
    BY DEF ModelInv
  <2> QED
    BY <1>1, <2>1 DEF AnswersMatchReplies
<1> QED
  BY <1>1, <1>3, <1>7, <1>8, <1>9 DEF ModelInv

LEMMA ConnectionClosesInv ==
    ASSUME ModelInv, ConnectionCloses
    PROVE  ModelInv'
<1>1. /\ calling = "reading" /\ calling' = calling /\ incoming' = <<>> /\ cut'
      /\ request' = request /\ provider' = provider /\ ways' = ways /\ reply' = reply
      /\ buffer' = buffer /\ answer' = answer /\ streamed' = streamed /\ broken' = broken
  BY DEF ConnectionCloses
<1>2. ReadingInv /\ request \in ModelRequests
  BY <1>1 DEF ModelInv
<1>3. PICK k \in 0 .. Len(reply.payloads) : TellsAnswer(answer, reply, k) /\ Ahead(k)
  BY <1>2 DEF ReadingInv
<1>4. <<>> \in Seq(Tokens) /\ Len(<<>>) = 0
  OBVIOUS
<1>5. Ahead(k)'
  BY <1>1, <1>3, <1>4 DEF Ahead
<1>6. ReadingInv'
  BY <1>1, <1>2, <1>3, <1>5 DEF ReadingInv
<1>7. ModelTypes'
  <2>1. cut' \in BOOLEAN /\ broken' \in BOOLEAN
    BY <1>1, Zenon DEF ModelInv, ModelTypes, ConnectionCloses
  <2> QED
    BY <1>1, <1>4, <2>1 DEF ModelInv, ModelTypes
<1>8. AnswersMatchReplies'
  <2>1. AnswersMatchReplies
    BY DEF ModelInv
  <2> QED
    BY <1>1, <2>1 DEF AnswersMatchReplies
<1> QED
  BY <1>1, <1>2, <1>6, <1>7, <1>8 DEF ModelInv

\* The first event of a buffer is what its reply holds next.
LEMMA NextEvent ==
    ASSUME NEW r \in ModelReplies, NEW k, NEW b, HoldsWire(b, r, k), Len(b) > 0
    PROVE  /\ k \in Nat /\ k < Len(r.payloads) /\ k + 1 \in 1 .. Len(r.payloads)
           /\ b \in Seq(Tokens) /\ b[1] = r.payloads[k + 1] /\ Payload(r.payloads[k + 1])
           /\ r.payloads[k + 1] \in ReplyPayloads
           /\ r.payloads[k + 1] = Done => k + 1 = Len(r.payloads)
<1>1. k \in 0 .. Len(r.payloads) /\ Len(r.payloads) \in Nat /\ b \in Seq(Tokens)
  BY WireFacts DEF HoldsWire
<1>2. k < Len(r.payloads) /\ b[1] = r.payloads[k + 1]
  BY BufferFacts
<1>3. k \in Nat /\ k + 1 \in 1 .. Len(r.payloads)
  BY <1>1, <1>2
<1> QED
  BY <1>1, <1>2, <1>3, ReplyFacts

\* When an event is taken from the buffer, the rest holds what follows it.
LEMMA RestHolds ==
    ASSUME NEW r \in ModelReplies, NEW k, NEW b, HoldsWire(b, r, k), Len(b) >= Step(r),
           NEW rest, rest = SubSeq(b, Step(r) + 1, Len(b))
    PROVE  /\ k + 1 \in 0 .. Len(r.payloads) /\ rest \in Seq(Tokens)
           /\ Len(rest) = Len(b) - Step(r) /\ (k + 1) * Step(r) = k * Step(r) + Step(r)
           /\ HoldsWire(rest, r, k + 1)
<1>1. /\ Step(r) \in Nat /\ Step(r) > 0 /\ (Step(r) = 3 \/ Step(r) = 5)
      /\ Len(b) \in Nat /\ b \in Seq(Tokens) /\ Len(Wire(r)) \in Nat
  BY WireFacts DEF HoldsWire
<1>2. Len(b) > 0
  BY <1>1
<1>3. k \in Nat /\ k + 1 \in 0 .. Len(r.payloads)
  BY <1>2, NextEvent
<1>4. /\ rest \in Seq(Tokens) /\ Len(rest) = Len(b) - Step(r)
      /\ \A j \in 1 .. Len(rest) : rest[j] = b[Step(r) + j] /\ Step(r) + j \in 1 .. Len(b)
  BY <1>1
<1>5. (k + 1) * Step(r) = k * Step(r) + Step(r) /\ k * Step(r) \in Nat
  <2>1. CASE Step(r) = 3
    BY <1>3, <2>1
  <2>2. CASE Step(r) = 5
    BY <1>3, <2>2
  <2> QED
    BY <1>1, <2>1, <2>2
<1>6. /\ k * Step(r) + Len(b) <= Len(Wire(r))
      /\ \A j \in 1 .. Len(b) : b[j] = Wire(r)[k * Step(r) + j]
  BY DEF HoldsWire
<1> DEFINE base == k * Step(r)
           next == (k + 1) * Step(r)
           step == Step(r)
<1>7. next + Len(rest) <= Len(Wire(r))
  <2>1. next = base + step /\ Len(rest) = Len(b) - step /\ base + Len(b) <= Len(Wire(r))
    BY <1>4, <1>5, <1>6
  <2>2. base \in Nat /\ step \in Nat
    BY <1>1, <1>5
  <2> HIDE DEF base, next, step
  <2> QED
    BY <1>1, <2>1, <2>2
<1>8. ASSUME NEW j \in 1 .. Len(rest)
      PROVE  rest[j] = Wire(r)[next + j]
  <2>1. rest[j] = b[step + j] /\ step + j \in 1 .. Len(b)
    BY <1>4
  <2>2. b[step + j] = Wire(r)[base + (step + j)]
    BY <1>6, <2>1
  <2>3. base \in Nat /\ step \in Nat /\ next = base + step /\ j \in Nat
    BY <1>1, <1>4, <1>5
  <2> HIDE DEF base, next, step
  <2>4. base + (step + j) = next + j
    BY <2>3
  <2> QED
    BY <2>1, <2>2, <2>4
<1> QED
  BY <1>3, <1>4, <1>5, <1>7, <1>8 DEF HoldsWire

LEMMA HandlesEventInv ==
    ASSUME ModelInv, HandlesEvent
    PROVE  ModelInv'
<1>1. /\ calling = "reading" /\ Marks(buffer) # {}
      /\ request' = request /\ provider' = provider /\ ways' = ways /\ reply' = reply
      /\ incoming' = incoming /\ cut' = cut /\ broken' = broken
      /\ Handles(SubSeq(buffer, 1, FirstMark(buffer) - 1), FALSE)
      /\ buffer' = SubSeq(buffer, FirstMark(buffer) + MarkAt(buffer, FirstMark(buffer)),
                          Len(buffer))
  BY DEF HandlesEvent
<1>2. ReadingInv /\ request \in ModelRequests /\ reply \in ModelReplies
  BY <1>1 DEF ModelInv, ReadingInv
<1>3. PICK k \in 0 .. Len(reply.payloads) : TellsAnswer(answer, reply, k) /\ Ahead(k)
  BY <1>2 DEF ReadingInv
<1>4. HoldsWire(buffer, reply, k) /\ Len(buffer) \in Nat /\ buffer \in Seq(Tokens)
      /\ (Step(reply) = 3 \/ Step(reply) = 5)
  BY <1>2, <1>3, WireFacts DEF Ahead, HoldsWire
<1>5. Len(buffer) >= Step(reply) /\ FirstMark(buffer) = 2 /\ MarkAt(buffer, 2) = Step(reply) - 1
  BY <1>1, <1>2, <1>4, MarksFound
<1> DEFINE p == reply.payloads[k + 1]
           after == Applies(answer, p)
<1>6. Len(buffer) > 0
  BY <1>4, <1>5
<1>7. /\ k \in Nat /\ k < Len(reply.payloads) /\ k + 1 \in 1 .. Len(reply.payloads)
      /\ buffer[1] = p /\ Payload(p) /\ p \in ReplyPayloads
      /\ p = Done => k + 1 = Len(reply.payloads)
  BY <1>2, <1>4, <1>6, NextEvent
<1>8. /\ streamed' = IF p.kind = "text" THEN Append(streamed, p.of) ELSE streamed
      /\ p = Done => Concludes(after)
      /\ p # Done => answer' = after /\ calling' = calling
  <2> DEFINE raw == SubSeq(buffer, 1, FirstMark(buffer) - 1)
  <2>1. raw \in Seq(Tokens) /\ Len(raw) > 0 /\ raw[1] = p /\ \A j \in DOMAIN raw : j = 1
    <3>1. raw = SubSeq(buffer, 1, 1)
      BY <1>5
    <3> HIDE DEF raw
    <3> QED
      BY <1>4, <1>6, <1>7, <3>1
  <2>2. Handles(raw, FALSE)
    BY <1>1, Zenon
  <2> HIDE DEF raw
  <2>3. \A j \in DOMAIN raw : j # 1 => raw[j] \in {CR, LF}
    BY <2>1
  <2>4. FALSE \in BOOLEAN
    OBVIOUS
  <2> HIDE DEF p
  <2>5. /\ streamed' = IF p.kind = "text" THEN Append(streamed, p.of) ELSE streamed
        /\ FALSE \/ p = Done => Concludes(Applies(answer, p))
        /\ ~ (FALSE \/ p = Done) => answer' = Applies(answer, p) /\ calling' = calling
    BY <1>7, <2>1, <2>2, <2>3, <2>4, EventHandled
  <2> QED
    BY <2>5, Zenon
<1>9. buffer' = SubSeq(buffer, Step(reply) + 1, Len(buffer))
  BY <1>1, <1>4, <1>5
<1>10. /\ k + 1 \in 0 .. Len(reply.payloads) /\ buffer' \in Seq(Tokens)
       /\ Len(buffer') = Len(buffer) - Step(reply)
       /\ (k + 1) * Step(reply) = k * Step(reply) + Step(reply)
       /\ HoldsWire(buffer', reply, k + 1)
  <2>1. HoldsWire(buffer, reply, k) /\ Len(buffer) >= Step(reply)
    BY <1>4, <1>5
  <2> QED
    BY <1>2, <1>9, <2>1, RestHolds
<1>11. Ahead(k + 1)'
  <2>1. CASE cut
    BY <1>1, <1>3, <1>10, <2>1 DEF Ahead
  <2>2. CASE ~cut
    <3>1. Follows(incoming, buffer, reply, k)
      BY <1>3, <2>2 DEF Ahead
    <3>2. k * Step(reply) + Len(buffer) = (k + 1) * Step(reply) + Len(buffer')
      <4>1. k * Step(reply) \in Nat /\ Step(reply) \in Nat
        BY <1>4, <1>7
      <4> QED
        BY <1>4, <1>10, <4>1
    <3>3. Follows(incoming, buffer', reply, k + 1)
      BY <1>10, <3>1, <3>2 DEF Follows
    <3> QED
      BY <1>1, <1>10, <2>2, <3>3 DEF Ahead
  <2> QED
    BY <2>1, <2>2
<1>12. TellsAnswer(after, reply, k + 1) /\ after.text = streamed'
  BY <1>2, <1>3, <1>7, <1>8, AnswerOfNext DEF ReadingInv
<1>13. \E n \in 0 .. Len(reply'.payloads) : Tells(streamed', reply'.payloads, UpTo(Texts(reply'.payloads), n))
  BY <1>1, <1>10, <1>12 DEF TellsAnswer
<1>14. ModelTypes'
  <2>0. calling' \in {"reading", "returned", "failed"}
    <3>1. after \in Answers
      BY <1>12 DEF TellsAnswer
    <3> HIDE DEF after
    <3> QED
      BY <1>1, <1>8, <3>1, Concluded
  <2>1. cut' \in BOOLEAN /\ broken' \in BOOLEAN
    BY <1>1, Zenon DEF ModelInv, ModelTypes
  <2>2. streamed' \in Seq(Fragments) /\ \A i \in DOMAIN streamed' : Text(streamed'[i]) \in ReplyPayloads
    <3>1. CASE p.kind = "text"
      BY <1>7, <1>8, <3>1, TextsAreSaid DEF ModelInv, ModelTypes
    <3>2. CASE p.kind # "text"
      BY <1>8, <3>2 DEF ModelInv, ModelTypes
    <3> QED
      BY <3>1, <3>2
  <2>3. /\ request' \in ModelRequests \cup {NoAsk} /\ ways' \in Seq(Ways)
        /\ provider' \in [auth : Schemes \cup {"none"}, field : Fields]
        /\ reply' \in ModelReplies \cup {NoReply} /\ incoming' \in Seq(Tokens)
    BY <1>1 DEF ModelInv, ModelTypes
  <2> QED
    BY <1>10, <2>0, <2>1, <2>2, <2>3 DEF ModelTypes
<1>15. CASE p # Done
  <2>1. answer' = after /\ calling' = "reading"
    BY <1>1, <1>8, <1>15
  <2>2. ReadingInv'
    <3>1. TellsAnswer(answer', reply', k + 1) /\ streamed' = answer'.text
      BY <1>1, <1>12, <2>1
    <3> QED
      BY <1>1, <1>2, <1>10, <1>11, <3>1 DEF ReadingInv
  <2>3. AnswersMatchReplies'
    BY <1>13, <2>1 DEF AnswersMatchReplies
  <2> QED
    BY <1>1, <1>2, <1>14, <2>1, <2>2, <2>3 DEF ModelInv
<1>16. CASE p = Done
  <2>1. TellsAnswer(after, reply, Len(reply.payloads)) /\ after \in Answers /\ Concludes(after)
    BY <1>7, <1>8, <1>12, <1>16 DEF TellsAnswer
  <2> HIDE DEF after
  <2>2. /\ Tells(after.text, reply.payloads, Texts(reply.payloads))
        /\ \A i \in Indices : Tells(after.calls[i], reply.payloads, Pieces(reply.payloads, i))
        /\ \A i \in Indices : ~Nameless(after, i)
    BY <1>2, <2>1, WholeAnswer
  <2>3. /\ calling' = "returned" /\ answer'.text = after.text
        /\ \A i \in Indices : answer'.calls[i] = after.calls[i]
    BY <2>1, <2>2, Concluded
  <2>4. AnswersMatchReplies'
    BY <1>1, <1>12, <1>13, <2>2, <2>3 DEF AnswersMatchReplies
  <2> QED
    BY <1>14, <2>3, <2>4 DEF ModelInv
<1> QED
  BY <1>15, <1>16

\* Where a stream that was not cut ends.
LEMMA LastEvent ==
    ASSUME NEW r \in ModelReplies, NEW k, NEW b, HoldsWire(b, r, k),
           k * Step(r) + Len(b) = Len(Wire(r)), Len(b) < Step(r)
    PROVE  IF Len(b) > 0 THEN k + 1 = Len(r.payloads) ELSE k = Len(r.payloads)
<1> DEFINE n == Len(r.payloads)
           wire == Len(Wire(r))
<1>1. /\ n \in Nat /\ k \in Nat /\ k <= n /\ Len(b) \in Nat /\ wire \in Nat
      /\ wire = n * Step(r) \/ (n > 0 /\ wire = n * Step(r) - (Step(r) - 1))
  BY WireFacts DEF HoldsWire
<1>2. Len(b) > 0 => k < n
  BY BufferFacts
<1>3. k * Step(r) + Len(b) = wire
  OBVIOUS
<1> HIDE DEF n, wire
<1>4. CASE Step(r) = 3
  <2>1. k * 3 + Len(b) = wire /\ Len(b) < 3 /\ (wire = n * 3 \/ (n > 0 /\ wire = n * 3 - 2))
    BY <1>1, <1>3, <1>4
  <2>2. CASE Len(b) > 0
    BY <1>1, <1>2, <2>1, <2>2 DEF n
  <2>3. CASE ~ (Len(b) > 0)
    <3>1. Len(b) = 0
      BY <1>1, <2>3
    <3> QED
      BY <1>1, <2>1, <3>1 DEF n
  <2> QED
    BY <2>2, <2>3
<1>5. CASE Step(r) = 5
  <2>1. k * 5 + Len(b) = wire /\ Len(b) < 5 /\ (wire = n * 5 \/ (n > 0 /\ wire = n * 5 - 4))
    BY <1>1, <1>3, <1>5
  <2>2. CASE Len(b) > 0
    BY <1>1, <1>2, <2>1, <2>2 DEF n
  <2>3. CASE ~ (Len(b) > 0)
    <3>1. Len(b) = 0
      BY <1>1, <2>3
    <3> QED
      BY <1>1, <2>1, <3>1 DEF n
  <2> QED
    BY <2>2, <2>3
<1> QED
  BY <1>4, <1>5, WireFacts

\* What the parser was told when the stream has ended.
LEMMA RestHandled ==
    ASSUME NEW r \in ModelReplies, NEW k, HoldsWire(buffer, r, k), TellsAnswer(answer, r, k),
           streamed = answer.text, Len(buffer) < Step(r), Handles(buffer, TRUE)
    PROVE  \E last \in Answers :
              /\ Concludes(last) /\ streamed' = last.text
              /\ TellsAnswer(last, r, IF Len(buffer) > 0 THEN k + 1 ELSE k)
              /\ streamed' = IF Len(buffer) > 0 /\ r.payloads[k + 1].kind = "text"
                            THEN Append(streamed, r.payloads[k + 1].of) ELSE streamed
<1>1. Len(buffer) \in Nat /\ buffer \in Seq(Tokens) /\ (Step(r) = 3 \/ Step(r) = 5)
  BY WireFacts DEF HoldsWire
<1>2. CASE Len(buffer) > 0
  <2> DEFINE p == r.payloads[k + 1]
             after == Applies(answer, p)
  <2>1. k < Len(r.payloads) /\ buffer[1] = p /\ Payload(p)
    BY <1>2, NextEvent
  <2>2. \A j \in DOMAIN buffer : j # 1 => buffer[j] \in {CR, LF}
    <3> SUFFICES ASSUME NEW j \in DOMAIN buffer, j # 1
                 PROVE  buffer[j] \in {CR, LF}
      OBVIOUS
    <3>1. j - 1 \in 1 .. Step(r) - 1 /\ (j - 1) + 1 <= Len(buffer) /\ (j - 1) + 1 = j
      BY <1>1
    <3>2. buffer[(j - 1) + 1] = Blank(r)[j - 1]
      BY <3>1, BufferFacts
    <3>3. Blank(r)[j - 1] \in {CR, LF}
      BY <1>1, <3>1 DEF Blank, Step
    <3> QED
      BY <3>1, <3>2, <3>3
  <2>3. TRUE \in BOOLEAN
    OBVIOUS
  <2>4. /\ streamed' = IF p.kind = "text" THEN Append(streamed, p.of) ELSE streamed
        /\ Concludes(after)
    <3> HIDE DEF p
    <3>1. /\ streamed' = IF p.kind = "text" THEN Append(streamed, p.of) ELSE streamed
          /\ TRUE \/ p = Done => Concludes(Applies(answer, p))
      BY <1>1, <1>2, <2>1, <2>2, <2>3, EventHandled
    <3> QED
      BY <3>1, Zenon
  <2>5. TellsAnswer(after, r, k + 1) /\ streamed' = after.text
    BY <2>1, <2>4, AnswerOfNext
  <2>6. after \in Answers
    BY <2>5 DEF TellsAnswer
  <2>7. TellsAnswer(after, r, IF Len(buffer) > 0 THEN k + 1 ELSE k)
    BY <1>2, <2>5, Zenon
  <2>8. streamed' = IF Len(buffer) > 0 /\ p.kind = "text" THEN Append(streamed, p.of) ELSE streamed
    BY <1>2, <2>4, Zenon
  <2> HIDE DEF after
  <2> QED
    BY <2>4, <2>5, <2>6, <2>7, <2>8, Zenon
<1>3. CASE ~ (Len(buffer) > 0)
  <2>1. buffer = <<>>
    BY <1>1, <1>3
  <2>2. Handles(<<>>, TRUE)
    BY <2>1, Zenon
  <2>3. streamed' = streamed /\ Concludes(answer)
    BY <2>2, NothingHandled
  <2>4. answer \in Answers
    BY DEF TellsAnswer
  <2>5. TellsAnswer(answer, r, IF Len(buffer) > 0 THEN k + 1 ELSE k)
    BY <1>3, Zenon
  <2>6. streamed' = IF Len(buffer) > 0 /\ r.payloads[k + 1].kind = "text"
                    THEN Append(streamed, r.payloads[k + 1].of) ELSE streamed
    BY <1>3, <2>3, Zenon
  <2> QED
    BY <2>3, <2>4, <2>5, <2>6, Zenon
<1> QED
  BY <1>2, <1>3

LEMMA StreamEndsInv ==
    ASSUME ModelInv, StreamEnds
    PROVE  ModelInv'
<1>1. /\ calling = "reading" /\ Marks(buffer) = {} /\ incoming = <<>>
      /\ Handles(buffer, TRUE) /\ buffer' = <<>>
      /\ request' = request /\ provider' = provider /\ ways' = ways /\ reply' = reply
      /\ incoming' = incoming /\ cut' = cut /\ broken' = broken
  BY DEF StreamEnds
<1>2. ReadingInv /\ reply \in ModelReplies /\ streamed = answer.text
  BY <1>1 DEF ModelInv, ReadingInv
<1>3. PICK k \in 0 .. Len(reply.payloads) : TellsAnswer(answer, reply, k) /\ Ahead(k)
  BY <1>2 DEF ReadingInv
<1>4. HoldsWire(buffer, reply, k) /\ Len(buffer) \in Nat /\ (Step(reply) = 3 \/ Step(reply) = 5)
  BY <1>2, <1>3, WireFacts DEF Ahead, HoldsWire
<1>5. Len(buffer) < Step(reply)
  <2>1. ~ (Len(buffer) >= Step(reply))
    BY <1>1, <1>2, <1>4, MarksFound
  <2> QED
    BY <1>4, <2>1
<1> DEFINE parsed == IF Len(buffer) > 0 THEN k + 1 ELSE k
<1>6. PICK last \in Answers :
         /\ Concludes(last) /\ streamed' = last.text /\ TellsAnswer(last, reply, parsed)
         /\ streamed' = IF Len(buffer) > 0 /\ reply.payloads[k + 1].kind = "text"
                       THEN Append(streamed, reply.payloads[k + 1].of) ELSE streamed
  BY <1>1, <1>2, <1>3, <1>4, <1>5, RestHandled
<1>7. calling' \in {"returned", "failed"}
  BY <1>6, Concluded
<1>8. ModelTypes'
  <2>1. cut' \in BOOLEAN /\ broken' \in BOOLEAN
    BY <1>1, Zenon DEF ModelInv, ModelTypes
  <2>2. streamed' \in Seq(Fragments) /\ \A i \in DOMAIN streamed' : Text(streamed'[i]) \in ReplyPayloads
    <3>1. CASE Len(buffer) > 0 /\ reply.payloads[k + 1].kind = "text"
      <4>1. Payload(reply.payloads[k + 1]) /\ reply.payloads[k + 1] \in ReplyPayloads
        BY <1>2, <1>4, <3>1, NextEvent
      <4> QED
        BY <1>6, <3>1, <4>1, TextsAreSaid DEF ModelInv, ModelTypes
    <3>2. CASE ~ (Len(buffer) > 0 /\ reply.payloads[k + 1].kind = "text")
      BY <1>6, <3>2 DEF ModelInv, ModelTypes
    <3> QED
      BY <3>1, <3>2
  <2>3. /\ request' \in ModelRequests \cup {NoAsk} /\ ways' \in Seq(Ways)
        /\ provider' \in [auth : Schemes \cup {"none"}, field : Fields]
        /\ reply' \in ModelReplies \cup {NoReply} /\ incoming' \in Seq(Tokens)
        /\ buffer' \in Seq(Tokens)
    BY <1>1 DEF ModelInv, ModelTypes
  <2> QED
    BY <1>7, <2>1, <2>2, <2>3 DEF ModelTypes
<1>9. AnswersMatchReplies'
  <2>1. parsed \in 0 .. Len(reply.payloads)
        /\ Tells(streamed', reply.payloads, UpTo(Texts(reply.payloads), parsed))
    BY <1>6 DEF TellsAnswer
  <2>2. ASSUME ~cut
        PROVE  /\ calling' = "returned"
               /\ Tells(answer'.text, reply.payloads, Texts(reply.payloads))
               /\ streamed' = answer'.text
               /\ \A i \in Indices :
                     Tells(answer'.calls[i], reply.payloads, Pieces(reply.payloads, i))
    <3>1. Follows(incoming, buffer, reply, k)
      BY <1>3, <2>2 DEF Ahead
    <3>2. k * Step(reply) + Len(buffer) = Len(Wire(reply))
      <4>1. Len(incoming) = 0 /\ k * Step(reply) \in Nat
        BY <1>1, <1>4
      <4> QED
        BY <1>4, <3>1, <4>1 DEF Follows
    <3>3. parsed = Len(reply.payloads)
      BY <1>2, <1>4, <1>5, <3>2, LastEvent
    <3>4. TellsAnswer(last, reply, Len(reply.payloads))
      BY <1>6, <3>3
    <3>5. /\ Tells(last.text, reply.payloads, Texts(reply.payloads))
          /\ \A i \in Indices : Tells(last.calls[i], reply.payloads, Pieces(reply.payloads, i))
          /\ \A i \in Indices : ~Nameless(last, i)
      BY <1>2, <3>4, WholeAnswer
    <3>6. /\ calling' = "returned" /\ answer'.text = last.text
          /\ \A i \in Indices : answer'.calls[i] = last.calls[i]
      BY <1>6, <3>5, Concluded
    <3> QED
      BY <1>6, <3>5, <3>6
  <2> HIDE DEF parsed
  <2>3. \E n \in 0 .. Len(reply.payloads) :
           Tells(streamed', reply.payloads, UpTo(Texts(reply.payloads), n))
    BY <2>1
  <2> QED
    BY <1>1, <2>2, <2>3 DEF AnswersMatchReplies
<1> QED
  BY <1>7, <1>8, <1>9 DEF ModelInv

LEMMA ModelStepInv == ModelInv /\ [ModelCallsNext]_modelVars => ModelInv'
<1> SUFFICES ASSUME ModelInv, [ModelCallsNext]_modelVars
             PROVE  ModelInv'
  OBVIOUS
<1>1. ASSUME ModelCallsNext
      PROVE  ModelInv'
  BY <1>1, CallsInv, IsRefusedInv, BreaksInv, AnswersWholeInv, OpensStreamInv,
     ReceivesChunkInv, HandlesEventInv, StreamEndsInv, ConnectionClosesInv DEF ModelCallsNext
<1>2. ASSUME UNCHANGED modelVars
      PROVE  ModelInv'
  <2>1. /\ request' = request /\ provider' = provider /\ ways' = ways
        /\ calling' = calling /\ reply' = reply /\ incoming' = incoming /\ buffer' = buffer
        /\ answer' = answer /\ streamed' = streamed /\ cut' = cut /\ broken' = broken
    BY <1>2 DEF modelVars
  <2>2. ModelTypes'
    BY <2>1, Zenon DEF ModelInv, ModelTypes
  <2>3. (calling' \in {"idle", "asking"} => NotAnswered') /\ (calling' = "asking" => AskingInv')
    BY <2>1, Zenon DEF ModelInv, NotAnswered, AskingInv, Accepts
  <2>4. calling' = "reading" => ReadingInv' /\ request' \in ModelRequests
    BY <2>1, Zenon DEF ModelInv, ReadingInv, Ahead
  <2>5. AnswersMatchReplies'
    BY <2>1, Zenon DEF ModelInv, AnswersMatchReplies
  <2> QED
    BY <2>2, <2>3, <2>4, <2>5 DEF ModelInv
<1> QED
  BY <1>1, <1>2

\* The type invariant of the calls of models (llm.rs).
LEMMA ModelCallsTypeCorrect == ModelCallsSpec => []ModelCallsTypeOK
<1>1. ModelInv => ModelCallsTypeOK
  BY DEF ModelInv, ModelTypes, ModelCallsTypeOK, Ways, Tokens
<1> QED
  BY <1>1, ModelInitInv, ModelStepInv, PTL DEF ModelCallsSpec

\* What a call of a model shows and returns is what the provider said, and an
\* accepted way to ask is found (llm.rs:851-870, 1316-1378).
THEOREM AnswersAlwaysMatchReplies == ModelCallsSpec => []AnswersMatchReplies
<1>1. ModelInv => AnswersMatchReplies
  BY DEF ModelInv
<1> QED
  BY <1>1, ModelInitInv, ModelStepInv, PTL DEF ModelCallsSpec

=============================================================================
