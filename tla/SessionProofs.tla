---------------------------- MODULE SessionProofs ----------------------------
(***************************************************************************)
(* Proofs about what calls of the desktop share while they overlap: codex  *)
(* sessions, the list of conversations, a conversation and its goals, the  *)
(* rows that make up the pet, and the windows that show conversations and  *)
(* work.                                                                   *)
(***************************************************************************)
EXTENDS CodexSessions, SessionList, GoalChats, Pet, WorkPanels,
        FiniteSetTheorems, TLAPS

----------------------------------------------------------------------------
(* Codex sessions                                                          *)

\* Calls that hold the lock, and calls that will push an entry.
RegistryLocked == {"interrupting", "stopping", "respawning"}
Registrars == {"registering", "spawning"}

\* What holds of a call whatever was overtaken.
HandlingInv(c) ==
    /\ handling[c].at = "idle" => handling[c] = NotHandling
    /\ handling[c].at \in RegistryLocked => registry = c
    /\ handling[c].at # "idle" => stored[handling[c].session] # "none"

\* A session that was never resumed while in hand: entry and row agree also
\* while the lock is held, and nobody else acts on one that will get its entry.
TrackedInv(s) ==
    /\ Len(live[s]) <= 1
    /\ live[s] # <<>> => live[s][1] = stored[s]
    /\ live[s] # <<>> /\ stored[s] = "running" /\ s \notin unheard => alive[s] + ending[s] > 0
    /\ \A c \in SessionCalls :
          handling[c].session = s =>
             /\ handling[c].at = "stopping" => live[s] = <<>>
             /\ handling[c].at = "spawning" => stored[s] = "starting"
             /\ handling[c].at = "registering" =>
                   /\ stored[s] = "running"
                   /\ s \notin unheard => alive[s] + ending[s] > 0
             /\ handling[c].at \in Registrars =>
                   /\ live[s] = <<>>
                   /\ \A d \in SessionCalls \ {c} :
                         handling[d].session = s => handling[d].at = "loading"

CodexInv ==
    /\ SessionsTypeOK /\ live \in [Sessions -> Seq(SessionStatuses)]
    /\ \A c \in SessionCalls : HandlingInv(c)
    /\ \A s \in Sessions : stored[s] = "none" => live[s] = <<>>
    /\ \A s \in Sessions : alive[s] + ending[s] <= MaxProcesses
    /\ \A s \in Sessions \ outrun : TrackedInv(s)

LEMMA CodexInitInv == SessionsInit => CodexInv
BY CodexSessionsAssumption
   DEF SessionsInit, CodexInv, SessionsTypeOK, HandlingInv, TrackedInv, NotHandling, HandlingAt,
       HandlingPlaces, SessionStatuses, RegistryLocked, Registrars

\* Writing the first place of a sequence.
LEMMA FirstWritten ==
    ASSUME NEW S, NEW q \in Seq(S), NEW st \in S
    PROVE  LET r == [q EXCEPT ![1] = st] IN
           /\ r \in Seq(S) /\ Len(r) = Len(q)
           /\ q = <<>> <=> r = <<>>
           /\ q # <<>> => r[1] = st
<1> DEFINE r == [q EXCEPT ![1] = st]
<1>1. Len(q) \in Nat /\ q \in [1 .. Len(q) -> S]
  OBVIOUS
<1>2. /\ r \in [1 .. Len(q) -> S]
      /\ 1 \in 1 .. Len(q) => r[1] = st
  BY <1>1
<1> HIDE DEF r
<1>3. r \in Seq(S) /\ Len(r) = Len(q)
  BY <1>1, <1>2
<1>4. \A p \in Seq(S) : p = <<>> <=> Len(p) = 0
  OBVIOUS
<1>5. q # <<>> => 1 \in 1 .. Len(q)
  BY <1>1, <1>4
<1> QED
  BY <1>2, <1>3, <1>4, <1>5 DEF r

\* A step of other sessions leaves this one tracked.
LEMMA OtherSessions ==
    ASSUME NEW s, TrackedInv(s),
           /\ live'[s] = live[s] /\ stored'[s] = stored[s]
           /\ alive'[s] = alive[s] /\ ending'[s] = ending[s]
           /\ s \in unheard => s \in unheard',
           \A d \in SessionCalls : handling'[d].session = s => handling'[d] = handling[d]
    PROVE  TrackedInv(s)'
BY DEF TrackedInv

\* A call goes to another place, and nothing else of it changes.
LEMMA HandlingGoes ==
    ASSUME SessionsTypeOK, NEW c \in SessionCalls, NEW next, SessionGoes(c, next),
           next \in [at : HandlingPlaces, session : Sessions \cup {NoSession}],
           next.at # "idle" => next.session \in Sessions
    PROVE  /\ handling' \in [SessionCalls ->
                                 [at : HandlingPlaces, session : Sessions \cup {NoSession}]]
           /\ \A d \in SessionCalls : handling'[d].at # "idle" => handling'[d].session \in Sessions
           /\ \A d \in SessionCalls : handling'[d] = IF d = c THEN next ELSE handling[d]
BY DEF SessionsTypeOK, SessionGoes

LEMMA PlacesAre ==
    /\ \A place \in HandlingPlaces, s \in Sessions :
          /\ HandlingAt(place, s) \in [at : HandlingPlaces, session : Sessions \cup {NoSession}]
          /\ HandlingAt(place, s).at = place /\ HandlingAt(place, s).session = s
    /\ NotHandling \in [at : HandlingPlaces, session : Sessions \cup {NoSession}]
    /\ NotHandling.at = "idle" /\ NotHandling.session = NoSession
BY DEF HandlingAt, NotHandling, HandlingPlaces

LEMMA SpawnType ==
    ASSUME SessionsTypeOK, NEW s \in Sessions, Spawns(s)
    PROVE  /\ alive' \in [Sessions -> 0 .. MaxProcesses] /\ ending' = ending
           /\ alive'[s] + ending'[s] \in 1 .. MaxProcesses
           /\ \A t \in Sessions \ {s} : alive'[t] = alive[t]
BY CodexSessionsAssumption DEF SessionsTypeOK, Spawns

LEMMA EntryBecomes ==
    ASSUME CodexInv, NEW s \in Sessions, NEW st \in SessionStatuses, Becomes(s, st)
    PROVE  /\ live' \in [Sessions -> Seq(SessionStatuses)]
           /\ stored' \in [Sessions -> SessionStatuses \cup {"none"}]
           /\ \A t \in Sessions \ {s} : live'[t] = live[t] /\ stored'[t] = stored[t]
           /\ stored'[s] = st
           /\ Len(live'[s]) = Len(live[s])
           /\ live'[s] = <<>> <=> live[s] = <<>>
           /\ live[s] # <<>> => live'[s][1] = st
<1> DEFINE r == [live[s] EXCEPT ![1] = st]
<1>1. live[s] \in Seq(SessionStatuses)
  BY DEF CodexInv
<1>2. /\ r \in Seq(SessionStatuses) /\ Len(r) = Len(live[s])
      /\ live[s] = <<>> <=> r = <<>>
      /\ live[s] # <<>> => r[1] = st
  BY <1>1, FirstWritten
<1>3. live' = [live EXCEPT ![s] = r] /\ stored' = [stored EXCEPT ![s] = st]
  BY DEF Becomes
<1> HIDE DEF r
<1> QED
  BY <1>2, <1>3 DEF CodexInv, SessionsTypeOK

\* What a step of one call and one session has to keep.
LEMMA OneSession ==
    ASSUME CodexInv, SessionsTypeOK', live' \in [Sessions -> Seq(SessionStatuses)],
           NEW s \in Sessions,
           \A t \in Sessions \ {s} :
              /\ live'[t] = live[t] /\ stored'[t] = stored[t]
              /\ alive'[t] = alive[t] /\ ending'[t] = ending[t]
              /\ t \in unheard => t \in unheard'
              /\ t \in outrun => t \in outrun',
           \A d \in SessionCalls :
              handling'[d].session \in Sessions \ {s} => handling'[d] = handling[d],
           \A d \in SessionCalls : HandlingInv(d)',
           stored'[s] = "none" => live'[s] = <<>>,
           alive'[s] + ending'[s] <= MaxProcesses,
           s \notin outrun' => TrackedInv(s)'
    PROVE  CodexInv'
<1>1. ASSUME NEW t \in Sessions \ outrun', t # s PROVE TrackedInv(t)'
  <2>1. TrackedInv(t)
    BY <1>1 DEF CodexInv
  <2> QED
    BY <1>1, <2>1, OtherSessions
<1> QED
  BY <1>1 DEF CodexInv

LEMMA OtherCall ==
    ASSUME NEW d, HandlingInv(d), handling'[d] = handling[d],
           registry = d => registry' = d,
           handling[d].at # "idle" /\ stored[handling[d].session] # "none" =>
              stored'[handling[d].session] # "none"
    PROVE  HandlingInv(d)'
BY DEF HandlingInv

\* A call goes to another place with the same session, or returns.
LEMMA CallMoves ==
    ASSUME CodexInv, NEW c \in SessionCalls, NEW s \in Sessions, NEW next,
           handling[c].session \in {s, NoSession},
           \/ next = NotHandling
           \/ \E place \in HandlingPlaces \ {"idle"} : next = HandlingAt(place, s),
           SessionGoes(c, next)
    PROVE  /\ handling' \in [SessionCalls ->
                                 [at : HandlingPlaces, session : Sessions \cup {NoSession}]]
           /\ \A d \in SessionCalls : handling'[d].at # "idle" => handling'[d].session \in Sessions
           /\ \A d \in SessionCalls : handling'[d] = IF d = c THEN next ELSE handling[d]
           /\ \A d \in SessionCalls :
                 handling'[d].session \in Sessions \ {s} => handling'[d] = handling[d]
           /\ next.at = "idle" => next = NotHandling /\ next.session = NoSession
           /\ next.at # "idle" => next.session = s
<1>1. /\ next \in [at : HandlingPlaces, session : Sessions \cup {NoSession}]
      /\ next.at = "idle" => next = NotHandling /\ next.session = NoSession
      /\ next.at # "idle" => next.session = s
  BY PlacesAre
<1>2. \A d \in SessionCalls : handling'[d] = IF d = c THEN next ELSE handling[d]
  BY <1>1, HandlingGoes DEF CodexInv
<1>3. \A d \in SessionCalls :
         handling'[d].session \in Sessions \ {s} => handling'[d] = handling[d]
  BY <1>1, <1>2, CodexSessionsAssumption
<1> QED
  BY <1>1, <1>2, <1>3, HandlingGoes DEF CodexInv

LEMMA SessionStartsKeeps ==
    ASSUME CodexInv, NEW c \in SessionCalls, NEW s \in Sessions, StartsSession(c, s)
    PROVE  CodexInv'
<1> DEFINE next == HandlingAt("registering", s)
<1>1. /\ handling[c] = NotHandling /\ stored[s] = "none" /\ Spawns(s)
      /\ stored' = [stored EXCEPT ![s] = "running"] /\ SessionGoes(c, next)
      /\ UNCHANGED <<live, registry, unheard, outrun, quits>>
  BY DEF StartsSession
<1>2. next.at = "registering" /\ next.session = s
      /\ \E place \in HandlingPlaces \ {"idle"} : next = HandlingAt(place, s)
  BY PlacesAre DEF HandlingPlaces
<1>3. handling[c].session = NoSession
  BY <1>1, PlacesAre
<1> HIDE DEF next
<1>4. /\ handling' \in [SessionCalls -> [at : HandlingPlaces, session : Sessions \cup {NoSession}]]
      /\ \A d \in SessionCalls : handling'[d].at # "idle" => handling'[d].session \in Sessions
      /\ \A d \in SessionCalls : handling'[d] = IF d = c THEN next ELSE handling[d]
      /\ \A d \in SessionCalls :
            handling'[d].session \in Sessions \ {s} => handling'[d] = handling[d]
  BY <1>1, <1>2, <1>3, CallMoves
<1>5. /\ alive' \in [Sessions -> 0 .. MaxProcesses] /\ ending' = ending
      /\ alive'[s] + ending'[s] \in 1 .. MaxProcesses
      /\ \A t \in Sessions \ {s} : alive'[t] = alive[t]
  BY <1>1, SpawnType DEF CodexInv
<1>6. /\ stored' \in [Sessions -> SessionStatuses \cup {"none"}] /\ stored'[s] = "running"
      /\ \A t \in Sessions \ {s} : stored'[t] = stored[t]
  BY <1>1 DEF CodexInv, SessionsTypeOK, SessionStatuses
<1>7. SessionsTypeOK' /\ live' \in [Sessions -> Seq(SessionStatuses)]
  BY <1>1, <1>4, <1>5, <1>6 DEF CodexInv, SessionsTypeOK
<1>8. live[s] = <<>> /\ \A d \in SessionCalls \ {c} : handling[d].session # s
  BY <1>1, CodexSessionsAssumption, PlacesAre DEF CodexInv, HandlingInv
<1>9. ASSUME NEW d \in SessionCalls PROVE HandlingInv(d)'
  <2>1. CASE d = c
    BY <1>2, <1>4, <1>6, <2>1 DEF HandlingInv, RegistryLocked
  <2>2. CASE d # c
    <3>1. handling[d].at # "idle" /\ stored[handling[d].session] # "none" =>
             stored'[handling[d].session] # "none"
      BY <1>1, <1>6 DEF CodexInv, SessionsTypeOK
    <3> QED
      BY <1>1, <1>4, <2>2, <3>1, OtherCall DEF CodexInv
  <2> QED
    BY <2>1, <2>2
<1>10. TrackedInv(s)'
  BY <1>1, <1>2, <1>4, <1>5, <1>6, <1>8 DEF TrackedInv, Registrars
<1>11. alive'[s] + ending'[s] <= MaxProcesses
  BY <1>5, CodexSessionsAssumption
<1> QED
  BY <1>1, <1>4, <1>5, <1>6, <1>7, <1>8, <1>9, <1>10, <1>11, OneSession

LEMMA RegistersKeeps ==
    ASSUME CodexInv, NEW c \in SessionCalls, RegistersSession(c)
    PROVE  CodexInv'
<1>1. PICK s \in Sessions : s = handling[c].session
  BY DEF RegistersSession, CodexInv, SessionsTypeOK
<1>2. /\ handling[c].at = "registering" /\ registry = NoCall
      /\ live' = [live EXCEPT ![s] = Append(live[s], "running")]
      /\ UNCHANGED <<stored, registry, alive, ending, unheard, outrun, quits>>
  BY <1>1 DEF RegistersSession
<1>3. PICK next \in {HandlingAt("annotating", s), NotHandling} : SessionGoes(c, next)
  BY <1>1 DEF RegistersSession
<1>4. /\ handling' \in [SessionCalls -> [at : HandlingPlaces, session : Sessions \cup {NoSession}]]
      /\ \A d \in SessionCalls : handling'[d].at # "idle" => handling'[d].session \in Sessions
      /\ \A d \in SessionCalls : handling'[d] = IF d = c THEN next ELSE handling[d]
      /\ \A d \in SessionCalls :
            handling'[d].session \in Sessions \ {s} => handling'[d] = handling[d]
      /\ next.at = "idle" => next = NotHandling
      /\ next.at # "idle" => next.session = s
  BY <1>1, <1>3, CallMoves DEF HandlingPlaces
<1>5. next.at \in {"annotating", "idle"}
  BY <1>3, PlacesAre DEF HandlingPlaces
<1>6. /\ live' \in [Sessions -> Seq(SessionStatuses)]
      /\ \A t \in Sessions \ {s} : live'[t] = live[t]
      /\ live[s] = <<>> => live'[s] = <<"running">>
  <2>1. live[s] \in Seq(SessionStatuses) /\ "running" \in SessionStatuses
    BY DEF CodexInv, SessionStatuses
  <2>2. Append(live[s], "running") \in Seq(SessionStatuses)
    BY <2>1
  <2>3. live[s] = <<>> => Append(live[s], "running") = <<"running">>
    OBVIOUS
  <2> QED
    BY <1>2, <2>2, <2>3 DEF CodexInv
<1>7. SessionsTypeOK'
  BY <1>2, <1>4, <1>6 DEF CodexInv, SessionsTypeOK
<1>8. stored'[s] # "none"
  BY <1>1, <1>2 DEF CodexInv, HandlingInv
<1>9. ASSUME NEW d \in SessionCalls PROVE HandlingInv(d)'
  <2>1. CASE d = c
    BY <1>4, <1>5, <1>8, <2>1 DEF HandlingInv, RegistryLocked
  <2>2. CASE d # c
    BY <1>2, <1>4, <2>2, OtherCall DEF CodexInv
  <2> QED
    BY <2>1, <2>2
<1>10. ASSUME s \notin outrun PROVE TrackedInv(s)'
  <2>1. TrackedInv(s)
    BY <1>10 DEF CodexInv
  <2>2. /\ live[s] = <<>> /\ stored[s] = "running"
        /\ s \notin unheard => alive[s] + ending[s] > 0
        /\ \A d \in SessionCalls \ {c} : handling[d].session = s => handling[d].at = "loading"
    BY <1>1, <1>2, <2>1 DEF TrackedInv, Registrars
  <2>3. Len(live'[s]) = 1 /\ live'[s][1] = "running" /\ live'[s] # <<>>
    <3>1. \A q : q = <<"running">> => Len(q) = 1 /\ q[1] = "running" /\ q # <<>>
      OBVIOUS
    <3> QED
      BY <1>6, <2>2, <3>1
  <2>4. /\ stored'[s] = stored[s] /\ alive'[s] = alive[s] /\ ending'[s] = ending[s]
        /\ unheard' = unheard
    BY <1>2
  <2>5. \A d \in SessionCalls :
           handling'[d].session = s => handling'[d].at \in {"loading", "annotating", "idle"}
    BY <1>4, <1>5, <2>2
  <2> QED
    BY <2>2, <2>3, <2>4, <2>5 DEF TrackedInv, Registrars
<1>11. alive'[s] + ending'[s] <= MaxProcesses
  BY <1>2 DEF CodexInv
<1> QED
  BY <1>2, <1>4, <1>6, <1>7, <1>8, <1>9, <1>10, <1>11, OneSession

\* While the lock is free nobody is between the statements under it.
LEMMA NobodyLocked ==
    ASSUME CodexInv, NEW d \in SessionCalls, registry = NoCall \/ registry \in SessionCalls \ {d}
    PROVE  handling[d].at \notin RegistryLocked /\ registry # d
BY CodexSessionsAssumption DEF CodexInv, HandlingInv

LEMMA AnnotatesKeeps ==
    ASSUME CodexInv, NEW c \in SessionCalls, AnnotatesSession(c)
    PROVE  CodexInv'
<1>1. PICK s \in Sessions : s = handling[c].session
  BY DEF AnnotatesSession, CodexInv, SessionsTypeOK
<1>2. /\ handling[c].at = "annotating" /\ registry = NoCall
      /\ stored' = IF live[s] # <<>> THEN [stored EXCEPT ![s] = live[s][1]] ELSE stored
      /\ SessionGoes(c, NotHandling)
      /\ UNCHANGED <<live, registry, alive, ending, unheard, outrun, quits>>
  BY <1>1 DEF AnnotatesSession, Registered, Entry
<1>3. /\ handling' \in [SessionCalls -> [at : HandlingPlaces, session : Sessions \cup {NoSession}]]
      /\ \A d \in SessionCalls : handling'[d].at # "idle" => handling'[d].session \in Sessions
      /\ \A d \in SessionCalls : handling'[d] = IF d = c THEN NotHandling ELSE handling[d]
      /\ \A d \in SessionCalls :
            handling'[d].session \in Sessions \ {s} => handling'[d] = handling[d]
  BY <1>1, <1>2, CallMoves
<1>4. live[s] \in Seq(SessionStatuses) /\ (live[s] # <<>> => live[s][1] \in SessionStatuses)
  BY DEF CodexInv
<1>5. /\ stored' \in [Sessions -> SessionStatuses \cup {"none"}]
      /\ \A t \in Sessions \ {s} : stored'[t] = stored[t]
      /\ stored'[s] = IF live[s] # <<>> THEN live[s][1] ELSE stored[s]
      /\ stored[s] # "none" /\ stored'[s] # "none"
  BY <1>1, <1>2, <1>4 DEF CodexInv, SessionsTypeOK, HandlingInv, SessionStatuses
<1>6. SessionsTypeOK' /\ live' \in [Sessions -> Seq(SessionStatuses)]
  BY <1>2, <1>3, <1>5 DEF CodexInv, SessionsTypeOK
<1>7. ASSUME NEW d \in SessionCalls PROVE HandlingInv(d)'
  <2>1. CASE d = c
    BY <1>3, <2>1, PlacesAre DEF HandlingInv, RegistryLocked
  <2>2. CASE d # c
    <3>1. handling[d].at # "idle" /\ stored[handling[d].session] # "none" =>
             stored'[handling[d].session] # "none"
      BY <1>2, <1>5
    <3> QED
      BY <1>2, <1>3, <2>2, <3>1, OtherCall DEF CodexInv
  <2> QED
    BY <2>1, <2>2
<1>8. ASSUME s \notin outrun PROVE TrackedInv(s)'
  <2>1. TrackedInv(s)
    BY <1>8 DEF CodexInv
  <2>2. stored'[s] = stored[s]
    BY <1>5, <2>1 DEF TrackedInv
  <2>3. \A d \in SessionCalls : handling'[d].session = s => handling'[d] = handling[d]
    BY <1>3, PlacesAre, CodexSessionsAssumption
  <2> QED
    BY <1>2, <2>1, <2>2, <2>3, OtherSessions
<1>9. alive'[s] + ending'[s] <= MaxProcesses
  BY <1>2 DEF CodexInv
<1> QED
  BY <1>2, <1>3, <1>5, <1>6, <1>7, <1>8, <1>9, OneSession

LEMMA EndsKeeps ==
    ASSUME CodexInv, NEW s \in Sessions, SessionProcessEnds(s)
    PROVE  CodexInv'
<1>1. /\ alive[s] > 0 /\ alive' = [alive EXCEPT ![s] = @ - 1]
      /\ ending' = [ending EXCEPT ![s] = @ + 1]
      /\ UNCHANGED <<stored, live, registry, handling, unheard, outrun, quits>>
  BY DEF SessionProcessEnds
<1>2. /\ alive[s] \in Nat /\ ending[s] \in Nat /\ alive[s] + ending[s] <= MaxProcesses
      /\ MaxProcesses \in Nat
  BY CodexSessionsAssumption DEF CodexInv, SessionsTypeOK
<1>3. alive[s] - 1 \in 0 .. MaxProcesses /\ ending[s] + 1 \in 0 .. MaxProcesses
  BY <1>1, <1>2
<1>4. /\ alive' \in [Sessions -> 0 .. MaxProcesses] /\ ending' \in [Sessions -> 0 .. MaxProcesses]
      /\ alive'[s] + ending'[s] = alive[s] + ending[s]
      /\ \A t \in Sessions \ {s} : alive'[t] = alive[t] /\ ending'[t] = ending[t]
  <2>1. alive' \in [Sessions -> 0 .. MaxProcesses] /\ ending' \in [Sessions -> 0 .. MaxProcesses]
    BY <1>1, <1>3 DEF CodexInv, SessionsTypeOK
  <2>2. alive'[s] = alive[s] - 1 /\ ending'[s] = ending[s] + 1
    BY <1>1 DEF CodexInv, SessionsTypeOK
  <2> QED
    BY <1>1, <1>2, <2>1, <2>2
<1>5. SessionsTypeOK' /\ live' \in [Sessions -> Seq(SessionStatuses)]
  BY <1>1, <1>4 DEF CodexInv, SessionsTypeOK
<1>6. \A d \in SessionCalls : HandlingInv(d)'
  BY <1>1, OtherCall DEF CodexInv
<1>7. ASSUME s \notin outrun PROVE TrackedInv(s)'
  <2>1. TrackedInv(s)
    BY <1>7 DEF CodexInv
  <2> QED
    BY <1>1, <1>4, <2>1 DEF TrackedInv
<1>8. stored'[s] = "none" => live'[s] = <<>>
  BY <1>1 DEF CodexInv
<1> QED
  BY <1>1, <1>2, <1>4, <1>5, <1>6, <1>7, <1>8, OneSession

LEMMA RecordsKeeps ==
    ASSUME CodexInv, NEW s \in Sessions, RecordsExit(s)
    PROVE  CodexInv'
<1>1. /\ ending[s] > 0 /\ registry = NoCall /\ ending' = [ending EXCEPT ![s] = @ - 1]
      /\ UNCHANGED <<registry, handling, alive, outrun, quits>>
  BY DEF RecordsExit
<1>2. /\ alive[s] \in Nat /\ ending[s] \in Nat /\ alive[s] + ending[s] <= MaxProcesses
      /\ MaxProcesses \in Nat
  BY CodexSessionsAssumption DEF CodexInv, SessionsTypeOK
<1>3. /\ ending' \in [Sessions -> 0 .. MaxProcesses]
      /\ \A t \in Sessions \ {s} : ending'[t] = ending[t]
      /\ alive'[s] + ending'[s] <= MaxProcesses
  BY <1>1, <1>2 DEF CodexInv, SessionsTypeOK
<1>4. CASE live[s] # <<>>
  <2>1. PICK st \in TerminalSession : Becomes(s, st)
    BY <1>4 DEF RecordsExit, Registered
  <2>2. st \in SessionStatuses /\ st \notin {"none", "running", "starting"}
    BY DEF TerminalSession, SessionStatuses
  <2>3. unheard' = unheard
    BY <1>4 DEF RecordsExit, Registered
  <2>4. /\ live' \in [Sessions -> Seq(SessionStatuses)]
        /\ stored' \in [Sessions -> SessionStatuses \cup {"none"}]
        /\ \A t \in Sessions \ {s} : live'[t] = live[t] /\ stored'[t] = stored[t]
        /\ stored'[s] = st /\ Len(live'[s]) = Len(live[s])
        /\ live'[s] # <<>> /\ live'[s][1] = st
    BY <1>4, <2>1, <2>2, EntryBecomes
  <2>5. SessionsTypeOK'
    BY <1>1, <1>3, <2>3, <2>4 DEF CodexInv, SessionsTypeOK
  <2>6. ASSUME NEW d \in SessionCalls PROVE HandlingInv(d)'
    <3>1. handling[d].at # "idle" /\ stored[handling[d].session] # "none" =>
             stored'[handling[d].session] # "none"
      BY <2>2, <2>4 DEF CodexInv, SessionsTypeOK
    <3> QED
      BY <1>1, <3>1, OtherCall DEF CodexInv
  <2>7. ASSUME s \notin outrun PROVE TrackedInv(s)'
    <3>1. TrackedInv(s)
      BY <2>7 DEF CodexInv
    <3>2. \A d \in SessionCalls : handling[d].session = s =>
             handling[d].at \notin Registrars /\ handling[d].at \notin RegistryLocked
      BY <1>1, <1>4, <3>1, NobodyLocked DEF TrackedInv
    <3> QED
      BY <1>1, <2>2, <2>4, <3>1, <3>2 DEF TrackedInv, Registrars, RegistryLocked
  <2> QED
    BY <1>1, <1>3, <2>2, <2>3, <2>4, <2>5, <2>6, <2>7, OneSession
<1>5. CASE live[s] = <<>>
  <2>1. /\ stored' = stored /\ live' = live
        /\ unheard' = IF \E c \in SessionCalls : handling[c] = HandlingAt("registering", s)
                      THEN unheard \cup {s} ELSE unheard
    BY <1>5 DEF RecordsExit, Registered
  <2>2. SessionsTypeOK' /\ live' \in [Sessions -> Seq(SessionStatuses)]
    BY <1>1, <1>3, <2>1 DEF CodexInv, SessionsTypeOK
  <2>3. \A d \in SessionCalls : HandlingInv(d)'
    BY <1>1, <2>1, OtherCall DEF CodexInv
  <2>4. ASSUME NEW c \in SessionCalls, handling[c].session = s, handling[c].at = "registering"
        PROVE  s \in unheard'
    BY <2>1, <2>4 DEF CodexInv, SessionsTypeOK, HandlingAt
  <2>5. ASSUME s \notin outrun PROVE TrackedInv(s)'
    <3>1. TrackedInv(s)
      BY <2>5 DEF CodexInv
    <3> QED
      BY <1>1, <1>5, <2>1, <2>4, <3>1 DEF TrackedInv
  <2>6. \A t \in Sessions : t \in unheard => t \in unheard'
    BY <2>1
  <2> QED
    BY <1>1, <1>3, <1>5, <2>1, <2>2, <2>3, <2>5, <2>6, OneSession
<1> QED
  BY <1>4, <1>5

\* A call takes the lock and writes the entry it has found.
LEMMA TakesEntryKeeps ==
    ASSUME CodexInv, NEW c \in SessionCalls, NEW s \in Sessions,
           NEW place \in {"interrupting", "respawning"}, NEW st \in {"interrupted", "starting"},
           handling[c] = NotHandling, registry = NoCall, live[s] # <<>>, Becomes(s, st),
           registry' = c, SessionGoes(c, HandlingAt(place, s)),
           UNCHANGED <<alive, ending, unheard, outrun, quits>>
    PROVE  CodexInv'
<1> DEFINE next == HandlingAt(place, s)
<1>1. next.at = place /\ next.session = s
      /\ \E p \in HandlingPlaces \ {"idle"} : next = HandlingAt(p, s)
  BY PlacesAre DEF HandlingPlaces
<1>2. handling[c].session = NoSession
  BY PlacesAre
<1>3. SessionGoes(c, next)
  OBVIOUS
<1> HIDE DEF next
<1>4. /\ handling' \in [SessionCalls -> [at : HandlingPlaces, session : Sessions \cup {NoSession}]]
      /\ \A d \in SessionCalls : handling'[d].at # "idle" => handling'[d].session \in Sessions
      /\ \A d \in SessionCalls : handling'[d] = IF d = c THEN next ELSE handling[d]
      /\ \A d \in SessionCalls :
            handling'[d].session \in Sessions \ {s} => handling'[d] = handling[d]
  BY <1>1, <1>2, <1>3, CallMoves
<1>5. st \in SessionStatuses
  BY DEF SessionStatuses
<1>6. /\ live' \in [Sessions -> Seq(SessionStatuses)]
      /\ stored' \in [Sessions -> SessionStatuses \cup {"none"}]
      /\ \A t \in Sessions \ {s} : live'[t] = live[t] /\ stored'[t] = stored[t]
      /\ stored'[s] = st /\ Len(live'[s]) = Len(live[s])
      /\ live'[s] # <<>> /\ live'[s][1] = st
  BY <1>5, EntryBecomes
<1>7. SessionsTypeOK'
  BY <1>4, <1>6 DEF CodexInv, SessionsTypeOK
<1>8. ASSUME NEW d \in SessionCalls PROVE HandlingInv(d)'
  <2>1. CASE d = c
    BY <1>1, <1>4, <1>6, <2>1 DEF HandlingInv
  <2>2. CASE d # c
    <3>1. handling[d].at # "idle" /\ stored[handling[d].session] # "none" =>
             stored'[handling[d].session] # "none"
      BY <1>6 DEF CodexInv, SessionsTypeOK
    <3> QED
      BY <1>4, <2>2, <3>1, NobodyLocked, OtherCall DEF CodexInv
  <2> QED
    BY <2>1, <2>2
<1>9. ASSUME s \notin outrun PROVE TrackedInv(s)'
  <2>1. TrackedInv(s)
    BY <1>9 DEF CodexInv
  <2>2. \A d \in SessionCalls : handling[d].session = s =>
           handling[d].at \notin Registrars /\ handling[d].at \notin RegistryLocked
    BY <2>1, NobodyLocked DEF TrackedInv
  <2>3. \A d \in SessionCalls : handling'[d].session = s =>
           handling'[d].at \notin Registrars /\ handling'[d].at # "stopping"
    BY <1>1, <1>4, <2>2 DEF Registrars, RegistryLocked
  <2> QED
    BY <1>6, <2>1, <2>3 DEF TrackedInv, Registrars
<1>10. alive'[s] + ending'[s] <= MaxProcesses
  BY DEF CodexInv
<1> QED
  BY <1>4, <1>6, <1>7, <1>8, <1>9, <1>10, OneSession

\* The call that holds the lock is through with the session.
LEMMA LetsGoKeeps ==
    ASSUME CodexInv, NEW c \in SessionCalls, NEW s \in Sessions, handling[c].session = s,
           handling[c].at \in RegistryLocked, SessionsTypeOK',
           registry' = NoCall, SessionGoes(c, NotHandling),
           live' \in [Sessions -> Seq(SessionStatuses)],
           \A t \in Sessions \ {s} :
              /\ live'[t] = live[t] /\ stored'[t] = stored[t] /\ alive'[t] = alive[t],
           ending' = ending, unheard' = unheard, outrun' = outrun,
           alive'[s] + ending'[s] <= MaxProcesses,
           stored'[s] # "none", Len(live'[s]) = Len(live[s]),
           live[s] = <<>> <=> live'[s] = <<>>,
           s \notin outrun /\ live'[s] # <<>> => live'[s][1] = stored'[s],
           s \notin outrun /\ live'[s] # <<>> /\ stored'[s] = "running" /\ s \notin unheard =>
              alive'[s] + ending'[s] > 0
    PROVE  CodexInv'
<1>1. /\ \A d \in SessionCalls : handling'[d] = IF d = c THEN NotHandling ELSE handling[d]
      /\ \A d \in SessionCalls :
            handling'[d].session \in Sessions \ {s} => handling'[d] = handling[d]
  BY CallMoves
<1>2. registry = c
  BY DEF CodexInv, HandlingInv
<1>3. ASSUME NEW d \in SessionCalls PROVE HandlingInv(d)'
  <2>1. CASE d = c
    BY <1>1, <2>1, PlacesAre DEF HandlingInv, RegistryLocked
  <2>2. CASE d # c
    <3>1. handling[d].at # "idle" /\ stored[handling[d].session] # "none" =>
             stored'[handling[d].session] # "none"
      BY DEF CodexInv, SessionsTypeOK
    <3> QED
      BY <1>1, <1>2, <2>2, <3>1, OtherCall DEF CodexInv
  <2> QED
    BY <2>1, <2>2
<1>4. ASSUME s \notin outrun PROVE TrackedInv(s)'
  <2>1. TrackedInv(s)
    BY <1>4 DEF CodexInv
  <2>2. \A d \in SessionCalls : handling'[d].session = s => d # c /\ handling'[d] = handling[d]
    BY <1>1, PlacesAre, CodexSessionsAssumption
  <2>3. \A d \in SessionCalls \ {c} : handling[d].session = s => handling[d].at \notin Registrars
    BY <2>1 DEF TrackedInv, Registrars, RegistryLocked
  <2>4. \A d \in SessionCalls \ {c} : handling[d].at \notin RegistryLocked
    BY <1>2, NobodyLocked
  <2> QED
    BY <1>4, <2>1, <2>2, <2>3, <2>4 DEF TrackedInv, Registrars, RegistryLocked
<1> QED
  BY <1>1, <1>3, <1>4, OneSession

LEMMA StopsKeeps ==
    ASSUME CodexInv, NEW c \in SessionCalls, NEW s \in Sessions, StopsSession(c, s)
    PROVE  CodexInv'
<1> DEFINE next == HandlingAt("stopping", s)
<1>1. /\ handling[c] = NotHandling /\ registry = NoCall /\ live[s] # <<>>
      /\ live' = [live EXCEPT ![s] = Tail(live[s])]
      /\ stored' = [stored EXCEPT ![s] = "interrupted"]
      /\ registry' = c /\ unheard' = unheard \ {s} /\ SessionGoes(c, next)
      /\ UNCHANGED <<alive, ending, outrun, quits>>
  BY DEF StopsSession, Registered
<1>2. next.at = "stopping" /\ next.session = s
      /\ \E p \in HandlingPlaces \ {"idle"} : next = HandlingAt(p, s)
  BY PlacesAre DEF HandlingPlaces
<1>3. handling[c].session = NoSession
  BY <1>1, PlacesAre
<1> HIDE DEF next
<1>4. /\ handling' \in [SessionCalls -> [at : HandlingPlaces, session : Sessions \cup {NoSession}]]
      /\ \A d \in SessionCalls : handling'[d].at # "idle" => handling'[d].session \in Sessions
      /\ \A d \in SessionCalls : handling'[d] = IF d = c THEN next ELSE handling[d]
      /\ \A d \in SessionCalls :
            handling'[d].session \in Sessions \ {s} => handling'[d] = handling[d]
  BY <1>1, <1>2, <1>3, CallMoves
<1>5. /\ live' \in [Sessions -> Seq(SessionStatuses)]
      /\ \A t \in Sessions \ {s} : live'[t] = live[t]
      /\ Len(live[s]) <= 1 => live'[s] = <<>>
  <2>1. live[s] \in Seq(SessionStatuses) /\ live[s] # <<>>
    BY <1>1 DEF CodexInv
  <2>2. Tail(live[s]) \in Seq(SessionStatuses)
    BY <2>1
  <2>3. Len(live[s]) <= 1 => Tail(live[s]) = <<>>
    <3>1. Len(Tail(live[s])) = Len(live[s]) - 1 /\ Len(live[s]) \in Nat
      BY <2>1
    <3>2. \A q \in Seq(SessionStatuses) : Len(q) <= 0 => q = <<>>
      OBVIOUS
    <3> QED
      BY <2>2, <3>1, <3>2
  <2> QED
    BY <1>1, <2>2, <2>3 DEF CodexInv
<1>6. /\ stored' \in [Sessions -> SessionStatuses \cup {"none"}] /\ stored'[s] = "interrupted"
      /\ \A t \in Sessions \ {s} : stored'[t] = stored[t]
  BY <1>1 DEF CodexInv, SessionsTypeOK, SessionStatuses
<1>7. SessionsTypeOK'
  BY <1>1, <1>4, <1>5, <1>6 DEF CodexInv, SessionsTypeOK
<1>8. ASSUME NEW d \in SessionCalls PROVE HandlingInv(d)'
  <2>1. CASE d = c
    BY <1>1, <1>2, <1>4, <1>6, <2>1 DEF HandlingInv
  <2>2. CASE d # c
    <3>1. handling[d].at # "idle" /\ stored[handling[d].session] # "none" =>
             stored'[handling[d].session] # "none"
      BY <1>6 DEF CodexInv, SessionsTypeOK
    <3> QED
      BY <1>1, <1>4, <2>2, <3>1, NobodyLocked, OtherCall DEF CodexInv
  <2> QED
    BY <2>1, <2>2
<1>9. ASSUME s \notin outrun PROVE TrackedInv(s)'
  <2>1. TrackedInv(s)
    BY <1>9 DEF CodexInv
  <2>2. live'[s] = <<>>
    BY <1>5, <2>1 DEF TrackedInv
  <2>3. \A d \in SessionCalls : handling'[d].session = s => handling'[d].at \notin Registrars
    BY <1>1, <1>2, <1>4, <2>1 DEF TrackedInv, Registrars
  <2> QED
    BY <2>2, <2>3 DEF TrackedInv, Registrars
<1>10. /\ alive'[s] + ending'[s] <= MaxProcesses
       /\ \A t \in Sessions \ {s} :
             /\ alive'[t] = alive[t] /\ ending'[t] = ending[t]
             /\ t \in unheard => t \in unheard'
             /\ t \in outrun => t \in outrun'
       /\ outrun' = outrun
  BY <1>1 DEF CodexInv
<1> QED
  BY <1>4, <1>5, <1>6, <1>7, <1>8, <1>9, <1>10, OneSession

LEMMA MakesResumableKeeps ==
    ASSUME CodexInv, NEW c \in SessionCalls, MakesResumable(c)
    PROVE  CodexInv'
<1>1. PICK s \in Sessions : s = handling[c].session
  BY DEF MakesResumable, CodexInv, SessionsTypeOK
<1>2. /\ registry' = NoCall /\ SessionGoes(c, NotHandling)
      /\ UNCHANGED <<alive, ending, unheard, outrun, quits>>
      /\ handling[c].at \in {"interrupting", "stopping"}
  BY DEF MakesResumable
<1>3. /\ handling' \in [SessionCalls -> [at : HandlingPlaces, session : Sessions \cup {NoSession}]]
      /\ \A d \in SessionCalls : handling'[d].at # "idle" => handling'[d].session \in Sessions
  BY <1>1, <1>2, CallMoves
<1>4. alive'[s] + ending'[s] <= MaxProcesses /\ handling[c].at \in RegistryLocked
  BY <1>2 DEF CodexInv, RegistryLocked
<1>5. CASE handling[c].at = "interrupting"
  <2>1. Becomes(s, "resumable") /\ "resumable" \in SessionStatuses
    BY <1>1, <1>5 DEF MakesResumable, SessionStatuses
  <2>2. /\ live' \in [Sessions -> Seq(SessionStatuses)]
        /\ stored' \in [Sessions -> SessionStatuses \cup {"none"}]
        /\ \A t \in Sessions \ {s} : live'[t] = live[t] /\ stored'[t] = stored[t]
        /\ stored'[s] = "resumable" /\ Len(live'[s]) = Len(live[s])
        /\ live'[s] = <<>> <=> live[s] = <<>>
        /\ live[s] # <<>> => live'[s][1] = "resumable"
    BY <2>1, EntryBecomes
  <2>3. SessionsTypeOK'
    BY <1>2, <1>3, <2>2 DEF CodexInv, SessionsTypeOK
  <2> QED
    BY <1>1, <1>2, <1>4, <2>2, <2>3, LetsGoKeeps
<1>6. CASE handling[c].at = "stopping"
  <2>1. stored' = [stored EXCEPT ![s] = "resumable"] /\ live' = live
    BY <1>1, <1>6 DEF MakesResumable
  <2>2. /\ stored' \in [Sessions -> SessionStatuses \cup {"none"}] /\ stored'[s] = "resumable"
        /\ \A t \in Sessions \ {s} : stored'[t] = stored[t]
    BY <2>1 DEF CodexInv, SessionsTypeOK, SessionStatuses
  <2>3. SessionsTypeOK' /\ live' \in [Sessions -> Seq(SessionStatuses)]
    BY <1>2, <1>3, <2>1, <2>2 DEF CodexInv, SessionsTypeOK
  <2>4. s \notin outrun => live[s] = <<>>
    BY <1>1, <1>6 DEF CodexInv, TrackedInv
  <2> QED
    BY <1>1, <1>2, <1>4, <2>1, <2>2, <2>3, <2>4, LetsGoKeeps
<1> QED
  BY <1>2, <1>5, <1>6

LEMMA RespawnsKeeps ==
    ASSUME CodexInv, NEW c \in SessionCalls, RespawnsEntry(c)
    PROVE  CodexInv'
<1>1. PICK s \in Sessions : s = handling[c].session
  BY DEF RespawnsEntry, CodexInv, SessionsTypeOK
<1>2. /\ registry' = NoCall /\ SessionGoes(c, NotHandling) /\ handling[c].at = "respawning"
      /\ UNCHANGED <<unheard, outrun, quits>>
  BY DEF RespawnsEntry
<1>3. /\ handling' \in [SessionCalls -> [at : HandlingPlaces, session : Sessions \cup {NoSession}]]
      /\ \A d \in SessionCalls : handling'[d].at # "idle" => handling'[d].session \in Sessions
  BY <1>1, <1>2, CallMoves
<1>4. handling[c].at \in RegistryLocked
  BY <1>2 DEF RegistryLocked
<1>5. CASE Becomes(s, "running") /\ Spawns(s)
  <2>1. "running" \in SessionStatuses
    BY DEF SessionStatuses
  <2>2. /\ live' \in [Sessions -> Seq(SessionStatuses)]
        /\ stored' \in [Sessions -> SessionStatuses \cup {"none"}]
        /\ \A t \in Sessions \ {s} : live'[t] = live[t] /\ stored'[t] = stored[t]
        /\ stored'[s] = "running" /\ Len(live'[s]) = Len(live[s])
        /\ live'[s] = <<>> <=> live[s] = <<>>
        /\ live[s] # <<>> => live'[s][1] = "running"
    BY <1>5, <2>1, EntryBecomes
  <2>3. /\ alive' \in [Sessions -> 0 .. MaxProcesses] /\ ending' = ending
        /\ alive'[s] + ending'[s] \in 1 .. MaxProcesses
        /\ \A t \in Sessions \ {s} : alive'[t] = alive[t]
    BY <1>5, SpawnType DEF CodexInv
  <2>4. alive'[s] + ending'[s] > 0 /\ alive'[s] + ending'[s] <= MaxProcesses
    BY <2>3, CodexSessionsAssumption
  <2>5. SessionsTypeOK'
    BY <1>2, <1>3, <2>2, <2>3 DEF CodexInv, SessionsTypeOK
  <2> QED
    BY <1>1, <1>2, <1>4, <2>2, <2>3, <2>4, <2>5, LetsGoKeeps
<1>6. CASE UNCHANGED <<stored, live, alive, ending>>
  <2>1. SessionsTypeOK' /\ live' \in [Sessions -> Seq(SessionStatuses)]
    BY <1>2, <1>3, <1>6 DEF CodexInv, SessionsTypeOK
  <2>2. stored'[s] # "none" /\ alive'[s] + ending'[s] <= MaxProcesses
    BY <1>1, <1>2, <1>6 DEF CodexInv, HandlingInv
  <2>3. s \notin outrun => TrackedInv(s)
    BY DEF CodexInv
  <2> QED
    BY <1>1, <1>2, <1>4, <1>6, <2>1, <2>2, <2>3, LetsGoKeeps DEF TrackedInv
<1> QED
  BY <1>1, <1>5, <1>6 DEF RespawnsEntry

LEMMA ResumesRowKeeps ==
    ASSUME CodexInv, NEW c \in SessionCalls, NEW s \in Sessions, ResumesRow(c, s)
    PROVE  CodexInv'
<1> DEFINE next == HandlingAt("loading", s)
<1>1. /\ handling[c] = NotHandling /\ registry = NoCall /\ stored[s] # "none"
      /\ SessionGoes(c, next)
      /\ UNCHANGED <<stored, live, registry, alive, ending, unheard, outrun, quits>>
  BY DEF ResumesRow
<1>2. next.at = "loading" /\ next.session = s
      /\ \E p \in HandlingPlaces \ {"idle"} : next = HandlingAt(p, s)
  BY PlacesAre DEF HandlingPlaces
<1>3. handling[c].session = NoSession
  BY <1>1, PlacesAre
<1> HIDE DEF next
<1>4. /\ handling' \in [SessionCalls -> [at : HandlingPlaces, session : Sessions \cup {NoSession}]]
      /\ \A d \in SessionCalls : handling'[d].at # "idle" => handling'[d].session \in Sessions
      /\ \A d \in SessionCalls : handling'[d] = IF d = c THEN next ELSE handling[d]
      /\ \A d \in SessionCalls :
            handling'[d].session \in Sessions \ {s} => handling'[d] = handling[d]
  BY <1>1, <1>2, <1>3, CallMoves
<1>5. SessionsTypeOK' /\ live' \in [Sessions -> Seq(SessionStatuses)]
  BY <1>1, <1>4 DEF CodexInv, SessionsTypeOK
<1>6. ASSUME NEW d \in SessionCalls PROVE HandlingInv(d)'
  <2>1. CASE d = c
    BY <1>1, <1>2, <1>4, <2>1 DEF HandlingInv, RegistryLocked
  <2>2. CASE d # c
    BY <1>1, <1>4, <2>2, OtherCall DEF CodexInv
  <2> QED
    BY <2>1, <2>2
<1>7. ASSUME s \notin outrun PROVE TrackedInv(s)'
  <2>1. TrackedInv(s)
    BY <1>7 DEF CodexInv
  <2> QED
    BY <1>1, <1>2, <1>4, <2>1 DEF TrackedInv, Registrars
<1>8. alive'[s] + ending'[s] <= MaxProcesses /\ stored'[s] # "none"
  BY <1>1 DEF CodexInv
<1> QED
  BY <1>1, <1>4, <1>5, <1>6, <1>7, <1>8, OneSession

LEMMA LoadsRowKeeps ==
    ASSUME CodexInv, NEW c \in SessionCalls, LoadsRow(c)
    PROVE  CodexInv'
<1>1. PICK s \in Sessions : s = handling[c].session
  BY DEF LoadsRow, CodexInv, SessionsTypeOK
<1> DEFINE next == IF Resumable(stored[s]) THEN HandlingAt("starting", s) ELSE NotHandling
<1>2. /\ handling[c].at = "loading" /\ SessionGoes(c, next)
      /\ UNCHANGED <<stored, live, registry, alive, ending, unheard, outrun, quits>>
  BY <1>1 DEF LoadsRow
<1>3. /\ next.at \in {"starting", "idle"}
      /\ next.at = "starting" => stored[s] \in {"resumable", "interrupted"}
      /\ \/ next = NotHandling
         \/ \E p \in HandlingPlaces \ {"idle"} : next = HandlingAt(p, s)
  BY PlacesAre DEF HandlingPlaces, Resumable
<1> HIDE DEF next
<1>4. /\ handling' \in [SessionCalls -> [at : HandlingPlaces, session : Sessions \cup {NoSession}]]
      /\ \A d \in SessionCalls : handling'[d].at # "idle" => handling'[d].session \in Sessions
      /\ \A d \in SessionCalls : handling'[d] = IF d = c THEN next ELSE handling[d]
      /\ \A d \in SessionCalls :
            handling'[d].session \in Sessions \ {s} => handling'[d] = handling[d]
      /\ next.at = "idle" => next = NotHandling /\ next.session = NoSession
      /\ next.at # "idle" => next.session = s
  BY <1>1, <1>2, <1>3, CallMoves
<1>5. SessionsTypeOK' /\ live' \in [Sessions -> Seq(SessionStatuses)]
  BY <1>2, <1>4 DEF CodexInv, SessionsTypeOK
<1>6. stored[s] # "none"
  BY <1>1, <1>2 DEF CodexInv, HandlingInv
<1>7. ASSUME NEW d \in SessionCalls PROVE HandlingInv(d)'
  <2>1. CASE d = c
    BY <1>2, <1>3, <1>4, <1>6, <2>1 DEF HandlingInv, RegistryLocked
  <2>2. CASE d # c
    BY <1>2, <1>4, <2>2, OtherCall DEF CodexInv
  <2> QED
    BY <2>1, <2>2
<1>8. ASSUME s \notin outrun PROVE TrackedInv(s)'
  <2>1. TrackedInv(s)
    BY <1>8 DEF CodexInv
  <2>2. ASSUME NEW d \in SessionCalls, handling'[d].session = s, handling'[d].at \in Registrars
        PROVE  next.at = "idle" /\ d # c
    <3>1. d # c /\ handling'[d] = handling[d]
      BY <1>3, <1>4, <2>2 DEF Registrars
    <3>2. stored[s] \in {"starting", "running"}
      BY <2>1, <2>2, <3>1 DEF TrackedInv, Registrars
    <3> QED
      BY <1>3, <3>1, <3>2
  <2>3. next.at = "idle" => next.session # s
    BY <1>4, CodexSessionsAssumption
  <2> QED
    BY <1>2, <1>3, <1>4, <2>1, <2>2, <2>3 DEF TrackedInv, Registrars
<1>9. alive'[s] + ending'[s] <= MaxProcesses /\ stored'[s] # "none"
  BY <1>2, <1>6 DEF CodexInv
<1> QED
  BY <1>2, <1>4, <1>5, <1>7, <1>8, <1>9, OneSession

LEMMA MarksKeeps ==
    ASSUME CodexInv, NEW c \in SessionCalls, MarksStarting(c)
    PROVE  CodexInv'
<1>1. PICK s \in Sessions : s = handling[c].session
  BY DEF MarksStarting, CodexInv, SessionsTypeOK
<1> DEFINE next == HandlingAt("spawning", s)
<1>2. /\ handling[c].at = "starting" /\ SessionGoes(c, next)
      /\ stored' = [stored EXCEPT ![s] = "starting"]
      /\ outrun' = IF Overtaken(c, s) THEN outrun \cup {s} ELSE outrun
      /\ UNCHANGED <<live, registry, alive, ending, unheard, quits>>
  BY <1>1 DEF MarksStarting
<1>3. next.at = "spawning" /\ next.session = s
      /\ \E p \in HandlingPlaces \ {"idle"} : next = HandlingAt(p, s)
  BY PlacesAre DEF HandlingPlaces
<1> HIDE DEF next
<1>4. /\ handling' \in [SessionCalls -> [at : HandlingPlaces, session : Sessions \cup {NoSession}]]
      /\ \A d \in SessionCalls : handling'[d].at # "idle" => handling'[d].session \in Sessions
      /\ \A d \in SessionCalls : handling'[d] = IF d = c THEN next ELSE handling[d]
      /\ \A d \in SessionCalls :
            handling'[d].session \in Sessions \ {s} => handling'[d] = handling[d]
  BY <1>1, <1>2, <1>3, CallMoves
<1>5. /\ stored' \in [Sessions -> SessionStatuses \cup {"none"}] /\ stored'[s] = "starting"
      /\ \A t \in Sessions \ {s} : stored'[t] = stored[t]
  BY <1>2 DEF CodexInv, SessionsTypeOK, SessionStatuses
<1>6. /\ outrun' \subseteq Sessions
      /\ \A t \in Sessions \ {s} : t \in outrun => t \in outrun'
      /\ s \notin outrun' => s \notin outrun /\ ~Overtaken(c, s)
  BY <1>2 DEF CodexInv, SessionsTypeOK
<1>7. SessionsTypeOK' /\ live' \in [Sessions -> Seq(SessionStatuses)]
  BY <1>2, <1>4, <1>5, <1>6 DEF CodexInv, SessionsTypeOK
<1>8. ASSUME NEW d \in SessionCalls PROVE HandlingInv(d)'
  <2>1. CASE d = c
    BY <1>3, <1>4, <1>5, <2>1 DEF HandlingInv, RegistryLocked
  <2>2. CASE d # c
    <3>1. handling[d].at # "idle" /\ stored[handling[d].session] # "none" =>
             stored'[handling[d].session] # "none"
      BY <1>5 DEF CodexInv, SessionsTypeOK
    <3> QED
      BY <1>2, <1>4, <2>2, <3>1, OtherCall DEF CodexInv
  <2> QED
    BY <2>1, <2>2
<1>9. ASSUME s \notin outrun' PROVE TrackedInv(s)'
  <2>1. live[s] = <<>> /\ \A d \in SessionCalls \ {c} :
           handling[d].session = s => handling[d].at = "loading"
    BY <1>6, <1>9 DEF Overtaken, Registered
  <2>2. Len(live[s]) = 0
    BY <2>1
  <2> QED
    BY <1>2, <1>3, <1>4, <1>5, <2>1, <2>2 DEF TrackedInv, Registrars
<1>10. alive'[s] + ending'[s] <= MaxProcesses
  BY <1>2 DEF CodexInv
<1> QED
  BY <1>2, <1>4, <1>5, <1>6, <1>7, <1>8, <1>9, <1>10, OneSession

LEMMA SpawnsAgainKeeps ==
    ASSUME CodexInv, NEW c \in SessionCalls, SpawnsAgain(c)
    PROVE  CodexInv'
<1>1. PICK s \in Sessions : s = handling[c].session
  BY DEF SpawnsAgain, CodexInv, SessionsTypeOK
<1>2. /\ handling[c].at = "spawning" /\ stored[s] # "none"
      /\ UNCHANGED <<live, registry, unheard, outrun, quits>>
  BY <1>1 DEF SpawnsAgain, CodexInv, HandlingInv
<1>3. PICK next \in {HandlingAt("registering", s), NotHandling} :
         /\ SessionGoes(c, next)
         /\ \/ /\ next.at = "registering" /\ Spawns(s)
               /\ stored' = [stored EXCEPT ![s] = "running"]
            \/ next = NotHandling /\ UNCHANGED <<stored, alive, ending>>
  BY <1>1, PlacesAre DEF SpawnsAgain, HandlingPlaces
<1>4. /\ handling' \in [SessionCalls -> [at : HandlingPlaces, session : Sessions \cup {NoSession}]]
      /\ \A d \in SessionCalls : handling'[d].at # "idle" => handling'[d].session \in Sessions
      /\ \A d \in SessionCalls : handling'[d] = IF d = c THEN next ELSE handling[d]
      /\ \A d \in SessionCalls :
            handling'[d].session \in Sessions \ {s} => handling'[d] = handling[d]
      /\ next.at = "idle" => next = NotHandling /\ next.session = NoSession
      /\ next.at # "idle" => next.session = s
      /\ next.at \in {"idle", "registering"}
  BY <1>1, <1>3, CallMoves, PlacesAre DEF HandlingPlaces
<1>5. /\ alive' \in [Sessions -> 0 .. MaxProcesses] /\ ending' = ending
      /\ alive'[s] + ending'[s] <= MaxProcesses
      /\ next.at = "registering" => alive'[s] + ending'[s] > 0
      /\ \A t \in Sessions \ {s} : alive'[t] = alive[t]
  <2>1. CASE Spawns(s)
    BY <2>1, SpawnType, CodexSessionsAssumption DEF CodexInv
  <2>2. CASE next = NotHandling /\ UNCHANGED <<stored, alive, ending>>
    BY <2>2, PlacesAre DEF CodexInv, SessionsTypeOK
  <2> QED
    BY <1>3, <2>1, <2>2
<1>6. /\ stored' \in [Sessions -> SessionStatuses \cup {"none"}]
      /\ stored'[s] = IF next.at = "registering" THEN "running" ELSE stored[s]
      /\ \A t \in Sessions \ {s} : stored'[t] = stored[t]
      /\ next.at = "idle" => alive'[s] = alive[s]
  BY <1>3, PlacesAre DEF CodexInv, SessionsTypeOK, SessionStatuses
<1>7. SessionsTypeOK' /\ live' \in [Sessions -> Seq(SessionStatuses)]
  BY <1>2, <1>4, <1>5, <1>6 DEF CodexInv, SessionsTypeOK
<1>8. ASSUME NEW d \in SessionCalls PROVE HandlingInv(d)'
  <2>1. CASE d = c
    BY <1>2, <1>4, <1>6, <2>1 DEF HandlingInv, RegistryLocked
  <2>2. CASE d # c
    <3>1. handling[d].at # "idle" /\ stored[handling[d].session] # "none" =>
             stored'[handling[d].session] # "none"
      BY <1>6 DEF CodexInv, SessionsTypeOK
    <3> QED
      BY <1>2, <1>4, <2>2, <3>1, OtherCall DEF CodexInv
  <2> QED
    BY <2>1, <2>2
<1>9. ASSUME s \notin outrun PROVE TrackedInv(s)'
  <2>1. TrackedInv(s)
    BY <1>9 DEF CodexInv
  <2>2. live[s] = <<>> /\ \A d \in SessionCalls \ {c} :
           handling[d].session = s => handling[d].at = "loading"
    BY <1>1, <1>2, <2>1 DEF TrackedInv, Registrars
  <2>3. Len(live[s]) = 0
    BY <2>2
  <2>4. next.at = "idle" => next.session # s
    BY <1>4, CodexSessionsAssumption
  <2> QED
    BY <1>2, <1>4, <1>5, <1>6, <2>2, <2>3, <2>4 DEF TrackedInv, Registrars
<1>10. stored'[s] # "none"
  BY <1>2, <1>6
<1> QED
  BY <1>2, <1>4, <1>5, <1>6, <1>7, <1>8, <1>9, <1>10, OneSession

LEMMA QuitsKeeps == CodexInv /\ Quits => CodexInv'
<1> SUFFICES ASSUME CodexInv, Quits PROVE CodexInv'
  OBVIOUS
<1>1. /\ quits' \in 0 .. MaxQuits
      /\ live' = [s \in Sessions |-> <<>>] /\ registry' = NoCall /\ stored' = stored
      /\ handling' = [c \in SessionCalls |-> NotHandling]
      /\ alive' = [s \in Sessions |-> 0] /\ ending' = [s \in Sessions |-> 0]
      /\ unheard' = {} /\ outrun' = {}
  BY CodexSessionsAssumption DEF Quits, CodexInv, SessionsTypeOK
<1>2. SessionsTypeOK' /\ live' \in [Sessions -> Seq(SessionStatuses)]
  BY <1>1, PlacesAre, CodexSessionsAssumption DEF CodexInv, SessionsTypeOK
<1>3. \A c \in SessionCalls : HandlingInv(c)'
  BY <1>1, PlacesAre DEF HandlingInv, RegistryLocked
<1>4. \A s \in Sessions : TrackedInv(s)'
  BY <1>1, PlacesAre, CodexSessionsAssumption DEF TrackedInv, Registrars
<1> QED
  BY <1>1, <1>2, <1>3, <1>4, CodexSessionsAssumption DEF CodexInv

LEMMA CodexStepInv ==
    ASSUME CodexInv, [SessionsNext]_sessionVars
    PROVE  CodexInv'
<1>1. ASSUME NEW c \in SessionCalls, NEW s \in Sessions, InterruptsSession(c, s) PROVE CodexInv'
  BY <1>1, TakesEntryKeeps DEF InterruptsSession, Registered
<1>2. ASSUME NEW c \in SessionCalls, NEW s \in Sessions, ResumesEntry(c, s) PROVE CodexInv'
  BY <1>2, TakesEntryKeeps DEF ResumesEntry, Registered
<1>3. CASE UNCHANGED sessionVars
  <2>1. /\ stored' = stored /\ live' = live /\ registry' = registry /\ handling' = handling
        /\ alive' = alive /\ ending' = ending /\ unheard' = unheard /\ outrun' = outrun
        /\ quits' = quits
    BY <1>3 DEF sessionVars
  <2> QED
    BY <2>1 DEF CodexInv, SessionsTypeOK, HandlingInv, TrackedInv
<1> QED
  BY <1>1, <1>2, <1>3, SessionStartsKeeps, RegistersKeeps, AnnotatesKeeps, EndsKeeps, RecordsKeeps,
     StopsKeeps, MakesResumableKeeps, RespawnsKeeps, ResumesRowKeeps, LoadsRowKeeps, MarksKeeps,
     SpawnsAgainKeeps, QuitsKeeps
  DEF SessionsNext

LEMMA CodexInvariant == SessionsSpec => []CodexInv
BY CodexInitInv, CodexStepInv, PTL DEF SessionsSpec

(***************************************************************************)
(* The row of a codex session and its entry agree, it has one entry, and   *)
(* one shown as running has a process or an end on its way to be recorded, *)
(* whatever interrupts, stops and resumes overlap: but for sessions that   *)
(* were resumed from the row while another call had them in hand, and      *)
(* processes that ended before their entry was there (codex.rs:278-306,    *)
(* 524-536).                                                               *)
(***************************************************************************)
THEOREM SessionsAreAlwaysTracked == SessionsSpec => []SessionsAreTracked
<1>1. CodexInv => SessionsAreTracked
  BY DEF CodexInv, TrackedInv, SessionsAreTracked, Registered, Entry
<1> QED
  BY <1>1, CodexInvariant, PTL

----------------------------------------------------------------------------
(* The list of conversations                                               *)

SideCallRecords ==
    [kind : {"none", "ensure", "refresh"}, looked : BOOLEAN, pinned : ListRows \cup {NoListRow},
     listed : BOOLEAN, rows : SUBSET ListRows, old : BOOLEAN]
ChatTurns == [at : {"rests", "reads", "titles", "answers"}, slot : Slots \cup {NoSlot}]

\* A row that shows nothing archived and, of a session that was named, the name.
FreshRow(r) == r.slot \notin archived /\ (r.slot \in named => r.title = "a name")

\* What a call has read is of sessions that are there, and up to date unless
\* something changed since.
SideCallInv(call) ==
    /\ ~call.listed => call.rows = {}
    /\ call.pinned # NoListRow => titles[call.pinned.slot] # "none"
    /\ \A r \in call.rows : titles[r.slot] # "none"
    /\ ~call.old => /\ call.pinned # NoListRow => FreshRow(call.pinned)
                    /\ \A r \in call.rows : FreshRow(r)

ListTypes ==
    /\ titles \in [Slots -> SessionTitles] /\ archived \subseteq Slots
    /\ chatTurn \in ChatTurns /\ sideCalls \in [ListCalls -> SideCallRecords]
    /\ sideRows \subseteq ListRows /\ named \subseteq Slots
    /\ happenings \in 0 .. MaxHappenings /\ forked \in BOOLEAN /\ answerOld \in BOOLEAN

NamesInv ==
    /\ \A s \in named : titles[s] = "a name"
    /\ chatTurn.at # "rests" => chatTurn.slot \in Slots /\ titles[chatTurn.slot] # "none"
    /\ chatTurn.at = "titles" => chatTurn.slot \notin named
    /\ \A s \in archived : titles[s] # "none"
    /\ \A r \in sideRows : titles[r.slot] # "none"

\* While one call is about to make the pinned session, there is none.
PinnedInv ==
    forked \/ /\ \A s, t \in PinnedSessions : s = t
              /\ \A c, d \in ListCalls : sideCalls[c].looked /\ sideCalls[d].looked => c = d
              /\ (\E c \in ListCalls : sideCalls[c].looked) => PinnedSessions = {}

\* The sidebar is up to date, or asks.
FilledInv ==
    \/ answerOld
    \/ \E c \in ListCalls : sideCalls[c].kind = "refresh"
    \/ \A r \in sideRows : FreshRow(r)

ListInv ==
    /\ ListTypes /\ NamesInv /\ PinnedInv /\ FilledInv
    /\ \A c \in ListCalls : SideCallInv(sideCalls[c])

LEMMA RowsAre ==
    /\ NoListRow \notin ListRows
    /\ \A kind : /\ Asking(kind).kind = kind /\ ~Asking(kind).looked /\ ~Asking(kind).listed
                 /\ Asking(kind).pinned = NoListRow /\ Asking(kind).rows = {} /\ ~Asking(kind).old
    /\ \A kind \in {"none", "ensure", "refresh"} : Asking(kind) \in SideCallRecords
    /\ \A kind : SideCallInv(Asking(kind)) /\ SideCallInv(Asking(kind))'
BY SessionListAssumption
   DEF NoListRow, ListRows, Asking, SideCallRecords, SessionTitles, SideCallInv

LEMMA PinnedAre ==
    \A s : s \in PinnedSessions <=> s \in Slots /\ titles[s] = "pinned" /\ s \notin archived
BY DEF PinnedSessions, Visible

LEMMA PinnedWillBe ==
    \A s : s \in PinnedSessions' <=> s \in Slots /\ titles'[s] = "pinned" /\ s \notin archived'
BY DEF PinnedSessions, Visible

LEMMA RowOfIs ==
    ASSUME NEW s \in Visible, ListTypes
    PROVE  /\ RowOf(s) \in ListRows /\ RowOf(s).slot = s /\ RowOf(s).title = titles[s]
           /\ titles[s] # "none" /\ s \notin archived
BY DEF Visible, RowOf, ListRows, Working, ListTypes

LEMMA ListInitInv == SessionListInit => ListInv
<1> SUFFICES ASSUME SessionListInit PROVE ListInv
  OBVIOUS
<1>1. ListTypes
  <2>1. NotAsking \in SideCallRecords
    BY RowsAre DEF NotAsking
  <2>2. Nobody \in ChatTurns /\ "none" \in SessionTitles
    BY DEF Nobody, ChatTurns, SessionTitles
  <2>3. titles \in [Slots -> SessionTitles] /\ sideCalls \in [ListCalls -> SideCallRecords]
    BY <2>1, <2>2 DEF SessionListInit
  <2>4. happenings \in 0 .. MaxHappenings
    BY SessionListAssumption DEF SessionListInit
  <2> QED
    BY <2>2, <2>3, <2>4 DEF SessionListInit, ListTypes
<1>2. NamesInv /\ FilledInv
  BY DEF SessionListInit, NamesInv, FilledInv, Nobody
<1>3. PinnedInv
  BY PinnedAre, RowsAre DEF SessionListInit, PinnedInv, NotAsking
<1>4. \A c \in ListCalls : SideCallInv(sideCalls[c])
  BY RowsAre DEF SessionListInit, NotAsking
<1> QED
  BY <1>1, <1>2, <1>3, <1>4 DEF ListInv

\* Something one call does that changes no session.
LEMMA OneSideCall ==
    ASSUME ListInv, NEW c \in ListCalls, NEW call \in SideCallRecords,
           sideCalls' = [sideCalls EXCEPT ![c] = call],
           UNCHANGED <<titles, archived, chatTurn, sideRows, named>>,
           happenings' \in 0 .. MaxHappenings, forked' \in BOOLEAN, answerOld' \in BOOLEAN,
           SideCallInv(call),
           \/ forked'
           \/ ~forked /\ (call.looked =>
                 /\ PinnedSessions = {}
                 /\ \A d \in ListCalls \ {c} : ~sideCalls[d].looked),
           \/ answerOld'
           \/ ~answerOld /\ (sideCalls[c].kind = "refresh" => call.kind = "refresh")
    PROVE  ListInv'
<1>1. \A d \in ListCalls : sideCalls'[d] = IF d = c THEN call ELSE sideCalls[d]
  BY DEF ListInv, ListTypes
<1>2. ListTypes' /\ NamesInv'
  BY DEF ListInv, ListTypes, NamesInv
<1>3. FilledInv'
  BY <1>1 DEF ListInv, FilledInv, FreshRow
<1>4. PinnedInv'
  <2>1. PinnedSessions' = PinnedSessions
    BY DEF PinnedSessions, Visible
  <2> QED
    BY <1>1, <2>1 DEF ListInv, PinnedInv
<1>5. ASSUME NEW d \in ListCalls PROVE SideCallInv(sideCalls[d])'
  <2>1. \A k : SideCallInv(k) =>
           /\ k.listed \/ k.rows = {}
           /\ k.pinned # NoListRow => titles'[k.pinned.slot] # "none"
           /\ \A r \in k.rows : titles'[r.slot] # "none"
           /\ k.old \/ k.pinned = NoListRow \/ FreshRow(k.pinned)'
           /\ k.old \/ \A r \in k.rows : FreshRow(r)'
    BY DEF SideCallInv, FreshRow
  <2>2. PICK k : k = sideCalls'[d] /\ SideCallInv(k)
    BY <1>1 DEF ListInv
  <2> QED
    BY <2>1, <2>2 DEF SideCallInv, FreshRow
<1> QED
  BY <1>2, <1>3, <1>4, <1>5 DEF ListInv

\* Sessions stay, but for what they are called.
SessionsStay == \A s \in Slots : titles[s] # "none" => titles'[s] # "none"

\* What a call has read stays up to date while nothing is named or archived, ...
LEMMA SideCallKeeps ==
    ASSUME NEW k \in SideCallRecords, SideCallInv(k), SessionsStay, UNCHANGED <<archived, named>>
    PROVE  SideCallInv(k)'
BY DEF SideCallRecords, ListRows, SideCallInv, FreshRow, SessionsStay

\* ... and is marked as old by what the sidebar does.
LEMMA OldIsMarked ==
    ASSUME NEW k \in SideCallRecords, SideCallInv(k), SessionsStay
    PROVE  /\ [k EXCEPT !.old = Begun(k)] \in SideCallRecords
           /\ SideCallInv([k EXCEPT !.old = Begun(k)])'
<1>1. PICK m : m = [k EXCEPT !.old = Begun(k)]
  OBVIOUS
<1>2. /\ m \in SideCallRecords
      /\ m.old <=> (k.old \/ k.listed \/ k.pinned # NoListRow)
      /\ m.listed = k.listed /\ m.pinned = k.pinned /\ m.rows = k.rows
  BY <1>1 DEF SideCallRecords, Begun
<1>3. ~m.old => m.rows = {} /\ m.pinned = NoListRow
  BY <1>2 DEF SideCallInv
<1>4. SideCallInv(m)'
  BY <1>2, <1>3 DEF SideCallRecords, ListRows, SideCallInv, SessionsStay
<1> QED
  BY <1>1, <1>2, <1>4

LEMMA AfterChange ==
    ASSUME ListInv, NEW c \in ListCalls, AsksAfterChange(c), SessionsStay
    PROVE  /\ sideCalls' \in [ListCalls -> SideCallRecords]
           /\ \A d \in ListCalls : SideCallInv(sideCalls[d])'
           /\ \A d \in ListCalls : sideCalls'[d].looked <=> sideCalls[d].looked
           /\ FilledInv'
<1>1. sideCalls[c] = NotAsking
      /\ sideCalls' = [d \in ListCalls |-> IF d = c THEN Asking("refresh")
                                       ELSE [sideCalls[d] EXCEPT !.old = Begun(sideCalls[d])]]
  BY DEF AsksAfterChange
<1>2. ASSUME NEW d \in ListCalls
      PROVE  /\ sideCalls'[d] \in SideCallRecords
             /\ SideCallInv(sideCalls[d])'
             /\ sideCalls'[d].looked <=> sideCalls[d].looked
  <2>1. CASE d = c
    <3>1. PICK k : k = sideCalls'[d] /\ k = Asking("refresh")
      BY <1>1, <2>1
    <3>2. SideCallInv(k)'
      BY <3>1, RowsAre
    <3>3. SideCallInv(sideCalls[d])'
      BY <3>1, <3>2 DEF SideCallInv, FreshRow
    <3> QED
      BY <1>1, <2>1, <3>1, <3>3, RowsAre DEF NotAsking
  <2>2. CASE d # c
    <3>1. PICK k \in SideCallRecords : k = sideCalls[d] /\ SideCallInv(k)
      BY DEF ListInv, ListTypes
    <3>2. PICK m : m = sideCalls'[d] /\ m = [k EXCEPT !.old = Begun(k)]
      BY <1>1, <2>2, <3>1 DEF Begun
    <3>3. m \in SideCallRecords /\ SideCallInv(m)'
      BY <3>1, <3>2, OldIsMarked
    <3>4. SideCallInv(sideCalls[d])'
      BY <3>2, <3>3 DEF SideCallInv, FreshRow
    <3>5. m.looked = k.looked
      BY <3>2 DEF SideCallRecords
    <3> QED
      BY <3>1, <3>2, <3>3, <3>4, <3>5
  <2> QED
    BY <2>1, <2>2
<1>3. FilledInv'
  BY <1>1, RowsAre DEF FilledInv
<1> QED
  BY <1>1, <1>2, <1>3

LEMMA MakesAre ==
    ASSUME ListTypes, NEW title \in SessionTitles \ {"none"}, Makes(title)
    PROVE  /\ SessionsStay /\ titles' \in [Slots -> SessionTitles]
           /\ NextSlot \in Slots /\ titles[NextSlot] = "none" /\ titles'[NextSlot] = title
           /\ \A s \in Slots \ {NextSlot} : titles'[s] = titles[s]
<1>1. NextSlot \in Slots /\ titles[NextSlot] = "none"
  BY DEF Makes, NewSlots, NextSlot
<1>2. titles' = [titles EXCEPT ![NextSlot] = title]
  BY DEF Makes
<1> QED
  BY <1>1, <1>2 DEF ListTypes, SessionsStay

LEMMA AsksKeeps ==
    ASSUME ListInv, NEW c \in ListCalls, WantsPinned(c) \/ SidebarAsks(c)
    PROVE  ListInv'
<1>1. PICK kind \in {"ensure", "refresh"} :
         /\ sideCalls[c] = NotAsking /\ sideCalls' = [sideCalls EXCEPT ![c] = Asking(kind)]
         /\ UNCHANGED <<titles, archived, chatTurn, sideRows, happenings, named, forked, answerOld>>
  BY DEF WantsPinned, SidebarAsks, Asks
<1>2. sideCalls[c].kind # "refresh"
  BY <1>1, RowsAre DEF NotAsking
<1>3. happenings' \in 0 .. MaxHappenings /\ forked' \in BOOLEAN /\ answerOld' \in BOOLEAN
  BY <1>1 DEF ListInv, ListTypes
<1> QED
  BY <1>1, <1>2, <1>3, RowsAre, OneSideCall

\* A call that has found the pinned session carries its row, or is over.
LEMMA FoundIs ==
    ASSUME ListTypes, NEW c \in ListCalls, NEW row \in ListRows, Found(c, row)
    PROVE  \E call \in SideCallRecords :
              /\ sideCalls' = [sideCalls EXCEPT ![c] = call]
              /\ ~call.looked
              /\ \/ call = NotAsking
                 \/ /\ call.listed = sideCalls[c].listed /\ call.rows = sideCalls[c].rows
                    /\ call.old = sideCalls[c].old /\ call.pinned = row
              /\ sideCalls[c].kind = "refresh" => call.kind = "refresh"
<1>1. CASE sideCalls[c].kind = "ensure"
  <2>1. sideCalls' = [sideCalls EXCEPT ![c] = NotAsking]
    BY <1>1 DEF Found
  <2>2. NotAsking \in SideCallRecords /\ ~NotAsking.looked
    BY RowsAre DEF NotAsking
  <2> QED
    BY <1>1, <2>1, <2>2
<1>2. CASE sideCalls[c].kind # "ensure"
  <2> DEFINE call == [sideCalls[c] EXCEPT !.looked = FALSE, !.pinned = row]
  <2>1. sideCalls' = [sideCalls EXCEPT ![c] = call]
    BY <1>2 DEF Found
  <2>2. /\ call \in SideCallRecords /\ ~call.looked
        /\ call.listed = sideCalls[c].listed /\ call.rows = sideCalls[c].rows
        /\ call.old = sideCalls[c].old /\ call.pinned = row
        /\ call.kind = sideCalls[c].kind
    BY DEF ListTypes, SideCallRecords
  <2> HIDE DEF call
  <2> QED
    BY <2>1, <2>2
<1> QED
  BY <1>1, <1>2

LEMMA LooksKeeps ==
    ASSUME ListInv, NEW c \in ListCalls, LooksForPinned(c)
    PROVE  ListInv'
<1>1. /\ UNCHANGED <<titles, archived, chatTurn, sideRows, happenings, named, answerOld>>
      /\ SideCallInv(sideCalls[c]) /\ ListTypes /\ sideCalls[c] \in SideCallRecords
      /\ ~sideCalls[c].looked
  BY DEF LooksForPinned, ListInv, ListTypes
<1>2. happenings' \in 0 .. MaxHappenings /\ answerOld' \in BOOLEAN
  BY <1>1 DEF ListInv, ListTypes
<1>3. CASE /\ PinnedSessions = {} /\ sideCalls' = [sideCalls EXCEPT ![c].looked = TRUE]
           /\ forked' = (forked \/ \E d \in ListCalls : sideCalls[d].looked)
  <2> DEFINE call == [sideCalls[c] EXCEPT !.looked = TRUE]
  <2>1. sideCalls' = [sideCalls EXCEPT ![c] = call]
    BY <1>3
  <2>2. /\ call \in SideCallRecords /\ call.looked
        /\ call.listed = sideCalls[c].listed /\ call.rows = sideCalls[c].rows
        /\ call.old = sideCalls[c].old /\ call.pinned = sideCalls[c].pinned
        /\ call.kind = sideCalls[c].kind
    BY <1>1 DEF SideCallRecords
  <2> HIDE DEF call
  <2>3. SideCallInv(call)
    BY <1>1, <2>2 DEF SideCallInv
  <2>4. forked' \in BOOLEAN /\ (~forked' => ~forked /\ \A d \in ListCalls : ~sideCalls[d].looked)
    BY <1>1, <1>3 DEF ListTypes
  <2> QED
    BY <1>1, <1>2, <1>3, <2>1, <2>2, <2>3, <2>4, OneSideCall
<1>4. CASE (\E s \in PinnedSessions : Found(c, RowOf(s))) /\ UNCHANGED forked
  <2>1. PICK s \in PinnedSessions : Found(c, RowOf(s))
    BY <1>4
  <2>2. s \in Visible /\ titles[s] = "pinned"
    BY DEF PinnedSessions
  <2>3. PICK row \in ListRows : /\ row = RowOf(s) /\ row.slot = s /\ row.title = "pinned"
                                /\ titles[s] = "pinned" /\ s \notin archived
    BY <1>1, <2>2, RowOfIs
  <2>4. PICK call \in SideCallRecords :
              /\ sideCalls' = [sideCalls EXCEPT ![c] = call]
              /\ ~call.looked
              /\ \/ call = NotAsking
                 \/ /\ call.listed = sideCalls[c].listed /\ call.rows = sideCalls[c].rows
                    /\ call.old = sideCalls[c].old /\ call.pinned = row
              /\ sideCalls[c].kind = "refresh" => call.kind = "refresh"
    BY <1>1, <2>1, <2>3, FoundIs
  <2>5. s \notin named
    BY <2>3 DEF ListInv, NamesInv
  <2>6. SideCallInv(call)
    <3>1. CASE call = NotAsking
      BY <3>1, RowsAre DEF NotAsking
    <3>2. CASE call # NotAsking
      BY <1>1, <2>3, <2>4, <2>5, <3>2 DEF SideCallInv, FreshRow
    <3> QED
      BY <3>1, <3>2
  <2>7. forked' \in BOOLEAN
    BY <1>1, <1>4 DEF ListTypes
  <2> QED
    BY <1>1, <1>2, <1>4, <2>4, <2>6, <2>7, OneSideCall
<1> QED
  BY <1>3, <1>4 DEF LooksForPinned

LEMMA ReadsListKeeps ==
    ASSUME ListInv, NEW c \in ListCalls, ReadsList(c)
    PROVE  ListInv'
<1> DEFINE rows == {RowOf(s) : s \in Visible}
           call == [sideCalls[c] EXCEPT !.listed = TRUE, !.rows = rows]
<1>1. /\ sideCalls' = [sideCalls EXCEPT ![c] = call]
      /\ UNCHANGED <<titles, archived, chatTurn, sideRows, happenings, named, forked, answerOld>>
      /\ SideCallInv(sideCalls[c]) /\ ListTypes /\ sideCalls[c] \in SideCallRecords
  BY DEF ReadsList, ListInv, ListTypes
<1>2. rows \subseteq ListRows
  BY <1>1, RowOfIs
<1>3. ASSUME NEW r \in rows PROVE titles[r.slot] # "none" /\ FreshRow(r)
  <2>1. PICK s \in Visible : r = RowOf(s)
    OBVIOUS
  <2>2. r.slot = s /\ r.title = titles[s] /\ titles[s] # "none" /\ s \notin archived
    BY <1>1, <2>1, RowOfIs
  <2> QED
    BY <2>2 DEF FreshRow, ListInv, NamesInv
<1> HIDE DEF rows
<1>4. /\ call \in SideCallRecords /\ call.listed /\ call.rows = rows
      /\ call.looked = sideCalls[c].looked
      /\ call.old = sideCalls[c].old /\ call.pinned = sideCalls[c].pinned
      /\ call.kind = sideCalls[c].kind
  BY <1>1, <1>2 DEF SideCallRecords
<1> HIDE DEF call
<1>5. SideCallInv(call)
  BY <1>1, <1>3, <1>4 DEF SideCallInv
<1>6. \/ forked
      \/ ~forked /\ (call.looked =>
                 /\ PinnedSessions = {}
                 /\ \A d \in ListCalls \ {c} : ~sideCalls[d].looked)
  BY <1>4 DEF ListInv, PinnedInv
<1>7. happenings' \in 0 .. MaxHappenings /\ forked' \in BOOLEAN /\ answerOld' \in BOOLEAN
  BY <1>1 DEF ListTypes
<1> QED
  BY <1>1, <1>4, <1>5, <1>6, <1>7, OneSideCall

LEMMA ArrivesKeeps ==
    ASSUME ListInv, NEW c \in ListCalls, RefreshArrives(c)
    PROVE  ListInv'
<1>1. /\ sideCalls[c].pinned # NoListRow /\ sideCalls' = [sideCalls EXCEPT ![c] = NotAsking]
      /\ sideRows' = {sideCalls[c].pinned} \cup
            {r \in sideCalls[c].rows : r.slot # sideCalls[c].pinned.slot /\ r.title # "pinned"}
      /\ answerOld' = sideCalls[c].old
      /\ UNCHANGED <<titles, archived, chatTurn, happenings, named, forked>>
      /\ SideCallInv(sideCalls[c]) /\ ListTypes /\ sideCalls[c] \in SideCallRecords
  BY DEF RefreshArrives, ListInv, ListTypes
<1>2. \A d \in ListCalls : sideCalls'[d] = IF d = c THEN NotAsking ELSE sideCalls[d]
  BY <1>1 DEF ListTypes
<1>3. NotAsking \in SideCallRecords /\ ~NotAsking.looked
  BY RowsAre DEF NotAsking
<1>4. /\ sideRows' \subseteq ListRows /\ answerOld' \in BOOLEAN
      /\ \A r \in sideRows' : titles[r.slot] # "none"
      /\ ~answerOld' => \A r \in sideRows' : FreshRow(r)
  BY <1>1 DEF SideCallInv, SideCallRecords
<1>5. ListTypes'
  BY <1>1, <1>3, <1>4 DEF ListTypes
<1>6. NamesInv'
  BY <1>1, <1>4 DEF ListInv, NamesInv
<1>7. FilledInv'
  BY <1>1, <1>4 DEF FilledInv, FreshRow
<1>8. PinnedInv'
  <2>1. PinnedSessions' = PinnedSessions
    BY <1>1 DEF PinnedSessions, Visible
  <2> QED
    BY <1>1, <1>2, <1>3, <2>1 DEF ListInv, PinnedInv
<1>9. ASSUME NEW d \in ListCalls PROVE SideCallInv(sideCalls[d])'
  <2>1. PICK k \in SideCallRecords : k = sideCalls'[d] /\ SideCallInv(k)
    BY <1>1, <1>2, <1>3, RowsAre DEF ListInv, ListTypes, NotAsking
  <2>2. SideCallInv(k)'
    BY <1>1, <2>1, SideCallKeeps DEF SessionsStay
  <2> QED
    BY <2>1, <2>2 DEF SideCallInv, FreshRow
<1> QED
  BY <1>5, <1>6, <1>7, <1>8, <1>9 DEF ListInv

LEMMA RefreshFailsKeeps ==
    ASSUME ListInv, NEW c \in ListCalls, RefreshFails(c)
    PROVE  ListInv'
<1>1. /\ sideCalls' = [sideCalls EXCEPT ![c] = NotAsking] /\ answerOld' = TRUE
      /\ happenings < MaxHappenings /\ happenings' = happenings + 1
      /\ UNCHANGED <<titles, archived, chatTurn, sideRows, named, forked>>
  BY DEF RefreshFails, Happens
<1>2. NotAsking \in SideCallRecords /\ ~NotAsking.looked /\ SideCallInv(NotAsking)
  BY RowsAre DEF NotAsking
<1>3. happenings' \in 0 .. MaxHappenings /\ forked' \in BOOLEAN
  BY <1>1, SessionListAssumption DEF ListInv, ListTypes
<1> QED
  BY <1>1, <1>2, <1>3, OneSideCall

LEMMA MakesPinnedKeeps ==
    ASSUME ListInv, NEW c \in ListCalls, MakesPinned(c)
    PROVE  ListInv'
<1> DEFINE row == [slot |-> NextSlot, title |-> "pinned", working |-> FALSE]
<1>1. /\ sideCalls[c].looked /\ Makes("pinned") /\ Found(c, row)
      /\ UNCHANGED <<archived, chatTurn, sideRows, happenings, named, forked, answerOld>>
      /\ SideCallInv(sideCalls[c]) /\ ListTypes
  BY DEF MakesPinned, ListInv
<1>2. /\ SessionsStay /\ titles' \in [Slots -> SessionTitles]
      /\ NextSlot \in Slots /\ titles[NextSlot] = "none" /\ titles'[NextSlot] = "pinned"
      /\ \A s \in Slots \ {NextSlot} : titles'[s] = titles[s]
  BY <1>1, MakesAre DEF SessionTitles
<1>3. PICK new \in Slots : new = NextSlot
  BY <1>2
<1>4. PICK r \in ListRows : r = row /\ r.slot = new /\ r.title = "pinned"
  <2>1. [slot |-> new, title |-> "pinned", working |-> FALSE] \in ListRows
    BY DEF ListRows, SessionTitles
  <2>2. row = [slot |-> new, title |-> "pinned", working |-> FALSE]
    BY <1>3
  <2> QED
    BY <2>1, <2>2
<1> HIDE DEF row
<1>5. PICK call \in SideCallRecords :
              /\ sideCalls' = [sideCalls EXCEPT ![c] = call]
              /\ ~call.looked
              /\ \/ call = NotAsking
                 \/ /\ call.listed = sideCalls[c].listed /\ call.rows = sideCalls[c].rows
                    /\ call.old = sideCalls[c].old /\ call.pinned = r
              /\ sideCalls[c].kind = "refresh" => call.kind = "refresh"
  BY <1>1, <1>4, FoundIs
<1>6. \A d \in ListCalls : sideCalls'[d] = IF d = c THEN call ELSE sideCalls[d]
  BY <1>1, <1>5 DEF ListTypes
<1>7. new \notin named /\ new \notin archived
  BY <1>2, <1>3 DEF ListInv, NamesInv
<1>8. ListTypes'
  BY <1>1, <1>2, <1>5 DEF ListTypes
<1>9. NamesInv'
  <2>1. \A s \in Slots : titles[s] # "none" => titles'[s] = titles[s] /\ titles'[s] # "none"
    BY <1>2
  <2>2. /\ archived \subseteq Slots /\ named \subseteq Slots
        /\ \A q \in sideRows : q.slot \in Slots
    BY <1>1 DEF ListTypes, ListRows
  <2> QED
    BY <1>1, <2>1, <2>2 DEF ListInv, NamesInv
<1>10. FilledInv'
  BY <1>1, <1>5, <1>6 DEF ListInv, FilledInv, FreshRow
<1>11. PinnedInv'
  <2>1. CASE forked
    BY <1>1, <2>1 DEF PinnedInv
  <2>2. CASE ~forked
    <3>1. \A d \in ListCalls : sideCalls[d].looked => d = c
      BY <1>1, <2>2 DEF ListInv, PinnedInv
    <3>2. \A d \in ListCalls : ~sideCalls'[d].looked
      BY <1>5, <1>6, <3>1
    <3>3. PinnedSessions = {}
      BY <1>1, <2>2 DEF ListInv, PinnedInv
    <3>4. \A s \in PinnedSessions' : s = new
      BY <1>1, <1>2, <1>3, <3>3, PinnedAre, PinnedWillBe
    <3> QED
      BY <3>2, <3>4 DEF PinnedInv
  <2> QED
    BY <2>1, <2>2
<1>12. ASSUME NEW d \in ListCalls PROVE SideCallInv(sideCalls[d])'
  <2>1. CASE d # c
    <3>1. PICK k \in SideCallRecords : k = sideCalls'[d] /\ SideCallInv(k)
      BY <1>1, <1>6, <2>1 DEF ListInv, ListTypes
    <3>2. SideCallInv(k)'
      BY <1>1, <1>2, <3>1, SideCallKeeps
    <3> QED
      BY <3>1, <3>2 DEF SideCallInv, FreshRow
  <2>2. CASE d = c /\ call = NotAsking
    <3>1. SideCallInv(call)'
      BY <2>2, RowsAre DEF NotAsking
    <3> QED
      BY <1>6, <2>2, <3>1 DEF SideCallInv, FreshRow
  <2>3. CASE d = c /\ call # NotAsking
    <3>1. PICK k \in SideCallRecords : k = sideCalls[c] /\ SideCallInv(k)
      BY <1>1 DEF ListInv, ListTypes
    <3>2. SideCallInv(k)'
      BY <1>1, <1>2, <3>1, SideCallKeeps
    <3>3. SideCallInv(call)'
      BY <1>1, <1>2, <1>3, <1>4, <1>5, <1>7, <2>3, <3>1, <3>2 DEF SideCallInv, FreshRow
    <3> QED
      BY <1>6, <2>3, <3>3 DEF SideCallInv, FreshRow
  <2> QED
    BY <2>1, <2>2, <2>3
<1> QED
  BY <1>8, <1>9, <1>10, <1>11, <1>12 DEF ListInv

LEMMA AddsKeeps ==
    ASSUME ListInv, NEW c \in ListCalls, AddsSession(c)
    PROVE  ListInv'
<1>1. /\ Makes("fresh") /\ AsksAfterChange(c) /\ ListTypes
      /\ UNCHANGED <<archived, chatTurn, sideRows, happenings, named, forked, answerOld>>
  BY DEF AddsSession, ListInv
<1>2. /\ SessionsStay /\ titles' \in [Slots -> SessionTitles]
      /\ NextSlot \in Slots /\ titles[NextSlot] = "none" /\ titles'[NextSlot] = "fresh"
      /\ \A s \in Slots \ {NextSlot} : titles'[s] = titles[s]
  BY <1>1, MakesAre DEF SessionTitles
<1>3. /\ sideCalls' \in [ListCalls -> SideCallRecords] /\ FilledInv'
      /\ \A d \in ListCalls : SideCallInv(sideCalls[d])'
      /\ \A d \in ListCalls : sideCalls'[d].looked <=> sideCalls[d].looked
  BY <1>1, <1>2, AfterChange
<1>4. ListTypes'
  BY <1>1, <1>2, <1>3 DEF ListTypes
<1>5. NamesInv'
  <2>1. \A s \in Slots : titles[s] # "none" => titles'[s] = titles[s] /\ titles'[s] # "none"
    BY <1>2
  <2>2. /\ archived \subseteq Slots /\ named \subseteq Slots
        /\ \A q \in sideRows : q.slot \in Slots
    BY <1>1 DEF ListTypes, ListRows
  <2> QED
    BY <1>1, <2>1, <2>2 DEF ListInv, NamesInv
<1>6. PinnedInv'
  <2>1. \A s : s \in PinnedSessions' <=> s \in PinnedSessions
    BY <1>1, <1>2, PinnedAre, PinnedWillBe
  <2> QED
    BY <1>1, <1>3, <2>1 DEF ListInv, PinnedInv
<1> QED
  BY <1>3, <1>4, <1>5, <1>6 DEF ListInv

LEMMA NamesKeeps ==
    ASSUME ListInv, NEW c \in ListCalls, NamesSession(c)
    PROVE  ListInv'
<1>1. PICK r \in sideRows :
        /\ titles' = [titles EXCEPT ![r.slot] = "a name"] /\ AsksAfterChange(c)
        /\ named' = IF chatTurn.at = "titles" /\ chatTurn.slot = r.slot
                    THEN named \ {r.slot} ELSE named \cup {r.slot}
        /\ happenings < MaxHappenings /\ happenings' = happenings + 1
        /\ UNCHANGED <<archived, chatTurn, sideRows, forked, answerOld>>
  BY DEF NamesSession, Happens
<1>2. ListTypes /\ r.slot \in Slots
  BY DEF ListInv, ListTypes, ListRows
<1>3. /\ titles' \in [Slots -> SessionTitles] /\ titles'[r.slot] = "a name"
      /\ \A s \in Slots \ {r.slot} : titles'[s] = titles[s]
      /\ SessionsStay
  BY <1>1, <1>2 DEF ListTypes, SessionTitles, SessionsStay
<1>4. /\ sideCalls' \in [ListCalls -> SideCallRecords] /\ FilledInv'
      /\ \A d \in ListCalls : SideCallInv(sideCalls[d])'
      /\ \A d \in ListCalls : sideCalls'[d].looked <=> sideCalls[d].looked
  BY <1>1, <1>3, AfterChange
<1>5. happenings' \in 0 .. MaxHappenings /\ named' \subseteq Slots
  <2>1. happenings' \in 0 .. MaxHappenings
    <3>1. happenings \in 0 .. MaxHappenings /\ MaxHappenings \in Nat
      BY <1>2, SessionListAssumption DEF ListTypes
    <3>2. happenings < MaxHappenings /\ happenings' = happenings + 1
      BY <1>1
    <3> QED
      BY <3>1, <3>2
  <2>2. named' \subseteq Slots
    BY <1>1, <1>2 DEF ListTypes
  <2> QED
    BY <2>1, <2>2
<1>6. ListTypes'
  BY <1>1, <1>2, <1>3, <1>4, <1>5 DEF ListTypes
<1>7. NamesInv'
  <2>1. \A s \in Slots : titles[s] # "none" => titles'[s] # "none"
    BY <1>3
  <2>2. /\ archived \subseteq Slots /\ named \subseteq Slots
        /\ \A q \in sideRows : q.slot \in Slots
    BY <1>2 DEF ListTypes, ListRows
  <2>3. \A s \in named' : titles'[s] = "a name"
    BY <1>1, <1>3, <2>2 DEF ListInv, NamesInv
  <2>4. chatTurn.at = "titles" => chatTurn.slot \notin named'
    BY <1>1 DEF ListInv, NamesInv
  <2> QED
    BY <1>1, <2>1, <2>2, <2>3, <2>4 DEF ListInv, NamesInv
<1>8. PinnedInv'
  <2>1. \A s : s \in PinnedSessions' => s \in PinnedSessions
    BY <1>1, <1>3, PinnedAre, PinnedWillBe
  <2> QED
    BY <1>1, <1>4, <2>1 DEF ListInv, PinnedInv
<1> QED
  BY <1>4, <1>6, <1>7, <1>8 DEF ListInv

LEMMA ArchivesKeeps ==
    ASSUME ListInv, NEW c \in ListCalls, ArchivesSession(c)
    PROVE  ListInv'
<1>1. PICK r \in sideRows :
        /\ archived' = archived \cup {r.slot} /\ AsksAfterChange(c)
        /\ happenings < MaxHappenings /\ happenings' = happenings + 1
        /\ UNCHANGED <<titles, chatTurn, sideRows, named, forked, answerOld>>
  BY DEF ArchivesSession, Happens
<1>2. ListTypes /\ r.slot \in Slots /\ titles[r.slot] # "none" /\ SessionsStay
  BY <1>1 DEF ListInv, ListTypes, ListRows, NamesInv, SessionsStay
<1>3. /\ sideCalls' \in [ListCalls -> SideCallRecords] /\ FilledInv'
      /\ \A d \in ListCalls : SideCallInv(sideCalls[d])'
      /\ \A d \in ListCalls : sideCalls'[d].looked <=> sideCalls[d].looked
  BY <1>1, <1>2, AfterChange
<1>4. happenings' \in 0 .. MaxHappenings
  BY <1>1, <1>2, SessionListAssumption DEF ListTypes
<1>5. ListTypes'
  BY <1>1, <1>2, <1>3, <1>4 DEF ListTypes
<1>6. NamesInv'
  BY <1>1, <1>2 DEF ListInv, NamesInv
<1>7. PinnedInv'
  <2>1. \A s : s \in PinnedSessions' => s \in PinnedSessions
    BY <1>1, PinnedAre, PinnedWillBe
  <2> QED
    BY <1>1, <1>3, <2>1 DEF ListInv, PinnedInv
<1> QED
  BY <1>3, <1>5, <1>6, <1>7 DEF ListInv

\* What a turn does: the session it is in keeps a name the user gave it.
LEMMA TurnKeeps ==
    ASSUME ListInv, \/ \E s \in Slots : TurnBegins(s)
                    \/ ReadsTitle \/ WritesTitle \/ TurnLeaves
    PROVE  ListInv'
<1>1. /\ UNCHANGED <<archived, sideCalls, sideRows, named, forked, answerOld>> /\ ListTypes
  BY DEF TurnBegins, ReadsTitle, WritesTitle, TurnLeaves, Stays, ListInv
<1> DEFINE fine ==
          /\ titles' \in [Slots -> SessionTitles] /\ chatTurn' \in ChatTurns
          /\ happenings' \in 0 .. MaxHappenings /\ SessionsStay
          /\ \A s \in Slots :
                titles'[s] # titles[s] => s \notin named /\ titles'[s] = "first message"
          /\ chatTurn'.at # "rests" => chatTurn'.slot \in Slots /\ titles'[chatTurn'.slot] # "none"
          /\ chatTurn'.at = "titles" => chatTurn'.slot \notin named
<1>2. fine
  <2>1. ASSUME NEW s \in Slots, TurnBegins(s) PROVE fine
    BY <1>1, <2>1, SessionListAssumption
       DEF TurnBegins, Happens, ListTypes, ChatTurns, SessionsStay
  <2>2. CASE ReadsTitle
    BY <1>1, <2>2 DEF ReadsTitle, TitlesFresh, ListInv, NamesInv, ListTypes, ChatTurns, SessionsStay
  <2>3. CASE WritesTitle
    BY <1>1, <2>3 DEF WritesTitle, ListInv, NamesInv, ListTypes, ChatTurns, SessionTitles,
                      SessionsStay
  <2>4. CASE TurnLeaves
    BY <1>1, <2>4 DEF TurnLeaves, Nobody, ListTypes, ChatTurns, SessionsStay
  <2> QED
    BY <2>1, <2>2, <2>3, <2>4
<1>3. ListTypes'
  BY <1>1, <1>2 DEF ListTypes
<1>4. NamesInv'
  <2>1. /\ archived \subseteq Slots /\ named \subseteq Slots
        /\ \A q \in sideRows : q.slot \in Slots
    BY <1>1 DEF ListTypes, ListRows
  <2> QED
    BY <1>1, <1>2, <2>1 DEF ListInv, NamesInv, SessionsStay
<1>5. FilledInv'
  BY <1>1 DEF ListInv, FilledInv, FreshRow
<1>6. PinnedInv'
  <2>1. \A s : s \in PinnedSessions' => s \in PinnedSessions
    BY <1>1, <1>2, PinnedAre, PinnedWillBe
  <2> QED
    BY <1>1, <2>1 DEF ListInv, PinnedInv
<1>7. ASSUME NEW d \in ListCalls PROVE SideCallInv(sideCalls[d])'
  <2>1. PICK k \in SideCallRecords : k = sideCalls'[d] /\ SideCallInv(k)
    BY <1>1 DEF ListInv, ListTypes
  <2>2. SideCallInv(k)'
    BY <1>1, <1>2, <2>1, SideCallKeeps
  <2> QED
    BY <2>1, <2>2 DEF SideCallInv, FreshRow
<1> QED
  BY <1>3, <1>4, <1>5, <1>6, <1>7 DEF ListInv

LEMMA ListInvariant == SessionListSpec => []ListInv
<1>1. ListInv /\ [SessionListNext]_listVars => ListInv'
  <2>1. CASE UNCHANGED listVars
    <3>1. UNCHANGED <<titles, archived, chatTurn, sideCalls, sideRows, happenings, named, forked,
                      answerOld>>
      BY <2>1 DEF listVars
    <3> QED
      BY <3>1 DEF ListInv, ListTypes, NamesInv, PinnedInv, FilledInv, SideCallInv, FreshRow,
                  PinnedSessions, Visible
  <2> QED
    BY <2>1, AsksKeeps, LooksKeeps, MakesPinnedKeeps, ReadsListKeeps, ArrivesKeeps,
       RefreshFailsKeeps, AddsKeeps, NamesKeeps, ArchivesKeeps, TurnKeeps
       DEF SessionListNext, Call, SidebarPolls
<1> QED
  BY <1>1, ListInitInv, PTL DEF SessionListSpec

(***************************************************************************)
(* A name the user gave is kept, there is one pinned session, and at rest  *)
(* the sidebar shows the names and nothing archived, however calls of the  *)
(* windows overlap: but for a turn that had looked at the title before,    *)
(* two callers that both found no pinned session, and a sidebar whose last *)
(* answer was old or lost (session.rs:170-183, 530-543, 630-680).          *)
(***************************************************************************)
THEOREM NamesAreAlwaysKept == SessionListSpec => []NamesAreKept
<1>1. ListInv => NamesAreKept
  <2> SUFFICES ASSUME ListInv PROVE NamesAreKept
    OBVIOUS
  <2>1. ASSUME ~forked PROVE Cardinality(PinnedSessions) <= 1
    <3>1. PinnedSessions = {} \/ \E x : PinnedSessions = {x}
      BY <2>1 DEF ListInv, PinnedInv
    <3>2. CASE PinnedSessions = {}
      BY <3>2, FS_EmptySet
    <3>3. ASSUME NEW x, PinnedSessions = {x} PROVE Cardinality(PinnedSessions) <= 1
      <4>1. Cardinality({x}) = 1
        BY FS_Singleton
      <4> QED
        BY <3>3, <4>1
    <3> QED
      BY <3>1, <3>2, <3>3
  <2>2. ASSUME FreeCalls = ListCalls, NEW c \in ListCalls PROVE sideCalls[c].kind # "refresh"
    BY <2>2, RowsAre DEF FreeCalls, NotAsking
  <2> QED
    BY <2>1, <2>2 DEF ListInv, NamesInv, FilledInv, FreshRow, NamesAreKept
<1> QED
  BY <1>1, ListInvariant, PTL

----------------------------------------------------------------------------
(* A conversation and its goals                                            *)

SwitchLists == {<<"writes", "lists", "shows">>, <<"lists", "shows">>, <<"shows">>}
StepLists ==
    SwitchLists \cup {<<"starts", "writes", "lists", "shows">>,
                      <<"writes", "starts", "lists", "shows">>, <<"starts", "lists", "shows">>}
ScreenRows == [kind : {"none", "chat", "goal"}, goal : MaybeGoals]
DoingRecords ==
    [does : {"message", "offer", "switch"}, steps : StepLists, goal : MaybeGoals,
     kind : {"chat", "goal"}, list : ScreenRows] \cup {NotDoing}
TellerRecords ==
    [at : {"waits", "ticks", "looks", "tells"}, goal : MaybeGoals, status : ChatGoalStatuses]

ChatTypes ==
    /\ chatRow \in ChatRows /\ onScreen \in ScreenRows
    /\ pendingKind \in {"none", "chat", "goal"}
    /\ doing \in [ChatActions -> DoingRecords] /\ sidebar \in ScreenRows
    /\ lastLinked \in MaybeGoals /\ tangled \in BOOLEAN

Busy(a) == doing[a] # NotDoing

\* A switch carries the goal of the row, and until the row is written no list
\* can show another kind.
SwitchInv(a) ==
    doing[a].does = "switch" =>
       /\ doing[a].steps \in SwitchLists
       /\ ~tangled => /\ doing[a].goal = chatRow.goal
                      /\ doing[a].steps = <<"writes", "lists", "shows">> =>
                            pendingKind = doing[a].kind /\ onScreen.kind = doing[a].kind

LinkedInv ==
    ~tangled => /\ chatRow.goal = lastLinked
                /\ \A a, b \in ChatActions : Busy(a) /\ Busy(b) => a = b

\* The goal whose verdict is still to be told is in the loop's hands.
TellerInv ==
    /\ goalStatus \in [ChatGoals -> ChatGoalStatuses] /\ teller \in TellerRecords
    /\ verdictOf \in [ChatGoals -> {"none", "told", "missed"}]
    /\ teller.at = "waits" => teller = NotLooking
    /\ teller.at # "waits" => teller.goal \in ChatGoals
    /\ teller.at \in {"ticks", "looks"} => teller.status = "open"
    /\ \A g \in ChatGoals :
          goalStatus[g] = "accepted" /\ g # teller.goal => verdictOf[g] # "none"

ChatInv ==
    /\ ChatTypes /\ LinkedInv /\ TellerInv
    /\ \A a \in ChatActions : SwitchInv(a)

\* What is left of an action's steps when one is behind it.
LEMMA StepsLeft ==
    ASSUME NEW q \in StepLists
    PROVE  /\ q # <<>>
           /\ Head(q) \in {"starts", "writes", "lists", "shows"}
           /\ Head(q) # "shows" => Tail(q) \in StepLists
           /\ q \in SwitchLists =>
                 /\ Head(q) = "writes" => Tail(q) = <<"lists", "shows">>
                 /\ Head(q) = "writes" => q = <<"writes", "lists", "shows">>
                 /\ Head(q) = "lists" => Tail(q) = <<"shows">>
                 /\ Head(q) # "starts"
<1>1. CASE q = <<"writes", "lists", "shows">>
  BY <1>1 DEF StepLists, SwitchLists
<1>2. CASE q = <<"lists", "shows">>
  BY <1>2 DEF StepLists, SwitchLists
<1>3. CASE q = <<"shows">>
  BY <1>3 DEF StepLists, SwitchLists
<1>4. CASE q = <<"starts", "writes", "lists", "shows">>
  BY <1>4 DEF StepLists, SwitchLists
<1>5. CASE q = <<"writes", "starts", "lists", "shows">>
  BY <1>5 DEF StepLists, SwitchLists
<1>6. CASE q = <<"starts", "lists", "shows">>
  BY <1>6 DEF StepLists, SwitchLists
<1> QED
  BY <1>1, <1>2, <1>3, <1>4, <1>5, <1>6 DEF StepLists, SwitchLists

LEMMA NotDoingIs ==
    /\ NotDoing \in DoingRecords /\ NotDoing.does = "nothing" /\ NotDoing.steps = <<>>
    /\ \A d \in DoingRecords : d # NotDoing =>
          /\ d.does \in {"message", "offer", "switch"} /\ d.steps \in StepLists
          /\ d.goal \in MaybeGoals /\ d.kind \in {"chat", "goal"} /\ d.list \in ScreenRows
    /\ NotLooking \in TellerRecords /\ NotLooking.at = "waits" /\ NotLooking.goal = NoGoal
    /\ NoList \in ScreenRows /\ ChatRows \subseteq ScreenRows
BY DEF DoingRecords, NotDoing, DoingChat, TellerRecords, NotLooking, Looking, NoList, ScreenRows,
       ChatRows, MaybeGoals, ChatGoalStatuses

LEMMA ChatInitInv == GoalChatsInit => ChatInv
<1> SUFFICES ASSUME GoalChatsInit PROVE ChatInv
  OBVIOUS
<1>1. ChatTypes
  BY NotDoingIs DEF GoalChatsInit, ChatTypes, ChatRows, ScreenRows, MaybeGoals
<1>2. LinkedInv /\ \A a \in ChatActions : SwitchInv(a)
  BY NotDoingIs DEF GoalChatsInit, LinkedInv, Busy, SwitchInv
<1>3. TellerInv
  BY NotDoingIs DEF GoalChatsInit, TellerInv, ChatGoalStatuses
<1> QED
  BY <1>1, <1>2, <1>3 DEF ChatInv

\* An action of the user begins.
LEMMA BeginsKeeps ==
    ASSUME ChatInv, NEW a \in ChatActions, NEW action \in DoingRecords, Begins(a, action),
           action # NotDoing, UNCHANGED <<chatRow, sidebar, lastLinked>>,
           onScreen' \in ScreenRows, pendingKind' \in {"none", "chat", "goal"}, TellerInv',
           action.does = "switch" =>
              /\ action.steps = <<"writes", "lists", "shows">> /\ action.goal = onScreen.goal
              /\ pendingKind' = action.kind /\ onScreen'.kind = action.kind
    PROVE  ChatInv'
<1>1. /\ doing[a] = NotDoing /\ doing' = [doing EXCEPT ![a] = action]
      /\ tangled' \in BOOLEAN
      /\ ~tangled' => /\ ~tangled /\ onScreen.goal = chatRow.goal
                      /\ \A b \in ChatActions : ~Busy(b)
  BY DEF Begins, ChatInv, ChatTypes, Busy
<1>2. \A b \in ChatActions : doing'[b] = IF b = a THEN action ELSE doing[b]
  BY <1>1 DEF ChatInv, ChatTypes
<1>3. ChatTypes'
  BY <1>1 DEF ChatInv, ChatTypes
<1>4. LinkedInv'
  BY <1>1, <1>2 DEF ChatInv, LinkedInv, Busy
<1>5. ASSUME NEW b \in ChatActions PROVE SwitchInv(b)'
  <2>1. CASE b = a
    BY <1>1, <1>2, <2>1 DEF SwitchInv, SwitchLists
  <2>2. CASE b # a
    BY <1>1, <1>2, <2>2, NotDoingIs DEF ChatInv, SwitchInv, Busy
  <2> QED
    BY <2>1, <2>2
<1> QED
  BY <1>3, <1>4, <1>5 DEF ChatInv

\* What an action is once a step of it is behind it.
LEMMA SteppedIs ==
    ASSUME ChatTypes, NEW a \in ChatActions,
           NEW step \in {"starts", "writes", "lists"}, StepOf(a, step)
    PROVE  /\ Busy(a) /\ doing[a].steps \in StepLists /\ Head(doing[a].steps) = step
           /\ \E d \in DoingRecords :
                 /\ Stepped(a) = [doing EXCEPT ![a] = d] /\ d # NotDoing
                 /\ d.does = doing[a].does /\ d.goal = doing[a].goal
                 /\ d.kind = doing[a].kind /\ d.list = doing[a].list
                 /\ d.steps = Tail(doing[a].steps)
<1>1. Busy(a)
  BY NotDoingIs DEF StepOf, Busy
<1>2. PICK k \in DoingRecords : k = doing[a]
  BY DEF ChatTypes
<1>3. /\ k \in [does : {"message", "offer", "switch"}, steps : StepLists, goal : MaybeGoals,
                kind : {"chat", "goal"}, list : ScreenRows]
  BY <1>1, <1>2 DEF Busy, DoingRecords
<1>4. k.steps \in StepLists /\ Head(k.steps) = step
  BY <1>2, <1>3 DEF StepOf
<1>5. Tail(k.steps) \in StepLists
  BY <1>4, StepsLeft
<1>6. PICK d : d = [k EXCEPT !.steps = Tail(k.steps)]
  OBVIOUS
<1>7. /\ d \in DoingRecords /\ d.does = k.does /\ d.goal = k.goal /\ d.kind = k.kind
      /\ d.list = k.list /\ d.steps = Tail(k.steps)
  BY <1>3, <1>5, <1>6 DEF DoingRecords
<1>8. d # NotDoing
  BY <1>3, <1>7, NotDoingIs
<1>9. Stepped(a) = [doing EXCEPT ![a] = d]
  BY <1>2, <1>6 DEF Stepped
<1> QED
  BY <1>1, <1>2, <1>4, <1>7, <1>8, <1>9

\* An action goes on or is over; no other is under way but in a tangle.
LEMMA OneAction ==
    ASSUME ChatInv, NEW a \in ChatActions, Busy(a), NEW d \in DoingRecords,
           doing' = [doing EXCEPT ![a] = d], tangled' = tangled,
           chatRow' \in ChatRows, onScreen' \in ScreenRows,
           pendingKind' \in {"none", "chat", "goal"}, lastLinked' \in MaybeGoals,
           sidebar' = sidebar, TellerInv',
           tangled \/ chatRow'.goal = lastLinked',
           d.does = "switch" =>
              /\ d.steps \in SwitchLists /\ d.steps # <<"writes", "lists", "shows">>
              /\ tangled \/ d.goal = chatRow'.goal
    PROVE  ChatInv'
<1>1. \A b \in ChatActions : doing'[b] = IF b = a THEN d ELSE doing[b]
  BY DEF ChatInv, ChatTypes
<1>2. ChatTypes'
  BY DEF ChatInv, ChatTypes
<1>3. LinkedInv'
  BY <1>1 DEF ChatInv, LinkedInv, Busy
<1>4. ASSUME NEW b \in ChatActions PROVE SwitchInv(b)'
  <2>1. CASE b = a
    BY <1>1, <2>1 DEF SwitchInv
  <2>2. CASE b # a /\ tangled
    BY <1>1, <2>2 DEF ChatInv, SwitchInv
  <2>3. CASE b # a /\ ~tangled
    <3>1. ~Busy(b)
      BY <2>3 DEF ChatInv, LinkedInv
    <3> QED
      BY <1>1, <2>3, <3>1, NotDoingIs DEF SwitchInv, Busy
  <2> QED
    BY <2>1, <2>2, <2>3
<1> QED
  BY <1>2, <1>3, <1>4 DEF ChatInv

LEMMA GuardedRowIs ==
    ASSUME NEW row \in ScreenRows, pendingKind \in {"none", "chat", "goal"}
    PROVE  /\ GuardedRow(row) \in ScreenRows
           /\ pendingKind # "none" => GuardedRow(row).kind = pendingKind
BY DEF GuardedRow, ScreenRows

LEMMA ActionKeeps ==
    ASSUME ChatInv, NEW a \in ChatActions, ChatAction(a)
    PROVE  ChatInv'
<1>1. ASSUME NEW g \in ChatGoals, goalStatus' = [goalStatus EXCEPT ![g] = "draft"]
                                  \/ goalStatus' = [goalStatus EXCEPT ![g] = "open"],
             UNCHANGED <<teller, verdictOf>>
      PROVE  TellerInv'
  BY <1>1 DEF ChatInv, TellerInv, ChatGoalStatuses
<1>2. UNCHANGED goalSide => TellerInv'
  BY DEF ChatInv, TellerInv, goalSide
<1>3. \A g \in MaybeGoals, kind \in {"chat", "goal"} :
         /\ \A does \in {"message", "offer", "switch"}, steps \in StepLists :
               /\ DoingChat(does, steps, g, kind) \in DoingRecords
               /\ DoingChat(does, steps, g, kind).does = does
               /\ DoingChat(does, steps, g, kind).steps = steps
               /\ DoingChat(does, steps, g, kind).goal = g
               /\ DoingChat(does, steps, g, kind).kind = kind
  BY NotDoingIs DEF DoingChat, DoingRecords
<1>4. NewGoals # {} => NextGoal \in ChatGoals
  BY DEF NewGoals, NextGoal
<1>5. CASE SendsFirstMessage(a) \/ TakesOffer(a)
  <2>1. PICK does \in {"message", "offer"}, steps \in StepLists :
           Begins(a, DoingChat(does, steps, NextGoal, "goal"))
    BY <1>5 DEF SendsFirstMessage, TakesOffer, StepLists
  <2>2. NextGoal \in ChatGoals /\ goalStatus' = [goalStatus EXCEPT ![NextGoal] = "draft"]
        /\ UNCHANGED <<chatRow, onScreen, pendingKind, sidebar, lastLinked, teller, verdictOf>>
    BY <1>4, <1>5 DEF SendsFirstMessage, TakesOffer, CreatesGoal
  <2>3. TellerInv'
    BY <1>1, <2>2
  <2>4. PICK d \in DoingRecords : d = DoingChat(does, steps, NextGoal, "goal") /\ d.does = does
    BY <1>3, <2>2 DEF MaybeGoals
  <2>5. d # NotDoing /\ d.does # "switch"
    BY <2>4, NotDoingIs
  <2>6. onScreen' \in ScreenRows /\ pendingKind' \in {"none", "chat", "goal"}
    BY <2>2 DEF ChatInv, ChatTypes
  <2> QED
    BY <2>1, <2>2, <2>3, <2>4, <2>5, <2>6, BeginsKeeps
<1>6. CASE SwitchesKind(a)
  <2>1. PICK kind \in {"chat", "goal"} :
           /\ Begins(a, DoingChat("switch", <<"writes", "lists", "shows">>, onScreen.goal, kind))
           /\ pendingKind' = kind /\ onScreen' = [onScreen EXCEPT !.kind = kind]
           /\ UNCHANGED <<chatRow, sidebar, lastLinked, goalSide>>
    BY <1>6 DEF SwitchesKind, ExistingGoal
  <2>2. onScreen \in ScreenRows /\ onScreen.goal \in MaybeGoals
    BY DEF ChatInv, ChatTypes, ScreenRows
  <2>3. onScreen' \in ScreenRows /\ onScreen'.kind = kind
    BY <2>1, <2>2 DEF ScreenRows
  <2>4. PICK d \in DoingRecords :
           /\ d = DoingChat("switch", <<"writes", "lists", "shows">>, onScreen.goal, kind)
           /\ d.does = "switch" /\ d.steps = <<"writes", "lists", "shows">>
           /\ d.goal = onScreen.goal /\ d.kind = kind
    BY <1>3, <2>2 DEF StepLists, SwitchLists
  <2>5. d # NotDoing
    BY <2>4, NotDoingIs
  <2> QED
    BY <1>2, <2>1, <2>3, <2>4, <2>5, BeginsKeeps
<1>7. CASE StartsGoal(a)
  <2>1. /\ StepOf(a, "starts") /\ doing' = Stepped(a)
        /\ goalStatus' = [goalStatus EXCEPT ![doing[a].goal] = "open"]
        /\ UNCHANGED <<chatRow, onScreen, pendingKind, sidebar, teller, verdictOf, lastLinked,
                       tangled, begun>>
    BY <1>7 DEF StartsGoal
  <2>2. /\ Busy(a) /\ doing[a].steps \in StepLists /\ Head(doing[a].steps) = "starts"
    BY <2>1, SteppedIs DEF ChatInv
  <2>3. PICK d \in DoingRecords :
                 /\ Stepped(a) = [doing EXCEPT ![a] = d] /\ d # NotDoing
                 /\ d.does = doing[a].does
    BY <2>1, SteppedIs DEF ChatInv
  <2>4. d.does # "switch"
    BY <2>2, <2>3, StepsLeft DEF ChatInv, SwitchInv
  <2>5. TellerInv'
    <3>1. CASE doing[a].goal \in ChatGoals
      BY <1>1, <2>1, <3>1
    <3>2. CASE doing[a].goal \notin ChatGoals
      <4>1. goalStatus' = goalStatus
        BY <2>1, <3>2 DEF ChatInv, TellerInv
      <4> QED
        BY <1>2, <2>1, <4>1 DEF goalSide
    <3> QED
      BY <3>1, <3>2
  <2> QED
    BY <2>1, <2>2, <2>3, <2>4, <2>5, OneAction DEF ChatInv, ChatTypes, LinkedInv
<1>8. CASE WritesRow(a)
  <2>1. /\ StepOf(a, "writes") /\ doing' = Stepped(a)
        /\ chatRow' = [kind |-> doing[a].kind, goal |-> doing[a].goal]
        /\ lastLinked' = IF doing[a].does = "switch" THEN lastLinked ELSE doing[a].goal
        /\ UNCHANGED <<onScreen, pendingKind, sidebar, tangled, begun, goalSide>>
    BY <1>8 DEF WritesRow
  <2>2. /\ Busy(a) /\ doing[a].steps \in StepLists /\ Head(doing[a].steps) = "writes"
    BY <2>1, SteppedIs DEF ChatInv
  <2>3. PICK d \in DoingRecords :
                 /\ Stepped(a) = [doing EXCEPT ![a] = d] /\ d # NotDoing
                 /\ d.does = doing[a].does /\ d.goal = doing[a].goal
                 /\ d.steps = Tail(doing[a].steps)
    BY <2>1, SteppedIs DEF ChatInv
  <2>4. doing[a].kind \in {"chat", "goal"} /\ doing[a].goal \in MaybeGoals
    BY <2>2, NotDoingIs DEF Busy, ChatInv, ChatTypes
  <2>5. chatRow' \in ChatRows /\ chatRow'.goal = doing[a].goal /\ lastLinked' \in MaybeGoals
    BY <2>1, <2>4 DEF ChatRows, ChatInv, ChatTypes
  <2>6. tangled \/ chatRow'.goal = lastLinked'
    BY <2>1, <2>5 DEF ChatInv, SwitchInv, LinkedInv
  <2>7. d.does = "switch" => d.steps = <<"lists", "shows">> /\ d.goal = chatRow'.goal
    BY <2>2, <2>3, <2>5, StepsLeft DEF ChatInv, SwitchInv
  <2>8. <<"lists", "shows">> \in SwitchLists
        /\ <<"lists", "shows">> # <<"writes", "lists", "shows">>
    BY DEF SwitchLists
  <2>9. d.does = "switch" =>
           /\ d.steps \in SwitchLists /\ d.steps # <<"writes", "lists", "shows">>
           /\ tangled \/ d.goal = chatRow'.goal
    BY <2>7, <2>8
  <2>10. /\ doing' = [doing EXCEPT ![a] = d] /\ tangled' = tangled /\ sidebar' = sidebar
         /\ TellerInv' /\ onScreen' \in ScreenRows
         /\ pendingKind' \in {"none", "chat", "goal"}
    BY <1>2, <2>1, <2>3 DEF ChatInv, ChatTypes
  <2> QED
    BY <2>2, <2>3, <2>5, <2>6, <2>9, <2>10, OneAction
<1>9. CASE CallFails(a)
  <2>1. /\ UNCHANGED <<chatRow, onScreen, sidebar, lastLinked, tangled, begun, goalSide>>
    BY <1>9 DEF CallFails
  <2>2. PICK step \in {"starts", "writes"} : StepOf(a, step)
    BY <1>9 DEF CallFails
  <2>3. /\ Busy(a) /\ doing[a].steps \in StepLists /\ Head(doing[a].steps) = step
    BY <2>2, SteppedIs DEF ChatInv
  <2>4. CASE doing[a].does = "switch"
    <3>1. doing' = Stepped(a) /\ pendingKind' = "none"
      BY <1>9, <2>4 DEF CallFails
    <3>2. PICK d \in DoingRecords :
                 /\ Stepped(a) = [doing EXCEPT ![a] = d] /\ d # NotDoing
                 /\ d.does = doing[a].does /\ d.goal = doing[a].goal
                 /\ d.steps = Tail(doing[a].steps)
      BY <2>2, SteppedIs DEF ChatInv
    <3>3. d.steps = <<"lists", "shows">> /\ (tangled \/ d.goal = chatRow.goal)
      BY <2>3, <2>4, <3>2, StepsLeft DEF ChatInv, SwitchInv
    <3>4. <<"lists", "shows">> \in SwitchLists
          /\ <<"lists", "shows">> # <<"writes", "lists", "shows">>
      BY DEF SwitchLists
    <3> QED
      BY <1>2, <2>1, <2>3, <3>1, <3>2, <3>3, <3>4, OneAction DEF ChatInv, ChatTypes, LinkedInv
  <2>5. CASE doing[a].does # "switch"
    <3>1. doing' = [doing EXCEPT ![a] = NotDoing] /\ pendingKind' = pendingKind
      BY <1>9, <2>5 DEF CallFails
    <3> QED
      BY <1>2, <2>1, <2>3, <3>1, NotDoingIs, OneAction DEF ChatInv, ChatTypes, LinkedInv
  <2> QED
    BY <2>4, <2>5
<1>10. CASE ListsAgain(a)
  <2>1. /\ StepOf(a, "lists") /\ doing' = [Stepped(a) EXCEPT ![a].list = chatRow]
        /\ UNCHANGED <<chatRow, onScreen, pendingKind, sidebar, lastLinked, tangled, begun,
                       goalSide>>
    BY <1>10 DEF ListsAgain
  <2>2. /\ Busy(a) /\ doing[a].steps \in StepLists /\ Head(doing[a].steps) = "lists"
    BY <2>1, SteppedIs DEF ChatInv
  <2>3. PICK d \in DoingRecords :
                 /\ Stepped(a) = [doing EXCEPT ![a] = d] /\ d # NotDoing
                 /\ d.does = doing[a].does /\ d.goal = doing[a].goal
                 /\ d.steps = Tail(doing[a].steps)
    BY <2>1, SteppedIs DEF ChatInv
  <2>4. PICK e : e = [d EXCEPT !.list = chatRow]
    OBVIOUS
  <2>5. e \in DoingRecords /\ e.does = d.does /\ e.goal = d.goal /\ e.steps = d.steps
    BY <2>3, <2>4, NotDoingIs DEF DoingRecords, ChatInv, ChatTypes
  <2>6. doing' = [doing EXCEPT ![a] = e]
    BY <2>1, <2>3, <2>4 DEF ChatInv, ChatTypes
  <2>7. e.does = "switch" => e.steps = <<"shows">> /\ (tangled \/ e.goal = chatRow.goal)
    BY <2>2, <2>3, <2>5, StepsLeft DEF ChatInv, SwitchInv
  <2>8. <<"shows">> \in SwitchLists /\ <<"shows">> # <<"writes", "lists", "shows">>
    BY DEF SwitchLists
  <2>9. e.does = "switch" =>
           /\ e.steps \in SwitchLists /\ e.steps # <<"writes", "lists", "shows">>
           /\ tangled \/ e.goal = chatRow'.goal
    BY <2>1, <2>7, <2>8
  <2>10. /\ tangled' = tangled /\ sidebar' = sidebar /\ TellerInv' /\ onScreen' \in ScreenRows
         /\ pendingKind' \in {"none", "chat", "goal"}
         /\ chatRow' \in ChatRows /\ lastLinked' \in MaybeGoals
         /\ tangled \/ chatRow'.goal = lastLinked'
    BY <1>2, <2>1 DEF ChatInv, ChatTypes, LinkedInv
  <2> QED
    BY <2>2, <2>5, <2>6, <2>9, <2>10, OneAction
<1>11. CASE ShowsAgain(a)
  <2>1. /\ StepOf(a, "shows") /\ doing' = [doing EXCEPT ![a] = NotDoing]
        /\ onScreen' = IF doing[a].does = "offer" THEN doing[a].list
                       ELSE GuardedRow(doing[a].list)
        /\ pendingKind' = IF doing[a].does = "switch" THEN "none" ELSE pendingKind
        /\ UNCHANGED <<chatRow, sidebar, lastLinked, tangled, begun, goalSide>>
    BY <1>11 DEF ShowsAgain
  <2>2. Busy(a)
    BY <2>1, NotDoingIs DEF StepOf, Busy
  <2>3. doing[a].list \in ScreenRows /\ pendingKind \in {"none", "chat", "goal"}
    BY <2>2, NotDoingIs DEF Busy, ChatInv, ChatTypes
  <2>4. onScreen' \in ScreenRows
    BY <2>1, <2>3, GuardedRowIs
  <2> QED
    BY <1>2, <2>1, <2>2, <2>3, <2>4, NotDoingIs, OneAction DEF ChatInv, ChatTypes, LinkedInv
<1> QED
  BY <1>5, <1>6, <1>7, <1>8, <1>9, <1>10, <1>11 DEF ChatAction
\* The lists of the sidebar leave an action's own row and kind alone.
LEMMA SidebarKeeps ==
    ASSUME ChatInv, SidebarLists \/ SidebarArrives
    PROVE  ChatInv'
<1>1. UNCHANGED <<chatRow, pendingKind, doing, lastLinked, tangled, begun, goalSide>>
  BY DEF SidebarLists, SidebarArrives
<1>2. /\ sidebar' \in ScreenRows /\ onScreen' \in ScreenRows
      /\ onScreen' = onScreen \/ (pendingKind # "none" => onScreen'.kind = pendingKind)
  BY NotDoingIs, GuardedRowIs DEF SidebarLists, SidebarArrives, ChatInv, ChatTypes
<1>3. ChatTypes'
  BY <1>1, <1>2 DEF ChatInv, ChatTypes
<1>4. LinkedInv' /\ TellerInv'
  BY <1>1 DEF ChatInv, LinkedInv, TellerInv, Busy, goalSide
<1>5. ASSUME NEW a \in ChatActions PROVE SwitchInv(a)'
  <2>1. doing[a].does = "switch" => doing[a].kind \in {"chat", "goal"}
    BY NotDoingIs DEF ChatInv, ChatTypes
  <2> QED
    BY <1>1, <1>2, <2>1 DEF ChatInv, SwitchInv
<1> QED
  BY <1>3, <1>4, <1>5 DEF ChatInv

\* The loop of the desktop tells what it found, or gives it up.
LEMMA LoopKeeps ==
    ASSUME ChatInv,
           (\E g \in ChatGoals : ListsGoals(g)) \/ TicksGoal \/ LooksAgain
           \/ TellsNothing \/ TellsStatus
    PROVE  ChatInv'
<1>1. UNCHANGED chatSide
  BY DEF ListsGoals, TicksGoal, LooksAgain, TellsNothing, TellsStatus
<1>2. ChatTypes' /\ LinkedInv' /\ \A a \in ChatActions : SwitchInv(a)'
  BY <1>1 DEF ChatInv, ChatTypes, LinkedInv, SwitchInv, Busy, chatSide
<1>3. PICK k \in TellerRecords : k = teller
  BY DEF ChatInv, TellerInv
<1>4. NoGoal \notin ChatGoals
  BY GoalChatsAssumption
<1>5. \A at \in {"waits", "ticks", "looks", "tells"}, g \in MaybeGoals, st \in ChatGoalStatuses :
         /\ Looking(at, g, st) \in TellerRecords /\ Looking(at, g, st).at = at
         /\ Looking(at, g, st).goal = g /\ Looking(at, g, st).status = st
  BY DEF Looking, TellerRecords
<1>6. CASE \E g \in ChatGoals : ListsGoals(g)
  <2>1. PICK g \in ChatGoals : ListsGoals(g)
    BY <1>6
  <2>2. PICK m : m = Looking("ticks", g, "open")
    OBVIOUS
  <2>3. m \in TellerRecords /\ m.at = "ticks" /\ m.goal = g /\ m.status = "open"
    BY <1>5, <2>2 DEF MaybeGoals, ChatGoalStatuses
  <2>4. teller' = m /\ teller.goal = NoGoal /\ UNCHANGED <<goalStatus, verdictOf>>
    BY <2>1, <2>2, NotDoingIs DEF ListsGoals
  <2>5. TellerInv'
    BY <1>4, <2>3, <2>4 DEF ChatInv, TellerInv
  <2> QED
    BY <1>2, <2>5 DEF ChatInv
<1>7. CASE TicksGoal
  <2>1. k.at = "ticks" /\ k.goal \in ChatGoals /\ k.status = "open"
    BY <1>3, <1>7 DEF TicksGoal, ChatInv, TellerInv
  <2>2. PICK m : m = [k EXCEPT !.at = "looks"]
    OBVIOUS
  <2>3. m \in TellerRecords /\ m.at = "looks" /\ m.goal = k.goal /\ m.status = "open"
    BY <2>1, <2>2 DEF TellerRecords
  <2>4. teller' = m /\ UNCHANGED verdictOf
    BY <1>3, <1>7, <2>2 DEF TicksGoal
  <2>5. PICK status \in {"open", "accepted"} : goalStatus' = [goalStatus EXCEPT ![k.goal] = status]
    BY <1>3, <1>7 DEF TicksGoal
  <2>6. TellerInv'
    BY <1>3, <2>1, <2>3, <2>4, <2>5 DEF ChatInv, TellerInv, ChatGoalStatuses
  <2> QED
    BY <1>2, <2>6 DEF ChatInv
<1>8. CASE LooksAgain
  <2>1. /\ k.at = "looks" /\ k.goal \in ChatGoals /\ k.status = "open"
        /\ goalStatus[k.goal] \in ChatGoalStatuses
    BY <1>3, <1>8 DEF LooksAgain, ChatInv, TellerInv
  <2>2. PICK m : m = Looking("tells", k.goal, goalStatus[k.goal])
    OBVIOUS
  <2>3. m \in TellerRecords /\ m.at = "tells" /\ m.goal = k.goal
    BY <1>5, <2>1, <2>2 DEF MaybeGoals
  <2>4. /\ UNCHANGED <<goalStatus, verdictOf>>
        /\ teller' = IF goalStatus[k.goal] = k.status THEN NotLooking ELSE m
    BY <1>3, <1>8, <2>2 DEF LooksAgain
  <2>5. CASE goalStatus[k.goal] = "open"
    <3>1. teller' = NotLooking
      BY <2>1, <2>4, <2>5
    <3> QED
      BY <1>2, <1>3, <2>4, <2>5, <3>1, NotDoingIs DEF ChatInv, TellerInv
  <2>6. CASE goalStatus[k.goal] # "open"
    <3>1. teller' = m
      BY <2>1, <2>4, <2>6
    <3>2. TellerInv'
      BY <1>3, <2>1, <2>3, <2>4, <3>1 DEF ChatInv, TellerInv
    <3> QED
      BY <1>2, <3>2 DEF ChatInv
  <2> QED
    BY <2>5, <2>6
<1>9. CASE TellsNothing \/ TellsStatus
  <2>1. k.goal \in ChatGoals
    BY <1>3, <1>9 DEF TellsNothing, TellsStatus, ChatInv, TellerInv
  <2>2. PICK told \in {"none", "told", "missed"} :
           /\ verdictOf' = [verdictOf EXCEPT ![k.goal] = told]
           /\ goalStatus[k.goal] = "accepted" => told # "none"
    BY <1>3, <1>9, <2>1
       DEF TellsNothing, TellsStatus, MissesVerdict, ChatInv, TellerInv
  <2>3. teller' = NotLooking /\ UNCHANGED goalStatus
    BY <1>9 DEF TellsNothing, TellsStatus
  <2>4. TellerInv'
    BY <1>3, <2>1, <2>2, <2>3, NotDoingIs DEF ChatInv, TellerInv
  <2> QED
    BY <1>2, <2>4 DEF ChatInv
<1> QED
  BY <1>6, <1>7, <1>8, <1>9

\* What was in hand is dropped, its verdict with it.
LEMMA DesktopRestartsKeeps ==
    ASSUME ChatInv, DesktopRestarts
    PROVE  ChatInv'
<1>1. /\ doing' = [a \in ChatActions |-> NotDoing] /\ sidebar' = NoList /\ pendingKind' = "none"
      /\ onScreen' = chatRow /\ teller' = NotLooking
      /\ UNCHANGED <<chatRow, goalStatus, lastLinked, tangled, begun>>
  BY DEF DesktopRestarts
<1>2. ChatTypes'
  BY <1>1, NotDoingIs DEF ChatInv, ChatTypes
<1>3. LinkedInv' /\ \A a \in ChatActions : SwitchInv(a)'
  BY <1>1, NotDoingIs DEF ChatInv, LinkedInv, SwitchInv, Busy
<1>4. CASE teller = NotLooking
  <2>1. UNCHANGED verdictOf
    BY <1>4 DEF DesktopRestarts
  <2>2. TellerInv'
    BY <1>1, <1>4, <2>1 DEF ChatInv, TellerInv
  <2> QED
    BY <1>2, <1>3, <2>2 DEF ChatInv
<1>5. CASE teller # NotLooking
  <2>1. PICK g \in ChatGoals : g = teller.goal
    BY <1>5 DEF ChatInv, TellerInv, TellerRecords
  <2>2. PICK told \in {"none", "told", "missed"} :
           /\ verdictOf' = [verdictOf EXCEPT ![g] = told]
           /\ goalStatus[g] = "accepted" => told # "none"
    BY <1>5, <2>1 DEF DesktopRestarts, MissesVerdict, ChatInv, TellerInv
  <2>3. TellerInv'
    BY <1>1, <2>1, <2>2, NotDoingIs DEF ChatInv, TellerInv
  <2> QED
    BY <1>2, <1>3, <2>3 DEF ChatInv
<1> QED
  BY <1>4, <1>5

LEMMA ChatInvariant == GoalChatsSpec => []ChatInv
<1>1. ChatInv /\ [GoalChatsNext]_goalChatVars => ChatInv'
  <2> SUFFICES ASSUME ChatInv, [GoalChatsNext]_goalChatVars PROVE ChatInv'
    OBVIOUS
  <2>1. CASE UNCHANGED goalChatVars
    BY <2>1 DEF ChatInv, ChatTypes, LinkedInv, SwitchInv, TellerInv, Busy, goalChatVars
  <2>2. CASE GoalChatsNext
    BY <2>2, ActionKeeps, SidebarKeeps, LoopKeeps, DesktopRestartsKeeps DEF GoalChatsNext
  <2> QED
    BY <2>1, <2>2
<1> QED
  BY <1>1, ChatInitInv, PTL DEF GoalChatsSpec

\* The session keeps the goal linked to it last while the actions of the user
\* do not overlap, a switch shows what he chose until it is written, and every
\* verdict the loop is through with was told or had to be missed.
THEOREM GoalsAlwaysStayWithTheirChat == GoalChatsSpec => []GoalsStayWithTheirChat
<1>1. ChatInv => GoalsStayWithTheirChat
  <2> SUFFICES ASSUME ChatInv PROVE GoalsStayWithTheirChat
    OBVIOUS
  <2>1. ASSUME NEW a \in ChatActions, doing[a].does = "switch", StepOf(a, "writes"), ~tangled
        PROVE  onScreen.kind = doing[a].kind
    <3>1. doing[a].steps \in SwitchLists /\ doing[a].steps \in StepLists
      BY <2>1 DEF ChatInv, SwitchInv, StepLists
    <3>2. doing[a].steps = <<"writes", "lists", "shows">>
      BY <2>1, <3>1, StepsLeft DEF StepOf
    <3> QED
      BY <2>1, <3>2 DEF ChatInv, SwitchInv
  <2>2. tangled \/ chatRow.goal = lastLinked
    BY DEF ChatInv, LinkedInv
  <2>3. \A g \in ChatGoals :
           goalStatus[g] = "accepted" /\ g # teller.goal => verdictOf[g] # "none"
    BY DEF ChatInv, TellerInv
  <2> QED
    BY <2>1, <2>2, <2>3 DEF GoalsStayWithTheirChat
<1> QED
  BY <1>1, ChatInvariant, PTL
\* What the workbench shows and what its lists carry is always a row; an action
\* about to show a list has read one.
CarriesRow(d) == d.list \in ChatRows \cup {NoList} /\ (d.steps = <<"shows">> => d.list \in ChatRows)
RowsInv ==
    /\ onScreen \in ChatRows /\ sidebar \in ChatRows \cup {NoList} /\ begun \in 0 .. MaxBegun
    /\ \A a \in ChatActions : CarriesRow(doing[a])

\* An action that begins, or is over, carries no row, and none is at its end
\* but after the list.
LEMMA ListedBeforeShown ==
    /\ CarriesRow(NotDoing)
    /\ \A does, g, kind :
          /\ CarriesRow(DoingChat(does, <<"starts", "writes", "lists", "shows">>, g, kind))
          /\ CarriesRow(DoingChat(does, <<"writes", "starts", "lists", "shows">>, g, kind))
          /\ CarriesRow(DoingChat(does, <<"writes", "lists", "shows">>, g, kind))
    /\ \A q \in StepLists : Head(q) \in {"starts", "writes"} => Tail(q) # <<"shows">>
    /\ \A q \in StepLists : Head(q) = "shows" => q = <<"shows">>
<1>1. /\ CarriesRow(NotDoing)
      /\ \A does, g, kind :
          /\ CarriesRow(DoingChat(does, <<"starts", "writes", "lists", "shows">>, g, kind))
          /\ CarriesRow(DoingChat(does, <<"writes", "starts", "lists", "shows">>, g, kind))
          /\ CarriesRow(DoingChat(does, <<"writes", "lists", "shows">>, g, kind))
  <2>1. /\ <<>> # <<"shows">> /\ <<"starts", "writes", "lists", "shows">> # <<"shows">>
        /\ <<"writes", "starts", "lists", "shows">> # <<"shows">>
        /\ <<"writes", "lists", "shows">> # <<"shows">>
    OBVIOUS
  <2> QED
    BY <2>1 DEF CarriesRow, NotDoing, DoingChat
<1>2. ASSUME NEW q \in StepLists
      PROVE  /\ Head(q) \in {"starts", "writes"} => Tail(q) # <<"shows">>
             /\ Head(q) = "shows" => q = <<"shows">>
  <2>1. CASE q = <<"writes", "lists", "shows">>
    BY <2>1
  <2>2. CASE q = <<"lists", "shows">>
    BY <2>2
  <2>3. CASE q = <<"shows">>
    BY <2>3
  <2>4. CASE q = <<"starts", "writes", "lists", "shows">>
    BY <2>4
  <2>5. CASE q = <<"writes", "starts", "lists", "shows">>
    BY <2>5
  <2>6. CASE q = <<"starts", "lists", "shows">>
    BY <2>6
  <2> QED
    BY <2>1, <2>2, <2>3, <2>4, <2>5, <2>6 DEF StepLists, SwitchLists
<1> QED
  BY <1>1, <1>2

\* The rows stay rows when one action is another one.
LEMMA OtherActionCarries ==
    ASSUME ChatTypes, RowsInv, NEW a \in ChatActions, NEW d,
           doing' = [doing EXCEPT ![a] = d], CarriesRow(d),
           onScreen' \in ChatRows, sidebar' \in ChatRows \cup {NoList}, begun' \in 0 .. MaxBegun
    PROVE  RowsInv'
<1>1. ASSUME NEW b \in ChatActions
      PROVE  doing'[b] = IF b = a THEN d ELSE doing[b]
  BY DEF ChatTypes
<1>2. ASSUME NEW b \in ChatActions
      PROVE  CarriesRow(doing[b])'
  BY <1>1 DEF RowsInv, CarriesRow, ChatRows, NoList
<1> QED
  BY <1>2 DEF RowsInv, ChatRows, NoList

LEMMA GuardedIsRow ==
    ASSUME NEW row \in ChatRows, pendingKind \in {"none", "chat", "goal"}
    PROVE  GuardedRow(row) \in ChatRows
BY DEF GuardedRow, ChatRows

LEMMA ActionKeepsRows ==
    ASSUME ChatInv, RowsInv, NEW a \in ChatActions, ChatAction(a)
    PROVE  RowsInv'
<1>1. ChatTypes /\ pendingKind \in {"none", "chat", "goal"} /\ chatRow \in ChatRows
  BY DEF ChatInv, ChatTypes
<1>2. onScreen \in ChatRows /\ sidebar \in ChatRows \cup {NoList} /\ begun \in 0 .. MaxBegun
  BY DEF RowsInv
<1>3. CarriesRow(doing[a])
  BY DEF RowsInv
<1>4. ASSUME NEW d, Begins(a, d), CarriesRow(d), onScreen' \in ChatRows, sidebar' = sidebar
      PROVE  RowsInv'
  <2>1. begun' \in 0 .. MaxBegun /\ doing' = [doing EXCEPT ![a] = d]
    BY <1>2, <1>4, GoalChatsAssumption DEF Begins
  <2> QED
    BY <1>1, <1>2, <1>4, <2>1, OtherActionCarries
<1>5. CASE SendsFirstMessage(a)
  BY <1>2, <1>4, <1>5, ListedBeforeShown DEF SendsFirstMessage
<1>6. CASE TakesOffer(a)
  BY <1>2, <1>4, <1>6, ListedBeforeShown DEF TakesOffer
<1>7. CASE SwitchesKind(a)
  <2>1. PICK kind \in {"chat", "goal"} :
           /\ Begins(a, DoingChat("switch", <<"writes", "lists", "shows">>, ExistingGoal, kind))
           /\ onScreen' = [onScreen EXCEPT !.kind = kind] /\ sidebar' = sidebar
    BY <1>7 DEF SwitchesKind
  <2>2. onScreen' \in ChatRows
    BY <1>2, <2>1 DEF ChatRows
  <2> QED
    BY <1>4, <2>1, <2>2, ListedBeforeShown
<1>8. ASSUME NEW step \in {"starts", "writes"}, StepOf(a, step), doing' = Stepped(a),
             UNCHANGED <<onScreen, sidebar, begun>>
      PROVE  RowsInv'
  <2>1. PICK d \in DoingRecords :
           /\ Stepped(a) = [doing EXCEPT ![a] = d] /\ d.list = doing[a].list
           /\ d.steps = Tail(doing[a].steps)
    BY <1>1, <1>8, SteppedIs
  <2>2. doing[a].steps \in StepLists /\ Head(doing[a].steps) = step
    BY <1>1, <1>8, SteppedIs
  <2>3. CarriesRow(d)
    BY <1>3, <2>1, <2>2, ListedBeforeShown DEF CarriesRow
  <2> QED
    BY <1>1, <1>2, <1>8, <2>1, <2>3, OtherActionCarries
<1>9. CASE StartsGoal(a)
  BY <1>8, <1>9 DEF StartsGoal
<1>10. CASE WritesRow(a)
  BY <1>8, <1>10 DEF WritesRow, goalSide
<1>11. CASE CallFails(a)
  <2>1. PICK step \in {"starts", "writes"} : StepOf(a, step)
    BY <1>11 DEF CallFails
  <2>2. CASE doing[a].does = "switch"
    BY <1>8, <1>11, <2>1, <2>2 DEF CallFails
  <2>3. CASE doing[a].does # "switch"
    <3>1. doing' = [doing EXCEPT ![a] = NotDoing] /\ UNCHANGED <<onScreen, sidebar, begun>>
      BY <1>11, <2>3 DEF CallFails
    <3> QED
      BY <1>1, <1>2, <3>1, ListedBeforeShown, OtherActionCarries
  <2> QED
    BY <2>2, <2>3
<1>12. CASE ListsAgain(a)
  <2>1. StepOf(a, "lists")
    BY <1>12 DEF ListsAgain
  <2>2. PICK d \in DoingRecords : Stepped(a) = [doing EXCEPT ![a] = d] /\ d # NotDoing
    BY <1>1, <2>1, SteppedIs
  <2>3. doing' = [Stepped(a) EXCEPT ![a].list = chatRow] /\ UNCHANGED <<onScreen, sidebar, begun>>
    BY <1>12 DEF ListsAgain
  <2>4. PICK e : e = [d EXCEPT !.list = chatRow]
    OBVIOUS
  <2>5. doing' = [doing EXCEPT ![a] = e]
    BY <1>1, <2>2, <2>3, <2>4 DEF ChatTypes
  <2>6. CarriesRow(e)
    BY <1>1, <2>2, <2>4 DEF CarriesRow, DoingRecords
  <2> QED
    BY <1>1, <1>2, <2>3, <2>5, <2>6, OtherActionCarries
<1>13. CASE ShowsAgain(a)
  <2>1. doing[a].steps \in StepLists /\ Head(doing[a].steps) = "shows"
    <3>1. doing[a] \in DoingRecords /\ doing[a] # NotDoing
      BY <1>1, <1>13, NotDoingIs DEF ChatTypes, ShowsAgain, StepOf
    <3> QED
      BY <1>13, <3>1, NotDoingIs DEF ShowsAgain, StepOf
  <2>2. doing[a].list \in ChatRows
    BY <1>3, <2>1, ListedBeforeShown DEF CarriesRow
  <2>3. onScreen' \in ChatRows
    BY <1>1, <1>13, <2>2, GuardedIsRow DEF ShowsAgain
  <2>4. doing' = [doing EXCEPT ![a] = NotDoing] /\ UNCHANGED <<sidebar, begun>>
    BY <1>13 DEF ShowsAgain
  <2> QED
    BY <1>1, <1>2, <2>3, <2>4, ListedBeforeShown, OtherActionCarries
<1> QED
  BY <1>5, <1>6, <1>7, <1>9, <1>10, <1>11, <1>12, <1>13 DEF ChatAction

LEMMA NextKeepsRows ==
    ASSUME ChatInv, RowsInv, [GoalChatsNext]_goalChatVars
    PROVE  RowsInv'
<1>1. ChatTypes /\ pendingKind \in {"none", "chat", "goal"} /\ chatRow \in ChatRows
  BY DEF ChatInv, ChatTypes
<1>2. ASSUME UNCHANGED doing, onScreen' \in ChatRows, sidebar' \in ChatRows \cup {NoList},
             UNCHANGED begun
      PROVE  RowsInv'
  BY <1>2 DEF RowsInv, CarriesRow, ChatRows, NoList
<1>3. onScreen \in ChatRows /\ sidebar \in ChatRows \cup {NoList}
  BY DEF RowsInv
<1>4. ASSUME UNCHANGED <<doing, onScreen, sidebar, begun>> PROVE RowsInv'
  BY <1>2, <1>3, <1>4
<1>5. CASE UNCHANGED goalChatVars
  BY <1>4, <1>5 DEF goalChatVars
<1>6. CASE \E a \in ChatActions : ChatAction(a)
  BY <1>6, ActionKeepsRows
<1>7. CASE SidebarLists
  BY <1>1, <1>2, <1>3, <1>7 DEF SidebarLists
<1>8. CASE SidebarArrives
  <2>1. sidebar \in ChatRows
    BY <1>3, <1>8 DEF SidebarArrives
  <2> QED
    BY <1>1, <1>2, <1>8, <2>1, GuardedIsRow DEF SidebarArrives
<1>9. CASE \E g \in ChatGoals : ListsGoals(g)
  BY <1>4, <1>9 DEF ListsGoals, chatSide
<1>10. CASE TicksGoal \/ LooksAgain \/ TellsNothing \/ TellsStatus
  BY <1>4, <1>10 DEF TicksGoal, LooksAgain, TellsNothing, TellsStatus, chatSide
<1>11. CASE DesktopRestarts
  <2>1. /\ doing' = [a \in ChatActions |-> NotDoing] /\ sidebar' = NoList /\ onScreen' = chatRow
        /\ begun' = begun
    BY <1>11 DEF DesktopRestarts
  <2>2. ASSUME NEW a \in ChatActions PROVE CarriesRow(doing[a])'
    BY <2>1, ListedBeforeShown DEF CarriesRow, ChatRows, NoList, NotDoing, DoingChat
  <2> QED
    BY <1>1, <2>1, <2>2 DEF RowsInv, ChatRows, NoList
<1> QED
  BY <1>5, <1>6, <1>7, <1>8, <1>9, <1>10, <1>11 DEF GoalChatsNext

LEMMA GoalChatsTypeCorrect == GoalChatsSpec => []GoalChatsTypeOK
<1>1. GoalChatsInit => RowsInv
  BY GoalChatsAssumption, ListedBeforeShown DEF GoalChatsInit, RowsInv, ChatRows, MaybeGoals
<1>2. ChatInv /\ RowsInv /\ [GoalChatsNext]_goalChatVars => RowsInv'
  BY NextKeepsRows
<1>3. ChatInv /\ RowsInv => GoalChatsTypeOK
  <2> SUFFICES ASSUME ChatInv, RowsInv PROVE GoalChatsTypeOK
    OBVIOUS
  <2>1. ASSUME NEW a \in ChatActions
        PROVE  /\ doing[a].does \in {"nothing", "message", "offer", "switch"}
               /\ doing[a].steps = <<>> <=> doing[a].does = "nothing"
               /\ doing[a].goal \in MaybeGoals /\ doing[a].list \in ChatRows \cup {NoList}
    <3>1. doing[a] \in DoingRecords /\ doing[a].list \in ChatRows \cup {NoList}
      BY DEF ChatInv, ChatTypes, RowsInv, CarriesRow
    <3>2. CASE doing[a] = NotDoing
      BY <3>1, <3>2, NotDoingIs DEF NotDoing, DoingChat, MaybeGoals
    <3>3. CASE doing[a] # NotDoing
      <4>1. /\ doing[a].does \in {"message", "offer", "switch"} /\ doing[a].steps \in StepLists
            /\ doing[a].goal \in MaybeGoals
        BY <3>1, <3>3, NotDoingIs
      <4> QED
        BY <3>1, <4>1, StepsLeft
    <3> QED
      BY <3>2, <3>3
  <2>2. /\ teller.at \in {"waits", "ticks", "looks", "tells"}
        /\ teller.goal \in MaybeGoals /\ teller.status \in ChatGoalStatuses
    BY DEF ChatInv, TellerInv, TellerRecords
  <2> QED
    BY <2>1, <2>2 DEF ChatInv, ChatTypes, TellerInv, RowsInv, GoalChatsTypeOK
<1> QED
  BY <1>1, <1>2, <1>3, ChatInvariant, PTL DEF GoalChatsSpec

----------------------------------------------------------------------------
(* What the pet looks like                                                 *)

Dressings == [at : {"idle", "called", "read"}, op : Changes, value : {0, 1},
              time : 0 .. MaxChanges, seen : Avatars]

\* An automatic change goes on only if the row it read has no lock on it.
AvatarInv ==
    /\ avatar \in Avatars /\ dresser \in [Dressers -> Dressings] /\ petClock \in 0 .. MaxChanges
    /\ chosen \in Looks /\ unread \subseteq AvatarFields
    /\ \A c \in Dressers :
          LET me == dresser[c]
          IN me.at = "read" /\ me.op.auto => me.seen.looks[LockOf(me.op.field)] # 1
    /\ PetKeepsChoices

LEMMA ChangesAre ==
    /\ \A op \in Changes : /\ op.field \in AvatarFields /\ op.auto \in BOOLEAN
                           /\ op.early \in BOOLEAN /\ op.whole \in BOOLEAN
    /\ NotDressing \in Dressings /\ NotDressing.at = "idle"
    /\ DefaultAvatar \in Avatars /\ "activity" \in AvatarFields
<1>1. Changes \subseteq [field : AvatarFields, auto : BOOLEAN, early : BOOLEAN, whole : BOOLEAN]
  BY DEF Changes, SetAvatar, SetMainManual, UpdatePosition, SetActivity, SetSubManual, LockMain,
         LockActivity, AvatarFields, Change
<1>3. DefaultAvatar \in Avatars
  BY AvatarAssumption DEF DefaultAvatar, Avatars, Looks
<1>4. UpdatePosition \in Changes
  BY DEF Changes
<1>5. NotDressing \in Dressings /\ NotDressing.at = "idle"
  BY <1>3, <1>4, AvatarAssumption DEF NotDressing, Dressings
<1> QED
  BY <1>1, <1>3, <1>5 DEF AvatarFields

LEMMA AvatarInitInv == AvatarInit => AvatarInv
<1> SUFFICES ASSUME AvatarInit PROVE AvatarInv
  OBVIOUS
<1>1. PetKeepsChoices
  BY DEF AvatarInit, PetKeepsChoices, DefaultAvatar
<1>2. chosen \in Looks /\ petClock \in 0 .. MaxChanges
  BY ChangesAre, AvatarAssumption DEF AvatarInit, Avatars
<1> QED
  BY <1>1, <1>2, ChangesAre DEF AvatarInit, AvatarInv

\* A call that begins or reads leaves what is shown and chosen alone.
LEMMA DressesKeeps ==
    ASSUME AvatarInv, NEW c \in Dressers, NEW me \in Dressings,
           dresser' = [dresser EXCEPT ![c] = me], petClock' \in 0 .. MaxChanges,
           UNCHANGED <<avatar, chosen, unread>>,
           me.at = "read" /\ me.op.auto => me.seen.looks[LockOf(me.op.field)] # 1
    PROVE  AvatarInv'
<1>1. \A d \in Dressers : dresser'[d] = IF d = c THEN me ELSE dresser[d]
  BY DEF AvatarInv
<1>2. PetKeepsChoices'
  BY DEF AvatarInv, PetKeepsChoices
<1> QED
  BY <1>1, <1>2 DEF AvatarInv

LEMMA DresserCallsKeeps ==
    ASSUME AvatarInv, NEW c \in Dressers, DresserCalls(c)
    PROVE  AvatarInv'
<1>1. PICK op \in Changes, v \in {0, 1} :
         LET me == [NotDressing EXCEPT !.at = "called", !.op = op, !.value = v]
         IN IF op.early THEN TakesTime(c, me)
            ELSE dresser' = [dresser EXCEPT ![c] = me] /\ UNCHANGED petClock
  BY DEF DresserCalls
<1>2. PICK k : k = [NotDressing EXCEPT !.at = "called", !.op = op, !.value = v]
  OBVIOUS
<1>3. k \in Dressings /\ k.at = "called"
  BY <1>2, ChangesAre DEF Dressings
<1>4. UNCHANGED <<avatar, chosen, unread>>
  BY DEF DresserCalls
<1>5. CASE op.early
  <2>1. PICK m : m = [k EXCEPT !.time = petClock + 1]
    OBVIOUS
  <2>2. /\ petClock' = petClock + 1 /\ petClock' \in 0 .. MaxChanges
        /\ dresser' = [dresser EXCEPT ![c] = m]
    BY <1>1, <1>2, <1>5, <2>1, AvatarAssumption DEF TakesTime, AvatarInv
  <2>3. m \in Dressings /\ m.at = "called"
    BY <1>3, <2>1, <2>2 DEF Dressings
  <2> QED
    BY <1>4, <2>2, <2>3, DressesKeeps
<1>6. CASE ~op.early
  <2>1. dresser' = [dresser EXCEPT ![c] = k] /\ petClock' \in 0 .. MaxChanges
    BY <1>1, <1>2, <1>6 DEF AvatarInv
  <2> QED
    BY <1>3, <1>4, <2>1, DressesKeeps
<1> QED
  BY <1>5, <1>6

LEMMA DresserReadsKeeps ==
    ASSUME AvatarInv, NEW c \in Dressers, DresserReads(c)
    PROVE  AvatarInv'
<1>1. PICK k \in Dressings : k = dresser[c]
  BY DEF AvatarInv
<1>2. PICK r : r = [k EXCEPT !.at = "read", !.seen = avatar]
  OBVIOUS
<1>3. /\ r \in Dressings /\ r.op = k.op /\ r.seen = avatar /\ r.at = "read"
  BY <1>1, <1>2 DEF Dressings, AvatarInv
<1>4. UNCHANGED <<avatar, chosen, unread>>
  BY DEF DresserReads
<1>5. CASE Stopped(k) /\ dresser' = [dresser EXCEPT ![c] = NotDressing] /\ UNCHANGED petClock
  <2>1. petClock' \in 0 .. MaxChanges
    BY <1>5 DEF AvatarInv
  <2> QED
    BY <1>4, <1>5, <2>1, ChangesAre, DressesKeeps
<1>6. CASE ~Stopped(k)
  <2>1. r.op.auto => r.seen.looks[LockOf(r.op.field)] # 1
    BY <1>3, <1>6 DEF Stopped
  <2>2. CASE dresser' = [dresser EXCEPT ![c] = r] /\ UNCHANGED petClock
    <3>1. petClock' \in 0 .. MaxChanges
      BY <2>2 DEF AvatarInv
    <3> QED
      BY <1>3, <1>4, <2>1, <2>2, <3>1, DressesKeeps
  <2>3. CASE TakesTime(c, r)
    <3>1. PICK m : m = [r EXCEPT !.time = petClock + 1]
      OBVIOUS
    <3>2. petClock' = petClock + 1 /\ petClock' \in 0 .. MaxChanges
          /\ dresser' = [dresser EXCEPT ![c] = m]
      BY <2>3, <3>1, AvatarAssumption DEF TakesTime, AvatarInv
    <3>3. m \in Dressings /\ m.op = r.op /\ m.seen = r.seen
      BY <1>3, <3>1, <3>2 DEF Dressings
    <3> QED
      BY <1>4, <2>1, <3>2, <3>3, DressesKeeps
  <2> QED
    BY <1>1, <1>2, <1>6, <2>2, <2>3 DEF DresserReads
<1> QED
  BY <1>1, <1>5, <1>6 DEF DresserReads

\* The row inserted is the one read with its field set and, where the INSERT
\* leaves it out, the activity reset.
LEMMA InsertedIs ==
    ASSUME NEW k \in Dressings
    PROVE  /\ InsertedRow(k) \in Avatars
           /\ InsertedRow(k).looks[k.op.field] = k.value
           /\ \A f \in AvatarFields \ {k.op.field} :
                 k.op.whole \/ f # "activity" => InsertedRow(k).looks[f] = k.seen.looks[f]
<1>1. k.seen.looks \in Looks /\ k.op.field \in AvatarFields /\ k.value \in {0, 1}
      /\ k.time \in 0 .. MaxChanges
  BY ChangesAre DEF Dressings, Avatars
<1>2. PICK copied \in Looks :
         /\ copied = IF k.op.whole THEN k.seen.looks ELSE [k.seen.looks EXCEPT !["activity"] = 0]
         /\ \A f \in AvatarFields : k.op.whole \/ f # "activity" => copied[f] = k.seen.looks[f]
  <2>1. CASE k.op.whole
    BY <1>1, <2>1
  <2>2. CASE ~k.op.whole
    BY <1>1, <2>2 DEF Looks
  <2> QED
    BY <2>1, <2>2
<1>3. PICK set : set = [copied EXCEPT ![k.op.field] = k.value]
  OBVIOUS
<1>4. /\ set \in Looks /\ set[k.op.field] = k.value
      /\ \A f \in AvatarFields \ {k.op.field} : set[f] = copied[f]
  BY <1>1, <1>2, <1>3 DEF Looks
<1>5. InsertedRow(k) = [looks |-> set, time |-> k.time]
  BY <1>2, <1>3 DEF InsertedRow
<1> QED
  BY <1>1, <1>2, <1>4, <1>5 DEF Avatars

LEMMA DresserInsertsKeeps ==
    ASSUME AvatarInv, NEW c \in Dressers, DresserInserts(c)
    PROVE  AvatarInv'
<1>1. PICK k \in Dressings : k = dresser[c]
  BY DEF AvatarInv
<1>2. k.op.field \in AvatarFields /\ k.op \in Changes /\ k.value \in {0, 1}
  BY ChangesAre DEF Dressings
<1>3. /\ k.at = "read" /\ dresser' = [dresser EXCEPT ![c] = NotDressing] /\ UNCHANGED petClock
      /\ avatar' = IF k.time > avatar.time THEN InsertedRow(k) ELSE avatar
  BY <1>1 DEF DresserInserts
<1>4. PICK locked \in BOOLEAN :
         locked <=> k.op.auto /\ avatar.looks[LockOf(k.op.field)] = 1
  OBVIOUS
<1>5. chosen' = IF locked THEN chosen ELSE [chosen EXCEPT ![k.op.field] = k.value]
  BY <1>1, <1>4 DEF DresserInserts
<1>6. chosen' \in Looks /\ avatar' \in Avatars
  BY <1>2, <1>3, <1>5, InsertedIs DEF AvatarInv, Looks
<1>7. \A f \in AvatarFields \ {k.op.field} : chosen'[f] = chosen[f]
  BY <1>2, <1>5 DEF AvatarInv, Looks
<1>8. ~locked => chosen'[k.op.field] = k.value
  BY <1>2, <1>5 DEF AvatarInv, Looks
<1>9. unread' \subseteq AvatarFields /\ PetKeepsChoices'
  <2>1. CASE ~(k.time > avatar.time)
    <3>1. unread' = unread \cup {k.op.field} /\ avatar' = avatar
      BY <1>1, <1>3, <2>1 DEF DresserInserts
    <3> QED
      BY <1>2, <1>7, <3>1 DEF AvatarInv, PetKeepsChoices
  <2>2. CASE k.time > avatar.time /\ k.seen # avatar
    <3>1. unread' = AvatarFields \ (IF locked THEN {} ELSE {k.op.field})
          /\ avatar' = InsertedRow(k)
      BY <1>1, <1>3, <1>4, <2>2 DEF DresserInserts
    <3> QED
      BY <1>2, <1>8, <3>1, InsertedIs DEF PetKeepsChoices
  <2>3. CASE k.time > avatar.time /\ k.seen = avatar
    <3>0. avatar' = InsertedRow(k)
      BY <1>3, <2>3
    <3>1. unread' = (unread \ {k.op.field}) \cup IF k.op.whole THEN {} ELSE {"activity"}
      BY <1>1, <1>3, <2>3 DEF DresserInserts
    <3>2. ~locked
      BY <1>1, <1>3, <1>4, <2>3 DEF AvatarInv
    <3>3. ASSUME NEW f \in AvatarFields, avatar'.looks[f] # chosen'[f] PROVE f \in unread'
      <4>1. f # k.op.field
        BY <1>8, <3>0, <3>2, <3>3, InsertedIs
      <4>2. CASE ~k.op.whole /\ f = "activity"
        BY <3>1, <4>2
      <4>3. CASE k.op.whole \/ f # "activity"
        <5>1. avatar'.looks[f] = avatar.looks[f]
          BY <2>3, <3>0, <3>3, <4>1, <4>3, InsertedIs
        <5> QED
          BY <1>7, <3>1, <3>3, <4>1, <5>1 DEF AvatarInv, PetKeepsChoices
      <4> QED
        BY <4>2, <4>3
    <3> QED
      BY <1>2, <3>1, <3>3, ChangesAre DEF AvatarInv, PetKeepsChoices
  <2> QED
    BY <2>1, <2>2, <2>3
<1>10. \A d \in Dressers : dresser'[d] = IF d = c THEN NotDressing ELSE dresser[d]
  BY <1>3 DEF AvatarInv
<1>11. dresser' \in [Dressers -> Dressings] /\ petClock' \in 0 .. MaxChanges
  BY <1>3, ChangesAre DEF AvatarInv
<1> QED
  BY <1>6, <1>9, <1>10, <1>11, ChangesAre DEF AvatarInv

LEMMA AvatarInvariant == AvatarSpec => []AvatarInv
<1>1. AvatarInv /\ [AvatarNext]_avatarVars => AvatarInv'
  <2> SUFFICES ASSUME AvatarInv, [AvatarNext]_avatarVars PROVE AvatarInv'
    OBVIOUS
  <2>1. CASE UNCHANGED avatarVars
    BY <2>1 DEF AvatarInv, PetKeepsChoices, avatarVars
  <2>2. CASE AvatarNext
    BY <2>2, DresserCallsKeeps, DresserReadsKeeps, DresserInsertsKeeps DEF AvatarNext
  <2> QED
    BY <2>1, <2>2
<1> QED
  BY <1>1, AvatarInitInv, PTL DEF AvatarSpec

\* However many calls dress the pet, a field shows another value than the one
\* chosen last only where an INSERT had not read the choice or left it out.
THEOREM PetAlwaysKeepsChoices == AvatarSpec => []PetKeepsChoices
<1>1. AvatarInv => PetKeepsChoices
  BY DEF AvatarInv
<1> QED
  BY <1>1, AvatarInvariant, PTL
----------------------------------------------------------------------------
(* What the pet has lived through                                          *)

Feelings == [at : FeelingPlaces, mood : MoodRows]
Latest(r) == r \in moods /\ \A q \in moods : q.at <= r.at
UnderWay(w) == feeling[w].at \in {"holds", "stamped"}
Certain == saved \ crossed

\* Writers under way together are all crossed; one that is not stamps its mood
\* after every row there is.
FeelerInv(w) ==
    /\ w \in saved => feeling[w].at \in {"prunes", "over"}
    /\ UnderWay(w) => /\ Certain \subseteq feeling[w].mood.knows /\ feeling[w].mood.at <= stamps
    /\ UnderWay(w) /\ w \in MoodTurns => w \in feeling[w].mood.knows
    /\ feeling[w].at = "stamped" /\ w \notin crossed =>
          \A r \in moods : r.at < feeling[w].mood.at

MoodInv ==
    /\ MoodTypeOK
    /\ \A r \in moods : r.at <= stamps
    /\ moods = {} => saved = {}
    /\ moods # {} => \E r \in moods : Latest(r)
    /\ \A r \in moods : Latest(r) => Certain \subseteq r.knows
    /\ \A w \in Feelers : FeelerInv(w)
    /\ \A v, w \in Feelers : v # w /\ UnderWay(v) /\ UnderWay(w) => v \in crossed

\* What a load finds knows of every turn whose mood is certain to be kept.
LEMMA NewestIs ==
    ASSUME MoodInv
    PROVE  /\ NewestMood(moods) \in MoodRows /\ Certain \subseteq NewestMood(moods).knows
           /\ NewestMood(moods).at <= stamps
<1>1. CASE moods = {}
  BY <1>1, MoodAssumption DEF NewestMood, MoodInv, MoodTypeOK, Certain, FirstMood, MoodRows
<1>2. CASE moods # {}
  <2>1. Latest(NewestMood(moods))
    BY <1>2 DEF NewestMood, MoodInv, Latest
  <2> QED
    BY <2>1 DEF MoodInv, Latest, MoodTypeOK
<1> QED
  BY <1>1, <1>2

LEMMA MoodInitInv == MoodInit => MoodInv
<1> SUFFICES ASSUME MoodInit PROVE MoodInv
  OBVIOUS
<1>1. PICK f : f = Feels("idle", FirstMood)
  OBVIOUS
<1>2. f \in Feelings /\ f.at = "idle"
  BY <1>1, MoodAssumption DEF Feels, Feelings, FirstMood, MoodRows, FeelingPlaces
<1>3. MoodTypeOK
  BY <1>1, <1>2, MoodAssumption DEF MoodInit, MoodTypeOK, Feelings
<1> QED
  BY <1>1, <1>2, <1>3 DEF MoodInit, MoodInv, FeelerInv, UnderWay

\* A writer that goes on without a row of its own.
LEMMA FeelsKeeps ==
    ASSUME MoodInv, NEW w \in Feelers, NEW m \in Feelings, feeling' = [feeling EXCEPT ![w] = m],
           UNCHANGED <<moods, saved>>, stamps' \in 0 .. MaxStamps, stamps <= stamps',
           crossed' \subseteq Feelers, Certain' \subseteq Certain, crossed \ {w} \subseteq crossed',
           w \in saved => m.at \in {"prunes", "over"},
           m.at \in {"holds", "stamped"} =>
              /\ Certain \subseteq m.mood.knows /\ m.mood.at <= stamps'
              /\ w \in MoodTurns => w \in m.mood.knows
              /\ \A v \in Feelers : v # w /\ UnderWay(v) => v \in crossed' /\ w \in crossed',
           m.at = "stamped" /\ w \notin crossed' => \A r \in moods : r.at < m.mood.at
    PROVE  MoodInv'
<1>1. \A v \in Feelers : feeling'[v] = IF v = w THEN m ELSE feeling[v]
  BY DEF MoodInv, MoodTypeOK
<1>2. MoodTypeOK'
  BY DEF MoodInv, MoodTypeOK, Feelings
<1>3. /\ \A r \in moods' : r.at <= stamps'
      /\ moods' = {} => saved' = {}
      /\ moods' # {} => \E r \in moods' : Latest(r)'
      /\ \A r \in moods' : Latest(r)' => Certain' \subseteq r.knows
  <2>1. \A r \in moods : r.at \in Int
    BY DEF MoodInv, MoodTypeOK, MoodRows
  <2>2. \A r : Latest(r)' <=> Latest(r)
    BY DEF Latest
  <2>3. stamps \in Int /\ stamps' \in Int
    BY DEF MoodInv, MoodTypeOK
  <2> QED
    BY <2>1, <2>2, <2>3 DEF MoodInv
<1>4. ASSUME NEW v \in Feelers PROVE FeelerInv(v)'
  <2>1. CASE v = w
    BY <1>1, <2>1 DEF FeelerInv, UnderWay
  <2>2. CASE v # w
    <3>1. feeling'[v] = feeling[v] /\ (v \in crossed => v \in crossed')
      BY <1>1, <2>2 DEF MoodInv, MoodTypeOK
    <3>2. feeling[v].mood.at \in Int /\ stamps \in Int /\ stamps' \in Int
      BY DEF MoodInv, MoodTypeOK, MoodRows
    <3>3. UnderWay(v)' => feeling'[v].mood.at <= stamps'
      BY <3>1, <3>2 DEF MoodInv, FeelerInv, UnderWay
    <3> QED
      BY <3>1, <3>3 DEF MoodInv, FeelerInv, UnderWay
  <2> QED
    BY <2>1, <2>2
<1>5. ASSUME NEW u \in Feelers, NEW v \in Feelers, u # v, UnderWay(u)', UnderWay(v)' PROVE u \in crossed'
  BY <1>1, <1>5 DEF MoodInv, UnderWay
<1> QED
  BY <1>2, <1>3, <1>4, <1>5 DEF MoodInv

LEMMA LoadsMoodKeeps ==
    ASSUME MoodInv, NEW w \in Feelers, LoadsMood(w)
    PROVE  MoodInv'
<1>1. PICK n \in MoodRows : n = NewestMood(moods) /\ Certain \subseteq n.knows /\ n.at <= stamps
  BY NewestIs
<1>2. PICK k : k = [n EXCEPT !.knows = n.knows \cup ({w} \cap MoodTurns)]
  OBVIOUS
<1>3. /\ k \in MoodRows /\ n.knows \subseteq k.knows /\ k.at <= stamps
      /\ w \in MoodTurns => w \in k.knows
  BY <1>1, <1>2 DEF MoodRows
<1>4. PICK m : m = Feels("holds", k)
  OBVIOUS
<1>5. m \in Feelings /\ m.at = "holds" /\ m.mood = k
  BY <1>3, <1>4 DEF Feels, Feelings, FeelingPlaces
<1>6. /\ feeling[w].at = "idle" /\ feeling' = [feeling EXCEPT ![w] = m]
      /\ UNCHANGED <<moods, stamps, saved>>
  BY <1>1, <1>2, <1>4 DEF LoadsMood
<1>7. w \notin saved
  BY <1>6 DEF MoodInv, FeelerInv
<1>8. crossed' = IF OpenFeelers = {} THEN crossed \ {w} ELSE crossed \cup OpenFeelers \cup {w}
  BY DEF LoadsMood
<1>9. /\ crossed' \subseteq Feelers /\ Certain' \subseteq Certain
      /\ crossed \ {w} \subseteq crossed'
      /\ \A v \in Feelers : v # w /\ UnderWay(v) => v \in crossed' /\ w \in crossed'
  BY <1>6, <1>7, <1>8 DEF MoodInv, MoodTypeOK, Certain, OpenFeelers, UnderWay
<1>10. stamps' \in 0 .. MaxStamps /\ stamps <= stamps'
  BY <1>6 DEF MoodInv, MoodTypeOK
<1> QED
  BY <1>1, <1>3, <1>5, <1>6, <1>7, <1>9, <1>10, FeelsKeeps

LEMMA StampsMoodKeeps ==
    ASSUME MoodInv, NEW w \in Feelers, StampsMood(w)
    PROVE  MoodInv'
<1>1. PICK k \in Feelings : k = feeling[w]
  BY DEF MoodInv, MoodTypeOK, Feelings
<1>2. PICK n : n = [k.mood EXCEPT !.at = stamps + 1]
  OBVIOUS
<1>3. /\ k.at = "holds" /\ stamps' = stamps + 1 /\ stamps' \in 0 .. MaxStamps
      /\ stamps \in 0 .. MaxStamps /\ UNCHANGED <<moods, saved, crossed>>
      /\ feeling' = [feeling EXCEPT ![w] = [at |-> "stamped", mood |-> n]]
  BY <1>1, <1>2, MoodAssumption DEF StampsMood, MoodInv, MoodTypeOK
<1>4. n \in MoodRows /\ n.at = stamps + 1 /\ n.knows = k.mood.knows
  BY <1>2, <1>3 DEF MoodRows, Feelings
<1>5. PICK m : m = [at |-> "stamped", mood |-> n]
  OBVIOUS
<1>6. m \in Feelings /\ m.at = "stamped" /\ m.mood = n
  BY <1>4, <1>5 DEF Feelings, FeelingPlaces
<1>7. \A r \in moods : r.at < n.at
  BY <1>3, <1>4 DEF MoodInv, MoodTypeOK, MoodRows
<1>8. w \notin saved /\ UnderWay(w)
  BY <1>1, <1>3 DEF MoodInv, FeelerInv, UnderWay
<1>9. /\ Certain \subseteq n.knows /\ (w \in MoodTurns => w \in n.knows)
      /\ \A v \in Feelers : v # w /\ UnderWay(v) => v \in crossed' /\ w \in crossed'
  BY <1>1, <1>3, <1>4, <1>8 DEF MoodInv, FeelerInv
<1>10. crossed' \subseteq Feelers /\ Certain' \subseteq Certain /\ crossed \ {w} \subseteq crossed'
  BY <1>3 DEF MoodInv, MoodTypeOK, Certain
<1>11. stamps <= stamps' /\ m.mood.at <= stamps'
  BY <1>3, <1>4, <1>6
<1>12. feeling' = [feeling EXCEPT ![w] = m]
  BY <1>3, <1>5
<1>13. m.at = "stamped" => \A r \in moods : r.at < m.mood.at
  BY <1>6, <1>7
<1>14. Certain \subseteq m.mood.knows /\ (w \in MoodTurns => w \in m.mood.knows)
  BY <1>6, <1>9
<1>15. UNCHANGED <<moods, saved>> /\ stamps' \in 0 .. MaxStamps
  BY <1>3
<1> QED
  BY <1>6, <1>8, <1>9, <1>10, <1>11, <1>12, <1>13, <1>14, <1>15, FeelsKeeps

LEMMA TurnFailsKeeps ==
    ASSUME MoodInv, NEW w \in Feelers, TurnFailsWith(w)
    PROVE  MoodInv'
<1>1. PICK k \in Feelings : k = feeling[w]
  BY DEF MoodInv, MoodTypeOK, Feelings
<1>2. PICK m : m = [k EXCEPT !.at = "over"]
  OBVIOUS
<1>3. m \in Feelings /\ m.at = "over"
  BY <1>1, <1>2 DEF Feelings, FeelingPlaces
<1>4. feeling' = [feeling EXCEPT ![w] = m] /\ UNCHANGED <<moods, stamps, saved, crossed>>
  BY <1>1, <1>2 DEF TurnFailsWith
<1>5. /\ stamps' \in 0 .. MaxStamps /\ stamps <= stamps'
      /\ crossed' \subseteq Feelers /\ Certain' \subseteq Certain
      /\ crossed \ {w} \subseteq crossed'
  BY <1>4 DEF MoodInv, MoodTypeOK, Certain
<1> QED
  BY <1>3, <1>4, <1>5, FeelsKeeps

\* The row of a turn nobody crossed is the latest, and it knows of the others.
LEMMA InsertsMoodKeeps ==
    ASSUME MoodInv, NEW w \in Feelers, InsertsMood(w)
    PROVE  MoodInv'
<1>1. PICK k \in Feelings : k = feeling[w]
  BY DEF MoodInv, MoodTypeOK, Feelings
<1>2. PICK m : m = [k EXCEPT !.at = "prunes"]
  OBVIOUS
<1>3. m \in Feelings /\ m.at = "prunes"
  BY <1>1, <1>2 DEF Feelings, FeelingPlaces
<1>4. /\ k.at = "stamped" /\ moods' = moods \cup {k.mood}
      /\ saved' = saved \cup ({w} \cap MoodTurns)
      /\ feeling' = [feeling EXCEPT ![w] = m] /\ UNCHANGED <<stamps, crossed>>
  BY <1>1, <1>2 DEF InsertsMood
<1>5. \A v \in Feelers : feeling'[v] = IF v = w THEN m ELSE feeling[v]
  BY <1>4 DEF MoodInv, MoodTypeOK
<1>6. k.mood \in MoodRows /\ k.mood.at \in Int /\ \A r \in moods : r.at \in Int
  BY DEF Feelings, MoodInv, MoodTypeOK, MoodRows
<1>7. MoodTypeOK'
  BY <1>3, <1>4, <1>6 DEF MoodInv, MoodTypeOK, Feelings
<1>8. UnderWay(w) /\ Certain \subseteq k.mood.knows /\ (w \in MoodTurns => w \in k.mood.knows)
  BY <1>1, <1>4 DEF MoodInv, FeelerInv, UnderWay
<1>9. k.mood.at <= stamps
  BY <1>1, <1>4 DEF MoodInv, FeelerInv, UnderWay
<1>10. \A r : Latest(r)' <=> /\ r \in moods \cup {k.mood} /\ k.mood.at <= r.at
                             /\ \A q \in moods : q.at <= r.at
  BY <1>4 DEF Latest
<1>11. \A r \in moods : Latest(r)' => Latest(r)
  BY <1>10 DEF Latest
<1>12. \E r \in moods' : Latest(r)'
  <2>1. CASE \A q \in moods : q.at <= k.mood.at
    BY <1>4, <1>6, <1>10, <2>1
  <2>2. CASE \E q \in moods : ~(q.at <= k.mood.at)
    <3>1. PICK r \in moods : Latest(r)
      BY <2>2 DEF MoodInv
    <3>2. PICK q \in moods : ~(q.at <= k.mood.at)
      BY <2>2
    <3>3. q.at <= r.at /\ q.at \in Int /\ r.at \in Int
      BY <1>6, <3>1, <3>2 DEF Latest
    <3>4. k.mood.at <= r.at
      BY <1>6, <3>2, <3>3
    <3> QED
      BY <1>4, <1>10, <3>1, <3>4 DEF Latest
  <2> QED
    BY <2>1, <2>2
<1>13. /\ Certain' \subseteq Certain \cup {w}
       /\ w \in crossed \/ w \notin MoodTurns => Certain' \subseteq Certain
  BY <1>4 DEF Certain
<1>14. Certain' \subseteq k.mood.knows
  BY <1>8, <1>13
<1>15. ASSUME NEW r \in moods, Latest(r)' PROVE Certain' \subseteq r.knows
  <2>1. Certain \subseteq r.knows
    BY <1>11, <1>15 DEF MoodInv
  <2>2. CASE w \in crossed
    BY <1>13, <2>1, <2>2
  <2>3. CASE w \notin crossed
    <3>1. r.at < k.mood.at
      BY <1>1, <1>4, <2>3 DEF MoodInv, FeelerInv
    <3> QED
      BY <1>6, <1>10, <1>15, <3>1
  <2> QED
    BY <2>2, <2>3
<1>16. ASSUME NEW v \in Feelers PROVE FeelerInv(v)'
  <2>1. CASE v = w
    BY <1>3, <1>5, <2>1 DEF FeelerInv, UnderWay
  <2>2. CASE v # w
    <3>1. UnderWay(v) => v \in crossed /\ w \in crossed
      BY <1>8, <2>2 DEF MoodInv
    <3>2. feeling'[v] = feeling[v] /\ (v \in saved' <=> v \in saved)
      BY <1>4, <1>5, <2>2
    <3>3. UnderWay(v) => Certain' \subseteq Certain
      BY <1>13, <3>1
    <3> QED
      BY <1>4, <3>1, <3>2, <3>3 DEF MoodInv, FeelerInv, UnderWay
  <2> QED
    BY <2>1, <2>2
<1>17. ASSUME NEW u \in Feelers, NEW v \in Feelers, u # v, UnderWay(u)', UnderWay(v)' PROVE u \in crossed'
  BY <1>3, <1>4, <1>5, <1>17 DEF MoodInv, UnderWay
<1>18. \A r \in moods' : r.at <= stamps'
  BY <1>4, <1>9 DEF MoodInv
<1>19. \A r \in moods' : Latest(r)' => Certain' \subseteq r.knows
  BY <1>4, <1>14, <1>15
<1> QED
  BY <1>4, <1>7, <1>12, <1>16, <1>17, <1>18, <1>19 DEF MoodInv

\* A prune keeps the latest row.
LEMMA PrunesMoodsKeeps ==
    ASSUME MoodInv, NEW w \in Feelers, PrunesMoods(w)
    PROVE  MoodInv'
<1>1. PICK k \in Feelings : k = feeling[w]
  BY DEF MoodInv, MoodTypeOK, Feelings
<1>2. PICK m : m = [k EXCEPT !.at = IF w \in MoodTurns THEN "over" ELSE "idle"]
  OBVIOUS
<1>3. m \in Feelings /\ m.at \in {"over", "idle"} /\ (w \in MoodTurns => m.at = "over")
  BY <1>1, <1>2 DEF Feelings, FeelingPlaces
<1>4. /\ moods' = Kept(moods) /\ feeling' = [feeling EXCEPT ![w] = m]
      /\ UNCHANGED <<stamps, saved, crossed>>
  BY <1>1, <1>2 DEF PrunesMoods
<1>5. \A v \in Feelers : feeling'[v] = IF v = w THEN m ELSE feeling[v]
  BY <1>4 DEF MoodInv, MoodTypeOK
<1>6. moods' \subseteq moods
  BY <1>4 DEF Kept
<1>7. MoodTypeOK'
  BY <1>3, <1>4, <1>6 DEF MoodInv, MoodTypeOK, Feelings
<1>8. \A r \in moods : r.at \in Int
  BY DEF MoodInv, MoodTypeOK, MoodRows
<1>9. ASSUME NEW r \in moods, Latest(r) PROVE r \in moods' /\ Latest(r)'
  <2>1. {q \in moods : q.at > r.at} = {}
    BY <1>8, <1>9 DEF Latest
  <2>2. Cardinality({q \in moods : q.at > r.at}) = 0
    BY <2>1, FS_EmptySet
  <2>3. r \in moods'
    BY <1>4, <1>9, <2>2, MoodAssumption DEF Kept
  <2> QED
    BY <1>6, <1>9, <2>3 DEF Latest
<1>10. moods # {} => \E r \in moods' : Latest(r) /\ Latest(r)'
  BY <1>9 DEF MoodInv
<1>11. ASSUME NEW r \in moods', Latest(r)' PROVE Latest(r)
  <2>1. PICK q \in moods' : Latest(q)
    BY <1>6, <1>10, <1>11
  <2>2. q.at <= r.at /\ \A p \in moods : p.at <= q.at
    BY <1>11, <2>1 DEF Latest
  <2> QED
    BY <1>6, <1>8, <1>11, <2>1, <2>2 DEF Latest
<1>12. Certain' = Certain
  BY <1>4 DEF Certain
<1>13. ASSUME NEW v \in Feelers PROVE FeelerInv(v)'
  <2>1. CASE v = w
    <3>1. w \in saved => w \in MoodTurns
      BY DEF MoodInv, MoodTypeOK
    <3> QED
      BY <1>3, <1>4, <1>5, <2>1, <3>1 DEF FeelerInv, UnderWay
  <2>2. CASE v # w
    BY <1>4, <1>5, <1>6, <1>12, <2>2 DEF MoodInv, FeelerInv, UnderWay
  <2> QED
    BY <2>1, <2>2
<1>14. ASSUME NEW u \in Feelers, NEW v \in Feelers, u # v, UnderWay(u)', UnderWay(v)' PROVE u \in crossed'
  BY <1>3, <1>4, <1>5, <1>14 DEF MoodInv, UnderWay
<1>15. moods' = {} => saved' = {}
  BY <1>4, <1>10 DEF MoodInv
<1> QED
  BY <1>4, <1>6, <1>7, <1>10, <1>11, <1>12, <1>13, <1>14, <1>15 DEF MoodInv

LEMMA MoodsDieKeeps ==
    ASSUME MoodInv, MoodsDie
    PROVE  MoodInv'
<1>1. UNCHANGED <<moods, stamps, saved, crossed>>
  BY DEF MoodsDie
<1>2. \A at \in {"over", "idle"} : Feels(at, FirstMood) \in Feelings /\ Feels(at, FirstMood).at = at
  BY MoodAssumption DEF Feels, Feelings, FirstMood, MoodRows, FeelingPlaces
<1>3. \A w \in Feelers : /\ feeling'[w] \in Feelings /\ feeling'[w].at \in {"over", "idle"}
                         /\ w \in MoodTurns /\ feeling[w].at # "idle" => feeling'[w].at = "over"
  BY <1>2 DEF MoodsDie
<1>4. feeling' \in [Feelers -> Feelings]
  BY <1>3 DEF MoodsDie
<1>5. MoodTypeOK'
  BY <1>1, <1>4 DEF MoodInv, MoodTypeOK, Feelings
<1>6. ASSUME NEW w \in Feelers PROVE FeelerInv(w)'
  <2>1. w \in saved => w \in MoodTurns /\ feeling[w].at # "idle"
    BY DEF MoodInv, MoodTypeOK, FeelerInv
  <2> QED
    BY <1>1, <1>3, <2>1 DEF FeelerInv, UnderWay
<1>7. \A r : Latest(r)' <=> Latest(r)
  BY <1>1 DEF Latest
<1> QED
  BY <1>1, <1>3, <1>5, <1>6, <1>7 DEF MoodInv, UnderWay, Certain

LEMMA MoodInvariant == MoodSpec => []MoodInv
<1>1. MoodInv /\ [MoodNext]_moodVars => MoodInv'
  <2> SUFFICES ASSUME MoodInv, [MoodNext]_moodVars PROVE MoodInv'
    OBVIOUS
  <2>1. CASE UNCHANGED moodVars
    <3>1. \A r : Latest(r)' <=> Latest(r)
      BY <2>1 DEF moodVars, Latest
    <3> QED
      BY <2>1, <3>1 DEF MoodInv, MoodTypeOK, FeelerInv, UnderWay, Certain, moodVars
  <2>2. CASE MoodNext
    BY <2>2, LoadsMoodKeeps, TurnFailsKeeps, StampsMoodKeeps, InsertsMoodKeeps, PrunesMoodsKeeps,
       MoodsDieKeeps DEF MoodNext
  <2> QED
    BY <2>1, <2>2
<1> QED
  BY <1>1, MoodInitInv, PTL DEF MoodSpec

\* However turns and the timer overlap and die, the mood loaded next knows of
\* every turn that has saved its mood and was not crossed by another writer.
THEOREM SavedMoodsAreAlwaysRemembered == MoodSpec => []SavedMoodsAreRemembered
<1>1. MoodInv => SavedMoodsAreRemembered
  BY NewestIs DEF SavedMoodsAreRemembered, Certain
<1> QED
  BY <1>1, MoodInvariant, PTL
----------------------------------------------------------------------------
(* How fond the pet is                                                     *)

FondRecords == [does : Purposes, row : AffectionRows]
InHand(c) == fond[c].does # "none"

\* No row is ahead of the day, nor a streak longer than the days there were.
RowTimed(row) ==
    /\ row.talked <= today /\ row.day <= today
    /\ row.streak <= IF row.day = NeverDay THEN 1 ELSE row.day + 1

\* The days in a row up to day d.
DaysUpTo(d) == {e \in talks : e .. d \subseteq talks}

\* What a caller holds is the row, but for the days that have worn it off.
WornOff(row) ==
    /\ row.talked = affection.talked /\ row.day = affection.day /\ row.streak = affection.streak
    /\ row.value <= affection.value
    /\ row.value < affection.value => today - affection.talked >= 3

RowFollows ==
    /\ talks = {} => affection.day = NeverDay /\ affection.talked = 0
    /\ talks # {} => /\ affection.talked \in talks /\ affection.day = affection.talked
                     /\ \A e \in talks : e <= affection.talked
                     /\ affection.streak = Cardinality(DaysUpTo(affection.talked))

FondInv ==
    /\ today \in 0 .. MaxDays /\ affection \in AffectionRows /\ fond \in [Fonds -> FondRecords]
    /\ mixed \in BOOLEAN /\ talks \subseteq 0 .. today
    /\ RowTimed(affection) /\ \A c \in Fonds : RowTimed(fond[c].row)
    /\ ~mixed => /\ RowFollows
                 /\ \A c \in Fonds : InHand(c) => WornOff(fond[c].row)
                 /\ \A c, d \in Fonds : InHand(c) /\ InHand(d) => c = d

\* Wearing off changes the value only, and only after three days.
LEMMA DecayedIs ==
    ASSUME NEW row \in AffectionRows, today \in 0 .. MaxDays
    PROVE  /\ Decayed(row) \in AffectionRows /\ Decayed(row).talked = row.talked
           /\ Decayed(row).day = row.day /\ Decayed(row).streak = row.streak
           /\ Decayed(row).value <= row.value
           /\ Decayed(row).value < row.value => today - row.talked >= 3
<1>1. row.value \in 0 .. Top /\ row.talked \in 0 .. MaxDays /\ Top \in Nat /\ MaxDays \in Nat
  BY AffectionAssumption DEF AffectionRows
<1>2. CASE today - row.talked < 3
  <2>1. Decayed(row) = row
    BY <1>2 DEF Decayed
  <2> QED
    BY <1>1, <2>1
<1>3. CASE ~(today - row.talked < 3)
  <2>1. PICK v : v = Clamped(row.value - (today - row.talked - 2))
    OBVIOUS
  <2>2. v \in 0 .. Top /\ v <= row.value
    BY <1>1, <1>3, <2>1 DEF Clamped
  <2>3. Decayed(row) = [row EXCEPT !.value = v]
    BY <1>3, <2>1 DEF Decayed
  <2>4. today - row.talked >= 3
    BY <1>1, <1>3
  <2> QED
    BY <2>2, <2>3, <2>4 DEF AffectionRows
<1> QED
  BY <1>2, <1>3

LEMMA FirstIs ==
    /\ FirstRow \in AffectionRows /\ FirstRow.talked = 0 /\ FirstRow.day = NeverDay
    /\ FirstRow.streak = 1 /\ Fondness("none", FirstRow) \in FondRecords
    /\ Fondness("none", FirstRow).does = "none" /\ Fondness("none", FirstRow).row = FirstRow
<1>1. FirstRow \in AffectionRows
  BY AffectionAssumption DEF FirstRow, AffectionRows
<1> QED
  BY <1>1 DEF FirstRow, Fondness, FondRecords, Purposes

LEMMA FondInitInv == AffectionInit => FondInv
<1> SUFFICES ASSUME AffectionInit PROVE FondInv
  OBVIOUS
<1>1. today \in 0 .. MaxDays
  BY AffectionAssumption DEF AffectionInit
<1>2. RowTimed(FirstRow)
  BY FirstIs DEF RowTimed, AffectionInit, NeverDay
<1> QED
  BY <1>1, <1>2, FirstIs DEF AffectionInit, FondInv, RowFollows, InHand

LEMMA LoadsAffectionKeeps ==
    ASSUME FondInv, NEW c \in Fonds, NEW p \in Purposes, LoadsAffection(c, p)
    PROVE  FondInv'
<1>1. PICK r \in AffectionRows :
         /\ r = Decayed(affection) /\ r.talked = affection.talked /\ r.day = affection.day
         /\ r.streak = affection.streak /\ r.value <= affection.value
         /\ r.value < affection.value => today - affection.talked >= 3
  BY DecayedIs DEF FondInv
<1>2. PICK m : m = Fondness(p, r)
  OBVIOUS
<1>3. m \in FondRecords /\ m.does = p /\ m.row = r
  BY <1>2 DEF Fondness, FondRecords
<1>4. /\ fond' = [fond EXCEPT ![c] = m] /\ UNCHANGED <<today, affection, talks>>
      /\ mixed' = (mixed \/ \E d \in Fonds : fond[d].does # "none")
  BY <1>1, <1>2 DEF LoadsAffection
<1>5. \A d \in Fonds : fond'[d] = IF d = c THEN m ELSE fond[d]
  BY <1>4 DEF FondInv
<1>6. ~mixed' => ~mixed /\ \A d \in Fonds : ~InHand(d)
  BY <1>4 DEF InHand
<1>7. RowTimed(r) /\ WornOff(r)
  BY <1>1 DEF FondInv, RowTimed, WornOff
<1>8. \A row : (RowTimed(row) => RowTimed(row)') /\ (WornOff(row) => WornOff(row)')
  BY <1>4 DEF RowTimed, WornOff
<1>9. RowTimed(affection)' /\ \A d \in Fonds : RowTimed(fond[d].row)'
  <2>1. RowTimed(affection)'
    BY <1>4 DEF FondInv, RowTimed
  <2>2. ASSUME NEW d \in Fonds PROVE RowTimed(fond[d].row)'
    BY <1>3, <1>4, <1>5, <1>7 DEF FondInv, RowTimed
  <2> QED
    BY <2>1, <2>2
<1>10. ~mixed' => /\ RowFollows' /\ \A d \in Fonds : InHand(d)' => d = c
                  /\ WornOff(fond[c].row)'
  <2>1. ~mixed' => RowFollows'
    BY <1>4, <1>6 DEF FondInv, RowFollows, DaysUpTo
  <2>2. ~mixed' => \A d \in Fonds : InHand(d)' => d = c
    BY <1>5, <1>6 DEF InHand
  <2>3. WornOff(fond[c].row)'
    BY <1>3, <1>4, <1>5, <1>7 DEF WornOff
  <2> QED
    BY <2>1, <2>2, <2>3
<1>11. mixed' \in BOOLEAN /\ fond' \in [Fonds -> FondRecords]
  BY <1>3, <1>4 DEF FondInv
<1> QED
  BY <1>4, <1>9, <1>10, <1>11 DEF FondInv

\* A talk today lengthens the days in a row, or they begin anew.
LEMMA StreakIs ==
    ASSUME FondInv, ~mixed
    PROVE  StreakAfter(affection)
               = Cardinality({e \in talks \cup {today} : e .. today \subseteq talks \cup {today}})
<1>1. /\ today \in Nat /\ talks \subseteq 0 .. today /\ \A e \in talks : e \in Int
      /\ affection.day \in Int /\ affection.talked \in Int
  <2>1. affection.day \in {NeverDay} \cup 0 .. MaxDays /\ affection.talked \in 0 .. MaxDays
    BY DEF FondInv, AffectionRows
  <2> QED
    BY <2>1 DEF FondInv, NeverDay
<1>2. PICK longer :
         longer = {e \in talks \cup {today} : e .. today \subseteq talks \cup {today}}
  OBVIOUS
<1>3. CASE affection.day = today
  <2>1. talks # {}
    BY <1>1, <1>3 DEF FondInv, RowFollows, NeverDay
  <2>2. today \in talks /\ affection.talked = today
    BY <1>3, <2>1 DEF FondInv, RowFollows
  <2>3. longer = DaysUpTo(today)
    <3>1. talks \cup {today} = talks
      BY <2>2
    <3> QED
      BY <1>2, <3>1 DEF DaysUpTo
  <2> QED
    BY <1>2, <1>3, <2>1, <2>2, <2>3 DEF FondInv, RowFollows, StreakAfter
<1>4. CASE affection.day # today /\ affection.day + 1 = today
  <2>1. talks # {}
    BY <1>1, <1>4 DEF FondInv, RowFollows, NeverDay
  <2>2. PICK l \in talks : l = affection.talked /\ l = affection.day /\ \A e \in talks : e <= l
    BY <2>1 DEF FondInv, RowFollows
  <2>3. today = l + 1 /\ l \in Int
    BY <1>1, <1>4, <2>2
  <2>4. today \notin talks /\ \A e \in talks : e .. today = (e .. l) \cup {today}
    BY <1>1, <2>2, <2>3
  <2>5. today \notin DaysUpTo(l) /\ longer = DaysUpTo(l) \cup {today}
    <3>1. today .. today = {today}
      BY <1>1
    <3>2. ASSUME NEW e \in talks
          PROVE  e .. today \subseteq talks \cup {today} <=> e .. l \subseteq talks
      <4>1. \A i \in e .. l : i # today
        BY <1>1, <2>3
      <4> QED
        BY <2>4, <4>1
    <3> QED
      BY <1>2, <2>4, <3>1, <3>2 DEF DaysUpTo
  <2>6. IsFiniteSet(DaysUpTo(l))
    <3>1. IsFiniteSet(0 .. today)
      BY <1>1, FS_Interval
    <3>2. DaysUpTo(l) \subseteq 0 .. today
      BY <1>1 DEF DaysUpTo
    <3> QED
      BY <3>1, <3>2, FS_Subset
  <2>7. Cardinality(longer) = Cardinality(DaysUpTo(l)) + 1
    BY <2>5, <2>6, FS_AddElement
  <2> QED
    BY <1>2, <1>4, <2>1, <2>2, <2>7 DEF FondInv, RowFollows, StreakAfter
<1>5. CASE affection.day # today /\ affection.day + 1 # today
  <2>1. \A e \in talks : e < today - 1
    <3> SUFFICES ASSUME NEW e \in talks PROVE e < today - 1
      OBVIOUS
    <3>1. e <= affection.day /\ affection.day <= today
      BY DEF FondInv, RowFollows, RowTimed
    <3> QED
      BY <1>1, <1>5, <3>1
  <2>2. ASSUME NEW e \in talks PROVE ~(e .. today \subseteq talks \cup {today})
    <3>1. today - 1 \in e .. today /\ today - 1 # today /\ ~(today - 1 < today - 1)
      BY <1>1, <2>1
    <3>2. today - 1 \notin talks
      BY <2>1, <3>1
    <3> QED
      BY <3>1, <3>2
  <2>3. today .. today = {today}
    BY <1>1
  <2>4. longer = {today}
    BY <1>2, <2>2, <2>3
  <2>5. Cardinality({today}) = 1
    BY FS_Singleton
  <2> QED
    BY <1>2, <1>5, <2>4, <2>5 DEF StreakAfter
<1> QED
  BY <1>3, <1>4, <1>5

LEMMA ClampedIs ==
    ASSUME NEW v \in Int
    PROVE  Clamped(v) \in 0 .. Top /\ (v <= Top => v <= Clamped(v))
BY AffectionAssumption DEF Clamped

\* What a caller saves, and when it is less than there was.
LEMMA ChangedIs ==
    ASSUME FondInv, NEW c \in Fonds, InHand(c)
    PROVE  /\ Changed(c) \in AffectionRows /\ RowTimed(Changed(c))
           /\ fond[c].does = "interaction" =>
                 /\ Changed(c).talked = today /\ Changed(c).day = today
                 /\ Changed(c).streak = StreakAfter(fond[c].row)
           /\ fond[c].does # "interaction" =>
                 /\ Changed(c).talked = fond[c].row.talked /\ Changed(c).day = fond[c].row.day
                 /\ Changed(c).streak = fond[c].row.streak
           /\ Changed(c).value < fond[c].row.value =>
                 fond[c].does = "subtract" \/ today - fond[c].row.talked >= 3
<1>1. PICK k \in FondRecords : k = fond[c]
  BY DEF FondInv
<1>2. PICK r \in AffectionRows : r = k.row
  BY DEF FondRecords
<1>3. /\ r.value \in 0 .. Top /\ r.talked \in 0 .. MaxDays /\ r.streak \in 0 .. MaxDays + 1
      /\ r.day \in {NeverDay} \cup 0 .. MaxDays /\ RowTimed(r)
      /\ today \in 0 .. MaxDays /\ Top \in Nat /\ MaxDays \in Nat
  BY <1>1, <1>2, AffectionAssumption DEF AffectionRows, FondInv
<1>4. k.does \in {"interaction", "add", "subtract", "decay"}
  BY <1>1 DEF InHand, FondRecords, Purposes
<1>5. CASE k.does = "interaction"
  <2>1. PICK s : s = StreakAfter(r)
    OBVIOUS
  <2>2. s \in 0 .. MaxDays + 1 /\ s <= today + 1
    <3>1. CASE r.day = NeverDay
      BY <1>3, <2>1, <3>1 DEF StreakAfter, RowTimed, NeverDay
    <3>2. CASE r.day # NeverDay
      BY <1>3, <2>1, <3>2 DEF StreakAfter, RowTimed
    <3> QED
      BY <3>1, <3>2
  <2>3. PICK v \in 0 .. Top : v = Clamped(r.value + 1) /\ r.value <= v
    <3>1. r.value + 1 \in Int /\ Clamped(r.value + 1) \in 0 .. Top
      BY <1>3, ClampedIs
    <3>2. r.value <= Clamped(r.value + 1)
      BY <1>3 DEF Clamped
    <3> QED
      BY <3>1, <3>2
  <2>4. PICK m : m = [value |-> v, talked |-> today, day |-> today, streak |-> s]
    OBVIOUS
  <2>5. Changed(c) = m
    BY <1>1, <1>2, <1>5, <2>1, <2>3, <2>4 DEF Changed, Recorded
  <2>6. m \in AffectionRows
    BY <1>3, <2>2, <2>4 DEF AffectionRows
  <2>7. RowTimed(m)
    BY <1>3, <2>2, <2>4 DEF RowTimed, NeverDay
  <2> QED
    BY <1>1, <1>2, <1>3, <1>5, <2>1, <2>3, <2>4, <2>5, <2>6, <2>7
<1>6. CASE k.does = "add"
  <2>1. PICK v \in 0 .. Top : v = Clamped(r.value + 1) /\ r.value <= v
    <3>1. r.value + 1 \in Int /\ Clamped(r.value + 1) \in 0 .. Top
      BY <1>3, ClampedIs
    <3>2. r.value <= Clamped(r.value + 1)
      BY <1>3 DEF Clamped
    <3> QED
      BY <3>1, <3>2
  <2>2. PICK m : m = [r EXCEPT !.value = v]
    OBVIOUS
  <2>3. Changed(c) = m
    BY <1>1, <1>2, <1>6, <2>1, <2>2 DEF Changed
  <2>4. m \in AffectionRows /\ m.talked = r.talked /\ m.day = r.day /\ m.streak = r.streak
        /\ m.value = v
    BY <2>2 DEF AffectionRows
  <2>5. RowTimed(m)
    BY <1>3, <2>4 DEF RowTimed
  <2> QED
    BY <1>1, <1>2, <1>3, <1>6, <2>1, <2>3, <2>4, <2>5
<1>7. CASE k.does = "subtract"
  <2>1. PICK v \in 0 .. Top : v = Clamped(r.value - 1)
    BY <1>3, ClampedIs
  <2>2. PICK m : m = [r EXCEPT !.value = v]
    OBVIOUS
  <2>3. Changed(c) = m
    BY <1>1, <1>2, <1>7, <2>1, <2>2 DEF Changed
  <2>4. m \in AffectionRows /\ m.talked = r.talked /\ m.day = r.day /\ m.streak = r.streak
    BY <2>2 DEF AffectionRows
  <2>5. RowTimed(m)
    BY <1>3, <2>4 DEF RowTimed
  <2> QED
    BY <1>1, <1>2, <1>7, <2>3, <2>4, <2>5
<1>8. CASE k.does = "decay"
  <2>1. PICK m \in AffectionRows :
           /\ m = Decayed(r) /\ m.talked = r.talked /\ m.day = r.day /\ m.streak = r.streak
           /\ m.value < r.value => today - r.talked >= 3
    BY <1>3, DecayedIs
  <2>2. Changed(c) = m
    BY <1>1, <1>2, <1>8, <2>1 DEF Changed
  <2>3. RowTimed(m)
    BY <1>3, <2>1 DEF RowTimed
  <2> QED
    BY <1>1, <1>2, <1>8, <2>1, <2>2, <2>3
<1> QED
  BY <1>4, <1>5, <1>6, <1>7, <1>8

LEMMA SavesAffectionKeeps ==
    ASSUME FondInv, NEW c \in Fonds, SavesAffection(c)
    PROVE  FondInv'
<1>1. InHand(c)
  BY DEF SavesAffection, InHand
<1>2. PICK m \in AffectionRows : m = Changed(c) /\ RowTimed(m)
  BY <1>1, ChangedIs
<1>3. PICK n : n = Fondness("none", FirstRow)
  OBVIOUS
<1>4. /\ affection' = m /\ fond' = [fond EXCEPT ![c] = n] /\ UNCHANGED <<today, mixed>>
      /\ talks' = IF fond[c].does = "interaction" THEN talks \cup {today} ELSE talks
  BY <1>2, <1>3 DEF SavesAffection
<1>5. n \in FondRecords /\ n.does = "none" /\ n.row = FirstRow
  BY <1>3, FirstIs
<1>6. \A d \in Fonds : fond'[d] = IF d = c THEN n ELSE fond[d]
  BY <1>4 DEF FondInv
<1>7. RowTimed(FirstRow) /\ today \in Nat /\ talks \subseteq 0 .. today
  BY FirstIs DEF RowTimed, FondInv, NeverDay
<1>8. RowTimed(affection)' /\ \A d \in Fonds : RowTimed(fond[d].row)'
  <2>1. RowTimed(affection)'
    BY <1>2, <1>4 DEF RowTimed
  <2>2. ASSUME NEW d \in Fonds PROVE RowTimed(fond[d].row)'
    BY <1>4, <1>5, <1>6, <1>7 DEF FondInv, RowTimed
  <2> QED
    BY <2>1, <2>2
<1>9. talks' \subseteq 0 .. today'
  BY <1>4, <1>7
<1>10. ~mixed => \A d \in Fonds : ~InHand(d)'
  BY <1>1, <1>5, <1>6 DEF FondInv, InHand
<1>11. ASSUME ~mixed PROVE RowFollows'
  <2>1. WornOff(fond[c].row) /\ RowFollows
    BY <1>1, <1>11 DEF FondInv
  <2>2. CASE fond[c].does = "interaction"
    <3>1. m.talked = today /\ m.day = today /\ m.streak = StreakAfter(fond[c].row)
      BY <1>1, <1>2, <2>2, ChangedIs
    <3>2. StreakAfter(fond[c].row) = StreakAfter(affection)
      BY <2>1 DEF WornOff, StreakAfter
    <3>3. talks' = talks \cup {today}
      BY <1>4, <2>2
    <3>4. m.streak =
             Cardinality({e \in talks \cup {today} : e .. today \subseteq talks \cup {today}})
      BY <1>11, <3>1, <3>2, StreakIs
    <3>5. DaysUpTo(affection.talked)'
              = {e \in talks \cup {today} : e .. today \subseteq talks \cup {today}}
      BY <1>4, <3>1, <3>3 DEF DaysUpTo
    <3>6. \A e \in talks' : e <= today
      BY <1>7, <3>3
    <3> QED
      BY <1>4, <3>1, <3>3, <3>4, <3>5, <3>6 DEF RowFollows
  <2>3. CASE fond[c].does # "interaction"
    <3>1. /\ m.talked = affection.talked /\ m.day = affection.day
          /\ m.streak = affection.streak
      BY <1>1, <1>2, <2>1, <2>3, ChangedIs DEF WornOff
    <3>2. talks' = talks
      BY <1>4, <2>3
    <3>3. DaysUpTo(affection.talked)' = DaysUpTo(affection.talked)
      BY <1>4, <3>1, <3>2 DEF DaysUpTo
    <3> QED
      BY <1>4, <2>1, <3>1, <3>2, <3>3 DEF RowFollows
  <2> QED
    BY <2>2, <2>3
<1>12. fond' \in [Fonds -> FondRecords]
  BY <1>4, <1>5 DEF FondInv
<1> QED
  BY <1>2, <1>4, <1>8, <1>9, <1>10, <1>11, <1>12 DEF FondInv

LEMMA DayPassesKeeps ==
    ASSUME FondInv, DayPasses
    PROVE  FondInv'
<1>1. today' = today + 1 /\ today' \in 0 .. MaxDays /\ today \in Nat
  BY AffectionAssumption DEF DayPasses, FondInv
<1>2. UNCHANGED <<affection, fond, talks, mixed>>
  BY DEF DayPasses
<1>3. talks' \subseteq 0 .. today'
  BY <1>1, <1>2 DEF FondInv
<1>4. ASSUME NEW row \in AffectionRows
      PROVE  /\ RowTimed(row) => row.talked <= today' /\ row.day <= today'
             /\ today - row.talked >= 3 => today' - row.talked >= 3
  BY <1>1 DEF AffectionRows, RowTimed, NeverDay
<1>5. RowTimed(affection)'
  BY <1>2, <1>4 DEF FondInv, RowTimed
<1>6. ASSUME NEW c \in Fonds PROVE RowTimed(fond[c].row)'
  BY <1>2, <1>4 DEF FondInv, RowTimed, FondRecords
<1>7. ASSUME ~mixed, NEW c \in Fonds, InHand(c) PROVE WornOff(fond[c].row)'
  BY <1>2, <1>4, <1>7 DEF FondInv, WornOff
<1>8. RowFollows => RowFollows'
  BY <1>2 DEF RowFollows, DaysUpTo
<1> QED
  BY <1>1, <1>2, <1>3, <1>5, <1>6, <1>7, <1>8 DEF FondInv, InHand

LEMMA FondInvariant == AffectionSpec => []FondInv
<1>1. FondInv /\ [AffectionNext]_affectionVars => FondInv'
  <2> SUFFICES ASSUME FondInv, [AffectionNext]_affectionVars PROVE FondInv'
    OBVIOUS
  <2>1. CASE UNCHANGED affectionVars
    BY <2>1 DEF FondInv, RowTimed, RowFollows, WornOff, InHand, DaysUpTo, affectionVars
  <2>2. CASE AffectionNext
    BY <2>2, LoadsAffectionKeeps, SavesAffectionKeeps, DayPassesKeeps DEF AffectionNext
  <2> QED
    BY <2>1, <2>2
<1> QED
  BY <1>1, FondInitInv, PTL DEF AffectionSpec

\* The day of the last talk is the row's.
LEMMA LastTalkIs ==
    ASSUME FondInv, ~mixed
    PROVE  LastTalk = affection.talked
<1>1. CASE talks = {}
  BY <1>1 DEF FondInv, RowFollows, LastTalk
<1>2. CASE talks # {}
  <2>1. \A e \in talks : e \in Int
    BY DEF FondInv
  <2>2. affection.talked \in talks /\ \A e \in talks : e <= affection.talked
    BY <1>2 DEF FondInv, RowFollows
  <2>3. LastTalk \in talks /\ \A e \in talks : e <= LastTalk
    BY <1>2, <2>2 DEF LastTalk
  <2>4. LastTalk \in Int /\ affection.talked \in Int
    BY <2>1, <2>2, <2>3
  <2>5. LastTalk <= affection.talked /\ affection.talked <= LastTalk
    BY <2>2, <2>3
  <2> QED
    BY <2>4, <2>5
<1> QED
  BY <1>1, <1>2

\* However many days pass: while no two callers hold the row at once, the pet
\* grows less fond only after three days without a talk or when it is told to,
\* and the streak is the number of days in a row up to the last talk.
THEOREM FondnessAlwaysFollowsTheDays == AffectionSpec => FondnessFollowsTheDays
<1>1. FondInv /\ [AffectionNext]_affectionVars =>
         [affection'.value < affection.value =>
              \/ mixed \/ today - LastTalk >= 3
              \/ \E c \in Fonds : fond[c].does = "subtract"]_affectionVars
  <2> SUFFICES ASSUME FondInv, AffectionNext, affection'.value < affection.value, ~mixed,
                      \A c \in Fonds : fond[c].does # "subtract"
               PROVE  today - LastTalk >= 3
    BY DEF affectionVars
  <2>1. affection.value \in Int
    BY DEF FondInv, AffectionRows
  <2>2. affection' # affection
    BY <2>1
  <2>3. PICK c \in Fonds : SavesAffection(c)
    BY <2>2 DEF AffectionNext, LoadsAffection, DayPasses
  <2>4. InHand(c) /\ affection' = Changed(c)
    BY <2>3 DEF SavesAffection, InHand
  <2>5. PICK r \in AffectionRows : r = fond[c].row /\ WornOff(r)
    BY <2>4 DEF FondInv, FondRecords
  <2>6. affection'.value \in Int /\ r.value \in Int
    BY <2>4, <2>5, ChangedIs DEF AffectionRows
  <2>7. affection'.value < r.value => today - affection.talked >= 3
    BY <2>4, <2>5, ChangedIs DEF WornOff
  <2>8. r.value < affection.value => today - affection.talked >= 3
    BY <2>5 DEF WornOff
  <2>9. today - affection.talked >= 3
    BY <2>1, <2>5, <2>6, <2>7, <2>8 DEF WornOff
  <2> QED
    BY <2>9, LastTalkIs
<1>2. FondInv => mixed \/ talks = {} \/
                 affection.streak = Cardinality({d \in talks : d .. LastTalk \subseteq talks})
  BY LastTalkIs DEF FondInv, RowFollows, DaysUpTo
<1> QED
  BY <1>1, <1>2, FondInvariant, PTL DEF AffectionSpec, FondnessFollowsTheDays
\* Whatever dresses the pet, talks to it or lets it be: what the user chose and
\* what it lived through is lost only where two writers overlapped.
THEOREM PetAlwaysStaysItself == PetSpec => PetStaysItself
BY PetAlwaysKeepsChoices, SavedMoodsAreAlwaysRemembered, FondnessAlwaysFollowsTheDays, PTL
   DEF PetSpec, PetStaysItself

----------------------------------------------------------------------------
(* Panels that list work                                                   *)

PanelReadings == [had : SUBSET WorkStatuses, late : BOOLEAN, own : BOOLEAN]

\* A refresh that will show the row as it is, and not be counted as late.
FreshRead(i) == reading[i].had = {workRow} /\ ~reading[i].late

\* A refresh that is late has no earlier one that is not.
LateInOrder == \A i, j \in DOMAIN reading : j < i /\ reading[i].late => reading[j].late

\* Whatever a refresh shows, a fresh one comes after it.
FreshReadFollows ==
    \A i \in DOMAIN reading :
        reading[i].late \/ FreshRead(i) \/ \E j \in DOMAIN reading : j > i /\ FreshRead(j)

\* Unless an event is to come, the panel is as the row is, will be, or is
\* known to be behind.
PanelsInv ==
    /\ PanelsTypeOK
    /\ LateInOrder
    /\ wrote \/ noticed \/ panel = "closed" \/
          /\ behind \/ listed = workRow \/ \E i \in DOMAIN reading : FreshRead(i)
          /\ FreshReadFollows

LEMMA PanelsInitInv == PanelsInit => PanelsInv
<1> SUFFICES ASSUME PanelsInit PROVE PanelsInv
  OBVIOUS
<1>1. reading = <<>> /\ Len(reading) = 0 /\ DOMAIN reading = {} /\ panel = "closed"
  BY DEF PanelsInit
<1>2. <<>> \in Seq([had : SUBSET WorkStatuses, late : BOOLEAN, own : BOOLEAN])
  OBVIOUS
<1>3. PanelsTypeOK
  <2>1. /\ wrote \in BOOLEAN /\ noticed \in BOOLEAN /\ listening \in BOOLEAN
        /\ watcherRuns \in BOOLEAN /\ behind \in BOOLEAN
    BY DEF PanelsInit
  <2>2. Len(reading) <= MaxReads
    BY <1>1, PanelsAssumption
  <2> QED
    BY <1>1, <1>2, <2>1, <2>2 DEF PanelsInit, PanelsTypeOK, PanelKinds, WorkStatuses
<1> QED
  BY <1>1, <1>3 DEF PanelsInv, LateInOrder

\* A refresh that leaves now is fresh and the last.
LEMMA RefreshIsFresh ==
    ASSUME NEW others \in Seq(PanelReadings), NEW own \in BOOLEAN, workRow' \in WorkStatuses,
           \A i, j \in DOMAIN others : j < i /\ others[i].late => others[j].late,
           PanelRefreshes(others, own)
    PROVE  /\ reading' \in Seq(PanelReadings) /\ Len(reading') <= MaxReads
           /\ LateInOrder' /\ FreshReadFollows'
           /\ \E i \in DOMAIN reading' : FreshRead(i)'
<1> DEFINE next == PanelReading({workRow'}, FALSE, own)
           n == Len(others)
<1>1. next \in PanelReadings /\ next.had = {workRow'} /\ ~next.late
  BY DEF PanelReading, PanelReadings
<1>2. reading' = Append(others, next) /\ n < MaxReads /\ n \in Nat
  BY DEF PanelRefreshes
<1> HIDE DEF next
<1>3. /\ reading' \in Seq(PanelReadings) /\ Len(reading') = n + 1
      /\ \A i \in 1 .. n : reading'[i] = others[i]
      /\ reading'[n + 1] = next
  BY <1>1, <1>2
<1>4. DOMAIN reading' = 1 .. (n + 1) /\ DOMAIN others = 1 .. n
  BY <1>3
<1>5. FreshRead(n + 1)'
  BY <1>1, <1>3 DEF FreshRead
<1>6. Len(reading') <= MaxReads
  BY <1>2, <1>3, PanelsAssumption
<1>7. LateInOrder'
  <2> SUFFICES ASSUME NEW i \in DOMAIN reading', NEW j \in DOMAIN reading', j < i, reading'[i].late
               PROVE  reading'[j].late
    BY DEF LateInOrder
  <2>1. i \in 1 .. n /\ j \in 1 .. n
    BY <1>1, <1>2, <1>3, <1>4
  <2> QED
    BY <2>1, <1>3, <1>4
<1>8. FreshReadFollows'
  <2> SUFFICES ASSUME NEW i \in DOMAIN reading'
               PROVE  FreshRead(i)' \/ \E j \in DOMAIN reading' : j > i /\ FreshRead(j)'
    BY DEF FreshReadFollows
  <2> QED
    BY <1>2, <1>4, <1>5
<1> QED
  BY <1>2, <1>3, <1>4, <1>5, <1>6, <1>7, <1>8

\* A refresh that ends makes those before it late and leaves those after it.
LEMMA ReadEndsKeeps ==
    ASSUME PanelsInv, NEW i \in DOMAIN reading, ReadEnds(i)
    PROVE  /\ reading' \in Seq(PanelReadings) /\ Len(reading') <= MaxReads
           /\ Len(reading') = Len(reading) - 1 /\ DOMAIN reading' = 1 .. (Len(reading) - 1)
           /\ \A k \in DOMAIN reading' :
                 /\ k < i => reading'[k].late
                 /\ k >= i => reading'[k] = reading[k + 1]
<1> DEFINE n == Len(reading)
           before == SubSeq(reading, 1, i - 1)
           after == SubSeq(reading, i + 1, n)
           Late(r) == [r EXCEPT !.late = TRUE]
<1>1. reading \in Seq(PanelReadings) /\ n \in Nat /\ n <= MaxReads /\ DOMAIN reading = 1 .. n
  BY DEF PanelsInv, PanelsTypeOK, PanelReadings
<1>2. /\ before \in Seq(PanelReadings) /\ Len(before) = i - 1
      /\ \A k \in 1 .. (i - 1) : before[k] = reading[k]
  BY <1>1
<1>3. /\ after \in Seq(PanelReadings) /\ Len(after) = n - i
      /\ \A k \in 1 .. (n - i) : after[k] = reading[k + i]
  BY <1>1
<1>4. reading' = AllLate(before) \o after
  BY DEF ReadEnds
<1> HIDE DEF before, after
<1>5. ASSUME NEW r \in PanelReadings
      PROVE  Late(r) \in PanelReadings /\ Late(r).late
  BY DEF PanelReadings
<1>6. /\ AllLate(before) \in Seq(PanelReadings) /\ Len(AllLate(before)) = i - 1
      /\ \A k \in 1 .. (i - 1) : AllLate(before)[k].late
  <2>1. DOMAIN before = 1 .. (i - 1) /\ i - 1 \in Nat
    BY <1>1, <1>2
  <2>2. \A k \in 1 .. (i - 1) : before[k] \in PanelReadings
    BY <1>2, <2>1
  <2>3. AllLate(before) = [k \in 1 .. (i - 1) |-> Late(before[k])]
    BY <2>1 DEF AllLate
  <2> HIDE DEF Late
  <2> QED
    BY <2>1, <2>2, <2>3, <1>5
<1> DEFINE lates == AllLate(before)
<1> HIDE DEF lates
<1>7. /\ reading' \in Seq(PanelReadings) /\ Len(reading') = n - 1
      /\ \A k \in 1 .. (n - 1) : reading'[k] = IF k <= i - 1 THEN lates[k] ELSE after[k - (i - 1)]
  <2>1. lates \in Seq(PanelReadings) /\ Len(lates) = i - 1
    BY <1>6 DEF lates
  <2>2. reading' = lates \o after
    BY <1>4 DEF lates
  <2>3. Len(lates) + Len(after) = n - 1 /\ i \in 1 .. n
    BY <2>1, <1>1, <1>3
  <2>4. lates \o after \in Seq(PanelReadings) /\ Len(lates \o after) = n - 1
    BY <2>1, <2>3, <1>3
  <2>5. ASSUME NEW k \in 1 .. (n - 1)
        PROVE  (lates \o after)[k] = IF k <= Len(lates) THEN lates[k] ELSE after[k - Len(lates)]
    <3>1. k \in 1 .. (Len(lates) + Len(after))
      BY <2>3
    <3> HIDE DEF after
    <3> QED
      BY <2>1, <3>1, <1>3
  <2> QED
    BY <2>1, <2>2, <2>4, <2>5
<1>8. DOMAIN reading' = 1 .. (n - 1)
  BY <1>7
<1>9. ASSUME NEW k \in DOMAIN reading'
      PROVE  (k < i => reading'[k].late) /\ (k >= i => reading'[k] = reading[k + 1])
  <2>1. k \in 1 .. (n - 1) /\ i \in 1 .. n
    BY <1>1, <1>8
  <2>2. CASE k < i
    BY <2>1, <2>2, <1>6, <1>7 DEF lates
  <2>3. CASE k >= i
    <3>1. k - (i - 1) \in 1 .. (n - i) /\ k - (i - 1) + i = k + 1 /\ ~(k <= i - 1)
      BY <2>1, <2>3
    <3>2. reading'[k] = after[k - (i - 1)]
      BY <2>1, <3>1, <1>7
    <3> QED
      BY <2>1, <2>3, <3>1, <3>2, <1>3
  <2> QED
    BY <2>1, <2>2, <2>3
<1> QED
  BY <1>1, <1>7, <1>8, <1>9, PanelsAssumption

\* What stays in flight keeps its order, and a fresh refresh after i is still there.
LEMMA ReadEndsOrder ==
    ASSUME PanelsInv, NEW i \in DOMAIN reading, ReadEnds(i), workRow' = workRow
    PROVE  /\ LateInOrder'
           /\ FreshReadFollows => FreshReadFollows'
           /\ (\E j \in DOMAIN reading : j > i /\ FreshRead(j)) =>
                 \E j \in DOMAIN reading' : FreshRead(j)'
<1> DEFINE n == Len(reading)
<1>1. /\ n \in Nat /\ DOMAIN reading = 1 .. n /\ i \in 1 .. n /\ DOMAIN reading' = 1 .. (n - 1)
      /\ \A k \in DOMAIN reading' :
            /\ k < i => reading'[k].late
            /\ k >= i => reading'[k] = reading[k + 1]
  BY ReadEndsKeeps DEF PanelsInv, PanelsTypeOK
<1>2. ASSUME NEW j \in DOMAIN reading, j > i, FreshRead(j)
      PROVE  j - 1 \in DOMAIN reading' /\ FreshRead(j - 1)'
  <2>1. j - 1 \in DOMAIN reading' /\ j - 1 >= i /\ (j - 1) + 1 = j
    BY <1>1, <1>2
  <2>2. reading'[j - 1] = reading[j]
    BY <2>1, <1>1
  <2> QED
    BY <2>1, <2>2, <1>2 DEF FreshRead
<1>3. LateInOrder'
  <2> SUFFICES ASSUME NEW k \in DOMAIN reading', NEW j \in DOMAIN reading', j < k, reading'[k].late
               PROVE  reading'[j].late
    BY DEF LateInOrder
  <2>1. CASE j < i
    BY <2>1, <1>1
  <2>2. CASE j >= i
    <3>1. /\ k + 1 \in DOMAIN reading /\ j + 1 \in DOMAIN reading /\ j + 1 < k + 1
          /\ reading'[k] = reading[k + 1] /\ reading'[j] = reading[j + 1]
      BY <2>2, <1>1
    <3> QED
      BY <3>1 DEF PanelsInv, LateInOrder
  <2> QED
    BY <2>1, <2>2, <1>1
<1>4. ASSUME FreshReadFollows, NEW k \in DOMAIN reading', ~reading'[k].late
      PROVE  FreshRead(k)' \/ \E j \in DOMAIN reading' : j > k /\ FreshRead(j)'
  <2>1. /\ k >= i /\ k + 1 \in DOMAIN reading /\ reading'[k] = reading[k + 1] /\ k \in 1 .. n
    BY <1>1, <1>4
  <2>2. CASE FreshRead(k + 1)
    BY <2>1, <2>2 DEF FreshRead
  <2>3. ASSUME NEW j \in DOMAIN reading, j > k + 1, FreshRead(j)
        PROVE  \E h \in DOMAIN reading' : h > k /\ FreshRead(h)'
    <3>1. j > i /\ j - 1 > k
      BY <2>1, <2>3, <1>1
    <3> QED
      BY <3>1, <2>3, <1>2
  <2> QED
    BY <2>1, <2>2, <2>3, <1>4 DEF FreshReadFollows
<1>5. FreshReadFollows => FreshReadFollows'
  BY <1>4 DEF FreshReadFollows
<1> QED
  BY <1>2, <1>3, <1>5

\* The row moves: an event will tell, or all that is shown or read is late.
LEMMA RowMoves ==
    ASSUME PanelsInv, NEW status \in WorkStatuses, NEW told \in BOOLEAN,
           RowBecomes(status, told), UNCHANGED <<panel, listed, listening, watcherRuns>>,
           clicked' \in Verbs \cup {"none", "executing", "answered", "refreshing"}
    PROVE  PanelsInv'
<1> DEFINE late == ~watcherRuns /\ ~told
           Moved(r) == [r EXCEPT !.had = @ \cup {status}, !.late = @ \/ late]
<1>1. /\ reading \in Seq(PanelReadings) /\ DOMAIN reading = 1 .. Len(reading) /\ Len(reading) \in Nat
      /\ Len(reading) <= MaxReads
      /\ panel \in PanelKinds \cup {"closed"} /\ listed \in WorkStatuses
      /\ wrote \in BOOLEAN /\ noticed \in BOOLEAN /\ listening \in BOOLEAN
      /\ watcherRuns \in BOOLEAN /\ behind \in BOOLEAN
  BY DEF PanelsInv, PanelsTypeOK, PanelReadings
<1>2. reading' = [i \in DOMAIN reading |-> Moved(reading[i])]
  BY DEF RowBecomes
<1>3. ASSUME NEW r \in PanelReadings
      PROVE  Moved(r) \in PanelReadings /\ (Moved(r).late <=> (r.late \/ late))
  BY <1>1 DEF PanelReadings
<1> HIDE DEF Moved
<1>4. /\ reading' \in Seq(PanelReadings) /\ Len(reading') = Len(reading)
      /\ DOMAIN reading' = DOMAIN reading
      /\ \A i \in DOMAIN reading : reading'[i].late <=> (reading[i].late \/ late)
  <2>1. \A i \in DOMAIN reading : reading[i] \in PanelReadings
    BY <1>1
  <2> QED
    BY <2>1, <1>1, <1>2, <1>3
<1>5. wrote' \in BOOLEAN /\ noticed' \in BOOLEAN /\ behind' \in BOOLEAN
  BY Zenon DEF RowBecomes
<1>6. PanelsTypeOK'
  BY <1>1, <1>4, <1>5 DEF PanelsTypeOK, PanelReadings, RowBecomes
<1>7. LateInOrder'
  BY <1>4 DEF PanelsInv, LateInOrder
<1>8. CASE ~late
  <2>1. wrote' \/ noticed'
    BY <1>8, Zenon DEF RowBecomes
  <2> QED
    BY <2>1, <1>6, <1>7 DEF PanelsInv
<1>9. CASE late
  <2>1. panel' = "closed" \/ behind'
    BY <1>9, Zenon DEF RowBecomes
  <2>2. FreshReadFollows'
    BY <1>4, <1>9 DEF FreshReadFollows
  <2> QED
    BY <2>1, <2>2, <1>6, <1>7 DEF PanelsInv
<1> QED
  BY <1>8, <1>9

\* Nothing of what is listed, read or on its way changes.
LEMMA PanelStays ==
    ASSUME PanelsInv,
           UNCHANGED <<panel, workRow, listed, reading, wrote, noticed, watcherRuns, behind>>,
           listening' \in BOOLEAN,
           clicked' \in Verbs \cup {"none", "executing", "answered", "refreshing"}
    PROVE  PanelsInv'
<1>1. LateInOrder' /\ (FreshReadFollows => FreshReadFollows')
      /\ (\A i \in DOMAIN reading : FreshRead(i) => i \in DOMAIN reading' /\ FreshRead(i)')
  BY DEF PanelsInv, LateInOrder, FreshReadFollows, FreshRead
<1>2. PanelsTypeOK'
  BY DEF PanelsInv, PanelsTypeOK
<1> QED
  BY <1>1, <1>2 DEF PanelsInv

\* A refresh leaves, whatever became of those before it.
LEMMA PanelAsks ==
    ASSUME PanelsInv, NEW others \in Seq(PanelReadings), NEW own \in BOOLEAN,
           \A i, j \in DOMAIN others : j < i /\ others[i].late => others[j].late,
           PanelRefreshes(others, own),
           panel' \in PanelKinds \cup {"closed"}, workRow' \in WorkStatuses, listed' \in WorkStatuses,
           clicked' \in Verbs \cup {"none", "executing", "answered", "refreshing"},
           wrote' \in BOOLEAN, noticed' \in BOOLEAN, listening' \in BOOLEAN,
           watcherRuns' \in BOOLEAN, behind' \in BOOLEAN
    PROVE  PanelsInv'
<1>1. /\ reading' \in Seq(PanelReadings) /\ Len(reading') <= MaxReads
      /\ LateInOrder' /\ FreshReadFollows' /\ \E i \in DOMAIN reading' : FreshRead(i)'
  BY RefreshIsFresh
<1>2. PanelsTypeOK'
  BY <1>1 DEF PanelsTypeOK, PanelReadings
<1> QED
  BY <1>1, <1>2 DEF PanelsInv

LEMMA PanelsStepInv ==
    ASSUME PanelsInv, [PanelsNext]_panelVars
    PROVE  PanelsInv'
<1>1. /\ reading \in Seq(PanelReadings) /\ Len(reading) <= MaxReads /\ Len(reading) \in Nat
      /\ DOMAIN reading = 1 .. Len(reading)
      /\ panel \in PanelKinds \cup {"closed"} /\ workRow \in WorkStatuses /\ listed \in WorkStatuses
      /\ clicked \in Verbs \cup {"none", "executing", "answered", "refreshing"}
      /\ wrote \in BOOLEAN /\ noticed \in BOOLEAN /\ listening \in BOOLEAN
      /\ watcherRuns \in BOOLEAN /\ behind \in BOOLEAN
      /\ \A i, j \in DOMAIN reading : j < i /\ reading[i].late => reading[j].late
  BY DEF PanelsInv, PanelsTypeOK, PanelReadings, LateInOrder
<1>2. /\ AllLate(reading) \in Seq(PanelReadings) /\ Len(AllLate(reading)) = Len(reading)
      /\ DOMAIN AllLate(reading) = DOMAIN reading
      /\ \A i \in DOMAIN reading : AllLate(reading)[i].late
  <2> DEFINE Late(r) == [r EXCEPT !.late = TRUE]
  <2>1. ASSUME NEW r \in PanelReadings PROVE Late(r) \in PanelReadings /\ Late(r).late
    BY DEF PanelReadings
  <2>2. AllLate(reading) = [i \in 1 .. Len(reading) |-> Late(reading[i])]
    BY <1>1 DEF AllLate
  <2>3. \A i \in 1 .. Len(reading) : reading[i] \in PanelReadings
    BY <1>1
  <2> HIDE DEF Late
  <2> QED
    BY <1>1, <2>1, <2>2, <2>3
<1>3. CASE PanelOpens
  BY <1>1, <1>3, PanelAsks DEF PanelOpens
<1>4. CASE PanelCloses
  <2>1. reading' = <<>> /\ Len(reading') = 0 /\ DOMAIN reading' = {} /\ panel' = "closed"
    BY <1>4 DEF PanelCloses
  <2>2. <<>> \in Seq(PanelReadings) /\ Len(reading') <= MaxReads
    BY <2>1, PanelsAssumption
  <2>3. /\ clicked' \in Verbs \cup {"none", "executing", "answered", "refreshing"}
        /\ behind' \in BOOLEAN /\ listening' \in BOOLEAN /\ listed' \in WorkStatuses
        /\ UNCHANGED <<workRow, wrote, noticed, watcherRuns>>
    BY <1>1, <1>4 DEF PanelCloses, WorkStatuses
  <2>4. PanelsTypeOK'
    BY <1>1, <2>1, <2>2, <2>3 DEF PanelsTypeOK, PanelReadings
  <2> QED
    BY <2>1, <2>4 DEF PanelsInv, LateInOrder
<1>5. CASE PanelSwitches
  <2>1. \A i, j \in DOMAIN AllLate(reading) :
           j < i /\ AllLate(reading)[i].late => AllLate(reading)[j].late
    BY <1>2
  <2>2. PanelRefreshes(AllLate(reading), FALSE)
    BY <1>5 DEF PanelSwitches
  <2>3. /\ workRow' \in WorkStatuses /\ behind' \in BOOLEAN /\ listening' \in BOOLEAN
        /\ UNCHANGED <<panel, listed, clicked, wrote, noticed, watcherRuns>>
    BY <1>5 DEF PanelSwitches
  <2> QED
    BY <1>1, <1>2, <2>1, <2>2, <2>3, PanelAsks
<1>6. CASE GetsListeners
  BY <1>1, <1>6, PanelStays DEF GetsListeners
<1>7. CASE RefreshesAgain
  BY <1>1, <1>7, PanelAsks DEF RefreshesAgain
<1>8. CASE PanelHears
  <2>1. /\ noticed' = FALSE
        /\ UNCHANGED <<panel, workRow, listed, clicked, wrote, listening, watcherRuns>>
    BY <1>8 DEF PanelHears
  <2>2. CASE listening
    <3>1. PanelRefreshes(reading, FALSE) /\ UNCHANGED behind
      BY <1>8, <2>2 DEF PanelHears
    <3> QED
      BY <1>1, <2>1, <3>1, PanelAsks
  <2>3. CASE ~listening
    <3>1. reading' = AllLate(reading) /\ behind' = (panel # "closed")
      BY <1>8, <2>3 DEF PanelHears
    <3>2. PanelsTypeOK'
      <4>1. behind' \in BOOLEAN
        BY <3>1, Zenon
      <4> QED
        BY <1>1, <1>2, <2>1, <3>1, <4>1 DEF PanelsTypeOK, PanelReadings
    <3>3. panel' = "closed" \/ behind'
      BY <2>1, <3>1
    <3>4. LateInOrder' /\ FreshReadFollows'
      BY <1>2, <3>1 DEF LateInOrder, FreshReadFollows
    <3> QED
      BY <3>2, <3>3, <3>4 DEF PanelsInv
  <2> QED
    BY <2>2, <2>3
<1>9. ASSUME NEW i \in DOMAIN reading, PanelShows(i) PROVE PanelsInv'
  <2>1. /\ listed' \in FoundInPanel(reading[i]) /\ behind' = reading[i].late /\ ReadEnds(i)
        /\ UNCHANGED <<panel, workRow, wrote, noticed, listening, watcherRuns>>
    BY <1>9 DEF PanelShows
  <2>2. reading[i] \in PanelReadings
    BY <1>1
  <2>3. /\ reading' \in Seq(PanelReadings) /\ Len(reading') <= MaxReads
        /\ LateInOrder' /\ (FreshReadFollows => FreshReadFollows')
        /\ (\E j \in DOMAIN reading : j > i /\ FreshRead(j)) =>
              \E j \in DOMAIN reading' : FreshRead(j)'
    BY <2>1, ReadEndsKeeps, ReadEndsOrder
  <2>4. /\ listed' \in WorkStatuses /\ behind' \in BOOLEAN
        /\ clicked' \in Verbs \cup {"none", "executing", "answered", "refreshing"}
    BY <1>1, <2>1, <2>2 DEF FoundInPanel, PanelReadings, WorkStatuses, ReadEnds
  <2>5. PanelsTypeOK'
    BY <1>1, <2>1, <2>3, <2>4 DEF PanelsTypeOK, PanelReadings
  <2>6. FreshRead(i) => listed' = workRow'
    <3> SUFFICES ASSUME FreshRead(i) PROVE listed' = workRow
      BY <2>1
    <3>1. reading[i].had = {workRow} /\ Cardinality(reading[i].had) = 1
      BY FS_Singleton DEF FreshRead
    <3> QED
      BY <2>1, <3>1 DEF FoundInPanel
  <2>7. ~behind' /\ FreshReadFollows => FreshRead(i) \/ \E j \in DOMAIN reading : j > i /\ FreshRead(j)
    BY <2>1 DEF FreshReadFollows
  <2> QED
    BY <2>1, <2>3, <2>5, <2>6, <2>7 DEF PanelsInv
<1>10. ASSUME NEW i \in DOMAIN reading, ReadFails(i) PROVE PanelsInv'
  <2>1. /\ listed' = IF panel = "console" THEN "over" ELSE listed
        /\ behind' = (behind \/ panel = "console" \/ ~reading[i].late)
        /\ ReadEnds(i)
        /\ UNCHANGED <<panel, workRow, wrote, noticed, listening, watcherRuns>>
    BY <1>10 DEF ReadFails
  <2>2. reading[i] \in PanelReadings
    BY <1>1
  <2>3. /\ reading' \in Seq(PanelReadings) /\ Len(reading') <= MaxReads
        /\ LateInOrder' /\ (FreshReadFollows => FreshReadFollows')
        /\ (\E j \in DOMAIN reading : j > i /\ FreshRead(j)) =>
              \E j \in DOMAIN reading' : FreshRead(j)'
    BY <2>1, ReadEndsKeeps, ReadEndsOrder
  <2>4. /\ listed' \in WorkStatuses
        /\ clicked' \in Verbs \cup {"none", "executing", "answered", "refreshing"}
    BY <1>1, <2>1 DEF WorkStatuses, ReadEnds
  <2>5. behind' \in BOOLEAN
    BY <2>1, Zenon
  <2>6. PanelsTypeOK'
    BY <1>1, <2>1, <2>3, <2>4, <2>5 DEF PanelsTypeOK, PanelReadings
  <2>7. ~behind' => ~behind /\ listed' = listed /\ reading[i].late
    <3>1. behind' <=> (behind \/ panel = "console" \/ ~reading[i].late)
      BY <2>1
    <3> QED
      BY <2>1, <3>1
  <2>8. \A j \in DOMAIN reading : reading[i].late /\ FreshRead(j) => j > i
    BY <1>1 DEF FreshRead
  <2> QED
    BY <2>1, <2>3, <2>6, <2>7, <2>8 DEF PanelsInv
<1>11. CASE OthersWrite
  <2>1. PICK status \in WorkStatuses, told \in BOOLEAN : RowBecomes(status, told)
    BY <1>11 DEF OthersWrite, WorkStatuses
  <2> QED
    BY <1>1, <1>11, <2>1, RowMoves DEF OthersWrite
<1>12. CASE WatcherTells
  <2>1. noticed' /\ noticed' \in BOOLEAN /\ wrote' \in BOOLEAN
        /\ UNCHANGED <<panel, workRow, listed, reading, clicked, listening, watcherRuns, behind>>
    BY <1>12 DEF WatcherTells
  <2>2. LateInOrder' /\ PanelsTypeOK'
    BY <2>1 DEF PanelsInv, PanelsTypeOK, LateInOrder
  <2> QED
    BY <2>1, <2>2 DEF PanelsInv
<1>13. ASSUME NEW verb \in Verbs, Clicks(verb) PROVE PanelsInv'
  BY <1>1, <1>13, PanelStays DEF Clicks
<1>14. CASE CommandWrites
  <2>1. PICK status \in WorkStatuses, told \in BOOLEAN : RowBecomes(status, told)
    BY <1>14 DEF CommandWrites, WorkStatuses
  <2>2. clicked' \in {"answered", "executing"} /\ UNCHANGED <<panel, listed, listening, watcherRuns>>
    BY <1>14 DEF CommandWrites
  <2> QED
    BY <2>1, <2>2, RowMoves
<1>15. CASE CommandFails
  BY <1>1, <1>15, PanelStays DEF CommandFails
<1>16. CASE RefreshesAfterClick
  <2>1. UNCHANGED <<panel, workRow, listed, wrote, noticed, listening, watcherRuns, behind>>
    BY <1>16 DEF RefreshesAfterClick
  <2>2. CASE panel = "closed"
    BY <1>1, <1>16, <2>1, <2>2, PanelStays DEF RefreshesAfterClick
  <2>3. CASE panel # "closed"
    <3>1. clicked' = "refreshing" /\ PanelRefreshes(reading, TRUE)
      BY <1>16, <2>3 DEF RefreshesAfterClick
    <3> QED
      BY <1>1, <2>1, <3>1, PanelAsks
  <2> QED
    BY <2>2, <2>3
<1>17. CASE UNCHANGED panelVars
  BY <1>1, <1>17, PanelStays DEF panelVars
<1> QED
  BY <1>3, <1>4, <1>5, <1>6, <1>7, <1>8, <1>9, <1>10, <1>11, <1>12, <1>13, <1>14, <1>15, <1>16,
     <1>17 DEF PanelsNext

LEMMA PanelsInvariant == PanelsSpec => []PanelsInv
<1>1. PanelsInit => PanelsInv
  BY PanelsInitInv
<1>2. PanelsInv /\ [PanelsNext]_panelVars => PanelsInv'
  BY PanelsStepInv
<1> QED
  BY <1>1, <1>2, PTL DEF PanelsSpec

LEMMA PanelsInvShows == PanelsInv => PanelsShowTheTables
<1> SUFFICES ASSUME PanelsInv, PanelAtRest, ~behind PROVE listed = workRow
  BY DEF PanelsShowTheTables
<1>1. DOMAIN reading = {} /\ panel # "closed" /\ ~wrote /\ ~noticed
  BY DEF PanelAtRest
<1> QED
  BY <1>1 DEF PanelsInv

----------------------------------------------------------------------------
(* The window on a chat                                                    *)

\* Stored messages a fetch would read now that the window neither shows nor
\* has lost for good.
NotShown == Listed \ (displayed \cup hidden)

\* A fetch in flight that was made for the end of r.
Announces(f, r) == fetch[f].kind = "told" /\ fetch[f].request = r

\* The desktop is done with r.
Ended(r) == IF r \in Prompts THEN prompt[r] \in {"answered", "failed"} ELSE job[r] = "ended"

\* The end of r is still to come, to be heard of or to be fetched for.
Awaits(r) ==
    \/ IF r \in Prompts THEN prompt[r] \in {"called", "accepted"} ELSE job[r] = "running"
    \/ r \in announced
    \/ \E f \in Fetches : Announces(f, r)

\* The desktop's progress with p, and what is stored, agree.
PromptInv(p) ==
    /\ Asked(p) \in transcript => prompt[p] \in {"accepted", "answered", "failed"}
    /\ prompt[p] \in {"accepted", "answered"} => Asked(p) \in transcript
    /\ Replied(p) \in transcript => prompt[p] = "answered"
    /\ prompt[p] = "unsent" => p \notin settled \cup projected
    /\ awaited = p => p \notin projected

\* An answer on its way has its own messages, and all the window shows.
HistoryInv(p) ==
    /\ prompt[p] = "answered" /\ p \notin settled =>
          history[p].read /\ {Asked(p), Replied(p)} \subseteq history[p].items \cup history[p].beyond
    /\ history[p].read =>
          /\ history[p].items \subseteq transcript
          /\ history[p].stale \/ displayed \cap StoredMessages
                                     \subseteq history[p].items \cup history[p].beyond

\* A fetch that has read has what it was made for, and all the window shows.
FetchInv(f) ==
    /\ fetch[f].kind = "told" => fetch[f].request \in Prompts \cup Jobs /\ Ended(fetch[f].request)
    /\ fetch[f].list.read =>
          /\ fetch[f].list.items \subseteq transcript
          /\ fetch[f].kind = "told" =>
                {m \in Listed : m.of = fetch[f].request} \subseteq fetch[f].list.items
          /\ fetch[f].list.stale \/ displayed \cap Listed \subseteq fetch[f].list.items

\* What is missing comes with the end of its request, or with the answer when
\* the window was not told of the end.
MissingIsComing ==
    \A m \in NotShown : Awaits(m.of) \/ m.of \in (Prompts \cap missed) \ settled

\* A run on display ends with what is on its way.
RunsWillEnd == \A r \in projected \ missed : Awaits(r)

ChatViewInv ==
    /\ ChatViewTypeOK
    /\ displayed \cap StoredMessages \subseteq transcript
    /\ \A p \in Prompts : PromptInv(p) /\ HistoryInv(p)
    /\ \A j \in Jobs : Noted(j) \in transcript => job[j] = "ended"
    /\ \A r \in announced : Ended(r)
    /\ \A f \in Fetches : FetchInv(f)
    /\ MissingIsComing
    /\ RunsWillEnd

FetchRecords == [kind : {"none", "open", "refresh", "told"},
                 request : Prompts \cup Jobs \cup {NoPrompt}, list : Lists]

\* The messages differ from each other.
LEMMA MessagesDiffer ==
    /\ \A p \in Prompts : /\ Asked(p) \in StoredMessages /\ Replied(p) \in StoredMessages
                          /\ Optimistic(p) \notin StoredMessages
                          /\ Asked(p).of = p /\ Replied(p).of = p
    /\ \A j \in Jobs : Noted(j) \in StoredMessages /\ Noted(j).of = j
    /\ \A p, q \in Prompts : /\ Asked(p) # Replied(q)
                             /\ Asked(p) = Asked(q) => p = q
                             /\ Replied(p) = Replied(q) => p = q
    /\ \A p \in Prompts, j \in Jobs : Asked(p) # Noted(j) /\ Replied(p) # Noted(j)
    /\ \A i, j \in Jobs : Noted(i) = Noted(j) => i = j
    /\ \A m \in StoredMessages : \/ m.of \in Prompts /\ m \in {Asked(m.of), Replied(m.of)}
                                 \/ m.of \in Jobs /\ m = Noted(m.of)
<1> USE DEF Asked, Replied, Noted
<1>1. \A p \in Prompts : Asked(p) \in StoredMessages /\ Replied(p) \in StoredMessages
  BY DEF StoredMessages
<1>2. \A j \in Jobs : Noted(j) \in StoredMessages
  BY DEF StoredMessages
<1>3. \A m \in StoredMessages : m.kind \in {"asked", "replied", "noted"}
  BY DEF StoredMessages
<1>4. \A p \in Prompts : Optimistic(p) \notin StoredMessages
  BY <1>3 DEF Optimistic
<1>5. ASSUME NEW m \in StoredMessages
      PROVE  \/ m.of \in Prompts /\ m \in {Asked(m.of), Replied(m.of)}
             \/ m.of \in Jobs /\ m = Noted(m.of)
  BY DEF StoredMessages
<1>6. /\ \A p \in Prompts : Asked(p).of = p /\ Replied(p).of = p
      /\ \A j \in Jobs : Noted(j).of = j
      /\ \A p, q \in Prompts : Asked(p) # Replied(q)
      /\ \A p \in Prompts, j \in Jobs : Asked(p) # Noted(j) /\ Replied(p) # Noted(j)
  OBVIOUS
<1>7. /\ \A p, q \in Prompts : (Asked(p) = Asked(q) => p = q) /\ (Replied(p) = Replied(q) => p = q)
      /\ \A i, j \in Jobs : Noted(i) = Noted(j) => i = j
  OBVIOUS
<1> QED
  BY <1>1, <1>2, <1>4, <1>5, <1>6, <1>7

LEMMA MessageListTypes ==
    /\ Unread \in Lists /\ ~Unread.read
    /\ \A items, beyond \in SUBSET StoredMessages :
          /\ ListRead(items, beyond) \in Lists
          /\ ListRead(items, beyond).read /\ ~ListRead(items, beyond).stale
          /\ ListRead(items, beyond).items = items /\ ListRead(items, beyond).beyond = beyond
    /\ NoFetch \in FetchRecords /\ NoFetch.kind = "none" /\ ~NoFetch.list.read
    /\ \A kind \in {"open", "refresh", "told"}, r \in Prompts \cup Jobs \cup {NoPrompt} :
          /\ Fetching(kind, r) \in FetchRecords
          /\ Fetching(kind, r).kind = kind /\ Fetching(kind, r).request = r
          /\ ~Fetching(kind, r).list.read
<1>1. Unread \in Lists /\ ~Unread.read
  BY DEF Unread, Lists
<1>2. ASSUME NEW items \in SUBSET StoredMessages, NEW beyond \in SUBSET StoredMessages
      PROVE  /\ ListRead(items, beyond) \in Lists
             /\ ListRead(items, beyond).read /\ ~ListRead(items, beyond).stale
             /\ ListRead(items, beyond).items = items /\ ListRead(items, beyond).beyond = beyond
  BY DEF ListRead, Lists
<1>3. ASSUME NEW kind \in {"none", "open", "refresh", "told"},
             NEW r \in Prompts \cup Jobs \cup {NoPrompt}
      PROVE  /\ Fetching(kind, r) \in FetchRecords
             /\ Fetching(kind, r).kind = kind /\ Fetching(kind, r).request = r
             /\ Fetching(kind, r).list = Unread
  BY <1>1 DEF Fetching, FetchRecords
<1> QED
  BY <1>1, <1>2, <1>3 DEF NoFetch

\* A message that was stored before is listed now only if it was before.
LEMMA ListedShrinks ==
    ASSUME transcript \subseteq transcript'
    PROVE  /\ Listed \subseteq transcript
           /\ Listed' \cap transcript \subseteq Listed
           /\ Listed' \ Listed \subseteq transcript' \ transcript
BY DEF Listed

LEMMA ChatViewInitInv == ChatViewInit => ChatViewInv
<1> SUFFICES ASSUME ChatViewInit PROVE ChatViewInv
  OBVIOUS
<1>1. ChatViewTypeOK
  <2>1. history \in [Prompts -> Lists] /\ fetch \in [Fetches -> FetchRecords] /\ turns \in 0 .. MaxTurns
    BY MessageListTypes, ChatViewAssumption DEF ChatViewInit
  <2> QED
    BY <2>1 DEF ChatViewInit, ChatViewTypeOK, FetchRecords
<1>2. \A p \in Prompts : PromptInv(p) /\ HistoryInv(p)
  BY MessageListTypes DEF ChatViewInit, PromptInv, HistoryInv
<1>3. \A f \in Fetches : FetchInv(f)
  BY MessageListTypes DEF ChatViewInit, FetchInv
<1>4. MissingIsComing
  BY DEF ChatViewInit, MissingIsComing, NotShown, Listed
<1> QED
  BY <1>1, <1>2, <1>3, <1>4 DEF ChatViewInit, ChatViewInv, RunsWillEnd

\* The window takes a list that was up to date, or marks what it loses.
LEMMA ShowsKeeps ==
    ASSUME ChatViewInv, NEW messages \in SUBSET ViewMessages, NEW list \in Lists,
           NEW histories \in [Prompts -> Lists], NEW fetches \in [Fetches -> FetchRecords],
           Shows(messages, list, histories, fetches), transcript' = transcript,
           messages \cap StoredMessages = list.items, list.items \subseteq transcript,
           list.stale \/ displayed \cap Listed \subseteq list.items \cup list.beyond
    PROVE  /\ displayed' \subseteq ViewMessages /\ hidden' \subseteq StoredMessages
           /\ history' \in [Prompts -> Lists] /\ fetch' \in [Fetches -> FetchRecords]
           /\ displayed' \cap StoredMessages \subseteq transcript
           /\ \A p \in Prompts :
                 /\ history'[p].read = histories[p].read /\ history'[p].items = histories[p].items
                 /\ history'[p].beyond = histories[p].beyond
                 /\ history'[p].read => history'[p].stale
           /\ \A f \in Fetches :
                 /\ fetch'[f].kind = fetches[f].kind /\ fetch'[f].request = fetches[f].request
                 /\ fetch'[f].list.read = fetches[f].list.read
                 /\ fetch'[f].list.items = fetches[f].list.items
                 /\ fetch'[f].list.read => fetch'[f].list.stale
           /\ NotShown' \subseteq NotShown \ (list.items \cup list.beyond)
<1> DEFINE aged(l) == IF l.read THEN [l EXCEPT !.stale = TRUE] ELSE l
           put(r) == [r EXCEPT !.list = aged(@)]
           lost == list.beyond \cup IF list.stale THEN displayed \cap StoredMessages ELSE {}
<1>1. /\ displayed' = messages /\ hidden' = (hidden \cup lost) \ messages
      /\ history' = [p \in Prompts |-> aged(histories[p])]
      /\ fetch' = [f \in Fetches |-> put(fetches[f])]
  BY DEF Shows
<1>2. ASSUME NEW l \in Lists
      PROVE  /\ aged(l) \in Lists /\ aged(l).read = l.read /\ aged(l).items = l.items
             /\ aged(l).beyond = l.beyond /\ (aged(l).read => aged(l).stale)
  BY DEF Lists
<1> HIDE DEF aged
<1>3. ASSUME NEW r \in FetchRecords
      PROVE  /\ put(r) \in FetchRecords /\ put(r).kind = r.kind /\ put(r).request = r.request
             /\ put(r).list = aged(r.list) /\ r.list \in Lists
  BY <1>2 DEF FetchRecords
<1> HIDE DEF put
<1>4. /\ history' \in [Prompts -> Lists]
      /\ \A p \in Prompts :
            /\ history'[p].read = histories[p].read /\ history'[p].items = histories[p].items
            /\ history'[p].beyond = histories[p].beyond
            /\ history'[p].read => history'[p].stale
  BY <1>1, <1>2
<1>5. /\ fetch' \in [Fetches -> FetchRecords]
      /\ \A f \in Fetches :
            /\ fetch'[f].kind = fetches[f].kind /\ fetch'[f].request = fetches[f].request
            /\ fetch'[f].list.read = fetches[f].list.read
            /\ fetch'[f].list.items = fetches[f].list.items
            /\ fetch'[f].list.read => fetch'[f].list.stale
  <2> SUFFICES ASSUME NEW f \in Fetches
               PROVE  /\ put(fetches[f]) \in FetchRecords
                      /\ put(fetches[f]).kind = fetches[f].kind /\ put(fetches[f]).request = fetches[f].request
                      /\ put(fetches[f]).list.read = fetches[f].list.read
                      /\ put(fetches[f]).list.items = fetches[f].list.items
                      /\ put(fetches[f]).list.read => put(fetches[f]).list.stale
    BY <1>1
  <2>1. fetches[f] \in FetchRecords
    OBVIOUS
  <2> QED
    BY <2>1, <1>2, <1>3
<1>6. hidden \subseteq StoredMessages /\ list.beyond \subseteq StoredMessages /\ transcript \subseteq StoredMessages
  BY DEF ChatViewInv, ChatViewTypeOK, Lists
<1>7. Listed' = Listed /\ Listed \subseteq transcript
  BY DEF Listed
<1>8. NotShown' \subseteq NotShown \ (list.items \cup list.beyond)
  <2> SUFFICES ASSUME NEW m \in NotShown' PROVE m \in NotShown /\ m \notin list.items \cup list.beyond
    OBVIOUS
  <2>1. m \in Listed /\ m \notin messages /\ m \notin hidden /\ m \notin lost /\ m \in StoredMessages
    BY <1>1, <1>6, <1>7 DEF NotShown
  <2>2. m \notin list.items \cup list.beyond
    BY <2>1
  <2>3. m \notin displayed
    BY <2>1, <2>2
  <2> QED
    BY <2>1, <2>2, <2>3 DEF NotShown
<1> QED
  BY <1>1, <1>4, <1>5, <1>6, <1>8

\* The desktop stores a row: what is listed else was listed before.
LEMMA StoresKeeps ==
    ASSUME ChatViewInv, NEW m \in StoredMessages, Stores(m)
    PROVE  /\ transcript' = transcript \cup {m} /\ oldest' \subseteq transcript'
           /\ transcript' \subseteq StoredMessages
           /\ oldest' \subseteq StoredMessages
           /\ Listed' \subseteq Listed \cup {m}
<1>1. transcript' = transcript \cup {m}
  BY DEF Stores
<1>2. oldest \subseteq transcript /\ transcript \subseteq StoredMessages
  BY DEF ChatViewInv, ChatViewTypeOK
<1>3. oldest' \subseteq transcript'
  BY <1>1, <1>2 DEF Stores
<1> QED
  BY <1>1, <1>2, <1>3, ListedShrinks

LEMMA ChatViewTypes ==
    ASSUME ChatViewInv
    PROVE  /\ transcript \subseteq StoredMessages /\ oldest \subseteq transcript
           /\ displayed \subseteq ViewMessages /\ flagged \subseteq Prompts
           /\ awaited \in Prompts \cup {NoPrompt} /\ projected \subseteq Prompts \cup Jobs
           /\ watching \in BOOLEAN
           /\ prompt \in [Prompts -> {"unsent", "called", "accepted", "answered", "failed"}]
           /\ settled \subseteq Prompts /\ history \in [Prompts -> Lists]
           /\ job \in [Jobs -> {"none", "running", "ended"}]
           /\ fetch \in [Fetches -> FetchRecords] /\ turns \in 0 .. MaxTurns
           /\ announced \subseteq Prompts \cup Jobs
           /\ hidden \subseteq StoredMessages /\ missed \subseteq Prompts \cup Jobs
           /\ Listed \subseteq transcript /\ NotShown \subseteq transcript
BY DEF ChatViewInv, ChatViewTypeOK, FetchRecords, Listed, NotShown

LEMMA SubmitsKeeps ==
    ASSUME ChatViewInv, NEW p \in Prompts, Submits(p), turns' \in 0 .. MaxTurns,
           UNCHANGED <<projected, watching, job, fetch>>
    PROVE  ChatViewInv'
<1> USE ChatViewTypes, MessagesDiffer
<1>1. /\ prompt[p] = "unsent" /\ prompt' = [prompt EXCEPT ![p] = "called"] /\ awaited = NoPrompt
      /\ displayed' = displayed \cup {Optimistic(p)} /\ awaited' = p
      /\ UNCHANGED <<transcript, oldest, flagged, settled, history, announced, hidden, missed>>
  BY DEF Submits
<1>2. ChatViewTypeOK'
  BY <1>1 DEF ChatViewTypeOK, FetchRecords, ViewMessages
<1>3. displayed' \cap StoredMessages = displayed \cap StoredMessages
  BY <1>1
<1>4. Listed' = Listed /\ NotShown' = NotShown
  BY <1>1, <1>3 DEF Listed, NotShown
<1>5. ASSUME NEW q \in Prompts PROVE PromptInv(q)' /\ HistoryInv(q)'
  <2>1. PromptInv(q) /\ HistoryInv(q) /\ PromptInv(p)
    BY DEF ChatViewInv
  <2>2. PromptInv(q)'
    BY <1>1, <2>1 DEF PromptInv
  <2> QED
    BY <1>1, <1>3, <2>1, <2>2 DEF HistoryInv
<1>6. \A r \in Prompts \cup Jobs : (Ended(r) => Ended(r)') /\ (Awaits(r) => Awaits(r)')
  BY <1>1 DEF Ended, Awaits, Announces
<1>7. ASSUME NEW f \in Fetches PROVE FetchInv(f)'
  <2>1. FetchInv(f)
    BY DEF ChatViewInv
  <2> QED
    BY <1>1, <1>3, <1>4, <1>6, <2>1 DEF FetchInv
<1>8. MissingIsComing'
  BY <1>1, <1>4, <1>6 DEF ChatViewInv, MissingIsComing
<1>9. RunsWillEnd' /\ \A r \in announced' : Ended(r)'
  BY <1>1, <1>6 DEF ChatViewInv, RunsWillEnd
<1> QED
  BY <1>1, <1>2, <1>3, <1>5, <1>7, <1>8, <1>9 DEF ChatViewInv

\* Cancelling and retrying: nothing of what is stored changes; a message that
\* goes from the window was optimistic.
LEMMA PromptRests ==
    ASSUME ChatViewInv, UNCHANGED <<projected, watching, job, fetch>>, turns' \in 0 .. MaxTurns,
           Cancels \/ \E p \in Prompts : Retries(p)
    PROVE  ChatViewInv'
<1> USE ChatViewTypes, MessagesDiffer
<1>1. /\ UNCHANGED <<transcript, oldest, prompt, settled, history, announced, hidden, missed>>
      /\ displayed' \subseteq displayed
      /\ displayed' \cap StoredMessages = displayed \cap StoredMessages
      /\ flagged' \subseteq flagged /\ awaited' \in {awaited, NoPrompt}
  BY DEF Cancels, Retries
<1>2. ChatViewTypeOK'
  BY <1>1 DEF ChatViewTypeOK, FetchRecords
<1>3. Listed' = Listed /\ NotShown' = NotShown
  BY <1>1 DEF Listed, NotShown
<1>4. ASSUME NEW q \in Prompts PROVE PromptInv(q)' /\ HistoryInv(q)'
  <2>1. PromptInv(q) /\ HistoryInv(q)
    BY DEF ChatViewInv
  <2>2. PromptInv(q)'
    BY <1>1, <2>1, ChatViewAssumption DEF PromptInv
  <2> QED
    BY <1>1, <2>1, <2>2 DEF HistoryInv
<1>5. \A r : (Ended(r) => Ended(r)') /\ (Awaits(r) => Awaits(r)')
  BY <1>1 DEF Ended, Awaits, Announces
<1>6. ASSUME NEW f \in Fetches PROVE FetchInv(f)'
  <2>1. FetchInv(f)
    BY DEF ChatViewInv
  <2> QED
    BY <1>1, <1>3, <1>5, <2>1 DEF FetchInv
<1>7. MissingIsComing'
  BY <1>1, <1>3, <1>5 DEF ChatViewInv, MissingIsComing
<1>8. RunsWillEnd' /\ \A r \in announced' : Ended(r)'
  BY <1>1, <1>5 DEF ChatViewInv, RunsWillEnd
<1> QED
  BY <1>1, <1>2, <1>4, <1>6, <1>7, <1>8 DEF ChatViewInv

\* An answer that is not taken: the event brings what it brought, or did not
\* reach the window, and then it is marked as hidden.
LEMMA DropsKeeps ==
    ASSUME ChatViewInv, NEW p \in Prompts, Drops(p), prompt[p] # "unsent",
           settled' = settled \cup {p}, flagged' \subseteq Prompts, awaited' \in {awaited, NoPrompt},
           UNCHANGED <<transcript, oldest, displayed, prompt, announced, missed,
                       projected, watching, job, fetch, turns>>
    PROVE  ChatViewInv'
<1> USE ChatViewTypes, MessagesDiffer
<1>1. /\ hidden' = IF p \in missed THEN hidden \cup Unseen(p) ELSE hidden
      /\ history' = [history EXCEPT ![p] = Unread]
      /\ Unseen(p) = {m \in transcript : m.of = p} \ displayed
  BY DEF Drops, Unseen
<1>2. history' \in [Prompts -> Lists]
  BY <1>1, MessageListTypes
<1>3. ChatViewTypeOK'
  BY <1>1, <1>2 DEF ChatViewTypeOK, FetchRecords
<1>4. Listed' = Listed /\ NotShown' \subseteq NotShown
  BY <1>1 DEF Listed, NotShown
<1>5. ASSUME NEW q \in Prompts PROVE PromptInv(q)' /\ HistoryInv(q)'
  <2>1. PromptInv(q) /\ HistoryInv(q)
    BY DEF ChatViewInv
  <2>2. PromptInv(q)'
    BY <1>1, <2>1, ChatViewAssumption DEF PromptInv
  <2>3. CASE q = p
    BY <1>1, <2>2, <2>3, MessageListTypes DEF HistoryInv
  <2>4. CASE q # p
    BY <1>1, <2>1, <2>2, <2>4 DEF HistoryInv
  <2> QED
    BY <2>3, <2>4
<1>6. \A r : (Ended(r) => Ended(r)') /\ (Awaits(r) => Awaits(r)')
  BY <1>1 DEF Ended, Awaits, Announces
<1>7. ASSUME NEW f \in Fetches PROVE FetchInv(f)'
  <2>1. FetchInv(f)
    BY DEF ChatViewInv
  <2> QED
    BY <1>1, <1>4, <1>6, <2>1 DEF FetchInv
<1>8. ASSUME NEW m \in NotShown' PROVE Awaits(m.of)' \/ m.of \in (Prompts \cap missed') \ settled'
  <2>1. m \in NotShown /\ m \notin hidden' /\ m \in transcript /\ m \notin displayed
    BY <1>4 DEF NotShown
  <2>2. Awaits(m.of) \/ m.of \in (Prompts \cap missed) \ settled
    BY <2>1 DEF ChatViewInv, MissingIsComing
  <2>3. ~(m.of = p /\ p \in missed)
    BY <1>1, <2>1
  <2> QED
    BY <1>6, <2>2, <2>3
<1>9. MissingIsComing'
  BY <1>8 DEF MissingIsComing
<1>10. RunsWillEnd' /\ \A r \in announced' : Ended(r)'
  BY <1>6 DEF ChatViewInv, RunsWillEnd
<1> QED
  BY <1>3, <1>5, <1>7, <1>9, <1>10 DEF ChatViewInv

LEMMA ErrorArrivesKeeps ==
    ASSUME ChatViewInv, NEW p \in Prompts, ErrorArrives(p),
           UNCHANGED <<projected, watching, job, fetch, turns>>
    PROVE  ChatViewInv'
<1> USE ChatViewTypes
<1>1. /\ prompt[p] # "unsent" /\ settled' = settled \cup {p} /\ awaited' = NoPrompt
      /\ flagged' \subseteq Prompts /\ Drops(p)
      /\ UNCHANGED <<transcript, oldest, displayed, prompt, announced, missed>>
  BY DEF ErrorArrives
<1> QED
  BY <1>1, DropsKeeps

\* The window misses the end of r: what it lacks is hidden, or comes with an
\* answer.
LEMMA MissesMarks ==
    ASSUME ChatViewInv, NEW r \in Prompts \cup Jobs, Misses(r)
    PROVE  /\ missed' = missed \cup {r} /\ hidden \subseteq hidden'
           /\ hidden' \subseteq StoredMessages
           /\ \A m \in NotShown : m.of = r => m \in hidden' \/ r \in (Prompts \cap missed') \ settled
<1> USE ChatViewTypes
<1>1. /\ missed' = missed \cup {r}
      /\ hidden' = IF r \in Jobs \cup settled THEN hidden \cup Unseen(r) ELSE hidden
      /\ Unseen(r) = {m \in transcript : m.of = r} \ displayed
  BY DEF Misses, Unseen
<1>2. \A m \in NotShown : m.of = r => m \in Unseen(r)
  BY <1>1 DEF NotShown
<1> QED
  BY <1>1, <1>2

\* The desktop stores what the window will learn of with the end of p.
LEMMA PromptStoresKeeps ==
    ASSUME ChatViewInv, NEW p \in Prompts, NEW m \in {Asked(p), Replied(p)}, Stores(m),
           UNCHANGED <<displayed, flagged, awaited, settled, hidden, missed, projected, watching,
                       job, fetch, turns>>,
           \/ /\ m = Asked(p) /\ prompt[p] = "called" /\ prompt' = [prompt EXCEPT ![p] = "accepted"]
              /\ UNCHANGED <<history, announced>>
           \/ /\ m = Replied(p) /\ prompt[p] = "accepted"
              /\ prompt' = [prompt EXCEPT ![p] = "answered"]
              /\ announced' = announced \cup {p}
              /\ history' = IF p \in settled THEN history ELSE [history EXCEPT ![p] = HistoryRead]
    PROVE  ChatViewInv'
<1> USE ChatViewTypes, MessagesDiffer
<1>1. /\ transcript' = transcript \cup {m} /\ oldest' \subseteq transcript'
      /\ transcript' \subseteq StoredMessages /\ Listed' \subseteq Listed \cup {m}
      /\ m \in StoredMessages /\ m.of = p
  BY StoresKeeps
<1>2. PromptInv(p) /\ HistoryInv(p) /\ displayed \cap StoredMessages \subseteq transcript
  BY DEF ChatViewInv
<1>3. /\ HistoryRead \in Lists /\ HistoryRead.read /\ HistoryRead.items = oldest'
      /\ HistoryRead.beyond = transcript' \ oldest'
  BY <1>1, MessageListTypes DEF HistoryRead
<1>4. /\ history' \in [Prompts -> Lists]
      /\ \A q \in Prompts \ {p} : history'[q] = history[q] /\ prompt'[q] = prompt[q]
      /\ announced' \subseteq announced \cup {p} /\ announced \subseteq announced'
  BY <1>3
<1>5. ChatViewTypeOK'
  BY <1>1, <1>4 DEF ChatViewTypeOK, FetchRecords
<1>6. ASSUME NEW q \in Prompts PROVE PromptInv(q)'
  <2>1. PromptInv(q)
    BY DEF ChatViewInv
  <2>2. CASE q = p
    BY <1>1, <2>1, <2>2 DEF PromptInv
  <2>3. CASE q # p
    BY <1>1, <1>4, <2>1, <2>3 DEF PromptInv
  <2> QED
    BY <2>2, <2>3
<1>7. ASSUME NEW q \in Prompts PROVE HistoryInv(q)'
  <2>1. HistoryInv(q)
    BY DEF ChatViewInv
  <2>2. CASE q # p
    BY <1>1, <1>4, <2>1, <2>2 DEF HistoryInv
  <2>3. CASE q = p /\ (m = Asked(p) \/ p \in settled)
    <3>1. history'[q] = history[q] /\ (prompt'[q] = "answered" => q \in settled')
      BY <2>3
    <3> QED
      BY <1>1, <2>1, <3>1 DEF HistoryInv
  <2>4. CASE q = p /\ m = Replied(p) /\ p \notin settled
    <3>1. history'[q] = HistoryRead
      BY <2>4
    <3>2. Asked(p) \in transcript' /\ Replied(p) \in transcript'
      BY <1>1, <1>2, <2>4 DEF PromptInv
    <3> QED
      BY <1>1, <1>2, <1>3, <2>4, <3>1, <3>2 DEF HistoryInv
  <2> QED
    BY <2>2, <2>3, <2>4
<1>8. /\ Awaits(p)' /\ ~Ended(p)
      /\ \A r : (Ended(r) => Ended(r)') /\ (Awaits(r) => Awaits(r)')
      /\ \A r \in announced' : Ended(r)'
  <2>1. Awaits(p)' /\ ~Ended(p)
    BY DEF Awaits, Ended
  <2>2. ASSUME NEW r, r # p PROVE (Ended(r) => Ended(r)') /\ (Awaits(r) => Awaits(r)')
    BY <1>4, <2>2 DEF Awaits, Ended, Announces
  <2>3. p \in announced' => Ended(p)'
    BY <2>1 DEF Ended, ChatViewInv
  <2>4. \A r \in announced' : Ended(r)'
    BY <1>4, <2>2, <2>3 DEF ChatViewInv
  <2> QED
    BY <2>1, <2>2, <2>4
<1>9. ASSUME NEW f \in Fetches PROVE FetchInv(f)'
  <2>1. FetchInv(f)
    BY DEF ChatViewInv
  <2>2. displayed' \cap Listed' \subseteq displayed \cap Listed
    BY <1>1, <1>2, ListedShrinks
  <2>3. fetch[f].kind = "told" => fetch[f].request # p
    BY <1>8, <2>1 DEF FetchInv
  <2>4. fetch[f].kind = "told" => {x \in Listed' : x.of = fetch[f].request}
                                     \subseteq {x \in Listed : x.of = fetch[f].request}
    BY <1>1, <2>3
  <2>5. fetch[f].kind = "told" => fetch[f].request \in Prompts \cup Jobs /\ Ended(fetch[f].request)'
    BY <1>8, <2>1 DEF FetchInv
  <2> QED
    BY <1>1, <2>1, <2>2, <2>4, <2>5 DEF FetchInv
<1>10. NotShown' \subseteq NotShown \cup {m}
  BY <1>1 DEF NotShown
<1>11. MissingIsComing'
  BY <1>1, <1>8, <1>10 DEF ChatViewInv, MissingIsComing
<1>12. RunsWillEnd'
  BY <1>8 DEF ChatViewInv, RunsWillEnd
<1>13. \A j \in Jobs : Noted(j) \in transcript' => job'[j] = "ended"
  BY <1>1 DEF ChatViewInv
<1> QED
  BY <1>1, <1>2, <1>5, <1>6, <1>7, <1>8, <1>9, <1>11, <1>12, <1>13 DEF ChatViewInv

LEMMA DesktopStepsKeeps ==
    ASSUME ChatViewInv, NEW p \in Prompts, DesktopSteps(p),
           UNCHANGED <<projected, watching, job, fetch, turns>>
    PROVE  ChatViewInv'
<1> USE ChatViewTypes, MessagesDiffer
<1>1. UNCHANGED <<displayed, flagged, awaited, settled>>
  BY DEF DesktopSteps
<1>2. CASE /\ prompt[p] = "called" /\ prompt' = [prompt EXCEPT ![p] = "accepted"]
           /\ Stores(Asked(p)) /\ UNCHANGED <<history, announced, hidden, missed>>
  BY <1>1, <1>2, PromptStoresKeeps
<1>3. CASE /\ prompt[p] = "accepted" /\ prompt' = [prompt EXCEPT ![p] = "answered"]
           /\ Stores(Replied(p)) /\ announced' = announced \cup {p} /\ UNCHANGED <<hidden, missed>>
           /\ history' = IF p \in settled THEN history ELSE [history EXCEPT ![p] = HistoryRead]
  BY <1>1, <1>3, PromptStoresKeeps
<1>4. CASE /\ prompt[p] \in {"called", "accepted"} /\ prompt' = [prompt EXCEPT ![p] = "failed"]
           /\ \/ announced' = announced \cup {p} /\ UNCHANGED <<hidden, missed>>
              \/ Misses(p) /\ UNCHANGED announced
           /\ UNCHANGED <<transcript, oldest, history>>
  <2>1. /\ announced \subseteq announced' /\ announced' \subseteq announced \cup {p}
        /\ hidden \subseteq hidden' /\ missed \subseteq missed' /\ missed' \subseteq missed \cup {p}
        /\ hidden' \subseteq StoredMessages
        /\ p \in announced' \/ p \in missed'
        /\ p \in announced' \/ \A m \in NotShown :
                                  m.of = p => m \in hidden' \/ p \in (Prompts \cap missed') \ settled
    BY <1>4, MissesMarks
  <2>2. ChatViewTypeOK'
    BY <1>1, <1>4, <2>1 DEF ChatViewTypeOK, FetchRecords
  <2>3. Listed' = Listed /\ NotShown' \subseteq NotShown \ hidden'
    BY <1>1, <1>4, <2>1 DEF Listed, NotShown
  <2>4. ASSUME NEW q \in Prompts PROVE PromptInv(q)' /\ HistoryInv(q)'
    <3>1. PromptInv(q) /\ HistoryInv(q)
      BY DEF ChatViewInv
    <3>2. (q = p => prompt'[q] = "failed") /\ (q # p => prompt'[q] = prompt[q])
      BY <1>4
    <3>3. PromptInv(q)'
      BY <1>1, <1>4, <3>1, <3>2 DEF PromptInv
    <3>4. HistoryInv(q)'
      BY <1>1, <1>4, <3>1, <3>2 DEF HistoryInv
    <3> QED
      BY <3>3, <3>4
  <2>5. Ended(p)' /\ ~Ended(p)
    BY <1>4 DEF Ended
  <2>6. ASSUME NEW r, r # p PROVE (Ended(r) => Ended(r)') /\ (Awaits(r) => Awaits(r)')
    BY <1>1, <1>4, <2>1, <2>6 DEF Awaits, Ended, Announces
  <2>7. p \in announced' => Awaits(p)'
    BY DEF Awaits
  <2>8. \A r \in announced' : Ended(r)'
    BY <2>1, <2>5, <2>6 DEF ChatViewInv
  <2>9. ASSUME NEW f \in Fetches PROVE FetchInv(f)'
    <3>1. FetchInv(f)
      BY DEF ChatViewInv
    <3> QED
      BY <1>1, <1>4, <2>3, <2>5, <2>6, <3>1 DEF FetchInv
  <2>10. ASSUME NEW m \in NotShown' PROVE Awaits(m.of)' \/ m.of \in (Prompts \cap missed') \ settled'
    <3>1. m \in NotShown /\ m \notin hidden'
      BY <2>3
    <3>2. Awaits(m.of) \/ m.of \in (Prompts \cap missed) \ settled
      BY <3>1 DEF ChatViewInv, MissingIsComing
    <3>3. CASE m.of = p
      BY <1>1, <2>1, <2>7, <3>1, <3>3
    <3>4. CASE m.of # p
      BY <1>1, <2>1, <2>6, <3>2, <3>4
    <3> QED
      BY <3>3, <3>4
  <2>11. MissingIsComing'
    BY <2>10 DEF MissingIsComing
  <2>12. RunsWillEnd'
    <3> SUFFICES ASSUME NEW r \in projected \ missed' PROVE Awaits(r)'
      BY DEF RunsWillEnd
    <3>1. Awaits(r)
      BY <2>1 DEF ChatViewInv, RunsWillEnd
    <3> QED
      BY <2>1, <2>6, <2>7, <3>1
  <2> QED
    BY <1>1, <1>4, <2>2, <2>4, <2>8, <2>9, <2>11, <2>12 DEF ChatViewInv
<1> QED
  BY <1>2, <1>3, <1>4 DEF DesktopSteps

\* What goes on beside the prompts while nothing is stored: the end of a
\* request stays pending, or the window is marked as having missed it.
LEMMA BesidePrompts ==
    ASSUME ChatViewInv, ChatViewTypeOK',
           UNCHANGED <<displayed, flagged, awaited, prompt, settled, history, transcript, projected>>,
           hidden \subseteq hidden', missed \subseteq missed',
           \A r : Ended(r) => Ended(r)',
           announced' \subseteq announced \cup {r \in Jobs : Ended(r)'},
           \A f \in Fetches : FetchInv(f)',
           \A r \in Prompts \cup Jobs : Awaits(r) =>
               Awaits(r)' \/ /\ r \in missed'
                              /\ \A m \in NotShown :
                                    m.of = r => m \in hidden' \/ r \in (Prompts \cap missed') \ settled
    PROVE  ChatViewInv'
<1> USE ChatViewTypes, MessagesDiffer
<1>1. Listed' = Listed /\ NotShown' \subseteq NotShown \ hidden'
  BY DEF Listed, NotShown
<1>2. ASSUME NEW q \in Prompts PROVE PromptInv(q)' /\ HistoryInv(q)'
  <2>1. PromptInv(q) /\ HistoryInv(q)
    BY DEF ChatViewInv
  <2> QED
    BY <2>1 DEF PromptInv, HistoryInv
<1>3. ASSUME NEW m \in NotShown' PROVE Awaits(m.of)' \/ m.of \in (Prompts \cap missed') \ settled'
  <2>1. m \in NotShown /\ m \notin hidden' /\ m.of \in Prompts \cup Jobs
    BY <1>1
  <2>2. Awaits(m.of) \/ m.of \in (Prompts \cap missed) \ settled
    BY <2>1 DEF ChatViewInv, MissingIsComing
  <2> QED
    BY <2>1, <2>2
<1>4. MissingIsComing'
  BY <1>3 DEF MissingIsComing
<1>5. RunsWillEnd'
  BY DEF ChatViewInv, RunsWillEnd
<1>6. \A r \in announced' : Ended(r)'
  BY DEF ChatViewInv
<1>7. \A j \in Jobs : Noted(j) \in transcript' => job'[j] = "ended"
  <2> SUFFICES ASSUME NEW j \in Jobs, Noted(j) \in transcript PROVE job'[j] = "ended"
    OBVIOUS
  <2>1. job[j] = "ended" /\ j \notin Prompts
    BY ChatViewAssumption DEF ChatViewInv
  <2> QED
    BY <2>1 DEF Ended
<1> QED
  BY <1>2, <1>4, <1>5, <1>6, <1>7 DEF ChatViewInv

LEMMA StreamsKeeps ==
    ASSUME ChatViewInv, NEW r \in Prompts \cup Jobs, Streams(r), UNCHANGED turns,
           UNCHANGED <<displayed, flagged, awaited, prompt, settled, history>>
    PROVE  ChatViewInv'
<1> USE ChatViewTypes
<1>1. /\ IF r \in Prompts THEN prompt[r] = "accepted" ELSE job[r] = "running"
      /\ awaited # r /\ projected' = projected \cup {r}
      /\ UNCHANGED <<transcript, oldest, watching, job, fetch, announced, hidden, missed>>
  BY DEF Streams
<1>2. ChatViewTypeOK'
  BY <1>1 DEF ChatViewTypeOK, FetchRecords
<1>3. \A s : (Ended(s) => Ended(s)') /\ (Awaits(s) => Awaits(s)')
  BY <1>1 DEF Ended, Awaits, Announces
<1>4. Listed' = Listed /\ NotShown' = NotShown
  BY <1>1 DEF Listed, NotShown
<1>5. ASSUME NEW f \in Fetches PROVE FetchInv(f)'
  <2>1. FetchInv(f)
    BY DEF ChatViewInv
  <2> QED
    BY <1>1, <1>3, <1>4, <2>1 DEF FetchInv
<1>6. Awaits(r)' /\ (r \in Prompts => prompt[r] # "unsent")
  BY <1>1 DEF Awaits
<1>7. ASSUME NEW q \in Prompts PROVE PromptInv(q)' /\ HistoryInv(q)'
  <2>1. PromptInv(q) /\ HistoryInv(q)
    BY DEF ChatViewInv
  <2>2. PromptInv(q)'
    BY <1>1, <1>6, <2>1 DEF PromptInv
  <2> QED
    BY <1>1, <2>1, <2>2 DEF HistoryInv
<1>8. MissingIsComing'
  BY <1>1, <1>3, <1>4 DEF ChatViewInv, MissingIsComing
<1>9. RunsWillEnd' /\ \A s \in announced' : Ended(s)'
  BY <1>1, <1>3, <1>6 DEF ChatViewInv, RunsWillEnd
<1> QED
  BY <1>1, <1>2, <1>5, <1>7, <1>8, <1>9 DEF ChatViewInv

LEMMA JobBeginsKeeps ==
    ASSUME ChatViewInv, NEW j \in Jobs, JobBegins(j), turns' \in 0 .. MaxTurns,
           UNCHANGED <<displayed, flagged, awaited, prompt, settled, history>>
    PROVE  ChatViewInv'
<1> USE ChatViewTypes
<1>1. /\ job[j] = "none" /\ job' = [job EXCEPT ![j] = "running"]
      /\ UNCHANGED <<transcript, oldest, projected, watching, fetch, announced, hidden, missed>>
  BY DEF JobBegins
<1>3. \A r : Ended(r) => Ended(r)'
  BY <1>1 DEF Ended
<1>4. \A r \in Prompts \cup Jobs : Awaits(r) => Awaits(r)'
  BY <1>1 DEF Awaits, Announces
<1>5. ChatViewTypeOK'
  BY <1>1 DEF ChatViewTypeOK, FetchRecords
<1>6. ASSUME NEW f \in Fetches PROVE FetchInv(f)'
  <2>1. FetchInv(f) /\ Listed' = Listed
    BY <1>1 DEF ChatViewInv, Listed
  <2> QED
    BY <1>1, <1>3, <2>1 DEF FetchInv
<1> QED
  BY <1>1, <1>3, <1>4, <1>5, <1>6, BesidePrompts

LEMMA JobEndsKeeps ==
    ASSUME ChatViewInv, NEW j \in Jobs, JobEnds(j), UNCHANGED turns,
           UNCHANGED <<displayed, flagged, awaited, prompt, settled, history>>
    PROVE  ChatViewInv'
<1> USE ChatViewTypes, MessagesDiffer
<1>1. /\ job[j] = "running" /\ job' = [job EXCEPT ![j] = "ended"] /\ j \notin Prompts
      /\ UNCHANGED <<projected, watching, fetch>>
  BY ChatViewAssumption DEF JobEnds
<1>2. /\ ~Ended(j) /\ Ended(j)' /\ j \notin announced /\ (j \in announced' => Awaits(j)')
      /\ \A r : Ended(r) => Ended(r)'
  BY <1>1 DEF Ended, Awaits, ChatViewInv
<1>3. ASSUME NEW f \in Fetches
      PROVE  /\ FetchInv(f) /\ (fetch[f].kind = "told" => fetch[f].request # j)
             /\ fetch[f].kind = "told" => /\ fetch[f].request \in Prompts \cup Jobs
                                          /\ Ended(fetch[f].request)'
  <2>1. FetchInv(f)
    BY DEF ChatViewInv
  <2>2. fetch[f].kind = "told" => fetch[f].request \in Prompts \cup Jobs /\ Ended(fetch[f].request)
    BY <2>1 DEF FetchInv
  <2>3. fetch[f].kind = "told" => fetch[f].request # j
    BY <1>2, <2>2
  <2>4. fetch[f].kind = "told" => Ended(fetch[f].request)'
    BY <1>1, <2>2, <2>3 DEF Ended
  <2> QED
    BY <2>1, <2>2, <2>3, <2>4
<1>4. CASE Stores(Noted(j)) /\ announced' = announced \cup {j} /\ UNCHANGED <<hidden, missed>>
  <2>1. /\ transcript' = transcript \cup {Noted(j)} /\ oldest' \subseteq transcript'
        /\ transcript' \subseteq StoredMessages /\ Listed' \subseteq Listed \cup {Noted(j)}
        /\ Noted(j).of = j
    BY <1>4, StoresKeeps
  <2>2. ChatViewTypeOK'
    BY <1>1, <1>4, <2>1 DEF ChatViewTypeOK, FetchRecords
  <2>3. ASSUME NEW q \in Prompts PROVE PromptInv(q)' /\ HistoryInv(q)'
    <3>1. PromptInv(q) /\ HistoryInv(q) /\ Asked(q) # Noted(j) /\ Replied(q) # Noted(j)
      BY DEF ChatViewInv
    <3>2. PromptInv(q)'
      BY <1>1, <2>1, <3>1 DEF PromptInv
    <3> QED
      BY <1>1, <2>1, <3>1, <3>2 DEF HistoryInv
  <2>4. displayed \cap StoredMessages \subseteq transcript
    BY DEF ChatViewInv
  <2>5. ASSUME NEW f \in Fetches PROVE FetchInv(f)'
    <3>1. displayed' \cap Listed' \subseteq displayed \cap Listed
      BY <2>1, <2>4, ListedShrinks
    <3>2. fetch[f].kind = "told" => {m \in Listed' : m.of = fetch[f].request}
                                        \subseteq {m \in Listed : m.of = fetch[f].request}
      BY <1>3, <2>1
    <3> QED
      BY <1>1, <1>3, <2>1, <3>1, <3>2 DEF FetchInv
  <2>6. ASSUME NEW r, Awaits(r) PROVE Awaits(r)'
    <3>1. CASE r = j
      BY <1>2, <1>4, <3>1
    <3>2. CASE r # j
      BY <1>1, <1>4, <2>6, <3>2 DEF Awaits, Announces
    <3> QED
      BY <3>1, <3>2
  <2>7. NotShown' \subseteq NotShown \cup {Noted(j)} /\ Awaits(j)'
    BY <1>2, <1>4, <2>1 DEF NotShown
  <2>8. MissingIsComing'
    BY <1>4, <2>1, <2>6, <2>7 DEF ChatViewInv, MissingIsComing
  <2>9. RunsWillEnd' /\ \A r \in announced' : Ended(r)'
    BY <1>1, <1>2, <1>4, <2>6 DEF ChatViewInv, RunsWillEnd
  <2>10. \A k \in Jobs : Noted(k) \in transcript' => job'[k] = "ended"
    BY <1>1, <2>1 DEF ChatViewInv
  <2> QED
    BY <2>1, <2>2, <2>3, <2>4, <2>5, <2>8, <2>9, <2>10 DEF ChatViewInv
<1>5. CASE Misses(j) /\ UNCHANGED <<transcript, oldest, announced>>
  <2>1. /\ missed' = missed \cup {j} /\ hidden \subseteq hidden' /\ hidden' \subseteq StoredMessages
        /\ \A m \in NotShown : m.of = j => m \in hidden' \/ j \in (Prompts \cap missed') \ settled
    BY <1>5, MissesMarks
  <2>2. ChatViewTypeOK'
    BY <1>1, <1>5, <2>1 DEF ChatViewTypeOK, FetchRecords
  <2>3. \A f \in Fetches : FetchInv(f)'
    BY <1>1, <1>3, <1>5 DEF FetchInv, Listed
  <2>4. ASSUME NEW r \in Prompts \cup Jobs, Awaits(r)
        PROVE  Awaits(r)' \/ /\ r \in missed'
                              /\ \A m \in NotShown :
                                    m.of = r => m \in hidden' \/ r \in (Prompts \cap missed') \ settled
    <3>1. CASE r = j
      BY <2>1, <3>1
    <3>2. CASE r # j
      BY <1>1, <1>5, <2>4, <3>2 DEF Awaits, Announces
    <3> QED
      BY <3>1, <3>2
  <2>5. /\ UNCHANGED <<displayed, flagged, awaited, prompt, settled, history, transcript, projected>>
        /\ announced' \subseteq announced \cup {r \in Jobs : Ended(r)'}
        /\ missed \subseteq missed'
    BY <1>1, <1>5, <2>1
  <2> QED
    BY <1>2, <2>1, <2>2, <2>3, <2>4, <2>5, BesidePrompts
<1> QED
  BY <1>4, <1>5 DEF JobEnds

\* A fetch that starts has read nothing, and none that is in flight is lost.
LEMMA FetchStartsKeeps ==
    ASSUME ChatViewInv, NEW kind \in {"open", "refresh", "told"},
           NEW r \in Prompts \cup Jobs \cup {NoPrompt},
           FetchStarts(kind, r), UNCHANGED <<transcript, displayed, prompt, job>>,
           kind = "told" => r \in Prompts \cup Jobs /\ Ended(r)
    PROVE  /\ fetch' \in [Fetches -> FetchRecords]
           /\ \A f \in Fetches : FetchInv(f)'
           /\ \A s : (\E f \in Fetches : Announces(f, s)) => \E f \in Fetches : Announces(f, s)'
           /\ kind = "told" => \E f \in Fetches : Announces(f, r)'
<1> USE ChatViewTypes
<1>1. PICK f \in Fetches : fetch[f] = NoFetch /\ fetch' = [fetch EXCEPT ![f] = Fetching(kind, r)]
  BY DEF FetchStarts
<1>2. fetch' \in [Fetches -> FetchRecords]
  BY <1>1, MessageListTypes
<1>3. \A s : Ended(s)' <=> Ended(s)
  BY DEF Ended
<1>4. ASSUME NEW g \in Fetches PROVE FetchInv(g)'
  <2>1. FetchInv(g) /\ Listed' = Listed
    BY DEF ChatViewInv, Listed
  <2>2. CASE g = f
    <3>1. fetch'[g].kind = kind /\ fetch'[g].request = r /\ ~fetch'[g].list.read
      BY <1>1, <2>2, MessageListTypes
    <3> QED
      BY <1>3, <3>1 DEF FetchInv
  <2>3. CASE g # f
    <3>1. fetch'[g] = fetch[g]
      BY <1>1, <2>3
    <3> QED
      BY <1>3, <2>1, <3>1 DEF FetchInv
  <2> QED
    BY <2>2, <2>3
<1>5. ASSUME NEW s, NEW g \in Fetches, Announces(g, s) PROVE Announces(g, s)'
  BY <1>1, <1>5, MessageListTypes DEF Announces
<1>6. kind = "told" => Announces(f, r)'
  BY <1>1, MessageListTypes DEF Announces
<1> QED
  BY <1>2, <1>4, <1>5, <1>6

LEMMA FetchingKeeps ==
    ASSUME ChatViewInv, turns' \in 0 .. MaxTurns,
           UNCHANGED <<displayed, flagged, awaited, prompt, settled, history>>,
           \/ Visits \/ Refreshes \/ Leaves
           \/ \E f \in Fetches : FetchReads(f)
    PROVE  ChatViewInv'
<1> USE ChatViewTypes
<1>1. UNCHANGED <<transcript, oldest, projected, job, announced, hidden, missed>>
  BY DEF Visits, Refreshes, Leaves, FetchReads
<1>2. Listed' = Listed /\ \A r : Ended(r)' <=> Ended(r)
  BY <1>1 DEF Listed, Ended
<1>3. /\ fetch' \in [Fetches -> FetchRecords] /\ watching' \in BOOLEAN
      /\ \A f \in Fetches : FetchInv(f)'
      /\ \A r : (\E f \in Fetches : Announces(f, r)) => \E f \in Fetches : Announces(f, r)'
  <2>1. CASE Visits
    BY <1>1, <2>1, FetchStartsKeeps DEF Visits
  <2>2. CASE Refreshes
    BY <1>1, <2>2, FetchStartsKeeps DEF Refreshes
  <2>3. CASE Leaves
    <3>1. /\ watching' = FALSE
          /\ fetch' = [f \in Fetches |-> IF fetch[f].kind = "open" THEN NoFetch ELSE fetch[f]]
      BY <2>3 DEF Leaves
    <3>2. fetch' \in [Fetches -> FetchRecords]
      BY <3>1, MessageListTypes
    <3>3. ASSUME NEW g \in Fetches PROVE FetchInv(g)'
      <4>1. FetchInv(g)
        BY DEF ChatViewInv
      <4>2. CASE fetch[g].kind = "open"
        BY <3>1, <4>2, MessageListTypes DEF FetchInv
      <4>3. CASE fetch[g].kind # "open"
        BY <1>1, <1>2, <3>1, <4>1, <4>3 DEF FetchInv
      <4> QED
        BY <4>2, <4>3
    <3>4. ASSUME NEW r, NEW g \in Fetches, Announces(g, r) PROVE Announces(g, r)'
      BY <3>1, <3>4 DEF Announces
    <3> QED
      BY <3>1, <3>2, <3>3, <3>4
  <2>4. ASSUME NEW f \in Fetches, FetchReads(f)
        PROVE  /\ fetch' \in [Fetches -> FetchRecords] /\ watching' \in BOOLEAN
               /\ \A g \in Fetches : FetchInv(g)'
               /\ \A r : \A g \in Fetches : Announces(g, r) => Announces(g, r)'
    <3> DEFINE list == ListRead(Listed, {})
    <3>1. /\ fetch' = [fetch EXCEPT ![f].list = list] /\ watching' = watching
          /\ fetch[f].kind # "none" /\ ~fetch[f].list.read
      BY <2>4 DEF FetchReads
    <3>2. list \in Lists /\ list.read /\ ~list.stale /\ list.items = Listed
      BY MessageListTypes
    <3> HIDE DEF list
    <3>3. /\ fetch' \in [Fetches -> FetchRecords]
          /\ \A g \in Fetches : fetch'[g].kind = fetch[g].kind /\ fetch'[g].request = fetch[g].request
          /\ fetch'[f].list = list /\ \A g \in Fetches \ {f} : fetch'[g] = fetch[g]
      BY <3>1, <3>2 DEF FetchRecords
    <3>4. ASSUME NEW g \in Fetches PROVE FetchInv(g)'
      <4>1. FetchInv(g)
        BY DEF ChatViewInv
      <4>2. CASE g = f
        BY <1>1, <1>2, <3>2, <3>3, <4>1, <4>2 DEF FetchInv
      <4>3. CASE g # f
        BY <1>1, <1>2, <3>3, <4>1, <4>3 DEF FetchInv
      <4> QED
        BY <4>2, <4>3
    <3>5. \A r : \A g \in Fetches : Announces(g, r) => Announces(g, r)'
      BY <3>3 DEF Announces
    <3> QED
      BY <3>1, <3>3, <3>4, <3>5
  <2> QED
    BY <2>1, <2>2, <2>3, <2>4
<1>4. ChatViewTypeOK'
  BY <1>1, <1>3 DEF ChatViewTypeOK, FetchRecords
<1>5. \A r : Awaits(r) => Awaits(r)'
  BY <1>1, <1>3 DEF Awaits
<1> QED
  BY <1>1, <1>2, <1>3, <1>4, <1>5, BesidePrompts

LEMMA HearsKeeps ==
    ASSUME ChatViewInv, NEW r \in Prompts \cup Jobs, Hears(r), UNCHANGED turns,
           UNCHANGED <<displayed, flagged, awaited, prompt, settled, history>>
    PROVE  ChatViewInv'
<1> USE ChatViewTypes
<1>1. /\ r \in announced /\ announced' = announced \ {r}
      /\ UNCHANGED <<transcript, oldest, projected, watching, job>>
  BY DEF Hears
<1>2. Ended(r) /\ \A s : Ended(s)' <=> Ended(s)
  BY <1>1 DEF ChatViewInv, Ended
<1>3. announced' \subseteq announced \cup {s \in Jobs : Ended(s)'}
  BY <1>1
<1>4. CASE FetchStarts("told", r) /\ UNCHANGED <<hidden, missed>>
  <2>1. /\ fetch' \in [Fetches -> FetchRecords]
        /\ \A f \in Fetches : FetchInv(f)'
        /\ \A s : (\E f \in Fetches : Announces(f, s)) => \E f \in Fetches : Announces(f, s)'
        /\ \E f \in Fetches : Announces(f, r)'
    BY <1>1, <1>2, <1>4, FetchStartsKeeps
  <2>2. ChatViewTypeOK'
    BY <1>1, <1>4, <2>1 DEF ChatViewTypeOK, FetchRecords
  <2>3. \A s : Awaits(s) => Awaits(s)'
    BY <1>1, <2>1 DEF Awaits
  <2> QED
    BY <1>1, <1>2, <1>3, <1>4, <2>1, <2>2, <2>3, BesidePrompts
<1>5. CASE Misses(r) /\ UNCHANGED fetch
  <2>1. /\ missed' = missed \cup {r} /\ hidden \subseteq hidden' /\ hidden' \subseteq StoredMessages
        /\ \A m \in NotShown : m.of = r => m \in hidden' \/ r \in (Prompts \cap missed') \ settled
    BY <1>5, MissesMarks
  <2>2. ChatViewTypeOK'
    BY <1>1, <1>5, <2>1 DEF ChatViewTypeOK, FetchRecords
  <2>3. \A f \in Fetches : FetchInv(f)'
    BY <1>1, <1>2, <1>5 DEF ChatViewInv, FetchInv, Listed
  <2>4. ASSUME NEW s \in Prompts \cup Jobs, Awaits(s)
        PROVE  Awaits(s)' \/ /\ s \in missed'
                              /\ \A m \in NotShown :
                                    m.of = s => m \in hidden' \/ s \in (Prompts \cap missed') \ settled
    <3>1. CASE s = r
      BY <2>1, <3>1
    <3>2. CASE s # r
      BY <1>1, <1>5, <2>4, <3>2 DEF Awaits, Announces
    <3> QED
      BY <3>1, <3>2
  <2> QED
    BY <1>1, <1>2, <1>3, <2>1, <2>2, <2>3, <2>4, BesidePrompts
<1> QED
  BY <1>4, <1>5 DEF Hears

LEMMA FetchFailsKeeps ==
    ASSUME ChatViewInv, NEW f \in Fetches, FetchFails(f), turns' \in 0 .. MaxTurns,
           UNCHANGED <<displayed, flagged, awaited, prompt, settled, history>>
    PROVE  ChatViewInv'
<1> USE ChatViewTypes
<1>1. /\ fetch[f].kind # "none" /\ fetch' = [fetch EXCEPT ![f] = NoFetch]
      /\ IF fetch[f].kind = "told" THEN Misses(fetch[f].request) ELSE UNCHANGED <<hidden, missed>>
      /\ UNCHANGED <<transcript, oldest, projected, watching, job, announced>>
  BY DEF FetchFails
<1>2. fetch' \in [Fetches -> FetchRecords]
  BY <1>1, MessageListTypes
<1>3. Listed' = Listed /\ \A r : Ended(r)' <=> Ended(r)
  BY <1>1 DEF Listed, Ended
<1>4. ASSUME NEW g \in Fetches PROVE FetchInv(g)'
  <2>1. FetchInv(g)
    BY DEF ChatViewInv
  <2>2. CASE g = f
    BY <1>1, <2>2, MessageListTypes DEF FetchInv
  <2>3. CASE g # f
    <3>1. fetch'[g] = fetch[g]
      BY <1>1, <2>3
    <3> QED
      BY <1>1, <1>3, <2>1, <3>1 DEF FetchInv
  <2> QED
    BY <2>2, <2>3
<1>5. ASSUME NEW r, NEW g \in Fetches, Announces(g, r), g # f PROVE Announces(g, r)'
  BY <1>1, <1>5 DEF Announces
<1>6. fetch[f].kind = "told" => fetch[f].request \in Prompts \cup Jobs
  BY DEF ChatViewInv, FetchInv
<1>7. CASE fetch[f].kind = "told"
  <2> DEFINE r == fetch[f].request
  <2>1. Misses(r) /\ r \in Prompts \cup Jobs
    BY <1>1, <1>6, <1>7
  <2> HIDE DEF r
  <2>2. /\ missed' = missed \cup {r} /\ hidden \subseteq hidden' /\ hidden' \subseteq StoredMessages
        /\ \A m \in NotShown : m.of = r => m \in hidden' \/ r \in (Prompts \cap missed') \ settled
    BY <2>1, MissesMarks
  <2>3. ChatViewTypeOK'
    BY <1>1, <1>2, <2>1, <2>2 DEF ChatViewTypeOK, FetchRecords
  <2>4. ASSUME NEW s \in Prompts \cup Jobs, Awaits(s)
        PROVE  Awaits(s)' \/ /\ s \in missed'
                              /\ \A m \in NotShown :
                                    m.of = s => m \in hidden' \/ s \in (Prompts \cap missed') \ settled
    <3>1. CASE s = r
      BY <2>1, <2>2, <3>1
    <3>2. CASE s # r
      <4>1. \A g \in Fetches : Announces(g, s) => g # f
        BY <3>2 DEF Announces, r
      <4> QED
        BY <1>1, <1>5, <2>4, <4>1 DEF Awaits
    <3> QED
      BY <3>1, <3>2
  <2> QED
    BY <1>1, <1>3, <1>4, <2>1, <2>2, <2>3, <2>4, BesidePrompts
<1>8. CASE fetch[f].kind # "told"
  <2>1. UNCHANGED <<hidden, missed>>
    BY <1>1, <1>8
  <2>2. ChatViewTypeOK'
    BY <1>1, <1>2, <2>1 DEF ChatViewTypeOK, FetchRecords
  <2>3. \A r : \A g \in Fetches : Announces(g, r) => g # f
    BY <1>8 DEF Announces
  <2>4. \A r : Awaits(r) => Awaits(r)'
    BY <1>1, <1>5, <2>3 DEF Awaits
  <2> QED
    BY <1>1, <1>3, <1>4, <2>1, <2>2, <2>4, BesidePrompts
<1> QED
  BY <1>7, <1>8

\* What merging takes over besides the list is not stored.
LEMMA MergedMessages ==
    ASSUME ChatViewInv, NEW items \in SUBSET StoredMessages, NEW texts
    PROVE  /\ Merged(items, texts) \subseteq ViewMessages
           /\ Merged(items, texts) \cap StoredMessages = items
<1> USE ChatViewTypes, MessagesDiffer
<1> QED
  BY DEF Merged, ViewMessages

LEMMA FetchShowsKeeps ==
    ASSUME ChatViewInv, NEW f \in Fetches, FetchShows(f)
    PROVE  ChatViewInv'
<1> USE ChatViewTypes, MessagesDiffer
<1> DEFINE list == fetch[f].list
           messages == IF fetch[f].kind = "open" THEN list.items ELSE Merged(list.items, {})
           fetches == [fetch EXCEPT ![f] = NoFetch]
           r == fetch[f].request
<1>1. /\ list.read /\ Shows(messages, list, history, fetches) /\ EndsRequest(r)
      /\ UNCHANGED <<transcript, oldest, flagged, watching, prompt, settled, job, announced, turns,
                     missed>>
  BY DEF FetchShows
<1>2. list \in Lists /\ list.items \in SUBSET StoredMessages
  BY DEF FetchRecords, Lists
<1>3. messages \in SUBSET ViewMessages /\ messages \cap StoredMessages = list.items
  BY <1>2, MergedMessages DEF ViewMessages
<1>4. /\ list.items \subseteq transcript
      /\ fetch[f].kind = "told" => {m \in Listed : m.of = r} \subseteq list.items
      /\ list.stale \/ displayed \cap Listed \subseteq list.items \cup list.beyond
  BY <1>1 DEF ChatViewInv, FetchInv
<1>5. fetches \in [Fetches -> FetchRecords]
  BY MessageListTypes
<1>6. \A g \in Fetches : (g = f => fetches[g] = NoFetch) /\ (g # f => fetches[g] = fetch[g])
  OBVIOUS
<1> HIDE DEF messages, fetches
<1>7. /\ displayed' \subseteq ViewMessages /\ hidden' \subseteq StoredMessages
      /\ history' \in [Prompts -> Lists] /\ fetch' \in [Fetches -> FetchRecords]
      /\ displayed' \cap StoredMessages \subseteq transcript
      /\ \A p \in Prompts :
            /\ history'[p].read = history[p].read /\ history'[p].items = history[p].items
            /\ history'[p].beyond = history[p].beyond
            /\ history'[p].read => history'[p].stale
      /\ \A g \in Fetches :
            /\ fetch'[g].kind = fetches[g].kind /\ fetch'[g].request = fetches[g].request
            /\ fetch'[g].list.read = fetches[g].list.read
            /\ fetch'[g].list.items = fetches[g].list.items
            /\ fetch'[g].list.read => fetch'[g].list.stale
      /\ NotShown' \subseteq NotShown \ (list.items \cup list.beyond)
  BY <1>1, <1>2, <1>3, <1>4, <1>5, ShowsKeeps
<1>8. /\ awaited' \in {awaited, NoPrompt} /\ projected' \subseteq projected
      /\ \A s \in projected \ projected' : s = r
      /\ r \in projected => r \notin projected'
  <2>1. \A p \in Prompts : awaited = p => p \notin projected
    BY DEF ChatViewInv, PromptInv
  <2>2. awaited = r /\ r \in projected => FALSE
    BY <2>1, ChatViewAssumption
  <2> HIDE DEF r
  <2> QED
    BY <1>1, <2>2 DEF EndsRequest
<1>9. ChatViewTypeOK'
  BY <1>1, <1>7, <1>8 DEF ChatViewTypeOK, FetchRecords
<1>10. ASSUME NEW p \in Prompts PROVE PromptInv(p)' /\ HistoryInv(p)'
  <2>1. PromptInv(p) /\ HistoryInv(p)
    BY DEF ChatViewInv
  <2>2. PromptInv(p)'
    BY <1>1, <1>8, <2>1, ChatViewAssumption DEF PromptInv
  <2> QED
    BY <1>1, <1>7, <2>1, <2>2 DEF HistoryInv
<1>11. Listed' = Listed /\ \A s : Ended(s)' <=> Ended(s)
  BY <1>1 DEF Listed, Ended
<1>12. ASSUME NEW g \in Fetches PROVE FetchInv(g)'
  <2>1. FetchInv(g)
    BY DEF ChatViewInv
  <2>2. CASE g = f
    BY <1>6, <1>7, <2>2, MessageListTypes DEF FetchInv
  <2>3. CASE g # f
    <3>1. /\ fetch'[g].kind = fetch[g].kind /\ fetch'[g].request = fetch[g].request
          /\ fetch'[g].list.read = fetch[g].list.read
          /\ fetch'[g].list.items = fetch[g].list.items
          /\ fetch'[g].list.read => fetch'[g].list.stale
      BY <1>6, <1>7, <2>3
    <3> QED
      BY <1>1, <1>11, <2>1, <3>1 DEF FetchInv
  <2> QED
    BY <2>2, <2>3
<1>13. ASSUME NEW s, NEW g \in Fetches, Announces(g, s)
       PROVE  Announces(g, s)' \/ (g = f /\ fetch[f].kind = "told" /\ s = r)
  BY <1>6, <1>7, <1>13 DEF Announces
<1>14. ASSUME NEW s, Awaits(s) PROVE Awaits(s)' \/ (fetch[f].kind = "told" /\ s = r)
  BY <1>1, <1>13, <1>14 DEF Awaits
<1>15. ASSUME NEW m \in NotShown' PROVE Awaits(m.of)' \/ m.of \in (Prompts \cap missed') \ settled'
  <2>1. m \in NotShown /\ m \notin list.items /\ m \in Listed
    BY <1>7 DEF NotShown
  <2>2. Awaits(m.of) \/ m.of \in (Prompts \cap missed) \ settled
    BY <2>1 DEF ChatViewInv, MissingIsComing
  <2>3. ~(fetch[f].kind = "told" /\ m.of = r)
    BY <1>4, <2>1
  <2> HIDE DEF r
  <2> QED
    BY <1>1, <1>14, <2>2, <2>3
<1>16. MissingIsComing'
  BY <1>15 DEF MissingIsComing
<1>17. RunsWillEnd'
  <2> SUFFICES ASSUME NEW s \in projected' \ missed' PROVE Awaits(s)'
    BY DEF RunsWillEnd
  <2>1. Awaits(s) /\ s # r
    BY <1>1, <1>8 DEF ChatViewInv, RunsWillEnd
  <2> HIDE DEF r
  <2> QED
    BY <1>14, <2>1
<1>18. \A s \in announced' : Ended(s)'
  BY <1>1, <1>11 DEF ChatViewInv
<1>19. \A j \in Jobs : Noted(j) \in transcript' => job'[j] = "ended"
  BY <1>1 DEF ChatViewInv
<1> QED
  BY <1>1, <1>7, <1>9, <1>10, <1>12, <1>16, <1>17, <1>18, <1>19 DEF ChatViewInv

LEMMA ReplyArrivesKeeps ==
    ASSUME ChatViewInv, NEW p \in Prompts, ReplyArrives(p),
           UNCHANGED <<projected, watching, job, turns>>
    PROVE  ChatViewInv'
<1> USE ChatViewTypes, MessagesDiffer
<1>1. /\ prompt[p] = "answered" /\ p \notin settled /\ settled' = settled \cup {p}
      /\ UNCHANGED <<transcript, oldest, flagged, prompt, announced, missed>>
  BY DEF ReplyArrives
<1> DEFINE list == history[p]
           messages == Merged(list.items, TextsOf(list.items))
           histories == [history EXCEPT ![p] = Unread]
<1>2. CASE awaited = p /\ awaited' = NoPrompt /\ Shows(messages, list, histories, fetch)
  <2>1. /\ list \in Lists /\ list.items \in SUBSET StoredMessages /\ list.items \subseteq transcript
        /\ {Asked(p), Replied(p)} \subseteq list.items \cup list.beyond
        /\ list.stale \/ displayed \cap StoredMessages \subseteq list.items \cup list.beyond
    BY <1>1 DEF ChatViewInv, HistoryInv, Lists
  <2>2. /\ histories \in [Prompts -> Lists]
        /\ \A q \in Prompts : (q = p => histories[q] = Unread) /\ (q # p => histories[q] = history[q])
    BY MessageListTypes
  <2>3. messages \in SUBSET ViewMessages /\ messages \cap StoredMessages = list.items
    BY <2>1, MergedMessages
  <2>4. list.stale \/ displayed \cap Listed \subseteq list.items \cup list.beyond
    BY <2>1
  <2> HIDE DEF messages, histories
  <2>5. /\ displayed' \subseteq ViewMessages /\ hidden' \subseteq StoredMessages
        /\ history' \in [Prompts -> Lists] /\ fetch' \in [Fetches -> FetchRecords]
        /\ displayed' \cap StoredMessages \subseteq transcript
        /\ \A q \in Prompts :
              /\ history'[q].read = histories[q].read /\ history'[q].items = histories[q].items
              /\ history'[q].beyond = histories[q].beyond
              /\ history'[q].read => history'[q].stale
        /\ \A g \in Fetches :
              /\ fetch'[g].kind = fetch[g].kind /\ fetch'[g].request = fetch[g].request
              /\ fetch'[g].list.read = fetch[g].list.read
              /\ fetch'[g].list.items = fetch[g].list.items
              /\ fetch'[g].list.read => fetch'[g].list.stale
        /\ NotShown' \subseteq NotShown \ (list.items \cup list.beyond)
    BY <1>1, <1>2, <2>1, <2>2, <2>3, <2>4, ShowsKeeps
  <2>6. ChatViewTypeOK'
    BY <1>1, <1>2, <2>5 DEF ChatViewTypeOK, FetchRecords
  <2>7. ASSUME NEW q \in Prompts PROVE PromptInv(q)' /\ HistoryInv(q)'
    <3>1. PromptInv(q) /\ HistoryInv(q)
      BY DEF ChatViewInv
    <3>2. PromptInv(q)'
      BY <1>1, <1>2, <3>1, ChatViewAssumption DEF PromptInv
    <3>3. ASSUME q = p PROVE HistoryInv(q)'
      <4>1. ~history'[q].read /\ q \in settled'
        BY <1>1, <2>2, <2>5, <3>3, MessageListTypes
      <4> QED
        BY <4>1 DEF HistoryInv
    <3>4. ASSUME q # p PROVE HistoryInv(q)'
      <4>1. histories[q] = history[q]
        BY <2>2, <3>4
      <4>2. /\ history'[q].read = history[q].read /\ history'[q].items = history[q].items
            /\ history'[q].beyond = history[q].beyond
            /\ history'[q].read => history'[q].stale
        BY <4>1, <2>5
      <4>3. prompt'[q] = prompt[q] /\ (q \in settled' <=> q \in settled) /\ transcript' = transcript
        BY <1>1, <3>4
      <4> QED
        BY <4>2, <4>3, <3>1 DEF HistoryInv
    <3> QED
      BY <3>2, <3>3, <3>4
  <2>8. Listed' = Listed /\ \A r : Ended(r)' <=> Ended(r)
    BY <1>1 DEF Listed, Ended
  <2>9. \A r : Awaits(r) => Awaits(r)'
    BY <1>1, <2>5 DEF Awaits, Announces
  <2>10. ASSUME NEW f \in Fetches PROVE FetchInv(f)'
    <3>1. FetchInv(f)
      BY DEF ChatViewInv
    <3> QED
      BY <1>1, <2>5, <2>8, <3>1 DEF FetchInv
  <2>11. ASSUME NEW m \in NotShown' PROVE Awaits(m.of)' \/ m.of \in (Prompts \cap missed') \ settled'
    <3>1. m \in NotShown /\ m \notin {Asked(p), Replied(p)} /\ m \in StoredMessages
      BY <2>1, <2>5
    <3>2. Awaits(m.of) \/ m.of \in (Prompts \cap missed) \ settled
      BY <3>1 DEF ChatViewInv, MissingIsComing
    <3>3. m.of # p
      BY <3>1, ChatViewAssumption
    <3> QED
      BY <1>1, <2>9, <3>2, <3>3
  <2>12. MissingIsComing'
    BY <2>11 DEF MissingIsComing
  <2>13. RunsWillEnd' /\ \A r \in announced' : Ended(r)'
    BY <1>1, <2>8, <2>9 DEF ChatViewInv, RunsWillEnd
  <2>14. \A j \in Jobs : Noted(j) \in transcript' => job'[j] = "ended"
    BY <1>1 DEF ChatViewInv
  <2> QED
    BY <1>1, <2>5, <2>6, <2>7, <2>10, <2>12, <2>13, <2>14 DEF ChatViewInv
<1>3. CASE awaited # p /\ Drops(p) /\ UNCHANGED <<displayed, awaited, fetch>>
  BY <1>1, <1>3, DropsKeeps
<1> QED
  BY <1>2, <1>3 DEF ReplyArrives

LEMMA ClearsKeeps ==
    ASSUME ChatViewInv, Clears
    PROVE  ChatViewInv'
<1> USE ChatViewTypes, MessagesDiffer
<1>1. /\ turns' = turns + 1 /\ turns < MaxTurns
      /\ displayed' = {} /\ awaited' = NoPrompt /\ projected' = {}
      /\ hidden' = hidden \cup (displayed \cap StoredMessages)
      /\ UNCHANGED <<transcript, oldest, flagged, watching, prompt, settled, history, job, fetch,
                     announced, missed>>
  BY DEF Clears, Turn
<1>2. turns' \in 0 .. MaxTurns
  BY <1>1, ChatViewAssumption
<1>3. ChatViewTypeOK'
  BY <1>1, <1>2 DEF ChatViewTypeOK, FetchRecords
<1>4. ASSUME NEW q \in Prompts PROVE PromptInv(q)' /\ HistoryInv(q)'
  <2>1. PromptInv(q) /\ HistoryInv(q)
    BY DEF ChatViewInv
  <2>2. PromptInv(q)'
    BY <1>1, <2>1, ChatViewAssumption DEF PromptInv
  <2> QED
    BY <1>1, <2>1, <2>2 DEF HistoryInv
<1>5. Listed' = Listed /\ NotShown' \subseteq NotShown
  BY <1>1 DEF Listed, NotShown
<1>6. \A r : (Ended(r)' <=> Ended(r)) /\ (Awaits(r) => Awaits(r)')
  BY <1>1 DEF Ended, Awaits, Announces
<1>7. ASSUME NEW f \in Fetches PROVE FetchInv(f)'
  <2>1. FetchInv(f)
    BY DEF ChatViewInv
  <2> QED
    BY <1>1, <1>5, <1>6, <2>1 DEF FetchInv
<1>8. MissingIsComing'
  BY <1>1, <1>5, <1>6 DEF ChatViewInv, MissingIsComing
<1>9. RunsWillEnd' /\ \A r \in announced' : Ended(r)'
  BY <1>1, <1>6 DEF ChatViewInv, RunsWillEnd
<1> QED
  BY <1>1, <1>3, <1>4, <1>7, <1>8, <1>9 DEF ChatViewInv

LEMMA ChatViewStepInv ==
    ASSUME ChatViewInv, [ChatViewNext]_viewVars
    PROVE  ChatViewInv'
<1>1. /\ turns \in 0 .. MaxTurns
      /\ Turn \/ UNCHANGED turns => turns' \in 0 .. MaxTurns
  BY ChatViewTypes, ChatViewAssumption DEF Turn
<1>2. CASE Sending
  <2>1. UNCHANGED <<projected, watching, job>>
    BY <1>2 DEF Sending
  <2>2. ASSUME NEW p \in Prompts, ReplyArrives(p), UNCHANGED turns PROVE ChatViewInv'
    BY <2>1, <2>2, ReplyArrivesKeeps
  <2>3. ASSUME NEW p \in Prompts, Submits(p), Turn, UNCHANGED fetch PROVE ChatViewInv'
    BY <1>1, <2>1, <2>3, SubmitsKeeps
  <2>4. ASSUME NEW p \in Prompts, DesktopSteps(p), UNCHANGED <<fetch, turns>> PROVE ChatViewInv'
    BY <2>1, <2>4, DesktopStepsKeeps
  <2>5. ASSUME NEW p \in Prompts, ErrorArrives(p), UNCHANGED <<fetch, turns>> PROVE ChatViewInv'
    BY <2>1, <2>5, ErrorArrivesKeeps
  <2>6. ASSUME Cancels \/ (\E p \in Prompts : Retries(p)), Turn, UNCHANGED fetch PROVE ChatViewInv'
    BY <1>1, <2>1, <2>6, PromptRests
  <2> QED
    BY <1>2, <2>2, <2>3, <2>4, <2>5, <2>6 DEF Sending
<1>3. CASE Background
  <2>1. UNCHANGED <<displayed, flagged, awaited, prompt, settled, history>>
    BY <1>3 DEF Background
  <2>2. ASSUME NEW r \in Prompts \cup Jobs, Streams(r), UNCHANGED turns PROVE ChatViewInv'
    BY <2>1, <2>2, StreamsKeeps
  <2>3. ASSUME NEW j \in Jobs, JobEnds(j), UNCHANGED turns PROVE ChatViewInv'
    BY <2>1, <2>3, JobEndsKeeps
  <2>a. ASSUME NEW j \in Jobs, JobBegins(j), Turn PROVE ChatViewInv'
    BY <1>1, <2>1, <2>a, JobBeginsKeeps
  <2>4. ASSUME NEW r \in Prompts \cup Jobs, Hears(r), UNCHANGED turns PROVE ChatViewInv'
    BY <2>1, <2>4, HearsKeeps
  <2>5. ASSUME Visits \/ (\E f \in Fetches : FetchReads(f)), UNCHANGED turns PROVE ChatViewInv'
    BY <1>1, <2>1, <2>5, FetchingKeeps
  <2>6. ASSUME Leaves \/ Refreshes, Turn PROVE ChatViewInv'
    BY <1>1, <2>1, <2>6, FetchingKeeps
  <2>7. ASSUME NEW f \in Fetches, FetchFails(f), Turn PROVE ChatViewInv'
    BY <1>1, <2>1, <2>7, FetchFailsKeeps
  <2> QED
    BY <1>3, <2>2, <2>3, <2>a, <2>4, <2>5, <2>6, <2>7 DEF Background
<1>4. CASE Clears
  BY <1>4, ClearsKeeps
<1>5. ASSUME NEW f \in Fetches, FetchShows(f) PROVE ChatViewInv'
  BY <1>5, FetchShowsKeeps
<1>6. CASE UNCHANGED viewVars
  <2>1. UNCHANGED <<transcript, oldest, displayed, flagged, awaited, projected, watching, prompt,
                    settled, history, job, fetch, announced, turns, hidden, missed>>
    BY <1>6 DEF viewVars
  <2> QED
    BY <2>1 DEF ChatViewInv, ChatViewTypeOK, PromptInv, HistoryInv, FetchInv, Listed, Ended,
                Awaits, MissingIsComing, NotShown, Announces, RunsWillEnd
<1> QED
  BY <1>2, <1>3, <1>4, <1>5, <1>6 DEF ChatViewNext

LEMMA ChatViewInvariant == ChatViewSpec => []ChatViewInv
<1>1. ChatViewInit => ChatViewInv
  BY ChatViewInitInv
<1>2. ChatViewInv /\ [ChatViewNext]_viewVars => ChatViewInv'
  BY ChatViewStepInv
<1> QED
  BY <1>1, <1>2, PTL DEF ChatViewSpec

LEMMA ChatViewInvComplete == ChatViewInv => SettledViewIsComplete
<1> SUFFICES ASSUME ChatViewInv, Settled
             PROVE  Listed \ displayed \subseteq hidden /\ projected \subseteq missed
  BY DEF SettledViewIsComplete
<1> USE ChatViewTypes, MessagesDiffer
<1>1. \A r \in Prompts \cup Jobs : ~Awaits(r)
  BY MessageListTypes DEF Settled, Awaits, Announces
<1>2. ASSUME NEW m \in NotShown PROVE FALSE
  <2>1. m.of \in (Prompts \cap missed) \ settled /\ m \in {Asked(m.of), Replied(m.of)}
    BY <1>1, ChatViewAssumption DEF ChatViewInv, MissingIsComing
  <2>2. prompt[m.of] = "unsent" /\ PromptInv(m.of) /\ m \in transcript
    BY <2>1 DEF Settled, ChatViewInv
  <2> QED
    BY <2>1, <2>2 DEF PromptInv
<1>3. Listed \ displayed \subseteq hidden
  BY <1>2 DEF NotShown
<1>4. projected \subseteq missed
  BY <1>1 DEF ChatViewInv, RunsWillEnd
<1> QED
  BY <1>3, <1>4

\* Whatever the order of answers, events and fetches, what a window that waits
\* for nothing lacks was dropped, cut off or missed on the way: the run's
\* WindowsShowWhatIsThere, for every number of prompts, executions and fetches.
THEOREM WindowsAlwaysShowWhatIsThere == WindowsSpec => []WindowsShowWhatIsThere
<1>1. ChatViewInv /\ PanelsInv => WindowsShowWhatIsThere
  BY ChatViewInvComplete, PanelsInvShows DEF WindowsShowWhatIsThere
<1> QED
  BY <1>1, ChatViewInvariant, PanelsInvariant, PTL DEF WindowsSpec

=============================================================================
