---------------------------- MODULE CodexSessions ----------------------------
(***************************************************************************)
(* Interactive codex sessions: codex.rs behind the tools of tools/codex.rs *)
(*                                                                         *)
(*   Sessions       ids; start_session makes a fresh one                   *)
(*   SessionCalls   calls of the tools that may be in flight at once       *)
(*                                                                         *)
(* A session is a row of codex_sessions and an entry of LIVE_SESSIONS, a   *)
(* vector behind a lock that most calls hold over their statements.  Every *)
(* process has a background task that waits for it and records its exit on *)
(* the first entry with the session's id.  That task owns the child, so no *)
(* other call can kill it.                                                 *)
(***************************************************************************)
EXTENDS Integers, Sequences, FiniteSets

CONSTANTS
    Sessions, SessionCalls, NoSession, NoCall,
    MaxProcesses,   \* bound: processes of a session that run or ended unrecorded
    MaxQuits        \* bound: ends of the desktop in a behaviour

ASSUME CodexSessionsAssumption ==
    /\ NoSession \notin Sessions /\ NoCall \notin SessionCalls
    /\ MaxProcesses \in Nat /\ MaxQuits \in Nat

VARIABLES
    stored,      \* stored[s]: the status in codex_sessions
    live,        \* live[s]: the statuses of its entries in LIVE_SESSIONS, in order
    registry,    \* who holds the write lock of LIVE_SESSIONS
    handling,    \* handling[c]: what a call is doing
    alive,       \* alive[s]: running processes a background task waits for
    ending,      \* ending[s]: exits the background tasks have not recorded
    unheard,     \* history: sessions whose process ended before they had an entry
    outrun,      \* history: sessions resumed from the row while another call had them
    quits        \* history: ends of the desktop so far

sessionVars == <<stored, live, registry, handling, alive, ending, unheard, outrun, quits>>

\* created, ready and await_input last no statement or are never set.
SessionStatuses == {"starting", "running", "interrupted", "resumable", "completed", "failed"}
TerminalSession == {"completed", "failed"}

\* valid_transitions, between the statuses a call moves a session.
SessionTargets == [ starting    |-> {"running", "failed"},
                    running     |-> {"interrupted", "completed", "failed"},
                    interrupted |-> {"resumable", "failed"},
                    resumable   |-> {"starting", "failed"},
                    completed   |-> {},
                    failed      |-> {} ]

HandlingPlaces == {"idle", "registering", "annotating", "interrupting", "stopping",
                 "respawning", "loading", "starting", "spawning"}
HandlingAt(place, s) == [at |-> place, session |-> s]
NotHandling == HandlingAt("idle", NoSession)

SessionsTypeOK ==
    /\ stored \in [Sessions -> SessionStatuses \cup {"none"}]
    /\ \A s \in Sessions : live[s] \in Seq(SessionStatuses)
    /\ registry \in SessionCalls \cup {NoCall}
    /\ handling \in [SessionCalls -> [at : HandlingPlaces, session : Sessions \cup {NoSession}]]
    /\ \A c \in SessionCalls : handling[c].at # "idle" => handling[c].session \in Sessions
    /\ alive \in [Sessions -> 0 .. MaxProcesses] /\ ending \in [Sessions -> 0 .. MaxProcesses]
    /\ unheard \subseteq Sessions /\ outrun \subseteq Sessions
    /\ quits \in 0 .. MaxQuits

SessionsInit ==
    /\ stored = [s \in Sessions |-> "none"]
    /\ live = [s \in Sessions |-> <<>>]
    /\ registry = NoCall
    /\ handling = [c \in SessionCalls |-> NotHandling]
    /\ alive = [s \in Sessions |-> 0] /\ ending = [s \in Sessions |-> 0]
    /\ unheard = {} /\ outrun = {}
    /\ quits = 0

Registered(s) == live[s] # <<>>

\* The first entry with the id, which is the one find and position return.
Entry(s) == live[s][1]

\* The first entry of s and its row become st: the entry is persisted.
Becomes(s, st) ==
    /\ live' = [live EXCEPT ![s][1] = st]
    /\ stored' = [stored EXCEPT ![s] = st]

SessionGoes(c, next) == handling' = [handling EXCEPT ![c] = next]

Spawns(s) ==
    /\ alive[s] + ending[s] < MaxProcesses
    /\ alive' = [alive EXCEPT ![s] = @ + 1]
    /\ UNCHANGED ending

----------------------------------------------------------------------------
(* start_session                                                           *)

\* The process, then the row; a spawn that fails leaves nothing.
StartsSession(c, s) ==
    /\ handling[c] = NotHandling /\ stored[s] = "none"
    /\ Spawns(s)
    /\ stored' = [stored EXCEPT ![s] = "running"]
    /\ SessionGoes(c, HandlingAt("registering", s))
    /\ UNCHANGED <<live, registry, unheard, outrun, quits>>

\* The entry is pushed when the process has been running for a while.
RegistersSession(c) ==
    LET s == handling[c].session
    IN /\ handling[c].at = "registering" /\ registry = NoCall
       /\ live' = [live EXCEPT ![s] = Append(@, "running")]
       /\ \E place \in {"annotating", "idle"} :
             SessionGoes(c, IF place = "idle" THEN NotHandling ELSE HandlingAt(place, s))
       /\ UNCHANGED <<stored, registry, alive, ending, unheard, outrun, quits>>

\* The workspace's id, under the lock again, with the entry as it is now.
AnnotatesSession(c) ==
    LET s == handling[c].session
    IN /\ handling[c].at = "annotating" /\ registry = NoCall
       /\ stored' = IF Registered(s) THEN [stored EXCEPT ![s] = Entry(s)] ELSE stored
       /\ SessionGoes(c, NotHandling)
       /\ UNCHANGED <<live, registry, alive, ending, unheard, outrun, quits>>

----------------------------------------------------------------------------
(* The background task of a process                                        *)

SessionProcessEnds(s) ==
    /\ alive[s] > 0
    /\ alive' = [alive EXCEPT ![s] = @ - 1]
    /\ ending' = [ending EXCEPT ![s] = @ + 1]
    /\ UNCHANGED <<stored, live, registry, handling, unheard, outrun, quits>>

\* Faulty: the exit is kept in memory only.
ForgetsToStore(s) ==
    /\ ending[s] > 0 /\ registry = NoCall
    /\ ending' = [ending EXCEPT ![s] = @ - 1]
    /\ live' = IF Registered(s) THEN [live EXCEPT ![s][1] = "completed"] ELSE live
    /\ UNCHANGED <<stored, registry, handling, alive, unheard, outrun, quits>>

\* Whatever the status is, the first entry takes the verdict of the exit;
\* without an entry nothing is recorded.
RecordsExit(s) ==
    /\ ending[s] > 0 /\ registry = NoCall
    /\ ending' = [ending EXCEPT ![s] = @ - 1]
    /\ IF Registered(s)
          THEN /\ \E st \in TerminalSession : Becomes(s, st)
               /\ UNCHANGED unheard
          ELSE /\ unheard' = IF \E c \in SessionCalls : handling[c] = HandlingAt("registering", s)
                             THEN unheard \cup {s} ELSE unheard
               /\ UNCHANGED <<stored, live>>
    /\ UNCHANGED <<registry, handling, alive, outrun, quits>>

----------------------------------------------------------------------------
(* interrupt_session and stop_session: two statements under the lock       *)

InterruptsSession(c, s) ==
    /\ handling[c] = NotHandling /\ registry = NoCall /\ Registered(s)
    /\ Entry(s) \notin TerminalSession /\ "interrupted" \in SessionTargets[Entry(s)]
    /\ Becomes(s, "interrupted")
    /\ registry' = c
    /\ SessionGoes(c, HandlingAt("interrupting", s))
    /\ UNCHANGED <<alive, ending, unheard, outrun, quits>>

\* The entry is removed, whatever its status is.
StopsSession(c, s) ==
    /\ handling[c] = NotHandling /\ registry = NoCall /\ Registered(s)
    /\ live' = [live EXCEPT ![s] = Tail(@)]
    /\ stored' = [stored EXCEPT ![s] = "interrupted"]
    /\ registry' = c
    /\ unheard' = unheard \ {s}
    /\ SessionGoes(c, HandlingAt("stopping", s))
    /\ UNCHANGED <<alive, ending, outrun, quits>>

\* The second statement; the lock is released on return.
MakesResumable(c) ==
    LET s == handling[c].session
    IN /\ \/ handling[c].at = "interrupting" /\ Becomes(s, "resumable")
          \/ /\ handling[c].at = "stopping"
             /\ stored' = [stored EXCEPT ![s] = "resumable"]
             /\ UNCHANGED live
       /\ registry' = NoCall
       /\ SessionGoes(c, NotHandling)
       /\ UNCHANGED <<alive, ending, unheard, outrun, quits>>

----------------------------------------------------------------------------
(* resume_session                                                          *)

\* Both tests of the code: the guard lets interrupted pass, the table does not.
Resumable(st) == st \in {"resumable", "interrupted"} /\ "starting" \in SessionTargets[st]

\* With an entry everything happens under the lock.
ResumesEntry(c, s) ==
    /\ handling[c] = NotHandling /\ registry = NoCall /\ Registered(s)
    /\ Resumable(Entry(s))
    /\ Becomes(s, "starting")
    /\ registry' = c
    /\ SessionGoes(c, HandlingAt("respawning", s))
    /\ UNCHANGED <<alive, ending, unheard, outrun, quits>>

\* The process, or an error that leaves the session starting.
RespawnsEntry(c) ==
    LET s == handling[c].session
    IN /\ handling[c].at = "respawning"
       /\ \/ Becomes(s, "running") /\ Spawns(s)
          \/ UNCHANGED <<stored, live, alive, ending>>
       /\ registry' = NoCall
       /\ SessionGoes(c, NotHandling)
       /\ UNCHANGED <<unheard, outrun, quits>>

\* Without an entry the lock is dropped, and the row is read, ...
ResumesRow(c, s) ==
    /\ handling[c] = NotHandling /\ registry = NoCall /\ ~Registered(s) /\ stored[s] # "none"
    /\ SessionGoes(c, HandlingAt("loading", s))
    /\ UNCHANGED <<stored, live, registry, alive, ending, unheard, outrun, quits>>

LoadsRow(c) ==
    LET s == handling[c].session
    IN /\ handling[c].at = "loading"
       /\ SessionGoes(c, IF Resumable(stored[s]) THEN HandlingAt("starting", s) ELSE NotHandling)
       /\ UNCHANGED <<stored, live, registry, alive, ending, unheard, outrun, quits>>

\* The look at the registry is stale: another call has s in hand, or s has an entry.
Overtaken(c, s) ==
    \/ Registered(s)
    \/ \E d \in SessionCalls \ {c} : handling[d].session = s /\ handling[d].at # "loading"

\* ... written, ...
MarksStarting(c) ==
    LET s == handling[c].session
    IN /\ handling[c].at = "starting"
       /\ stored' = [stored EXCEPT ![s] = "starting"]
       /\ outrun' = IF Overtaken(c, s) THEN outrun \cup {s} ELSE outrun
       /\ SessionGoes(c, HandlingAt("spawning", s))
       /\ UNCHANGED <<live, registry, alive, ending, unheard, quits>>

\* ... and written again with the process; then it is registered like a new one.
SpawnsAgain(c) ==
    LET s == handling[c].session
    IN /\ handling[c].at = "spawning"
       /\ \/ /\ Spawns(s)
             /\ stored' = [stored EXCEPT ![s] = "running"]
             /\ SessionGoes(c, HandlingAt("registering", s))
          \/ SessionGoes(c, NotHandling) /\ UNCHANGED <<stored, alive, ending>>
       /\ UNCHANGED <<live, registry, unheard, outrun, quits>>

----------------------------------------------------------------------------
\* The desktop ends: entries, calls and background tasks are gone.
Quits ==
    /\ quits < MaxQuits
    /\ quits' = quits + 1
    /\ live' = [s \in Sessions |-> <<>>]
    /\ registry' = NoCall
    /\ handling' = [c \in SessionCalls |-> NotHandling]
    /\ alive' = [s \in Sessions |-> 0] /\ ending' = [s \in Sessions |-> 0]
    /\ unheard' = {} /\ outrun' = {}
    /\ UNCHANGED stored

SessionsNext ==
    \/ \E c \in SessionCalls :
          \/ RegistersSession(c) \/ AnnotatesSession(c) \/ MakesResumable(c)
          \/ RespawnsEntry(c) \/ LoadsRow(c) \/ MarksStarting(c) \/ SpawnsAgain(c)
          \/ \E s \in Sessions :
                \/ StartsSession(c, s) \/ InterruptsSession(c, s) \/ StopsSession(c, s)
                \/ ResumesEntry(c, s) \/ ResumesRow(c, s)
    \/ \E s \in Sessions : SessionProcessEnds(s) \/ RecordsExit(s)
    \/ Quits

SessionsSpec == SessionsInit /\ [][SessionsNext]_sessionVars

----------------------------------------------------------------------------
(* Properties                                                              *)

(***************************************************************************)
(* A session is a row, an entry of the registry and a process.             *)
(*                                                                         *)
(* The row is written by every call that changes the entry                 *)
(* (codex.rs:278-306): when nobody holds the lock the two agree, and a     *)
(* session has one entry, unless it was resumed from its row while another *)
(* call had it in hand.                                                    *)
(*                                                                         *)
(* A session shown as running has a process, or one whose end is about to  *)
(* be recorded: the exit goes to whatever entry carries the id             *)
(* (codex.rs:524-536), also after interrupts and resumes.  Besides the     *)
(* overtaken resumes, the exception is a process that ended before its     *)
(* entry was pushed.                                                       *)
(***************************************************************************)
SessionsAreTracked ==
    \A s \in Sessions \ outrun :
        /\ Len(live[s]) <= 1
        /\ registry = NoCall /\ Registered(s) => Entry(s) = stored[s]
        /\ Registered(s) /\ Entry(s) = "running" /\ s \notin unheard
              => alive[s] + ending[s] > 0

=============================================================================
