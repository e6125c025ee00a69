---------------------------- MODULE ReviewQueue ----------------------------
(***************************************************************************)
(* The queue of results to review (tasks.rs): a table that short-lived     *)
(* processes write, one for each hook event of a terminal agent            *)
(* (conductor-cli hook ...), next to the user's verdicts and the import of *)
(* the old tasks.json, and the file tasks.md rendered from it.             *)
(*                                                                         *)
(*   QueueWriters  processes that may run at a time                        *)
(*   Identities    what events say about who they come from: a session and *)
(*                 a terminal with its directory, either may be missing    *)
(*                                                                         *)
(* A file lock serialises what with_lock encloses; a hook looks its task   *)
(* up before it takes the lock, and numbers a new one and adds it under    *)
(* two.  All events are of one source.                                     *)
(***************************************************************************)
EXTENDS Integers, FiniteSets, FiniteSetsExt

CONSTANTS
    QueueWriters, Identities, NoWriter, NoName,
    MaxReviews,   \* bound: tasks that get a number
    MaxWriters    \* bound: processes started in a behaviour

ASSUME ReviewAssumption ==
    /\ NoWriter \notin QueueWriters /\ MaxReviews \in Nat \ {0} /\ MaxWriters \in Nat
    /\ \A who \in Identities : who = [session |-> who.session, terminal |-> who.terminal]

VARIABLES
    reviews,     \* reviews[i]: the row with number i of the day
    writer,      \* writer[w]: a process, and what it holds
    queueLock,   \* who holds conductor.sqlite.lock
    queueFile,   \* the rows tasks.md shows, or Torn
    legacyFile,  \* tasks.json is still there, with a pending task of number 1
    started,     \* processes started so far
    contended,   \* history: sessions two hooks worked for at a time
    judged,      \* history: tasks the user gave a verdict
    raced,       \* history: tasks some process had in hand at the verdict
    spoiled      \* history: a render died or overlapped the import's

reviewVars == <<reviews, writer, queueLock, queueFile, legacyFile, started, contended, judged,
                raced, spoiled>>

Reviews == 1 .. MaxReviews
Open == {"in_progress", "pending"}
ReviewVerdicts == {"passed", "rejected", "skipped"}
HookKinds == {"prompt", "tool", "completion"}
Names(field) == {who[field] : who \in Identities} \cup {NoName}

Anonymous == [session |-> NoName, terminal |-> NoName]
NoReview == [status |-> "none", who |-> Anonymous]
Torn == [i \in Reviews |-> [status |-> "torn", who |-> Anonymous]]
ReviewRows == [status : Open \cup ReviewVerdicts \cup {"none", "torn"},
               who : [session : Names("session"), terminal : Names("terminal")]]

Process(at, kind, who, id) ==
    [at |-> at, kind |-> kind, who |-> who, id |-> id, view |-> [i \in Reviews |-> NoReview]]
NotStarted == Process("idle", "none", Anonymous, 0)

ReviewTypeOK ==
    /\ reviews \in [Reviews -> ReviewRows]
    /\ writer \in [QueueWriters ->
          [at : {"idle", "looked", "numbered", "wrote", "read", "truncated", "added", "renamed"},
           kind : HookKinds \cup ReviewVerdicts \cup {"none", "import"},
           who : [session : Names("session"), terminal : Names("terminal")],
           id : Reviews \cup {0}, view : [Reviews -> ReviewRows]]]
    /\ queueLock \in QueueWriters \cup {NoWriter}
    /\ queueFile \in [Reviews -> ReviewRows]
    /\ legacyFile \in BOOLEAN /\ started \in 0 .. MaxWriters /\ spoiled \in BOOLEAN
    /\ contended \subseteq Names("session")
    /\ judged \subseteq Reviews /\ raced \subseteq Reviews

ReviewInit ==
    /\ reviews = [i \in Reviews |-> NoReview]
    /\ writer = [w \in QueueWriters |-> NotStarted]
    /\ queueLock = NoWriter /\ queueFile = reviews
    /\ legacyFile \in BOOLEAN /\ started = 0 /\ spoiled = FALSE
    /\ contended = {} /\ judged = {} /\ raced = {}

---------------------------------------------------------------------------
\* find_matching_task: an open task of the session, or else one of the
\* terminal.  Which of several had the latest event is left open.
Fitting(rows, who, field) ==
    {i \in Reviews : /\ who[field] # NoName /\ rows[i].who[field] = who[field]
                     /\ rows[i].status \in Open}
Matches(who) ==
    LET ofSession == Fitting(reviews, who, "session")
    IN IF ofSession # {} THEN ofSession ELSE Fitting(reviews, who, "terminal")

\* History: the sessions a hook works for are that of its event and that of
\* the task it has in hand; LookingHooks are the hooks that have still to write.
WorksFor(who, i) == {who.session} \cup (IF i = 0 THEN {} ELSE {reviews[i].who.session})
LookingHooks == {x \in QueueWriters : /\ writer[x].kind \in HookKinds
                                      /\ writer[x].at \in {"looked", "numbered"}}

\* A hook starts and loads the tasks, without the lock.  A tool event of
\* nobody makes no task.
HookLooks(w, kind, who) ==
    /\ \E i \in Matches(who) \cup {0} :
          /\ i = 0 => Matches(who) = {} /\ (kind = "tool" => who # Anonymous)
          /\ writer' = [writer EXCEPT ![w] = Process("looked", kind, who, i)]
          /\ contended' = contended \cup UNION {WorksFor(writer[x].who, writer[x].id)
                                                   \cap WorksFor(who, i) : x \in LookingHooks}
    /\ UNCHANGED legacyFile

\* pass, reject, skip: the user sees a task and names it by its id.
UserDecides(w, i, verdict) ==
    /\ reviews[i].status # "none"
    /\ writer' = [writer EXCEPT ![w] = Process("looked", verdict, Anonymous, i)]
    /\ UNCHANGED <<legacyFile, contended>>

\* migrate_legacy_json reads the old file; without one it only renders.
ImportStarts(w) ==
    /\ writer' = [writer EXCEPT ![w] =
           IF legacyFile THEN Process("looked", "import", Anonymous, 1)
           ELSE Process("renamed", "import", Anonymous, 0)]
    /\ UNCHANGED <<legacyFile, contended>>

Starts(w) ==
    /\ writer[w] = NotStarted /\ started < MaxWriters /\ started' = started + 1
    /\ \/ \E kind \in HookKinds, who \in Identities : HookLooks(w, kind, who)
       \/ \E i \in Reviews, verdict \in ReviewVerdicts : UserDecides(w, i, verdict)
       \/ ImportStarts(w)
    /\ UNCHANGED <<reviews, queueLock, queueFile, judged, raced, spoiled>>

\* next_id, under the lock: one more than the largest number of the day.
NumbersReview(w) ==
    /\ writer[w].at = "looked" /\ writer[w].id = 0 /\ queueLock = NoWriter
    /\ LET next == Max({i \in Reviews : reviews[i] # NoReview} \cup {0}) + 1
       IN /\ next \in Reviews
          /\ writer' = [writer EXCEPT ![w].at = "numbered", ![w].id = next]
    /\ UNCHANGED <<reviews, queueLock, queueFile, legacyFile, started, contended, judged, raced,
                   spoiled>>

Rendering == {"wrote", "read", "truncated"}

\* The last render of an import, without the lock.
ImportRenders(w) == writer[w].kind = "import" /\ writer[w].id = 0 /\ writer[w].at \in Rendering
HooksClash(w, x) == w # x /\ writer[x].at \in Rendering /\ (ImportRenders(w) \/ ImportRenders(x))

\* What an event leaves in the task: what it knows of its origin stays.
Origin(who, old) ==
    [f \in {"session", "terminal"} |-> IF who[f] # NoName THEN who[f] ELSE old[f]]
StatusAfter(kind) == IF kind \in ReviewVerdicts THEN kind
                     ELSE IF kind \in {"completion", "import"} THEN "pending" ELSE "in_progress"

\* update and add: the lock is taken, the row is written whatever its status
\* became, and the lock is kept for the render.
Writes(w) ==
    LET me == writer[w]
        new == me.at = "numbered" \/ me.kind = "import"
    IN /\ me.at \in {"looked", "numbered"} /\ me.id # 0
       /\ queueLock = NoWriter /\ queueLock' = w
       /\ reviews' = [reviews EXCEPT ![me.id] =
              [status |-> StatusAfter(me.kind),
               who |-> IF new THEN me.who ELSE Origin(me.who, @.who)]]
       /\ writer' = [writer EXCEPT ![w].at = "wrote"]
       /\ judged' = IF me.kind \in ReviewVerdicts THEN judged \cup {me.id} ELSE judged
       /\ raced' = IF /\ me.kind \in ReviewVerdicts
                      /\ \/ legacyFile /\ me.id = 1
                         \/ \E x \in QueueWriters \ {w} : writer[x].id = me.id
                   THEN raced \cup {me.id} ELSE raced
       /\ spoiled' = (spoiled \/ \E x \in QueueWriters : ImportRenders(x))
       /\ UNCHANGED <<queueFile, legacyFile, started, contended>>

---------------------------------------------------------------------------
(* render_markdown: the rows are loaded, the file is truncated, written.   *)

\* Faulty: the lock is released before the file is rendered.
RenderReadsUnlocked(w) ==
    /\ writer[w].at \in {"wrote", "renamed"}
    /\ writer' = [writer EXCEPT ![w].at = "read", ![w].view = reviews]
    /\ queueLock' = IF queueLock = w THEN NoWriter ELSE queueLock
    /\ UNCHANGED <<queueFile, spoiled>>

RenderReads(w) ==
    /\ writer[w].at \in {"wrote", "renamed"}
    /\ writer' = [writer EXCEPT ![w].at = "read", ![w].view = reviews]
    /\ UNCHANGED <<queueLock, queueFile, spoiled>>

Truncates(w) ==
    /\ writer[w].at = "read" /\ queueFile' = Torn
    /\ writer' = [writer EXCEPT ![w].at = "truncated"]
    /\ spoiled' = (spoiled \/ \E x \in QueueWriters : HooksClash(w, x))
    /\ UNCHANGED queueLock

\* The file is complete and the lock, if held, is released; an import goes on
\* after its task was added.  Two that write at a time may mix their texts.
RenderEnds(w) ==
    /\ writer[w].at = "truncated"
    /\ queueFile' \in IF \E x \in QueueWriters \ {w} : writer[x].at = "truncated"
                      THEN {writer[w].view, Torn} ELSE {writer[w].view}
    /\ queueLock' = IF queueLock = w THEN NoWriter ELSE queueLock
    /\ writer' = [writer EXCEPT ![w] =
           IF @.kind = "import" /\ @.id # 0 THEN Process("added", "import", Anonymous, 0)
           ELSE NotStarted]
    /\ spoiled' = ((\E x \in QueueWriters : HooksClash(w, x)) \/ (spoiled /\ queueLock # w))

Renders(w) ==
    /\ RenderReads(w) \/ Truncates(w) \/ RenderEnds(w)
    /\ UNCHANGED <<reviews, legacyFile, started, contended, judged, raced>>

\* The import puts the old file away; for a second one that fails.
ImportRenames(w) ==
    /\ writer[w].at = "added"
    /\ legacyFile' = FALSE
    /\ writer' = [writer EXCEPT ![w] =
           IF legacyFile THEN Process("renamed", "import", Anonymous, 0) ELSE NotStarted]
    /\ UNCHANGED <<reviews, queueLock, queueFile, started, contended, judged, raced,
                   spoiled>>

\* A hook is killed after five seconds, or the process dies: the system
\* releases its lock.
WriterDies(w) ==
    /\ writer[w] # NotStarted
    /\ writer' = [writer EXCEPT ![w] = NotStarted]
    /\ queueLock' = IF queueLock = w THEN NoWriter ELSE queueLock
    /\ spoiled' = (spoiled \/ writer[w].at \in Rendering)
    /\ UNCHANGED <<reviews, queueFile, legacyFile, started, contended, judged, raced>>

ReviewNext ==
    \E w \in QueueWriters :
        \/ Starts(w) \/ NumbersReview(w) \/ Writes(w) \/ Renders(w) \/ ImportRenames(w)
        \/ WriterDies(w)

ReviewSpec == ReviewInit /\ [][ReviewNext]_reviewVars

---------------------------------------------------------------------------
\* A session has one open task, however its events come, unless two hooks that
\* worked for it, by their event or the task in hand, overlapped: both may
\* find none, and a late one may reopen what was settled meanwhile.  A verdict
\* stands unless a hook had looked the task up before it or took the same
\* number, or the import was not finished (conductor-cli main.rs:849-909;
\* tasks.rs:316-350, 354-371).
\* And tasks.md shows the rows whenever nobody is rendering, since the
\* render is within the lock, unless a render died or the import, which
\* renders without the lock, overlapped another process (tasks.rs:297-328).
ReviewsAreKept ==
    /\ \A i, j \in Reviews :
          i < j /\ {reviews[i].status, reviews[j].status} \subseteq Open
            /\ reviews[i].who.session = reviews[j].who.session
          => reviews[i].who.session \in contended \cup {NoName}
    /\ \A i \in judged : reviews[i].status \in Open => i \in raced
    /\ queueFile = reviews \/ spoiled \/ \E w \in QueueWriters : writer[w].at \in Rendering

===========================================================================
