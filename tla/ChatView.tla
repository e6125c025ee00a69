------------------------------ MODULE ChatView ------------------------------
(***************************************************************************)
(* What a chat window shows of one session: the React hook                 *)
(* useChatSession.ts, between the messages the desktop has stored, the     *)
(* answers to its calls and the events it listens to.                      *)
(*                                                                         *)
(*   Prompts   messages the user sends, each with a request id             *)
(*   Jobs      background executions, which stream under a request id of   *)
(*             their own                                                   *)
(*   Fetches   fetches of the stored messages that may be in flight        *)
(*                                                                         *)
(* What a prompt or a job has stored reaches the window twice over: a      *)
(* prompt's with the answer of its call, and both by the event             *)
(* reply_stored, on which the window fetches the messages.  Answer, event  *)
(* and the list that is fetched come in any order.                         *)
(*                                                                         *)
(* A step is one turn of the event loop: between two awaits nothing        *)
(* interleaves.  Texts are short and differ from each other.               *)
(*                                                                         *)
(* The messages are read in two ways: an answer carries the oldest         *)
(* HistoryLimit rows of chat_messages; a fetch takes the projections of    *)
(* the session's turns, and chat_messages only when there are none.  What  *)
(* a background execution stores has no projection.                        *)
(***************************************************************************)
EXTENDS Integers, FiniteSets

CONSTANTS
    Prompts, Jobs, Fetches, NoPrompt,
    HistoryLimit,   \* chat_history_limit
    MaxTurns        \* bound: messages sent, executions begun, cancels, clears,
                    \*   retries, switches of the session, goal refreshes and
                    \*   failed fetches in a behaviour, all together

ASSUME ChatViewAssumption ==
    /\ NoPrompt \notin Prompts \cup Jobs /\ Prompts \cap Jobs = {}
    /\ HistoryLimit \in Nat \ {0} /\ MaxTurns \in Nat

VARIABLES
    transcript,  \* messages of the session in chat_messages
    oldest,      \* the first HistoryLimit of them
    displayed,   \* messages in the window
    flagged,     \* prompts whose optimistic message is marked as failed
    awaited,     \* activeRequestId; "sending" is set and reset with it
    projected,   \* requests with an entry in projectedRuns
    watching,    \* the session is the one the window is on
    prompt,      \* prompt[p]: how far the desktop is with p
    settled,     \* prompts whose submitMessage has its answer or its error
    history,     \* history[p]: the messages with the answer to p, until it arrives
    job,         \* job[j]: where a background execution is
    fetch,       \* fetch[f]: a fetch of the messages, and the list it read
    announced,   \* requests with a reply_stored on its way to the window
    turns,       \* history: what MaxTurns counts, so far
    hidden,      \* history: stored messages the window lost or never took
    missed       \* history: requests that ended without the window being told:
                 \*   no event, nobody to hear it, or a failed fetch

viewVars == <<transcript, oldest, displayed, flagged, awaited, projected, watching, prompt,
              settled, history, job, fetch, announced, turns, hidden, missed>>

Asked(p) == [of |-> p, kind |-> "asked"]
Replied(p) == [of |-> p, kind |-> "replied"]
Noted(j) == [of |-> j, kind |-> "noted"]
Optimistic(p) == [of |-> p, kind |-> "temp"]

StoredMessages ==
    {Asked(p) : p \in Prompts} \cup {Replied(p) : p \in Prompts} \cup {Noted(j) : j \in Jobs}
ViewMessages == StoredMessages \cup {Optimistic(p) : p \in Prompts}

\* A list of messages, what it leaves out for its length, and whether
\* something read later is shown already.
ListRead(items, beyond) == [read |-> TRUE, items |-> items, beyond |-> beyond, stale |-> FALSE]
Unread == [read |-> FALSE, items |-> {}, beyond |-> {}, stale |-> FALSE]
Lists == [read : BOOLEAN, items : SUBSET StoredMessages, beyond : SUBSET StoredMessages,
          stale : BOOLEAN]

\* history_for_session: numbers ascend, so the limit takes the oldest.
HistoryRead == ListRead(oldest', transcript' \ oldest')

\* loadSessionMessages: what turns have projected, or every row.
Listed ==
    LET projections == {m \in transcript : m.kind # "noted"}
    IN IF projections # {} THEN projections ELSE transcript

Fetching(kind, r) == [kind |-> kind, request |-> r, list |-> Unread]
NoFetch == Fetching("none", NoPrompt)

ChatViewTypeOK ==
    /\ transcript \subseteq StoredMessages /\ oldest \subseteq transcript
    /\ displayed \subseteq ViewMessages
    /\ flagged \subseteq Prompts /\ awaited \in Prompts \cup {NoPrompt}
    /\ projected \subseteq Prompts \cup Jobs /\ watching \in BOOLEAN
    /\ prompt \in [Prompts -> {"unsent", "called", "accepted", "answered", "failed"}]
    /\ settled \subseteq Prompts
    /\ history \in [Prompts -> Lists]
    /\ job \in [Jobs -> {"none", "running", "ended"}]
    /\ fetch \in [Fetches -> [kind : {"none", "open", "refresh", "told"},
                              request : Prompts \cup Jobs \cup {NoPrompt}, list : Lists]]
    /\ announced \subseteq Prompts \cup Jobs
    /\ turns \in 0 .. MaxTurns
    /\ hidden \subseteq StoredMessages /\ missed \subseteq Prompts \cup Jobs

ChatViewInit ==
    /\ transcript = {} /\ oldest = {} /\ displayed = {} /\ flagged = {} /\ awaited = NoPrompt
    /\ projected = {} /\ watching = FALSE /\ settled = {}
    /\ prompt = [p \in Prompts |-> "unsent"] /\ history = [p \in Prompts |-> Unread]
    /\ job = [j \in Jobs |-> "none"] /\ fetch = [f \in Fetches |-> NoFetch]
    /\ announced = {} /\ turns = 0 /\ hidden = {} /\ missed = {}

\* mergeHistory: what the list has, plus the optimistic and the failed
\* messages it has no text for.
Merged(items, texts) ==
    items \cup {m \in displayed : \E p \in Prompts :
                    m = Optimistic(p) /\ (p \notin texts \/ p \in flagged)}

\* An answer has texts as they were sent; those of a fetch are JSON.
TextsOf(items) == {p \in Prompts : Asked(p) \in items}

\* The window takes messages from a list; the lists others hold are old now.
\* What a list that was old itself takes away is lost.
Shows(messages, list, histories, fetches) ==
    LET aged(l) == IF l.read THEN [l EXCEPT !.stale = TRUE] ELSE l
    IN /\ displayed' = messages
       /\ hidden' = (hidden \cup list.beyond \cup IF list.stale THEN displayed \cap StoredMessages
                                                ELSE {}) \ messages
       /\ history' = [p \in Prompts |-> aged(histories[p])]
       /\ fetch' = [f \in Fetches |-> [fetches[f] EXCEPT !.list = aged(@)]]

\* The desktop inserts a row after all others of the session.
Stores(m) ==
    /\ transcript' = transcript \cup {m}
    /\ oldest' = IF Cardinality(transcript) < HistoryLimit THEN oldest \cup {m} ELSE oldest

\* A fetch of the stored messages begins.
FetchStarts(kind, r) ==
    \E f \in Fetches :
        /\ fetch[f] = NoFetch
        /\ fetch' = [fetch EXCEPT ![f] = Fetching(kind, r)]

\* What is stored of a request, and not in the window.
Unseen(r) == {m \in transcript : m.of = r} \ displayed

\* The end of a request does not reach the window: of a prompt the answer
\* may still.
Misses(r) ==
    /\ missed' = missed \cup {r}
    /\ hidden' = IF r \in Jobs \cup settled THEN hidden \cup Unseen(r) ELSE hidden

\* The answer to a prompt is not taken: its event may still be heard.
Drops(p) ==
    /\ hidden' = IF p \in missed THEN hidden \cup Unseen(p) ELSE hidden
    /\ history' = [history EXCEPT ![p] = Unread]

\* One more of what MaxTurns bounds.
Turn == turns < MaxTurns /\ turns' = turns + 1

---------------------------------------------------------------------------
\* Prompts are alike until they are sent.
NextPrompt == CHOOSE p \in Prompts : prompt[p] = "unsent"

\* submitMessage up to the call: only when nothing is being sent.
Submits(p) ==
    /\ watching /\ awaited = NoPrompt
    /\ prompt[p] = "unsent" /\ p = NextPrompt /\ prompt' = [prompt EXCEPT ![p] = "called"]
    /\ displayed' = displayed \cup {Optimistic(p)} /\ awaited' = p
    /\ UNCHANGED <<transcript, oldest, flagged, settled, history, announced, hidden, missed>>

\* The desktop stores the text, then a reply; it announces the reply and
\* returns the messages with it.  Or the call fails, which is announced as
\* well, but for the errors that end send_message_v2 on the spot.
DesktopSteps(p) ==
    /\ \/ prompt[p] = "called" /\ prompt' = [prompt EXCEPT ![p] = "accepted"]
          /\ Stores(Asked(p)) /\ UNCHANGED <<history, announced, hidden, missed>>
       \/ prompt[p] = "accepted" /\ prompt' = [prompt EXCEPT ![p] = "answered"]
          /\ Stores(Replied(p)) /\ announced' = announced \cup {p} /\ UNCHANGED <<hidden, missed>>
          /\ history' = IF p \in settled THEN history
                        ELSE [history EXCEPT ![p] = HistoryRead]
       \/ prompt[p] \in {"called", "accepted"} /\ prompt' = [prompt EXCEPT ![p] = "failed"]
          /\ \/ announced' = announced \cup {p} /\ UNCHANGED <<hidden, missed>>
             \/ Misses(p) /\ UNCHANGED announced
          /\ UNCHANGED <<transcript, oldest, history>>
    /\ UNCHANGED <<displayed, flagged, awaited, settled>>

\* The call returns: its answer is for the request that is still active.
ReplyArrives(p) ==
    /\ prompt[p] = "answered" /\ p \notin settled /\ settled' = settled \cup {p}
    /\ \/ /\ awaited = p /\ awaited' = NoPrompt
          /\ Shows(Merged(history[p].items, TextsOf(history[p].items)), history[p],
                   [history EXCEPT ![p] = Unread], fetch)
       \/ awaited # p /\ Drops(p) /\ UNCHANGED <<displayed, awaited, fetch>>
    /\ UNCHANGED <<transcript, oldest, flagged, prompt, announced, missed>>

\* The call fails, or the client's timeout passes while the desktop works
\* on.  The request that is active is ended, be it this one or another.
ErrorArrives(p) ==
    /\ prompt[p] # "unsent" /\ p \notin settled /\ settled' = settled \cup {p}
    /\ flagged' = IF Optimistic(p) \in displayed THEN flagged \cup {p} ELSE flagged
    /\ awaited' = NoPrompt
    /\ Drops(p)
    /\ UNCHANGED <<transcript, oldest, displayed, prompt, announced, missed>>

\* cancelSending: the desktop works on.
Cancels ==
    /\ watching /\ awaited # NoPrompt /\ awaited' = NoPrompt
    /\ UNCHANGED <<transcript, oldest, displayed, flagged, prompt, settled, history,
                   announced, hidden, missed>>

\* retryMessage takes a failed message back into the input.
Retries(p) ==
    /\ watching /\ p \in flagged
    /\ displayed' = displayed \ {Optimistic(p)}
    /\ flagged' = flagged \ {p}
    /\ UNCHANGED <<transcript, oldest, awaited, prompt, settled, history, announced, hidden,
                   missed>>

Sending ==
    /\ \/ \E p \in Prompts : ReplyArrives(p) /\ UNCHANGED turns
       \/ \E p \in Prompts :
             (DesktopSteps(p) \/ ErrorArrives(p)) /\ UNCHANGED <<fetch, turns>>
       \/ (Cancels \/ \E p \in Prompts : Submits(p) \/ Retries(p)) /\ Turn /\ UNCHANGED fetch
    /\ UNCHANGED <<projected, watching, job>>

---------------------------------------------------------------------------
(* Background executions and what streams.                                 *)

\* stream-chat-token, tool-execution-update and thinking-update: to the
\* active request, or to the entry of another, made when there is none.
Streams(r) ==
    /\ IF r \in Prompts THEN prompt[r] = "accepted" ELSE job[r] = "running"
    /\ awaited # r
    /\ projected' = projected \cup {r}
    /\ UNCHANGED <<transcript, oldest, watching, job, fetch, announced, hidden, missed>>

\* The worker takes a task of the goal, under a request id of its own.
JobBegins(j) ==
    /\ job[j] = "none" /\ job' = [job EXCEPT ![j] = "running"]
    /\ UNCHANGED <<transcript, oldest, projected, watching, fetch, announced, hidden, missed>>

\* A job stores its result or the error it met and announces it; when not
\* even that can be stored, it ends in silence.
JobEnds(j) ==
    /\ job[j] = "running" /\ job' = [job EXCEPT ![j] = "ended"]
    /\ \/ Stores(Noted(j)) /\ announced' = announced \cup {j} /\ UNCHANGED <<hidden, missed>>
       \/ Misses(j) /\ UNCHANGED <<transcript, oldest, announced>>
    /\ UNCHANGED <<projected, watching, fetch>>

\* Faulty: the entry is removed at once and the messages are not fetched.
HearsWithoutFetch(r) ==
    /\ r \in announced /\ announced' = announced \ {r}
    /\ projected' = projected \ {r}
    /\ UNCHANGED <<transcript, oldest, watching, job, fetch, hidden, missed>>

\* reply_stored is for the session of the window, or is not heard.
Hears(r) ==
    /\ r \in announced /\ announced' = announced \ {r}
    /\ \/ watching /\ FetchStarts("told", r) /\ UNCHANGED <<hidden, missed>>
       \/ ~watching /\ Misses(r) /\ UNCHANGED fetch
    /\ UNCHANGED <<transcript, oldest, projected, watching, job>>

\* The window goes to another session: a load for this one is dropped.
Leaves ==
    /\ watching /\ watching' = FALSE
    /\ fetch' = [f \in Fetches |-> IF fetch[f].kind = "open" THEN NoFetch ELSE fetch[f]]
    /\ UNCHANGED <<transcript, oldest, projected, job, announced, hidden, missed>>

Visits ==
    /\ ~watching /\ watching' = TRUE
    /\ FetchStarts("open", NoPrompt)
    /\ UNCHANGED <<transcript, oldest, projected, job, announced, hidden, missed>>

\* goals_changed: not while something is being sent or projected.
Refreshes ==
    /\ watching /\ awaited = NoPrompt /\ projected = {}
    /\ FetchStarts("refresh", NoPrompt)
    /\ UNCHANGED <<transcript, oldest, projected, watching, job, announced, hidden, missed>>

FetchReads(f) ==
    /\ fetch[f].kind # "none" /\ ~fetch[f].list.read
    /\ fetch' = [fetch EXCEPT ![f].list = ListRead(Listed, {})]
    /\ UNCHANGED <<transcript, oldest, projected, watching, job, announced, hidden, missed>>

\* An error is shown or ignored; a run that waits for the fetch stays.
FetchFails(f) ==
    /\ fetch[f].kind # "none"
    /\ fetch' = [fetch EXCEPT ![f] = NoFetch]
    /\ IF fetch[f].kind = "told" THEN Misses(fetch[f].request) ELSE UNCHANGED <<hidden, missed>>
    /\ UNCHANGED <<transcript, oldest, projected, watching, job, announced>>

Background ==
    /\ \/ /\ \/ \E r \in Prompts \cup Jobs : Streams(r) \/ Hears(r)
             \/ \E j \in Jobs : JobEnds(j)
             \/ Visits
             \/ \E f \in Fetches : FetchReads(f)
          /\ UNCHANGED turns
       \/ /\ \/ \E j \in Jobs : JobBegins(j)
             \/ Leaves \/ Refreshes
             \/ \E f \in Fetches : FetchFails(f)
          /\ Turn
    /\ UNCHANGED <<displayed, flagged, awaited, prompt, settled, history>>

\* The list that was fetched for an announced request ends it: as the active
\* one, or with its entry.  (cleanupFinishedProjectedRuns removes nothing:
\* no entry ever has a finishedAt.)
EndsRequest(r) ==
    IF awaited = r THEN awaited' = NoPrompt /\ UNCHANGED projected
                   ELSE projected' = projected \ {r} /\ UNCHANGED awaited

\* The load of a session replaces what is shown; the others merge.
FetchShows(f) ==
    /\ fetch[f].list.read
    /\ LET list == fetch[f].list
           messages == IF fetch[f].kind = "open" THEN list.items ELSE Merged(list.items, {})
       IN Shows(messages, list, history, [fetch EXCEPT ![f] = NoFetch])
    /\ EndsRequest(fetch[f].request)
    /\ UNCHANGED <<transcript, oldest, flagged, watching, prompt, settled, job, announced,
                   turns, missed>>

\* clearMessages: the state of the session is a new one.
Clears ==
    /\ watching /\ Turn
    /\ displayed' = {} /\ awaited' = NoPrompt /\ projected' = {}
    /\ hidden' = hidden \cup (displayed \cap StoredMessages)
    /\ UNCHANGED <<transcript, oldest, flagged, watching, prompt, settled, history, job, fetch,
                   announced, missed>>

ChatViewNext ==
    \/ Sending \/ Background \/ Clears
    \/ \E f \in Fetches : FetchShows(f)

ChatViewSpec == ChatViewInit /\ [][ChatViewNext]_viewVars

---------------------------------------------------------------------------
\* Everything was answered, the window is on the session and waits for nothing.
Settled ==
    /\ watching /\ awaited = NoPrompt
    /\ \A p \in Prompts : prompt[p] \in {"unsent", "answered", "failed"}
    /\ \A p \in Prompts : prompt[p] # "unsent" => p \in settled
    /\ \A j \in Jobs : job[j] # "running"
    /\ announced = {} /\ \A f \in Fetches : fetch[f] = NoFetch

\* When all is quiet the window shows what a fetch would read now and runs
\* nothing, in whatever order answers, events and fetches came.  What it may
\* lack is what a list read before took away or the user cleared
\* (useChatSession.ts:411-440, 442-462, 855-878), what the answer's history
\* was too short for (chat/db.rs:31-49), and the messages of a request whose
\* end it was not told of, when the answer did not bring them either; a run
\* stays on display only for such a request (464-501, 503-531, 921-941).
\* A prompt that was cancelled or timed out is repaired by its event.
SettledViewIsComplete ==
    Settled => Listed \ displayed \subseteq hidden /\ projected \subseteq missed
===========================================================================
