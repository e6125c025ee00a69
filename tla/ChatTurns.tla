------------------------------ MODULE ChatTurns ------------------------------
(***************************************************************************)
(* One turn of the chat: the row of chat_turns and its numbered events     *)
(* (chat/turns.rs), the call of send_message_v2 that drives it             *)
(* (chat/send_v2.rs), the tool call it executes (chat/tools.rs,            *)
(* tool_calls.rs) and the registry of active runs (chat/active_run.rs).    *)
(*                                                                         *)
(* Turns share no row, so one turn is all of them.  Three kinds of writers *)
(* append events to a turn: the call itself, the task it spawns at the     *)
(* first token of an answer and does not wait for, and others (sub-agents, *)
(* the goal's and the model's routing).  An event takes the number MAX + 1 *)
(* in one statement and is inserted in another; UNIQUE(turn_id, seq) lets  *)
(* the first of two equal numbers in and refuses the second.  The overall  *)
(* timeout drops the call wherever it is.  The stages between received and *)
(* the answer differ in name only: their statuses are all "working".       *)
(***************************************************************************)
EXTENDS Integers

VARIABLES
    turn,       \* status and finished (finished_at is set) of the row
    send,       \* where send_message_v2 is, and in which statement of it
    outer,      \* "no": in the inner call; else why the inner call ended
    token,      \* the detached task that records the first token
    outdated,   \* writers whose number someone else's event has taken
    call,       \* status of the tool call in progress, if any
    replies,    \* assistant messages stored for the turn
    partial,    \* TimeoutRecoveryState holds text or tool records
    active,     \* the turn is in the registry of active runs
    offered,    \* history: the answer is an offer to create a goal
    unrecorded, \* history: the event of stage done was refused
    overtaken   \* history: the first token was recorded after stage done

turnVars == <<turn, send, outer, token, outdated, call, replies, partial,
              active, offered, unrecorded, overtaken>>

Stages == {"received", "context", "working", "unavailable", "offer", "reply_stored",
           "failed_recovered", "timeout", "failed", "done"}
SendPlaces == Stages \cup {"new", "preparing", "inner", "pending", "tool", "replying",
                           "projection", "memory", "loading", "closing", "answered", "refused",
                           "lost"}
Writers == {"send", "token"}

\* apply_stage_transition; the statuses of the stages in between are one.
StatusOf(stage) ==
    CASE stage \in {"received", "reply_stored", "failed"} -> stage
      [] stage = "failed_recovered" -> "recovered"
      [] stage = "timeout" -> "timed_out"
      [] stage = "done" -> "completed"
      [] OTHER -> "working"

TurnsTypeOK ==
    /\ turn \in [status : {"none"} \cup {StatusOf(s) : s \in Stages}, finished : BOOLEAN]
    /\ send \in [at : SendPlaces, step : {"read", "insert", "apply", "finish", "go"}]
    /\ outer \in {"no", "error", "timeout"}
    /\ token \in {"idle", "read", "insert", "apply"}
    /\ outdated \subseteq Writers
    /\ call \in {"none", "pending", "executing", "settled"}
    /\ replies \in 0 .. 2
    /\ \A flag \in {partial, active, offered, unrecorded, overtaken} : flag \in BOOLEAN

Going(place) == [at |-> place, step |-> "go"]
Staging(stage) == [at |-> stage, step |-> "read"]

TurnsInit ==
    /\ turn = [status |-> "none", finished |-> FALSE]
    /\ send = Going("new")
    /\ outer = "no"
    /\ token = "idle" /\ outdated = {}
    /\ call = "none" /\ replies = 0
    /\ partial = FALSE /\ active = FALSE
    /\ offered = FALSE /\ unrecorded = FALSE /\ overtaken = FALSE

Holding(w) == IF w = "send" THEN send.step = "insert" ELSE token = "insert"

Artifacts == {"projection", "memory"}

\* What an event that went in does to the numbers others have read.
Takes(w) == outdated' = outdated \cup {v \in Writers \ {w} : Holding(v)}

Sends == UNCHANGED <<outer, token, call, replies, partial, active, offered,
                     unrecorded, overtaken>>

---------------------------------------------------------------------------
\* append_stage_event_by_request: read the number, insert, move the row.

\* Where the call goes when a stage has been written, or has been refused.
Following(stage) ==
    CASE stage = "received" -> Going("preparing")
      [] stage = "context" -> Going("inner")
      [] stage = "working" -> Going("inner")
      [] stage = "unavailable" -> Going("closing")
      [] stage = "offer" -> Going("replying")
      [] stage \in {"failed_recovered", "timeout"} -> Going("replying")
      [] stage = "reply_stored" -> Staging("done")
      [] stage = "done" -> Going("answered")
      [] stage = "failed" -> Going("refused")

\* Events of stages and of artifacts are numbered alike.
ReadsNumber ==
    /\ send.at \in Stages \cup Artifacts /\ send.step = "read"
    /\ send' = [send EXCEPT !.step = "insert"]
    /\ outdated' = outdated \ {"send"}
    /\ Sends /\ UNCHANGED turn

\* A refused event leaves the status alone: append_chat_stage ignores it.
InsertsStage ==
    /\ send.at \in Stages /\ send.step = "insert"
    /\ IF "send" \in outdated
       THEN /\ send' = Following(send.at)
            /\ outdated' = outdated \ {"send"}
            /\ unrecorded' = (unrecorded \/ send.at = "done")
       ELSE /\ send' = [send EXCEPT !.step = "apply"]
            /\ Takes("send")
            /\ UNCHANGED unrecorded
    /\ UNCHANGED <<turn, outer, token, call, replies, partial, active, offered, overtaken>>

AppliesStage ==
    /\ send.at \in Stages /\ send.step = "apply"
    /\ turn' = [turn EXCEPT !.status = StatusOf(send.at)]
    /\ send' = IF send.at \in {"done", "failed"} THEN [send EXCEPT !.step = "finish"]
                                                 ELSE Following(send.at)
    /\ Sends /\ UNCHANGED outdated

Finishes ==
    /\ send.at \in Stages /\ send.step = "finish"
    /\ turn' = [status |-> StatusOf(send.at), finished |-> TRUE]
    /\ send' = Following(send.at)
    /\ Sends /\ UNCHANGED outdated

StageStep == ReadsNumber \/ InsertsStage \/ AppliesStage \/ Finishes

---------------------------------------------------------------------------
\* send_message_v2_inner.

Goes(from, next) ==
    /\ send = Going(from)
    /\ send' = next
    /\ UNCHANGED outdated

\* create_turn and register_active_run.
Creates ==
    /\ Goes("new", Staging("received"))
    /\ turn' = [turn EXCEPT !.status = "received"]
    /\ active' = TRUE
    /\ UNCHANGED <<outer, token, call, replies, partial, offered, unrecorded, overtaken>>

\* The user's message is stored; then the context, or the offer of a goal.
Prepares ==
    /\ \/ Goes("preparing", Staging("context")) /\ UNCHANGED offered
       \/ Goes("preparing", Staging("offer")) /\ offered' = TRUE
    /\ UNCHANGED <<turn, outer, token, call, replies, partial, active, unrecorded, overtaken>>

\* A round: the stages of a call of the model.  The answer's first token
\* spawns the task of spawn_chat_stage; its whole text is kept for recovery.
AsksModel ==
    /\ Goes("inner", Staging("working"))
    /\ token' \in IF token = "idle" THEN {"idle", "read"} ELSE {token}
    /\ partial' \in {partial, TRUE}
    /\ UNCHANGED <<turn, outer, call, replies, active, offered, unrecorded, overtaken>>

\* execute_tool_call: create, mark_executing, then the tool's thread.
CallsTool ==
    /\ Goes("inner", Going("pending"))
    /\ call' = "pending"
    /\ UNCHANGED <<turn, outer, token, replies, partial, active, offered, unrecorded, overtaken>>

MarksExecuting ==
    /\ Goes("pending", Going("tool"))
    /\ call' = "executing"
    /\ UNCHANGED <<turn, outer, token, replies, partial, active, offered, unrecorded, overtaken>>

\* complete, fail, a refused write scope or mark_approval_required.  Bad
\* arguments end a call that is still pending.
SettlesTool ==
    /\ \E place \in {"pending", "tool"} : Goes(place, Staging("working"))
    /\ call' = "settled"
    /\ partial' = TRUE
    /\ UNCHANGED <<turn, outer, token, replies, active, offered, unrecorded, overtaken>>

\* Faulty: the final text is not kept for recovery.
AnswersUnkept ==
    /\ Goes("inner", Going("replying"))
    /\ UNCHANGED <<turn, outer, token, call, replies, partial, active, offered,
                   unrecorded, overtaken>>

\* The final text, forced, recovered from tool results or synthesised.
Answers ==
    /\ Goes("inner", Going("replying"))
    /\ partial' = TRUE
    /\ UNCHANGED <<turn, outer, token, call, replies, active, offered, unrecorded, overtaken>>

\* insert_message_with_session, store_timeout_reply_with_text or
\* store_capability_request_reply.  An offer has no artifacts and no stages.
StoresReply ==
    /\ Goes("replying", IF offered /\ outer = "no" THEN Going("loading")
                                                   ELSE Staging("projection"))
    /\ replies' = replies + 1
    /\ UNCHANGED <<turn, outer, token, call, partial, active, offered, unrecorded, overtaken>>

\* The history that goes with an offer.
Loads ==
    /\ Goes("loading", Going("answered"))
    /\ UNCHANGED <<turn, outer, token, call, replies, partial, active, offered,
                   unrecorded, overtaken>>

\* persist_final_turn_artifacts: the projection and, when there is something
\* to remember, the memory candidate append an event; a refused one is an
\* error of the whole.
InsertsArtifacts ==
    /\ send.at \in Artifacts /\ send.step = "insert"
    /\ IF "send" \in outdated
       THEN /\ send' = IF outer = "no" THEN Going("closing") ELSE Going("refused")
            /\ outdated' = outdated \ {"send"}
       ELSE /\ send' \in {Staging("reply_stored")} \cup
                        (IF send.at = "projection" THEN {Staging("memory")} ELSE {})
            /\ Takes("send")
    /\ UNCHANGED <<turn, outer, token, call, replies, partial, active, offered, unrecorded, overtaken>>

\* The reply is returned and the run leaves the registry.
Returns ==
    /\ send = Going("answered") /\ active
    /\ active' = FALSE
    /\ UNCHANGED <<turn, send, outer, token, outdated, call, replies, partial, offered,
                   unrecorded, overtaken>>

InnerStep ==
    \/ Creates \/ Prepares \/ AsksModel
    \/ CallsTool \/ MarksExecuting \/ SettlesTool
    \/ Answers \/ StoresReply \/ Loads \/ InsertsArtifacts \/ Returns

---------------------------------------------------------------------------
\* The arms of send_message_v2_with_session_projection_ctx.

InInner == outer = "no" /\ active /\ send.at \notin {"received", "closing", "answered"}

\* An error of the inner call: of the database, of the configuration or,
\* after the stage llm_turn_failed, of the model.
Fails ==
    /\ InInner
    /\ \/ /\ send \in {Going("preparing"), Going("replying"), Going("loading"),
                      Staging("projection"), Staging("memory"), Staging("reply_stored")}
          /\ send' = Going("closing")
       \/ send = Going("inner") /\ send' = Staging("unavailable")
    /\ UNCHANGED <<turn, outer, token, outdated, call, replies, partial, active, offered,
                   unrecorded, overtaken>>

\* An error while an arm stores its own reply is the error of the whole.
ArmFails ==
    /\ outer # "no"
    /\ send \in {Going("replying"), Staging("projection"), Staging("memory"),
                Staging("reply_stored")}
    /\ send' = Going("refused")
    /\ UNCHANGED <<turn, outer, token, outdated, call, replies, partial, active, offered,
                   unrecorded, overtaken>>

\* The overall timeout drops the inner call at any of its waits.
Expires ==
    /\ InInner
    /\ outer' = "timeout"
    /\ send' = Going("closing")
    /\ outdated' = outdated \ {"send"}
    /\ UNCHANGED <<turn, token, call, replies, partial, active, offered, unrecorded, overtaken>>

\* Faulty: only the calls that never started are failed.
ClosesPending ==
    /\ send = Going("closing")
    /\ active' = FALSE
    /\ call' = IF call = "pending" THEN "settled" ELSE call
    /\ send' = IF outer = "timeout" THEN Staging("timeout")
               ELSE IF partial THEN Staging("failed_recovered") ELSE Staging("failed")
    /\ outer' = IF outer = "no" THEN "error" ELSE outer
    /\ UNCHANGED <<turn, token, outdated, replies, partial, offered,
                   unrecorded, overtaken>>

\* remove_active_run and fail_incomplete_for_turn, then the stage of the arm.
Closes ==
    /\ send = Going("closing")
    /\ active' = FALSE
    /\ call' = IF call \in {"pending", "executing"} THEN "settled" ELSE call
    /\ send' = IF outer = "timeout" THEN Staging("timeout")
               ELSE IF partial THEN Staging("failed_recovered") ELSE Staging("failed")
    /\ outer' = IF outer = "no" THEN "error" ELSE outer
    /\ UNCHANGED <<turn, token, outdated, replies, partial, offered,
                   unrecorded, overtaken>>

OuterStep == Fails \/ Expires \/ Closes \/ ArmFails

---------------------------------------------------------------------------
\* The others.

TokenGoes(from, to) == token = from /\ token' = to

\* The detached task appends llm_first_token: its status is "running".
TokenReads ==
    /\ TokenGoes("read", "insert")
    /\ outdated' = outdated \ {"token"}
    /\ UNCHANGED <<turn, overtaken>>

TokenInserts ==
    /\ IF "token" \in outdated
       THEN TokenGoes("insert", "idle") /\ outdated' = outdated \ {"token"}
       ELSE TokenGoes("insert", "apply") /\ Takes("token")
    /\ UNCHANGED <<turn, overtaken>>

TokenApplies ==
    /\ TokenGoes("apply", "idle")
    /\ turn' = [turn EXCEPT !.status = "working"]
    /\ overtaken' = (overtaken \/ turn.status \in {"completed", "failed"})
    /\ UNCHANGED outdated

TokenStep ==
    /\ TokenReads \/ TokenInserts \/ TokenApplies
    /\ UNCHANGED <<send, outer, call, replies, partial, active, offered, unrecorded>>

\* A sub-agent, the goal or the model resolver appends an event.
OthersAppend ==
    /\ turn.status # "none"
    /\ outdated' = {w \in Writers : Holding(w)}
    /\ outdated' # outdated
    /\ UNCHANGED <<turn, send, outer, token, call, replies, partial, active, offered,
                   unrecorded, overtaken>>

\* The desktop dies: the call, its task and its registry are gone.
DesktopDies ==
    /\ send.at \notin {"new", "lost"}
    /\ send' = Going("lost") /\ token' = "idle" /\ outdated' = {} /\ active' = FALSE
    /\ UNCHANGED <<turn, outer, call, replies, partial, offered, unrecorded, overtaken>>

TurnsNext == StageStep \/ InnerStep \/ OuterStep \/ TokenStep \/ OthersAppend \/ DesktopDies

TurnsSpec == TurnsInit /\ [][TurnsNext]_turnVars

\* The runtime goes on with a call that can go on and its timer fires; a tool
\* or a model may never answer.
TurnsFairness ==
    /\ WF_turnVars(StageStep) /\ WF_turnVars(StoresReply) /\ WF_turnVars(InsertsArtifacts)
    /\ WF_turnVars(Returns) /\ WF_turnVars(Closes) /\ WF_turnVars(Expires)

---------------------------------------------------------------------------
Returned == send.at \in {"answered", "refused"} /\ ~active

\* How a turn is closed agrees with what is stored for it, whichever arm of
\* the call closed it: completed only with an answer, and failed only without
\* one, since whatever was stored before an error is recovered instead.  The
\* offer of a goal is the exception: nothing of it is kept for recovery
\* (send_v2.rs:1116, 1238, 2310-2373).  A turn that returned an answer is
\* closed as completed, unless the answer is the offer of a goal
\* (store_capability_request_reply closes nothing), the event of stage done
\* lost its number to another writer, or the detached first token was recorded
\* later than the end (send_v2.rs:829, 1768; turns.rs:399-482).  And once
\* send_message_v2 has returned, also after the timeout, no tool call of the
\* turn is left pending or executing, although the thread of a dropped tool
\* runs on (send_v2.rs:666, tool_calls.rs:240).
ClosingsMatchReplies ==
    /\ turn.finished /\ turn.status = "completed" => replies > 0
    /\ turn.status = "failed" /\ ~offered => replies = 0
    /\ Returned /\ send.at = "answered" /\ ~offered /\ ~unrecorded /\ ~overtaken
          => turn = [status |-> "completed", finished |-> TRUE]
    /\ Returned => call \notin {"pending", "executing"}

\* A turn that was created is answered or refused, or the desktop dies: the
\* overall timeout keeps the frontend from hanging (send_v2.rs:910, 1096).
EveryTurnReturns == turn.status # "none" ~> (Returned \/ send.at = "lost")

\* Every turn returns, and closes as what the user was told
\* (send_v2.rs:910-1240, 2310-2373).
TurnsReturnAsClosed ==
    [](turn.status # "none" => ClosingsMatchReplies) /\ EveryTurnReturns
===========================================================================
