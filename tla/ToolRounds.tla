------------------------------ MODULE ToolRounds ------------------------------
(***************************************************************************)
(* The rounds of one chat turn: which tools the model is offered           *)
(* (chat/tools.rs, skills.rs, policy.rs, connectors/mod.rs), the rounds of *)
(* calls and replies, and what becomes the turn's answer when the model    *)
(* gives none (chat/send_v2.rs).  ChatTurns has the turn's row and events, *)
(* ToolCalls what one call does.                                           *)
(*                                                                         *)
(* A wish is what the request and the configuration say: the mode, plan    *)
(* only, whether the prompt is broad, and sets of tools: allowed by the    *)
(* configuration, in the enabled tiers, in the tiers whose keyword the     *)
(* prompt has, of the skills in skills.json it matches, and the override   *)
(* with which the worker starts the agent of a goal task, always in long   *)
(* mode and never plan only.                                               *)
(*                                                                         *)
(* The inner call may fail or be dropped wherever it waits.  Only counts   *)
(* of calls matter: they are executed and recorded in the order of asking. *)
(* Which model a round asks is the subject of ModelRouting.                *)
(***************************************************************************)
EXTENDS ModelRouting

CONSTANTS
    Catalog,        \* the registered tools
    Inspecting,     \* those that only read
    Search,         \* tool.search
    ConnectorTools, \* what the connectors name; nothing registers them
    Wishes,
    MaxRounds,      \* max_turns_for_mode: 10 or 24
    MaxCalls        \* bound: calls in one reply of the model

ASSUME ToolRoundsAssumption ==
    /\ Inspecting \subseteq Catalog /\ Search \in Inspecting
    /\ ConnectorTools \cap Catalog = {}
    /\ \A w \in Wishes :
          /\ w.long \in BOOLEAN /\ w.planOnly \in BOOLEAN /\ w.broad \in BOOLEAN
          /\ \A ids \in {w.allowed, w.tiers, w.context, w.legacy, w.override} : ids \subseteq Catalog
          /\ w.override # {} => w.long /\ ~w.planOnly
    /\ MaxRounds \in Nat /\ MaxCalls \in Nat

VARIABLES
    package,    \* the skill package that matches the prompt: its row
    connector,  \* the connector that has the capability the package asks for
    wish,
    roundsAt,   \* where send_message_v2 is
    narrow,     \* progressive_tool_discovery
    offers,     \* tool_defs
    rounds,     \* rounds begun
    calls,      \* calls of the last reply that were not executed yet
    discovered, \* catalog_tool_ids of this round
    executed,   \* calls whose tool has run
    records,    \* calls recorded, for the answer and for recovery alike
    drafted,    \* final_content
    kept,       \* the text of TimeoutRecoveryState is not blank
    complete,   \* completed_with_final_answer
    answerFrom  \* what the stored answer is made of

roundVars == <<package, connector, wish, roundsAt, narrow, offers, rounds, calls,
               discovered, executed, records, drafted, kept, complete, answerFrom>>

RoundPlaces == {"new", "asking", "calling", "ran", "forcing", "recovering", "storing",
                "error", "timeout", "stored", "refused"}

ToolRoundsTypeOK ==
    /\ package \in {"absent", "off", "on"}
    /\ connector \in {"unknown", "disabled", "risky", "usable"}
    /\ wish \in Wishes
    /\ roundsAt \in RoundPlaces
    /\ narrow \in BOOLEAN
    /\ offers \subseteq Catalog /\ discovered \subseteq Catalog
    /\ rounds \in 0 .. MaxRounds /\ calls \in 0 .. MaxCalls
    /\ executed \in 0 .. MaxRounds * MaxCalls /\ records \in 0 .. MaxRounds * MaxCalls
    /\ drafted \in {"none", "blank", "text"}
    /\ kept \in BOOLEAN /\ complete \in BOOLEAN
    /\ answerFrom \in {"none", "model", "forced", "recovered", "fallback"}

ToolRoundsInit ==
    /\ package \in {"absent", "off"}
    /\ connector \in {"unknown", "disabled", "risky", "usable"}
    /\ wish \in Wishes
    /\ roundsAt = "new" /\ narrow = FALSE
    /\ offers = {} /\ discovered = {}
    /\ rounds = 0 /\ calls = 0 /\ executed = 0 /\ records = 0
    /\ drafted = "none" /\ kept = FALSE /\ complete = FALSE
    /\ answerFrom = "none"

----------------------------------------------------------------------------
(* The user's skills.  The connector is registered before any turn.        *)

\* import_skill_markdown never enables, and refuses an id that is there and a
\* document that is none.
Imports == package = "absent" /\ package' = "off"

\* update_skill_enabled and delete_skill_package write whatever there is.
Switches == package # "absent" /\ package' \in {"absent", "off", "on"} \ {package}

AdministersSkill ==
    /\ Imports \/ Switches
    /\ UNCHANGED <<connector, wish, roundsAt, narrow, offers, rounds, calls,
                   discovered, executed, records, drafted, kept, complete, answerFrom>>

----------------------------------------------------------------------------
(* Offers                                                                  *)

\* match_enabled_skills.
Matches == package = "on"

\* resolve_capability, and how the connector stands: risky is a capability of
\* high risk that asks for no confirmation.  A missing login stops nothing.
Resolved == connector = "usable"

\* PolicyEngine::filter_tools.
PolicyTools == IF Matches /\ Resolved THEN ConnectorTools ELSE {}

\* authorize_tool_ids lets a tool pass that no connector names.
Authorized(tools) ==
    {t \in tools : t \in ConnectorTools => connector \notin {"disabled", "risky"}}

\* skill_contextual_tools, contextual_tool_ids, long_mode_default_tool_ids.
LegacyTools == wish.legacy
ContextTools == wish.context
LongTools == {Search} \cup wish.allowed \cup wish.tiers

\* tool_definitions_for_ids.
Defined(tools) == IF wish.planOnly THEN tools \cap Inspecting ELSE tools \cap Catalog

\* build_tool_definitions_with_allowed_ids.  In a short turn the tools the
\* configuration allows are offered unless a skill brings a connector's: these
\* are not registered, and nothing but the prompt's context is left.
FirstOffers ==
    Defined(
        IF wish.override # {} THEN wish.override
        ELSE IF wish.long THEN LongTools \cup PolicyTools \cup ContextTools
        ELSE IF PolicyTools = {} /\ wish.allowed # {}
            THEN wish.allowed \cup ContextTools \cup LegacyTools
        ELSE PolicyTools \cup ContextTools)

\* build_tool_definitions_for_catalog_selection.
CatalogOffers(tools) == Defined({Search} \cup Authorized(tools))

\* should_use_progressive_tool_discovery, which long turns skip.
Narrows == ~wish.long /\ wish.broad /\ \E s, t \in FirstOffers : s # t

Offers ==
    /\ roundsAt = "new" /\ roundsAt' = "asking"
    /\ narrow' = Narrows
    /\ offers' = IF narrow' THEN CatalogOffers({Search}) ELSE FirstOffers
    /\ UNCHANGED <<package, connector, wish, rounds, calls, discovered, executed,
                   records, drafted, kept, complete, answerFrom>>

----------------------------------------------------------------------------
(* The rounds                                                              *)

Rounds == UNCHANGED <<package, connector, wish, narrow, answerFrom>>

\* The model's reply: a text and calls, of tools it was offered or not.
\* Without calls it is the last one, and complete unless its text is blank.
Replies(text, n) ==
    /\ roundsAt = "asking" /\ rounds < MaxRounds
    /\ rounds' = rounds + 1
    /\ drafted' = IF text = "none" THEN drafted ELSE text
    /\ kept' = (kept \/ text = "text")
    /\ calls' = n /\ discovered' = {}
    /\ complete' = (n = 0 /\ text = "text")
    /\ roundsAt' = IF n > 0 THEN "calling" ELSE "forcing"
    /\ Rounds /\ UNCHANGED <<offers, executed, records>>

\* execute_tool_call, whatever was offered.
ExecutesNext ==
    /\ roundsAt = "calling" /\ calls > 0
    /\ calls' = calls - 1
    /\ executed' = executed + 1
    /\ roundsAt' = "ran"
    /\ Rounds /\ UNCHANGED <<offers, rounds, discovered, records, drafted, kept, complete>>

\* execute_tool_search finds any tools of the catalog; only a narrow turn looks.
Found == IF narrow THEN SUBSET Catalog ELSE {{}}

\* After the stage tool_done: the record, its copy for recovery, the reply to
\* the model; and what a search has found.
RecordsCall(found) ==
    /\ roundsAt = "ran"
    /\ records' = records + 1
    /\ discovered' = discovered \cup found
    /\ roundsAt' = "calling"
    /\ Rounds /\ UNCHANGED <<offers, rounds, calls, executed, drafted, kept, complete>>

\* All calls were answered.  What was searched replaces the offers if it adds
\* to them; an error of authorize_tool_ids leaves them.
EndsRound ==
    /\ roundsAt = "calling" /\ calls = 0
    /\ LET found == CatalogOffers(discovered)
       IN \/ UNCHANGED offers
          \/ /\ narrow /\ discovered # {} /\ (~(found \subseteq offers) \/ Search \notin found)
             /\ offers' = found
    /\ roundsAt' = IF rounds < MaxRounds THEN "asking" ELSE "forcing"
    /\ Rounds
    /\ UNCHANGED <<rounds, calls, discovered, executed, records, drafted, kept, complete>>

----------------------------------------------------------------------------
(* The answer                                                              *)

\* A text of the model stands for the answer from now on.
TextStands(from) ==
    /\ drafted' = "text" /\ kept' = TRUE /\ complete' = TRUE
    /\ answerFrom' = from

Moves(from, to) == roundsAt = from /\ roundsAt' = to
Ending == UNCHANGED <<package, connector, wish, narrow, offers, rounds, calls, discovered,
                      executed, records>>

\* force_final_answer asks once more without tools, where none was given.
Forces ==
    /\ Moves("forcing", "recovering")
    /\ IF complete THEN answerFrom' = "model" /\ UNCHANGED <<drafted, kept, complete>>
       ELSE TextStands("forced") \/ UNCHANGED <<drafted, kept, complete, answerFrom>>
    /\ Ending

\* recover_final_answer_from_tool_results, if there are any.  Its prompt lists
\* no written file: a record has the name the model calls the tool by.
Recovers ==
    /\ Moves("recovering", "storing")
    /\ \/ ~complete /\ records > 0 /\ TextStands("recovered")
       \/ UNCHANGED <<drafted, kept, complete, answerFrom>>
    /\ Ending

\* synthesize_reviewable_fallback: counts and the last result, or what text
\* there is, or a sentence.  Then the blocks are stored.
Stores ==
    /\ Moves("storing", "stored")
    /\ answerFrom' = IF complete THEN answerFrom ELSE "fallback"
    /\ drafted' = "text" /\ kept' = TRUE
    /\ Ending /\ UNCHANGED complete

\* A model's or the database's error.  Errors after a tool's run are ignored.
RoundsFail ==
    /\ roundsAt \in {"new", "asking", "storing"} /\ roundsAt' = "error"
    /\ Ending /\ UNCHANGED <<drafted, kept, complete, answerFrom>>

\* The timeout drops the call, between a tool's end and its record too.
RoundsExpire ==
    /\ roundsAt \in {"new", "asking", "calling", "ran", "forcing", "recovering", "storing"}
    /\ roundsAt' = "timeout"
    /\ Ending /\ UNCHANGED <<drafted, kept, complete, answerFrom>>

\* What both arms make of what was kept.
RecoveredText == answerFrom' \in {"fallback"} \cup (IF records > 0 THEN {"recovered"} ELSE {})

\* recover_error_reply_text, if there was a text or a record.
ReportsError ==
    /\ roundsAt = "error"
    /\ IF kept \/ records > 0 THEN RecoveredText /\ roundsAt' = "stored"
                              ELSE roundsAt' = "refused" /\ answerFrom' = "none"
    /\ Ending /\ UNCHANGED <<drafted, kept, complete>>

\* recover_timeout_reply_text says at least that the time is over.
ReportsTimeout ==
    /\ Moves("timeout", "stored")
    /\ RecoveredText
    /\ Ending /\ UNCHANGED <<drafted, kept, complete>>

ToolRoundsNext ==
    \/ AdministersSkill \/ Offers
    \/ \E text \in {"none", "blank", "text"}, n \in 0 .. MaxCalls : Replies(text, n)
    \/ ExecutesNext \/ (\E found \in Found : RecordsCall(found)) \/ EndsRound
    \/ Forces \/ Recovers \/ Stores
    \/ RoundsFail \/ RoundsExpire \/ ReportsError \/ ReportsTimeout

ToolRoundsSpec == ToolRoundsInit /\ [][ToolRoundsNext]_roundVars

----------------------------------------------------------------------------
(* Properties                                                              *)

Begun == roundsAt \notin {"new", "error", "timeout", "stored", "refused"}

\* The offers stay within the user's wishes on every path that builds them:
\* a turn that is to plan is never offered a tool that changes something, the
\* agent of a goal task never one its task does not name, and a turn that has
\* to search its tools can always search again (chat/tools.rs:56-111, 120;
\* send_v2.rs:1595-1611, 2095-2150).  No run of a tool is passed over: a turn
\* is refused only if none has run, whatever failed later, and an answer that
\* was recovered has the records of all calls but the one the timeout cut
\* between its end and its record (send_v2.rs:1163, 1985-2030).  And the
\* model's last reply is the answer only if it was one: a text, no more calls
\* to answer, and every call recorded (send_v2.rs:1823-1846, 2178).
RoundsAreAccountedFor ==
    /\ wish.planOnly => offers \subseteq Inspecting
    /\ wish.override # {} => offers \subseteq wish.override
    /\ narrow => Search \in offers
    /\ roundsAt = "refused" => executed = 0
    /\ executed \in {records, records + 1}
    /\ Begun /\ roundsAt # "ran" => executed = records
    /\ complete => roundsAt \notin {"calling", "ran"}
    /\ answerFrom = "model" => drafted = "text" /\ calls = 0 /\ records = executed
    /\ roundsAt = "stored" => answerFrom # "none"

AnswersSpec == RoutingSpec /\ ToolRoundsSpec

\* What answers the user can be accounted for: a call of a model has one source,
\* and a turn's answer matches its rounds and offers (model_resolver.rs:184-276,
\* chat/send_v2.rs:1683-2264).
AnswersAreAccountedFor == RequestsHaveOneSource /\ RoundsAreAccountedFor
=============================================================================
