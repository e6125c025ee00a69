------------------------------ MODULE ToolCalls ------------------------------
(***************************************************************************)
(* The calls of the file tools that chats make: the row of tool_calls that *)
(* tells what became of a call (tool_calls.rs), the checks on the way      *)
(* (chat/tools.rs, tools/registry.rs), and the thread that does the work   *)
(* (tools/fs.rs) on one file that all the calls name.                      *)
(*                                                                         *)
(*   ToolCallIds   calls, each of a turn of its own                        *)
(*                                                                         *)
(* A turn that is ended drops its call but not the thread: what a thread   *)
(* began it goes on with.  The text of the file is the set of those who    *)
(* have a part in it, "old" being what an edit replaces.  The proposal a   *)
(* refused call becomes is in Proposals, and the database answers.  An     *)
(* untrusted workspace refuses the same file tools as a read-only one.     *)
(***************************************************************************)
EXTENDS FiniteSets

CONSTANT ToolCallIds

ASSUME ToolCallsAssumption == IsFiniteSet(ToolCallIds) /\ "old" \notin ToolCallIds

VARIABLES
    trust,        \* of the turns' workspace, if they have one
    callRow,      \* status of the row of tool_calls
    toolCall,     \* what the model asked for, and where execute_tool_call is
    worker,       \* the thread: how far it is, what it is to write, its result
    fileText,     \* who has a part in the text of the file
    applied,      \* history: calls that have put their part into the file
    owed,         \* history: what the file has to hold when calls take turns
    collided,     \* history: what was at stake when calls changed the file at the same time
    cutOff,       \* history: calls that their turn has dropped
    torn          \* history: the program died between emptying and filling

toolCallVars == <<trust, callRow, toolCall, worker, fileText, applied, owed, collided,
                  cutOff, torn>>

Mutating == {"write", "append", "edit", "edit_all"}
ToolKinds == Mutating \cup {"read"}
\* What is wrong with a call: arguments that are no JSON or lack a field, a
\* path outside the approved write scope or outside the workspace.
Troubles == {"none", "unparsed", "incomplete", "unscoped", "outside"}
CallPlaces == {"idle", "created", "marked", "scoped", "waiting", "ask", "outside", "error",
               "dropped", "returned", "lost"}
NoWork == [stage |-> "none", text |-> {}, result |-> "none"]
Parts == {"old"} \cup ToolCallIds

ToolCallsTypeOK ==
    /\ trust \in {"none", "trusted", "ask_write", "read_only"}
    /\ callRow \in [ToolCallIds -> {"none", "pending", "executing", "succeeded", "failed",
                                    "approval_required"}]
    /\ toolCall \in [ToolCallIds -> [at : CallPlaces, kind : ToolKinds, trouble : Troubles]]
    /\ worker \in [ToolCallIds -> [stage : {"none", "started", "holding", "emptied", "ended"},
                                   text : SUBSET Parts,
                                   result : {"none", "done", "miss", "outside"}]]
    /\ fileText \subseteq Parts /\ owed \subseteq Parts /\ collided \subseteq Parts
    /\ applied \subseteq ToolCallIds /\ cutOff \subseteq ToolCallIds
    /\ torn \in BOOLEAN

ToolCallsInit ==
    /\ trust \in {"none", "trusted", "ask_write", "read_only"}
    /\ callRow = [c \in ToolCallIds |-> "none"]
    /\ toolCall = [c \in ToolCallIds |-> [at |-> "idle", kind |-> "read", trouble |-> "none"]]
    /\ worker = [c \in ToolCallIds |-> NoWork]
    /\ fileText = {"old"} /\ owed = {"old"}
    /\ applied = {} /\ collided = {} /\ cutOff = {} /\ torn = FALSE

Mutates(c) == toolCall[c].kind \in Mutating

---------------------------------------------------------------------------
\* execute_tool_call.

CallGoes(c, from, to) ==
    /\ toolCall[c].at = from /\ toolCall' = [toolCall EXCEPT ![c].at = to]

SetsRow(c, status) == callRow' = [callRow EXCEPT ![c] = status]

Settles(c, from, status) == CallGoes(c, from, "returned") /\ SetsRow(c, status)

\* create
CreatesRow(c) ==
    /\ toolCall[c].at = "idle" /\ SetsRow(c, "pending")
    /\ \E kind \in ToolKinds, trouble \in Troubles :
          toolCall' = [toolCall EXCEPT ![c] =
                           [at |-> "created", kind |-> kind, trouble |-> trouble]]
    /\ UNCHANGED worker

RefusesArguments(c) ==
    /\ toolCall[c].trouble = "unparsed" /\ Settles(c, "created", "failed")
    /\ UNCHANGED worker

MarksRow(c) ==
    /\ toolCall[c].trouble # "unparsed"
    /\ CallGoes(c, "created", "marked") /\ SetsRow(c, "executing")
    /\ UNCHANGED worker

\* validate_approved_write_scope, of the tools that write.
ChecksScope(c) ==
    /\ IF Mutates(c) /\ toolCall[c].trouble = "unscoped"
       THEN Settles(c, "marked", "failed")
       ELSE CallGoes(c, "marked", "scoped") /\ UNCHANGED callRow
    /\ UNCHANGED worker

\* validate_trust_level; the tools that write require a workspace.
Admits(c) ==
    CASE ~Mutates(c) \/ trust = "trusted" -> "yes"
      [] trust = "ask_write" -> "ask"
      [] OTHER -> "error"

\* execute_tool_with_workspace_async: the fields, the trust, then the thread.
Admission(c) ==
    /\ LET answer == IF toolCall[c].trouble = "incomplete" THEN "error" ELSE Admits(c)
       IN IF answer = "yes"
          THEN /\ CallGoes(c, "scoped", "waiting")
               /\ worker' = [worker EXCEPT ![c].stage = "started"]
          ELSE CallGoes(c, "scoped", answer) /\ UNCHANGED worker
    /\ UNCHANGED callRow

\* The thread is done: its result is recorded, or its error looked at.
Collects(c) ==
    /\ worker[c].stage = "ended"
    /\ CASE worker[c].result = "done" -> Settles(c, "waiting", "succeeded")
         [] worker[c].result = "miss" -> Settles(c, "waiting", "failed")
         [] worker[c].result = "outside" ->
                CallGoes(c, "waiting", "outside") /\ UNCHANGED callRow
    /\ worker' = [worker EXCEPT ![c] = NoWork]

\* A proposal is found or made for it; that may fail, and a turn without a
\* workspace has none to make it for.
AsksApproval(c) ==
    /\ trust # "none"
    /\ \E error \in {"ask", "outside"} : Settles(c, error, "approval_required")
    /\ UNCHANGED worker

FailsCall(c) ==
    /\ \E error \in {"ask", "outside", "error"} : Settles(c, error, "failed")
    /\ UNCHANGED worker

CallStep(c) ==
    /\ \/ CreatesRow(c) \/ RefusesArguments(c) \/ MarksRow(c) \/ ChecksScope(c) \/ Admission(c)
       \/ Collects(c) \/ AsksApproval(c) \/ FailsCall(c)
    /\ UNCHANGED <<trust, fileText, applied, owed, collided, cutOff, torn>>

---------------------------------------------------------------------------
\* The thread.

\* Those who have read the file, or emptied it, and have not written it yet.
Changing == {c \in ToolCallIds : worker[c].stage \in {"holding", "emptied"}}

\* Whoever changes the file now does so beside those: their parts are at
\* stake, and whatever the file has to hold.
ChangesBeside(c) ==
    collided' = IF Changing \ {c} = {} THEN collided
                ELSE collided \cup owed \cup Changing \cup {c}

WorkEnds(c, result) ==
    worker' = [worker EXCEPT ![c] = [stage |-> "ended", text |-> {}, result |-> result]]

Holds(c, stage, text) ==
    worker' = [worker EXCEPT ![c] = [stage |-> stage, text |-> text, result |-> "none"]]

\* resolve_workspace_path refuses; or the file is read, and that is all.
EndsAtOnce(c) ==
    /\ worker[c].stage = "started"
    /\ \/ toolCall[c].trouble = "outside" /\ WorkEnds(c, "outside")
       \/ toolCall[c].trouble # "outside" /\ ~Mutates(c) /\ WorkEnds(c, "done")
    /\ UNCHANGED <<fileText, applied, owed, collided>>

MayOpen(c, kinds) ==
    /\ worker[c].stage = "started" /\ toolCall[c].trouble # "outside"
    /\ toolCall[c].kind \in kinds

\* Faulty: the file is opened anew.
AppendedAnew(c) == {c}

Appended(c) == fileText \cup {c}

\* execute_file_append
Appends(c) ==
    /\ MayOpen(c, {"append"}) /\ WorkEnds(c, "done") /\ ChangesBeside(c)
    /\ fileText' = Appended(c)
    /\ applied' = applied \cup {c} /\ owed' = owed \cup {c}

\* execute_file_write: the file is emptied by its opening.
OpensToWrite(c) ==
    /\ MayOpen(c, {"write"}) /\ Holds(c, "emptied", {c}) /\ ChangesBeside(c)
    /\ fileText' = {}
    /\ UNCHANGED <<applied, owed>>

\* execute_file_edit reads it; without a match a single edit ends there, and
\* an edit of all matches is to write what it has read.
ReadsToEdit(c) ==
    /\ MayOpen(c, {"edit", "edit_all"})
    /\ IF "old" \in fileText
       THEN Holds(c, "holding", (fileText \ {"old"}) \cup {c}) /\ ChangesBeside(c)
       ELSE IF toolCall[c].kind = "edit"
       THEN WorkEnds(c, "miss") /\ UNCHANGED collided
       ELSE Holds(c, "holding", fileText) /\ ChangesBeside(c)
    /\ UNCHANGED <<fileText, applied, owed>>

OpensToEdit(c) ==
    /\ worker[c].stage = "holding"
    /\ worker' = [worker EXCEPT ![c].stage = "emptied"]
    /\ ChangesBeside(c) /\ fileText' = {}
    /\ UNCHANGED <<applied, owed>>

\* The text goes where the thread is in the file: over what another wrote
\* meanwhile, or over the beginning of it.
FillsFile(c) ==
    /\ worker[c].stage = "emptied" /\ WorkEnds(c, "done") /\ ChangesBeside(c)
    /\ fileText' \in {worker[c].text, worker[c].text \cup fileText}
    /\ applied' = applied \cup ({c} \cap worker[c].text)
    /\ owed' = IF toolCall[c].kind = "write" THEN {c}
               ELSE IF c \in worker[c].text THEN (owed \ {"old"}) \cup {c}
               ELSE owed

WorkerStep(c) ==
    /\ \/ EndsAtOnce(c) \/ Appends(c) \/ OpensToWrite(c) \/ ReadsToEdit(c) \/ OpensToEdit(c)
       \/ FillsFile(c)
    /\ UNCHANGED <<trust, callRow, toolCall, cutOff, torn>>

---------------------------------------------------------------------------
\* The turn's timeout drops the call wherever it is, then
\* fail_incomplete_for_turn settles the row.
TurnDropsCall(c) ==
    /\ toolCall[c].at \notin {"idle", "dropped", "returned", "lost"}
    /\ toolCall' = [toolCall EXCEPT ![c].at = "dropped"] /\ cutOff' = cutOff \cup {c}
    /\ UNCHANGED callRow

TurnSettlesRow(c) ==
    /\ CallGoes(c, "dropped", "returned")
    /\ callRow' = IF callRow[c] \in {"pending", "executing"}
                  THEN [callRow EXCEPT ![c] = "failed"] ELSE callRow
    /\ UNCHANGED cutOff

TurnEnds(c) ==
    /\ TurnDropsCall(c) \/ TurnSettlesRow(c)
    /\ UNCHANGED <<trust, worker, fileText, applied, owed, collided, torn>>

\* The desktop dies, with calls and threads; the rows are left as they are.
ToolsDie ==
    /\ \E c \in ToolCallIds : toolCall[c].at \notin {"idle", "lost"}
    /\ toolCall' = [c \in ToolCallIds |->
           IF toolCall[c].at = "idle" THEN toolCall[c] ELSE [toolCall[c] EXCEPT !.at = "lost"]]
    /\ worker' = [c \in ToolCallIds |-> NoWork]
    /\ torn' = (torn \/ \E c \in ToolCallIds : worker[c].stage = "emptied")
    /\ UNCHANGED <<trust, callRow, fileText, applied, owed, collided, cutOff>>

ToolCallsNext ==
    \/ \E c \in ToolCallIds : CallStep(c) \/ WorkerStep(c) \/ TurnEnds(c)
    \/ ToolsDie

ToolCallsSpec == ToolCallsInit /\ [][ToolCallsNext]_toolCallVars

---------------------------------------------------------------------------
\* The row of a call tells what happened to the file: a call that succeeded
\* has put its part into it, if it had one to put, and one that failed or
\* waits for approval has not, unless its turn cut it off and the thread went
\* on; nothing gets in without a trusted workspace.  And what got in stays
\* until a later call writes the file anew: only calls that overlap, whatever
\* their chats, undo each other and what was there before, or a death between
\* emptying and filling
\* (chat/tools.rs:715-780, registry.rs:317, fs.rs:302-440).
CallsTellTheFile ==
    /\ \A c \in ToolCallIds :
          /\ callRow[c] = "succeeded" /\ toolCall[c].kind \in {"write", "append", "edit"}
                => c \in applied
          /\ callRow[c] \in {"failed", "approval_required"} /\ c \notin cutOff => c \notin applied
    /\ applied # {} => trust = "trusted"
    /\ Changing = {} /\ ~torn => owed \ collided \subseteq fileText
=============================================================================
