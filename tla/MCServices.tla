----------------------------- MODULE MCServices -----------------------------
(***************************************************************************)
(* The services beside the goal loop, for TLC: leases, proposals,          *)
(* permission grants, shell commands, task lists, codex sessions, calls of *)
(* a model, the opening of the database, memory, the review queue, the     *)
(* pet, the chat window, the configuration file and the file tools.  No    *)
(* statement of one writes what another reads, so a behaviour picks one of *)
(* them at the start and the others rest: every interleaving within a      *)
(* service is explored, and their states add up instead of multiplying.    *)
(*                                                                         *)
(* The lease table has two rows, two concurrent calls, a claim of one      *)
(* task, a write scope for the same task (any active lease on a task       *)
(* refuses a claim of it) and another scope below it.                      *)
(***************************************************************************)
EXTENDS WorkLeases, Proposals, PermissionGrants, CommandRuns,
        TaskListItems, CodexSessions, ModelCalls, SchemaMigration,
        MemoryEntries, ReviewQueue, Pet, ChatView, ConfigFile, ToolCalls,
        GoalChats, SessionList, WorkPanels, TLC

CONSTANTS
    Focuses,     \* the services a run of TLC picks from
    p1, p2,      \* processes or calls: whoever acts in a service
    x1, x2,      \* rows or the calls that own them: what is acted upon
    t1, w1, h1, m1, src, lib

VARIABLE focus   \* the service this behaviour exercises

restVars == <<focus, vars, proposalVars, grantVars, commandVars, itemVars,
              sessionVars, modelVars, schemaVars, memoryVars, reviewVars,
              avatarVars, viewVars, configVars, toolCallVars, moodVars,
              affectionVars, goalChatVars, listVars, panelVars>>

Two == {p1, p2}
TwoMore == {x1, x2}
MCTasks == {t1}
MCWorkspaces == {w1}
MCHolders == {h1}

\* src and src/lib: a directory and a file below it.
MCScopes == {{}, {<<src>>}, {<<src, lib>>}}

Ask(task, type, scope) ==
    [workspace |-> w1, holder |-> h1, task |-> task, type |-> type, scope |-> scope]

MCRequests ==
    { Ask(t1, "task_claim", {}), Ask(t1, "write_scope", {<<src>>}),
      Ask(NoTask, "write_scope", {<<src, lib>>}) }

\* What URLs make of the protocols: each has two schemes to begin with.
MCModelRequests ==
    LET protocols == { <<"openai", "bearer">>, <<"openai", "api-key">>,
                       <<"anthropic", "x-api-key">>, <<"anthropic", "api-key">> }
        Calling(p, field, keyed, streaming) ==
            [protocol |-> p[1], auth |-> p[2], field |-> field, keyed |-> keyed, streaming |-> streaming]
    IN { Calling(p, f, TRUE, s) : p \in protocols, f \in Fields, s \in BOOLEAN }
           \cup { Calling(p, "max_tokens", FALSE, s) : p \in protocols, s \in BOOLEAN }

\* Texts up to an end mark, two tool calls in turns, and texts without a mark.
MCPayloads ==
    { <<Text("a"), Comment, Text("b"), Done>>,
      <<Piece(0, "name"), Piece(1, "name"), Piece(0, "1"), Piece(1, "1"), Piece(0, "2")>>,
      <<Text("a"), Text("b")>> }
MCModelReplies ==
    { r \in [payloads : MCPayloads, crlf : BOOLEAN, closed : BOOLEAN] :
          r.crlf => Comment \in Range(r.payloads) }

\* Every table by itself, and the two that share a name in history together.
MCWatches ==
    LET pair == {"agent_tasks", "agent_tasklist_items"}
    IN {{t} : t \in Tables \ pair} \cup {pair}

\* Two sessions of one terminal, and an event that names neither.
MCIdentities ==
    { [session |-> x1, terminal |-> m1], [session |-> x2, terminal |-> m1],
      [session |-> NoName, terminal |-> NoName] }

ServicesTypeOK ==
    /\ focus \in Focuses
    /\ (focus = "leases" => TypeOK)
    /\ (focus = "proposals" => ProposalsTypeOK)
    /\ (focus = "grants" => GrantsTypeOK)
    /\ (focus = "commands" => CommandsTypeOK)
    /\ (focus = "items" => ItemsTypeOK)
    /\ (focus = "sessions" => SessionsTypeOK)
    /\ (focus = "models" => ModelCallsTypeOK)
    /\ (focus = "schema" => SchemaTypeOK)
    /\ (focus = "memory" => MemoryTypeOK)
    /\ (focus = "reviews" => ReviewTypeOK)
    /\ (focus = "pet" => AvatarTypeOK)
    /\ (focus = "view" => ChatViewTypeOK)
    /\ (focus = "config" => ConfigTypeOK)
    /\ (focus = "calls" => ToolCallsTypeOK)
    /\ (focus = "mood" => MoodTypeOK)
    /\ (focus = "affection" => AffectionTypeOK)
    /\ (focus = "goalchats" => GoalChatsTypeOK)
    /\ (focus = "sessionlist" => SessionListTypeOK)
    /\ (focus = "panels" => PanelsTypeOK)

ServicesInit ==
    /\ focus \in Focuses
    /\ Init /\ ProposalsInit /\ GrantsInit /\ CommandsInit /\ ItemsInit
    /\ SessionsInit /\ ModelCallsInit /\ SchemaInit /\ MemoryInit
    /\ ReviewInit /\ AvatarInit /\ ChatViewInit /\ ConfigInit
    /\ ToolCallsInit /\ MoodInit /\ AffectionInit /\ GoalChatsInit
    /\ SessionListInit /\ PanelsInit
    \* A service at rest has one initial state.
    /\ (focus # "reviews" => ~legacyFile) /\ (focus # "config" => configFile = Missing)
    /\ (focus # "calls" => trust = "trusted")

\* The one service takes a step.
Only(service) == focus = service /\ UNCHANGED focus

ServicesNext ==
    \/ /\ Only("leases") /\ Next
       /\ UNCHANGED <<proposalVars, grantVars, commandVars, itemVars,
                      sessionVars, modelVars, schemaVars, memoryVars,
                      reviewVars, avatarVars, viewVars, configVars,
                      toolCallVars, moodVars, affectionVars, goalChatVars,
                      listVars, panelVars>>
    \/ /\ Only("proposals") /\ ProposalsNext
       /\ UNCHANGED <<vars, grantVars, commandVars, itemVars, sessionVars,
                      modelVars, schemaVars, memoryVars, reviewVars,
                      avatarVars, viewVars, configVars, toolCallVars, moodVars,
                      affectionVars, goalChatVars, listVars, panelVars>>
    \/ /\ Only("grants") /\ GrantsNext
       /\ UNCHANGED <<vars, proposalVars, commandVars, itemVars, sessionVars,
                      modelVars, schemaVars, memoryVars, reviewVars,
                      avatarVars, viewVars, configVars, toolCallVars, moodVars,
                      affectionVars, goalChatVars, listVars, panelVars>>
    \/ /\ Only("commands") /\ CommandsNext
       /\ UNCHANGED <<vars, proposalVars, grantVars, itemVars, sessionVars,
                      modelVars, schemaVars, memoryVars, reviewVars,
                      avatarVars, viewVars, configVars, toolCallVars, moodVars,
                      affectionVars, goalChatVars, listVars, panelVars>>
    \/ /\ Only("items") /\ ItemsNext
       /\ UNCHANGED <<vars, proposalVars, grantVars, commandVars, sessionVars,
                      modelVars, schemaVars, memoryVars, reviewVars,
                      avatarVars, viewVars, configVars, toolCallVars, moodVars,
                      affectionVars, goalChatVars, listVars, panelVars>>
    \/ /\ Only("sessions") /\ SessionsNext
       /\ UNCHANGED <<vars, proposalVars, grantVars, commandVars, itemVars,
                      modelVars, schemaVars, memoryVars, reviewVars,
                      avatarVars, viewVars, configVars, toolCallVars, moodVars,
                      affectionVars, goalChatVars, listVars, panelVars>>
    \/ /\ Only("models") /\ ModelCallsNext
       /\ UNCHANGED <<vars, proposalVars, grantVars, commandVars, itemVars,
                      sessionVars, schemaVars, memoryVars, reviewVars,
                      avatarVars, viewVars, configVars, toolCallVars, moodVars,
                      affectionVars, goalChatVars, listVars, panelVars>>
    \/ /\ Only("schema") /\ SchemaNext
       /\ UNCHANGED <<vars, proposalVars, grantVars, commandVars, itemVars,
                      sessionVars, modelVars, memoryVars, reviewVars,
                      avatarVars, viewVars, configVars, toolCallVars, moodVars,
                      affectionVars, goalChatVars, listVars, panelVars>>
    \/ /\ Only("memory") /\ MemoryNext
       /\ UNCHANGED <<vars, proposalVars, grantVars, commandVars, itemVars,
                      sessionVars, modelVars, schemaVars, reviewVars,
                      avatarVars, viewVars, configVars, toolCallVars, moodVars,
                      affectionVars, goalChatVars, listVars, panelVars>>
    \/ /\ Only("reviews") /\ ReviewNext
       /\ UNCHANGED <<vars, proposalVars, grantVars, commandVars, itemVars,
                      sessionVars, modelVars, schemaVars, memoryVars,
                      avatarVars, viewVars, configVars, toolCallVars, moodVars,
                      affectionVars, goalChatVars, listVars, panelVars>>
    \/ /\ Only("pet") /\ AvatarNext
       /\ UNCHANGED <<vars, proposalVars, grantVars, commandVars, itemVars,
                      sessionVars, modelVars, schemaVars, memoryVars,
                      reviewVars, viewVars, configVars, toolCallVars, moodVars,
                      affectionVars, goalChatVars, listVars, panelVars>>
    \/ /\ Only("view") /\ ChatViewNext
       /\ UNCHANGED <<vars, proposalVars, grantVars, commandVars, itemVars,
                      sessionVars, modelVars, schemaVars, memoryVars,
                      reviewVars, avatarVars, configVars, toolCallVars,
                      moodVars, affectionVars, goalChatVars, listVars,
                      panelVars>>
    \/ /\ Only("config") /\ ConfigNext
       /\ UNCHANGED <<vars, proposalVars, grantVars, commandVars, itemVars,
                      sessionVars, modelVars, schemaVars, memoryVars,
                      reviewVars, avatarVars, viewVars, toolCallVars, moodVars,
                      affectionVars, goalChatVars, listVars, panelVars>>
    \/ /\ Only("calls") /\ ToolCallsNext
       /\ UNCHANGED <<vars, proposalVars, grantVars, commandVars, itemVars,
                      sessionVars, modelVars, schemaVars, memoryVars,
                      reviewVars, avatarVars, viewVars, configVars, moodVars,
                      affectionVars, goalChatVars, listVars, panelVars>>
    \/ /\ Only("mood") /\ MoodNext
       /\ UNCHANGED <<vars, proposalVars, grantVars, commandVars, itemVars,
                      sessionVars, modelVars, schemaVars, memoryVars,
                      reviewVars, avatarVars, viewVars, configVars,
                      toolCallVars, affectionVars, goalChatVars, listVars,
                      panelVars>>
    \/ /\ Only("affection") /\ AffectionNext
       /\ UNCHANGED <<vars, proposalVars, grantVars, commandVars, itemVars,
                      sessionVars, modelVars, schemaVars, memoryVars,
                      reviewVars, avatarVars, viewVars, configVars,
                      toolCallVars, moodVars, goalChatVars, listVars, panelVars>>
    \/ /\ Only("goalchats") /\ GoalChatsNext
       /\ UNCHANGED <<vars, proposalVars, grantVars, commandVars, itemVars,
                      sessionVars, modelVars, schemaVars, memoryVars,
                      reviewVars, avatarVars, viewVars, configVars,
                      toolCallVars, moodVars, affectionVars, listVars,
                      panelVars>>
    \/ /\ Only("sessionlist") /\ SessionListNext
       /\ UNCHANGED <<vars, proposalVars, grantVars, commandVars, itemVars,
                      sessionVars, modelVars, schemaVars, memoryVars,
                      reviewVars, avatarVars, viewVars, configVars,
                      toolCallVars, moodVars, affectionVars, goalChatVars,
                      panelVars>>
    \/ /\ Only("panels") /\ PanelsNext
       /\ UNCHANGED <<vars, proposalVars, grantVars, commandVars, itemVars,
                      sessionVars, modelVars, schemaVars, memoryVars,
                      reviewVars, avatarVars, viewVars, configVars,
                      toolCallVars, moodVars, affectionVars, goalChatVars,
                      listVars>>

\* Two states that agree on the service of the behaviour are one: the resting
\* ones keep the only initial state they have.  Calls that differ in nothing but
\* what they are doing are interchangeable: which of them does it is left out.
Unordered(steps) == [place \in Range(steps) |->
                          Cardinality({c \in DOMAIN steps : steps[c] = place})]
Membership(x, sets) == [i \in DOMAIN sets |-> x \in sets[i]]

\* What a call holds of lease l and of the other one.
SeenFrom(l, call) ==
    LET seen(ids) == <<l \in ids, ids \ {l} # {}>>
    IN CASE call.pc = "idle" -> <<"idle">>
         [] call.pc = "insert" -> <<"insert", call.req, call.at, seen(call.seen)>>
         [] call.pc = "renew" -> <<"renew", call.at, seen({call.lease})>>
         [] call.pc = "expire" -> <<"expire", seen(call.todo)>>

\* What an agent does, with the row it has read as its own or not.
WorkOf(a) ==
    IF working[a].at # "updating" THEN <<working[a].at, working[a]>>
    ELSE LET read == working[a].row
         IN <<"updating", working[a].list, working[a].item, working[a].waitsFor,
              read.status, read.owner = a, read.owner = NoAgent>>

FocusedService ==
    <<focus,
      CASE focus = "leases" ->
            <<now, Unordered([l \in LeaseIds |->
                 <<leases[l], term[l], l \in basis[l], basis[l] \ {l} # {},
                   Unordered([c \in Callers |-> SeenFrom(l, calls[c])])>>])>>
        [] focus = "proposals" ->
            <<proposals, toolRuns, Unordered(asking), Unordered(executing),
             shown, agreed, approvals, attempts, overlapped, interrupted>>
        [] focus = "grants" -> grantVars
        [] focus = "commands" ->
            <<Unordered([r \in Runs |->
                 <<row[r], memory[r], process[r], tracking[r], Membership(r,
                   <<liveRuns, unfollowed, orphaned, blind>>),
                   Unordered([k \in Killers |->
                       IF killing[k].run = r THEN killing[k].at ELSE ""])>>]),
              restarts>>
        [] focus = "items" ->
            <<[l \in TaskLists |-> [i \in Numbers |-> items[l][i].status]], blockers, asked, clobbered,
              Unordered([a \in Agents |->
                 <<WorkOf(a), {place \in TaskLists \X Numbers : items[place[1]][place[2]].owner = a},
                   {place \in TaskLists \X Numbers : a \in claimants[place[1]][place[2]]}>>])>>
        [] focus = "sessions" -> sessionVars
        [] focus = "models" -> modelVars
        [] focus = "schema" -> schemaVars
        [] focus = "memory" ->
            Unordered([w \in Rememberers |->
                 <<recalling[w].at, Unordered([e \in Entries |->
                     <<entries[e], e \in recalling[w].held, e \in HeldBy(Rememberers \ {w}),
                       Membership(e, <<chunks, rivals, mislaid, overtaken, exposed>>)>>])>>])
        [] focus = "reviews" ->
            <<reviews, Unordered([w \in QueueWriters |-> <<writer[w], queueLock = w>>]), queueFile,
              legacyFile, started, contended, judged, raced, spoiled>>
        [] focus = "pet" ->
            <<avatar, Unordered(dresser), petClock, chosen, unread>>
        [] focus = "view" -> viewVars
        [] focus = "config" -> configVars
        [] focus = "calls" ->
            <<trust, torn, "old" \in fileText, "old" \in owed, Unordered([c \in ToolCallIds |->
                 <<callRow[c], toolCall[c], worker[c].stage, worker[c].result,
                   {IF p = c THEN "self" ELSE IF p = "old" THEN "old" ELSE "other" :
                       p \in worker[c].text},
                   Membership(c, <<fileText, applied, owed, collided, cutOff>>)>>])>>
        [] focus = "mood" -> moodVars
        [] focus = "affection" ->
            <<today, affection, Unordered(fond), talks, mixed>>
        [] focus = "goalchats" -> goalChatVars
        [] focus = "sessionlist" ->
            <<titles, archived, chatTurn, Unordered(sideCalls), sideRows, happenings,
              named, forked, answerOld>>
        [] focus = "panels" -> panelVars>>

ServicesSpec == ServicesInit /\ [][ServicesNext]_restVars

=============================================================================
