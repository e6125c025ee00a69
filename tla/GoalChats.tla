----------------------------- MODULE GoalChats -----------------------------
(***************************************************************************)
(* A conversation and the goals that grow out of it.  The workbench shows  *)
(* the session as it was listed last (AgentWorkspacePanel.tsx), switches   *)
(* it between chat and goal, and makes the first message of goal mode, or  *)
(* an offer of the chat (useChatSession.ts), the objective of a goal that  *)
(* it links to the session (chat/session.rs).  The loop of the desktop     *)
(* advances the goal and tells each new status in the session that is      *)
(* linked to it, if there is one (worker.rs, commands.rs).  The calls of   *)
(* the workbench run side by side, and its lists arrive when they arrive.  *)
(*                                                                         *)
(*   ChatGoals     the goals that can be created                           *)
(*   ChatActions   what the user may do in the workbench at once           *)
(*   MaxBegun      bound: the actions the user begins                      *)
(*                                                                         *)
(* The loop's tick stands for GoalOrchestrator: it moves the status on.    *)
(***************************************************************************)
EXTENDS Integers, Sequences, FiniteSets

CONSTANTS ChatGoals, ChatActions, NoGoal, MaxBegun

ASSUME GoalChatsAssumption == NoGoal \notin ChatGoals /\ MaxBegun \in Nat

VARIABLES
    chatRow,      \* the session's row: its kind and its goal
    onScreen,        \* what the workbench shows of it
    pendingKind,  \* the kind that is on its way to the row, or "none"
    goalStatus,
    doing,        \* doing[a]: an action, the steps it has left and what they carry
    sidebar,      \* the sidebar's list on its way, or NoList
    teller,       \* the loop of the desktop
    verdictOf,    \* history: what became of the message about a goal's verdict
    lastLinked,   \* history: the goal linked last to this session
    tangled,      \* history: an action overlapped another or began on an old list
    begun         \* history: how many actions were begun, up to MaxBegun

goalChatVars == <<chatRow, onScreen, pendingKind, goalStatus, doing, sidebar, teller, verdictOf,
                  lastLinked, tangled, begun>>
goalSide == <<goalStatus, teller, verdictOf>>
chatSide == <<chatRow, onScreen, pendingKind, doing, sidebar, lastLinked, tangled, begun>>

\* Every status between the draft and the verdict is "open" here.
ChatGoalStatuses == {"none", "draft", "open", "accepted"}
MaybeGoals == ChatGoals \cup {NoGoal}
ChatRows == [kind : {"chat", "goal"}, goal : MaybeGoals]
NoList == [kind |-> "none", goal |-> NoGoal]
Looking(place, goal, status) == [at |-> place, goal |-> goal, status |-> status]
NotLooking == Looking("waits", NoGoal, "none")
DoingChat(does, steps, goal, kind) ==
    [does |-> does, steps |-> steps, goal |-> goal, kind |-> kind, list |-> NoList]
NotDoing == DoingChat("nothing", <<>>, NoGoal, "chat")

GoalChatsTypeOK ==
    /\ chatRow \in ChatRows /\ onScreen \in ChatRows /\ pendingKind \in {"none", "chat", "goal"}
    /\ goalStatus \in [ChatGoals -> ChatGoalStatuses]
    /\ \A a \in ChatActions :
          /\ doing[a].does \in {"nothing", "message", "offer", "switch"}
          /\ doing[a].steps = <<>> <=> doing[a].does = "nothing"
          /\ doing[a].goal \in MaybeGoals /\ doing[a].list \in ChatRows \cup {NoList}
    /\ sidebar \in ChatRows \cup {NoList}
    /\ teller.at \in {"waits", "ticks", "looks", "tells"}
    /\ teller.goal \in MaybeGoals /\ teller.status \in ChatGoalStatuses
    /\ verdictOf \in [ChatGoals -> {"none", "told", "missed"}] /\ lastLinked \in MaybeGoals
    /\ tangled \in BOOLEAN /\ begun \in 0..MaxBegun

GoalChatsInit ==
    /\ chatRow = [kind |-> "chat", goal |-> NoGoal] /\ onScreen = chatRow
    /\ pendingKind = "none" /\ goalStatus = [g \in ChatGoals |-> "none"]
    /\ doing = [a \in ChatActions |-> NotDoing] /\ sidebar = NoList /\ teller = NotLooking
    /\ verdictOf = [g \in ChatGoals |-> "none"] /\ lastLinked = NoGoal
    /\ tangled = FALSE /\ begun = 0

---------------------------------------------------------------------------
\* What an action does next, and the action with that step behind it.
StepOf(a, step) == doing[a].steps # <<>> /\ Head(doing[a].steps) = step
Stepped(a) == [doing EXCEPT ![a].steps = Tail(@)]
NewGoals == {g \in ChatGoals : goalStatus[g] = "none"}
NextGoal == CHOOSE g \in NewGoals : TRUE

\* An action begins on what the workbench shows, beside those in flight.  It
\* takes the first place that is free, and the next goal: they are all alike.
Begins(a, action) ==
    /\ doing[a] = NotDoing /\ a = CHOOSE b \in ChatActions : doing[b] = NotDoing
    /\ doing' = [doing EXCEPT ![a] = action]
    /\ begun < MaxBegun /\ begun' = begun + 1
    /\ tangled' = \/ tangled \/ onScreen.goal # chatRow.goal
                  \/ \E b \in ChatActions : doing[b] # NotDoing

\* create_goal, the first call of a message or an offer.
CreatesGoal(g) == goalStatus' = [goalStatus EXCEPT ![g] = "draft"]

\* handleSend in goal mode without a goal, or with one that is finished: the
\* goal is started before the session is linked to it.
SendsFirstMessage(a) ==
    /\ onScreen.kind = "goal"
    /\ onScreen.goal # NoGoal => goalStatus[onScreen.goal] = "accepted"
    /\ NewGoals # {} /\ CreatesGoal(NextGoal)
    /\ Begins(a, DoingChat("message", <<"starts", "writes", "lists", "shows">>, NextGoal, "goal"))
    /\ UNCHANGED <<chatRow, onScreen, pendingKind, sidebar, lastLinked, teller, verdictOf>>

\* createGoalFromSeed takes an offer of the chat: linked first, then started.
TakesOffer(a) ==
    /\ NewGoals # {} /\ CreatesGoal(NextGoal)
    /\ Begins(a, DoingChat("offer", <<"writes", "starts", "lists", "shows">>, NextGoal, "goal"))
    /\ UNCHANGED <<chatRow, onScreen, pendingKind, sidebar, lastLinked, teller, verdictOf>>

\* Faulty: the switch leaves the goal out.
ForgetsGoal == NoGoal

\* The goal a switch writes back is the one the workbench shows.
ExistingGoal == onScreen.goal

\* handleSwitchKind: the other kind is shown at once and guarded against lists.
SwitchesKind(a) ==
    \E kind \in {"chat", "goal"} \ {onScreen.kind} :
        /\ Begins(a, DoingChat("switch", <<"writes", "lists", "shows">>, ExistingGoal, kind))
        /\ pendingKind' = kind /\ onScreen' = [onScreen EXCEPT !.kind = kind]
        /\ UNCHANGED <<chatRow, sidebar, lastLinked, goalSide>>

\* update_goal_status; the message about it goes to the linked session, if any.
StartsGoal(a) ==
    /\ StepOf(a, "starts") /\ doing' = Stepped(a)
    /\ goalStatus' = [goalStatus EXCEPT ![doing[a].goal] = "open"]
    /\ UNCHANGED <<chatRow, onScreen, pendingKind, sidebar, teller, verdictOf, lastLinked, tangled,
                   begun>>

\* set_chat_session_kind writes the kind and the goal, whatever the row has.
WritesRow(a) ==
    /\ StepOf(a, "writes") /\ doing' = Stepped(a)
    /\ chatRow' = [kind |-> doing[a].kind, goal |-> doing[a].goal]
    /\ lastLinked' = IF doing[a].does = "switch" THEN lastLinked ELSE doing[a].goal
    /\ UNCHANGED <<onScreen, pendingKind, sidebar, tangled, begun, goalSide>>

\* A call fails: a goal stays where it got, and a switch shows what there is.
CallFails(a) ==
    /\ \E step \in {"starts", "writes"} : StepOf(a, step)
    /\ IF doing[a].does = "switch"
       THEN doing' = Stepped(a) /\ pendingKind' = "none"
       ELSE doing' = [doing EXCEPT ![a] = NotDoing] /\ UNCHANGED pendingKind
    /\ UNCHANGED <<chatRow, onScreen, sidebar, lastLinked, tangled, begun, goalSide>>

---------------------------------------------------------------------------
\* A list is shown as it was read, but for the kind on its way.
GuardedRow(row) == IF pendingKind = "none" THEN row ELSE [row EXCEPT !.kind = pendingKind]

ListsAgain(a) ==
    /\ StepOf(a, "lists") /\ doing' = [Stepped(a) EXCEPT ![a].list = chatRow]
    /\ UNCHANGED <<chatRow, onScreen, pendingKind, sidebar, lastLinked, tangled, begun, goalSide>>

\* The list after an offer is shown without a look at the guard.
ShowsAgain(a) ==
    /\ StepOf(a, "shows") /\ doing' = [doing EXCEPT ![a] = NotDoing]
    /\ onScreen' = IF doing[a].does = "offer" THEN doing[a].list ELSE GuardedRow(doing[a].list)
    /\ pendingKind' = IF doing[a].does = "switch" THEN "none" ELSE pendingKind
    /\ UNCHANGED <<chatRow, sidebar, lastLinked, tangled, begun, goalSide>>

\* The sidebar lists the sessions when goals or teams change and every so often.
SidebarLists ==
    /\ sidebar = NoList /\ sidebar' = chatRow
    /\ UNCHANGED <<chatRow, onScreen, pendingKind, doing, lastLinked, tangled, begun, goalSide>>

SidebarArrives ==
    /\ sidebar # NoList /\ sidebar' = NoList /\ onScreen' = GuardedRow(sidebar)
    /\ UNCHANGED <<chatRow, pendingKind, doing, lastLinked, tangled, begun, goalSide>>

---------------------------------------------------------------------------
\* advance_active_goals_once_with_app lists the goals with their statuses, has
\* each ticked, reads it again and tells the status if it is another one.
ListsGoals(g) ==
    /\ teller = NotLooking /\ goalStatus[g] = "open"
    /\ teller' = Looking("ticks", g, goalStatus[g])
    /\ UNCHANGED <<goalStatus, verdictOf, chatSide>>

TicksGoal ==
    /\ teller.at = "ticks" /\ teller' = [teller EXCEPT !.at = "looks"]
    /\ \E status \in {"open", "accepted"} :
          goalStatus' = [goalStatus EXCEPT ![teller.goal] = status]
    /\ UNCHANGED <<verdictOf, chatSide>>

LooksAgain ==
    LET now == goalStatus[teller.goal] IN
    /\ teller.at = "looks"
    /\ teller' = IF now = teller.status THEN NotLooking ELSE Looking("tells", teller.goal, now)
    /\ UNCHANGED <<goalStatus, verdictOf, chatSide>>

\* A verdict that is not told after all.
MissesVerdict(g) == verdictOf' = [verdictOf EXCEPT ![g] =
                              IF goalStatus[g] = "accepted" THEN "missed" ELSE @]

\* A tick that changed the status and failed later, and a cycle without tasks,
\* leave nothing to tell.
TellsNothing ==
    /\ teller.at \in {"looks", "tells"} /\ teller' = NotLooking /\ MissesVerdict(teller.goal)
    /\ UNCHANGED <<goalStatus, chatSide>>

\* project_goal_status_change_to_session finds the session by the goal.
TellsStatus ==
    /\ teller.at = "tells" /\ teller' = NotLooking
    /\ verdictOf' = [verdictOf EXCEPT ![teller.goal] =
                        IF chatRow.goal = teller.goal THEN "told" ELSE "missed"]
    /\ UNCHANGED <<goalStatus, chatSide>>

\* The desktop ends and is started again; the workbench lists anew.
DesktopRestarts ==
    /\ teller # NotLooking \/ \E a \in ChatActions : doing[a] # NotDoing
    /\ doing' = [a \in ChatActions |-> NotDoing] /\ sidebar' = NoList /\ pendingKind' = "none"
    /\ onScreen' = chatRow /\ teller' = NotLooking
    /\ IF teller = NotLooking THEN UNCHANGED verdictOf ELSE MissesVerdict(teller.goal)
    /\ UNCHANGED <<chatRow, goalStatus, lastLinked, tangled, begun>>

ChatAction(a) ==
    \/ SendsFirstMessage(a) \/ TakesOffer(a) \/ SwitchesKind(a)
    \/ StartsGoal(a) \/ WritesRow(a) \/ CallFails(a)
    \/ ListsAgain(a) \/ ShowsAgain(a)

GoalChatsNext ==
    \/ \E a \in ChatActions : ChatAction(a)
    \/ SidebarLists \/ SidebarArrives
    \/ \E g \in ChatGoals : ListsGoals(g)
    \/ TicksGoal \/ LooksAgain \/ TellsNothing \/ TellsStatus \/ DesktopRestarts

GoalChatsSpec == GoalChatsInit /\ [][GoalChatsNext]_goalChatVars

---------------------------------------------------------------------------
\* The session keeps the goal that was created for it last, through every
\* switch of its kind, unless an action began before another had ended or on
\* an old list; what the user chose is what he sees until it is written,
\* whatever lists arrive meanwhile; and the verdict on a goal is told in its
\* session once the loop is through with it, if the session was linked, the
\* tick succeeded and the desktop lived (AgentWorkspacePanel.tsx:170-228,
\* 425-470, worker.rs:372-397, 774-822).
GoalsStayWithTheirChat ==
    /\ tangled \/ chatRow.goal = lastLinked
    /\ \A a \in ChatActions :
          doing[a].does = "switch" /\ StepOf(a, "writes") /\ ~tangled =>
              onScreen.kind = doing[a].kind
    /\ \A g \in ChatGoals :
          goalStatus[g] = "accepted" /\ g # teller.goal => verdictOf[g] # "none"
=============================================================================
