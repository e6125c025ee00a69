---------------------------- MODULE SessionList ----------------------------
(***************************************************************************)
(* The list of conversations.  Four places ask for the pinned one by its   *)
(* title, and make it when a list does not show it (chat/session.rs); a    *)
(* turn marks its session as working, and gives it a title if it has none  *)
(* of its own (active_run.rs, send_v2.rs); the sidebar of the workbench    *)
(* lists, names, adds and archives, and asks again every five seconds as   *)
(* long as it shows a mark (ChatSessionSidebar.tsx).  Calls overlap, and   *)
(* answers arrive in any order.                                            *)
(*                                                                         *)
(*   Slots        the sessions that can be made                            *)
(*   ListCalls    calls of the windows that may be under way at once       *)
(*   MaxHappenings   bound: turns, names, archivings and lost answers      *)
(*                                                                         *)
(* There are never so many sessions that a list leaves one out: the search *)
(* for the pinned session takes 200 of them, the sidebar 50.               *)
(***************************************************************************)
EXTENDS Integers, FiniteSets

CONSTANTS Slots, ListCalls, NoSlot, MaxHappenings

ASSUME SessionListAssumption == NoSlot \notin Slots /\ MaxHappenings \in Nat

VARIABLES
    titles,    \* titles[s], "none" before the session is made
    archived,  \* sessions that are hidden
    chatTurn,  \* the turn under way
    sideCalls,    \* sideCalls[c]: what a call of a window has learned so far
    sideRows,  \* what the sidebar shows
    happenings,
    named,     \* history: sessions the user named, but for those retitled rightly
    forked,    \* history: why there may be several pinned sessions
    answerOld   \* history: the sidebar was filled from an older list

listVars == <<titles, archived, chatTurn, sideCalls, sideRows, happenings, named, forked, answerOld>>

\* A new session is "fresh"; its first message or the user gives it a title.
SessionTitles == {"none", "pinned", "fresh", "first message", "a name"}
ListRows == [slot : Slots, title : SessionTitles, working : BOOLEAN]
NoListRow == [slot |-> NoSlot, title |-> "none", working |-> FALSE]
Nobody == [at |-> "rests", slot |-> NoSlot]
Asking(kind) == [kind |-> kind, looked |-> FALSE, pinned |-> NoListRow,
                 listed |-> FALSE, rows |-> {}, old |-> FALSE]
NotAsking == Asking("none")

SessionListTypeOK ==
    /\ titles \in [Slots -> SessionTitles] /\ archived \subseteq Slots
    /\ chatTurn.at \in {"rests", "reads", "titles", "answers"}
    /\ chatTurn.slot \in Slots \cup {NoSlot}
    /\ \A c \in ListCalls :
          /\ sideCalls[c].kind \in {"none", "ensure", "refresh"}
          /\ sideCalls[c].pinned \in ListRows \cup {NoListRow}
          /\ sideCalls[c].rows \subseteq ListRows /\ sideCalls[c].looked \in BOOLEAN
    /\ sideRows \subseteq ListRows /\ named \subseteq Slots
    /\ happenings \in 0 .. MaxHappenings /\ forked \in BOOLEAN /\ answerOld \in BOOLEAN

SessionListInit ==
    /\ titles = [s \in Slots |-> "none"] /\ archived = {} /\ chatTurn = Nobody
    /\ sideCalls = [c \in ListCalls |-> NotAsking] /\ sideRows = {}
    /\ happenings = 0 /\ named = {} /\ forked = FALSE /\ answerOld = FALSE

---------------------------------------------------------------------------
\* register_active_run to remove_active_run.
Working(s) == chatTurn.at # "rests" /\ chatTurn.slot = s

\* list_chat_sessions leaves the archived ones out.
Visible == {s \in Slots : titles[s] # "none" /\ s \notin archived}
PinnedSessions == {s \in Visible : titles[s] = "pinned"}
RowOf(s) == [slot |-> s, title |-> titles[s], working |-> Working(s)]

NewSlots == {s \in Slots : titles[s] = "none"}
NextSlot == CHOOSE s \in NewSlots : TRUE

\* create_chat_session.
Makes(title) == NewSlots # {} /\ titles' = [titles EXCEPT ![NextSlot] = title]

FreeCalls == {c \in ListCalls : sideCalls[c] = NotAsking}
Happens == happenings < MaxHappenings /\ happenings' = happenings + 1
Asks(c, kind) == sideCalls[c] = NotAsking /\ c = (CHOOSE d \in FreeCalls : TRUE)
                     /\ sideCalls' = [sideCalls EXCEPT ![c] = Asking(kind)]

\* What a call has read already.
Begun(call) == call.old \/ call.listed \/ call.pinned # NoListRow

\* The sidebar lists after whatever it did; lists read before that are old.
AsksAfterChange(c) ==
    /\ sideCalls[c] = NotAsking /\ c = CHOOSE d \in FreeCalls : TRUE
    /\ sideCalls' = [d \in ListCalls |-> IF d = c THEN Asking("refresh")
                                      ELSE [sideCalls[d] EXCEPT !.old = Begun(sideCalls[d])]]

\* PetInlineChat, ChatPanel, show_pet_message and the desktop's notices want
\* the pinned session.
WantsPinned(c) ==
    /\ Asks(c, "ensure")
    /\ UNCHANGED <<titles, archived, chatTurn, sideRows, happenings, named, forked, answerOld>>

\* The sidebar opens, another session is selected, or goals or teams change.
SidebarAsks(c) ==
    /\ Asks(c, "refresh")
    /\ UNCHANGED <<titles, archived, chatTurn, sideRows, happenings, named, forked, answerOld>>

\* The timer runs as long as the sidebar shows a working session.
Polling == \E r \in sideRows : r.working
SidebarPolls(c) == Polling /\ SidebarAsks(c)

\* A call that wanted nothing but the pinned session is over when it has it.
Found(c, row) ==
    sideCalls' = [sideCalls EXCEPT ![c] = IF @.kind = "ensure" THEN NotAsking
                                   ELSE [@ EXCEPT !.looked = FALSE, !.pinned = row]]

\* ensure_chat_session takes the one with the title and the latest message.
LooksForPinned(c) ==
    /\ sideCalls[c].kind # "none" /\ sideCalls[c].pinned = NoListRow /\ ~sideCalls[c].looked
    /\ \/ /\ PinnedSessions = {} /\ sideCalls' = [sideCalls EXCEPT ![c].looked = TRUE]
          \* Another that found none as well will make one too.
          /\ forked' = (forked \/ \E d \in ListCalls : sideCalls[d].looked)
       \/ /\ \E s \in PinnedSessions : Found(c, RowOf(s))
          /\ UNCHANGED forked
    /\ UNCHANGED <<titles, archived, chatTurn, sideRows, happenings, named, answerOld>>

MakesPinned(c) ==
    /\ sideCalls[c].looked /\ Makes("pinned")
    /\ Found(c, [slot |-> NextSlot, title |-> "pinned", working |-> FALSE])
    /\ UNCHANGED <<archived, chatTurn, sideRows, happenings, named, forked, answerOld>>

\* refresh waits for the pinned session and a list, which run side by side.
ReadsList(c) ==
    /\ sideCalls[c].kind = "refresh" /\ ~sideCalls[c].listed
    /\ sideCalls' = [sideCalls EXCEPT ![c].listed = TRUE,
                                ![c].rows = {RowOf(s) : s \in Visible}]
    /\ UNCHANGED <<titles, archived, chatTurn, sideRows, happenings, named, forked, answerOld>>

\* Other sessions of the pinned title are left out.
RefreshArrives(c) ==
    /\ sideCalls[c].kind = "refresh" /\ sideCalls[c].listed /\ sideCalls[c].pinned # NoListRow
    /\ sideRows' = {sideCalls[c].pinned} \cup
                     {r \in sideCalls[c].rows : r.slot # sideCalls[c].pinned.slot /\ r.title # "pinned"}
    /\ answerOld' = sideCalls[c].old /\ sideCalls' = [sideCalls EXCEPT ![c] = NotAsking]
    /\ UNCHANGED <<titles, archived, chatTurn, happenings, named, forked>>

\* A refresh that fails leaves the list as it is.
RefreshFails(c) ==
    /\ sideCalls[c].kind = "refresh" /\ Happens
    /\ sideCalls' = [sideCalls EXCEPT ![c] = NotAsking] /\ answerOld' = TRUE
    /\ UNCHANGED <<titles, archived, chatTurn, sideRows, named, forked>>

---------------------------------------------------------------------------
\* What the user does in the sidebar with the sessions it shows.  Room is kept
\* among the Slots for the pinned sessions that may still be made: a bound.
MayBeMade ==
    IF PinnedSessions' = {} THEN ListCalls ELSE {c \in ListCalls : sideCalls[c].looked}
RoomIsKept == Cardinality(NewSlots') >= Cardinality(MayBeMade)

AddsSession(c) ==
    /\ Makes("fresh") /\ AsksAfterChange(c)
    /\ UNCHANGED archived /\ RoomIsKept
    /\ UNCHANGED <<chatTurn, sideRows, happenings, named, forked, answerOld>>

\* rename_chat_session; a turn that has read the old title may still write.
NamesSession(c) ==
    \E r \in sideRows :
        /\ Happens
        /\ titles' = [titles EXCEPT ![r.slot] = "a name"] /\ AsksAfterChange(c)
        /\ named' = IF chatTurn.at = "titles" /\ chatTurn.slot = r.slot
                    THEN named \ {r.slot} ELSE named \cup {r.slot}
        /\ UNCHANGED archived /\ RoomIsKept
        /\ UNCHANGED <<chatTurn, sideRows, forked, answerOld>>

\* The pinned session has no button to archive it.
ArchivesSession(c) ==
    \E r \in sideRows :
        /\ r.title # "pinned" /\ r.slot \notin archived
        /\ archived' = archived \cup {r.slot} /\ AsksAfterChange(c) /\ Happens
        /\ UNCHANGED <<titles, chatTurn, sideRows, named, forked, answerOld>>

---------------------------------------------------------------------------
Stays == UNCHANGED <<sideCalls, sideRows, named, forked, answerOld>>

\* send_message_v2: the run is registered before the session is titled.
TurnBegins(s) ==
    /\ chatTurn = Nobody /\ titles[s] # "none" /\ Happens
    /\ chatTurn' = [at |-> "reads", slot |-> s]
    /\ UNCHANGED <<titles, archived>> /\ Stays

\* Faulty: every session is named after its last message.
TitlesAny(title) == title # "pinned"

\* auto_title_session gives a title to a session that has none of its own.
TitlesFresh(title) == title = "fresh"

ReadsTitle ==
    /\ chatTurn.at = "reads"
    /\ chatTurn' = [chatTurn EXCEPT !.at = IF TitlesFresh(titles[chatTurn.slot])
                                          THEN "titles" ELSE "answers"]
    /\ UNCHANGED <<titles, archived, happenings>> /\ Stays

WritesTitle ==
    /\ chatTurn.at = "titles" /\ chatTurn' = [chatTurn EXCEPT !.at = "answers"]
    /\ titles' = [titles EXCEPT ![chatTurn.slot] = "first message"]
    /\ UNCHANGED <<archived, happenings>> /\ Stays

\* A turn that fails before it is through takes its mark off as well.
TurnLeaves ==
    /\ chatTurn.at # "rests" /\ chatTurn' = Nobody
    /\ UNCHANGED <<titles, archived, happenings>> /\ Stays

Call(c) ==
    \/ LooksForPinned(c) \/ MakesPinned(c) \/ ReadsList(c) \/ RefreshArrives(c)

SessionListNext ==
    \/ \E c \in ListCalls :
          \/ WantsPinned(c) \/ SidebarAsks(c) \/ SidebarPolls(c) \/ Call(c) \/ RefreshFails(c)
          \/ AddsSession(c) \/ NamesSession(c) \/ ArchivesSession(c)
    \/ \E s \in Slots : TurnBegins(s)
    \/ ReadsTitle \/ WritesTitle \/ TurnLeaves

SessionListSpec == SessionListInit /\ [][SessionListNext]_listVars

---------------------------------------------------------------------------
\* A name the user gave is kept, unless a turn had looked at the title before;
\* there is one pinned session, unless two callers looked for it before
\* either had made it; and when no call is under way the sidebar shows the
\* names the user gave and nothing he archived, unless its last answer was
\* read before the last change or was lost
\* (session.rs:170-183, 530-543, 630-680, ChatSessionSidebar.tsx:98-200).
NamesAreKept ==
    /\ \A s \in named : titles[s] = "a name"
    /\ forked \/ Cardinality(PinnedSessions) <= 1
    /\ answerOld \/ FreeCalls # ListCalls \/
          \A r \in sideRows : r.slot \notin archived /\ (r.slot \in named => r.title = "a name")
=============================================================================
