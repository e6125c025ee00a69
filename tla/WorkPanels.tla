----------------------------- MODULE WorkPanels -----------------------------
(***************************************************************************)
(* The panels that show work: the list of proposals and the running agents *)
(* of the task window (TaskPanelContent.tsx), the drawer of the workbench  *)
(* (TaskDrawerPane.tsx) and the console of a goal (GoalConsole.tsx),       *)
(* between the tables they list, the watcher of the state directory        *)
(* (worker.rs) and the buttons of the window.                              *)
(*                                                                         *)
(*   MaxReads   bound: refreshes of the panel in flight at once            *)
(*                                                                         *)
(* One row is followed: a proposal, an agent run or a goal task, with the  *)
(* statuses that make a difference: "pending" and "approved" offer buttons *)
(* (a run's are queued and running), "over" is a row that offers none or   *)
(* is not listed.  Proposals are read by one call for each status, in no   *)
(* order: a row that moves meanwhile may be found under any status it had, *)
(* or under none.                                                          *)
(*                                                                         *)
(* WindowsSpec is a panel beside the window on a chat (ChatView): they     *)
(* share no variable, and the claim about both is stated here.             *)
(***************************************************************************)
EXTENDS ChatView, Sequences

CONSTANTS MaxReads

ASSUME PanelsAssumption == MaxReads \in Nat \ {0}

VARIABLES
    panel,      \* which panel it is, or "closed"
    workRow,    \* the status of the row
    listed,     \* the status the panel shows
    reading,    \* the refreshes in flight as they began, and the statuses since
    clicked,    \* the button whose call is under way, or how far the call is
    wrote,      \* the watcher has not handled a write to the state directory yet
    noticed,    \* an event is on its way to the windows
    listening,  \* the panel has its listeners
    watcherRuns,    \* the watcher runs; without it only tasks.json's signal is polled
    behind      \* history: what is listed was read before something that
                \* was listed earlier, or the panel missed an event or a read

panelVars == <<panel, workRow, listed, reading, clicked, wrote, noticed, listening, watcherRuns,
               behind>>

PanelKinds == {"proposals", "runs", "drawer", "console"}
ByStatus == {"proposals", "drawer"}
WorkStatuses == {"pending", "approved", "over"}
Verbs == {"approve", "reject", "execute", "stop"}

\* had: the row's statuses since the calls left.  late: a later refresh
\* ended, or an event passed the panel by.  own: a button waits for it.
PanelReading(had, late, own) == [had |-> had, late |-> late, own |-> own]

PanelsTypeOK ==
    /\ panel \in PanelKinds \cup {"closed"}
    /\ workRow \in WorkStatuses /\ listed \in WorkStatuses
    /\ reading \in Seq([had : SUBSET WorkStatuses, late : BOOLEAN, own : BOOLEAN])
    /\ Len(reading) <= MaxReads
    /\ clicked \in Verbs \cup {"none", "executing", "answered", "refreshing"}
    /\ {wrote, noticed, listening, watcherRuns, behind} \subseteq BOOLEAN

PanelsInit ==
    /\ panel = "closed" /\ workRow = "over" /\ listed = "over"
    /\ reading = <<>> /\ clicked = "none"
    /\ wrote = FALSE /\ noticed = FALSE /\ listening = FALSE
    /\ watcherRuns \in BOOLEAN /\ behind = FALSE

\* A call of refresh leaves, with what the step did to those before it.
PanelRefreshes(others, own) ==
    Len(others) < MaxReads /\ reading' = Append(others, PanelReading({workRow'}, FALSE, own))
AllLate(reads) == [i \in DOMAIN reads |-> [reads[i] EXCEPT !.late = TRUE]]

---------------------------------------------------------------------------
(* The panel.                                                              *)

\* The component appears: it refreshes, and asks for its listeners.
PanelOpens ==
    /\ panel = "closed" /\ panel' \in PanelKinds
    /\ UNCHANGED <<workRow, listed, clicked, wrote, noticed, listening, watcherRuns, behind>>
    /\ PanelRefreshes(reading, FALSE)

\* What is in flight for it answers to nobody.
PanelCloses ==
    /\ panel # "closed" /\ panel' = "closed"
    /\ reading' = <<>>
    /\ clicked' = IF clicked = "refreshing" THEN "none" ELSE clicked
    /\ listed' = "over" /\ behind' = FALSE /\ listening' = FALSE
    /\ UNCHANGED <<workRow, wrote, noticed, watcherRuns>>

\* Another goal or workspace: a new refresh and new listeners; the answers
\* for the old one are not told from the new ones.
PanelSwitches ==
    /\ panel \in {"drawer", "console"}
    /\ workRow' \in WorkStatuses
    /\ behind' = TRUE /\ listening' = FALSE
    /\ UNCHANGED <<panel, listed, clicked, wrote, noticed, watcherRuns>>
    /\ PanelRefreshes(AllLate(reading), FALSE)

GetsListeners ==
    /\ panel # "closed" /\ ~listening /\ listening' = TRUE
    /\ UNCHANGED <<panel, workRow, listed, reading, clicked, wrote, noticed, watcherRuns, behind>>

\* The refresh button, and the intervals of runs (5 s) and console (5 s).
RefreshesAgain ==
    /\ panel # "closed"
    /\ UNCHANGED <<panel, workRow, listed, clicked, wrote, noticed, listening, watcherRuns, behind>>
    /\ PanelRefreshes(reading, FALSE)

\* An event makes a listening panel refresh; for others it is gone.
PanelHears ==
    /\ noticed /\ noticed' = FALSE
    /\ UNCHANGED <<panel, workRow, listed, clicked, wrote, listening, watcherRuns>>
    /\ IF listening THEN PanelRefreshes(reading, FALSE) /\ UNCHANGED behind
                    ELSE reading' = AllLate(reading) /\ behind' = (panel # "closed")

\* What a refresh may have found: the status, if it was the same all the time.
FoundInPanel(read) ==
    IF Cardinality(read.had) = 1 \/ panel \notin ByStatus THEN read.had ELSE read.had \cup {"over"}

\* A refresh ends; what began before it is late now.
ReadEnds(i) ==
    /\ reading' = AllLate(SubSeq(reading, 1, i - 1)) \o SubSeq(reading, i + 1, Len(reading))
    /\ clicked' = IF reading[i].own THEN "none" ELSE clicked

\* Its answers are all there: the panel takes them, whatever came before.
PanelShows(i) ==
    /\ listed' \in FoundInPanel(reading[i])
    /\ behind' = reading[i].late
    /\ ReadEnds(i)
    /\ UNCHANGED <<panel, workRow, wrote, noticed, listening, watcherRuns>>

\* One of its calls fails: the console then shows nothing, the others what
\* they did before.
ReadFails(i) ==
    /\ listed' = IF panel = "console" THEN "over" ELSE listed
    /\ behind' = (behind \/ panel = "console" \/ ~reading[i].late)
    /\ ReadEnds(i)
    /\ UNCHANGED <<panel, workRow, wrote, noticed, listening, watcherRuns>>

---------------------------------------------------------------------------
(* The row.                                                                *)

\* Told: a command emits an event of its own.  The watcher sees the write.
RowBecomes(status, told) ==
    LET late == ~watcherRuns /\ ~told
    IN /\ workRow' = status
       /\ reading' = [i \in DOMAIN reading |->
              [reading[i] EXCEPT !.had = @ \cup {status}, !.late = @ \/ late]]
       /\ wrote' = (wrote \/ watcherRuns)
       /\ noticed' = (noticed \/ told)
       /\ behind' = (behind \/ (late /\ panel # "closed"))

\* Proposals come from chat turns, which tell; the command line, the runs'
\* threads and the orchestrator write the tables and nothing else.
OthersWrite ==
    /\ \/ /\ workRow = "over"
          /\ \E told \in BOOLEAN : (told => panel \in ByStatus) /\ RowBecomes("pending", told)
       \/ \E status \in WorkStatuses \ {workRow, "pending"} : RowBecomes(status, FALSE)
    /\ UNCHANGED <<panel, listed, clicked, listening, watcherRuns>>

\* run_watcher: it waits, takes all that came, and tells the windows.
WatcherTells ==
    /\ wrote /\ wrote' = FALSE /\ noticed' = TRUE
    /\ UNCHANGED <<panel, workRow, listed, reading, clicked, listening, watcherRuns, behind>>

\* A button of the status that is shown, while none of it is busy.
PanelOffers(verb) ==
    CASE verb = "approve" -> panel = "proposals" /\ listed = "pending"
      [] verb = "execute" -> panel = "proposals" /\ listed = "approved"
      [] verb = "reject" -> panel = "proposals" /\ listed \in {"pending", "approved"}
      [] verb = "stop" -> panel = "runs" /\ listed # "over"

Clicks(verb) ==
    /\ clicked = "none" /\ PanelOffers(verb) /\ clicked' = verb
    /\ UNCHANGED <<panel, workRow, listed, reading, wrote, noticed, listening, watcherRuns, behind>>

\* approve and reject write whatever the status is; execute asks for an
\* approved row, writes "running" at once and what came of it later; stop
\* ends a run.
CommandWrites ==
    /\ \/ /\ clicked \in {"approve", "reject", "stop"} /\ clicked' = "answered"
          /\ RowBecomes(IF clicked = "approve" THEN "approved" ELSE "over", TRUE)
       \/ /\ clicked = "execute" /\ clicked' = "executing" /\ workRow = "approved"
          /\ RowBecomes("over", FALSE)
       \/ /\ clicked = "executing" /\ clicked' = "answered"
          /\ RowBecomes("over", TRUE)
    /\ UNCHANGED <<panel, listed, listening, watcherRuns>>

\* The call is refused: the button is free again, without a refresh.
CommandFails ==
    /\ clicked \in Verbs /\ clicked' = "none"
    /\ UNCHANGED <<panel, workRow, listed, reading, wrote, noticed, listening, watcherRuns, behind>>

\* After its answer the window refreshes; the button waits for that.
RefreshesAfterClick ==
    /\ clicked = "answered"
    /\ UNCHANGED <<panel, workRow, listed, wrote, noticed, listening, watcherRuns, behind>>
    /\ IF panel = "closed" THEN clicked' = "none" /\ UNCHANGED reading
       ELSE clicked' = "refreshing" /\ PanelRefreshes(reading, TRUE)

PanelsNext ==
    \/ PanelOpens \/ PanelCloses \/ PanelSwitches \/ GetsListeners \/ RefreshesAgain \/ PanelHears
    \/ \E i \in DOMAIN reading : PanelShows(i) \/ ReadFails(i)
    \/ OthersWrite \/ WatcherTells
    \/ (\E verb \in Verbs : Clicks(verb)) \/ CommandWrites \/ CommandFails \/ RefreshesAfterClick

PanelsSpec == PanelsInit /\ [][PanelsNext]_panelVars

---------------------------------------------------------------------------
PanelAtRest ==
    panel # "closed" /\ listening /\ ~wrote /\ ~noticed /\ reading = <<>>

\* A panel that has no answer and no event to come lists what the tables say,
\* so that its buttons act on what the user saw: a row that moved while the
\* lists were read is read again, because the write was noticed after it.
\* What can leave it behind for good (the console and the runs, which poll,
\* for five seconds) is a refresh that failed or was overtaken by a later
\* one, an event before its listeners were there, and a watcher that could
\* not start (TaskPanelContent.tsx:88-174, TaskDrawerPane.tsx:48-80,
\* GoalConsole.tsx:124-214, worker.rs:684-747).
PanelsShowTheTables == PanelAtRest /\ ~behind => listed = workRow

WindowsSpec == ChatViewSpec /\ PanelsSpec

\* Once nothing is on its way to them any more, the chat window shows the
\* session and the panels list what the tables say (useChatSession.ts:411-941,
\* TaskPanelContent.tsx:88-174, worker.rs:684-747).
WindowsShowWhatIsThere == SettledViewIsComplete /\ PanelsShowTheTables

=============================================================================
