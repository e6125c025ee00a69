------------------------------- MODULE Nudges -------------------------------
(***************************************************************************)
(* What the companion says unasked about the work: the pacer looks at the  *)
(* tasks at every beat and sends alerts (pacer.rs), a loop of the desktop  *)
(* takes them one by one and has a model decide what to say (worker.rs,    *)
(* smart_monitor.rs), and the user may ask for quiet (main.rs).            *)
(*                                                                         *)
(*   StalledTasks   tasks that may be in progress for too long, in the     *)
(*                  order of the task file                                 *)
(*   QuietCalls     requests for quiet whose timers may run at once        *)
(*                                                                         *)
(* A beat has no clock beside it: an alert's cooldown of an hour is a      *)
(* number of beats.  Reminders are enabled, and the pile-up alert, which    *)
(* the loop drops, is left out.                                            *)
(***************************************************************************)
EXTENDS Integers, Sequences

CONSTANTS
    StalledTasks, QuietCalls, NoQuiet,
    CooldownBeats,   \* beats in the cooldown of one kind of alert
    MaxAlerts        \* bound: alerts waiting in the channel

ASSUME NudgesAssumption ==
    /\ StalledTasks \in Seq(STRING) /\ NoQuiet \notin QuietCalls
    /\ CooldownBeats \in Nat \ {0} /\ MaxAlerts \in Nat \ {0}

VARIABLES
    stalled,       \* the tasks in progress for more than half an hour
    sinceAlert,    \* sinceAlert[k]: beats since the last alert of kind k
    channel,       \* alerts sent and not taken
    monitor,       \* what the loop is doing
    quietUntil,    \* the request for quiet in force
    quietTimers,   \* requests whose time is not up
    lastQuiet,     \* history: the request that was made last
    initiative     \* the loop that makes conversation of its own

nudgeVars == <<stalled, sinceAlert, channel, monitor, quietUntil, quietTimers, lastQuiet,
               initiative>>

StalledIds == {StalledTasks[i] : i \in DOMAIN StalledTasks}
Kinds == {"stalled", "hour"}
Alert(kind, task) == [kind |-> kind, task |-> task]
Alerts == {Alert("hour", "none")} \cup {Alert("stalled", t) : t \in StalledIds}

\* disturbed: quiet was asked for after the alert had been taken.
MonitorAt(place, alert) == [at |-> place, alert |-> alert, disturbed |-> FALSE]
Waiting == MonitorAt("waiting", Alert("hour", "none"))

NudgesTypeOK ==
    /\ stalled \subseteq StalledIds
    /\ sinceAlert \in [Kinds -> 0 .. CooldownBeats]
    /\ channel \in Seq(Alerts) /\ Len(channel) <= MaxAlerts + 1
    /\ monitor \in [at : {"waiting", "judging"}, alert : Alerts, disturbed : BOOLEAN]
    /\ quietUntil \in QuietCalls \cup {NoQuiet} /\ quietTimers \subseteq QuietCalls
    /\ lastQuiet \in QuietCalls \cup {NoQuiet}
    /\ initiative \in {"alive", "dead"}

NudgesInit ==
    /\ stalled = {} /\ sinceAlert = [k \in Kinds |-> CooldownBeats]
    /\ channel = <<>> /\ monitor = Waiting
    /\ quietUntil = NoQuiet /\ quietTimers = {} /\ lastQuiet = NoQuiet
    /\ initiative = "alive"

---------------------------------------------------------------------------
TaskStalls(t) ==
    /\ t \notin stalled /\ stalled' = stalled \cup {t}
    /\ UNCHANGED <<sinceAlert, channel, monitor, quietUntil, quietTimers, lastQuiet, initiative>>

TaskMovesOn(t) ==
    /\ t \in stalled /\ stalled' = stalled \ {t}
    /\ UNCHANGED <<sinceAlert, channel, monitor, quietUntil, quietTimers, lastQuiet, initiative>>

\* The first of the file: the alerts of the others find the cooldown begun.
FirstStalled ==
    StalledTasks[CHOOSE i \in DOMAIN StalledTasks :
        /\ StalledTasks[i] \in stalled
        /\ \A j \in DOMAIN StalledTasks : StalledTasks[j] \in stalled => i <= j]

\* The cooldown begins at an alert that is sent.
StartsCooldown(kind, due) == kind \in due /\ sinceAlert[kind] = CooldownBeats

\* evaluate_once, and what the pacer makes of it.  A beat in the first minute
\* of an hour tells the hour too.
Beat ==
    /\ Len(channel) < MaxAlerts
    /\ \E onTheHour \in BOOLEAN :
          LET due == (IF stalled = {} THEN {} ELSE {"stalled"})
                         \cup (IF onTheHour THEN {"hour"} ELSE {})
              allowed == {k \in due : sinceAlert[k] = CooldownBeats}
          IN /\ channel' = channel
                    \o (IF "stalled" \in allowed THEN <<Alert("stalled", FirstStalled)>> ELSE <<>>)
                    \o (IF "hour" \in allowed THEN <<Alert("hour", "none")>> ELSE <<>>)
             /\ sinceAlert' = [k \in Kinds |->
                    IF StartsCooldown(k, due) THEN 1
                    ELSE IF sinceAlert[k] = CooldownBeats THEN CooldownBeats
                    ELSE sinceAlert[k] + 1]
    /\ UNCHANGED <<stalled, monitor, quietUntil, quietTimers, lastQuiet, initiative>>

\* The loop takes an alert; in quiet it drops it, cooldown and all.
TakesAlert ==
    /\ monitor.at = "waiting" /\ channel # <<>> /\ channel' = Tail(channel)
    /\ monitor' = IF quietUntil # NoQuiet THEN Waiting
                  ELSE MonitorAt("judging", Head(channel))
    /\ UNCHANGED <<stalled, sinceAlert, quietUntil, quietTimers, lastQuiet, initiative>>

\* The model answers, or does not and the defaults decide: there is something
\* to say or not, whatever has been asked for meanwhile.
Judges ==
    /\ monitor.at = "judging" /\ monitor' = Waiting
    /\ UNCHANGED <<stalled, sinceAlert, channel, quietUntil, quietTimers, lastQuiet, initiative>>

---------------------------------------------------------------------------
\* quiet_for_minutes: the last request counts, with its own timer.
AsksQuiet(q) ==
    /\ q \notin quietTimers
    /\ quietUntil' = q /\ quietTimers' = quietTimers \cup {q} /\ lastQuiet' = q
    /\ monitor' = [monitor EXCEPT !.disturbed = monitor.at = "judging"]
    /\ UNCHANGED <<stalled, sinceAlert, channel, initiative>>

\* Faulty: the timer of any request ends the quiet.
EndsAnyQuiet(q) == quietUntil # NoQuiet

\* A timer ends the quiet of its own request only.
EndsQuiet(q) == quietUntil = q

TimeIsUp(q) ==
    /\ q \in quietTimers /\ quietTimers' = quietTimers \ {q}
    /\ quietUntil' = IF EndsQuiet(q) THEN NoQuiet ELSE quietUntil
    /\ UNCHANGED <<stalled, sinceAlert, channel, monitor, lastQuiet, initiative>>

\* The other loop: the first check of an engine that is half a minute old
\* blocks on the database from inside the runtime, and the panic ends the
\* loop before it has ever said a word.
ChecksInitiatives ==
    /\ initiative = "alive" /\ initiative' = "dead"
    /\ UNCHANGED <<stalled, sinceAlert, channel, monitor, quietUntil, quietTimers, lastQuiet>>

NudgesNext ==
    \/ \E t \in StalledIds : TaskStalls(t) \/ TaskMovesOn(t)
    \/ Beat \/ TakesAlert \/ Judges
    \/ \E q \in QuietCalls : AsksQuiet(q) \/ TimeIsUp(q)
    \/ ChecksInitiatives

NudgesSpec == NudgesInit /\ [][NudgesNext]_nudgeVars

\* A call of the model returns and the quiet's timers fire.
NudgesFairness ==
    /\ WF_nudgeVars(TakesAlert) /\ WF_nudgeVars(Judges)
    /\ \A q \in QuietCalls : WF_nudgeVars(TimeIsUp(q))

---------------------------------------------------------------------------
\* Quiet lasts as long as the last request for it: until then nothing is said
\* but of an alert that was in judgement already (worker.rs:34-62,
\* main.rs:60-86).
QuietIsKept ==
    [][monitor.at = "judging" /\ monitor'.at = "waiting" =>
           lastQuiet \notin quietTimers \/ monitor.disturbed]_nudgeVars

\* Quiet is kept, and it ends: a task that stays the first of those that are
\* stuck is judged again and again unless the user asks for quiet again and
\* again, in spite of the cooldown and of the alerts that quiet swallows
\* (pacer.rs:71-88, worker.rs:34-62, main.rs:60-86).
NudgesKeepQuietAndReturn ==
    /\ QuietIsKept
    /\ \A t \in StalledIds :
          \/ []<>(t \notin stalled \/ FirstStalled # t)
          \/ []<>(quietUntil # NoQuiet)
          \/ []<>(monitor.at = "judging" /\ monitor.alert = Alert("stalled", t))
=============================================================================
