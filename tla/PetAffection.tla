---------------------------- MODULE PetAffection ----------------------------
(***************************************************************************)
(* How fond the pet is of its user (affection.rs): one row, read, changed  *)
(* and written back without a lock by the chat turns that succeed, by the  *)
(* commands of the windows and by the desktop's timer.  After three days   *)
(* without a word the fondness wears off at every load.                    *)
(*                                                                         *)
(*   Fonds   who reads and writes the row: calls of the desktop            *)
(*   Top     the most affection there is: a hundred in the code            *)
(*                                                                         *)
(* The clock ticks in days, the same for UTC and for local dates.  The     *)
(* stage is left out: it is derived from the value whenever it is loaded.  *)
(***************************************************************************)
EXTENDS Integers, FiniteSets

CONSTANTS
    Fonds, Top, FirstFondness,
    MaxDays   \* bound: days that pass

ASSUME AffectionAssumption == Top \in Nat /\ FirstFondness \in 0 .. Top /\ MaxDays \in Nat

VARIABLES
    today,       \* the day
    affection,   \* the row
    fond,        \* what each caller holds of it, and what for
    talks,       \* history: the days of the interactions recorded
    mixed        \* history: two callers have held the row at once

affectionVars == <<today, affection, fond, talks, mixed>>

NeverDay == -2
AffectionRows ==
    [value : 0 .. Top, talked : 0 .. MaxDays, streak : 0 .. MaxDays + 1,
     day : {NeverDay} \cup 0 .. MaxDays]
FirstRow == [value |-> FirstFondness, talked |-> 0, streak |-> 1, day |-> NeverDay]
Purposes == {"none", "interaction", "add", "subtract", "decay"}
Fondness(purpose, row) == [does |-> purpose, row |-> row]

AffectionTypeOK ==
    /\ today \in 0 .. MaxDays /\ affection \in AffectionRows
    /\ fond \in [Fonds -> [does : Purposes, row : AffectionRows]]
    /\ talks \subseteq 0 .. MaxDays /\ mixed \in BOOLEAN

AffectionInit ==
    /\ today = 0 /\ affection = FirstRow /\ talks = {} /\ mixed = FALSE
    /\ fond = [c \in Fonds |-> Fondness("none", FirstRow)]

---------------------------------------------------------------------------
Clamped(value) == IF value < 0 THEN 0 ELSE IF value > Top THEN Top ELSE value

\* apply_daily_decay: a point for every day from the third on, each time
\* anew, as nothing remembers that the days have been charged for.
Decayed(row) ==
    IF today - row.talked < 3 THEN row
    ELSE [row EXCEPT !.value = Clamped(@ - (today - row.talked - 2))]

StreakAfter(row) ==
    IF row.day = today THEN row.streak ELSE IF row.day + 1 = today THEN row.streak + 1 ELSE 1

\* Faulty: the interaction is counted and its time is not.
RecordedUntimed(row) ==
    [row EXCEPT !.value = Clamped(@ + 1), !.day = today, !.streak = StreakAfter(row)]

\* record: an interaction of the chat, on the streak of days with one.
Recorded(row) ==
    [value |-> Clamped(row.value + 1), talked |-> today, day |-> today,
     streak |-> StreakAfter(row)]

\* load: the row as it is after the days away.
LoadsAffection(c, purpose) ==
    /\ fond[c].does = "none" /\ purpose # "none"
    /\ fond' = [fond EXCEPT ![c] = Fondness(purpose, Decayed(affection))]
    /\ mixed' = (mixed \/ \E d \in Fonds : fond[d].does # "none")
    /\ UNCHANGED <<today, affection, talks>>

\* What the caller makes of the row it holds.
Changed(c) ==
    LET row == fond[c].row IN
    CASE fond[c].does = "interaction" -> Recorded(row)
      [] fond[c].does = "add" -> [row EXCEPT !.value = Clamped(@ + 1)]
      [] fond[c].does = "subtract" -> [row EXCEPT !.value = Clamped(@ - 1)]
      [] fond[c].does = "decay" -> Decayed(row)

SavesAffection(c) ==
    /\ fond[c].does # "none" /\ affection' = Changed(c)
    /\ fond' = [fond EXCEPT ![c] = Fondness("none", FirstRow)]
    /\ talks' = IF fond[c].does = "interaction" THEN talks \cup {today} ELSE talks
    /\ UNCHANGED <<today, mixed>>

DayPasses ==
    /\ today < MaxDays /\ today' = today + 1
    /\ UNCHANGED <<affection, fond, talks, mixed>>

AffectionNext ==
    \/ \E c \in Fonds : SavesAffection(c) \/ \E p \in Purposes : LoadsAffection(c, p)
    \/ DayPasses

AffectionSpec == AffectionInit /\ [][AffectionNext]_affectionVars

---------------------------------------------------------------------------
LastTalk == IF talks = {} THEN 0 ELSE CHOOSE d \in talks : \A e \in talks : e <= d

\* As long as no two callers hold the row at once, the pet grows less fond
\* only after three days without an interaction or when it is told to, and
\* the streak is the number of days in a row up to the last interaction
\* (affection.rs:72-122, 145-185, 222-250).
FondnessFollowsTheDays ==
    /\ [][affection'.value < affection.value =>
              \/ mixed \/ today - LastTalk >= 3
              \/ \E c \in Fonds : fond[c].does = "subtract"]_affectionVars
    /\ [](mixed \/ talks = {} \/
              affection.streak = Cardinality({d \in talks : d .. LastTalk \subseteq talks}))
=============================================================================
