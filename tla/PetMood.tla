------------------------------ MODULE PetMood ------------------------------
(***************************************************************************)
(* The pet's mood between the chat and the timer (expression.rs).  A turn  *)
(* loads the mood when it begins, feels its way through the answer and the *)
(* tools, and saves the mood if it succeeds, minutes later; every minute   *)
(* the desktop loads the mood, lets it decay and saves it (worker.rs).     *)
(* Neither holds a lock meanwhile.                                         *)
(*                                                                         *)
(*   MoodTurns   the chat turns                                            *)
(*   KeptMoods   rows a prune leaves: ten in the code                      *)
(*                                                                         *)
(* Valence and arousal are abstracted to the turns whose events are in     *)
(* them, updated_at to the order of the stamps; the clock does not go back.*)
(***************************************************************************)
EXTENDS Integers, FiniteSets

CONSTANTS
    MoodTurns, MoodTimer, KeptMoods,
    MaxStamps   \* bound: moods stamped

ASSUME MoodAssumption ==
    MoodTimer \notin MoodTurns /\ KeptMoods \in Nat \ {0} /\ MaxStamps \in Nat

Feelers == MoodTurns \cup {MoodTimer}

VARIABLES
    moods,      \* the rows: when each was stamped and which turns it knows of
    stamps,     \* moods stamped so far
    feeling,    \* what each writer is doing and the mood it holds
    saved,      \* history: turns that have inserted their mood
    crossed     \* history: writers another one overlapped

moodVars == <<moods, stamps, feeling, saved, crossed>>

MoodRows == [at : 0 .. MaxStamps, knows : SUBSET MoodTurns]
FirstMood == [at |-> 0, knows |-> {}]
Feels(place, mood) == [at |-> place, mood |-> mood]
FeelingPlaces == {"idle", "holds", "stamped", "prunes", "over"}

MoodTypeOK ==
    /\ moods \subseteq MoodRows /\ stamps \in 0 .. MaxStamps
    /\ feeling \in [Feelers -> [at : FeelingPlaces, mood : MoodRows]]
    /\ saved \subseteq MoodTurns /\ crossed \subseteq Feelers

MoodInit ==
    /\ moods = {} /\ stamps = 0 /\ saved = {} /\ crossed = {}
    /\ feeling = [w \in Feelers |-> Feels("idle", FirstMood)]

---------------------------------------------------------------------------
\* load_mood: the row stamped last, the default mood when there is none.
NewestMood(rows) ==
    IF rows = {} THEN FirstMood ELSE CHOOSE r \in rows : \A q \in rows : q.at <= r.at

\* Between the load and the insert a writer does not see what others write.
OpenFeelers == {w \in Feelers : feeling[w].at \in {"holds", "stamped"}}

\* A turn puts what it lives through into the mood it holds.
LoadsMood(w) ==
    LET mood == NewestMood(moods)
        known == mood.knows \cup ({w} \cap MoodTurns)
    IN /\ feeling[w].at = "idle" /\ stamps < MaxStamps
       /\ feeling' = [feeling EXCEPT ![w] = Feels("holds", [mood EXCEPT !.knows = known])]
       /\ crossed' = IF OpenFeelers = {} THEN crossed \ {w} ELSE crossed \cup OpenFeelers \cup {w}
       /\ UNCHANGED <<moods, stamps, saved>>

\* A turn that fails keeps what it felt to itself.
TurnFailsWith(w) ==
    /\ feeling[w].at = "holds" /\ w \in MoodTurns
    /\ feeling' = [feeling EXCEPT ![w].at = "over"]
    /\ UNCHANGED <<moods, stamps, saved, crossed>>

\* on_llm_success or decay: the mood's time is taken just before it is saved.
StampsMood(w) ==
    /\ feeling[w].at = "holds" /\ stamps < MaxStamps /\ stamps' = stamps + 1
    /\ feeling' = [feeling EXCEPT ![w] = [at |-> "stamped", mood |-> [@.mood EXCEPT !.at = stamps + 1]]]
    /\ UNCHANGED <<moods, saved, crossed>>

InsertsMood(w) ==
    /\ feeling[w].at = "stamped" /\ moods' = moods \cup {feeling[w].mood}
    /\ saved' = saved \cup ({w} \cap MoodTurns)
    /\ feeling' = [feeling EXCEPT ![w].at = "prunes"]
    /\ UNCHANGED <<stamps, crossed>>

\* Faulty: the rows stamped first are kept.
KeptFirst(rows) == {r \in rows : Cardinality({q \in rows : q.at < r.at}) < KeptMoods}

Kept(rows) == {r \in rows : Cardinality({q \in rows : q.at > r.at}) < KeptMoods}

PrunesMoods(w) ==
    /\ feeling[w].at = "prunes" /\ moods' = Kept(moods)
    /\ feeling' = [feeling EXCEPT ![w].at = IF w \in MoodTurns THEN "over" ELSE "idle"]
    /\ UNCHANGED <<stamps, saved, crossed>>

\* The desktop dies and is started again: rows may be left unpruned.
MoodsDie ==
    /\ \E w \in Feelers : feeling[w].at \in {"holds", "stamped", "prunes"}
    /\ feeling' = [w \in Feelers |->
           Feels(IF w \in MoodTurns /\ feeling[w].at # "idle" THEN "over" ELSE "idle", FirstMood)]
    /\ UNCHANGED <<moods, stamps, saved, crossed>>

MoodNext ==
    \/ \E w \in Feelers :
          \/ LoadsMood(w) \/ TurnFailsWith(w) \/ StampsMood(w) \/ InsertsMood(w) \/ PrunesMoods(w)
    \/ MoodsDie

MoodSpec == MoodInit /\ [][MoodNext]_moodVars

---------------------------------------------------------------------------
\* Once a turn has saved its mood, every mood loaded later knows of it, decay
\* after decay and prune after prune, unless another writer had loaded before
\* the turn's row was there: only an overlap loses what the pet has lived
\* through (expression.rs:505-585, send_v2.rs:1702, 2287, worker.rs:95-106).
SavedMoodsAreRemembered == saved \ crossed \subseteq NewestMood(moods).knows
=============================================================================
