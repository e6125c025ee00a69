----------------------------- MODULE PetAvatar -----------------------------
(***************************************************************************)
(* What the pet looks like (avatar.rs).  Every change inserts a whole row  *)
(* that copies the one read before; the row with the latest updated_at is  *)
(* the state.  Chats, tools and the user's commands change it at any time, *)
(* each reading, looking at the locks and inserting in separate            *)
(* statements, and most take their time before they read.                  *)
(*                                                                         *)
(*   Dressers   calls that may be under way at a time                      *)
(***************************************************************************)
EXTENDS Integers

CONSTANTS
    Dressers,
    MaxChanges   \* bound: changes that take their time

ASSUME AvatarAssumption == MaxChanges \in Nat

VARIABLES
    avatar,     \* the row with the latest time
    dresser,    \* dresser[c]: a call, its time and the row it has read
    petClock,   \* times taken so far; no two are alike
    chosen,     \* history: what was chosen last for a field
    unread    \* history: fields lost to a call that had read another row

avatarVars == <<avatar, dresser, petClock, chosen, unread>>

AvatarFields == {"main", "activity", "place", "mainLock", "activityLock"}

\* A change: the field it sets, whether a lock stops it, whether it takes its
\* time before it reads, and whether its INSERT has the columns of the
\* activity.
Change(field, auto, early, whole) ==
    [field |-> field, auto |-> auto, early |-> early, whole |-> whole]

SetAvatar == Change("main", TRUE, TRUE, FALSE)
SetMainManual == Change("main", FALSE, TRUE, FALSE)
UpdatePosition == Change("place", FALSE, TRUE, FALSE)
SetActivity == Change("activity", TRUE, FALSE, TRUE)
SetSubManual == Change("activity", FALSE, FALSE, TRUE)
LockMain == Change("mainLock", FALSE, TRUE, TRUE)
LockActivity == Change("activityLock", FALSE, TRUE, TRUE)
Changes == {SetAvatar, SetMainManual, UpdatePosition, SetActivity, SetSubManual,
            LockMain, LockActivity}

\* Every field has a usual value, 0, and another; a lock is set when it is 1.
Looks == [AvatarFields -> {0, 1}]
DefaultAvatar == [looks |-> [f \in AvatarFields |-> 0], time |-> 0]
Avatars == [looks : Looks, time : 0 .. MaxChanges]
NotDressing ==
    [at |-> "idle", op |-> UpdatePosition, value |-> 0, time |-> 0, seen |-> DefaultAvatar]

AvatarTypeOK ==
    /\ avatar \in Avatars
    /\ dresser \in [Dressers -> [at : {"idle", "called", "read"}, op : Changes,
                                 value : {0, 1}, time : 0 .. MaxChanges, seen : Avatars]]
    /\ petClock \in 0 .. MaxChanges
    /\ chosen \in Looks /\ unread \subseteq AvatarFields

AvatarInit ==
    /\ avatar = DefaultAvatar /\ dresser = [c \in Dressers |-> NotDressing]
    /\ petClock = 0 /\ chosen = DefaultAvatar.looks /\ unread = {}

LockOf(field) == IF field = "main" THEN "mainLock" ELSE "activityLock"

\* The call takes its time.
TakesTime(c, me) ==
    /\ petClock < MaxChanges /\ petClock' = petClock + 1
    /\ dresser' = [dresser EXCEPT ![c] = [me EXCEPT !.time = petClock + 1]]

\* A call begins, and most take their time at once.
DresserCalls(c) ==
    /\ dresser[c] = NotDressing
    /\ \E op \in Changes, v \in {0, 1} :
          LET me == [NotDressing EXCEPT !.at = "called", !.op = op, !.value = v]
          IN IF op.early THEN TakesTime(c, me)
             ELSE dresser' = [dresser EXCEPT ![c] = me] /\ UNCHANGED petClock
    /\ UNCHANGED <<avatar, chosen, unread>>

\* get_current_avatar.  A lock stops an automatic change, and an activity
\* that is shown already is not set again; otherwise its time is taken now.
Stopped(me) ==
    LET field == me.op.field
    IN \/ me.op.auto /\ avatar.looks[LockOf(field)] = 1
       \/ field = "activity" /\ avatar.looks["activity"] = me.value

DresserReads(c) ==
    LET me == dresser[c]
        read == [me EXCEPT !.at = "read", !.seen = avatar]
    IN /\ me.at = "called"
       /\ \/ /\ Stopped(me)
             /\ dresser' = [dresser EXCEPT ![c] = NotDressing] /\ UNCHANGED petClock
          \/ /\ ~Stopped(me) /\ me.op.early
             /\ dresser' = [dresser EXCEPT ![c] = read] /\ UNCHANGED petClock
          \/ ~Stopped(me) /\ ~me.op.early /\ TakesTime(c, read)
       /\ UNCHANGED <<avatar, chosen, unread>>

\* Faulty: the locks are not among the columns either.
InsertedRowUnlocked(me) ==
    LET change == me.op
        copied == [me.seen.looks EXCEPT !["mainLock"] = 0, !["activityLock"] = 0]
    IN [looks |-> [copied EXCEPT ![change.field] = me.value], time |-> me.time]

\* The row a call inserts: what it read, with its field set.  INSERTs
\* without the columns of the activity give it the default.
InsertedRow(me) ==
    LET change == me.op
        copied == IF change.whole THEN me.seen.looks ELSE [me.seen.looks EXCEPT !["activity"] = 0]
    IN [looks |-> [copied EXCEPT ![change.field] = me.value], time |-> me.time]

\* The insert counts only when nothing newer is there.  A choice is lost when
\* its row does not count, or to another call that counts and had not read
\* it; an automatic choice is none while a lock is set.
DresserInserts(c) ==
    LET me == dresser[c]
        change == me.op
        counts == me.time > avatar.time
        stale == me.seen # avatar
        locked == change.auto /\ avatar.looks[LockOf(change.field)] = 1
    IN /\ me.at = "read" /\ dresser' = [dresser EXCEPT ![c] = NotDressing]
       /\ avatar' = IF counts THEN InsertedRow(me) ELSE avatar
       /\ chosen' = IF locked THEN chosen ELSE [chosen EXCEPT ![change.field] = me.value]
       /\ unread' = CASE ~counts -> unread \cup {change.field}
                         [] counts /\ stale -> AvatarFields \ (IF locked THEN {} ELSE {change.field})
                         [] OTHER -> (unread \ {change.field})
                                       \cup IF change.whole THEN {} ELSE {"activity"}
       /\ UNCHANGED petClock

AvatarNext == \E c \in Dressers : DresserCalls(c) \/ DresserReads(c) \/ DresserInserts(c)

AvatarSpec == AvatarInit /\ [][AvatarNext]_avatarVars

---------------------------------------------------------------------------
\* The pet keeps what was chosen last for each field, and what a lock holds,
\* although every change rewrites all of them, unless the calls overlapped.
\* The activity is the exception: three of the INSERTs leave it out, so that
\* moving the pet or dressing it resets it, locked or not (avatar.rs:142-267,
\* 362-425).
PetKeepsChoices ==
    \A f \in AvatarFields : avatar.looks[f] # chosen[f] => f \in unread

===========================================================================
