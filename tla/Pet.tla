-------------------------------- MODULE Pet --------------------------------
(***************************************************************************)
(* The pet as a whole: what it looks like, what it has lived through and   *)
(* how fond it is of its user are rows of three tables, and nothing that   *)
(* writes one of them reads another (avatar.rs, expression.rs,             *)
(* affection.rs).                                                          *)
(***************************************************************************)
EXTENDS PetAvatar, PetMood, PetAffection

PetSpec == AvatarSpec /\ MoodSpec /\ AffectionSpec

\* The pet keeps what the user chose for it, and what it has lived through is
\* not lost, neither its moods nor its fondness of him, but where two writers
\* overlap (avatar.rs:142-267, expression.rs:505-585, affection.rs:145-250).
PetStaysItself ==
    /\ [](PetKeepsChoices /\ SavedMoodsAreRemembered)
    /\ FondnessFollowsTheDays

============================================================================
