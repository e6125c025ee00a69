--------------------------- MODULE ServicesProofs ---------------------------
EXTENDS MCServices, WorkLeasesProofs, ToolProofs, StorageProofs, SessionProofs

LEMMA EachServiceAsSpecified ==
    ServicesSpec => /\ Spec /\ ProposalsSpec /\ GrantsSpec /\ CommandsSpec /\ ItemsSpec
                    /\ SessionsSpec /\ ModelCallsSpec /\ SchemaSpec /\ MemorySpec /\ ReviewSpec
                    /\ AvatarSpec /\ ChatViewSpec /\ ConfigSpec /\ ToolCallsSpec /\ MoodSpec
                    /\ AffectionSpec /\ GoalChatsSpec /\ SessionListSpec /\ PanelsSpec
<1>1. ServicesInit => /\ Init /\ ProposalsInit /\ GrantsInit /\ CommandsInit /\ ItemsInit
                      /\ SessionsInit /\ ModelCallsInit /\ SchemaInit /\ MemoryInit
                      /\ ReviewInit /\ AvatarInit /\ ChatViewInit /\ ConfigInit
                      /\ ToolCallsInit /\ MoodInit /\ AffectionInit /\ GoalChatsInit
                      /\ SessionListInit /\ PanelsInit
  BY DEF ServicesInit
<1>2. [ServicesNext]_restVars =>
         /\ [Next]_vars /\ [ProposalsNext]_proposalVars /\ [GrantsNext]_grantVars
         /\ [CommandsNext]_commandVars /\ [ItemsNext]_itemVars /\ [SessionsNext]_sessionVars
         /\ [ModelCallsNext]_modelVars /\ [SchemaNext]_schemaVars /\ [MemoryNext]_memoryVars
         /\ [ReviewNext]_reviewVars /\ [AvatarNext]_avatarVars /\ [ChatViewNext]_viewVars
         /\ [ConfigNext]_configVars /\ [ToolCallsNext]_toolCallVars /\ [MoodNext]_moodVars
         /\ [AffectionNext]_affectionVars /\ [GoalChatsNext]_goalChatVars
         /\ [SessionListNext]_listVars /\ [PanelsNext]_panelVars
  BY ZenonT(60) DEF ServicesNext, restVars
<1> QED
  BY <1>1, <1>2, PTL DEF ServicesSpec, Spec, ProposalsSpec, GrantsSpec, CommandsSpec,
     ItemsSpec, SessionsSpec, ModelCallsSpec, SchemaSpec, MemorySpec, ReviewSpec, AvatarSpec,
     ChatViewSpec, ConfigSpec, ToolCallsSpec, MoodSpec, AffectionSpec, GoalChatsSpec,
     SessionListSpec, PanelsSpec

---------------------------------------------------------------------------
(* What each service keeps has its type: part of its invariant              *)

LEMMA ItemsTypeCorrect == ItemsSpec => []ItemsTypeOK
<1>1. ItemsInv => ItemsTypeOK
  BY DEF ItemsInv
<1> QED
  BY <1>1, ItemsInvariant, PTL

LEMMA SessionsTypeCorrect == SessionsSpec => []SessionsTypeOK
<1>1. CodexInv => SessionsTypeOK
  BY DEF CodexInv
<1> QED
  BY <1>1, CodexInvariant, PTL

LEMMA MemoryTypeCorrect == MemorySpec => []MemoryTypeOK
<1>1. MemoryInv => MemoryTypeOK
  BY DEF MemoryInv
<1> QED
  BY <1>1, MemoryInvariant, PTL

LEMMA ReviewTypeCorrect == ReviewSpec => []ReviewTypeOK
<1>1. ReviewInv => ReviewTypeOK
  BY DEF ReviewInv
<1> QED
  BY <1>1, ReviewInvariant, PTL

LEMMA AvatarTypeCorrect == AvatarSpec => []AvatarTypeOK
<1>1. AvatarInv => AvatarTypeOK
  BY DEF AvatarInv, AvatarTypeOK, Dressings
<1> QED
  BY <1>1, AvatarInvariant, PTL

LEMMA ChatViewTypeCorrect == ChatViewSpec => []ChatViewTypeOK
<1>1. ChatViewInv => ChatViewTypeOK
  BY DEF ChatViewInv
<1> QED
  BY <1>1, ChatViewInvariant, PTL

LEMMA ConfigTypeCorrect == ConfigSpec => []ConfigTypeOK
<1>1. ConfigInv => ConfigTypeOK
  BY DEF ConfigInv
<1> QED
  BY <1>1, ConfigInvariant, PTL

LEMMA MoodTypeCorrect == MoodSpec => []MoodTypeOK
<1>1. MoodInv => MoodTypeOK
  BY DEF MoodInv
<1> QED
  BY <1>1, MoodInvariant, PTL

LEMMA AffectionTypeCorrect == AffectionSpec => []AffectionTypeOK
<1>1. FondInv => AffectionTypeOK
  <2> SUFFICES ASSUME FondInv PROVE AffectionTypeOK
    OBVIOUS
  <2>1. MaxDays \in Nat /\ today \in 0 .. MaxDays /\ talks \subseteq 0 .. today
    BY AffectionAssumption DEF FondInv
  <2>2. talks \subseteq 0 .. MaxDays
    <3>1. \A d \in 0 .. today : d \in 0 .. MaxDays
      BY <2>1
    <3> QED
      BY <2>1, <3>1
  <2> QED
    BY <2>2 DEF FondInv, AffectionTypeOK, FondRecords
<1> QED
  BY <1>1, FondInvariant, PTL

LEMMA SessionListTypeCorrect == SessionListSpec => []SessionListTypeOK
<1>1. ListInv => SessionListTypeOK
  BY DEF ListInv, ListTypes, ChatTurns, SideCallRecords, SessionListTypeOK
<1> QED
  BY <1>1, ListInvariant, PTL

LEMMA PanelsTypeCorrect == PanelsSpec => []PanelsTypeOK
<1>1. PanelsInv => PanelsTypeOK
  BY DEF PanelsInv
<1> QED
  BY <1>1, PanelsInvariant, PTL

(***************************************************************************)
(* Whatever service is exercised, all it keeps has its type, for any       *)
(* number of processes, rows, calls and days: leases, proposals, grants,   *)
(* commands, task lists, sessions, tables, memories, reviews, the pet, the *)
(* windows and the settings (the modules that MCServices composes).        *)
(***************************************************************************)
THEOREM ServicesKeepTheirTypes == ServicesSpec => []ServicesTypeOK
<1>1. ServicesInit => focus \in Focuses
  BY DEF ServicesInit
<1>2. focus \in Focuses /\ [ServicesNext]_restVars => (focus \in Focuses)'
  BY ZenonT(60) DEF ServicesNext, Only, restVars
<1>3. ServicesSpec => [](focus \in Focuses)
  BY <1>1, <1>2, PTL DEF ServicesSpec
<1>4. /\ focus \in Focuses /\ TypeOK /\ ProposalsTypeOK /\ GrantsTypeOK /\ CommandsTypeOK
      /\ ItemsTypeOK /\ SessionsTypeOK /\ ModelCallsTypeOK /\ SchemaTypeOK /\ MemoryTypeOK
      /\ ReviewTypeOK /\ AvatarTypeOK /\ ChatViewTypeOK /\ ConfigTypeOK /\ ToolCallsTypeOK
      /\ MoodTypeOK /\ AffectionTypeOK /\ GoalChatsTypeOK /\ SessionListTypeOK /\ PanelsTypeOK
      => ServicesTypeOK
  BY Zenon DEF ServicesTypeOK
<1> QED
  BY <1>3, <1>4, EachServiceAsSpecified, LeasesTypeCorrect, ProposalsTypeCorrect,
     GrantsTypeCorrect, CommandsTypeCorrect, ItemsTypeCorrect, SessionsTypeCorrect,
     ModelCallsTypeCorrect, SchemaTypeCorrect, MemoryTypeCorrect, ReviewTypeCorrect,
     AvatarTypeCorrect, ChatViewTypeCorrect, ConfigTypeCorrect, ToolCallsTypeCorrect,
     MoodTypeCorrect, AffectionTypeCorrect, GoalChatsTypeCorrect, SessionListTypeCorrect,
     PanelsTypeCorrect, PTL

(***************************************************************************)
(* Side by side the services keep every promise each of them keeps by      *)
(* itself: what the runs check of them is proved of their composition.     *)
(***************************************************************************)
THEOREM ServicesKeepTheirPromises ==
    ServicesSpec =>
       /\ []ConflictsOnlyFromRaces /\ LeasesRunTheirTerm
       /\ []ApprovalsBoundExecutions /\ DecisionsStand
       /\ VerdictsAreRecorded /\ []CallsTellTheFile /\ []AnswersMatchReplies
       /\ ItemsAreClaimedInTurn /\ []ReviewsAreKept /\ []RowsAndChunksAgree
       /\ []SettingsOutliveTheirReaders /\ []OpenedDatabasesAreWhole
       /\ []SessionsAreTracked /\ []NamesAreKept /\ []GoalsStayWithTheirChat
       /\ []WindowsShowWhatIsThere /\ PetStaysItself
<1>1. AvatarSpec /\ MoodSpec /\ AffectionSpec => PetStaysItself
  BY PetAlwaysStaysItself DEF PetSpec
<1>2. ChatViewSpec /\ PanelsSpec => []WindowsShowWhatIsThere
  BY WindowsAlwaysShowWhatIsThere DEF WindowsSpec
<1> QED
  BY <1>1, <1>2, EachServiceAsSpecified, OnlyRacesConflict, LeasesRun, ApprovalsBound,
     GrantDecisionsStand, VerdictsRecorded, CallsTell, AnswersAlwaysMatchReplies,
     ItemsAreAlwaysClaimedInTurn, ReviewsAreAlwaysKept, RowsAndChunksAlwaysAgree,
     SettingsOutlive, DatabasesAlwaysOpenWhole, SessionsAreAlwaysTracked, NamesAreAlwaysKept,
     GoalsAlwaysStayWithTheirChat, PTL

=============================================================================
