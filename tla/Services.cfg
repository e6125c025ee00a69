SPECIFICATION ServicesSpec
CONSTANTS
    Focuses = {"leases", "proposals", "grants", "commands", "items", "sessions",
               "models", "schema", "memory", "reviews", "pet", "view", "config",
               "calls", "mood", "affection", "goalchats", "sessionlist", "panels"}
    p1 = p1
    p2 = p2
    x1 = x1
    x2 = x2
    t1 = t1
    w1 = w1
    h1 = h1
    m1 = m1
    src = src
    lib = lib
    LeaseIds <- TwoMore
    Callers <- Two
    Scopes <- MCScopes
    Holders <- MCHolders
    Tasks <- MCTasks
    Workspaces <- MCWorkspaces
    Requests <- MCRequests
    NoRow = NoRow
    NoTask = NoTask
    TTL = 1
    MaxTime = 2
    Chats <- Two
    Executors <- TwoMore
    ToolRequests = {write, read}
    WriteRequests = {write}
    NoRequest = NoRequest
    MaxProposals = 2
    MaxApprovals = 2
    RecallLimit = 1
    MaxReads = 2
    MaxInterrupted = 1
    Askers <- Two
    Deciders <- TwoMore
    MaxGrants = 2
    Runs <- TwoMore
    Killers <- Two
    NoRun = NoRun
    MaxRestarts = 1
    TaskLists = {list1}
    Agents <- Two
    NoAgent = NoAgent
    MaxItems = 2
    GivenStatuses = {"completed"}
    GivenBlockers = {2}
    Sessions = {session1}
    SessionCalls <- TwoMore
    NoSession = NoSession
    NoCall = NoCall
    MaxProcesses = 2
    MaxQuits = 1
    ModelRequests <- MCModelRequests
    ModelReplies <- MCModelReplies
    Openers <- Two
    Watches <- MCWatches
    Prompts <- TwoMore
    Jobs = {job1}
    Fetches = {fetch1}
    NoPrompt = NoPrompt
    HistoryLimit = 3
    MaxTurns = 3
    Entries <- TwoMore
    Rememberers <- Two
    QueueWriters <- Two
    Identities <- MCIdentities
    NoWriter = NoWriter
    NoName = NoName
    MaxReviews = 2
    MaxWriters = 3
    Loaders = {loader1}
    Keys = {key1}
    NoKey = NoKey
    MaxSettings = 2
    MaxCrashes = 1
    Dressers <- Two
    MaxChanges = 3
    ToolCallIds <- TwoMore
    MoodTurns <- Two
    MoodTimer = MoodTimer
    KeptMoods = 2
    MaxStamps = 4
    Fonds <- Two
    Top = 2
    FirstFondness = 2
    MaxDays = 3
    ChatGoals <- TwoMore
    ChatActions <- Two
    NoGoal = NoGoal
    MaxBegun = 2
    Slots <- TwoMore
    ListCalls <- Two
    NoSlot = NoSlot
    MaxHappenings = 2
VIEW FocusedService
INVARIANTS
    ServicesTypeOK
    ConflictsOnlyFromRaces
    ApprovalsBoundExecutions
    SessionsAreTracked
    AnswersMatchReplies
    OpenedDatabasesAreWhole
    WindowsShowWhatIsThere
    RowsAndChunksAgree
    ReviewsAreKept
    SettingsOutliveTheirReaders
    CallsTellTheFile
    GoalsStayWithTheirChat
    NamesAreKept
PROPERTIES
    LeasesRunTheirTerm
    DecisionsStand
    VerdictsAreRecorded
    ItemsAreClaimedInTurn
    PetStaysItself
CHECK_DEADLOCK FALSE
