SPECIFICATION FairCompanionSpec
CONSTANTS
    Focuses = {"turns", "agents", "routes", "teams", "runner", "nudges", "rounds"}
    p1 = p1
    p2 = p2
    x1 = x1
    x2 = x2
    Members <- TwoMore
    Stops = {stop1}
    NoMember = NoMember
    MaxLosses = 1
    Profiles = {profile1}
    PolicyInputs <- MCPolicyInputs
    NoProfile = NoProfile
    DefaultConfig = DefaultConfig
    BuiltInModel = BuiltInModel
    MaxPolicies = 2
    MaxSaves = 1
    TeamCallers <- Two
    TeamAgents = {agent1}
    NoAgentId = NoAgentId
    CliRuns <- TwoMore
    NoCliRun = NoCliRun
    MaxRunnerEnds = 1
    StalledTasks <- MCStalled
    QuietCalls <- Two
    NoQuiet = NoQuiet
    CooldownBeats = 2
    MaxAlerts = 2
    Catalog = {"search", "look", "write"}
    Inspecting = {"search", "look"}
    Search = "search"
    ConnectorTools = {"lark"}
    Wishes <- MCWishes
    MaxRounds = 2
    MaxCalls = 2
INVARIANTS
    CompanionTypeOK
    AnswersAreAccountedFor
PROPERTIES
    TurnsReturnAsClosed
    RunsEndAndAreReported
    TeamsFollowTheirLifecycle
    AttemptsAreSettledByTheirRuns
    NudgesKeepQuietAndReturn
CHECK_DEADLOCK FALSE
