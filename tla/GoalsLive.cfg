SPECIFICATION FairGoalSpec
CONSTANTS
    t1 = t1
    t2 = t2
    t3 = t3
    Worker = worker
    User = user
    TaskIds = {t1, t2, t3}
    Replies <- MCReplies
    Heartbeats <- MCHeartbeats
    Budget <- MCDefaultBudget
    RequireApproval = FALSE
    Commands = {"resume", "cancel"}
    MaxCycles = 1
    MaxHints = 1
    MaxCrashes = 0
INVARIANTS
    CyclesAreGoverned
PROPERTIES
    StartedGoalsReachVerdict
CHECK_DEADLOCK FALSE
