SPECIFICATION FairGoalSpec
CONSTANTS
    t1 = t1
    t2 = t2
    t3 = t3
    Worker = worker
    User = user
    TaskIds = {t1, t2}
    Replies <- MCOneIntent
    Heartbeats <- MCNoAgents
    Budget <- MCDefaultBudget
    RequireApproval = TRUE
    Commands = {"approve_and_tick"}
    MaxCycles = 1
    MaxHints = 0
    MaxCrashes = 0
PROPERTIES
    ApprovedPlansAreCarriedOut
CHECK_DEADLOCK FALSE
