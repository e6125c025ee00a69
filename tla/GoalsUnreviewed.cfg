SPECIFICATION GoalSpec
CONSTANTS
    t1 = t1
    t2 = t2
    t3 = t3
    Worker = worker
    User = user
    TaskIds = {t1, t2}
    Replies <- MCTwoIntents
    Heartbeats <- MCNoAgents
    Budget <- MCDefaultBudget
    RequireApproval = FALSE
    Commands = {}
    MaxCycles = 1
    MaxHints = 0
    MaxCrashes = 0
INVARIANTS
    AcceptedGoalsAreReviewed
CHECK_DEADLOCK FALSE
