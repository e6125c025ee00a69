SPECIFICATION GoalSpec
CONSTANTS
    t1 = t1
    t2 = t2
    t3 = t3
    Worker = worker
    User = user
    TaskIds = {t1, t2}
    Replies <- MCGatedReplies
    Heartbeats <- MCGatedHeartbeats
    Budget <- MCTwoCycles
    RequireApproval = TRUE
    Commands = {"pause", "resume", "cancel", "approve", "reject", "accept", "send_back"}
    MaxCycles = 2
    MaxHints = 1
    MaxCrashes = 1
SYMMETRY Symmetry
INVARIANTS
    GoalTypeOK
    PhasesKeepTheirOrder
PROPERTIES
    GoalVerdictsStand
CHECK_DEADLOCK FALSE
