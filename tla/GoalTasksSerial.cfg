SPECIFICATION Spec
CONSTANTS
    Tasks = {t1, t2}
    LeaseIds = {l1, l2, l3}
    Callers = {c1}
    Holders = {a1, a2}
    Operations = {"claim", "start", "complete", "accept", "fail", "block", "resume", "rework", "send_back", "writeback_blocked", "writeback_review_ready"}
    w1 = w1
    Workspaces <- MCWorkspaces
    WorkspaceOf <- MCWorkspaceOf
    Scopes <- MCScopes
    NoRow = NoRow
    NoTask = NoTask
    NoLease = NoLease
    Nobody = Nobody
SYMMETRY Symmetry
INVARIANTS
    ParkedTasksHoldNoLease
PROPERTIES
    ImplementsLifecycle
CHECK_DEADLOCK FALSE
