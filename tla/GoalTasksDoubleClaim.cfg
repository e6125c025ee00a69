SPECIFICATION Spec
CONSTANTS
    Tasks = {t1}
    LeaseIds = {l1, l2}
    Callers = {c1, c2}
    Holders = {a1, a2}
    Operations = {"claim", "rework"}
    w1 = w1
    Workspaces <- MCWorkspaces
    WorkspaceOf <- MCWorkspaceOf
    Scopes <- MCScopes
    NoRow = NoRow
    NoTask = NoTask
    NoLease = NoLease
    Nobody = Nobody
INVARIANTS
    OneClaimPerTask
CHECK_DEADLOCK FALSE
