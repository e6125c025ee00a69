SPECIFICATION ExecutionSpec
CONSTANTS
    w1 = w1
    t1 = t1
    t2 = t2
    e1 = e1
    e2 = e2
    l1 = l1
    l2 = l2
    l3 = l3
    l4 = l4
    Runner = runner
    Orchestrator = orchestrator
    User = user
    RunnerAgent = desktop_runner
    McpAgent = mcp_router_executor
    Tasks <- MCTasks
    Executors <- MCExecutors
    Callers <- MCCallers
    Holders <- MCHolders
    McpTasks <- MCMcpTasks
    Age <- MCAge
    Workspaces <- MCWorkspaces
    WorkspaceOf <- MCWorkspaceOf
    Scopes <- MCScopes
    LeaseIds = {l1, l2, l3, l4}
    Operations = {"claim", "start", "accept", "fail", "resume", "writeback_blocked", "writeback_review_ready"}
    MaxCrashes = 2
    MaxResumes = 2
    NoRow = NoRow
    NoTask = NoTask
    NoLease = NoLease
    Nobody = Nobody
SYMMETRY Symmetry
INVARIANTS
    ExecTypeOK
    NoDoubleExecution
    AcceptedTasksAreComplete
CHECK_DEADLOCK FALSE
