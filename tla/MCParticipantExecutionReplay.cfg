SPECIFICATION Spec
CONSTANTS
    a = a
    b = b
    c = c
    g = g
    cpu = cpu
    host = host
    Policies <- MCPolicies
    Conflicts <- MCConflicts
    Budgets <- MCBudgets
    Budget <- MCBudget
    Pools <- MCPools
    Pool <- MCPool
    WindowEnd = 1
    MaxCalls = 3
    MaxFaults = 1
    MaxTick = 1
    MaxSegment = 0
PROPERTY FencedIsNeverReplayed
CHECK_DEADLOCK FALSE
