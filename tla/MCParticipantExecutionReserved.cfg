SPECIFICATION Spec
CONSTANTS
    a = a
    b = b
    c = c
    g = g
    cpu = cpu
    host = host
    Policies <- MCGoverned
    Conflicts = {}
    Budgets <- MCBudgets
    Budget <- MCBudget
    Pools <- MCPools
    Pool <- MCPool
    WindowEnd = 1
    MaxCalls = 3
    MaxFaults = 1
    MaxTick = 1
    MaxSegment = 1
INVARIANTS
    NativeWorkIsReserved
CHECK_DEADLOCK FALSE
