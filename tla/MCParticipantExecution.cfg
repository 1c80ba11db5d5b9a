SPECIFICATION Spec
CONSTANTS
    a = a
    b = b
    c = c
    g = g
    cpu = cpu
    host = host
    Policies <- MCPolicies
    Conflicts <- MCConflicts
    Budgets <- MCBudgets
    Budget <- MCBudget
    Pools <- MCPools
    Pool <- MCPool
    WindowEnd = 1
    MaxCalls = 3
    MaxFaults = 1
    MaxTick = 1
    MaxSegment = 1
INVARIANTS
    TypeOK
    SettledBetweenFlights
    SubmittedIsCounted
    OverlapIsIndependent
    InStep
    AccountsAgree
    ReservedIsHeld
    AttemptedIsCharged
    UnreservedWasReleased
    AloneInTeardown
PROPERTIES
    PacingCompletes
    StopEndsDriver
CHECK_DEADLOCK FALSE
