SPECIFICATION Spec
CONSTANTS
    Workflows = {w1, w2}
    w1 = w1
    w2 = w2
    Steps = {s1, s2}
    s1 = s1
    s2 = s2
    NoStep = NoStep
    Runs = {r1}
    AnyRun = AnyRun
    Timeout <- MCTimeout
    Triggers <- MCTriggers
    Declared <- MCDeclared
    Targets <- MCTargets
    MaxTime = 2
    MaxEvents <- MCEvents
    SkewedClock = FALSE
    Unrecorded = FALSE
INVARIANTS
    TypeOK
    ContractHolds
    EndedOnce
    CompensatedExactly
PROPERTIES
    EndedIsFinal
    ReconciledExactly
