SPECIFICATION Spec
CONSTANTS
    Calls = {c1, c2}
    Planes = {p1, p2}
    Keys = {k1}
    c1 = c1
    c2 = c2
    c3 = c3
    p1 = p1
    p2 = p2
    k1 = k1
    NoKey = NoKey
    None = None
    MaxRevision = 2
    Bodies = {"plain"}
    Commitment <- MCCommitment
    Secret <- MCSecret
    Kinds = {"plan"}
    ExplicitBase = FALSE
    LeasedStore = FALSE
    StoreErrors = FALSE
    Interrupts = FALSE
CHECK_DEADLOCK FALSE
PROPERTY NoLostUpdate
