SPECIFICATION Spec
CONSTANTS
    Calls = {c1, c2}
    Planes = {p1, p2}
    Keys = {k1}
    c1 = c1
    c2 = c2
    c3 = c3
    p1 = p1
    p2 = p2
    k1 = k1
    NoKey = NoKey
    None = None
    MaxRevision = 1
    Bodies <- MCBodies
    Commitment <- MCCommitment
    Secret <- MCSecret
    Kinds = {"plan", "action"}
    ExplicitBase = TRUE
    LeasedStore = FALSE
    StoreErrors = FALSE
    Interrupts = FALSE
SYMMETRY Symmetry
CHECK_DEADLOCK FALSE
INVARIANTS
    TypeOK
    EffectAtMostOnce
    ReceiptsAgree
