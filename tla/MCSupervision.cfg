SPECIFICATION MCSpec
CONSTANTS
    w1 = w1
    w2 = w2
    s1 = s1
    s2 = s2
    s3 = s3
    fa = fa
    fb = fb
    m1 = m1
    m2 = m2
    Workers = {w1, w2}
    Scholars = {s1, s2, s3}
    Faculty <- MCFaculty
    External = {m1, m2}
    Capacity <- MCCapacity
    Interdisciplinary <- MCInterdisciplinary
    CountCoSupervision = TRUE
    TacMembers = 1
    Ended = {s3}
    MaxAssignments = 3
    MaxFormations = 2
    Codes <- MCCodes
    Orders = {1, 2}
    SeededChains <- MCSeededChains
    EditedChains = {}
SYMMETRY Symmetric
INVARIANTS
    CapacityHeld
    OneTac
    LedByCurrentSupervisor
    SignedThroughout
    DecisionsAgree
    TacIndependentInTurn
CHECK_DEADLOCK FALSE
