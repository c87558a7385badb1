SPECIFICATION MCSpec
CONSTANTS
    w1 = w1
    w2 = w2
    ca = ca
    et = et
    ann = ann
    bob = bob
    cyd = cyd
    dev = dev
    eve = eve
    Workers = {w1, w2}
    Assessments = {ca, et}
    Scores = {0, 1}
    Coordinators = {ann, bob}
    Verifiers = {bob, cyd}
    Ratifiers = {cyd, dev}
    Requesters = {dev}
    Reviewers = {ann, eve}
    Total <- MCTotal
    PassTotal = 2
    AbsenceDecided = TRUE
    Absent = Absent
    NoMark = NoMark
    Nobody = Nobody
    MaxResults = 3
    MaxCases = 2
SYMMETRY Symmetric
CHECK_DEADLOCK FALSE
INVARIANTS
    SupersessionSound
    SeparationInTurn
    ResultMatchesMarksInTurn
    CopiesFollowInTurn
PROPERTIES
    NotDemoted
    PublishedSpecInTurn
