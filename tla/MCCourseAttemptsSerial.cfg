SPECIFICATION Spec
CONSTANTS
    w1 = w1
    sue = sue
    dan = dan
    vic = vic
    Workers <- MCWorkers
    Submitters <- MCSubmitters
    Deans <- MCDeans
    VCs <- MCVCs
    Exams <- MCExams
    NoExam = NoExam
    Nobody = Nobody
    AbsentCounts = "YES"
    WindowStart = "ENROLMENT"
    Window = 2
    MaxRegular = 2
    MaxTotal = 3
    Revaluation = FALSE
    LastDay = 3
    MaxCases = 3
CHECK_DEADLOCK FALSE
INVARIANTS
    StopsAtPass
    CoveredByCase
    StandingTruthful
