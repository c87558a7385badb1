SPECIFICATION Spec
CONSTANTS
    w1 = w1
    w2 = w2
    sue = sue
    dan = dan
    vic = vic
    Workers <- MCWorkers
    Submitters <- MCSubmitters
    Deans <- MCDeans
    VCs <- MCVCs
    Exams <- MCExams
    NoExam = NoExam
    Nobody = Nobody
    AbsentCounts = "NO"
    WindowStart = "FIRST_ATTEMPT"
    Window = 1
    MaxRegular = 2
    MaxTotal = 3
    Revaluation = TRUE
    LastDay = 2
    MaxCases = 2
CHECK_DEADLOCK FALSE
SYMMETRY Symmetric
INVARIANT RestsOnDecidedCase
PROPERTY LadderSpec
