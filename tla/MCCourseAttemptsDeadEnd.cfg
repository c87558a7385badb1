SPECIFICATION Spec
CONSTANTS
    w1 = w1
    sue = sue
    dan = dan
    vic = vic
    Workers <- MCWorkers
    Submitters <- MCSubmitters
    Deans <- MCDeans
    VCs <- MCVCs
    Exams <- MCExams
    NoExam = NoExam
    Nobody = Nobody
    AbsentCounts = "NO"
    WindowStart = "ENROLMENT"
    Window = 3
    MaxRegular = 2
    MaxTotal = 3
    Revaluation = FALSE
    LastDay = 3
    MaxCases = 3
CHECK_DEADLOCK FALSE
INVARIANT EligibleCanRegister
