SPECIFICATION MCSpec
CONSTANTS
    w1 = w1
    w2 = w2
    Workers <- MCWorkers
    Handlers <- MCWorkers
    ExtensionKinds = {"SYNOPSIS"}
    Years = {1}
    LeaveTypes = {"ANNUAL"}
    Days = {1, 2}
    LeaveCap <- MCLeaveCap
    Amounts = {1, 2}
    GrantCap = 3
    Months = {0, 1, 2}
    MinGap = 2
    MaxRequests = 3
    Codes <- MCCodes
    Orders = {1, 2}
    SeededChains <- MCSeededChains
    EditedChains = {"SYNOPSIS"}
    MaxFailed = 2
    WarningLimit = 2
    PanelMin = 3
    Chosen = 2
    Commends = 1
    Ahead = 0
    Late = 0
    MaxProposals = 2
    MaxReports = 2
    MaxReviews = 1
    MaxPanels = 1
    MaxTerminations = 2
    Clerks <- MCWorkers
    Semesters = {1, 2, 3}
    Sources = {"FACULTY"}
    Loads <- MCLoads
    MaxSemesters = 2
    MaxHours = 3
    MaxContact = 1
SYMMETRY Symmetric
CHECK_DEADLOCK FALSE
INVARIANT RefusedLeaveFree
