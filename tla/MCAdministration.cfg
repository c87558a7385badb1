SPECIFICATION MCSpec
CONSTANTS
    w1 = w1
    w2 = w2
    a1 = a1
    a2 = a2
    a3 = a3
    ann = ann
    bob = bob
    cyd = cyd
    u1 = u1
    f1 = f1
    s1 = s1
    s2 = s2
    d1 = d1
    d2 = d2
    sc1 = sc1
    sc2 = sc2
    None = None
    Workers = {w1}
    Persons <- MCPersons
    Users = {u1}
    Faculties = {f1}
    Scholars = {s1, s2}
    Departments = {d1, d2}
    Schools = {sc1, sc2}
    SchoolOf <- MCSchoolOf
    DepartmentOf <- MCDepartmentOf
    HomeOf <- MCHomeOf
    Committees <- MCCommittees
    Supervises <- MCSupervises
    Seated <- MCSeated
    LastDay = 1
    Grantable <- MCGrantable
    Mail <- MCMail
    MaxGrants = 3
    Writers = {a1, a2, a3}
    MaxEvents = 5
    k1 = k1
    k2 = k2
    Files <- MCFiles
    Singles <- MCSingles
    Keyed = {"courses"}
    Batches = {b1}
    NoBatch = NoBatch
    Clerks = {w1, w2}
    Keys <- MCKeys
    Makers = {ann, bob}
    Checkers = {bob, cyd}
    LastRuleDay = 1
    MaxChanges = 2
    NoOne = NoOne
    ImportType = "structure"
    Columns = {1, 2, 3}
    Sheets <- MCSheets
    Assisted = TRUE
    Blank = Blank
    NoField = NoField
CHECK_DEADLOCK FALSE
SYMMETRY SymmetricWriters
INVARIANTS
    VisibleAgrees
    ChainSound
    VersionsChecked
    ImportedOnce
    SuggestionsStand
PROPERTIES
    AdminsKept
