SPECIFICATION MCSpec
CONSTANTS
    d1 = d1
    d2 = d2
    t1 = t1
    t2 = t2
    x1 = x1
    x2 = x2
    eve = eve
    ana = ana
    ben = ben
    cid = cid
    dan = dan
    el = el
    co = co
    sem = sem
    nxt = nxt
    l1 = l1
    p1 = p1
    p2 = p2
    oe = oe
    oc = oc
    on = on
    Desks = {d1, d2}
    Officers = {ana, ben, cid, dan}
    Candidates = {x1, x2}
    Electives = {el}
    Semesters = {sem, nxt}
    Lists = {l1}
    Proposals = {p1}
    Preparers = {ana}
    HolderOf <- MCHolderOf
    ListChains <- MCListChains
    SupervisedBy <- MCSupervisedBy
    Authority = {cid, dan}
    RecommendationRequired = FALSE
    ListRequired = TRUE
    MaxDecisions = 3
    NoElective = NoElective
    Nobody = Nobody
    Offerings = {oe, oc, on}
    CourseOf <- MCCourseOf
    SemesterOf <- MCSemesterOf
    CapacityOf <- MCCapacityOf
    Sections <- MCSections
    SectionCapacity <- MCSectionCapacity
    ClearanceRequired = TRUE
    RegistrationRequired = TRUE
    NoSection = NoSection
    Teachers = {dan, eve}
    Governors = {ana}
    LastDay = 1
    Whole = 4
    Default = 2
    Limit = 1
    Slots = {1}
    MinAttendance = 3
    ExamSemesters = {sem}
    Activities = {}
    Setters = {dan}
    MaxRegular = 2
    ExamClearance = TRUE
    Required = {co}
    ElectivesRequired = 1
    CreditsOf <- MCCreditsOf
    CreditsRequired = 6
    MinGPA = 550
    MinPoints = 5
    Marksheets <- MCMarksheets
    Ungraded = Ungraded
    Tabs = {t1, t2}
    ImportRows <- MCImportRows
    ScreenRows <- MCScreenRows
    NoText = NoText
CHECK_DEADLOCK FALSE
SYMMETRY Symmetric
INVARIANTS
    ListSigned
    PlacesHeld
    EnrollmentRests
    GridAgrees
    CorrectionsExplain
    TicketsStand
    SameRowTwice
    RecordTold
    OffersHold
PROPERTY SchemeSettled
