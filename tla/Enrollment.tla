------------------------------- MODULE Enrollment -------------------------------
(***************************************************************************)
(* Fee clearance, semester registration and enrollment in the offerings of *)
(* courses, electives on an approved proposal.                             *)
(*                                                                         *)
(* Sources: coursework/academic/{enrollment,semester,structure}.py,        *)
(* coursework/models/teaching.py; of examination.py and results.py what    *)
(* they do to an enrollment.                                               *)
(*                                                                         *)
(* As in ElectiveChoice a request reads and checks first and writes later; *)
(* between the two stand only the constraints of the tables.               *)
(*                                                                         *)
(* Abstracted: dates of the registration window (a set of open semesters), *)
(* applicability of courses to a category, why exams and results come.     *)
(***************************************************************************)
EXTENDS ElectiveChoice

CONSTANTS
    Offerings,
    CourseOf, SemesterOf, CapacityOf, \* of each offering
    Sections,                         \* <<offering, code>>, with its capacity in SectionCapacity
    SectionCapacity,
    ClearanceRequired,    \* semester_registration.requires_fee_clearance
    RegistrationRequired, \* semester_registration.required
    NoSection

ASSUME EnrollmentAssumption ==
    /\ IsFiniteSet(Candidates)
    /\ SemesterOf \in [Offerings -> Semesters]
    /\ CapacityOf \in [Offerings -> Nat]
    /\ \A s \in Sections : s[1] \in Offerings
    /\ NoSection \notin Sections
    /\ SectionCapacity \in [Sections -> Nat]
    /\ ClearanceRequired \in BOOLEAN
    /\ RegistrationRequired \in BOOLEAN

VARIABLES
    active,      \* scholars whose status is ACTIVE
    windows,     \* semesters whose registration window is open
    cleared,     \* <<scholar, semester>> with a FeeClearance that says cleared
    registered,  \* <<scholar, semester>> with a SemesterRegistration
    offered,     \* offerings created, all OPEN
    enrollments, \* ScholarCourseEnrollment rows
    hurried      \* history: scholars and offerings where one request overtook another

enrollmentVars == <<active, windows, cleared, registered, offered, enrollments, hurried>>

Rows == {<<s, o>> : s \in Candidates, o \in Offerings}

NotEnrolled == [status |-> "NONE"]

EnrollmentRow ==
    [status : {"ENROLLED", "WITHDRAWN", "COMPLETED"}, section : Sections \cup {NoSection},
     proposal : Proposals \cup {Nobody}, tried : BOOLEAN, reopened : BOOLEAN]

Holders(o, section) ==
    {s \in Candidates : LET e == enrollments[<<s, o>>]
                        IN e.status = "ENROLLED" /\ section \in {NoSection, e.section}}

HasOnePlaceMore(o, section) == Cardinality(Holders(o, NoSection)) <= CapacityOf[o]

HasRoom(o, section) ==
    /\ Cardinality(Holders(o, NoSection)) < CapacityOf[o]
    /\ section # NoSection => Cardinality(Holders(o, section)) < SectionCapacity[section]

-----------------------------------------------------------------------------
(* Fees, registration, offerings *)

RecordFeeClearance(s, semester, is) ==
    /\ cleared' = IF is THEN cleared \cup {<<s, semester>>} ELSE cleared \ {<<s, semester>>}
    /\ UNCHANGED <<active, windows, registered, offered, enrollments, hurried, electiveVars, desk>>

OpenRegistration(d, s, semester) ==
    /\ s \in active
    /\ semester \in windows
    /\ ClearanceRequired => <<s, semester>> \in cleared
    /\ OpenRequest(d, [op |-> "register", row |-> <<s, semester>>])
    /\ UNCHANGED <<enrollmentVars, electiveVars>>

\* One registration for a semester is a constraint of the table.
WriteRegistration(d) ==
    /\ desk[d].op = "register"
    /\ registered' = registered \cup {desk[d].row}
    /\ CloseRequest(d)
    /\ UNCHANGED <<active, windows, cleared, offered, enrollments, hurried, electiveVars>>

CreateOffering(o) ==
    /\ o \notin offered
    /\ offered' = offered \cup {o}
    /\ UNCHANGED <<active, windows, cleared, registered, enrollments, hurried, electiveVars, desk>>

-----------------------------------------------------------------------------
(* Enrolling and withdrawing *)

Held(s, course) ==
    {o \in Offerings : CourseOf[o] = course /\ enrollments[<<s, o>>].status \notin {"NONE", "WITHDRAWN"}}

Approved(p, s, course) ==
    /\ proposals[p].status = "APPROVED"
    /\ proposals[p].scholar = s
    /\ proposals[p].course = course

Bases(s, course) ==
    IF course \in Electives THEN {p \in Proposals : Approved(p, s, course)} ELSE {Nobody}

MayEnroll(s, o, section) ==
    /\ s \in active
    /\ o \in offered
    /\ RegistrationRequired => <<s, SemesterOf[o]>> \in registered
    /\ section # NoSection => section[1] = o
    /\ HasRoom(o, section)
    /\ Held(s, CourseOf[o]) = {}

OpenEnrollment(d, s, o, section) ==
    /\ MayEnroll(s, o, section)
    /\ \E p \in Bases(s, CourseOf[o]) :
          OpenRequest(d, [op |-> "enroll", row |-> <<s, o>>, section |-> section, proposal |-> p])
    /\ UNCHANGED <<enrollmentVars, electiveVars>>

OthersEnrolling(d) == {e \in Desks \ {d} : desk[e].op = "enroll"}

\* Others who were checked before this enrollment was there, in the same offering or for the same scholar.
Overtaken(d, s, o) ==
    {x \in {s, o} : \E e \in OthersEnrolling(d) : x \in {desk[e].row[1], desk[e].row[2]}}

NewEnrollment(section, p) ==
    [status |-> "ENROLLED", section |-> section, proposal |-> p, tried |-> FALSE, reopened |-> FALSE]

\* One enrollment of a scholar in an offering is a constraint of the table, a withdrawn one included.
WriteEnrollment(d) ==
    /\ desk[d].op = "enroll"
    /\ LET r == desk[d]
       IN  IF enrollments[r.row] = NotEnrolled
           THEN /\ enrollments' = [enrollments EXCEPT ![r.row] = NewEnrollment(r.section, r.proposal)]
                /\ hurried' = hurried \cup Overtaken(d, r.row[1], r.row[2])
           ELSE UNCHANGED <<enrollments, hurried>>
    /\ CloseRequest(d)
    /\ UNCHANGED <<active, windows, cleared, registered, offered, electiveVars>>

\* The enrollment is no longer the one the request loaded.
Changed(d, row) == IF enrollments[row] = desk[d].copy THEN {} ELSE {row[1], row[2]}

OpenWithdrawalOfTried(d, row) ==
    /\ enrollments[row] # NotEnrolled
    /\ OpenRequest(d, [op |-> "withdraw", row |-> row, copy |-> enrollments[row]])
    /\ UNCHANGED <<enrollmentVars, electiveVars>>

OpenWithdrawal(d, row) ==
    /\ enrollments[row] # NotEnrolled
    /\ ~enrollments[row].tried
    /\ OpenRequest(d, [op |-> "withdraw", row |-> row, copy |-> enrollments[row]])
    /\ UNCHANGED <<enrollmentVars, electiveVars>>

WriteWithdrawal(d) ==
    /\ desk[d].op = "withdraw"
    /\ LET row == desk[d].row
       IN  /\ enrollments' = [enrollments EXCEPT ![row].status = "WITHDRAWN"]
           /\ hurried' = hurried \cup Changed(d, row)
    /\ CloseRequest(d)
    /\ UNCHANGED <<active, windows, cleared, registered, offered, electiveVars>>

-----------------------------------------------------------------------------
(* What else happens to a scholar *)

\* register_for_exam (and open_activity_evaluation) creates an attempt of an enrollment it read as ENROLLED.
OpenAttempt(d, row) ==
    /\ enrollments[row].status = "ENROLLED"
    /\ OpenRequest(d, [op |-> "attempt", row |-> row, copy |-> enrollments[row]])
    /\ UNCHANGED <<enrollmentVars, electiveVars>>

WriteAttempt(d) ==
    /\ desk[d].op = "attempt"
    /\ LET row == desk[d].row
       IN  /\ enrollments' = [enrollments EXCEPT ![row].tried = TRUE]
           /\ hurried' = hurried \cup Changed(d, row)
    /\ CloseRequest(d)
    /\ UNCHANGED <<active, windows, cleared, registered, offered, electiveVars>>

\* _sync_attempt, from the first result or a revision: reopened is a history, a pass revised to a fail.
Ratified(row, pass) ==
    /\ enrollments[row] # NotEnrolled
    /\ enrollments[row].tried
    /\ enrollments' = [enrollments EXCEPT ![row].status = IF pass THEN "COMPLETED" ELSE "ENROLLED",
                                          ![row].reopened = ~pass /\ (@ \/ enrollments[row].status = "COMPLETED")]
    /\ UNCHANGED <<active, windows, cleared, registered, offered, hurried, electiveVars>>

\* A scholar takes leave or is terminated; a window closes.
StatusLeavesActive(s) ==
    /\ s \in active
    /\ active' = active \ {s}
    /\ UNCHANGED <<windows, cleared, registered, offered, enrollments, hurried, electiveVars, desk>>

WindowCloses(semester) ==
    /\ semester \in windows
    /\ windows' = windows \ {semester}
    /\ UNCHANGED <<active, cleared, registered, offered, enrollments, hurried, electiveVars, desk>>

-----------------------------------------------------------------------------

EnrollmentInit ==
    /\ active = Candidates
    /\ windows = Semesters
    /\ cleared = {}
    /\ registered = {}
    /\ offered = {}
    /\ enrollments = [row \in Rows |-> NotEnrolled]
    /\ hurried = {}

EnrollmentNext ==
    \/ \E s \in Candidates, semester \in Semesters, is \in BOOLEAN : RecordFeeClearance(s, semester, is)
    \/ \E s \in Candidates : StatusLeavesActive(s)
    \/ \E semester \in Semesters : WindowCloses(semester)
    \/ \E o \in Offerings : CreateOffering(o)
    \/ \E row \in Rows, pass \in BOOLEAN : Ratified(row, pass) /\ UNCHANGED desk
    \/ \E d \in Desks :
          \/ \E s \in Candidates, semester \in Semesters : OpenRegistration(d, s, semester)
          \/ \E s \in Candidates, o \in Offerings, section \in Sections \cup {NoSection} :
                OpenEnrollment(d, s, o, section)
          \/ \E row \in Rows : OpenWithdrawal(d, row) \/ OpenAttempt(d, row)
          \/ WriteRegistration(d) \/ WriteEnrollment(d) \/ WriteWithdrawal(d) \/ WriteAttempt(d)

CourseNext == (ElectiveNext /\ UNCHANGED enrollmentVars) \/ EnrollmentNext

-----------------------------------------------------------------------------
(* What enrollments rest on *)

Counted(o, section) ==
    {s \in Holders(o, section) : ~enrollments[<<s, o>>].reopened}

\* No more scholars hold places than there are, and none holds two enrollments in a course, unless a
\* scholar or an offering was in two requests at once; beyond the places are only those whose pass was
\* revised after it had freed theirs.
PlacesHeld ==
    /\ \A o \in Offerings \ hurried : Cardinality(Counted(o, NoSection)) <= CapacityOf[o]
    /\ \A section \in Sections : section[1] \notin hurried =>
          Cardinality(Counted(section[1], section)) <= SectionCapacity[section]
    /\ \A s \in Candidates \ hurried, course \in {CourseOf[o] : o \in Offerings} : Cardinality(Held(s, course)) <= 1

\* An enrollment in an elective rests on a proposal of that scholar for that course which stays approved,
\* by neither the scholar nor the recommender, and, where lists are required, on an approved list of the
\* proposal's semester; unless a decision on the proposal or the list overwrote another.
EnrollmentRests ==
    \A row \in Rows :
       LET p == enrollments[row].proposal
       IN  enrollments[row] # NotEnrolled /\ CourseOf[row[2]] \in Electives /\ ~proposals[p].stale =>
           /\ Approved(p, row[1], CourseOf[row[2]])
           /\ proposals[p].decider \notin {row[1], proposals[p].recommender}
           /\ ListRequired /\ (\A l \in Lists : lists[l] # NoList => ~lists[l].stale) =>
                 ApprovedLists(CourseOf[row[2]], proposals[p].semester) # {}

=============================================================================
