------------------------------- MODULE ExamOffice -------------------------------
(***************************************************************************)
(* The Controller of Examinations: cycles and exams, who may register for  *)
(* one, hall tickets, and the setters of question papers.                  *)
(*                                                                         *)
(* Sources: coursework/academic/{examination,exam_admin}.py, coursework/   *)
(* models/{examination,exam_admin}.py, api/offices.py, api/scholar.py      *)
(* (ExamsView, ExamRegistrationView).                                      *)
(*                                                                         *)
(* Where CourseAttempts follows one scholar through one course with its    *)
(* third-attempt cases and takes attendance, fees and registration as      *)
(* settled, here these decide, and cases do not occur: an attempt that     *)
(* would need one is not eligible.                                         *)
(*                                                                         *)
(* Abstracted: the window of years for attempts, numbers and verification  *)
(* codes of tickets, revoked tickets, the basis of an appointment.         *)
(***************************************************************************)
EXTENDS Attendance

CONSTANTS
    ExamSemesters, \* whose term is among exam.cycles
    Activities,    \* courses evaluated without an examination
    Setters,
    MaxRegular,    \* exam.max_regular_attempts
    ExamClearance  \* exam.requires_fee_clearance

ASSUME ExamAssumption ==
    /\ ExamSemesters \subseteq Semesters
    /\ MaxRegular \in Nat
    /\ ExamClearance \in BOOLEAN

VARIABLES
    cycles,   \* ExamCycle of each semester
    exams,    \* day of the Exam of each <<semester, course>>
    attempts, \* CourseAttempt rows of each <<scholar, course>> with their ExamRegistration
    tickets,  \* registrations <<key, number>> with a live HallTicket
    papers    \* QuestionPaperSetterAppointment of each <<exam, setter>>

examVars == <<cycles, exams, attempts, tickets, papers>>

NoCycle == [status |-> "NONE"]
NoDay == -1

Courses == {CourseOf[o] : o \in Offerings}
Keys == Candidates \X Courses
ExamIds == Semesters \X Courses
Registrations == UNION {{<<k, i>> : i \in DOMAIN attempts[k]} : k \in Keys}

KeyOf(row) == <<row[1], CourseOf[row[2]]>>

-----------------------------------------------------------------------------
(* Cycles and exams *)

CycleDates(c) == c.opens <= c.closes /\ c.closes <= c.start /\ c.start <= c.end

CreateExamCycle(semester, c) ==
    /\ semester \in ExamSemesters
    /\ CycleDates(c)
    /\ cycles[semester] = NoCycle
    /\ cycles' = [cycles EXCEPT ![semester] = c]
    /\ UNCHANGED <<exams, attempts, tickets, papers, attendanceVars, teachingVars, enrollmentVars, electiveVars, desk>>

CreateExam(e, on) ==
    /\ e[2] \notin Activities
    /\ cycles[e[1]] # NoCycle
    /\ on \in cycles[e[1]].start .. cycles[e[1]].end
    /\ exams[e] = NoDay
    /\ exams' = [exams EXCEPT ![e] = on]
    /\ UNCHANGED <<cycles, attempts, tickets, papers, attendanceVars, teachingVars, enrollmentVars, electiveVars, desk>>

-----------------------------------------------------------------------------
(* Registration *)

With(key, outcome) == {i \in DOMAIN attempts[key] : attempts[key][i].outcome = outcome}

\* evaluate_eligibility: the semester of the exam is the one to be registered and cleared for.
Eligible(row, e) ==
    /\ row[1] \in active
    /\ enrollments[row].status = "ENROLLED"
    /\ e[2] = CourseOf[row[2]]
    /\ exams[e] # NoDay
    /\ day \in cycles[e[1]].opens .. cycles[e[1]].closes
    /\ With(KeyOf(row), "PASS") = {}
    /\ With(KeyOf(row), "PENDING") = {}
    /\ Cardinality(With(KeyOf(row), "FAIL")) < MaxRegular
    /\ AttendanceMet(row)
    /\ ExamClearance => <<row[1], e[1]>> \in cleared
    /\ RegistrationRequired => <<row[1], e[1]>> \in registered

OpenExamRegistration(d, row, e) ==
    /\ Eligible(row, e)
    /\ OpenRequest(d, [op |-> "examine", row |-> row, exam |-> e, no |-> Len(attempts[KeyOf(row)]) + 1,
                       copy |-> enrollments[row]])
    /\ UNCHANGED <<examVars, attendanceVars, teachingVars, enrollmentVars, electiveVars>>

\* The number of the attempt and the registration of an enrollment for an exam are unique.
Admissible(r) ==
    LET before == attempts[KeyOf(r.row)]
    IN  /\ r.no = Len(before) + 1
        /\ \A i \in DOMAIN before : <<before[i].row, before[i].exam>> # <<r.row, r.exam>>

WriteExamRegistration(d) ==
    /\ desk[d].op = "examine"
    /\ LET r == desk[d]
       IN  IF Admissible(r)
           THEN /\ attempts' = [attempts EXCEPT ![KeyOf(r.row)] =
                                   Append(@, [row |-> r.row, exam |-> r.exam, outcome |-> "PENDING"])]
                /\ enrollments' = [enrollments EXCEPT ![r.row].tried = TRUE]
                /\ hurried' = hurried \cup Changed(d, r.row)
           ELSE UNCHANGED <<attempts, enrollments, hurried>>
    /\ CloseRequest(d)
    /\ UNCHANGED <<cycles, exams, tickets, papers, attendanceVars, teachingVars, active, windows, cleared,
                   registered, offered, electiveVars>>

\* What the custody of results publishes, or revises.
RatifyOutcome(key, i, outcome) ==
    /\ attempts' = [attempts EXCEPT ![key][i].outcome = outcome]
    /\ Ratified(attempts[key][i].row, outcome = "PASS")
    /\ UNCHANGED <<cycles, exams, tickets, papers, attendanceVars, teachingVars>>

-----------------------------------------------------------------------------
(* Hall tickets and question papers *)

\* A registration stays REGISTERED for good: a ticket may be issued after the exam and its result.
IssueHallTicket(x) ==
    /\ x \notin tickets
    /\ tickets' = tickets \cup {x}
    /\ UNCHANGED <<cycles, exams, attempts, papers, attendanceVars, teachingVars, enrollmentVars, electiveVars, desk>>

RevokeHallTicket(x) ==
    /\ x \in tickets
    /\ tickets' = tickets \ {x}
    /\ UNCHANGED <<cycles, exams, attempts, papers, attendanceVars, teachingVars, enrollmentVars, electiveVars, desk>>

AppointSetter(e, p) ==
    /\ exams[e] # NoDay
    /\ papers[<<e, p>>] = "NONE"
    /\ papers' = [papers EXCEPT ![<<e, p>>] = "APPOINTED"]
    /\ UNCHANGED <<cycles, exams, attempts, tickets, attendanceVars, teachingVars, enrollmentVars, electiveVars, desk>>

RecordPaperReceived(e, p) ==
    /\ papers[<<e, p>>] = "APPOINTED"
    /\ papers' = [papers EXCEPT ![<<e, p>>] = "PAPER_RECEIVED"]
    /\ UNCHANGED <<cycles, exams, attempts, tickets, attendanceVars, teachingVars, enrollmentVars, electiveVars, desk>>

-----------------------------------------------------------------------------

ExamInit ==
    /\ cycles = [semester \in Semesters |-> NoCycle]
    /\ exams = [e \in ExamIds |-> NoDay]
    /\ attempts = [k \in Keys |-> <<>>]
    /\ tickets = {}
    /\ papers = [x \in ExamIds \X Setters |-> "NONE"]

Dates == [opens : 0 .. LastDay, closes : 0 .. LastDay, start : 0 .. LastDay, end : 0 .. LastDay]

OfficeNext ==
    \/ \E semester \in Semesters, c \in Dates : CreateExamCycle(semester, c)
    \/ \E e \in ExamIds :
          \/ \E on \in 0 .. LastDay : CreateExam(e, on)
          \/ \E p \in Setters : AppointSetter(e, p) \/ RecordPaperReceived(e, p)
          \/ \E d \in Desks, row \in Rows : OpenExamRegistration(d, row, e)
    \/ \E d \in Desks : WriteExamRegistration(d)
    \/ \E x \in Registrations : IssueHallTicket(x) \/ RevokeHallTicket(x)

ExamNext ==
    \/ OfficeNext
    \/ \E x \in Registrations, outcome \in {"PASS", "FAIL"} : RatifyOutcome(x[1], x[2], outcome) /\ UNCHANGED desk

-----------------------------------------------------------------------------
(* What the examination office promises *)

\* Who holds a hall ticket is still enrolled, unless a withdrawal and the registration crossed; and
\* however requests cross, a scholar has one undecided attempt at a course at a time.
TicketsStand ==
    /\ \A x \in tickets :
          LET row == attempts[x[1]][x[2]].row
          IN  enrollments[row].status = "WITHDRAWN" => {row[1], row[2]} \subseteq hurried
    /\ \A k \in Keys : Cardinality(With(k, "PENDING")) <= 1

=============================================================================
