------------------------------- MODULE Transcripts -------------------------------
(***************************************************************************)
(* The academic record of a scholar, derived from the ratified results,    *)
(* the date its completion is mirrored into, and the transcripts issued of *)
(* it, which keep a version and a hash and never a mark.                   *)
(*                                                                         *)
(* Sources: coursework/academic/{records,results,grading}.py, coursework/  *)
(* models/exam_admin.py (TranscriptIssue), api/offices.py, api/scholar.py. *)
(*                                                                         *)
(* The content a transcript hashes changes with each ratified result and   *)
(* never returns, a revision being a new row: the hash is the scholar's    *)
(* number of ratified results.  Points are of the course's grade, which    *)
(* orders as they do; an absence has none.  Results go through their       *)
(* custody in ResultCustody; here two are ratified at once, one result by  *)
(* one request.                                                            *)
(*                                                                         *)
(* Abstracted: the profile, provisional rules, changes of rules and of the *)
(* catalogue, legacy attempts, verification codes, who may view and issue. *)
(***************************************************************************)
EXTENDS ExamOffice, FiniteSetsExt

CONSTANTS
    Required,          \* active courses required of all, electives excepted
    ElectivesRequired, \* coursework.electives_required
    CreditsOf,
    CreditsRequired,   \* coursework.required_credits
    MinGPA,            \* coursework.min_gpa, in hundredths
    MinPoints,         \* the points of coursework.continuation_min_grade
    Marksheets,        \* outcomes and points that results may have
    Ungraded

ASSUME TranscriptAssumption ==
    /\ Required \subseteq Courses \ Electives
    /\ CreditsOf \in [Courses -> Nat]
    /\ {ElectivesRequired, CreditsRequired, MinGPA, MinPoints} \subseteq Nat
    /\ Marksheets \subseteq [outcome : {"PASS", "FAIL"}, points : Nat \cup {Ungraded}]
    /\ [outcome |-> "PASS", points |-> Ungraded] \notin Marksheets

VARIABLES
    points,    \* grade point of the result in force of each registration
    edition,   \* how many results of each scholar have been ratified
    completed, \* scholars with a date in coursework_completed_on
    issues,    \* TranscriptIssue rows
    revised,   \* history: keys with a result ratified when a later attempt was there or asked for
    crossed    \* history: scholars of whom two results were being ratified at once

transcriptVars == <<points, edition, completed, issues, revised, crossed>>

-----------------------------------------------------------------------------
(* The record, derived: attempts and their points as some transaction sees them *)

Decided(a, key) == {i \in DOMAIN a[key] : a[key][i].outcome # "PENDING"}

OnRecord(s, a) == {c \in Courses : Decided(a, <<s, c>>) # {}}

FirstInForce(a, key) == Min(Decided(a, key))

\* Of several attempts the later result counts, whatever the earlier ones were.
InForce(a, key) == Max(Decided(a, key))

PassedCourses(s, a) == {c \in OnRecord(s, a) : a[<<s, c>>][InForce(a, <<s, c>>)].outcome = "PASS"}

PointsIn(s, c, a, p) == p[<<<<s, c>>, InForce(a, <<s, c>>)>>]

GradedCourses(s, a, p) == {c \in OnRecord(s, a) : PointsIn(s, c, a, p) # Ungraded}

Credits(courses) == SumFunction([c \in courses |-> CreditsOf[c]])

\* Rounded half up to hundredths.
GPA(s, a, p) ==
    LET graded == GradedCourses(s, a, p)
        sum == SumFunction([c \in graded |-> PointsIn(s, c, a, p) * CreditsOf[c]])
    IN  (200 * sum + Credits(graded)) \div (2 * Credits(graded))

Complete(s, a, p) ==
    LET passed == PassedCourses(s, a)
    IN  /\ Required \subseteq passed
        /\ Cardinality(passed \cap Electives) >= ElectivesRequired
        /\ Credits(passed) >= CreditsRequired
        /\ Credits(GradedCourses(s, a, p)) > 0
        /\ GPA(s, a, p) >= MinGPA
        /\ \A c \in passed : PointsIn(s, c, a, p) >= MinPoints

-----------------------------------------------------------------------------
(* Ratifying, and the completion date *)

Stamped(a, x, outcome) == [a EXCEPT ![x[1]][x[2]].outcome = outcome]

\* The transaction ends with the record as it sees it: its own result, and what others have committed.
OpenRatification(d, x, sheet) ==
    /\ \A e \in Desks : desk[e].op = "ratify" => desk[e].registration # x
    /\ OpenRequest(d, [op |-> "ratify", registration |-> x, sheet |-> sheet,
                       complete |-> Complete(x[1][1], Stamped(attempts, x, sheet.outcome),
                                             [points EXCEPT ![x] = sheet.points])])
    /\ crossed' = crossed \cup {s \in {x[1][1]} : \E e \in Desks : desk[e].op = "ratify" /\ desk[e].registration[1][1] = s}
    /\ UNCHANGED <<points, edition, completed, issues, revised, examVars, attendanceVars, teachingVars,
                   enrollmentVars, electiveVars>>

LaterAttempt(key, i) ==
    \/ i < Len(attempts[key])
    \/ \E e \in Desks : desk[e].op = "examine" /\ KeyOf(desk[e].row) = key /\ desk[e].no > i

\* refresh_coursework_completion never takes a date back.
Refreshed(s, complete) == IF complete THEN completed \cup {s} ELSE completed

WriteRatification(d) ==
    /\ desk[d].op = "ratify"
    /\ LET r == desk[d]
           key == r.registration[1]
           i == r.registration[2]
       IN  /\ RatifyOutcome(key, i, r.sheet.outcome)
           /\ points' = [points EXCEPT ![r.registration] = r.sheet.points]
           /\ edition' = [edition EXCEPT ![key[1]] = @ + 1]
           /\ completed' = Refreshed(key[1], r.complete)
           /\ revised' = IF LaterAttempt(key, i) THEN revised \cup {key} ELSE revised
    /\ CloseRequest(d)
    /\ UNCHANGED <<issues, crossed>>

-----------------------------------------------------------------------------
(* Issuing *)

IssuesOf(s) == {issue \in issues : issue.scholar = s}

\* The content is read, then the version inside the transaction; known is a history.
OpenIssue(d, s) ==
    /\ OnRecord(s, attempts) # {}
    /\ OpenRequest(d, [op |-> "issue", scholar |-> s, content |-> edition[s], version |-> 0,
                       known |-> Cardinality(IssuesOf(s))])
    /\ UNCHANGED <<transcriptVars, examVars, attendanceVars, teachingVars, enrollmentVars, electiveVars>>

\* The lock is on rows an aggregate does not lock.
NextVersion(s) == Max({issue.version : issue \in IssuesOf(s)} \cup {0}) + 1

NumberIssue(d) ==
    /\ desk[d].op = "issue"
    /\ desk[d].version = 0
    /\ desk' = [desk EXCEPT ![d].version = NextVersion(desk[d].scholar)]
    /\ UNCHANGED <<transcriptVars, examVars, attendanceVars, teachingVars, enrollmentVars, electiveVars>>

\* One issue of a scholar with a version is a constraint of the table.
Numberable(s, version) == \A issue \in IssuesOf(s) : issue.version # version

WriteIssue(d) ==
    /\ desk[d].op = "issue"
    /\ desk[d].version # 0
    /\ LET r == desk[d]
       IN  issues' = IF Numberable(r.scholar, r.version)
                     THEN issues \cup {[scholar |-> r.scholar, version |-> r.version, content |-> r.content,
                                        overtaken |-> r.known # Cardinality(IssuesOf(r.scholar))]}
                     ELSE issues
    /\ CloseRequest(d)
    /\ UNCHANGED <<points, edition, completed, revised, crossed, examVars, attendanceVars, teachingVars,
                   enrollmentVars, electiveVars>>

-----------------------------------------------------------------------------

TranscriptInit ==
    /\ points = [x \in Keys \X (1 .. MaxRegular) |-> Ungraded]
    /\ edition = [s \in Candidates |-> 0]
    /\ completed = {}
    /\ issues = {}
    /\ revised = {}
    /\ crossed = {}

TranscriptNext ==
    \E d \in Desks :
       \/ \E x \in Registrations, sheet \in Marksheets : OpenRatification(d, x, sheet)
       \/ WriteRatification(d)
       \/ \E s \in Candidates : OpenIssue(d, s)
       \/ NumberIssue(d)
       \/ WriteIssue(d)

-----------------------------------------------------------------------------
(* The whole semester, all requests in flight together: attempts and results of CourseNext are those of    *)
(* activities, which have no examination; of examined courses, results come by requests that ratify them. *)

academicVars == <<electiveVars, desk, enrollmentVars, teachingVars, attendanceVars, examVars, transcriptVars>>

AcademicInit ==
    /\ ElectiveInit /\ EnrollmentInit /\ TeachingInit
    /\ AttendanceInit /\ ExamInit /\ TranscriptInit

AcademicNext ==
    \/ CourseNext /\ UNCHANGED <<teachingVars, attendanceVars, examVars, transcriptVars>>
    \/ TeachingNext /\ UNCHANGED <<attendanceVars, examVars, transcriptVars>>
    \/ AttendanceNext /\ UNCHANGED <<examVars, transcriptVars>>
    \/ OfficeNext /\ UNCHANGED transcriptVars
    \/ TranscriptNext

AcademicSpec == AcademicInit /\ [][AcademicNext]_academicVars

-----------------------------------------------------------------------------
(* What a scholar's record tells *)

\* verify_transcript
MatchesRecords(issue) == issue.content = edition[issue.scholar]

SupersededBy(issue) == {later \in IssuesOf(issue.scholar) : later.version > issue.version}

\* A course counts as passed on the record exactly when one of its attempts has passed, unless an earlier
\* attempt was revised after a later one was made.
PassesCounted ==
    \A k \in Keys \ revised : k[2] \in PassedCourses(k[1], attempts) <=> With(k, "PASS") # {}

\* A scholar whose coursework is complete has the date the lifecycle asks for, unless two results of the
\* scholar were ratified at once, when neither sees the other's.
CompletionDated ==
    \A s \in Candidates \ crossed : Complete(s, attempts, points) => s \in completed

\* Transcripts of a scholar are numbered from one without a gap, two never alike; and one that still tells
\* the record is superseded only by others that tell it too, unless their requests overlapped.
TranscriptsNumbered ==
    /\ \A s \in Candidates :
          /\ {issue.version : issue \in IssuesOf(s)} = 1 .. Cardinality(IssuesOf(s))
    /\ \A issue \in issues : MatchesRecords(issue) =>
          \A later \in SupersededBy(issue) : MatchesRecords(later) \/ later.overtaken

RecordTold == PassesCounted /\ CompletionDated /\ TranscriptsNumbered

=============================================================================
