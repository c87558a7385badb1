--------------------------- MODULE CourseAttempts ---------------------------
(***************************************************************************)
(* The attempts of one scholar at one course: eligibility, registration    *)
(* for an exam (or the opening of an activity evaluation), the third-      *)
(* attempt case (submitted, Dean R&D, VC) that a further attempt needs,    *)
(* withdrawal, and the outcomes that the custody chain publishes.          *)
(*                                                                         *)
(* Sources: coursework/academic/{examination,third_attempt,enrollment}.py, *)
(* records.academic_standing, and the constraints of                       *)
(* coursework/models/{examination,catalogue}.py.                           *)
(*                                                                         *)
(* As in ResultCustody a request reads and checks in its Load action and   *)
(* writes in its Write action, with no lock in between; register_for_exam  *)
(* reads twice (ReadCase is its second read).  A transaction that a        *)
(* constraint refuses is dropped.  Publish and Revise stand for the        *)
(* custody chain (PublishedResult): the outcome in force of an attempt.    *)
(*                                                                         *)
(* Abstracted: dates are day numbers, the attempt window is a number of    *)
(* days.  The scholar's status, attendance, fee clearance and semester     *)
(* registration only decide whether an eligible scholar registers on a     *)
(* day, which is never forced here, so they are taken as satisfied.  The   *)
(* rule parameters do not change during a behaviour.                       *)
(***************************************************************************)
EXTENDS Integers, Sequences, FiniteSets

CONSTANTS
    Workers,      \* web workers
    Submitters,   \* may submit a case (the scholar, the PhD and R&D cells)
    Deans,        \* third_attempt.review_chain[0]
    VCs,          \* third_attempt.review_chain[1]
    Exams,        \* the exams of the course: [opens, closes, day]
    NoExam,       \* an activity attempt has no exam
    Nobody,       \* a NULL person
    AbsentCounts, \* exam.absent_counts_as_attempt
    WindowStart,  \* exam.attempt_window_start
    Window,       \* exam.attempt_window_years, in days
    MaxRegular,   \* exam.max_regular_attempts
    MaxTotal,     \* exam.max_attempts_with_approval
    Revaluation,  \* revaluation.enabled: a published outcome may be revised
    LastDay,      \* bound: days
    MaxCases      \* bound: ThirdAttemptCase rows

People == Submitters \cup Deans \cup VCs

ASSUME ConstantsAssumption ==
    /\ Exams \subseteq [opens : Nat, closes : Nat, day : Nat]
    /\ NoExam \notin Exams
    /\ Nobody \notin People
    /\ AbsentCounts \in {"YES", "NO", "UNRESOLVED"}
    /\ WindowStart \in {"ENROLMENT", "FIRST_ATTEMPT"}
    /\ Window \in Nat
    /\ MaxRegular \in Nat
    /\ MaxTotal \in Nat
    /\ Revaluation \in BOOLEAN
    /\ LastDay \in Nat
    /\ MaxCases \in Nat

VARIABLES
    today,
    activity,   \* the course is an activity, evaluated without an exam
    enrollment, \* ScholarCourseEnrollment.status
    attempts,   \* CourseAttempt rows with their ExamRegistration, by attempt_no
    cases,      \* ThirdAttemptCase rows
    request     \* what each worker is doing

stored == <<activity, enrollment, attempts, cases>>
vars == <<today, activity, enrollment, attempts, cases, request>>

-----------------------------------------------------------------------------
(* Rows *)

Outcomes == {"PASS", "FAIL", "ABSENT"}
Pending == "PENDING"

\* The CHECK constraints attempt_no_range and registration_attempt_range.
LastAttemptNo == 3

\* The outcome of the ratified result in force; Pending while the attempt is SCHEDULED.
Attempt == [outcome : Outcomes \cup {Pending}, exam : Exams \cup {NoExam}, day : Nat, case : Nat]

Case == [status : {"SUBMITTED", "DEAN_RECOMMENDED", "DEAN_NOT_RECOMMENDED", "VC_APPROVED",
                   "VC_REJECTED", "CONSUMED"},
         submittedBy : People, deanBy : People \cup {Nobody}, vcBy : People \cup {Nobody}]

OpenCase(c) ==
    c.status \in {"SUBMITTED", "DEAN_RECOMMENDED", "DEAN_NOT_RECOMMENDED", "VC_APPROVED"}

\* one_open_third_attempt_case and third_attempt_vc_after_dean
CasesAdmissible(rows) ==
    /\ \A i, j \in DOMAIN rows : OpenCase(rows[i]) /\ OpenCase(rows[j]) => i = j
    /\ \A i \in DOMAIN rows : rows[i].vcBy # Nobody => rows[i].deanBy # Nobody

-----------------------------------------------------------------------------
(* attempt_history and the rules read from it *)

AttemptsWith(outcome) == {i \in DOMAIN attempts : attempts[i].outcome = outcome}

NextNo == Len(attempts) + 1
HasPending == AttemptsWith(Pending) # {}
Passed == AttemptsWith("PASS") # {}

\* counted_failures: absences count by rule, and block while the rule is unresolved.
Blocked == AttemptsWith("ABSENT") # {} /\ AbsentCounts = "UNRESOLVED"

FailuresAmong(S) == Cardinality(S \cap (AttemptsWith("FAIL") \cup
                        IF AbsentCounts = "YES" THEN AttemptsWith("ABSENT") ELSE {}))

Failures == FailuresAmong(DOMAIN attempts)

Exhausted == Failures >= MaxRegular

\* attempt_window_end: registration day 0, or the date of the first attempt if there is one.
OutsideWindow(day) ==
    IF WindowStart = "ENROLMENT"
    THEN day > Window
    ELSE attempts # <<>> /\ day > attempts[1].day + Window

ApprovedCases == {c \in DOMAIN cases : cases[c].status = "VC_APPROVED"}

NeedsCaseAttemptsOnly(e) == Exhausted

NeedsCase(e) == Exhausted \/ OutsideWindow(e.day)

\* What register_for_exam takes for its use_case; 0 for None.
UseCase(e) == IF NeedsCase(e) /\ ApprovedCases # {} THEN ApprovedCases ELSE {0}

EligibleByCount(e) ==
    /\ ~activity
    /\ today \in e.opens .. e.closes
    /\ ~HasPending
    /\ ~Blocked
    /\ NextNo <= MaxTotal
    /\ NeedsCase(e) => ApprovedCases # {}

\* evaluate_eligibility
Eligible(e) ==
    /\ ~activity
    /\ enrollment = "ENROLLED"
    /\ today \in e.opens .. e.closes
    /\ ~Passed
    /\ ~HasPending
    /\ ~Blocked
    /\ NextNo <= MaxTotal
    /\ NeedsCase(e) => ApprovedCases # {}

\* What open_activity_evaluation checks; neither the window nor MaxTotal is among it.
EvaluationAllowed ==
    /\ activity
    /\ enrollment = "ENROLLED"
    /\ ~Passed
    /\ ~HasPending
    /\ ~Blocked
    /\ Exhausted => ApprovedCases # {}

CaseAllowedExhaustedOnly ==
    /\ ~Blocked
    /\ ~Passed
    /\ ~HasPending
    /\ Exhausted

\* What submit_case checks: it asks about today where NeedsCase asks about the exam's day.
CaseAllowed ==
    /\ ~Blocked
    /\ ~Passed
    /\ ~HasPending
    /\ Exhausted \/ OutsideWindow(today)

\* The course's entry in academic_standing.
Standing ==
    CASE Passed -> "PASSED"
      [] ~Passed /\ Blocked -> "DECISION_REQUIRED"
      [] ~Passed /\ ~Blocked /\ Failures >= MaxTotal -> "ATTEMPTS_EXHAUSTED"
      [] OTHER -> IF Exhausted \/ OutsideWindow(today)
                  THEN IF ApprovedCases # {} THEN "THIRD_ATTEMPT_APPROVED"
                       ELSE "THIRD_ATTEMPT_REQUIRED"
                  ELSE "IN_PROGRESS"

-----------------------------------------------------------------------------
(* Requests in flight *)

Idle == [op |-> "idle"]

Request ==
    [op : {"idle", "withdraw"}]
    \cup [op : {"register"}, exam : Exams, no : Nat, read : BOOLEAN, case : Nat]
    \cup [op : {"evaluate"}, no : Nat]
    \cup [op : {"submit"}, actor : People]
    \cup [op : {"review"}, actor : People, id : Nat,
          status : {"DEAN_RECOMMENDED", "DEAN_NOT_RECOMMENDED"}]
    \cup [op : {"decide"}, actor : People, id : Nat, status : {"VC_APPROVED", "VC_REJECTED"}]

Begin(w, r) ==
    /\ request[w] = Idle
    /\ request' = [request EXCEPT ![w] = r]
    /\ UNCHANGED <<today, stored>>

Finish(w) ==
    /\ request' = [request EXCEPT ![w] = Idle]
    /\ UNCHANGED <<today, activity>>

-----------------------------------------------------------------------------
(* First halves *)

LoadRegister(w, e) ==
    /\ Eligible(e)
    /\ Begin(w, [op |-> "register", exam |-> e, no |-> NextNo, read |-> FALSE, case |-> 0])

\* register_for_exam asks again whether a case is needed, and for the approved one.
ReadCase(w) ==
    LET q == request[w]
    IN  /\ q.op = "register"
        /\ ~q.read
        /\ \E c \in UseCase(q.exam) :
              request' = [request EXCEPT ![w].read = TRUE, ![w].case = c]
        /\ UNCHANGED <<today, stored>>

LoadEvaluate(w) ==
    /\ EvaluationAllowed
    /\ Begin(w, [op |-> "evaluate", no |-> NextNo])

LoadSubmit(w, p) ==
    /\ p \in Submitters
    /\ CaseAllowed
    /\ Begin(w, [op |-> "submit", actor |-> p])

LoadReview(w, p, c, status) ==
    /\ p \in Deans
    /\ cases[c].status = "SUBMITTED"
    /\ cases[c].submittedBy # p
    /\ Begin(w, [op |-> "review", actor |-> p, id |-> c, status |-> status])

\* The mentor rule is taken as settled.
LoadDecide(w, p, c, status) ==
    /\ p \in VCs
    /\ cases[c].status \in {"DEAN_RECOMMENDED", "DEAN_NOT_RECOMMENDED"}
    /\ p \notin {cases[c].submittedBy, cases[c].deanBy}
    /\ Begin(w, [op |-> "decide", actor |-> p, id |-> c, status |-> status])

LoadWithdraw(w) ==
    /\ attempts = <<>>
    /\ Begin(w, [op |-> "withdraw"])

-----------------------------------------------------------------------------
(* Second halves *)

CreateAttemptUnnumbered(no, e, day, case) ==
    /\ no <= LastAttemptNo
    /\ Len(attempts) < LastAttemptNo
    /\ attempts' = Append(attempts, [outcome |-> Pending, exam |-> e, day |-> day, case |-> case])

\* uniq_attempt and attempt_no_range: rows are never deleted, so only the next number is free.
CreateAttempt(no, e, day, case) ==
    /\ no = NextNo
    /\ no <= LastAttemptNo
    /\ attempts' = Append(attempts, [outcome |-> Pending, exam |-> e, day |-> day, case |-> case])

RegistrationAdmissibleWithoutCase(no, e, case) ==
    /\ \A i \in DOMAIN attempts : attempts[i].exam # e
    /\ \A i \in DOMAIN attempts : case # 0 => attempts[i].case # case

\* uniq_active_exam_registration, third_attempt_needs_case, and a case serves one registration.
RegistrationAdmissible(no, e, case) ==
    /\ \A i \in DOMAIN attempts : attempts[i].exam # e
    /\ no < LastAttemptNo \/ case # 0
    /\ \A i \in DOMAIN attempts : case # 0 => attempts[i].case # case

WriteRegister(w) ==
    LET q == request[w]
    IN  /\ q.op = "register"
        /\ q.read
        /\ RegistrationAdmissible(q.no, q.exam, q.case)
        /\ CreateAttempt(q.no, q.exam, q.exam.day, q.case)
        /\ cases' = IF q.case = 0 THEN cases ELSE [cases EXCEPT ![q.case].status = "CONSUMED"]
        /\ Finish(w)
        /\ UNCHANGED enrollment

\* The approved case is neither linked nor consumed.
WriteEvaluate(w) ==
    LET q == request[w]
    IN  /\ q.op = "evaluate"
        /\ CreateAttempt(q.no, NoExam, today, 0)
        /\ Finish(w)
        /\ UNCHANGED <<enrollment, cases>>

WriteCases(rows) ==
    /\ CasesAdmissible(rows)
    /\ cases' = rows

WriteSubmit(w) ==
    LET q == request[w]
    IN  /\ q.op = "submit"
        /\ Len(cases) < MaxCases
        /\ WriteCases(Append(cases, [status |-> "SUBMITTED", submittedBy |-> q.actor,
                                     deanBy |-> Nobody, vcBy |-> Nobody]))
        /\ Finish(w)
        /\ UNCHANGED <<enrollment, attempts>>

WriteReview(w) ==
    LET q == request[w]
    IN  /\ q.op = "review"
        /\ WriteCases([cases EXCEPT ![q.id].status = q.status, ![q.id].deanBy = q.actor])
        /\ Finish(w)
        /\ UNCHANGED <<enrollment, attempts>>

WriteDecide(w) ==
    LET q == request[w]
    IN  /\ q.op = "decide"
        /\ WriteCases([cases EXCEPT ![q.id].status = q.status, ![q.id].vcBy = q.actor])
        /\ Finish(w)
        /\ UNCHANGED <<enrollment, attempts>>

WriteWithdraw(w) ==
    /\ request[w].op = "withdraw"
    /\ enrollment' = "WITHDRAWN"
    /\ Finish(w)
    /\ UNCHANGED <<attempts, cases>>

Drop(w) ==
    /\ request[w] # Idle
    /\ Finish(w)
    /\ UNCHANGED <<enrollment, attempts, cases>>

-----------------------------------------------------------------------------
(* The custody chain and the calendar *)

\* A ratification: _sync_attempt writes the enrollment's status too.
SetOutcome(i, o) ==
    /\ attempts' = [attempts EXCEPT ![i].outcome = o]
    /\ enrollment' = IF o = "PASS" THEN "COMPLETED" ELSE "ENROLLED"
    /\ UNCHANGED <<today, activity, cases, request>>

Publish(i, o) ==
    /\ attempts[i].outcome = Pending
    /\ SetOutcome(i, o)

Revise(i, o) ==
    /\ Revaluation
    /\ attempts[i].outcome \notin {Pending, o}
    /\ SetOutcome(i, o)

Tick ==
    /\ today < LastDay
    /\ today' = today + 1
    /\ UNCHANGED <<stored, request>>

-----------------------------------------------------------------------------

Init ==
    /\ today = 0
    /\ activity \in BOOLEAN
    /\ enrollment = "ENROLLED"
    /\ attempts = <<>>
    /\ cases = <<>>
    /\ request = [w \in Workers |-> Idle]

Load(w) ==
    \/ \E e \in Exams : LoadRegister(w, e)
    \/ LoadEvaluate(w)
    \/ LoadWithdraw(w)
    \/ \E p \in People :
          \/ LoadSubmit(w, p)
          \/ \E c \in DOMAIN cases :
                \/ \E s \in {"DEAN_RECOMMENDED", "DEAN_NOT_RECOMMENDED"} : LoadReview(w, p, c, s)
                \/ \E s \in {"VC_APPROVED", "VC_REJECTED"} : LoadDecide(w, p, c, s)

Write(w) ==
    \/ WriteRegister(w)
    \/ WriteEvaluate(w)
    \/ WriteSubmit(w)
    \/ WriteReview(w)
    \/ WriteDecide(w)
    \/ WriteWithdraw(w)

Next ==
    \/ \E w \in Workers : Load(w) \/ ReadCase(w) \/ Write(w) \/ Drop(w)
    \/ \E i \in DOMAIN attempts, o \in Outcomes : Publish(i, o) \/ Revise(i, o)
    \/ Tick

Spec == Init /\ [][Next]_vars

-----------------------------------------------------------------------------
(* What the examination service promises *)

TypeOK ==
    /\ today \in Nat
    /\ activity \in BOOLEAN
    /\ enrollment \in {"ENROLLED", "WITHDRAWN", "COMPLETED"}
    /\ attempts \in Seq(Attempt)
    /\ cases \in Seq(Case)
    /\ request \in [Workers -> Request]

\* A registered attempt that used a case used one the Dean had reviewed and the VC had decided,
\* and no case serves two attempts; a third examination attempt always used one.  Holds however
\* registrations, reviews and decisions interleave.
RestsOnDecidedCase ==
    \A i \in DOMAIN attempts :
        LET c == attempts[i].case
        IN  /\ c # 0 => /\ cases[c].deanBy # Nobody
                        /\ cases[c].vcBy # Nobody
                        /\ \A j \in DOMAIN attempts : attempts[j].case = c => i = j
            /\ ~activity /\ i = LastAttemptNo => c # 0

\* An attempt after a pass is never opened: a pass is the last attempt there is, as long as
\* published outcomes are not revised.
StopsAtPass ==
    \A i \in DOMAIN attempts : attempts[i].outcome = "PASS" => i = Len(attempts)

\* Whoever had used up the regular attempts, or sat the exam after the attempt window, did so on
\* a case of their own that the registration consumed (an approved one, for an activity).
CoveredByCase ==
    \A i \in DOMAIN attempts :
        IF activity
        THEN FailuresAmong(1 .. i - 1) >= MaxRegular => ApprovedCases # {}
        ELSE FailuresAmong(1 .. i - 1) >= MaxRegular \/ OutsideWindow(attempts[i].day) =>
                /\ attempts[i].case # 0
                /\ cases[attempts[i].case].status = "CONSUMED"

\* "Eligibility passed, so if this attempt needs a case, an approved one exists"
\* (register_for_exam): whom evaluate_eligibility calls eligible for an exam not yet registered
\* for, the database lets register.
EligibleCanRegister ==
    \A e \in Exams :
        Eligible(e) /\ (\A i \in DOMAIN attempts : attempts[i].exam # e) =>
            /\ NextNo <= LastAttemptNo
            /\ \A c \in UseCase(e) : RegistrationAdmissible(NextNo, e, c)

\* The enrollment is COMPLETED exactly when an attempt passed and withdrawn only when there was none;
\* and the standing shown to the scholar agrees with what the services do: told that a case is required,
\* with no attempt or case open, a case can be submitted; told that attempts are exhausted, none is
\* left, and not before.
StandingTruthful ==
    /\ enrollment = "COMPLETED" <=> Passed
    /\ enrollment = "WITHDRAWN" => attempts = <<>>
    /\ Standing = "THIRD_ATTEMPT_REQUIRED" /\ ~HasPending => CaseAllowed
    /\ Standing = "ATTEMPTS_EXHAUSTED" <=> Len(attempts) = MaxTotal /\ ~HasPending /\ ~Passed

\* The outcomes of the attempts, as AttemptLadder states them.
Ladder == INSTANCE AttemptLadder
    WITH Last <- LastAttemptNo, ladder <- [i \in DOMAIN attempts |-> attempts[i].outcome]

\* The services implement AttemptLadder, however requests interleave: attempts are opened one at
\* a time, up to the last, and none is lost.
LadderSpec == Ladder!Spec

=============================================================================
