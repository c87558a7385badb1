--------------------------- MODULE ResultCustody ---------------------------
(***************************************************************************)
(* The custody chain of one examination attempt:                           *)
(*                                                                         *)
(*   raw marks  ->  CourseResult PREPARED -> VERIFIED -> RATIFIED          *)
(*                             \-> RETURNED (prepared again)               *)
(*   ratified result -> RevaluationCase -> a second result that supersedes *)
(*                                                                         *)
(* Sources: coursework/academic/{marks,results,revaluation}.py and the     *)
(* database constraints of coursework/models/{assessment,exam_admin}.py.   *)
(*                                                                         *)
(* Every operation of the code runs in two halves.  The service function   *)
(* first reads rows and checks its guards on the Python objects it got     *)
(* (the Load... actions); later a transaction writes (the Write...         *)
(* actions).  No row is locked in between, the guards are not checked      *)
(* again, and the deployment runs several web workers on PostgreSQL in     *)
(* READ COMMITTED: other requests commit between the halves.  A write to   *)
(* an existing CourseResult goes through CourseResult.save(), which        *)
(* re-reads the row and refuses to touch a RATIFIED one (SaveGuard) before *)
(* the UPDATE is issued.  A write the database constraints refuse has no   *)
(* enabled Write action: the request can only be dropped, as one whose     *)
(* worker dies.  With one worker requests run one after the other.         *)
(*                                                                         *)
(* Abstracted: weights, rounding, grades, mandatory modules and activity   *)
(* artefacts are in the parameter Total and decide only which marks pass;  *)
(* prepared_at / verified_at / ratified_at are set and cleared together    *)
(* with the *_by fields and are not kept;                                  *)
(* ResultEvent, MarkEntryHistory and the audit trail are append-only logs  *)
(* that no guard reads.                                                    *)
(***************************************************************************)
EXTENDS Integers, Sequences

CONSTANTS
    Workers,        \* web workers: requests that can be in flight at once
    Coordinators,   \* may enter marks and prepare (academic.result.prepare.*)
    Verifiers,      \* R&D Cell operators (academic.result.verify)
    Ratifiers,      \* COE operators (academic.result.ratify)
    Requesters,     \* may ask for a revaluation (the scholar, the PhD cell)
    Reviewers,      \* holders of a capability named by revaluation.reviewer
    Assessments,    \* the offering's assessment scheme
    Scores,         \* marks a component can carry
    Total(_),       \* the scheme: what a full set of scores adds up to
    PassTotal,      \* the least total that passes
    AbsenceDecided, \* result.absence_policy is configured
    Absent,         \* a component marked absent, and the total of such a result
    NoMark,         \* no MarkEntry row
    Nobody,         \* a NULL person
    MaxResults,     \* bound: CourseResult rows
    MaxCases        \* bound: RevaluationCase rows

People == Coordinators \cup Verifiers \cup Ratifiers \cup Requesters \cup Reviewers
Entries == Scores \cup {Absent}
Totals == Nat \cup {Absent}

ASSUME ConstantsAssumption ==
    /\ Scores \subseteq Nat
    /\ Absent \notin Nat
    /\ NoMark \notin Totals
    /\ Nobody \notin People
    /\ \A m \in [Assessments -> Scores] : Total(m) \in Nat
    /\ PassTotal \in Nat
    /\ AbsenceDecided \in BOOLEAN
    /\ MaxResults \in Nat
    /\ MaxCases \in Nat

VARIABLES
    marks,      \* MarkEntry rows of the attempt
    results,    \* CourseResult rows of the attempt, in creation order
    cases,      \* RevaluationCase rows, in creation order
    attempt,    \* CourseAttempt.status and the total mirrored into it
    enrollment, \* ScholarCourseEnrollment.status
    completed,  \* Scholar.coursework_completed_on is set
    request,    \* what each worker is doing
    overlapped  \* history: two requests were in flight at once

stored == <<marks, results, cases, attempt, enrollment, completed>>
vars == <<marks, results, cases, attempt, enrollment, completed, request, overlapped>>

-----------------------------------------------------------------------------
(* Rows *)

Row == [current : BOOLEAN, supersedes : Nat, total : Totals,
        status : {"PREPARED", "VERIFIED", "RATIFIED", "RETURNED"},
        preparedBy : People, verifiedBy : People \cup {Nobody},
        ratifiedBy : People \cup {Nobody}]

PreparedRow(total, actor, current, supersedes) ==
    [current |-> current, supersedes |-> supersedes, total |-> total, status |-> "PREPARED",
     preparedBy |-> actor, verifiedBy |-> Nobody, ratifiedBy |-> Nobody]

Overrides == UNION {[S -> Scores] : S \in SUBSET Assessments}

Case == [original : Nat, revised : Nat, requestedBy : People, reviewer : People \cup {Nobody},
         override : Overrides,
         status : {"REQUESTED", "REVIEWED_UNCHANGED", "REVISED_PENDING", "COMPLETED", "REJECTED"}]

OpenCase(c) == c.status \in {"REQUESTED", "REVISED_PENDING"}

(* The check and unique constraints of the two tables. *)
StatusConsistent(r) ==
    /\ r.status = "RATIFIED" => r.verifiedBy # Nobody /\ r.ratifiedBy # Nobody
    /\ r.status = "VERIFIED" => r.verifiedBy # Nobody /\ r.ratifiedBy = Nobody
    /\ r.status \in {"PREPARED", "RETURNED"} => r.ratifiedBy = Nobody

OneCurrent(rows) ==
    \A i, j \in DOMAIN rows : rows[i].current /\ rows[j].current => i = j

ResultsAdmissible(rows) ==
    /\ \A i \in DOMAIN rows : StatusConsistent(rows[i])
    /\ OneCurrent(rows)

CasesAdmissible(rows) ==
    \A i, j \in DOMAIN rows :
        OpenCase(rows[i]) /\ OpenCase(rows[j]) /\ rows[i].original = rows[j].original => i = j

-----------------------------------------------------------------------------
(* Reading *)

\* The row in force; 0 when there is none.
CurrentId ==
    IF \E i \in DOMAIN results : results[i].current
    THEN CHOOSE i \in DOMAIN results : results[i].current
    ELSE 0

MarksLockedOnceRatified == CurrentId # 0 /\ results[CurrentId].status = "RATIFIED"

MarksLocked == CurrentId # 0 /\ results[CurrentId].status # "RETURNED"

\* Marks with a reviewer's revised marks laid over them.
Overlay(m, override) ==
    [a \in Assessments |-> IF a \in DOMAIN override THEN override[a] ELSE m[a]]

\* compute(): no missing mark is defaulted, and an absence blocks while its treatment is undecided.
Computable(m) ==
    /\ \A a \in Assessments : m[a] # NoMark
    /\ AbsenceDecided \/ \A a \in Assessments : m[a] # Absent

Compute(m) ==
    IF \E a \in Assessments : m[a] = Absent THEN Absent ELSE Total(m)

Outcome(total) ==
    IF total = Absent THEN "ABSENT" ELSE IF total >= PassTotal THEN "PASS" ELSE "FAIL"

-----------------------------------------------------------------------------
(* Requests in flight.  "op" says which service function the worker is in; *)
(* "checked" that CourseResult.save() has passed its guard.                *)

Idle == [op |-> "idle"]

Request ==
    [op : {"idle"}]
    \cup [op : {"enter"}, assessment : Assessments, entry : Entries, exists : BOOLEAN]
    \cup [op : {"create"}, actor : People, total : Totals]
    \cup [op : {"prepare", "verify", "ratify", "return"}, actor : People, id : Nat,
          row : Row, total : Totals, checked : BOOLEAN]
    \cup [op : {"revalue"}, actor : People, id : Nat]
    \cup [op : {"review"}, actor : People, id : Nat, override : Overrides, total : Totals,
          unchanged : BOOLEAN]

Saving(w) == request[w].op \in {"prepare", "verify", "ratify", "return"}

Begin(w, r) ==
    /\ request[w] = Idle
    /\ request' = [request EXCEPT ![w] = r]
    /\ overlapped' = (overlapped \/ \E v \in Workers \ {w} : request[v] # Idle)
    /\ UNCHANGED stored

Finish(w) ==
    /\ request' = [request EXCEPT ![w] = Idle]
    /\ UNCHANGED overlapped

Save(w, op, actor, id, total) ==
    Begin(w, [op |-> op, actor |-> actor, id |-> id, row |-> results[id], total |-> total,
              checked |-> FALSE])

-----------------------------------------------------------------------------
(* First halves: read, check, compute. *)

\* enter_mark up to its transaction.
LoadEnter(w, a, e) ==
    /\ attempt.status = "SCHEDULED"
    /\ ~MarksLocked
    /\ Begin(w, [op |-> "enter", assessment |-> a, entry |-> e, exists |-> marks[a] # NoMark])

\* prepare_result up to its transaction: the total is computed here.
LoadPrepare(w, p) ==
    /\ p \in Coordinators
    /\ attempt.status = "SCHEDULED"
    /\ CurrentId # 0 => results[CurrentId].status \notin {"VERIFIED", "RATIFIED"}
    /\ Computable(marks)
    /\ IF CurrentId = 0
       THEN Begin(w, [op |-> "create", actor |-> p, total |-> Compute(marks)])
       ELSE Save(w, "prepare", p, CurrentId, Compute(marks))

LoadVerifyByAnyone(w, p, i) ==
    /\ p \in Verifiers
    /\ results[i].status = "PREPARED"
    /\ Save(w, "verify", p, i, results[i].total)

LoadVerify(w, p, i) ==
    /\ p \in Verifiers
    /\ results[i].status = "PREPARED"
    /\ results[i].preparedBy # p
    /\ Save(w, "verify", p, i, results[i].total)

LoadRatify(w, p, i) ==
    /\ p \in Ratifiers
    /\ results[i].status = "VERIFIED"
    /\ p \notin {results[i].preparedBy, results[i].verifiedBy}
    /\ Save(w, "ratify", p, i, results[i].total)

LoadReturn(w, p, i) ==
    /\ p \in Verifiers \cup Ratifiers
    /\ results[i].status \in {"PREPARED", "VERIFIED"}
    /\ Save(w, "return", p, i, results[i].total)

\* request_revaluation; the window and the revaluation.* parameters are taken as satisfied.
LoadRevalue(w, p, i) ==
    /\ p \in Requesters
    /\ results[i].status = "RATIFIED"
    /\ results[i].current
    /\ Begin(w, [op |-> "revalue", actor |-> p, id |-> i])

\* review_revaluation: computed from the raw marks and this case's revised marks.
LoadReview(w, p, c, override) ==
    LET original == results[cases[c].original]
        revised  == Overlay(marks, override)
    IN  /\ p \in Reviewers
        /\ cases[c].status = "REQUESTED"
        /\ p \notin {cases[c].requestedBy, original.preparedBy, original.verifiedBy,
                     original.ratifiedBy}
        /\ Computable(revised)
        /\ Begin(w, [op |-> "review", actor |-> p, id |-> c, override |-> override,
                     total |-> Compute(revised), unchanged |-> Compute(revised) = original.total])

-----------------------------------------------------------------------------
(* CourseResult.save(): the row is read again before the UPDATE. *)

SaveGuard(w) ==
    /\ Saving(w)
    /\ ~request[w].checked
    /\ results[request[w].id].status # "RATIFIED"
    /\ request' = [request EXCEPT ![w].checked = TRUE]
    /\ UNCHANGED <<stored, overlapped>>

-----------------------------------------------------------------------------
(* Second halves: the transactions. *)

\* A new mark must still be missing; an existing one is overwritten.
WriteEnter(w) ==
    LET q == request[w]
    IN  /\ q.op = "enter"
        /\ ~q.exists => marks[q.assessment] = NoMark
        /\ marks' = [marks EXCEPT ![q.assessment] = q.entry]
        /\ Finish(w)
        /\ UNCHANGED <<results, cases, attempt, enrollment, completed>>

WriteResultsUnconstrained(rows) == results' = rows

WriteResults(rows) ==
    /\ ResultsAdmissible(rows)
    /\ results' = rows

WriteCreate(w) ==
    LET q == request[w]
    IN  /\ q.op = "create"
        /\ Len(results) < MaxResults
        /\ WriteResults(Append(results, PreparedRow(q.total, q.actor, TRUE, 0)))
        /\ Finish(w)
        /\ UNCHANGED <<marks, cases, attempt, enrollment, completed>>

\* existing.save(): every column, from the object read in the first half.
WritePrepare(w) ==
    LET q == request[w]
    IN  /\ q.op = "prepare"
        /\ q.checked
        /\ WriteResults([results EXCEPT ![q.id] =
               PreparedRow(q.total, q.actor, q.row.current, q.row.supersedes)])
        /\ Finish(w)
        /\ UNCHANGED <<marks, cases, attempt, enrollment, completed>>

WriteVerifyTakesForce(w) ==
    LET q == request[w]
    IN  /\ q.op = "verify"
        /\ q.checked
        /\ WriteResults([i \in DOMAIN results |->
               IF i = q.id
               THEN [results[i] EXCEPT !.status = "VERIFIED", !.verifiedBy = q.actor,
                                       !.current = TRUE]
               ELSE [results[i] EXCEPT !.current = FALSE]])
        /\ Finish(w)
        /\ UNCHANGED <<marks, cases, attempt, enrollment, completed>>

\* save(update_fields=[...]): the other columns keep what the row holds now.
WriteVerify(w) ==
    LET q == request[w]
    IN  /\ q.op = "verify"
        /\ q.checked
        /\ WriteResults([results EXCEPT ![q.id].status = "VERIFIED",
                                        ![q.id].verifiedBy = q.actor])
        /\ Finish(w)
        /\ UNCHANGED <<marks, cases, attempt, enrollment, completed>>

CloseCasesForgotten(i, status) == cases

\* RevaluationCase.objects.filter(revised_result=result).update(status=...)
CloseCases(i, status) ==
    [c \in DOMAIN cases |->
        IF cases[c].revised = i THEN [cases[c] EXCEPT !.status = status] ELSE cases[c]]

RatifiedRowsWithoutForce(q) ==
    [i \in DOMAIN results |->
        IF i = q.id
        THEN [results[i] EXCEPT !.status = "RATIFIED", !.ratifiedBy = q.actor]
        ELSE IF i = q.row.supersedes THEN [results[i] EXCEPT !.current = FALSE] ELSE results[i]]

\* The original leaves force in the transaction that puts the revision in force.
RatifiedRows(q) ==
    [i \in DOMAIN results |->
        IF i = q.id
        THEN [results[i] EXCEPT !.status = "RATIFIED", !.ratifiedBy = q.actor,
                                !.current = q.row.current \/ q.row.supersedes # 0]
        ELSE IF i = q.row.supersedes THEN [results[i] EXCEPT !.current = FALSE] ELSE results[i]]

\* refresh_coursework_completion: with this course passed the coursework may be complete,
\* depending on the scholar's other courses; the date is set once and never cleared.
RefreshCompletion(rows) ==
    completed' \in {completed} \cup
        IF \E i \in DOMAIN rows :
               rows[i].current /\ rows[i].status = "RATIFIED" /\ Outcome(rows[i].total) = "PASS"
        THEN {TRUE} ELSE {}

\* _sync_attempt: the legacy fields of the attempt, and the enrollment's status.
SyncAttempt(total) ==
    /\ attempt' = [status |-> "RESULT_RATIFIED", total |-> total]
    /\ enrollment' = IF Outcome(total) = "PASS" THEN "COMPLETED" ELSE "ENROLLED"

\* What is mirrored is the object read in the first half.
WriteRatify(w) ==
    LET q == request[w]
    IN  /\ q.op = "ratify"
        /\ q.checked
        /\ WriteResults(RatifiedRows(q))
        /\ SyncAttempt(q.row.total)
        /\ cases' = IF q.row.supersedes # 0 THEN CloseCases(q.id, "COMPLETED") ELSE cases
        /\ RefreshCompletion(RatifiedRows(q))
        /\ Finish(w)
        /\ UNCHANGED marks

WriteReturn(w) ==
    LET q == request[w]
    IN  /\ q.op = "return"
        /\ q.checked
        /\ WriteResults([results EXCEPT ![q.id].status = "RETURNED"])
        /\ cases' = IF q.row.supersedes # 0 THEN CloseCases(q.id, "REJECTED") ELSE cases
        /\ Finish(w)
        /\ UNCHANGED <<marks, attempt, enrollment, completed>>

WriteCases(rows) ==
    /\ CasesAdmissible(rows)
    /\ cases' = rows

WriteRevalue(w) ==
    LET q == request[w]
    IN  /\ q.op = "revalue"
        /\ Len(cases) < MaxCases
        /\ WriteCases(Append(cases,
               [original |-> q.id, revised |-> 0, requestedBy |-> q.actor, reviewer |-> Nobody,
                override |-> <<>>, status |-> "REQUESTED"]))
        /\ Finish(w)
        /\ UNCHANGED <<marks, results, attempt, enrollment, completed>>

\* RevaluationMark rows are unique per case and assessment; case.save() writes every column.
WriteReview(w) ==
    LET q == request[w]
        c == cases[q.id]
    IN  /\ q.op = "review"
        /\ DOMAIN q.override \cap DOMAIN c.override = {}
        /\ IF q.unchanged
           THEN UNCHANGED results
           ELSE /\ Len(results) < MaxResults
                /\ WriteResults(Append(results, PreparedRow(q.total, q.actor, FALSE, c.original)))
        /\ WriteCases([cases EXCEPT ![q.id] =
               [c EXCEPT !.reviewer = q.actor,
                         !.revised = IF q.unchanged THEN 0 ELSE Len(results) + 1,
                         !.override = [a \in DOMAIN q.override \cup DOMAIN @ |->
                                          IF a \in DOMAIN @ THEN @[a] ELSE q.override[a]],
                         !.status = IF q.unchanged THEN "REVIEWED_UNCHANGED"
                                    ELSE "REVISED_PENDING"]])
        /\ Finish(w)
        /\ UNCHANGED <<marks, attempt, enrollment, completed>>

\* The worker dies, or the database refuses the transaction: nothing of it remains.
Drop(w) ==
    /\ request[w] # Idle
    /\ Finish(w)
    /\ UNCHANGED stored

-----------------------------------------------------------------------------

Init ==
    /\ marks = [a \in Assessments |-> NoMark]
    /\ results = <<>>
    /\ cases = <<>>
    /\ attempt = [status |-> "SCHEDULED", total |-> NoMark]
    /\ enrollment = "ENROLLED"
    /\ completed = FALSE
    /\ request = [w \in Workers |-> Idle]
    /\ overlapped = FALSE

Load(w) ==
    \/ \E a \in Assessments, e \in Entries : LoadEnter(w, a, e)
    \/ \E p \in People :
          \/ LoadPrepare(w, p)
          \/ \E i \in DOMAIN results :
                \/ LoadVerify(w, p, i)
                \/ LoadRatify(w, p, i)
                \/ LoadReturn(w, p, i)
                \/ LoadRevalue(w, p, i)
          \/ \E c \in DOMAIN cases, o \in Overrides : LoadReview(w, p, c, o)

Write(w) ==
    \/ WriteEnter(w)
    \/ WriteCreate(w)
    \/ WritePrepare(w)
    \/ WriteVerify(w)
    \/ WriteRatify(w)
    \/ WriteReturn(w)
    \/ WriteRevalue(w)
    \/ WriteReview(w)

Next == \E w \in Workers : Load(w) \/ SaveGuard(w) \/ Write(w) \/ Drop(w)

Spec == Init /\ [][Next]_vars
-----------------------------------------------------------------------------
(* What the custody chain promises *)

TypeOK ==
    /\ marks \in [Assessments -> Entries \cup {NoMark}]
    /\ results \in Seq(Row)
    /\ cases \in Seq(Case)
    /\ attempt \in [status : {"SCHEDULED", "RESULT_RATIFIED"}, total : Totals \cup {NoMark}]
    /\ enrollment \in {"ENROLLED", "COMPLETED"}
    /\ completed \in BOOLEAN
    /\ request \in [Workers -> Request]
    /\ overlapped \in BOOLEAN

\* A revision is in force only once ratified, and an original has left force only to a ratified
\* revision of it: a revaluation that is pending, returned or refused leaves the original alone.
SupersessionSound ==
    \A i \in DOMAIN results :
        IF results[i].supersedes # 0
        THEN results[i].current => results[i].status = "RATIFIED"
        ELSE ~results[i].current =>
                \E j \in DOMAIN results :
                    results[j].supersedes = i /\ results[j].status = "RATIFIED"

\* "A ratified result is final; use a revaluation case" (return_result): a verification or a
\* return that raced a ratification never takes the row back to VERIFIED or RETURNED.
NotDemoted ==
    [][\A i \in DOMAIN results :
          results[i].status = "RATIFIED" => results'[i].status \notin {"VERIFIED", "RETURNED"}]_vars

\* Three different people prepared, verified and ratified a ratified result, and whoever
\* revised one was outside the original's chain and did not ask for the revision.
SeparationOfDuties ==
    \A i \in DOMAIN results :
        LET r == results[i]
        IN  r.status = "RATIFIED" =>
                /\ r.preparedBy # r.verifiedBy
                /\ r.ratifiedBy \notin {r.preparedBy, r.verifiedBy}
                /\ r.supersedes # 0 =>
                    /\ r.preparedBy \notin {results[r.supersedes].preparedBy,
                                            results[r.supersedes].verifiedBy,
                                            results[r.supersedes].ratifiedBy}
                    /\ \E c \in DOMAIN cases :
                          cases[c].revised = i /\ r.preparedBy # cases[c].requestedBy

\* While a result stands (prepared, verified or ratified) it is what its marks compute to:
\* the marks were locked when it was prepared.  A revision is computed from the same raw
\* marks with the revised marks of its own case.
ResultMatchesMarks ==
    \A i \in DOMAIN results :
        LET r == results[i]
        IN  r.status # "RETURNED" =>
                IF r.supersedes = 0
                THEN r.total = Compute(marks)
                ELSE \E c \in DOMAIN cases :
                        /\ cases[c].revised = i
                        /\ r.total = Compute(Overlay(marks, cases[c].override))

\* The attempt's mirrored total and status and the enrollment follow the result in force.
MirrorFollowsResult ==
    IF CurrentId # 0 /\ results[CurrentId].status = "RATIFIED"
    THEN /\ attempt = [status |-> "RESULT_RATIFIED", total |-> results[CurrentId].total]
         /\ enrollment = "COMPLETED" <=> Outcome(attempt.total) = "PASS"
    ELSE attempt.status = "SCHEDULED" /\ enrollment = "ENROLLED"

\* A case says what became of the revised result it produced.
CaseFollowsRevision ==
    \A c \in DOMAIN cases :
        IF cases[c].revised = 0
        THEN cases[c].status \in {"REQUESTED", "REVIEWED_UNCHANGED"}
        ELSE LET r == results[cases[c].revised]
             IN  /\ r.supersedes = cases[c].original
                 /\ r.total # results[cases[c].original].total
                 /\ cases[c].status =
                        CASE r.status \in {"PREPARED", "VERIFIED"} -> "REVISED_PENDING"
                          [] r.status = "RATIFIED" -> "COMPLETED"
                          [] r.status = "RETURNED" -> "REJECTED"

\* coursework_completed_on mirrors the record (records.py): it is set only while the result
\* in force is a pass.
CompletionMirrorsRecord ==
    completed => /\ CurrentId # 0
                 /\ results[CurrentId].status = "RATIFIED"
                 /\ Outcome(results[CurrentId].total) = "PASS"

-----------------------------------------------------------------------------
(* The official result, as PublishedResult states it. *)

Official ==
    IF CurrentId # 0 /\ results[CurrentId].status = "RATIFIED"
    THEN results[CurrentId].total
    ELSE NoMark

Contested == \E c \in DOMAIN cases : OpenCase(cases[c]) /\ cases[c].original = CurrentId

Published == INSTANCE PublishedResult
    WITH Unpublished <- NoMark, official <- Official, contested <- Contested

\* The custody chain implements PublishedResult: no result is withdrawn, and none changes but
\* by a contested revision that says something else.
PublishedSpec == Published!Spec

-----------------------------------------------------------------------------
(* Marks, results and cases are read before the transactions that rest on  *)
(* them, so these promises hold for as long as no two requests overlap.    *)

\* Requests one after the other keep the people apart who prepare, verify, ratify and revise
\* (verify_result, ratify_result, review_revaluation).
SeparationInTurn == ~overlapped => SeparationOfDuties

\* Requests one after the other keep a standing result what its locked marks compute to
\* (enter_mark, prepare_result).
ResultMatchesMarksInTurn == ~overlapped => ResultMatchesMarks

\* Requests one after the other keep the attempt, the enrollment and the revaluation cases in
\* step with the results they copy or caused (_sync_attempt, ratify_result, return_result).
CopiesFollowInTurn == ~overlapped => MirrorFollowsResult /\ CaseFollowsRevision

\* Requests one after the other take the steps of PublishedResult and no other.
PublishedSpecInTurn ==
    Published!Init /\ [][~overlapped' => [Published!Next]_<<Official, Contested>>]_vars

=============================================================================
