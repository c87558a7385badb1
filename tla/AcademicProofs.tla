----------------------------- MODULE AcademicProofs -----------------------------
(***************************************************************************)
(* Theorems about elective lists, proposals and enrollments: an approved   *)
(* list carries the signatures of its chain; an enrollment in an elective  *)
(* rests on a proposal that stays approved; there are no more enrollments  *)
(* than places - each but for rows that a request wrote over without       *)
(* having read them.  Then about a whole semester (AcademicSpec), with the *)
(* requests of every office in flight together: assessment schemes, the    *)
(* teaching workspace, attendance and its corrections, attempts and hall   *)
(* tickets, the record of a scholar and its transcripts; and about a       *)
(* semester beside which tabs stay open (ScreensSpec) or files are         *)
(* imported (RecordsSpec).                                                 *)
(***************************************************************************)
EXTENDS Screens, RecordImports, FiniteSetTheorems, SequenceTheorems, WellFoundedInduction, TLAPS

-----------------------------------------------------------------------------
(* Elective lists, proposals, enrollments: the types *)

\* What a desk has in hand, with the copy it loaded.
ListWork ==
    [op : {"submit"}, id : Lists, copy : ElectiveList]
    \cup [op : {"decideList"}, id : Lists, copy : ElectiveList, by : Officers, approve : BOOLEAN]

ProposalWork ==
    [op : {"recommend"}, id : Proposals, copy : Proposal, by : Officers, status : {"RECOMMENDED", "NOT_RECOMMENDED"}]
    \cup [op : {"decide"}, id : Proposals, copy : Proposal, by : Officers, status : {"APPROVED", "REJECTED"}]

EnrollmentWork ==
    [op : {"register"}, row : Candidates \X Semesters]
    \cup [op : {"enroll"}, row : Rows, section : Sections \cup {NoSection}, proposal : Proposals \cup {Nobody}]
    \cup [op : {"withdraw", "attempt"}, row : Rows, copy : EnrollmentRow]

CourseOps == {"submit", "decideList", "recommend", "decide", "register", "enroll", "withdraw", "attempt"}

\* Other requests, of teaching, attendance and examinations, may be in hand too.
DeskTyped ==
    /\ desk = [d \in Desks |-> desk[d]]
    /\ \A d \in Desks : desk[d].op \in CourseOps \cup {"free"} =>
                         desk[d] \in {Free} \cup ListWork \cup ProposalWork \cup EnrollmentWork

\* What is written to was there when it was read, and no row is ever deleted.
RowsExist ==
    \A d \in Desks :
        /\ desk[d].op \in {"submit", "decideList"} => lists[desk[d].id] # NoList
        /\ desk[d].op \in {"recommend", "decide"} => proposals[desk[d].id] # NoProposal
        /\ desk[d].op \in {"withdraw", "attempt"} => enrollments[desk[d].row] # NotEnrolled

CourseTypeOK ==
    /\ lists \in [Lists -> {NoList} \cup ElectiveList]
    /\ proposals \in [Proposals -> {NoProposal} \cup Proposal]
    /\ enrollments \in [Rows -> {NotEnrolled} \cup EnrollmentRow]
    /\ active \subseteq Candidates /\ windows \subseteq Semesters
    /\ cleared \subseteq Candidates \X Semesters /\ registered \subseteq Candidates \X Semesters
    /\ offered \subseteq Offerings
    /\ hurried \subseteq Candidates \cup Offerings
    /\ DeskTyped

TypeInv == CourseTypeOK /\ RowsExist

TriedBeside(row) ==
    /\ enrollments[row] # NotEnrolled
    /\ enrollments' = [enrollments EXCEPT ![row].tried = TRUE]
    /\ hurried \subseteq hurried'
    /\ enrollments[row].status = "ENROLLED" \/ {row[1], row[2]} \subseteq hurried'

\* What else may happen: an examination tries an enrollment as an attempt does, results are ratified, and
\* requests of other kinds are opened and closed.
Beside ==
    /\ UNCHANGED <<lists, proposals, active, windows, cleared, registered, offered>>
    /\ desk' = [d \in Desks |-> desk'[d]]
    /\ \A d \in Desks : desk'[d] = desk[d] \/ desk'[d] = Free \/ desk'[d].op \notin CourseOps \cup {"free"}
    /\ hurried \subseteq hurried' /\ hurried' \subseteq Candidates \cup Offerings
    /\ \/ enrollments' = enrollments
       \/ \E row \in Rows : TriedBeside(row)
       \/ \E row \in Rows, pass \in BOOLEAN : Ratified(row, pass)

courseVars == <<electiveVars, desk, enrollmentVars>>

CourseStep == [CourseNext]_courseVars \/ Beside

\* What is in hand by its kind
LEMMA InHand ==
    ASSUME DeskTyped, NEW d \in Desks
    PROVE  /\ desk[d].op = "submit" => desk[d].id \in Lists /\ desk[d].copy \in ElectiveList
           /\ desk[d].op = "decideList" => /\ desk[d].id \in Lists /\ desk[d].copy \in ElectiveList
                                           /\ desk[d].by \in Officers /\ desk[d].approve \in BOOLEAN
           /\ desk[d].op = "recommend" => /\ desk[d].id \in Proposals /\ desk[d].copy \in Proposal
                                          /\ desk[d].by \in Officers
                                          /\ desk[d].status \in {"RECOMMENDED", "NOT_RECOMMENDED"}
           /\ desk[d].op = "decide" => /\ desk[d].id \in Proposals /\ desk[d].copy \in Proposal
                                       /\ desk[d].by \in Officers
                                       /\ desk[d].status \in {"APPROVED", "REJECTED"}
           /\ desk[d].op = "register" => desk[d].row \in Candidates \X Semesters
           /\ desk[d].op = "enroll" => /\ desk[d].row \in Rows
                                       /\ desk[d].section \in Sections \cup {NoSection}
                                       /\ desk[d].proposal \in Proposals \cup {Nobody}
           /\ desk[d].op \in {"withdraw", "attempt"} => desk[d].row \in Rows /\ desk[d].copy \in EnrollmentRow
  <1>1. \/ desk[d].op \notin CourseOps
        \/ desk[d] \in {Free} \cup ListWork \cup ProposalWork \cup EnrollmentWork
    BY DEF DeskTyped
  <1>6. CASE desk[d].op \notin CourseOps
    BY <1>6 DEF CourseOps
  <1>2. CASE desk[d] = Free
    BY <1>2 DEF Free
  <1>3. CASE desk[d] \in ListWork
    BY <1>3 DEF ListWork
  <1>4. CASE desk[d] \in ProposalWork
    BY <1>4 DEF ProposalWork
  <1>5. CASE desk[d] \in EnrollmentWork
    BY <1>5 DEF EnrollmentWork
  <1> QED
    BY <1>1, <1>2, <1>3, <1>4, <1>5, <1>6

LEMMA DeskOpens ==
    ASSUME DeskTyped, NEW d \in Desks, NEW r \in ListWork \cup ProposalWork \cup EnrollmentWork, OpenRequest(d, r)
    PROVE  DeskTyped' /\ desk'[d] = r /\ desk[d] = Free /\ \A e \in Desks \ {d} : desk'[e] = desk[e]
  BY DEF OpenRequest, DeskTyped

LEMMA DeskCloses ==
    ASSUME DeskTyped, NEW d \in Desks, CloseRequest(d)
    PROVE  DeskTyped' /\ desk'[d] = Free /\ \A e \in Desks \ {d} : desk'[e] = desk[e]
  BY DEF CloseRequest, DeskTyped

\* What a submission makes of a list
LEMMA SubmissionWritten ==
    ASSUME TypeInv, NEW d \in Desks, WriteSubmission(d)
    PROVE  \E l \in Lists, row \in ElectiveList :
              /\ l = desk[d].id /\ lists[l] \in ElectiveList
              /\ lists' = [lists EXCEPT ![l] = row]
              /\ row.status = "SUBMITTED" /\ row.step = 1 /\ row.chain \in ListChains
              /\ row.submitted = Len(lists[l].decisions)
              /\ row.decisions = lists[l].decisions
              /\ row.by = lists[l].by /\ row.semester = lists[l].semester /\ row.courses = lists[l].courses
              /\ ~row.stale => lists[l] = desk[d].copy /\ ~lists[l].stale
  <1>1. PICK l \in Lists : l = desk[d].id
    BY InHand DEF TypeInv, CourseTypeOK, WriteSubmission
  <1> DEFINE old == lists[l]
             stale == Touched(old, desk[d].copy)
  <1>2. old \in ElectiveList
    BY <1>1 DEF TypeInv, CourseTypeOK, RowsExist, WriteSubmission
  <1>3. stale \in BOOLEAN
    BY Zenon DEF Touched
  <1>4. PICK chain \in ListChains :
           lists' = [lists EXCEPT ![l].status = "SUBMITTED", ![l].step = 1, ![l].chain = chain,
                                  ![l].submitted = Len(old.decisions), ![l].stale = stale]
    BY <1>1 DEF WriteSubmission
  <1>5. ~stale => old = desk[d].copy /\ ~old.stale
    BY DEF Touched
  <1> DEFINE row == [old EXCEPT !.status = "SUBMITTED", !.step = 1, !.chain = chain,
                                !.submitted = Len(old.decisions), !.stale = stale]
  <1>6. lists' = [lists EXCEPT ![l] = row]
    BY <1>4
  <1> HIDE DEF stale
  <1>7. Len(old.decisions) \in Nat
    BY <1>2 DEF ElectiveList
  <1>8. /\ row \in ElectiveList
        /\ row.status = "SUBMITTED" /\ row.step = 1 /\ row.chain = chain
        /\ row.submitted = Len(old.decisions) /\ row.decisions = old.decisions
        /\ row.by = old.by /\ row.semester = old.semester /\ row.courses = old.courses
        /\ row.stale = stale
    BY <1>2, <1>3, <1>7 DEF ElectiveList
  <1> HIDE DEF row
  <1> QED
    BY <1>1, <1>2, <1>5, <1>6, <1>8

\* What a decision makes of a list
LEMMA ListDecisionWritten ==
    ASSUME TypeInv, NEW d \in Desks, WriteListDecision(d)
    PROVE  \E l \in Lists, row \in ElectiveList, copy \in ElectiveList :
              LET last == copy.step >= Len(copy.chain)
              IN  /\ l = desk[d].id /\ copy = desk[d].copy /\ lists[l] \in ElectiveList
                  /\ lists' = [lists EXCEPT ![l] = row]
                  /\ row.status = IF ~desk[d].approve THEN "RETURNED" ELSE IF last THEN "APPROVED" ELSE copy.status
                  /\ row.step = IF desk[d].approve /\ ~last THEN copy.step + 1 ELSE copy.step
                  /\ row.decisions = Append(lists[l].decisions,
                                            [step |-> copy.step, by |-> desk[d].by, approved |-> desk[d].approve])
                  /\ row.chain = lists[l].chain /\ row.submitted = lists[l].submitted
                  /\ row.by = lists[l].by /\ row.semester = lists[l].semester /\ row.courses = lists[l].courses
                  /\ ~row.stale => lists[l] = copy /\ ~lists[l].stale
  <1>1. PICK l \in Lists, copy \in ElectiveList : l = desk[d].id /\ copy = desk[d].copy
    BY InHand DEF TypeInv, CourseTypeOK, WriteListDecision
  <1> DEFINE old == lists[l]
             stale == Touched(old, copy)
             last == copy.step >= Len(copy.chain)
             x == [step |-> copy.step, by |-> desk[d].by, approved |-> desk[d].approve]
             status == IF ~desk[d].approve THEN "RETURNED" ELSE IF last THEN "APPROVED" ELSE copy.status
             step == IF desk[d].approve /\ ~last THEN copy.step + 1 ELSE copy.step
             decisions == Append(old.decisions, x)
             row == [old EXCEPT !.decisions = decisions, !.status = status, !.step = step, !.stale = stale]
  <1>2. old \in ElectiveList
    BY <1>1 DEF TypeInv, CourseTypeOK, RowsExist, WriteListDecision
  <1>3. stale \in BOOLEAN
    BY Zenon DEF Touched
  <1>4. lists' = [lists EXCEPT ![l] = row]
    BY <1>1 DEF WriteListDecision
  <1>5. ~stale => old = copy /\ ~old.stale
    BY DEF Touched
  <1>6. x \in Decision
    BY <1>1, InHand DEF Decision, ElectiveList, TypeInv, CourseTypeOK, WriteListDecision
  <1>7. /\ status \in {"DRAFT", "SUBMITTED", "RETURNED", "APPROVED"}
        /\ step \in Nat
    BY DEF ElectiveList
  <1>8. decisions \in Seq(Decision)
    BY <1>2, <1>6 DEF ElectiveList
  <1> HIDE DEF stale, status, step, decisions
  <1>9. /\ row \in ElectiveList
        /\ row.status = status /\ row.step = step /\ row.decisions = decisions /\ row.stale = stale
        /\ row.chain = old.chain /\ row.submitted = old.submitted
        /\ row.by = old.by /\ row.semester = old.semester /\ row.courses = old.courses
    BY <1>2, <1>3, <1>7, <1>8 DEF ElectiveList
  <1> HIDE DEF row
  <1> QED
    BY <1>1, <1>2, <1>4, <1>5, <1>9 DEF status, step, decisions

\* What a recommendation or a decision makes of a proposal
LEMMA ProposalWritten ==
    ASSUME TypeInv, NEW d \in Desks, WriteRecommendation(d) \/ WriteProposalDecision(d)
    PROVE  \E p \in Proposals, row \in Proposal :
              /\ p = desk[d].id /\ proposals[p] \in Proposal
              /\ proposals' = [proposals EXCEPT ![p] = row]
              /\ row.status = desk[d].status
              /\ row.scholar = proposals[p].scholar /\ row.semester = proposals[p].semester
              /\ row.course = proposals[p].course
              /\ row.recommender = IF desk[d].op = "recommend" THEN desk[d].by ELSE proposals[p].recommender
              /\ row.decider = IF desk[d].op = "decide" THEN desk[d].by ELSE proposals[p].decider
              /\ ~row.stale => proposals[p] = desk[d].copy /\ ~proposals[p].stale
  <1>0. desk[d].op \in {"recommend", "decide"}
    BY DEF WriteRecommendation, WriteProposalDecision
  <1>1. PICK p \in Proposals : p = desk[d].id
    BY <1>0, InHand DEF TypeInv, CourseTypeOK
  <1> DEFINE old == proposals[p]
             stale == Touched(old, desk[d].copy)
             status == desk[d].status
             recommender == IF desk[d].op = "recommend" THEN desk[d].by ELSE old.recommender
             decider == IF desk[d].op = "decide" THEN desk[d].by ELSE old.decider
             row == [old EXCEPT !.status = status, !.recommender = recommender, !.decider = decider, !.stale = stale]
  <1>2. old \in Proposal
    BY <1>0, <1>1 DEF TypeInv, CourseTypeOK, RowsExist
  <1>3. stale \in BOOLEAN
    BY Zenon DEF Touched
  <1>5. ~stale => old = desk[d].copy /\ ~old.stale
    BY DEF Touched
  <1>6. /\ desk[d].by \in Officers
        /\ status \in {"RECOMMENDED", "NOT_RECOMMENDED", "APPROVED", "REJECTED"}
    BY <1>0, InHand DEF TypeInv, CourseTypeOK
  <1>4. proposals' = [proposals EXCEPT ![p] = row]
    <2>1. CASE WriteRecommendation(d)
      <3>1. proposals' = [proposals EXCEPT ![p] = [old EXCEPT !.status = status, !.recommender = desk[d].by, !.stale = stale]]
        BY <1>1, <2>1 DEF WriteRecommendation
      <3>2. recommender = desk[d].by /\ decider = old.decider
        BY <2>1 DEF WriteRecommendation
      <3> HIDE DEF stale, status, recommender, decider
      <3>3. row = [old EXCEPT !.status = status, !.recommender = desk[d].by, !.stale = stale]
        BY <1>2, <3>2 DEF Proposal
      <3> QED
        BY <3>1, <3>3
    <2>2. CASE WriteProposalDecision(d)
      <3>1. proposals' = [proposals EXCEPT ![p] = [old EXCEPT !.status = status, !.decider = desk[d].by, !.stale = stale]]
        BY <1>1, <2>2 DEF WriteProposalDecision
      <3>2. decider = desk[d].by /\ recommender = old.recommender
        BY <2>2 DEF WriteProposalDecision
      <3> HIDE DEF stale, status, recommender, decider
      <3>3. row = [old EXCEPT !.status = status, !.decider = desk[d].by, !.stale = stale]
        BY <1>2, <3>2 DEF Proposal
      <3> QED
        BY <3>1, <3>3
    <2> QED
      BY <2>1, <2>2
  <1>7. recommender \in Officers \cup {Nobody} /\ decider \in Officers \cup {Nobody}
    BY <1>2, <1>6 DEF Proposal
  <1> HIDE DEF stale, status, recommender, decider
  <1>8. /\ row \in Proposal
        /\ row.status = status /\ row.recommender = recommender /\ row.decider = decider /\ row.stale = stale
        /\ row.scholar = old.scholar /\ row.semester = old.semester /\ row.course = old.course
    BY <1>2, <1>3, <1>6, <1>7 DEF Proposal
  <1> HIDE DEF row
  <1> QED
    BY <1>1, <1>2, <1>4, <1>5, <1>8 DEF status, recommender, decider

\* A row of Enrollment is the pair of its scholar and its offering.
LEMMA RowParts ==
    ASSUME NEW row \in Rows
    PROVE  row[1] \in Candidates /\ row[2] \in Offerings /\ row = <<row[1], row[2]>>
  BY DEF Rows

\* What becomes of an enrollment that is withdrawn, tried or has a result
LEMMA EnrollmentChanged ==
    ASSUME TypeInv, NEW row \in Rows, enrollments[row] # NotEnrolled,
           \/ enrollments' = [enrollments EXCEPT ![row].status = "WITHDRAWN"]
           \/ enrollments' = [enrollments EXCEPT ![row].tried = TRUE]
           \/ \E pass \in BOOLEAN : Ratified(row, pass)
    PROVE  \E new \in EnrollmentRow :
              /\ enrollments[row] \in EnrollmentRow
              /\ enrollments' = [enrollments EXCEPT ![row] = new]
              /\ new.section = enrollments[row].section /\ new.proposal = enrollments[row].proposal
  <1> DEFINE old == enrollments[row]
  <1>1. old \in EnrollmentRow
    BY DEF TypeInv, CourseTypeOK
  <1>2. CASE enrollments' = [enrollments EXCEPT ![row].status = "WITHDRAWN"]
    <2> DEFINE new == [old EXCEPT !.status = "WITHDRAWN"]
    <2>1. new \in EnrollmentRow /\ new.section = old.section /\ new.proposal = old.proposal
      BY <1>1 DEF EnrollmentRow
    <2>2. enrollments' = [enrollments EXCEPT ![row] = new]
      BY <1>2
    <2> HIDE DEF new
    <2> QED
      BY <1>1, <2>1, <2>2
  <1>3. CASE enrollments' = [enrollments EXCEPT ![row].tried = TRUE]
    <2> DEFINE new == [old EXCEPT !.tried = TRUE]
    <2>1. new \in EnrollmentRow /\ new.section = old.section /\ new.proposal = old.proposal
      BY <1>1 DEF EnrollmentRow
    <2>2. enrollments' = [enrollments EXCEPT ![row] = new]
      BY <1>3
    <2> HIDE DEF new
    <2> QED
      BY <1>1, <2>1, <2>2
  <1>4. ASSUME NEW pass \in BOOLEAN, Ratified(row, pass)
        PROVE  \E new \in EnrollmentRow :
                  /\ enrollments' = [enrollments EXCEPT ![row] = new]
                  /\ new.section = old.section /\ new.proposal = old.proposal
    <2> DEFINE status == IF pass THEN "COMPLETED" ELSE "ENROLLED"
               reopened == ~pass /\ (old.reopened \/ old.status = "COMPLETED")
               new == [old EXCEPT !.status = status, !.reopened = reopened]
    <2>1. reopened \in BOOLEAN
      BY Zenon
    <2>2. enrollments' = [enrollments EXCEPT ![row] = new]
      BY <1>4 DEF Ratified
    <2>3. status \in {"ENROLLED", "WITHDRAWN", "COMPLETED"}
      OBVIOUS
    <2> HIDE DEF status, reopened
    <2>4. new \in EnrollmentRow /\ new.section = old.section /\ new.proposal = old.proposal
      BY <1>1, <2>1, <2>3 DEF EnrollmentRow
    <2> HIDE DEF new
    <2> QED
      BY <2>2, <2>4
  <1> QED
    BY <1>1, <1>2, <1>3, <1>4

\* Opening a request changes no row; closing one changes no other request.
LEMMA TypesOpen ==
    ASSUME TypeInv, NEW d \in Desks, NEW r \in ListWork \cup ProposalWork \cup EnrollmentWork, OpenRequest(d, r),
           UNCHANGED <<electiveVars, enrollmentVars>>,
           r.op \in {"submit", "decideList"} => lists[r.id] # NoList,
           r.op \in {"recommend", "decide"} => proposals[r.id] # NoProposal,
           r.op \in {"withdraw", "attempt"} => enrollments[r.row] # NotEnrolled
    PROVE  TypeInv'
  <1>1. UNCHANGED <<lists, proposals, enrollments>>
    BY DEF electiveVars, enrollmentVars
  <1>2. DeskTyped' /\ desk'[d] = r /\ \A e \in Desks \ {d} : desk'[e] = desk[e]
    BY DeskOpens DEF TypeInv, CourseTypeOK
  <1>3. RowsExist'
    BY <1>1, <1>2 DEF RowsExist, TypeInv
  <1>4. CourseTypeOK'
    BY <1>1, <1>2 DEF CourseTypeOK, TypeInv, enrollmentVars
  <1> QED
    BY <1>3, <1>4 DEF TypeInv

LEMMA TypesClose ==
    ASSUME TypeInv, NEW d \in Desks, CloseRequest(d),
           \A l \in Lists : lists[l] # NoList => lists'[l] # NoList,
           \A p \in Proposals : proposals[p] # NoProposal => proposals'[p] # NoProposal,
           \A row \in Rows : enrollments[row] # NotEnrolled => enrollments'[row] # NotEnrolled
    PROVE  DeskTyped' /\ RowsExist'
  <1>1. DeskTyped' /\ desk'[d] = Free /\ \A e \in Desks \ {d} : desk'[e] = desk[e]
    BY DeskCloses DEF TypeInv, CourseTypeOK
  <1>2. \A e \in Desks : desk'[e] = desk[e] \/ desk'[e].op = "free"
    BY <1>1 DEF Free
  <1>3. RowsExist'
    BY <1>2, InHand DEF RowsExist, TypeInv, CourseTypeOK
  <1> QED
    BY <1>1, <1>3

\* No list, proposal or enrollment there is equals one there is not.
LEMMA RowsTold ==
    /\ NoList \notin ElectiveList
    /\ NoProposal \notin Proposal
    /\ NotEnrolled \notin EnrollmentRow
  BY DEF NoList, ElectiveList, NoProposal, Proposal, NotEnrolled, EnrollmentRow

LEMMA ElectiveTyped ==
    ASSUME TypeInv, ElectiveNext, UNCHANGED enrollmentVars
    PROVE  TypeInv'
  <1>0. CourseTypeOK /\ RowsExist /\ DeskTyped
    BY DEF TypeInv, CourseTypeOK
  <1>1. ASSUME NEW l \in Lists, NEW person \in Preparers, NEW semester \in Semesters,
               NEW courses \in SUBSET Electives, PrepareList(l, person, semester, courses)
        PROVE  TypeInv'
    <2> DEFINE row == [status |-> "DRAFT", step |-> 1, chain |-> <<>>, by |-> person, semester |-> semester,
                       courses |-> courses, decisions |-> <<>>, submitted |-> 0, stale |-> FALSE]
    <2>1. row \in ElectiveList
      BY DEF ElectiveList
    <2>2. lists' = [lists EXCEPT ![l] = row] /\ UNCHANGED <<proposals, desk>>
      BY <1>1 DEF PrepareList
    <2> HIDE DEF row
    <2>3. lists' \in [Lists -> {NoList} \cup ElectiveList] /\ \A k \in Lists : lists[k] # NoList => lists'[k] # NoList
      BY <1>0, <2>1, <2>2, RowsTold DEF CourseTypeOK
    <2>4. RowsExist'
      BY <1>0, <2>2, <2>3, InHand DEF RowsExist, enrollmentVars
    <2> QED
      BY <1>0, <2>2, <2>3, <2>4 DEF TypeInv, CourseTypeOK, DeskTyped, enrollmentVars
  <1>2. ASSUME NEW p \in Proposals, NEW scholar \in Candidates, NEW semester \in Semesters,
               NEW course \in Electives \cup {NoElective}, Propose(p, scholar, semester, course)
        PROVE  TypeInv'
    <2> DEFINE row == [status |-> "SUBMITTED", scholar |-> scholar, semester |-> semester, course |-> course,
                       recommender |-> Nobody, decider |-> Nobody, stale |-> FALSE]
    <2>1. row \in Proposal
      BY DEF Proposal
    <2>2. proposals' = [proposals EXCEPT ![p] = row] /\ UNCHANGED <<lists, desk>>
      BY <1>2 DEF Propose
    <2> HIDE DEF row
    <2>3. /\ proposals' \in [Proposals -> {NoProposal} \cup Proposal]
          /\ \A q \in Proposals : proposals[q] # NoProposal => proposals'[q] # NoProposal
      BY <1>0, <2>1, <2>2, RowsTold DEF CourseTypeOK
    <2>4. RowsExist'
      BY <1>0, <2>2, <2>3, InHand DEF RowsExist, enrollmentVars
    <2> QED
      BY <1>0, <2>2, <2>3, <2>4 DEF TypeInv, CourseTypeOK, DeskTyped, enrollmentVars
  <1>3. ASSUME NEW d \in Desks, NEW l \in Lists, OpenSubmission(d, l)
        PROVE  TypeInv'
    <2> DEFINE r == [op |-> "submit", id |-> l, copy |-> lists[l]]
    <2>1. lists[l] # NoList /\ lists[l] \in ElectiveList
      BY <1>0, <1>3 DEF OpenSubmission, NoList, CourseTypeOK
    <2>2. r \in ListWork /\ OpenRequest(d, r) /\ UNCHANGED electiveVars
      BY <1>3, <2>1 DEF OpenSubmission, ListWork
    <2>3. r.op = "submit" /\ r.id = l
      OBVIOUS
    <2> HIDE DEF r
    <2> QED
      BY <2>1, <2>2, <2>3, TypesOpen
  <1>4. ASSUME NEW d \in Desks, NEW l \in Lists, NEW person \in Officers, NEW approve \in BOOLEAN,
               OpenListDecision(d, l, person, approve)
        PROVE  TypeInv'
    <2> DEFINE r == [op |-> "decideList", id |-> l, copy |-> lists[l], by |-> person, approve |-> approve]
    <2>1. lists[l] # NoList /\ lists[l] \in ElectiveList
      BY <1>0, <1>4 DEF OpenListDecision, NoList, CourseTypeOK
    <2>2. r \in ListWork
      BY <2>1 DEF ListWork
    <2>3. OpenRequest(d, r) /\ UNCHANGED electiveVars
      BY <1>4 DEF OpenListDecision
    <2>4. r.op = "decideList" /\ r.id = l
      OBVIOUS
    <2> HIDE DEF r
    <2> QED
      BY <2>1, <2>2, <2>3, <2>4, TypesOpen
  <1>5. ASSUME NEW d \in Desks, NEW p \in Proposals, NEW person \in Officers, NEW positive \in BOOLEAN,
               OpenRecommendation(d, p, person, positive)
        PROVE  TypeInv'
    <2> DEFINE r == [op |-> "recommend", id |-> p, copy |-> proposals[p], by |-> person,
                     status |-> IF positive THEN "RECOMMENDED" ELSE "NOT_RECOMMENDED"]
    <2>1. proposals[p] # NoProposal /\ proposals[p] \in Proposal
      BY <1>0, <1>5 DEF OpenRecommendation, NoProposal, CourseTypeOK
    <2>2. r \in ProposalWork
      BY <2>1 DEF ProposalWork
    <2>3. OpenRequest(d, r) /\ UNCHANGED electiveVars
      BY <1>5 DEF OpenRecommendation
    <2>4. r.op = "recommend" /\ r.id = p
      OBVIOUS
    <2> HIDE DEF r
    <2> QED
      BY <2>1, <2>2, <2>3, <2>4, TypesOpen
  <1>6. ASSUME NEW d \in Desks, NEW p \in Proposals, NEW person \in Officers, NEW positive \in BOOLEAN,
               OpenProposalDecision(d, p, person, positive)
        PROVE  TypeInv'
    <2> DEFINE r == [op |-> "decide", id |-> p, copy |-> proposals[p], by |-> person,
                     status |-> IF positive THEN "APPROVED" ELSE "REJECTED"]
    <2>1. proposals[p] # NoProposal /\ proposals[p] \in Proposal
      BY <1>0, <1>6 DEF OpenProposalDecision, NoProposal, CourseTypeOK, Decidable
    <2>2. r \in ProposalWork
      BY <2>1 DEF ProposalWork
    <2>3. OpenRequest(d, r) /\ UNCHANGED electiveVars
      BY <1>6 DEF OpenProposalDecision
    <2>4. r.op = "decide" /\ r.id = p
      OBVIOUS
    <2> HIDE DEF r
    <2> QED
      BY <2>1, <2>2, <2>3, <2>4, TypesOpen
  <1>7. ASSUME NEW d \in Desks, WriteSubmission(d) \/ WriteListDecision(d)
        PROVE  TypeInv'
    <2>1. \E l \in Lists, row \in ElectiveList : lists' = [lists EXCEPT ![l] = row]
      <3>1. CASE WriteSubmission(d)
        BY <3>1, SubmissionWritten
      <3>2. CASE WriteListDecision(d)
        BY <3>2, ListDecisionWritten
      <3> QED
        BY <1>7, <3>1, <3>2
    <2>2. CloseRequest(d) /\ UNCHANGED <<proposals, enrollments>>
      BY <1>7 DEF WriteSubmission, WriteListDecision, enrollmentVars
    <2>3. lists' \in [Lists -> {NoList} \cup ElectiveList] /\ \A k \in Lists : lists[k] # NoList => lists'[k] # NoList
      BY <1>0, <2>1, RowsTold DEF CourseTypeOK
    <2>4. DeskTyped' /\ RowsExist'
      BY <2>2, <2>3, TypesClose
    <2> QED
      BY <1>0, <2>2, <2>3, <2>4 DEF TypeInv, CourseTypeOK, enrollmentVars
  <1>8. ASSUME NEW d \in Desks, WriteRecommendation(d) \/ WriteProposalDecision(d)
        PROVE  TypeInv'
    <2>1. \E p \in Proposals, row \in Proposal : proposals' = [proposals EXCEPT ![p] = row]
      BY <1>8, ProposalWritten
    <2>2. CloseRequest(d) /\ UNCHANGED <<lists, enrollments>>
      BY <1>8 DEF WriteRecommendation, WriteProposalDecision, enrollmentVars
    <2>3. /\ proposals' \in [Proposals -> {NoProposal} \cup Proposal]
          /\ \A q \in Proposals : proposals[q] # NoProposal => proposals'[q] # NoProposal
      BY <1>0, <2>1, RowsTold DEF CourseTypeOK
    <2>4. DeskTyped' /\ RowsExist'
      BY <2>2, <2>3, TypesClose
    <2> QED
      BY <1>0, <2>2, <2>3, <2>4 DEF TypeInv, CourseTypeOK, enrollmentVars
  <1> QED
    BY <1>1, <1>2, <1>3, <1>4, <1>5, <1>6, <1>7, <1>8 DEF ElectiveNext

LEMMA EnrollmentTyped ==
    ASSUME TypeInv, EnrollmentNext
    PROVE  TypeInv'
  <1>0. CourseTypeOK /\ RowsExist /\ DeskTyped
    BY DEF TypeInv, CourseTypeOK
  <1>1. ASSUME NEW s \in Candidates, NEW semester \in Semesters, NEW is \in BOOLEAN, RecordFeeClearance(s, semester, is)
        PROVE  TypeInv'
    <2>1. cleared' \subseteq Candidates \X Semesters
      BY <1>0, <1>1 DEF RecordFeeClearance, CourseTypeOK
    <2> QED
      BY <1>0, <1>1, <2>1 DEF RecordFeeClearance, TypeInv, CourseTypeOK, RowsExist, DeskTyped, electiveVars
  <1>2. ASSUME NEW s \in Candidates, StatusLeavesActive(s)
        PROVE  TypeInv'
    BY <1>0, <1>2 DEF StatusLeavesActive, TypeInv, CourseTypeOK, RowsExist, DeskTyped, electiveVars
  <1>3. ASSUME NEW semester \in Semesters, WindowCloses(semester)
        PROVE  TypeInv'
    BY <1>0, <1>3 DEF WindowCloses, TypeInv, CourseTypeOK, RowsExist, DeskTyped, electiveVars
  <1>4. ASSUME NEW o \in Offerings, CreateOffering(o)
        PROVE  TypeInv'
    BY <1>0, <1>4 DEF CreateOffering, TypeInv, CourseTypeOK, RowsExist, DeskTyped, electiveVars
  <1>5. ASSUME NEW row \in Rows, NEW pass \in BOOLEAN, Ratified(row, pass), UNCHANGED desk
        PROVE  TypeInv'
    <2>1. enrollments[row] # NotEnrolled
      BY <1>5 DEF Ratified
    <2>2. \E new \in EnrollmentRow : enrollments' = [enrollments EXCEPT ![row] = new]
      BY <1>5, <2>1, EnrollmentChanged
    <2>3. /\ enrollments' \in [Rows -> {NotEnrolled} \cup EnrollmentRow]
          /\ \A k \in Rows : enrollments[k] # NotEnrolled => enrollments'[k] # NotEnrolled
      BY <1>0, <2>2, RowsTold DEF CourseTypeOK
    <2>4. UNCHANGED <<active, windows, cleared, registered, offered, hurried, lists, proposals, desk>>
      BY <1>5 DEF Ratified, electiveVars
    <2>5. RowsExist'
      BY <1>0, <2>3, <2>4, InHand DEF RowsExist
    <2> QED
      BY <1>0, <2>3, <2>4, <2>5 DEF TypeInv, CourseTypeOK, DeskTyped
  <1>6. ASSUME NEW d \in Desks, NEW s \in Candidates, NEW semester \in Semesters, OpenRegistration(d, s, semester)
        PROVE  TypeInv'
    <2> DEFINE r == [op |-> "register", row |-> <<s, semester>>]
    <2>1. r \in EnrollmentWork /\ r.op = "register"
      BY DEF EnrollmentWork
    <2>2. OpenRequest(d, r) /\ UNCHANGED <<electiveVars, enrollmentVars>>
      BY <1>6 DEF OpenRegistration
    <2> HIDE DEF r
    <2> QED
      BY <2>1, <2>2, TypesOpen
  <1>7. ASSUME NEW d \in Desks, NEW s \in Candidates, NEW o \in Offerings, NEW section \in Sections \cup {NoSection},
               OpenEnrollment(d, s, o, section)
        PROVE  TypeInv'
    <2>1. PICK p \in Bases(s, CourseOf[o]) :
             OpenRequest(d, [op |-> "enroll", row |-> <<s, o>>, section |-> section, proposal |-> p])
      BY <1>7 DEF OpenEnrollment
    <2> DEFINE r == [op |-> "enroll", row |-> <<s, o>>, section |-> section, proposal |-> p]
    <2>2. p \in Proposals \cup {Nobody}
      BY DEF Bases
    <2>3. r \in EnrollmentWork /\ r.op = "enroll"
      BY <2>2 DEF EnrollmentWork, Rows
    <2>4. OpenRequest(d, r) /\ UNCHANGED <<electiveVars, enrollmentVars>>
      BY <1>7, <2>1 DEF OpenEnrollment
    <2> HIDE DEF r
    <2> QED
      BY <2>3, <2>4, TypesOpen
  <1>8. ASSUME NEW d \in Desks, NEW row \in Rows, OpenWithdrawal(d, row) \/ OpenAttempt(d, row)
        PROVE  TypeInv'
    <2>1. PICK op \in {"withdraw", "attempt"} :
             OpenRequest(d, [op |-> op, row |-> row, copy |-> enrollments[row]])
      BY <1>8 DEF OpenWithdrawal, OpenAttempt
    <2> DEFINE r == [op |-> op, row |-> row, copy |-> enrollments[row]]
    <2>2. enrollments[row] # NotEnrolled /\ UNCHANGED <<electiveVars, enrollmentVars>>
      BY <1>8 DEF OpenWithdrawal, OpenAttempt, NotEnrolled
    <2>3. enrollments[row] \in EnrollmentRow
      BY <1>0, <2>2 DEF CourseTypeOK
    <2>4. r \in EnrollmentWork /\ r.op \in {"withdraw", "attempt"} /\ r.row = row /\ OpenRequest(d, r)
      BY <2>1, <2>3 DEF EnrollmentWork
    <2> HIDE DEF r
    <2> QED
      BY <2>2, <2>4, TypesOpen
  <1>9. ASSUME NEW d \in Desks, WriteRegistration(d)
        PROVE  TypeInv'
    <2>1. registered' \subseteq Candidates \X Semesters
      BY <1>0, <1>9, InHand DEF WriteRegistration, CourseTypeOK
    <2>2. DeskTyped' /\ RowsExist'
      BY <1>9, TypesClose DEF WriteRegistration, electiveVars
    <2> QED
      BY <1>0, <1>9, <2>1, <2>2 DEF WriteRegistration, TypeInv, CourseTypeOK, electiveVars
  <1>10. ASSUME NEW d \in Desks, WriteEnrollment(d)
         PROVE  TypeInv'
    <2>1. desk[d].row \in Rows /\ desk[d].section \in Sections \cup {NoSection} /\ desk[d].proposal \in Proposals \cup {Nobody}
      BY <1>0, <1>10, InHand DEF WriteEnrollment
    <2>2. NewEnrollment(desk[d].section, desk[d].proposal) \in EnrollmentRow
      BY <2>1 DEF NewEnrollment, EnrollmentRow
    <2> HIDE DEF NewEnrollment
    <2>3. /\ enrollments' \in [Rows -> {NotEnrolled} \cup EnrollmentRow]
          /\ \A k \in Rows : enrollments[k] # NotEnrolled => enrollments'[k] # NotEnrolled
      BY <1>0, <1>10, <2>1, <2>2, RowsTold DEF WriteEnrollment, CourseTypeOK
    <2>4. Overtaken(d, desk[d].row[1], desk[d].row[2]) \subseteq Candidates \cup Offerings
      BY <2>1, RowParts DEF Overtaken
    <2>5. DeskTyped' /\ RowsExist'
      BY <1>10, <2>3, TypesClose DEF WriteEnrollment, electiveVars
    <2>6. hurried' \subseteq Candidates \cup Offerings
      BY <1>0, <1>10, <2>4 DEF WriteEnrollment, CourseTypeOK
    <2> QED
      BY <1>0, <1>10, <2>3, <2>5, <2>6 DEF WriteEnrollment, TypeInv, CourseTypeOK, electiveVars
  <1>11. ASSUME NEW d \in Desks, WriteWithdrawal(d) \/ WriteAttempt(d)
         PROVE  TypeInv'
    <2>1. PICK row \in Rows : row = desk[d].row
      BY <1>0, <1>11, InHand DEF WriteWithdrawal, WriteAttempt
    <2>2. /\ enrollments[row] # NotEnrolled
          /\ \/ enrollments' = [enrollments EXCEPT ![row].status = "WITHDRAWN"]
             \/ enrollments' = [enrollments EXCEPT ![row].tried = TRUE]
      BY <1>0, <1>11, <2>1 DEF WriteWithdrawal, WriteAttempt, RowsExist
    <2>3. \E new \in EnrollmentRow : enrollments' = [enrollments EXCEPT ![row] = new]
      BY <2>2, EnrollmentChanged
    <2>4. /\ enrollments' \in [Rows -> {NotEnrolled} \cup EnrollmentRow]
          /\ \A k \in Rows : enrollments[k] # NotEnrolled => enrollments'[k] # NotEnrolled
      BY <1>0, <2>3, RowsTold DEF CourseTypeOK
    <2>5. hurried' \subseteq Candidates \cup Offerings
      BY <1>0, <1>11, <2>1, RowParts DEF WriteWithdrawal, WriteAttempt, Changed, CourseTypeOK
    <2>6. CloseRequest(d) /\ UNCHANGED <<active, windows, cleared, registered, offered, lists, proposals>>
      BY <1>11 DEF WriteWithdrawal, WriteAttempt, electiveVars
    <2>7. DeskTyped' /\ RowsExist'
      BY <2>4, <2>6, TypesClose
    <2> QED
      BY <1>0, <2>4, <2>5, <2>6, <2>7 DEF TypeInv, CourseTypeOK
  <1> QED
    BY <1>1, <1>2, <1>3, <1>4, <1>5, <1>6, <1>7, <1>8, <1>9, <1>10, <1>11 DEF EnrollmentNext

LEMMA BesideTyped ==
    ASSUME TypeInv, Beside
    PROVE  TypeInv'
  <1>0. CourseTypeOK /\ RowsExist /\ DeskTyped
    BY DEF TypeInv, CourseTypeOK
  <1>1. \/ enrollments' = enrollments
        \/ \E row \in Rows, new \in EnrollmentRow : enrollments' = [enrollments EXCEPT ![row] = new]
    <2>1. CASE enrollments' = enrollments
      BY <2>1
    <2>2. ASSUME NEW row \in Rows, enrollments[row] # NotEnrolled,
                 enrollments' = [enrollments EXCEPT ![row].tried = TRUE] \/ \E pass \in BOOLEAN : Ratified(row, pass)
          PROVE  \E new \in EnrollmentRow : enrollments' = [enrollments EXCEPT ![row] = new]
      BY <2>2, EnrollmentChanged
    <2>3. ASSUME NEW row \in Rows, NEW pass \in BOOLEAN, Ratified(row, pass)
          PROVE  enrollments[row] # NotEnrolled
      BY <2>3 DEF Ratified
    <2> QED
      BY <2>1, <2>2, <2>3 DEF Beside, TriedBeside
  <1>2. /\ enrollments' \in [Rows -> {NotEnrolled} \cup EnrollmentRow]
        /\ \A k \in Rows : enrollments[k] # NotEnrolled => enrollments'[k] # NotEnrolled
    BY <1>0, <1>1, RowsTold DEF CourseTypeOK
  <1>3. DeskTyped'
    BY <1>0 DEF Beside, DeskTyped, Free
  <1>4. \A d \in Desks : desk'[d].op \in CourseOps => desk'[d] = desk[d]
    BY DEF Beside, CourseOps, Free
  <1>5. RowsExist'
    BY <1>0, <1>2, <1>4, InHand DEF RowsExist, Beside, CourseOps
  <1> QED
    BY <1>0, <1>2, <1>3, <1>5 DEF TypeInv, CourseTypeOK, Beside

LEMMA TypesNext == TypeInv /\ CourseStep => TypeInv'
  <1>1. ASSUME TypeInv, UNCHANGED courseVars
        PROVE  TypeInv'
    BY <1>1 DEF courseVars, electiveVars, enrollmentVars, TypeInv, CourseTypeOK, RowsExist, DeskTyped
  <1> QED
    BY <1>1, ElectiveTyped, EnrollmentTyped, BesideTyped DEF CourseStep, CourseNext

LEMMA TypesInit == ElectiveInit /\ EnrollmentInit => TypeInv
  BY DEF ElectiveInit, EnrollmentInit, TypeInv, CourseTypeOK, RowsExist, DeskTyped, Free

-----------------------------------------------------------------------------
(* Lists: who signed *)

\* The first n steps of the chain are signed by the n decisions there were since the submission.
SignedUpTo(row, n) ==
    /\ Len(row.decisions) = row.submitted + n
    /\ n <= Len(row.chain)
    /\ \A i \in 1..n : LET x == row.decisions[row.submitted + i]
                       IN  x.step = i /\ x.approved /\ x.by \in HolderOf[row.chain[i]] \ {row.by}

\* Nobody decides twice on a list, not even after it was returned.
DecidedOnce(row) == \A i, j \in DOMAIN row.decisions : i # j => row.decisions[i].by # row.decisions[j].by

RowSound(row) ==
    /\ DecidedOnce(row)
    /\ row.status = "SUBMITTED" => row.step \in DOMAIN row.chain /\ SignedUpTo(row, row.step - 1)
    /\ row.status = "APPROVED" => SignedUpTo(row, Len(row.chain))

\* The copy a decision is made on was checked when it was loaded.
CopiesSound ==
    \A d \in Desks :
        /\ desk[d].op = "decideList" => desk[d].copy.status = "SUBMITTED" /\ MayDecideList(desk[d].by, desk[d].copy)
        /\ desk[d].op = "submit" => desk[d].copy.status \in {"DRAFT", "RETURNED"}

ListsSound == \A l \in Lists : lists[l] # NoList /\ ~lists[l].stale => RowSound(lists[l])

ListInv == TypeInv /\ CopiesSound /\ ListsSound

LEMMA ChainTyped ==
    ASSUME NEW row \in ElectiveList
    PROVE  /\ row.decisions \in Seq(Decision) /\ row.step \in Nat /\ row.submitted \in Nat
           /\ row.chain \in Seq(DOMAIN HolderOf)
           /\ Len(row.chain) \in Nat /\ DOMAIN row.chain = 1..Len(row.chain)
           /\ Len(row.decisions) \in Nat /\ DOMAIN row.decisions = 1..Len(row.decisions)
           /\ \A k \in DOMAIN row.decisions : row.decisions[k] \in Decision
  <1>1. row.chain \in Seq(DOMAIN HolderOf) /\ row.decisions \in Seq(Decision)
    <2>1. row.chain \in ListChains \cup {<<>>} /\ row.decisions \in Seq(Decision)
      BY DEF ElectiveList
    <2>2. <<>> \in Seq(DOMAIN HolderOf)
      OBVIOUS
    <2>3. ListChains \subseteq Seq(DOMAIN HolderOf)
      BY ElectiveAssumption
    <2> QED
      BY <2>1, <2>2, <2>3
  <1> QED
    BY <1>1 DEF ElectiveList

\* A submission starts the chain from its first step.
LEMMA SubmissionSound ==
    ASSUME NEW old \in ElectiveList, NEW row \in ElectiveList, RowSound(old),
           row.status = "SUBMITTED", row.step = 1, row.chain \in ListChains,
           row.submitted = Len(old.decisions), row.decisions = old.decisions
    PROVE  RowSound(row)
  <1>1. row.chain \in Seq(DOMAIN HolderOf) /\ row.chain # <<>>
    BY ElectiveAssumption
  <1>2. 1 \in DOMAIN row.chain
    BY <1>1
  <1>3. SignedUpTo(row, 0)
    BY ChainTyped DEF SignedUpTo
  <1> QED
    BY <1>2, <1>3 DEF RowSound, DecidedOnce

\* A decision on the row as it was checked signs its step.
LEMMA DecisionSound ==
    ASSUME NEW old \in ElectiveList, NEW row \in ElectiveList, RowSound(old),
           NEW person \in Officers, NEW approve \in BOOLEAN,
           old.status = "SUBMITTED", MayDecideList(person, old),
           row.status = IF ~approve THEN "RETURNED" ELSE IF old.step >= Len(old.chain) THEN "APPROVED" ELSE old.status,
           row.step = IF approve /\ ~(old.step >= Len(old.chain)) THEN old.step + 1 ELSE old.step,
           row.decisions = Append(old.decisions, [step |-> old.step, by |-> person, approved |-> approve]),
           row.chain = old.chain, row.submitted = old.submitted, row.by = old.by
    PROVE  RowSound(row)
  <1> DEFINE x == [step |-> old.step, by |-> person, approved |-> approve]
             n == Len(old.decisions)
  <1>1. /\ old.decisions \in Seq(Decision) /\ n \in Nat /\ DOMAIN old.decisions = 1..n
        /\ old.step \in Nat /\ old.submitted \in Nat
        /\ Len(old.chain) \in Nat /\ DOMAIN old.chain = 1..Len(old.chain)
    BY ChainTyped
  <1>2. x \in Decision
    BY <1>1 DEF Decision
  <1>3. x.step = old.step /\ x.by = person /\ x.approved = approve
    OBVIOUS
  <1> HIDE DEF x, n
  <1>4. /\ Len(row.decisions) = n + 1 /\ DOMAIN row.decisions = 1..(n + 1)
        /\ row.decisions[n + 1] = x
        /\ \A k \in 1..n : row.decisions[k] = old.decisions[k]
    BY <1>1, <1>2 DEF x, n
  <1>5. \A k \in 1..n : old.decisions[k].by # person
    BY <1>1 DEF MayDecideList, DecisionsOf
  <1>6. DecidedOnce(row)
    <2>1. \A i, j \in 1..n : i # j => old.decisions[i].by # old.decisions[j].by
      BY <1>1 DEF RowSound, DecidedOnce
    <2>2. \A i \in 1..(n + 1) : i \in 1..n \/ i = n + 1
      BY <1>1
    <2> QED
      BY <1>3, <1>4, <1>5, <2>1, <2>2 DEF DecidedOnce
  <1>7. /\ old.step \in 1..Len(old.chain)
        /\ n = old.submitted + (old.step - 1)
        /\ \A i \in 1..(old.step - 1) : LET y == old.decisions[old.submitted + i]
                                        IN  y.step = i /\ y.approved /\ y.by \in HolderOf[old.chain[i]] \ {old.by}
    BY <1>1 DEF RowSound, SignedUpTo, n
  <1>8. person \in HolderOf[old.chain[old.step]] \ {old.by}
    BY DEF MayDecideList, MayDecideStep
  <1>9. approve => SignedUpTo(row, old.step)
    <2> SUFFICES ASSUME approve
                 PROVE  SignedUpTo(row, old.step)
      OBVIOUS
    <2>1. old.submitted + old.step = n + 1
      BY <1>1, <1>7
    <2>2. ASSUME NEW i \in 1..old.step
          PROVE  LET y == row.decisions[row.submitted + i]
                 IN  y.step = i /\ y.approved /\ y.by \in HolderOf[row.chain[i]] \ {row.by}
      <3>1. CASE i = old.step
        BY <1>3, <1>4, <1>8, <2>1, <3>1
      <3>2. CASE i # old.step
        <4>1. i \in 1..(old.step - 1) /\ old.submitted + i \in 1..n
          BY <1>1, <1>7, <2>1, <3>2
        <4> QED
          BY <1>4, <1>7, <4>1
      <3> QED
        BY <3>1, <3>2
    <2>3. Len(row.decisions) = row.submitted + old.step /\ old.step <= Len(row.chain)
      BY <1>1, <1>4, <1>7, <2>1
    <2> QED
      BY <2>2, <2>3 DEF SignedUpTo
  <1>10. CASE ~approve
    BY <1>6, <1>10 DEF RowSound
  <1>11. CASE approve /\ old.step >= Len(old.chain)
    <2>1. old.step = Len(row.chain)
      BY <1>1, <1>7, <1>11
    <2> QED
      BY <1>6, <1>9, <1>11, <2>1 DEF RowSound
  <1>12. CASE approve /\ ~(old.step >= Len(old.chain))
    <2>1. row.step \in DOMAIN row.chain /\ row.step - 1 = old.step
      BY <1>1, <1>7, <1>12
    <2> QED
      BY <1>6, <1>9, <1>12, <2>1 DEF RowSound
  <1> QED
    BY <1>10, <1>11, <1>12

\* A row whose chain is signed to its end has a signer for each step.
LEMMA SoundSigned ==
    ASSUME NEW row \in ElectiveList, RowSound(row), row.status = "APPROVED"
    PROVE  Signed(row)
  <1> DEFINE signer == [i \in DOMAIN row.chain |-> row.decisions[row.submitted + i].by]
  <1>1. /\ Len(row.decisions) = row.submitted + Len(row.chain)
        /\ DOMAIN row.chain = 1..Len(row.chain) /\ Len(row.chain) \in Nat /\ row.submitted \in Nat
        /\ DOMAIN row.decisions = 1..Len(row.decisions)
        /\ \A k \in DOMAIN row.decisions : row.decisions[k] \in Decision
    BY ChainTyped DEF RowSound, SignedUpTo
  <1>2. ASSUME NEW i \in DOMAIN row.chain
        PROVE  /\ row.submitted + i \in DOMAIN row.decisions /\ row.submitted + i > row.submitted
               /\ row.decisions[row.submitted + i] = [step |-> i, by |-> signer[i], approved |-> TRUE]
               /\ signer[i] \in Officers
               /\ signer[i] \in HolderOf[row.chain[i]] \ {row.by}
    <2>1. row.submitted + i \in DOMAIN row.decisions /\ row.submitted + i > row.submitted
      BY <1>1
    <2>2. LET x == row.decisions[row.submitted + i]
          IN  x.step = i /\ x.approved /\ x.by \in HolderOf[row.chain[i]] \ {row.by}
      BY <1>1 DEF RowSound, SignedUpTo
    <2>3. row.decisions[row.submitted + i] \in Decision
      BY <1>1, <2>1
    <2> QED
      BY <2>1, <2>2, <2>3 DEF Decision
  <1>3. signer \in [DOMAIN row.chain -> Officers]
    BY <1>2
  <1>4. \A i, j \in DOMAIN row.chain : i # j => signer[i] # signer[j]
    <2> SUFFICES ASSUME NEW i \in DOMAIN row.chain, NEW j \in DOMAIN row.chain, i # j
                 PROVE  row.decisions[row.submitted + i].by # row.decisions[row.submitted + j].by
      OBVIOUS
    <2>1. row.submitted + i # row.submitted + j
      BY <1>1
    <2>2. row.submitted + i \in DOMAIN row.decisions /\ row.submitted + j \in DOMAIN row.decisions
      BY <1>2
    <2> QED
      BY <2>1, <2>2 DEF RowSound, DecidedOnce
  <1>5. \A i \in DOMAIN row.chain : [step |-> i, by |-> signer[i], approved |-> TRUE] \in SinceSubmission(row)
    BY <1>2 DEF SinceSubmission
  <1> HIDE DEF signer
  <1> QED
    BY <1>2, <1>3, <1>4, <1>5 DEF Signed

\* Requests that do not touch lists, and lists that do not change
LEMMA ListsKept ==
    ASSUME ListInv, lists' = lists,
           \A d \in Desks : desk'[d] = desk[d] \/ desk'[d].op \notin {"submit", "decideList"}
    PROVE  CopiesSound' /\ ListsSound'
  <1>1. CopiesSound'
    BY DEF ListInv, CopiesSound, MayDecideList, MayDecideStep, DecisionsOf
  <1>2. ListsSound'
    BY DEF ListInv, ListsSound
  <1> QED
    BY <1>1, <1>2

\* A row that is written, sound when it is not stale
LEMMA ListWritten ==
    ASSUME ListInv, NEW d \in Desks, CloseRequest(d), NEW l \in Lists, NEW row \in ElectiveList,
           lists' = [lists EXCEPT ![l] = row], ~row.stale => RowSound(row)
    PROVE  CopiesSound' /\ ListsSound'
  <1>1. desk'[d] = Free /\ \A e \in Desks \ {d} : desk'[e] = desk[e]
    BY DeskCloses DEF ListInv, TypeInv, CourseTypeOK
  <1>2. CopiesSound'
    <2>1. \A e \in Desks : desk'[e].op \in {"submit", "decideList"} => desk'[e] = desk[e]
      BY <1>1 DEF Free
    <2> QED
      BY <2>1 DEF ListInv, CopiesSound, MayDecideList, MayDecideStep, DecisionsOf
  <1>3. lists'[l] = row /\ \A k \in Lists \ {l} : lists'[k] = lists[k]
    BY DEF ListInv, TypeInv, CourseTypeOK
  <1>4. ListsSound'
    BY <1>3 DEF ListInv, ListsSound
  <1> QED
    BY <1>2, <1>4

\* The desk where a request opens has it, and no other changes.
LEMMA ListOpened ==
    ASSUME ListInv, NEW d \in Desks, NEW r \in ListWork \cup ProposalWork \cup EnrollmentWork, OpenRequest(d, r),
           lists' = lists,
           r.op = "decideList" => r.copy.status = "SUBMITTED" /\ MayDecideList(r.by, r.copy),
           r.op = "submit" => r.copy.status \in {"DRAFT", "RETURNED"}
    PROVE  CopiesSound' /\ ListsSound'
  <1>1. desk'[d] = r /\ \A e \in Desks \ {d} : desk'[e] = desk[e]
    BY DeskOpens DEF ListInv, TypeInv, CourseTypeOK
  <1>2. CopiesSound'
    BY <1>1 DEF ListInv, CopiesSound, MayDecideList, MayDecideStep, DecisionsOf
  <1>3. ListsSound'
    BY DEF ListInv, ListsSound
  <1> QED
    BY <1>2, <1>3

\* What the enrollment of scholars does at the desks is no list's concern.
LEMMA EnrollmentDesks ==
    ASSUME TypeInv, EnrollmentNext
    PROVE  /\ UNCHANGED <<lists, proposals>>
           /\ \A d \in Desks : desk'[d] = desk[d] \/ desk'[d].op \in {"free", "register", "enroll", "withdraw", "attempt"}
           /\ \A d \in Desks : desk'[d] = desk[d] \/ desk'[d].op \notin {"submit", "decideList", "recommend", "decide"}
  <1>0. DeskTyped
    BY DEF TypeInv, CourseTypeOK
  <1>1. UNCHANGED <<lists, proposals>>
    BY DEF EnrollmentNext, RecordFeeClearance, StatusLeavesActive, WindowCloses, CreateOffering, Ratified,
           OpenRegistration, OpenEnrollment, OpenWithdrawal, OpenAttempt, WriteRegistration, WriteEnrollment,
           WriteWithdrawal, WriteAttempt, electiveVars
  <1>2. \/ desk' = desk
        \/ \E d \in Desks : \/ CloseRequest(d)
                           \/ \E r : OpenRequest(d, r) /\ r.op \in {"register", "enroll", "withdraw", "attempt"}
    <2>1. ASSUME NEW d \in Desks, NEW s \in Candidates, NEW semester \in Semesters, OpenRegistration(d, s, semester)
          PROVE  \E r : OpenRequest(d, r) /\ r.op \in {"register", "enroll", "withdraw", "attempt"}
      <3> DEFINE r == [op |-> "register", row |-> <<s, semester>>]
      <3>1. OpenRequest(d, r) /\ r.op = "register"
        BY <2>1 DEF OpenRegistration
      <3> HIDE DEF r
      <3> QED
        BY <3>1
    <2>2. ASSUME NEW d \in Desks, NEW s \in Candidates, NEW o \in Offerings, NEW section \in Sections \cup {NoSection},
                 OpenEnrollment(d, s, o, section)
          PROVE  \E r : OpenRequest(d, r) /\ r.op \in {"register", "enroll", "withdraw", "attempt"}
      <3>1. PICK p \in Bases(s, CourseOf[o]) :
               OpenRequest(d, [op |-> "enroll", row |-> <<s, o>>, section |-> section, proposal |-> p])
        BY <2>2 DEF OpenEnrollment
      <3> DEFINE r == [op |-> "enroll", row |-> <<s, o>>, section |-> section, proposal |-> p]
      <3>2. OpenRequest(d, r) /\ r.op = "enroll"
        BY <3>1
      <3> HIDE DEF r
      <3> QED
        BY <3>2
    <2>3. ASSUME NEW d \in Desks, NEW row \in Rows, OpenWithdrawal(d, row) \/ OpenAttempt(d, row)
          PROVE  \E r : OpenRequest(d, r) /\ r.op \in {"register", "enroll", "withdraw", "attempt"}
      <3>1. PICK op \in {"withdraw", "attempt"} : OpenRequest(d, [op |-> op, row |-> row, copy |-> enrollments[row]])
        BY <2>3 DEF OpenWithdrawal, OpenAttempt
      <3> DEFINE r == [op |-> op, row |-> row, copy |-> enrollments[row]]
      <3>2. OpenRequest(d, r) /\ r.op = op
        BY <3>1
      <3> HIDE DEF r
      <3> QED
        BY <3>2
    <2>4. ASSUME NEW d \in Desks, WriteRegistration(d) \/ WriteEnrollment(d) \/ WriteWithdrawal(d) \/ WriteAttempt(d)
          PROVE  CloseRequest(d)
      BY <2>4 DEF WriteRegistration, WriteEnrollment, WriteWithdrawal, WriteAttempt
    <2>5. ASSUME \/ \E s \in Candidates, semester \in Semesters, is \in BOOLEAN : RecordFeeClearance(s, semester, is)
                 \/ \E s \in Candidates : StatusLeavesActive(s)
                 \/ \E semester \in Semesters : WindowCloses(semester)
                 \/ \E o \in Offerings : CreateOffering(o)
          PROVE  desk' = desk
      BY <2>5 DEF RecordFeeClearance, StatusLeavesActive, WindowCloses, CreateOffering
    <2> QED
      BY <2>1, <2>2, <2>3, <2>4, <2>5 DEF EnrollmentNext
  <1>3. ASSUME NEW d \in Desks, CloseRequest(d)
        PROVE  \A e \in Desks : desk'[e] = desk[e] \/ desk'[e].op \in {"free", "register", "enroll", "withdraw", "attempt"}
    BY <1>0, <1>3, DeskCloses DEF Free
  <1>4. ASSUME NEW d \in Desks, NEW r, OpenRequest(d, r), r.op \in {"register", "enroll", "withdraw", "attempt"}
        PROVE  \A e \in Desks : desk'[e] = desk[e] \/ desk'[e].op \in {"free", "register", "enroll", "withdraw", "attempt"}
    BY <1>0, <1>4 DEF OpenRequest, DeskTyped
  <1> QED
    BY <1>1, <1>2, <1>3, <1>4

LEMMA BesideDesks ==
    ASSUME Beside
    PROVE  /\ UNCHANGED <<lists, proposals>>
           /\ \A d \in Desks : desk'[d] = desk[d] \/ desk'[d].op \notin CourseOps
           /\ \A d \in Desks : desk'[d] = desk[d] \/ desk'[d].op \notin {"submit", "decideList"}
           /\ \A d \in Desks : desk'[d] = desk[d] \/ desk'[d].op \notin {"recommend", "decide"}
           /\ \A d \in Desks : desk'[d] = desk[d] \/ desk'[d].op \notin {"withdraw", "attempt"}
  BY DEF Beside, CourseOps, Free

LEMMA ListsNext == ListInv /\ CourseStep => ListInv'
  <1> SUFFICES ASSUME ListInv, CourseStep
               PROVE  CopiesSound' /\ ListsSound'
    BY TypesNext DEF ListInv
  <1>0. TypeInv /\ DeskTyped /\ lists \in [Lists -> {NoList} \cup ElectiveList]
    BY DEF ListInv, TypeInv, CourseTypeOK
  <1>1. ASSUME NEW l \in Lists, NEW person \in Preparers, NEW semester \in Semesters,
               NEW courses \in SUBSET Electives, PrepareList(l, person, semester, courses)
        PROVE  CopiesSound' /\ ListsSound'
    <2> DEFINE row == [status |-> "DRAFT", step |-> 1, chain |-> <<>>, by |-> person, semester |-> semester,
                       courses |-> courses, decisions |-> <<>>, submitted |-> 0, stale |-> FALSE]
    <2>1. lists' = [lists EXCEPT ![l] = row] /\ UNCHANGED desk
      BY <1>1 DEF PrepareList
    <2>2. RowSound(row)
      BY DEF RowSound, DecidedOnce
    <2> HIDE DEF row
    <2>3. lists'[l] = row /\ \A k \in Lists \ {l} : lists'[k] = lists[k]
      BY <1>0, <2>1
    <2>4. ListsSound'
      BY <2>2, <2>3 DEF ListInv, ListsSound
    <2>5. CopiesSound'
      BY <2>1 DEF ListInv, CopiesSound, MayDecideList, MayDecideStep, DecisionsOf
    <2> QED
      BY <2>4, <2>5
  <1>2. ASSUME NEW d \in Desks, NEW l \in Lists, OpenSubmission(d, l)
        PROVE  CopiesSound' /\ ListsSound'
    <2> DEFINE r == [op |-> "submit", id |-> l, copy |-> lists[l]]
    <2>1. lists[l] \in ElectiveList /\ r.op = "submit" /\ r.copy.status \in {"DRAFT", "RETURNED"}
      BY <1>0, <1>2 DEF OpenSubmission, NoList
    <2>2. r \in ListWork /\ OpenRequest(d, r) /\ lists' = lists
      BY <1>2, <2>1 DEF OpenSubmission, ListWork, electiveVars
    <2> HIDE DEF r
    <2> QED
      BY <2>1, <2>2, ListOpened
  <1>3. ASSUME NEW d \in Desks, NEW l \in Lists, NEW person \in Officers, NEW approve \in BOOLEAN,
               OpenListDecision(d, l, person, approve)
        PROVE  CopiesSound' /\ ListsSound'
    <2> DEFINE r == [op |-> "decideList", id |-> l, copy |-> lists[l], by |-> person, approve |-> approve]
    <2>1. /\ lists[l] \in ElectiveList /\ r.op = "decideList"
          /\ r.copy.status = "SUBMITTED" /\ MayDecideList(r.by, r.copy)
      BY <1>0, <1>3 DEF OpenListDecision, NoList
    <2>2. r \in ListWork
      BY <2>1 DEF ListWork
    <2>3. OpenRequest(d, r) /\ lists' = lists
      BY <1>3 DEF OpenListDecision, electiveVars
    <2> HIDE DEF r
    <2> QED
      BY <2>1, <2>2, <2>3, ListOpened
  <1>4. ASSUME NEW d \in Desks, WriteSubmission(d)
        PROVE  CopiesSound' /\ ListsSound'
    <2>1. PICK l \in Lists, row \in ElectiveList :
              /\ l = desk[d].id /\ lists[l] \in ElectiveList
              /\ lists' = [lists EXCEPT ![l] = row]
              /\ row.status = "SUBMITTED" /\ row.step = 1 /\ row.chain \in ListChains
              /\ row.submitted = Len(lists[l].decisions)
              /\ row.decisions = lists[l].decisions
              /\ ~row.stale => ~lists[l].stale
      BY <1>0, <1>4, SubmissionWritten
    <2>2. ~row.stale => RowSound(lists[l])
      BY <2>1, RowsTold DEF ListInv, ListsSound
    <2>3. ~row.stale => RowSound(row)
      BY <2>1, <2>2, SubmissionSound
    <2> QED
      BY <1>4, <2>1, <2>3, ListWritten DEF WriteSubmission
  <1>5. ASSUME NEW d \in Desks, WriteListDecision(d)
        PROVE  CopiesSound' /\ ListsSound'
    <2>1. PICK l \in Lists, row \in ElectiveList, copy \in ElectiveList :
              LET last == copy.step >= Len(copy.chain)
              IN  /\ l = desk[d].id /\ copy = desk[d].copy /\ lists[l] \in ElectiveList
                  /\ lists' = [lists EXCEPT ![l] = row]
                  /\ row.status = IF ~desk[d].approve THEN "RETURNED" ELSE IF last THEN "APPROVED" ELSE copy.status
                  /\ row.step = IF desk[d].approve /\ ~last THEN copy.step + 1 ELSE copy.step
                  /\ row.decisions = Append(lists[l].decisions,
                                            [step |-> copy.step, by |-> desk[d].by, approved |-> desk[d].approve])
                  /\ row.chain = lists[l].chain /\ row.submitted = lists[l].submitted
                  /\ row.by = lists[l].by /\ row.semester = lists[l].semester /\ row.courses = lists[l].courses
                  /\ ~row.stale => lists[l] = copy /\ ~lists[l].stale
      BY <1>0, <1>5, ListDecisionWritten
    <2>2. desk[d].by \in Officers /\ desk[d].approve \in BOOLEAN
      BY <1>0, <1>5, InHand DEF WriteListDecision
    <2>3. copy.status = "SUBMITTED" /\ MayDecideList(desk[d].by, copy)
      BY <1>5, <2>1 DEF ListInv, CopiesSound, WriteListDecision
    <2>4. ~row.stale => RowSound(row)
      <3> SUFFICES ASSUME ~row.stale
                   PROVE  RowSound(row)
        OBVIOUS
      <3>1. RowSound(lists[l]) /\ lists[l] = copy
        BY <2>1, RowsTold DEF ListInv, ListsSound
      <3> QED
        BY <2>1, <2>2, <2>3, <3>1, DecisionSound
    <2> QED
      BY <1>5, <2>1, <2>4, ListWritten DEF WriteListDecision
  <1>6. ASSUME NEW p \in Proposals, NEW scholar \in Candidates, NEW semester \in Semesters,
               NEW course \in Electives \cup {NoElective}, Propose(p, scholar, semester, course)
        PROVE  CopiesSound' /\ ListsSound'
    BY <1>6, ListsKept DEF Propose
  <1>7. ASSUME NEW d \in Desks, NEW p \in Proposals, NEW person \in Officers, NEW positive \in BOOLEAN,
               OpenRecommendation(d, p, person, positive) \/ OpenProposalDecision(d, p, person, positive)
        PROVE  CopiesSound' /\ ListsSound'
    <2>1. PICK op \in {"recommend", "decide"}, status \in {"RECOMMENDED", "NOT_RECOMMENDED", "APPROVED", "REJECTED"} :
             desk' = [desk EXCEPT ![d] = [op |-> op, id |-> p, copy |-> proposals[p], by |-> person, status |-> status]]
      BY <1>7 DEF OpenRecommendation, OpenProposalDecision, OpenRequest
    <2>2. \A e \in Desks : desk'[e] = desk[e] \/ desk'[e].op \notin {"submit", "decideList"}
      BY <1>0, <2>1 DEF DeskTyped
    <2>3. lists' = lists
      BY <1>7 DEF OpenRecommendation, OpenProposalDecision, electiveVars
    <2> QED
      BY <2>2, <2>3, ListsKept
  <1>8. ASSUME NEW d \in Desks, WriteRecommendation(d) \/ WriteProposalDecision(d)
        PROVE  CopiesSound' /\ ListsSound'
    <2>1. CloseRequest(d) /\ lists' = lists
      BY <1>8 DEF WriteRecommendation, WriteProposalDecision
    <2>2. \A e \in Desks : desk'[e] = desk[e] \/ desk'[e].op \notin {"submit", "decideList"}
      BY <1>0, <2>1, DeskCloses DEF Free
    <2> QED
      BY <2>1, <2>2, ListsKept
  <1>9. CASE EnrollmentNext
    BY <1>0, <1>9, EnrollmentDesks, ListsKept
  <1>10. CASE UNCHANGED courseVars
    BY <1>10, ListsKept DEF courseVars, electiveVars
  <1>11. CASE Beside
    BY <1>11, ListsKept, BesideDesks
  <1> QED
    BY <1>1, <1>2, <1>3, <1>4, <1>5, <1>6, <1>7, <1>8, <1>9, <1>10, <1>11 DEF CourseStep, CourseNext, ElectiveNext

LEMMA ListsInit == ElectiveInit /\ EnrollmentInit => ListInv
  BY TypesInit DEF ElectiveInit, ListInv, CopiesSound, ListsSound, Free

LEMMA ListsTold == ListInv => ListSigned
  <1> SUFFICES ASSUME ListInv, NEW l \in Lists, lists[l].status = "APPROVED", ~lists[l].stale
               PROVE  Signed(lists[l])
    BY DEF ListSigned
  <1>1. lists[l] \in ElectiveList /\ lists[l] # NoList
    BY DEF NoList, ListInv, TypeInv, CourseTypeOK
  <1> QED
    BY <1>1, SoundSigned DEF ListInv, ListsSound

-----------------------------------------------------------------------------
(* Enrollments in electives: what they rest on *)

\* A proposal is recommended and decided on a copy that was still open.
CopiesOpen ==
    \A d \in Desks :
        /\ desk[d].op = "recommend" => desk[d].copy.status = "SUBMITTED"
        /\ desk[d].op = "decide" => /\ desk[d].copy.status \in {"SUBMITTED", "RECOMMENDED", "NOT_RECOMMENDED"}
                                    /\ MayDecideProposal(desk[d].by, desk[d].copy)

DecidedApart ==
    \A p \in Proposals : proposals[p].status = "APPROVED" /\ ~proposals[p].stale =>
        proposals[p].decider \notin {proposals[p].scholar, proposals[p].recommender}

\* The proposal was approved for the scholar and the course, and is still unless a request wrote over it.
Granted(p, s, course) ==
    /\ p \in Proposals
    /\ proposals[p] # NoProposal
    /\ proposals[p].scholar = s /\ proposals[p].course = course
    /\ proposals[p].stale \/ proposals[p].status = "APPROVED"

BasesGranted ==
    /\ \A row \in Rows : enrollments[row] # NotEnrolled /\ CourseOf[row[2]] \in Electives =>
          Granted(enrollments[row].proposal, row[1], CourseOf[row[2]])
    /\ \A d \in Desks : desk[d].op = "enroll" /\ CourseOf[desk[d].row[2]] \in Electives =>
          Granted(desk[d].proposal, desk[d].row[1], CourseOf[desk[d].row[2]])

Backed(course, semester) ==
    \/ \E l \in Lists : lists[l] # NoList /\ lists[l].stale
    \/ ApprovedLists(course, semester) # {}

ProposalsBacked ==
    ListRequired => \A p \in Proposals : proposals[p] # NoProposal /\ proposals[p].course # NoElective =>
                       Backed(proposals[p].course, proposals[p].semester)

RestsInv == ListInv /\ CopiesOpen /\ DecidedApart /\ BasesGranted /\ ProposalsBacked

\* What writes lists, and what writes proposals
LEMMA ListsChange ==
    ASSUME TypeInv, CourseStep
    PROVE  \/ lists' = lists
           \/ \E l \in Lists, person \in Preparers, semester \in Semesters, courses \in SUBSET Electives :
                 PrepareList(l, person, semester, courses)
           \/ \E d \in Desks : WriteSubmission(d) \/ WriteListDecision(d)
  <1>1. CASE EnrollmentNext
    BY <1>1, EnrollmentDesks
  <1>2. CASE ElectiveNext
    BY <1>2 DEF ElectiveNext, Propose, OpenSubmission, OpenListDecision, OpenRecommendation, OpenProposalDecision,
                WriteRecommendation, WriteProposalDecision, electiveVars
  <1> QED
    BY <1>1, <1>2, BesideDesks DEF CourseStep, CourseNext, courseVars, electiveVars

LEMMA ProposalsChange ==
    ASSUME TypeInv, CourseStep
    PROVE  \/ proposals' = proposals
           \/ \E p \in Proposals, scholar \in Candidates, semester \in Semesters, course \in Electives \cup {NoElective} :
                 Propose(p, scholar, semester, course)
           \/ \E d \in Desks : WriteRecommendation(d) \/ WriteProposalDecision(d)
  <1>1. CASE EnrollmentNext
    BY <1>1, EnrollmentDesks
  <1>2. CASE ElectiveNext
    BY <1>2 DEF ElectiveNext, PrepareList, OpenSubmission, OpenListDecision, OpenRecommendation,
                OpenProposalDecision, WriteSubmission, WriteListDecision, electiveVars
  <1> QED
    BY <1>1, <1>2, BesideDesks DEF CourseStep, CourseNext, courseVars, electiveVars

\* An approved list stays as it is and no list is deleted, unless a request writes over one it had not read.
LEMMA ListStays ==
    ASSUME ListInv, CourseStep, NEW l \in Lists, lists[l] # NoList
    PROVE  /\ lists'[l] # NoList
           /\ lists[l].stale => lists'[l].stale
           /\ lists[l].status = "APPROVED" /\ ~lists'[l].stale => lists'[l] = lists[l]
  <1>0. TypeInv /\ lists \in [Lists -> {NoList} \cup ElectiveList] /\ lists[l] \in ElectiveList
    BY DEF ListInv, TypeInv, CourseTypeOK
  <1>1. CASE lists'[l] = lists[l]
    BY <1>1
  <1>2. ASSUME NEW k \in Lists, NEW person \in Preparers, NEW semester \in Semesters,
               NEW courses \in SUBSET Electives, PrepareList(k, person, semester, courses)
        PROVE  lists'[l] = lists[l]
    BY <1>0, <1>2 DEF PrepareList
  <1>3. ASSUME NEW d \in Desks, WriteSubmission(d)
        PROVE  /\ lists'[l] # NoList
               /\ lists[l].stale => lists'[l].stale
               /\ lists[l].status = "APPROVED" /\ ~lists'[l].stale => lists'[l] = lists[l]
    <2>1. PICK k \in Lists, row \in ElectiveList :
              /\ lists' = [lists EXCEPT ![k] = row]
              /\ ~row.stale => lists[k] = desk[d].copy /\ ~lists[k].stale
      BY <1>0, <1>3, SubmissionWritten
    <2>2. desk[d].copy.status \in {"DRAFT", "RETURNED"}
      BY <1>3 DEF WriteSubmission, ListInv, CopiesSound
    <2> QED
      BY <1>0, <2>1, <2>2, RowsTold
  <1>4. ASSUME NEW d \in Desks, WriteListDecision(d)
        PROVE  /\ lists'[l] # NoList
               /\ lists[l].stale => lists'[l].stale
               /\ lists[l].status = "APPROVED" /\ ~lists'[l].stale => lists'[l] = lists[l]
    <2>1. PICK k \in Lists, row \in ElectiveList, copy \in ElectiveList :
              LET last == copy.step >= Len(copy.chain)
              IN  /\ k = desk[d].id /\ copy = desk[d].copy /\ lists[k] \in ElectiveList
                  /\ lists' = [lists EXCEPT ![k] = row]
                  /\ row.status = IF ~desk[d].approve THEN "RETURNED" ELSE IF last THEN "APPROVED" ELSE copy.status
                  /\ row.step = IF desk[d].approve /\ ~last THEN copy.step + 1 ELSE copy.step
                  /\ row.decisions = Append(lists[k].decisions,
                                            [step |-> copy.step, by |-> desk[d].by, approved |-> desk[d].approve])
                  /\ row.chain = lists[k].chain /\ row.submitted = lists[k].submitted
                  /\ row.by = lists[k].by /\ row.semester = lists[k].semester /\ row.courses = lists[k].courses
                  /\ ~row.stale => lists[k] = copy /\ ~lists[k].stale
      BY <1>0, <1>4, ListDecisionWritten
    <2>2. desk[d].copy.status = "SUBMITTED"
      BY <1>4 DEF WriteListDecision, ListInv, CopiesSound
    <2> QED
      BY <1>0, <2>1, <2>2, RowsTold
  <1> QED
    BY <1>0, <1>1, <1>2, <1>3, <1>4, ListsChange

\* Whose proposal it is, for which course and when never changes; an approved one stays as it is.
LEMMA ProposalStays ==
    ASSUME TypeInv, CopiesOpen, CourseStep, NEW p \in Proposals, proposals[p] # NoProposal
    PROVE  /\ proposals'[p] # NoProposal
           /\ proposals'[p].scholar = proposals[p].scholar
           /\ proposals'[p].course = proposals[p].course
           /\ proposals'[p].semester = proposals[p].semester
           /\ proposals[p].stale => proposals'[p].stale
           /\ proposals[p].status = "APPROVED" /\ ~proposals'[p].stale => proposals'[p] = proposals[p]
  <1>0. proposals \in [Proposals -> {NoProposal} \cup Proposal] /\ proposals[p] \in Proposal
    BY DEF TypeInv, CourseTypeOK
  <1>1. ASSUME NEW q \in Proposals, NEW scholar \in Candidates, NEW semester \in Semesters,
               NEW course \in Electives \cup {NoElective}, Propose(q, scholar, semester, course)
        PROVE  proposals'[p] = proposals[p]
    BY <1>0, <1>1 DEF Propose
  <1>2. ASSUME NEW d \in Desks, WriteRecommendation(d) \/ WriteProposalDecision(d)
        PROVE  /\ proposals'[p] # NoProposal
               /\ proposals'[p].scholar = proposals[p].scholar
               /\ proposals'[p].course = proposals[p].course
               /\ proposals'[p].semester = proposals[p].semester
               /\ proposals[p].stale => proposals'[p].stale
               /\ proposals[p].status = "APPROVED" /\ ~proposals'[p].stale => proposals'[p] = proposals[p]
    <2>1. PICK q \in Proposals, row \in Proposal :
              /\ proposals' = [proposals EXCEPT ![q] = row]
              /\ row.scholar = proposals[q].scholar /\ row.semester = proposals[q].semester
              /\ row.course = proposals[q].course
              /\ ~row.stale => proposals[q] = desk[d].copy /\ ~proposals[q].stale
      <3>1. \E q \in Proposals, row \in Proposal :
              /\ q = desk[d].id /\ proposals[q] \in Proposal
              /\ proposals' = [proposals EXCEPT ![q] = row]
              /\ row.status = desk[d].status
              /\ row.scholar = proposals[q].scholar /\ row.semester = proposals[q].semester
              /\ row.course = proposals[q].course
              /\ row.recommender = IF desk[d].op = "recommend" THEN desk[d].by ELSE proposals[q].recommender
              /\ row.decider = IF desk[d].op = "decide" THEN desk[d].by ELSE proposals[q].decider
              /\ ~row.stale => proposals[q] = desk[d].copy /\ ~proposals[q].stale
        BY <1>2, ProposalWritten
      <3> QED
        BY <3>1
    <2>2. desk[d].copy.status \in {"SUBMITTED", "RECOMMENDED", "NOT_RECOMMENDED"}
      BY <1>2 DEF WriteRecommendation, WriteProposalDecision, CopiesOpen
    <2> QED
      BY <1>0, <2>1, <2>2, RowsTold
  <1> QED
    BY <1>1, <1>2, ProposalsChange

LEMMA GrantedStays ==
    ASSUME TypeInv, CopiesOpen, CourseStep, NEW p, NEW s, NEW course, Granted(p, s, course)
    PROVE  Granted(p, s, course)'
  BY ProposalStays DEF Granted

LEMMA BackedStays ==
    ASSUME ListInv, CourseStep, NEW course, NEW semester, Backed(course, semester)
    PROVE  Backed(course, semester)'
  <1>1. CASE \E l \in Lists : lists[l] # NoList /\ lists[l].stale
    BY <1>1, ListStays DEF Backed
  <1>2. CASE ApprovedLists(course, semester) # {}
    <2>1. PICK l \in Lists : lists[l].status = "APPROVED" /\ lists[l].semester = semester /\ course \in lists[l].courses
      BY <1>2 DEF ApprovedLists
    <2>2. lists[l] # NoList
      BY <2>1 DEF NoList
    <2> QED
      BY <2>1, <2>2, ListStays DEF Backed, ApprovedLists
  <1> QED
    BY <1>1, <1>2 DEF Backed

\* What the desks have in hand after a step was there before, or was opened by it.
LEMMA DecisionsOpened ==
    ASSUME TypeInv, CopiesOpen, CourseStep
    PROVE  CopiesOpen'
  <1>0. DeskTyped
    BY DEF TypeInv, CourseTypeOK
  <1>1. ASSUME NEW d \in Desks, NEW p \in Proposals, NEW person \in Officers, NEW positive \in BOOLEAN,
               OpenRecommendation(d, p, person, positive)
        PROVE  CopiesOpen'
    <2> DEFINE r == [op |-> "recommend", id |-> p, copy |-> proposals[p], by |-> person,
                     status |-> IF positive THEN "RECOMMENDED" ELSE "NOT_RECOMMENDED"]
    <2>1. r.op = "recommend" /\ r.copy.status = "SUBMITTED"
      BY <1>1 DEF OpenRecommendation
    <2>2. desk' = [desk EXCEPT ![d] = r]
      BY <1>1 DEF OpenRecommendation, OpenRequest
    <2> HIDE DEF r
    <2>3. desk'[d] = r /\ \A e \in Desks \ {d} : desk'[e] = desk[e]
      BY <1>0, <2>2 DEF DeskTyped
    <2> QED
      BY <2>1, <2>3 DEF CopiesOpen, MayDecideProposal
  <1>2. ASSUME NEW d \in Desks, NEW p \in Proposals, NEW person \in Officers, NEW positive \in BOOLEAN,
               OpenProposalDecision(d, p, person, positive)
        PROVE  CopiesOpen'
    <2> DEFINE r == [op |-> "decide", id |-> p, copy |-> proposals[p], by |-> person,
                     status |-> IF positive THEN "APPROVED" ELSE "REJECTED"]
    <2>1. /\ r.op = "decide" /\ r.copy.status \in {"SUBMITTED", "RECOMMENDED", "NOT_RECOMMENDED"}
          /\ MayDecideProposal(r.by, r.copy)
      BY <1>2 DEF OpenProposalDecision, Decidable
    <2>2. desk' = [desk EXCEPT ![d] = r]
      BY <1>2 DEF OpenProposalDecision, OpenRequest
    <2> HIDE DEF r
    <2>3. desk'[d] = r /\ \A e \in Desks \ {d} : desk'[e] = desk[e]
      BY <1>0, <2>2 DEF DeskTyped
    <2> QED
      BY <2>1, <2>3 DEF CopiesOpen, MayDecideProposal
  <1>3. ASSUME \A d \in Desks : desk'[d] = desk[d] \/ desk'[d].op \notin {"recommend", "decide"}
        PROVE  CopiesOpen'
    BY <1>3 DEF CopiesOpen, MayDecideProposal
  <1>4. ASSUME NEW d \in Desks, CloseRequest(d)
        PROVE  \A e \in Desks : desk'[e] = desk[e] \/ desk'[e].op \notin {"recommend", "decide"}
    BY <1>0, <1>4, DeskCloses DEF Free
  <1>5. ASSUME NEW d \in Desks, NEW l \in Lists, OpenSubmission(d, l)
        PROVE  \A e \in Desks : desk'[e] = desk[e] \/ desk'[e].op \notin {"recommend", "decide"}
    <2>1. desk' = [desk EXCEPT ![d] = [op |-> "submit", id |-> l, copy |-> lists[l]]]
      BY <1>5 DEF OpenSubmission, OpenRequest
    <2> QED
      BY <1>0, <2>1 DEF DeskTyped
  <1>6. ASSUME NEW d \in Desks, NEW l \in Lists, NEW person \in Officers, NEW approve \in BOOLEAN,
               OpenListDecision(d, l, person, approve)
        PROVE  \A e \in Desks : desk'[e] = desk[e] \/ desk'[e].op \notin {"recommend", "decide"}
    <2>1. desk' = [desk EXCEPT ![d] = [op |-> "decideList", id |-> l, copy |-> lists[l], by |-> person, approve |-> approve]]
      BY <1>6 DEF OpenListDecision, OpenRequest
    <2> QED
      BY <1>0, <2>1 DEF DeskTyped
  <1>7. CASE EnrollmentNext
    BY <1>3, <1>7, EnrollmentDesks
  <1>8. ASSUME NEW d \in Desks, WriteSubmission(d) \/ WriteListDecision(d) \/ WriteRecommendation(d) \/ WriteProposalDecision(d)
        PROVE  CloseRequest(d)
    BY <1>8 DEF WriteSubmission, WriteListDecision, WriteRecommendation, WriteProposalDecision
  <1>9. ASSUME \/ \E l \in Lists, person \in Preparers, semester \in Semesters, courses \in SUBSET Electives :
                    PrepareList(l, person, semester, courses)
               \/ \E p \in Proposals, scholar \in Candidates, semester \in Semesters, course \in Electives \cup {NoElective} :
                    Propose(p, scholar, semester, course)
               \/ UNCHANGED courseVars
        PROVE  desk' = desk
    BY <1>9 DEF PrepareList, Propose, courseVars
  <1>10. CASE Beside
    BY <1>3, <1>10, BesideDesks
  <1> QED
    BY <1>1, <1>2, <1>3, <1>4, <1>5, <1>6, <1>7, <1>8, <1>9, <1>10 DEF CourseStep, CourseNext, ElectiveNext

\* A proposal that is approved now was before, or a holder of the authority just approved it apart from the
\* scholar and the recommender.
LEMMA DecidedApartStays ==
    ASSUME TypeInv, CopiesOpen, DecidedApart, CourseStep
    PROVE  DecidedApart'
  <1>0. proposals \in [Proposals -> {NoProposal} \cup Proposal]
    BY DEF TypeInv, CourseTypeOK
  <1>1. ASSUME NEW q \in Proposals, NEW scholar \in Candidates, NEW semester \in Semesters,
               NEW course \in Electives \cup {NoElective}, Propose(q, scholar, semester, course)
        PROVE  DecidedApart'
    BY <1>0, <1>1 DEF Propose, DecidedApart
  <1>2. ASSUME NEW d \in Desks, WriteRecommendation(d) \/ WriteProposalDecision(d)
        PROVE  DecidedApart'
    <2>1. PICK q \in Proposals, row \in Proposal :
              /\ q = desk[d].id /\ proposals[q] \in Proposal
              /\ proposals' = [proposals EXCEPT ![q] = row]
              /\ row.status = desk[d].status
              /\ row.scholar = proposals[q].scholar /\ row.semester = proposals[q].semester
              /\ row.course = proposals[q].course
              /\ row.recommender = IF desk[d].op = "recommend" THEN desk[d].by ELSE proposals[q].recommender
              /\ row.decider = IF desk[d].op = "decide" THEN desk[d].by ELSE proposals[q].decider
              /\ ~row.stale => proposals[q] = desk[d].copy /\ ~proposals[q].stale
      BY <1>2, ProposalWritten
    <2>2. desk[d].op \in {"recommend", "decide"} /\ (desk[d].op = "recommend" => row.status # "APPROVED")
      BY <1>2, <2>1, InHand DEF WriteRecommendation, WriteProposalDecision, TypeInv, CourseTypeOK
    <2>3. row.status = "APPROVED" /\ ~row.stale => row.decider \notin {row.scholar, row.recommender}
      BY <2>1, <2>2 DEF CopiesOpen, MayDecideProposal
    <2> QED
      BY <1>0, <2>1, <2>3 DEF DecidedApart
  <1>3. CASE proposals' = proposals
    BY <1>3 DEF DecidedApart
  <1> QED
    <2>1. CASE EnrollmentNext
      BY <1>3, <2>1, EnrollmentDesks
    <2>2. CASE ElectiveNext
      BY <1>1, <1>2, <1>3, <2>2 DEF ElectiveNext, PrepareList, OpenSubmission, OpenListDecision, OpenRecommendation,
                  OpenProposalDecision, WriteSubmission, WriteListDecision, electiveVars
    <2> QED
      BY <1>3, <2>1, <2>2, BesideDesks DEF CourseStep, CourseNext, courseVars, electiveVars

LEMMA ProposalsBackedStays ==
    ASSUME ListInv, CopiesOpen, ProposalsBacked, CourseStep
    PROVE  ProposalsBacked'
  <1>0. TypeInv /\ proposals \in [Proposals -> {NoProposal} \cup Proposal]
    BY DEF ListInv, TypeInv, CourseTypeOK
  <1> SUFFICES ASSUME ListRequired, NEW p \in Proposals, proposals'[p] # NoProposal, proposals'[p].course # NoElective
               PROVE  Backed(proposals[p].course, proposals[p].semester)'
    BY DEF ProposalsBacked
  <1>1. CASE proposals[p] # NoProposal
    <2>1. proposals'[p].course = proposals[p].course /\ proposals'[p].semester = proposals[p].semester
      BY <1>0, <1>1, ProposalStays
    <2>2. PICK course, semester : course = proposals[p].course /\ semester = proposals[p].semester
      OBVIOUS
    <2>3. Backed(course, semester)
      BY <1>1, <2>1, <2>2 DEF ProposalsBacked
    <2>4. Backed(course, semester)'
      BY <2>3, BackedStays
    <2> QED
      BY <2>1, <2>2, <2>4 DEF Backed, ApprovedLists
  <1>2. CASE proposals[p] = NoProposal
    <2>1. \E q \in Proposals, scholar \in Candidates, semester \in Semesters, course \in Electives \cup {NoElective} :
             Propose(q, scholar, semester, course)
      <3>1. CASE EnrollmentNext
        BY <1>0, <1>2, <3>1, EnrollmentDesks
      <3>2. CASE \E d \in Desks : WriteRecommendation(d) \/ WriteProposalDecision(d)
        <4>1. \E q \in Proposals, row \in Proposal :
                 proposals[q] \in Proposal /\ proposals' = [proposals EXCEPT ![q] = row]
          BY <1>0, <3>2, ProposalWritten
        <4> QED
          BY <1>0, <1>2, <4>1, RowsTold
      <3>3. CASE ElectiveNext
        BY <1>2, <3>2, <3>3 DEF ElectiveNext, PrepareList, OpenSubmission, OpenListDecision, OpenRecommendation,
                  OpenProposalDecision, WriteSubmission, WriteListDecision, electiveVars
      <3> QED
        BY <1>2, <3>1, <3>3, BesideDesks DEF CourseStep, CourseNext, courseVars, electiveVars
    <2>2. PICK q \in Proposals, scholar \in Candidates, semester \in Semesters, course \in Electives \cup {NoElective} :
             Propose(q, scholar, semester, course)
      BY <2>1
    <2>3. q = p /\ proposals'[p].course = course /\ proposals'[p].semester = semester
      BY <1>0, <1>2, <2>2 DEF Propose
    <2>4. ApprovedLists(course, semester) # {} /\ lists' = lists
      BY <2>2, <2>3 DEF Propose
    <2> QED
      BY <2>3, <2>4 DEF Backed, ApprovedLists
  <1> QED
    BY <1>1, <1>2

\* An enrollment keeps the proposal it was written with, and that is the one the request was checked with.
LEMMA EnrollmentWritten ==
    ASSUME TypeInv, CourseStep, NEW row \in Rows, enrollments'[row] # NotEnrolled
    PROVE  \/ enrollments[row] # NotEnrolled /\ enrollments'[row].proposal = enrollments[row].proposal
           \/ \E d \in Desks : /\ desk[d].op = "enroll" /\ desk[d].row = row
                               /\ enrollments'[row].proposal = desk[d].proposal
  <1> DEFINE Told == \/ enrollments[row] # NotEnrolled /\ enrollments'[row].proposal = enrollments[row].proposal
                     \/ \E d \in Desks : /\ desk[d].op = "enroll" /\ desk[d].row = row
                                         /\ enrollments'[row].proposal = desk[d].proposal
  <1> SUFFICES Told
    OBVIOUS
  <1>0. enrollments \in [Rows -> {NotEnrolled} \cup EnrollmentRow] /\ DeskTyped
    BY DEF TypeInv, CourseTypeOK
  <1>1. CASE enrollments' = enrollments
    BY <1>1
  <1>2. ASSUME NEW d \in Desks, WriteEnrollment(d)
        PROVE  Told
    <2>1. CASE enrollments[desk[d].row] = NotEnrolled
      <3>1. enrollments' = [enrollments EXCEPT ![desk[d].row] = NewEnrollment(desk[d].section, desk[d].proposal)]
        BY <1>2, <2>1 DEF WriteEnrollment
      <3>2. NewEnrollment(desk[d].section, desk[d].proposal).proposal = desk[d].proposal
        BY DEF NewEnrollment
      <3> QED
        BY <1>0, <1>2, <3>1, <3>2 DEF WriteEnrollment
    <2>2. CASE enrollments[desk[d].row] # NotEnrolled
      BY <1>1, <1>2, <2>2 DEF WriteEnrollment
    <2> QED
      BY <2>1, <2>2
  <1>3. ASSUME NEW k \in Rows, enrollments[k] # NotEnrolled,
               \/ enrollments' = [enrollments EXCEPT ![k].status = "WITHDRAWN"]
               \/ enrollments' = [enrollments EXCEPT ![k].tried = TRUE]
               \/ \E pass \in BOOLEAN : Ratified(k, pass)
        PROVE  Told
    <2>1. PICK new \in EnrollmentRow : /\ enrollments[k] \in EnrollmentRow
                                       /\ enrollments' = [enrollments EXCEPT ![k] = new]
                                       /\ new.section = enrollments[k].section /\ new.proposal = enrollments[k].proposal
      BY <1>3, EnrollmentChanged
    <2> QED
      BY <1>0, <1>3, <2>1
  <1>4. ASSUME NEW d \in Desks, WriteWithdrawal(d) \/ WriteAttempt(d)
        PROVE  Told
    <2>1. PICK k \in Rows : k = desk[d].row
      BY <1>0, <1>4, InHand DEF WriteWithdrawal, WriteAttempt
    <2>2. /\ enrollments[k] # NotEnrolled
          /\ \/ enrollments' = [enrollments EXCEPT ![k].status = "WITHDRAWN"]
             \/ enrollments' = [enrollments EXCEPT ![k].tried = TRUE]
      BY <1>4, <2>1 DEF WriteWithdrawal, WriteAttempt, RowsExist, TypeInv
    <2> QED
      BY <1>3, <2>2
  <1>5. ASSUME NEW k \in Rows, NEW pass \in BOOLEAN, Ratified(k, pass)
        PROVE  Told
    <2>1. enrollments[k] # NotEnrolled
      BY <1>5 DEF Ratified
    <2> QED
      BY <1>3, <1>5, <2>1
  <1>6. CASE EnrollmentNext
    <2>1. \/ enrollments' = enrollments
          \/ \E d \in Desks : WriteEnrollment(d) \/ WriteWithdrawal(d) \/ WriteAttempt(d)
          \/ \E k \in Rows, pass \in BOOLEAN : Ratified(k, pass)
      BY <1>6 DEF EnrollmentNext, RecordFeeClearance, StatusLeavesActive, WindowCloses, CreateOffering,
           OpenRegistration, OpenEnrollment, OpenWithdrawal, OpenAttempt, WriteRegistration, enrollmentVars
    <2> QED
      BY <1>1, <1>2, <1>4, <1>5, <2>1
  <1>7. CASE Beside
    BY <1>1, <1>3, <1>5, <1>7 DEF Beside, TriedBeside
  <1> HIDE DEF Told
  <1> QED
    BY <1>1, <1>6, <1>7 DEF CourseStep, CourseNext, courseVars, enrollmentVars

\* What lists and proposals do at the desks is no enrollment's concern.
LEMMA ElectiveDesks ==
    ASSUME DeskTyped, ElectiveNext
    PROVE  \A d \in Desks : desk'[d] = desk[d] \/ desk'[d].op \in {"free", "submit", "decideList", "recommend", "decide"}
  <1> DEFINE Told == \A d \in Desks : desk'[d] = desk[d] \/ desk'[d].op \in {"free", "submit", "decideList", "recommend", "decide"}
  <1> SUFFICES Told
    OBVIOUS
  <1>1. ASSUME NEW e \in Desks, NEW r, OpenRequest(e, r), r.op \in {"submit", "decideList", "recommend", "decide"}
        PROVE  Told
    BY <1>1 DEF OpenRequest, DeskTyped
  <1>2. ASSUME NEW e \in Desks, CloseRequest(e)
        PROVE  Told
    BY <1>2, DeskCloses DEF Free
  <1>3. CASE desk' = desk
    BY <1>3
  <1> HIDE DEF Told
  <1>4. ASSUME NEW e \in Desks, NEW l \in Lists, OpenSubmission(e, l)
        PROVE  Told
    <2> DEFINE r == [op |-> "submit", id |-> l, copy |-> lists[l]]
    <2>1. OpenRequest(e, r) /\ r.op = "submit"
      BY <1>4 DEF OpenSubmission
    <2> HIDE DEF r
    <2> QED
      BY <1>1, <2>1
  <1>5. ASSUME NEW e \in Desks, NEW l \in Lists, NEW person \in Officers, NEW approve \in BOOLEAN,
               OpenListDecision(e, l, person, approve)
        PROVE  Told
    <2> DEFINE r == [op |-> "decideList", id |-> l, copy |-> lists[l], by |-> person, approve |-> approve]
    <2>1. OpenRequest(e, r) /\ r.op = "decideList"
      BY <1>5 DEF OpenListDecision
    <2> HIDE DEF r
    <2> QED
      BY <1>1, <2>1
  <1>6. ASSUME NEW e \in Desks, NEW p \in Proposals, NEW person \in Officers, NEW positive \in BOOLEAN,
               OpenRecommendation(e, p, person, positive) \/ OpenProposalDecision(e, p, person, positive)
        PROVE  Told
    <2>1. PICK op \in {"recommend", "decide"}, status \in {"RECOMMENDED", "NOT_RECOMMENDED", "APPROVED", "REJECTED"} :
             OpenRequest(e, [op |-> op, id |-> p, copy |-> proposals[p], by |-> person, status |-> status])
      BY <1>6 DEF OpenRecommendation, OpenProposalDecision
    <2> DEFINE r == [op |-> op, id |-> p, copy |-> proposals[p], by |-> person, status |-> status]
    <2>2. OpenRequest(e, r) /\ r.op = op
      BY <2>1
    <2> HIDE DEF r
    <2> QED
      BY <1>1, <2>2
  <1>7. ASSUME NEW e \in Desks, WriteSubmission(e) \/ WriteListDecision(e) \/ WriteRecommendation(e) \/ WriteProposalDecision(e)
        PROVE  Told
    BY <1>2, <1>7 DEF WriteSubmission, WriteListDecision, WriteRecommendation, WriteProposalDecision
  <1>8. ASSUME \/ \E l \in Lists, person \in Preparers, semester \in Semesters, courses \in SUBSET Electives :
                    PrepareList(l, person, semester, courses)
               \/ \E p \in Proposals, scholar \in Candidates, semester \in Semesters, course \in Electives \cup {NoElective} :
                    Propose(p, scholar, semester, course)
        PROVE  Told
    BY <1>3, <1>8 DEF PrepareList, Propose
  <1> QED
    BY <1>4, <1>5, <1>6, <1>7, <1>8 DEF ElectiveNext

\* A request to enroll in hand was there before, or was just checked.
LEMMA EnrollmentOpened ==
    ASSUME TypeInv, CourseStep, NEW d \in Desks, desk'[d].op = "enroll"
    PROVE  \/ desk'[d] = desk[d]
           \/ \E s \in Candidates, o \in Offerings, section \in Sections \cup {NoSection} :
                 /\ OpenEnrollment(d, s, o, section)
                 /\ \E p \in Bases(s, CourseOf[o]) :
                       desk'[d] = [op |-> "enroll", row |-> <<s, o>>, section |-> section, proposal |-> p]
  <1> DEFINE Told == \/ desk'[d] = desk[d]
                     \/ \E s \in Candidates, o \in Offerings, section \in Sections \cup {NoSection} :
                           /\ OpenEnrollment(d, s, o, section)
                           /\ \E p \in Bases(s, CourseOf[o]) :
                                 desk'[d] = [op |-> "enroll", row |-> <<s, o>>, section |-> section, proposal |-> p]
  <1> SUFFICES Told
    OBVIOUS
  <1>0. DeskTyped
    BY DEF TypeInv, CourseTypeOK
  <1>1. ASSUME NEW e \in Desks, NEW s \in Candidates, NEW o \in Offerings, NEW section \in Sections \cup {NoSection},
               OpenEnrollment(e, s, o, section)
        PROVE  Told
    <2>1. PICK p \in Bases(s, CourseOf[o]) :
             desk' = [desk EXCEPT ![e] = [op |-> "enroll", row |-> <<s, o>>, section |-> section, proposal |-> p]]
      BY <1>1 DEF OpenEnrollment, OpenRequest
    <2>2. CASE e = d
      <3>1. desk'[d] = [op |-> "enroll", row |-> <<s, o>>, section |-> section, proposal |-> p]
        BY <1>0, <2>1, <2>2 DEF DeskTyped
      <3> QED
        BY <1>1, <2>2, <3>1
    <2>3. CASE e # d
      BY <1>0, <2>1, <2>3 DEF DeskTyped
    <2> QED
      BY <2>2, <2>3
  <1>2. ASSUME NEW e \in Desks, NEW r, OpenRequest(e, r), r.op # "enroll"
        PROVE  Told
    BY <1>0, <1>2 DEF OpenRequest, DeskTyped
  <1>3. ASSUME NEW e \in Desks, CloseRequest(e)
        PROVE  Told
    BY <1>0, <1>3, DeskCloses DEF Free
  <1>4. CASE desk' = desk
    BY <1>4
  <1> HIDE DEF Told
  <1>5. CASE EnrollmentNext
    <2>1. ASSUME NEW e \in Desks, NEW s \in Candidates, NEW semester \in Semesters, OpenRegistration(e, s, semester)
          PROVE  Told
      <3> DEFINE r == [op |-> "register", row |-> <<s, semester>>]
      <3>1. OpenRequest(e, r) /\ r.op # "enroll"
        BY <2>1 DEF OpenRegistration
      <3> HIDE DEF r
      <3> QED
        BY <1>2, <3>1
    <2>2. ASSUME NEW e \in Desks, NEW row \in Rows, OpenWithdrawal(e, row) \/ OpenAttempt(e, row)
          PROVE  Told
      <3>1. PICK op \in {"withdraw", "attempt"} : OpenRequest(e, [op |-> op, row |-> row, copy |-> enrollments[row]])
        BY <2>2 DEF OpenWithdrawal, OpenAttempt
      <3> DEFINE r == [op |-> op, row |-> row, copy |-> enrollments[row]]
      <3>2. OpenRequest(e, r) /\ r.op # "enroll"
        BY <3>1
      <3> HIDE DEF r
      <3> QED
        BY <1>2, <3>2
    <2>3. ASSUME NEW e \in Desks, WriteRegistration(e) \/ WriteEnrollment(e) \/ WriteWithdrawal(e) \/ WriteAttempt(e)
          PROVE  Told
      BY <1>3, <2>3 DEF WriteRegistration, WriteEnrollment, WriteWithdrawal, WriteAttempt
    <2>4. ASSUME \/ \E s \in Candidates, semester \in Semesters, is \in BOOLEAN : RecordFeeClearance(s, semester, is)
                 \/ \E s \in Candidates : StatusLeavesActive(s)
                 \/ \E semester \in Semesters : WindowCloses(semester)
                 \/ \E o \in Offerings : CreateOffering(o)
          PROVE  Told
      BY <1>4, <2>4 DEF RecordFeeClearance, StatusLeavesActive, WindowCloses, CreateOffering
    <2> QED
      BY <1>1, <1>4, <1>5, <2>1, <2>2, <2>3, <2>4 DEF EnrollmentNext
  <1>6. CASE ElectiveNext
    <2>1. desk'[d] = desk[d] \/ desk'[d].op # "enroll"
      BY <1>0, <1>6, ElectiveDesks
    <2> QED
      BY <2>1 DEF Told
  <1>7. CASE Beside
    <2>1. desk'[d] = desk[d]
      BY <1>7, BesideDesks DEF CourseOps
    <2> QED
      BY <2>1 DEF Told
  <1> QED
    BY <1>4, <1>5, <1>6, <1>7 DEF CourseStep, CourseNext, courseVars

LEMMA BasesGrantedStays ==
    ASSUME TypeInv, CopiesOpen, BasesGranted, CourseStep
    PROVE  BasesGranted'
  <1>1. ASSUME NEW row \in Rows, enrollments'[row] # NotEnrolled, CourseOf[row[2]] \in Electives
        PROVE  Granted(enrollments[row].proposal, row[1], CourseOf[row[2]])'
    <2>1. CASE enrollments[row] # NotEnrolled /\ enrollments'[row].proposal = enrollments[row].proposal
      <3>1. PICK p : p = enrollments[row].proposal
        OBVIOUS
      <3>2. Granted(p, row[1], CourseOf[row[2]])
        BY <1>1, <2>1, <3>1 DEF BasesGranted
      <3>3. Granted(p, row[1], CourseOf[row[2]])'
        BY <3>2, GrantedStays
      <3> QED
        BY <2>1, <3>1, <3>3 DEF Granted
    <2>2. ASSUME NEW d \in Desks, desk[d].op = "enroll", desk[d].row = row, enrollments'[row].proposal = desk[d].proposal
          PROVE  Granted(enrollments[row].proposal, row[1], CourseOf[row[2]])'
      <3>1. PICK p : p = desk[d].proposal
        OBVIOUS
      <3>2. Granted(p, row[1], CourseOf[row[2]])
        BY <1>1, <2>2, <3>1 DEF BasesGranted
      <3>3. Granted(p, row[1], CourseOf[row[2]])'
        BY <3>2, GrantedStays
      <3> QED
        BY <2>2, <3>1, <3>3 DEF Granted
    <2> QED
      BY <1>1, <2>1, <2>2, EnrollmentWritten
  <1>2. ASSUME NEW d \in Desks, desk'[d].op = "enroll", CourseOf[desk'[d].row[2]] \in Electives
        PROVE  Granted(desk[d].proposal, desk[d].row[1], CourseOf[desk[d].row[2]])'
    <2>1. CASE desk'[d] = desk[d]
      <3>1. PICK p, s, o : p = desk[d].proposal /\ s = desk[d].row[1] /\ o = desk[d].row[2]
        OBVIOUS
      <3>2. Granted(p, s, CourseOf[o])
        BY <1>2, <2>1, <3>1 DEF BasesGranted
      <3>3. Granted(p, s, CourseOf[o])'
        BY <3>2, GrantedStays
      <3> QED
        BY <2>1, <3>1, <3>3 DEF Granted
    <2>2. ASSUME NEW s \in Candidates, NEW o \in Offerings, NEW section \in Sections \cup {NoSection},
                 NEW p \in Bases(s, CourseOf[o]),
                 desk'[d] = [op |-> "enroll", row |-> <<s, o>>, section |-> section, proposal |-> p]
          PROVE  Granted(desk[d].proposal, desk[d].row[1], CourseOf[desk[d].row[2]])'
      <3>1. desk'[d].proposal = p /\ desk'[d].row[1] = s /\ desk'[d].row[2] = o
        BY <2>2
      <3>2. p \in Proposals /\ Approved(p, s, CourseOf[o])
        BY <1>2, <2>2, <3>1 DEF Bases
      <3>3. Granted(p, s, CourseOf[o])
        BY <3>2 DEF Approved, Granted, NoProposal
      <3>4. Granted(p, s, CourseOf[o])'
        BY <3>3, GrantedStays
      <3> QED
        BY <3>1, <3>4 DEF Granted
    <2> QED
      BY <1>2, <2>1, <2>2, EnrollmentOpened
  <1> QED
    BY <1>1, <1>2 DEF BasesGranted

LEMMA RestsInit == ElectiveInit /\ EnrollmentInit => RestsInv
  BY TypesInit DEF ElectiveInit, EnrollmentInit, RestsInv, ListInv, CopiesSound, ListsSound, CopiesOpen,
                   DecidedApart, BasesGranted, ProposalsBacked, NoProposal, NoList, Free

LEMMA RestsNext == RestsInv /\ CourseStep => RestsInv'
  <1> SUFFICES ASSUME RestsInv, CourseStep
               PROVE  RestsInv'
    OBVIOUS
  <1>1. ListInv /\ TypeInv /\ CopiesOpen /\ DecidedApart /\ BasesGranted /\ ProposalsBacked
    BY DEF RestsInv, ListInv
  <1> QED
    BY <1>1, ListsNext, DecisionsOpened, DecidedApartStays, BasesGrantedStays, ProposalsBackedStays DEF RestsInv

LEMMA RestsTold == RestsInv => EnrollmentRests
  <1> SUFFICES ASSUME RestsInv, NEW row \in Rows, enrollments[row] # NotEnrolled, CourseOf[row[2]] \in Electives,
                      ~proposals[enrollments[row].proposal].stale
               PROVE  LET p == enrollments[row].proposal
                      IN  /\ Approved(p, row[1], CourseOf[row[2]])
                          /\ proposals[p].decider \notin {row[1], proposals[p].recommender}
                          /\ ListRequired /\ (\A l \in Lists : lists[l] # NoList => ~lists[l].stale) =>
                                ApprovedLists(CourseOf[row[2]], proposals[p].semester) # {}
    BY DEF EnrollmentRests
  <1> DEFINE p == enrollments[row].proposal
  <1>1. Granted(p, row[1], CourseOf[row[2]])
    BY DEF RestsInv, BasesGranted
  <1>2. Approved(p, row[1], CourseOf[row[2]])
    BY <1>1 DEF Granted, Approved
  <1>3. proposals[p].decider \notin {row[1], proposals[p].recommender}
    BY <1>1, <1>2 DEF Granted, Approved, RestsInv, DecidedApart
  <1>4. ListRequired /\ (\A l \in Lists : lists[l] # NoList => ~lists[l].stale) =>
           ApprovedLists(CourseOf[row[2]], proposals[p].semester) # {}
    BY <1>1, ElectiveAssumption DEF Granted, RestsInv, ProposalsBacked, Backed
  <1> QED
    BY <1>2, <1>3, <1>4

-----------------------------------------------------------------------------
(* Places *)

Counts(row) == enrollments[row].status = "ENROLLED" /\ ~enrollments[row].reopened

Takes(row) == enrollments[row].status \notin {"NONE", "WITHDRAWN"}

\* An enrollment is withdrawn on a copy without attempts, and tried on one not withdrawn.
CopiesUntried ==
    \A d \in Desks :
        /\ desk[d].op = "withdraw" => ~desk[d].copy.tried
        /\ desk[d].op = "attempt" => desk[d].copy.status = "ENROLLED"

\* So both only where two requests met, and the result that would bring the enrollment back is one of those.
TriedStands ==
    \A row \in Rows : Takes(row) \/ enrollments[row] = NotEnrolled \/ ~enrollments[row].tried \/ {row[1], row[2]} \subseteq hurried

\* The room a request was checked for is still there when it writes.
HasRoomLeft(d) ==
    LET s == desk[d].row[1]
        o == desk[d].row[2]
        section == desk[d].section
    IN  /\ o \notin hurried => Cardinality(Counted(o, NoSection)) < CapacityOf[o]
        /\ section # NoSection => /\ section[1] = o
                                  /\ o \notin hurried => Cardinality(Counted(o, section)) < SectionCapacity[section]
        /\ s \notin hurried => Held(s, CourseOf[o]) = {}

RoomLeft == \A d \in Desks : desk[d].op = "enroll" => HasRoomLeft(d)

WithinPlaces ==
    /\ \A o \in Offerings \ hurried : Cardinality(Counted(o, NoSection)) <= CapacityOf[o]
    /\ \A section \in Sections : section[1] \notin hurried =>
          Cardinality(Counted(section[1], section)) <= SectionCapacity[section]

OneHeld ==
    \A s \in Candidates \ hurried, o, other \in Offerings :
        CourseOf[o] = CourseOf[other] /\ Takes(<<s, o>>) /\ Takes(<<s, other>>) => o = other

PlacesInv == TypeInv /\ CopiesUntried /\ TriedStands /\ RoomLeft /\ WithinPlaces /\ OneHeld

\* A request to withdraw or to try an enrollment in hand was there before, or was just checked.
LEMMA ChangeOpened ==
    ASSUME TypeInv, CopiesUntried, CourseStep
    PROVE  CopiesUntried'
  <1>0. DeskTyped
    BY DEF TypeInv, CourseTypeOK
  <1>1. ASSUME NEW e \in Desks, NEW r, OpenRequest(e, r), r.op = "withdraw" => ~r.copy.tried,
               r.op = "attempt" => r.copy.status = "ENROLLED"
        PROVE  CopiesUntried'
    <2>1. desk'[e] = r /\ \A d \in Desks \ {e} : desk'[d] = desk[d]
      BY <1>0, <1>1 DEF OpenRequest, DeskTyped
    <2> QED
      BY <1>1, <2>1 DEF CopiesUntried
  <1>2. ASSUME \A d \in Desks : desk'[d] = desk[d] \/ desk'[d].op \notin {"withdraw", "attempt"}
        PROVE  CopiesUntried'
    BY <1>2 DEF CopiesUntried
  <1>3. CASE EnrollmentNext
    <2>1. ASSUME NEW e \in Desks, NEW s \in Candidates, NEW semester \in Semesters, OpenRegistration(e, s, semester)
          PROVE  CopiesUntried'
      <3> DEFINE r == [op |-> "register", row |-> <<s, semester>>]
      <3>1. OpenRequest(e, r) /\ r.op = "register"
        BY <2>1 DEF OpenRegistration
      <3> HIDE DEF r
      <3> QED
        BY <1>1, <3>1
    <2>2. ASSUME NEW e \in Desks, NEW s \in Candidates, NEW o \in Offerings, NEW section \in Sections \cup {NoSection},
                 OpenEnrollment(e, s, o, section)
          PROVE  CopiesUntried'
      <3>1. PICK p : OpenRequest(e, [op |-> "enroll", row |-> <<s, o>>, section |-> section, proposal |-> p])
        BY <2>2 DEF OpenEnrollment
      <3> DEFINE r == [op |-> "enroll", row |-> <<s, o>>, section |-> section, proposal |-> p]
      <3>2. OpenRequest(e, r) /\ r.op = "enroll"
        BY <3>1
      <3> HIDE DEF r
      <3> QED
        BY <1>1, <3>2
    <2>3. ASSUME NEW e \in Desks, NEW row \in Rows, OpenWithdrawal(e, row)
          PROVE  CopiesUntried'
      <3> DEFINE r == [op |-> "withdraw", row |-> row, copy |-> enrollments[row]]
      <3>1. OpenRequest(e, r) /\ r.op = "withdraw" /\ ~r.copy.tried
        BY <2>3 DEF OpenWithdrawal
      <3> HIDE DEF r
      <3> QED
        BY <1>1, <3>1
    <2>4. ASSUME NEW e \in Desks, NEW row \in Rows, OpenAttempt(e, row)
          PROVE  CopiesUntried'
      <3> DEFINE r == [op |-> "attempt", row |-> row, copy |-> enrollments[row]]
      <3>1. OpenRequest(e, r) /\ r.op = "attempt" /\ r.copy.status = "ENROLLED"
        BY <2>4 DEF OpenAttempt
      <3> HIDE DEF r
      <3> QED
        BY <1>1, <3>1
    <2>5. ASSUME NEW e \in Desks, WriteRegistration(e) \/ WriteEnrollment(e) \/ WriteWithdrawal(e) \/ WriteAttempt(e)
          PROVE  CopiesUntried'
      <3>1. CloseRequest(e)
        BY <2>5 DEF WriteRegistration, WriteEnrollment, WriteWithdrawal, WriteAttempt
      <3> QED
        BY <1>0, <1>2, <3>1, DeskCloses DEF Free
    <2>6. ASSUME \/ \E s \in Candidates, semester \in Semesters, is \in BOOLEAN : RecordFeeClearance(s, semester, is)
                 \/ \E s \in Candidates : StatusLeavesActive(s)
                 \/ \E semester \in Semesters : WindowCloses(semester)
                 \/ \E o \in Offerings : CreateOffering(o)
                 \/ \E row \in Rows, pass \in BOOLEAN : Ratified(row, pass) /\ UNCHANGED desk
          PROVE  CopiesUntried'
      <3>1. desk' = desk
        BY <2>6 DEF RecordFeeClearance, StatusLeavesActive, WindowCloses, CreateOffering
      <3> QED
        BY <1>2, <3>1
    <2> QED
      BY <1>3, <2>1, <2>2, <2>3, <2>4, <2>5, <2>6 DEF EnrollmentNext
  <1>4. CASE ElectiveNext
    BY <1>0, <1>2, <1>4, ElectiveDesks
  <1>5. CASE UNCHANGED courseVars
    BY <1>2, <1>5 DEF courseVars
  <1>6. CASE Beside
    BY <1>2, <1>6, BesideDesks
  <1> QED
    BY <1>3, <1>4, <1>5, <1>6 DEF CourseStep, CourseNext

\* What changes enrollments
LEMMA EnrollmentsChange ==
    ASSUME CourseStep
    PROVE  \/ enrollments' = enrollments /\ hurried \subseteq hurried'
           \/ \E d \in Desks : WriteEnrollment(d) \/ WriteWithdrawal(d) \/ WriteAttempt(d)
           \/ \E row \in Rows : TriedBeside(row)
           \/ \E row \in Rows, pass \in BOOLEAN : Ratified(row, pass)
  BY DEF CourseStep, Beside, CourseNext, courseVars, EnrollmentNext, RecordFeeClearance, StatusLeavesActive, WindowCloses, CreateOffering,
         OpenRegistration, OpenEnrollment, OpenWithdrawal, OpenAttempt, WriteRegistration, enrollmentVars

LEMMA HurriedGrows ==
    ASSUME CourseStep
    PROVE  hurried \subseteq hurried'
  BY EnrollmentsChange DEF WriteEnrollment, WriteWithdrawal, WriteAttempt, TriedBeside, Ratified

\* An enrollment does not come to count, or to take its scholar's course, but by being written, except where
\* two requests met.
LEMMA RowGrows ==
    ASSUME TypeInv, TriedStands, CourseStep, NEW row \in Rows
    PROVE  \/ /\ Counts(row)' => Counts(row) /\ enrollments'[row].section = enrollments[row].section
              /\ Takes(row)' => Takes(row)
           \/ {row[1], row[2]} \subseteq hurried
           \/ \E d \in Desks : /\ WriteEnrollment(d)
                               /\ desk[d].row = row
                               /\ enrollments[row] = NotEnrolled
  <1> DEFINE Stays == /\ Counts(row)' => Counts(row) /\ enrollments'[row].section = enrollments[row].section
                      /\ Takes(row)' => Takes(row)
  <1>0. enrollments \in [Rows -> {NotEnrolled} \cup EnrollmentRow] /\ DeskTyped
    BY DEF TypeInv, CourseTypeOK
  <1>1. CASE enrollments'[row] = enrollments[row]
    BY <1>1 DEF Counts, Takes
  <1>2. ASSUME NEW d \in Desks, WriteEnrollment(d)
        PROVE  enrollments'[row] = enrollments[row] \/ (desk[d].row = row /\ enrollments[row] = NotEnrolled)
    BY <1>0, <1>2 DEF WriteEnrollment
  <1>3. ASSUME NEW d \in Desks, WriteWithdrawal(d)
        PROVE  Stays
    <2>1. desk[d].row \in Rows /\ enrollments' = [enrollments EXCEPT ![desk[d].row].status = "WITHDRAWN"]
      BY <1>0, <1>3, InHand DEF WriteWithdrawal
    <2>2. enrollments'[row] = enrollments[row] \/ enrollments'[row].status = "WITHDRAWN"
      BY <1>0, <1>3, <2>1 DEF WriteWithdrawal, RowsExist, TypeInv, EnrollmentRow
    <2> QED
      BY <2>2 DEF Counts, Takes
  <1>4. ASSUME NEW k \in Rows, enrollments[k] # NotEnrolled,
               enrollments' = [enrollments EXCEPT ![k].tried = TRUE]
        PROVE  Stays
    <2>1. /\ enrollments[k] \in EnrollmentRow
          /\ enrollments' = [enrollments EXCEPT ![k] = [enrollments[k] EXCEPT !.tried = TRUE]]
      BY <1>0, <1>4
    <2>2. LET new == [enrollments[k] EXCEPT !.tried = TRUE]
          IN  /\ new.status = enrollments[k].status /\ new.section = enrollments[k].section
              /\ new.reopened = enrollments[k].reopened
      BY <2>1 DEF EnrollmentRow
    <2>3. enrollments'[k].status = enrollments[k].status /\ enrollments'[k].section = enrollments[k].section
          /\ enrollments'[k].reopened = enrollments[k].reopened
      BY <1>0, <2>1, <2>2
    <2> QED
      BY <1>0, <2>1, <2>3 DEF Counts, Takes
  <1>6. ASSUME NEW d \in Desks, WriteAttempt(d)
        PROVE  Stays
    <2>1. desk[d].row \in Rows /\ enrollments[desk[d].row] # NotEnrolled
      BY <1>0, <1>6, InHand DEF WriteAttempt, RowsExist, TypeInv
    <2> QED
      BY <1>4, <1>6, <2>1 DEF WriteAttempt
  <1>7. ASSUME NEW k \in Rows, TriedBeside(k)
        PROVE  Stays
    BY <1>4, <1>7 DEF TriedBeside
  <1>5. ASSUME NEW k \in Rows, NEW pass \in BOOLEAN, Ratified(k, pass)
        PROVE  Stays \/ {row[1], row[2]} \subseteq hurried
    <2> DEFINE status == IF pass THEN "COMPLETED" ELSE "ENROLLED"
               reopened == ~pass /\ (enrollments[k].reopened \/ enrollments[k].status = "COMPLETED")
               new == [enrollments[k] EXCEPT !.status = status, !.reopened = reopened]
    <2>1. enrollments[k] \in EnrollmentRow /\ enrollments[k].tried
      BY <1>0, <1>5 DEF Ratified
    <2>2. enrollments' = [enrollments EXCEPT ![k] = new]
      BY <1>5 DEF Ratified
    <2>3. new.status = status /\ new.section = enrollments[k].section /\ new.reopened = reopened
      BY <2>1 DEF EnrollmentRow
    <2>4. Takes(k) \/ {k[1], k[2]} \subseteq hurried
      BY <1>0, <2>1, RowsTold DEF TriedStands
    <2>5. enrollments[k].status \in {"ENROLLED", "COMPLETED", "WITHDRAWN"}
      BY <2>1 DEF EnrollmentRow
    <2>6. status = "ENROLLED" /\ ~reopened /\ Takes(k) => Counts(k)
      BY <2>5 DEF Counts, Takes
    <2> HIDE DEF new, status, reopened
    <2>7. enrollments'[k] = new
      BY <1>0, <2>2
    <2> QED
      BY <1>0, <2>2, <2>3, <2>4, <2>6, <2>7 DEF Counts, Takes
  <1> QED
    BY <1>1, <1>2, <1>3, <1>5, <1>6, <1>7, EnrollmentsChange

LEMMA TriedStandsStays ==
    ASSUME TypeInv, CopiesUntried, TriedStands, CourseStep
    PROVE  TriedStands'
  <1>0. enrollments \in [Rows -> {NotEnrolled} \cup EnrollmentRow] /\ DeskTyped
    BY DEF TypeInv, CourseTypeOK
  <1> DEFINE Stands(row) == Takes(row) \/ enrollments[row] = NotEnrolled \/ ~enrollments[row].tried \/ {row[1], row[2]} \subseteq hurried
  <1> SUFFICES ASSUME NEW row \in Rows
               PROVE  Stands(row)'
    BY DEF TriedStands
  <1>1. CASE enrollments'[row] = enrollments[row]
    BY <1>1, HurriedGrows DEF TriedStands, Takes
  <1>2. ASSUME NEW d \in Desks, WriteEnrollment(d), enrollments'[row] # enrollments[row]
        PROVE  Takes(row)'
    <2>1. enrollments'[row] = NewEnrollment(desk[d].section, desk[d].proposal)
      BY <1>0, <1>2 DEF WriteEnrollment
    <2> QED
      BY <2>1 DEF Takes, NewEnrollment
  <1>3. ASSUME NEW d \in Desks, WriteWithdrawal(d) \/ WriteAttempt(d), enrollments'[row] # enrollments[row]
        PROVE  Stands(row)'
    <2>1. PICK k \in Rows : k = desk[d].row /\ enrollments[k] \in EnrollmentRow
      BY <1>0, <1>3, InHand DEF WriteWithdrawal, WriteAttempt, RowsExist, TypeInv
    <2>2. k = row
      BY <1>0, <1>3, <2>1 DEF WriteWithdrawal, WriteAttempt
    <2>3. CASE enrollments[row] # desk[d].copy
      BY <1>3, <2>1, <2>2, <2>3 DEF WriteWithdrawal, WriteAttempt, Changed
    <2>4. CASE enrollments[row] = desk[d].copy /\ WriteWithdrawal(d)
      <3>1. enrollments' = [enrollments EXCEPT ![row] = [enrollments[row] EXCEPT !.status = "WITHDRAWN"]]
        BY <2>1, <2>2, <2>4 DEF WriteWithdrawal
      <3>2. ~enrollments[row].tried
        BY <2>4 DEF WriteWithdrawal, CopiesUntried
      <3>3. [enrollments[row] EXCEPT !.status = "WITHDRAWN"].tried = enrollments[row].tried
        BY <2>1, <2>2 DEF EnrollmentRow
      <3>4. enrollments'[row].tried = enrollments[row].tried
        BY <1>0, <3>1, <3>3
      <3> QED
        BY <3>2, <3>4
    <2>5. CASE enrollments[row] = desk[d].copy /\ WriteAttempt(d)
      <3>1. enrollments' = [enrollments EXCEPT ![row] = [enrollments[row] EXCEPT !.tried = TRUE]]
        BY <2>1, <2>2, <2>5 DEF WriteAttempt
      <3>2. enrollments[row].status = "ENROLLED"
        BY <2>5 DEF WriteAttempt, CopiesUntried
      <3>3. [enrollments[row] EXCEPT !.tried = TRUE].status = enrollments[row].status
        BY <2>1, <2>2 DEF EnrollmentRow
      <3>4. enrollments'[row].status = "ENROLLED"
        BY <1>0, <3>1, <3>2, <3>3
      <3> QED
        BY <3>4 DEF Takes
    <2> QED
      BY <1>3, <2>3, <2>4, <2>5
  <1>4. ASSUME NEW k \in Rows, NEW pass \in BOOLEAN, Ratified(k, pass), enrollments'[row] # enrollments[row]
        PROVE  Takes(row)'
    <2> DEFINE status == IF pass THEN "COMPLETED" ELSE "ENROLLED"
               reopened == ~pass /\ (enrollments[k].reopened \/ enrollments[k].status = "COMPLETED")
               new == [enrollments[k] EXCEPT !.status = status, !.reopened = reopened]
    <2>1. enrollments[k] \in EnrollmentRow /\ enrollments' = [enrollments EXCEPT ![k] = new]
      BY <1>0, <1>4 DEF Ratified
    <2>2. new.status = status
      BY <2>1 DEF EnrollmentRow
    <2>3. status \in {"COMPLETED", "ENROLLED"}
      OBVIOUS
    <2> HIDE DEF new, status, reopened
    <2> QED
      BY <1>0, <1>4, <2>1, <2>2, <2>3 DEF Takes
  <1>7. ASSUME NEW k \in Rows, TriedBeside(k), enrollments'[row] # enrollments[row]
        PROVE  Takes(row)' \/ {row[1], row[2]} \subseteq hurried'
    <2>1. k = row /\ enrollments[row] \in EnrollmentRow
      BY <1>0, <1>7 DEF TriedBeside
    <2>2. [enrollments[row] EXCEPT !.tried = TRUE].status = enrollments[row].status
      BY <2>1 DEF EnrollmentRow
    <2>3. enrollments'[row].status = enrollments[row].status
      BY <1>0, <1>7, <2>1, <2>2 DEF TriedBeside
    <2> QED
      BY <1>7, <2>1, <2>3 DEF TriedBeside, Takes
  <1>8. {row[1], row[2]} \subseteq hurried' => Stands(row)'
    OBVIOUS
  <1> HIDE DEF Stands
  <1>5. Takes(row)' => Stands(row)'
    BY DEF Stands
  <1>6. enrollments' = enrollments => Stands(row)'
    BY <1>1
  <1> QED
    BY <1>1, <1>2, <1>3, <1>4, <1>5, <1>7, <1>8, EnrollmentsChange

\* Places: what counts is finite, and counts against the offering with or without a section.
LEMMA CountedFinite ==
    ASSUME NEW o, NEW section
    PROVE  /\ IsFiniteSet(Counted(o, section)) /\ Cardinality(Counted(o, section)) \in Nat
           /\ IsFiniteSet(Holders(o, section)) /\ Cardinality(Holders(o, section)) \in Nat
           /\ Cardinality(Counted(o, section)) <= Cardinality(Holders(o, section))
  <1>1. Counted(o, section) \subseteq Holders(o, section) /\ Holders(o, section) \subseteq Candidates
    BY DEF Counted, Holders
  <1>2. IsFiniteSet(Candidates)
    BY EnrollmentAssumption
  <1>3. IsFiniteSet(Holders(o, section))
    BY <1>1, <1>2, FS_Subset
  <1> QED
    BY <1>1, <1>3, FS_Subset, FS_CardinalityType

LEMMA CountedNat ==
    ASSUME NEW o, NEW section
    PROVE  Cardinality(Counted(o, section)) \in Nat /\ Cardinality(Counted(o, section))' \in Nat
  <1>1. Counted(o, section)' \subseteq Candidates
    BY DEF Counted, Holders
  <1>2. IsFiniteSet(Candidates)
    BY EnrollmentAssumption
  <1>3. IsFiniteSet(Counted(o, section)')
    BY <1>1, <1>2, FS_Subset
  <1>4. Cardinality(Counted(o, section)') \in Nat
    BY <1>3, FS_CardinalityType
  <1> QED
    BY <1>4, CountedFinite

LEMMA CountedIs ==
    ASSUME NEW o \in Offerings, NEW section
    PROVE  Counted(o, section) =
               {s \in Candidates : Counts(<<s, o>>) /\ section \in {NoSection, enrollments[<<s, o>>].section}}
  BY DEF Counted, Holders, Counts

\* Where no enrollment is written, no place and no course is taken that was not, but by the hurried.
LEMMA NobodyEnrolls ==
    ASSUME TypeInv, TriedStands, CourseStep,
           NEW o \in Offerings, o \notin hurried, NEW section,
           \A d \in Desks : WriteEnrollment(d) => desk[d].row[2] # o \/ enrollments[desk[d].row] # NotEnrolled
    PROVE  Cardinality(Counted(o, section))' <= Cardinality(Counted(o, section))
  <1>1. ASSUME NEW s \in Candidates, Counts(<<s, o>>)'
        PROVE  Counts(<<s, o>>) /\ enrollments'[<<s, o>>].section = enrollments[<<s, o>>].section
    <2>1. <<s, o>> \in Rows /\ <<s, o>>[2] = o
      BY DEF Rows
    <2> QED
      BY <1>1, <2>1, RowGrows
  <1>2. Counted(o, section)' \subseteq Counted(o, section)
    <2>1. Counted(o, section)' =
             {s \in Candidates : Counts(<<s, o>>)' /\ section \in {NoSection, enrollments'[<<s, o>>].section}}
      BY DEF Counted, Holders, Counts
    <2> QED
      BY <1>1, <2>1, CountedIs
  <1> QED
    BY <1>2, CountedFinite, FS_Subset

\* The enrollment that is written is the only one that changes, and it marks who was checked without it.
LEMMA OneEnrolls ==
    ASSUME TypeInv, NEW d \in Desks, WriteEnrollment(d), enrollments[desk[d].row] = NotEnrolled
    PROVE  /\ desk[d].row \in Rows
           /\ enrollments'[desk[d].row] = NewEnrollment(desk[d].section, desk[d].proposal)
           /\ \A row \in Rows \ {desk[d].row} : enrollments'[row] = enrollments[row]
           /\ \A e \in Desks : desk'[e].op = "enroll" =>
                 /\ desk'[e] = desk[e]
                 /\ \A x \in {desk[d].row[1], desk[d].row[2]} : x \in {desk[e].row[1], desk[e].row[2]} => x \in hurried'
  <1>1. desk[d].row \in Rows /\ DeskTyped /\ enrollments \in [Rows -> {NotEnrolled} \cup EnrollmentRow]
    BY InHand DEF TypeInv, CourseTypeOK, WriteEnrollment
  <1>2. /\ enrollments' = [enrollments EXCEPT ![desk[d].row] = NewEnrollment(desk[d].section, desk[d].proposal)]
        /\ hurried' = hurried \cup Overtaken(d, desk[d].row[1], desk[d].row[2])
        /\ CloseRequest(d)
    BY DEF WriteEnrollment
  <1>3. desk'[d] = Free /\ \A e \in Desks \ {d} : desk'[e] = desk[e]
    BY <1>1, <1>2, DeskCloses
  <1>4. ASSUME NEW e \in Desks, desk'[e].op = "enroll"
        PROVE  /\ desk'[e] = desk[e]
               /\ \A x \in {desk[d].row[1], desk[d].row[2]} : x \in {desk[e].row[1], desk[e].row[2]} => x \in hurried'
    <2>1. e # d /\ desk'[e] = desk[e]
      BY <1>3, <1>4 DEF Free
    <2>2. e \in OthersEnrolling(d)
      BY <1>4, <2>1 DEF OthersEnrolling
    <2> QED
      BY <1>2, <2>1, <2>2 DEF Overtaken
  <1> QED
    BY <1>1, <1>2, <1>4

\* It counts once, in its own section only.
LEMMA OneCounts ==
    ASSUME TypeInv, NEW d \in Desks, WriteEnrollment(d), enrollments[desk[d].row] = NotEnrolled,
           NEW o \in Offerings, o = desk[d].row[2], NEW section
    PROVE  /\ Cardinality(Counted(o, section))' <= Cardinality(Counted(o, section)) + 1
           /\ section \notin {NoSection, desk[d].section} =>
                 Cardinality(Counted(o, section))' <= Cardinality(Counted(o, section))
  <1> DEFINE s == desk[d].row[1]
  <1>1. s \in Candidates /\ desk[d].row = <<s, o>>
    BY OneEnrolls, RowParts
  <1>2. \A x \in Candidates \ {s} : <<x, o>> \in Rows \ {desk[d].row}
    BY <1>1 DEF Rows
  <1>3. \A x \in Candidates \ {s} : enrollments'[<<x, o>>] = enrollments[<<x, o>>]
    BY <1>2, OneEnrolls
  <1>4. enrollments'[<<s, o>>].section = desk[d].section
    <2>1. enrollments'[desk[d].row] = NewEnrollment(desk[d].section, desk[d].proposal)
      BY OneEnrolls
    <2>2. NewEnrollment(desk[d].section, desk[d].proposal).section = desk[d].section
      BY DEF NewEnrollment
    <2> QED
      BY <1>1, <2>1, <2>2
  <1> HIDE DEF s
  <1>5. Counted(o, section)' =
             {x \in Candidates : Counts(<<x, o>>)' /\ section \in {NoSection, enrollments'[<<x, o>>].section}}
    BY DEF Counted, Holders, Counts
  <1>6. Counted(o, section) =
             {x \in Candidates : Counts(<<x, o>>) /\ section \in {NoSection, enrollments[<<x, o>>].section}}
    BY CountedIs
  <1>7. Counted(o, section)' \subseteq Counted(o, section) \cup {s}
    BY <1>3, <1>5, <1>6 DEF Counts
  <1>8. section \notin {NoSection, desk[d].section} => Counted(o, section)' \subseteq Counted(o, section)
    <2>1. ASSUME section \notin {NoSection, desk[d].section}, NEW x \in Counted(o, section)'
          PROVE  x \in Counted(o, section)
      <3>1. x \in Candidates /\ Counts(<<x, o>>)' /\ section = enrollments'[<<x, o>>].section
        BY <1>5, <2>1
      <3>2. x # s
        BY <1>4, <2>1, <3>1
      <3> QED
        BY <1>3, <1>6, <3>1, <3>2 DEF Counts
    <2> QED
      BY <2>1
  <1>9. IsFiniteSet(Counted(o, section)) /\ Cardinality(Counted(o, section)) \in Nat
    BY CountedFinite
  <1>10. /\ IsFiniteSet(Counted(o, section) \cup {s})
         /\ Cardinality(Counted(o, section) \cup {s}) <= Cardinality(Counted(o, section)) + 1
         /\ Cardinality(Counted(o, section) \cup {s}) \in Nat
    <2> DEFINE C == Counted(o, section)
    <2> HIDE DEF C
    <2>1. IsFiniteSet(C) /\ Cardinality(C) \in Nat
      BY <1>9 DEF C
    <2>2. IsFiniteSet(C \cup {s})
      BY <2>1, FS_AddElement
    <2>3. Cardinality(C \cup {s}) = IF s \in C THEN Cardinality(C) ELSE Cardinality(C) + 1
      BY <2>1, FS_AddElement
    <2> QED
      BY <2>1, <2>2, <2>3 DEF C
  <1>11. Cardinality(Counted(o, section)') <= Cardinality(Counted(o, section) \cup {s})
         /\ Cardinality(Counted(o, section)') \in Nat
    BY <1>7, <1>10, FS_Subset, FS_CardinalityType
  <1>12. section \notin {NoSection, desk[d].section} => Cardinality(Counted(o, section)') <= Cardinality(Counted(o, section))
    BY <1>8, <1>9, FS_Subset
  <1> QED
    BY <1>9, <1>10, <1>11, <1>12

LEMMA WithinPlacesStays ==
    ASSUME TypeInv, TriedStands, RoomLeft, WithinPlaces, CourseStep
    PROVE  WithinPlaces'
  <1>0. NoSection \notin Sections /\ CapacityOf \in [Offerings -> Nat] /\ SectionCapacity \in [Sections -> Nat]
        /\ \A section \in Sections : section[1] \in Offerings
    BY EnrollmentAssumption
  <1>1. ASSUME NEW o \in Offerings, o \notin hurried', NEW section, NEW n \in Nat,
               Cardinality(Counted(o, section)) <= n,
               \A d \in Desks : WriteEnrollment(d) /\ enrollments[desk[d].row] = NotEnrolled /\ desk[d].row[2] = o =>
                   \/ Cardinality(Counted(o, section)) < n
                   \/ section \notin {NoSection, desk[d].section}
        PROVE  Cardinality(Counted(o, section))' <= n
    <2>1. o \notin hurried
      BY <1>1, HurriedGrows
    <2>2. Cardinality(Counted(o, section)) \in Nat /\ Cardinality(Counted(o, section))' \in Nat
      BY CountedNat
    <2>3. ASSUME NEW d \in Desks, WriteEnrollment(d), enrollments[desk[d].row] = NotEnrolled, desk[d].row[2] = o
          PROVE  Cardinality(Counted(o, section))' <= n
      <3>1. /\ Cardinality(Counted(o, section))' <= Cardinality(Counted(o, section)) + 1
            /\ section \notin {NoSection, desk[d].section} =>
                  Cardinality(Counted(o, section))' <= Cardinality(Counted(o, section))
        BY <2>3, OneCounts
      <3> QED
        BY <1>1, <2>2, <2>3, <3>1
    <2>4. CASE \A d \in Desks : WriteEnrollment(d) => desk[d].row[2] # o \/ enrollments[desk[d].row] # NotEnrolled
      BY <1>1, <2>1, <2>2, <2>4, NobodyEnrolls
    <2> QED
      BY <2>3, <2>4
  <1>2. ASSUME NEW o \in Offerings, o \notin hurried'
        PROVE  Cardinality(Counted(o, NoSection))' <= CapacityOf[o]
    <2>1. o \notin hurried /\ CapacityOf[o] \in Nat
      BY <1>0, <1>2, HurriedGrows
    <2>2. Cardinality(Counted(o, NoSection)) <= CapacityOf[o]
      BY <2>1 DEF WithinPlaces
    <2>3. \A d \in Desks : WriteEnrollment(d) /\ desk[d].row[2] = o => Cardinality(Counted(o, NoSection)) < CapacityOf[o]
      BY <2>1 DEF RoomLeft, HasRoomLeft, WriteEnrollment
    <2> QED
      BY <1>1, <1>2, <2>1, <2>2, <2>3
  <1>3. ASSUME NEW section \in Sections, section[1] \notin hurried'
        PROVE  Cardinality(Counted(section[1], section))' <= SectionCapacity[section]
    <2> DEFINE o == section[1]
    <2>1. o \in Offerings /\ o \notin hurried /\ SectionCapacity[section] \in Nat /\ section # NoSection
      BY <1>0, <1>3, HurriedGrows
    <2>2. Cardinality(Counted(o, section)) <= SectionCapacity[section]
      BY <2>1 DEF WithinPlaces
    <2>3. \A d \in Desks : WriteEnrollment(d) /\ desk[d].row[2] = o /\ desk[d].section = section =>
             Cardinality(Counted(o, section)) < SectionCapacity[section]
      BY <2>1 DEF RoomLeft, HasRoomLeft, WriteEnrollment
    <2> QED
      BY <1>1, <1>3, <2>1, <2>2, <2>3
  <1> QED
    BY <1>2, <1>3 DEF WithinPlaces

LEMMA RoomLeftStays ==
    ASSUME TypeInv, TriedStands, RoomLeft, CourseStep
    PROVE  RoomLeft'
  <1>0. DeskTyped /\ DeskTyped'
    BY TypesNext DEF TypeInv, CourseTypeOK
  <1> SUFFICES ASSUME NEW d \in Desks, desk'[d].op = "enroll"
               PROVE  HasRoomLeft(d)'
    BY DEF RoomLeft
  <1>1. desk'[d].row \in Rows /\ desk'[d].section \in Sections \cup {NoSection}
    <2>1. \/ desk'[d] \in {Free} \cup ListWork \cup ProposalWork
          \/ desk'[d] \in EnrollmentWork
      BY <1>0 DEF DeskTyped, CourseOps
    <2> QED
      BY <2>1 DEF EnrollmentWork, ListWork, ProposalWork, Free
  <1>2. PICK s \in Candidates, o \in Offerings, section \in Sections \cup {NoSection} :
           desk'[d].row = <<s, o>> /\ s = desk'[d].row[1] /\ o = desk'[d].row[2] /\ section = desk'[d].section
    BY <1>1, RowParts
  <1>3. SUFFICES /\ o \notin hurried' => Cardinality(Counted(o, NoSection))' < CapacityOf[o]
                 /\ section # NoSection =>
                       /\ section[1] = o
                       /\ o \notin hurried' => Cardinality(Counted(o, section))' < SectionCapacity[section]
                 /\ s \notin hurried' => Held(s, CourseOf[o])' = {}
    BY <1>2 DEF HasRoomLeft, Counted, Holders, Held
  <1>4. CASE desk'[d] = desk[d]
    <2>1. /\ o \notin hurried => Cardinality(Counted(o, NoSection)) < CapacityOf[o]
          /\ section # NoSection => /\ section[1] = o
                                    /\ o \notin hurried => Cardinality(Counted(o, section)) < SectionCapacity[section]
          /\ s \notin hurried => Held(s, CourseOf[o]) = {}
      BY <1>2, <1>4 DEF RoomLeft, HasRoomLeft
    <2>2. ASSUME NEW e \in Desks, WriteEnrollment(e), enrollments[desk[e].row] = NotEnrolled
          PROVE  /\ desk[e].row[1] = s => s \in hurried'
                 /\ desk[e].row[2] = o => o \in hurried'
      BY <1>2, <1>4, <2>2, OneEnrolls
    <2>3. ASSUME o \notin hurried', NEW k \in Sections \cup {NoSection}
          PROVE  Cardinality(Counted(o, k))' <= Cardinality(Counted(o, k))
      BY <2>2, <2>3, HurriedGrows, NobodyEnrolls
    <2>4. ASSUME NEW k \in Sections \cup {NoSection}
          PROVE  Cardinality(Counted(o, k)) \in Nat /\ Cardinality(Counted(o, k))' \in Nat
      BY CountedNat
    <2>5. CapacityOf[o] \in Nat /\ (section # NoSection => SectionCapacity[section] \in Nat)
      BY EnrollmentAssumption
    <2>6. o \notin hurried' => Cardinality(Counted(o, NoSection))' < CapacityOf[o]
      BY <2>1, <2>3, <2>4, <2>5, HurriedGrows
    <2>7. section # NoSection /\ o \notin hurried' => Cardinality(Counted(o, section))' < SectionCapacity[section]
      BY <2>1, <2>3, <2>4, <2>5, HurriedGrows
    <2>8. s \notin hurried' => Held(s, CourseOf[o])' = {}
      <3> SUFFICES ASSUME s \notin hurried', NEW other \in Offerings, CourseOf[other] = CourseOf[o], Takes(<<s, other>>)'
                   PROVE  FALSE
        BY DEF Held, Takes
      <3>1. <<s, other>> \in Rows /\ <<s, other>>[1] = s
        BY DEF Rows
      <3>2. s \notin hurried
        BY HurriedGrows
      <3>3. Takes(<<s, other>>)
        BY <2>2, <3>1, <3>2, RowGrows
      <3>4. other \in Held(s, CourseOf[o])
        BY <3>3 DEF Held, Takes
      <3> QED
        BY <2>1, <3>2, <3>4
    <2> QED
      BY <2>1, <2>6, <2>7, <2>8
  <1>5. ASSUME NEW x \in Candidates, NEW y \in Offerings, NEW k \in Sections \cup {NoSection}, OpenEnrollment(d, x, y, k),
               NEW p, desk'[d] = [op |-> "enroll", row |-> <<x, y>>, section |-> k, proposal |-> p]
        PROVE  /\ Cardinality(Counted(o, NoSection))' < CapacityOf[o]
               /\ section # NoSection => section[1] = o /\ Cardinality(Counted(o, section))' < SectionCapacity[section]
               /\ Held(s, CourseOf[o])' = {}
    <2>1. x = s /\ y = o /\ k = section
      BY <1>2, <1>5
    <2>2. enrollments' = enrollments
      BY <1>5 DEF OpenEnrollment, enrollmentVars
    <2>3. /\ Counted(o, NoSection)' = Counted(o, NoSection) /\ Counted(o, section)' = Counted(o, section)
          /\ Held(s, CourseOf[o])' = Held(s, CourseOf[o])
      BY <2>2 DEF Counted, Holders, Held
    <2>4. /\ section # NoSection => section[1] = o
          /\ HasRoom(o, section)
          /\ Held(s, CourseOf[o]) = {}
      BY <1>5, <2>1 DEF OpenEnrollment, MayEnroll
    <2>5. CapacityOf[o] \in Nat /\ (section # NoSection => SectionCapacity[section] \in Nat)
      BY EnrollmentAssumption
    <2>6. /\ Cardinality(Counted(o, NoSection)) < CapacityOf[o]
          /\ section # NoSection => Cardinality(Counted(o, section)) < SectionCapacity[section]
      BY <2>4, <2>5, CountedFinite DEF HasRoom
    <2>7. /\ Cardinality(Counted(o, NoSection))' = Cardinality(Counted(o, NoSection))
          /\ Cardinality(Counted(o, section))' = Cardinality(Counted(o, section))
      BY <2>3
    <2> QED
      BY <2>3, <2>4, <2>6, <2>7
  <1>6. CASE desk'[d] # desk[d]
    <2>1. PICK x \in Candidates, y \in Offerings, k \in Sections \cup {NoSection} :
             /\ OpenEnrollment(d, x, y, k)
             /\ \E p \in Bases(x, CourseOf[y]) :
                   desk'[d] = [op |-> "enroll", row |-> <<x, y>>, section |-> k, proposal |-> p]
      BY <1>6, EnrollmentOpened
    <2>2. PICK p \in Bases(x, CourseOf[y]) :
             desk'[d] = [op |-> "enroll", row |-> <<x, y>>, section |-> k, proposal |-> p]
      BY <2>1
    <2> QED
      BY <1>5, <2>1, <2>2
  <1> QED
    BY <1>4, <1>6

LEMMA OneHeldStays ==
    ASSUME TypeInv, TriedStands, RoomLeft, OneHeld, CourseStep
    PROVE  OneHeld'
  <1> SUFFICES ASSUME NEW s \in Candidates, s \notin hurried', NEW o \in Offerings, NEW other \in Offerings,
                      CourseOf[o] = CourseOf[other], Takes(<<s, o>>)', Takes(<<s, other>>)'
               PROVE  o = other
    BY DEF OneHeld, Takes
  <1>1. s \notin hurried
    BY HurriedGrows
  <1>2. \A y \in Offerings : <<s, y>> \in Rows /\ <<s, y>>[1] = s /\ <<s, y>>[2] = y
    BY DEF Rows
  <1>3. ASSUME NEW y \in Offerings, Takes(<<s, y>>)'
        PROVE  \/ Takes(<<s, y>>)
               \/ \E d \in Desks : WriteEnrollment(d) /\ desk[d].row = <<s, y>> /\ enrollments[<<s, y>>] = NotEnrolled
    BY <1>1, <1>2, <1>3, RowGrows
  <1>4. ASSUME NEW y \in Offerings, NEW z \in Offerings, CourseOf[y] = CourseOf[z],
               NEW d \in Desks, WriteEnrollment(d), desk[d].row = <<s, y>>, enrollments[<<s, y>>] = NotEnrolled,
               Takes(<<s, z>>)'
        PROVE  y = z
    <2>1. Held(s, CourseOf[y]) = {}
      BY <1>1, <1>2, <1>4 DEF RoomLeft, HasRoomLeft, WriteEnrollment
    <2>2. ~Takes(<<s, z>>)
      BY <1>4, <2>1 DEF Held, Takes
    <2>3. enrollments'[<<s, z>>] # enrollments[<<s, z>>]
      BY <1>4, <2>2 DEF Takes
    <2> QED
      BY <1>2, <1>4, <2>3, OneEnrolls
  <1>5. CASE Takes(<<s, o>>) /\ Takes(<<s, other>>)
    BY <1>1, <1>5 DEF OneHeld
  <1> QED
    BY <1>3, <1>4, <1>5

LEMMA PlacesInit == ElectiveInit /\ EnrollmentInit => PlacesInv
  <1> SUFFICES ASSUME ElectiveInit, EnrollmentInit
               PROVE  PlacesInv
    OBVIOUS
  <1>1. \A row \in Rows : ~Takes(row) /\ ~Counts(row) /\ enrollments[row] = NotEnrolled
    BY DEF EnrollmentInit, Takes, Counts, NotEnrolled
  <1>2. ASSUME NEW o \in Offerings, NEW section
        PROVE  Cardinality(Counted(o, section)) = 0
    <2>1. \A s \in Candidates : <<s, o>> \in Rows
      BY DEF Rows
    <2>2. Counted(o, section) = {}
      BY <1>1, <2>1, CountedIs
    <2> QED
      BY <2>2, FS_EmptySet
  <1>3. WithinPlaces
    BY <1>2, EnrollmentAssumption DEF WithinPlaces
  <1>4. OneHeld
    BY <1>1 DEF OneHeld, Rows
  <1>5. \A d \in Desks : desk[d].op = "free"
    BY DEF ElectiveInit, Free
  <1> QED
    BY <1>1, <1>3, <1>4, <1>5, TypesInit DEF PlacesInv, CopiesUntried, TriedStands, RoomLeft

LEMMA PlacesNext == PlacesInv /\ CourseStep => PlacesInv'
  BY TypesNext, ChangeOpened, TriedStandsStays, RoomLeftStays, WithinPlacesStays, OneHeldStays DEF PlacesInv

LEMMA PlacesTold == PlacesInv => PlacesHeld
  <1> SUFFICES ASSUME PlacesInv
               PROVE  PlacesHeld
    OBVIOUS
  <1>1. ASSUME NEW s \in Candidates \ hurried, NEW course
        PROVE  Cardinality(Held(s, course)) <= 1
    <2>1. \A o, other \in Held(s, course) : o = other
      BY DEF Held, PlacesInv, OneHeld, Takes
    <2>2. CASE Held(s, course) = {}
      BY <2>2, FS_EmptySet
    <2>3. CASE Held(s, course) # {}
      <3>1. PICK o : Held(s, course) = {o}
        BY <2>1, <2>3
      <3>2. Cardinality({o}) = 1
        BY FS_Singleton
      <3> QED
        BY <3>1, <3>2
    <2> QED
      BY <2>2, <2>3
  <1> QED
    BY <1>1 DEF PlacesHeld, PlacesInv, WithinPlaces

-----------------------------------------------------------------------------
(* The semester: the types *)

Posting ==
    [faculty : Teachers, offering : Offerings, section : Sections \cup {NoSection}, from : Nat, to : Nat,
     revoked : BOOLEAN]

Correction == [old : Marks, new : Marks]

Attempt == [row : Rows, exam : ExamIds, outcome : {"PENDING", "PASS", "FAIL"}]

Issue == [scholar : Candidates, version : Nat, content : Nat, overtaken : BOOLEAN]

\* What a desk has in hand besides lists, proposals and enrollments.
OtherWork ==
    [op : {"reweight"}, row : {Nobody} \X Offerings, weight : 1 .. (Whole - 1)]
    \cup [op : {"attend"}, row : Rows, session : Sections \X Slots, mark : Marks, copy : Marks \cup {Unmarked}]
    \cup [op : {"examine"}, row : Rows, exam : ExamIds, no : 1 .. MaxRegular, copy : EnrollmentRow]
    \cup [op : {"ratify"}, registration : Keys \X (1 .. MaxRegular), sheet : Marksheets, complete : BOOLEAN]
    \cup [op : {"issue"}, scholar : Candidates, content : Nat, version : Nat, known : Nat]

OtherOps == {"reweight", "attend", "examine", "ratify", "issue"}

WorkTyped == \A d \in Desks : desk[d].op \notin CourseOps \cup {"free"} => desk[d] \in OtherWork

TeachingTypeOK ==
    /\ day \in 0 .. LastDay
    /\ assigned \subseteq Posting
    /\ schemes \in [Offerings -> Nat]
    /\ marked \subseteq Rows \X Kinds

AttendanceTypeOK ==
    /\ sessions \subseteq Sections \X Slots
    /\ attendance \in [Records -> Marks \cup {Unmarked}]
    /\ corrections \in [Records -> Seq(Correction)]
    /\ contested \subseteq Records

ExamTypeOK ==
    /\ cycles \in [Semesters -> Dates \cup {NoCycle}]
    /\ exams \in [ExamIds -> (0 .. LastDay) \cup {NoDay}]
    /\ attempts \in [Keys -> Seq(Attempt)]
    /\ \A k \in Keys : Len(attempts[k]) <= MaxRegular
    /\ tickets \subseteq Registrations
    /\ papers \in [ExamIds \X Setters -> {"NONE", "APPOINTED", "PAPER_RECEIVED"}]

TranscriptTypeOK ==
    /\ points \in [Keys \X (1 .. MaxRegular) -> Nat \cup {Ungraded}]
    /\ edition \in [Candidates -> Nat]
    /\ completed \subseteq Candidates
    /\ issues \subseteq Issue /\ IsFiniteSet(issues)
    /\ revised \subseteq Keys
    /\ crossed \subseteq Candidates

AcademicTypeOK == WorkTyped /\ TeachingTypeOK /\ AttendanceTypeOK /\ ExamTypeOK /\ TranscriptTypeOK

\* A scholar's transcripts are numbered from one without a gap, and none in hand is numbered beyond the next.
NumbersRun ==
    /\ \A s \in Candidates : {issue.version : issue \in IssuesOf(s)} = 1 .. Cardinality(IssuesOf(s))
    /\ \A d \in Desks :
          desk[d].op = "issue" => desk[d].version <= Cardinality(IssuesOf(desk[d].scholar)) + 1

\* Attempts are of enrollments that were tried and stay; what is to be ratified was there when it was read.
AttemptsStand ==
    /\ \A k \in Keys : \A i \in DOMAIN attempts[k] :
          LET row == attempts[k][i].row
          IN  KeyOf(row) = k /\ enrollments[row] # NotEnrolled /\ enrollments[row].tried
    /\ \A d \in Desks :
          /\ desk[d].op = "examine" => /\ enrollments[desk[d].row] # NotEnrolled
                                       /\ desk[d].copy.status = "ENROLLED"
                                       /\ desk[d].no <= Len(attempts[KeyOf(desk[d].row)]) + 1
          /\ desk[d].op = "ratify" => desk[d].registration \in Registrations

LEMMA KeyTyped ==
    ASSUME NEW row \in Rows
    PROVE  KeyOf(row) \in Keys
  BY DEF Rows, KeyOf, Keys, Courses

\* What is in hand by its kind
LEMMA WorkInHand ==
    ASSUME WorkTyped, NEW d \in Desks
    PROVE  /\ desk[d].op = "reweight" => /\ desk[d].row[2] \in Offerings
                                         /\ desk[d].weight \in 1 .. (Whole - 1)
           /\ desk[d].op = "attend" => /\ desk[d].row \in Rows /\ desk[d].session \in Sections \X Slots
                                       /\ desk[d].mark \in Marks /\ desk[d].copy \in Marks \cup {Unmarked}
           /\ desk[d].op = "examine" => /\ desk[d].row \in Rows /\ desk[d].exam \in ExamIds
                                        /\ desk[d].no \in 1 .. MaxRegular /\ desk[d].copy \in EnrollmentRow
           /\ desk[d].op = "ratify" => /\ desk[d].registration \in Keys \X (1 .. MaxRegular)
                                       /\ desk[d].sheet \in Marksheets /\ desk[d].complete \in BOOLEAN
           /\ desk[d].op = "issue" => /\ desk[d].scholar \in Candidates /\ desk[d].content \in Nat
                                      /\ desk[d].version \in Nat /\ desk[d].known \in Nat
  <1>1. CASE desk[d].op \in CourseOps \cup {"free"}
    BY <1>1 DEF CourseOps
  <1>2. CASE desk[d] \in OtherWork
    BY <1>2 DEF OtherWork
  <1> QED
    BY <1>1, <1>2 DEF WorkTyped

\* A request that opens takes a free desk, and no other desk changes.
LEMMA Opened ==
    ASSUME DeskTyped, NEW d \in Desks, NEW r, OpenRequest(d, r)
    PROVE  desk[d] = Free /\ desk'[d] = r /\ \A e \in Desks \ {d} : desk'[e] = desk[e]
  BY DEF OpenRequest, DeskTyped

\* What is put in hand, by its kind
LEMMA ReweightingOpened ==
    ASSUME DeskTyped, NEW d \in Desks, NEW o \in Offerings, NEW weight, OpenReweighting(d, o, weight)
    PROVE  /\ \A e \in Desks \ {d} : desk'[e] = desk[e]
           /\ desk[d] = Free /\ desk'[d].op = "reweight" /\ desk'[d] \in OtherWork
           /\ desk'[d].row[2] = o
  <1> DEFINE r == [op |-> "reweight", row |-> <<Nobody, o>>, weight |-> weight]
  <1>1. OpenRequest(d, r)
    BY DEF OpenReweighting
  <1>2. weight \in 1 .. (Whole - 1)
    BY DEF OpenReweighting, MayReweight, Reweightable
  <1>3. r \in OtherWork /\ r.op = "reweight" /\ r.row = <<Nobody, o>>
    BY <1>2 DEF OtherWork
  <1> HIDE DEF r
  <1> QED
    BY <1>1, <1>3, Opened

LEMMA AttendanceOpened ==
    ASSUME DeskTyped, AttendanceTypeOK, NEW d \in Desks, NEW t, NEW session \in sessions, NEW row \in Rows,
           NEW mark \in Marks, OpenAttendance(d, t, session, row, mark)
    PROVE  /\ \A e \in Desks \ {d} : desk'[e] = desk[e]
           /\ desk[d] = Free /\ desk'[d].op = "attend" /\ desk'[d] \in OtherWork
  <1> DEFINE r == [op |-> "attend", row |-> row, session |-> session, mark |-> mark,
                   copy |-> attendance[<<session, row>>]]
  <1>1. OpenRequest(d, r)
    BY DEF OpenAttendance
  <1>2. session \in Sections \X Slots
    BY DEF AttendanceTypeOK
  <1>3. <<session, row>> \in Records
    BY <1>2 DEF Records
  <1>4. r \in OtherWork /\ r.op = "attend"
    BY <1>2, <1>3 DEF OtherWork, AttendanceTypeOK
  <1> HIDE DEF r
  <1> QED
    BY <1>1, <1>4, Opened

\* Who is eligible has failed each of fewer attempts than there may be.
LEMMA EligibleCounts ==
    ASSUME ExamTypeOK, NEW row \in Rows, NEW e \in ExamIds, Eligible(row, e)
    PROVE  Len(attempts[KeyOf(row)]) + 1 \in 1 .. MaxRegular
  <1> DEFINE k == KeyOf(row)
             n == Len(attempts[k])
  <1>1. attempts[k] \in Seq(Attempt)
    BY KeyTyped DEF ExamTypeOK
  <1>2. n \in Nat /\ DOMAIN attempts[k] = 1 .. n
    BY <1>1
  <1>3. \A i \in 1 .. n : attempts[k][i].outcome \in {"PENDING", "PASS", "FAIL"}
    <2>1. \A i \in 1 .. n : attempts[k][i] \in Attempt
      BY <1>1, <1>2
    <2> QED
      BY <2>1 DEF Attempt
  <1>4. With(k, "FAIL") = 1 .. n
    BY <1>2, <1>3 DEF Eligible, With
  <1>5. Cardinality(1 .. n) = n
    <2>1. 1 \in Int /\ n \in Int
      BY <1>2
    <2>2. Cardinality(1 .. n) = IF 1 > n THEN 0 ELSE n - 1 + 1
      BY <2>1, FS_Interval, Zenon
    <2> QED
      BY <1>2, <2>2
  <1>6. n < MaxRegular
    BY <1>4, <1>5 DEF Eligible
  <1> QED
    BY <1>2, <1>6, ExamAssumption

LEMMA ExaminationOpened ==
    ASSUME TypeInv, ExamTypeOK, NEW d \in Desks, NEW row \in Rows, NEW e \in ExamIds, OpenExamRegistration(d, row, e)
    PROVE  /\ \A f \in Desks \ {d} : desk'[f] = desk[f]
           /\ desk[d] = Free /\ desk'[d].op = "examine" /\ desk'[d] \in OtherWork
           /\ desk'[d].row = row /\ desk'[d].no = Len(attempts[KeyOf(row)]) + 1
           /\ desk'[d].copy = enrollments[row] /\ enrollments[row].status = "ENROLLED"
  <1> DEFINE r == [op |-> "examine", row |-> row, exam |-> e, no |-> Len(attempts[KeyOf(row)]) + 1,
                   copy |-> enrollments[row]]
  <1>1. OpenRequest(d, r) /\ Eligible(row, e)
    BY DEF OpenExamRegistration
  <1>2. r.no \in 1 .. MaxRegular
    BY <1>1, EligibleCounts
  <1>3. enrollments[row].status = "ENROLLED"
    BY <1>1 DEF Eligible
  <1>4. enrollments[row] \in EnrollmentRow
    BY <1>3 DEF TypeInv, CourseTypeOK, NotEnrolled
  <1>5. /\ r \in OtherWork /\ r.op = "examine" /\ r.row = row
        /\ r.no = Len(attempts[KeyOf(row)]) + 1 /\ r.copy = enrollments[row]
    BY <1>2, <1>4 DEF OtherWork
  <1> HIDE DEF r
  <1> QED
    BY <1>1, <1>3, <1>5, Opened DEF TypeInv, CourseTypeOK

LEMMA RegistrationTyped ==
    ASSUME ExamTypeOK, NEW x \in Registrations
    PROVE  /\ x \in Keys \X (1 .. MaxRegular) /\ x = <<x[1], x[2]>>
           /\ x[1] \in Keys /\ x[2] \in DOMAIN attempts[x[1]]
           /\ x[1][1] \in Candidates
           /\ attempts[x[1]][x[2]] \in Attempt
  <1>0. PICK k \in Keys : \E i \in DOMAIN attempts[k] : x = <<k, i>>
    BY DEF Registrations
  <1>1. PICK i \in DOMAIN attempts[k] : x = <<k, i>>
    BY <1>0
  <1>2. attempts[k] \in Seq(Attempt) /\ Len(attempts[k]) \in Nat /\ Len(attempts[k]) <= MaxRegular
    BY DEF ExamTypeOK
  <1>3. i \in 1 .. MaxRegular
    BY <1>2, ExamAssumption
  <1> QED
    BY <1>1, <1>2, <1>3 DEF Keys

LEMMA RatificationOpened ==
    ASSUME DeskTyped, ExamTypeOK, NEW d \in Desks, NEW x \in Registrations, NEW sheet \in Marksheets,
           OpenRatification(d, x, sheet)
    PROVE  /\ \A e \in Desks \ {d} : desk'[e] = desk[e]
           /\ desk[d] = Free /\ desk'[d].op = "ratify" /\ desk'[d] \in OtherWork
           /\ desk'[d].registration = x /\ desk'[d].sheet = sheet
           /\ desk'[d].complete = Complete(x[1][1], Stamped(attempts, x, sheet.outcome),
                                           [points EXCEPT ![x] = sheet.points])
  <1> DEFINE complete == Complete(x[1][1], Stamped(attempts, x, sheet.outcome), [points EXCEPT ![x] = sheet.points])
             r == [op |-> "ratify", registration |-> x, sheet |-> sheet, complete |-> complete]
  <1>1. OpenRequest(d, r)
    BY DEF OpenRatification
  <1>2. complete \in BOOLEAN
    BY Zenon DEF Complete
  <1> HIDE DEF complete
  <1>3. /\ r \in OtherWork /\ r.op = "ratify" /\ r.registration = x /\ r.sheet = sheet /\ r.complete = complete
    BY <1>2, RegistrationTyped DEF OtherWork
  <1> HIDE DEF r
  <1> QED
    BY <1>1, <1>3, Opened DEF complete

LEMMA IssueOpened ==
    ASSUME DeskTyped, TranscriptTypeOK, NEW d \in Desks, NEW s \in Candidates, OpenIssue(d, s)
    PROVE  /\ \A e \in Desks \ {d} : desk'[e] = desk[e]
           /\ desk[d] = Free /\ desk'[d].op = "issue" /\ desk'[d] \in OtherWork
           /\ desk'[d].scholar = s /\ desk'[d].content = edition[s] /\ desk'[d].version = 0
           /\ desk'[d].known = Cardinality(IssuesOf(s))
  <1> DEFINE r == [op |-> "issue", scholar |-> s, content |-> edition[s], version |-> 0,
                   known |-> Cardinality(IssuesOf(s))]
  <1>1. OpenRequest(d, r)
    BY DEF OpenIssue
  <1>2. IsFiniteSet(IssuesOf(s))
    BY FS_Subset DEF IssuesOf, TranscriptTypeOK
  <1>3. Cardinality(IssuesOf(s)) \in Nat
    BY <1>2, FS_CardinalityType
  <1>4. /\ r \in OtherWork /\ r.op = "issue" /\ r.scholar = s /\ r.content = edition[s] /\ r.version = 0
        /\ r.known = Cardinality(IssuesOf(s))
    BY <1>3 DEF OtherWork, TranscriptTypeOK
  <1> HIDE DEF r
  <1> QED
    BY <1>1, <1>4, Opened

LEMMA GreatestUpTo ==
    ASSUME NEW n \in Nat, NEW S, S = (1 .. n) \cup {0}
    PROVE  Max(S) = n
  <1>1. n \in S /\ \A y \in S : y \in Nat /\ n >= y
    OBVIOUS
  <1>2. Max(S) \in S /\ \A y \in S : Max(S) >= y
    BY <1>1 DEF Max
  <1> QED
    BY <1>1, <1>2

LEMMA IssuesCounted ==
    ASSUME TranscriptTypeOK, NEW s
    PROVE  IsFiniteSet(IssuesOf(s)) /\ Cardinality(IssuesOf(s)) \in Nat /\ IssuesOf(s) \subseteq Issue
  <1>1. IsFiniteSet(IssuesOf(s))
    BY FS_Subset DEF IssuesOf, TranscriptTypeOK
  <1> QED
    BY <1>1, FS_CardinalityType DEF IssuesOf, TranscriptTypeOK

LEMMA NextIs ==
    ASSUME TranscriptTypeOK, NumbersRun, NEW s \in Candidates
    PROVE  NextVersion(s) = Cardinality(IssuesOf(s)) + 1
  <1> DEFINE n == Cardinality(IssuesOf(s))
             S == {issue.version : issue \in IssuesOf(s)} \cup {0}
  <1>1. n \in Nat /\ S = (1 .. n) \cup {0}
    BY IssuesCounted DEF NumbersRun
  <1>2. NextVersion(s) = Max(S) + 1
    BY DEF NextVersion
  <1> HIDE DEF S, n
  <1>3. Max(S) = n
    BY <1>1, GreatestUpTo
  <1> QED
    BY <1>1, <1>2, <1>3 DEF n

\* What an issue in hand becomes when its version is read
LEMMA IssueNumbered ==
    ASSUME DeskTyped, WorkTyped, TranscriptTypeOK, NumbersRun, NEW d \in Desks, NumberIssue(d)
    PROVE  /\ \A e \in Desks \ {d} : desk'[e] = desk[e]
           /\ desk[d].op = "issue" /\ desk'[d].op = "issue" /\ desk'[d] \in OtherWork
           /\ desk'[d].scholar = desk[d].scholar /\ desk'[d].content = desk[d].content
           /\ desk'[d].known = desk[d].known
           /\ desk'[d].version = Cardinality(IssuesOf(desk[d].scholar)) + 1
  <1> DEFINE s == desk[d].scholar
             n == Cardinality(IssuesOf(s))
             r == [desk[d] EXCEPT !.version = n + 1]
  <1>1. desk[d].op = "issue"
    BY DEF NumberIssue
  <1>2. desk[d] \in [op : {"issue"}, scholar : Candidates, content : Nat, version : Nat, known : Nat]
    BY <1>1 DEF WorkTyped, CourseOps, OtherWork
  <1>3. n \in Nat /\ NextVersion(s) = n + 1
    BY <1>2, NextIs, IssuesCounted
  <1> HIDE DEF n
  <1>4. desk' = [desk EXCEPT ![d] = r]
    BY <1>3 DEF NumberIssue
  <1>5. /\ r \in OtherWork /\ r.op = "issue" /\ r.scholar = s /\ r.content = desk[d].content
        /\ r.known = desk[d].known /\ r.version = n + 1
    BY <1>2, <1>3 DEF OtherWork
  <1> HIDE DEF r
  <1>6. desk'[d] = r /\ \A e \in Desks \ {d} : desk'[e] = desk[e]
    BY <1>4 DEF DeskTyped
  <1> QED
    BY <1>1, <1>5, <1>6 DEF n

\* What the steps do to the desks
OpensOther(d) ==
    \/ \E o \in Offerings, weight \in 0 .. Whole : OpenReweighting(d, o, weight)
    \/ \E t \in Teachers, session \in sessions, row \in Rows, mark \in Marks : OpenAttendance(d, t, session, row, mark)
    \/ \E row \in Rows, e \in ExamIds : OpenExamRegistration(d, row, e)
    \/ \E x \in Registrations, sheet \in Marksheets : OpenRatification(d, x, sheet)
    \/ \E s \in Candidates : OpenIssue(d, s)
    \/ NumberIssue(d)

LEMMA OtherDesks ==
    ASSUME TypeInv, AcademicTypeOK, NumbersRun, NEW e \in Desks, OpensOther(e)
    PROVE  desk'[e] \in OtherWork /\ \A d \in Desks \ {e} : desk'[d] = desk[d]
  BY ReweightingOpened, AttendanceOpened, ExaminationOpened, RatificationOpened, IssueOpened, IssueNumbered
     DEF OpensOther, AcademicTypeOK, TypeInv, CourseTypeOK

\* Steps of the other modules
OtherNext ==
    \/ TeachingNext /\ UNCHANGED <<attendanceVars, examVars, transcriptVars>>
    \/ AttendanceNext /\ UNCHANGED <<examVars, transcriptVars>>
    \/ OfficeNext /\ UNCHANGED transcriptVars
    \/ TranscriptNext

LEMMA OtherStepDesks ==
    ASSUME TypeInv, AcademicTypeOK, NumbersRun, OtherNext
    PROVE  /\ desk' = [d \in Desks |-> desk'[d]]
           /\ \A d \in Desks : desk'[d] = desk[d] \/ desk'[d] = Free \/ (OpensOther(d) /\ desk'[d] \in OtherWork)
  <1>0. DeskTyped
    BY DEF TypeInv, CourseTypeOK
  <1>1. ASSUME NEW e \in Desks, CloseRequest(e)
        PROVE  \A d \in Desks : desk'[d] = desk[d] \/ desk'[d] = Free
    BY <1>0, <1>1, DeskCloses
  <1>2. ASSUME NEW e \in Desks, OpensOther(e)
        PROVE  \A d \in Desks : desk'[d] = desk[d] \/ (OpensOther(d) /\ desk'[d] \in OtherWork)
    BY <1>2, OtherDesks
  <1>3. \/ desk' = desk
        \/ \E e \in Desks : CloseRequest(e) \/ OpensOther(e)
    BY DEF OtherNext, TeachingNext, AttendanceNext, OfficeNext, TranscriptNext, OpensOther,
           AssignFaculty, RevokeAssignment, DefineScheme, DayPasses, EnterMark, WriteReweighting, CreateSession,
           WriteAttendance, CreateExamCycle, CreateExam, AppointSetter, RecordPaperReceived, WriteExamRegistration,
           IssueHallTicket, RevokeHallTicket, WriteRatification, WriteIssue
  <1>4. \A e \in Desks : CloseRequest(e) \/ OpensOther(e) => desk' = [d \in Desks |-> desk'[d]]
    BY <1>0 DEF DeskTyped, CloseRequest, OpenRequest, OpensOther, OpenReweighting, OpenAttendance, OpenExamRegistration,
                OpenRatification, OpenIssue, NumberIssue
  <1> QED
    BY <1>0, <1>1, <1>2, <1>3, <1>4 DEF DeskTyped

LEMMA AcademicSteps ==
    ASSUME [AcademicNext]_academicVars
    PROVE  \/ (CourseNext \/ UNCHANGED courseVars) /\ UNCHANGED <<teachingVars, attendanceVars, examVars, transcriptVars>>
           \/ OtherNext
  BY DEF AcademicNext, OtherNext, academicVars, courseVars, teachingVars, attendanceVars, examVars, transcriptVars

LEMMA CourseStepDesks ==
    ASSUME DeskTyped, TypeInv, CourseNext \/ UNCHANGED courseVars
    PROVE  \A d \in Desks : desk'[d] = desk[d] \/ desk'[d].op \in CourseOps \cup {"free"}
  BY ElectiveDesks, EnrollmentDesks DEF CourseNext, CourseOps, courseVars

LEMMA StepDesks ==
    ASSUME TypeInv, AcademicTypeOK, NumbersRun, [AcademicNext]_academicVars
    PROVE  /\ \A d \in Desks : \/ desk'[d] = desk[d]
                               \/ desk'[d].op \in CourseOps \cup {"free"}
                               \/ OpensOther(d)
           /\ WorkTyped'
  <1>0. DeskTyped /\ WorkTyped
    BY DEF TypeInv, CourseTypeOK, AcademicTypeOK
  <1>1. CASE CourseNext \/ UNCHANGED courseVars
    BY <1>0, <1>1, CourseStepDesks DEF WorkTyped
  <1>2. CASE OtherNext
    BY <1>0, <1>2, OtherStepDesks DEF WorkTyped, Free
  <1> QED
    BY <1>1, <1>2, AcademicSteps

\* An enrollment stays, with its section, and has been tried for good.
LEMMA EnrollmentStays ==
    ASSUME TypeInv, CourseStep, NEW row \in Rows, enrollments[row] # NotEnrolled
    PROVE  /\ enrollments'[row] # NotEnrolled
           /\ enrollments[row].tried => enrollments'[row].tried
           /\ enrollments'[row].section = enrollments[row].section
  <1>0. /\ enrollments \in [Rows -> {NotEnrolled} \cup EnrollmentRow] /\ DeskTyped
        /\ enrollments[row] \in EnrollmentRow
    BY DEF TypeInv, CourseTypeOK
  <1> DEFINE Stays == /\ enrollments'[row] # NotEnrolled
                      /\ enrollments[row].tried => enrollments'[row].tried
                      /\ enrollments'[row].section = enrollments[row].section
  <1>1. ASSUME enrollments'[row] = enrollments[row]
        PROVE  Stays
    BY <1>1
  <1>2. ASSUME NEW d \in Desks, WriteEnrollment(d)
        PROVE  enrollments'[row] = enrollments[row]
    BY <1>0, <1>2 DEF WriteEnrollment
  <1>3. ASSUME NEW k \in Rows, enrollments[k] # NotEnrolled, NEW new \in EnrollmentRow,
               enrollments' = [enrollments EXCEPT ![k] = new], new.section = enrollments[k].section,
               enrollments[k].tried => new.tried
        PROVE  Stays
    <2>1. new # NotEnrolled
      BY RowsTold
    <2>2. enrollments'[row] = IF row = k THEN new ELSE enrollments[row]
      BY <1>0, <1>3
    <2> QED
      BY <1>3, <2>1, <2>2
  <1>4. ASSUME NEW k \in Rows, enrollments[k] # NotEnrolled,
               enrollments' = [enrollments EXCEPT ![k].tried = TRUE]
        PROVE  Stays
    <2> DEFINE new == [enrollments[k] EXCEPT !.tried = TRUE]
    <2>1. enrollments[k] \in EnrollmentRow /\ enrollments' = [enrollments EXCEPT ![k] = new]
      BY <1>0, <1>4
    <2>2. new \in EnrollmentRow /\ new.section = enrollments[k].section /\ new.tried
      BY <2>1 DEF EnrollmentRow
    <2> HIDE DEF new, Stays
    <2> QED
      BY <1>3, <1>4, <2>1, <2>2
  <1>5. ASSUME NEW d \in Desks, WriteWithdrawal(d)
        PROVE  Stays
    <2>1. PICK k \in Rows : k = desk[d].row /\ enrollments[k] # NotEnrolled
      BY <1>0, <1>5, InHand DEF WriteWithdrawal, RowsExist, TypeInv
    <2> DEFINE new == [enrollments[k] EXCEPT !.status = "WITHDRAWN"]
    <2>2. enrollments[k] \in EnrollmentRow /\ enrollments' = [enrollments EXCEPT ![k] = new]
      BY <1>0, <1>5, <2>1 DEF WriteWithdrawal
    <2>3. new \in EnrollmentRow /\ new.section = enrollments[k].section /\ new.tried = enrollments[k].tried
      BY <2>2 DEF EnrollmentRow
    <2> HIDE DEF new, Stays
    <2> QED
      BY <1>3, <2>1, <2>2, <2>3
  <1>6. ASSUME NEW d \in Desks, WriteAttempt(d)
        PROVE  Stays
    <2>1. PICK k \in Rows : k = desk[d].row /\ enrollments[k] # NotEnrolled
      BY <1>0, <1>6, InHand DEF WriteAttempt, RowsExist, TypeInv
    <2> HIDE DEF Stays
    <2> QED
      BY <1>4, <1>6, <2>1 DEF WriteAttempt
  <1>7. ASSUME NEW k \in Rows, NEW pass \in BOOLEAN, Ratified(k, pass)
        PROVE  Stays
    <2> DEFINE status == IF pass THEN "COMPLETED" ELSE "ENROLLED"
               reopened == ~pass /\ (enrollments[k].reopened \/ enrollments[k].status = "COMPLETED")
               new == [enrollments[k] EXCEPT !.status = status, !.reopened = reopened]
    <2>1. enrollments[k] \in EnrollmentRow /\ enrollments[k] # NotEnrolled
      BY <1>0, <1>7 DEF Ratified
    <2>2. enrollments' = [enrollments EXCEPT ![k] = new]
      BY <1>7 DEF Ratified
    <2>3. status \in {"ENROLLED", "WITHDRAWN", "COMPLETED"}
      OBVIOUS
    <2>4. reopened \in BOOLEAN
      BY Zenon
    <2> HIDE DEF status, reopened
    <2>5. new \in EnrollmentRow /\ new.section = enrollments[k].section /\ new.tried = enrollments[k].tried
      BY <2>1, <2>3, <2>4 DEF EnrollmentRow
    <2> HIDE DEF new, Stays
    <2> QED
      BY <1>3, <2>1, <2>2, <2>5
  <1>8. ASSUME NEW k \in Rows, TriedBeside(k)
        PROVE  Stays
    <2> HIDE DEF Stays
    <2> QED
      BY <1>4, <1>8 DEF TriedBeside
  <1>9. ASSUME enrollments' = enrollments
        PROVE  Stays
    BY <1>9
  <1> HIDE DEF Stays
  <1>10. Stays
    <2>1. \/ enrollments' = enrollments
          \/ \E d \in Desks : WriteEnrollment(d) \/ WriteWithdrawal(d) \/ WriteAttempt(d)
          \/ \E k \in Rows : TriedBeside(k)
          \/ \E k \in Rows, pass \in BOOLEAN : Ratified(k, pass)
      BY EnrollmentsChange
    <2>2. ASSUME NEW d \in Desks, WriteEnrollment(d)
          PROVE  Stays
      BY <1>1, <1>2, <2>2
    <2> QED
      BY <1>5, <1>6, <1>7, <1>8, <1>9, <2>1, <2>2
  <1> QED
    BY <1>10 DEF Stays

\* A registration that is written appends an attempt of the enrollment, or is refused.
LEMMA Examined ==
    ASSUME TypeInv, AcademicTypeOK, NEW d \in Desks, WriteExamRegistration(d)
    PROVE  \/ attempts' = attempts /\ enrollments' = enrollments /\ hurried' = hurried
           \/ \E row \in Rows, new \in Attempt :
                 /\ row = desk[d].row /\ new.row = row /\ new.outcome = "PENDING"
                 /\ desk[d].no = Len(attempts[KeyOf(row)]) + 1
                 /\ attempts' = [attempts EXCEPT ![KeyOf(row)] = Append(attempts[KeyOf(row)], new)]
                 /\ enrollments' = [enrollments EXCEPT ![row].tried = TRUE]
                 /\ hurried' = hurried \cup Changed(d, row)
  <1> SUFFICES ASSUME Admissible(desk[d])
               PROVE  \E row \in Rows, new \in Attempt :
                         /\ row = desk[d].row /\ new.row = row /\ new.outcome = "PENDING"
                         /\ desk[d].no = Len(attempts[KeyOf(row)]) + 1
                         /\ attempts' = [attempts EXCEPT ![KeyOf(row)] = Append(attempts[KeyOf(row)], new)]
                         /\ enrollments' = [enrollments EXCEPT ![row].tried = TRUE]
                         /\ hurried' = hurried \cup Changed(d, row)
    BY DEF WriteExamRegistration
  <1>1. PICK row \in Rows, e \in ExamIds : row = desk[d].row /\ e = desk[d].exam
    BY WorkInHand DEF WriteExamRegistration, AcademicTypeOK
  <1> DEFINE new == [row |-> row, exam |-> e, outcome |-> "PENDING"]
  <1>2. new \in Attempt /\ new.row = row /\ new.outcome = "PENDING"
    BY DEF Attempt
  <1>3. attempts' = [attempts EXCEPT ![KeyOf(row)] = Append(attempts[KeyOf(row)], new)]
    BY <1>1 DEF WriteExamRegistration
  <1> HIDE DEF new
  <1> QED
    BY <1>1, <1>2, <1>3 DEF WriteExamRegistration, Admissible

LEMMA AttemptAppended ==
    ASSUME ExamTypeOK, NEW k \in Keys, NEW new \in Attempt,
           attempts' = [attempts EXCEPT ![k] = Append(attempts[k], new)]
    PROVE  /\ attempts' \in [Keys -> Seq(Attempt)]
           /\ \A y \in Keys : y # k => attempts'[y] = attempts[y]
           /\ Len(attempts'[k]) = Len(attempts[k]) + 1
           /\ DOMAIN attempts'[k] = DOMAIN attempts[k] \cup {Len(attempts[k]) + 1}
           /\ \A i \in DOMAIN attempts[k] : attempts'[k][i] = attempts[k][i]
           /\ attempts'[k][Len(attempts[k]) + 1] = new
  <1>1. attempts[k] \in Seq(Attempt)
    BY DEF ExamTypeOK
  <1> DEFINE log == Append(attempts[k], new)
  <1>2. /\ log \in Seq(Attempt) /\ Len(log) = Len(attempts[k]) + 1
        /\ DOMAIN log = DOMAIN attempts[k] \cup {Len(attempts[k]) + 1}
        /\ \A i \in DOMAIN attempts[k] : log[i] = attempts[k][i]
        /\ log[Len(attempts[k]) + 1] = new
    BY <1>1
  <1> HIDE DEF log
  <1>3. attempts' = [attempts EXCEPT ![k] = log]
    BY DEF log
  <1> QED
    BY <1>2, <1>3 DEF ExamTypeOK

\* A result changes the outcome of one attempt.
LEMMA StampedIs ==
    ASSUME NEW a \in [Keys -> Seq(Attempt)], NEW x \in Keys \X (1 .. MaxRegular), x[2] \in DOMAIN a[x[1]],
           NEW outcome \in {"PASS", "FAIL"}, NEW b, b = Stamped(a, x, outcome)
    PROVE  /\ b \in [Keys -> Seq(Attempt)]
           /\ \A k \in Keys : Len(b[k]) = Len(a[k]) /\ DOMAIN b[k] = DOMAIN a[k]
           /\ \A k \in Keys : \A i \in DOMAIN a[k] :
                 /\ b[k][i].row = a[k][i].row
                 /\ b[k][i].outcome = IF x = <<k, i>> THEN outcome ELSE a[k][i].outcome
  <1> DEFINE key == x[1]
             j == x[2]
             log == a[key]
             row == log[j]
             stamped == [row EXCEPT !.outcome = outcome]
             longer == [log EXCEPT ![j] = stamped]
  <1>0. key \in Keys /\ log \in Seq(Attempt) /\ j \in DOMAIN log /\ x = <<key, j>>
    OBVIOUS
  <1>1. row \in Attempt
    BY <1>0
  <1>2. stamped \in Attempt /\ stamped.row = row.row /\ stamped.outcome = outcome
    BY <1>1 DEF Attempt
  <1>3. b = [a EXCEPT ![key] = longer]
    BY DEF Stamped
  <1> HIDE DEF stamped
  <1>4. /\ longer \in Seq(Attempt) /\ Len(longer) = Len(log) /\ DOMAIN longer = DOMAIN log
        /\ \A i \in DOMAIN log : longer[i] = IF i = j THEN stamped ELSE log[i]
    BY <1>0, <1>2
  <1> HIDE DEF longer
  <1>5. \A k \in Keys : b[k] = IF k = key THEN longer ELSE a[k]
    BY <1>0, <1>3
  <1>6. b \in [Keys -> Seq(Attempt)]
    BY <1>0, <1>3, <1>4
  <1>7. ASSUME NEW k \in Keys, NEW i \in DOMAIN a[k]
        PROVE  /\ b[k][i].row = a[k][i].row
               /\ b[k][i].outcome = IF x = <<k, i>> THEN outcome ELSE a[k][i].outcome
    <2>1. CASE k = key
      <3>1. b[k][i] = IF i = j THEN stamped ELSE log[i]
        BY <1>4, <1>5, <2>1
      <3>2. x = <<k, i>> <=> i = j
        BY <1>0, <2>1
      <3> QED
        BY <1>2, <2>1, <3>1, <3>2
    <2>2. CASE k # key
      BY <1>0, <1>5, <2>2
    <2> QED
      BY <2>1, <2>2
  <1> QED
    BY <1>0, <1>4, <1>5, <1>6, <1>7

LEMMA AttemptStamped ==
    ASSUME ExamTypeOK, NEW x \in Registrations, NEW outcome \in {"PASS", "FAIL"}, NEW b,
           b = Stamped(attempts, x, outcome)
    PROVE  /\ b \in [Keys -> Seq(Attempt)]
           /\ \A k \in Keys : Len(b[k]) = Len(attempts[k]) /\ DOMAIN b[k] = DOMAIN attempts[k]
           /\ \A k \in Keys : \A i \in DOMAIN attempts[k] :
                 /\ b[k][i].row = attempts[k][i].row
                 /\ b[k][i].outcome = IF x = <<k, i>> THEN outcome ELSE attempts[k][i].outcome
  <1>1. /\ x \in Keys \X (1 .. MaxRegular) /\ x[2] \in DOMAIN attempts[x[1]]
        /\ attempts \in [Keys -> Seq(Attempt)]
    BY RegistrationTyped DEF ExamTypeOK
  <1> QED
    BY <1>1, StampedIs

\* What a ratification writes
LEMMA RatificationWritten ==
    ASSUME AcademicTypeOK, AttemptsStand, NEW d \in Desks, WriteRatification(d)
    PROVE  \E x \in Registrations, sheet \in Marksheets :
              /\ x = desk[d].registration /\ sheet = desk[d].sheet
              /\ sheet.outcome \in {"PASS", "FAIL"}
              /\ attempts' = Stamped(attempts, x, sheet.outcome)
              /\ points' = [points EXCEPT ![x] = sheet.points]
              /\ edition' = [edition EXCEPT ![x[1][1]] = @ + 1]
              /\ completed' = Refreshed(x[1][1], desk[d].complete)
              /\ revised' = IF LaterAttempt(x[1], x[2]) THEN revised \cup {x[1]} ELSE revised
              /\ Ratified(attempts[x[1]][x[2]].row, sheet.outcome = "PASS")
              /\ CloseRequest(d)
              /\ UNCHANGED <<cycles, exams, tickets, papers, issues, crossed, attendanceVars, teachingVars>>
  <1>1. PICK x \in Registrations, sheet \in Marksheets : x = desk[d].registration /\ sheet = desk[d].sheet
    BY WorkInHand DEF AcademicTypeOK, AttemptsStand, WriteRatification
  <1>2. sheet.outcome \in {"PASS", "FAIL"}
    BY TranscriptAssumption
  <1> QED
    BY <1>1, <1>2 DEF WriteRatification, RatifyOutcome, Stamped

\* What the other modules do is beside the lists, proposals and enrollments.
LEMMA StepBeside ==
    ASSUME TypeInv, AcademicTypeOK, AttemptsStand, NumbersRun, OtherNext
    PROVE  Beside
  <1>0. hurried \subseteq Candidates \cup Offerings
    BY DEF TypeInv, CourseTypeOK
  <1>1. \A d \in Desks : desk'[d] \in OtherWork => desk'[d].op \notin CourseOps \cup {"free"}
    BY DEF OtherWork, CourseOps
  <1>2. /\ desk' = [d \in Desks |-> desk'[d]]
        /\ \A d \in Desks : desk'[d] = desk[d] \/ desk'[d] = Free \/ desk'[d].op \notin CourseOps \cup {"free"}
    BY <1>1, OtherStepDesks
  <1>3. UNCHANGED <<lists, proposals, active, windows, cleared, registered, offered>>
    BY DEF OtherNext, TeachingNext, AttendanceNext, OfficeNext, TranscriptNext, AssignFaculty, RevokeAssignment,
           DefineScheme, OpenReweighting, WriteReweighting, EnterMark, DayPasses, CreateSession, OpenAttendance,
           WriteAttendance, CreateExamCycle, CreateExam, AppointSetter, RecordPaperReceived, OpenExamRegistration,
           WriteExamRegistration, IssueHallTicket, RevokeHallTicket, OpenRatification, WriteRatification, RatifyOutcome,
           Ratified, OpenIssue, NumberIssue, WriteIssue, enrollmentVars, electiveVars
  <1>4. ASSUME NEW d \in Desks, WriteExamRegistration(d)
        PROVE  Beside
    <2>1. CASE enrollments' = enrollments /\ hurried' = hurried
      BY <1>0, <1>2, <1>3, <2>1 DEF Beside
    <2>2. ASSUME NEW row \in Rows, row = desk[d].row, enrollments' = [enrollments EXCEPT ![row].tried = TRUE],
                 hurried' = hurried \cup Changed(d, row)
          PROVE  Beside
      <3>1. enrollments[row] # NotEnrolled /\ desk[d].copy.status = "ENROLLED"
        BY <1>4, <2>2 DEF AttemptsStand, WriteExamRegistration
      <3>2. TriedBeside(row)
        BY <2>2, <3>1 DEF TriedBeside, Changed
      <3>3. hurried' \subseteq Candidates \cup Offerings
        BY <1>0, <2>2, RowParts DEF Changed
      <3> QED
        BY <1>2, <1>3, <2>2, <3>2, <3>3 DEF Beside
    <2> QED
      BY <1>4, <2>1, <2>2, Examined
  <1>5. ASSUME NEW d \in Desks, WriteRatification(d)
        PROVE  Beside
    <2>1. PICK x \in Registrations, pass \in BOOLEAN : Ratified(attempts[x[1]][x[2]].row, pass)
      BY <1>5, RatificationWritten
    <2>2. attempts[x[1]][x[2]].row \in Rows
      BY RegistrationTyped DEF AcademicTypeOK, Attempt
    <2>3. hurried' = hurried
      BY <2>1 DEF Ratified
    <2> QED
      BY <1>0, <1>2, <1>3, <2>1, <2>2, <2>3 DEF Beside
  <1>6. ASSUME NEW t \in Teachers, NEW row \in Rows, NEW kind \in Kinds, EnterMark(t, row, kind)
        PROVE  Beside
    <2>1. enrollments' = enrollments /\ hurried \subseteq hurried' /\ hurried' \subseteq Candidates \cup Offerings
      BY <1>0, <1>6, RowParts DEF EnterMark
    <2> QED
      BY <1>2, <1>3, <2>1 DEF Beside
  <1>7. CASE enrollments' = enrollments /\ hurried' = hurried
    BY <1>0, <1>2, <1>3, <1>7 DEF Beside
  <1>8. \/ enrollments' = enrollments /\ hurried' = hurried
        \/ \E d \in Desks : WriteExamRegistration(d) \/ WriteRatification(d)
        \/ \E t \in Teachers, row \in Rows, kind \in Kinds : EnterMark(t, row, kind)
    BY DEF OtherNext, TeachingNext, AttendanceNext, OfficeNext, TranscriptNext, AssignFaculty, RevokeAssignment,
           DefineScheme, OpenReweighting, WriteReweighting, DayPasses, CreateSession, OpenAttendance,
           WriteAttendance, CreateExamCycle, CreateExam, AppointSetter, RecordPaperReceived, OpenExamRegistration,
           IssueHallTicket, RevokeHallTicket, OpenRatification, OpenIssue, NumberIssue, WriteIssue, enrollmentVars
  <1> QED
    BY <1>4, <1>5, <1>6, <1>7, <1>8

LEMMA StepIsCourse ==
    ASSUME TypeInv, AcademicTypeOK, AttemptsStand, NumbersRun, [AcademicNext]_academicVars
    PROVE  CourseStep
  BY AcademicSteps, StepBeside DEF CourseStep

LEMMA TeachingTyped ==
    ASSUME TypeInv, AcademicTypeOK, TeachingNext
    PROVE  TeachingTypeOK'
  <1>0. TeachingTypeOK /\ WorkTyped /\ LastDay \in Nat /\ day \in Nat
    BY TeachingAssumption DEF AcademicTypeOK, TeachingTypeOK
  <1>1. ASSUME NEW t \in Teachers, NEW o \in Offerings, NEW section \in Sections \cup {NoSection},
               NEW to \in day .. (LastDay + 1), AssignFaculty(t, o, section, to)
        PROVE  TeachingTypeOK'
    <2>1. Assignment(t, o, section, to) \in Posting
      BY <1>0 DEF Assignment, Posting
    <2> QED
      BY <1>0, <1>1, <2>1 DEF AssignFaculty, TeachingTypeOK
  <1>2. ASSUME NEW a \in assigned, RevokeAssignment(a)
        PROVE  TeachingTypeOK'
    <2>1. [a EXCEPT !.revoked = TRUE] \in Posting
      BY <1>0 DEF TeachingTypeOK, Posting
    <2> QED
      BY <1>0, <1>2, <2>1 DEF RevokeAssignment, TeachingTypeOK
  <1>3. ASSUME NEW o \in Offerings, DefineScheme(o)
        PROVE  TeachingTypeOK'
    BY <1>0, <1>3, TeachingAssumption DEF DefineScheme, TeachingTypeOK
  <1>4. ASSUME NEW d \in Desks, NEW o \in Offerings, NEW weight \in 0 .. Whole, OpenReweighting(d, o, weight)
        PROVE  TeachingTypeOK'
    BY <1>0, <1>4 DEF OpenReweighting, TeachingTypeOK, teachingVars
  <1>5. ASSUME NEW d \in Desks, WriteReweighting(d)
        PROVE  TeachingTypeOK'
    <2>1. desk[d].weight \in Nat
      BY <1>0, <1>5, WorkInHand DEF WriteReweighting
    <2> QED
      BY <1>0, <1>5, <2>1 DEF WriteReweighting, TeachingTypeOK
  <1>6. ASSUME NEW t \in Teachers, NEW row \in Rows, NEW kind \in Kinds, EnterMark(t, row, kind)
        PROVE  TeachingTypeOK'
    BY <1>0, <1>6 DEF EnterMark, TeachingTypeOK
  <1>7. CASE DayPasses
    BY <1>0, <1>7 DEF DayPasses, TeachingTypeOK
  <1> QED
    BY <1>1, <1>2, <1>3, <1>4, <1>5, <1>6, <1>7 DEF TeachingNext

\* What a request to record attendance writes
LEMMA AttendanceWritten ==
    ASSUME AcademicTypeOK, NEW d \in Desks, WriteAttendance(d)
    PROVE  \/ UNCHANGED <<attendance, corrections, contested>>
           \/ \E k \in Records, mark \in Marks, copy \in Marks \cup {Unmarked} :
                 /\ copy # mark /\ (copy = Unmarked => attendance[k] = Unmarked)
                 /\ attendance' = [attendance EXCEPT ![k] = mark]
                 /\ corrections' = IF copy = Unmarked THEN corrections
                                   ELSE [corrections EXCEPT ![k] = Append(corrections[k], [old |-> copy, new |-> mark])]
                 /\ contested' = IF copy = attendance[k] THEN contested ELSE contested \cup {k}
  <1>1. /\ desk[d].row \in Rows /\ desk[d].session \in Sections \X Slots
        /\ desk[d].mark \in Marks /\ desk[d].copy \in Marks \cup {Unmarked}
    BY WorkInHand DEF AcademicTypeOK, WriteAttendance
  <1>2. <<desk[d].session, desk[d].row>> \in Records
    BY <1>1 DEF Records
  <1> QED
    BY <1>1, <1>2 DEF WriteAttendance, Corrected

LEMMA AttendanceTyped ==
    ASSUME TypeInv, AcademicTypeOK, AttendanceNext
    PROVE  AttendanceTypeOK'
  <1>0. AttendanceTypeOK /\ WorkTyped
    BY DEF AcademicTypeOK
  <1>1. ASSUME NEW t \in Teachers, NEW section \in Sections, NEW slot \in Slots, CreateSession(t, <<section, slot>>)
        PROVE  AttendanceTypeOK'
    BY <1>0, <1>1 DEF CreateSession, AttendanceTypeOK
  <1>2. ASSUME NEW d \in Desks, NEW t \in Teachers, NEW session \in sessions, NEW row \in Rows, NEW mark \in Marks,
               OpenAttendance(d, t, session, row, mark)
        PROVE  AttendanceTypeOK'
    BY <1>0, <1>2 DEF OpenAttendance, AttendanceTypeOK, attendanceVars
  <1>3. ASSUME NEW d \in Desks, WriteAttendance(d)
        PROVE  AttendanceTypeOK'
    <2>0. sessions' = sessions
      BY <1>3 DEF WriteAttendance
    <2>1. CASE UNCHANGED <<attendance, corrections, contested>>
      BY <1>0, <2>0, <2>1 DEF AttendanceTypeOK
    <2>2. ASSUME NEW k \in Records, NEW mark \in Marks, NEW copy \in Marks \cup {Unmarked},
                 attendance' = [attendance EXCEPT ![k] = mark],
                 corrections' = IF copy = Unmarked THEN corrections
                                ELSE [corrections EXCEPT ![k] = Append(corrections[k], [old |-> copy, new |-> mark])],
                 contested' = IF copy = attendance[k] THEN contested ELSE contested \cup {k}
          PROVE  AttendanceTypeOK'
      <3>1. corrections[k] \in Seq(Correction)
        BY <1>0 DEF AttendanceTypeOK
      <3>2. copy # Unmarked => [old |-> copy, new |-> mark] \in Correction
        BY DEF Correction
      <3>3. copy # Unmarked => Append(corrections[k], [old |-> copy, new |-> mark]) \in Seq(Correction)
        BY <3>1, <3>2
      <3>4. corrections' \in [Records -> Seq(Correction)]
        BY <1>0, <2>2, <3>3 DEF AttendanceTypeOK
      <3>5. attendance' \in [Records -> Marks \cup {Unmarked}]
        BY <1>0, <2>2 DEF AttendanceTypeOK
      <3> QED
        BY <1>0, <2>0, <2>2, <3>4, <3>5 DEF AttendanceTypeOK
    <2> QED
      BY <1>3, <2>1, <2>2, AttendanceWritten
  <1> QED
    BY <1>1, <1>2, <1>3 DEF AttendanceNext

LEMMA RegistrationsGrow ==
    ASSUME \A k \in Keys : DOMAIN attempts[k] \subseteq DOMAIN attempts'[k]
    PROVE  Registrations \subseteq Registrations'
  BY DEF Registrations

LEMMA OfficeTyped ==
    ASSUME TypeInv, AcademicTypeOK, OfficeNext
    PROVE  ExamTypeOK' /\ Registrations \subseteq Registrations'
  <1>0. ExamTypeOK /\ WorkTyped /\ LastDay \in Nat
    BY TeachingAssumption DEF AcademicTypeOK
  <1>1. ASSUME attempts' = attempts
        PROVE  Registrations' = Registrations
    BY <1>1 DEF Registrations
  <1>2. ASSUME NEW semester \in Semesters, NEW c \in Dates, CreateExamCycle(semester, c)
        PROVE  ExamTypeOK' /\ Registrations' = Registrations
    BY <1>0, <1>1, <1>2 DEF CreateExamCycle, ExamTypeOK
  <1>3. ASSUME NEW e \in ExamIds, NEW on \in 0 .. LastDay, CreateExam(e, on)
        PROVE  ExamTypeOK' /\ Registrations' = Registrations
    BY <1>0, <1>1, <1>3 DEF CreateExam, ExamTypeOK
  <1>4. ASSUME NEW e \in ExamIds, NEW p \in Setters, AppointSetter(e, p) \/ RecordPaperReceived(e, p)
        PROVE  ExamTypeOK' /\ Registrations' = Registrations
    <2>1. UNCHANGED <<cycles, exams, attempts, tickets>>
      BY <1>4 DEF AppointSetter, RecordPaperReceived
    <2>2. papers' \in [ExamIds \X Setters -> {"NONE", "APPOINTED", "PAPER_RECEIVED"}]
      BY <1>0, <1>4 DEF AppointSetter, RecordPaperReceived, ExamTypeOK
    <2> QED
      BY <1>0, <1>1, <2>1, <2>2 DEF ExamTypeOK
  <1>5. ASSUME NEW d \in Desks, NEW row \in Rows, NEW e \in ExamIds, OpenExamRegistration(d, row, e)
        PROVE  ExamTypeOK' /\ Registrations' = Registrations
    BY <1>0, <1>1, <1>5 DEF OpenExamRegistration, ExamTypeOK, examVars
  <1>6. ASSUME NEW d \in Desks, WriteExamRegistration(d)
        PROVE  ExamTypeOK' /\ Registrations \subseteq Registrations'
    <2>0. UNCHANGED <<cycles, exams, tickets, papers>>
      BY <1>6 DEF WriteExamRegistration
    <2>1. CASE attempts' = attempts
      BY <1>0, <1>1, <2>0, <2>1 DEF ExamTypeOK
    <2>2. ASSUME NEW row \in Rows, NEW new \in Attempt, desk[d].no = Len(attempts[KeyOf(row)]) + 1,
                 attempts' = [attempts EXCEPT ![KeyOf(row)] = Append(attempts[KeyOf(row)], new)]
          PROVE  ExamTypeOK' /\ Registrations \subseteq Registrations'
      <3> DEFINE k == KeyOf(row)
      <3>1. k \in Keys
        BY KeyTyped
      <3>2. /\ attempts' \in [Keys -> Seq(Attempt)]
            /\ \A y \in Keys : y # k => attempts'[y] = attempts[y]
            /\ Len(attempts'[k]) = Len(attempts[k]) + 1
            /\ DOMAIN attempts'[k] = DOMAIN attempts[k] \cup {Len(attempts[k]) + 1}
        BY <1>0, <2>2, <3>1, AttemptAppended
      <3>3. desk[d].no \in 1 .. MaxRegular
        BY <1>0, <1>6, WorkInHand DEF WriteExamRegistration
      <3>4. Len(attempts'[k]) <= MaxRegular
        BY <2>2, <3>2, <3>3, ExamAssumption
      <3> HIDE DEF k
      <3>5. \A y \in Keys : Len(attempts'[y]) <= MaxRegular
        BY <1>0, <3>2, <3>4 DEF ExamTypeOK
      <3>6. Registrations \subseteq Registrations'
        BY <3>2, RegistrationsGrow
      <3> QED
        BY <1>0, <2>0, <3>2, <3>5, <3>6 DEF ExamTypeOK
    <2> QED
      BY <1>6, <2>1, <2>2, Examined
  <1>7. ASSUME NEW x \in Registrations, IssueHallTicket(x) \/ RevokeHallTicket(x)
        PROVE  ExamTypeOK' /\ Registrations' = Registrations
    <2>1. UNCHANGED <<cycles, exams, attempts, papers>> /\ tickets' \subseteq tickets \cup {x}
      BY <1>7 DEF IssueHallTicket, RevokeHallTicket
    <2> QED
      BY <1>0, <1>1, <2>1 DEF ExamTypeOK
  <1> QED
    BY <1>2, <1>3, <1>4, <1>5, <1>6, <1>7 DEF OfficeNext

LEMMA TranscriptTyped ==
    ASSUME TypeInv, AcademicTypeOK, AttemptsStand, TranscriptNext
    PROVE  ExamTypeOK' /\ TranscriptTypeOK' /\ Registrations' = Registrations
  <1>0. ExamTypeOK /\ WorkTyped /\ TranscriptTypeOK
    BY DEF AcademicTypeOK
  <1>1. ASSUME UNCHANGED examVars
        PROVE  ExamTypeOK' /\ Registrations' = Registrations
    BY <1>0, <1>1 DEF ExamTypeOK, examVars, Registrations
  <1>2. ASSUME NEW d \in Desks, NEW x \in Registrations, NEW sheet \in Marksheets, OpenRatification(d, x, sheet)
        PROVE  UNCHANGED examVars /\ TranscriptTypeOK'
    <2>1. x[1][1] \in Candidates
      BY <1>0, RegistrationTyped
    <2> QED
      BY <1>0, <1>2, <2>1 DEF OpenRatification, TranscriptTypeOK
  <1>3. ASSUME NEW d \in Desks, WriteRatification(d)
        PROVE  ExamTypeOK' /\ TranscriptTypeOK' /\ Registrations' = Registrations
    <2>1. PICK x \in Registrations, sheet \in Marksheets :
              /\ sheet.outcome \in {"PASS", "FAIL"}
              /\ attempts' = Stamped(attempts, x, sheet.outcome)
              /\ points' = [points EXCEPT ![x] = sheet.points]
              /\ edition' = [edition EXCEPT ![x[1][1]] = @ + 1]
              /\ completed' = Refreshed(x[1][1], desk[d].complete)
              /\ revised' = IF LaterAttempt(x[1], x[2]) THEN revised \cup {x[1]} ELSE revised
              /\ UNCHANGED <<cycles, exams, tickets, papers, issues, crossed>>
      BY <1>3, RatificationWritten
    <2>2. x[1] \in Keys /\ x[1][1] \in Candidates /\ x \in Keys \X (1 .. MaxRegular)
      BY <1>0, RegistrationTyped
    <2>3. /\ attempts' \in [Keys -> Seq(Attempt)]
          /\ \A k \in Keys : Len(attempts'[k]) = Len(attempts[k]) /\ DOMAIN attempts'[k] = DOMAIN attempts[k]
      BY <1>0, <2>1, AttemptStamped
    <2>4. Registrations' = Registrations
      BY <2>3 DEF Registrations
    <2>5. ExamTypeOK'
      BY <1>0, <2>1, <2>3, <2>4 DEF ExamTypeOK
    <2>6. sheet.points \in Nat \cup {Ungraded}
      BY TranscriptAssumption
    <2>7. points' \in [Keys \X (1 .. MaxRegular) -> Nat \cup {Ungraded}]
      BY <1>0, <2>1, <2>6 DEF TranscriptTypeOK
    <2>8. edition' \in [Candidates -> Nat] /\ completed' \subseteq Candidates
      BY <1>0, <2>1, <2>2 DEF TranscriptTypeOK, Refreshed
    <2> QED
      BY <1>0, <2>1, <2>2, <2>4, <2>5, <2>7, <2>8 DEF TranscriptTypeOK
  <1>4. ASSUME NEW d \in Desks, (\E s \in Candidates : OpenIssue(d, s)) \/ NumberIssue(d)
        PROVE  UNCHANGED examVars /\ TranscriptTypeOK'
    <2>1. UNCHANGED <<examVars, transcriptVars>>
      BY <1>4 DEF OpenIssue, NumberIssue
    <2> QED
      BY <1>0, <2>1 DEF TranscriptTypeOK, transcriptVars
  <1>5. ASSUME NEW d \in Desks, WriteIssue(d)
        PROVE  UNCHANGED examVars /\ TranscriptTypeOK'
    <2> DEFINE new == [scholar |-> desk[d].scholar, version |-> desk[d].version, content |-> desk[d].content,
                       overtaken |-> desk[d].known # Cardinality(IssuesOf(desk[d].scholar))]
    <2>1. new \in Issue
      BY <1>0, <1>5, WorkInHand DEF WriteIssue, Issue
    <2>2. issues' = issues \cup {new} \/ issues' = issues
      BY <1>5 DEF WriteIssue
    <2> HIDE DEF new
    <2>3. issues' \subseteq Issue
      BY <1>0, <2>1, <2>2 DEF TranscriptTypeOK
    <2>4. IsFiniteSet(issues')
      BY <1>0, <2>2, FS_AddElement DEF TranscriptTypeOK
    <2>5. UNCHANGED <<examVars, points, edition, completed, revised, crossed>>
      BY <1>5 DEF WriteIssue
    <2> QED
      BY <1>0, <2>3, <2>4, <2>5 DEF TranscriptTypeOK
  <1> QED
    BY <1>1, <1>2, <1>3, <1>4, <1>5 DEF TranscriptNext

\* What is in hand was in hand before, or was just opened by its kind of request.
LEMMA NewInHand ==
    ASSUME TypeInv, AcademicTypeOK, NumbersRun, [AcademicNext]_academicVars, NEW d \in Desks, desk'[d] # desk[d]
    PROVE  /\ desk'[d].op = "reweight" => \E o \in Offerings, weight \in 0 .. Whole : OpenReweighting(d, o, weight)
           /\ desk'[d].op = "attend" => \E t \in Teachers, session \in sessions, row \in Rows, mark \in Marks :
                                            OpenAttendance(d, t, session, row, mark)
           /\ desk'[d].op = "examine" => \E row \in Rows, e \in ExamIds : OpenExamRegistration(d, row, e)
           /\ desk'[d].op = "ratify" => \E x \in Registrations, sheet \in Marksheets : OpenRatification(d, x, sheet)
           /\ desk'[d].op = "issue" => (\E s \in Candidates : OpenIssue(d, s)) \/ NumberIssue(d)
  <1>0. DeskTyped /\ WorkTyped /\ AttendanceTypeOK /\ ExamTypeOK /\ TranscriptTypeOK
    BY DEF TypeInv, CourseTypeOK, AcademicTypeOK
  <1>1. CASE desk'[d].op \in CourseOps \cup {"free"}
    BY <1>1 DEF CourseOps
  <1>2. CASE OpensOther(d)
    <2>1. (\E o \in Offerings, weight \in 0 .. Whole : OpenReweighting(d, o, weight)) => desk'[d].op = "reweight"
      BY <1>0, ReweightingOpened
    <2>2. (\E t \in Teachers, session \in sessions, row \in Rows, mark \in Marks : OpenAttendance(d, t, session, row, mark))
          => desk'[d].op = "attend"
      BY <1>0, AttendanceOpened
    <2>3. (\E row \in Rows, e \in ExamIds : OpenExamRegistration(d, row, e)) => desk'[d].op = "examine"
      BY <1>0, ExaminationOpened
    <2>4. (\E x \in Registrations, sheet \in Marksheets : OpenRatification(d, x, sheet)) => desk'[d].op = "ratify"
      BY <1>0, RatificationOpened
    <2>5. (\E s \in Candidates : OpenIssue(d, s)) \/ NumberIssue(d) => desk'[d].op = "issue"
      BY <1>0, IssueOpened, IssueNumbered
    <2> QED
      BY <1>2, <2>1, <2>2, <2>3, <2>4, <2>5 DEF OpensOther
  <1> QED
    BY <1>1, <1>2, StepDesks

\* Which steps write attempts, and which write transcripts
LEMMA AttemptsChange ==
    ASSUME [AcademicNext]_academicVars
    PROVE  attempts' = attempts \/ \E d \in Desks : WriteExamRegistration(d) \/ WriteRatification(d)
  BY DEF AcademicNext, academicVars, TeachingNext, AttendanceNext, OfficeNext, TranscriptNext, CreateExamCycle, CreateExam,
         AppointSetter, RecordPaperReceived, OpenExamRegistration, IssueHallTicket, RevokeHallTicket, OpenRatification,
         OpenIssue, NumberIssue, WriteIssue, examVars

LEMMA IssuesChange ==
    ASSUME [AcademicNext]_academicVars
    PROVE  issues' = issues \/ \E d \in Desks : WriteIssue(d)
  BY DEF AcademicNext, academicVars, TranscriptNext, OpenRatification, WriteRatification, OpenIssue, NumberIssue,
         transcriptVars

\* What issuing a transcript writes
LEMMA IssueWritten ==
    ASSUME AcademicTypeOK, NumbersRun, NEW d \in Desks, WriteIssue(d), issues' # issues
    PROVE  \E new \in Issue :
              /\ issues' = issues \cup {new} /\ new \notin issues
              /\ new.scholar = desk[d].scholar /\ new.content = desk[d].content
              /\ new.version = Cardinality(IssuesOf(new.scholar)) + 1
              /\ new.overtaken = (desk[d].known # Cardinality(IssuesOf(new.scholar)))
  <1> DEFINE s == desk[d].scholar
             n == Cardinality(IssuesOf(s))
             new == [scholar |-> s, version |-> desk[d].version, content |-> desk[d].content,
                     overtaken |-> desk[d].known # n]
  <1>1. /\ s \in Candidates /\ desk[d].version \in Nat /\ desk[d].content \in Nat
        /\ desk[d].op = "issue" /\ desk[d].version # 0
    BY WorkInHand DEF AcademicTypeOK, WriteIssue
  <1>2. n \in Nat /\ {issue.version : issue \in IssuesOf(s)} = 1 .. n /\ desk[d].version <= n + 1
    BY <1>1, IssuesCounted DEF AcademicTypeOK, NumbersRun
  <1>3. Numberable(s, desk[d].version) /\ issues' = issues \cup {new}
    BY DEF WriteIssue
  <1>4. desk[d].version \notin 1 .. n
    <2>1. \A issue \in IssuesOf(s) : issue.version # desk[d].version
      BY <1>3 DEF Numberable
    <2> QED
      BY <1>2, <2>1
  <1>5. desk[d].version = n + 1
    BY <1>1, <1>2, <1>4
  <1>6. /\ new \in Issue /\ new.scholar = s /\ new.version = desk[d].version /\ new.content = desk[d].content
        /\ new.overtaken = (desk[d].known # n)
    BY <1>1 DEF Issue
  <1> HIDE DEF new
  <1>7. new \notin issues
    <2>1. SUFFICES ASSUME new \in issues PROVE FALSE
      OBVIOUS
    <2>2. new \in IssuesOf(s)
      BY <1>6, <2>1 DEF IssuesOf
    <2> QED
      BY <1>2, <1>4, <1>6, <2>2
  <1> QED
    BY <1>3, <1>5, <1>6, <1>7

LEMMA IssueCounts ==
    ASSUME AcademicTypeOK, NEW new \in Issue, new \notin issues, issues' = issues \cup {new}, NEW s
    PROVE  /\ IssuesOf(s)' = IF s = new.scholar THEN IssuesOf(s) \cup {new} ELSE IssuesOf(s)
           /\ Cardinality(IssuesOf(s)') = IF s = new.scholar THEN Cardinality(IssuesOf(s)) + 1
                                          ELSE Cardinality(IssuesOf(s))
  <1>1. IssuesOf(s)' = IF s = new.scholar THEN IssuesOf(s) \cup {new} ELSE IssuesOf(s)
    BY DEF IssuesOf
  <1>2. IsFiniteSet(IssuesOf(s)) /\ new \notin IssuesOf(s)
    BY IssuesCounted DEF AcademicTypeOK, IssuesOf
  <1>3. Cardinality(IssuesOf(s) \cup {new}) = Cardinality(IssuesOf(s)) + 1
    BY <1>2, FS_AddElement
  <1> QED
    BY <1>1, <1>3

LEMMA NumbersRunStays ==
    ASSUME TypeInv, AcademicTypeOK, NumbersRun, [AcademicNext]_academicVars
    PROVE  NumbersRun'
  <1>0. DeskTyped /\ WorkTyped /\ TranscriptTypeOK
    BY DEF TypeInv, CourseTypeOK, AcademicTypeOK
  <1>1. ASSUME NEW s \in Candidates
        PROVE  /\ Cardinality(IssuesOf(s)') \in Nat
               /\ Cardinality(IssuesOf(s)) <= Cardinality(IssuesOf(s)')
               /\ {issue.version : issue \in IssuesOf(s)'} = 1 .. Cardinality(IssuesOf(s)')
    <2> DEFINE n == Cardinality(IssuesOf(s))
    <2>1. n \in Nat /\ {issue.version : issue \in IssuesOf(s)} = 1 .. n
      BY <1>0, IssuesCounted DEF NumbersRun
    <2>2. CASE issues' = issues
      <3>1. IssuesOf(s)' = IssuesOf(s)
        BY <2>2 DEF IssuesOf
      <3> QED
        BY <2>1, <3>1
    <2>3. ASSUME NEW d \in Desks, WriteIssue(d), issues' # issues
          PROVE  /\ Cardinality(IssuesOf(s)') \in Nat
                 /\ n <= Cardinality(IssuesOf(s)')
                 /\ {issue.version : issue \in IssuesOf(s)'} = 1 .. Cardinality(IssuesOf(s)')
      <3>1. PICK new \in Issue :
                /\ issues' = issues \cup {new} /\ new \notin issues
                /\ new.version = Cardinality(IssuesOf(new.scholar)) + 1
        BY <2>3, IssueWritten
      <3>2. CASE s # new.scholar
        BY <2>1, <3>1, <3>2, IssueCounts
      <3>3. CASE s = new.scholar
        <4>1. IssuesOf(s)' = IssuesOf(s) \cup {new} /\ Cardinality(IssuesOf(s)') = n + 1 /\ new.version = n + 1
          BY <3>1, <3>3, IssueCounts
        <4>2. {issue.version : issue \in IssuesOf(s)'} = {issue.version : issue \in IssuesOf(s)} \cup {new.version}
          BY <4>1
        <4>3. (1 .. n) \cup {n + 1} = 1 .. (n + 1)
          BY <2>1
        <4>4. {issue.version : issue \in IssuesOf(s)'} = 1 .. (n + 1)
          BY <2>1, <4>1, <4>2, <4>3
        <4> HIDE DEF n
        <4>5. n + 1 \in Nat /\ n <= n + 1
          BY <2>1
        <4> QED
          BY <4>1, <4>4, <4>5
      <3> QED
        BY <3>2, <3>3
    <2> QED
      BY <2>2, <2>3, IssuesChange
  <1>2. ASSUME NEW d \in Desks, NEW s, desk'[d].op = "issue", s = desk'[d].scholar
        PROVE  s \in Candidates /\ desk'[d].version <= Cardinality(IssuesOf(s)) + 1
    <2>1. CASE desk'[d] = desk[d]
      BY <1>0, <1>2, <2>1, WorkInHand DEF NumbersRun
    <2>2. ASSUME NEW t \in Candidates, OpenIssue(d, t)
          PROVE  s \in Candidates /\ desk'[d].version <= Cardinality(IssuesOf(s)) + 1
      <3>1. s = t /\ desk'[d].version = 0
        BY <1>0, <1>2, <2>2, IssueOpened
      <3>2. Cardinality(IssuesOf(s)) \in Nat
        BY <1>0, IssuesCounted
      <3> QED
        BY <3>1, <3>2
    <2>3. CASE NumberIssue(d)
      <3>1. /\ s = desk[d].scholar /\ desk[d].op = "issue"
            /\ desk'[d].version = Cardinality(IssuesOf(desk[d].scholar)) + 1
        BY <1>0, <1>2, <2>3, IssueNumbered
      <3>2. Cardinality(IssuesOf(s)) \in Nat /\ s \in Candidates
        BY <1>0, <3>1, IssuesCounted, WorkInHand
      <3> QED
        BY <3>1, <3>2
    <2> QED
      BY <1>2, <2>1, <2>2, <2>3, NewInHand
  <1>3. ASSUME NEW d \in Desks, NEW s, desk'[d].op = "issue", s = desk'[d].scholar
        PROVE  desk'[d].version <= Cardinality(IssuesOf(s)') + 1
    <2>1. s \in Candidates /\ desk'[d].version <= Cardinality(IssuesOf(s)) + 1
      BY <1>2, <1>3
    <2>2. /\ Cardinality(IssuesOf(s)') \in Nat /\ Cardinality(IssuesOf(s)) <= Cardinality(IssuesOf(s)')
          /\ Cardinality(IssuesOf(s)) \in Nat
      BY <1>0, <1>1, <2>1, IssuesCounted
    <2>3. desk'[d].version \in Nat
      BY <1>3, StepDesks DEF WorkTyped, CourseOps, OtherWork
    <2> QED
      BY <2>1, <2>2, <2>3
  <1> QED
    BY <1>1, <1>3 DEF NumbersRun

LEMMA AttemptsStandStays ==
    ASSUME TypeInv, AcademicTypeOK, AttemptsStand, NumbersRun, [AcademicNext]_academicVars
    PROVE  AttemptsStand'
  <1>0. DeskTyped /\ WorkTyped /\ ExamTypeOK /\ CourseStep
    BY StepIsCourse DEF TypeInv, CourseTypeOK, AcademicTypeOK
  <1> DEFINE Stands(row) == enrollments[row] # NotEnrolled /\ enrollments[row].tried
  <1>1. \A row \in Rows : Stands(row) => Stands(row)'
    BY <1>0, EnrollmentStays
  <1>2. ASSUME NEW k \in Keys, NEW i \in DOMAIN attempts[k], NEW row, row = attempts[k][i].row
        PROVE  row \in Rows /\ KeyOf(row) = k /\ Stands(row)'
    <2>1. attempts[k] \in Seq(Attempt)
      BY <1>0 DEF ExamTypeOK
    <2>2. attempts[k][i] \in Attempt
      BY <2>1
    <2>3. row \in Rows
      BY <1>2, <2>2 DEF Attempt
    <2> QED
      BY <1>1, <1>2, <2>3 DEF AttemptsStand
  <1> HIDE DEF Stands
  <1>3. /\ \A k \in Keys : DOMAIN attempts[k] \subseteq DOMAIN attempts'[k]
        /\ \A k \in Keys : Len(attempts'[k]) \in Nat /\ Len(attempts[k]) <= Len(attempts'[k])
        /\ \A k \in Keys : \A i \in DOMAIN attempts'[k] : \A row :
              row = attempts'[k][i].row => row \in Rows /\ KeyOf(row) = k /\ Stands(row)'
    <2>1. \A k \in Keys : Len(attempts[k]) \in Nat
      BY <1>0 DEF ExamTypeOK
    <2>2. CASE attempts' = attempts
      BY <1>2, <2>1, <2>2
    <2>3. ASSUME NEW d \in Desks, WriteExamRegistration(d), attempts' # attempts
          PROVE  /\ \A k \in Keys : DOMAIN attempts[k] \subseteq DOMAIN attempts'[k]
                 /\ \A k \in Keys : Len(attempts'[k]) \in Nat /\ Len(attempts[k]) <= Len(attempts'[k])
                 /\ \A k \in Keys : \A i \in DOMAIN attempts'[k] : \A row :
                       row = attempts'[k][i].row => row \in Rows /\ KeyOf(row) = k /\ Stands(row)'
      <3>1. PICK y \in Rows, new \in Attempt :
                 /\ y = desk[d].row /\ new.row = y
                 /\ attempts' = [attempts EXCEPT ![KeyOf(y)] = Append(attempts[KeyOf(y)], new)]
                 /\ enrollments' = [enrollments EXCEPT ![y].tried = TRUE]
        BY <2>3, Examined
      <3>2. enrollments[y] # NotEnrolled
        BY <2>3, <3>1 DEF AttemptsStand, WriteExamRegistration
      <3>3. enrollments[y] \in EnrollmentRow /\ enrollments'[y] = [enrollments[y] EXCEPT !.tried = TRUE]
        BY <3>1, <3>2 DEF TypeInv, CourseTypeOK
      <3>4. Stands(y)'
        BY <1>0, <3>2, <3>3, EnrollmentStays DEF Stands, EnrollmentRow
      <3> DEFINE key == KeyOf(y)
      <3>5. key \in Keys
        BY KeyTyped
      <3>6. /\ \A z \in Keys : z # key => attempts'[z] = attempts[z]
            /\ Len(attempts'[key]) = Len(attempts[key]) + 1
            /\ DOMAIN attempts'[key] = DOMAIN attempts[key] \cup {Len(attempts[key]) + 1}
            /\ \A i \in DOMAIN attempts[key] : attempts'[key][i] = attempts[key][i]
            /\ attempts'[key][Len(attempts[key]) + 1] = new
        BY <1>0, <3>1, <3>5, AttemptAppended
      <3>7. ASSUME NEW k \in Keys, NEW i \in DOMAIN attempts'[k], NEW row, row = attempts'[k][i].row
            PROVE  row \in Rows /\ KeyOf(row) = k /\ Stands(row)'
        <4>1. CASE k # key \/ i \in DOMAIN attempts[key]
          BY <1>2, <3>6, <3>7, <4>1
        <4>2. CASE k = key /\ i = Len(attempts[key]) + 1
          <5>1. row = y
            BY <3>1, <3>6, <3>7, <4>2
          <5> QED
            BY <3>4, <4>2, <5>1
        <4> QED
          BY <3>6, <3>7, <4>1, <4>2
      <3> HIDE DEF key
      <3>8. \A k \in Keys : Len(attempts'[k]) \in Nat /\ Len(attempts[k]) <= Len(attempts'[k])
        BY <2>1, <3>5, <3>6
      <3> QED
        BY <3>6, <3>7, <3>8
    <2>4. ASSUME NEW d \in Desks, WriteRatification(d)
          PROVE  /\ \A k \in Keys : DOMAIN attempts[k] \subseteq DOMAIN attempts'[k]
                 /\ \A k \in Keys : Len(attempts'[k]) \in Nat /\ Len(attempts[k]) <= Len(attempts'[k])
                 /\ \A k \in Keys : \A i \in DOMAIN attempts'[k] : \A row :
                       row = attempts'[k][i].row => row \in Rows /\ KeyOf(row) = k /\ Stands(row)'
      <3>1. PICK x \in Registrations, sheet \in Marksheets :
               sheet.outcome \in {"PASS", "FAIL"} /\ attempts' = Stamped(attempts, x, sheet.outcome)
        BY <2>4, RatificationWritten
      <3>2. /\ \A k \in Keys : Len(attempts'[k]) = Len(attempts[k]) /\ DOMAIN attempts'[k] = DOMAIN attempts[k]
            /\ \A k \in Keys : \A i \in DOMAIN attempts[k] : attempts'[k][i].row = attempts[k][i].row
        BY <1>0, <3>1, AttemptStamped
      <3> QED
        BY <1>2, <2>1, <3>2
    <2> QED
      BY <2>2, <2>3, <2>4, AttemptsChange
  <1>4. ASSUME NEW d \in Desks, desk'[d].op = "examine"
        PROVE  \E row \in Rows : /\ row = desk'[d].row /\ enrollments[row] # NotEnrolled
                                 /\ desk'[d].copy.status = "ENROLLED"
                                 /\ desk'[d].no \in Nat /\ desk'[d].no <= Len(attempts[KeyOf(row)]) + 1
    <2>1. CASE desk'[d] = desk[d]
      <3>1. desk[d].row \in Rows /\ desk[d].no \in Nat
        BY <1>0, <1>4, <2>1, WorkInHand, ExamAssumption
      <3> QED
        BY <1>4, <2>1, <3>1 DEF AttemptsStand
    <2>2. ASSUME NEW row \in Rows, NEW e \in ExamIds, OpenExamRegistration(d, row, e)
          PROVE  /\ row = desk'[d].row /\ enrollments[row] # NotEnrolled /\ desk'[d].copy.status = "ENROLLED"
                 /\ desk'[d].no \in Nat /\ desk'[d].no <= Len(attempts[KeyOf(row)]) + 1
      <3>1. /\ desk'[d].row = row /\ desk'[d].no = Len(attempts[KeyOf(row)]) + 1
            /\ desk'[d].copy = enrollments[row] /\ enrollments[row].status = "ENROLLED"
        BY <1>0, <2>2, ExaminationOpened
      <3>2. Len(attempts[KeyOf(row)]) \in Nat
        BY <1>0, KeyTyped DEF ExamTypeOK
      <3> QED
        BY <3>1, <3>2 DEF NotEnrolled
    <2> QED
      BY <1>4, <2>1, <2>2, NewInHand
  <1>5. ASSUME NEW d \in Desks, desk'[d].op = "examine", NEW row, row = desk'[d].row
        PROVE  /\ enrollments'[row] # NotEnrolled /\ desk'[d].copy.status = "ENROLLED"
               /\ desk'[d].no <= Len(attempts'[KeyOf(row)]) + 1
    <2>1. /\ row \in Rows /\ enrollments[row] # NotEnrolled /\ desk'[d].copy.status = "ENROLLED"
          /\ desk'[d].no \in Nat /\ desk'[d].no <= Len(attempts[KeyOf(row)]) + 1
      BY <1>4, <1>5
    <2>2. /\ Len(attempts[KeyOf(row)]) \in Nat /\ Len(attempts'[KeyOf(row)]) \in Nat
          /\ Len(attempts[KeyOf(row)]) <= Len(attempts'[KeyOf(row)])
      BY <1>0, <1>3, <2>1, KeyTyped DEF ExamTypeOK
    <2>3. enrollments'[row] # NotEnrolled
      BY <1>0, <2>1, EnrollmentStays
    <2> QED
      BY <2>1, <2>2, <2>3
  <1>6. ASSUME NEW d \in Desks, desk'[d].op = "ratify"
        PROVE  desk'[d].registration \in Registrations
    <2>1. CASE desk'[d] = desk[d]
      BY <1>6, <2>1 DEF AttemptsStand
    <2> QED
      BY <1>0, <1>6, <2>1, NewInHand, RatificationOpened
  <1>7. Registrations \subseteq Registrations'
    BY <1>3, RegistrationsGrow
  <1> QED
    BY <1>3, <1>5, <1>6, <1>7 DEF AttemptsStand, Stands

LEMMA AcademicTyped ==
    ASSUME TypeInv, AcademicTypeOK, AttemptsStand, NumbersRun, [AcademicNext]_academicVars
    PROVE  AcademicTypeOK'
  <1>1. WorkTyped'
    BY StepDesks
  <1>2. TeachingTypeOK' \/ UNCHANGED teachingVars
    BY TeachingTyped
       DEF AcademicNext, academicVars, AttendanceNext, OfficeNext, TranscriptNext, CreateSession, OpenAttendance,
           WriteAttendance, CreateExamCycle, CreateExam, AppointSetter, RecordPaperReceived, OpenExamRegistration,
           WriteExamRegistration, IssueHallTicket, RevokeHallTicket, OpenRatification, WriteRatification, RatifyOutcome,
           OpenIssue, NumberIssue, WriteIssue
  <1>3. AttendanceTypeOK' \/ UNCHANGED attendanceVars
    BY AttendanceTyped
       DEF AcademicNext, academicVars, OfficeNext, TranscriptNext, CreateExamCycle, CreateExam, AppointSetter,
           RecordPaperReceived, OpenExamRegistration, WriteExamRegistration, IssueHallTicket, RevokeHallTicket,
           OpenRatification, WriteRatification, RatifyOutcome, OpenIssue, NumberIssue, WriteIssue
  <1>4. ExamTypeOK' \/ UNCHANGED examVars
    BY OfficeTyped, TranscriptTyped DEF AcademicNext, academicVars
  <1>5. TranscriptTypeOK' \/ UNCHANGED transcriptVars
    BY TranscriptTyped DEF AcademicNext, academicVars
  <1>6. UNCHANGED teachingVars => TeachingTypeOK'
    BY DEF AcademicTypeOK, TeachingTypeOK, teachingVars
  <1>7. UNCHANGED attendanceVars => AttendanceTypeOK'
    BY DEF AcademicTypeOK, AttendanceTypeOK, attendanceVars
  <1>8. UNCHANGED examVars => ExamTypeOK'
    BY DEF AcademicTypeOK, ExamTypeOK, examVars, Registrations
  <1>9. UNCHANGED transcriptVars => TranscriptTypeOK'
    BY DEF AcademicTypeOK, TranscriptTypeOK, transcriptVars
  <1> QED
    BY <1>1, <1>2, <1>3, <1>4, <1>5, <1>6, <1>7, <1>8, <1>9 DEF AcademicTypeOK

\* The types, with what they rest on
SemesterInv == TypeInv /\ AcademicTypeOK /\ AttemptsStand /\ NumbersRun

LEMMA SemesterInit == AcademicInit => SemesterInv
  <1> SUFFICES ASSUME AcademicInit
               PROVE  SemesterInv
    OBVIOUS
  <1>1. TypeInv
    BY TypesInit DEF AcademicInit
  <1>2. \A d \in Desks : desk[d].op = "free"
    BY DEF AcademicInit, ElectiveInit, Free
  <1>3. WorkTyped
    BY <1>2 DEF WorkTyped
  <1>4. TeachingTypeOK
    BY TeachingAssumption DEF AcademicInit, TeachingInit, TeachingTypeOK, NoScheme
  <1>5. AttendanceTypeOK
    BY DEF AcademicInit, AttendanceInit, AttendanceTypeOK
  <1>6. ExamTypeOK
    BY ExamAssumption DEF AcademicInit, ExamInit, ExamTypeOK
  <1>7. TranscriptTypeOK
    BY FS_EmptySet DEF AcademicInit, TranscriptInit, TranscriptTypeOK
  <1>8. AttemptsStand
    BY <1>2 DEF AttemptsStand, AcademicInit, ExamInit
  <1>9. NumbersRun
    <2>1. \A s : IssuesOf(s) = {}
      BY DEF AcademicInit, TranscriptInit, IssuesOf
    <2>2. Cardinality({}) = 0
      BY FS_EmptySet
    <2> QED
      BY <1>2, <2>1, <2>2 DEF NumbersRun
  <1> QED
    BY <1>1, <1>3, <1>4, <1>5, <1>6, <1>7, <1>8, <1>9 DEF SemesterInv, AcademicTypeOK

LEMMA SemesterNext == SemesterInv /\ [AcademicNext]_academicVars => SemesterInv' /\ CourseStep
  BY StepIsCourse, TypesNext, AcademicTyped, AttemptsStandStays, NumbersRunStays DEF SemesterInv

\* The records of a semester keep their types, in every office and at every desk, whatever is in flight.
THEOREM AcademicTypeCorrect == AcademicSpec => [](CourseTypeOK /\ AcademicTypeOK)
  <1>1. SemesterInv => CourseTypeOK /\ AcademicTypeOK
    BY DEF SemesterInv, TypeInv
  <1> QED
    BY <1>1, SemesterInit, SemesterNext, PTL DEF AcademicSpec

\* However requests of all the offices interleave, a list is approved only with the signatures of the chain
\* it was last submitted under, of different holders and not of its preparer, unless a request wrote over
\* what it had not read.
THEOREM ListsStaySigned == AcademicSpec => []ListSigned
  <1>1. AcademicInit => SemesterInv /\ ListInv
    BY SemesterInit, ListsInit DEF AcademicInit
  <1>2. SemesterInv /\ ListInv /\ [AcademicNext]_academicVars => (SemesterInv /\ ListInv)'
    BY SemesterNext, ListsNext
  <1> QED
    BY <1>1, <1>2, ListsTold, PTL DEF AcademicSpec

\* An enrollment in an elective rests on a proposal of that scholar for that course which stays approved by
\* another than the scholar and the recommender, on an approved list where lists are required, through all
\* that examinations and results do to enrollments.
THEOREM EnrollmentsRest == AcademicSpec => []EnrollmentRests
  <1>1. AcademicInit => SemesterInv /\ RestsInv
    BY SemesterInit, RestsInit DEF AcademicInit
  <1>2. SemesterInv /\ RestsInv /\ [AcademicNext]_academicVars => (SemesterInv /\ RestsInv)'
    BY SemesterNext, RestsNext
  <1> QED
    BY <1>1, <1>2, RestsTold, PTL DEF AcademicSpec

\* No more scholars hold places in an offering or a section than there are, and none is enrolled twice in a
\* course, for any capacities and number of requests, unless a scholar or an offering was in two at once.
THEOREM PlacesStayHeld == AcademicSpec => []PlacesHeld
  <1>1. AcademicInit => SemesterInv /\ PlacesInv
    BY SemesterInit, PlacesInit DEF AcademicInit
  <1>2. SemesterInv /\ PlacesInv /\ [AcademicNext]_academicVars => (SemesterInv /\ PlacesInv)'
    BY SemesterNext, PlacesNext
  <1> QED
    BY <1>1, <1>2, PlacesTold, PTL DEF AcademicSpec

-----------------------------------------------------------------------------
(* Assessment schemes *)

\* Marks are of an offering with a scheme, and while nobody re-weighted it as a mark was entered, there is
\* none under a re-weighting in hand.
SchemesRead ==
    /\ \A o \in Offerings : Scored(o) # {} => schemes[o] # NoScheme
    /\ \A d \in Desks :
          desk[d].op = "reweight" /\ desk[d].row[2] \notin hurried => Scored(desk[d].row[2]) = {}

LEMMA MarkedChange ==
    ASSUME [AcademicNext]_academicVars
    PROVE  marked' = marked \/ \E t \in Teachers, row \in Rows, kind \in Kinds : EnterMark(t, row, kind)
  BY DEF AcademicNext, academicVars, teachingVars, TeachingNext, AssignFaculty, RevokeAssignment, DefineScheme,
         OpenReweighting, WriteReweighting, DayPasses, AttendanceNext, OfficeNext, TranscriptNext, CreateSession,
         OpenAttendance, WriteAttendance, CreateExamCycle, CreateExam, AppointSetter, RecordPaperReceived,
         OpenExamRegistration, WriteExamRegistration, IssueHallTicket, RevokeHallTicket, OpenRatification,
         WriteRatification, RatifyOutcome, OpenIssue, NumberIssue, WriteIssue

LEMMA SchemesChange ==
    ASSUME [AcademicNext]_academicVars
    PROVE  \/ schemes' = schemes
           \/ \E o \in Offerings : DefineScheme(o)
           \/ \E d \in Desks : WriteReweighting(d)
  BY DEF AcademicNext, academicVars, teachingVars, TeachingNext, AssignFaculty, RevokeAssignment, EnterMark,
         OpenReweighting, DayPasses, AttendanceNext, OfficeNext, TranscriptNext, CreateSession,
         OpenAttendance, WriteAttendance, CreateExamCycle, CreateExam, AppointSetter, RecordPaperReceived,
         OpenExamRegistration, WriteExamRegistration, IssueHallTicket, RevokeHallTicket, OpenRatification,
         WriteRatification, RatifyOutcome, OpenIssue, NumberIssue, WriteIssue

LEMMA SchemeSteps ==
    ASSUME SemesterInv, SchemesRead, [AcademicNext]_academicVars
    PROVE  /\ \A o \in Offerings : Scored(o) # {} /\ o \notin hurried' => schemes'[o] = schemes[o]
           /\ \A o \in Offerings : schemes[o] # NoScheme => schemes'[o] # NoScheme
  <1>0. /\ schemes \in [Offerings -> Nat] /\ WorkTyped
        /\ hurried \subseteq hurried'
    BY SemesterNext, HurriedGrows DEF SemesterInv, AcademicTypeOK, TeachingTypeOK
  <1>1. CASE schemes' = schemes
    BY <1>1
  <1>2. ASSUME NEW o \in Offerings, DefineScheme(o)
        PROVE  /\ \A y \in Offerings : schemes'[y] = schemes[y] \/ (y = o /\ schemes[y] = NoScheme)
    BY <1>0, <1>2 DEF DefineScheme
  <1>3. ASSUME NEW d \in Desks, WriteReweighting(d)
        PROVE  /\ \A o \in Offerings : Scored(o) # {} /\ o \notin hurried' => schemes'[o] = schemes[o]
               /\ \A o \in Offerings : schemes[o] # NoScheme => schemes'[o] # NoScheme
    <2>1. PICK o \in Offerings : o = desk[d].row[2]
      BY <1>0, <1>3, WorkInHand DEF WriteReweighting
    <2>2. desk[d].weight \in 1 .. (Whole - 1) /\ schemes' = [schemes EXCEPT ![o] = desk[d].weight]
      BY <1>0, <1>3, <2>1, WorkInHand DEF WriteReweighting
    <2>3. Scored(o) # {} => o \in hurried'
      BY <1>0, <1>3, <2>1 DEF WriteReweighting, SchemesRead
    <2>4. desk[d].weight # NoScheme
      BY <2>2, TeachingAssumption DEF NoScheme
    <2> QED
      BY <1>0, <2>2, <2>3, <2>4
  <1> QED
    BY <1>1, <1>2, <1>3, SchemesChange DEF SchemesRead

LEMMA SchemesReadStays ==
    ASSUME SemesterInv, SchemesRead, [AcademicNext]_academicVars
    PROVE  SchemesRead'
  <1>0. DeskTyped /\ WorkTyped /\ hurried \subseteq hurried' /\ TypeInv /\ AcademicTypeOK /\ NumbersRun
    BY SemesterNext, HurriedGrows DEF SemesterInv, TypeInv, CourseTypeOK, AcademicTypeOK
  <1>1. ASSUME NEW o \in Offerings
        PROVE  Scored(o)' = Scored(o) \/ \E t \in Teachers, row \in Rows, kind \in Kinds :
                                           row[2] = o /\ EnterMark(t, row, kind)
    <2>1. CASE marked' = marked
      BY <2>1 DEF Scored
    <2>2. ASSUME NEW t \in Teachers, NEW row \in Rows, NEW kind \in Kinds, EnterMark(t, row, kind), row[2] # o
          PROVE  Scored(o)' = Scored(o)
      BY <2>2 DEF Scored, EnterMark
    <2> QED
      BY <2>1, <2>2, MarkedChange
  <1>2. ASSUME NEW o \in Offerings, Scored(o)' # {}
        PROVE  schemes'[o] # NoScheme
    <2>1. schemes[o] # NoScheme
      BY <1>1, <1>2 DEF SchemesRead, EnterMark
    <2> QED
      BY <2>1, SchemeSteps
  <1>3. ASSUME NEW d \in Desks, desk'[d].op = "reweight", NEW o, o = desk'[d].row[2], o \notin hurried'
        PROVE  Scored(o)' = {}
    <2>1. CASE desk'[d] = desk[d]
      <3>1. o \in Offerings /\ Scored(o) = {} /\ Reweighting(o)
        BY <1>0, <1>3, <2>1, WorkInHand DEF SchemesRead, Reweighting
      <3>2. ASSUME NEW t, NEW row, NEW kind, row[2] = o, EnterMark(t, row, kind)
            PROVE  o \in hurried'
        BY <3>1, <3>2 DEF EnterMark
      <3> QED
        BY <1>1, <1>3, <3>1, <3>2
    <2>2. ASSUME NEW y \in Offerings, NEW weight, OpenReweighting(d, y, weight)
          PROVE  Scored(o)' = {}
      <3>1. o = y
        BY <1>0, <1>3, <2>2, ReweightingOpened
      <3>2. Scored(o) = {} /\ marked' = marked
        BY <2>2, <3>1 DEF OpenReweighting, MayReweight, teachingVars
      <3> QED
        BY <3>2 DEF Scored
    <2> QED
      BY <1>0, <1>3, <2>1, <2>2, NewInHand
  <1> QED
    BY <1>2, <1>3 DEF SchemesRead

\* Once a mark is entered in an offering its weights stay what they are, for any teachers, weights and number
\* of requests, unless a mark and a re-weighting of the offering crossed.
THEOREM SchemesSettle == AcademicSpec => SchemeSettled
  <1>1. AcademicInit => SemesterInv /\ SchemesRead
    <2>1. ASSUME AcademicInit
          PROVE  SchemesRead
      <3>1. \A o : Scored(o) = {}
        BY <2>1 DEF AcademicInit, TeachingInit, Scored
      <3>2. \A d \in Desks : desk[d].op = "free"
        BY <2>1 DEF AcademicInit, ElectiveInit, Free
      <3> QED
        BY <3>1, <3>2 DEF SchemesRead
    <2> QED
      BY <2>1, SemesterInit
  <1>2. SemesterInv /\ SchemesRead /\ [AcademicNext]_academicVars => (SemesterInv /\ SchemesRead)'
    BY SemesterNext, SchemesReadStays
  <1>3. SemesterInv /\ SchemesRead /\ [AcademicNext]_academicVars =>
           [\A o \in Offerings : Scored(o) # {} /\ o \notin hurried' => schemes'[o] = schemes[o]]_<<schemes, hurried>>
    BY SchemeSteps
  <1> QED
    BY <1>1, <1>2, <1>3, PTL DEF AcademicSpec, SchemeSettled

-----------------------------------------------------------------------------
(* The teaching workspace *)

\* A section is always of its offering: of an assignment, of an enrollment, and of one in hand.
SectionsFit ==
    /\ \A a \in assigned : a.section # NoSection => a.section[1] = a.offering
    /\ \A row \in Rows : enrollments[row] # NotEnrolled /\ enrollments[row].section # NoSection =>
          enrollments[row].section[1] = row[2]

LEMMA AssignedChange ==
    ASSUME [AcademicNext]_academicVars
    PROVE  \/ assigned' = assigned
           \/ \E t \in Teachers, o \in Offerings, section \in Sections \cup {NoSection}, to \in day .. (LastDay + 1) :
                 AssignFaculty(t, o, section, to)
           \/ \E a \in assigned : RevokeAssignment(a)
  BY DEF AcademicNext, academicVars, teachingVars, TeachingNext, DefineScheme, EnterMark, WriteReweighting,
         OpenReweighting, DayPasses, AttendanceNext, OfficeNext, TranscriptNext, CreateSession,
         OpenAttendance, WriteAttendance, CreateExamCycle, CreateExam, AppointSetter, RecordPaperReceived,
         OpenExamRegistration, WriteExamRegistration, IssueHallTicket, RevokeHallTicket, OpenRatification,
         WriteRatification, RatifyOutcome, OpenIssue, NumberIssue, WriteIssue

LEMMA SectionsFitStays ==
    ASSUME SemesterInv, PlacesInv, SectionsFit, [AcademicNext]_academicVars
    PROVE  SectionsFit'
  <1>0. TypeInv /\ CourseStep /\ enrollments \in [Rows -> {NotEnrolled} \cup EnrollmentRow] /\ assigned \subseteq Posting
    BY SemesterNext DEF SemesterInv, TypeInv, CourseTypeOK, AcademicTypeOK, TeachingTypeOK
  <1>1. ASSUME NEW a \in assigned', a.section # NoSection
        PROVE  a.section[1] = a.offering
    <2>1. CASE a \in assigned
      BY <1>1, <2>1 DEF SectionsFit
    <2>2. ASSUME NEW t \in Teachers, NEW o \in Offerings, NEW section \in Sections \cup {NoSection}, NEW to,
                 AssignFaculty(t, o, section, to), a = Assignment(t, o, section, to)
          PROVE  a.section[1] = a.offering
      BY <1>1, <2>2 DEF AssignFaculty, Assignment
    <2>3. ASSUME NEW b \in assigned, a = [b EXCEPT !.revoked = TRUE]
          PROVE  a.section[1] = a.offering
      <3>1. b \in Posting
        BY <1>0
      <3>2. a.section = b.section /\ a.offering = b.offering
        BY <2>3, <3>1 DEF Posting
      <3> QED
        BY <1>1, <3>2 DEF SectionsFit
    <2> QED
      BY <2>1, <2>2, <2>3, AssignedChange DEF AssignFaculty, RevokeAssignment
  <1>2. ASSUME NEW row \in Rows, enrollments'[row] # NotEnrolled, enrollments'[row].section # NoSection
        PROVE  enrollments'[row].section[1] = row[2]
    <2>1. CASE enrollments[row] # NotEnrolled
      BY <1>0, <1>2, <2>1, EnrollmentStays DEF SectionsFit
    <2>2. CASE enrollments[row] = NotEnrolled
      <3>1. \A k \in Rows : enrollments[k] # NotEnrolled => k # row
        BY <2>2
      <3>2. ASSUME NEW k \in Rows, k # row,
                   \/ enrollments' = [enrollments EXCEPT ![k].status = "WITHDRAWN"]
                   \/ enrollments' = [enrollments EXCEPT ![k].tried = TRUE]
                   \/ \E pass \in BOOLEAN : Ratified(k, pass)
            PROVE  FALSE
        BY <1>0, <1>2, <2>2, <3>2 DEF Ratified
      <3>3. ASSUME NEW d \in Desks, WriteWithdrawal(d) \/ WriteAttempt(d)
            PROVE  FALSE
        <4>1. desk[d].row \in Rows /\ enrollments[desk[d].row] # NotEnrolled
          BY <1>0, <3>3, InHand DEF TypeInv, CourseTypeOK, RowsExist, WriteWithdrawal, WriteAttempt
        <4> QED
          BY <3>1, <3>2, <3>3, <4>1 DEF WriteWithdrawal, WriteAttempt
      <3>4. ASSUME NEW k \in Rows, TriedBeside(k) \/ \E pass \in BOOLEAN : Ratified(k, pass)
            PROVE  FALSE
        BY <3>1, <3>2, <3>4 DEF TriedBeside, Ratified
      <3>5. ASSUME NEW d \in Desks, WriteEnrollment(d)
            PROVE  enrollments'[row].section[1] = row[2]
        <4>1. desk[d].row = row /\ enrollments'[row] = NewEnrollment(desk[d].section, desk[d].proposal)
          BY <1>0, <1>2, <2>2, <3>5 DEF WriteEnrollment
        <4>2. enrollments'[row].section = desk[d].section
          BY <4>1 DEF NewEnrollment
        <4>3. HasRoomLeft(d)
          BY <3>5 DEF PlacesInv, RoomLeft, WriteEnrollment
        <4> QED
          BY <1>2, <4>1, <4>2, <4>3 DEF HasRoomLeft
      <3> QED
        BY <1>0, <1>2, <2>2, <3>3, <3>4, <3>5, EnrollmentsChange
    <2> QED
      BY <2>1, <2>2
  <1> QED
    BY <1>1, <1>2 DEF SectionsFit

\* Who teaches a section teaches in its offering.
LEMMA TeachesOwn ==
    ASSUME SectionsFit, NEW t, NEW row \in Rows, enrollments[row] # NotEnrolled
    PROVE  Teaches(t, enrollments[row].section) <=> enrollments[row].section \in OwnSections(t, row[2])
  <1> DEFINE section == enrollments[row].section
  <1>1. ASSUME NEW a \in ActiveAssignments(t), section # NoSection, a.section = section
        PROVE  section \in OwnSections(t, row[2])
    <2>1. a.offering = row[2]
      BY <1>1 DEF SectionsFit, ActiveAssignments
    <2> QED
      BY <1>1, <2>1 DEF OwnSections
  <1> QED
    BY <1>1 DEF Teaches, OwnSections

LEMMA GridMeans == SectionsFit => GridAgrees
  <1> SUFFICES ASSUME SectionsFit, NEW t \in Teachers, NEW o \in Offerings
               PROVE  /\ \A probe, row \in MarksGrid(t, o), kind \in Kinds :
                            MarksOffered(t, o, probe, kind) <=> MayEnter(t, row, kind)
                      /\ \A row \in Rows, kind \in Kinds :
                            row[2] = o /\ Attempted(row) /\ MayEnter(t, row, kind) => row \in MarksGrid(t, o)
    BY DEF GridAgrees
  <1>1. ASSUME NEW row \in MarksGrid(t, o), NEW kind \in Kinds
        PROVE  MayEnter(t, row, kind) <=> Coordinates(t, o) \/ (kind = "CONTINUOUS" /\ OwnSections(t, o) # {})
    <2>1. row \in Rows /\ row[2] = o /\ enrollments[row] # NotEnrolled /\ row \in TeachingView(t, o)
      BY DEF MarksGrid, TeachingView, WholeView
    <2>2. Teaches(t, enrollments[row].section) <=> enrollments[row].section \in OwnSections(t, o)
      BY <2>1, TeachesOwn
    <2> QED
      BY <2>1, <2>2 DEF MayEnter, TeachingView
  <1>2. ASSUME NEW probe \in MarksGrid(t, o), NEW row \in MarksGrid(t, o), NEW kind \in Kinds
        PROVE  MarksOffered(t, o, probe, kind) <=> MayEnter(t, row, kind)
    BY <1>1, <1>2 DEF MarksOffered
  <1>3. ASSUME NEW row \in Rows, NEW kind \in Kinds, row[2] = o, Attempted(row), MayEnter(t, row, kind)
        PROVE  row \in MarksGrid(t, o)
    <2>1. row \in WholeView(t, o) /\ enrollments[row] # NotEnrolled
      BY <1>3 DEF WholeView, Attempted
    <2>2. CASE Coordinates(t, o)
      BY <1>3, <2>1, <2>2 DEF MarksGrid, TeachingView, MayViewOffering
    <2>3. CASE Teaches(t, enrollments[row].section)
      <3>1. enrollments[row].section \in OwnSections(t, o)
        BY <1>3, <2>1, <2>3, TeachesOwn
      <3>2. TeachesIn(t, o)
        BY <3>1 DEF OwnSections, TeachesIn
      <3> QED
        BY <1>3, <2>1, <3>1, <3>2 DEF MarksGrid, TeachingView, MayViewOffering
    <2> QED
      BY <1>3, <2>2, <2>3 DEF MayEnter
  <1> QED
    BY <1>2, <1>3

\* The grid of marks offers a column exactly when every row it shows takes them, and shows every row to
\* whoever may enter its marks, whatever becomes of assignments, sections and enrollments.
THEOREM GridStaysTrue == AcademicSpec => []GridAgrees
  <1>1. AcademicInit => SemesterInv /\ PlacesInv /\ SectionsFit
    <2>1. AcademicInit => SectionsFit
      BY DEF AcademicInit, TeachingInit, EnrollmentInit, SectionsFit
    <2> QED
      BY <2>1, SemesterInit, PlacesInit DEF AcademicInit
  <1>2. SemesterInv /\ PlacesInv /\ SectionsFit /\ [AcademicNext]_academicVars
        => (SemesterInv /\ PlacesInv /\ SectionsFit)'
    BY SemesterNext, PlacesNext, SectionsFitStays
  <1> QED
    BY <1>1, <1>2, GridMeans, PTL DEF AcademicSpec

-----------------------------------------------------------------------------
(* Attendance and its corrections *)

LEMMA AttendanceChange ==
    ASSUME [AcademicNext]_academicVars
    PROVE  UNCHANGED <<attendance, corrections, contested>> \/ \E d \in Desks : WriteAttendance(d)
  BY DEF AcademicNext, academicVars, AttendanceNext, OfficeNext, TranscriptNext, CreateSession, OpenAttendance,
         CreateExamCycle, CreateExam, AppointSetter, RecordPaperReceived, OpenExamRegistration, WriteExamRegistration,
         IssueHallTicket, RevokeHallTicket, OpenRatification, WriteRatification, RatifyOutcome, OpenIssue, NumberIssue,
         WriteIssue, attendanceVars

\* Corrections that explain an attendance still do with one more of what it shows.
LEMMA CorrectionAdded ==
    ASSUME NEW log \in Seq(Correction), NEW old \in Marks, NEW new \in Marks, NEW longer,
           longer = Append(log, [old |-> old, new |-> new]),
           log # <<>> => log[Len(log)].new = old /\ log[1].old # Unmarked,
           \A i \in 2 .. Len(log) : log[i].old = log[i - 1].new
    PROVE  /\ longer[Len(longer)].new = new /\ longer[1].old # Unmarked
           /\ \A i \in 2 .. Len(longer) : longer[i].old = longer[i - 1].new
  <1> DEFINE n == Len(log)
             c == [old |-> old, new |-> new]
  <1>1. c \in Correction /\ c.old = old /\ c.new = new
    BY DEF Correction
  <1> HIDE DEF c
  <1>2. /\ n \in Nat /\ Len(longer) = n + 1 /\ longer[n + 1] = c
        /\ \A i \in 1 .. n : longer[i] = log[i]
    BY <1>1 DEF c
  <1>3. old # Unmarked
    BY DEF Marks, Presences, Unmarked
  <1>4. CASE n = 0
    BY <1>1, <1>2, <1>3, <1>4
  <1>5. CASE n > 0
    <2>1. longer[1].old # Unmarked
      BY <1>2, <1>5
    <2>2. ASSUME NEW i \in 2 .. (n + 1)
          PROVE  longer[i].old = longer[i - 1].new
      <3>1. CASE i = n + 1
        <4>1. longer[i] = c /\ longer[i - 1] = log[n]
          BY <1>2, <1>5, <3>1
        <4> QED
          BY <1>1, <1>5, <4>1
      <3>2. CASE i # n + 1
        <4>1. i \in 2 .. n /\ longer[i] = log[i] /\ longer[i - 1] = log[i - 1]
          BY <1>2, <3>2
        <4> QED
          BY <4>1
      <3> QED
        BY <3>1, <3>2
    <2> QED
      BY <1>1, <1>2, <2>1, <2>2
  <1> QED
    BY <1>2, <1>4, <1>5

LEMMA CorrectionsExplainStays ==
    ASSUME AcademicTypeOK, CorrectionsExplain, [AcademicNext]_academicVars
    PROVE  CorrectionsExplain'
  <1>0. AttendanceTypeOK
    BY DEF AcademicTypeOK
  <1>1. CASE UNCHANGED <<attendance, corrections, contested>>
    BY <1>1 DEF CorrectionsExplain
  <1>2. ASSUME NEW k \in Records, NEW mark \in Marks, NEW copy \in Marks \cup {Unmarked},
               copy = Unmarked => attendance[k] = Unmarked,
               attendance' = [attendance EXCEPT ![k] = mark],
               corrections' = IF copy = Unmarked THEN corrections
                              ELSE [corrections EXCEPT ![k] = Append(corrections[k], [old |-> copy, new |-> mark])],
               contested' = IF copy = attendance[k] THEN contested ELSE contested \cup {k}
        PROVE  CorrectionsExplain'
    <2> DEFINE Explained(log, recorded) ==
                  /\ log # <<>> => log[Len(log)].new = recorded /\ log[1].old # Unmarked
                  /\ \A i \in 2 .. Len(log) : log[i].old = log[i - 1].new
    <2>1. SUFFICES ASSUME NEW y \in Records, y \notin contested'
                   PROVE  Explained(corrections'[y], attendance'[y])
      BY DEF CorrectionsExplain
    <2>2. y \notin contested
      BY <1>2, <2>1
    <2>3. Explained(corrections[y], attendance[y])
      BY <2>2 DEF CorrectionsExplain
    <2>4. CASE y # k
      <3>1. attendance'[y] = attendance[y] /\ corrections'[y] = corrections[y]
        BY <1>0, <1>2, <2>4 DEF AttendanceTypeOK
      <3> QED
        BY <2>3, <3>1
    <2>5. CASE y = k
      <3>0. corrections[k] \in Seq(Correction) /\ attendance'[k] = mark
        BY <1>0, <1>2 DEF AttendanceTypeOK
      <3>1. copy = attendance[k]
        BY <1>2, <2>1, <2>5
      <3>2. CASE copy = Unmarked
        <4>1. corrections'[k] = corrections[k]
          BY <1>2, <3>2
        <4>2. corrections[k] = <<>>
          <5>1. SUFFICES ASSUME corrections[k] # <<>>
                         PROVE  FALSE
            OBVIOUS
          <5>2. corrections[k][Len(corrections[k])] \in Correction
            BY <3>0, <5>1
          <5> QED
            BY <2>3, <2>5, <3>1, <3>2, <5>1, <5>2 DEF Correction, Marks, Presences, Unmarked
        <4> QED
          BY <2>3, <2>5, <4>1, <4>2
      <3>3. CASE copy # Unmarked
        <4> DEFINE longer == Append(corrections[k], [old |-> copy, new |-> mark])
        <4>1. corrections'[k] = longer
          BY <1>0, <1>2, <3>3 DEF AttendanceTypeOK
        <4>2. copy \in Marks
          BY <3>3
        <4>3. Explained(longer, mark)
          <5> HIDE DEF longer
          <5>1. longer = Append(corrections[k], [old |-> copy, new |-> mark])
            BY DEF longer
          <5>2. /\ corrections[k] # <<>> =>
                      corrections[k][Len(corrections[k])].new = copy /\ corrections[k][1].old # Unmarked
                /\ \A i \in 2 .. Len(corrections[k]) : corrections[k][i].old = corrections[k][i - 1].new
            BY <2>3, <2>5, <3>1
          <5>3. /\ longer[Len(longer)].new = mark /\ longer[1].old # Unmarked
                /\ \A i \in 2 .. Len(longer) : longer[i].old = longer[i - 1].new
            BY <3>0, <4>2, <5>1, <5>2, CorrectionAdded
          <5> QED
            BY <5>3
        <4> QED
          BY <2>5, <3>0, <4>1, <4>3
      <3> QED
        BY <3>2, <3>3
    <2> QED
      BY <2>4, <2>5
  <1>3. ASSUME NEW d \in Desks, WriteAttendance(d)
        PROVE  CorrectionsExplain'
    BY <1>1, <1>2, <1>3, AttendanceWritten
  <1> QED
    BY <1>1, <1>3, AttendanceChange

\* The corrections of an attendance record lead without a gap from what was recorded first to what it shows,
\* for any number of corrections, unless two of it crossed.
THEOREM CorrectionsStayWhole == AcademicSpec => []CorrectionsExplain
  <1>1. AcademicInit => SemesterInv /\ CorrectionsExplain
    <2>1. AcademicInit => CorrectionsExplain
      BY DEF AcademicInit, AttendanceInit, CorrectionsExplain
    <2> QED
      BY <2>1, SemesterInit
  <1>2. SemesterInv /\ CorrectionsExplain /\ [AcademicNext]_academicVars => (SemesterInv /\ CorrectionsExplain)'
    BY SemesterNext, CorrectionsExplainStays DEF SemesterInv
  <1> QED
    BY <1>1, <1>2, PTL DEF AcademicSpec

-----------------------------------------------------------------------------
(* Attempts and hall tickets *)

\* The attempts with an outcome, when a result is written
LEMMA WithStamped ==
    ASSUME ExamTypeOK, NEW x \in Registrations, NEW sheet \in Marksheets,
           attempts' = Stamped(attempts, x, sheet.outcome), NEW y \in Keys, NEW outcome
    PROVE  With(y, outcome)' = {i \in DOMAIN attempts[y] : IF x = <<y, i>> THEN sheet.outcome = outcome
                                                           ELSE attempts[y][i].outcome = outcome}
  <1>1. sheet.outcome \in {"PASS", "FAIL"}
    BY TranscriptAssumption
  <1>2. /\ DOMAIN attempts'[y] = DOMAIN attempts[y]
        /\ \A i \in DOMAIN attempts[y] :
              attempts'[y][i].outcome = IF x = <<y, i>> THEN sheet.outcome ELSE attempts[y][i].outcome
    BY <1>1, AttemptStamped
  <1> QED
    BY <1>2 DEF With

\* A scholar has one undecided attempt at a course, and a request that would write another is out of turn.
OnePending ==
    /\ \A k \in Keys : \A i, j \in With(k, "PENDING") : i = j
    /\ \A d \in Desks : desk[d].op = "examine" =>
          \/ desk[d].no # Len(attempts[KeyOf(desk[d].row)]) + 1
          \/ With(KeyOf(desk[d].row), "PENDING") = {}

LEMMA OnePendingStays ==
    ASSUME SemesterInv, OnePending, [AcademicNext]_academicVars
    PROVE  OnePending'
  <1>0. /\ TypeInv /\ AcademicTypeOK /\ AttemptsStand /\ NumbersRun
        /\ DeskTyped /\ WorkTyped /\ ExamTypeOK
        /\ \A k \in Keys : Len(attempts[k]) \in Nat
    BY DEF SemesterInv, TypeInv, CourseTypeOK, AcademicTypeOK, ExamTypeOK
  <1> DEFINE InTurn(no, key) == no = Len(attempts[key]) + 1
  <1>1. ASSUME NEW d \in Desks, desk'[d].op = "examine"
        PROVE  \E row \in Rows, key \in Keys :
                  /\ row = desk'[d].row /\ key = KeyOf(row)
                  /\ desk'[d].no \in Nat /\ desk'[d].no <= Len(attempts[key]) + 1
                  /\ InTurn(desk'[d].no, key) => With(key, "PENDING") = {}
    <2>1. CASE desk'[d] = desk[d]
      <3>1. desk[d].row \in Rows /\ desk[d].no \in Nat
        BY <1>0, <1>1, <2>1, WorkInHand, ExamAssumption
      <3>2. KeyOf(desk[d].row) \in Keys
        BY <3>1, KeyTyped
      <3> QED
        BY <1>0, <1>1, <2>1, <3>1, <3>2 DEF OnePending, AttemptsStand
    <2>2. ASSUME NEW row \in Rows, NEW e \in ExamIds, OpenExamRegistration(d, row, e)
          PROVE  /\ row = desk'[d].row
                 /\ desk'[d].no \in Nat /\ desk'[d].no <= Len(attempts[KeyOf(row)]) + 1
                 /\ With(KeyOf(row), "PENDING") = {}
      <3>1. desk'[d].row = row /\ desk'[d].no = Len(attempts[KeyOf(row)]) + 1
        BY <1>0, <2>2, ExaminationOpened
      <3>2. Len(attempts[KeyOf(row)]) \in Nat
        BY <1>0, KeyTyped
      <3> QED
        BY <2>2, <3>1, <3>2 DEF OpenExamRegistration, Eligible
    <2> QED
      BY <1>0, <1>1, <2>1, <2>2, KeyTyped, NewInHand
  <1>2. ASSUME attempts' = attempts
        PROVE  OnePending'
    <2>1. \A k \in Keys : With(k, "PENDING")' = With(k, "PENDING")
      BY <1>2 DEF With
    <2> QED
      BY <1>0, <1>1, <1>2, <2>1 DEF OnePending
  <1>3. ASSUME NEW d \in Desks, WriteExamRegistration(d), attempts' # attempts
        PROVE  OnePending'
    <2>1. PICK y \in Rows, new \in Attempt :
             /\ y = desk[d].row /\ new.outcome = "PENDING"
             /\ desk[d].no = Len(attempts[KeyOf(y)]) + 1
             /\ attempts' = [attempts EXCEPT ![KeyOf(y)] = Append(attempts[KeyOf(y)], new)]
      BY <1>0, <1>3, Examined
    <2>2. PICK k \in Keys : k = KeyOf(y)
      BY KeyTyped
    <2>3. With(k, "PENDING") = {}
      BY <1>3, <2>1, <2>2 DEF OnePending, WriteExamRegistration
    <2>4. ASSUME NEW z \in Keys
          PROVE  With(z, "PENDING")' = IF z = k THEN {Len(attempts[k]) + 1} ELSE With(z, "PENDING")
      <3>1. /\ \A key \in Keys : key # k => attempts'[key] = attempts[key]
            /\ DOMAIN attempts'[k] = DOMAIN attempts[k] \cup {Len(attempts[k]) + 1}
            /\ \A i \in DOMAIN attempts[k] : attempts'[k][i] = attempts[k][i]
            /\ attempts'[k][Len(attempts[k]) + 1] = new
        BY <1>0, <2>1, <2>2, AttemptAppended
      <3>2. CASE z = k
        BY <2>1, <2>3, <3>1, <3>2 DEF With
      <3>3. CASE z # k
        BY <3>1, <3>3 DEF With
      <3> QED
        BY <3>2, <3>3
    <2>5. Len(attempts'[k]) = Len(attempts[k]) + 1 /\ \A z \in Keys : z # k => attempts'[z] = attempts[z]
      BY <1>0, <2>1, <2>2, AttemptAppended
    <2>6. \A z \in Keys : \A i, j \in With(z, "PENDING")' : i = j
      BY <2>4 DEF OnePending
    <2>7. ASSUME NEW e \in Desks, desk'[e].op = "examine"
          PROVE  \E row \in Rows, key \in Keys :
                    /\ row = desk'[e].row /\ key = KeyOf(row)
                    /\ desk'[e].no = Len(attempts'[key]) + 1 => With(key, "PENDING")' = {}
      <3>1. PICK row \in Rows, key \in Keys :
                  /\ row = desk'[e].row /\ key = KeyOf(row)
                  /\ desk'[e].no \in Nat /\ desk'[e].no <= Len(attempts[key]) + 1
                  /\ InTurn(desk'[e].no, key) => With(key, "PENDING") = {}
        BY <1>1, <2>7
      <3>2. CASE key = k
        <4>1. desk'[e].no # Len(attempts'[k]) + 1
          BY <1>0, <2>5, <3>1, <3>2
        <4> QED
          BY <3>1, <3>2, <4>1
      <3>3. CASE key # k
        BY <2>4, <2>5, <3>1, <3>3
      <3> QED
        BY <3>1, <3>2, <3>3
    <2> QED
      BY <2>6, <2>7 DEF OnePending
  <1>4. ASSUME NEW d \in Desks, WriteRatification(d)
        PROVE  OnePending'
    <2>1. PICK x \in Registrations, sheet \in Marksheets :
             sheet.outcome \in {"PASS", "FAIL"} /\ attempts' = Stamped(attempts, x, sheet.outcome)
      BY <1>0, <1>4, RatificationWritten
    <2>2. \A k \in Keys : With(k, "PENDING")' \subseteq With(k, "PENDING")
      <3>1. ASSUME NEW k \in Keys
            PROVE  With(k, "PENDING")' = {i \in DOMAIN attempts[k] : IF x = <<k, i>> THEN sheet.outcome = "PENDING"
                                                                     ELSE attempts[k][i].outcome = "PENDING"}
        BY <1>0, <2>1, WithStamped
      <3> QED
        BY <2>1, <3>1 DEF With
    <2>3. \A k \in Keys : Len(attempts'[k]) = Len(attempts[k])
      BY <1>0, <2>1, AttemptStamped
    <2>4. ASSUME NEW e \in Desks, desk'[e].op = "examine"
          PROVE  \E row \in Rows, key \in Keys :
                    /\ row = desk'[e].row /\ key = KeyOf(row)
                    /\ desk'[e].no = Len(attempts'[key]) + 1 => With(key, "PENDING")' = {}
      BY <1>1, <2>2, <2>3, <2>4
    <2> QED
      BY <2>2, <2>4 DEF OnePending
  <1> QED
    BY <1>2, <1>3, <1>4, AttemptsChange

LEMMA TicketsTold == SemesterInv /\ PlacesInv /\ OnePending => TicketsStand
  <1> SUFFICES ASSUME SemesterInv, PlacesInv, OnePending
               PROVE  TicketsStand
    OBVIOUS
  <1>0. ExamTypeOK /\ AttemptsStand /\ TriedStands
    BY DEF SemesterInv, AcademicTypeOK, PlacesInv
  <1>1. ASSUME NEW x \in tickets, NEW row, row = attempts[x[1]][x[2]].row, enrollments[row].status = "WITHDRAWN"
        PROVE  {row[1], row[2]} \subseteq hurried
    <2>1. x[1] \in Keys /\ x[2] \in DOMAIN attempts[x[1]] /\ attempts[x[1]][x[2]] \in Attempt
      BY <1>0, RegistrationTyped DEF ExamTypeOK
    <2>2. row \in Rows /\ enrollments[row] # NotEnrolled /\ enrollments[row].tried
      BY <1>0, <1>1, <2>1 DEF Attempt, AttemptsStand
    <2> QED
      BY <1>0, <1>1, <2>2 DEF TriedStands, Takes
  <1>2. ASSUME NEW k \in Keys
        PROVE  Cardinality(With(k, "PENDING")) <= 1
    <2>1. CASE With(k, "PENDING") = {}
      <3>1. Cardinality({}) = 0
        BY FS_EmptySet
      <3> QED
        BY <2>1, <3>1
    <2>2. CASE With(k, "PENDING") # {}
      <3>0. PICK i \in With(k, "PENDING") : TRUE
        BY <2>2
      <3>1. With(k, "PENDING") = {i}
        BY <3>0 DEF OnePending
      <3>2. Cardinality({i}) = 1
        BY FS_Singleton
      <3> QED
        BY <3>1, <3>2
    <2> QED
      BY <2>1, <2>2
  <1> QED
    BY <1>1, <1>2 DEF TicketsStand

\* Who holds a hall ticket is enrolled still, and a scholar has one undecided attempt at a course, for any
\* number of attempts, tickets and requests in flight, unless a withdrawal and a registration crossed.
THEOREM TicketsStaySound == AcademicSpec => []TicketsStand
  <1>1. AcademicInit => SemesterInv /\ PlacesInv /\ OnePending
    <2>1. AcademicInit => OnePending
      BY DEF AcademicInit, ExamInit, ElectiveInit, Free, OnePending, With
    <2> QED
      BY <2>1, SemesterInit, PlacesInit DEF AcademicInit
  <1>2. SemesterInv /\ PlacesInv /\ OnePending /\ [AcademicNext]_academicVars
        => (SemesterInv /\ PlacesInv /\ OnePending)'
    BY SemesterNext, PlacesNext, OnePendingStays
  <1> QED
    BY <1>1, <1>2, TicketsTold, PTL DEF AcademicSpec

-----------------------------------------------------------------------------
(* What the record counts as passed *)

\* A nonempty set of numbers up to a bound has a greatest.
LEMMA GreatestExists ==
    ASSUME NEW n \in Nat, NEW S, S \subseteq 1 .. n, S # {}
    PROVE  Max(S) \in S /\ \A y \in S : Max(S) >= y
  <1> DEFINE Bounds == {b \in Nat : \A y \in S : y <= b}
             Less == {ss \in Nat \X Nat : ss[1] < ss[2]}
  <1>1. n \in Bounds
    OBVIOUS
  <1>2. Bounds \subseteq Nat /\ Bounds # {}
    BY <1>1
  <1>3. IsWellFoundedOn(Less, Nat)
    BY NatLessThanWellFounded DEF OpToRel
  <1>4. PICK m \in Bounds : \A b \in Bounds : ~(<<b, m>> \in Less)
    <2> HIDE DEF Less, Bounds
    <2> QED
      BY <1>2, <1>3, WFMin
  <1>5. m \in Nat /\ \A y \in S : y \in Nat /\ y >= 1 /\ y <= m
    OBVIOUS
  <1>6. m \in S
    <2>1. SUFFICES ASSUME m \notin S
                   PROVE  FALSE
      OBVIOUS
    <2>2. m - 1 \in Nat /\ \A y \in S : y <= m - 1
      <3>1. PICK z \in S : TRUE
        OBVIOUS
      <3>2. m >= 1
        BY <1>5, <3>1
      <3>3. ASSUME NEW y \in S
            PROVE  y <= m - 1
        <4>1. y # m
          BY <2>1
        <4> QED
          BY <1>5, <4>1
      <3> QED
        BY <1>5, <3>2, <3>3
    <2>3. m - 1 \in Bounds
      BY <2>2
    <2>4. <<m - 1, m>> \in Less
      BY <1>5, <2>2
    <2> QED
      BY <1>4, <2>3, <2>4
  <1>7. \A y \in S : m >= y
    BY <1>5
  <1> QED
    BY <1>6, <1>7 DEF Max

\* The attempt in force is the last of those decided.
LEMMA InForceIs ==
    ASSUME ExamTypeOK, NEW k \in Keys, Decided(attempts, k) # {}
    PROVE  /\ InForce(attempts, k) \in Decided(attempts, k)
           /\ \A i \in Decided(attempts, k) : i <= InForce(attempts, k)
  <1>1. Len(attempts[k]) \in Nat /\ DOMAIN attempts[k] = 1 .. Len(attempts[k])
    BY DEF ExamTypeOK
  <1>2. Decided(attempts, k) \subseteq 1 .. Len(attempts[k])
    BY <1>1 DEF Decided
  <1>3. Max(Decided(attempts, k)) \in Decided(attempts, k)
        /\ \A y \in Decided(attempts, k) : Max(Decided(attempts, k)) >= y
    BY <1>1, <1>2, GreatestExists
  <1>4. \A y \in Decided(attempts, k) : y \in Nat
    BY <1>1, <1>2
  <1> QED
    BY <1>3, <1>4 DEF InForce

\* A pass is of the last attempt, and no later one is asked for, where none was revised too late.
PassLast ==
    \A k \in Keys \ revised : \A i \in With(k, "PASS") :
        /\ i = Len(attempts[k])
        /\ \A d \in Desks : desk[d].op = "examine" /\ KeyOf(desk[d].row) = k => desk[d].no <= i

LEMMA PassLastStays ==
    ASSUME SemesterInv, PassLast, [AcademicNext]_academicVars
    PROVE  PassLast'
  <1>0. /\ TypeInv /\ AcademicTypeOK /\ AttemptsStand /\ NumbersRun
        /\ DeskTyped /\ WorkTyped /\ ExamTypeOK
        /\ \A k \in Keys : Len(attempts[k]) \in Nat /\ DOMAIN attempts[k] = 1 .. Len(attempts[k])
    BY DEF SemesterInv, TypeInv, CourseTypeOK, AcademicTypeOK, ExamTypeOK
  <1>1. ASSUME NEW k \in Keys \ revised, NEW i \in With(k, "PASS"), NEW d \in Desks, desk'[d].op = "examine",
               KeyOf(desk'[d].row) = k
        PROVE  desk'[d].no \in Nat /\ desk'[d].no <= i
    <2>1. CASE desk'[d] = desk[d]
      BY <1>0, <1>1, <2>1, WorkInHand, ExamAssumption DEF PassLast
    <2>2. ASSUME NEW row \in Rows, NEW e \in ExamIds, OpenExamRegistration(d, row, e)
          PROVE  FALSE
      <3>1. desk'[d].row = row
        BY <1>0, <2>2, ExaminationOpened
      <3>2. With(KeyOf(row), "PASS") = {}
        BY <2>2 DEF OpenExamRegistration, Eligible
      <3> QED
        BY <1>1, <3>1, <3>2
    <2> QED
      BY <1>0, <1>1, <2>1, <2>2, NewInHand
  <1>2. revised' = revised \/ \E d \in Desks : WriteRatification(d)
    BY DEF AcademicNext, academicVars, TranscriptNext, OpenRatification, OpenIssue, NumberIssue, WriteIssue,
           transcriptVars
  <1>3. ASSUME attempts' = attempts, revised' = revised
        PROVE  PassLast'
    <2>1. \A k \in Keys : With(k, "PASS")' = With(k, "PASS")
      BY <1>3 DEF With
    <2> QED
      BY <1>1, <1>3, <2>1 DEF PassLast
  <1>4. ASSUME NEW d \in Desks, WriteExamRegistration(d), attempts' # attempts, revised' = revised
        PROVE  PassLast'
    <2>1. PICK y \in Rows, new \in Attempt :
             /\ y = desk[d].row /\ new.outcome = "PENDING"
             /\ desk[d].no = Len(attempts[KeyOf(y)]) + 1
             /\ attempts' = [attempts EXCEPT ![KeyOf(y)] = Append(attempts[KeyOf(y)], new)]
      BY <1>0, <1>4, Examined
    <2>2. PICK key \in Keys : key = KeyOf(y)
      BY KeyTyped
    <2>3. /\ \A k \in Keys : k # key => attempts'[k] = attempts[k]
          /\ DOMAIN attempts'[key] = DOMAIN attempts[key] \cup {Len(attempts[key]) + 1}
          /\ \A i \in DOMAIN attempts[key] : attempts'[key][i] = attempts[key][i]
          /\ attempts'[key][Len(attempts[key]) + 1] = new
      BY <1>0, <2>1, <2>2, AttemptAppended
    <2>4. \A k \in Keys : With(k, "PASS")' = With(k, "PASS")
      BY <2>1, <2>3 DEF With
    <2>5. key \notin revised => With(key, "PASS") = {}
      <3>1. SUFFICES ASSUME key \notin revised, NEW i \in With(key, "PASS")
                     PROVE  FALSE
        OBVIOUS
      <3>2. i = Len(attempts[key]) /\ desk[d].no <= i
        BY <1>4, <2>1, <2>2, <3>1 DEF PassLast, WriteExamRegistration
      <3> QED
        BY <1>0, <2>1, <2>2, <3>2
    <2> QED
      BY <1>1, <1>4, <2>3, <2>4, <2>5 DEF PassLast
  <1>5. ASSUME NEW d \in Desks, WriteRatification(d)
        PROVE  PassLast'
    <2>1. PICK x \in Registrations, sheet \in Marksheets :
             /\ attempts' = Stamped(attempts, x, sheet.outcome) /\ sheet.outcome \in {"PASS", "FAIL"}
             /\ revised' = IF LaterAttempt(x[1], x[2]) THEN revised \cup {x[1]} ELSE revised
             /\ CloseRequest(d)
      BY <1>0, <1>5, RatificationWritten
    <2>2. \A k \in Keys : Len(attempts'[k]) = Len(attempts[k])
      BY <1>0, <2>1, AttemptStamped
    <2>3. x[1] \in Keys /\ x[2] \in DOMAIN attempts[x[1]] /\ x = <<x[1], x[2]>>
      BY <1>0, RegistrationTyped
    <2>4. ASSUME NEW k \in Keys, NEW i
          PROVE  i \in With(k, "PASS")' => i \in With(k, "PASS") \/ x = <<k, i>>
      <3>1. With(k, "PASS")' = {j \in DOMAIN attempts[k] : IF x = <<k, j>> THEN sheet.outcome = "PASS"
                                                           ELSE attempts[k][j].outcome = "PASS"}
        BY <1>0, <2>1, WithStamped
      <3> QED
        BY <3>1 DEF With
    <2>5. ASSUME NEW e \in Desks, desk'[e].op = "examine"
          PROVE  desk'[e] = desk[e] /\ desk[e].no \in Nat
      <3>1. desk'[e] = desk[e]
        BY <1>0, <2>1, <2>5, DeskCloses DEF Free
      <3> QED
        BY <1>0, <2>5, <3>1, WorkInHand, ExamAssumption
    <2>6. ASSUME NEW k \in Keys \ revised', NEW i \in With(k, "PASS")'
          PROVE  /\ i = Len(attempts'[k])
                 /\ \A e \in Desks : desk'[e].op = "examine" /\ KeyOf(desk'[e].row) = k => desk'[e].no <= i
      <3>0. k \notin revised
        BY <2>1, <2>6
      <3>1. CASE i \in With(k, "PASS")
        BY <2>2, <2>5, <3>0, <3>1 DEF PassLast
      <3>2. CASE x = <<k, i>>
        <4>1. x[1] = k /\ x[2] = i
          BY <3>2
        <4>2. ~LaterAttempt(k, i)
          BY <2>1, <2>6, <4>1
        <4>3. i \in Nat /\ i <= Len(attempts[k]) /\ Len(attempts[k]) \in Nat
          BY <1>0, <2>3, <4>1
        <4>4. i = Len(attempts[k])
          BY <4>2, <4>3 DEF LaterAttempt
        <4>5. \A e \in Desks : desk[e].op = "examine" /\ KeyOf(desk[e].row) = k => ~(desk[e].no > i)
          BY <4>2 DEF LaterAttempt
        <4> QED
          BY <2>2, <2>5, <4>3, <4>4, <4>5
      <3> QED
        BY <2>4, <2>6, <3>1, <3>2
    <2> QED
      BY <2>6 DEF PassLast
  <1> QED
    BY <1>2, <1>3, <1>4, <1>5, AttemptsChange

LEMMA PassesTold == SemesterInv /\ PassLast => PassesCounted
  <1> SUFFICES ASSUME SemesterInv, PassLast, NEW k \in Keys \ revised
               PROVE  k[2] \in PassedCourses(k[1], attempts) <=> With(k, "PASS") # {}
    BY DEF PassesCounted
  <1>0. ExamTypeOK /\ Len(attempts[k]) \in Nat /\ DOMAIN attempts[k] = 1 .. Len(attempts[k])
    BY DEF SemesterInv, AcademicTypeOK, ExamTypeOK
  <1>1. k[2] \in Courses /\ k = <<k[1], k[2]>>
    BY DEF Keys
  <1>2. k[2] \in PassedCourses(k[1], attempts)
        <=> Decided(attempts, k) # {} /\ attempts[k][InForce(attempts, k)].outcome = "PASS"
    BY <1>1, Zenon DEF PassedCourses, OnRecord
  <1>3. ASSUME Decided(attempts, k) # {}, attempts[k][InForce(attempts, k)].outcome = "PASS"
        PROVE  With(k, "PASS") # {}
    BY <1>0, <1>3, InForceIs DEF Decided, With
  <1>4. ASSUME NEW i \in With(k, "PASS")
        PROVE  Decided(attempts, k) # {} /\ attempts[k][InForce(attempts, k)].outcome = "PASS"
    <2>1. i = Len(attempts[k])
      BY <1>4 DEF PassLast
    <2>2. i \in Decided(attempts, k) /\ attempts[k][i].outcome = "PASS"
      BY <1>4 DEF With, Decided
    <2>3. InForce(attempts, k) \in 1 .. Len(attempts[k]) /\ i <= InForce(attempts, k)
      BY <1>0, <2>2, InForceIs DEF Decided
    <2>4. InForce(attempts, k) = i
      BY <1>0, <2>1, <2>3
    <2> QED
      BY <2>2, <2>4
  <1> QED
    BY <1>2, <1>3, <1>4

-----------------------------------------------------------------------------
(* Transcripts *)

\* A transcript tells no later record than there is, and no earlier one than those numbered before it,
\* unless another was issued while it was asked for.
IssuesOrdered ==
    /\ \A issue \in issues : issue.content <= edition[issue.scholar]
    /\ \A issue, later \in issues :
          issue.scholar = later.scholar /\ issue.version < later.version /\ ~later.overtaken
          => issue.content <= later.content
    /\ \A d \in Desks : desk[d].op = "issue" =>
          /\ desk[d].content <= edition[desk[d].scholar]
          /\ desk[d].known <= Cardinality(IssuesOf(desk[d].scholar))
          /\ desk[d].known = Cardinality(IssuesOf(desk[d].scholar)) =>
                \A issue \in IssuesOf(desk[d].scholar) : issue.content <= desk[d].content

LEMMA EditionGrows ==
    ASSUME SemesterInv, [AcademicNext]_academicVars, NEW s \in Candidates
    PROVE  edition'[s] \in Nat /\ edition[s] \in Nat /\ edition[s] <= edition'[s]
  <1>0. edition \in [Candidates -> Nat] /\ AcademicTypeOK /\ AttemptsStand /\ ExamTypeOK
    BY DEF SemesterInv, AcademicTypeOK, TranscriptTypeOK
  <1>1. edition' = edition \/ \E d \in Desks : WriteRatification(d)
    BY DEF AcademicNext, academicVars, TranscriptNext, OpenRatification, OpenIssue, NumberIssue, WriteIssue,
           transcriptVars
  <1>2. ASSUME NEW d \in Desks, WriteRatification(d)
        PROVE  edition'[s] = edition[s] \/ edition'[s] = edition[s] + 1
    <2>1. PICK x \in Registrations : edition' = [edition EXCEPT ![x[1][1]] = @ + 1]
      BY <1>0, <1>2, RatificationWritten
    <2> QED
      BY <1>0, <2>1
  <1> QED
    BY <1>0, <1>1, <1>2

LEMMA IssuesOrderedStays ==
    ASSUME SemesterInv, IssuesOrdered, [AcademicNext]_academicVars
    PROVE  IssuesOrdered'
  <1>0. /\ TypeInv /\ AcademicTypeOK /\ NumbersRun /\ DeskTyped /\ WorkTyped /\ TranscriptTypeOK
        /\ \A issue \in issues : /\ issue.scholar \in Candidates /\ issue.version \in Nat /\ issue.content \in Nat
                                 /\ issue \in IssuesOf(issue.scholar)
        /\ \A s : \A issue \in IssuesOf(s) : issue \in issues /\ issue.scholar = s /\ issue.content \in Nat
    BY DEF SemesterInv, TypeInv, CourseTypeOK, AcademicTypeOK, TranscriptTypeOK, Issue, IssuesOf
  \* A request in hand, against the transcripts there are before the step
  <1>1. ASSUME NEW d \in Desks, desk'[d].op = "issue"
        PROVE  \E s \in Candidates, content \in Nat, known \in Nat :
                  /\ s = desk'[d].scholar /\ content = desk'[d].content /\ known = desk'[d].known
                  /\ content <= edition[s] /\ known <= Cardinality(IssuesOf(s))
                  /\ known = Cardinality(IssuesOf(s)) => \A issue \in IssuesOf(s) : issue.content <= content
    <2>1. CASE desk'[d] = desk[d]
      BY <1>0, <1>1, <2>1, WorkInHand DEF IssuesOrdered
    <2>2. ASSUME NEW s \in Candidates, OpenIssue(d, s)
          PROVE  /\ s = desk'[d].scholar /\ desk'[d].content = edition[s] /\ desk'[d].known = Cardinality(IssuesOf(s))
                 /\ edition[s] \in Nat /\ Cardinality(IssuesOf(s)) \in Nat
                 /\ \A issue \in IssuesOf(s) : issue.content <= edition[s]
      <3>1. edition[s] \in Nat /\ Cardinality(IssuesOf(s)) \in Nat
        BY <1>0, IssuesCounted DEF TranscriptTypeOK
      <3>2. \A issue \in IssuesOf(s) : issue.content <= edition[s]
        BY <1>0 DEF IssuesOrdered
      <3> QED
        BY <1>0, <2>2, <3>1, <3>2, IssueOpened
    <2>3. CASE NumberIssue(d)
      BY <1>0, <1>1, <2>3, IssueNumbered, WorkInHand DEF IssuesOrdered
    <2>4. ASSUME NEW s \in Candidates, OpenIssue(d, s)
          PROVE  \E t \in Candidates, content \in Nat, known \in Nat :
                  /\ t = desk'[d].scholar /\ content = desk'[d].content /\ known = desk'[d].known
                  /\ content <= edition[t] /\ known <= Cardinality(IssuesOf(t))
                  /\ known = Cardinality(IssuesOf(t)) => \A issue \in IssuesOf(t) : issue.content <= content
      BY <2>2, <2>4
    <2> QED
      BY <1>0, <1>1, <2>1, <2>3, <2>4, NewInHand
  <1>2. ASSUME NEW d \in Desks, NEW s, desk'[d].op = "issue", s = desk'[d].scholar
        PROVE  /\ desk'[d].content <= edition'[s]
               /\ desk'[d].known <= Cardinality(IssuesOf(s)')
               /\ desk'[d].known = Cardinality(IssuesOf(s)')
                  => \A issue \in IssuesOf(s)' : issue.content <= desk'[d].content
    <2>1. PICK content \in Nat, known \in Nat :
                  /\ s \in Candidates /\ content = desk'[d].content /\ known = desk'[d].known
                  /\ content <= edition[s] /\ known <= Cardinality(IssuesOf(s))
                  /\ known = Cardinality(IssuesOf(s)) => \A issue \in IssuesOf(s) : issue.content <= content
      BY <1>1, <1>2
    <2>2. content <= edition'[s]
      BY <2>1, EditionGrows
    <2>3. CASE issues' = issues
      <3>1. IssuesOf(s)' = IssuesOf(s)
        BY <2>3 DEF IssuesOf
      <3> QED
        BY <2>1, <2>2, <3>1
    <2>4. ASSUME NEW new \in Issue, new \notin issues, issues' = issues \cup {new}
          PROVE  /\ known <= Cardinality(IssuesOf(s)')
                 /\ known = Cardinality(IssuesOf(s)') => \A issue \in IssuesOf(s)' : issue.content <= content
      <3>0. Cardinality(IssuesOf(s)) \in Nat
        BY <1>0, IssuesCounted
      <3>1. CASE s # new.scholar
        BY <1>0, <2>1, <2>4, <3>1, IssueCounts
      <3>2. CASE s = new.scholar
        <4>1. Cardinality(IssuesOf(s)') = Cardinality(IssuesOf(s)) + 1
          BY <1>0, <2>4, <3>2, IssueCounts
        <4> QED
          BY <2>1, <3>0, <4>1
      <3> QED
        BY <3>1, <3>2
    <2> QED
      BY <1>0, <2>1, <2>2, <2>3, <2>4, IssuesChange, IssueWritten
  <1>3. ASSUME NEW issue \in issues'
        PROVE  issue.content <= edition'[issue.scholar]
    <2>1. CASE issue \in issues
      BY <1>0, <2>1, EditionGrows DEF IssuesOrdered
    <2>2. ASSUME NEW d \in Desks, WriteIssue(d), issue \notin issues
          PROVE  issue.content <= edition'[issue.scholar]
      <3>1. issue.scholar = desk[d].scholar /\ issue.content = desk[d].content
        BY <1>0, <1>3, <2>2, IssueWritten
      <3>2. /\ desk[d].scholar \in Candidates /\ desk[d].content \in Nat
            /\ desk[d].content <= edition[desk[d].scholar]
        BY <1>0, <2>2, WorkInHand DEF IssuesOrdered, WriteIssue
      <3> QED
        BY <3>1, <3>2, EditionGrows
    <2> QED
      BY <1>3, <2>1, <2>2, IssuesChange
  <1>4. ASSUME NEW issue \in issues', NEW later \in issues', issue.scholar = later.scholar,
               issue.version < later.version, ~later.overtaken
        PROVE  issue.content <= later.content
    <2>1. CASE issue \in issues /\ later \in issues
      BY <1>4, <2>1 DEF IssuesOrdered
    <2>2. ASSUME NEW d \in Desks, WriteIssue(d), issues' # issues
          PROVE  issue.content <= later.content
      <3>1. PICK new \in Issue :
              /\ issues' = issues \cup {new} /\ new \notin issues
              /\ new.scholar = desk[d].scholar /\ new.content = desk[d].content
              /\ new.version = Cardinality(IssuesOf(new.scholar)) + 1
              /\ new.overtaken = (desk[d].known # Cardinality(IssuesOf(new.scholar)))
        BY <1>0, <2>2, IssueWritten
      <3> DEFINE n == Cardinality(IssuesOf(new.scholar))
      <3>2. n \in Nat /\ {i.version : i \in IssuesOf(new.scholar)} = 1 .. n
        BY <1>0, IssuesCounted DEF NumbersRun, Issue
      <3>3. \A i \in issues : i.scholar = new.scholar => i.version <= n
        BY <3>2 DEF IssuesOf
      <3>4. CASE issue = new /\ later \in issues
        <4>1. later.version <= n /\ later.version \in Nat
          BY <1>0, <1>4, <3>3, <3>4
        <4> QED
          BY <1>4, <3>1, <3>2, <3>4, <4>1
      <3>5. CASE issue \in issues /\ later = new
        <4>1. desk[d].known = n
          BY <1>4, <3>1, <3>5
        <4>2. issue \in IssuesOf(new.scholar)
          BY <1>4, <3>5 DEF IssuesOf
        <4>3. issue.content <= desk[d].content
          BY <2>2, <3>1, <4>1, <4>2 DEF IssuesOrdered, WriteIssue
        <4> QED
          BY <3>1, <3>5, <4>3
      <3>6. CASE issue = new /\ later = new
        <4>1. new.version \in Nat
          BY DEF Issue
        <4> QED
          BY <1>4, <3>6, <4>1
      <3> QED
        BY <1>4, <2>1, <3>1, <3>4, <3>5, <3>6
    <2> QED
      BY <1>4, <2>1, <2>2, IssuesChange
  <1> QED
    BY <1>2, <1>3, <1>4 DEF IssuesOrdered

LEMMA TranscriptsTold == SemesterInv /\ IssuesOrdered => TranscriptsNumbered
  <1> SUFFICES ASSUME SemesterInv, IssuesOrdered
               PROVE  TranscriptsNumbered
    OBVIOUS
  <1>1. ASSUME NEW issue \in issues, NEW later \in SupersededBy(issue), MatchesRecords(issue), ~later.overtaken
        PROVE  MatchesRecords(later)
    <2>1. later \in issues /\ later.scholar = issue.scholar /\ issue.version < later.version
      BY <1>1 DEF SupersededBy, IssuesOf, SemesterInv, AcademicTypeOK, TranscriptTypeOK, Issue
    <2>2. issue.content <= later.content /\ later.content <= edition[later.scholar]
      BY <1>1, <2>1 DEF IssuesOrdered
    <2>3. issue.content = edition[later.scholar] /\ issue.content \in Nat /\ later.content \in Nat
      BY <1>1, <2>1 DEF MatchesRecords, SemesterInv, AcademicTypeOK, TranscriptTypeOK, Issue
    <2> QED
      BY <2>2, <2>3 DEF MatchesRecords
  <1> QED
    BY <1>1 DEF TranscriptsNumbered, SemesterInv, NumbersRun

-----------------------------------------------------------------------------
(* The date of completion *)

\* Two pairs of attempts and points in which a scholar has the same results
SameResults(s, a, p, b, q) ==
    \A c \in Courses :
       /\ Decided(b, <<s, c>>) = Decided(a, <<s, c>>)
       /\ \A i \in Decided(a, <<s, c>>) :
             b[<<s, c>>][i].outcome = a[<<s, c>>][i].outcome /\ q[<<<<s, c>>, i>>] = p[<<<<s, c>>, i>>]

\* Attempts as the table may hold them
Numbered(a, s) == \A c \in Courses : \E n \in Nat : DOMAIN a[<<s, c>>] = 1 .. n

\* A record depends on the results alone.
LEMMA SameRecord ==
    ASSUME NEW s, NEW a, NEW p, NEW b, NEW q, Numbered(a, s), SameResults(s, a, p, b, q), Complete(s, b, q)
    PROVE  Complete(s, a, p)
  <1>1. ASSUME NEW c \in Courses, Decided(a, <<s, c>>) # {}
        PROVE  InForce(a, <<s, c>>) \in Decided(a, <<s, c>>) /\ InForce(b, <<s, c>>) = InForce(a, <<s, c>>)
    <2>1. PICK n \in Nat : DOMAIN a[<<s, c>>] = 1 .. n
      BY DEF Numbered
    <2>2. Decided(a, <<s, c>>) \subseteq 1 .. n
      BY <2>1 DEF Decided
    <2>3. InForce(a, <<s, c>>) \in Decided(a, <<s, c>>)
      BY <1>1, <2>2, GreatestExists DEF InForce
    <2> QED
      BY <2>3 DEF InForce, SameResults
  <1>2. OnRecord(s, b) = OnRecord(s, a)
    BY DEF OnRecord, SameResults
  <1>3. \A c \in OnRecord(s, a) :
           /\ b[<<s, c>>][InForce(b, <<s, c>>)].outcome = a[<<s, c>>][InForce(a, <<s, c>>)].outcome
           /\ PointsIn(s, c, b, q) = PointsIn(s, c, a, p)
    BY <1>1 DEF OnRecord, SameResults, PointsIn
  <1>4. PassedCourses(s, b) = PassedCourses(s, a)
    BY <1>2, <1>3 DEF PassedCourses
  <1>5. GradedCourses(s, b, q) = GradedCourses(s, a, p)
    BY <1>2, <1>3 DEF GradedCourses
  <1>6. [c \in GradedCourses(s, b, q) |-> PointsIn(s, c, b, q) * CreditsOf[c]]
        = [c \in GradedCourses(s, a, p) |-> PointsIn(s, c, a, p) * CreditsOf[c]]
    BY <1>3, <1>5 DEF GradedCourses
  <1>7. GPA(s, b, q) = GPA(s, a, p)
    BY <1>5, <1>6 DEF GPA
  <1>8. PassedCourses(s, a) \subseteq OnRecord(s, a)
    BY DEF PassedCourses
  <1> QED
    BY <1>3, <1>4, <1>5, <1>7, <1>8 DEF Complete

\* Tables of attempts
AttemptTables == [Keys -> Seq(Attempt)]

LEMMA StampedOutcomes ==
    ASSUME NEW a \in AttemptTables, NEW x \in Keys \X (1 .. MaxRegular), x[2] \in DOMAIN a[x[1]],
           NEW outcome \in {"PASS", "FAIL"}, NEW b, b = Stamped(a, x, outcome)
    PROVE  /\ b \in AttemptTables
           /\ \A k \in Keys : DOMAIN b[k] = DOMAIN a[k]
           /\ \A k \in Keys : \A i \in DOMAIN a[k] :
                 b[k][i].outcome = IF x = <<k, i>> THEN outcome ELSE a[k][i].outcome
  BY StampedIs DEF AttemptTables

\* One more result leaves the results of a scholar as alike as they were.
LEMMA StampedAlike ==
    ASSUME NEW s \in Candidates, NEW a \in AttemptTables, NEW b \in AttemptTables,
           NEW p \in [Keys \X (1 .. MaxRegular) -> Nat \cup {Ungraded}],
           NEW q \in [Keys \X (1 .. MaxRegular) -> Nat \cup {Ungraded}],
           NEW x \in Keys \X (1 .. MaxRegular), x[2] \in DOMAIN a[x[1]], x[2] \in DOMAIN b[x[1]],
           NEW sheet \in Marksheets, SameResults(s, a, p, b, q)
    PROVE  SameResults(s, Stamped(a, x, sheet.outcome), [p EXCEPT ![x] = sheet.points],
                       Stamped(b, x, sheet.outcome), [q EXCEPT ![x] = sheet.points])
  <1>0. PICK key \in Keys, j \in 1 .. MaxRegular : x = <<key, j>>
    OBVIOUS
  <1>10. x[1] = key /\ x[2] = j /\ j \in DOMAIN a[key] /\ j \in DOMAIN b[key]
    BY <1>0
  <1>11. PICK outcome \in {"PASS", "FAIL"} : outcome = sheet.outcome
    BY TranscriptAssumption
  <1>1. PICK a2 : a2 = Stamped(a, x, outcome)
    OBVIOUS
  <1>2. PICK b2 : b2 = Stamped(b, x, outcome)
    OBVIOUS
  <1>3. PICK p2, q2 : p2 = [p EXCEPT ![x] = sheet.points] /\ q2 = [q EXCEPT ![x] = sheet.points]
    OBVIOUS
  <1>4. /\ \A k \in Keys : DOMAIN a2[k] = DOMAIN a[k]
        /\ \A k \in Keys : \A i \in DOMAIN a[k] :
              a2[k][i].outcome = IF x = <<k, i>> THEN outcome ELSE a[k][i].outcome
    BY <1>1, StampedOutcomes
  <1>5. /\ \A k \in Keys : DOMAIN b2[k] = DOMAIN b[k]
        /\ \A k \in Keys : \A i \in DOMAIN b[k] :
              b2[k][i].outcome = IF x = <<k, i>> THEN outcome ELSE b[k][i].outcome
    BY <1>2, StampedOutcomes
  <1>6. /\ p2[x] = q2[x]
        /\ \A y \in Keys \X (1 .. MaxRegular) : y # x => p2[y] = p[y] /\ q2[y] = q[y]
    BY <1>3
  <1>7. ASSUME NEW c \in Courses, NEW k, k = <<s, c>>
        PROVE  /\ Decided(b2, k) = Decided(a2, k)
               /\ \A i \in Decided(a2, k) : b2[k][i].outcome = a2[k][i].outcome /\ q2[<<k, i>>] = p2[<<k, i>>]
    <2>0. k \in Keys
      BY <1>7 DEF Keys
    <2>1. /\ Decided(b, k) = Decided(a, k)
          /\ \A i \in Decided(a, k) : b[k][i].outcome = a[k][i].outcome /\ q[<<k, i>>] = p[<<k, i>>]
      BY <1>7 DEF SameResults
    <2>2. Decided(a2, k) = Decided(a, k) \cup {i \in {j} : k = key}
      BY <1>0, <1>10, <1>4, <2>0 DEF Decided
    <2>3. Decided(b2, k) = Decided(b, k) \cup {i \in {j} : k = key}
      BY <1>0, <1>10, <1>5, <2>0 DEF Decided
    <2>4. ASSUME NEW i \in Decided(a2, k)
          PROVE  b2[k][i].outcome = a2[k][i].outcome /\ q2[<<k, i>>] = p2[<<k, i>>]
      <3>1. CASE x = <<k, i>>
        <4>1. i \in DOMAIN a[k] /\ i \in DOMAIN b[k]
          BY <1>0, <1>10, <3>1
        <4> QED
          BY <1>4, <1>5, <1>6, <2>0, <3>1, <4>1
      <3>2. CASE x # <<k, i>>
        <4>1. i \in Decided(a, k) /\ i \in Decided(b, k)
          BY <1>0, <2>1, <2>2, <2>4, <3>2
        <4>2. b2[k][i].outcome = a2[k][i].outcome
          BY <1>4, <1>5, <2>0, <2>1, <3>2, <4>1 DEF Decided
        <4>3. q2[<<k, i>>] = q[<<k, i>>] /\ p2[<<k, i>>] = p[<<k, i>>]
          BY <1>3, <3>2
        <4> QED
          BY <2>1, <4>1, <4>2, <4>3
      <3> QED
        BY <3>1, <3>2
    <2> QED
      BY <2>1, <2>2, <2>3, <2>4
  <1>8. ASSUME NEW c \in Courses
        PROVE  /\ Decided(b2, <<s, c>>) = Decided(a2, <<s, c>>)
               /\ \A i \in Decided(a2, <<s, c>>) :
                     b2[<<s, c>>][i].outcome = a2[<<s, c>>][i].outcome /\ q2[<<<<s, c>>, i>>] = p2[<<<<s, c>>, i>>]
    <2>1. PICK k : k = <<s, c>>
      OBVIOUS
    <2> QED
      BY <1>7, <2>1
  <1>9. SameResults(s, a2, p2, b2, q2)
    BY <1>8 DEF SameResults
  <1> QED
    BY <1>1, <1>2, <1>3, <1>9, <1>11

\* A record in which the result in hand is written shows complete only if the request found it so, and one
\* result of a scholar is ratified at a time, unless two were.
RatifiedRecord(d, s) ==
    Complete(s, Stamped(attempts, desk[d].registration, desk[d].sheet.outcome),
             [points EXCEPT ![desk[d].registration] = desk[d].sheet.points])

CompletionInHand ==
    /\ \A d \in Desks : \A s \in Candidates \ crossed :
          desk[d].op = "ratify" /\ desk[d].registration[1][1] = s =>
             /\ RatifiedRecord(d, s) => desk[d].complete
             /\ \A e \in Desks : desk[e].op = "ratify" /\ desk[e].registration[1][1] = s => e = d

LEMMA TableTyped ==
    ASSUME SemesterInv
    PROVE  /\ attempts \in AttemptTables
           /\ points \in [Keys \X (1 .. MaxRegular) -> Nat \cup {Ungraded}]
           /\ \A s \in Candidates : Numbered(attempts, s)
  <1>1. attempts \in [Keys -> Seq(Attempt)]
    BY DEF SemesterInv, AcademicTypeOK, ExamTypeOK
  <1>2. ASSUME NEW s \in Candidates, NEW c \in Courses
        PROVE  \E n \in Nat : DOMAIN attempts[<<s, c>>] = 1 .. n
    <2>1. attempts[<<s, c>>] \in Seq(Attempt)
      BY <1>1 DEF Keys
    <2>2. Len(attempts[<<s, c>>]) \in Nat /\ DOMAIN attempts[<<s, c>>] = 1 .. Len(attempts[<<s, c>>])
      BY <2>1
    <2> QED
      BY <2>2
  <1> QED
    BY <1>1, <1>2 DEF AttemptTables, Numbered, SemesterInv, AcademicTypeOK, TranscriptTypeOK

\* No step but a ratification of a result of the scholar changes the scholar's results.
LEMMA ResultsStay ==
    ASSUME SemesterInv, [AcademicNext]_academicVars, NEW s \in Candidates,
           \A d \in Desks : WriteRatification(d) => desk[d].registration[1][1] # s, NEW b, NEW q, b = attempts', q = points'
    PROVE  SameResults(s, attempts, points, b, q)
  <1>0. /\ TypeInv /\ AcademicTypeOK /\ AttemptsStand /\ ExamTypeOK
        /\ \A k \in Keys : Len(attempts[k]) \in Nat /\ DOMAIN attempts[k] = 1 .. Len(attempts[k])
        /\ points \in [Keys \X (1 .. MaxRegular) -> Nat \cup {Ungraded}]
    BY DEF SemesterInv, AcademicTypeOK, ExamTypeOK, TranscriptTypeOK
  <1>1. points' = points \/ \E d \in Desks : WriteRatification(d)
    BY DEF AcademicNext, academicVars, TranscriptNext, OpenRatification, OpenIssue, NumberIssue, WriteIssue,
           transcriptVars
  <1>2. CASE attempts' = attempts /\ points' = points
    BY <1>2 DEF SameResults
  <1>3. ASSUME NEW d \in Desks, WriteExamRegistration(d), attempts' # attempts, points' = points
        PROVE  SameResults(s, attempts, points, b, q)
    <2>1. PICK y \in Rows, new \in Attempt :
             /\ new.outcome = "PENDING"
             /\ attempts' = [attempts EXCEPT ![KeyOf(y)] = Append(attempts[KeyOf(y)], new)]
      BY <1>0, <1>3, Examined
    <2>2. PICK key \in Keys : key = KeyOf(y)
      BY KeyTyped
    <2>3. /\ \A k \in Keys : k # key => attempts'[k] = attempts[k]
          /\ DOMAIN attempts'[key] = DOMAIN attempts[key] \cup {Len(attempts[key]) + 1}
          /\ \A i \in DOMAIN attempts[key] : attempts'[key][i] = attempts[key][i]
          /\ attempts'[key][Len(attempts[key]) + 1] = new
      BY <1>0, <2>1, <2>2, AttemptAppended
    <2>4. ASSUME NEW k \in Keys
          PROVE  /\ Decided(b, k) = Decided(attempts, k)
                 /\ \A i \in Decided(attempts, k) : b[k][i].outcome = attempts[k][i].outcome
      <3>1. CASE k # key
        BY <2>3, <3>1 DEF Decided
      <3>2. CASE k = key
        BY <1>0, <2>1, <2>3, <3>2 DEF Decided
      <3> QED
        BY <3>1, <3>2
    <2>5. \A c \in Courses : <<s, c>> \in Keys
      BY DEF Keys
    <2> QED
      BY <1>3, <2>4, <2>5 DEF SameResults
  <1>4. ASSUME NEW d \in Desks, WriteRatification(d)
        PROVE  SameResults(s, attempts, points, b, q)
    <2>1. PICK x \in Registrations, sheet \in Marksheets :
             /\ x = desk[d].registration /\ sheet.outcome \in {"PASS", "FAIL"}
             /\ b = Stamped(attempts, x, sheet.outcome)
             /\ q = [points EXCEPT ![x] = sheet.points]
      BY <1>0, <1>4, RatificationWritten
    <2>2. x \in Keys \X (1 .. MaxRegular) /\ x[1][1] # s
      BY <1>0, <1>4, <2>1, RegistrationTyped
    <2>3. /\ \A k \in Keys : DOMAIN b[k] = DOMAIN attempts[k]
          /\ \A k \in Keys : \A i \in DOMAIN attempts[k] :
                b[k][i].outcome = IF x = <<k, i>> THEN sheet.outcome ELSE attempts[k][i].outcome
      <3>1. attempts \in AttemptTables /\ x[2] \in DOMAIN attempts[x[1]]
        BY <1>0, RegistrationTyped, TableTyped
      <3>2. PICK outcome \in {"PASS", "FAIL"} : outcome = sheet.outcome
        BY <2>1
      <3>3. b = Stamped(attempts, x, outcome)
        BY <2>1, <3>2
      <3> QED
        BY <2>2, <3>1, <3>2, <3>3, StampedOutcomes
    <2>4. ASSUME NEW c \in Courses, NEW k, k = <<s, c>>
          PROVE  /\ Decided(b, k) = Decided(attempts, k)
                 /\ \A i \in Decided(attempts, k) :
                       b[k][i].outcome = attempts[k][i].outcome /\ q[<<k, i>>] = points[<<k, i>>]
      <3>1. k \in Keys /\ \A i : x # <<k, i>>
        BY <2>2, <2>4 DEF Keys
      <3>2. \A i \in DOMAIN attempts[k] : b[k][i].outcome = attempts[k][i].outcome
        BY <2>3, <3>1
      <3>3. \A i : q[<<k, i>>] = points[<<k, i>>]
        BY <2>1, <3>1
      <3> QED
        BY <2>3, <3>1, <3>2, <3>3 DEF Decided
    <2>5. ASSUME NEW c \in Courses
          PROVE  /\ Decided(b, <<s, c>>) = Decided(attempts, <<s, c>>)
                 /\ \A i \in Decided(attempts, <<s, c>>) :
                       /\ b[<<s, c>>][i].outcome = attempts[<<s, c>>][i].outcome
                       /\ q[<<<<s, c>>, i>>] = points[<<<<s, c>>, i>>]
      <3>1. PICK k : k = <<s, c>>
        OBVIOUS
      <3> QED
        BY <2>4, <3>1
    <2> QED
      BY <2>5 DEF SameResults
  <1> QED
    BY <1>1, <1>2, <1>3, <1>4, AttemptsChange

\* Results of a scholar in hand stay alike with those of the table.
LEMMA InHandStays ==
    ASSUME SemesterInv, CompletionInHand, [AcademicNext]_academicVars, NEW s \in Candidates \ crossed,
           \A d \in Desks : WriteRatification(d) => desk[d].registration[1][1] # s,
           NEW d \in Desks, desk'[d] = desk[d], desk[d].op = "ratify", desk[d].registration[1][1] = s,
           RatifiedRecord(d, s)'
    PROVE  desk'[d].complete
  <1>0. /\ WorkTyped /\ AttemptsStand /\ ExamTypeOK /\ SemesterInv'
    BY SemesterNext DEF SemesterInv, AcademicTypeOK
  <1>1. PICK x \in Registrations, sheet \in Marksheets : x = desk[d].registration /\ sheet = desk[d].sheet
    BY <1>0, WorkInHand DEF AttemptsStand
  <1>2. /\ x \in Keys \X (1 .. MaxRegular) /\ x[2] \in DOMAIN attempts[x[1]]
    BY <1>0, RegistrationTyped
  <1>3. PICK b \in AttemptTables, q \in [Keys \X (1 .. MaxRegular) -> Nat \cup {Ungraded}] : b = attempts' /\ q = points'
    BY <1>0 DEF AttemptTables, SemesterInv, AcademicTypeOK, ExamTypeOK, TranscriptTypeOK
  <1>4. x[2] \in DOMAIN b[x[1]]
    <2>1. x \in Registrations'
      BY <1>0, <1>1 DEF SemesterInv, AttemptsStand
    <2>2. PICK k \in Keys : \E i \in DOMAIN attempts'[k] : x = <<k, i>>
      BY <2>1 DEF Registrations
    <2> QED
      BY <1>3, <2>2
  <1>5. SameResults(s, attempts, points, b, q)
    BY <1>3, ResultsStay
  <1>6. PICK a \in AttemptTables, p \in [Keys \X (1 .. MaxRegular) -> Nat \cup {Ungraded}] :
           a = attempts /\ p = points /\ Numbered(a, s)
    BY TableTyped
  <1>7. SameResults(s, Stamped(a, x, sheet.outcome), [p EXCEPT ![x] = sheet.points],
                    Stamped(b, x, sheet.outcome), [q EXCEPT ![x] = sheet.points])
    BY <1>2, <1>4, <1>5, <1>6, StampedAlike
  <1>8. Complete(s, Stamped(b, x, sheet.outcome), [q EXCEPT ![x] = sheet.points])
    BY <1>1, <1>3 DEF RatifiedRecord
  <1>9. Numbered(Stamped(a, x, sheet.outcome), s)
    <2>1. PICK outcome \in {"PASS", "FAIL"} : outcome = sheet.outcome
      BY TranscriptAssumption
    <2>2. PICK a2 : a2 = Stamped(a, x, outcome)
      OBVIOUS
    <2>3. \A k \in Keys : DOMAIN a2[k] = DOMAIN a[k]
      BY <1>2, <1>6, <2>2, StampedOutcomes
    <2>4. \A c \in Courses : <<s, c>> \in Keys
      BY DEF Keys
    <2>5. Numbered(a2, s)
      BY <1>6, <2>3, <2>4 DEF Numbered
    <2> QED
      BY <2>1, <2>2, <2>5
  <1>10. RatifiedRecord(d, s)
    <2>1. Complete(s, Stamped(a, x, sheet.outcome), [p EXCEPT ![x] = sheet.points])
      BY <1>7, <1>8, <1>9, SameRecord
    <2> QED
      BY <1>1, <1>6, <2>1 DEF RatifiedRecord
  <1> QED
    BY <1>10 DEF CompletionInHand

LEMMA CompletionStays ==
    ASSUME SemesterInv, CompletionDated, CompletionInHand, [AcademicNext]_academicVars
    PROVE  CompletionDated' /\ CompletionInHand'
  <1>0. /\ TypeInv /\ AcademicTypeOK /\ AttemptsStand /\ NumbersRun
        /\ DeskTyped /\ WorkTyped /\ ExamTypeOK /\ TranscriptTypeOK
    BY DEF SemesterInv, TypeInv, CourseTypeOK, AcademicTypeOK
  <1>1. crossed \subseteq crossed' /\ completed \subseteq completed'
    BY DEF AcademicNext, academicVars, TranscriptNext, OpenRatification, WriteRatification, OpenIssue, NumberIssue,
           WriteIssue, Refreshed, transcriptVars
  <1>2. ASSUME NEW s \in Candidates \ crossed, \A d \in Desks : WriteRatification(d) => desk[d].registration[1][1] # s,
               Complete(s, attempts, points)'
        PROVE  s \in completed'
    <2>1. PICK b, q : b = attempts' /\ q = points'
      OBVIOUS
    <2>2. SameResults(s, attempts, points, b, q)
      BY <1>2, <2>1, ResultsStay
    <2>3. Complete(s, b, q)
      BY <1>2, <2>1
    <2>4. Complete(s, attempts, points)
      BY <2>2, <2>3, SameRecord, TableTyped
    <2> QED
      BY <1>1, <2>4 DEF CompletionDated
  <1>3. ASSUME NEW d \in Desks, desk'[d] # desk[d], desk'[d].op = "ratify"
        PROVE  \E x \in Registrations, sheet \in Marksheets : OpenRatification(d, x, sheet)
    BY <1>0, <1>3, NewInHand
  <1>4. ASSUME NEW d \in Desks, NEW x \in Registrations, NEW sheet \in Marksheets, OpenRatification(d, x, sheet),
               NEW s, desk'[d].registration[1][1] = s
        PROVE  /\ RatifiedRecord(d, s)' => desk'[d].complete
               /\ s \notin crossed' => \A e \in Desks : desk'[e].op = "ratify" /\ desk'[e].registration[1][1] = s => e = d
    <2>1. /\ desk'[d].registration = x /\ desk'[d].sheet = sheet
          /\ desk'[d].complete = Complete(x[1][1], Stamped(attempts, x, sheet.outcome),
                                          [points EXCEPT ![x] = sheet.points])
          /\ \A e \in Desks \ {d} : desk'[e] = desk[e]
      BY <1>0, <1>4, RatificationOpened
    <2>2. attempts' = attempts /\ points' = points
      BY <1>4 DEF OpenRatification, examVars
    <2>3. RatifiedRecord(d, s)' => desk'[d].complete
      BY <1>4, <2>1, <2>2 DEF RatifiedRecord
    <2>4. crossed' = crossed \cup {t \in {x[1][1]} : \E e \in Desks : desk[e].op = "ratify" /\ desk[e].registration[1][1] = t}
      BY <1>4 DEF OpenRatification
    <2> QED
      BY <1>4, <2>1, <2>3, <2>4
  <1>5. ASSUME NEW s \in Candidates \ crossed', \A d \in Desks : WriteRatification(d) => desk[d].registration[1][1] # s,
               NEW d \in Desks, desk'[d].op = "ratify", desk'[d].registration[1][1] = s
        PROVE  /\ RatifiedRecord(d, s)' => desk'[d].complete
               /\ \A e \in Desks : desk'[e].op = "ratify" /\ desk'[e].registration[1][1] = s => e = d
    <2>0. s \in Candidates \ crossed
      BY <1>1
    <2>1. CASE desk'[d] # desk[d]
      BY <1>3, <1>4, <1>5, <2>1
    <2>2. CASE desk'[d] = desk[d]
      <3>1. RatifiedRecord(d, s)' => desk'[d].complete
        BY <1>5, <2>0, <2>2, InHandStays
      <3>2. ASSUME NEW e \in Desks, desk'[e].op = "ratify", desk'[e].registration[1][1] = s
            PROVE  e = d
        <4>1. CASE desk'[e] # desk[e]
          BY <1>3, <1>4, <1>5, <3>2, <4>1
        <4>2. CASE desk'[e] = desk[e]
          BY <1>5, <2>0, <2>2, <3>2, <4>2 DEF CompletionInHand
        <4> QED
          BY <4>1, <4>2
      <3> QED
        BY <3>1, <3>2
    <2> QED
      BY <2>1, <2>2
  <1>6. ASSUME NEW d \in Desks, WriteRatification(d), NEW s \in Candidates \ crossed', desk[d].registration[1][1] = s
        PROVE  /\ Complete(s, attempts, points)' => s \in completed'
               /\ \A e \in Desks : ~(desk'[e].op = "ratify" /\ desk'[e].registration[1][1] = s)
    <2>1. PICK x \in Registrations, sheet \in Marksheets :
              /\ x = desk[d].registration /\ sheet = desk[d].sheet
              /\ attempts' = Stamped(attempts, x, sheet.outcome)
              /\ points' = [points EXCEPT ![x] = sheet.points]
              /\ completed' = Refreshed(x[1][1], desk[d].complete)
              /\ CloseRequest(d)
      BY <1>0, <1>6, RatificationWritten
    <2>2. s \in Candidates \ crossed /\ desk[d].op = "ratify"
      BY <1>1, <1>6 DEF WriteRatification
    <2>3. Complete(s, attempts, points)' => RatifiedRecord(d, s)
      BY <2>1 DEF RatifiedRecord
    <2>4. RatifiedRecord(d, s) => desk[d].complete
      BY <1>6, <2>2 DEF CompletionInHand
    <2>5. desk[d].complete => s \in completed'
      BY <1>6, <2>1 DEF Refreshed
    <2>6. ASSUME NEW e \in Desks, desk'[e].op = "ratify", desk'[e].registration[1][1] = s
          PROVE  FALSE
      <3>1. desk'[e] = desk[e] /\ e # d
        BY <1>0, <2>1, <2>6, DeskCloses DEF Free, CloseRequest, DeskTyped
      <3> QED
        BY <1>6, <2>2, <2>6, <3>1 DEF CompletionInHand
    <2> QED
      BY <2>3, <2>4, <2>5, <2>6
  <1>7. CompletionDated'
    BY <1>1, <1>2, <1>6 DEF CompletionDated
  <1>8. CompletionInHand'
    BY <1>5, <1>6 DEF CompletionInHand
  <1> QED
    BY <1>7, <1>8

\* No courses have no credits.
LEMMA NoCredits == Credits({}) = 0
  <1> DEFINE none == [c \in {} |-> CreditsOf[c]]
             Rest(f) == [s \in SUBSET {} |-> IF s = {} THEN 0
                                             ELSE none[CHOOSE x \in s : TRUE] + f[s \ {CHOOSE x \in s : TRUE}]]
             iter == CHOOSE f : f = Rest(f)
  <1>1. DOMAIN none = {}
    OBVIOUS
  <1>2. Credits({}) = iter[{}]
    BY <1>1, Zenon DEF Credits, SumFunction, SumFunctionOnSet, FoldFunctionOnSet, MapThenFoldSet
  <1>3. \E f : f = Rest(f)
    <2> DEFINE f == [s \in SUBSET {} |-> 0]
    <2>1. f = Rest(f)
      OBVIOUS
    <2> QED
      BY <2>1
  <1>4. iter = Rest(iter)
    BY <1>3, Zenon
  <1> QED
    BY <1>2, <1>4

\* A scholar's record tells what came of every attempt, the date of completion follows it, and transcripts
\* are numbered without a gap and in the order of what they tell, for any number of scholars, results and
\* requests in flight, unless results or issues of the scholar crossed.
THEOREM RecordsToldTrue == AcademicSpec => []RecordTold
  <1> DEFINE Inv == SemesterInv /\ PassLast /\ IssuesOrdered /\ CompletionDated /\ CompletionInHand
  <1>1. AcademicInit => Inv
    <2> SUFFICES ASSUME AcademicInit
                 PROVE  Inv
      OBVIOUS
    <2>1. SemesterInv
      BY SemesterInit
    <2>2. \A d \in Desks : desk[d].op = "free"
      BY DEF AcademicInit, ElectiveInit, Free
    <2>3. \A k \in Keys : attempts[k] = <<>>
      BY DEF AcademicInit, ExamInit
    <2>4. PassLast
      BY <2>3 DEF PassLast, With
    <2>5. IssuesOrdered
      BY <2>2 DEF IssuesOrdered, AcademicInit, TranscriptInit
    <2>6. CompletionInHand
      BY <2>2 DEF CompletionInHand
    <2>7. ASSUME NEW s \in Candidates
          PROVE  ~Complete(s, attempts, points)
      <3>1. \A c \in Courses : Decided(attempts, <<s, c>>) = {}
        BY <2>3 DEF Decided, Keys
      <3>2. GradedCourses(s, attempts, points) = {}
        BY <3>1 DEF GradedCourses, OnRecord
      <3> QED
        BY <3>2, NoCredits DEF Complete
    <2> QED
      BY <2>1, <2>4, <2>5, <2>6, <2>7 DEF CompletionDated
  <1>2. Inv /\ [AcademicNext]_academicVars => Inv'
    BY SemesterNext, PassLastStays, IssuesOrderedStays, CompletionStays
  <1>3. Inv => RecordTold
    BY PassesTold, TranscriptsTold DEF RecordTold
  <1> QED
    BY <1>1, <1>2, <1>3, PTL DEF AcademicSpec

-----------------------------------------------------------------------------
(* Screens *)

\* What a list has become since a tab showed it for decision
Awaited(x, row) ==
    \/ row.submitted > x.round /\ row.submitted <= Len(row.decisions)
    \/ /\ row.submitted = x.round
       /\ \/ row.status = "APPROVED"
          \/ row.status = "RETURNED" /\ row.submitted < Len(row.decisions)
          \/ /\ row.status = "SUBMITTED"
             /\ row.step > x.step \/ (row.step = x.step /\ MayDecideList(x.person, row))

\* What a proposal has become since a tab showed it for decision
Undecided(x, row) ==
    /\ row.status = "SUBMITTED" => x.status = "SUBMITTED"
    /\ row.status = x.status => x.person \notin {row.scholar, row.recommender}

\* What a tab offers was right when it was shown, and can be told from the row to be right or late since.
OfferRests(x) ==
    /\ x # Blank => x.offer \in {"submit", "decideList", "recommend", "decide"} /\ x.person \in Officers
    /\ x.offer = "submit" => x.id \in Lists /\ x.status \in {"DRAFT", "RETURNED"}
    /\ x.offer = "decideList" =>
          /\ x.id \in Lists /\ x.status = "SUBMITTED" /\ x.round \in Nat /\ x.step \in Nat
          /\ lists[x.id] # NoList
          /\ lists[x.id].stale \/ Awaited(x, lists[x.id])
    /\ x.offer = "recommend" =>
          /\ x.id \in Proposals /\ x.status = "SUBMITTED"
          /\ proposals[x.id] # NoProposal
          /\ x.person \in SupervisedBy[proposals[x.id].scholar]
    /\ x.offer = "decide" =>
          /\ x.id \in Proposals /\ x.status \in Decidable /\ x.person \in Authority
          /\ proposals[x.id] # NoProposal
          /\ proposals[x.id].stale \/ Undecided(x, proposals[x.id])

OffersRest ==
    /\ shown = [t \in Tabs |-> shown[t]]
    /\ \A t \in Tabs : OfferRests(shown[t])

\* How a list may move that nobody writes over
LEMMA ListMoves ==
    ASSUME ListInv, CourseStep, NEW l \in Lists, lists[l] # NoList, ~lists'[l].stale
    PROVE  /\ ~lists[l].stale
           /\ \/ lists'[l] = lists[l]
              \/ /\ lists[l].status \in {"DRAFT", "RETURNED"} /\ lists'[l].status = "SUBMITTED"
                 /\ lists'[l].decisions = lists[l].decisions
                 /\ lists'[l].submitted = Len(lists[l].decisions)
              \/ /\ lists[l].status = "SUBMITTED"
                 /\ lists'[l].submitted = lists[l].submitted
                 /\ Len(lists'[l].decisions) = Len(lists[l].decisions) + 1
                 /\ \/ lists'[l].status \in {"RETURNED", "APPROVED"}
                    \/ lists'[l].status = "SUBMITTED" /\ lists'[l].step = lists[l].step + 1
  <1>0. TypeInv /\ lists \in [Lists -> {NoList} \cup ElectiveList] /\ lists[l] \in ElectiveList
    BY DEF ListInv, TypeInv, CourseTypeOK
  <1>1. CASE lists'[l] = lists[l]
    BY <1>1
  <1>2. ASSUME NEW k \in Lists, NEW person \in Preparers, NEW semester \in Semesters,
               NEW courses \in SUBSET Electives, PrepareList(k, person, semester, courses)
        PROVE  lists'[l] = lists[l]
    BY <1>0, <1>2 DEF PrepareList
  <1>3. ASSUME NEW d \in Desks, WriteSubmission(d), lists'[l] # lists[l]
        PROVE  /\ ~lists[l].stale
               /\ lists[l].status \in {"DRAFT", "RETURNED"} /\ lists'[l].status = "SUBMITTED"
               /\ lists'[l].decisions = lists[l].decisions
               /\ lists'[l].submitted = Len(lists[l].decisions)
    <2>1. PICK k \in Lists, row \in ElectiveList :
              /\ lists' = [lists EXCEPT ![k] = row]
              /\ row.status = "SUBMITTED" /\ row.submitted = Len(lists[k].decisions)
              /\ row.decisions = lists[k].decisions
              /\ ~row.stale => lists[k] = desk[d].copy /\ ~lists[k].stale
      BY <1>0, <1>3, SubmissionWritten
    <2>2. desk[d].copy.status \in {"DRAFT", "RETURNED"}
      BY <1>3 DEF WriteSubmission, ListInv, CopiesSound
    <2>3. l = k /\ lists'[l] = row
      BY <1>0, <1>3, <2>1
    <2> QED
      BY <2>1, <2>2, <2>3
  <1>4. ASSUME NEW d \in Desks, WriteListDecision(d), lists'[l] # lists[l]
        PROVE  /\ ~lists[l].stale /\ lists[l].status = "SUBMITTED"
               /\ lists'[l].submitted = lists[l].submitted
               /\ Len(lists'[l].decisions) = Len(lists[l].decisions) + 1
               /\ \/ lists'[l].status \in {"RETURNED", "APPROVED"}
                  \/ lists'[l].status = "SUBMITTED" /\ lists'[l].step = lists[l].step + 1
    <2>1. PICK k \in Lists, row \in ElectiveList, copy \in ElectiveList :
              LET last == copy.step >= Len(copy.chain)
              IN  /\ k = desk[d].id /\ copy = desk[d].copy /\ lists[k] \in ElectiveList
                  /\ lists' = [lists EXCEPT ![k] = row]
                  /\ row.status = IF ~desk[d].approve THEN "RETURNED" ELSE IF last THEN "APPROVED" ELSE copy.status
                  /\ row.step = IF desk[d].approve /\ ~last THEN copy.step + 1 ELSE copy.step
                  /\ row.decisions = Append(lists[k].decisions,
                                            [step |-> copy.step, by |-> desk[d].by, approved |-> desk[d].approve])
                  /\ row.chain = lists[k].chain /\ row.submitted = lists[k].submitted
                  /\ row.by = lists[k].by /\ row.semester = lists[k].semester /\ row.courses = lists[k].courses
                  /\ ~row.stale => lists[k] = copy /\ ~lists[k].stale
      BY <1>0, <1>4, ListDecisionWritten
    <2>2. copy.status = "SUBMITTED"
      BY <1>4, <2>1 DEF WriteListDecision, ListInv, CopiesSound
    <2>3. l = k /\ lists'[l] = row
      BY <1>0, <1>4, <2>1
    <2>4. lists[l] = copy /\ ~lists[l].stale
      BY <2>1, <2>3
    <2>5. Len(row.decisions) = Len(lists[l].decisions) + 1
      BY <1>0, <2>1, <2>3 DEF ElectiveList
    <2> QED
      BY <2>1, <2>2, <2>3, <2>4, <2>5
  <1> QED
    BY <1>0, <1>1, <1>2, <1>3, <1>4, ListsChange

\* A list shown for decision waits for it, has it or will not take it.
LEMMA AwaitedStays ==
    ASSUME ListInv, CourseStep, NEW x, x.round \in Nat, x.step \in Nat, NEW l \in Lists, lists[l] # NoList,
           lists[l].stale \/ Awaited(x, lists[l])
    PROVE  lists'[l] # NoList /\ (lists'[l].stale \/ Awaited(x, lists'[l]))
  <1>1. lists'[l] # NoList
    BY ListStays
  <1> SUFFICES ASSUME ~lists'[l].stale
               PROVE  Awaited(x, lists'[l])
    BY <1>1
  <1>2. PICK old \in ElectiveList, new \in ElectiveList : old = lists[l] /\ new = lists'[l]
    BY <1>1, ListsNext DEF ListInv, TypeInv, CourseTypeOK
  <1>3. /\ old.submitted \in Nat /\ new.submitted \in Nat /\ old.step \in Nat /\ new.step \in Nat
        /\ Len(old.decisions) \in Nat /\ Len(new.decisions) \in Nat
    BY ChainTyped
  <1>4. Awaited(x, old) /\ RowSound(old)
    BY <1>2, ListMoves DEF ListInv, ListsSound
  <1>5. old.status = "SUBMITTED" => Len(old.decisions) = old.submitted + (old.step - 1) /\ old.step >= 1
    BY <1>4, ChainTyped DEF RowSound, SignedUpTo
  <1>6. CASE new = old
    BY <1>2, <1>4, <1>6
  <1>7. CASE /\ old.status \in {"DRAFT", "RETURNED"} /\ new.status = "SUBMITTED"
             /\ new.decisions = old.decisions /\ new.submitted = Len(old.decisions)
    BY <1>2, <1>3, <1>4, <1>7 DEF Awaited
  <1>8. CASE /\ old.status = "SUBMITTED" /\ new.submitted = old.submitted
             /\ Len(new.decisions) = Len(old.decisions) + 1
             /\ \/ new.status \in {"RETURNED", "APPROVED"}
                \/ new.status = "SUBMITTED" /\ new.step = old.step + 1
    <2>1. CASE old.submitted > x.round
      BY <1>2, <1>3, <1>4, <1>8, <2>1 DEF Awaited
    <2>2. CASE old.submitted = x.round
      <3>1. old.step >= x.step
        BY <1>3, <1>4, <1>8, <2>2 DEF Awaited
      <3> QED
        BY <1>2, <1>3, <1>5, <1>8, <2>2, <3>1 DEF Awaited
    <2> QED
      BY <1>3, <1>4, <2>1, <2>2 DEF Awaited
  <1> QED
    BY <1>2, <1>6, <1>7, <1>8, ListMoves

\* A proposal shown for decision is as it was shown, or its status tells that it is not.
LEMMA UndecidedStays ==
    ASSUME TypeInv, CopiesOpen, CourseStep, NEW x, x.status \in Decidable, NEW p \in Proposals,
           proposals[p] # NoProposal, proposals[p].stale \/ Undecided(x, proposals[p])
    PROVE  proposals'[p].stale \/ Undecided(x, proposals'[p])
  <1> SUFFICES ASSUME ~proposals'[p].stale
               PROVE  Undecided(x, proposals'[p])
    OBVIOUS
  <1>0. proposals \in [Proposals -> {NoProposal} \cup Proposal] /\ Undecided(x, proposals[p])
    BY ProposalStays DEF TypeInv, CourseTypeOK
  <1>1. CASE proposals'[p] = proposals[p]
    BY <1>0, <1>1
  <1>2. ASSUME NEW q \in Proposals, NEW scholar \in Candidates, NEW semester \in Semesters,
               NEW course \in Electives \cup {NoElective}, Propose(q, scholar, semester, course)
        PROVE  proposals'[p] = proposals[p]
    BY <1>0, <1>2 DEF Propose
  <1>3. ASSUME NEW d \in Desks, WriteRecommendation(d) \/ WriteProposalDecision(d), proposals'[p] # proposals[p]
        PROVE  Undecided(x, proposals'[p])
    <2>1. PICK q \in Proposals, row \in Proposal :
              /\ proposals' = [proposals EXCEPT ![q] = row]
              /\ row.status = desk[d].status
              /\ ~row.stale => proposals[q] = desk[d].copy
      <3>1. \E q \in Proposals, row \in Proposal :
              /\ q = desk[d].id /\ proposals[q] \in Proposal
              /\ proposals' = [proposals EXCEPT ![q] = row]
              /\ row.status = desk[d].status
              /\ row.scholar = proposals[q].scholar /\ row.semester = proposals[q].semester
              /\ row.course = proposals[q].course
              /\ row.recommender = IF desk[d].op = "recommend" THEN desk[d].by ELSE proposals[q].recommender
              /\ row.decider = IF desk[d].op = "decide" THEN desk[d].by ELSE proposals[q].decider
              /\ ~row.stale => proposals[q] = desk[d].copy /\ ~proposals[q].stale
        BY <1>3, ProposalWritten
      <3> QED
        BY <3>1
    <2>2. q = p /\ proposals'[p] = row /\ proposals[p] = desk[d].copy
      BY <1>0, <1>3, <2>1
    <2>3. CASE WriteRecommendation(d)
      <3>1. desk[d].copy.status = "SUBMITTED" /\ desk[d].status \in {"RECOMMENDED", "NOT_RECOMMENDED"}
        BY <2>3, InHand DEF WriteRecommendation, CopiesOpen, TypeInv, CourseTypeOK
      <3>2. x.status = "SUBMITTED"
        BY <1>0, <2>2, <3>1 DEF Undecided
      <3> QED
        BY <2>1, <2>2, <3>1, <3>2 DEF Undecided
    <2>4. CASE WriteProposalDecision(d)
      <3>1. desk[d].status \in {"APPROVED", "REJECTED"}
        BY <2>4, InHand DEF WriteProposalDecision, TypeInv, CourseTypeOK
      <3> QED
        BY <2>1, <2>2, <3>1 DEF Undecided, Decidable
    <2> QED
      BY <1>3, <2>3, <2>4
  <1> QED
    BY <1>1, <1>2, <1>3, ProposalsChange

LEMMA OfferStays ==
    ASSUME RestsInv, CourseStep, NEW x, OfferRests(x)
    PROVE  OfferRests(x)'
  <1>1. x.offer = "decideList" => /\ lists'[x.id] # NoList
                                  /\ lists'[x.id].stale \/ Awaited(x, lists'[x.id])
    BY AwaitedStays DEF OfferRests, RestsInv
  <1>2. x.offer = "recommend" => /\ proposals'[x.id] # NoProposal
                                 /\ x.person \in SupervisedBy[proposals'[x.id].scholar]
    BY ProposalStays DEF OfferRests, RestsInv, ListInv
  <1>3. x.offer = "decide" => /\ proposals'[x.id] # NoProposal
                              /\ proposals'[x.id].stale \/ Undecided(x, proposals'[x.id])
    BY ProposalStays, UndecidedStays DEF OfferRests, RestsInv, ListInv
  <1> QED
    BY <1>1, <1>2, <1>3 DEF OfferRests, Awaited, Undecided, MayDecideList, MayDecideStep, DecisionsOf

ScreensStep ==
    \/ ScreensNext /\ UNCHANGED <<enrollmentVars, teachingVars, attendanceVars, examVars, transcriptVars>>
    \/ AcademicNext /\ UNCHANGED shown

\* What is sent from a tab is a request like any other.
LEMMA ScreensAreAcademic ==
    ASSUME OffersRest, [ScreensStep]_<<academicVars, shown>>
    PROVE  [AcademicNext]_academicVars
  <1> SUFFICES ASSUME ScreensNext, UNCHANGED <<enrollmentVars, teachingVars, attendanceVars, examVars, transcriptVars>>
               PROVE  [AcademicNext]_academicVars
    BY DEF ScreensStep, academicVars
  <1>1. ASSUME ElectiveNext
        PROVE  AcademicNext
    BY <1>1 DEF AcademicNext, CourseNext
  <1>2. ASSUME UNCHANGED <<electiveVars, desk>>
        PROVE  UNCHANGED academicVars
    BY <1>2 DEF academicVars
  <1>3. ASSUME NEW t \in Tabs, NEW d \in Desks, NEW positive \in BOOLEAN, Send(t, d, positive)
        PROVE  ElectiveNext
    <2>1. PICK x : x = shown[t]
      OBVIOUS
    <2>2. /\ x.offer \in {"submit", "decideList", "recommend", "decide"} /\ x.person \in Officers
          /\ x.offer \in {"submit", "decideList"} => x.id \in Lists
          /\ x.offer \in {"recommend", "decide"} => x.id \in Proposals
      BY <1>3, <2>1 DEF Send, OffersRest, OfferRests
    <2>3. \/ x.offer = "submit" /\ OpenSubmission(d, x.id)
          \/ x.offer = "decideList" /\ OpenListDecision(d, x.id, x.person, positive)
          \/ x.offer = "recommend" /\ OpenRecommendation(d, x.id, x.person, positive)
          \/ x.offer = "decide" /\ OpenProposalDecision(d, x.id, x.person, positive)
      BY <1>3, <2>1, <2>2 DEF Send
    <2> QED
      BY <2>2, <2>3 DEF ElectiveNext
  <1>4. ASSUME NEW d \in Desks, \/ WriteSubmission(d) \/ WriteListDecision(d)
                               \/ WriteRecommendation(d) \/ WriteProposalDecision(d)
        PROVE  ElectiveNext
    BY <1>4 DEF ElectiveNext
  <1> QED
    BY <1>1, <1>2, <1>3, <1>4 DEF ScreensNext, ShowList, ShowProposal, SendConflict

LEMMA TabsChange ==
    ASSUME OffersRest, [ScreensStep]_<<academicVars, shown>>
    PROVE  /\ shown' = [t \in Tabs |-> shown'[t]]
           /\ \A t \in Tabs :
                 \/ shown'[t] \in {shown[t], Blank}
                 \/ \E person \in Officers :
                       \/ \E l \in Lists : ShowList(t, person, l)
                       \/ \E p \in Proposals : ShowProposal(t, person, p)
  <1>0. shown = [t \in Tabs |-> shown[t]]
    BY DEF OffersRest
  <1>1. ASSUME NEW t \in Tabs, NEW x, shown' = [shown EXCEPT ![t] = x]
        PROVE  shown' = [u \in Tabs |-> shown'[u]] /\ shown'[t] = x /\ \A u \in Tabs \ {t} : shown'[u] = shown[u]
    BY <1>0, <1>1
  <1>2. ASSUME NEW t \in Tabs, NEW person \in Officers, NEW l \in Lists, ShowList(t, person, l)
        PROVE  \E x : shown' = [shown EXCEPT ![t] = x]
    BY <1>2 DEF ShowList
  <1>3. ASSUME NEW t \in Tabs, NEW person \in Officers, NEW p \in Proposals, ShowProposal(t, person, p)
        PROVE  \E x : shown' = [shown EXCEPT ![t] = x]
    BY <1>3 DEF ShowProposal
  <1>4. ASSUME NEW t \in Tabs, SendConflict(t) \/ \E d \in Desks, positive \in BOOLEAN : Send(t, d, positive)
        PROVE  shown' = [shown EXCEPT ![t] = Blank]
    BY <1>4 DEF SendConflict, Send
  <1>5. \/ shown' = shown
        \/ \E t \in Tabs : SendConflict(t) \/ \E d \in Desks, positive \in BOOLEAN : Send(t, d, positive)
        \/ \E t \in Tabs, person \in Officers :
              \/ \E l \in Lists : ShowList(t, person, l)
              \/ \E p \in Proposals : ShowProposal(t, person, p)
    BY DEF ScreensStep, ScreensNext
  <1>6. CASE shown' = shown
    BY <1>0, <1>6
  <1>7. ASSUME NEW t \in Tabs, SendConflict(t) \/ \E d \in Desks, positive \in BOOLEAN : Send(t, d, positive)
        PROVE  /\ shown' = [u \in Tabs |-> shown'[u]]
               /\ \A u \in Tabs : shown'[u] \in {shown[u], Blank}
    BY <1>1, <1>4, <1>7
  <1>8. ASSUME NEW t \in Tabs, NEW person \in Officers,
               \/ \E l \in Lists : ShowList(t, person, l)
               \/ \E p \in Proposals : ShowProposal(t, person, p)
        PROVE  shown' = [u \in Tabs |-> shown'[u]] /\ \A u \in Tabs \ {t} : shown'[u] = shown[u]
    BY <1>1, <1>2, <1>3, <1>8
  <1> QED
    BY <1>5, <1>6, <1>7, <1>8

LEMMA OffersShown ==
    ASSUME RestsInv, OffersRest, NEW t \in Tabs, NEW person \in Officers,
           \/ \E l \in Lists : ShowList(t, person, l)
           \/ \E p \in Proposals : ShowProposal(t, person, p)
    PROVE  OfferRests(shown'[t])
  <1>0. /\ shown = [u \in Tabs |-> shown[u]]
        /\ lists \in [Lists -> {NoList} \cup ElectiveList] /\ proposals \in [Proposals -> {NoProposal} \cup Proposal]
    BY DEF OffersRest, RestsInv, ListInv, TypeInv, CourseTypeOK
  <1>1. ASSUME NEW l \in Lists, ShowList(t, person, l)
        PROVE  OfferRests(shown'[t])
    <2>0. PICK x : x = shown'[t]
      OBVIOUS
    <2>1. PICK offer \in OffersOnList(person, lists[l]) :
             x = [offer |-> offer, person |-> person, id |-> l, status |-> lists[l].status,
                  step |-> lists[l].step, round |-> lists[l].submitted]
      BY <1>0, <1>1, <2>0 DEF ShowList
    <2>2. lists[l] \in ElectiveList /\ lists[l].step \in Nat /\ lists[l].submitted \in Nat
      BY <1>0, <1>1 DEF ShowList, ElectiveList
    <2>3. /\ x.offer = offer /\ x.person = person /\ x.id = l /\ x.status = lists[l].status
          /\ x.step = lists[l].step /\ x.round = lists[l].submitted
      BY <2>1
    <2>4. offer = "submit" => lists[l].status \in {"DRAFT", "RETURNED"}
      BY <2>1 DEF OffersOnList
    <2>5. ASSUME offer = "decideList"
          PROVE  lists[l].status = "SUBMITTED" /\ MayDecideList(person, lists[l])
      BY <1>1, <2>1, <2>5 DEF OffersOnList, OffersDecision, MayDecideList, MayDecideStep, ShowList, Displayable
    <2>6. offer = "decideList" => Awaited(x, lists[l])
      BY <2>2, <2>3, <2>5 DEF Awaited
    <2>7. offer \in {"submit", "decideList"} /\ lists[l] # NoList
      BY <1>1, <2>1 DEF OffersOnList, ShowList
    <2> QED
      BY <2>0, <2>2, <2>3, <2>4, <2>5, <2>6, <2>7 DEF OfferRests
  <1>2. ASSUME NEW p \in Proposals, ShowProposal(t, person, p)
        PROVE  OfferRests(shown'[t])
    <2>0. PICK x : x = shown'[t]
      OBVIOUS
    <2>1. PICK offer \in OffersOnProposal(person, proposals[p]) :
             x = [offer |-> offer, person |-> person, id |-> p, status |-> proposals[p].status]
      BY <1>0, <1>2, <2>0 DEF ShowProposal
    <2>2. x.offer = offer /\ x.person = person /\ x.id = p /\ x.status = proposals[p].status
      BY <2>1
    <2>3. /\ offer \in {"recommend", "decide"} /\ proposals[p] # NoProposal
          /\ offer = "recommend" => person \in SupervisedBy[proposals[p].scholar] /\ proposals[p].status = "SUBMITTED"
          /\ offer = "decide" => /\ person \in Authority \ {proposals[p].scholar, proposals[p].recommender}
                                 /\ proposals[p].status \in Decidable
      BY <1>2, <2>1 DEF OffersOnProposal, ShowProposal
    <2> QED
      BY <2>0, <2>2, <2>3 DEF OfferRests, Undecided
  <1> QED
    BY <1>1, <1>2

LEMMA OffersRestStay ==
    ASSUME RestsInv, OffersRest, CourseStep, [ScreensStep]_<<academicVars, shown>>
    PROVE  OffersRest'
  <1>1. OfferRests(Blank)
    BY DEF OfferRests, Blank
  <1>2. ASSUME NEW t \in Tabs
        PROVE  \E x : x = shown'[t] /\ OfferRests(x)
    <2>1. OfferRests(shown[t])
      BY DEF OffersRest
    <2> QED
      BY <1>1, <2>1, TabsChange, OffersShown
  <1>3. ASSUME NEW t \in Tabs
        PROVE  OfferRests(shown[t])'
    <2>1. PICK x : x = shown'[t] /\ OfferRests(x)
      BY <1>2
    <2>2. OfferRests(x)'
      BY <2>1, OfferStays
    <2> QED
      BY <2>1, <2>2 DEF OfferRests, Awaited, Undecided, MayDecideList, MayDecideStep, DecisionsOf
  <1> QED
    BY <1>3, TabsChange DEF OffersRest

LEMMA OffersTold == RestsInv /\ OffersRest => OffersHold
  <1> SUFFICES ASSUME RestsInv, OffersRest
               PROVE  OffersHold
    OBVIOUS
  <1>0. lists \in [Lists -> {NoList} \cup ElectiveList] /\ ListsSound
    BY DEF RestsInv, ListInv, TypeInv, CourseTypeOK
  <1>1. ASSUME NEW t \in OnLists, AsShown(t), ~Overwritten(t)
        PROVE  Accepted(t)
    <2>1. PICK x : x = shown[t]
      OBVIOUS
    <2>2. t \in Tabs /\ OfferRests(x) /\ x.offer \in {"submit", "decideList"} /\ t \notin OnProposals
      BY <1>1, <2>1 DEF OnLists, OnProposals, OffersRest
    <2>3. /\ lists[x.id].status = x.status
          /\ x.offer = "decideList" => lists[x.id].step = x.step
          /\ ~lists[x.id].stale /\ lists[x.id].submitted = x.round
      BY <1>1, <2>1, <2>2 DEF AsShown, Overwritten
    <2>4. CASE x.offer = "submit"
      BY <2>1, <2>2, <2>3, <2>4 DEF OfferRests, Accepted
    <2>5. CASE x.offer = "decideList"
      <3>1. Awaited(x, lists[x.id]) /\ lists[x.id] \in ElectiveList /\ x.round \in Nat /\ x.step \in Nat
        BY <1>0, <2>2, <2>3, <2>5 DEF OfferRests
      <3>2. lists[x.id].status = "SUBMITTED"
        BY <2>2, <2>3, <2>5 DEF OfferRests
      <3>3. ~(lists[x.id].submitted > x.round) /\ ~(lists[x.id].step > x.step)
        BY <2>3, <2>5, <3>1 DEF ElectiveList
      <3>4. MayDecideList(x.person, lists[x.id])
        BY <3>1, <3>2, <3>3 DEF Awaited
      <3> QED
        BY <2>1, <2>5, <3>2, <3>4 DEF Accepted
    <2> QED
      BY <2>2, <2>4, <2>5
  <1>2. ASSUME NEW t \in OnProposals, AsShown(t), ~Overwritten(t)
        PROVE  Accepted(t)
    <2>1. PICK x : x = shown[t]
      OBVIOUS
    <2>2. t \in Tabs /\ OfferRests(x) /\ x.offer \in {"recommend", "decide"}
      BY <1>2, <2>1 DEF OnProposals, OffersRest
    <2>3. proposals[x.id].status = x.status /\ ~proposals[x.id].stale
      BY <1>2, <2>1 DEF AsShown, Overwritten
    <2>4. CASE x.offer = "recommend"
      BY <2>1, <2>2, <2>3, <2>4 DEF OfferRests, Accepted
    <2>5. CASE x.offer = "decide"
      BY <2>1, <2>2, <2>3, <2>5 DEF OfferRests, Accepted, Undecided, MayDecideProposal
    <2> QED
      BY <2>2, <2>4, <2>5
  <1>3. ASSUME NEW l \in Lists, NEW person \in Officers,
               lists[l] # NoList, ~lists[l].stale, lists[l].status = "SUBMITTED"
        PROVE  /\ Displayable \/ \E k \in Lists : lists[k] # NoList /\ lists[k].stale
               /\ MayDecideList(person, lists[l]) => OffersDecision(person, lists[l])
    <2>1. Displayable \/ \E k \in Lists : lists[k] # NoList /\ lists[k].stale
      BY <1>0 DEF Displayable, ListsSound, RowSound, NoList
    <2>2. MayDecideList(person, lists[l]) => OffersDecision(person, lists[l])
      BY <1>3 DEF OffersDecision, MayDecideList, MayDecideStep
    <2> QED
      BY <2>1, <2>2
  <1> QED
    BY <1>1, <1>2, <1>3 DEF OffersHold

\* However long a tab stays open and whatever the offices do meanwhile, what it offers is a conflict or is
\* accepted, unless the list was submitted again or a request wrote over another; and whoever may decide
\* a list is offered to.
THEOREM OffersStayHeld == ScreensSpec => []OffersHold
  <1> DEFINE Inv == SemesterInv /\ RestsInv /\ OffersRest
  <1>1. AcademicInit /\ ScreensInit => Inv
    BY SemesterInit, RestsInit DEF AcademicInit, ScreensInit, OffersRest, OfferRests, Blank
  <1>2. Inv /\ [ScreensStep]_<<academicVars, shown>> => Inv'
    BY ScreensAreAcademic, SemesterNext, RestsNext, OffersRestStay
  <1> QED
    BY <1>1, <1>2, OffersTold, PTL DEF ScreensSpec, ScreensStep

-----------------------------------------------------------------------------
(* Imports of the same row *)

FirstWith(kept, code) == kept[Earliest(WithCode(kept, code))]

FirstOf(kept, mail) == kept[Earliest(WithMail(kept, mail))]

Grown(kept, longer) == longer = kept \/ \E x : longer = Append(kept, x)

Typed(tables) ==
    \E A, B, C, D, E :
       tables \in [schools : Seq(A), departments : Seq(B), courses : Seq(C), faculty : Seq(D), scholars : Seq(E)]

TablesGrown(tables, longer) ==
    /\ Grown(tables.schools, longer.schools) /\ Grown(tables.departments, longer.departments)
    /\ Grown(tables.courses, longer.courses) /\ Grown(tables.faculty, longer.faculty)
    /\ Grown(tables.scholars, longer.scholars)

\* The record an imported row is compared with is the one it made.
Repeated(i, tables, there, known) ==
    LET row == i.row
    IN  /\ row \in ImportRows
        /\ row.type = "structure" =>
              /\ WithCode(tables.departments, row.code) # {} /\ WithCode(tables.schools, row.school) # {}
              /\ SameCode(FirstWith(tables.departments, row.code).school, row.school)
              /\ FirstWith(tables.departments, row.code).name = row.name
              /\ row.schoolName # NoText => FirstWith(tables.schools, row.school).name = row.schoolName
        /\ row.type = "courses" =>
              /\ WithCode(tables.courses, row.code) # {}
              /\ FirstWith(tables.courses, row.code).details = row.details
        /\ row.type = "faculty" =>
              /\ WithMail(tables.faculty, row.mail) # {}
              /\ FirstOf(tables.faculty, row.mail).name = row.name
              /\ FirstOf(tables.faculty, row.mail).department = i.referred
        /\ row.type = "scholars" =>
              /\ WithCode(tables.scholars, row.code) # {}
              /\ FirstWith(tables.scholars, row.code).mail = row.mail
              /\ FirstWith(tables.scholars, row.code).name = row.name
        /\ row.type = "enrollments" => row.offering \in known /\ <<row.scholar, row.offering>> \in there
        /\ row.type = "assignments" => row.offering \in known

Enrolled == {row \in Rows : enrollments[row] # NotEnrolled}

ImportedRepeat ==
    /\ Typed(institution)
    /\ \A i \in imported : Repeated(i, institution, Enrolled, offered)

\* The earliest of a set of indices is its least.
LEMMA EarliestIs ==
    ASSUME NEW S, S \subseteq Nat, S # {}
    PROVE  Earliest(S) \in S /\ \A j \in S : Earliest(S) <= j
  <1> DEFINE Less == {ss \in Nat \X Nat : ss[1] < ss[2]}
  <1>1. IsWellFoundedOn(Less, Nat)
    BY NatLessThanWellFounded DEF OpToRel
  <1>2. PICK m \in S : \A j \in S : ~(<<j, m>> \in Less)
    <2> HIDE DEF Less
    <2> QED
      BY <1>1, WFMin
  <1>3. ASSUME NEW j \in S
        PROVE  m <= j
    <2>1. j \in Nat /\ m \in Nat /\ ~(<<j, m>> \in Less)
      BY <1>2
    <2>2. ~(j < m)
      BY <2>1
    <2> QED
      BY <2>1, <2>2
  <1> QED
    BY <1>3 DEF Earliest

\* Indices added later leave the earliest as it is.
LEMMA EarliestStays ==
    ASSUME NEW n \in Nat, NEW S, S \subseteq 1 .. n, S # {}, NEW T, S \subseteq T, T \subseteq S \cup {n + 1}
    PROVE  Earliest(T) = Earliest(S) /\ Earliest(S) \in S
  <1>1. S \subseteq Nat /\ T \subseteq Nat /\ T # {}
    <2>1. 1 .. n \subseteq Nat /\ n + 1 \in Nat
      OBVIOUS
    <2> QED
      BY <2>1
  <1>2. PICK s, t : s = Earliest(S) /\ t = Earliest(T)
    OBVIOUS
  <1>3. s \in S /\ (\A j \in S : s <= j) /\ t \in T /\ \A j \in T : t <= j
    BY <1>1, <1>2, EarliestIs
  <1>4. t <= s /\ s \in 1 .. n
    BY <1>3
  <1>5. t \in S
    BY <1>3, <1>4
  <1>6. s <= t /\ s \in Nat /\ t \in Nat
    BY <1>1, <1>3, <1>5
  <1> QED
    BY <1>2, <1>3, <1>4, <1>6

LEMMA Appended ==
    ASSUME NEW S, NEW kept \in Seq(S), NEW x
    PROVE  /\ Append(kept, x) \in Seq(S \cup {x})
           /\ Len(kept) \in Nat /\ DOMAIN kept = 1 .. Len(kept)
           /\ DOMAIN Append(kept, x) = 1 .. (Len(kept) + 1)
           /\ Append(kept, x)[Len(kept) + 1] = x
           /\ \A i \in 1 .. Len(kept) : Append(kept, x)[i] = kept[i]
  <1>1. kept \in Seq(S \cup {x})
    BY SeqMonotonic
  <1> QED
    BY <1>1

\* What was first with a code or an address stays so when others are added.
LEMMA FirstStays ==
    ASSUME NEW S, NEW kept \in Seq(S), NEW longer, Grown(kept, longer), NEW key
    PROVE  /\ WithCode(kept, key) # {} =>
                 WithCode(longer, key) # {} /\ FirstWith(longer, key) = FirstWith(kept, key)
           /\ WithMail(kept, key) # {} =>
                 WithMail(longer, key) # {} /\ FirstOf(longer, key) = FirstOf(kept, key)
  <1>1. CASE longer = kept
    BY <1>1
  <1>2. ASSUME NEW x, longer = Append(kept, x)
        PROVE  /\ WithCode(kept, key) # {} =>
                     WithCode(longer, key) # {} /\ FirstWith(longer, key) = FirstWith(kept, key)
               /\ WithMail(kept, key) # {} =>
                     WithMail(longer, key) # {} /\ FirstOf(longer, key) = FirstOf(kept, key)
    <2> DEFINE n == Len(kept)
    <2>1. /\ n \in Nat /\ DOMAIN kept = 1 .. n /\ DOMAIN longer = 1 .. (n + 1)
          /\ \A i \in 1 .. n : longer[i] = kept[i]
      BY <1>2, Appended
    <2> HIDE DEF n
    <2>2. /\ WithCode(kept, key) \subseteq 1 .. n /\ WithCode(kept, key) \subseteq WithCode(longer, key)
          /\ WithCode(longer, key) \subseteq WithCode(kept, key) \cup {n + 1}
      BY <2>1 DEF WithCode
    <2>3. /\ WithMail(kept, key) \subseteq 1 .. n /\ WithMail(kept, key) \subseteq WithMail(longer, key)
          /\ WithMail(longer, key) \subseteq WithMail(kept, key) \cup {n + 1}
      BY <2>1 DEF WithMail
    <2>4. ASSUME WithCode(kept, key) # {}
          PROVE  WithCode(longer, key) # {} /\ FirstWith(longer, key) = FirstWith(kept, key)
      <3>1. Earliest(WithCode(longer, key)) = Earliest(WithCode(kept, key)) /\ Earliest(WithCode(kept, key)) \in 1 .. n
        BY <2>1, <2>2, <2>4, EarliestStays
      <3> QED
        BY <2>1, <2>2, <2>4, <3>1 DEF FirstWith
    <2>5. ASSUME WithMail(kept, key) # {}
          PROVE  WithMail(longer, key) # {} /\ FirstOf(longer, key) = FirstOf(kept, key)
      <3>1. Earliest(WithMail(longer, key)) = Earliest(WithMail(kept, key)) /\ Earliest(WithMail(kept, key)) \in 1 .. n
        BY <2>1, <2>3, <2>5, EarliestStays
      <3> QED
        BY <2>1, <2>3, <2>5, <3>1 DEF FirstOf
    <2> QED
      BY <2>4, <2>5
  <1> QED
    BY <1>1, <1>2 DEF Grown

\* What is added where there was none with its code or address is the first.
LEMMA FirstNew ==
    ASSUME NEW S, NEW kept \in Seq(S), NEW x, NEW key
    PROVE  /\ WithCode(kept, key) = {} /\ SameCode(x.code, key) =>
                 WithCode(Append(kept, x), key) # {} /\ FirstWith(Append(kept, x), key) = x
           /\ WithMail(kept, key) = {} /\ x.mail = key =>
                 WithMail(Append(kept, x), key) # {} /\ FirstOf(Append(kept, x), key) = x
  <1> DEFINE n == Len(kept)
             longer == Append(kept, x)
  <1>1. /\ n \in Nat /\ DOMAIN kept = 1 .. n /\ DOMAIN longer = 1 .. (n + 1)
        /\ longer[n + 1] = x
        /\ \A i \in 1 .. n : longer[i] = kept[i]
    BY Appended
  <1> HIDE DEF n, longer
  <1>2. ASSUME WithCode(kept, key) = {}, SameCode(x.code, key)
        PROVE  WithCode(longer, key) = {n + 1}
    BY <1>1, <1>2 DEF WithCode
  <1>3. ASSUME WithMail(kept, key) = {}, x.mail = key
        PROVE  WithMail(longer, key) = {n + 1}
    BY <1>1, <1>3 DEF WithMail
  <1>4. Earliest({n + 1}) = n + 1
    <2>1. {n + 1} \subseteq Nat /\ {n + 1} # {}
      BY <1>1
    <2>2. Earliest({n + 1}) \in {n + 1}
      BY <2>1, EarliestIs
    <2> QED
      BY <2>2
  <1>5. /\ WithCode(kept, key) = {} /\ SameCode(x.code, key) =>
              WithCode(longer, key) # {} /\ FirstWith(longer, key) = x
        /\ WithMail(kept, key) = {} /\ x.mail = key =>
              WithMail(longer, key) # {} /\ FirstOf(longer, key) = x
    BY <1>1, <1>2, <1>3, <1>4 DEF FirstWith, FirstOf
  <1> QED
    BY <1>5 DEF longer

LEMMA FirstOfCode ==
    ASSUME NEW S, NEW kept \in Seq(S), NEW x, NEW key, WithCode(kept, key) = {}, SameCode(x.code, key)
    PROVE  WithCode(Append(kept, x), key) # {} /\ FirstWith(Append(kept, x), key) = x
  BY FirstNew

LEMMA FirstOfMail ==
    ASSUME NEW S, NEW kept \in Seq(S), NEW x, WithMail(kept, x.mail) = {}
    PROVE  WithMail(Append(kept, x), x.mail) # {} /\ FirstOf(Append(kept, x), x.mail) = x
  BY FirstNew

\* A row adds to each table at most one record, at its end.
LEMMA CreatedGrows ==
    ASSUME Typed(institution), NEW row
    PROVE  Typed(Created(row)) /\ TablesGrown(institution, Created(row))
  <1>1. PICK A, B, C, D, E : institution \in [schools : Seq(A), departments : Seq(B), courses : Seq(C),
                                              faculty : Seq(D), scholars : Seq(E)]
    BY DEF Typed
  <1> DEFINE Longer(tables) == Typed(tables) /\ TablesGrown(institution, tables)
  <1>2. ASSUME NEW schools, NEW departments, NEW courses, NEW faculty, NEW scholars,
               Grown(Schools, schools), Grown(Departments, departments), Grown(institution.courses, courses),
               Grown(institution.faculty, faculty), Grown(institution.scholars, scholars),
               NEW tables, tables = [schools |-> schools, departments |-> departments, courses |-> courses,
                                     faculty |-> faculty, scholars |-> scholars]
        PROVE  Longer(tables)
    <2>1. ASSUME NEW S, NEW kept \in Seq(S), NEW longer, Grown(kept, longer)
          PROVE  \E T : longer \in Seq(T)
      <3>1. CASE longer = kept
        BY <3>1
      <3>2. ASSUME NEW x, longer = Append(kept, x)
            PROVE  longer \in Seq(S \cup {x})
        BY <3>2, Appended
      <3> QED
        BY <2>1, <3>1, <3>2 DEF Grown
    <2>2. /\ \E S : schools \in Seq(S)
          /\ \E S : departments \in Seq(S)
          /\ \E S : courses \in Seq(S)
          /\ \E S : faculty \in Seq(S)
          /\ \E S : scholars \in Seq(S)
      BY <1>1, <1>2, <2>1 DEF Schools, Departments
    <2>3. Typed(tables)
      BY <1>2, <2>2 DEF Typed
    <2>4. TablesGrown(institution, tables)
      BY <1>2 DEF TablesGrown, Schools, Departments
    <2> QED
      BY <2>3, <2>4
  <1>3. institution = [schools |-> Schools, departments |-> Departments, courses |-> institution.courses,
                       faculty |-> institution.faculty, scholars |-> institution.scholars]
    BY <1>1 DEF Schools, Departments
  <1>4. \A kept : Grown(kept, kept) /\ \A x : Grown(kept, Append(kept, x))
    BY DEF Grown
  <1>5. Longer(institution)
    BY <1>2, <1>3, <1>4
  <1> HIDE DEF Longer
  <1>6. CASE row.type = "structure"
    <2>1. Grown(Schools, NewSchools(row))
      BY <1>4 DEF NewSchools
    <2>2. Created(row) = [schools |-> NewSchools(row), departments |-> Append(Departments, NewDepartment(row)),
                          courses |-> institution.courses, faculty |-> institution.faculty,
                          scholars |-> institution.scholars]
      BY <1>1, <1>6 DEF Created, Departments
    <2> QED
      BY <1>2, <1>4, <2>1, <2>2 DEF Longer
  <1>7. CASE row.type = "school"
    <2> DEFINE x == [code |-> row.code, name |-> row.name]
    <2>1. Created(row) = [institution EXCEPT !.schools = Append(@, x)]
      BY <1>7 DEF Created
    <2> HIDE DEF x
    <2>2. Created(row) = [schools |-> Append(Schools, x), departments |-> Departments, courses |-> institution.courses,
                          faculty |-> institution.faculty, scholars |-> institution.scholars]
      BY <1>1, <2>1 DEF Schools, Departments
    <2> QED
      BY <1>2, <1>4, <2>2 DEF Longer
  <1>8. CASE row.type = "department"
    <2>1. Created(row) = [schools |-> Schools, departments |-> Append(Departments, NewDepartment(row)),
                          courses |-> institution.courses, faculty |-> institution.faculty,
                          scholars |-> institution.scholars]
      BY <1>1, <1>8 DEF Created, Schools, Departments
    <2> QED
      BY <1>2, <1>4, <2>1 DEF Longer
  <1>9. CASE row.type = "courses"
    <2> DEFINE x == [code |-> row.code, details |-> row.details]
    <2>1. Created(row) = [institution EXCEPT !.courses = Append(@, x)]
      BY <1>9 DEF Created
    <2> HIDE DEF x
    <2>2. Created(row) = [schools |-> Schools, departments |-> Departments, courses |-> Append(institution.courses, x),
                          faculty |-> institution.faculty, scholars |-> institution.scholars]
      BY <1>1, <2>1 DEF Schools, Departments
    <2> QED
      BY <1>2, <1>4, <2>2 DEF Longer
  <1>10. CASE row.type = "faculty"
    <2> DEFINE x == [mail |-> row.mail, name |-> row.name, department |-> ReferredTo(row)]
    <2>1. Created(row) = [institution EXCEPT !.faculty = Append(@, x)]
      BY <1>10 DEF Created
    <2> HIDE DEF x
    <2>2. Created(row) = [schools |-> Schools, departments |-> Departments, courses |-> institution.courses,
                          faculty |-> Append(institution.faculty, x), scholars |-> institution.scholars]
      BY <1>1, <2>1 DEF Schools, Departments
    <2> QED
      BY <1>2, <1>4, <2>2 DEF Longer
  <1>11. CASE row.type = "scholars"
    <2> DEFINE x == [code |-> row.code, mail |-> row.mail, name |-> row.name]
    <2>1. Created(row) = [institution EXCEPT !.scholars = Append(@, x)]
      BY <1>11 DEF Created
    <2> HIDE DEF x
    <2>2. Created(row) = [schools |-> Schools, departments |-> Departments, courses |-> institution.courses,
                          faculty |-> institution.faculty, scholars |-> Append(institution.scholars, x)]
      BY <1>1, <2>1 DEF Schools, Departments
    <2> QED
      BY <1>2, <1>4, <2>2 DEF Longer
  <1>12. CASE row.type \notin {"structure", "school", "department", "courses", "faculty", "scholars"}
    <2>1. Created(row) = institution
      BY <1>12 DEF Created
    <2> QED
      BY <1>5, <2>1 DEF Longer
  <1> QED
    BY <1>6, <1>7, <1>8, <1>9, <1>10, <1>11, <1>12

\* A record made by an import stays the first of its key.
LEMMA RepeatedStays ==
    ASSUME NEW i, NEW tables, Typed(tables), NEW there, NEW known, Repeated(i, tables, there, known),
           NEW longer, TablesGrown(tables, longer), NEW more, there \subseteq more, NEW all, known \subseteq all
    PROVE  Repeated(i, longer, more, all)
  <1>1. PICK A, B, C, D, E : tables \in [schools : Seq(A), departments : Seq(B), courses : Seq(C),
                                         faculty : Seq(D), scholars : Seq(E)]
    BY DEF Typed
  <1>2. /\ tables.schools \in Seq(A) /\ tables.departments \in Seq(B) /\ tables.courses \in Seq(C)
        /\ tables.faculty \in Seq(D) /\ tables.scholars \in Seq(E)
    BY <1>1
  <1> DEFINE row == i.row
  <1>3. \A key : WithCode(tables.schools, key) # {} =>
           WithCode(longer.schools, key) # {} /\ FirstWith(longer.schools, key) = FirstWith(tables.schools, key)
    BY <1>2, FirstStays DEF TablesGrown
  <1>4. \A key : WithCode(tables.departments, key) # {} =>
           WithCode(longer.departments, key) # {}
           /\ FirstWith(longer.departments, key) = FirstWith(tables.departments, key)
    BY <1>2, FirstStays DEF TablesGrown
  <1>5. \A key : WithCode(tables.courses, key) # {} =>
           WithCode(longer.courses, key) # {} /\ FirstWith(longer.courses, key) = FirstWith(tables.courses, key)
    BY <1>2, FirstStays DEF TablesGrown
  <1>6. \A key : WithMail(tables.faculty, key) # {} =>
           WithMail(longer.faculty, key) # {} /\ FirstOf(longer.faculty, key) = FirstOf(tables.faculty, key)
    BY <1>2, FirstStays DEF TablesGrown
  <1>7. \A key : WithCode(tables.scholars, key) # {} =>
           WithCode(longer.scholars, key) # {} /\ FirstWith(longer.scholars, key) = FirstWith(tables.scholars, key)
    BY <1>2, FirstStays DEF TablesGrown
  <1>8. row.type = "structure" =>
              /\ WithCode(longer.departments, row.code) # {} /\ WithCode(longer.schools, row.school) # {}
              /\ SameCode(FirstWith(longer.departments, row.code).school, row.school)
              /\ FirstWith(longer.departments, row.code).name = row.name
              /\ row.schoolName # NoText => FirstWith(longer.schools, row.school).name = row.schoolName
    BY <1>3, <1>4 DEF Repeated
  <1>9. row.type = "courses" =>
              /\ WithCode(longer.courses, row.code) # {}
              /\ FirstWith(longer.courses, row.code).details = row.details
    BY <1>5 DEF Repeated
  <1>10. row.type = "faculty" =>
              /\ WithMail(longer.faculty, row.mail) # {}
              /\ FirstOf(longer.faculty, row.mail).name = row.name
              /\ FirstOf(longer.faculty, row.mail).department = i.referred
    BY <1>6 DEF Repeated
  <1>11. row.type = "scholars" =>
              /\ WithCode(longer.scholars, row.code) # {}
              /\ FirstWith(longer.scholars, row.code).mail = row.mail
              /\ FirstWith(longer.scholars, row.code).name = row.name
    BY <1>7 DEF Repeated
  <1>12. row \in ImportRows
         /\ (row.type = "enrollments" => row.offering \in all /\ <<row.scholar, row.offering>> \in more)
         /\ (row.type = "assignments" => row.offering \in all)
    BY DEF Repeated
  <1> QED
    BY <1>8, <1>9, <1>10, <1>11, <1>12 DEF Repeated

LEMMA ValidIs ==
    ASSUME NEW row, Outcome(row) = "VALID"
    PROVE  Refers(row) = "VALID" /\ Existing(row) = "VALID" /\ MayCreate(row)
  BY DEF Outcome

\* A row that is imported makes the record it would be compared with.
LEMMA ImportedIs ==
    ASSUME TypeInv, Typed(institution), NEW row \in ImportRows, ImportRow(row)
    PROVE  Repeated([row |-> row, referred |-> ReferredTo(row)], institution', Enrolled', offered')
  <1>0. /\ Refers(row) = "VALID" /\ Existing(row) = "VALID" /\ MayCreate(row)
        /\ institution' = Created(row) /\ offered' = offered
    BY ValidIs DEF ImportRow, Apply
  <1>1. PICK A, B, C, D, E : institution \in [schools : Seq(A), departments : Seq(B), courses : Seq(C),
                                              faculty : Seq(D), scholars : Seq(E)]
    BY DEF Typed
  <1>2. /\ Schools \in Seq(A) /\ Departments \in Seq(B) /\ institution.courses \in Seq(C)
        /\ institution.faculty \in Seq(D) /\ institution.scholars \in Seq(E)
    BY <1>1 DEF Schools, Departments
  <1>3. SameCode(row.code, row.code) /\ SameCode(row.school, row.school)
    BY DEF SameCode
  <1>4. ASSUME row.type = "structure"
        PROVE  /\ WithCode(institution'.departments, row.code) # {} /\ WithCode(institution'.schools, row.school) # {}
               /\ SameCode(FirstWith(institution'.departments, row.code).school, row.school)
               /\ FirstWith(institution'.departments, row.code).name = row.name
               /\ row.schoolName # NoText => FirstWith(institution'.schools, row.school).name = row.schoolName
    <2> DEFINE x == NewDepartment(row)
               y == [code |-> row.school, name |-> row.schoolName]
    <2>1. institution'.departments = Append(Departments, x) /\ institution'.schools = NewSchools(row)
      BY <1>0, <1>1, <1>4 DEF Created, Departments
    <2>2. ExistingDepartment(row) = "VALID"
      BY <1>0, <1>4 DEF Existing
    <2>3. /\ WithCode(Departments, row.code) = {}
          /\ row.schoolName # NoText /\ WithCode(Schools, row.school) # {} =>
                FirstWith(Schools, row.school).name = row.schoolName
      BY <2>2 DEF ExistingDepartment, Repeats, FirstWith
    <2>4. x.code = row.code /\ x.name = row.name /\ x.school = SchoolFor(row)
      BY DEF NewDepartment
    <2>5. y.code = row.school /\ y.name = row.schoolName
      OBVIOUS
    <2>6. SameCode(SchoolFor(row), row.school)
      <3>1. CASE WithCode(Schools, row.school) = {}
        BY <1>3, <3>1 DEF SchoolFor
      <3>2. CASE WithCode(Schools, row.school) # {}
        <4>1. WithCode(Schools, row.school) \subseteq Nat
          BY <1>2, Appended DEF WithCode
        <4>2. Earliest(WithCode(Schools, row.school)) \in WithCode(Schools, row.school)
          BY <3>2, <4>1, EarliestIs
        <4>3. SchoolFor(row) = Schools[Earliest(WithCode(Schools, row.school))].code
          BY <1>4, <3>2 DEF SchoolFor
        <4> QED
          BY <4>2, <4>3 DEF WithCode
      <3> QED
        BY <3>1, <3>2
    <2> HIDE DEF x, y
    <2>7. WithCode(institution'.departments, row.code) # {} /\ FirstWith(institution'.departments, row.code) = x
      <3>1. SameCode(x.code, row.code) /\ Departments \in Seq(B) /\ WithCode(Departments, row.code) = {}
        BY <1>2, <1>3, <2>3, <2>4
      <3>2. WithCode(Append(Departments, x), row.code) # {} /\ FirstWith(Append(Departments, x), row.code) = x
        BY <3>1, FirstOfCode
      <3> QED
        BY <2>1, <3>2
    <2>8. CASE WithCode(Schools, row.school) # {}
      BY <2>1, <2>3, <2>4, <2>6, <2>7, <2>8 DEF NewSchools
    <2>9. CASE WithCode(Schools, row.school) = {}
      <3>1. institution'.schools = Append(Schools, y)
        BY <2>1, <2>9 DEF NewSchools, y
      <3>2. WithCode(institution'.schools, row.school) # {} /\ FirstWith(institution'.schools, row.school) = y
        BY <1>2, <1>3, <2>5, <2>9, <3>1, FirstOfCode
      <3> QED
        BY <2>4, <2>5, <2>6, <2>7, <3>2
    <2> QED
      BY <2>8, <2>9
  <1>5. ASSUME row.type = "courses"
        PROVE  /\ WithCode(institution'.courses, row.code) # {}
               /\ FirstWith(institution'.courses, row.code).details = row.details
    <2> DEFINE x == [code |-> row.code, details |-> row.details]
    <2>1. institution'.courses = Append(institution.courses, x)
      BY <1>0, <1>1, <1>5 DEF Created
    <2>2. WithCode(institution.courses, row.code) = {}
      BY <1>0, <1>5 DEF Existing, ExistingCourse, Repeats
    <2>3. x.code = row.code /\ x.details = row.details
      OBVIOUS
    <2> HIDE DEF x
    <2>4. WithCode(Append(institution.courses, x), row.code) # {} /\ FirstWith(Append(institution.courses, x), row.code) = x
      <3>1. institution.courses \in Seq(C) /\ SameCode(x.code, row.code)
        BY <1>2, <1>3, <2>3
      <3> QED
        BY <2>2, <3>1, FirstOfCode
    <2> QED
      BY <2>1, <2>3, <2>4
  <1>6. ASSUME row.type = "faculty"
        PROVE  /\ WithMail(institution'.faculty, row.mail) # {}
               /\ FirstOf(institution'.faculty, row.mail).name = row.name
               /\ FirstOf(institution'.faculty, row.mail).department = ReferredTo(row)
    <2> DEFINE x == [mail |-> row.mail, name |-> row.name, department |-> ReferredTo(row)]
    <2>1. institution'.faculty = Append(institution.faculty, x)
      BY <1>0, <1>1, <1>6 DEF Created
    <2>2. WithMail(institution.faculty, row.mail) = {}
      BY <1>0, <1>6 DEF Existing, ExistingFaculty, Repeats
    <2>3. x.mail = row.mail /\ x.name = row.name /\ x.department = ReferredTo(row)
      OBVIOUS
    <2> HIDE DEF x
    <2>4. WithMail(Append(institution.faculty, x), x.mail) # {} /\ FirstOf(Append(institution.faculty, x), x.mail) = x
      <3>1. institution.faculty \in Seq(D) /\ WithMail(institution.faculty, x.mail) = {}
        BY <1>2, <2>2, <2>3
      <3> QED
        BY <3>1, FirstOfMail
    <2> QED
      BY <2>1, <2>3, <2>4
  <1>7. ASSUME row.type = "scholars"
        PROVE  /\ WithCode(institution'.scholars, row.code) # {}
               /\ FirstWith(institution'.scholars, row.code).mail = row.mail
               /\ FirstWith(institution'.scholars, row.code).name = row.name
    <2> DEFINE x == [code |-> row.code, mail |-> row.mail, name |-> row.name]
    <2>1. institution'.scholars = Append(institution.scholars, x)
      BY <1>0, <1>1, <1>7 DEF Created
    <2>2. WithCode(institution.scholars, row.code) = {}
      BY <1>0, <1>7 DEF Existing, ExistingScholar, Repeats
    <2>3. x.code = row.code /\ x.mail = row.mail /\ x.name = row.name
      OBVIOUS
    <2> HIDE DEF x
    <2>4. WithCode(Append(institution.scholars, x), row.code) # {} /\ FirstWith(Append(institution.scholars, x), row.code) = x
      <3>1. institution.scholars \in Seq(E) /\ SameCode(x.code, row.code)
        BY <1>2, <1>3, <2>3
      <3> QED
        BY <2>2, <3>1, FirstOfCode
    <2> QED
      BY <2>1, <2>3, <2>4
  <1>8. ASSUME row.type = "enrollments"
        PROVE  row.offering \in offered' /\ <<row.scholar, row.offering>> \in Enrolled'
    <2>1. row.offering \in offered
      BY <1>0, <1>8 DEF Refers
    <2>2. <<row.scholar, row.offering>> \in Rows
      BY <1>8, ImportRowAssumption DEF Rows
    <2>3. PICK p : enrollments' = [enrollments EXCEPT ![<<row.scholar, row.offering>>] = NewEnrollment(row.section, p)]
      BY <1>8 DEF ImportRow, Apply
    <2>4. enrollments'[<<row.scholar, row.offering>>].status = "ENROLLED"
      BY <2>2, <2>3 DEF TypeInv, CourseTypeOK, NewEnrollment
    <2>5. enrollments'[<<row.scholar, row.offering>>] # NotEnrolled
      BY <2>4 DEF NotEnrolled
    <2> QED
      BY <1>0, <2>1, <2>2, <2>5 DEF Enrolled
  <1>9. ASSUME row.type = "assignments"
        PROVE  row.offering \in offered'
    BY <1>0, <1>9 DEF Refers
  <1> DEFINE i == [row |-> row, referred |-> ReferredTo(row)]
  <1>10. i.row = row /\ i.referred = ReferredTo(row)
    OBVIOUS
  <1> HIDE DEF i
  <1>11. Repeated(i, institution', Enrolled', offered')
    BY <1>4, <1>5, <1>6, <1>7, <1>8, <1>9, <1>10 DEF Repeated
  <1> QED
    BY <1>11 DEF i

RecordsStep ==
    \/ RecordsNext /\ UNCHANGED <<attendanceVars, examVars, transcriptVars>>
    \/ AcademicNext /\ UNCHANGED importVars

\* What a row writes besides the records of its kind: at most an enrollment where there was none, and
\* an assignment.
LEMMA RowWrites ==
    ASSUME TypeInv, TeachingTypeOK, RecordsNext
    PROVE  /\ UNCHANGED <<day, schemes, marked, active, windows, cleared, registered, offered, hurried, electiveVars, desk>>
           /\ assigned' \subseteq Posting
           /\ \/ enrollments' = enrollments
              \/ \E k \in Rows, new \in EnrollmentRow :
                    enrollments[k] = NotEnrolled /\ enrollments' = [enrollments EXCEPT ![k] = new]
  <1>0. /\ enrollments \in [Rows -> {NotEnrolled} \cup EnrollmentRow] /\ assigned \subseteq Posting /\ day \in Nat
        /\ 0 .. LastDay \subseteq Nat
    BY TeachingAssumption DEF TypeInv, CourseTypeOK, TeachingTypeOK
  <1>1. PICK row : /\ Apply(row)
                   /\ \/ row \in ImportRows /\ ImportRow(row)
                      \/ row \in ScreenRows
    BY DEF RecordsNext, ImportRow, Create
  <1>2. ASSUME row.type = "assignments"
        PROVE  NewAssignment(row) \in Posting
    <2>1. /\ row.faculty \in Teachers /\ row.offering \in Offerings /\ row.section \in Sections \cup {NoSection}
          /\ row.from \in Nat \cup {NoText} /\ row.to \in Nat
      BY <1>1, <1>2, ImportRowAssumption
    <2> DEFINE from == IF row.from = NoText THEN day ELSE row.from
    <2>2. from \in Nat
      BY <1>0, <2>1
    <2>3. NewAssignment(row) = [Assignment(row.faculty, row.offering, row.section, row.to) EXCEPT !.from = from]
      BY DEF NewAssignment
    <2>4. Assignment(row.faculty, row.offering, row.section, row.to) \in Posting
      BY <1>0, <2>1 DEF Assignment, Posting
    <2> HIDE DEF from
    <2> QED
      BY <2>2, <2>3, <2>4 DEF Posting
  <1>3. ASSUME row.type = "enrollments"
        PROVE  \E k \in Rows, new \in EnrollmentRow :
                  enrollments[k] = NotEnrolled /\ enrollments' = [enrollments EXCEPT ![k] = new]
    <2> DEFINE k == <<row.scholar, row.offering>>
    <2>1. row \in ImportRows /\ ImportRow(row)
      BY <1>1, <1>3, ImportRowAssumption
    <2>2. k \in Rows /\ row.section \in Sections \cup {NoSection}
      BY <1>3, <2>1, ImportRowAssumption DEF Rows
    <2>3. Existing(row) = "VALID"
      BY <2>1, ValidIs DEF ImportRow
    <2>4. enrollments[k].status \notin {"ENROLLED", "WITHDRAWN", "COMPLETED"}
      BY <1>3, <2>3 DEF Existing, ExistingEnrollment
    <2>5. enrollments[k] = NotEnrolled
      BY <1>0, <2>2, <2>4 DEF EnrollmentRow
    <2>6. PICK p \in Bases(row.scholar, CourseOf[row.offering]) :
             enrollments' = [enrollments EXCEPT ![k] = NewEnrollment(row.section, p)]
      BY <1>1, <1>3 DEF Apply
    <2>7. NewEnrollment(row.section, p) \in EnrollmentRow
      BY <2>2 DEF NewEnrollment, EnrollmentRow, Bases
    <2> HIDE DEF k
    <2> QED
      BY <2>2, <2>5, <2>6, <2>7
  <1>4. assigned' \subseteq Posting
    BY <1>0, <1>1, <1>2 DEF Apply
  <1>5. row.type # "enrollments" => enrollments' = enrollments
    BY <1>1 DEF Apply
  <1>6. UNCHANGED <<day, schemes, marked, active, windows, cleared, registered, offered, hurried, electiveVars, desk>>
    BY <1>1 DEF Apply
  <1> QED
    BY <1>3, <1>4, <1>5, <1>6

\* The semester's invariant holds through imports too, and an enrollment stays.
LEMMA RecordsTyped ==
    ASSUME SemesterInv, RecordsNext, UNCHANGED <<attendanceVars, examVars, transcriptVars>>
    PROVE  /\ SemesterInv' /\ offered' = offered
           /\ \A k \in Rows : enrollments[k] # NotEnrolled => enrollments'[k] = enrollments[k]
  <1>0. TypeInv /\ TeachingTypeOK /\ AcademicTypeOK /\ enrollments \in [Rows -> {NotEnrolled} \cup EnrollmentRow]
    BY DEF SemesterInv, TypeInv, CourseTypeOK, AcademicTypeOK
  <1>1. /\ UNCHANGED <<day, schemes, marked, active, windows, cleared, registered, offered, hurried, electiveVars, desk>>
        /\ assigned' \subseteq Posting
        /\ \/ enrollments' = enrollments
           \/ \E k \in Rows, new \in EnrollmentRow :
                 enrollments[k] = NotEnrolled /\ enrollments' = [enrollments EXCEPT ![k] = new]
    BY <1>0, RowWrites
  <1>2. /\ \A k \in Rows : enrollments[k] # NotEnrolled => enrollments'[k] = enrollments[k]
        /\ enrollments' \in [Rows -> {NotEnrolled} \cup EnrollmentRow]
    BY <1>0, <1>1
  <1>3. CourseTypeOK'
    BY <1>0, <1>1, <1>2 DEF TypeInv, CourseTypeOK, DeskTyped, electiveVars
  <1>4. RowsExist'
    <2>1. ASSUME NEW d \in Desks, desk[d].op \in {"withdraw", "attempt"}
          PROVE  desk[d].row \in Rows /\ enrollments[desk[d].row] # NotEnrolled
      BY <1>0, <2>1, InHand DEF TypeInv, CourseTypeOK, RowsExist
    <2> QED
      BY <1>0, <1>1, <1>2, <2>1 DEF TypeInv, RowsExist, electiveVars
  <1>5. WorkTyped' /\ TeachingTypeOK'
    BY <1>0, <1>1 DEF AcademicTypeOK, WorkTyped, TeachingTypeOK
  <1>6. AttendanceTypeOK' /\ ExamTypeOK' /\ TranscriptTypeOK'
    BY <1>0 DEF AcademicTypeOK, AttendanceTypeOK, ExamTypeOK, TranscriptTypeOK, attendanceVars, examVars, transcriptVars,
                Registrations
  <1>7. NumbersRun'
    BY <1>1 DEF SemesterInv, NumbersRun, IssuesOf, transcriptVars
  <1>8. AttemptsStand'
    <2>1. ASSUME NEW k \in Keys, NEW i \in DOMAIN attempts[k], NEW row, row = attempts[k][i].row
          PROVE  KeyOf(row) = k /\ enrollments'[row] # NotEnrolled /\ enrollments'[row].tried
      <3>1. attempts[k] \in Seq(Attempt)
        BY <1>0 DEF AcademicTypeOK, ExamTypeOK
      <3>2. attempts[k][i] \in Attempt
        BY <3>1
      <3>3. row \in Rows
        BY <2>1, <3>2 DEF Attempt
      <3>4. KeyOf(row) = k /\ enrollments[row] # NotEnrolled /\ enrollments[row].tried
        BY <2>1 DEF SemesterInv, AttemptsStand
      <3> QED
        BY <1>2, <3>3, <3>4
    <2>2. ASSUME NEW d \in Desks, desk[d].op = "examine"
          PROVE  enrollments'[desk[d].row] # NotEnrolled
      <3>1. desk[d].row \in Rows
        BY <1>0, <2>2, WorkInHand DEF AcademicTypeOK
      <3>2. enrollments[desk[d].row] # NotEnrolled
        BY <2>2 DEF SemesterInv, AttemptsStand
      <3> QED
        BY <1>2, <3>1, <3>2
    <2>3. attempts' = attempts /\ desk' = desk /\ Registrations' = Registrations
      BY <1>1 DEF examVars, Registrations
    <2> QED
      BY <2>1, <2>2, <2>3 DEF SemesterInv, AttemptsStand
  <1> QED
    BY <1>1, <1>2, <1>3, <1>4, <1>5, <1>6, <1>7, <1>8 DEF SemesterInv, TypeInv, AcademicTypeOK

\* Offerings are created and stay.
LEMMA OffersGrow ==
    ASSUME CourseStep
    PROVE  offered \subseteq offered'
  <1>1. CASE ElectiveNext /\ UNCHANGED enrollmentVars
    BY <1>1 DEF enrollmentVars
  <1>2. ASSUME NEW s \in Candidates, NEW semester \in Semesters, NEW is \in BOOLEAN, RecordFeeClearance(s, semester, is)
        PROVE  offered' = offered
    BY <1>2 DEF RecordFeeClearance
  <1>3. CASE EnrollmentNext
    BY <1>2, <1>3
       DEF EnrollmentNext, StatusLeavesActive, WindowCloses, CreateOffering, Ratified, OpenRegistration, OpenEnrollment,
           OpenWithdrawal, OpenAttempt, WriteRegistration, WriteEnrollment, WriteWithdrawal, WriteAttempt, enrollmentVars
  <1>4. CASE UNCHANGED courseVars
    BY <1>4 DEF courseVars, enrollmentVars
  <1>5. CASE Beside
    BY <1>5 DEF Beside
  <1> QED
    BY <1>1, <1>3, <1>4, <1>5 DEF CourseStep, CourseNext

LEMMA NothingGrown == \A tables : TablesGrown(tables, tables)
  BY DEF TablesGrown, Grown

\* The inductive step
LEMMA ImportedRepeatStays ==
    ASSUME SemesterInv, ImportedRepeat, [RecordsStep]_<<academicVars, importVars>>
    PROVE  SemesterInv' /\ ImportedRepeat'
  <1>0. TypeInv /\ Typed(institution)
    BY DEF SemesterInv, ImportedRepeat
  <1>1. ASSUME TablesGrown(institution, institution'), Typed(institution'), Enrolled \subseteq Enrolled',
               offered \subseteq offered', NEW i \in imported
        PROVE  Repeated(i, institution', Enrolled', offered')
    <2>1. Repeated(i, institution, Enrolled, offered)
      BY <1>1 DEF ImportedRepeat
    <2> QED
      BY <1>0, <1>1, <2>1, RepeatedStays
  <1>2. ASSUME [AcademicNext]_academicVars, UNCHANGED importVars
        PROVE  SemesterInv' /\ ImportedRepeat'
    <2>1. SemesterInv' /\ CourseStep
      BY <1>2, SemesterNext
    <2>2. Enrolled \subseteq Enrolled'
      BY <1>0, <2>1, EnrollmentStays DEF Enrolled
    <2>3. offered \subseteq offered'
      BY <2>1, OffersGrow
    <2>4. institution' = institution /\ imported' = imported
      BY <1>2 DEF importVars
    <2>5. TablesGrown(institution, institution') /\ Typed(institution')
      BY <1>0, <2>4, NothingGrown
    <2> QED
      BY <1>1, <2>1, <2>2, <2>3, <2>4, <2>5 DEF ImportedRepeat
  <1>3. ASSUME RecordsNext, UNCHANGED <<attendanceVars, examVars, transcriptVars>>
        PROVE  SemesterInv' /\ ImportedRepeat'
    <2>1. /\ SemesterInv' /\ offered' = offered
          /\ \A k \in Rows : enrollments[k] # NotEnrolled => enrollments'[k] = enrollments[k]
      BY <1>3, RecordsTyped
    <2>2. Enrolled \subseteq Enrolled'
      BY <2>1 DEF Enrolled
    <2>3. \E row : institution' = Created(row)
      BY <1>3 DEF RecordsNext, ImportRow, Create, Apply
    <2>4. TablesGrown(institution, institution') /\ Typed(institution')
      BY <1>0, <2>3, CreatedGrows
    <2>5. \A i \in imported : Repeated(i, institution', Enrolled', offered')
      BY <1>1, <2>1, <2>2, <2>4
    <2>6. CASE imported' = imported
      BY <2>1, <2>4, <2>5, <2>6 DEF ImportedRepeat
    <2>7. ASSUME NEW row \in ImportRows, ImportRow(row)
          PROVE  ImportedRepeat'
      <3>1. Repeated([row |-> row, referred |-> ReferredTo(row)], institution', Enrolled', offered')
        BY <1>0, <2>7, ImportedIs
      <3>2. imported' = imported \cup {[row |-> row, referred |-> ReferredTo(row)]}
        BY <2>7 DEF ImportRow
      <3> QED
        BY <2>4, <2>5, <3>1, <3>2 DEF ImportedRepeat
    <2> QED
      BY <1>3, <2>1, <2>6, <2>7 DEF RecordsNext, Create
  <1> QED
    BY <1>2, <1>3 DEF RecordsStep, academicVars, importVars

\* A row that is compared with the record it made is a duplicate while the record is as it was.
LEMMA RepeatsTold == SemesterInv /\ ImportedRepeat => SameRowTwice
  <1> SUFFICES ASSUME SemesterInv, ImportedRepeat, NEW i \in imported
               PROVE  /\ Outcome(i.row) = "VALID" =>
                            i.row.type = "assignments" /\ \A a \in AssignmentsOf(i.row) : a.revoked
                      /\ Unchanged(i) => Outcome(i.row) = "DUPLICATE"
    BY DEF SameRowTwice
  <1> DEFINE row == i.row
  <1>0. /\ row \in ImportRows
        /\ row.type \in {"structure", "courses", "faculty", "scholars", "enrollments", "assignments"}
        /\ enrollments \in [Rows -> {NotEnrolled} \cup EnrollmentRow]
        /\ Repeated(i, institution, Enrolled, offered)
    BY ImportRowAssumption DEF SemesterInv, TypeInv, CourseTypeOK, ImportedRepeat, Repeated
  <1>1. ASSUME row.type \in {"structure", "courses", "faculty", "scholars"}
        PROVE  Existing(row) # "VALID"
    <2>1. CASE row.type = "structure"
      <3>1. Existing(row) = ExistingDepartment(row)
        BY <2>1 DEF Existing
      <3>2. WithCode(Departments, row.code) # {}
        BY <1>0, <2>1 DEF Repeated, Departments
      <3> QED
        BY <3>1, <3>2 DEF ExistingDepartment, Repeats
    <2>2. CASE row.type = "courses"
      BY <1>0, <2>2 DEF Repeated, Existing, ExistingCourse, Repeats
    <2>3. CASE row.type = "faculty"
      BY <1>0, <2>3 DEF Repeated, Existing, ExistingFaculty, Repeats
    <2>4. CASE row.type = "scholars"
      BY <1>0, <2>4 DEF Repeated, Existing, ExistingScholar, Repeats
    <2> QED
      BY <1>1, <2>1, <2>2, <2>3, <2>4
  <1>2. ASSUME row.type \in {"structure", "courses", "faculty", "scholars"}, Refers(row) = "VALID",
               ReferredTo(row) = i.referred
        PROVE  Existing(row) = "DUPLICATE"
    <2>1. CASE row.type = "structure"
      <3>1. Existing(row) = ExistingDepartment(row)
        BY <2>1 DEF Existing
      <3>2. /\ WithCode(Departments, row.code) # {}
            /\ SameCode(Departments[Earliest(WithCode(Departments, row.code))].school, row.school)
            /\ Departments[Earliest(WithCode(Departments, row.code))].name = row.name
            /\ row.schoolName # NoText => Schools[Earliest(WithCode(Schools, row.school))].name = row.schoolName
        BY <1>0, <2>1 DEF Repeated, Departments, Schools, FirstWith
      <3> QED
        BY <3>1, <3>2 DEF ExistingDepartment, Repeats
    <2>2. CASE row.type = "courses"
      BY <1>0, <2>2 DEF Repeated, Existing, ExistingCourse, Repeats, FirstWith
    <2>3. CASE row.type = "faculty"
      BY <1>0, <1>2, <2>3 DEF Repeated, Existing, ExistingFaculty, Repeats, FirstOf
    <2>4. CASE row.type = "scholars"
      BY <1>0, <2>4 DEF Repeated, Existing, ExistingScholar, Repeats, FirstWith
    <2> QED
      BY <1>2, <2>1, <2>2, <2>3, <2>4
  <1>3. ASSUME row.type = "enrollments"
        PROVE  /\ Refers(row) = "VALID"
               /\ Existing(row) # "VALID"
               /\ Unchanged(i) => Existing(row) = "DUPLICATE"
    <2>1. row.offering \in offered /\ <<row.scholar, row.offering>> \in Enrolled
      BY <1>0, <1>3 DEF Repeated
    <2>2. enrollments[<<row.scholar, row.offering>>].status \in {"ENROLLED", "WITHDRAWN", "COMPLETED"}
      BY <1>0, <2>1 DEF Enrolled, EnrollmentRow
    <2> QED
      BY <1>3, <2>1, <2>2 DEF Refers, Existing, ExistingEnrollment, Unchanged
  <1>4. ASSUME row.type = "assignments"
        PROVE  /\ Refers(row) = "VALID"
               /\ MayCreate(row) => \A a \in AssignmentsOf(row) : a.revoked
               /\ Unchanged(i) => Existing(row) = "DUPLICATE"
    <2>1. row.offering \in offered
      BY <1>0, <1>4 DEF Repeated
    <2>2. ASSUME MayCreate(row), NEW a \in AssignmentsOf(row)
          PROVE  a.revoked
      <3>1. a \in assigned /\ a.faculty = row.faculty /\ a.offering = row.offering /\ a.section = row.section
        BY <2>2 DEF AssignmentsOf
      <3>2. MayAssign(NewAssignment(row))
        BY <1>4, <2>2 DEF MayCreate
      <3>3. /\ NewAssignment(row).faculty = row.faculty /\ NewAssignment(row).offering = row.offering
            /\ NewAssignment(row).section = row.section
        BY DEF NewAssignment, Assignment
      <3> QED
        BY <3>1, <3>2, <3>3 DEF MayAssign, Clashes
    <2> QED
      BY <1>4, <2>1, <2>2 DEF Refers, Existing, ExistingAssignment, Unchanged
  <1>5. Outcome(row) = "VALID" => Existing(row) = "VALID" /\ MayCreate(row)
    BY ValidIs
  <1>6. Refers(row) = "VALID" /\ Existing(row) = "DUPLICATE" => Outcome(row) = "DUPLICATE"
    BY DEF Outcome
  <1>7. row.type \in {"structure", "courses", "faculty", "scholars"} /\ Unchanged(i) =>
           Refers(row) = "VALID" /\ ReferredTo(row) = i.referred
    BY DEF Unchanged
  <1> QED
    BY <1>0, <1>1, <1>2, <1>3, <1>4, <1>5, <1>6, <1>7

\* Importing a file again creates nothing new, in any of the six kinds and whatever was created, enrolled,
\* withdrawn, assigned or ratified meanwhile: the row is a duplicate while its record is as it was, and
\* is valid a second time only for an assignment that has been revoked.
THEOREM ReimportCreatesNothing == RecordsSpec => []SameRowTwice
  <1>1. AcademicInit /\ RecordsInit => SemesterInv /\ ImportedRepeat
    <2> SUFFICES ASSUME AcademicInit, RecordsInit
                 PROVE  SemesterInv /\ ImportedRepeat
      OBVIOUS
    <2>1. <<>> \in Seq({})
      OBVIOUS
    <2>2. Typed(institution)
      BY <2>1 DEF RecordsInit, Typed
    <2> QED
      BY <2>2, SemesterInit DEF RecordsInit, ImportedRepeat
  <1>2. SemesterInv /\ ImportedRepeat /\ [RecordsStep]_<<academicVars, importVars>> => (SemesterInv /\ ImportedRepeat)'
    BY ImportedRepeatStays
  <1> QED
    BY <1>1, <1>2, RepeatsTold, PTL DEF RecordsSpec, RecordsStep

===============================================================================
