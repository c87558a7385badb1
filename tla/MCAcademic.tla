------------------------------ MODULE MCAcademic ------------------------------
(***************************************************************************)
(* Ten scenes.  A list goes through its chain, is returned and submitted   *)
(* again; a scholar proposes an elective and enrolls; a scholar registers  *)
(* for a semester on cleared fees; two scholars compete for places; who    *)
(* teaches changes while marks are entered and weights moved; attendance   *)
(* is recorded and corrected; an examination is set up and registered for; *)
(* files are imported again after screens have added to the records;       *)
(* results are ratified and revised while transcripts are issued; lists   *)
(* and proposals are worked from screens that others' requests make stale. *)
(***************************************************************************)
EXTENDS Transcripts, RecordImports, Screens, TLC

CONSTANTS d1, d2, t1, t2, x1, x2, ana, ben, cid, dan, eve, el, co, sem, nxt, l1, p1, p2, oe, oc, on

VARIABLE scene

MCHolderOf == "DC_MEMBER" :> {ana, ben, cid} @@ "DEAN_RND" :> {ben, dan}
MCListChains == {<<"DC_MEMBER", "DEAN_RND">>, <<"DC_MEMBER">>}
MCSupervisedBy == x1 :> {cid} @@ x2 :> {dan}
MCCourseOf == oe :> el @@ oc :> co @@ on :> co
MCSemesterOf == oe :> sem @@ oc :> sem @@ on :> sem
MCCapacityOf == oe :> 1 @@ oc :> 1 @@ on :> 2
MCSections == {<<on, "A">>}
MCSectionCapacity == <<on, "A">> :> 1

InA == <<<<on, "A">>, 1>>

ApprovedList == [status |-> "APPROVED", step |-> 1, chain |-> <<"DC_MEMBER">>, by |-> ana, semester |-> sem,
                 courses |-> {el}, decisions |-> <<[step |-> 1, by |-> cid, approved |-> TRUE]>>,
                 submitted |-> 0, stale |-> FALSE]

ApprovedProposal == [status |-> "APPROVED", scholar |-> x1, semester |-> sem, course |-> el,
                     recommender |-> Nobody, decider |-> dan, stale |-> FALSE]

PreparedList == [ApprovedList EXCEPT !.status = "DRAFT", !.chain = <<>>, !.decisions = <<>>]

SubmittedProposal == [ApprovedProposal EXCEPT !.status = "SUBMITTED", !.decider = Nobody]

EnrolledRow == [status |-> "ENROLLED", section |-> NoSection, proposal |-> Nobody, tried |-> TRUE,
                reopened |-> FALSE]

Placed == <<x1, oe>> :> NoSection @@ <<x1, on>> :> <<on, "A">> @@ <<x2, on>> :> NoSection

InScene(s) ==
    CASE s = "teaching" -> Rows
      [] s = "attendance" -> {<<x1, on>>, <<x2, on>>}
      [] s = "exams" -> {<<x1, on>>}
      [] s = "transcripts" -> {<<x1, oe>>, <<x1, on>>}
      [] OTHER -> {}

\* Rows of files, and on screens codes in the other case and names that repeat.
StructureRow(school, schoolName, code, name) ==
    [type |-> "structure", school |-> school, schoolName |-> schoolName, code |-> code, name |-> name]
FacultyRow(department, external) ==
    [type |-> "faculty", mail |-> "m", name |-> "n", department |-> department, external |-> external]
AssignmentRow(t, section, from, to) ==
    [type |-> "assignments", faculty |-> t, offering |-> on, section |-> section, from |-> from, to |-> to]

MCImportRows ==
    {StructureRow(<<"soe", 0>>, "eng", <<"cse", 0>>, "computing"), StructureRow(<<"soe", 1>>, NoText, <<"it", 0>>, "computing"),
     [type |-> "courses", code |-> <<"c", 0>>, details |-> 3, department |-> NoText],
     FacultyRow("computing", FALSE), FacultyRow(NoText, TRUE),
     [type |-> "scholars", code |-> <<"p", 0>>, mail |-> "s", name |-> "n", department |-> "cse"],
     [type |-> "enrollments", scholar |-> x1, offering |-> on, section |-> <<on, "A">>],
     AssignmentRow(dan, <<on, "A">>, 0, 0), AssignmentRow(eve, NoSection, NoText, 1)}

MCScreenRows ==
    {[type |-> "school", code |-> <<"soe", 1>>, name |-> "arts"],
     [type |-> "department", school |-> <<"soe", 1>>, code |-> <<"cse", 1>>, name |-> "computing"],
     [type |-> "courses", code |-> <<"c", 1>>, details |-> 4, department |-> NoText]}

MCMarksheets ==
    {[outcome |-> "PASS", points |-> 5], [outcome |-> "PASS", points |-> 6], [outcome |-> "FAIL", points |-> Ungraded]}
MCCreditsOf == el :> 2 @@ co :> 4

\* An elective examined, and a course not passed last time whose next examination is open.
TakenExams ==
    /\ cycles = [semester \in Semesters |-> [opens |-> 0, closes |-> 1, start |-> 1, end |-> 1]]
    /\ exams = [e \in ExamIds |-> 1]
    /\ attempts = [k \in Keys |->
                      CASE k = <<x1, el>> -> <<[row |-> <<x1, oe>>, exam |-> <<sem, el>>, outcome |-> "PENDING"]>>
                        [] k = <<x1, co>> -> <<[row |-> <<x1, on>>, exam |-> <<sem, co>>, outcome |-> "PENDING"]>>
                        [] OTHER -> <<>>]
    /\ tickets = {}
    /\ papers = [x \in ExamIds \X Setters |-> "NONE"]

MCInit ==
    /\ scene \in {"lists", "electives", "fees", "places", "teaching", "attendance", "exams", "imports", "transcripts",
                 "screens"}
    /\ active = Candidates /\ windows = {sem} /\ hurried = {}
    /\ enrollments = [row \in Rows |-> IF row \in DOMAIN Placed /\ row \in InScene(scene)
                                       THEN [EnrolledRow EXCEPT !.section = Placed[row], !.proposal = IF row[2] = oe THEN p1 ELSE Nobody,
                                                               !.tried = scene \in {"teaching", "transcripts"}]
                                       ELSE NotEnrolled]
    /\ cleared = CASE scene \in {"electives", "places", "exams", "imports"} -> {<<x1, sem>>, <<x2, sem>>}
                   [] scene = "transcripts" -> {<<x1, nxt>>}
                   [] OTHER -> {}
    /\ registered = cleared
    /\ offered = CASE scene = "places" -> {oc, on} [] scene = "teaching" -> {oe, on}
                   [] scene = "transcripts" -> {oe, on}
                   [] scene \in {"attendance", "exams", "imports"} -> {on} [] OTHER -> {}
    /\ \E list \in CASE scene = "lists" -> {NoList} [] scene = "screens" -> {ApprovedList, PreparedList}
                      [] OTHER -> {ApprovedList} :
          /\ lists = [l \in Lists |-> list]
          /\ proposals = [p \in Proposals |-> CASE scene \in {"teaching", "transcripts"} -> ApprovedProposal
                                                [] scene = "screens" /\ list = ApprovedList -> SubmittedProposal
                                                [] OTHER -> NoProposal]
    /\ ScreensInit
    /\ desk = [d \in Desks |-> Free]
    /\ day = 0
    /\ assigned = IF scene = "attendance" THEN {Assignment(dan, on, <<on, "A">>, 0), Assignment(eve, on, NoSection, 1)}
                  ELSE {}
    /\ schemes = [o \in Offerings |-> NoScheme]
    /\ marked = {}
    /\ sessions = IF scene = "exams" THEN {InA} ELSE {}
    /\ IF scene = "exams" THEN \E m \in {Unmarked, "PHYSICAL"} : attendance = [k \in Records |-> m]
                         ELSE attendance = [k \in Records |-> Unmarked]
    /\ corrections = [k \in Records |-> <<>>]
    /\ contested = {}
    /\ IF scene = "transcripts" THEN TakenExams ELSE ExamInit
    /\ TranscriptInit
    /\ RecordsInit

Ops == {desk'[d].op : d \in Desks} \ {"free"}

\* One request at a time
OneDesk == Cardinality({d \in Desks : desk'[d] # Free}) <= 1

Taken == {row \in Rows : enrollments'[row] # NotEnrolled}

Settings == <<active, windows, cleared, registered, offered>>

WithdrawalNext == \E d \in Desks : WriteWithdrawal(d) \/ \E row \in Rows : OpenWithdrawal(d, row)

SettingsNext == WithdrawalNext \/ RecordFeeClearance(x1, sem, FALSE) \/ StatusLeavesActive(x1)

MCNext ==
    /\ CASE scene = "lists" -> /\ ElectiveNext
                               /\ proposals' = proposals
                               /\ UNCHANGED enrollmentVars
         [] scene = "electives" -> /\ CourseNext
                                   /\ Ops \subseteq {"recommend", "decide", "enroll", "withdraw"}
                                   /\ lists' = lists
                                   /\ offered' \subseteq {oe}
                                   /\ UNCHANGED <<active, windows, cleared, registered>>
         [] scene = "fees" -> /\ EnrollmentNext
                              /\ \A row \in Taken : row = <<x1, oc>>
                              /\ <<x2, sem>> \notin cleared'
                              /\ "attempt" \notin Ops
         [] scene = "places" -> /\ EnrollmentNext
                                /\ \A row \in Taken : row[1] = x2 => enrollments'[row].status = "ENROLLED" /\ ~enrollments'[row].tried
                                /\ \A d \in Desks : desk'[d].op \in {"withdraw", "attempt"} => desk'[d].row[1] = x1
                                /\ \A d \in Desks : desk'[d].op = "attempt" => desk'[d].row[2] = oc
                                /\ UNCHANGED Settings
         [] scene = "teaching" -> /\ TeachingNext
                                  /\ Cardinality(assigned') <= 2
                                  /\ \A a, b \in assigned' : a.offering = b.offering
                                  /\ Cardinality(marked') <= 1
                                  /\ OneDesk
         [] scene = "attendance" -> /\ \/ AttendanceNext
                                       \/ DayPasses /\ UNCHANGED attendanceVars
                                       \/ WithdrawalNext /\ UNCHANGED <<teachingVars, attendanceVars>>
                                    /\ \A k \in Records : Len(corrections'[k]) <= (IF k[2][1] = x1 THEN 2 ELSE 0)
                                    /\ \A d \in Desks : desk'[d].op = "withdraw" => desk'[d].row[1] = x2
         [] scene = "exams" -> /\ \/ ExamNext
                                  \/ DayPasses /\ UNCHANGED <<attendanceVars, examVars>>
                                  \/ SettingsNext /\ UNCHANGED <<teachingVars, attendanceVars, examVars>>
                               /\ Registrations' # {} => \A x \in DOMAIN papers' : papers'[x] = "NONE"
         [] scene = "imports" -> /\ \/ RecordsNext
                                    \/ DayPasses /\ UNCHANGED importVars
                                    \/ (\E a \in assigned : RevokeAssignment(a)) /\ UNCHANGED importVars
                                    \/ WithdrawalNext /\ UNCHANGED <<teachingVars, importVars>>
                                 /\ UNCHANGED active
                                 /\ Cardinality(imported') <= 4
                                 /\ OneDesk
         [] scene = "screens" -> /\ ScreensNext
                                 /\ Len(lists'[l1].decisions) <= 2
                                 /\ UNCHANGED enrollmentVars
         [] scene = "transcripts" -> /\ \/ TranscriptNext
                                        \/ /\ \E d \in Desks :
                                                 \/ OpenExamRegistration(d, <<x1, on>>, <<nxt, co>>)
                                                 \/ WriteExamRegistration(d)
                                           /\ UNCHANGED transcriptVars
                                     /\ edition'[x1] <= 3
                                     /\ attempts'[<<x1, el>>][1].outcome # "FAIL"
                                     /\ Cardinality(issues') <= 2
                                     /\ issues' # {} \/ "issue" \in Ops => Len(attempts'[<<x1, co>>]) = 1 /\ "examine" \notin Ops
    /\ scene \notin {"teaching", "attendance", "exams", "imports", "transcripts"} => UNCHANGED teachingVars
    /\ scene # "screens" => UNCHANGED shown
    /\ scene # "attendance" => UNCHANGED attendanceVars
    /\ scene \notin {"exams", "transcripts"} => UNCHANGED examVars
    /\ scene # "transcripts" => UNCHANGED transcriptVars
    /\ scene # "imports" => UNCHANGED importVars
    /\ scene # "transcripts" => \A x \in cleared' : x[2] = sem
    /\ \A l \in Lists : lists'[l] # NoList => lists'[l].semester = sem
    /\ \A p \in Proposals : proposals'[p] # NoProposal => proposals'[p].semester = sem
    /\ UNCHANGED scene

MCSpec == MCInit /\ [][MCNext]_<<electiveVars, desk, enrollmentVars, teachingVars, attendanceVars, examVars, importVars, transcriptVars, shown, scene>>

Symmetric == Permutations(Desks) \cup Permutations(Tabs)
===============================================================================
