------------------------------ MODULE RecordImports ------------------------------
(***************************************************************************)
(* The six types of import, row by row, beside the screens that create the *)
(* same records: what a row refers to, which record it would repeat or     *)
(* contradict, and what the service it is given to refuses.                *)
(*                                                                         *)
(* Sources: imports/types.py, coursework/academic/{institution,structure}  *)
(* .py, core/models.py; for enrollments and assignments, Enrollment and    *)
(* Teaching.                                                               *)
(*                                                                         *)
(* Codes are matched without regard to case and unique with regard to it:  *)
(* a code is <<letters, form>>.  Names are compared as letters.            *)
(*                                                                         *)
(* Abstracted: authorization of a row (Access), rows repeated in one file  *)
(* and what other transactions do meanwhile (Imports), activity components *)
(* and external faculty among the assignments, formats of cells.           *)
(***************************************************************************)
EXTENDS Transcripts

CONSTANTS
    ImportRows,  \* rows of files, by type
    ScreenRows,  \* the like, entered on a screen: "school" and "department" apart
    NoText       \* an empty cell

ASSUME ImportRowAssumption ==
    /\ \A row \in ImportRows :
          /\ row.type \in {"structure", "courses", "faculty", "scholars", "enrollments", "assignments"}
          /\ row.type = "enrollments" => /\ row.scholar \in Candidates /\ row.offering \in Offerings
                                        /\ row.section \in Sections \cup {NoSection}
          /\ row.type = "assignments" => /\ row.faculty \in Teachers /\ row.offering \in Offerings
                                        /\ row.section \in Sections \cup {NoSection}
                                        /\ row.from \in Nat \cup {NoText} /\ row.to \in Nat
    /\ \A row \in ScreenRows : row.type \in {"school", "department", "courses", "faculty", "scholars"}

VARIABLES
    institution, \* the records of each kind, in the order of their creation
    imported     \* history: rows imported, with the department each referred to

importVars == <<institution, imported>>

Schools == institution.schools
Departments == institution.departments

SameCode(c, d) == c[1] = d[1]

WithCode(kept, code) == {i \in DOMAIN kept : SameCode(kept[i].code, code)}

WithMail(kept, mail) == {i \in DOMAIN kept : kept[i].mail = mail}

Earliest(is) == CHOOSE i \in is : \A j \in is : i <= j

-----------------------------------------------------------------------------
(* parse_value and resolve: what a row refers to *)

NoDepartment == 0

\* By code, and if not exactly one has it, by name.
DepartmentsFor(text) ==
    LET byCode == WithCode(Departments, <<text>>)
    IN  IF Cardinality(byCode) = 1 THEN byCode ELSE {i \in DOMAIN Departments : Departments[i].name = text}

ReferredTo(row) ==
    IF "department" \in DOMAIN row /\ row.department # NoText
    THEN Earliest(DepartmentsFor(row.department)) ELSE NoDepartment

DepartmentCell(row) ==
    LET found == Cardinality(DepartmentsFor(row.department))
    IN  CASE row.department = NoText -> IF row.type = "scholars" THEN "MISSING" ELSE "VALID"
          [] row.department # NoText /\ found = 0 -> "INVALID"
          [] row.department # NoText /\ found = 1 -> "VALID"
          [] OTHER -> "AMBIGUOUS"

Refers(row) ==
    CASE row.type \in {"courses", "faculty", "scholars"} -> DepartmentCell(row)
      [] row.type \in {"enrollments", "assignments"} -> IF row.offering \in offered THEN "VALID" ELSE "INVALID"
      [] OTHER -> "VALID"

-----------------------------------------------------------------------------
(* existing: which record the row would repeat or contradict *)

Repeats(same) == IF same THEN "DUPLICATE" ELSE "CONFLICT"

ExistingDepartment(row) ==
    LET school == WithCode(Schools, row.school)
        dept == WithCode(Departments, row.code)
        renamed == row.schoolName # NoText /\ school # {} /\ Schools[Earliest(school)].name # row.schoolName
        first == Departments[Earliest(dept)]
    IN  CASE renamed -> "CONFLICT"
          [] ~renamed /\ dept # {} -> Repeats(SameCode(first.school, row.school) /\ first.name = row.name)
          [] ~renamed /\ dept = {} -> IF school = {} /\ row.schoolName = NoText THEN "MISSING" ELSE "VALID"

ExistingCourse(row) ==
    LET known == WithCode(institution.courses, row.code)
    IN  IF known = {} THEN "VALID" ELSE Repeats(institution.courses[Earliest(known)].details = row.details)

ExistingFaculty(row) ==
    LET known == WithMail(institution.faculty, row.mail)
        f == institution.faculty[Earliest(known)]
    IN  IF known = {} THEN "VALID" ELSE Repeats(f.name = row.name /\ f.department = ReferredTo(row))

ExistingScholar(row) ==
    LET known == WithCode(institution.scholars, row.code)
        s == institution.scholars[Earliest(known)]
    IN  IF known # {} THEN Repeats(s.mail = row.mail /\ s.name = row.name)
        ELSE IF WithMail(institution.scholars, row.mail) = {} THEN "VALID" ELSE "CONFLICT"

ExistingEnrollment(row) ==
    CASE enrollments[<<row.scholar, row.offering>>].status = "NONE" -> "VALID"
      [] enrollments[<<row.scholar, row.offering>>].status = "WITHDRAWN" -> "CONFLICT"
      [] OTHER -> "DUPLICATE"

AssignmentsOf(row) ==
    {a \in assigned : a.faculty = row.faculty /\ a.offering = row.offering /\ a.section = row.section}

\* One that has expired is no duplicate here, though the table still counts it.
ExistingAssignment(row) ==
    IF \E a \in AssignmentsOf(row) : ~a.revoked /\ a.to >= day THEN "DUPLICATE" ELSE "VALID"

Existing(row) ==
    CASE row.type = "structure" -> ExistingDepartment(row)
      [] row.type = "courses" -> ExistingCourse(row)
      [] row.type = "faculty" -> ExistingFaculty(row)
      [] row.type = "scholars" -> ExistingScholar(row)
      [] row.type = "enrollments" -> ExistingEnrollment(row)
      [] row.type = "assignments" -> ExistingAssignment(row)

-----------------------------------------------------------------------------
(* apply: what the services refuse *)

CodeTaken(kept, code) == \E i \in DOMAIN kept : kept[i].code = code

NewAssignment(row) ==
    [Assignment(row.faculty, row.offering, row.section, row.to) EXCEPT !.from = IF row.from = NoText THEN day ELSE row.from]

MayCreate(row) ==
    CASE row.type = "structure" -> ~CodeTaken(Departments, row.code)
      [] row.type = "school" -> ~CodeTaken(Schools, row.code)
      [] row.type = "department" -> ~CodeTaken(Departments, row.code) /\ CodeTaken(Schools, row.school)
      [] row.type = "courses" -> ~CodeTaken(institution.courses, row.code)
      [] row.type = "faculty" -> /\ row.external \/ row.department # NoText
                                 /\ WithMail(institution.faculty, row.mail) = {}
      [] row.type = "scholars" -> /\ WithCode(institution.scholars, row.code) = {}
                                  /\ WithMail(institution.scholars, row.mail) = {}
      [] row.type = "enrollments" -> /\ MayEnroll(row.scholar, row.offering, row.section)
                                     /\ Bases(row.scholar, CourseOf[row.offering]) # {}
      [] row.type = "assignments" -> NewAssignment(row).from <= row.to /\ MayAssign(NewAssignment(row))

Outcome(row) ==
    CASE Refers(row) # "VALID" -> Refers(row)
      [] Refers(row) = "VALID" /\ Existing(row) # "VALID" -> Existing(row)
      [] OTHER -> IF MayCreate(row) THEN "VALID" ELSE "INVALID"

\* A department of a file goes to the school there is, in whichever form its code is written there.
SchoolFor(row) ==
    LET known == WithCode(Schools, row.school)
    IN  IF row.type = "department" \/ known = {} THEN row.school ELSE Schools[Earliest(known)].code

NewDepartment(row) == [code |-> row.code, name |-> row.name, school |-> SchoolFor(row)]

NewSchools(row) ==
    IF WithCode(Schools, row.school) # {} THEN Schools
    ELSE Append(Schools, [code |-> row.school, name |-> row.schoolName])

\* The records after one for the row; an external member of faculty keeps the department given.
Created(row) ==
    CASE row.type = "structure" -> [institution EXCEPT !.schools = NewSchools(row),
                                                       !.departments = Append(@, NewDepartment(row))]
      [] row.type = "school" -> [institution EXCEPT !.schools = Append(@, [code |-> row.code, name |-> row.name])]
      [] row.type = "department" -> [institution EXCEPT !.departments = Append(@, NewDepartment(row))]
      [] row.type = "courses" -> [institution EXCEPT !.courses = Append(@, [code |-> row.code, details |-> row.details])]
      [] row.type = "faculty" -> [institution EXCEPT !.faculty =
                                     Append(@, [mail |-> row.mail, name |-> row.name, department |-> ReferredTo(row)])]
      [] row.type = "scholars" -> [institution EXCEPT !.scholars =
                                      Append(@, [code |-> row.code, mail |-> row.mail, name |-> row.name])]
      [] OTHER -> institution

Apply(row) ==
    /\ institution' = Created(row)
    /\ IF row.type = "assignments"
       THEN assigned' = assigned \cup {NewAssignment(row)}
       ELSE UNCHANGED assigned
    /\ IF row.type = "enrollments"
       THEN \E p \in Bases(row.scholar, CourseOf[row.offering]) :
               enrollments' = [enrollments EXCEPT ![<<row.scholar, row.offering>>] = NewEnrollment(row.section, p)]
       ELSE UNCHANGED enrollments
    /\ UNCHANGED <<day, schemes, marked, active, windows, cleared, registered, offered, hurried, electiveVars, desk>>

ImportRow(row) ==
    /\ Outcome(row) = "VALID"
    /\ Apply(row)
    /\ imported' = imported \cup {[row |-> row, referred |-> ReferredTo(row)]}

Create(row) ==
    /\ MayCreate(row)
    /\ Apply(row)
    /\ UNCHANGED imported

RecordsInit ==
    /\ institution = [schools |-> <<>>, departments |-> <<>>, courses |-> <<>>, faculty |-> <<>>, scholars |-> <<>>]
    /\ imported = {}

RecordsNext ==
    \/ \E row \in ImportRows : ImportRow(row)
    \/ \E row \in ScreenRows : Create(row)

\* Imports beside the semester, whose screens enter enrollments and assignments too
RecordsSpec ==
    /\ AcademicInit /\ RecordsInit
    /\ [][\/ RecordsNext /\ UNCHANGED <<attendanceVars, examVars, transcriptVars>>
          \/ AcademicNext /\ UNCHANGED importVars]_<<academicVars, importVars>>

-----------------------------------------------------------------------------
(* What an import of the same row again comes to *)

Unchanged(i) ==
    CASE i.row.type = "enrollments" -> enrollments[<<i.row.scholar, i.row.offering>>].status # "WITHDRAWN"
      [] i.row.type = "assignments" -> \E a \in AssignmentsOf(i.row) : ~a.revoked /\ a.to >= day
      [] OTHER -> Refers(i.row) = "VALID" /\ ReferredTo(i.row) = i.referred

\* "Importing the same file twice creates nothing new": a row that was imported is not valid a second time,
\* but for an assignment that has been revoked since, whatever screens create between the two, codes that
\* differ in case and names that repeat included, and whatever expires; and it is a duplicate, which holds
\* up nothing, while the record and the department it refers to are as they were.
SameRowTwice ==
    \A i \in imported :
       /\ Outcome(i.row) = "VALID" =>
             i.row.type = "assignments" /\ \A a \in AssignmentsOf(i.row) : a.revoked
       /\ Unchanged(i) => Outcome(i.row) = "DUPLICATE"

=============================================================================
