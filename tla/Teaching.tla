-------------------------------- MODULE Teaching --------------------------------
(***************************************************************************)
(* Who teaches what, the assessment schemes of offerings, and what the     *)
(* teaching workspace shows to whom.                                       *)
(*                                                                         *)
(* Sources: coursework/academic/{structure,policies,marks}.py,             *)
(* coursework/models/{teaching,assessment}.py, coursework/api/{teaching,   *)
(* offices}.py.                                                            *)
(*                                                                         *)
(* An assignment is inserted or refused by the table's constraints, in one *)
(* step.  A re-weighting reads that no mark is entered and writes later.   *)
(*                                                                         *)
(* Activity components take no assignment and no default scheme: they are  *)
(* left out.                                                               *)
(*                                                                         *)
(* Abstracted: the basis of an assignment; marks are entered or not (their *)
(* values and corrections are in ResultCustody); the module of ethics,     *)
(* which weighs nothing.                                                   *)
(***************************************************************************)
EXTENDS Enrollment

CONSTANTS
    Teachers,  \* persons with a profile as internal faculty
    Governors, \* persons who view any offering by their office
    LastDay,   \* bound: of the days counted
    Whole, Default, Limit \* weights: of all, of continuous assessment, how far it may be moved

ASSUME TeachingAssumption ==
    /\ LastDay \in Nat
    /\ {Whole, Default, Limit} \subseteq Nat
    /\ Default < Whole

VARIABLES
    day,
    assigned, \* FacultySubjectAssignment rows
    schemes,  \* weight of continuous assessment in each offering, NoScheme before it is defined
    marked    \* <<enrollment, kind>> with a mark entered

teachingVars == <<day, assigned, schemes, marked>>

NoScheme == 0

Kinds == {"CONTINUOUS", "END_TERM"}

-----------------------------------------------------------------------------
(* Assignments *)

\* A coordinator's assignment has no section.
Assignment(t, o, section, to) ==
    [faculty |-> t, offering |-> o, section |-> section, from |-> day, to |-> to, revoked |-> FALSE]

Clashes(a, b) ==
    /\ ~b.revoked
    /\ a.section = b.section
    /\ IF a.section = NoSection THEN a.offering = b.offering ELSE a.faculty = b.faculty

Active(a) == ~a.revoked /\ a.from <= day /\ day <= a.to

MayAssignNow(a) == \A b \in assigned : Active(b) => ~Clashes(a, b)

\* Every assignment counts that is not revoked, the expired ones included.
MayAssign(a) == \A b \in assigned : ~Clashes(a, b)

AssignFaculty(t, o, section, to) ==
    LET a == Assignment(t, o, section, to)
    IN  /\ o \in offered
        /\ section # NoSection => section[1] = o
        /\ MayAssign(a)
        /\ assigned' = assigned \cup {a}
        /\ UNCHANGED <<day, schemes, marked, enrollmentVars, electiveVars, desk>>

RevokeAssignment(a) ==
    /\ ~a.revoked
    /\ assigned' = (assigned \ {a}) \cup {[a EXCEPT !.revoked = TRUE]}
    /\ UNCHANGED <<day, schemes, marked, enrollmentVars, electiveVars, desk>>

DayPasses ==
    /\ day < LastDay
    /\ day' = day + 1
    /\ UNCHANGED <<assigned, schemes, marked, enrollmentVars, electiveVars, desk>>

ActiveAssignments(t) == {a \in assigned : a.faculty = t /\ Active(a)}

Teaches(t, section) == \E a \in ActiveAssignments(t) : section # NoSection /\ a.section = section

TeachesIn(t, o) == \E a \in ActiveAssignments(t) : a.offering = o /\ a.section # NoSection

Coordinates(t, o) == \E a \in ActiveAssignments(t) : a.offering = o /\ a.section = NoSection

-----------------------------------------------------------------------------
(* Schemes and marks *)

DefineScheme(o) ==
    /\ o \in offered
    /\ schemes[o] = NoScheme
    /\ schemes' = [schemes EXCEPT ![o] = Default]
    /\ UNCHANGED <<day, assigned, marked, enrollmentVars, electiveVars, desk>>

Scored(o) == {m \in marked : m[1][2] = o}

Reweightable(o, weight) ==
    /\ CourseOf[o] \in Electives
    /\ schemes[o] # NoScheme
    /\ weight - Default \in (-Limit) .. Limit
    /\ weight \in 1 .. (Whole - 1)

ReweightableAnyTime(o, weight) == Reweightable(o, weight)

MayReweight(o, weight) == Reweightable(o, weight) /\ Scored(o) = {}

OpenReweighting(d, o, weight) ==
    /\ MayReweight(o, weight)
    /\ OpenRequest(d, [op |-> "reweight", row |-> <<Nobody, o>>, weight |-> weight])
    /\ UNCHANGED <<teachingVars, enrollmentVars, electiveVars>>

\* Both components are written, so that they go on making up the whole.
WriteReweighting(d) ==
    /\ desk[d].op = "reweight"
    /\ schemes' = [schemes EXCEPT ![desk[d].row[2]] = desk[d].weight]
    /\ CloseRequest(d)
    /\ UNCHANGED <<day, assigned, marked, enrollmentVars, electiveVars>>

\* Continuous assessment: instructor of the section or coordinator; end-term: coordinator.
MayEnter(t, row, kind) ==
    \/ Coordinates(t, row[2])
    \/ kind = "CONTINUOUS" /\ Teaches(t, enrollments[row].section)

Attempted(row) == enrollments[row] # NotEnrolled /\ enrollments[row].tried

Reweighting(o) == \E d \in Desks : desk[d].op = "reweight" /\ desk[d].row[2] = o

\* A mark entered while a re-weighting is under way puts the offering among the hurried.
EnterMark(t, row, kind) ==
    /\ Attempted(row)
    /\ schemes[row[2]] # NoScheme
    /\ MayEnter(t, row, kind)
    /\ marked' = marked \cup {<<row, kind>>}
    /\ hurried' = IF Reweighting(row[2]) THEN hurried \cup {row[2]} ELSE hurried
    /\ UNCHANGED <<day, assigned, schemes, active, windows, cleared, registered, offered, enrollments,
                   electiveVars, desk>>

-----------------------------------------------------------------------------
(* The teaching workspace *)

MayViewOffering(t, o) == Coordinates(t, o) \/ TeachesIn(t, o) \/ t \in Governors

OwnSections(t, o) == {a.section : a \in {b \in ActiveAssignments(t) : b.offering = o /\ b.section # NoSection}}

WholeView(t, o) == {row \in Rows : row[2] = o /\ enrollments[row] # NotEnrolled}

\* Rows of the roster and of the grids: of one's own sections, unless one coordinates or has none.
TeachingView(t, o) ==
    {row \in WholeView(t, o) :
        \/ Coordinates(t, o) \/ OwnSections(t, o) = {}
        \/ enrollments[row].section \in OwnSections(t, o)}

\* Marks may be entered in a column of the grid when they may for its first row, whichever that is.
MarksGrid(t, o) == IF MayViewOffering(t, o) THEN {row \in TeachingView(t, o) : Attempted(row)} ELSE {}

MarksOffered(t, o, probe, kind) == MayEnter(t, probe, kind)

-----------------------------------------------------------------------------

TeachingInit ==
    /\ day = 0
    /\ assigned = {}
    /\ schemes = [o \in Offerings |-> NoScheme]
    /\ marked = {}

TeachingNext ==
    \/ \E t \in Teachers, o \in Offerings, section \in Sections \cup {NoSection}, to \in day .. (LastDay + 1) :
          AssignFaculty(t, o, section, to)
    \/ \E a \in assigned : RevokeAssignment(a)
    \/ \E o \in Offerings : DefineScheme(o)
    \/ \E d \in Desks, o \in Offerings, weight \in 0 .. Whole : OpenReweighting(d, o, weight)
    \/ \E d \in Desks : WriteReweighting(d)
    \/ \E t \in Teachers, row \in Rows, kind \in Kinds : EnterMark(t, row, kind)
    \/ DayPasses

-----------------------------------------------------------------------------
(* What teaching promises *)

\* "Marks already entered; the scheme can no longer change": unless a mark and a re-weighting of the
\* offering crossed, the weights stay what they were when the first mark was entered.
SchemeSettled ==
    [][\A o \in Offerings : Scored(o) # {} /\ o \notin hurried' => schemes'[o] = schemes[o]]_<<schemes, hurried>>

\* "Instructors see only their sections; the Course Coordinator sees the whole offering": the grid
\* offers a column for marks exactly when every row of it takes them, and shows every row to whoever
\* may enter its marks, through expiries, revocations and changes of section.
GridAgrees ==
    \A t \in Teachers, o \in Offerings :
       /\ \A probe, row \in MarksGrid(t, o), kind \in Kinds : MarksOffered(t, o, probe, kind) <=> MayEnter(t, row, kind)
       /\ \A row \in Rows, kind \in Kinds :
             row[2] = o /\ Attempted(row) /\ MayEnter(t, row, kind) => row \in MarksGrid(t, o)

=============================================================================
