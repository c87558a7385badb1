------------------------------- MODULE Attendance -------------------------------
(***************************************************************************)
(* Sessions of the sections, the attendance recorded for them and its      *)
(* corrections, and the summary that an examination asks for.              *)
(*                                                                         *)
(* Sources: coursework/academic/attendance.py, coursework/models/          *)
(* attendance.py, api/teaching.py (SessionsView, SessionRecordsView) and   *)
(* _attendance_reasons of examination.py.                                  *)
(*                                                                         *)
(* A request reads the record there is and corrects that copy later; the   *)
(* time stamp by which a screen may ask that the record be the one it      *)
(* showed is optional and read at the same moment.                         *)
(*                                                                         *)
(* Abstracted: dates and times (a slot), reasons and topics; orientation   *)
(* seminars, whose attendance is recorded once and read by nothing.        *)
(***************************************************************************)
EXTENDS Teaching, Sequences

CONSTANTS
    Slots,        \* date and time of a session
    MinAttendance \* attendance.min_percent, out of Whole

ASSUME AttendanceAssumption == MinAttendance \in Nat

VARIABLES
    sessions,    \* AttendanceSession rows: <<section, slot>>
    attendance,  \* AttendanceRecord of each <<session, enrollment>>
    corrections, \* AttendanceCorrection rows of each record, oldest first
    contested    \* history: records that changed between the reading and the writing of a request

attendanceVars == <<sessions, attendance, corrections, contested>>

Unmarked == "UNMARKED"
Presences == {"PHYSICAL", "ONLINE"}
Marks == Presences \cup {"ABSENT"}

Records == {<<<<section, slot>>, row>> : section \in Sections, slot \in Slots, row \in Rows}

MayRecord(t, section) == Teaches(t, section) \/ Coordinates(t, section[1])

-----------------------------------------------------------------------------

\* One session of a section at a date and time is a constraint of the table.
CreateSession(t, session) ==
    /\ MayRecord(t, session[1])
    /\ session \notin sessions
    /\ sessions' = sessions \cup {session}
    /\ UNCHANGED <<attendance, corrections, contested, teachingVars, enrollmentVars, electiveVars, desk>>

\* A scholar of no section may be recorded in any of the offering.
InSession(row, session) ==
    /\ enrollments[row] # NotEnrolled
    /\ row[2] = session[1][1]
    /\ enrollments[row].section \in {NoSection, session[1]}

OpenAttendance(d, t, session, row, mark) ==
    /\ session \in sessions
    /\ MayRecord(t, session[1])
    /\ InSession(row, session)
    /\ enrollments[row].status # "WITHDRAWN"
    /\ OpenRequest(d, [op |-> "attend", row |-> row, session |-> session, mark |-> mark,
                       copy |-> attendance[<<session, row>>]])
    /\ UNCHANGED <<attendanceVars, teachingVars, enrollmentVars, electiveVars>>

CorrectedPresence(log, old, new) ==
    IF (old \in Presences) = (new \in Presences) THEN log ELSE Append(log, [old |-> old, new |-> new])

Corrected(log, old, new) == Append(log, [old |-> old, new |-> new])

\* A second first record is refused by the table; what is already so is not written.
WriteAttendance(d) ==
    /\ desk[d].op = "attend"
    /\ LET r == desk[d]
           k == <<r.session, r.row>>
       IN  IF r.copy = r.mark \/ (r.copy = Unmarked /\ attendance[k] # Unmarked)
           THEN UNCHANGED <<attendance, corrections, contested>>
           ELSE /\ attendance' = [attendance EXCEPT ![k] = r.mark]
                /\ corrections' = IF r.copy = Unmarked THEN corrections
                                  ELSE [corrections EXCEPT ![k] = Corrected(@, r.copy, r.mark)]
                /\ contested' = IF r.copy = attendance[k] THEN contested ELSE contested \cup {k}
    /\ CloseRequest(d)
    /\ UNCHANGED <<sessions, teachingVars, enrollmentVars, electiveVars>>

-----------------------------------------------------------------------------
(* attendance_summary and what an examination asks of it *)

SessionsFor(row) ==
    {session \in sessions : session[1][1] = row[2] /\ enrollments[row].section \in {NoSection, session[1]}}

Attended(row) == {session \in SessionsFor(row) : attendance[<<session, row>>] = "PHYSICAL"}

\* The share attended of the sessions held, out of Whole: hundredths, rounded half up
Percent(row) ==
    LET held == Cardinality(SessionsFor(row))
        attended == Cardinality(Attended(row)) * Whole * 100
    IN  (2 * attended + held) \div (2 * held)

\* Where no session was held nothing is missed.
AttendanceMet(row) == SessionsFor(row) # {} => Percent(row) >= MinAttendance * 100

-----------------------------------------------------------------------------

AttendanceInit ==
    /\ sessions = {}
    /\ attendance = [k \in Records |-> Unmarked]
    /\ corrections = [k \in Records |-> <<>>]
    /\ contested = {}

AttendanceNext ==
    \/ \E t \in Teachers, section \in Sections, slot \in Slots : CreateSession(t, <<section, slot>>)
    \/ \E d \in Desks :
          \/ WriteAttendance(d)
          \/ \E t \in Teachers, session \in sessions, row \in Rows, mark \in Marks :
                OpenAttendance(d, t, session, row, mark)

-----------------------------------------------------------------------------
(* What attendance promises *)

\* "Append-only history of changes to an attendance record": unless two corrections of it crossed, the
\* corrections of a record lead without a gap to the attendance it shows, so that what was recorded on
\* any earlier day can be told; a record made for the first time twice has one author.
CorrectionsExplain ==
    \A k \in Records \ contested :
       LET log == corrections[k]
       IN  /\ log # <<>> => log[Len(log)].new = attendance[k] /\ log[1].old # Unmarked
           /\ \A i \in 2 .. Len(log) : log[i].old = log[i - 1].new

=============================================================================
