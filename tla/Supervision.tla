---------------------------- MODULE Supervision ----------------------------
(***************************************************************************)
(* Allocation of supervisors and formation of Thesis Advisory Committees,  *)
(* each confirmed by an approval request.                                  *)
(*                                                                         *)
(* Sources: supervision/{services,models}.py, over core/approvals.py       *)
(* (ApprovalRequests).                                                     *)
(*                                                                         *)
(* propose_supervisor locks the faculty row, checks, inserts and commits:  *)
(* Allocate takes the lock and checks, CreateAssignment inserts and gives  *)
(* the lock back.  propose_tac locks nothing: FormTac checks, CreateSeats  *)
(* reads the supervisor again and inserts.  A transaction that a           *)
(* constraint refuses, or whose process dies, is dropped.                  *)
(*                                                                         *)
(* Abstracted: designations and overrides are the constant Capacity; years *)
(* of service left and departments are properties of the constants.        *)
(* Allocations and seats end by a rejection or, if Ended, by an edit of   *)
(* end_date in the admin.                                                  *)
(***************************************************************************)
EXTENDS ApprovalRequests, FiniteSets

CONSTANTS
    Workers,
    Scholars,
    Faculty,            \* whose service lasts long enough to supervise
    External,           \* Faculty.is_external
    Capacity,           \* Faculty.supervision_capacity
    Interdisciplinary,  \* <<f, s>>: f is not of the department of s
    CountCoSupervision, \* policy.COUNT_CO_SUPERVISION_TOWARDS_CAP
    TacMembers,         \* policy.TAC_MEMBER_COUNT
    Ended,              \* the scholars whose allocations and seats the office ends in the admin
    MaxAssignments,     \* bound: SupervisorAssignment rows
    MaxFormations       \* bound: TAC formations requested

ASSUME SupervisionAssumption ==
    /\ External \subseteq Faculty
    /\ Capacity \in [Faculty -> Nat]
    /\ Interdisciplinary \subseteq Faculty \X Scholars
    /\ CountCoSupervision \in BOOLEAN
    /\ TacMembers \in Nat \ {0}
    /\ Ended \subseteq Scholars
    /\ MaxAssignments \in Nat
    /\ MaxFormations \in Nat
    /\ {"SUPERVISOR_ALLOCATION", "TAC_FORMATION"} \subseteq Codes

VARIABLES
    assignments, \* SupervisorAssignment rows
    tacs,        \* TACMembership rows, those of one formation together
    request,     \* what each worker is doing
    crossed      \* history: scholars for whom an allocation and a TAC were in flight at once

vars == <<chains, requests, assignments, tacs, request, crossed>>

-----------------------------------------------------------------------------
(* Rows *)

Kinds == {"SUPERVISOR", "CO_SUPERVISOR"}

\* open: end_date is NULL; approved: approved_on is set; approval: its request.
Assignment == [scholar : Scholars, faculty : Faculty, kind : Kinds, open : BOOLEAN,
               approved : BOOLEAN, approval : Nat]

\* open: the seats not ended; the supervisor's seat is ex officio.
Tac == [scholar : Scholars, supervisor : Faculty, members : SUBSET Faculty,
        open : SUBSET Faculty, approved : BOOLEAN, approval : Nat]

\* one_open_supervisor_per_scholar and no_duplicate_open_supervision
AssignmentsAdmissible(rows) ==
    \A i, j \in DOMAIN rows :
        /\ rows[i].open /\ rows[j].open /\ rows[i].scholar = rows[j].scholar
        /\ \/ rows[i].faculty = rows[j].faculty
           \/ rows[i].kind = "SUPERVISOR" /\ rows[j].kind = "SUPERVISOR"
        => i = j

SeatsAdmissibleForMembers(rows) ==
    \A i, j \in DOMAIN rows :
        /\ rows[i].scholar = rows[j].scholar
        /\ rows[i].open \cap rows[j].open \cap rows[i].members \cap rows[j].members # {}
        => i = j

\* no_duplicate_open_tac_seat
SeatsAdmissible(rows) ==
    \A i, j \in DOMAIN rows :
        rows[i].scholar = rows[j].scholar /\ rows[i].open \cap rows[j].open # {} => i = j

-----------------------------------------------------------------------------
(* What the services read *)

OpenOf(s) == {i \in DOMAIN assignments : assignments[i].open /\ assignments[i].scholar = s}

\* open_supervisions, in the assignments as `rows` has them
OpenSupervisions(rows, f) ==
    {i \in DOMAIN rows :
        /\ rows[i].open
        /\ rows[i].faculty = f
        /\ CountCoSupervision \/ rows[i].kind = "SUPERVISOR"}

Load(f) == Cardinality(OpenSupervisions(assignments, f))

HasSeat(s, f) ==
    \E t \in DOMAIN tacs : tacs[t].scholar = s /\ f \in tacs[t].members \cap tacs[t].open

\* check_supervisor_eligibility, and the check of propose_supervisor itself
MayAllocate(s, f, kind) ==
    /\ f \in External => kind = "CO_SUPERVISOR"
    /\ f \notin External => Load(f) < Capacity[f]
    /\ ~HasSeat(s, f)
    /\ kind = "SUPERVISOR" => \A i \in OpenOf(s) : assignments[i].kind # "SUPERVISOR"

CurrentSupervisorPendingToo(s) ==
    {assignments[i].faculty : i \in {j \in OpenOf(s) : assignments[j].kind = "SUPERVISOR"}}

\* current_supervisor: the faculty of the approved open allocation, if there is one
CurrentSupervisor(s) ==
    {assignments[i].faculty : i \in {j \in OpenOf(s) : /\ assignments[j].kind = "SUPERVISOR"
                                                       /\ assignments[j].approved}}

\* m sits on the TAC of another scholar whose open supervisor is f.
SitsElsewhere(m, s, f) ==
    \E t \in DOMAIN tacs :
        /\ tacs[t].scholar # s
        /\ m \in tacs[t].members \cap tacs[t].open
        /\ \E i \in OpenOf(tacs[t].scholar) :
              assignments[i].faculty = f /\ assignments[i].kind = "SUPERVISOR"

MayFormTacWithSupervisors(s, members) ==
    /\ \A t \in DOMAIN tacs : tacs[t].scholar = s => tacs[t].open = {}
    /\ Cardinality(members) = TacMembers
    /\ \E f \in CurrentSupervisor(s) :
          \A m \in members : <<m, s>> \in Interdisciplinary /\ ~SitsElsewhere(m, s, f)

\* The check of propose_tac, and check_tac_members
MayFormTac(s, members) ==
    /\ \A t \in DOMAIN tacs : tacs[t].scholar = s => tacs[t].open = {}
    /\ Cardinality(members) = TacMembers
    /\ \E f \in CurrentSupervisor(s) :
          \A m \in members :
              /\ \A i \in OpenOf(s) : assignments[i].faculty # m
              /\ <<m, s>> \in Interdisciplinary
              /\ ~SitsElsewhere(m, s, f)

-----------------------------------------------------------------------------
(* propose_supervisor and propose_tac *)

Idle == [op |-> "idle"]

Request ==
    [op : {"idle"}]
    \cup [op : {"allocate"}, scholar : Scholars, faculty : Faculty, kind : Kinds]
    \cup [op : {"form"}, scholar : Scholars, members : SUBSET Faculty]

FacultyUnlocked(f) == TRUE

\* SELECT ... FOR UPDATE of the faculty row: waits while another transaction holds it.
FacultyFree(f) == \A w \in Workers : ~(request[w].op = "allocate" /\ request[w].faculty = f)

Begin(w, r) ==
    /\ request[w] = Idle
    /\ request' = [request EXCEPT ![w] = r]
    /\ crossed' = crossed \cup
           {s \in {r.scholar} : \E v \in Workers :
               request[v] # Idle /\ request[v].op # r.op /\ request[v].scholar = s}
    /\ UNCHANGED <<chains, requests, assignments, tacs>>

Allocate(w, s, f, kind) ==
    /\ FacultyFree(f)
    /\ MayAllocate(s, f, kind)
    /\ Begin(w, [op |-> "allocate", scholar |-> s, faculty |-> f, kind |-> kind])

FormTac(w, s, members) ==
    /\ MayFormTac(s, members)
    /\ Begin(w, [op |-> "form", scholar |-> s, members |-> members])

Finish(w) ==
    /\ request' = [request EXCEPT ![w] = Idle]
    /\ UNCHANGED crossed

CreateAssignment(w) ==
    LET r == request[w]
        rows == Append(assignments,
                       [scholar |-> r.scholar, faculty |-> r.faculty, kind |-> r.kind,
                        open |-> TRUE, approved |-> FALSE, approval |-> Len(requests) + 1])
    IN  /\ r.op = "allocate"
        /\ Len(assignments) < MaxAssignments
        /\ AssignmentsAdmissible(rows)
        /\ assignments' = rows
        /\ StartApproval("SUPERVISOR_ALLOCATION")
        /\ Finish(w)
        /\ UNCHANGED tacs

\* The supervisor's seat is NOT NULL: without a supervisor by now the insert fails.
CreateSeats(w) ==
    LET r == request[w]
    IN  /\ r.op = "form"
        /\ Len(tacs) < MaxFormations
        /\ \E f \in CurrentSupervisor(r.scholar) :
              LET seats == Append(tacs, [scholar |-> r.scholar, supervisor |-> f,
                                         members |-> r.members, open |-> r.members \cup {f},
                                         approved |-> FALSE, approval |-> Len(requests) + 1])
              IN  SeatsAdmissible(seats) /\ f \notin r.members /\ tacs' = seats
        /\ StartApproval("TAC_FORMATION")
        /\ Finish(w)
        /\ UNCHANGED assignments

Drop(w) ==
    /\ request[w] # Idle
    /\ Finish(w)
    /\ UNCHANGED <<chains, requests, assignments, tacs>>

-----------------------------------------------------------------------------
(* Decisions and the admin *)

CloseAllocationOnApproval(q, i) ==
    [a \in DOMAIN assignments |->
        IF assignments[a].approval = i /\ q.status = "APPROVED"
        THEN [assignments[a] EXCEPT !.approved = TRUE]
        ELSE assignments[a]]

\* _close_allocation, called when request i has become q and q is closed
CloseAllocation(q, i) ==
    [a \in DOMAIN assignments |->
        CASE assignments[a].approval = i /\ q.status = "APPROVED" ->
                [assignments[a] EXCEPT !.approved = TRUE]
          [] assignments[a].approval = i /\ q.status = "REJECTED" ->
                [assignments[a] EXCEPT !.open = FALSE]
          [] OTHER -> assignments[a]]

\* _close_tac
CloseTac(q, i) ==
    [t \in DOMAIN tacs |->
        CASE tacs[t].approval = i /\ q.status = "APPROVED" -> [tacs[t] EXCEPT !.approved = TRUE]
          [] tacs[t].approval = i /\ q.status = "REJECTED" -> [tacs[t] EXCEPT !.open = {}]
          [] OTHER -> tacs[t]]

Decide(i, approved) ==
    LET q == Decided(requests[i], approved)
    IN  /\ HasPendingStep(requests[i])
        /\ requests' = [requests EXCEPT ![i] = q]
        /\ assignments' = CloseAllocation(q, i)
        /\ tacs' = CloseTac(q, i)
        /\ UNCHANGED <<chains, request, crossed>>

EndAssignment(a) ==
    /\ assignments[a].scholar \in Ended
    /\ assignments[a].open
    /\ assignments' = [assignments EXCEPT ![a].open = FALSE]
    /\ UNCHANGED <<chains, requests, tacs, request, crossed>>

EndSeat(t, f) ==
    /\ tacs[t].scholar \in Ended
    /\ f \in tacs[t].open
    /\ tacs' = [tacs EXCEPT ![t].open = @ \ {f}]
    /\ UNCHANGED <<chains, requests, assignments, request, crossed>>

-----------------------------------------------------------------------------

Init ==
    /\ ChainsInit
    /\ assignments = <<>>
    /\ tacs = <<>>
    /\ request = [w \in Workers |-> Idle]
    /\ crossed = {}

Propose(w) ==
    \/ \E s \in Scholars, f \in Faculty, kind \in Kinds : Allocate(w, s, f, kind)
    \/ \E s \in Scholars, members \in SUBSET Faculty : FormTac(w, s, members)
    \/ CreateAssignment(w)
    \/ CreateSeats(w)
    \/ Drop(w)

Next ==
    \/ \E w \in Workers : Propose(w)
    \/ \E i \in DOMAIN requests, approved \in BOOLEAN : Decide(i, approved)
    \/ \E a \in DOMAIN assignments : EndAssignment(a)
    \/ \E t \in DOMAIN tacs, f \in Faculty : EndSeat(t, f)

Spec == Init /\ [][Next]_vars

-----------------------------------------------------------------------------
(* What the supervision service promises *)

TypeOK ==
    /\ ChainsTypeOK
    /\ assignments \in Seq(Assignment)
    /\ tacs \in Seq(Tac)
    /\ request \in [Workers -> Request]
    /\ crossed \subseteq Scholars

\* "Two concurrent allocations cannot both take the last seat": the open allocations of a member
\* of the faculty, pending ones included, never exceed the capacity, however allocations, TAC
\* proposals and decisions interleave.
CapacityHeld == \A f \in Faculty \ External : Load(f) <= Capacity[f]

\* A scholar whose allocations and seats nobody ends by hand has one TAC at a time even when two
\* are proposed at once: both need the supervisor's own seat.
OneTac ==
    \A t, u \in DOMAIN tacs :
        /\ tacs[t].scholar = tacs[u].scholar
        /\ tacs[t].scholar \notin Ended
        /\ tacs[t].open # {}
        /\ tacs[u].open # {}
        => t = u

\* While nobody ends a scholar's allocations by hand, an open TAC of the scholar is led by the current
\* supervisor: an allocation the TAC rests on is neither rejected nor replaced afterwards.
LedByCurrentSupervisor ==
    \A t \in DOMAIN tacs : tacs[t].scholar \notin Ended /\ tacs[t].open # {} =>
        CurrentSupervisor(tacs[t].scholar) = {tacs[t].supervisor}

\* "The domain object's state and the approval record never disagree": an allocation or a TAC is
\* approved exactly when its request is, is over when its request was rejected, and no request
\* serves two of them.
DecisionsAgree ==
    /\ \A a \in DOMAIN assignments :
          LET q == requests[assignments[a].approval]
          IN  /\ assignments[a].approved <=> q.status = "APPROVED"
              /\ q.status = "REJECTED" => ~assignments[a].open
              /\ q.code = "SUPERVISOR_ALLOCATION"
    /\ \A t \in DOMAIN tacs :
          LET q == requests[tacs[t].approval]
          IN  /\ tacs[t].approved <=> q.status = "APPROVED"
              /\ q.status = "REJECTED" => tacs[t].open = {}
              /\ q.code = "TAC_FORMATION"
    /\ Len(requests) = Len(assignments) + Len(tacs)

\* Nobody sits as a member on the TAC of a scholar they supervise or co-supervise, unless an
\* allocation and a TAC were proposed for the scholar at once: neither locks what the other reads.
TacIndependentInTurn ==
    \A t \in DOMAIN tacs, a \in DOMAIN assignments :
        /\ assignments[a].open
        /\ assignments[a].scholar = tacs[t].scholar
        /\ tacs[t].scholar \notin crossed
        => assignments[a].faculty \notin tacs[t].members \cap tacs[t].open

=============================================================================
