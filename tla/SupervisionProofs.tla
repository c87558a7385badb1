------------------------- MODULE SupervisionProofs -------------------------
(***************************************************************************)
(* Theorems about Supervision, for any workers, scholars, faculty,         *)
(* capacities and chains.                                                  *)
(***************************************************************************)
EXTENDS Supervision, ApprovalRequestsProofs, FiniteSetTheorems

-----------------------------------------------------------------------------
(* Type correctness *)

\* What each kind of request carries.
LEMMA RequestFields ==
    ASSUME TypeOK, NEW w \in Workers
    PROVE  /\ request[w].op = "allocate" =>
                /\ request[w].scholar \in Scholars
                /\ request[w].faculty \in Faculty
                /\ request[w].kind \in Kinds
           /\ request[w].op = "form" =>
                /\ request[w].scholar \in Scholars
                /\ request[w].members \in SUBSET Faculty
  <1>1. request[w] \in Request
    BY DEF TypeOK
  <1> QED
    BY <1>1 DEF Request

\* The current supervisor is the faculty of an allocation.
LEMMA CurrentSupervisorRow ==
    ASSUME TypeOK, NEW s, NEW f \in CurrentSupervisor(s)
    PROVE  /\ f \in Faculty
           /\ \E a \in DOMAIN assignments :
                 /\ assignments[a].faculty = f
                 /\ assignments[a].scholar = s
                 /\ assignments[a].kind = "SUPERVISOR"
                 /\ assignments[a].open
                 /\ assignments[a].approved
  <1>1. PICK a \in DOMAIN assignments :
            /\ assignments[a].faculty = f
            /\ assignments[a].scholar = s
            /\ assignments[a].kind = "SUPERVISOR"
            /\ assignments[a].open
            /\ assignments[a].approved
    BY DEF CurrentSupervisor, OpenOf
  <1>2. assignments[a] \in Assignment
    BY DEF TypeOK
  <1> QED
    BY <1>1, <1>2 DEF Assignment

\* A decision keeps the rows of its allocation but for approved and open.
LEMMA AllocationClosed ==
    ASSUME TypeOK, NEW q \in ApprovalRequest, NEW i
    PROVE  /\ CloseAllocation(q, i) \in Seq(Assignment)
           /\ DOMAIN CloseAllocation(q, i) = DOMAIN assignments
           /\ \A a \in DOMAIN assignments :
                 LET old == assignments[a]
                     new == CloseAllocation(q, i)[a]
                 IN  /\ new.scholar = old.scholar
                     /\ new.faculty = old.faculty
                     /\ new.kind = old.kind
                     /\ new.approval = old.approval
                     /\ old.approval # i \/ q.status = "PENDING" => new = old
                     /\ old.approval = i /\ q.status = "APPROVED" =>
                           new.approved /\ new.open = old.open
                     /\ old.approval = i /\ q.status = "REJECTED" =>
                           ~new.open /\ new.approved = old.approved
  <1>1. DOMAIN assignments = 1 .. Len(assignments) /\ Len(assignments) \in Nat
    BY DEF TypeOK
  <1>2. ASSUME NEW a \in DOMAIN assignments
        PROVE  LET old == assignments[a]
                   new == CloseAllocation(q, i)[a]
               IN  /\ new \in Assignment
                   /\ new.scholar = old.scholar
                   /\ new.faculty = old.faculty
                   /\ new.kind = old.kind
                   /\ new.approval = old.approval
                   /\ old.approval # i \/ q.status = "PENDING" => new = old
                   /\ old.approval = i /\ q.status = "APPROVED" =>
                         new.approved /\ new.open = old.open
                   /\ old.approval = i /\ q.status = "REJECTED" =>
                         ~new.open /\ new.approved = old.approved
    <2>1. assignments[a] \in Assignment
      BY DEF TypeOK
    <2>2. q.status \in {"PENDING", "APPROVED", "REJECTED"}
      BY DEF ApprovalRequest
    <2>3. CASE assignments[a].approval = i /\ q.status = "APPROVED"
      BY <2>1, <2>3 DEF CloseAllocation, Assignment
    <2>4. CASE assignments[a].approval = i /\ q.status = "REJECTED"
      BY <2>1, <2>4 DEF CloseAllocation, Assignment
    <2>5. CASE assignments[a].approval # i \/ q.status = "PENDING"
      BY <2>1, <2>5 DEF CloseAllocation
    <2> QED
      BY <2>2, <2>3, <2>4, <2>5
  <1>3. DOMAIN CloseAllocation(q, i) = DOMAIN assignments
    BY DEF CloseAllocation
  <1>4. CloseAllocation(q, i) \in [1 .. Len(assignments) -> Assignment]
    BY <1>1, <1>2 DEF CloseAllocation
  <1> QED
    BY <1>1, <1>2, <1>3, <1>4

\* A decision keeps the rows of its TAC but for approved and open.
LEMMA TacClosed ==
    ASSUME TypeOK, NEW q \in ApprovalRequest, NEW i
    PROVE  /\ CloseTac(q, i) \in Seq(Tac)
           /\ DOMAIN CloseTac(q, i) = DOMAIN tacs
           /\ \A t \in DOMAIN tacs :
                 LET old == tacs[t]
                     new == CloseTac(q, i)[t]
                 IN  /\ new.scholar = old.scholar
                     /\ new.supervisor = old.supervisor
                     /\ new.members = old.members
                     /\ new.approval = old.approval
                     /\ old.approval # i \/ q.status = "PENDING" => new = old
                     /\ old.approval = i /\ q.status = "APPROVED" =>
                           new.approved /\ new.open = old.open
                     /\ old.approval = i /\ q.status = "REJECTED" =>
                           new.open = {} /\ new.approved = old.approved
  <1>1. DOMAIN tacs = 1 .. Len(tacs) /\ Len(tacs) \in Nat
    BY DEF TypeOK
  <1>2. ASSUME NEW t \in DOMAIN tacs
        PROVE  LET old == tacs[t]
                   new == CloseTac(q, i)[t]
               IN  /\ new \in Tac
                   /\ new.scholar = old.scholar
                   /\ new.supervisor = old.supervisor
                   /\ new.members = old.members
                   /\ new.approval = old.approval
                   /\ old.approval # i \/ q.status = "PENDING" => new = old
                   /\ old.approval = i /\ q.status = "APPROVED" =>
                         new.approved /\ new.open = old.open
                   /\ old.approval = i /\ q.status = "REJECTED" =>
                         new.open = {} /\ new.approved = old.approved
    <2>1. tacs[t] \in Tac
      BY DEF TypeOK
    <2>2. q.status \in {"PENDING", "APPROVED", "REJECTED"}
      BY DEF ApprovalRequest
    <2>3. CASE tacs[t].approval = i /\ q.status = "APPROVED"
      BY <2>1, <2>3 DEF CloseTac, Tac
    <2>4. CASE tacs[t].approval = i /\ q.status = "REJECTED"
      BY <2>1, <2>4 DEF CloseTac, Tac
    <2>5. CASE tacs[t].approval # i \/ q.status = "PENDING"
      BY <2>1, <2>5 DEF CloseTac
    <2> QED
      BY <2>2, <2>3, <2>4, <2>5
  <1>3. DOMAIN CloseTac(q, i) = DOMAIN tacs
    BY DEF CloseTac
  <1>4. CloseTac(q, i) \in [1 .. Len(tacs) -> Tac]
    BY <1>1, <1>2 DEF CloseTac
  <1> QED
    BY <1>1, <1>2, <1>3, <1>4

\* To the requests, every step is one of those ApprovalRequestsProofs is about.
LEMMA NextIsRequestStep == TypeOK /\ [Next]_vars => RequestStep
  <1> SUFFICES ASSUME TypeOK, [Next]_vars PROVE RequestStep
    OBVIOUS
  <1>1. CASE \E w \in Workers : Propose(w)
    <2>1. PICK w \in Workers : Propose(w)
      BY <1>1
    <2>2. CASE CreateAssignment(w) \/ CreateSeats(w)
      <3>1. {"SUPERVISOR_ALLOCATION", "TAC_FORMATION"} \subseteq Codes
        BY SupervisionAssumption
      <3> QED
        BY <2>2, <3>1 DEF CreateAssignment, CreateSeats, RequestStep
    <2>3. CASE Drop(w)
      BY <2>3 DEF Drop, RequestStep
    <2> QED
      BY <2>1, <2>2, <2>3 DEF Propose, Allocate, FormTac, Begin, RequestStep
  <1>2. CASE \E i \in DOMAIN requests, approved \in BOOLEAN : Decide(i, approved)
    BY <1>2 DEF Decide, DecideRequest, RequestStep
  <1>3. CASE \/ \E a \in DOMAIN assignments : EndAssignment(a)
             \/ \E t \in DOMAIN tacs, f \in Faculty : EndSeat(t, f)
    BY <1>3 DEF EndAssignment, EndSeat, RequestStep
  <1>4. CASE UNCHANGED vars
    BY <1>4 DEF vars, RequestStep
  <1> QED
    BY <1>1, <1>2, <1>3, <1>4 DEF Next

\* The request a decision is about, before and after.
LEMMA RequestDecided ==
    ASSUME TypeOK, NEW i \in DOMAIN requests, NEW approved \in BOOLEAN, Decide(i, approved)
    PROVE  LET q == Decided(requests[i], approved)
           IN  /\ requests[i] \in ApprovalRequest
               /\ requests[i].status = "PENDING"
               /\ q \in ApprovalRequest
               /\ q.code = requests[i].code
               /\ requests' = [requests EXCEPT ![i] = q]
               /\ assignments' = CloseAllocation(q, i)
               /\ tacs' = CloseTac(q, i)
               /\ request' = request
               /\ crossed' = crossed
  <1>1. requests[i] \in ApprovalRequest /\ ChainsTypeOK /\ HasPendingStep(requests[i])
    BY DEF TypeOK, ChainsTypeOK, Decide
  <1> QED
    BY <1>1, ChainsAssumption, DecidedFields DEF Decide, HasPendingStep

\* Types hold at the start.
LEMMA InitTyped == Init => TypeOK
  <1> SUFFICES ASSUME Init PROVE TypeOK
    OBVIOUS
  <1>1. ChainsTypeOK
    BY ChainsAssumption, ChainsInitSound DEF Init, RequestsInv
  <1>2. Idle \in Request
    BY DEF Idle, Request
  <1> QED
    BY <1>1, <1>2 DEF Init, TypeOK

\* Types hold over every step.
LEMMA NextTyped == TypeOK /\ [Next]_vars => TypeOK'
  <1> SUFFICES ASSUME TypeOK, [Next]_vars PROVE TypeOK'
    OBVIOUS
  <1>1. ChainsTypeOK'
    BY ChainsAssumption, NextIsRequestStep, ChainsTyped DEF TypeOK
  <1>2. Idle \in Request
    BY DEF Idle, Request
  <1>3. ASSUME NEW w \in Workers, NEW r \in Request, r.scholar \in Scholars, Begin(w, r)
        PROVE  TypeOK'
    <2>1. crossed' \subseteq Scholars
      BY <1>3 DEF Begin, TypeOK
    <2>2. request' \in [Workers -> Request]
      BY <1>3 DEF Begin, TypeOK
    <2> QED
      BY <1>1, <1>3, <2>1, <2>2 DEF Begin, TypeOK
  <1>4. ASSUME NEW w \in Workers, Finish(w)
        PROVE  request' \in [Workers -> Request] /\ crossed' \subseteq Scholars
    BY <1>2, <1>4 DEF Finish, TypeOK
  <1>5. CASE \E w \in Workers : Propose(w)
    <2>1. PICK w \in Workers : Propose(w)
      BY <1>5
    <2>2. ASSUME NEW s \in Scholars, NEW f \in Faculty, NEW kind \in Kinds, Allocate(w, s, f, kind)
          PROVE TypeOK'
      <3>1. [op |-> "allocate", scholar |-> s, faculty |-> f, kind |-> kind] \in Request
        BY DEF Request
      <3> QED
        BY <1>3, <2>2, <3>1 DEF Allocate
    <2>3. ASSUME NEW s \in Scholars, NEW members \in SUBSET Faculty, FormTac(w, s, members)
          PROVE TypeOK'
      <3>1. [op |-> "form", scholar |-> s, members |-> members] \in Request
        BY DEF Request
      <3> QED
        BY <1>3, <2>3, <3>1 DEF FormTac
    <2>4. CASE CreateAssignment(w)
      <3>1. Len(requests) + 1 \in Nat
        BY DEF TypeOK, ChainsTypeOK
      <3>2. [scholar |-> request[w].scholar, faculty |-> request[w].faculty,
             kind |-> request[w].kind, open |-> TRUE, approved |-> FALSE,
             approval |-> Len(requests) + 1] \in Assignment
        BY <2>4, <3>1, RequestFields DEF CreateAssignment, Assignment
      <3>3. assignments' \in Seq(Assignment)
        BY <2>4, <3>2 DEF CreateAssignment, TypeOK
      <3> QED
        BY <1>1, <1>4, <2>4, <3>3 DEF CreateAssignment, TypeOK
    <2>5. CASE CreateSeats(w)
      <3>1. Len(requests) + 1 \in Nat
        BY DEF TypeOK, ChainsTypeOK
      <3>2. PICK f \in CurrentSupervisor(request[w].scholar) :
                tacs' = Append(tacs, [scholar |-> request[w].scholar, supervisor |-> f,
                                      members |-> request[w].members,
                                      open |-> request[w].members \cup {f},
                                      approved |-> FALSE, approval |-> Len(requests) + 1])
        BY <2>5 DEF CreateSeats
      <3>3. f \in Faculty
        BY CurrentSupervisorRow
      <3>4. [scholar |-> request[w].scholar, supervisor |-> f, members |-> request[w].members,
             open |-> request[w].members \cup {f}, approved |-> FALSE,
             approval |-> Len(requests) + 1] \in Tac
        BY <2>5, <3>1, <3>3, RequestFields DEF CreateSeats, Tac
      <3>5. tacs' \in Seq(Tac)
        BY <3>2, <3>4 DEF TypeOK
      <3> QED
        BY <1>1, <1>4, <2>5, <3>5 DEF CreateSeats, TypeOK
    <2>6. CASE Drop(w)
      BY <1>1, <1>4, <2>6 DEF Drop, TypeOK
    <2> QED
      BY <2>1, <2>2, <2>3, <2>4, <2>5, <2>6 DEF Propose
  <1>6. ASSUME NEW i \in DOMAIN requests, NEW approved \in BOOLEAN, Decide(i, approved)
        PROVE TypeOK'
    BY <1>1, <1>6, RequestDecided, AllocationClosed, TacClosed DEF TypeOK
  <1>7. ASSUME NEW a \in DOMAIN assignments, EndAssignment(a) PROVE TypeOK'
    <2>1. [assignments[a] EXCEPT !.open = FALSE] \in Assignment
      <3>1. assignments[a] \in Assignment
        BY DEF TypeOK
      <3> QED
        BY <3>1 DEF Assignment
    <2>2. assignments' \in Seq(Assignment)
      BY <1>7, <2>1 DEF EndAssignment, TypeOK
    <2> QED
      BY <1>1, <1>7, <2>2 DEF EndAssignment, TypeOK
  <1>8. ASSUME NEW t \in DOMAIN tacs, NEW f \in Faculty, EndSeat(t, f) PROVE TypeOK'
    <2>1. [tacs[t] EXCEPT !.open = @ \ {f}] \in Tac
      <3>1. tacs[t] \in Tac
        BY DEF TypeOK
      <3> QED
        BY <3>1 DEF Tac
    <2>2. tacs' \in Seq(Tac)
      BY <1>8, <2>1 DEF EndSeat, TypeOK
    <2> QED
      BY <1>1, <1>8, <2>2 DEF EndSeat, TypeOK
  <1>9. CASE UNCHANGED vars
    BY <1>1, <1>9 DEF vars, TypeOK
  <1> QED
    BY <1>5, <1>6, <1>7, <1>8, <1>9 DEF Next

\* Every table and request keeps its type.
THEOREM TypeCorrect == Spec => []TypeOK
  BY InitTyped, NextTyped, PTL DEF Spec

-----------------------------------------------------------------------------
(* Capacity.  The faculty row's lock is what makes the invariant inductive: *)
(* an allocation in flight still has the place it found, because no other   *)
(* allocation of the same faculty is in flight and the rest only free       *)
(* places.                                                                  *)

PlaceKept ==
    \A w \in Workers, f \in Faculty \ External :
        request[w].op = "allocate" /\ request[w].faculty = f => Load(f) < Capacity[f]

OneAllocationPerFaculty ==
    \A v, w \in Workers :
        /\ request[v].op = "allocate"
        /\ request[w].op = "allocate"
        /\ request[v].faculty = request[w].faculty
        => v = w

CapacityInv == TypeOK /\ CapacityHeld /\ PlaceKept /\ OneAllocationPerFaculty

\* The supervisions a load counts are finitely many.
LEMMA SupervisionsFinite ==
    ASSUME NEW R, NEW rows \in Seq(R), NEW f
    PROVE  /\ IsFiniteSet(OpenSupervisions(rows, f))
           /\ Cardinality(OpenSupervisions(rows, f)) \in Nat
  <1>1. OpenSupervisions(rows, f) \in SUBSET (1 .. Len(rows))
    BY DEF OpenSupervisions
  <1>2. IsFiniteSet(1 .. Len(rows))
    BY FS_Interval
  <1> QED
    BY <1>1, <1>2, FS_Subset, FS_CardinalityType

\* Rows that are not opened, moved or added do not add to a load.
LEMMA LoadFalls ==
    ASSUME TypeOK, NEW f,
           assignments' \in Seq(Assignment),
           DOMAIN assignments' = DOMAIN assignments,
           \A a \in DOMAIN assignments :
               /\ assignments'[a].faculty = assignments[a].faculty
               /\ assignments'[a].kind = assignments[a].kind
               /\ assignments'[a].open => assignments[a].open
    PROVE  Load(f)' <= Load(f)
  <1>1. OpenSupervisions(assignments', f) \subseteq OpenSupervisions(assignments, f)
    BY DEF OpenSupervisions
  <1>2. IsFiniteSet(OpenSupervisions(assignments, f))
    BY SupervisionsFinite DEF TypeOK
  <1> QED
    BY <1>1, <1>2, FS_Subset DEF Load

\* A new row adds at most one to the load of its own faculty and nothing to any other.
LEMMA LoadRises ==
    ASSUME TypeOK, NEW row \in Assignment, assignments' = Append(assignments, row), NEW f
    PROVE  /\ Load(f)' <= Load(f) + 1
           /\ f # row.faculty => Load(f)' = Load(f)
  <1> DEFINE old == OpenSupervisions(assignments, f)
             new == OpenSupervisions(assignments', f)
             n == Len(assignments) + 1
  <1>1. /\ IsFiniteSet(old)
        /\ Cardinality(old) \in Nat
    BY SupervisionsFinite DEF TypeOK
  <1>2. /\ assignments \in Seq(Assignment)
        /\ DOMAIN assignments' = DOMAIN assignments \cup {n}
        /\ assignments'[n] = row
        /\ \A a \in DOMAIN assignments : assignments'[a] = assignments[a]
    BY DEF TypeOK
  <1>3. new \subseteq old \cup {n}
    BY <1>2 DEF OpenSupervisions
  <1>4. f # row.faculty => new = old
    <2>1. n \notin DOMAIN assignments
      BY <1>2
    <2> QED
      BY <1>2, <2>1 DEF OpenSupervisions
  <1> HIDE DEF old, new
  <1>5. IsFiniteSet(old \cup {n}) /\ Cardinality(old \cup {n}) <= Cardinality(old) + 1
    <2>1. /\ IsFiniteSet(old \cup {n})
          /\ Cardinality(old \cup {n}) = IF n \in old THEN Cardinality(old)
                                          ELSE Cardinality(old) + 1
      BY <1>1, FS_AddElement
    <2> QED
      BY <1>1, <2>1
  <1>6. Cardinality(new) <= Cardinality(old \cup {n})
    BY <1>3, <1>5, FS_Subset
  <1>7. Cardinality(new) \in Nat /\ Cardinality(old \cup {n}) \in Nat
    BY <1>3, <1>5, FS_Subset, FS_CardinalityType
  <1>8. Cardinality(new) <= Cardinality(old) + 1
    BY <1>1, <1>5, <1>6, <1>7
  <1> QED
    BY <1>4, <1>8 DEF Load, old, new

\* Where no load rises and no allocation begins, every place stays.
LEMMA PlacesStay ==
    ASSUME CapacityInv, TypeOK',
           \A f : Load(f)' <= Load(f),
           \A w \in Workers : request'[w] = request[w] \/ request'[w].op # "allocate"
    PROVE  CapacityInv'
  <1>1. \A f : Load(f) \in Nat /\ Load(f)' \in Nat
    BY SupervisionsFinite DEF Load, CapacityInv, TypeOK
  <1>2. \A f \in Faculty : Capacity[f] \in Nat
    BY SupervisionAssumption
  <1>3. CapacityHeld'
    BY <1>1, <1>2 DEF CapacityInv, CapacityHeld
  <1>4. OneAllocationPerFaculty'
    BY DEF CapacityInv, OneAllocationPerFaculty
  <1>5. ASSUME NEW w \in Workers, NEW f \in Faculty \ External,
               request'[w].op = "allocate", request'[w].faculty = f
        PROVE  Load(f)' < Capacity[f]
    <2>1. request'[w] = request[w]
      BY <1>5
    <2>2. Load(f) < Capacity[f]
      BY <1>5, <2>1 DEF CapacityInv, PlaceKept
    <2>3. /\ Load(f)' <= Load(f)
          /\ Load(f) \in Nat
          /\ Load(f)' \in Nat
          /\ Capacity[f] \in Nat
      BY <1>1, <1>2
    <2> QED
      BY <2>2, <2>3
  <1>6. PlaceKept'
    BY <1>5 DEF PlaceKept
  <1> QED
    BY <1>3, <1>4, <1>6 DEF CapacityInv

\* Nothing is allocated at the start.
LEMMA CapacityInit == Init => CapacityInv
  <1> SUFFICES ASSUME Init PROVE CapacityInv
    OBVIOUS
  <1>1. TypeOK
    BY InitTyped
  <1>2. ASSUME NEW f PROVE Load(f) = 0
    <2>1. OpenSupervisions(assignments, f) = {}
      BY DEF Init, OpenSupervisions
    <2> QED
      BY <2>1, FS_EmptySet DEF Load
  <1>3. CapacityHeld
    BY <1>2, SupervisionAssumption DEF CapacityHeld
  <1>4. PlaceKept /\ OneAllocationPerFaculty
    BY DEF Init, Idle, PlaceKept, OneAllocationPerFaculty
  <1> QED
    BY <1>1, <1>3, <1>4 DEF CapacityInv

\* An allocation finds its place before it takes the lock, and nobody else holds the lock.
LEMMA CapacityAllocate ==
    ASSUME CapacityInv, TypeOK', NEW w \in Workers, NEW s \in Scholars, NEW f \in Faculty,
           NEW kind \in Kinds, Allocate(w, s, f, kind)
    PROVE  CapacityInv'
  <1>1. /\ FacultyFree(f)
        /\ f \notin External => Load(f) < Capacity[f]
        /\ assignments' = assignments
        /\ request' = [request EXCEPT ![w] = [op |-> "allocate", scholar |-> s, faculty |-> f,
                                             kind |-> kind]]
    BY DEF Allocate, MayAllocate, Begin
  <1>2. /\ request'[w].op = "allocate"
        /\ request'[w].faculty = f
        /\ \A v \in Workers : v # w => request'[v] = request[v]
    BY <1>1 DEF CapacityInv, TypeOK
  <1>3. \A g : Load(g)' = Load(g)
    BY <1>1 DEF Load
  <1>4. CapacityHeld'
    BY <1>3 DEF CapacityInv, CapacityHeld
  <1>5. PlaceKept'
    BY <1>1, <1>2, <1>3 DEF CapacityInv, PlaceKept
  <1>6. OneAllocationPerFaculty'
    BY <1>1, <1>2 DEF CapacityInv, OneAllocationPerFaculty, FacultyFree
  <1> QED
    BY <1>4, <1>5, <1>6 DEF CapacityInv

\* The row an allocation inserts takes the place it kept.
LEMMA CapacityCreate ==
    ASSUME CapacityInv, TypeOK', NEW w \in Workers, CreateAssignment(w)
    PROVE  CapacityInv'
  <1> DEFINE row == [scholar |-> request[w].scholar, faculty |-> request[w].faculty,
                     kind |-> request[w].kind, open |-> TRUE, approved |-> FALSE,
                     approval |-> Len(requests) + 1]
  <1>1. /\ TypeOK
        /\ request[w].op = "allocate"
        /\ assignments' = Append(assignments, row)
        /\ request' = [request EXCEPT ![w] = Idle]
    BY DEF CapacityInv, CreateAssignment, Finish
  <1>2. row \in Assignment
    <2>1. Len(requests) + 1 \in Nat
      BY <1>1 DEF TypeOK, ChainsTypeOK
    <2> QED
      BY <1>1, <2>1, RequestFields DEF Assignment
  <1>3. row.faculty = request[w].faculty
    OBVIOUS
  <1> HIDE DEF row
  <1>4. \A f : /\ Load(f)' <= Load(f) + 1
               /\ f # request[w].faculty => Load(f)' = Load(f)
    BY <1>1, <1>2, <1>3, LoadRises
  <1>5. \A f : Load(f) \in Nat /\ Load(f)' \in Nat
    BY <1>1, SupervisionsFinite DEF Load, TypeOK
  <1>6. \A f \in Faculty : Capacity[f] \in Nat
    BY SupervisionAssumption
  <1>7. ASSUME NEW f \in Faculty \ External PROVE Load(f)' <= Capacity[f]
    <2>1. CASE f = request[w].faculty
      <3>1. Load(f) < Capacity[f]
        BY <1>1, <2>1 DEF CapacityInv, PlaceKept
      <3> QED
        BY <1>4, <1>5, <1>6, <3>1
    <2>2. CASE f # request[w].faculty
      BY <1>4, <2>2 DEF CapacityInv, CapacityHeld
    <2> QED
      BY <2>1, <2>2
  <1>8. /\ request'[w].op # "allocate"
        /\ \A v \in Workers : v # w => request'[v] = request[v]
    BY <1>1 DEF TypeOK, Idle
  <1>9. ASSUME NEW v \in Workers, NEW f \in Faculty \ External,
               request'[v].op = "allocate", request'[v].faculty = f
        PROVE  Load(f)' < Capacity[f]
    <2>1. v # w /\ request[v].op = "allocate" /\ request[v].faculty = f
      BY <1>8, <1>9
    <2>2. f # request[w].faculty
      BY <1>1, <2>1 DEF CapacityInv, OneAllocationPerFaculty
    <2> QED
      BY <1>4, <2>1, <2>2 DEF CapacityInv, PlaceKept
  <1>10. OneAllocationPerFaculty'
    BY <1>8 DEF CapacityInv, OneAllocationPerFaculty
  <1> QED
    BY <1>7, <1>9, <1>10 DEF CapacityInv, CapacityHeld, PlaceKept

\* Every step keeps the places.
LEMMA CapacityNext == CapacityInv /\ [Next]_vars => CapacityInv'
  <1> SUFFICES ASSUME CapacityInv, [Next]_vars PROVE CapacityInv'
    OBVIOUS
  <1>1. TypeOK /\ TypeOK'
    BY NextTyped DEF CapacityInv
  <1>2. \A f : Load(f) \in Nat
    BY <1>1, SupervisionsFinite DEF Load, TypeOK
  <1>3. assignments' = assignments => \A f : Load(f)' <= Load(f)
    BY <1>2 DEF Load
  <1>4. CASE \E w \in Workers : Propose(w)
    <2>1. PICK w \in Workers : Propose(w)
      BY <1>4
    <2>2. ASSUME NEW s \in Scholars, NEW f \in Faculty, NEW kind \in Kinds, Allocate(w, s, f, kind)
          PROVE CapacityInv'
      BY <1>1, <2>2, CapacityAllocate
    <2>3. ASSUME NEW s \in Scholars, NEW members \in SUBSET Faculty, FormTac(w, s, members)
          PROVE CapacityInv'
      <3>1. /\ assignments' = assignments
            /\ \A v \in Workers : request'[v] = request[v] \/ request'[v].op # "allocate"
        BY <1>1, <2>3 DEF FormTac, Begin, TypeOK
      <3> QED
        BY <1>1, <1>3, <3>1, PlacesStay
    <2>4. CASE CreateAssignment(w)
      BY <1>1, <2>4, CapacityCreate
    <2>5. CASE CreateSeats(w) \/ Drop(w)
      <3>1. /\ assignments' = assignments
            /\ \A v \in Workers : request'[v] = request[v] \/ request'[v].op # "allocate"
        BY <1>1, <2>5 DEF CreateSeats, Drop, Finish, Idle, TypeOK
      <3> QED
        BY <1>1, <1>3, <3>1, PlacesStay
    <2> QED
      BY <2>1, <2>2, <2>3, <2>4, <2>5 DEF Propose
  <1>5. ASSUME NEW i \in DOMAIN requests, NEW approved \in BOOLEAN, Decide(i, approved)
        PROVE CapacityInv'
    <2> DEFINE q == Decided(requests[i], approved)
    <2>1. /\ q \in ApprovalRequest
          /\ assignments' = CloseAllocation(q, i)
          /\ request' = request
      BY <1>1, <1>5, RequestDecided
    <2> HIDE DEF q
    <2>2. /\ assignments' \in Seq(Assignment)
          /\ DOMAIN assignments' = DOMAIN assignments
          /\ \A a \in DOMAIN assignments :
                /\ assignments'[a].faculty = assignments[a].faculty
                /\ assignments'[a].kind = assignments[a].kind
                /\ assignments'[a].open => assignments[a].open
      <3>1. q.status \in {"PENDING", "APPROVED", "REJECTED"}
        BY <2>1 DEF ApprovalRequest
      <3> QED
        BY <1>1, <2>1, <3>1, AllocationClosed
    <2>3. \A f : Load(f)' <= Load(f)
      BY <1>1, <2>2, LoadFalls
    <2> QED
      BY <1>1, <2>1, <2>3, PlacesStay
  <1>6. ASSUME NEW a \in DOMAIN assignments, EndAssignment(a) PROVE CapacityInv'
    <2>1. /\ assignments' \in Seq(Assignment)
          /\ DOMAIN assignments' = DOMAIN assignments
          /\ \A b \in DOMAIN assignments :
                /\ assignments'[b].faculty = assignments[b].faculty
                /\ assignments'[b].kind = assignments[b].kind
                /\ assignments'[b].open => assignments[b].open
      BY <1>1, <1>6 DEF EndAssignment, TypeOK
    <2>2. \A f : Load(f)' <= Load(f)
      BY <1>1, <2>1, LoadFalls
    <2> QED
      BY <1>1, <1>6, <2>2, PlacesStay DEF EndAssignment
  <1>7. CASE \/ \E t \in DOMAIN tacs, f \in Faculty : EndSeat(t, f)
             \/ UNCHANGED vars
    <2>1. assignments' = assignments /\ request' = request
      BY <1>7 DEF EndSeat, vars
    <2> QED
      BY <1>1, <1>3, <2>1, PlacesStay
  <1> QED
    BY <1>4, <1>5, <1>6, <1>7 DEF Next

\* "Two concurrent allocations cannot both take the last seat", for any number of them.
THEOREM CapacityHolds == Spec => []CapacityHeld
  <1>1. CapacityInv => CapacityHeld
    BY DEF CapacityInv
  <1> QED
    BY CapacityInit, CapacityNext, <1>1, PTL DEF Spec

-----------------------------------------------------------------------------
(* Approval records.  What a row says follows its request only because the  *)
(* callback runs in the decision's own transaction and because the row      *)
(* refers to a request that exists, its own kind's.                         *)

Referenced ==
    /\ \A a \in DOMAIN assignments : assignments[a].approval \in DOMAIN requests
    /\ \A t \in DOMAIN tacs : tacs[t].approval \in DOMAIN requests

RecordsInv == TypeOK /\ Referenced /\ DecisionsAgree

\* What DecisionsAgree says of one allocation and of one TAC, with its request q.
AllocationAgrees(row, q) ==
    /\ row.approved <=> q.status = "APPROVED"
    /\ q.status = "REJECTED" => ~row.open
    /\ q.code = "SUPERVISOR_ALLOCATION"

TacAgrees(row, q) ==
    /\ row.approved <=> q.status = "APPROVED"
    /\ q.status = "REJECTED" => row.open = {}
    /\ q.code = "TAC_FORMATION"

\* The invariant, row by row.
LEMMA RecordsByRow ==
    Referenced /\ DecisionsAgree <=>
        /\ \A a \in DOMAIN assignments :
              /\ assignments[a].approval \in DOMAIN requests
              /\ AllocationAgrees(assignments[a], requests[assignments[a].approval])
        /\ \A t \in DOMAIN tacs :
              /\ tacs[t].approval \in DOMAIN requests
              /\ TacAgrees(tacs[t], requests[tacs[t].approval])
        /\ Len(requests) = Len(assignments) + Len(tacs)
  BY DEF Referenced, DecisionsAgree, AllocationAgrees, TacAgrees

\* What appending to the requests leaves in place.
LEMMA RequestStarted ==
    ASSUME TypeOK, NEW code, StartApproval(code)
    PROVE  /\ Len(requests') = Len(requests) + 1
           /\ Len(requests) + 1 \in DOMAIN requests'
           /\ requests'[Len(requests) + 1] = Started(code)
           /\ \A i \in DOMAIN requests : i \in DOMAIN requests' /\ requests'[i] = requests[i]
  BY DEF TypeOK, ChainsTypeOK, StartApproval

\* A new allocation has a new request of its own.
LEMMA RecordsCreateAssignment ==
    ASSUME RecordsInv, TypeOK', NEW w \in Workers, CreateAssignment(w)
    PROVE  RecordsInv'
  <1> DEFINE row == [scholar |-> request[w].scholar, faculty |-> request[w].faculty,
                     kind |-> request[w].kind, open |-> TRUE, approved |-> FALSE,
                     approval |-> Len(requests) + 1]
  <1>1. /\ TypeOK
        /\ assignments' = Append(assignments, row)
        /\ StartApproval("SUPERVISOR_ALLOCATION")
        /\ tacs' = tacs
    BY DEF RecordsInv, CreateAssignment
  <1>2. row.approval = Len(requests) + 1 /\ AllocationAgrees(row, Started("SUPERVISOR_ALLOCATION"))
    BY DEF AllocationAgrees, Started
  <1> HIDE DEF row
  <1>3. /\ Len(assignments') = Len(assignments) + 1
        /\ \A a \in DOMAIN assignments' :
              \/ assignments'[a] = row
              \/ a \in DOMAIN assignments /\ assignments'[a] = assignments[a]
    BY <1>1 DEF TypeOK
  <1>4. ASSUME NEW a \in DOMAIN assignments'
        PROVE  /\ assignments'[a].approval \in DOMAIN requests'
               /\ AllocationAgrees(assignments'[a], requests'[assignments'[a].approval])
    BY <1>1, <1>2, <1>3, RequestStarted, RecordsByRow DEF RecordsInv
  <1>5. ASSUME NEW t \in DOMAIN tacs'
        PROVE  /\ tacs'[t].approval \in DOMAIN requests'
               /\ TacAgrees(tacs'[t], requests'[tacs'[t].approval])
    BY <1>1, RequestStarted, RecordsByRow DEF RecordsInv
  <1>6. Len(requests') = Len(assignments') + Len(tacs')
    <2>1. Len(requests) = Len(assignments) + Len(tacs)
      BY RecordsByRow DEF RecordsInv
    <2>2. Len(requests) \in Nat /\ Len(assignments) \in Nat /\ Len(tacs) \in Nat
      BY <1>1 DEF TypeOK, ChainsTypeOK
    <2> QED
      BY <1>1, <1>3, <2>1, <2>2, RequestStarted
  <1>7. (Referenced /\ DecisionsAgree)'
    BY <1>4, <1>5, <1>6 DEF Referenced, DecisionsAgree, AllocationAgrees, TacAgrees
  <1> QED
    BY <1>7 DEF RecordsInv

\* A new TAC has a new request of its own.
LEMMA RecordsCreateSeats ==
    ASSUME RecordsInv, TypeOK', NEW w \in Workers, CreateSeats(w)
    PROVE  RecordsInv'
  <1>1. /\ TypeOK
        /\ StartApproval("TAC_FORMATION")
        /\ assignments' = assignments
    BY DEF RecordsInv, CreateSeats
  <1>2. PICK f : tacs' = Append(tacs, [scholar |-> request[w].scholar, supervisor |-> f,
                                       members |-> request[w].members,
                                       open |-> request[w].members \cup {f},
                                       approved |-> FALSE, approval |-> Len(requests) + 1])
    BY DEF CreateSeats
  <1> DEFINE row == [scholar |-> request[w].scholar, supervisor |-> f,
                     members |-> request[w].members, open |-> request[w].members \cup {f},
                     approved |-> FALSE, approval |-> Len(requests) + 1]
  <1>3. row.approval = Len(requests) + 1 /\ TacAgrees(row, Started("TAC_FORMATION"))
    BY DEF TacAgrees, Started
  <1>4. tacs' = Append(tacs, row)
    BY <1>2
  <1> HIDE DEF row
  <1>5. /\ Len(tacs') = Len(tacs) + 1
        /\ \A t \in DOMAIN tacs' :
              \/ tacs'[t] = row
              \/ t \in DOMAIN tacs /\ tacs'[t] = tacs[t]
    BY <1>1, <1>4 DEF TypeOK
  <1>6. ASSUME NEW t \in DOMAIN tacs'
        PROVE  /\ tacs'[t].approval \in DOMAIN requests'
               /\ TacAgrees(tacs'[t], requests'[tacs'[t].approval])
    BY <1>1, <1>3, <1>5, RequestStarted, RecordsByRow DEF RecordsInv
  <1>7. ASSUME NEW a \in DOMAIN assignments'
        PROVE  /\ assignments'[a].approval \in DOMAIN requests'
               /\ AllocationAgrees(assignments'[a], requests'[assignments'[a].approval])
    BY <1>1, RequestStarted, RecordsByRow DEF RecordsInv
  <1>8. Len(requests') = Len(assignments') + Len(tacs')
    <2>1. Len(requests) = Len(assignments) + Len(tacs)
      BY RecordsByRow DEF RecordsInv
    <2>2. Len(requests) \in Nat /\ Len(assignments) \in Nat /\ Len(tacs) \in Nat
      BY <1>1 DEF TypeOK, ChainsTypeOK
    <2> QED
      BY <1>1, <1>5, <2>1, <2>2, RequestStarted
  <1>9. (Referenced /\ DecisionsAgree)'
    BY <1>6, <1>7, <1>8 DEF Referenced, DecisionsAgree, AllocationAgrees, TacAgrees
  <1> QED
    BY <1>9 DEF RecordsInv

\* A decision changes the rows of its request as it changes the request.
LEMMA RecordsDecide ==
    ASSUME RecordsInv, TypeOK', NEW i \in DOMAIN requests, NEW approved \in BOOLEAN,
           Decide(i, approved)
    PROVE  RecordsInv'
  <1> DEFINE q == Decided(requests[i], approved)
  <1>1. /\ TypeOK
        /\ requests[i].status = "PENDING"
        /\ q \in ApprovalRequest
        /\ q.code = requests[i].code
        /\ requests' = [requests EXCEPT ![i] = q]
        /\ assignments' = CloseAllocation(q, i)
        /\ tacs' = CloseTac(q, i)
    BY RequestDecided DEF RecordsInv
  <1> HIDE DEF q
  <1>2. /\ DOMAIN requests' = DOMAIN requests
        /\ Len(requests') = Len(requests)
        /\ requests'[i] = q
        /\ \A j \in DOMAIN requests : j # i => requests'[j] = requests[j]
    BY <1>1 DEF TypeOK, ChainsTypeOK
  <1>3. q.status \in {"PENDING", "APPROVED", "REJECTED"}
    BY <1>1 DEF ApprovalRequest
  <1>4. ASSUME NEW a \in DOMAIN assignments'
        PROVE  /\ assignments'[a].approval \in DOMAIN requests'
               /\ AllocationAgrees(assignments'[a], requests'[assignments'[a].approval])
    <2>1. /\ a \in DOMAIN assignments
          /\ assignments'[a].approval = assignments[a].approval
          /\ assignments[a].approval # i \/ q.status = "PENDING" => assignments'[a] = assignments[a]
          /\ assignments[a].approval = i /\ q.status = "APPROVED" => assignments'[a].approved
          /\ assignments[a].approval = i /\ q.status = "REJECTED" =>
                ~assignments'[a].open /\ assignments'[a].approved = assignments[a].approved
      BY <1>1, AllocationClosed
    <2>2. /\ assignments[a].approval \in DOMAIN requests
          /\ AllocationAgrees(assignments[a], requests[assignments[a].approval])
      BY <2>1, RecordsByRow DEF RecordsInv
    <2>3. CASE assignments[a].approval = i
      BY <1>1, <1>2, <1>3, <2>1, <2>2, <2>3 DEF AllocationAgrees
    <2>4. CASE assignments[a].approval # i
      BY <1>2, <2>1, <2>2, <2>4
    <2> QED
      BY <2>3, <2>4
  <1>5. ASSUME NEW t \in DOMAIN tacs'
        PROVE  /\ tacs'[t].approval \in DOMAIN requests'
               /\ TacAgrees(tacs'[t], requests'[tacs'[t].approval])
    <2>1. /\ t \in DOMAIN tacs
          /\ tacs'[t].approval = tacs[t].approval
          /\ tacs[t].approval # i \/ q.status = "PENDING" => tacs'[t] = tacs[t]
          /\ tacs[t].approval = i /\ q.status = "APPROVED" => tacs'[t].approved
          /\ tacs[t].approval = i /\ q.status = "REJECTED" =>
                tacs'[t].open = {} /\ tacs'[t].approved = tacs[t].approved
      BY <1>1, TacClosed
    <2>2. /\ tacs[t].approval \in DOMAIN requests
          /\ TacAgrees(tacs[t], requests[tacs[t].approval])
      BY <2>1, RecordsByRow DEF RecordsInv
    <2>3. CASE tacs[t].approval = i
      BY <1>1, <1>2, <1>3, <2>1, <2>2, <2>3 DEF TacAgrees
    <2>4. CASE tacs[t].approval # i
      BY <1>2, <2>1, <2>2, <2>4
    <2> QED
      BY <2>3, <2>4
  <1>6. Len(requests') = Len(assignments') + Len(tacs')
    <2>1. Len(requests) = Len(assignments) + Len(tacs)
      BY RecordsByRow DEF RecordsInv
    <2>2. Len(assignments') = Len(assignments) /\ Len(tacs') = Len(tacs)
      BY <1>1, AllocationClosed, TacClosed DEF TypeOK
    <2> QED
      BY <1>2, <2>1, <2>2
  <1>7. (Referenced /\ DecisionsAgree)'
    BY <1>4, <1>5, <1>6 DEF Referenced, DecisionsAgree, AllocationAgrees, TacAgrees
  <1> QED
    BY <1>7 DEF RecordsInv

\* Every step keeps rows and requests in agreement.
LEMMA RecordsNext == RecordsInv /\ [Next]_vars => RecordsInv'
  <1> SUFFICES ASSUME RecordsInv, [Next]_vars PROVE RecordsInv'
    OBVIOUS
  <1>1. TypeOK /\ TypeOK'
    BY NextTyped DEF RecordsInv
  <1>2. ASSUME UNCHANGED <<requests, assignments, tacs>> PROVE RecordsInv'
    BY <1>1, <1>2 DEF RecordsInv, Referenced, DecisionsAgree
  <1>3. CASE \E w \in Workers : Propose(w)
    BY <1>1, <1>2, <1>3, RecordsCreateAssignment, RecordsCreateSeats
    DEF Propose, Allocate, FormTac, Begin, Drop
  <1>4. CASE \E i \in DOMAIN requests, approved \in BOOLEAN : Decide(i, approved)
    BY <1>1, <1>4, RecordsDecide
  <1>5. ASSUME NEW a \in DOMAIN assignments, EndAssignment(a) PROVE RecordsInv'
    <2>1. /\ DOMAIN assignments' = DOMAIN assignments
          /\ Len(assignments') = Len(assignments)
          /\ \A b \in DOMAIN assignments :
                /\ assignments'[b].approval = assignments[b].approval
                /\ assignments'[b].approved = assignments[b].approved
                /\ assignments'[b].open => assignments[b].open
      BY <1>1, <1>5 DEF EndAssignment, TypeOK
    <2>2. requests' = requests /\ tacs' = tacs
      BY <1>5 DEF EndAssignment
    <2> QED
      BY <1>1, <2>1, <2>2 DEF RecordsInv, Referenced, DecisionsAgree
  <1>6. ASSUME NEW t \in DOMAIN tacs, NEW f \in Faculty, EndSeat(t, f) PROVE RecordsInv'
    <2>1. /\ DOMAIN tacs' = DOMAIN tacs
          /\ Len(tacs') = Len(tacs)
          /\ \A u \in DOMAIN tacs :
                /\ tacs'[u].approval = tacs[u].approval
                /\ tacs'[u].approved = tacs[u].approved
                /\ tacs'[u].open \subseteq tacs[u].open
      BY <1>1, <1>6 DEF EndSeat, TypeOK
    <2>2. requests' = requests /\ assignments' = assignments
      BY <1>6 DEF EndSeat
    <2>3. Referenced'
      BY <2>1, <2>2 DEF RecordsInv, Referenced
    <2>4. DecisionsAgree'
      <3>1. ASSUME NEW a \in DOMAIN assignments
            PROVE  AllocationAgrees(assignments[a], requests[assignments[a].approval])
        BY RecordsByRow DEF RecordsInv
      <3>2. ASSUME NEW u \in DOMAIN tacs
            PROVE  /\ tacs'[u].approval = tacs[u].approval
                   /\ TacAgrees(tacs'[u], requests[tacs[u].approval])
        BY <2>1, <3>2, RecordsByRow DEF RecordsInv, TacAgrees
      <3>3. Len(requests) = Len(assignments) + Len(tacs)
        BY RecordsByRow DEF RecordsInv
      <3> QED
        BY <2>1, <2>2, <3>1, <3>2, <3>3 DEF DecisionsAgree, AllocationAgrees, TacAgrees
    <2> QED
      BY <1>1, <2>3, <2>4 DEF RecordsInv
  <1>7. CASE UNCHANGED vars
    BY <1>2, <1>7 DEF vars
  <1> QED
    BY <1>3, <1>4, <1>5, <1>6, <1>7 DEF Next

\* Nothing is recorded at the start.
LEMMA RecordsInit == Init => RecordsInv
  BY InitTyped DEF Init, ChainsInit, RecordsInv, Referenced, DecisionsAgree

\* "The domain object's state and the approval record never disagree", for any proposals,
\* decisions and edits of the office.
THEOREM DecisionsAgreeHolds == Spec => []DecisionsAgree
  <1>1. RecordsInv => DecisionsAgree
    BY DEF RecordsInv
  <1> QED
    BY RecordsInit, RecordsNext, <1>1, PTL DEF Spec

\* Where nobody edits the chains, what is approved was signed at every step.
THEOREM SignedThroughoutHolds == Spec => []SignedThroughout
  <1>1. Init => RequestsInv
    BY ChainsAssumption, ChainsInitSound DEF Init
  <1>2. TypeOK /\ RequestsInv /\ [Next]_vars => RequestsInv'
    BY ChainsAssumption, NextIsRequestStep, RequestsKept
  <1>3. RequestsInv => SignedThroughout
    BY SoFarThroughout DEF RequestsInv
  <1> QED
    BY <1>1, <1>2, <1>3, TypeCorrect, PTL DEF Spec

-----------------------------------------------------------------------------
(* One TAC under one supervisor, where nobody ends rows by hand.  Two TACs   *)
(* of a scholar would both hold an open seat of a supervisor approved for    *)
(* that scholar; there is one such supervisor, and one open seat of his.     *)

ApprovedSupervision(a, s, f) ==
    /\ assignments[a].scholar = s
    /\ assignments[a].faculty = f
    /\ assignments[a].kind = "SUPERVISOR"
    /\ assignments[a].open
    /\ assignments[a].approved

Led ==
    \A t \in DOMAIN tacs : tacs[t].scholar \notin Ended /\ tacs[t].open # {} =>
        /\ tacs[t].supervisor \in tacs[t].open
        /\ \E a \in DOMAIN assignments :
              ApprovedSupervision(a, tacs[t].scholar, tacs[t].supervisor)

TacInv ==
    /\ RecordsInv
    /\ AssignmentsAdmissible(assignments)
    /\ SeatsAdmissible(tacs)
    /\ Led

\* A scholar has at most one approved supervisor.
LEMMA OneSupervisor ==
    ASSUME AssignmentsAdmissible(assignments),
           NEW s, NEW f, NEW g,
           NEW a \in DOMAIN assignments, ApprovedSupervision(a, s, f),
           NEW b \in DOMAIN assignments, ApprovedSupervision(b, s, g)
    PROVE  f = g
  BY DEF AssignmentsAdmissible, ApprovedSupervision

\* The invariant gives both properties.
LEMMA TacInvMeans == TacInv => OneTac /\ LedByCurrentSupervisor
  <1> SUFFICES ASSUME TacInv
               PROVE  /\ \A t, u \in DOMAIN tacs :
                            /\ tacs[t].scholar = tacs[u].scholar
                            /\ tacs[t].scholar \notin Ended
                            /\ tacs[t].open # {}
                            /\ tacs[u].open # {}
                            => t = u
                      /\ \A t \in DOMAIN tacs : tacs[t].scholar \notin Ended /\ tacs[t].open # {} =>
                            CurrentSupervisor(tacs[t].scholar) = {tacs[t].supervisor}
    BY DEF OneTac, LedByCurrentSupervisor
  <1>1. ASSUME NEW t \in DOMAIN tacs, tacs[t].scholar \notin Ended, tacs[t].open # {}
        PROVE  /\ tacs[t].supervisor \in tacs[t].open
               /\ \E a \in DOMAIN assignments :
                     ApprovedSupervision(a, tacs[t].scholar, tacs[t].supervisor)
    BY <1>1 DEF TacInv, Led
  <1>2. ASSUME NEW t \in DOMAIN tacs, NEW u \in DOMAIN tacs, tacs[t].scholar = tacs[u].scholar,
               tacs[t].scholar \notin Ended, tacs[t].open # {}, tacs[u].open # {}
        PROVE  t = u
    <2>1. tacs[t].supervisor = tacs[u].supervisor
      BY <1>1, <1>2, OneSupervisor DEF TacInv
    <2>2. tacs[t].open \cap tacs[u].open # {}
      BY <1>1, <1>2, <2>1
    <2> QED
      BY <1>2, <2>2 DEF TacInv, SeatsAdmissible
  <1>3. ASSUME NEW t \in DOMAIN tacs, tacs[t].scholar \notin Ended, tacs[t].open # {}
        PROVE  CurrentSupervisor(tacs[t].scholar) = {tacs[t].supervisor}
    <2>1. tacs[t].supervisor \in CurrentSupervisor(tacs[t].scholar)
      BY <1>1, <1>3 DEF ApprovedSupervision, CurrentSupervisor, OpenOf
    <2>2. ASSUME NEW f \in CurrentSupervisor(tacs[t].scholar) PROVE f = tacs[t].supervisor
      <3>1. \E a \in DOMAIN assignments : ApprovedSupervision(a, tacs[t].scholar, f)
        BY CurrentSupervisorRow DEF TacInv, RecordsInv, ApprovedSupervision
      <3> QED
        BY <1>1, <1>3, <3>1, OneSupervisor DEF TacInv
    <2> QED
      BY <2>1, <2>2
  <1> QED
    BY <1>2, <1>3

\* A new allocation leaves the approved ones as they are.
LEMMA TacCreateAssignment ==
    ASSUME TacInv, RecordsInv', NEW w \in Workers, CreateAssignment(w)
    PROVE  TacInv'
  <1>1. PICK row : assignments' = Append(assignments, row)
    BY DEF CreateAssignment
  <1>2. tacs' = tacs /\ AssignmentsAdmissible(assignments')
    BY DEF CreateAssignment
  <1>3. \A a \in DOMAIN assignments :
            a \in DOMAIN assignments' /\ assignments'[a] = assignments[a]
    BY <1>1 DEF TacInv, RecordsInv, TypeOK
  <1>4. Led'
    <2> SUFFICES ASSUME NEW t \in DOMAIN tacs, tacs[t].scholar \notin Ended, tacs[t].open # {}
                 PROVE  /\ tacs[t].supervisor \in tacs[t].open
                        /\ \E a \in DOMAIN assignments' :
                              ApprovedSupervision(a, tacs[t].scholar, tacs[t].supervisor)'
      BY <1>2 DEF Led
    <2>1. PICK a \in DOMAIN assignments :
              ApprovedSupervision(a, tacs[t].scholar, tacs[t].supervisor)
      BY DEF TacInv, Led
    <2>2. ApprovedSupervision(a, tacs[t].scholar, tacs[t].supervisor)'
      BY <1>2, <1>3, <2>1 DEF ApprovedSupervision
    <2> QED
      BY <1>3, <2>2 DEF TacInv, Led
  <1> QED
    BY <1>2, <1>4 DEF TacInv

\* A new TAC is under the supervisor approved when its seats are inserted.
LEMMA TacCreateSeats ==
    ASSUME TacInv, RecordsInv', NEW w \in Workers, CreateSeats(w)
    PROVE  TacInv'
  <1>1. PICK f \in CurrentSupervisor(request[w].scholar) :
            /\ tacs' = Append(tacs, [scholar |-> request[w].scholar, supervisor |-> f,
                                     members |-> request[w].members,
                                     open |-> request[w].members \cup {f},
                                     approved |-> FALSE, approval |-> Len(requests) + 1])
            /\ SeatsAdmissible(tacs')
    BY DEF CreateSeats
  <1> DEFINE row == [scholar |-> request[w].scholar, supervisor |-> f,
                     members |-> request[w].members, open |-> request[w].members \cup {f},
                     approved |-> FALSE, approval |-> Len(requests) + 1]
  <1>2. assignments' = assignments
    BY DEF CreateSeats
  <1>3. row.scholar = request[w].scholar /\ row.supervisor = f /\ f \in row.open
    OBVIOUS
  <1>4. tacs' = Append(tacs, row)
    BY <1>1
  <1>5. \E a \in DOMAIN assignments : ApprovedSupervision(a, request[w].scholar, f)
    BY CurrentSupervisorRow DEF TacInv, RecordsInv, ApprovedSupervision
  <1> HIDE DEF row
  <1>6. \A t \in DOMAIN tacs' :
            \/ tacs'[t] = row
            \/ t \in DOMAIN tacs /\ tacs'[t] = tacs[t]
    BY <1>4 DEF TacInv, RecordsInv, TypeOK
  <1>7. Led'
    BY <1>2, <1>3, <1>5, <1>6 DEF TacInv, Led, ApprovedSupervision
  <1> QED
    BY <1>1, <1>2, <1>7 DEF TacInv

\* A decision opens nothing, and closes only what was not approved.
LEMMA TacDecide ==
    ASSUME TacInv, RecordsInv', NEW i \in DOMAIN requests, NEW approved \in BOOLEAN,
           Decide(i, approved)
    PROVE  TacInv'
  <1> DEFINE q == Decided(requests[i], approved)
  <1>1. /\ TypeOK
        /\ requests[i].status = "PENDING"
        /\ q \in ApprovalRequest
        /\ assignments' = CloseAllocation(q, i)
        /\ tacs' = CloseTac(q, i)
    BY RequestDecided DEF TacInv, RecordsInv
  <1> HIDE DEF q
  <1>2. q.status \in {"PENDING", "APPROVED", "REJECTED"}
    BY <1>1 DEF ApprovalRequest
  <1>3. /\ DOMAIN assignments' = DOMAIN assignments
        /\ \A a \in DOMAIN assignments :
              /\ assignments'[a].scholar = assignments[a].scholar
              /\ assignments'[a].faculty = assignments[a].faculty
              /\ assignments'[a].kind = assignments[a].kind
              /\ assignments'[a].open => assignments[a].open
              /\ assignments[a].approval # i => assignments'[a] = assignments[a]
    BY <1>1, <1>2, AllocationClosed
  <1>4. /\ DOMAIN tacs' = DOMAIN tacs
        /\ \A t \in DOMAIN tacs :
              /\ tacs'[t].scholar = tacs[t].scholar
              /\ tacs'[t].supervisor = tacs[t].supervisor
              /\ tacs'[t].open = tacs[t].open \/ tacs'[t].open = {}
    BY <1>1, <1>2, TacClosed
  <1>5. AssignmentsAdmissible(assignments')
    BY <1>3 DEF TacInv, AssignmentsAdmissible
  <1>6. SeatsAdmissible(tacs')
    BY <1>4 DEF TacInv, SeatsAdmissible
  <1>7. \A a \in DOMAIN assignments : assignments[a].approved => assignments'[a] = assignments[a]
    BY <1>1, <1>3, RecordsByRow DEF TacInv, RecordsInv, AllocationAgrees
  <1>8. Led'
    <2> SUFFICES ASSUME NEW t \in DOMAIN tacs, tacs[t].scholar \notin Ended, tacs'[t].open # {}
                 PROVE  /\ tacs'[t].supervisor \in tacs'[t].open
                        /\ \E a \in DOMAIN assignments' :
                              /\ assignments'[a].scholar = tacs'[t].scholar
                              /\ assignments'[a].faculty = tacs'[t].supervisor
                              /\ assignments'[a].kind = "SUPERVISOR"
                              /\ assignments'[a].open
                              /\ assignments'[a].approved
      BY <1>4 DEF Led, ApprovedSupervision
    <2>1. tacs'[t].open = tacs[t].open
      BY <1>4
    <2>2. PICK a \in DOMAIN assignments :
              ApprovedSupervision(a, tacs[t].scholar, tacs[t].supervisor)
      BY <2>1 DEF TacInv, Led
    <2>3. assignments'[a] = assignments[a]
      BY <1>7, <2>2 DEF ApprovedSupervision
    <2> QED
      BY <1>3, <1>4, <2>1, <2>2, <2>3 DEF TacInv, Led, ApprovedSupervision
  <1> QED
    BY <1>5, <1>6, <1>8 DEF TacInv

\* Every step keeps the TACs led.
LEMMA TacNext == TacInv /\ [Next]_vars => TacInv'
  <1> SUFFICES ASSUME TacInv, [Next]_vars PROVE TacInv'
    OBVIOUS
  <1>1. TypeOK /\ RecordsInv'
    BY RecordsNext DEF TacInv, RecordsInv
  <1>2. ASSUME UNCHANGED <<assignments, tacs>> PROVE TacInv'
    BY <1>1, <1>2 DEF TacInv, Led, ApprovedSupervision
  <1>3. CASE \E w \in Workers : Propose(w)
    BY <1>1, <1>2, <1>3, TacCreateAssignment, TacCreateSeats
    DEF Propose, Allocate, FormTac, Begin, Drop
  <1>4. CASE \E i \in DOMAIN requests, approved \in BOOLEAN : Decide(i, approved)
    BY <1>1, <1>4, TacDecide
  <1>5. ASSUME NEW a \in DOMAIN assignments, EndAssignment(a) PROVE TacInv'
    <2>1. /\ DOMAIN assignments' = DOMAIN assignments
          /\ \A b \in DOMAIN assignments :
                /\ assignments'[b].scholar = assignments[b].scholar
                /\ assignments'[b].faculty = assignments[b].faculty
                /\ assignments'[b].kind = assignments[b].kind
                /\ assignments'[b].open => assignments[b].open
      BY <1>1, <1>5 DEF EndAssignment, TypeOK
    <2>2. tacs' = tacs /\ assignments[a].scholar \in Ended
      BY <1>5 DEF EndAssignment
    <2>3. AssignmentsAdmissible(assignments')
      BY <2>1 DEF TacInv, AssignmentsAdmissible
    <2>4. \A b \in DOMAIN assignments :
              assignments[b].scholar \notin Ended => assignments'[b] = assignments[b]
      BY <1>1, <1>5, <2>2 DEF EndAssignment, TypeOK
    <2>5. Led'
      BY <2>1, <2>2, <2>4 DEF TacInv, Led, ApprovedSupervision
    <2> QED
      BY <1>1, <2>2, <2>3, <2>5 DEF TacInv
  <1>6. ASSUME NEW t \in DOMAIN tacs, NEW f \in Faculty, EndSeat(t, f) PROVE TacInv'
    <2>1. /\ DOMAIN tacs' = DOMAIN tacs
          /\ \A u \in DOMAIN tacs :
                /\ tacs'[u].scholar = tacs[u].scholar
                /\ tacs'[u].open \subseteq tacs[u].open
      BY <1>1, <1>6 DEF EndSeat, TypeOK
    <2>2. assignments' = assignments /\ tacs[t].scholar \in Ended
      BY <1>6 DEF EndSeat
    <2>3. SeatsAdmissible(tacs')
      BY <2>1 DEF TacInv, SeatsAdmissible
    <2>4. \A u \in DOMAIN tacs :
              tacs'[u].scholar \notin Ended => tacs'[u] = tacs[u]
      BY <1>1, <1>6, <2>1, <2>2 DEF EndSeat, TypeOK
    <2>5. Led'
      BY <2>1, <2>2, <2>4 DEF TacInv, Led, ApprovedSupervision
    <2> QED
      BY <1>1, <2>2, <2>3, <2>5 DEF TacInv
  <1>7. CASE UNCHANGED vars
    BY <1>2, <1>7 DEF vars
  <1> QED
    BY <1>3, <1>4, <1>5, <1>6, <1>7 DEF Next

\* There are no rows at the start.
LEMMA TacInit == Init => TacInv
  BY RecordsInit DEF Init, TacInv, AssignmentsAdmissible, SeatsAdmissible, Led

\* A scholar has one TAC at a time, however many proposals for it interleave.
THEOREM OneTacHolds == Spec => []OneTac
  BY TacInit, TacNext, TacInvMeans, PTL DEF Spec

\* An open TAC is led by the scholar's current supervisor.
THEOREM LedByCurrentSupervisorHolds == Spec => []LedByCurrentSupervisor
  BY TacInit, TacNext, TacInvMeans, PTL DEF Spec

-----------------------------------------------------------------------------
(* Members who do not supervise.  A proposal in flight still has what it    *)
(* checked, since only one of the other kind for the same scholar could     *)
(* take it away, and then the scholar is crossed.                           *)

\* What an allocation or a TAC in flight checked of the other table.
CheckedAt(w) ==
    request[w].scholar \notin crossed =>
        /\ request[w].op = "allocate" => ~HasSeat(request[w].scholar, request[w].faculty)
        /\ request[w].op = "form" =>
              \A i \in OpenOf(request[w].scholar) : assignments[i].faculty \notin request[w].members

CheckedApart == \A w \in Workers : CheckedAt(w)

CrossedKnown ==
    \A v, w \in Workers :
        /\ request[v].op = "allocate"
        /\ request[w].op = "form"
        /\ request[v].scholar = request[w].scholar
        => request[v].scholar \in crossed

IndependentInv == TypeOK /\ TacIndependentInTurn /\ CheckedApart /\ CrossedKnown

\* Closing allocations and seats takes nothing from a proposal in flight.
LEMMA IndependentClosing ==
    ASSUME IndependentInv, TypeOK', request' = request, crossed' = crossed,
           DOMAIN assignments' = DOMAIN assignments,
           \A a \in DOMAIN assignments :
              /\ assignments'[a].scholar = assignments[a].scholar
              /\ assignments'[a].faculty = assignments[a].faculty
              /\ assignments'[a].open => assignments[a].open,
           DOMAIN tacs' = DOMAIN tacs,
           \A t \in DOMAIN tacs :
              /\ tacs'[t].scholar = tacs[t].scholar
              /\ tacs'[t].members = tacs[t].members
              /\ tacs'[t].open \subseteq tacs[t].open
    PROVE  IndependentInv'
  <1>1. TacIndependentInTurn'
    BY DEF IndependentInv, TacIndependentInTurn
  <1>2. CheckedApart'
    BY DEF IndependentInv, CheckedApart, CheckedAt, HasSeat, OpenOf
  <1>3. CrossedKnown'
    BY DEF IndependentInv, CrossedKnown
  <1> QED
    BY <1>1, <1>2, <1>3 DEF IndependentInv

\* A proposal that begins marks its scholar when it meets one of the other kind.
LEMMA IndependentBegin ==
    ASSUME IndependentInv, TypeOK', NEW w \in Workers, NEW r, Begin(w, r),
           r.op \in {"allocate", "form"},
           r.op = "allocate" => ~HasSeat(r.scholar, r.faculty),
           r.op = "form" => \A i \in OpenOf(r.scholar) : assignments[i].faculty \notin r.members
    PROVE  IndependentInv'
  <1>1. /\ request' = [request EXCEPT ![w] = r]
        /\ crossed' = crossed \cup
              {s \in {r.scholar} : \E v \in Workers :
                  request[v] # Idle /\ request[v].op # r.op /\ request[v].scholar = s}
        /\ assignments' = assignments /\ tacs' = tacs
        /\ request \in [Workers -> Request]
    BY DEF Begin, IndependentInv, TypeOK
  <1>2. /\ request'[w] = r
        /\ \A v \in Workers \ {w} : request'[v] = request[v]
    BY <1>1
  <1>3. crossed \subseteq crossed'
    BY <1>1
  <1>4. TacIndependentInTurn'
    BY <1>1, <1>3 DEF IndependentInv, TacIndependentInTurn
  <1>5. CheckedApart'
    <2>1. ASSUME NEW v \in Workers, request'[v].scholar \notin crossed'
          PROVE  /\ request'[v].op = "allocate" =>
                       ~HasSeat(request'[v].scholar, request'[v].faculty)
                 /\ request'[v].op = "form" =>
                       \A i \in OpenOf(request'[v].scholar) :
                          assignments[i].faculty \notin request'[v].members
      BY <1>2, <1>3, <2>1 DEF IndependentInv, CheckedApart, CheckedAt
    <2> QED
      BY <1>1, <2>1 DEF CheckedApart, CheckedAt, HasSeat, OpenOf
  <1>6. ASSUME NEW v \in Workers, v # w, request[v].op \in {"allocate", "form"},
               request[v].op # r.op, request[v].scholar = r.scholar
        PROVE  r.scholar \in crossed'
    <2>1. request[v] # Idle
      BY <1>6 DEF Idle
    <2> QED
      BY <1>1, <1>6, <2>1
  <1>7. CrossedKnown'
    <2> SUFFICES ASSUME NEW u \in Workers, NEW v \in Workers,
                        request'[u].op = "allocate", request'[v].op = "form",
                        request'[u].scholar = request'[v].scholar
                 PROVE  request'[u].scholar \in crossed'
      BY DEF CrossedKnown
    <2>1. u # v
      OBVIOUS
    <2>2. CASE u = w
      BY <1>2, <1>6, <2>1, <2>2
    <2>3. CASE v = w
      BY <1>2, <1>6, <2>1, <2>3
    <2>4. CASE u # w /\ v # w
      BY <1>2, <1>3, <2>4 DEF IndependentInv, CrossedKnown
    <2> QED
      BY <2>2, <2>3, <2>4
  <1> QED
    BY <1>4, <1>5, <1>7 DEF IndependentInv

\* A proposal that ends is no longer in flight.
LEMMA IndependentFinish ==
    ASSUME IndependentInv, NEW w \in Workers, Finish(w)
    PROVE  /\ CrossedKnown'
           /\ crossed' = crossed
           /\ \A v \in Workers : request'[v].op \in {"allocate", "form"} =>
                 v # w /\ request'[v] = request[v]
  <1>1. \A v \in Workers : request'[v] = IF v = w THEN Idle ELSE request[v]
    BY DEF Finish, IndependentInv, TypeOK
  <1>2. \A v \in Workers : request'[v].op \in {"allocate", "form"} =>
            v # w /\ request'[v] = request[v]
    BY <1>1 DEF Idle
  <1>3. crossed' = crossed
    BY DEF Finish
  <1>4. CrossedKnown'
    BY <1>2, <1>3 DEF IndependentInv, CrossedKnown
  <1> QED
    BY <1>2, <1>3, <1>4

\* An allocation opens for a faculty without a seat.
LEMMA IndependentCreateAssignment ==
    ASSUME IndependentInv, TypeOK', NEW w \in Workers, CreateAssignment(w)
    PROVE  IndependentInv'
  <1> DEFINE row == [scholar |-> request[w].scholar, faculty |-> request[w].faculty,
                     kind |-> request[w].kind, open |-> TRUE, approved |-> FALSE,
                     approval |-> Len(requests) + 1]
  <1>1. assignments' = Append(assignments, row) /\ tacs' = tacs /\ request[w].op = "allocate"
    BY DEF CreateAssignment
  <1>2. row.scholar = request[w].scholar /\ row.faculty = request[w].faculty
    OBVIOUS
  <1> HIDE DEF row
  <1>3. \A a \in DOMAIN assignments' :
            \/ a \in DOMAIN assignments /\ assignments'[a] = assignments[a]
            \/ assignments'[a] = row
    BY <1>1 DEF IndependentInv, TypeOK
  <1>4. /\ CrossedKnown' /\ crossed' = crossed
        /\ \A v \in Workers : request'[v].op \in {"allocate", "form"} =>
              v # w /\ request'[v] = request[v]
    BY IndependentFinish DEF CreateAssignment
  <1>5. TacIndependentInTurn'
    <2>1. row.scholar \notin crossed => ~HasSeat(row.scholar, row.faculty)
      BY <1>1, <1>2 DEF IndependentInv, CheckedApart, CheckedAt
    <2> QED
      BY <1>1, <1>3, <1>4, <2>1 DEF IndependentInv, TacIndependentInTurn, HasSeat
  <1>6. CheckedApart'
    <2> SUFFICES ASSUME NEW v \in Workers, (request[v].scholar \notin crossed)'
                 PROVE  CheckedAt(v)'
      BY DEF CheckedApart, CheckedAt
    <2>1. CASE request'[v].op = "allocate"
      BY <1>1, <1>4, <2>1 DEF IndependentInv, CheckedApart, CheckedAt, HasSeat
    <2>2. CASE request'[v].op = "form"
      <3>1. request[v].op = "form" /\ request'[v] = request[v] /\ request[v].scholar \notin crossed
        BY <1>4, <2>2
      <3>2. row.scholar # request[v].scholar
        BY <1>1, <1>2, <3>1 DEF IndependentInv, CrossedKnown
      <3>3. \A i \in OpenOf(request[v].scholar) : assignments[i].faculty \notin request[v].members
        BY <3>1 DEF IndependentInv, CheckedApart, CheckedAt
      <3> QED
        BY <1>3, <2>2, <3>1, <3>2, <3>3 DEF CheckedAt, OpenOf
    <2> QED
      BY <2>1, <2>2 DEF CheckedAt
  <1> QED
    BY <1>4, <1>5, <1>6 DEF IndependentInv

\* Seats open for members who do not supervise the scholar.
LEMMA IndependentCreateSeats ==
    ASSUME IndependentInv, TypeOK', NEW w \in Workers, CreateSeats(w)
    PROVE  IndependentInv'
  <1>1. PICK f \in CurrentSupervisor(request[w].scholar) :
            tacs' = Append(tacs, [scholar |-> request[w].scholar, supervisor |-> f,
                                  members |-> request[w].members,
                                  open |-> request[w].members \cup {f},
                                  approved |-> FALSE, approval |-> Len(requests) + 1])
    BY DEF CreateSeats
  <1> DEFINE row == [scholar |-> request[w].scholar, supervisor |-> f,
                     members |-> request[w].members, open |-> request[w].members \cup {f},
                     approved |-> FALSE, approval |-> Len(requests) + 1]
  <1>2. tacs' = Append(tacs, row) /\ assignments' = assignments /\ request[w].op = "form"
    BY <1>1 DEF CreateSeats
  <1>3. row.scholar = request[w].scholar /\ row.members = request[w].members
    OBVIOUS
  <1> HIDE DEF row
  <1>4. \A t \in DOMAIN tacs' :
            \/ t \in DOMAIN tacs /\ tacs'[t] = tacs[t]
            \/ tacs'[t] = row
    BY <1>2 DEF IndependentInv, TypeOK
  <1>5. /\ CrossedKnown' /\ crossed' = crossed
        /\ \A v \in Workers : request'[v].op \in {"allocate", "form"} =>
              v # w /\ request'[v] = request[v]
    BY IndependentFinish DEF CreateSeats
  <1>6. TacIndependentInTurn'
    <2>1. row.scholar \notin crossed =>
              \A i \in OpenOf(row.scholar) : assignments[i].faculty \notin row.members
      BY <1>2, <1>3 DEF IndependentInv, CheckedApart, CheckedAt
    <2> QED
      BY <1>2, <1>4, <1>5, <2>1 DEF IndependentInv, TacIndependentInTurn, OpenOf
  <1>7. CheckedApart'
    <2> SUFFICES ASSUME NEW v \in Workers, (request[v].scholar \notin crossed)'
                 PROVE  CheckedAt(v)'
      BY DEF CheckedApart, CheckedAt
    <2>1. CASE request'[v].op = "form"
      BY <1>2, <1>5, <2>1 DEF IndependentInv, CheckedApart, CheckedAt, OpenOf
    <2>2. CASE request'[v].op = "allocate"
      <3>1. /\ request[v].op = "allocate" /\ request'[v] = request[v]
            /\ request[v].scholar \notin crossed
        BY <1>5, <2>2
      <3>2. row.scholar # request[v].scholar
        BY <1>2, <1>3, <3>1 DEF IndependentInv, CrossedKnown
      <3>3. ~HasSeat(request[v].scholar, request[v].faculty)
        BY <3>1 DEF IndependentInv, CheckedApart, CheckedAt
      <3> QED
        BY <1>4, <2>2, <3>1, <3>2, <3>3 DEF CheckedAt, HasSeat
    <2> QED
      BY <2>1, <2>2 DEF CheckedAt
  <1> QED
    BY <1>5, <1>6, <1>7 DEF IndependentInv

\* IndependentInv is inductive.
LEMMA IndependentNext == IndependentInv /\ [Next]_vars => IndependentInv'
  <1> SUFFICES ASSUME IndependentInv, [Next]_vars PROVE IndependentInv'
    OBVIOUS
  <1>0. TypeOK /\ TypeOK'
    BY NextTyped DEF IndependentInv
  <1>1. ASSUME NEW w \in Workers, NEW s \in Scholars, NEW f \in Faculty, NEW kind \in Kinds,
               Allocate(w, s, f, kind)
        PROVE  IndependentInv'
    <2> DEFINE r == [op |-> "allocate", scholar |-> s, faculty |-> f, kind |-> kind]
    <2>1. Begin(w, r) /\ ~HasSeat(s, f)
      BY <1>1 DEF Allocate, MayAllocate
    <2>2. r.op = "allocate" /\ r.scholar = s /\ r.faculty = f
      OBVIOUS
    <2> HIDE DEF r
    <2> QED
      BY <1>0, <2>1, <2>2, IndependentBegin
  <1>2. ASSUME NEW w \in Workers, NEW s \in Scholars, NEW members \in SUBSET Faculty,
               FormTac(w, s, members)
        PROVE  IndependentInv'
    <2> DEFINE r == [op |-> "form", scholar |-> s, members |-> members]
    <2>1. Begin(w, r) /\ \A i \in OpenOf(s) : assignments[i].faculty \notin members
      BY <1>2 DEF FormTac, MayFormTac
    <2>2. r.op = "form" /\ r.scholar = s /\ r.members = members
      OBVIOUS
    <2> HIDE DEF r
    <2> QED
      BY <1>0, <2>1, <2>2, IndependentBegin
  <1>3. ASSUME NEW w \in Workers, Drop(w) PROVE IndependentInv'
    <2>1. /\ CrossedKnown' /\ crossed' = crossed
          /\ \A v \in Workers : request'[v].op \in {"allocate", "form"} =>
                v # w /\ request'[v] = request[v]
      BY <1>3, IndependentFinish DEF Drop
    <2>2. assignments' = assignments /\ tacs' = tacs
      BY <1>3 DEF Drop
    <2>3. TacIndependentInTurn' /\ CheckedApart'
      BY <2>1, <2>2 DEF IndependentInv, TacIndependentInTurn, CheckedApart, CheckedAt, HasSeat, OpenOf
    <2> QED
      BY <1>0, <2>1, <2>3 DEF IndependentInv
  <1>4. ASSUME NEW i \in DOMAIN requests, NEW approved \in BOOLEAN, Decide(i, approved)
        PROVE  IndependentInv'
    <2> DEFINE q == Decided(requests[i], approved)
    <2>1. /\ q \in ApprovalRequest
          /\ assignments' = CloseAllocation(q, i)
          /\ tacs' = CloseTac(q, i)
          /\ request' = request /\ crossed' = crossed
      BY <1>0, <1>4, RequestDecided
    <2> HIDE DEF q
    <2>2. q.status \in {"PENDING", "APPROVED", "REJECTED"}
      BY <2>1 DEF ApprovalRequest
    <2>3. /\ DOMAIN assignments' = DOMAIN assignments
          /\ \A a \in DOMAIN assignments :
                /\ assignments'[a].scholar = assignments[a].scholar
                /\ assignments'[a].faculty = assignments[a].faculty
                /\ assignments'[a].open => assignments[a].open
      BY <1>0, <2>1, <2>2, AllocationClosed
    <2>4. /\ DOMAIN tacs' = DOMAIN tacs
          /\ \A t \in DOMAIN tacs :
                /\ tacs'[t].scholar = tacs[t].scholar
                /\ tacs'[t].members = tacs[t].members
                /\ tacs'[t].open \subseteq tacs[t].open
      BY <1>0, <2>1, <2>2, TacClosed
    <2> QED
      BY <1>0, <2>1, <2>3, <2>4, IndependentClosing
  <1>5. ASSUME NEW a \in DOMAIN assignments, EndAssignment(a) PROVE IndependentInv'
    <2>1. /\ DOMAIN assignments' = DOMAIN assignments
          /\ \A b \in DOMAIN assignments :
                /\ assignments'[b].scholar = assignments[b].scholar
                /\ assignments'[b].faculty = assignments[b].faculty
                /\ assignments'[b].open => assignments[b].open
      BY <1>0, <1>5 DEF EndAssignment, TypeOK
    <2>2. tacs' = tacs /\ request' = request /\ crossed' = crossed
      BY <1>5 DEF EndAssignment
    <2> QED
      BY <1>0, <2>1, <2>2, IndependentClosing
  <1>6. ASSUME NEW t \in DOMAIN tacs, NEW f \in Faculty, EndSeat(t, f) PROVE IndependentInv'
    <2>1. /\ DOMAIN tacs' = DOMAIN tacs
          /\ \A u \in DOMAIN tacs :
                /\ tacs'[u].scholar = tacs[u].scholar
                /\ tacs'[u].members = tacs[u].members
                /\ tacs'[u].open \subseteq tacs[u].open
      BY <1>0, <1>6 DEF EndSeat, TypeOK
    <2>2. assignments' = assignments /\ request' = request /\ crossed' = crossed
      BY <1>6 DEF EndSeat
    <2> QED
      BY <1>0, <2>1, <2>2, IndependentClosing
  <1>7. CASE UNCHANGED vars
    BY <1>0, <1>7, IndependentClosing DEF vars
  <1> QED
    BY <1>0, <1>1, <1>2, <1>3, <1>4, <1>5, <1>6, <1>7, IndependentCreateAssignment,
       IndependentCreateSeats DEF Next, Propose

\* Nobody sits as a member on the TAC of a scholar they supervise, unless an allocation and a TAC
\* were proposed for the scholar at once.
THEOREM TacIndependentHolds == Spec => []TacIndependentInTurn
  <1>1. Init => IndependentInv
    BY InitTyped DEF Init, IndependentInv, TacIndependentInTurn, CheckedApart, CheckedAt, CrossedKnown, Idle
  <1>2. IndependentInv => TacIndependentInTurn
    BY DEF IndependentInv
  <1> QED
    BY <1>1, <1>2, IndependentNext, PTL DEF Spec

=============================================================================
