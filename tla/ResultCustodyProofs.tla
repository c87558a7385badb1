------------------------ MODULE ResultCustodyProofs ------------------------
(***************************************************************************)
(* Theorems about ResultCustody, for any set of workers, people,           *)
(* assessments and scores, any marking scheme and any bounds.              *)
(***************************************************************************)
EXTENDS ResultCustody, TLAPS

(* A request's reference to a row stays good: rows are never deleted. *)
RequestRefers ==
    \A w \in Workers :
        /\ Saving(w) => request[w].id \in DOMAIN results
        /\ request[w].op = "review" => request[w].id \in DOMAIN cases

TypeInv == TypeOK /\ RequestRefers

-----------------------------------------------------------------------------
(* Data *)

\* A full set of marks computes to a total.
LEMMA ComputeType ==
    ASSUME NEW m \in [Assessments -> Entries \cup {NoMark}], Computable(m)
    PROVE  Compute(m) \in Totals
  <1>1. CASE \E a \in Assessments : m[a] = Absent
    BY <1>1 DEF Compute, Totals
  <1>2. CASE \A a \in Assessments : m[a] # Absent
    <2>1. m \in [Assessments -> Scores]
      BY <1>2 DEF Computable, Entries
    <2>2. Total(m) \in Nat
      BY <2>1, ConstantsAssumption
    <2> QED
      BY <1>2, <2>2 DEF Compute, Totals
  <1> QED
    BY <1>1, <1>2

\* Marks with revised marks laid over them are marks.
LEMMA OverlayType ==
    ASSUME NEW m \in [Assessments -> Entries \cup {NoMark}], NEW o \in Overrides
    PROVE  Overlay(m, o) \in [Assessments -> Entries \cup {NoMark}]
  <1> PICK S \in SUBSET Assessments : o \in [S -> Scores]
    BY DEF Overrides
  <1> QED
    BY DEF Overlay, Entries

\* The row in force is a row.
LEMMA CurrentIdType ==
    ASSUME results \in Seq(Row)
    PROVE  CurrentId = 0 \/ CurrentId \in DOMAIN results
  BY DEF CurrentId

\* A freshly prepared row is a row.
LEMMA PreparedRowType ==
    ASSUME NEW t \in Totals, NEW p \in People, NEW b \in BOOLEAN, NEW s \in Nat
    PROVE  PreparedRow(t, p, b, s) \in Row
  BY DEF PreparedRow, Row

\* Requests of each kind, read off the union.
LEMMA RequestFields ==
    ASSUME TypeOK, NEW w \in Workers
    PROVE  /\ request[w].op = "enter" =>
                /\ request[w].assessment \in Assessments
                /\ request[w].entry \in Entries
           /\ request[w].op = "create" =>
                /\ request[w].actor \in People
                /\ request[w].total \in Totals
           /\ Saving(w) =>
                /\ request[w].actor \in People
                /\ request[w].id \in Nat
                /\ request[w].row \in Row
                /\ request[w].total \in Totals
           /\ Saving(w) /\ ~request[w].checked =>
                [request[w] EXCEPT !.checked = TRUE] \in Request
           /\ request[w].op = "revalue" =>
                /\ request[w].actor \in People
                /\ request[w].id \in Nat
           /\ request[w].op = "review" =>
                /\ request[w].actor \in People
                /\ request[w].id \in Nat
                /\ request[w].override \in Overrides
                /\ request[w].total \in Totals
                /\ request[w].unchanged \in BOOLEAN
  <1> request[w] \in Request
    BY DEF TypeOK
  <1> QED
    BY DEF Request, Saving

-----------------------------------------------------------------------------
(* Type correctness *)

\* The initial state satisfies the strengthened type invariant.
LEMMA InitTyped == Init => TypeInv
  <1> SUFFICES ASSUME Init PROVE TypeInv
    OBVIOUS
  <1>1. Idle \in Request
    BY DEF Idle, Request
  <1>2. TypeOK
    <2>1. results \in Seq(Row) /\ cases \in Seq(Case)
      BY DEF Init
    <2>2. request \in [Workers -> Request]
      BY <1>1 DEF Init
    <2> QED
      BY <2>1, <2>2 DEF Init, TypeOK
  <1>3. RequestRefers
    BY DEF Init, RequestRefers, Saving, Idle
  <1> QED
    BY <1>2, <1>3 DEF TypeInv

\* A first half stores nothing and leaves a well-formed request.
LEMMA BeginTyped ==
    ASSUME TypeInv, NEW w \in Workers, NEW r \in Request, Begin(w, r),
           r.op \in {"prepare", "verify", "ratify", "return"} => r.id \in DOMAIN results,
           r.op = "review" => r.id \in DOMAIN cases
    PROVE  TypeInv'
  <1>1. TypeOK'
    BY DEF TypeInv, TypeOK, Begin, stored
  <1>2. RequestRefers'
    BY DEF TypeInv, TypeOK, RequestRefers, Saving, Begin, stored
  <1> QED
    BY <1>1, <1>2 DEF TypeInv

\* Starting to save a row copies a well-formed row into the request.
LEMMA SaveTyped ==
    ASSUME TypeInv, NEW w \in Workers, NEW p \in People, NEW i \in DOMAIN results,
           NEW t \in Totals, NEW op \in {"prepare", "verify", "ratify", "return"},
           Save(w, op, p, i, t)
    PROVE  TypeInv'
  <1> DEFINE r == [op |-> op, actor |-> p, id |-> i, row |-> results[i], total |-> t,
                   checked |-> FALSE]
  <1>1. i \in Nat /\ results[i] \in Row
    BY DEF TypeInv, TypeOK
  <1>2. r \in Request
    BY <1>1 DEF Request
  <1>3. Begin(w, r)
    BY DEF Save
  <1> QED
    BY <1>2, <1>3, BeginTyped

\* Every first half keeps the strengthened type invariant.
LEMMA LoadTyped ==
    ASSUME TypeInv, NEW w \in Workers, Load(w)
    PROVE  TypeInv'
  <1>1. ASSUME NEW a \in Assessments, NEW e \in Entries, LoadEnter(w, a, e)
        PROVE  TypeInv'
    <2> DEFINE r == [op |-> "enter", assessment |-> a, entry |-> e, exists |-> marks[a] # NoMark]
    <2>1. r \in Request
      BY DEF Request
    <2>2. Begin(w, r)
      BY <1>1 DEF LoadEnter
    <2> QED
      BY <2>1, <2>2, BeginTyped
  <1>2. ASSUME NEW p \in People, LoadPrepare(w, p)
        PROVE  TypeInv'
    <2>1. Compute(marks) \in Totals
      BY <1>2, ComputeType DEF LoadPrepare, TypeInv, TypeOK
    <2>2. CASE CurrentId = 0
      <3> DEFINE r == [op |-> "create", actor |-> p, total |-> Compute(marks)]
      <3>1. r \in Request
        BY <2>1 DEF Request
      <3>2. Begin(w, r)
        BY <1>2, <2>2 DEF LoadPrepare
      <3> QED
        BY <3>1, <3>2, BeginTyped
    <2>3. CASE CurrentId # 0
      <3>1. CurrentId \in DOMAIN results
        BY <2>3, CurrentIdType DEF TypeInv, TypeOK
      <3>2. Save(w, "prepare", p, CurrentId, Compute(marks))
        BY <1>2, <2>3 DEF LoadPrepare
      <3> QED
        BY <2>1, <3>1, <3>2, SaveTyped
    <2> QED
      BY <2>2, <2>3
  <1>3. ASSUME NEW p \in People, NEW i \in DOMAIN results,
               LoadVerify(w, p, i) \/ LoadRatify(w, p, i) \/ LoadReturn(w, p, i)
        PROVE  TypeInv'
    <2>1. results[i].total \in Totals
      <3>1. results[i] \in Row
        BY DEF TypeInv, TypeOK
      <3> QED
        BY <3>1 DEF Row
    <2>2. PICK op \in {"verify", "ratify", "return"} : Save(w, op, p, i, results[i].total)
      BY <1>3 DEF LoadVerify, LoadRatify, LoadReturn
    <2> QED
      BY <2>1, <2>2, SaveTyped
  <1>4. ASSUME NEW p \in People, NEW i \in DOMAIN results, LoadRevalue(w, p, i)
        PROVE  TypeInv'
    <2> DEFINE r == [op |-> "revalue", actor |-> p, id |-> i]
    <2>1. r \in Request
      BY DEF Request, TypeInv, TypeOK
    <2>2. Begin(w, r)
      BY <1>4 DEF LoadRevalue
    <2> QED
      BY <2>1, <2>2, BeginTyped
  <1>5. ASSUME NEW p \in People, NEW c \in DOMAIN cases, NEW o \in Overrides,
               LoadReview(w, p, c, o)
        PROVE  TypeInv'
    <2> DEFINE m == Overlay(marks, o)
               u == Compute(m) = results[cases[c].original].total
               r == [op |-> "review", actor |-> p, id |-> c, override |-> o,
                     total |-> Compute(m), unchanged |-> u]
    <2>1. Compute(m) \in Totals
      BY <1>5, ComputeType, OverlayType DEF LoadReview, TypeInv, TypeOK
    <2>2. c \in Nat /\ u \in BOOLEAN
      BY DEF TypeInv, TypeOK
    <2>3. r \in Request
      <3> HIDE DEF m, u
      <3> QED
        BY <2>1, <2>2 DEF Request
    <2>4. Begin(w, r)
      BY <1>5 DEF LoadReview
    <2> QED
      BY <2>2, <2>3, <2>4, BeginTyped
  <1> QED
    BY <1>1, <1>2, <1>3, <1>4, <1>5 DEF Load


\* Appending keeps the rows and their references.
LEMMA AppendRow ==
    ASSUME NEW R, NEW rows \in Seq(R), NEW r \in R
    PROVE  /\ Append(rows, r) \in Seq(R)
           /\ DOMAIN rows \subseteq DOMAIN Append(rows, r)
           /\ DOMAIN Append(rows, r) = DOMAIN rows \cup {Len(rows) + 1}
           /\ \A i \in DOMAIN rows : Append(rows, r)[i] = rows[i]
           /\ Append(rows, r)[Len(rows) + 1] = r
  OBVIOUS

\* Overwriting a row keeps the table.
LEMMA OverwriteRow ==
    ASSUME NEW R, NEW rows \in Seq(R), NEW i, NEW r \in R
    PROVE  [rows EXCEPT ![i] = r] \in Seq(R) /\ DOMAIN [rows EXCEPT ![i] = r] = DOMAIN rows
  <1> DEFINE new == [rows EXCEPT ![i] = r]
  <1>1. DOMAIN rows = 1..Len(rows) /\ Len(rows) \in Nat
    OBVIOUS
  <1>2. DOMAIN new = DOMAIN rows
    OBVIOUS
  <1>3. ASSUME NEW k \in 1..Len(rows) PROVE new[k] \in R
    <2>1. rows[k] \in R
      OBVIOUS
    <2> QED
      BY <1>1, <2>1
  <1>4. new = [k \in 1..Len(rows) |-> new[k]]
    BY <1>1
  <1>5. new \in [1..Len(rows) -> R]
    BY <1>3, <1>4
  <1> QED
    BY <1>1, <1>2, <1>5

\* Replacing rows one for one keeps them a table.
LEMMA MapRows ==
    ASSUME NEW R, NEW rows \in Seq(R), NEW new,
           DOMAIN new = DOMAIN rows, new = [i \in DOMAIN rows |-> new[i]],
           \A i \in DOMAIN rows : new[i] \in R
    PROVE  new \in Seq(R)
  <1>1. DOMAIN rows = 1..Len(rows) /\ Len(rows) \in Nat
    OBVIOUS
  <1>2. new \in [1..Len(rows) -> R]
    BY <1>1
  <1> QED
    BY <1>1, <1>2

\* Closing the cases of a revision keeps them cases.
LEMMA CloseCasesType ==
    ASSUME TypeOK, NEW i, NEW s \in {"COMPLETED", "REJECTED"}
    PROVE  CloseCases(i, s) \in Seq(Case) /\ DOMAIN CloseCases(i, s) = DOMAIN cases
  <1> DEFINE new == CloseCases(i, s)
  <1>1. DOMAIN new = DOMAIN cases
    BY DEF CloseCases
  <1>2. ASSUME NEW c \in DOMAIN cases PROVE new[c] \in Case
    <2>1. cases[c] \in Case
      BY DEF TypeOK
    <2>2. [cases[c] EXCEPT !.status = s] \in Case
      BY <2>1 DEF Case
    <2> QED
      BY <2>1, <2>2 DEF CloseCases
  <1>3. new = [c \in DOMAIN cases |-> new[c]]
    BY DEF CloseCases
  <1>4. cases \in Seq(Case)
    BY DEF TypeOK
  <1> QED
    <2> HIDE DEF new
    <2>1. new \in Seq(Case)
      BY <1>1, <1>2, <1>3, <1>4, MapRows
    <2> QED
      BY <1>1, <2>1 DEF new

\* Ratifying a row, and ending the force of the one it supersedes, keeps the rows rows.
LEMMA RatifiedRowsType ==
    ASSUME TypeInv, NEW w \in Workers, Saving(w)
    PROVE  /\ RatifiedRows(request[w]) \in Seq(Row)
           /\ DOMAIN RatifiedRows(request[w]) = DOMAIN results
  <1> DEFINE q == request[w]
             new == RatifiedRows(q)
  <1>1. q.actor \in People /\ q.row \in Row
    BY RequestFields DEF TypeInv
  <1>2. DOMAIN new = DOMAIN results
    BY DEF RatifiedRows
  <1>3. ASSUME NEW i \in DOMAIN results PROVE new[i] \in Row
    <2>1. results[i] \in Row
      BY DEF TypeInv, TypeOK
    <2>2. [results[i] EXCEPT !.current = FALSE] \in Row
      BY <2>1 DEF Row
    <2>3. [results[i] EXCEPT !.status = "RATIFIED", !.ratifiedBy = q.actor,
                             !.current = q.row.current \/ q.row.supersedes # 0] \in Row
      BY <1>1, <2>1 DEF Row
    <2> QED
      BY <2>1, <2>2, <2>3 DEF RatifiedRows
  <1>4. new = [i \in DOMAIN results |-> new[i]]
    BY DEF RatifiedRows
  <1>5. results \in Seq(Row)
    BY DEF TypeInv, TypeOK
  <1> QED
    <2> HIDE DEF new
    <2>1. new \in Seq(Row)
      BY <1>2, <1>3, <1>4, <1>5, MapRows
    <2> QED
      BY <1>2, <2>1 DEF new


\* A finished request leaves the others' references good while tables only grow.
LEMMA FinishTyped ==
    ASSUME TypeInv, NEW w \in Workers, Finish(w),
           DOMAIN results \subseteq DOMAIN results', DOMAIN cases \subseteq DOMAIN cases'
    PROVE  request' \in [Workers -> Request] /\ RequestRefers' /\ overlapped' \in BOOLEAN
  <1>1. Idle \in Request
    BY DEF Idle, Request
  <1>2. request' \in [Workers -> Request]
    BY <1>1 DEF TypeInv, TypeOK, Finish
  <1>3. RequestRefers'
    BY DEF TypeInv, TypeOK, RequestRefers, Saving, Finish, Idle
  <1>4. overlapped' \in BOOLEAN
    BY DEF TypeInv, TypeOK, Finish
  <1> QED
    BY <1>2, <1>3, <1>4

\* The save guard only marks its request.
LEMMA SaveGuardTyped ==
    ASSUME TypeInv, NEW w \in Workers, SaveGuard(w)
    PROVE  TypeInv'
  <1> DEFINE r == [request[w] EXCEPT !.checked = TRUE]
  <1>1. r \in Request
    BY RequestFields DEF TypeInv, SaveGuard
  <1>2. request' = [request EXCEPT ![w] = r]
    BY DEF SaveGuard
  <1>3. r.op = request[w].op /\ r.id = request[w].id
    BY DEF SaveGuard, Saving, TypeInv, TypeOK, Request
  <1>4. TypeOK'
    BY <1>1, <1>2 DEF TypeInv, TypeOK, SaveGuard, stored
  <1>5. RequestRefers'
    <2> HIDE DEF r
    <2> QED
      BY <1>2, <1>3 DEF TypeInv, TypeOK, RequestRefers, Saving, SaveGuard, stored
  <1> QED
    BY <1>4, <1>5 DEF TypeInv

\* Every transaction keeps the strengthened type invariant.
LEMMA WriteTyped ==
    ASSUME TypeInv, NEW w \in Workers, Write(w)
    PROVE  TypeInv'
  <1> DEFINE q == request[w]
  <1> USE DEF WriteResults, WriteCases
  <1>a. results \in Seq(Row) /\ cases \in Seq(Case)
    BY DEF TypeInv, TypeOK
  <1>1. CASE WriteEnter(w)
    <2>1. marks' \in [Assessments -> Entries \cup {NoMark}]
      BY <1>1, RequestFields DEF WriteEnter, TypeInv, TypeOK
    <2>2. request' \in [Workers -> Request] /\ RequestRefers' /\ overlapped' \in BOOLEAN
      BY <1>1, FinishTyped DEF WriteEnter
    <2> QED
      BY <1>1, <2>1, <2>2 DEF WriteEnter, TypeInv, TypeOK
  <1>2. CASE WriteCreate(w)
    <2> DEFINE r == PreparedRow(q.total, q.actor, TRUE, 0)
    <2>1. r \in Row
      BY <1>2, RequestFields, PreparedRowType DEF WriteCreate, TypeInv
    <2>2. results' \in Seq(Row) /\ DOMAIN results \subseteq DOMAIN results'
      <3>1. results' = Append(results, r)
        BY <1>2 DEF WriteCreate
      <3> HIDE DEF r
      <3> QED
        BY <1>a, <2>1, <3>1, AppendRow
    <2>3. request' \in [Workers -> Request] /\ RequestRefers' /\ overlapped' \in BOOLEAN
      BY <1>2, <2>2, FinishTyped DEF WriteCreate
    <2> QED
      BY <1>2, <2>2, <2>3 DEF WriteCreate, TypeInv, TypeOK
  <1>3. CASE WritePrepare(w)
    <2>1. q.row.current \in BOOLEAN /\ q.row.supersedes \in Nat
      BY <1>3, RequestFields DEF WritePrepare, Saving, TypeInv, Row
    <2> DEFINE r == PreparedRow(q.total, q.actor, q.row.current, q.row.supersedes)
    <2>2. r \in Row
      BY <1>3, <2>1, RequestFields, PreparedRowType DEF WritePrepare, Saving, TypeInv
    <2>3. results' \in Seq(Row) /\ DOMAIN results \subseteq DOMAIN results'
      <3>1. results' = [results EXCEPT ![q.id] = r]
        BY <1>3 DEF WritePrepare
      <3> HIDE DEF r
      <3> QED
        BY <1>a, <2>2, <3>1, OverwriteRow
    <2>4. request' \in [Workers -> Request] /\ RequestRefers' /\ overlapped' \in BOOLEAN
      BY <1>3, <2>3, FinishTyped DEF WritePrepare
    <2> QED
      BY <1>3, <2>3, <2>4 DEF WritePrepare, TypeInv, TypeOK
  <1>4. CASE WriteVerify(w)
    <2> DEFINE r == [results[q.id] EXCEPT !.status = "VERIFIED", !.verifiedBy = q.actor]
    <2>1. q.id \in DOMAIN results /\ q.actor \in People
      BY <1>4, RequestFields DEF WriteVerify, Saving, TypeInv, RequestRefers
    <2>2. results[q.id] \in Row
      BY <1>a, <2>1
    <2>3. r \in Row
      BY <2>1, <2>2 DEF Row
    <2>4. results' = [results EXCEPT ![q.id] = r]
      BY <1>4, <1>a, <2>1, <2>2 DEF WriteVerify, Row
    <2>5. results' \in Seq(Row) /\ DOMAIN results \subseteq DOMAIN results'
      <3> HIDE DEF r
      <3> QED
        BY <1>a, <2>3, <2>4, OverwriteRow
    <2>6. request' \in [Workers -> Request] /\ RequestRefers' /\ overlapped' \in BOOLEAN
      BY <1>4, <2>5, FinishTyped DEF WriteVerify
    <2> QED
      BY <1>4, <2>5, <2>6 DEF WriteVerify, TypeInv, TypeOK
  <1>5. CASE WriteRatify(w)
    <2>1. Saving(w)
      BY <1>5 DEF WriteRatify, Saving
    <2>2. results' \in Seq(Row) /\ DOMAIN results \subseteq DOMAIN results'
      BY <1>5, <2>1, RatifiedRowsType DEF WriteRatify
    <2>3. cases' \in Seq(Case) /\ DOMAIN cases \subseteq DOMAIN cases'
      BY <1>5, <1>a, CloseCasesType DEF WriteRatify, TypeInv
    <2>4. q.row.total \in Totals
      BY <2>1, RequestFields DEF TypeInv, Row
    <2>5. attempt' \in [status : {"SCHEDULED", "RESULT_RATIFIED"}, total : Totals \cup {NoMark}]
          /\ enrollment' \in {"ENROLLED", "COMPLETED"}
      BY <1>5, <2>4 DEF WriteRatify, SyncAttempt
    <2>6. completed' \in BOOLEAN
      BY <1>5 DEF WriteRatify, RefreshCompletion, TypeInv, TypeOK
    <2>7. request' \in [Workers -> Request] /\ RequestRefers' /\ overlapped' \in BOOLEAN
      BY <1>5, <2>2, <2>3, FinishTyped DEF WriteRatify
    <2> QED
      BY <1>5, <2>2, <2>3, <2>5, <2>6, <2>7 DEF WriteRatify, TypeInv, TypeOK
  <1>6. CASE WriteReturn(w)
    <2> DEFINE r == [results[q.id] EXCEPT !.status = "RETURNED"]
    <2>1. q.id \in DOMAIN results
      BY <1>6, RequestFields DEF WriteReturn, Saving, TypeInv, RequestRefers
    <2>2. results[q.id] \in Row
      BY <1>a, <2>1
    <2>3. r \in Row
      BY <2>1, <2>2 DEF Row
    <2>4. results' = [results EXCEPT ![q.id] = r]
      BY <1>6 DEF WriteReturn
    <2>5. results' \in Seq(Row) /\ DOMAIN results \subseteq DOMAIN results'
      <3> HIDE DEF r
      <3> QED
        BY <1>a, <2>3, <2>4, OverwriteRow
    <2>6. cases' \in Seq(Case) /\ DOMAIN cases \subseteq DOMAIN cases'
      BY <1>6, <1>a, CloseCasesType DEF WriteReturn, TypeInv
    <2>7. request' \in [Workers -> Request] /\ RequestRefers' /\ overlapped' \in BOOLEAN
      BY <1>6, <2>5, <2>6, FinishTyped DEF WriteReturn
    <2> QED
      BY <1>6, <2>5, <2>6, <2>7 DEF WriteReturn, TypeInv, TypeOK
  <1>7. CASE WriteRevalue(w)
    <2> DEFINE r == [original |-> q.id, revised |-> 0, requestedBy |-> q.actor,
                     reviewer |-> Nobody, override |-> <<>>, status |-> "REQUESTED"]
    <2>1. q.id \in Nat /\ q.actor \in People
      BY <1>7, RequestFields DEF WriteRevalue, TypeInv
    <2>2. <<>> \in Overrides
      BY DEF Overrides
    <2>3. r \in Case
      BY <2>1, <2>2 DEF Case
    <2>4. cases' = Append(cases, r)
      BY <1>7 DEF WriteRevalue
    <2>5. cases' \in Seq(Case) /\ DOMAIN cases \subseteq DOMAIN cases'
      <3> HIDE DEF r
      <3> QED
        BY <1>a, <2>3, <2>4, AppendRow
    <2>6. request' \in [Workers -> Request] /\ RequestRefers' /\ overlapped' \in BOOLEAN
      BY <1>7, <2>5, FinishTyped DEF WriteRevalue
    <2> QED
      BY <1>7, <2>5, <2>6 DEF WriteRevalue, TypeInv, TypeOK
  <1>8. CASE WriteReview(w)
    <2> DEFINE c == cases[q.id]
               o == [a \in DOMAIN q.override \cup DOMAIN c.override |->
                        IF a \in DOMAIN c.override THEN c.override[a] ELSE q.override[a]]
               n == IF q.unchanged THEN 0 ELSE Len(results) + 1
               s == IF q.unchanged THEN "REVIEWED_UNCHANGED" ELSE "REVISED_PENDING"
               r == [c EXCEPT !.reviewer = q.actor, !.revised = n, !.override = o, !.status = s]
    <2>1. /\ q.id \in DOMAIN cases /\ q.actor \in People /\ q.override \in Overrides
          /\ q.total \in Totals
      BY <1>8, RequestFields DEF WriteReview, TypeInv, RequestRefers
    <2>2. c \in Case
      BY <1>a, <2>1
    <2>3. o \in Overrides
      <3>1. c.override \in Overrides
        BY <2>2 DEF Case
      <3>2. PICK S \in SUBSET Assessments : c.override \in [S -> Scores]
        BY <3>1 DEF Overrides
      <3>3. PICK T \in SUBSET Assessments : q.override \in [T -> Scores]
        BY <2>1 DEF Overrides
      <3>4. o \in [S \cup T -> Scores]
        BY <3>2, <3>3
      <3>5. S \cup T \in SUBSET Assessments
        OBVIOUS
      <3> QED
        BY <3>4, <3>5 DEF Overrides
    <2>4. n \in Nat /\ s \in {"REVIEWED_UNCHANGED", "REVISED_PENDING"}
      BY <1>a
    <2>5. r \in Case
      <3> HIDE DEF c, o, n, s
      <3> QED
        BY <2>1, <2>2, <2>3, <2>4 DEF Case
    <2>6. cases' = [cases EXCEPT ![q.id] = r]
      BY <1>8 DEF WriteReview
    <2>7. cases' \in Seq(Case) /\ DOMAIN cases \subseteq DOMAIN cases'
      <3> HIDE DEF r
      <3> QED
        BY <1>a, <2>5, <2>6, OverwriteRow
    <2>8. results' \in Seq(Row) /\ DOMAIN results \subseteq DOMAIN results'
      <3>1. CASE q.unchanged
        BY <1>8, <1>a, <3>1 DEF WriteReview
      <3>2. CASE ~q.unchanged
        <4>1. c.original \in Nat
          BY <2>2 DEF Case
        <4> DEFINE p == PreparedRow(q.total, q.actor, FALSE, c.original)
        <4>2. p \in Row
          BY <2>1, <4>1, PreparedRowType
        <4>3. results' = Append(results, p)
          BY <1>8, <3>2 DEF WriteReview
        <4> HIDE DEF p
        <4> QED
          BY <1>a, <4>2, <4>3, AppendRow
      <3> QED
        BY <3>1, <3>2
    <2>9. request' \in [Workers -> Request] /\ RequestRefers' /\ overlapped' \in BOOLEAN
      BY <1>8, <2>7, <2>8, FinishTyped DEF WriteReview
    <2> QED
      BY <1>8, <2>7, <2>8, <2>9 DEF WriteReview, TypeInv, TypeOK
  <1> QED
    BY <1>1, <1>2, <1>3, <1>4, <1>5, <1>6, <1>7, <1>8 DEF Write


\* The strengthened type invariant is inductive.
LEMMA StepTyped == TypeInv /\ [Next]_vars => TypeInv'
  <1> SUFFICES ASSUME TypeInv, [Next]_vars PROVE TypeInv'
    OBVIOUS
  <1>1. ASSUME NEW w \in Workers, Drop(w) PROVE TypeInv'
    <2>1. request' \in [Workers -> Request] /\ RequestRefers' /\ overlapped' \in BOOLEAN
      BY <1>1, FinishTyped DEF Drop, stored
    <2> QED
      BY <1>1, <2>1 DEF Drop, stored, TypeInv, TypeOK
  <1>2. CASE UNCHANGED vars
    BY <1>2 DEF vars, TypeInv, TypeOK, RequestRefers, Saving
  <1> QED
    BY <1>1, <1>2, LoadTyped, SaveGuardTyped, WriteTyped DEF Next

\* Every variable keeps its type in every behaviour.
THEOREM TypeCorrect == Spec => []TypeOK
  <1>1. TypeInv => TypeOK
    BY DEF TypeInv
  <1> QED
    BY <1>1, InitTyped, StepTyped, PTL DEF Spec

-----------------------------------------------------------------------------
(* The tables keep their constraints *)

\* Closing cases can only remove open ones.
LEMMA CloseCasesAdmissible ==
    ASSUME CasesAdmissible(cases), NEW i, NEW s \in {"COMPLETED", "REJECTED"}
    PROVE  CasesAdmissible(CloseCases(i, s))
  <1> DEFINE new == CloseCases(i, s)
  <1>1. DOMAIN new = DOMAIN cases
    BY DEF CloseCases
  <1>2. ASSUME NEW c \in DOMAIN cases, OpenCase(new[c])
        PROVE  new[c] = cases[c]
    <2>1. CASE cases[c].revised = i
      <3>1. new[c] = [cases[c] EXCEPT !.status = s]
        BY <2>1 DEF CloseCases
      <3>2. new[c].status = s \/ new[c] = cases[c]
        BY <3>1
      <3> QED
        BY <1>2, <3>2 DEF OpenCase
    <2>2. CASE cases[c].revised # i
      BY <2>2 DEF CloseCases
    <2> QED
      BY <2>1, <2>2
  <1> QED
    <2> HIDE DEF new
    <2>1. CasesAdmissible(new)
      BY <1>1, <1>2 DEF CasesAdmissible
    <2> QED
      BY <2>1 DEF new


\* What the database itself keeps, whatever the services do: the constraints of the two tables.  The
\* invariants below use it.
CustodyOrder ==
    /\ ResultsAdmissible(results)
    /\ CasesAdmissible(cases)

\* Empty tables satisfy every constraint.
LEMMA InitCustody == Init => CustodyOrder
  BY DEF Init, CustodyOrder, ResultsAdmissible, OneCurrent, CasesAdmissible

\* No step leaves the constraints: a transaction either checks them or cannot break them.
LEMMA StepCustody == CustodyOrder /\ [Next]_vars => CustodyOrder'
  <1> SUFFICES ASSUME CustodyOrder, [Next]_vars PROVE CustodyOrder'
    OBVIOUS
  <1>0. ASSUME UNCHANGED <<results, cases>> PROVE CustodyOrder'
    BY <1>0 DEF CustodyOrder, ResultsAdmissible, StatusConsistent, OneCurrent, CasesAdmissible,
                OpenCase
  <1>1. ASSUME ResultsAdmissible(results'), CasesAdmissible(cases') PROVE CustodyOrder'
    BY <1>1 DEF CustodyOrder, ResultsAdmissible, StatusConsistent, OneCurrent, CasesAdmissible,
                OpenCase
  <1>2. ResultsAdmissible(results) /\ CasesAdmissible(cases)
    BY DEF CustodyOrder
  <1>3. ASSUME NEW w \in Workers, Load(w) \/ SaveGuard(w) \/ Drop(w) PROVE CustodyOrder'
    BY <1>0, <1>3 DEF Load, LoadEnter, LoadPrepare, LoadVerify, LoadRatify, LoadReturn,
                      LoadRevalue, LoadReview, Save, Begin, SaveGuard, Drop, stored
  <1>4. ASSUME NEW w \in Workers, Write(w) PROVE CustodyOrder'
    <2>1. CASE WriteEnter(w)
      BY <1>0, <2>1 DEF WriteEnter
    <2>2. CASE WriteCreate(w) \/ WritePrepare(w) \/ WriteVerify(w)
      BY <1>1, <1>2, <2>2 DEF WriteCreate, WritePrepare, WriteVerify, WriteResults
    <2>3. CASE WriteRatify(w)
      BY <1>1, <1>2, <2>3, CloseCasesAdmissible DEF WriteRatify, WriteResults
    <2>4. CASE WriteReturn(w)
      BY <1>1, <1>2, <2>4, CloseCasesAdmissible DEF WriteReturn, WriteResults
    <2>5. CASE WriteRevalue(w)
      BY <1>1, <1>2, <2>5 DEF WriteRevalue, WriteCases
    <2>6. CASE WriteReview(w)
      <3>1. ResultsAdmissible(results')
        BY <1>2, <2>6 DEF WriteReview, WriteResults
      <3>2. CasesAdmissible(cases')
        BY <2>6 DEF WriteReview, WriteCases
      <3> QED
        BY <1>1, <3>1, <3>2
    <2> QED
      BY <1>4, <2>1, <2>2, <2>3, <2>4, <2>5, <2>6 DEF Write
  <1>5. CASE UNCHANGED vars
    BY <1>0, <1>5 DEF vars
  <1> QED
    BY <1>3, <1>4, <1>5 DEF Next

-----------------------------------------------------------------------------
(* A ratification survives a late verification or return *)

\* Appending moves no row.
LEMMA AppendKeeps ==
    ASSUME NEW R, NEW rows \in Seq(R), NEW r, NEW i \in DOMAIN rows
    PROVE  Append(rows, r)[i] = rows[i]
  OBVIOUS

\* A step takes no ratified row back to VERIFIED or RETURNED.
LEMMA StepNotDemoted ==
    ASSUME TypeInv, CustodyOrder, [Next]_vars,
           NEW i \in DOMAIN results, results[i].status = "RATIFIED"
    PROVE  results'[i].status \notin {"VERIFIED", "RETURNED"}
  <1>1. /\ results[i].ratifiedBy # Nobody
        /\ results[i] \in Row
        /\ results \in Seq(Row)
    BY DEF CustodyOrder, ResultsAdmissible, StatusConsistent, TypeInv, TypeOK
  <1>2. CASE results' = results
    BY <1>2
  <1>3. ASSUME NEW w \in Workers, WriteCreate(w)
        PROVE  results'[i].status \notin {"VERIFIED", "RETURNED"}
    <2>1. PICK r : results' = Append(results, r)
      BY <1>3 DEF WriteCreate, WriteResults
    <2>2. results'[i] = results[i]
      BY <1>1, <2>1, AppendKeeps
    <2> QED
      BY <2>2
  <1>4. ASSUME NEW w \in Workers, WritePrepare(w)
        PROVE  results'[i].status \notin {"VERIFIED", "RETURNED"}
    <2>1. results'[i] = results[i] \/ results'[i].status = "PREPARED"
      BY <1>1, <1>4 DEF WritePrepare, WriteResults, PreparedRow
    <2> QED
      BY <2>1
  <1>5. ASSUME NEW w \in Workers, WriteVerify(w) \/ WriteReturn(w)
        PROVE  results'[i].status \notin {"VERIFIED", "RETURNED"}
    <2>1. ResultsAdmissible(results') /\ i \in DOMAIN results'
      BY <1>1, <1>5 DEF WriteVerify, WriteReturn, WriteResults
    <2>2. results'[i].ratifiedBy = results[i].ratifiedBy
      <3>1. CASE WriteVerify(w)
        BY <1>1, <3>1 DEF WriteVerify, WriteResults, Row
      <3>2. CASE WriteReturn(w)
        BY <1>1, <3>2 DEF WriteReturn, WriteResults, Row
      <3> QED
        BY <1>5, <3>1, <3>2
    <2> QED
      BY <1>1, <2>1, <2>2 DEF ResultsAdmissible, StatusConsistent
  <1>6. ASSUME NEW w \in Workers, WriteRatify(w)
        PROVE  results'[i].status \notin {"VERIFIED", "RETURNED"}
    <2>1. results'[i].status = "RATIFIED"
      BY <1>1, <1>6 DEF WriteRatify, WriteResults, RatifiedRows, Row
    <2> QED
      BY <2>1
  <1>7. ASSUME NEW w \in Workers, WriteReview(w)
        PROVE  results'[i].status \notin {"VERIFIED", "RETURNED"}
    <2>1. CASE results' = results
      BY <1>2, <2>1
    <2>2. CASE \E r : results' = Append(results, r)
      <3>1. results'[i] = results[i]
        BY <1>1, <2>2, AppendKeeps
      <3> QED
        BY <3>1
    <2>3. results' = results \/ \E r : results' = Append(results, r)
      BY <1>7 DEF WriteReview, WriteResults
    <2> QED
      BY <2>1, <2>2, <2>3
  <1>8. ASSUME NEW w \in Workers,
               Load(w) \/ SaveGuard(w) \/ Drop(w) \/ WriteEnter(w) \/ WriteRevalue(w)
        PROVE  results' = results
    BY <1>8 DEF Load, LoadEnter, LoadPrepare, LoadVerify, LoadRatify, LoadReturn, LoadRevalue,
                LoadReview, Save, Begin, SaveGuard, Drop, stored, WriteEnter, WriteRevalue
  <1>9. CASE UNCHANGED vars
    BY <1>2, <1>9 DEF vars
  <1> QED
    BY <1>2, <1>3, <1>4, <1>5, <1>6, <1>7, <1>8, <1>9 DEF Next, Write

\* No verification or return that raced the ratification undoes it, for any number of workers.
THEOREM NotDemotedHolds == Spec => NotDemoted
  <1>1. TypeInv /\ CustodyOrder /\ [Next]_vars =>
          [\A i \in DOMAIN results : results[i].status = "RATIFIED" =>
              results'[i].status \notin {"VERIFIED", "RETURNED"}]_vars
    BY StepNotDemoted
  <1> QED
    BY <1>1, InitTyped, StepTyped, InitCustody, StepCustody, PTL DEF Spec, NotDemoted

-----------------------------------------------------------------------------
(* An original stays in force until its revision is ratified *)

Superseded(i) == \E j \in DOMAIN results : results[j].supersedes = i /\ results[j].status = "RATIFIED"

\* The copy a request saves says truly which row it revises, only an original in force is prepared
\* anew, and an original that the copy shows out of force has its ratified revision.
CopiesTrue ==
    \A w \in Workers : Saving(w) =>
        /\ request[w].row.supersedes = results[request[w].id].supersedes
        /\ request[w].op = "prepare" => request[w].row.supersedes = 0 /\ request[w].row.current
        /\ request[w].row.supersedes # 0 \/ request[w].row.current \/ Superseded(request[w].id)

\* A case, filed or about to be, is about a result.
CasesRefer ==
    /\ \A c \in DOMAIN cases : cases[c].original # 0
    /\ \A w \in Workers : request[w].op = "revalue" => request[w].id # 0

SupersessionInv == TypeInv /\ CustodyOrder /\ SupersessionSound /\ CopiesTrue /\ CasesRefer

\* No step changes what a row revises, or unratifies a revision.
RevisionsStand ==
    \A i \in DOMAIN results :
        /\ i \in DOMAIN results'
        /\ results'[i].supersedes = results[i].supersedes
        /\ results[i].supersedes # 0 /\ results[i].status = "RATIFIED" => results'[i].status = "RATIFIED"

CasesStand == DOMAIN cases' = DOMAIN cases /\ \A c \in DOMAIN cases : cases'[c].original = cases[c].original

LEMMA SupersededStays ==
    ASSUME RevisionsStand, NEW i \in Nat \ {0}, Superseded(i)
    PROVE  Superseded(i)'
  <1> PICK j \in DOMAIN results : results[j].supersedes = i /\ results[j].status = "RATIFIED"
    BY DEF Superseded
  <1> QED
    BY DEF RevisionsStand, Superseded

\* Closing cases leaves alone what they are about.
LEMMA CloseCasesStand ==
    ASSUME cases \in Seq(Case), NEW i, NEW s, cases' = CloseCases(i, s)
    PROVE  CasesStand
  <1>1. DOMAIN cases' = DOMAIN cases
    BY DEF CloseCases
  <1>2. ASSUME NEW c \in DOMAIN cases PROVE cases'[c].original = cases[c].original
    <2>1. cases[c] \in Case
      OBVIOUS
    <2>2. cases'[c] = IF cases[c].revised = i THEN [cases[c] EXCEPT !.status = s] ELSE cases[c]
      BY DEF CloseCases
    <2> QED
      BY <2>1, <2>2 DEF Case
  <1> QED
    BY <1>1, <1>2 DEF CasesStand

\* Where each row is as it was or keeps the promise anew, the promise is kept.
LEMMA RowsKeepSupersession ==
    ASSUME SupersessionInv, RevisionsStand,
           \A i \in DOMAIN results' :
              \/ i \in DOMAIN results /\ results'[i].current = results[i].current
                                      /\ results'[i].status = results[i].status
              \/ /\ results'[i].supersedes # 0 /\ results'[i].current => results'[i].status = "RATIFIED"
                 /\ results'[i].supersedes = 0 /\ ~results'[i].current => Superseded(i)'
    PROVE  SupersessionSound'
  <1> SUFFICES ASSUME NEW i \in DOMAIN results'
               PROVE  /\ results'[i].supersedes # 0 /\ results'[i].current => results'[i].status = "RATIFIED"
                      /\ results'[i].supersedes = 0 /\ ~results'[i].current => Superseded(i)'
    BY DEF SupersessionSound, Superseded
  <1>1. CASE /\ i \in DOMAIN results
             /\ results'[i].current = results[i].current
             /\ results'[i].status = results[i].status
    <2>1. results'[i].supersedes = results[i].supersedes
      BY <1>1 DEF RevisionsStand
    <2>2. results[i].supersedes = 0 /\ ~results[i].current => Superseded(i)
      BY <1>1 DEF SupersessionInv, SupersessionSound, Superseded
    <2>3. i \in Nat \ {0}
      BY <1>1 DEF SupersessionInv, TypeInv, TypeOK
    <2>4. results[i].supersedes # 0 /\ results[i].current => results[i].status = "RATIFIED"
      BY <1>1 DEF SupersessionInv, SupersessionSound
    <2> QED
      BY <1>1, <2>1, <2>2, <2>3, <2>4, SupersededStays
  <1> QED
    BY <1>1

\* Requests that save keep true copies while they are as they were.
LEMMA CopiesStay ==
    ASSUME SupersessionInv, RevisionsStand,
           \A w \in Workers : Saving(w)' => /\ Saving(w)
                                            /\ request'[w].row = request[w].row
                                            /\ request'[w].id = request[w].id
                                            /\ request'[w].op = request[w].op
    PROVE  CopiesTrue'
  <1> SUFFICES ASSUME NEW w \in Workers, Saving(w)'
               PROVE  /\ request'[w].row.supersedes = results'[request'[w].id].supersedes
                      /\ request'[w].op = "prepare" => request'[w].row.supersedes = 0 /\ request'[w].row.current
                      /\ request'[w].row.supersedes # 0 \/ request'[w].row.current \/ Superseded(request[w].id)'
    BY DEF CopiesTrue, Superseded
  <1>1. request[w].id \in DOMAIN results /\ request[w].id \in Nat \ {0}
    BY DEF SupersessionInv, TypeInv, TypeOK, RequestRefers
  <1>2. Superseded(request[w].id) => Superseded(request[w].id)'
    BY <1>1, SupersededStays
  <1>3. results'[request[w].id].supersedes = results[request[w].id].supersedes
    BY <1>1 DEF RevisionsStand
  <1>4. /\ request[w].row.supersedes = results[request[w].id].supersedes
        /\ request[w].op = "prepare" => request[w].row.supersedes = 0 /\ request[w].row.current
        /\ request[w].row.supersedes # 0 \/ request[w].row.current \/ Superseded(request[w].id)
    BY DEF SupersessionInv, CopiesTrue
  <1> QED
    BY <1>2, <1>3, <1>4

LEMMA InitSupersession == Init => SupersessionInv
  <1> SUFFICES ASSUME Init PROVE SupersessionInv
    OBVIOUS
  <1>1. SupersessionSound /\ CopiesTrue /\ CasesRefer
    BY DEF Init, SupersessionSound, CopiesTrue, CasesRefer, Saving, Idle
  <1> QED
    BY <1>1, InitTyped, InitCustody DEF SupersessionInv

\* First halves: the copy is taken from a row as the promise has it.
LEMMA SaveSupersession ==
    ASSUME SupersessionInv, NEW w \in Workers, NEW p, NEW i \in DOMAIN results, NEW t, NEW op,
           Save(w, op, p, i, t), op \in {"prepare", "verify", "ratify", "return"},
           op = "prepare" => results[i].current /\ results[i].status # "RATIFIED"
    PROVE  SupersessionSound' /\ CopiesTrue' /\ CasesRefer'
  <1>1. /\ UNCHANGED <<results, cases>>
        /\ request' = [request EXCEPT ![w] = [op |-> op, actor |-> p, id |-> i, row |-> results[i],
                                              total |-> t, checked |-> FALSE]]
    BY DEF Save, Begin, stored
  <1>2. \A v \in Workers : v # w => request'[v] = request[v]
    BY <1>1 DEF SupersessionInv, TypeInv, TypeOK
  <1>3. request'[w].op = op /\ request'[w].id = i /\ request'[w].row = results[i]
    BY <1>1 DEF SupersessionInv, TypeInv, TypeOK
  <1>4. SupersessionSound'
    BY <1>1 DEF SupersessionInv, SupersessionSound
  <1>5. CasesRefer'
    <2>1. \A v \in Workers : request'[v].op = "revalue" => v # w
      BY <1>3
    <2> QED
      BY <1>1, <1>2, <2>1 DEF SupersessionInv, CasesRefer
  <1>6. CopiesTrue'
    <2>1. ASSUME NEW v \in Workers, v # w, Saving(v)'
          PROVE  /\ request'[v].row.supersedes = results'[request'[v].id].supersedes
                 /\ request'[v].op = "prepare" => request'[v].row.supersedes = 0 /\ request'[v].row.current
                 /\ request'[v].row.supersedes # 0 \/ request'[v].row.current \/ Superseded(request[v].id)'
      <3>1. Saving(v)
        BY <1>2, <2>1 DEF Saving
      <3> QED
        BY <1>1, <1>2, <2>1, <3>1 DEF SupersessionInv, CopiesTrue, Superseded
    <2>2. results[i].supersedes # 0 \/ results[i].current \/ Superseded(i)
      BY DEF SupersessionInv, SupersessionSound, Superseded
    <2>3. op = "prepare" => results[i].supersedes = 0 /\ results[i].current
      BY DEF SupersessionInv, SupersessionSound
    <2> QED
      BY <1>1, <1>2, <1>3, <2>1, <2>2, <2>3 DEF CopiesTrue, Superseded
  <1> QED
    BY <1>4, <1>5, <1>6

\* A first half of another kind, and a request that ends with nothing written.
LEMMA OtherSupersession ==
    ASSUME SupersessionInv, NEW w \in Workers, UNCHANGED <<results, cases>>,
           NEW r, request' = [request EXCEPT ![w] = r],
           r.op \in {"prepare", "verify", "ratify", "return"} =>
              /\ r.op = request[w].op /\ r.row = request[w].row /\ r.id = request[w].id,
           r.op = "revalue" => r.id # 0
    PROVE  SupersessionSound' /\ CopiesTrue' /\ CasesRefer'
  <1>1. SupersessionSound'
    BY DEF SupersessionInv, SupersessionSound
  <1>2. \A v \in Workers : request'[v] = IF v = w THEN r ELSE request[v]
    BY DEF SupersessionInv, TypeInv, TypeOK
  <1>3. CasesRefer'
    BY <1>2 DEF SupersessionInv, CasesRefer
  <1>4. CopiesTrue'
    <2>1. RevisionsStand
      BY DEF RevisionsStand
    <2> QED
      BY <1>2, <2>1, CopiesStay DEF Saving
  <1> QED
    BY <1>1, <1>3, <1>4

LEMMA LoadSupersession ==
    ASSUME SupersessionInv, NEW w \in Workers, Load(w) \/ SaveGuard(w) \/ Drop(w)
    PROVE  SupersessionSound' /\ CopiesTrue' /\ CasesRefer'
  <1>0. results \in Seq(Row)
    BY DEF SupersessionInv, TypeInv, TypeOK
  <1>1. ASSUME NEW a \in Assessments, NEW e \in Entries, LoadEnter(w, a, e)
        PROVE  SupersessionSound' /\ CopiesTrue' /\ CasesRefer'
    <2> DEFINE r == [op |-> "enter", assessment |-> a, entry |-> e, exists |-> marks[a] # NoMark]
    <2>1. request' = [request EXCEPT ![w] = r] /\ UNCHANGED <<results, cases>>
      BY <1>1 DEF LoadEnter, Begin, stored
    <2>2. r.op = "enter"
      OBVIOUS
    <2> HIDE DEF r
    <2> QED
      BY <2>1, <2>2, OtherSupersession
  <1>2. ASSUME NEW p \in People, LoadPrepare(w, p)
        PROVE  SupersessionSound' /\ CopiesTrue' /\ CasesRefer'
    <2>1. CASE CurrentId = 0
      <3> DEFINE r == [op |-> "create", actor |-> p, total |-> Compute(marks)]
      <3>1. request' = [request EXCEPT ![w] = r] /\ UNCHANGED <<results, cases>>
        BY <1>2, <2>1 DEF LoadPrepare, Begin, stored
      <3>2. r.op = "create"
        OBVIOUS
      <3> HIDE DEF r
      <3> QED
        BY <3>1, <3>2, OtherSupersession
    <2>2. CASE CurrentId # 0
      <3>1. CurrentId \in DOMAIN results /\ results[CurrentId].current
        BY <1>0, <2>2 DEF CurrentId
      <3>2. results[CurrentId].status # "RATIFIED" /\ Save(w, "prepare", p, CurrentId, Compute(marks))
        BY <1>2, <2>2 DEF LoadPrepare
      <3> QED
        BY <3>1, <3>2, SaveSupersession
    <2> QED
      BY <2>1, <2>2
  <1>3. ASSUME NEW p \in People, NEW i \in DOMAIN results, LoadVerify(w, p, i) \/ LoadRatify(w, p, i) \/ LoadReturn(w, p, i)
        PROVE  SupersessionSound' /\ CopiesTrue' /\ CasesRefer'
    <2>1. PICK op \in {"verify", "ratify", "return"} : Save(w, op, p, i, results[i].total)
      BY <1>3 DEF LoadVerify, LoadRatify, LoadReturn
    <2> QED
      BY <2>1, SaveSupersession
  <1>4. ASSUME NEW p \in People, NEW i \in DOMAIN results, LoadRevalue(w, p, i)
        PROVE  SupersessionSound' /\ CopiesTrue' /\ CasesRefer'
    <2> DEFINE r == [op |-> "revalue", actor |-> p, id |-> i]
    <2>1. request' = [request EXCEPT ![w] = r] /\ UNCHANGED <<results, cases>>
      BY <1>4 DEF LoadRevalue, Begin, stored
    <2>2. r.op = "revalue" /\ r.id # 0
      BY <1>0
    <2> HIDE DEF r
    <2> QED
      BY <2>1, <2>2, OtherSupersession
  <1>5. ASSUME NEW p \in People, NEW c \in DOMAIN cases, NEW o \in Overrides, LoadReview(w, p, c, o)
        PROVE  SupersessionSound' /\ CopiesTrue' /\ CasesRefer'
    <2> DEFINE revised == Overlay(marks, o)
               r == [op |-> "review", actor |-> p, id |-> c, override |-> o, total |-> Compute(revised),
                     unchanged |-> Compute(revised) = results[cases[c].original].total]
    <2>1. request' = [request EXCEPT ![w] = r] /\ UNCHANGED <<results, cases>>
      BY <1>5 DEF LoadReview, Begin, stored
    <2>2. r.op = "review"
      OBVIOUS
    <2> HIDE DEF r
    <2> QED
      BY <2>1, <2>2, OtherSupersession
  <1>6. ASSUME SaveGuard(w) PROVE SupersessionSound' /\ CopiesTrue' /\ CasesRefer'
    <2> DEFINE r == [request[w] EXCEPT !.checked = TRUE]
    <2>1. request' = [request EXCEPT ![w] = r] /\ UNCHANGED <<results, cases>> /\ Saving(w)
      BY <1>6 DEF SaveGuard, stored
    <2>2. r.op = request[w].op /\ r.row = request[w].row /\ r.id = request[w].id
      BY <2>1 DEF Saving, SupersessionInv, TypeInv, TypeOK, Request
    <2>3. r.op # "revalue"
      BY <2>1, <2>2 DEF Saving
    <2> HIDE DEF r
    <2> QED
      BY <2>1, <2>2, <2>3, OtherSupersession
  <1>7. ASSUME Drop(w) PROVE SupersessionSound' /\ CopiesTrue' /\ CasesRefer'
    <2>1. request' = [request EXCEPT ![w] = Idle] /\ UNCHANGED <<results, cases>>
      BY <1>7 DEF Drop, Finish, stored
    <2>2. Idle.op = "idle"
      BY DEF Idle
    <2> QED
      BY <2>1, <2>2, OtherSupersession
  <1> QED
    BY <1>1, <1>2, <1>3, <1>4, <1>5, <1>6, <1>7 DEF Load

\* What a write ends: the request is idle, the others are as they were.
LEMMA FinishSupersession ==
    ASSUME SupersessionInv, NEW w \in Workers, Finish(w), RevisionsStand
    PROVE  /\ CopiesTrue'
           /\ \A v \in Workers : request'[v].op = "revalue" => request'[v].id # 0
  <1>1. \A v \in Workers : request'[v] = IF v = w THEN Idle ELSE request[v]
    BY DEF Finish, SupersessionInv, TypeInv, TypeOK
  <1>2. Idle.op = "idle"
    BY DEF Idle
  <1>3. CopiesTrue'
    BY <1>1, <1>2, CopiesStay DEF Saving
  <1> QED
    BY <1>1, <1>2, <1>3 DEF SupersessionInv, CasesRefer

\* Writes that change the status of one row and what it is in force for.
LEMMA WriteSupersession ==
    ASSUME SupersessionInv, NEW w \in Workers, Write(w)
    PROVE  SupersessionSound' /\ CopiesTrue' /\ CasesRefer'
  <1> DEFINE q == request[w]
  <1>0. /\ results \in Seq(Row) /\ cases \in Seq(Case)
        /\ Saving(w) => q.id \in DOMAIN results /\ q.row \in Row
        /\ q.op = "review" => q.id \in DOMAIN cases /\ q.unchanged \in BOOLEAN
        /\ q.op = "revalue" => q.id # 0
    BY RequestFields DEF SupersessionInv, TypeInv, TypeOK, RequestRefers, CasesRefer
  <1>1. \A i \in DOMAIN results : results[i] \in Row /\ i \in Nat \ {0}
    BY <1>0
  <1>2. \A i \in DOMAIN results : results[i].status = "RATIFIED" => results[i].ratifiedBy # Nobody
    BY DEF SupersessionInv, CustodyOrder, ResultsAdmissible, StatusConsistent
  <1>3. \A i \in DOMAIN results : results[i].supersedes # 0 /\ results[i].current => results[i].status = "RATIFIED"
    BY DEF SupersessionInv, SupersessionSound
  <1>4. Saving(w) => /\ q.row.supersedes = results[q.id].supersedes
                     /\ q.op = "prepare" => q.row.supersedes = 0 /\ q.row.current
                     /\ q.row.supersedes # 0 \/ q.row.current \/ Superseded(q.id)
    BY DEF SupersessionInv, CopiesTrue
  <1>5. Finish(w)
    BY DEF Write, WriteEnter, WriteCreate, WritePrepare, WriteVerify, WriteRatify, WriteReturn, WriteRevalue, WriteReview
  <1> HIDE DEF q
  <1>6. ASSUME CasesStand, RevisionsStand PROVE CopiesTrue' /\ CasesRefer'
    BY <1>5, <1>6, FinishSupersession DEF SupersessionInv, CasesRefer, CasesStand
  <1>7. CASE WriteEnter(w)
    <2>1. UNCHANGED <<results, cases>>
      BY <1>7 DEF WriteEnter
    <2>2. RevisionsStand
      BY <2>1 DEF RevisionsStand
    <2>3. SupersessionSound'
      BY <2>1 DEF SupersessionInv, SupersessionSound
    <2>4. CasesStand
      BY <2>1 DEF CasesStand
    <2> QED
      BY <1>6, <2>2, <2>3, <2>4
  <1>8. CASE WriteCreate(w)
    <2>1. PICK r : r.current /\ r.supersedes = 0 /\ results' = Append(results, r) /\ cases' = cases
      BY <1>8 DEF WriteCreate, WriteResults, PreparedRow
    <2>2. /\ DOMAIN results' = 1..(Len(results) + 1)
          /\ results'[Len(results) + 1] = r
          /\ \A i \in DOMAIN results : i \in DOMAIN results' /\ results'[i] = results[i]
      BY <1>0, <2>1
    <2>3. RevisionsStand
      BY <2>2 DEF RevisionsStand
    <2>4. SupersessionSound'
      <3>1. \A i \in DOMAIN results' : i \in DOMAIN results \/ i = Len(results) + 1
        BY <1>0, <2>2
      <3> QED
        BY <2>1, <2>2, <2>3, <3>1, RowsKeepSupersession
    <2>5. CasesStand
      BY <2>1 DEF CasesStand
    <2> QED
      BY <1>6, <2>3, <2>4, <2>5
  <1>9. CASE WritePrepare(w)
    <2>1. /\ q.op = "prepare" /\ Saving(w)
          /\ results' = [results EXCEPT ![q.id] = PreparedRow(q.total, q.actor, q.row.current, q.row.supersedes)]
          /\ cases' = cases
      BY <1>9 DEF WritePrepare, WriteResults, Saving, q
    <2>2. /\ DOMAIN results' = DOMAIN results
          /\ \A i \in DOMAIN results : i # q.id => results'[i] = results[i]
          /\ results'[q.id].current /\ results'[q.id].supersedes = 0
      BY <1>0, <1>4, <2>1 DEF PreparedRow
    <2>3. results[q.id].supersedes = 0
      BY <1>4, <2>1
    <2>4. RevisionsStand
      BY <2>2, <2>3 DEF RevisionsStand
    <2>5. SupersessionSound'
      BY <2>2, <2>4, RowsKeepSupersession
    <2>6. CasesStand
      BY <2>1 DEF CasesStand
    <2> QED
      BY <1>6, <2>4, <2>5, <2>6
  <1>10. CASE WriteVerify(w) \/ WriteReturn(w)
    <2>1. /\ Saving(w)
          /\ ResultsAdmissible(results')
          /\ DOMAIN results' = DOMAIN results
          /\ \A i \in DOMAIN results : i # q.id => results'[i] = results[i]
          /\ results'[q.id].status \in {"VERIFIED", "RETURNED"}
      <3>1. CASE WriteVerify(w)
        BY <1>0, <1>1, <3>1 DEF WriteVerify, WriteResults, Saving, Row, q
      <3>2. CASE WriteReturn(w)
        BY <1>0, <1>1, <3>2 DEF WriteReturn, WriteResults, Saving, Row, q
      <3> QED
        BY <1>10, <3>1, <3>2
    <2>2. q.id \in DOMAIN results /\ results[q.id] \in Row
      BY <1>0, <1>1, <2>1
    <2>3. /\ results'[q.id].ratifiedBy = results[q.id].ratifiedBy
          /\ results'[q.id].current = results[q.id].current
          /\ results'[q.id].supersedes = results[q.id].supersedes
      <3>1. CASE WriteVerify(w)
        BY <1>0, <2>2, <3>1 DEF WriteVerify, WriteResults, Row, q
      <3>2. CASE WriteReturn(w)
        BY <1>0, <2>2, <3>2 DEF WriteReturn, WriteResults, Row, q
      <3> QED
        BY <1>10, <3>1, <3>2
    <2>4. results[q.id].status # "RATIFIED"
      BY <1>2, <2>1, <2>2, <2>3 DEF ResultsAdmissible, StatusConsistent
    <2>5. RevisionsStand
      BY <2>1, <2>3, <2>4 DEF RevisionsStand
    <2>6. SupersessionSound'
      <3>1. results[q.id].supersedes # 0 => ~results[q.id].current
        BY <1>3, <2>2, <2>4
      <3>2. results[q.id].supersedes = 0 /\ ~results[q.id].current => Superseded(q.id)
        BY <2>2 DEF SupersessionInv, SupersessionSound, Superseded
      <3> PICK k : k = q.id
        OBVIOUS
      <3>3. Superseded(k) => Superseded(k)'
        BY <1>1, <2>2, <2>5, SupersededStays
      <3> QED
        BY <2>1, <2>3, <2>5, <3>1, <3>2, <3>3, RowsKeepSupersession
    <2>7. CasesStand
      <3>1. cases' = cases \/ cases' = CloseCases(q.id, "REJECTED")
        BY <1>10 DEF WriteVerify, WriteReturn, q
      <3>2. CASE cases' = cases
        BY <3>2 DEF CasesStand
      <3>3. CASE cases' = CloseCases(q.id, "REJECTED")
        BY <1>0, <3>3, CloseCasesStand
      <3> QED
        BY <3>1, <3>2, <3>3
    <2> QED
      BY <1>6, <2>5, <2>6, <2>7
  <1>11. CASE WriteRatify(w)
    <2>1. Saving(w) /\ q.op = "ratify" /\ results' = RatifiedRows(q)
      BY <1>11 DEF WriteRatify, WriteResults, Saving, q
    <2>2. q.id \in DOMAIN results /\ results[q.id] \in Row /\ q.row \in Row
      BY <1>0, <1>1, <2>1
    <2>3. /\ DOMAIN results' = DOMAIN results
          /\ results'[q.id].status = "RATIFIED"
          /\ results'[q.id].supersedes = results[q.id].supersedes
          /\ results'[q.id].current = (q.row.current \/ q.row.supersedes # 0)
      BY <2>1, <2>2 DEF RatifiedRows, Row
    <2>4. ASSUME NEW i \in DOMAIN results, i # q.id
          PROVE  /\ results'[i].status = results[i].status
                 /\ results'[i].supersedes = results[i].supersedes
                 /\ i # q.row.supersedes => results'[i].current = results[i].current
      <3>1. results[i] \in Row
        BY <1>1
      <3>2. results'[i] = IF i = q.row.supersedes THEN [results[i] EXCEPT !.current = FALSE] ELSE results[i]
        BY <2>1, <2>4 DEF RatifiedRows
      <3> QED
        BY <3>1, <3>2 DEF Row
    <2>5. RevisionsStand
      BY <2>3, <2>4 DEF RevisionsStand
    <2>6. ASSUME NEW i \in DOMAIN results, i # q.id, i = q.row.supersedes
          PROVE  Superseded(i)' /\ ~results'[i].current
      <3>1. Superseded(i)'
        BY <1>4, <2>1, <2>2, <2>3, <2>6 DEF Superseded
      <3>2. results[i] \in Row
        BY <1>1
      <3>3. results'[i] = [results[i] EXCEPT !.current = FALSE]
        BY <2>1, <2>6 DEF RatifiedRows
      <3> QED
        BY <3>1, <3>2, <3>3 DEF Row
    <2>7. ASSUME NEW i, i = q.id, results'[i].supersedes = 0, ~results'[i].current PROVE Superseded(i)'
      <3>1. Superseded(i)
        BY <1>4, <2>1, <2>3, <2>7
      <3> QED
        BY <1>1, <2>2, <2>5, <2>7, <3>1, SupersededStays
    <2>8. ASSUME NEW i \in DOMAIN results'
          PROVE  \/ i \in DOMAIN results /\ results'[i].current = results[i].current
                                          /\ results'[i].status = results[i].status
                 \/ /\ results'[i].supersedes # 0 /\ results'[i].current => results'[i].status = "RATIFIED"
                    /\ results'[i].supersedes = 0 /\ ~results'[i].current => Superseded(i)'
      <3>1. CASE i = q.id
        BY <2>3, <2>7, <3>1
      <3>2. CASE i # q.id /\ i = q.row.supersedes
        BY <2>3, <2>6, <3>2
      <3>3. CASE i # q.id /\ i # q.row.supersedes
        BY <2>3, <2>4, <3>3
      <3> QED
        BY <3>1, <3>2, <3>3
    <2>9. SupersessionSound'
      BY <2>5, <2>8, RowsKeepSupersession
    <2>10. CasesStand
      <3>1. cases' = cases \/ cases' = CloseCases(q.id, "COMPLETED")
        BY <1>11 DEF WriteRatify, q
      <3>2. CASE cases' = cases
        BY <3>2 DEF CasesStand
      <3>3. CASE cases' = CloseCases(q.id, "COMPLETED")
        BY <1>0, <3>3, CloseCasesStand
      <3> QED
        BY <3>1, <3>2, <3>3
    <2> QED
      BY <1>6, <2>5, <2>9, <2>10
  <1>12. CASE WriteRevalue(w)
    <2> DEFINE c == [original |-> q.id, revised |-> 0, requestedBy |-> q.actor, reviewer |-> Nobody,
                     override |-> <<>>, status |-> "REQUESTED"]
    <2>1. results' = results /\ cases' = Append(cases, c) /\ q.op = "revalue"
      BY <1>12 DEF WriteRevalue, WriteCases, q
    <2>2. RevisionsStand
      BY <2>1 DEF RevisionsStand
    <2>3. SupersessionSound'
      BY <2>1 DEF SupersessionInv, SupersessionSound
    <2>4. c.original # 0
      BY <1>0, <2>1
    <2>5. \A d \in DOMAIN cases : cases[d].original # 0
      BY DEF SupersessionInv, CasesRefer
    <2> HIDE DEF c
    <2>6. \A d \in DOMAIN cases' : cases'[d] = IF d = Len(cases) + 1 THEN c ELSE cases[d]
      BY <1>0, <2>1
    <2>7. \A d \in DOMAIN cases' : d # Len(cases) + 1 => d \in DOMAIN cases
      BY <1>0, <2>1
    <2>8. \A d \in DOMAIN cases' : cases'[d].original # 0
      BY <2>4, <2>5, <2>6, <2>7
    <2> QED
      BY <1>5, <2>2, <2>3, <2>8, FinishSupersession DEF CasesRefer
  <1>13. CASE WriteReview(w)
    <2>1. /\ q.op = "review"
          /\ \/ results' = results
             \/ results' = Append(results, PreparedRow(q.total, q.actor, FALSE, cases[q.id].original))
          /\ \E c : cases' = [cases EXCEPT ![q.id] = c] /\ c.original = cases[q.id].original
      <3>1. q.op = "review"
        BY <1>13 DEF WriteReview, q
      <3>2. cases[q.id] \in Case
        BY <1>0, <3>1
      <3>3. \/ results' = results
            \/ results' = Append(results, PreparedRow(q.total, q.actor, FALSE, cases[q.id].original))
        BY <1>13 DEF WriteReview, WriteResults, q
      <3>4. \E c : cases' = [cases EXCEPT ![q.id] = c] /\ c.original = cases[q.id].original
        <4> DEFINE x == cases[q.id]
                   c == [x EXCEPT !.reviewer = q.actor,
                                  !.revised = IF q.unchanged THEN 0 ELSE Len(results) + 1,
                                  !.override = [a \in DOMAIN q.override \cup DOMAIN @ |->
                                                   IF a \in DOMAIN @ THEN @[a] ELSE q.override[a]],
                                  !.status = IF q.unchanged THEN "REVIEWED_UNCHANGED" ELSE "REVISED_PENDING"]
        <4>1. cases' = [cases EXCEPT ![q.id] = c]
          BY <1>13 DEF WriteReview, WriteCases, q
        <4>2. c.original = x.original
          BY <3>2 DEF Case
        <4> HIDE DEF c
        <4> QED
          BY <4>1, <4>2
      <3> QED
        BY <3>1, <3>3, <3>4
    <2>2. PICK c : cases' = [cases EXCEPT ![q.id] = c] /\ c.original = cases[q.id].original
      BY <2>1
    <2>3. CasesStand
      BY <1>0, <2>1, <2>2 DEF CasesStand
    <2>4. CASE results' = results
      <3>1. RevisionsStand
        BY <2>4 DEF RevisionsStand
      <3>2. SupersessionSound'
        BY <2>4 DEF SupersessionInv, SupersessionSound
      <3> QED
        BY <1>6, <2>3, <3>1, <3>2
    <2>5. CASE results' = Append(results, PreparedRow(q.total, q.actor, FALSE, cases[q.id].original))
      <3>1. PICK r : ~r.current /\ r.supersedes = cases[q.id].original /\ results' = Append(results, r)
        BY <2>5 DEF PreparedRow
      <3>2. /\ DOMAIN results' = 1..(Len(results) + 1)
            /\ results'[Len(results) + 1] = r
            /\ \A i \in DOMAIN results : i \in DOMAIN results' /\ results'[i] = results[i]
        BY <1>0, <3>1
      <3>3. r.supersedes # 0
        BY <1>0, <2>1, <3>1 DEF SupersessionInv, CasesRefer
      <3>4. RevisionsStand
        BY <3>2 DEF RevisionsStand
      <3>5. \A i \in DOMAIN results' : i \in DOMAIN results \/ i = Len(results) + 1
        BY <1>0, <3>2
      <3>6. SupersessionSound'
        BY <3>1, <3>2, <3>3, <3>4, <3>5, RowsKeepSupersession
      <3> QED
        BY <1>6, <2>3, <3>4, <3>6
    <2> QED
      BY <2>1, <2>4, <2>5
  <1> QED
    BY <1>7, <1>8, <1>9, <1>10, <1>11, <1>12, <1>13 DEF Write

\* A revaluation that is pending, returned or refused leaves the original in force, and a revision comes
\* into force ratified, for any number of requests at once: an original prepared anew from an old copy
\* would stand beside the revision, which the constraint on is_current refuses.
THEOREM SupersessionHolds == Spec => []SupersessionSound
  <1>1. SupersessionInv /\ [Next]_vars => SupersessionInv'
    <2> SUFFICES ASSUME SupersessionInv, [Next]_vars PROVE SupersessionInv'
      OBVIOUS
    <2>1. TypeInv' /\ CustodyOrder'
      BY StepTyped, StepCustody DEF SupersessionInv
    <2>2. CASE UNCHANGED vars
      <3>1. SupersessionSound' /\ CopiesTrue' /\ CasesRefer'
        BY <2>2 DEF SupersessionInv, SupersessionSound, CopiesTrue, CasesRefer, Saving, Superseded, vars
      <3> QED
        BY <2>1, <3>1 DEF SupersessionInv
    <2>3. CASE Next
      BY <2>1, <2>3, LoadSupersession, WriteSupersession DEF Next, SupersessionInv
    <2> QED
      BY <2>2, <2>3
  <1>2. SupersessionInv => SupersessionSound
    BY DEF SupersessionInv
  <1> QED
    BY <1>1, <1>2, InitSupersession, PTL DEF Spec
-----------------------------------------------------------------------------
(* Requests one after the other *)

\* One request at a time is in flight.
Alone == \A v, w \in Workers : request[v] # Idle /\ request[w] # Idle => v = w

\* What a request found when it began is still so: nothing was written since.
FreshAt(w) ==
    LET q == request[w]
    IN  /\ q.op \in {"create", "prepare"} => q.total = Compute(marks)
        /\ q.op \in {"enter", "create", "prepare"} => attempt.status = "SCHEDULED"
        /\ q.op = "enter" => ~MarksLocked
        /\ Saving(w) => q.row = results[q.id]
        /\ q.op = "verify" => q.row.preparedBy # q.actor
        /\ q.op = "ratify" => /\ q.row.status = "VERIFIED"
                              /\ q.actor \notin {q.row.preparedBy, q.row.verifiedBy}
        /\ q.op \in {"verify", "ratify", "return"} => q.row.status \in {"PREPARED", "VERIFIED"}
        /\ q.op = "revalue" => q.id \in DOMAIN results /\ results[q.id].status = "RATIFIED"
        /\ q.op = "review" =>
              LET c == cases[q.id]
                  r == results[c.original]
              IN  /\ c.status = "REQUESTED"
                  /\ q.actor \notin {c.requestedBy, r.preparedBy, r.verifiedBy, r.ratifiedBy}
                  /\ q.total = Compute(Overlay(marks, q.override))
                  /\ q.unchanged <=> q.total = r.total

Fresh == \A w \in Workers : FreshAt(w)

\* The signatures on a result are of different people.
Signed(r) ==
    /\ r.status \in {"VERIFIED", "RATIFIED"} => r.preparedBy # r.verifiedBy
    /\ r.status = "RATIFIED" => r.ratifiedBy \notin {r.preparedBy, r.verifiedBy}

\* A revision has a ratified original, a reviser from outside its chain, and the case that caused it.
Revised(r, i) ==
    /\ r.supersedes \in DOMAIN results
    /\ results[r.supersedes].status = "RATIFIED"
    /\ r.preparedBy \notin {results[r.supersedes].preparedBy, results[r.supersedes].verifiedBy,
                            results[r.supersedes].ratifiedBy}
    /\ \E c \in DOMAIN cases :
          /\ cases[c].revised = i
          /\ r.preparedBy # cases[c].requestedBy
          /\ r.total = Compute(Overlay(marks, cases[c].override))

RowsSound ==
    \A i \in DOMAIN results :
        LET r == results[i]
        IN  /\ Signed(r)
            /\ r.supersedes = 0 /\ r.status # "RETURNED" => r.total = Compute(marks)
            /\ r.supersedes # 0 => Revised(r, i)

CaseSound(c) ==
    /\ c.original \in DOMAIN results
    /\ results[c.original].status = "RATIFIED"
    /\ c.status = "REQUESTED" => c.revised = 0 /\ c.override = <<>>
    /\ IF c.revised = 0
       THEN c.status \in {"REQUESTED", "REVIEWED_UNCHANGED"}
       ELSE /\ c.revised \in DOMAIN results
            /\ LET r == results[c.revised]
               IN  /\ r.supersedes = c.original
                   /\ r.total # results[c.original].total
                   /\ c.status = CASE r.status \in {"PREPARED", "VERIFIED"} -> "REVISED_PENDING"
                                   [] r.status = "RATIFIED" -> "COMPLETED"
                                   [] r.status = "RETURNED" -> "REJECTED"

CasesSound == \A c \in DOMAIN cases : CaseSound(cases[c])

\* Until the first ratification there is one row, in force and with nothing copied from it ...
Drafted ==
    /\ attempt.status = "SCHEDULED"
    /\ enrollment = "ENROLLED"
    /\ \A i \in DOMAIN results :
          results[i].supersedes = 0 /\ results[i].current /\ results[i].status # "RATIFIED"

\* ... and from then on a ratified result is in force, and the attempt and the enrollment say what it says.
Settled ==
    /\ attempt.status = "RESULT_RATIFIED"
    /\ enrollment = "COMPLETED" <=> Outcome(attempt.total) = "PASS"
    /\ \E i \in DOMAIN results :
          results[i].current /\ results[i].status = "RATIFIED" /\ results[i].total = attempt.total
    /\ \A i \in DOMAIN results : results[i].supersedes = 0 => results[i].status = "RATIFIED"

InOrder == RowsSound /\ CasesSound /\ (Drafted \/ Settled)

TurnInv == TypeInv /\ CustodyOrder /\ (~overlapped => Alone /\ Fresh /\ InOrder)

\* The row in force is the one the constraint leaves.
LEMMA CurrentIs ==
    ASSUME OneCurrent(results), NEW i \in DOMAIN results, results[i].current
    PROVE  CurrentId = i
  BY DEF OneCurrent, CurrentId

LEMMA InitTurn == Init => TurnInv
  <1> SUFFICES ASSUME Init PROVE TurnInv
    OBVIOUS
  <1>1. TypeInv /\ CustodyOrder
    BY InitTyped, InitCustody
  <1>2. Alone
    BY DEF Init, Alone
  <1>3. Fresh
    BY DEF Init, Fresh, FreshAt, Idle, Saving
  <1>4. InOrder
    BY DEF Init, InOrder, RowsSound, CasesSound, Drafted
  <1> QED
    BY <1>1, <1>2, <1>3, <1>4 DEF TurnInv

-----------------------------------------------------------------------------
(* First halves, one request at a time *)

\* An idle worker has nothing that could be stale.
LEMMA IdleFresh ==
    ASSUME NEW w \in Workers, request'[w] = Idle
    PROVE  FreshAt(w)'
  BY DEF FreshAt, Idle, Saving

\* What the order is about, untouched, is in order.
LEMMA OrderStays ==
    ASSUME InOrder, UNCHANGED <<marks, results, cases, attempt, enrollment>>
    PROVE  InOrder'
  <1>1. RowsSound'
    <2>1. RowsSound
      BY DEF InOrder
    <2> QED
      BY <2>1 DEF RowsSound, Signed, Revised
  <1>2. CasesSound'
    <2>1. CasesSound
      BY DEF InOrder
    <2>2. \A c \in DOMAIN cases : CaseSound(cases[c])'
      BY <2>1 DEF CasesSound, CaseSound
    <2> QED
      BY <2>2 DEF CasesSound
  <1>3. Drafted => Drafted'
    BY DEF Drafted
  <1>4. Settled => Settled'
    BY DEF Settled
  <1> QED
    BY <1>1, <1>2, <1>3, <1>4 DEF InOrder

\* A request that begins alone changes nothing and is in flight alone.
LEMMA BeginTurn ==
    ASSUME TurnInv, NEW w \in Workers, NEW r, Begin(w, r), ~overlapped'
    PROVE  /\ ~overlapped /\ InOrder
           /\ request'[w] = r /\ UNCHANGED stored
           /\ FreshAt(w)' => Alone' /\ Fresh' /\ InOrder'
  <1>0. overlapped \in BOOLEAN
    BY DEF TurnInv, TypeInv, TypeOK
  <1>a. overlapped' = (overlapped \/ \E v \in Workers \ {w} : request[v] # Idle)
    BY DEF Begin
  <1>b. ~overlapped /\ \A v \in Workers : v # w => request[v] = Idle
    BY <1>0, <1>a
  <1>1. ~overlapped /\ InOrder /\ UNCHANGED stored
    BY <1>b DEF Begin, TurnInv
  <1>2. request' = [request EXCEPT ![w] = r] /\ request \in [Workers -> Request]
    BY DEF Begin, TurnInv, TypeInv, TypeOK
  <1>3. \A v \in Workers : v # w => request'[v] = Idle
    BY <1>b, <1>2
  <1>4. Alone'
    BY <1>3 DEF Alone
  <1>5. FreshAt(w)' => Fresh'
    <2>1. \A v \in Workers : v # w => FreshAt(v)'
      BY <1>3, IdleFresh
    <2> QED
      BY <2>1 DEF Fresh
  <1>6. InOrder'
    BY <1>1, OrderStays DEF stored
  <1> QED
    BY <1>1, <1>2, <1>4, <1>5, <1>6

\* A save that begins alone has a copy of the row as it is.
LEMMA SaveTurn ==
    ASSUME TurnInv, NEW w \in Workers, NEW p, NEW i, NEW t, NEW op \in {"prepare", "verify", "ratify", "return"},
           Save(w, op, p, i, t), ~overlapped',
           op = "prepare" => t = Compute(marks) /\ attempt.status = "SCHEDULED",
           op = "verify" => results[i].preparedBy # p,
           op = "ratify" => results[i].status = "VERIFIED" /\ p \notin {results[i].preparedBy, results[i].verifiedBy},
           op \in {"verify", "ratify", "return"} => results[i].status \in {"PREPARED", "VERIFIED"}
    PROVE  Alone' /\ Fresh' /\ InOrder'
  <1> DEFINE r == [op |-> op, actor |-> p, id |-> i, row |-> results[i], total |-> t, checked |-> FALSE]
  <1>1. Begin(w, r)
    BY DEF Save
  <1>2. r.op = op /\ r.actor = p /\ r.id = i /\ r.row = results[i] /\ r.total = t
    OBVIOUS
  <1> HIDE DEF r
  <1>3. request'[w] = r /\ UNCHANGED stored /\ (FreshAt(w)' => Alone' /\ Fresh' /\ InOrder')
    BY <1>1, BeginTurn
  <1>4. FreshAt(w)'
    BY <1>2, <1>3 DEF FreshAt, Saving, stored
  <1> QED
    BY <1>3, <1>4

LEMMA LoadTurn ==
    ASSUME TurnInv, NEW w \in Workers, Load(w), ~overlapped'
    PROVE  Alone' /\ Fresh' /\ InOrder'
  <1>1. ASSUME NEW a \in Assessments, NEW e \in Entries, LoadEnter(w, a, e)
        PROVE  Alone' /\ Fresh' /\ InOrder'
    <2> DEFINE r == [op |-> "enter", assessment |-> a, entry |-> e, exists |-> marks[a] # NoMark]
    <2>1. Begin(w, r) /\ r.op = "enter"
      BY <1>1 DEF LoadEnter
    <2> HIDE DEF r
    <2>2. request'[w] = r /\ UNCHANGED stored /\ (FreshAt(w)' => Alone' /\ Fresh' /\ InOrder')
      BY <2>1, BeginTurn
    <2>3. ~MarksLocked'
      BY <1>1, <2>2 DEF LoadEnter, stored, MarksLocked, CurrentId
    <2>4. FreshAt(w)'
      BY <1>1, <2>1, <2>2, <2>3 DEF LoadEnter, FreshAt, Saving, stored
    <2> QED
      BY <2>2, <2>4
  <1>2. ASSUME NEW p \in People, LoadPrepare(w, p)
        PROVE  Alone' /\ Fresh' /\ InOrder'
    <2>1. CASE CurrentId = 0
      <3> DEFINE r == [op |-> "create", actor |-> p, total |-> Compute(marks)]
      <3>1. Begin(w, r) /\ r.op = "create" /\ r.total = Compute(marks)
        BY <1>2, <2>1 DEF LoadPrepare
      <3> HIDE DEF r
      <3>2. request'[w] = r /\ UNCHANGED stored /\ (FreshAt(w)' => Alone' /\ Fresh' /\ InOrder')
        BY <3>1, BeginTurn
      <3>3. FreshAt(w)'
        BY <1>2, <3>1, <3>2 DEF LoadPrepare, FreshAt, Saving, stored
      <3> QED
        BY <3>2, <3>3
    <2>2. CASE CurrentId # 0
      <3>1. Save(w, "prepare", p, CurrentId, Compute(marks)) /\ attempt.status = "SCHEDULED"
        BY <1>2, <2>2 DEF LoadPrepare
      <3> QED
        BY <3>1, SaveTurn
    <2> QED
      BY <2>1, <2>2
  <1>3. ASSUME NEW p \in People, NEW i \in DOMAIN results, LoadVerify(w, p, i)
        PROVE  Alone' /\ Fresh' /\ InOrder'
    BY <1>3, SaveTurn DEF LoadVerify
  <1>4. ASSUME NEW p \in People, NEW i \in DOMAIN results, LoadRatify(w, p, i)
        PROVE  Alone' /\ Fresh' /\ InOrder'
    BY <1>4, SaveTurn DEF LoadRatify
  <1>5. ASSUME NEW p \in People, NEW i \in DOMAIN results, LoadReturn(w, p, i)
        PROVE  Alone' /\ Fresh' /\ InOrder'
    BY <1>5, SaveTurn DEF LoadReturn
  <1>6. ASSUME NEW p \in People, NEW i \in DOMAIN results, LoadRevalue(w, p, i)
        PROVE  Alone' /\ Fresh' /\ InOrder'
    <2> DEFINE r == [op |-> "revalue", actor |-> p, id |-> i]
    <2>1. Begin(w, r) /\ r.op = "revalue" /\ r.id = i
      BY <1>6 DEF LoadRevalue
    <2> HIDE DEF r
    <2>2. request'[w] = r /\ UNCHANGED stored /\ (FreshAt(w)' => Alone' /\ Fresh' /\ InOrder')
      BY <2>1, BeginTurn
    <2>3. FreshAt(w)'
      BY <1>6, <2>1, <2>2 DEF LoadRevalue, FreshAt, Saving, stored
    <2> QED
      BY <2>2, <2>3
  <1>7. ASSUME NEW p \in People, NEW c \in DOMAIN cases, NEW o \in Overrides, LoadReview(w, p, c, o)
        PROVE  Alone' /\ Fresh' /\ InOrder'
    <2> DEFINE t == Compute(Overlay(marks, o))
               u == t = results[cases[c].original].total
               r == [op |-> "review", actor |-> p, id |-> c, override |-> o, total |-> t, unchanged |-> u]
    <2>1. Begin(w, r)
      BY <1>7 DEF LoadReview
    <2>2. /\ r.op = "review" /\ r.actor = p /\ r.id = c /\ r.override = o /\ r.total = t
          /\ r.unchanged <=> t = results[cases[c].original].total
      <3>1. r.unchanged = u
        OBVIOUS
      <3> QED
        BY <3>1
    <2> HIDE DEF r, u
    <2>3. request'[w] = r /\ UNCHANGED stored /\ (FreshAt(w)' => Alone' /\ Fresh' /\ InOrder')
      BY <2>1, BeginTurn
    <2>4. /\ cases[c].status = "REQUESTED"
          /\ LET x == results[cases[c].original]
             IN  p \notin {cases[c].requestedBy, x.preparedBy, x.verifiedBy, x.ratifiedBy}
      BY <1>7 DEF LoadReview
    <2>5. FreshAt(w)'
      BY <2>2, <2>3, <2>4 DEF FreshAt, Saving, stored
    <2> QED
      BY <2>3, <2>5
  <1> QED
    BY <1>1, <1>2, <1>3, <1>4, <1>5, <1>6, <1>7 DEF Load
-----------------------------------------------------------------------------
(* Second halves, one request at a time *)

\* Before the first ratification there is nothing to revalue.
LEMMA DraftedAlone ==
    ASSUME InOrder, attempt.status = "SCHEDULED"
    PROVE  Drafted /\ DOMAIN cases = {}
  <1>1. Drafted
    BY DEF InOrder, Settled
  <1>2. ASSUME NEW c \in DOMAIN cases PROVE FALSE
    <2>1. cases[c].original \in DOMAIN results /\ results[cases[c].original].status = "RATIFIED"
      BY DEF InOrder, CasesSound, CaseSound
    <2> QED
      BY <1>1, <2>1 DEF Drafted
  <1> QED
    BY <1>1, <1>2

\* A result that is not ratified revises nothing but a ratified one, and is no case's original.
LEMMA PendingApart ==
    ASSUME InOrder, NEW k \in DOMAIN results, results[k].status # "RATIFIED"
    PROVE  /\ \A i \in DOMAIN results : results[i].supersedes # 0 => results[i].supersedes # k
           /\ \A c \in DOMAIN cases : cases[c].original # k
  <1>1. \A i \in DOMAIN results : results[i].supersedes # 0 => results[results[i].supersedes].status = "RATIFIED"
    BY DEF InOrder, RowsSound, Revised
  <1>2. \A c \in DOMAIN cases : results[cases[c].original].status = "RATIFIED"
    BY DEF InOrder, CasesSound, CaseSound
  <1> QED
    BY <1>1, <1>2

\* What a case must say of a revision in this status.
Word(status) == CASE status \in {"PREPARED", "VERIFIED"} -> "REVISED_PENDING"
                  [] status = "RATIFIED" -> "COMPLETED"
                  [] status = "RETURNED" -> "REJECTED"

\* What each row says but for its force and, in one row, its decision.
DecidedOnly(k) ==
    /\ DOMAIN results' = DOMAIN results
    /\ \A i \in DOMAIN results :
          /\ results'[i].supersedes = results[i].supersedes
          /\ results'[i].total = results[i].total
          /\ results'[i].preparedBy = results[i].preparedBy
          /\ i # k => /\ results'[i].status = results[i].status
                      /\ results'[i].verifiedBy = results[i].verifiedBy
                      /\ results'[i].ratifiedBy = results[i].ratifiedBy

\* The cases of that row follow it, and no case changes otherwise.
CasesFollow(k) ==
    /\ DOMAIN cases' = DOMAIN cases
    /\ \A c \in DOMAIN cases :
          /\ cases'[c].original = cases[c].original
          /\ cases'[c].revised = cases[c].revised
          /\ cases'[c].requestedBy = cases[c].requestedBy
          /\ cases'[c].override = cases[c].override
          /\ cases'[c].status = IF cases[c].revised = k THEN Word(results'[k].status) ELSE cases[c].status

\* A decision on a result that is not final keeps the rows and the cases in order.
LEMMA DecisionSound ==
    ASSUME InOrder, TypeInv, NEW k \in DOMAIN results, results[k].status \in {"PREPARED", "VERIFIED"},
           UNCHANGED marks, DecidedOnly(k), CasesFollow(k), Signed(results'[k]),
           results'[k].status \in {"VERIFIED", "RATIFIED", "RETURNED"}
    PROVE  RowsSound' /\ CasesSound'
  <1>0. results \in Seq(Row) /\ k \in Nat \ {0}
    BY DEF TypeInv, TypeOK
  <1>1. /\ \A i \in DOMAIN results : results[i].supersedes # 0 => results[i].supersedes # k
        /\ \A c \in DOMAIN cases : cases[c].original # k
    BY PendingApart
  <1>2. ASSUME NEW i \in DOMAIN results'
        PROVE  /\ Signed(results'[i])
               /\ results'[i].supersedes = 0 /\ results'[i].status # "RETURNED" => results'[i].total = Compute(marks)
               /\ results'[i].supersedes # 0 => Revised(results[i], i)
    <2>1. i \in DOMAIN results
      BY <1>2 DEF DecidedOnly
    <2>2. /\ Signed(results[i])
          /\ results[i].supersedes = 0 /\ results[i].status # "RETURNED" => results[i].total = Compute(marks)
          /\ results[i].supersedes # 0 => Revised(results[i], i)
      BY <2>1 DEF InOrder, RowsSound
    <2>3. Signed(results'[i])
      <3>1. CASE i = k
        BY <3>1
      <3>2. CASE i # k
        BY <2>1, <2>2, <3>2 DEF Signed, DecidedOnly
      <3> QED
        BY <3>1, <3>2
    <2> QED
      BY <2>1, <2>2, <2>3 DEF DecidedOnly
  <1>3. ASSUME NEW i \in DOMAIN results, results[i].supersedes # 0, Revised(results[i], i)
        PROVE  /\ results'[i].supersedes \in DOMAIN results'
               /\ results'[results'[i].supersedes].status = "RATIFIED"
               /\ results'[i].preparedBy \notin {results'[results'[i].supersedes].preparedBy,
                                                 results'[results'[i].supersedes].verifiedBy,
                                                 results'[results'[i].supersedes].ratifiedBy}
               /\ \E c \in DOMAIN cases' :
                     /\ cases'[c].revised = i
                     /\ results'[i].preparedBy # cases'[c].requestedBy
                     /\ results'[i].total = Compute(Overlay(marks', cases'[c].override))
    <2>1. /\ results[i].supersedes \in DOMAIN results /\ results[i].supersedes # k
          /\ results[results[i].supersedes].status = "RATIFIED"
          /\ results[i].preparedBy \notin {results[results[i].supersedes].preparedBy,
                                           results[results[i].supersedes].verifiedBy,
                                           results[results[i].supersedes].ratifiedBy}
      BY <1>1, <1>3 DEF Revised
    <2>2. PICK c \in DOMAIN cases :
             /\ cases[c].revised = i
             /\ results[i].preparedBy # cases[c].requestedBy
             /\ results[i].total = Compute(Overlay(marks, cases[c].override))
      BY <1>3 DEF Revised
    <2>3. /\ c \in DOMAIN cases'
          /\ cases'[c].revised = i
          /\ results'[i].preparedBy # cases'[c].requestedBy
          /\ results'[i].total = Compute(Overlay(marks', cases'[c].override))
      BY <2>2 DEF DecidedOnly, CasesFollow
    <2> QED
      BY <2>1, <2>3 DEF DecidedOnly
  <1>4. RowsSound'
    <2>1. DOMAIN results' = DOMAIN results /\ \A i \in DOMAIN results : results'[i].supersedes = results[i].supersedes
      BY DEF DecidedOnly
    <2> QED
      BY <1>2, <1>3, <2>1 DEF RowsSound, Revised
  <1>5. ASSUME NEW c \in DOMAIN cases PROVE CaseSound(cases[c])'
    <2>1. /\ cases[c].original \in DOMAIN results /\ cases[c].original # k
          /\ results[cases[c].original].status = "RATIFIED"
          /\ cases[c].status = "REQUESTED" => cases[c].revised = 0 /\ cases[c].override = <<>>
          /\ cases[c].revised = 0 => cases[c].status \in {"REQUESTED", "REVIEWED_UNCHANGED"}
          /\ cases[c].revised # 0 => /\ cases[c].revised \in DOMAIN results
                                    /\ results[cases[c].revised].supersedes = cases[c].original
                                    /\ results[cases[c].revised].total # results[cases[c].original].total
                                    /\ cases[c].status = Word(results[cases[c].revised].status)
      BY <1>1, <1>5 DEF InOrder, CasesSound, CaseSound, Word
    <2>2. Word(results'[k].status) # "REQUESTED"
      BY DEF Word
    <2>3. /\ cases'[c].original = cases[c].original
          /\ cases'[c].revised = cases[c].revised
          /\ cases'[c].override = cases[c].override
          /\ cases'[c].status = IF cases[c].revised = k THEN Word(results'[k].status) ELSE cases[c].status
      BY <1>5 DEF CasesFollow
    <2>4. /\ results'[cases[c].original].status = "RATIFIED"
          /\ results'[cases[c].original].total = results[cases[c].original].total
          /\ DOMAIN results' = DOMAIN results
      BY <2>1 DEF DecidedOnly
    <2>5. cases[c].revised # 0 =>
             /\ results'[cases[c].revised].supersedes = cases[c].original
             /\ results'[cases[c].revised].total # results'[cases[c].original].total
             /\ cases[c].revised # k => results'[cases[c].revised].status = results[cases[c].revised].status
      BY <2>1, <2>4 DEF DecidedOnly
    <2>6. cases'[c].revised # 0 => cases'[c].status = Word(results'[cases'[c].revised].status)
      BY <2>1, <2>3, <2>5
    <2>7. cases'[c].revised = 0 => cases'[c].status \in {"REQUESTED", "REVIEWED_UNCHANGED"}
      BY <1>0, <2>1, <2>3
    <2>8. cases'[c].status = "REQUESTED" => cases'[c].revised = 0 /\ cases'[c].override = <<>>
      BY <1>0, <2>1, <2>2, <2>3
    <2> QED
      BY <2>1, <2>3, <2>4, <2>5, <2>6, <2>7, <2>8 DEF CaseSound, Word
  <1>6. CasesSound'
    BY <1>5 DEF CasesSound, CasesFollow
  <1> QED
    BY <1>4, <1>6

\* The cases of a revision are closed with it; an original's decision closes none.
LEMMA ClosingFollows ==
    ASSUME InOrder, TypeInv, NEW k \in DOMAIN results, NEW s, s = Word(results'[k].status),
           cases' = IF results[k].supersedes # 0 THEN CloseCases(k, s) ELSE cases
    PROVE  CasesFollow(k)
  <1>0. cases \in Seq(Case) /\ results \in Seq(Row)
    BY DEF TypeInv, TypeOK
  <1>1. DOMAIN cases' = DOMAIN cases
    BY DEF CloseCases
  <1>2. ASSUME NEW c \in DOMAIN cases
        PROVE  /\ cases'[c].original = cases[c].original
               /\ cases'[c].revised = cases[c].revised
               /\ cases'[c].requestedBy = cases[c].requestedBy
               /\ cases'[c].override = cases[c].override
               /\ cases'[c].status = IF cases[c].revised = k THEN s ELSE cases[c].status
    <2>1. cases[c] \in Case
      BY <1>0, <1>2
    <2>2. CASE cases[c].revised = k /\ results[k].supersedes # 0
      <3>1. cases'[c] = [cases[c] EXCEPT !.status = s]
        BY <1>2, <2>2 DEF CloseCases
      <3> QED
        BY <2>1, <2>2, <3>1 DEF Case
    <2>3. CASE cases[c].revised # k
      <3>1. cases'[c] = cases[c]
        BY <1>2, <2>3 DEF CloseCases
      <3> QED
        BY <2>3, <3>1
    <2>4. CASE cases[c].revised = k /\ results[k].supersedes = 0
      <3>1. k # 0
        BY <1>0
      <3>2. results[k].supersedes = cases[c].original /\ cases[c].original \in DOMAIN results
        BY <1>2, <2>4, <3>1 DEF InOrder, CasesSound, CaseSound
      <3>3. 0 \notin DOMAIN results
        BY <1>0
      <3> QED
        BY <2>4, <3>2, <3>3
    <2> QED
      BY <2>2, <2>3, <2>4
  <1> QED
    BY <1>1, <1>2 DEF CasesFollow
\* A request that ends leaves nobody in flight.
LEMMA FinishTurn ==
    ASSUME TurnInv, ~overlapped, NEW w \in Workers, Finish(w), request[w] # Idle
    PROVE  Alone' /\ Fresh'
  <1>1. \A v \in Workers : v # w => request[v] = Idle
    BY DEF TurnInv, Alone
  <1>2. \A v \in Workers : request'[v] = Idle
    BY <1>1 DEF Finish, TurnInv, TypeInv, TypeOK
  <1>3. Alone'
    BY <1>2 DEF Alone
  <1>4. Fresh'
    BY <1>2, IdleFresh DEF Fresh
  <1> QED
    BY <1>3, <1>4

\* While the attempt is scheduled, rows that are in force, not ratified and computed from the marks are in order.
LEMMA DraftSound ==
    ASSUME InOrder, attempt.status = "SCHEDULED", UNCHANGED <<cases, attempt, enrollment>>,
           \A i \in DOMAIN results' :
              /\ results'[i].supersedes = 0 /\ results'[i].current /\ results'[i].status # "RATIFIED"
              /\ results'[i].status = "VERIFIED" => results'[i].preparedBy # results'[i].verifiedBy
              /\ results'[i].status # "RETURNED" => results'[i].total = Compute(marks')
    PROVE  InOrder'
  <1>1. Drafted /\ DOMAIN cases = {}
    BY DraftedAlone
  <1>2. Drafted'
    BY <1>1 DEF Drafted
  <1>3. RowsSound'
    BY DEF RowsSound, Signed
  <1>4. CasesSound'
    BY <1>1 DEF CasesSound
  <1> QED
    BY <1>2, <1>3, <1>4 DEF InOrder

\* A mark is written under a result that was returned, or under none.
LEMMA EnterTurn ==
    ASSUME TurnInv, ~overlapped, NEW w \in Workers, WriteEnter(w)
    PROVE  InOrder'
  <1>1. InOrder /\ attempt.status = "SCHEDULED" /\ ~MarksLocked
    BY DEF WriteEnter, TurnInv, Fresh, FreshAt
  <1>2. UNCHANGED <<results, cases, attempt, enrollment>>
    BY DEF WriteEnter
  <1>3. Drafted
    BY <1>1, DraftedAlone
  <1>4. ASSUME NEW i \in DOMAIN results PROVE results[i].status = "RETURNED"
    <2>1. CurrentId = i /\ i # 0
      BY <1>3, CurrentIs DEF Drafted, TurnInv, CustodyOrder, ResultsAdmissible, TypeInv, TypeOK
    <2> QED
      BY <1>1, <2>1 DEF MarksLocked
  <1> QED
    BY <1>1, <1>2, <1>3, <1>4, DraftSound DEF Drafted

\* A result is prepared, first or again, from the marks as they are.
LEMMA CreateTurn ==
    ASSUME TurnInv, ~overlapped, NEW w \in Workers, WriteCreate(w)
    PROVE  InOrder'
  <1> DEFINE r == PreparedRow(request[w].total, request[w].actor, TRUE, 0)
  <1>1. InOrder /\ attempt.status = "SCHEDULED" /\ request[w].total = Compute(marks)
    BY DEF WriteCreate, TurnInv, Fresh, FreshAt
  <1>2. UNCHANGED <<marks, cases, attempt, enrollment>> /\ results' = Append(results, r)
    BY DEF WriteCreate, WriteResults
  <1>3. Drafted /\ RowsSound
    BY <1>1, DraftedAlone DEF InOrder
  <1>4. r.supersedes = 0 /\ r.current /\ r.status = "PREPARED" /\ r.total = Compute(marks)
    BY <1>1 DEF PreparedRow
  <1>5. results \in Seq(Row)
    BY DEF TurnInv, TypeInv, TypeOK
  <1> HIDE DEF r
  <1>6. \A i \in DOMAIN results' : (i \in DOMAIN results /\ results'[i] = results[i]) \/ results'[i] = r
    BY <1>2, <1>5
  <1> QED
    BY <1>1, <1>2, <1>3, <1>4, <1>6, DraftSound DEF Drafted, RowsSound, Signed

LEMMA PrepareTurn ==
    ASSUME TurnInv, ~overlapped, NEW w \in Workers, WritePrepare(w)
    PROVE  InOrder'
  <1> DEFINE q == request[w]
             r == PreparedRow(q.total, q.actor, q.row.current, q.row.supersedes)
  <1>1. InOrder /\ attempt.status = "SCHEDULED" /\ q.total = Compute(marks) /\ q.row = results[q.id]
    BY DEF WritePrepare, TurnInv, Fresh, FreshAt, Saving
  <1>2. UNCHANGED <<marks, cases, attempt, enrollment>> /\ results' = [results EXCEPT ![q.id] = r]
    BY DEF WritePrepare, WriteResults
  <1>3. Drafted /\ RowsSound
    BY <1>1, DraftedAlone DEF InOrder
  <1>4. q.id \in DOMAIN results
    BY DEF TurnInv, TypeInv, RequestRefers, WritePrepare, Saving
  <1>5. r.supersedes = 0 /\ r.current /\ r.status = "PREPARED" /\ r.total = Compute(marks)
    BY <1>1, <1>3, <1>4 DEF PreparedRow, Drafted
  <1> HIDE DEF r
  <1>6. \A i \in DOMAIN results' : (i \in DOMAIN results /\ results'[i] = results[i]) \/ results'[i] = r
    BY <1>2
  <1> QED
    BY <1>1, <1>2, <1>3, <1>5, <1>6, DraftSound DEF Drafted, RowsSound, Signed

\* A verification or a return decides one result that is not final.
LEMMA DecideTurn ==
    ASSUME TurnInv, ~overlapped, NEW w \in Workers, WriteVerify(w) \/ WriteReturn(w)
    PROVE  InOrder'
  <1> DEFINE k == request[w].id
  <1>1. /\ InOrder /\ TypeInv
        /\ k \in DOMAIN results /\ request[w].row = results[k]
        /\ results[k].status \in {"PREPARED", "VERIFIED"}
        /\ UNCHANGED <<marks, attempt, enrollment>>
    BY DEF WriteVerify, WriteReturn, TurnInv, Fresh, FreshAt, Saving, TypeInv, RequestRefers
  <1>2. results[k] \in Row /\ results \in Seq(Row)
    BY <1>1 DEF TypeInv, TypeOK
  <1>3. /\ DecidedOnly(k)
        /\ \A i \in DOMAIN results : results'[i].current = results[i].current
        /\ Signed(results'[k])
        /\ results'[k].status \in {"VERIFIED", "RETURNED"}
        /\ WriteVerify(w) <=> results'[k].status = "VERIFIED"
    <2>1. CASE WriteVerify(w)
      <3>1. results' = [results EXCEPT ![k].status = "VERIFIED", ![k].verifiedBy = request[w].actor]
        BY <2>1 DEF WriteVerify, WriteResults
      <3>2. results[k].preparedBy # request[w].actor
        BY <1>1, <2>1 DEF WriteVerify, TurnInv, Fresh, FreshAt
      <3> QED
        BY <1>1, <1>2, <2>1, <3>1, <3>2 DEF DecidedOnly, Signed, Row
    <2>2. CASE WriteReturn(w)
      <3>1. results' = [results EXCEPT ![k].status = "RETURNED"] /\ request[w].op = "return"
        BY <2>2 DEF WriteReturn, WriteResults
      <3>2. ~WriteVerify(w)
        BY <3>1 DEF WriteVerify
      <3> QED
        BY <1>1, <1>2, <3>1, <3>2 DEF DecidedOnly, Signed, Row
    <2> QED
      BY <2>1, <2>2
  <1>4. CasesFollow(k)
    <2>1. CASE WriteVerify(w)
      <3>1. cases' = cases
        BY <2>1 DEF WriteVerify
      <3>2. ASSUME NEW c \in DOMAIN cases, cases[c].revised = k
            PROVE  cases[c].status = Word(results'[k].status)
        <4>1. k # 0
          BY <1>1, <1>2
        <4>2. cases[c].status = "REVISED_PENDING"
          BY <1>1, <3>2, <4>1 DEF InOrder, CasesSound, CaseSound
        <4> QED
          BY <1>3, <2>1, <4>2 DEF Word
      <3> QED
        BY <3>1, <3>2 DEF CasesFollow
    <2>2. CASE WriteReturn(w)
      <3>1. results'[k].status = "RETURNED"
        BY <1>3, <2>2 DEF WriteReturn, WriteVerify
      <3>2. cases' = IF results[k].supersedes # 0 THEN CloseCases(k, "REJECTED") ELSE cases
        BY <1>1, <2>2 DEF WriteReturn
      <3>3. "REJECTED" = Word(results'[k].status)
        BY <3>1 DEF Word
      <3> HIDE DEF k
      <3> QED
        BY <1>1, <3>2, <3>3, ClosingFollows
    <2> QED
      BY <2>1, <2>2
  <1>5. RowsSound' /\ CasesSound'
    <2> HIDE DEF k
    <2> QED
      BY <1>1, <1>3, <1>4, DecisionSound
  <1>6. Drafted => Drafted'
    BY <1>1, <1>3 DEF Drafted, DecidedOnly
  <1>7. Settled => Settled'
    <2> SUFFICES ASSUME Settled PROVE Settled'
      OBVIOUS
    <2>1. PICK i \in DOMAIN results :
             results[i].current /\ results[i].status = "RATIFIED" /\ results[i].total = attempt.total
      BY DEF Settled
    <2>2. /\ i \in DOMAIN results' /\ results'[i].current /\ results'[i].status = "RATIFIED"
          /\ results'[i].total = attempt'.total
      BY <1>1, <1>3, <2>1 DEF DecidedOnly
    <2>3. \A j \in DOMAIN results' : results'[j].supersedes = 0 => results'[j].status = "RATIFIED"
      BY <1>1, <1>3 DEF DecidedOnly, Settled
    <2> QED
      BY <1>1, <2>2, <2>3 DEF Settled
  <1> QED
    BY <1>1, <1>5, <1>6, <1>7 DEF InOrder
\* A ratification puts its result in force, in place of the one it supersedes, and copies it.
LEMMA RatifyTurn ==
    ASSUME TurnInv, ~overlapped, NEW w \in Workers, WriteRatify(w)
    PROVE  InOrder'
  <1> DEFINE q == request[w]
             k == q.id
  <1>1. /\ InOrder /\ TypeInv
        /\ k \in DOMAIN results /\ q.row = results[k]
        /\ results[k].status = "VERIFIED"
        /\ q.actor \notin {results[k].preparedBy, results[k].verifiedBy}
        /\ UNCHANGED marks
        /\ ResultsAdmissible(results') /\ results' = RatifiedRows(q)
    BY DEF WriteRatify, WriteResults, TurnInv, Fresh, FreshAt, Saving, TypeInv, RequestRefers
  <1>2. results[k] \in Row /\ results \in Seq(Row)
    BY <1>1 DEF TypeInv, TypeOK
  <1>3. /\ DOMAIN results' = DOMAIN results
        /\ results'[k] = [results[k] EXCEPT !.status = "RATIFIED", !.ratifiedBy = q.actor,
                                            !.current = q.row.current \/ q.row.supersedes # 0]
        /\ \A i \in DOMAIN results : i # k =>
              results'[i] = IF i = q.row.supersedes THEN [results[i] EXCEPT !.current = FALSE] ELSE results[i]
    BY <1>1 DEF RatifiedRows
  <1>4. /\ results'[k].status = "RATIFIED" /\ results'[k].ratifiedBy = q.actor
        /\ results'[k].current = (q.row.current \/ q.row.supersedes # 0)
        /\ results'[k].supersedes = results[k].supersedes /\ results'[k].total = results[k].total
        /\ results'[k].preparedBy = results[k].preparedBy /\ results'[k].verifiedBy = results[k].verifiedBy
    BY <1>2, <1>3 DEF Row
  <1>5. ASSUME NEW i \in DOMAIN results, i # k
        PROVE  /\ results'[i].status = results[i].status /\ results'[i].total = results[i].total
               /\ results'[i].supersedes = results[i].supersedes
               /\ results'[i].preparedBy = results[i].preparedBy
               /\ results'[i].verifiedBy = results[i].verifiedBy
               /\ results'[i].ratifiedBy = results[i].ratifiedBy
    <2>1. results[i] \in Row
      BY <1>2
    <2> QED
      BY <1>3, <1>5, <2>1 DEF Row
  <1> HIDE DEF k
  <1>6. DecidedOnly(k)
    BY <1>3, <1>4, <1>5 DEF DecidedOnly
  <1>7. Signed(results'[k])
    <2>1. results[k].preparedBy # results[k].verifiedBy
      BY <1>1 DEF InOrder, RowsSound, Signed
    <2> QED
      BY <1>1, <1>4, <2>1 DEF Signed
  <1>8. CasesFollow(k)
    <2>1. cases' = IF results[k].supersedes # 0 THEN CloseCases(k, "COMPLETED") ELSE cases
      BY <1>1 DEF WriteRatify, k
    <2>2. "COMPLETED" = Word(results'[k].status)
      BY <1>4 DEF Word
    <2> QED
      BY <1>1, <2>1, <2>2, ClosingFollows
  <1>9. RowsSound' /\ CasesSound'
    BY <1>1, <1>4, <1>6, <1>7, <1>8, DecisionSound
  <1>10. results[k].current \/ results[k].supersedes # 0
    BY <1>1 DEF InOrder, Drafted, Settled
  <1>11. ASSUME NEW i \in DOMAIN results, results[i].supersedes = 0, i # k
         PROVE  results[i].status = "RATIFIED"
    <2>1. CASE Drafted
      <3>1. results[i].current /\ results[k].current
        BY <1>1, <2>1 DEF Drafted
      <3>2. i = k
        BY <1>1, <3>1 DEF TurnInv, CustodyOrder, ResultsAdmissible, OneCurrent
      <3> QED
        BY <1>11, <3>2
    <2>2. CASE Settled
      BY <1>11, <2>2 DEF Settled
    <2> QED
      BY <1>1, <2>1, <2>2 DEF InOrder
  <1>12. Settled'
    <2>1. attempt' = [status |-> "RESULT_RATIFIED", total |-> results[k].total]
      BY <1>1 DEF WriteRatify, SyncAttempt
    <2>2. attempt'.status = "RESULT_RATIFIED" /\ attempt'.total = results[k].total
      BY <2>1
    <2>3. enrollment' = IF Outcome(results[k].total) = "PASS" THEN "COMPLETED" ELSE "ENROLLED"
      BY <1>1 DEF WriteRatify, SyncAttempt
    <2>4. enrollment' = "COMPLETED" <=> Outcome(attempt'.total) = "PASS"
      BY <2>2, <2>3
    <2>5. /\ k \in DOMAIN results' /\ results'[k].current /\ results'[k].status = "RATIFIED"
          /\ results'[k].total = attempt'.total
      BY <1>1, <1>3, <1>4, <1>10, <2>2
    <2>6. \A i \in DOMAIN results' : results'[i].supersedes = 0 => results'[i].status = "RATIFIED"
      BY <1>3, <1>4, <1>5, <1>11
    <2> QED
      BY <2>2, <2>4, <2>5, <2>6 DEF Settled
  <1> QED
    BY <1>9, <1>12 DEF InOrder

\* Rows that only gain cases, and rows, stay in order.
LEMMA RowsGain ==
    ASSUME InOrder, UNCHANGED marks,
           NEW i \in DOMAIN results, i \in DOMAIN results', results'[i] = results[i],
           \A j \in DOMAIN results : j \in DOMAIN results' /\ results'[j] = results[j],
           \A c \in DOMAIN cases : cases[c].revised = i =>
              c \in DOMAIN cases' /\ cases'[c] = cases[c]
    PROVE  /\ Signed(results'[i])
           /\ results'[i].supersedes = 0 /\ results'[i].status # "RETURNED" => results'[i].total = Compute(marks')
           /\ results'[i].supersedes # 0 => Revised(results[i], i)'
  <1>1. /\ Signed(results[i])
        /\ results[i].supersedes = 0 /\ results[i].status # "RETURNED" => results[i].total = Compute(marks)
        /\ results[i].supersedes # 0 => Revised(results[i], i)
    BY DEF InOrder, RowsSound
  <1>2. ASSUME Revised(results[i], i) PROVE Revised(results[i], i)'
    <2>1. PICK c \in DOMAIN cases :
             /\ cases[c].revised = i
             /\ results[i].preparedBy # cases[c].requestedBy
             /\ results[i].total = Compute(Overlay(marks, cases[c].override))
      BY <1>2 DEF Revised
    <2>2. c \in DOMAIN cases' /\ cases'[c] = cases[c]
      BY <2>1
    <2> QED
      BY <1>2, <2>1, <2>2 DEF Revised
  <1> QED
    BY <1>1, <1>2

\* A case about rows that stay is in order as before.
LEMMA CaseStays ==
    ASSUME InOrder, NEW c \in DOMAIN cases, cases'[c] = cases[c],
           \A j \in DOMAIN results : j \in DOMAIN results' /\ results'[j] = results[j]
    PROVE  CaseSound(cases[c])'
  <1>1. CaseSound(cases[c])
    BY DEF InOrder, CasesSound
  <1>2. \A j \in DOMAIN results : j \in DOMAIN results' /\ results'[j] = results[j]
    OBVIOUS
  <1> QED
    BY <1>1, <1>2 DEF CaseSound

\* A case is filed about a ratified result.
LEMMA RevalueTurn ==
    ASSUME TurnInv, ~overlapped, NEW w \in Workers, WriteRevalue(w)
    PROVE  InOrder'
  <1> DEFINE x == [original |-> request[w].id, revised |-> 0, requestedBy |-> request[w].actor,
                   reviewer |-> Nobody, override |-> <<>>, status |-> "REQUESTED"]
  <1> PICK n : n = Len(cases) + 1
    OBVIOUS
  <1>1. /\ InOrder /\ cases \in Seq(Case)
        /\ request[w].id \in DOMAIN results /\ results[request[w].id].status = "RATIFIED"
    BY DEF WriteRevalue, TurnInv, Fresh, FreshAt, TypeInv, TypeOK
  <1>2. UNCHANGED <<marks, results, attempt, enrollment>> /\ cases' = Append(cases, x)
    BY DEF WriteRevalue, WriteCases
  <1>3. /\ x.original = request[w].id /\ x.revised = 0 /\ x.status = "REQUESTED" /\ x.override = <<>>
    OBVIOUS
  <1> HIDE DEF x
  <1>4. /\ DOMAIN cases' = DOMAIN cases \cup {n} /\ cases'[n] = x
        /\ \A c \in DOMAIN cases : c \in DOMAIN cases' /\ cases'[c] = cases[c]
    BY <1>1, <1>2
  <1>5. RowsSound'
    <2>1. \A i \in DOMAIN results :
             /\ Signed(results'[i])
             /\ results'[i].supersedes = 0 /\ results'[i].status # "RETURNED" => results'[i].total = Compute(marks')
             /\ results'[i].supersedes # 0 => Revised(results[i], i)'
      BY <1>1, <1>2, <1>4, RowsGain
    <2> QED
      BY <1>2, <2>1 DEF RowsSound
  <1>6. CasesSound'
    <2>1. ASSUME NEW c \in DOMAIN cases PROVE CaseSound(cases[c])'
      <3>1. /\ cases'[c] = cases[c]
            /\ \A j \in DOMAIN results : j \in DOMAIN results' /\ results'[j] = results[j]
        BY <1>2, <1>4, <2>1
      <3> QED
        BY <1>1, <3>1, CaseStays
    <2>2. CaseSound(cases[n])'
      <3>1. cases'[n].original \in DOMAIN results' /\ results'[cases'[n].original].status = "RATIFIED"
        BY <1>1, <1>2, <1>3, <1>4
      <3>2. cases'[n].revised = 0 /\ cases'[n].status = "REQUESTED" /\ cases'[n].override = <<>>
        BY <1>3, <1>4
      <3> QED
        BY <3>1, <3>2 DEF CaseSound
    <2> QED
      BY <1>4, <2>1, <2>2 DEF CasesSound
  <1>7. (Drafted => Drafted') /\ (Settled => Settled')
    BY <1>2 DEF Drafted, Settled
  <1> QED
    BY <1>1, <1>5, <1>6, <1>7 DEF InOrder
\* A review files its finding in its own case, and the revision it leads to refers to both.
LEMMA ReviewTurn ==
    ASSUME TurnInv, ~overlapped, NEW w \in Workers, WriteReview(w)
    PROVE  InOrder'
  <1> DEFINE q == request[w]
  <1> PICK k : k = q.id
    OBVIOUS
  <1> PICK n : n = Len(results) + 1
    OBVIOUS
  <1> PICK p : p = results[cases[k].original]
    OBVIOUS
  <1>1. /\ InOrder /\ results \in Seq(Row) /\ cases \in Seq(Case)
        /\ k \in DOMAIN cases /\ q.override \in Overrides /\ q.unchanged \in BOOLEAN
    BY RequestFields DEF WriteReview, TurnInv, TypeInv, TypeOK, RequestRefers
  <1>2. /\ cases[k].status = "REQUESTED"
        /\ q.actor \notin {cases[k].requestedBy, p.preparedBy, p.verifiedBy, p.ratifiedBy}
        /\ q.total = Compute(Overlay(marks, q.override))
        /\ q.unchanged <=> q.total = p.total
    BY DEF WriteReview, TurnInv, Fresh, FreshAt
  <1>3. /\ cases[k].original \in DOMAIN results /\ p.status = "RATIFIED"
        /\ cases[k].revised = 0 /\ cases[k].override = <<>>
    BY <1>1, <1>2 DEF InOrder, CasesSound, CaseSound
  <1>4. PICK y : /\ cases' = [cases EXCEPT ![k] = y]
                 /\ y.original = cases[k].original /\ y.requestedBy = cases[k].requestedBy
                 /\ y.override = q.override
                 /\ y.revised = IF q.unchanged THEN 0 ELSE n
                 /\ y.status = IF q.unchanged THEN "REVIEWED_UNCHANGED" ELSE "REVISED_PENDING"
    <2> DEFINE x == cases[k]
               o == [a \in DOMAIN q.override \cup DOMAIN x.override |->
                        IF a \in DOMAIN x.override THEN x.override[a] ELSE q.override[a]]
               m == IF q.unchanged THEN 0 ELSE n
               s == IF q.unchanged THEN "REVIEWED_UNCHANGED" ELSE "REVISED_PENDING"
               y == [x EXCEPT !.reviewer = q.actor, !.revised = m, !.override = o, !.status = s]
    <2>1. x \in Case
      BY <1>1
    <2>2. cases' = [cases EXCEPT ![k] = y]
      BY DEF WriteReview, WriteCases
    <2>3. o = q.override
      <3>1. DOMAIN x.override = {}
        BY <1>3
      <3>2. PICK S \in SUBSET Assessments : q.override \in [S -> Scores]
        BY <1>1 DEF Overrides
      <3> QED
        BY <3>1, <3>2
    <2> HIDE DEF x, o, m, s
    <2>4. /\ y.original = x.original /\ y.requestedBy = x.requestedBy /\ y.override = o
          /\ y.revised = m /\ y.status = s
      BY <2>1 DEF Case
    <2> HIDE DEF y
    <2> QED
      BY <2>2, <2>3, <2>4 DEF x, m, s
  <1>5. /\ DOMAIN cases' = DOMAIN cases /\ cases'[k] = y
        /\ \A c \in DOMAIN cases : c # k => cases'[c] = cases[c]
    BY <1>1, <1>4
  <1>6. \E r : /\ r.supersedes = cases[k].original /\ r.total = q.total /\ r.preparedBy = q.actor
               /\ r.status = "PREPARED"
               /\ results' = IF q.unchanged THEN results ELSE Append(results, r)
    <2> DEFINE r == PreparedRow(q.total, q.actor, FALSE, cases[k].original)
    <2>1. results' = IF q.unchanged THEN results ELSE Append(results, r)
      BY DEF WriteReview, WriteResults
    <2>2. /\ r.supersedes = cases[k].original /\ r.total = q.total /\ r.preparedBy = q.actor
          /\ r.status = "PREPARED"
      BY DEF PreparedRow
    <2> HIDE DEF r
    <2> QED
      BY <2>1, <2>2
  <1>7. PICK r : /\ r.supersedes = cases[k].original /\ r.total = q.total /\ r.preparedBy = q.actor
                 /\ r.status = "PREPARED"
                 /\ results' = IF q.unchanged THEN results ELSE Append(results, r)
    BY <1>6
  <1>8. /\ n \in Nat \ {0} /\ n \notin DOMAIN results
        /\ \A j \in DOMAIN results : j \in DOMAIN results' /\ results'[j] = results[j] /\ j # 0
        /\ q.unchanged => DOMAIN results' = DOMAIN results
        /\ ~q.unchanged => DOMAIN results' = DOMAIN results \cup {n} /\ results'[n] = r
    BY <1>1, <1>7
  <1>9. UNCHANGED <<marks, attempt, enrollment>>
    BY DEF WriteReview
  <1>10. RowsSound'
    <2>1. ASSUME NEW i \in DOMAIN results
          PROVE  /\ Signed(results'[i])
                 /\ results'[i].supersedes = 0 /\ results'[i].status # "RETURNED" => results'[i].total = Compute(marks')
                 /\ results'[i].supersedes # 0 => Revised(results[i], i)'
      <3>1. \A c \in DOMAIN cases : cases[c].revised = i => c \in DOMAIN cases' /\ cases'[c] = cases[c]
        BY <1>3, <1>5, <1>8, <2>1
      <3> QED
        BY <1>1, <1>8, <1>9, <2>1, <3>1, RowsGain
    <2>2. ASSUME ~q.unchanged
          PROVE  /\ Signed(results'[n])
                 /\ results'[n].supersedes # 0
                 /\ Revised(results[n], n)'
      <3>1. results'[n] = r /\ r.supersedes \in DOMAIN results /\ r.supersedes # 0
        BY <1>3, <1>7, <1>8, <2>2
      <3>2. results'[r.supersedes] = p /\ r.supersedes \in DOMAIN results'
        BY <1>7, <1>8, <3>1
      <3>3. /\ k \in DOMAIN cases' /\ cases'[k].revised = n /\ r.preparedBy # cases'[k].requestedBy
            /\ r.total = Compute(Overlay(marks', cases'[k].override))
        BY <1>1, <1>2, <1>4, <1>5, <1>7, <1>9, <2>2
      <3>4. Revised(results[n], n)'
        BY <1>2, <1>3, <1>7, <3>1, <3>2, <3>3 DEF Revised
      <3> QED
        BY <1>7, <3>1, <3>4 DEF Signed
    <2>3. ASSUME NEW i \in DOMAIN results'
          PROVE  i \in DOMAIN results \/ (i = n /\ ~q.unchanged)
      BY <1>1, <1>8, <2>3
    <2> QED
      BY <2>1, <2>2, <2>3 DEF RowsSound
  <1>11. CasesSound'
    <2>1. ASSUME NEW c \in DOMAIN cases, c # k PROVE CaseSound(cases[c])'
      BY <1>1, <1>5, <1>8, <2>1, CaseStays
    <2>2. CaseSound(cases[k])'
      <3>1. /\ cases'[k].original \in DOMAIN results'
            /\ results'[cases'[k].original] = p
        BY <1>3, <1>4, <1>5, <1>8
      <3>2. CASE q.unchanged
        <4>1. cases'[k].revised = 0 /\ cases'[k].status = "REVIEWED_UNCHANGED"
          BY <1>4, <1>5, <3>2
        <4> QED
          BY <1>3, <3>1, <4>1 DEF CaseSound
      <3>3. CASE ~q.unchanged
        <4>1. cases'[k].revised = n /\ cases'[k].status = "REVISED_PENDING" /\ n # 0
          BY <1>4, <1>5, <1>8, <3>3
        <4>2. n \in DOMAIN results' /\ results'[n] = r /\ r.supersedes = cases'[k].original /\ r.total # p.total
          BY <1>2, <1>4, <1>5, <1>7, <1>8, <3>3
        <4> QED
          BY <1>3, <1>7, <3>1, <4>1, <4>2 DEF CaseSound
      <3> QED
        BY <1>1, <3>2, <3>3
    <2> QED
      BY <1>5, <2>1, <2>2 DEF CasesSound
  <1>12. Settled'
    <2>1. Settled
      BY <1>1, DraftedAlone DEF InOrder, Drafted
    <2>2. PICK i \in DOMAIN results :
             results[i].current /\ results[i].status = "RATIFIED" /\ results[i].total = attempt.total
      BY <2>1 DEF Settled
    <2>3. ASSUME NEW j \in DOMAIN results', results'[j].supersedes = 0 PROVE results'[j].status = "RATIFIED"
      <3>1. CASE j \in DOMAIN results
        BY <1>8, <2>1, <2>3, <3>1 DEF Settled
      <3>2. CASE j = n /\ ~q.unchanged
        BY <1>3, <1>7, <1>8, <2>3, <3>2
      <3> QED
        BY <1>1, <1>8, <3>1, <3>2
    <2> QED
      BY <1>8, <1>9, <2>1, <2>2, <2>3 DEF Settled
  <1> QED
    BY <1>10, <1>11, <1>12 DEF InOrder

\* Requests in turn stay in order, and a request that overlaps another says nothing.
LEMMA StepTurn == TurnInv /\ [Next]_vars => TurnInv'
  <1> SUFFICES ASSUME TurnInv, [Next]_vars, ~overlapped' PROVE Alone' /\ Fresh' /\ InOrder'
    BY StepTyped, StepCustody DEF TurnInv
  <1>1. CASE UNCHANGED vars
    <2>1. ~overlapped /\ Alone /\ Fresh /\ InOrder
      BY <1>1 DEF TurnInv, vars
    <2>2. Alone' /\ UNCHANGED <<marks, results, cases, attempt, enrollment, request>>
      BY <1>1, <2>1 DEF vars, Alone
    <2>3. ~MarksLocked => ~MarksLocked'
      BY <2>2 DEF MarksLocked, CurrentId
    <2>4. Fresh'
      <3>1. ASSUME NEW w \in Workers PROVE FreshAt(w)'
        <4>1. FreshAt(w)
          BY <2>1, <3>1 DEF Fresh
        <4> QED
          BY <2>2, <2>3, <4>1 DEF FreshAt, Saving
      <3> QED
        BY <3>1 DEF Fresh
    <2> QED
      BY <2>1, <2>2, <2>4, OrderStays
  <1>2. ASSUME NEW w \in Workers, Load(w) PROVE Alone' /\ Fresh' /\ InOrder'
    BY <1>2, LoadTurn
  <1>3. ASSUME NEW w \in Workers, SaveGuard(w) PROVE Alone' /\ Fresh' /\ InOrder'
    <2>1. ~overlapped /\ Alone /\ Fresh /\ InOrder /\ UNCHANGED stored
      BY <1>3 DEF SaveGuard, TurnInv
    <2>2. request' = [request EXCEPT ![w] = [request[w] EXCEPT !.checked = TRUE]] /\ Saving(w)
      BY <1>3 DEF SaveGuard
    <2>3. PICK r : request' = [request EXCEPT ![w] = r] /\ r = [request[w] EXCEPT !.checked = TRUE]
      BY <2>2
    <2>4. /\ r.op = request[w].op /\ r.actor = request[w].actor /\ r.id = request[w].id
          /\ r.row = request[w].row /\ r.total = request[w].total
      BY <2>2, <2>3 DEF Saving, TurnInv, TypeInv, TypeOK, Request
    <2>5. \A v \in Workers : request'[v] = IF v = w THEN r ELSE request[v]
      BY <2>3 DEF TurnInv, TypeInv, TypeOK
    <2>6. request[w] # Idle
      BY <2>2 DEF Saving, Idle
    <2>7. Alone'
      BY <2>1, <2>5, <2>6 DEF Alone
    <2>8. FreshAt(w)'
      <3>1. FreshAt(w)
        BY <2>1 DEF Fresh
      <3>2. request'[w] = r
        BY <2>5
      <3>3. request[w].op \in {"prepare", "verify", "ratify", "return"}
        BY <2>2 DEF Saving
      <3> QED
        BY <2>1, <2>4, <3>1, <3>2, <3>3 DEF FreshAt, Saving, stored
    <2>9. ASSUME NEW v \in Workers, v # w PROVE FreshAt(v)'
      BY <2>1, <2>5, <2>6, <2>9, IdleFresh DEF Alone
    <2>10. Fresh'
      BY <2>8, <2>9 DEF Fresh
    <2> QED
      BY <2>1, <2>7, <2>10, OrderStays DEF stored
  <1>4. ASSUME NEW w \in Workers, Write(w) PROVE Alone' /\ Fresh' /\ InOrder'
    <2>1. Finish(w) /\ request[w].op # "idle"
      BY <1>4 DEF Write, WriteEnter, WriteCreate, WritePrepare, WriteVerify, WriteRatify, WriteReturn,
                  WriteRevalue, WriteReview
    <2>2. ~overlapped /\ request[w] # Idle
      BY <2>1 DEF Finish, Idle
    <2>3. Alone' /\ Fresh'
      BY <2>1, <2>2, FinishTurn
    <2>4. InOrder'
      BY <1>4, <2>2, EnterTurn, CreateTurn, PrepareTurn, DecideTurn, RatifyTurn, RevalueTurn, ReviewTurn
         DEF Write
    <2> QED
      BY <2>3, <2>4
  <1>5. ASSUME NEW w \in Workers, Drop(w) PROVE Alone' /\ Fresh' /\ InOrder'
    <2>1. ~overlapped /\ InOrder /\ request[w] # Idle /\ Finish(w) /\ UNCHANGED stored
      BY <1>5 DEF Drop, Finish, TurnInv
    <2> QED
      BY <2>1, FinishTurn, OrderStays DEF stored
  <1> QED
    BY <1>1, <1>2, <1>3, <1>4, <1>5 DEF Next
\* Nobody prepares, verifies, ratifies and revises the same result, for as long as no two requests overlap.
THEOREM SeparationHoldsInTurn == Spec => []SeparationInTurn
  <1>1. TurnInv => SeparationInTurn
    <2> SUFFICES ASSUME TurnInv, ~overlapped PROVE SeparationOfDuties
      BY DEF SeparationInTurn
    <2>1. RowsSound
      BY DEF TurnInv, InOrder
    <2> QED
      BY <2>1 DEF SeparationOfDuties, RowsSound, Signed, Revised
  <1> QED
    BY <1>1, InitTurn, StepTurn, PTL DEF Spec

\* A result that stands is what its marks, or the marks revised for it, compute to, for as long as no two
\* requests overlap.
THEOREM ResultsMatchInTurn == Spec => []ResultMatchesMarksInTurn
  <1>1. TurnInv => ResultMatchesMarksInTurn
    <2> SUFFICES ASSUME TurnInv, ~overlapped PROVE ResultMatchesMarks
      BY DEF ResultMatchesMarksInTurn
    <2>1. RowsSound
      BY DEF TurnInv, InOrder
    <2> QED
      BY <2>1 DEF ResultMatchesMarks, RowsSound, Revised
  <1> QED
    BY <1>1, InitTurn, StepTurn, PTL DEF Spec

\* What the record says before the first ratification: nothing, and nobody contests it.
LEMMA ScheduledSays ==
    TypeInv /\ CustodyOrder /\ InOrder /\ attempt.status = "SCHEDULED" => Official = NoMark /\ Contested = FALSE
  <1> SUFFICES ASSUME TypeInv, CustodyOrder, InOrder, attempt.status = "SCHEDULED"
               PROVE  Official = NoMark /\ Contested = FALSE
    OBVIOUS
  <1>1. Drafted /\ DOMAIN cases = {}
    BY DraftedAlone
  <1>2. CurrentId = 0 \/ CurrentId \in DOMAIN results
    BY CurrentIdType DEF TypeInv, TypeOK
  <1>3. Official = NoMark
    BY <1>1, <1>2 DEF Official, Drafted
  <1>4. Contested = FALSE
    BY <1>1 DEF Contested
  <1> QED
    BY <1>3, <1>4

\* And from then on: what the attempt copies from the ratified result in force.
LEMMA SettledSays ==
    TypeInv /\ CustodyOrder /\ InOrder /\ attempt.status # "SCHEDULED" =>
        /\ Settled /\ Official = attempt.total /\ attempt.total \in Totals
        /\ CurrentId \in DOMAIN results /\ results[CurrentId].current
        /\ results[CurrentId].status = "RATIFIED" /\ results[CurrentId].total = attempt.total
  <1> SUFFICES ASSUME TypeInv, CustodyOrder, InOrder, attempt.status # "SCHEDULED"
               PROVE  /\ Settled /\ Official = attempt.total /\ attempt.total \in Totals
                      /\ CurrentId \in DOMAIN results /\ results[CurrentId].current
                      /\ results[CurrentId].status = "RATIFIED" /\ results[CurrentId].total = attempt.total
    OBVIOUS
  <1>1. Settled
    BY DEF InOrder, Drafted
  <1>2. PICK i \in DOMAIN results :
           results[i].current /\ results[i].status = "RATIFIED" /\ results[i].total = attempt.total
    BY <1>1 DEF Settled
  <1>3. CurrentId = i /\ i # 0 /\ results[i] \in Row
    BY <1>2, CurrentIs DEF CustodyOrder, ResultsAdmissible, TypeInv, TypeOK
  <1>4. attempt.total \in Totals
    BY <1>2, <1>3 DEF Row
  <1> QED
    BY <1>1, <1>2, <1>3, <1>4 DEF Official

\* The attempt, the enrollment and the cases say what the results they follow say, for as long as no two
\* requests overlap.
THEOREM CopiesHoldInTurn == Spec => []CopiesFollowInTurn
  <1>1. TurnInv => CopiesFollowInTurn
    <2> SUFFICES ASSUME TurnInv, ~overlapped PROVE MirrorFollowsResult /\ CaseFollowsRevision
      BY DEF CopiesFollowInTurn
    <2>1. TypeInv /\ CustodyOrder /\ InOrder
      BY DEF TurnInv
    <2>2. MirrorFollowsResult
      <3>1. CASE attempt.status = "SCHEDULED"
        <4>1. Drafted
          BY <2>1, <3>1, DraftedAlone
        <4>2. CurrentId = 0 \/ CurrentId \in DOMAIN results
          BY <2>1, CurrentIdType DEF TypeInv, TypeOK
        <4> QED
          BY <4>1, <4>2 DEF MirrorFollowsResult, Drafted
      <3>2. CASE attempt.status # "SCHEDULED"
        <4>1. /\ Settled /\ CurrentId \in DOMAIN results
              /\ results[CurrentId].status = "RATIFIED" /\ results[CurrentId].total = attempt.total
          BY <2>1, <3>2, SettledSays
        <4>2. CurrentId # 0
          BY <2>1, <4>1 DEF TypeInv, TypeOK
        <4>3. attempt = [status |-> "RESULT_RATIFIED", total |-> attempt.total]
          BY <2>1, <4>1 DEF Settled, TypeInv, TypeOK
        <4> QED
          BY <4>1, <4>2, <4>3 DEF MirrorFollowsResult, Settled
      <3> QED
        BY <3>1, <3>2
    <2>3. CaseFollowsRevision
      BY <2>1 DEF InOrder, CasesSound, CaseSound, CaseFollowsRevision
    <2> QED
      BY <2>2, <2>3
  <1> QED
    BY <1>1, InitTurn, StepTurn, PTL DEF Spec

-----------------------------------------------------------------------------
(* Requests in turn publish results *)

\* The state before and after a step that two requests did not overlap in.
TurnStep == TypeInv /\ CustodyOrder /\ InOrder /\ TypeInv' /\ CustodyOrder' /\ InOrder'

LEMMA StepSays ==
    ASSUME TurnStep
    PROVE  /\ Contested \in BOOLEAN /\ Contested' \in BOOLEAN
           /\ attempt'.status = "SCHEDULED" => Official' = NoMark /\ Contested' = FALSE
           /\ attempt'.status # "SCHEDULED" =>
                /\ Settled' /\ Official' = attempt'.total /\ attempt'.total \in Totals
                /\ CurrentId' \in DOMAIN results' /\ results'[CurrentId'].current
                /\ results'[CurrentId'].status = "RATIFIED" /\ results'[CurrentId'].total = attempt'.total
  <1>1. Contested \in BOOLEAN /\ Contested' \in BOOLEAN
    BY DEF Contested
  <1>2. (TypeInv /\ CustodyOrder /\ InOrder /\ attempt.status = "SCHEDULED" => Official = NoMark /\ Contested = FALSE)'
    BY ScheduledSays, PTL
  <1>3. (TypeInv /\ CustodyOrder /\ InOrder /\ attempt.status # "SCHEDULED" =>
            /\ Settled /\ Official = attempt.total /\ attempt.total \in Totals
            /\ CurrentId \in DOMAIN results /\ results[CurrentId].current
            /\ results[CurrentId].status = "RATIFIED" /\ results[CurrentId].total = attempt.total)'
    BY SettledSays, PTL
  <1> QED
    BY <1>1, <1>2, <1>3 DEF TurnStep
\* Before the first ratification, and as long as the attempt is not settled, the record says nothing.
LEMMA ScheduledQuiet ==
    ASSUME TurnStep, attempt.status = "SCHEDULED", UNCHANGED attempt
    PROVE  UNCHANGED <<Official, Contested>>
  BY StepSays, ScheduledSays DEF TurnStep

\* Where no result comes into force and no case is opened, a contest may end and nothing else changes.
LEMMA UpholdOrQuiet ==
    ASSUME TurnStep, UNCHANGED attempt,
           \A i \in DOMAIN results' : results'[i].current => i \in DOMAIN results /\ results[i].current,
           DOMAIN cases' = DOMAIN cases,
           \A c \in DOMAIN cases : /\ cases'[c].original = cases[c].original
                                   /\ OpenCase(cases'[c]) => OpenCase(cases[c])
    PROVE  [Published!Next]_<<Official, Contested>>
  <1>1. CASE attempt.status = "SCHEDULED"
    BY <1>1, ScheduledQuiet
  <1>2. CASE attempt.status # "SCHEDULED"
    <2>1. Official' = Official
      BY <1>2, StepSays, SettledSays DEF TurnStep
    <2>2. PICK i : i = CurrentId'
      OBVIOUS
    <2>3. i \in DOMAIN results /\ results[i].current
      BY <1>2, <2>2, StepSays
    <2>4. CurrentId' = CurrentId
      BY <2>2, <2>3, CurrentIs DEF TurnStep, CustodyOrder, ResultsAdmissible
    <2>5. Contested' => Contested
      BY <2>4 DEF Contested
    <2>6. Contested \in BOOLEAN /\ Contested' \in BOOLEAN
      BY StepSays
    <2>7. CASE Contested' = Contested
      BY <2>1, <2>7
    <2>8. CASE Contested /\ Contested' = FALSE
      <3>1. Published!Uphold
        BY <2>1, <2>8 DEF Published!Uphold
      <3> QED
        BY <3>1 DEF Published!Next
    <2>9. Contested' = Contested \/ (Contested /\ Contested' = FALSE)
      BY <2>5, <2>6
    <2> QED
      BY <2>7, <2>8, <2>9
  <1> QED
    BY <1>1, <1>2

LEMMA DecidePublishes ==
    ASSUME TurnStep, TurnInv, ~overlapped, NEW w \in Workers, WriteVerify(w) \/ WriteReturn(w)
    PROVE  [Published!Next]_<<Official, Contested>>
  <1> PICK k : k = request[w].id
    OBVIOUS
  <1>1. /\ InOrder /\ results \in Seq(Row) /\ cases \in Seq(Case)
        /\ k \in DOMAIN results /\ results[k].status \in {"PREPARED", "VERIFIED"}
        /\ UNCHANGED attempt
    BY DEF WriteVerify, WriteReturn, TurnInv, Fresh, FreshAt, Saving, TypeInv, TypeOK, RequestRefers
  <1>2. \A i \in DOMAIN results' : i \in DOMAIN results /\ results'[i].current = results[i].current
    <2>1. results[k] \in Row
      BY <1>1
    <2>2. CASE WriteVerify(w)
      BY <1>1, <2>1, <2>2 DEF WriteVerify, WriteResults, Row
    <2>3. CASE WriteReturn(w)
      BY <1>1, <2>1, <2>3 DEF WriteReturn, WriteResults, Row
    <2> QED
      BY <2>2, <2>3
  <1>3. cases' = cases \/ cases' = CloseCases(k, "REJECTED")
    BY DEF WriteVerify, WriteReturn
  <1>4. DOMAIN cases' = DOMAIN cases
    BY <1>3 DEF CloseCases
  <1>5. ASSUME NEW c \in DOMAIN cases
        PROVE  cases'[c].original = cases[c].original /\ (OpenCase(cases'[c]) => OpenCase(cases[c]))
    <2>1. cases[c] \in Case
      BY <1>1, <1>5
    <2>2. cases'[c] = cases[c] \/ cases'[c] = [cases[c] EXCEPT !.status = "REJECTED"]
      BY <1>3, <1>5 DEF CloseCases
    <2> QED
      BY <2>1, <2>2 DEF Case, OpenCase
  <1> QED
    BY <1>1, <1>2, <1>4, <1>5, UpholdOrQuiet

\* A ratification publishes the first result, or a different one that its case was about.
LEMMA RatifyPublishes ==
    ASSUME TurnStep, TurnInv, ~overlapped, NEW w \in Workers, WriteRatify(w)
    PROVE  [Published!Next]_<<Official, Contested>>
  <1> PICK q : q = request[w]
    OBVIOUS
  <1> PICK k : k = q.id
    OBVIOUS
  <1>1. /\ k \in DOMAIN results /\ q.row = results[k] /\ results[k].status = "VERIFIED"
        /\ results' = RatifiedRows(q)
        /\ cases' = cases \/ cases' = CloseCases(k, "COMPLETED")
        /\ attempt' = [status |-> "RESULT_RATIFIED", total |-> results[k].total]
    BY DEF WriteRatify, WriteResults, SyncAttempt, TurnInv, Fresh, FreshAt, Saving, TypeInv, RequestRefers
  <1>2. /\ InOrder /\ results \in Seq(Row) /\ cases \in Seq(Case) /\ results[k] \in Row
        /\ OneCurrent(results') /\ k # 0
    BY <1>1 DEF TurnStep, TypeInv, TypeOK, CustodyOrder, ResultsAdmissible
  <1>3. /\ DOMAIN results' = DOMAIN results
        /\ results'[k].current = (results[k].current \/ results[k].supersedes # 0)
        /\ \A i \in DOMAIN results : i # k /\ i # results[k].supersedes => results'[i] = results[i]
    <2>1. DOMAIN results' = DOMAIN results
      BY <1>1 DEF RatifiedRows
    <2>2. results'[k] = [results[k] EXCEPT !.status = "RATIFIED", !.ratifiedBy = q.actor,
                                           !.current = results[k].current \/ results[k].supersedes # 0]
      BY <1>1 DEF RatifiedRows
    <2>3. results'[k].current = (results[k].current \/ results[k].supersedes # 0)
      BY <1>2, <2>2 DEF Row
    <2>4. \A i \in DOMAIN results : i # k /\ i # results[k].supersedes => results'[i] = results[i]
      BY <1>1 DEF RatifiedRows
    <2> QED
      BY <2>1, <2>3, <2>4
  <1>4. /\ DOMAIN cases' = DOMAIN cases
        /\ \A c \in DOMAIN cases : cases'[c].original = cases[c].original
    <2>1. DOMAIN cases' = DOMAIN cases
      BY <1>1 DEF CloseCases
    <2>2. ASSUME NEW c \in DOMAIN cases PROVE cases'[c].original = cases[c].original
      <3>1. cases[c] \in Case
        BY <1>2, <2>2
      <3>2. cases'[c] = cases[c] \/ cases'[c] = [cases[c] EXCEPT !.status = "COMPLETED"]
        BY <1>1, <2>2 DEF CloseCases
      <3> QED
        BY <3>1, <3>2 DEF Case
    <2> QED
      BY <2>1, <2>2
  <1>5. attempt'.status = "RESULT_RATIFIED" /\ attempt'.total = results[k].total
    BY <1>1
  <1>6. Official' = results[k].total /\ Official' \in Totals
    BY <1>5, StepSays
  <1>7. results[k].current \/ results[k].supersedes # 0
    BY <1>1, <1>2 DEF InOrder, Drafted, Settled
  <1>8. CurrentId' = k
    <2>1. PICK i : i = CurrentId'
      OBVIOUS
    <2>2. i \in DOMAIN results' /\ results'[i].current
      BY <1>5, <2>1, StepSays
    <2>3. k \in DOMAIN results' /\ results'[k].current
      BY <1>1, <1>3, <1>7
    <2> QED
      BY <1>2, <2>1, <2>2, <2>3 DEF OneCurrent
  <1>9. Contested' = FALSE
    <2>1. \A c \in DOMAIN cases : cases[c].original # k
      BY <1>1, <1>2, PendingApart
    <2> QED
      BY <1>4, <1>8, <2>1 DEF Contested
  <1>10. CASE attempt.status = "SCHEDULED"
    <2>1. Official = NoMark /\ Contested = FALSE
      BY <1>10, ScheduledSays DEF TurnStep
    <2>2. Published!Publish
      BY <1>6, <1>9, <2>1 DEF Published!Publish
    <2> QED
      BY <2>2 DEF Published!Next
  <1>11. CASE attempt.status # "SCHEDULED"
    <2>1. /\ Settled /\ CurrentId \in DOMAIN results /\ results[CurrentId].current
          /\ results[CurrentId].status = "RATIFIED" /\ Official = results[CurrentId].total
      BY <1>11, SettledSays DEF TurnStep
    <2>2. results[k].supersedes # 0
      BY <1>1, <2>1 DEF Settled
    <2>3. CurrentId = results[k].supersedes
      <3>1. PICK i : i = CurrentId
        OBVIOUS
      <3>2. i \in DOMAIN results /\ results[i].current /\ i # k
        BY <1>1, <2>1, <3>1
      <3>3. k \in DOMAIN results' /\ results'[k].current
        BY <1>1, <1>3, <1>7
      <3>4. ~results'[i].current
        BY <1>2, <1>3, <3>2, <3>3 DEF OneCurrent
      <3> QED
        BY <1>3, <3>1, <3>2, <3>4
    <2>4. PICK c \in DOMAIN cases : cases[c].revised = k
      BY <1>1, <1>2, <2>2 DEF InOrder, RowsSound, Revised
    <2>5. /\ cases[c].original = results[k].supersedes
          /\ results[k].total # results[cases[c].original].total
          /\ cases[c].status = "REVISED_PENDING"
      BY <1>1, <1>2, <2>4 DEF InOrder, CasesSound, CaseSound
    <2>6. Contested /\ results[k].total # Official
      BY <2>1, <2>3, <2>4, <2>5 DEF Contested, OpenCase
    <2>7. Published!Revise
      BY <1>6, <1>9, <2>6 DEF Published!Revise
    <2> QED
      BY <2>7 DEF Published!Next
  <1> QED
    BY <1>10, <1>11

\* Filing a case contests the result in force, if it is about it.
LEMMA RevaluePublishes ==
    ASSUME TurnStep, TurnInv, ~overlapped, NEW w \in Workers, WriteRevalue(w)
    PROVE  [Published!Next]_<<Official, Contested>>
  <1>1. PICK x : /\ UNCHANGED <<results, attempt>> /\ cases' = Append(cases, x)
    BY DEF WriteRevalue, WriteCases
  <1>2. /\ request[w].id \in DOMAIN results /\ results[request[w].id].status = "RATIFIED"
        /\ cases \in Seq(Case)
    BY DEF WriteRevalue, TurnInv, Fresh, FreshAt, TypeInv, TypeOK
  <1>3. attempt.status # "SCHEDULED"
    <2>1. ~Drafted
      BY <1>2 DEF Drafted
    <2> QED
      BY <2>1, DraftedAlone DEF TurnStep
  <1>4. Official' = Official /\ Official # NoMark /\ CurrentId' = CurrentId
    <2>1. Official = attempt.total /\ attempt.total \in Totals
      BY <1>3, SettledSays DEF TurnStep
    <2>2. Official' = attempt.total
      BY <1>1, <1>3, StepSays
    <2>3. CurrentId' = CurrentId
      BY <1>1 DEF CurrentId
    <2> QED
      BY <2>1, <2>2, <2>3, ConstantsAssumption
  <1>5. Contested => Contested'
    <2>1. \A c \in DOMAIN cases : c \in DOMAIN cases' /\ cases'[c] = cases[c]
      BY <1>1, <1>2
    <2> QED
      BY <1>4, <2>1 DEF Contested
  <1>6. Contested \in BOOLEAN /\ Contested' \in BOOLEAN
    BY StepSays
  <1>7. CASE Contested' = Contested
    BY <1>4, <1>7
  <1>8. CASE ~Contested /\ Contested' = TRUE
    <2>1. Published!Contest
      BY <1>4, <1>8 DEF Published!Contest
    <2> QED
      BY <2>1 DEF Published!Next
  <1>9. Contested' = Contested \/ (~Contested /\ Contested' = TRUE)
    BY <1>5, <1>6
  <1> QED
    BY <1>7, <1>8, <1>9

\* A review upholds the result, or prepares a revision that is not yet in force.
LEMMA ReviewPublishes ==
    ASSUME TurnStep, TurnInv, ~overlapped, NEW w \in Workers, WriteReview(w)
    PROVE  [Published!Next]_<<Official, Contested>>
  <1> DEFINE q == request[w]
  <1> PICK k : k = q.id
    OBVIOUS
  <1>1. /\ results \in Seq(Row) /\ cases \in Seq(Case) /\ k \in DOMAIN cases
        /\ cases[k].status = "REQUESTED" /\ UNCHANGED attempt
    BY DEF WriteReview, TurnInv, Fresh, FreshAt, TypeInv, TypeOK, RequestRefers
  <1>2. PICK y : cases' = [cases EXCEPT ![k] = y] /\ y.original = cases[k].original
    <2> DEFINE x == cases[k]
               y == [x EXCEPT !.reviewer = q.actor,
                              !.revised = IF q.unchanged THEN 0 ELSE Len(results) + 1,
                              !.override = [a \in DOMAIN q.override \cup DOMAIN @ |->
                                               IF a \in DOMAIN @ THEN @[a] ELSE q.override[a]],
                              !.status = IF q.unchanged THEN "REVIEWED_UNCHANGED" ELSE "REVISED_PENDING"]
    <2>1. cases' = [cases EXCEPT ![k] = y]
      BY DEF WriteReview, WriteCases
    <2>2. y.original = x.original
      BY <1>1 DEF Case
    <2> HIDE DEF y
    <2> QED
      BY <2>1, <2>2
  <1>3. PICK r : ~r.current /\ (results' = results \/ results' = Append(results, r))
    <2> DEFINE r == PreparedRow(q.total, q.actor, FALSE, cases[k].original)
    <2>1. results' = results \/ results' = Append(results, r)
      BY DEF WriteReview, WriteResults
    <2>2. ~r.current
      BY DEF PreparedRow
    <2> HIDE DEF r
    <2> QED
      BY <2>1, <2>2
  <1>4. ASSUME NEW i \in DOMAIN results', results'[i].current PROVE i \in DOMAIN results /\ results[i].current
    <2>1. (i \in DOMAIN results /\ results'[i] = results[i]) \/ results'[i] = r
      BY <1>1, <1>3, <1>4
    <2> QED
      BY <1>3, <1>4, <2>1
  <1>5. DOMAIN cases' = DOMAIN cases
    BY <1>2
  <1>6. \A c \in DOMAIN cases : /\ cases'[c].original = cases[c].original
                                /\ OpenCase(cases'[c]) => OpenCase(cases[c])
    BY <1>1, <1>2 DEF OpenCase
  <1> QED
    BY <1>1, <1>4, <1>5, <1>6, UpholdOrQuiet

\* A request that overlaps no other takes a step of PublishedResult, or none.
LEMMA StepPublished ==
    ASSUME TurnInv, TurnInv', [Next]_vars, ~overlapped'
    PROVE  [Published!Next]_<<Official, Contested>>
  <1>1. CASE UNCHANGED <<results, cases>>
    <2>1. CurrentId' = CurrentId
      BY <1>1 DEF CurrentId
    <2> QED
      BY <1>1, <2>1 DEF Official, Contested
  <1>2. CASE UNCHANGED vars
    BY <1>1, <1>2 DEF vars
  <1>3. ASSUME NEW w \in Workers, Load(w) \/ SaveGuard(w) \/ Drop(w) \/ WriteEnter(w)
        PROVE  UNCHANGED <<results, cases>>
    BY <1>3 DEF Load, LoadEnter, LoadPrepare, LoadVerify, LoadRatify, LoadReturn, LoadRevalue,
                LoadReview, Save, Begin, SaveGuard, Drop, stored, WriteEnter
  <1>4. ASSUME NEW w \in Workers, Write(w), ~WriteEnter(w)
        PROVE  [Published!Next]_<<Official, Contested>>
    <2>1. ~overlapped
      BY <1>4 DEF Write, WriteCreate, WritePrepare, WriteVerify, WriteRatify, WriteReturn, WriteRevalue,
                  WriteReview, Finish
    <2>2. TurnStep
      BY <2>1 DEF TurnInv, TurnStep
    <2>3. CASE WriteCreate(w) \/ WritePrepare(w)
      <3>1. attempt.status = "SCHEDULED" /\ UNCHANGED attempt
        BY <2>1, <2>3 DEF WriteCreate, WritePrepare, TurnInv, Fresh, FreshAt
      <3> QED
        BY <2>2, <3>1, ScheduledQuiet
    <2> QED
      BY <1>4, <2>1, <2>2, <2>3, DecidePublishes, RatifyPublishes, RevaluePublishes, ReviewPublishes DEF Write
  <1> QED
    BY <1>1, <1>2, <1>3, <1>4 DEF Next

\* Nothing is published before a ratification.
LEMMA InitPublished == Init => Published!Init
  <1> SUFFICES ASSUME Init PROVE Official = NoMark /\ Contested = FALSE
    BY DEF Published!Init
  <1>1. TurnInv /\ ~overlapped /\ attempt.status = "SCHEDULED"
    BY InitTurn DEF Init
  <1> QED
    BY <1>1, ScheduledSays DEF TurnInv

\* For as long as no two requests overlap, the custody chain only takes the steps of PublishedResult: no
\* result is withdrawn, and none changes but by a contested revision that says something else.
THEOREM PublishesInTurn == Spec => PublishedSpecInTurn
  <1>1. TurnInv /\ TurnInv' /\ [Next]_vars => [~overlapped' => [Published!Next]_<<Official, Contested>>]_vars
    BY StepPublished
  <1> QED
    BY <1>1, InitTurn, StepTurn, InitPublished, PTL DEF Spec, PublishedSpecInTurn

\* A deployment in which no two requests ever overlap implements PublishedResult.
THEOREM ImplementsPublished == Spec /\ []~overlapped => PublishedSpec
  <1>1. TurnInv /\ TurnInv' /\ [Next]_vars /\ ~overlapped' => [Published!Next]_<<Official, Contested>>
    BY StepPublished
  <1>2. <<Official, Contested>> = Published!vars
    BY DEF Published!vars
  <1>3. TurnInv /\ TurnInv' /\ [Next]_vars /\ ~overlapped' => [Published!Next]_(Published!vars)
    BY <1>1 DEF Published!vars
  <1> QED
    BY <1>3, InitTurn, StepTurn, InitPublished, PTL DEF Spec, PublishedSpec, Published!Spec

=============================================================================
