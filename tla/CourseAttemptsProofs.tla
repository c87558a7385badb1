------------------------ MODULE CourseAttemptsProofs ------------------------
(***************************************************************************)
(* Theorems about CourseAttempts, for any number of workers and any        *)
(* offices, exams, rule parameters and bounds.                             *)
(***************************************************************************)
EXTENDS CourseAttempts, FiniteSetTheorems, TLAPS

\* A reference to a case, from an attempt or from a request, is to a row there is.
Refers ==
    /\ \A i \in DOMAIN attempts : attempts[i].case \in {0} \cup DOMAIN cases
    /\ \A w \in Workers :
          /\ request[w].op = "register" => request[w].case \in {0} \cup DOMAIN cases
          /\ request[w].op \in {"review", "decide"} => request[w].id \in DOMAIN cases

TypeInv == TypeOK /\ Refers

-----------------------------------------------------------------------------
(* Sequences of rows *)

\* Appending keeps the rows and their references.
LEMMA AppendRow ==
    ASSUME NEW R, NEW rows \in Seq(R), NEW r \in R
    PROVE  /\ Append(rows, r) \in Seq(R)
           /\ DOMAIN rows \subseteq DOMAIN Append(rows, r)
           /\ DOMAIN Append(rows, r) = DOMAIN rows \cup {Len(rows) + 1}
           /\ \A i \in DOMAIN rows : Append(rows, r)[i] = rows[i]
           /\ Append(rows, r)[Len(rows) + 1] = r
  OBVIOUS

\* Overwriting a row keeps the table.
LEMMA OverwriteRow ==
    ASSUME NEW R, NEW rows \in Seq(R), NEW new, NEW i,
           DOMAIN new = DOMAIN rows, new = [k \in DOMAIN rows |-> new[k]],
           \A k \in DOMAIN rows : k # i => new[k] = rows[k],
           i \in DOMAIN rows => new[i] \in R
    PROVE  new \in Seq(R)
  <1>1. DOMAIN rows = 1..Len(rows) /\ Len(rows) \in Nat
    OBVIOUS
  <1>2. ASSUME NEW k \in DOMAIN rows PROVE new[k] \in R
    <2>1. rows[k] \in R
      OBVIOUS
    <2> QED
      BY <2>1
  <1>3. new \in [1..Len(rows) -> R]
    BY <1>1, <1>2
  <1> QED
    BY <1>1, <1>3

-----------------------------------------------------------------------------
(* Type correctness *)

\* What each kind of request carries.
LEMMA RequestFields ==
    ASSUME TypeOK, NEW w \in Workers
    PROVE  /\ request[w].op = "register" =>
                /\ request[w].exam \in Exams
                /\ request[w].no \in Nat
                /\ request[w].read \in BOOLEAN
                /\ request[w].case \in Nat
                /\ request[w] \in [op : {"register"}, exam : Exams, no : Nat, read : BOOLEAN,
                                   case : Nat]
           /\ request[w].op = "evaluate" => request[w].no \in Nat
           /\ request[w].op = "submit" => request[w].actor \in People
           /\ request[w].op = "review" =>
                /\ request[w].actor \in People
                /\ request[w].status \in {"DEAN_RECOMMENDED", "DEAN_NOT_RECOMMENDED"}
           /\ request[w].op = "decide" =>
                /\ request[w].actor \in People
                /\ request[w].status \in {"VC_APPROVED", "VC_REJECTED"}
  <1>1. request[w] \in Request
    BY DEF TypeOK
  <1> QED
    BY <1>1 DEF Request

\* The initial state is well typed.
LEMMA InitTyped == Init => TypeInv
  <1> SUFFICES ASSUME Init PROVE TypeInv
    OBVIOUS
  <1>1. Idle \in Request
    BY DEF Idle, Request
  <1>2. attempts \in Seq(Attempt) /\ cases \in Seq(Case)
    BY DEF Init
  <1>3. request \in [Workers -> Request]
    BY <1>1 DEF Init
  <1>4. TypeOK
    BY <1>2, <1>3 DEF Init, TypeOK
  <1>5. Refers
    BY DEF Init, Refers, Idle
  <1> QED
    BY <1>4, <1>5 DEF TypeInv

\* A first half stores nothing and leaves a well-formed request.
LEMMA BeginTyped ==
    ASSUME TypeInv, NEW w \in Workers, NEW r \in Request, Begin(w, r),
           r.op = "register" => r.case \in {0} \cup DOMAIN cases,
           r.op \in {"review", "decide"} => r.id \in DOMAIN cases
    PROVE  TypeInv'
  <1>1. TypeOK'
    BY DEF TypeInv, TypeOK, Begin, stored
  <1>2. Refers'
    BY DEF TypeInv, TypeOK, Refers, Begin, stored
  <1> QED
    BY <1>1, <1>2 DEF TypeInv

\* A second half that leaves well-formed tables leaves everything well formed.
LEMMA FinishTyped ==
    ASSUME TypeInv, NEW w \in Workers, Finish(w),
           enrollment' \in {"ENROLLED", "WITHDRAWN", "COMPLETED"},
           attempts' \in Seq(Attempt), cases' \in Seq(Case),
           DOMAIN cases \subseteq DOMAIN cases',
           \A i \in DOMAIN attempts' : attempts'[i].case \in {0} \cup DOMAIN cases'
    PROVE  TypeInv'
  <1>1. Idle \in Request /\ Idle.op = "idle"
    BY DEF Idle, Request
  <1>2. TypeOK'
    BY <1>1 DEF TypeInv, TypeOK, Finish
  <1>3. Refers'
    <2>1. ASSUME NEW v \in Workers
          PROVE  request'[v] = request[v] \/ request'[v] = Idle
      BY DEF TypeInv, TypeOK, Finish
    <2> QED
      BY <1>1, <2>1 DEF TypeInv, Refers
  <1> QED
    BY <1>2, <1>3 DEF TypeInv

\* A new attempt is an attempt.
LEMMA CreateAttemptTyped ==
    ASSUME TypeInv, NEW no, NEW e \in Exams \cup {NoExam}, NEW day \in Nat,
           NEW c \in {0} \cup DOMAIN cases, CreateAttempt(no, e, day, c)
    PROVE  /\ attempts' \in Seq(Attempt)
           /\ \A i \in DOMAIN attempts' : attempts'[i].case \in {0} \cup DOMAIN cases
  <1> DEFINE r == [outcome |-> Pending, exam |-> e, day |-> day, case |-> c]
  <1>1. attempts \in Seq(Attempt) /\ c \in Nat
    BY DEF TypeInv, TypeOK
  <1>2. r \in Attempt
    BY <1>1 DEF Attempt, Outcomes, Pending
  <1>3. attempts' = Append(attempts, r)
    BY DEF CreateAttempt
  <1> HIDE DEF r
  <1>4. /\ attempts' \in Seq(Attempt)
        /\ DOMAIN attempts' = DOMAIN attempts \cup {Len(attempts) + 1}
        /\ \A i \in DOMAIN attempts : attempts'[i] = attempts[i]
        /\ attempts'[Len(attempts) + 1] = r
    BY <1>1, <1>2, <1>3, AppendRow
  <1>5. r.case = c
    BY DEF r
  <1> QED
    BY <1>4, <1>5 DEF TypeInv, Refers

\* Every first half is well typed.
LEMMA LoadTyped ==
    ASSUME TypeInv, NEW w \in Workers, Load(w)
    PROVE  TypeInv'
  <1>1. NextNo \in Nat
    BY DEF NextNo, TypeInv, TypeOK
  <1>2. ASSUME NEW e \in Exams, LoadRegister(w, e) PROVE TypeInv'
    <2> DEFINE r == [op |-> "register", exam |-> e, no |-> NextNo, read |-> FALSE, case |-> 0]
    <2>1. r \in Request
      BY <1>1 DEF Request
    <2>2. Begin(w, r)
      BY <1>2 DEF LoadRegister
    <2> QED
      BY <2>1, <2>2, BeginTyped
  <1>3. CASE LoadEvaluate(w)
    <2> DEFINE r == [op |-> "evaluate", no |-> NextNo]
    <2>1. r \in Request
      BY <1>1 DEF Request
    <2>2. Begin(w, r)
      BY <1>3 DEF LoadEvaluate
    <2> QED
      BY <2>1, <2>2, BeginTyped
  <1>4. CASE LoadWithdraw(w)
    <2> DEFINE r == [op |-> "withdraw"]
    <2>1. r \in Request
      BY DEF Request
    <2>2. Begin(w, r)
      BY <1>4 DEF LoadWithdraw
    <2> QED
      BY <2>1, <2>2, BeginTyped
  <1>5. ASSUME NEW p \in People, LoadSubmit(w, p) PROVE TypeInv'
    <2> DEFINE r == [op |-> "submit", actor |-> p]
    <2>1. r \in Request
      BY DEF Request
    <2>2. Begin(w, r)
      BY <1>5 DEF LoadSubmit
    <2> QED
      BY <2>1, <2>2, BeginTyped
  <1>6. ASSUME NEW p \in People, NEW c \in DOMAIN cases,
               NEW s \in {"DEAN_RECOMMENDED", "DEAN_NOT_RECOMMENDED"}, LoadReview(w, p, c, s)
        PROVE  TypeInv'
    <2> DEFINE r == [op |-> "review", actor |-> p, id |-> c, status |-> s]
    <2>1. r \in Request
      BY DEF Request, TypeInv, TypeOK
    <2>2. Begin(w, r)
      BY <1>6 DEF LoadReview
    <2> QED
      BY <2>1, <2>2, BeginTyped
  <1>7. ASSUME NEW p \in People, NEW c \in DOMAIN cases,
               NEW s \in {"VC_APPROVED", "VC_REJECTED"}, LoadDecide(w, p, c, s)
        PROVE  TypeInv'
    <2> DEFINE r == [op |-> "decide", actor |-> p, id |-> c, status |-> s]
    <2>1. r \in Request
      BY DEF Request, TypeInv, TypeOK
    <2>2. Begin(w, r)
      BY <1>7 DEF LoadDecide
    <2> QED
      BY <2>1, <2>2, BeginTyped
  <1> QED
    BY <1>2, <1>3, <1>4, <1>5, <1>6, <1>7 DEF Load

\* register_for_exam's second read only notes the case it will use.
LEMMA ReadCaseTyped ==
    ASSUME TypeInv, NEW w \in Workers, ReadCase(w)
    PROVE  TypeInv'
  <1>1. PICK c \in UseCase(request[w].exam) :
            request' = [request EXCEPT ![w].read = TRUE, ![w].case = c]
    BY DEF ReadCase
  <1>2. c \in {0} \cup DOMAIN cases /\ c \in Nat
    BY DEF UseCase, ApprovedCases, TypeInv, TypeOK
  <1>3. request[w] \in [op : {"register"}, exam : Exams, no : Nat, read : BOOLEAN, case : Nat]
    BY RequestFields DEF ReadCase, TypeInv
  <1>4. /\ request'[w] \in [op : {"register"}, exam : Exams, no : Nat, read : BOOLEAN, case : Nat]
        /\ request'[w].case = c
    BY <1>1, <1>2, <1>3 DEF TypeInv, TypeOK
  <1>5. TypeOK'
    <2>1. request'[w] \in Request
      BY <1>4 DEF Request
    <2>2. request' \in [Workers -> Request]
      BY <1>1, <2>1 DEF TypeInv, TypeOK
    <2> QED
      BY <2>2 DEF TypeInv, TypeOK, ReadCase, stored
  <1>6. Refers'
    BY <1>1, <1>2, <1>4 DEF TypeInv, TypeOK, Refers, ReadCase, stored
  <1> QED
    BY <1>5, <1>6 DEF TypeInv

\* Deciding or consuming a case changes that row only, and keeps it a case.
LEMMA CaseRowTyped ==
    ASSUME TypeInv, NEW new, NEW c \in DOMAIN cases,
           DOMAIN new = DOMAIN cases, new = [k \in DOMAIN cases |-> new[k]],
           \A k \in DOMAIN cases : k # c => new[k] = cases[k],
           new[c] \in Case
    PROVE  new \in Seq(Case)
  BY OverwriteRow DEF TypeInv, TypeOK

\* Every second half is well typed.
LEMMA WriteTyped ==
    ASSUME TypeInv, NEW w \in Workers, Write(w)
    PROVE  TypeInv'
  <1> DEFINE q == request[w]
  <1>0. TypeOK
    BY DEF TypeInv
  <1>1. \A i \in DOMAIN attempts : attempts[i].case \in {0} \cup DOMAIN cases
    BY DEF TypeInv, Refers
  <1>2. CASE WriteRegister(w)
    <2>1. q.exam \in Exams /\ q.exam.day \in Nat /\ q.case \in {0} \cup DOMAIN cases
      BY <1>0, <1>2, RequestFields, ConstantsAssumption DEF WriteRegister, TypeInv, Refers
    <2>2. CreateAttempt(q.no, q.exam, q.exam.day, q.case)
      BY <1>2 DEF WriteRegister
    <2>3. /\ attempts' \in Seq(Attempt)
          /\ \A i \in DOMAIN attempts' : attempts'[i].case \in {0} \cup DOMAIN cases
      BY <2>1, <2>2, CreateAttemptTyped
    <2>4. cases' \in Seq(Case) /\ DOMAIN cases' = DOMAIN cases
      <3>1. CASE q.case = 0
        BY <1>0, <1>2, <3>1 DEF WriteRegister, TypeOK
      <3>2. CASE q.case # 0
        <4>1. cases' = [cases EXCEPT ![q.case].status = "CONSUMED"]
          BY <1>2, <3>2 DEF WriteRegister
        <4>2. cases[q.case] \in Case /\ q.case \in DOMAIN cases
          BY <1>0, <2>1, <3>2 DEF TypeOK
        <4>3. cases'[q.case] \in Case
          BY <4>1, <4>2 DEF Case
        <4> QED
          BY <4>1, <4>2, <4>3, CaseRowTyped
      <3> QED
        BY <3>1, <3>2
    <2> QED
      BY <1>0, <1>2, <2>3, <2>4, FinishTyped DEF WriteRegister, TypeOK
  <1>3. CASE WriteEvaluate(w)
    <2>1. CreateAttempt(q.no, NoExam, today, 0)
      BY <1>3 DEF WriteEvaluate
    <2>2. /\ attempts' \in Seq(Attempt)
          /\ \A i \in DOMAIN attempts' : attempts'[i].case \in {0} \cup DOMAIN cases
      BY <1>0, <2>1, CreateAttemptTyped DEF TypeOK
    <2> QED
      BY <1>0, <1>3, <2>2, FinishTyped DEF WriteEvaluate, TypeOK
  <1>4. CASE WriteSubmit(w)
    <2> DEFINE r == [status |-> "SUBMITTED", submittedBy |-> q.actor, deanBy |-> Nobody,
                     vcBy |-> Nobody]
    <2>1. r \in Case
      BY <1>0, <1>4, RequestFields DEF WriteSubmit, Case
    <2>2. cases' = Append(cases, r)
      BY <1>4 DEF WriteSubmit, WriteCases
    <2> HIDE DEF r
    <2>3. cases' \in Seq(Case) /\ DOMAIN cases \subseteq DOMAIN cases'
      BY <1>0, <2>1, <2>2, AppendRow DEF TypeOK
    <2> QED
      BY <1>0, <1>1, <1>4, <2>3, FinishTyped DEF WriteSubmit, TypeOK
  <1>5. CASE WriteReview(w)
    <2>1. q.id \in DOMAIN cases /\ q.actor \in People
          /\ q.status \in {"DEAN_RECOMMENDED", "DEAN_NOT_RECOMMENDED"}
      BY <1>0, <1>5, RequestFields DEF WriteReview, TypeInv, Refers
    <2>2. cases' = [cases EXCEPT ![q.id].status = q.status, ![q.id].deanBy = q.actor]
      BY <1>5 DEF WriteReview, WriteCases
    <2>3. cases[q.id] \in Case
      BY <1>0, <2>1 DEF TypeOK
    <2>4. cases'[q.id] \in Case
      BY <2>1, <2>2, <2>3 DEF Case
    <2>5. cases' \in Seq(Case) /\ DOMAIN cases' = DOMAIN cases
      BY <2>1, <2>2, <2>4, CaseRowTyped
    <2> QED
      BY <1>0, <1>1, <1>5, <2>5, FinishTyped DEF WriteReview, TypeOK
  <1>6. CASE WriteDecide(w)
    <2>1. q.id \in DOMAIN cases /\ q.actor \in People
          /\ q.status \in {"VC_APPROVED", "VC_REJECTED"}
      BY <1>0, <1>6, RequestFields DEF WriteDecide, TypeInv, Refers
    <2>2. cases' = [cases EXCEPT ![q.id].status = q.status, ![q.id].vcBy = q.actor]
      BY <1>6 DEF WriteDecide, WriteCases
    <2>3. cases[q.id] \in Case
      BY <1>0, <2>1 DEF TypeOK
    <2>4. cases'[q.id] \in Case
      BY <2>1, <2>2, <2>3 DEF Case
    <2>5. cases' \in Seq(Case) /\ DOMAIN cases' = DOMAIN cases
      BY <2>1, <2>2, <2>4, CaseRowTyped
    <2> QED
      BY <1>0, <1>1, <1>6, <2>5, FinishTyped DEF WriteDecide, TypeOK
  <1>7. CASE WriteWithdraw(w)
    BY <1>0, <1>1, <1>7, FinishTyped DEF WriteWithdraw, TypeOK
  <1> QED
    BY <1>2, <1>3, <1>4, <1>5, <1>6, <1>7 DEF Write

\* An outcome changes one attempt's outcome only.
LEMMA SetOutcomeFrame ==
    ASSUME TypeInv, NEW i \in DOMAIN attempts, NEW o \in Outcomes, SetOutcome(i, o)
    PROVE  /\ attempts' \in Seq(Attempt)
           /\ DOMAIN attempts' = DOMAIN attempts
           /\ Len(attempts') = Len(attempts)
           /\ \A k \in DOMAIN attempts : k # i => attempts'[k] = attempts[k]
           /\ attempts'[i].outcome = o
           /\ attempts'[i].case = attempts[i].case
           /\ attempts'[i].day = attempts[i].day
  <1>1. attempts \in Seq(Attempt) /\ attempts[i] \in Attempt
    BY DEF TypeInv, TypeOK
  <1>2. attempts' = [attempts EXCEPT ![i].outcome = o]
    BY DEF SetOutcome
  <1>3. /\ attempts'[i].outcome = o
        /\ attempts'[i].case = attempts[i].case
        /\ attempts'[i].day = attempts[i].day
        /\ attempts'[i] \in Attempt
    BY <1>1, <1>2 DEF Attempt
  <1>4. /\ DOMAIN attempts' = DOMAIN attempts
        /\ \A k \in DOMAIN attempts : k # i => attempts'[k] = attempts[k]
    BY <1>1, <1>2
  <1>5. attempts' \in Seq(Attempt)
    BY <1>1, <1>2, <1>3, <1>4, OverwriteRow
  <1>6. Len(attempts') = Len(attempts)
    BY <1>1, <1>4, <1>5
  <1> QED
    BY <1>3, <1>4, <1>5, <1>6

\* An outcome keeps everything well typed.
LEMMA SetOutcomeTyped ==
    ASSUME TypeInv, NEW i \in DOMAIN attempts, NEW o \in Outcomes, SetOutcome(i, o)
    PROVE  TypeInv'
  <1>1. TypeOK'
    BY SetOutcomeFrame DEF SetOutcome, TypeInv, TypeOK
  <1>2. Refers'
    BY SetOutcomeFrame DEF SetOutcome, TypeInv, Refers
  <1> QED
    BY <1>1, <1>2 DEF TypeInv

\* Every step is well typed.
LEMMA StepTyped == TypeInv /\ [Next]_vars => TypeInv'
  <1> SUFFICES ASSUME TypeInv, [Next]_vars PROVE TypeInv'
    OBVIOUS
  <1>1. ASSUME NEW w \in Workers, Drop(w) PROVE TypeInv'
    BY <1>1, FinishTyped DEF Drop, TypeInv, TypeOK, Refers
  <1>2. ASSUME NEW i \in DOMAIN attempts, NEW o \in Outcomes, Publish(i, o) \/ Revise(i, o)
        PROVE  TypeInv'
    BY <1>2, SetOutcomeTyped DEF Publish, Revise
  <1>3. CASE Tick
    BY <1>3 DEF Tick, stored, TypeInv, TypeOK, Refers
  <1>4. CASE UNCHANGED vars
    BY <1>4 DEF vars, TypeInv, TypeOK, Refers
  <1> QED
    BY <1>1, <1>2, <1>3, <1>4, LoadTyped, ReadCaseTyped, WriteTyped DEF Next

\* Every variable keeps its type in every behaviour.
THEOREM TypeCorrect == Spec => []TypeOK
  <1>1. TypeInv => TypeOK
    BY DEF TypeInv
  <1> QED
    BY <1>1, InitTyped, StepTyped, PTL DEF Spec

-----------------------------------------------------------------------------
(* The services implement AttemptLadder *)

Opening(w) == request[w].op \in {"register", "evaluate"}

\* What a request that will open an attempt saw is still true of the attempts before its number.
OpensAfterSettled ==
    \A w \in Workers : Opening(w) =>
        /\ request[w].no <= NextNo
        /\ \A i \in DOMAIN attempts : i < request[w].no => attempts[i].outcome # Pending

outcomes == [i \in DOMAIN attempts |-> attempts[i].outcome]

\* Only three kinds of step change the attempts: two that open one, and one that sets an outcome.
LEMMA AttemptSteps ==
    ASSUME TypeInv, [Next]_vars
    PROVE  \/ attempts' = attempts
           \/ \E w \in Workers, e \in Exams \cup {NoExam}, day \in Nat, c \in {0} \cup DOMAIN cases :
                 /\ Opening(w)
                 /\ CreateAttempt(request[w].no, e, day, c)
                 /\ Finish(w)
           \/ \E i \in DOMAIN attempts, o \in Outcomes :
                 /\ o # attempts[i].outcome
                 /\ attempts[i].outcome = Pending \/ Revaluation
                 /\ SetOutcome(i, o)
  <1> DEFINE Opened == \E w \in Workers, e \in Exams \cup {NoExam}, day \in Nat,
                          c \in {0} \cup DOMAIN cases :
                             /\ Opening(w)
                             /\ CreateAttempt(request[w].no, e, day, c)
                             /\ Finish(w)
  <1>1. ASSUME NEW w \in Workers, WriteRegister(w) PROVE Opened
    <2>1. /\ request[w].exam \in Exams
          /\ request[w].exam.day \in Nat
          /\ request[w].case \in {0} \cup DOMAIN cases
      BY <1>1, RequestFields, ConstantsAssumption DEF WriteRegister, TypeInv, Refers
    <2> QED
      BY <1>1, <2>1 DEF WriteRegister, Opening
  <1>2. ASSUME NEW w \in Workers, WriteEvaluate(w) PROVE Opened
    <2>1. today \in Nat
      BY DEF TypeInv, TypeOK
    <2>2. /\ Opening(w)
          /\ CreateAttempt(request[w].no, NoExam, today, 0)
          /\ Finish(w)
      BY <1>2 DEF WriteEvaluate, Opening
    <2> QED
      BY <2>1, <2>2
  <1>3. ASSUME NEW w \in Workers, Load(w) \/ ReadCase(w) \/ Drop(w) PROVE attempts' = attempts
    BY <1>3 DEF Load, LoadRegister, LoadEvaluate, LoadWithdraw, LoadSubmit, LoadReview, LoadDecide,
                Begin, ReadCase, Drop, stored
  <1>4. ASSUME NEW w \in Workers,
               WriteSubmit(w) \/ WriteReview(w) \/ WriteDecide(w) \/ WriteWithdraw(w)
        PROVE  attempts' = attempts
    BY <1>4 DEF WriteSubmit, WriteReview, WriteDecide, WriteWithdraw
  <1>5. ASSUME NEW i \in DOMAIN attempts, NEW o \in Outcomes, Publish(i, o) \/ Revise(i, o)
        PROVE  /\ o # attempts[i].outcome
               /\ attempts[i].outcome = Pending \/ Revaluation
               /\ SetOutcome(i, o)
    BY <1>5 DEF Publish, Revise, Outcomes, Pending
  <1>6. ASSUME Tick \/ UNCHANGED vars PROVE attempts' = attempts
    BY <1>6 DEF Tick, stored, vars
  <1> HIDE DEF Opened
  <1>7. attempts' = attempts \/ Opened
        \/ \E i \in DOMAIN attempts, o \in Outcomes :
              /\ o # attempts[i].outcome
              /\ attempts[i].outcome = Pending \/ Revaluation
              /\ SetOutcome(i, o)
    BY <1>1, <1>2, <1>3, <1>4, <1>5, <1>6 DEF Next, Write
  <1> QED
    BY <1>7 DEF Opened

\* A request begins to open an attempt only when every attempt there is has its result, none of
\* them a pass, and with the next number.
LEMMA OpeningSteps ==
    ASSUME TypeInv, [Next]_vars, NEW w \in Workers, Opening(w)'
    PROVE  \/ /\ Opening(w)
              /\ request'[w].no = request[w].no
           \/ /\ request'[w].no = NextNo
              /\ attempts' = attempts
              /\ ~HasPending
              /\ ~Passed
  <1>0. request \in [Workers -> Request]
    BY DEF TypeInv, TypeOK
  <1>1. ASSUME NEW v \in Workers, Load(v)
        PROVE  \/ request'[w] = request[w]
               \/ ~Opening(w)'
               \/ /\ request'[w].no = NextNo
                  /\ attempts' = attempts
                  /\ ~HasPending
                  /\ ~Passed
    BY <1>0, <1>1 DEF Load, LoadRegister, LoadEvaluate, LoadWithdraw, LoadSubmit, LoadReview,
                LoadDecide, Begin, stored, Opening, Eligible, EvaluationAllowed
  <1>2. ASSUME NEW v \in Workers, ReadCase(v)
        PROVE  Opening(w) /\ request'[w].no = request[w].no
    <2>1. PICK c \in UseCase(request[v].exam) :
              request' = [request EXCEPT ![v].read = TRUE, ![v].case = c]
      BY <1>2 DEF ReadCase
    <2>2. request[v] \in [op : {"register"}, exam : Exams, no : Nat, read : BOOLEAN, case : Nat]
      BY <1>2, RequestFields DEF ReadCase, TypeInv
    <2> QED
      BY <1>0, <2>1, <2>2 DEF Opening
  <1>3. ASSUME NEW v \in Workers, Write(v) \/ Drop(v)
        PROVE  request'[w] = request[w] \/ request'[w] = Idle
    <2>1. Finish(v)
      BY <1>3 DEF Write, WriteRegister, WriteEvaluate, WriteSubmit, WriteReview, WriteDecide,
                  WriteWithdraw, Drop
    <2> QED
      BY <1>0, <2>1 DEF Finish
  <1>4. CASE (\E i \in DOMAIN attempts, o \in Outcomes : Publish(i, o) \/ Revise(i, o))
             \/ Tick \/ UNCHANGED vars
    BY <1>4 DEF Publish, Revise, SetOutcome, Tick, vars, Opening
  <1> QED
    BY <1>1, <1>2, <1>3, <1>4 DEF Next, Opening, Idle

\* OpensAfterSettled is inductive.
LEMMA StepOpens == TypeInv /\ OpensAfterSettled /\ [Next]_vars => OpensAfterSettled'
  <1> SUFFICES ASSUME TypeInv, OpensAfterSettled, [Next]_vars, NEW w \in Workers, Opening(w)'
               PROVE  /\ request'[w].no <= NextNo'
                      /\ \A i \in DOMAIN attempts' :
                            i < request'[w].no => attempts'[i].outcome # Pending
    BY DEF OpensAfterSettled
  <1>0. attempts \in Seq(Attempt) /\ Len(attempts) \in Nat /\ DOMAIN attempts = 1..Len(attempts)
    BY DEF TypeInv, TypeOK
  <1>1. CASE request'[w].no = NextNo /\ attempts' = attempts /\ ~HasPending
    BY <1>0, <1>1 DEF NextNo, HasPending, AttemptsWith
  <1>2. CASE Opening(w) /\ request'[w].no = request[w].no
    <2>0. request[w].no \in Nat
      BY <1>2, RequestFields DEF TypeInv, Opening
    <2>1. /\ request[w].no <= NextNo
          /\ \A i \in DOMAIN attempts : i < request[w].no => attempts[i].outcome # Pending
      BY <1>2 DEF OpensAfterSettled
    <2>2. CASE attempts' = attempts
      BY <1>2, <2>1, <2>2 DEF NextNo
    <2>3. ASSUME NEW v \in Workers, NEW e \in Exams \cup {NoExam}, NEW day \in Nat,
                 NEW c \in {0} \cup DOMAIN cases, CreateAttempt(request[v].no, e, day, c)
          PROVE  /\ Len(attempts') = Len(attempts) + 1
                 /\ DOMAIN attempts' = DOMAIN attempts \cup {Len(attempts) + 1}
                 /\ \A i \in DOMAIN attempts : attempts'[i] = attempts[i]
      BY <1>0, <2>3 DEF CreateAttempt
    <2>4. CASE \E v \in Workers, e \in Exams \cup {NoExam}, day \in Nat, c \in {0} \cup DOMAIN cases :
                  CreateAttempt(request[v].no, e, day, c)
      <3>1. /\ Len(attempts') = Len(attempts) + 1
            /\ DOMAIN attempts' = DOMAIN attempts \cup {Len(attempts) + 1}
            /\ \A i \in DOMAIN attempts : attempts'[i] = attempts[i]
        BY <2>3, <2>4
      <3>2. request'[w].no <= NextNo'
        BY <1>0, <1>2, <2>0, <2>1, <3>1 DEF NextNo
      <3>3. ASSUME NEW i \in DOMAIN attempts', i < request'[w].no
            PROVE  attempts'[i].outcome # Pending
        <4>1. i \in DOMAIN attempts
          BY <1>0, <1>2, <2>0, <2>1, <3>1, <3>3 DEF NextNo
        <4> QED
          BY <1>2, <2>1, <3>1, <3>3, <4>1
      <3> QED
        BY <3>2, <3>3
    <2>5. ASSUME NEW k \in DOMAIN attempts, NEW o \in Outcomes, SetOutcome(k, o)
          PROVE  /\ Len(attempts') = Len(attempts)
                 /\ DOMAIN attempts' = DOMAIN attempts
                 /\ \A i \in DOMAIN attempts : attempts[i].outcome # Pending =>
                       attempts'[i].outcome # Pending
      BY <2>5, SetOutcomeFrame DEF Outcomes, Pending
    <2>6. CASE \E k \in DOMAIN attempts, o \in Outcomes : SetOutcome(k, o)
      BY <1>0, <1>2, <2>1, <2>5, <2>6 DEF NextNo
    <2> QED
      BY <2>2, <2>4, <2>6, AttemptSteps
  <1> QED
    BY <1>1, <1>2, OpeningSteps

\* Opening the next attempt is a step of the ladder.
LEMMA OpenIsOpen ==
    ASSUME TypeInv, OpensAfterSettled, NEW w \in Workers, Opening(w), NEW e, NEW day, NEW c,
           CreateAttempt(request[w].no, e, day, c)
    PROVE  Ladder!Open
  <1>0. attempts \in Seq(Attempt) /\ Len(attempts) \in Nat /\ DOMAIN attempts = 1..Len(attempts)
    BY DEF TypeInv, TypeOK
  <1> DEFINE r == [outcome |-> Pending, exam |-> e, day |-> day, case |-> c]
  <1>1. attempts' = Append(attempts, r) /\ request[w].no = NextNo /\ NextNo <= LastAttemptNo
    BY DEF CreateAttempt
  <1>2. r.outcome = Pending
    OBVIOUS
  <1> HIDE DEF r
  <1>3. /\ DOMAIN attempts' = 1..Len(attempts) + 1
        /\ \A i \in DOMAIN attempts : attempts'[i] = attempts[i]
        /\ attempts'[Len(attempts) + 1] = r
    BY <1>0, <1>1
  <1>4. outcomes \in Seq(Outcomes \cup {Pending}) /\ Len(outcomes) = Len(attempts)
    <2>1. outcomes = [i \in 1..Len(attempts) |-> attempts[i].outcome]
      BY <1>0 DEF outcomes
    <2>2. ASSUME NEW i \in 1..Len(attempts) PROVE attempts[i].outcome \in Outcomes \cup {Pending}
      <3>1. attempts[i] \in Attempt
        BY <1>0
      <3> QED
        BY <3>1 DEF Attempt
    <2>3. outcomes \in [1..Len(attempts) -> Outcomes \cup {Pending}]
      BY <2>1, <2>2
    <2> QED
      BY <1>0, <2>3
  <1>5. outcomes' = Append(outcomes, Pending)
    <2> DEFINE S == Outcomes \cup {Pending}
               new == Append(outcomes, Pending)
    <2>1. /\ new \in Seq(S)
          /\ DOMAIN new = DOMAIN outcomes \cup {Len(outcomes) + 1}
          /\ \A i \in DOMAIN outcomes : new[i] = outcomes[i]
          /\ new[Len(outcomes) + 1] = Pending
      <3> HIDE DEF S
      <3>1. outcomes \in Seq(S) /\ Pending \in S
        BY <1>4 DEF S
      <3> QED
        BY <3>1, AppendRow
    <2>2. DOMAIN new = 1..Len(attempts) + 1
      BY <1>0, <1>4, <2>1
    <2> HIDE DEF new
    <2>3. new = [i \in 1..Len(attempts) + 1 |-> new[i]]
      BY <2>1, <2>2
    <2>4. outcomes' = [i \in 1..Len(attempts) + 1 |-> attempts'[i].outcome]
      BY <1>3 DEF outcomes
    <2>5. ASSUME NEW i \in 1..Len(attempts) + 1
          PROVE  attempts'[i].outcome = new[i]
      <3>1. CASE i = Len(attempts) + 1
        BY <1>2, <1>3, <1>4, <2>1, <3>1
      <3>2. CASE i \in DOMAIN attempts
        BY <1>3, <2>1, <3>2 DEF outcomes
      <3> QED
        BY <1>0, <3>1, <3>2
    <2> QED
      BY <2>3, <2>4, <2>5 DEF new
  <1>6. Len(outcomes) < LastAttemptNo
    BY <1>0, <1>1, <1>4 DEF NextNo, LastAttemptNo
  <1>7. \A i \in DOMAIN outcomes : outcomes[i] # Pending
    BY <1>0, <1>1 DEF outcomes, OpensAfterSettled, NextNo
  <1> QED
    BY <1>5, <1>6, <1>7 DEF Ladder!Open, outcomes

\* Publishing or revising an outcome is a step of the ladder.
LEMMA OutcomeIsSettle ==
    ASSUME TypeInv, NEW i \in DOMAIN attempts, NEW o \in Outcomes, o # attempts[i].outcome,
           SetOutcome(i, o)
    PROVE  Ladder!Settle
  <1>1. /\ DOMAIN attempts' = DOMAIN attempts
        /\ \A k \in DOMAIN attempts : k # i => attempts'[k] = attempts[k]
        /\ attempts'[i].outcome = o
    BY SetOutcomeFrame
  <1>2. outcomes' = [outcomes EXCEPT ![i] = o]
    BY <1>1 DEF outcomes
  <1>3. i \in DOMAIN outcomes /\ o # outcomes[i]
    BY DEF outcomes
  <1> QED
    BY <1>2, <1>3 DEF Ladder!Settle, outcomes

\* The services implement AttemptLadder, for any number of workers and any parameters.
THEOREM LadderImplemented == Spec => LadderSpec
  <1>1. Init => Ladder!Init
    BY DEF Init, Ladder!Init
  <1>2. Init => OpensAfterSettled
    BY DEF Init, OpensAfterSettled, Opening, Idle
  <1>3. TypeInv /\ OpensAfterSettled /\ [Next]_vars => [Ladder!Next]_outcomes
    <2> SUFFICES ASSUME TypeInv, OpensAfterSettled, [Next]_vars PROVE [Ladder!Next]_outcomes
      OBVIOUS
    <2>1. CASE attempts' = attempts
      BY <2>1 DEF outcomes
    <2>2. CASE \E w \in Workers, e \in Exams \cup {NoExam}, day \in Nat, c \in {0} \cup DOMAIN cases :
                  Opening(w) /\ CreateAttempt(request[w].no, e, day, c)
      BY <2>2, OpenIsOpen DEF Ladder!Next
    <2>3. CASE \E i \in DOMAIN attempts, o \in Outcomes :
                  o # attempts[i].outcome /\ SetOutcome(i, o)
      BY <2>3, OutcomeIsSettle DEF Ladder!Next
    <2> QED
      BY <2>1, <2>2, <2>3, AttemptSteps
  <1> QED
    BY <1>1, <1>2, <1>3, InitTyped, StepTyped, StepOpens, PTL
       DEF Spec, LadderSpec, Ladder!Spec, outcomes

-----------------------------------------------------------------------------
(* No attempt after a pass *)

\* Only the last attempt may be unsettled; none before it, nor before the number that a request
\* is about to open, is a pass.
PassInv ==
    /\ StopsAtPass
    /\ \A i \in DOMAIN attempts : attempts[i].outcome = Pending => i = Len(attempts)
    /\ \A w \in Workers : Opening(w) =>
          \A i \in DOMAIN attempts : i < request[w].no => attempts[i].outcome # "PASS"

\* PassInv is inductive as long as outcomes are not revised.
LEMMA StepPass ==
    ASSUME ~Revaluation, TypeInv, OpensAfterSettled, PassInv, [Next]_vars
    PROVE  PassInv'
  <1>0. attempts \in Seq(Attempt) /\ Len(attempts) \in Nat /\ DOMAIN attempts = 1..Len(attempts)
    BY DEF TypeInv, TypeOK
  <1>1. ASSUME NEW w \in Workers, Opening(w)'
        PROVE  \/ /\ Opening(w)
                  /\ request'[w].no = request[w].no
                  /\ request[w].no \in Nat
                  /\ request[w].no <= Len(attempts) + 1
               \/ attempts' = attempts /\ ~Passed
    BY <1>1, OpeningSteps, RequestFields DEF OpensAfterSettled, NextNo, Opening, TypeInv
  <1>2. CASE attempts' = attempts
    BY <1>1, <1>2 DEF PassInv, StopsAtPass, Passed, AttemptsWith
  <1>3. ASSUME NEW v \in Workers, Opening(v), NEW e, NEW day, NEW c,
               CreateAttempt(request[v].no, e, day, c)
        PROVE  PassInv'
    <2> DEFINE r == [outcome |-> Pending, exam |-> e, day |-> day, case |-> c]
    <2>1. attempts' = Append(attempts, r) /\ request[v].no = Len(attempts) + 1
      BY <1>3 DEF CreateAttempt, NextNo
    <2>2. r.outcome = Pending
      OBVIOUS
    <2> HIDE DEF r
    <2>3. /\ DOMAIN attempts' = 1..Len(attempts) + 1
          /\ Len(attempts') = Len(attempts) + 1
          /\ \A i \in DOMAIN attempts : attempts'[i] = attempts[i]
          /\ attempts'[Len(attempts) + 1].outcome = Pending
      BY <1>0, <2>1, <2>2
    <2>4. \A i \in DOMAIN attempts : attempts[i].outcome \notin {"PASS", Pending}
      BY <1>0, <1>3, <2>1 DEF PassInv, OpensAfterSettled
    <2>5. ASSUME NEW w \in Workers, Opening(w)', NEW i \in DOMAIN attempts', i < request'[w].no
          PROVE  attempts'[i].outcome # "PASS"
      BY <1>0, <2>3, <2>4 DEF Pending
    <2> QED
      BY <1>0, <2>3, <2>4, <2>5 DEF PassInv, StopsAtPass, Pending
  <1>4. ASSUME NEW k \in DOMAIN attempts, NEW o \in Outcomes, attempts[k].outcome = Pending,
               SetOutcome(k, o)
        PROVE  PassInv'
    <2>1. /\ Len(attempts') = Len(attempts)
          /\ DOMAIN attempts' = DOMAIN attempts
          /\ \A i \in DOMAIN attempts : i # k => attempts'[i] = attempts[i]
          /\ attempts'[k].outcome = o
      BY <1>4, SetOutcomeFrame
    <2>2. k = Len(attempts)
      BY <1>4 DEF PassInv
    <2>3. request' = request
      BY <1>4 DEF SetOutcome
    <2>4. ASSUME NEW w \in Workers, Opening(w), NEW i \in DOMAIN attempts, i < request[w].no
          PROVE  i # k
      BY <1>4, <2>4 DEF OpensAfterSettled
    <2>5. ASSUME NEW w \in Workers, Opening(w)', NEW i \in DOMAIN attempts', i < request'[w].no
          PROVE  attempts'[i].outcome # "PASS"
      BY <2>1, <2>3, <2>4, <2>5 DEF PassInv, Opening
    <2> QED
      BY <2>1, <2>2, <2>5 DEF PassInv, StopsAtPass, Outcomes, Pending
  <1> QED
    BY <1>2, <1>3, <1>4, AttemptSteps

\* While revaluation is disabled, however requests interleave, no attempt follows a pass.
THEOREM StopsAtPassHolds == ASSUME ~Revaluation PROVE Spec => []StopsAtPass
  <1>1. Init => OpensAfterSettled /\ PassInv
    BY DEF Init, OpensAfterSettled, PassInv, StopsAtPass, Opening, Idle
  <1>2. PassInv => StopsAtPass
    BY DEF PassInv
  <1>3. TypeInv /\ OpensAfterSettled /\ PassInv /\ [Next]_vars => PassInv'
    BY StepPass
  <1> QED
    BY <1>1, <1>2, <1>3, InitTyped, StepTyped, StepOpens, PTL DEF Spec

-----------------------------------------------------------------------------
(* Attempts rest on decided cases *)

\* An approved case has its decision on it, also when a registration has only just read it; an
\* evaluation is opened only for an activity.
DecidedInv ==
    /\ CasesAdmissible(cases)
    /\ \A c \in DOMAIN cases : cases[c].status = "VC_APPROVED" => cases[c].vcBy # Nobody
    /\ \A w \in Workers :
          /\ request[w].op = "register" /\ request[w].case # 0 =>
                cases[request[w].case].vcBy # Nobody
          /\ request[w].op = "evaluate" => activity
    /\ RestsOnDecidedCase

\* A decision stays on its case, whatever is written later; and a step that leaves a case approved
\* leaves a decision on it.
LEMMA CaseSteps ==
    ASSUME TypeInv, DecidedInv, [Next]_vars
    PROVE  /\ CasesAdmissible(cases')
           /\ DOMAIN cases \subseteq DOMAIN cases'
           /\ \A c \in DOMAIN cases : cases[c].vcBy # Nobody => cases'[c].vcBy # Nobody
           /\ \A c \in DOMAIN cases' : cases'[c].status = "VC_APPROVED" => cases'[c].vcBy # Nobody
  <1> DEFINE Goal == /\ CasesAdmissible(cases')
                     /\ DOMAIN cases \subseteq DOMAIN cases'
                     /\ \A c \in DOMAIN cases : cases[c].vcBy # Nobody => cases'[c].vcBy # Nobody
                     /\ \A c \in DOMAIN cases' :
                           cases'[c].status = "VC_APPROVED" => cases'[c].vcBy # Nobody
  <1>0. TypeOK /\ cases \in Seq(Case) /\ Nobody \notin People
    BY ConstantsAssumption DEF TypeInv, TypeOK
  <1>1. ASSUME cases' = cases PROVE Goal
    BY <1>1 DEF DecidedInv
  <1>2. ASSUME NEW w \in Workers, WriteRegister(w) PROVE Goal
    <2> DEFINE q == request[w]
    <2>1. CASE q.case = 0
      BY <1>1, <1>2, <2>1 DEF WriteRegister
    <2>2. CASE q.case # 0
      <3>1. cases' = [cases EXCEPT ![q.case].status = "CONSUMED"]
        BY <1>2, <2>2 DEF WriteRegister
      <3>2. q.case \in DOMAIN cases /\ cases[q.case] \in Case
        BY <1>0, <1>2, <2>2 DEF WriteRegister, TypeInv, Refers
      <3>3. /\ DOMAIN cases' = DOMAIN cases
            /\ \A c \in DOMAIN cases : c # q.case => cases'[c] = cases[c]
            /\ cases'[q.case].status = "CONSUMED"
            /\ cases'[q.case].vcBy = cases[q.case].vcBy
            /\ cases'[q.case].deanBy = cases[q.case].deanBy
        BY <1>0, <3>1, <3>2 DEF Case
      <3> QED
        BY <3>2, <3>3 DEF DecidedInv, CasesAdmissible, OpenCase
    <2> QED
      BY <2>1, <2>2
  <1>3. ASSUME NEW w \in Workers, WriteSubmit(w) PROVE Goal
    <2> DEFINE r == [status |-> "SUBMITTED", submittedBy |-> request[w].actor,
                     deanBy |-> Nobody, vcBy |-> Nobody]
    <2>1. cases' = Append(cases, r) /\ CasesAdmissible(cases')
      BY <1>3 DEF WriteSubmit, WriteCases
    <2>2. r.status = "SUBMITTED"
      OBVIOUS
    <2> HIDE DEF r
    <2>3. /\ DOMAIN cases' = DOMAIN cases \cup {Len(cases) + 1}
          /\ \A i \in DOMAIN cases : cases'[i] = cases[i]
          /\ cases'[Len(cases) + 1] = r
      BY <1>0, <2>1
    <2> QED
      BY <2>1, <2>2, <2>3 DEF DecidedInv
  <1>4. ASSUME NEW w \in Workers, WriteReview(w) PROVE Goal
    <2> DEFINE q == request[w]
    <2>1. /\ cases' = [cases EXCEPT ![q.id].status = q.status, ![q.id].deanBy = q.actor]
          /\ CasesAdmissible(cases')
      BY <1>4 DEF WriteReview, WriteCases
    <2>2. q.id \in DOMAIN cases /\ cases[q.id] \in Case /\ q.status # "VC_APPROVED"
      BY <1>0, <1>4, RequestFields DEF WriteReview, TypeInv, Refers
    <2>3. /\ DOMAIN cases' = DOMAIN cases
          /\ \A c \in DOMAIN cases : c # q.id => cases'[c] = cases[c]
          /\ cases'[q.id].status = q.status
          /\ cases'[q.id].vcBy = cases[q.id].vcBy
      BY <1>0, <2>1, <2>2 DEF Case
    <2> QED
      BY <2>1, <2>2, <2>3 DEF DecidedInv
  <1>5. ASSUME NEW w \in Workers, WriteDecide(w) PROVE Goal
    <2> DEFINE q == request[w]
    <2>1. /\ cases' = [cases EXCEPT ![q.id].status = q.status, ![q.id].vcBy = q.actor]
          /\ CasesAdmissible(cases')
      BY <1>5 DEF WriteDecide, WriteCases
    <2>2. q.id \in DOMAIN cases /\ cases[q.id] \in Case /\ q.actor # Nobody
      BY <1>0, <1>5, RequestFields DEF WriteDecide, TypeInv, Refers
    <2>3. /\ DOMAIN cases' = DOMAIN cases
          /\ \A c \in DOMAIN cases : c # q.id => cases'[c] = cases[c]
          /\ cases'[q.id].vcBy = q.actor
      BY <1>0, <2>1, <2>2 DEF Case
    <2> QED
      BY <2>1, <2>2, <2>3 DEF DecidedInv
  <1>6. ASSUME NEW w \in Workers,
               Load(w) \/ ReadCase(w) \/ Drop(w) \/ WriteEvaluate(w) \/ WriteWithdraw(w)
        PROVE  cases' = cases
    BY <1>6 DEF Load, LoadRegister, LoadEvaluate, LoadWithdraw, LoadSubmit, LoadReview, LoadDecide,
                Begin, ReadCase, Drop, WriteEvaluate, WriteWithdraw, stored
  <1>7. ASSUME \/ \E i \in DOMAIN attempts, o \in Outcomes : Publish(i, o) \/ Revise(i, o)
               \/ Tick \/ UNCHANGED vars
        PROVE  cases' = cases
    BY <1>7 DEF Publish, Revise, SetOutcome, Tick, stored, vars
  <1> HIDE DEF Goal
  <1>8. Goal
    BY <1>1, <1>2, <1>3, <1>4, <1>5, <1>6, <1>7 DEF Next, Write
  <1> QED
    BY <1>8 DEF Goal

\* A request that holds a case has just read it as approved, or held it before the step.
LEMMA CaseRequests ==
    ASSUME TypeInv, DecidedInv, [Next]_vars, NEW w \in Workers
    PROVE  /\ request'[w].op = "register" /\ request'[w].case # 0 =>
                \/ request'[w] = request[w]
                \/ request'[w].case \in ApprovedCases
           /\ request'[w].op = "evaluate" => activity
           /\ activity' = activity
  <1> DEFINE Goal == /\ request'[w].op = "register" /\ request'[w].case # 0 =>
                          \/ request'[w] = request[w]
                          \/ request'[w].case \in ApprovedCases
                     /\ request'[w].op = "evaluate" => activity
                     /\ activity' = activity
  <1>0. request \in [Workers -> Request] /\ (request[w].op = "evaluate" => activity)
    BY DEF TypeInv, TypeOK, DecidedInv
  <1>1. ASSUME NEW v \in Workers, Load(v) PROVE Goal
    BY <1>0, <1>1 DEF Load, LoadRegister, LoadEvaluate, LoadWithdraw, LoadSubmit, LoadReview,
                LoadDecide, Begin, stored, EvaluationAllowed
  <1>2. ASSUME NEW v \in Workers, ReadCase(v) PROVE Goal
    <2>1. PICK c \in UseCase(request[v].exam) :
              request' = [request EXCEPT ![v].read = TRUE, ![v].case = c]
      BY <1>2 DEF ReadCase
    <2>2. c = 0 \/ c \in ApprovedCases
      BY DEF UseCase
    <2>3. /\ request[v] \in [op : {"register"}, exam : Exams, no : Nat, read : BOOLEAN, case : Nat]
          /\ activity' = activity
      BY <1>2, RequestFields DEF ReadCase, TypeInv, stored
    <2>4. request'[v].op = "register" /\ request'[v].case = c
      BY <1>0, <2>1, <2>3
    <2>5. w # v => request'[w] = request[w]
      BY <1>0, <2>1
    <2> QED
      BY <1>0, <2>2, <2>3, <2>4, <2>5
  <1>3. ASSUME NEW v \in Workers, Write(v) \/ Drop(v) PROVE Goal
    <2>1. Finish(v)
      BY <1>3 DEF Write, WriteRegister, WriteEvaluate, WriteSubmit, WriteReview, WriteDecide,
                  WriteWithdraw, Drop
    <2> QED
      BY <1>0, <2>1 DEF Finish, Idle
  <1>4. ASSUME \/ \E i \in DOMAIN attempts, o \in Outcomes : Publish(i, o) \/ Revise(i, o)
               \/ Tick \/ UNCHANGED vars
        PROVE  Goal
    BY <1>0, <1>4 DEF Publish, Revise, SetOutcome, Tick, vars, stored
  <1> HIDE DEF Goal
  <1>5. Goal
    BY <1>1, <1>2, <1>3, <1>4 DEF Next
  <1> QED
    BY <1>5 DEF Goal

\* The attempts that hold a case, and the case they hold.
LEMMA AttemptCases ==
    ASSUME TypeInv, DecidedInv, [Next]_vars
    PROVE  \/ /\ DOMAIN attempts' = DOMAIN attempts
              /\ \A i \in DOMAIN attempts : attempts'[i].case = attempts[i].case
           \/ \E c \in {0} \cup DOMAIN cases :
                /\ DOMAIN attempts' = DOMAIN attempts \cup {Len(attempts) + 1}
                /\ \A i \in DOMAIN attempts : attempts'[i].case = attempts[i].case
                /\ attempts'[Len(attempts) + 1].case = c
                /\ c # 0 => /\ cases[c].vcBy # Nobody
                            /\ \A i \in DOMAIN attempts : attempts[i].case # c
                /\ ~activity /\ Len(attempts) + 1 = LastAttemptNo => c # 0
  <1> DEFINE Same == /\ DOMAIN attempts' = DOMAIN attempts
                     /\ \A i \in DOMAIN attempts : attempts'[i].case = attempts[i].case
             Grown(c) == /\ DOMAIN attempts' = DOMAIN attempts \cup {Len(attempts) + 1}
                         /\ \A i \in DOMAIN attempts : attempts'[i].case = attempts[i].case
                         /\ attempts'[Len(attempts) + 1].case = c
                         /\ c # 0 => /\ cases[c].vcBy # Nobody
                                     /\ \A i \in DOMAIN attempts : attempts[i].case # c
                         /\ ~activity /\ Len(attempts) + 1 = LastAttemptNo => c # 0
  <1>0. attempts \in Seq(Attempt) /\ Len(attempts) \in Nat
    BY DEF TypeInv, TypeOK
  <1>1. ASSUME NEW no, NEW e, NEW day, NEW c, CreateAttempt(no, e, day, c)
        PROVE  /\ DOMAIN attempts' = DOMAIN attempts \cup {Len(attempts) + 1}
               /\ \A i \in DOMAIN attempts : attempts'[i].case = attempts[i].case
               /\ attempts'[Len(attempts) + 1].case = c
               /\ no = Len(attempts) + 1
    <2> DEFINE r == [outcome |-> Pending, exam |-> e, day |-> day, case |-> c]
    <2>1. attempts' = Append(attempts, r) /\ no = Len(attempts) + 1 /\ r.case = c
      BY <1>1 DEF CreateAttempt, NextNo
    <2> HIDE DEF r
    <2> QED
      BY <1>0, <2>1
  <1>2. ASSUME NEW w \in Workers, WriteRegister(w)
        PROVE  request[w].case \in {0} \cup DOMAIN cases /\ Grown(request[w].case)
    <2>1. request[w].case \in {0} \cup DOMAIN cases
      BY <1>2 DEF WriteRegister, TypeInv, Refers
    <2>2. request[w].case # 0 => cases[request[w].case].vcBy # Nobody
      BY <1>2 DEF WriteRegister, DecidedInv
    <2>3. /\ CreateAttempt(request[w].no, request[w].exam, request[w].exam.day, request[w].case)
          /\ RegistrationAdmissible(request[w].no, request[w].exam, request[w].case)
      BY <1>2 DEF WriteRegister
    <2>4. /\ DOMAIN attempts' = DOMAIN attempts \cup {Len(attempts) + 1}
          /\ \A i \in DOMAIN attempts : attempts'[i].case = attempts[i].case
          /\ attempts'[Len(attempts) + 1].case = request[w].case
          /\ request[w].no = Len(attempts) + 1
      BY <1>1, <2>3
    <2>5. /\ request[w].case # 0 => \A i \in DOMAIN attempts : attempts[i].case # request[w].case
          /\ Len(attempts) + 1 = LastAttemptNo => request[w].case # 0
      BY <1>0, <2>3, <2>4 DEF RegistrationAdmissible, LastAttemptNo
    <2> QED
      BY <2>1, <2>2, <2>4, <2>5
  <1>3. ASSUME NEW w \in Workers, WriteEvaluate(w)
        PROVE  Grown(0)
    <2>1. CreateAttempt(request[w].no, NoExam, today, 0) /\ activity
      BY <1>3 DEF WriteEvaluate, DecidedInv
    <2> QED
      BY <1>1, <2>1
  <1>4. ASSUME NEW w \in Workers, Load(w) \/ ReadCase(w) \/ Drop(w) PROVE Same
    BY <1>4 DEF Load, LoadRegister, LoadEvaluate, LoadWithdraw, LoadSubmit, LoadReview, LoadDecide,
                Begin, ReadCase, Drop, stored
  <1>5. ASSUME NEW w \in Workers,
               WriteSubmit(w) \/ WriteReview(w) \/ WriteDecide(w) \/ WriteWithdraw(w)
        PROVE  Same
    BY <1>5 DEF WriteSubmit, WriteReview, WriteDecide, WriteWithdraw
  <1>6. ASSUME NEW i \in DOMAIN attempts, NEW o \in Outcomes, Publish(i, o) \/ Revise(i, o)
        PROVE  Same
    <2>1. SetOutcome(i, o)
      BY <1>6 DEF Publish, Revise
    <2> QED
      BY <2>1, SetOutcomeFrame
  <1>7. ASSUME Tick \/ UNCHANGED vars PROVE Same
    BY <1>7 DEF Tick, stored, vars
  <1> HIDE DEF Same, Grown
  <1>8. Same \/ \E c \in {0} \cup DOMAIN cases : Grown(c)
    BY <1>2, <1>3, <1>4, <1>5, <1>6, <1>7 DEF Next, Write
  <1> QED
    BY <1>8 DEF Same, Grown

\* DecidedInv is inductive.
LEMMA StepDecided == TypeInv /\ DecidedInv /\ [Next]_vars => DecidedInv'
  <1> SUFFICES ASSUME TypeInv, DecidedInv, [Next]_vars PROVE DecidedInv'
    OBVIOUS
  <1>0. attempts \in Seq(Attempt) /\ Len(attempts) \in Nat /\ DOMAIN attempts = 1..Len(attempts)
    BY DEF TypeInv, TypeOK
  <1>1. /\ CasesAdmissible(cases')
        /\ DOMAIN cases \subseteq DOMAIN cases'
        /\ \A c \in DOMAIN cases : cases[c].vcBy # Nobody => cases'[c].vcBy # Nobody
        /\ \A c \in DOMAIN cases' : cases'[c].status = "VC_APPROVED" => cases'[c].vcBy # Nobody
    BY CaseSteps
  <1>2. \A c \in DOMAIN cases : cases[c].vcBy # Nobody =>
            cases'[c].vcBy # Nobody /\ cases'[c].deanBy # Nobody
    BY <1>1 DEF CasesAdmissible
  <1>3. ASSUME NEW w \in Workers
        PROVE  /\ request'[w].op = "register" /\ request'[w].case # 0 =>
                     cases'[request'[w].case].vcBy # Nobody
               /\ request'[w].op = "evaluate" => activity'
    <2>1. ASSUME request'[w].op = "register", request'[w].case # 0
          PROVE  /\ request'[w].case \in DOMAIN cases
                 /\ cases[request'[w].case].vcBy # Nobody
      BY <2>1, CaseRequests DEF DecidedInv, TypeInv, Refers, ApprovedCases
    <2> QED
      BY <1>2, <2>1, CaseRequests
  <1>4. RestsOnDecidedCase'
    <2>1. activity' = activity
      <3>1. ASSUME NEW w \in Workers PROVE activity' = activity
        BY CaseRequests
      <3>2. CASE \/ \E i \in DOMAIN attempts, o \in Outcomes : Publish(i, o) \/ Revise(i, o)
                 \/ Tick \/ UNCHANGED vars
        BY <3>2 DEF Publish, Revise, SetOutcome, Tick, vars, stored
      <3> QED
        BY <3>1, <3>2 DEF Next
    <2>2. \A i \in DOMAIN attempts : attempts[i].case # 0 =>
              /\ attempts[i].case \in DOMAIN cases
              /\ cases'[attempts[i].case].vcBy # Nobody
              /\ cases'[attempts[i].case].deanBy # Nobody
      BY <1>2 DEF DecidedInv, RestsOnDecidedCase, TypeInv, Refers
    <2>3. CASE /\ DOMAIN attempts' = DOMAIN attempts
               /\ \A i \in DOMAIN attempts : attempts'[i].case = attempts[i].case
      BY <2>1, <2>2, <2>3 DEF DecidedInv, RestsOnDecidedCase
    <2>4. ASSUME NEW c \in {0} \cup DOMAIN cases,
                 DOMAIN attempts' = DOMAIN attempts \cup {Len(attempts) + 1},
                 \A i \in DOMAIN attempts : attempts'[i].case = attempts[i].case,
                 attempts'[Len(attempts) + 1].case = c,
                 c # 0 => /\ cases[c].vcBy # Nobody
                          /\ \A i \in DOMAIN attempts : attempts[i].case # c,
                 ~activity /\ Len(attempts) + 1 = LastAttemptNo => c # 0
          PROVE  RestsOnDecidedCase'
      <3>1. c # 0 => cases'[c].vcBy # Nobody /\ cases'[c].deanBy # Nobody
        BY <1>2, <2>4
      <3> QED
        BY <1>0, <2>1, <2>2, <2>4, <3>1 DEF DecidedInv, RestsOnDecidedCase
    <2> QED
      BY <2>3, <2>4, AttemptCases
  <1> QED
    BY <1>1, <1>3, <1>4 DEF DecidedInv

\* However registrations, reviews and decisions interleave, an attempt that used a case used one
\* of its own that the Dean reviewed and the VC decided, and a third exam always used one.
THEOREM RestsOnDecidedCaseHolds == Spec => []RestsOnDecidedCase
  <1>1. Init => DecidedInv
    BY DEF Init, DecidedInv, CasesAdmissible, RestsOnDecidedCase, Idle
  <1>2. DecidedInv => RestsOnDecidedCase
    BY DEF DecidedInv
  <1> QED
    BY <1>1, <1>2, InitTyped, StepTyped, StepDecided, PTL DEF Spec

-----------------------------------------------------------------------------
(* Requests one after the other *)

\* No two requests are in flight at once.
OneAtATime == \A v, w \in Workers : request[v] # Idle /\ request[w] # Idle => v = w

\* What a request found when it was checked has not changed since.
StillSo(w) ==
    LET q == request[w]
    IN  /\ q.op \in {"register", "evaluate"} => enrollment = "ENROLLED" /\ ~Passed /\ ~HasPending
        /\ q.op = "register" =>
              /\ ~activity
              /\ NeedsCase(q.exam) => ApprovedCases # {}
              /\ q.read /\ NeedsCase(q.exam) => q.case \in ApprovedCases
        /\ q.op = "evaluate" => activity /\ (Exhausted => ApprovedCases # {})
        /\ q.op = "withdraw" => attempts = <<>>
        /\ q.op = "review" => cases[q.id].status = "SUBMITTED"
        /\ q.op = "decide" => cases[q.id].status \in {"DEAN_RECOMMENDED", "DEAN_NOT_RECOMMENDED"}

\* The attempts are numbered up to the last number there is, and one behind another has failed.
FailedBefore ==
    /\ Len(attempts) <= LastAttemptNo
    /\ \A i \in DOMAIN attempts : i < Len(attempts) => attempts[i].outcome \notin {"PASS", Pending}

EnrollmentFollows ==
    /\ enrollment = "COMPLETED" <=> Passed
    /\ enrollment = "WITHDRAWN" => attempts = <<>>

\* CoveredByCase of one attempt.
CoveredAt(i) ==
    IF activity
    THEN FailuresAmong(1 .. i - 1) >= MaxRegular => ApprovedCases # {}
    ELSE FailuresAmong(1 .. i - 1) >= MaxRegular \/ OutsideWindow(attempts[i].day) =>
            /\ attempts[i].case # 0
            /\ cases[attempts[i].case].status = "CONSUMED"

SerialInv ==
    /\ FailedBefore
    /\ EnrollmentFollows
    /\ \A w \in Workers : StillSo(w)
    /\ \A i \in DOMAIN attempts : CoveredAt(i)

\* The failures among the first attempts are counted from their outcomes.
LEMMA CountKept ==
    ASSUME NEW n \in Nat, attempts \in Seq(Attempt), n <= Len(attempts),
           DOMAIN attempts \subseteq DOMAIN attempts',
           \A i \in DOMAIN attempts : i <= n => attempts'[i].outcome = attempts[i].outcome
    PROVE  FailuresAmong(1 .. n)' = FailuresAmong(1 .. n)
  <1> DEFINE Counted == AttemptsWith("FAIL") \cup
                           IF AbsentCounts = "YES" THEN AttemptsWith("ABSENT") ELSE {}
  <1>1. ASSUME NEW i \in 1 .. n
        PROVE  /\ i \in DOMAIN attempts /\ i \in DOMAIN attempts'
               /\ attempts'[i].outcome = attempts[i].outcome
    <2>1. DOMAIN attempts = 1 .. Len(attempts)
      OBVIOUS
    <2> QED
      BY <2>1
  <1>2. (1 .. n) \cap Counted' = (1 .. n) \cap Counted
    BY <1>1 DEF AttemptsWith
  <1> QED
    BY <1>2 DEF FailuresAmong

\* All failures are those of the first Len(attempts).
LEMMA FailuresAre ==
    ASSUME attempts \in Seq(Attempt)
    PROVE  Failures = FailuresAmong(1 .. Len(attempts))
  <1>1. DOMAIN attempts = 1 .. Len(attempts)
    OBVIOUS
  <1> QED
    BY <1>1 DEF Failures

\* The window ends by the day of the first attempt.
LEMMA WindowKept ==
    ASSUME NEW d, attempts # <<>>, attempts' # <<>>, attempts'[1].day = attempts[1].day
    PROVE  OutsideWindow(d)' <=> OutsideWindow(d)
  BY DEF OutsideWindow

\* An attempt stays covered while the outcomes before it stay and no case it rests on is undone.
LEMMA CoveredStays ==
    ASSUME TypeInv, NEW i \in DOMAIN attempts, CoveredAt(i), activity' = activity,
           attempts' \in Seq(Attempt), DOMAIN attempts \subseteq DOMAIN attempts',
           \A k \in DOMAIN attempts : k < i => attempts'[k].outcome = attempts[k].outcome,
           \A k \in DOMAIN attempts : /\ attempts'[k].day = attempts[k].day
                                      /\ attempts'[k].case = attempts[k].case,
           DOMAIN cases \subseteq DOMAIN cases',
           \A c \in DOMAIN cases :
              /\ cases[c].status = "CONSUMED" => cases'[c].status = "CONSUMED"
              /\ activity /\ cases[c].status = "VC_APPROVED" => cases'[c].status = "VC_APPROVED"
    PROVE  CoveredAt(i)'
  <1>0. /\ attempts \in Seq(Attempt) /\ Len(attempts) \in Nat /\ DOMAIN attempts = 1 .. Len(attempts)
        /\ attempts[i].case \in {0} \cup DOMAIN cases
    BY DEF TypeInv, TypeOK, Refers
  <1>1. FailuresAmong(1 .. i - 1)' = FailuresAmong(1 .. i - 1)
    <2>1. PICK n \in Nat : n = i - 1
      BY <1>0
    <2>2. n <= Len(attempts) /\ \A k \in DOMAIN attempts : k <= n => k < i
      BY <1>0, <2>1
    <2>3. FailuresAmong(1 .. n)' = FailuresAmong(1 .. n)
      BY <1>0, <2>2, CountKept
    <2> QED
      BY <2>1, <2>3
  <1>2. OutsideWindow(attempts[i].day)' <=> OutsideWindow(attempts[i].day)
    <2>1. PICK d : d = attempts[i].day /\ d = attempts'[i].day
      OBVIOUS
    <2>2. attempts # <<>> /\ attempts' # <<>> /\ 1 \in DOMAIN attempts
      BY <1>0
    <2>3. OutsideWindow(d)' <=> OutsideWindow(d)
      BY <2>2, WindowKept
    <2> QED
      BY <2>1, <2>3
  <1>3. CASE activity
    <2>1. ApprovedCases # {} => ApprovedCases' # {}
      BY <1>3 DEF ApprovedCases
    <2> QED
      BY <1>1, <1>3, <2>1 DEF CoveredAt
  <1>4. CASE ~activity
    BY <1>0, <1>1, <1>2, <1>4 DEF CoveredAt
  <1> QED
    BY <1>3, <1>4

\* What a request found stays so while nothing is stored and the request stays.
LEMMA FoundKept ==
    ASSUME NEW w \in Workers, StillSo(w), request'[w] = request[w], UNCHANGED stored
    PROVE  StillSo(w)'
  BY DEF StillSo, stored, Passed, HasPending, AttemptsWith, NeedsCase, Exhausted, Failures,
         FailuresAmong, OutsideWindow, ApprovedCases

\* What is promised of the tables stays so while nothing is stored.
LEMMA TablesKept ==
    ASSUME SerialInv, UNCHANGED stored
    PROVE  /\ FailedBefore' /\ EnrollmentFollows'
           /\ \A i \in DOMAIN attempts' : CoveredAt(i)'
  <1>1. FailedBefore'
    BY DEF SerialInv, FailedBefore, stored
  <1>2. EnrollmentFollows'
    BY DEF SerialInv, EnrollmentFollows, Passed, AttemptsWith, stored
  <1>3. ASSUME NEW i \in DOMAIN attempts' PROVE CoveredAt(i)'
    <2>1. CoveredAt(i) /\ attempts' = attempts /\ cases' = cases /\ activity' = activity
      BY <1>3 DEF SerialInv, stored
    <2> QED
      BY <2>1 DEF CoveredAt, FailuresAmong, AttemptsWith, OutsideWindow, ApprovedCases
  <1> QED
    BY <1>1, <1>2, <1>3

\* A request that is done leaves none in flight.
LEMMA DoneQuiet ==
    ASSUME TypeInv, OneAtATime, NEW w \in Workers, request[w] # Idle, Finish(w)
    PROVE  \A v \in Workers : StillSo(v)'
  <1>1. ASSUME NEW v \in Workers PROVE request'[v] = Idle
    BY DEF OneAtATime, Finish, TypeInv, TypeOK
  <1> QED
    BY <1>1 DEF StillSo, Idle

\* Checking a request establishes what it found.
LEMMA LoadSerial ==
    ASSUME TypeInv, SerialInv, NEW w \in Workers, Load(w)
    PROVE  SerialInv'
  <1>0. request \in [Workers -> Request]
    BY DEF TypeInv, TypeOK
  <1>1. UNCHANGED stored /\ \A v \in Workers \ {w} : request'[v] = request[v]
    BY <1>0 DEF Load, LoadRegister, LoadEvaluate, LoadWithdraw, LoadSubmit, LoadReview, LoadDecide,
                Begin
  <1> DEFINE Found == StillSo(w)'
  <1>2. ASSUME NEW e \in Exams, LoadRegister(w, e) PROVE Found
    <2> DEFINE r == [op |-> "register", exam |-> e, no |-> NextNo, read |-> FALSE, case |-> 0]
    <2>1. request'[w] = r
      BY <1>0, <1>2 DEF LoadRegister, Begin
    <2>2. r.op = "register" /\ r.exam = e /\ r.read = FALSE
      OBVIOUS
    <2> HIDE DEF r
    <2> QED
      BY <1>1, <1>2, <2>1, <2>2 DEF LoadRegister, Eligible, StillSo, stored, Passed, HasPending,
         AttemptsWith, NeedsCase, Exhausted, Failures, FailuresAmong, OutsideWindow, ApprovedCases
  <1>3. ASSUME LoadEvaluate(w) PROVE Found
    <2> DEFINE r == [op |-> "evaluate", no |-> NextNo]
    <2>1. request'[w] = r
      BY <1>0, <1>3 DEF LoadEvaluate, Begin
    <2>2. r.op = "evaluate"
      OBVIOUS
    <2> HIDE DEF r
    <2> QED
      BY <1>1, <1>3, <2>1, <2>2 DEF LoadEvaluate, EvaluationAllowed, StillSo, stored, Passed,
         HasPending, AttemptsWith, Exhausted, Failures, FailuresAmong, ApprovedCases
  <1>4. ASSUME LoadWithdraw(w) PROVE Found
    BY <1>0, <1>4 DEF LoadWithdraw, Begin, StillSo, stored
  <1>5. ASSUME NEW p \in People, LoadSubmit(w, p) PROVE Found
    BY <1>0, <1>5 DEF LoadSubmit, Begin, StillSo
  <1>6. ASSUME NEW p \in People, NEW c \in DOMAIN cases,
               NEW s \in {"DEAN_RECOMMENDED", "DEAN_NOT_RECOMMENDED"}, LoadReview(w, p, c, s)
        PROVE  Found
    BY <1>0, <1>6 DEF LoadReview, Begin, StillSo, stored
  <1>7. ASSUME NEW p \in People, NEW c \in DOMAIN cases,
               NEW s \in {"VC_APPROVED", "VC_REJECTED"}, LoadDecide(w, p, c, s)
        PROVE  Found
    BY <1>0, <1>7 DEF LoadDecide, Begin, StillSo, stored
  <1> HIDE DEF Found
  <1>8. Found
    BY <1>2, <1>3, <1>4, <1>5, <1>6, <1>7 DEF Load
  <1>9. ASSUME NEW v \in Workers PROVE StillSo(v)'
    <2>1. CASE v = w
      BY <1>8, <2>1 DEF Found
    <2>2. CASE v # w
      <3>1. StillSo(v) /\ request'[v] = request[v]
        BY <1>1, <2>2 DEF SerialInv
      <3> QED
        BY <1>1, <3>1, FoundKept
    <2> QED
      BY <2>1, <2>2
  <1> QED
    BY <1>1, <1>9, TablesKept DEF SerialInv

\* register_for_exam's second read finds the approved case that its first asked for.
LEMMA ReadCaseSerial ==
    ASSUME TypeInv, SerialInv, NEW w \in Workers, ReadCase(w)
    PROVE  SerialInv'
  <1>0. request \in [Workers -> Request]
    BY DEF TypeInv, TypeOK
  <1>1. PICK c \in UseCase(request[w].exam) :
            request' = [request EXCEPT ![w].read = TRUE, ![w].case = c]
    BY DEF ReadCase
  <1>2. /\ request[w] \in [op : {"register"}, exam : Exams, no : Nat, read : BOOLEAN, case : Nat]
        /\ request[w].op = "register"
        /\ UNCHANGED stored
    BY RequestFields DEF ReadCase, TypeInv
  <1>3. /\ request'[w].op = "register"
        /\ request'[w].exam = request[w].exam
        /\ request'[w].case = c
    BY <1>0, <1>1, <1>2
  <1>4. PICK e : e = request[w].exam
    OBVIOUS
  <1>5. /\ enrollment = "ENROLLED" /\ ~Passed /\ ~HasPending /\ ~activity
        /\ NeedsCase(e) => ApprovedCases # {}
    BY <1>2, <1>4 DEF SerialInv, StillSo
  <1>6. NeedsCase(e) => c \in ApprovedCases
    BY <1>4, <1>5 DEF UseCase
  <1>7. /\ (NeedsCase(e) <=> NeedsCase(e)') /\ ApprovedCases' = ApprovedCases
        /\ enrollment' = "ENROLLED" /\ ~Passed' /\ ~HasPending' /\ ~activity'
    BY <1>2, <1>5 DEF stored, NeedsCase, Exhausted, Failures, FailuresAmong, AttemptsWith,
                      OutsideWindow, ApprovedCases, Passed, HasPending
  <1>8. StillSo(w)'
    <2>1. request'[w].exam = e
      BY <1>3, <1>4
    <2> QED
      BY <1>3, <1>5, <1>6, <1>7, <2>1 DEF StillSo
  <1>9. ASSUME NEW v \in Workers PROVE StillSo(v)'
    <2>1. CASE v = w
      BY <1>8, <2>1
    <2>2. CASE v # w
      <3>1. StillSo(v) /\ request'[v] = request[v]
        BY <1>0, <1>1, <2>2 DEF SerialInv
      <3> QED
        BY <1>2, <3>1, FoundKept
    <2> QED
      BY <2>1, <2>2
  <1> QED
    BY <1>2, <1>9, TablesKept DEF SerialInv

\* A new attempt comes after failures only, and its row is the only new one.
LEMMA OpenedRow ==
    ASSUME TypeInv, SerialInv, NEW no, NEW e \in Exams \cup {NoExam}, NEW day \in Nat,
           NEW c \in {0} \cup DOMAIN cases, CreateAttempt(no, e, day, c),
           enrollment = "ENROLLED", ~Passed, ~HasPending, enrollment' = enrollment
    PROVE  /\ attempts' \in Seq(Attempt)
           /\ DOMAIN attempts' = DOMAIN attempts \cup {Len(attempts) + 1}
           /\ \A i \in DOMAIN attempts : attempts'[i] = attempts[i]
           /\ attempts'[Len(attempts) + 1].day = day
           /\ attempts'[Len(attempts) + 1].case = c
           /\ FailedBefore' /\ EnrollmentFollows'
           /\ \A n \in Nat : n = Len(attempts) => FailuresAmong(1 .. n)' = Failures
  <1> DEFINE r == [outcome |-> Pending, exam |-> e, day |-> day, case |-> c]
  <1>0. attempts \in Seq(Attempt) /\ Len(attempts) \in Nat /\ DOMAIN attempts = 1 .. Len(attempts)
    BY DEF TypeInv, TypeOK
  <1>1. attempts' = Append(attempts, r) /\ Len(attempts) + 1 <= LastAttemptNo
    BY DEF CreateAttempt, NextNo
  <1>2. r.outcome = Pending /\ r.day = day /\ r.case = c
    OBVIOUS
  <1>3. attempts' \in Seq(Attempt)
    BY CreateAttemptTyped
  <1> HIDE DEF r
  <1>4. /\ DOMAIN attempts' = DOMAIN attempts \cup {Len(attempts) + 1}
        /\ Len(attempts') = Len(attempts) + 1
        /\ \A i \in DOMAIN attempts : attempts'[i] = attempts[i]
        /\ attempts'[Len(attempts) + 1] = r
    BY <1>0, <1>1
  <1>5. \A i \in DOMAIN attempts : attempts[i].outcome \notin {"PASS", Pending}
    BY DEF Passed, HasPending, AttemptsWith
  <1>6. FailedBefore'
    BY <1>0, <1>1, <1>4, <1>5 DEF FailedBefore
  <1>7. ~Passed'
    BY <1>0, <1>2, <1>4, <1>5 DEF Passed, AttemptsWith, Pending
  <1>8. EnrollmentFollows'
    BY <1>7 DEF EnrollmentFollows
  <1>9. ASSUME NEW n \in Nat, n = Len(attempts) PROVE FailuresAmong(1 .. n)' = Failures
    <2>1. FailuresAmong(1 .. n)' = FailuresAmong(1 .. n)
      BY <1>0, <1>4, <1>9, CountKept
    <2> QED
      BY <1>0, <1>9, <2>1, FailuresAre
  <1> QED
    BY <1>2, <1>3, <1>4, <1>6, <1>8, <1>9

\* A registration that needed a case consumes it.
LEMMA RegisterSerial ==
    ASSUME TypeInv, SerialInv, OneAtATime, NEW w \in Workers, WriteRegister(w)
    PROVE  SerialInv'
  <1>0. /\ attempts \in Seq(Attempt) /\ Len(attempts) \in Nat /\ DOMAIN attempts = 1 .. Len(attempts)
        /\ cases \in Seq(Case) /\ 0 \notin DOMAIN cases
    BY DEF TypeInv, TypeOK
  <1>1. PICK q : q = request[w]
    OBVIOUS
  <1>2. /\ q.op = "register" /\ q.read
        /\ q.exam \in Exams /\ q.exam.day \in Nat /\ q.case \in {0} \cup DOMAIN cases
        /\ CreateAttempt(q.no, q.exam, q.exam.day, q.case)
        /\ enrollment' = enrollment /\ activity' = activity
        /\ cases' = IF q.case = 0 THEN cases ELSE [cases EXCEPT ![q.case].status = "CONSUMED"]
    BY <1>1, RequestFields, ConstantsAssumption DEF WriteRegister, TypeInv, Refers, Finish
  <1>3. /\ enrollment = "ENROLLED" /\ ~Passed /\ ~HasPending /\ ~activity
        /\ NeedsCase(q.exam) => q.case \in ApprovedCases
    BY <1>1, <1>2 DEF SerialInv, StillSo
  <1>4. /\ attempts' \in Seq(Attempt)
        /\ DOMAIN attempts' = DOMAIN attempts \cup {Len(attempts) + 1}
        /\ \A i \in DOMAIN attempts : attempts'[i] = attempts[i]
        /\ attempts'[Len(attempts) + 1].day = q.exam.day
        /\ attempts'[Len(attempts) + 1].case = q.case
        /\ FailedBefore' /\ EnrollmentFollows'
        /\ \A n \in Nat : n = Len(attempts) => FailuresAmong(1 .. n)' = Failures
    BY <1>2, <1>3, OpenedRow
  <1>5. /\ DOMAIN cases' = DOMAIN cases
        /\ \A c \in DOMAIN cases : cases[c].status = "CONSUMED" => cases'[c].status = "CONSUMED"
        /\ q.case # 0 => cases'[q.case].status = "CONSUMED"
    <2>1. CASE q.case = 0
      BY <1>2, <2>1
    <2>2. CASE q.case # 0
      <3>1. cases' = [cases EXCEPT ![q.case].status = "CONSUMED"]
        BY <1>2, <2>2
      <3>2. q.case \in DOMAIN cases /\ cases[q.case] \in Case
        BY <1>0, <1>2, <2>2
      <3>3. cases'[q.case].status = "CONSUMED"
        BY <3>1, <3>2 DEF Case
      <3> QED
        BY <1>0, <3>1, <3>2, <3>3
    <2> QED
      BY <2>1, <2>2
  <1>6. ASSUME NEW i \in DOMAIN attempts PROVE CoveredAt(i)'
    <2>1. CoveredAt(i)
      BY DEF SerialInv
    <2> QED
      BY <1>2, <1>3, <1>4, <1>5, <2>1, CoveredStays
  <1>7. ASSUME NEW k, k = Len(attempts) + 1 PROVE CoveredAt(k)'
    <2>1. PICK n \in Nat : n = Len(attempts)
      BY <1>0
    <2>2. PICK d : d = q.exam.day
      OBVIOUS
    <2>3. FailuresAmong(1 .. k - 1)' >= MaxRegular => Exhausted
      <3>1. FailuresAmong(1 .. n)' = Failures
        BY <1>4, <2>1
      <3>2. k - 1 = n
        BY <1>0, <1>7, <2>1
      <3> QED
        BY <3>1, <3>2 DEF Exhausted
    <2>4. OutsideWindow(d)' => OutsideWindow(d)
      <3>1. CASE attempts = <<>>
        <4>1. attempts'[1].day = d
          BY <1>4, <2>2, <3>1
        <4>2. WindowStart # "ENROLMENT" => ~OutsideWindow(d)'
          BY <1>2, <2>2, <4>1, ConstantsAssumption DEF OutsideWindow
        <4> QED
          BY <4>2 DEF OutsideWindow
      <3>2. CASE attempts # <<>>
        <4>1. 1 \in DOMAIN attempts
          BY <1>0, <3>2
        <4>2. 1 \in DOMAIN attempts' /\ attempts'[1].day = attempts[1].day
          BY <1>4, <4>1
        <4>3. attempts' # <<>>
          BY <4>2
        <4> QED
          BY <3>2, <4>2, <4>3, WindowKept
      <3> QED
        BY <3>1, <3>2
    <2>5. attempts'[k].day = d /\ attempts'[k].case = q.case
      BY <1>4, <1>7, <2>2
    <2>6. Exhausted \/ OutsideWindow(d) => q.case # 0
      BY <1>0, <1>3, <2>2 DEF NeedsCase, ApprovedCases
    <2>7. FailuresAmong(1 .. k - 1)' >= MaxRegular \/ OutsideWindow(d)' =>
              attempts'[k].case # 0 /\ cases'[attempts'[k].case].status = "CONSUMED"
      BY <1>5, <2>3, <2>4, <2>5, <2>6
    <2> QED
      BY <1>2, <1>3, <2>5, <2>7 DEF CoveredAt
  <1>8. \A v \in Workers : StillSo(v)'
    <2>1. request[w] # Idle /\ Finish(w)
      BY <1>1, <1>2 DEF Idle, WriteRegister
    <2> QED
      BY <2>1, DoneQuiet
  <1>9. \A i \in DOMAIN attempts' : CoveredAt(i)'
    BY <1>4, <1>6, <1>7
  <1> QED
    BY <1>4, <1>8, <1>9 DEF SerialInv

\* An evaluation leaves the approved case that it needed approved.
LEMMA EvaluateSerial ==
    ASSUME TypeInv, SerialInv, OneAtATime, NEW w \in Workers, WriteEvaluate(w)
    PROVE  SerialInv'
  <1>0. /\ attempts \in Seq(Attempt) /\ Len(attempts) \in Nat /\ DOMAIN attempts = 1 .. Len(attempts)
        /\ today \in Nat
    BY DEF TypeInv, TypeOK
  <1>1. PICK q : q = request[w]
    OBVIOUS
  <1>2. /\ q.op = "evaluate"
        /\ CreateAttempt(q.no, NoExam, today, 0)
        /\ enrollment' = enrollment /\ activity' = activity /\ cases' = cases
    BY <1>1 DEF WriteEvaluate, Finish
  <1>3. /\ enrollment = "ENROLLED" /\ ~Passed /\ ~HasPending /\ activity
        /\ Exhausted => ApprovedCases # {}
    BY <1>1, <1>2 DEF SerialInv, StillSo
  <1>4. /\ attempts' \in Seq(Attempt)
        /\ DOMAIN attempts' = DOMAIN attempts \cup {Len(attempts) + 1}
        /\ \A i \in DOMAIN attempts : attempts'[i] = attempts[i]
        /\ FailedBefore' /\ EnrollmentFollows'
        /\ \A n \in Nat : n = Len(attempts) => FailuresAmong(1 .. n)' = Failures
    BY <1>0, <1>2, <1>3, OpenedRow
  <1>5. ASSUME NEW i \in DOMAIN attempts PROVE CoveredAt(i)'
    <2>1. CoveredAt(i)
      BY DEF SerialInv
    <2> QED
      BY <1>2, <1>4, <2>1, CoveredStays
  <1>6. ASSUME NEW k, k = Len(attempts) + 1 PROVE CoveredAt(k)'
    <2>1. PICK n \in Nat : n = Len(attempts)
      BY <1>0
    <2>2. FailuresAmong(1 .. n)' = Failures
      BY <1>4, <2>1
    <2>3. FailuresAmong(1 .. k - 1)' >= MaxRegular => Exhausted
      <3>1. k - 1 = n
        BY <1>0, <1>6, <2>1
      <3> QED
        BY <2>2, <3>1 DEF Exhausted
    <2>4. ApprovedCases' = ApprovedCases
      BY <1>2 DEF ApprovedCases
    <2> QED
      BY <1>2, <1>3, <2>3, <2>4 DEF CoveredAt
  <1>7. \A v \in Workers : StillSo(v)'
    <2>1. request[w] # Idle /\ Finish(w)
      BY <1>1, <1>2 DEF Idle, WriteEvaluate
    <2> QED
      BY <2>1, DoneQuiet
  <1>8. \A i \in DOMAIN attempts' : CoveredAt(i)'
    BY <1>4, <1>5, <1>6
  <1> QED
    BY <1>4, <1>7, <1>8 DEF SerialInv

\* Submitting, reviewing and deciding undo neither a consumed nor an approved case.
LEMMA CasesSerial ==
    ASSUME TypeInv, SerialInv, OneAtATime, NEW w \in Workers, request[w] # Idle, Finish(w),
           UNCHANGED <<enrollment, attempts>>, DOMAIN cases \subseteq DOMAIN cases',
           \A c \in DOMAIN cases : cases[c].status \in {"CONSUMED", "VC_APPROVED"} =>
              cases'[c].status = cases[c].status
    PROVE  SerialInv'
  <1>1. attempts \in Seq(Attempt) /\ activity' = activity
    BY DEF TypeInv, TypeOK, Finish
  <1>2. FailedBefore' /\ EnrollmentFollows'
    BY DEF SerialInv, FailedBefore, EnrollmentFollows, Passed, AttemptsWith
  <1>3. ASSUME NEW i \in DOMAIN attempts PROVE CoveredAt(i)'
    <2>1. CoveredAt(i)
      BY DEF SerialInv
    <2> QED
      BY <1>1, <2>1, CoveredStays
  <1>4. \A v \in Workers : StillSo(v)'
    BY DoneQuiet
  <1> QED
    BY <1>2, <1>3, <1>4 DEF SerialInv

LEMMA WriteSerial ==
    ASSUME TypeInv, SerialInv, OneAtATime, NEW w \in Workers, Write(w)
    PROVE  SerialInv'
  <1>0. cases \in Seq(Case) /\ request[w] # Idle
    BY DEF TypeInv, TypeOK, Write, WriteRegister, WriteEvaluate, WriteSubmit, WriteReview,
           WriteDecide, WriteWithdraw, Idle
  <1>1. CASE WriteSubmit(w)
    <2> DEFINE r == [status |-> "SUBMITTED", submittedBy |-> request[w].actor,
                     deanBy |-> Nobody, vcBy |-> Nobody]
    <2>1. cases' = Append(cases, r) /\ Finish(w) /\ UNCHANGED <<enrollment, attempts>>
      BY <1>1 DEF WriteSubmit, WriteCases
    <2> HIDE DEF r
    <2>2. DOMAIN cases \subseteq DOMAIN cases' /\ \A c \in DOMAIN cases : cases'[c] = cases[c]
      BY <1>0, <2>1
    <2> QED
      BY <1>0, <2>1, <2>2, CasesSerial
  <1>2. CASE WriteReview(w)
    <2>1. PICK n : n = request[w].id
      OBVIOUS
    <2>2. /\ cases' = [cases EXCEPT ![n].status = request[w].status, ![n].deanBy = request[w].actor]
          /\ Finish(w) /\ UNCHANGED <<enrollment, attempts>>
      BY <1>2, <2>1 DEF WriteReview, WriteCases
    <2>3. cases[n].status = "SUBMITTED"
      BY <1>2, <2>1 DEF WriteReview, SerialInv, StillSo
    <2>4. DOMAIN cases' = DOMAIN cases /\ \A c \in DOMAIN cases : c # n => cases'[c] = cases[c]
      BY <1>0, <2>2
    <2> QED
      BY <1>0, <2>2, <2>3, <2>4, CasesSerial
  <1>3. CASE WriteDecide(w)
    <2>1. PICK n : n = request[w].id
      OBVIOUS
    <2>2. /\ cases' = [cases EXCEPT ![n].status = request[w].status, ![n].vcBy = request[w].actor]
          /\ Finish(w) /\ UNCHANGED <<enrollment, attempts>>
      BY <1>3, <2>1 DEF WriteDecide, WriteCases
    <2>3. cases[n].status \in {"DEAN_RECOMMENDED", "DEAN_NOT_RECOMMENDED"}
      BY <1>3, <2>1 DEF WriteDecide, SerialInv, StillSo
    <2>4. DOMAIN cases' = DOMAIN cases /\ \A c \in DOMAIN cases : c # n => cases'[c] = cases[c]
      BY <1>0, <2>2
    <2> QED
      BY <1>0, <2>2, <2>3, <2>4, CasesSerial
  <1>4. CASE WriteWithdraw(w)
    <2>1. /\ attempts = <<>> /\ attempts' = attempts /\ enrollment' = "WITHDRAWN" /\ Finish(w)
      BY <1>4 DEF WriteWithdraw, SerialInv, StillSo
    <2>2. ~Passed'
      BY <2>1 DEF Passed, AttemptsWith
    <2>3. FailedBefore' /\ EnrollmentFollows' /\ \A i \in DOMAIN attempts' : CoveredAt(i)'
      BY <2>1, <2>2 DEF SerialInv, FailedBefore, EnrollmentFollows
    <2>4. \A v \in Workers : StillSo(v)'
      BY <1>0, <2>1, DoneQuiet
    <2> QED
      BY <2>3, <2>4 DEF SerialInv
  <1> QED
    BY <1>1, <1>2, <1>3, <1>4, RegisterSerial, EvaluateSerial DEF Write

\* A first outcome is the last attempt's, and no request in flight rests on there being none.
LEMMA PublishSerial ==
    ASSUME TypeInv, SerialInv, NEW k \in DOMAIN attempts, NEW o \in Outcomes, Publish(k, o)
    PROVE  SerialInv'
  <1>0. attempts \in Seq(Attempt) /\ Len(attempts) \in Nat /\ DOMAIN attempts = 1 .. Len(attempts)
    BY DEF TypeInv, TypeOK
  <1>1. attempts[k].outcome = Pending /\ SetOutcome(k, o)
    BY DEF Publish
  <1>2. /\ attempts' \in Seq(Attempt) /\ Len(attempts') = Len(attempts)
        /\ DOMAIN attempts' = DOMAIN attempts
        /\ \A i \in DOMAIN attempts : i # k => attempts'[i] = attempts[i]
        /\ attempts'[k].outcome = o
        /\ attempts'[k].case = attempts[k].case
        /\ attempts'[k].day = attempts[k].day
    BY <1>1, SetOutcomeFrame
  <1>3. /\ enrollment' = IF o = "PASS" THEN "COMPLETED" ELSE "ENROLLED"
        /\ UNCHANGED <<today, activity, cases, request>>
    BY <1>1 DEF SetOutcome
  <1>4. k = Len(attempts)
    BY <1>0, <1>1 DEF SerialInv, FailedBefore
  <1>5. FailedBefore'
    BY <1>0, <1>2, <1>4 DEF SerialInv, FailedBefore
  <1>6. Passed' <=> o = "PASS"
    <2>1. \A i \in DOMAIN attempts : i # k => attempts[i].outcome # "PASS"
      BY <1>0, <1>4 DEF SerialInv, FailedBefore
    <2> QED
      BY <1>2, <2>1 DEF Passed, AttemptsWith
  <1>7. EnrollmentFollows'
    <2>1. enrollment' # "WITHDRAWN" /\ (enrollment' = "COMPLETED" <=> o = "PASS")
      BY <1>3
    <2> QED
      BY <1>6, <2>1 DEF EnrollmentFollows
  <1>8. ASSUME NEW i \in DOMAIN attempts' PROVE CoveredAt(i)'
    <2>1. CoveredAt(i)
      BY <1>2 DEF SerialInv
    <2>2. \A j \in DOMAIN attempts : j < i => j # k
      BY <1>0, <1>2, <1>4
    <2>3. \A j \in DOMAIN attempts : /\ attempts'[j].day = attempts[j].day
                                     /\ attempts'[j].case = attempts[j].case
      BY <1>2
    <2> QED
      BY <1>2, <1>3, <2>1, <2>2, <2>3, CoveredStays
  <1>9. ASSUME NEW v \in Workers PROVE StillSo(v)'
    <2>1. HasPending
      BY <1>1 DEF HasPending, AttemptsWith
    <2>2. StillSo(v) /\ attempts # <<>>
      BY <1>0 DEF SerialInv
    <2>3. request[v].op \notin {"register", "evaluate", "withdraw"}
      BY <2>1, <2>2 DEF StillSo
    <2> QED
      BY <1>3, <2>2, <2>3 DEF StillSo
  <1> QED
    BY <1>5, <1>7, <1>8, <1>9 DEF SerialInv

\* SerialInv is inductive for requests one after the other.
LEMMA StepSerial ==
    ASSUME ~Revaluation, TypeInv, SerialInv, OneAtATime, [Next]_vars
    PROVE  SerialInv'
  <1>1. ASSUME NEW w \in Workers, Drop(w) PROVE SerialInv'
    <2>1. /\ request[w] # Idle /\ Finish(w) /\ UNCHANGED stored
      BY <1>1 DEF Drop, Finish, stored
    <2> QED
      BY <2>1, DoneQuiet, TablesKept DEF SerialInv
  <1>2. ASSUME Tick \/ UNCHANGED vars PROVE SerialInv'
    <2>1. UNCHANGED stored /\ request' = request
      BY <1>2 DEF Tick, vars, stored
    <2>2. ASSUME NEW v \in Workers PROVE StillSo(v)'
      <3>1. StillSo(v) /\ request'[v] = request[v]
        BY <2>1 DEF SerialInv
      <3> QED
        BY <2>1, <3>1, FoundKept
    <2> QED
      BY <2>1, <2>2, TablesKept DEF SerialInv
  <1>3. ASSUME NEW i \in DOMAIN attempts, NEW o \in Outcomes, Publish(i, o) \/ Revise(i, o)
        PROVE  SerialInv'
    BY <1>3, PublishSerial DEF Revise
  <1> QED
    BY <1>1, <1>2, <1>3, LoadSerial, ReadCaseSerial, WriteSerial DEF Next

LEMMA InitSerial == Init => SerialInv
  <1> SUFFICES ASSUME Init PROVE SerialInv
    OBVIOUS
  <1>1. attempts = <<>> /\ enrollment = "ENROLLED" /\ \A w \in Workers : request[w].op = "idle"
    BY DEF Init, Idle
  <1>2. FailedBefore /\ EnrollmentFollows
    BY <1>1 DEF FailedBefore, EnrollmentFollows, LastAttemptNo, Passed, AttemptsWith
  <1>3. \A w \in Workers : StillSo(w)
    BY <1>1 DEF StillSo
  <1> QED
    BY <1>1, <1>2, <1>3 DEF SerialInv

\* As long as requests come one after the other and outcomes are not revised, whoever had used up
\* the regular attempts, or sat outside the window, did so on a case of their own.
THEOREM CoveredInTurn == ASSUME ~Revaluation PROVE Spec /\ []OneAtATime => []CoveredByCase
  <1>1. SerialInv => CoveredByCase
    BY DEF SerialInv, CoveredAt, CoveredByCase
  <1>2. TypeInv /\ SerialInv /\ OneAtATime /\ [Next]_vars => SerialInv'
    BY StepSerial
  <1> QED
    BY <1>1, <1>2, InitTyped, StepTyped, InitSerial, PTL DEF Spec

-----------------------------------------------------------------------------
(* What the scholar is told *)

\* Never more failures than attempts, and as many when all have failed.
LEMMA FailuresBound ==
    ASSUME TypeInv, FailedBefore
    PROVE  /\ Failures \in Nat
           /\ Failures <= Len(attempts)
           /\ Failures = Len(attempts) <=>
                 \A i \in DOMAIN attempts :
                    \/ attempts[i].outcome = "FAIL"
                    \/ attempts[i].outcome = "ABSENT" /\ AbsentCounts = "YES"
  <1>0. attempts \in Seq(Attempt) /\ Len(attempts) \in Nat /\ DOMAIN attempts = 1 .. Len(attempts)
    BY DEF TypeInv, TypeOK
  <1> DEFINE S == 1 .. Len(attempts)
             C == AttemptsWith("FAIL") \cup
                     IF AbsentCounts = "YES" THEN AttemptsWith("ABSENT") ELSE {}
  <1>1. IsFiniteSet(S) /\ Cardinality(S) = Len(attempts)
    BY <1>0, FS_Interval
  <1>2. S \cap C \subseteq S
    OBVIOUS
  <1>3. /\ IsFiniteSet(S \cap C) /\ Cardinality(S \cap C) <= Cardinality(S)
        /\ Cardinality(S \cap C) = Cardinality(S) => S \cap C = S
    BY <1>1, <1>2, FS_Subset
  <1>4. Failures = Cardinality(S \cap C)
    BY <1>0 DEF Failures, FailuresAmong
  <1>5. Failures \in Nat
    BY <1>3, <1>4, FS_CardinalityType
  <1>6. S \cap C = S <=>
            \A i \in DOMAIN attempts :
               \/ attempts[i].outcome = "FAIL"
               \/ attempts[i].outcome = "ABSENT" /\ AbsentCounts = "YES"
    BY <1>0 DEF AttemptsWith
  <1> HIDE DEF S, C
  <1>7. Failures = Len(attempts) <=> S \cap C = S
    BY <1>1, <1>3, <1>4
  <1>8. Failures <= Len(attempts)
    BY <1>1, <1>3, <1>4
  <1> QED
    BY <1>5, <1>6, <1>7, <1>8

\* Each failure takes an attempt, so with absences counted none is left exactly when all have failed.
LEMMA ToldTrue ==
    ASSUME AbsentCounts = "YES", MaxTotal >= LastAttemptNo, TypeInv, SerialInv
    PROVE  StandingTruthful
  <1>0. /\ attempts \in Seq(Attempt) /\ Len(attempts) \in Nat /\ Len(attempts) <= LastAttemptNo
        /\ MaxTotal \in Nat
    BY ConstantsAssumption DEF TypeInv, TypeOK, SerialInv, FailedBefore
  <1>1. ~Blocked
    BY DEF Blocked
  <1>2. /\ Failures \in Nat
        /\ Failures <= Len(attempts)
        /\ Failures = Len(attempts) <=>
              \A i \in DOMAIN attempts : attempts[i].outcome \in {"FAIL", "ABSENT"}
    <2>1. FailedBefore
      BY DEF SerialInv
    <2> QED
      BY <2>1, FailuresBound
  <1>3. \A i \in DOMAIN attempts : attempts[i].outcome \in {"FAIL", "ABSENT", "PASS", Pending}
    <2>1. \A i \in DOMAIN attempts : attempts[i] \in Attempt
      BY <1>0
    <2> QED
      BY <2>1 DEF Attempt, Outcomes
  <1>4. Failures = Len(attempts) <=> ~HasPending /\ ~Passed
    BY <1>2, <1>3 DEF HasPending, Passed, AttemptsWith, Pending
  <1>5. Standing = "ATTEMPTS_EXHAUSTED" <=> ~Passed /\ Failures >= MaxTotal
    BY <1>1 DEF Standing
  <1>6. ~Passed /\ Failures >= MaxTotal <=> Len(attempts) = MaxTotal /\ ~HasPending /\ ~Passed
    BY <1>0, <1>2, <1>4 DEF LastAttemptNo
  <1>7. Standing = "THIRD_ATTEMPT_REQUIRED" /\ ~HasPending => CaseAllowed
    BY <1>1 DEF Standing, CaseAllowed
  <1>8. EnrollmentFollows
    BY DEF SerialInv
  <1> QED
    BY <1>5, <1>6, <1>7, <1>8 DEF StandingTruthful, EnrollmentFollows

\* As long as requests come one after the other, outcomes are not revised and absences count, the
\* enrollment follows the outcomes and the standing shown agrees with what the services allow.
THEOREM StandingInTurn ==
    ASSUME ~Revaluation, AbsentCounts = "YES", MaxTotal >= LastAttemptNo
    PROVE  Spec /\ []OneAtATime => []StandingTruthful
  <1>1. TypeInv /\ SerialInv => StandingTruthful
    BY ToldTrue
  <1>2. TypeInv /\ SerialInv /\ OneAtATime /\ [Next]_vars => SerialInv'
    BY StepSerial
  <1> QED
    BY <1>1, <1>2, InitTyped, StepTyped, InitSerial, PTL DEF Spec

=============================================================================
