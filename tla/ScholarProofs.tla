----------------------------- MODULE ScholarProofs -----------------------------
(***************************************************************************)
(* Theorems about ScholarRequests, for any workers, chains, caps and       *)
(* lengths; about TeachingAssistance, for any clerks, semesters, loads and *)
(* limits; and about Lifecycle, for any handlers and rule parameters.      *)
(***************************************************************************)
EXTENDS ScholarRequests, TeachingAssistance, Lifecycle, ApprovalRequestsProofs, FiniteSetTheorems

-----------------------------------------------------------------------------
(* Requests: the types *)

\* What each kind of application carries.
LEMMA ApplicationFields ==
    ASSUME TypeOK, NEW w \in Workers
    PROVE  /\ request[w].op = "extension" => request[w].kind \in ExtensionKinds
           /\ request[w].op = "leave" => /\ request[w].type \in LeaveTypes
                                         /\ request[w].year \in Years
                                         /\ request[w].days \in Days
           /\ request[w].op = "claim" => request[w].month \in Months /\ request[w].amount \in Amounts
  <1>1. request[w] \in Request
    BY DEF TypeOK
  <1> QED
    BY <1>1 DEF Request

\* A decision keeps the rows of the tables but for their status.
LEMMA ExtensionClosed ==
    ASSUME extensions \in Seq(Extension), NEW q, NEW i
    PROVE  /\ CloseExtension(q, i) \in Seq(Extension)
           /\ DOMAIN CloseExtension(q, i) = DOMAIN extensions
           /\ \A e \in DOMAIN extensions :
                 LET old == extensions[e]
                     new == CloseExtension(q, i)[e]
                 IN  /\ new.kind = old.kind
                     /\ new.approval = old.approval
                     /\ new.status = IF old.approval # i THEN old.status
                                     ELSE CASE q.status = "APPROVED" -> "GRANTED"
                                            [] q.status = "REJECTED" -> "REFUSED"
                                            [] OTHER -> old.status
  <1>1. extensions \in [1..Len(extensions) -> Extension] /\ Len(extensions) \in Nat
    OBVIOUS
  <1>2. ASSUME NEW e \in DOMAIN extensions
        PROVE  LET old == extensions[e]
                   new == CloseExtension(q, i)[e]
               IN  /\ new \in Extension
                   /\ new.kind = old.kind
                   /\ new.approval = old.approval
                   /\ new.status = IF old.approval # i THEN old.status
                                   ELSE CASE q.status = "APPROVED" -> "GRANTED"
                                          [] q.status = "REJECTED" -> "REFUSED"
                                          [] OTHER -> old.status
    <2>1. extensions[e] \in Extension
      OBVIOUS
    <2> QED
      BY <2>1 DEF CloseExtension, Extension
  <1>3. CloseExtension(q, i) \in [1..Len(extensions) -> Extension]
    BY <1>1, <1>2 DEF CloseExtension
  <1> QED
    BY <1>1, <1>2, <1>3 DEF CloseExtension

LEMMA LeaveClosed ==
    ASSUME leaves \in Seq(Leave), NEW q, NEW i
    PROVE  /\ CloseLeave(q, i) \in Seq(Leave)
           /\ DOMAIN CloseLeave(q, i) = DOMAIN leaves
           /\ \A l \in DOMAIN leaves :
                 LET old == leaves[l]
                     new == CloseLeave(q, i)[l]
                 IN  /\ new.type = old.type /\ new.year = old.year /\ new.days = old.days
                     /\ new.approval = old.approval
                     /\ old.approval # i \/ q.status = "PENDING" => new = old
                     /\ old.approval = i /\ q.status # "PENDING" => (new.approved <=> q.status = "APPROVED")
  <1>1. leaves \in [1..Len(leaves) -> Leave] /\ Len(leaves) \in Nat
    OBVIOUS
  <1>2. ASSUME NEW l \in DOMAIN leaves
        PROVE  LET old == leaves[l]
                   new == CloseLeave(q, i)[l]
               IN  /\ new \in Leave
                   /\ new.type = old.type /\ new.year = old.year /\ new.days = old.days
                   /\ new.approval = old.approval
                   /\ old.approval # i \/ q.status = "PENDING" => new = old
                   /\ old.approval = i /\ q.status # "PENDING" => (new.approved <=> q.status = "APPROVED")
    <2>1. leaves[l] \in Leave
      OBVIOUS
    <2>2. leaves[l].approval = i /\ q.status # "PENDING" =>
              CloseLeave(q, i)[l] = [leaves[l] EXCEPT !.approved = (q.status = "APPROVED")]
      BY DEF CloseLeave
    <2>3. CASE leaves[l].approval = i /\ q.status # "PENDING"
      <3>1. CASE q.status = "APPROVED"
        <4>1. CloseLeave(q, i)[l] = [leaves[l] EXCEPT !.approved = TRUE]
          BY <2>2, <2>3, <3>1
        <4> QED
          BY <2>1, <2>3, <3>1, <4>1 DEF Leave
      <3>2. CASE q.status # "APPROVED"
        <4>1. CloseLeave(q, i)[l] = [leaves[l] EXCEPT !.approved = FALSE]
          BY <2>2, <2>3, <3>2
        <4> QED
          BY <2>1, <2>3, <3>2, <4>1 DEF Leave
      <3> QED
        BY <3>1, <3>2
    <2>4. CASE ~(leaves[l].approval = i /\ q.status # "PENDING")
      BY <2>1, <2>4 DEF CloseLeave
    <2> QED
      BY <2>3, <2>4
  <1>3. CloseLeave(q, i) \in [1..Len(leaves) -> Leave]
    BY <1>1, <1>2 DEF CloseLeave
  <1>4. CloseLeave(q, i) \in Seq(Leave) /\ DOMAIN CloseLeave(q, i) = DOMAIN leaves
    BY <1>1, <1>3
  <1> QED
    BY <1>2, <1>4

LEMMA ClaimClosed ==
    ASSUME claims \in Seq(Claim), NEW q, NEW i
    PROVE  /\ CloseClaim(q, i) \in Seq(Claim)
           /\ DOMAIN CloseClaim(q, i) = DOMAIN claims
           /\ \A c \in DOMAIN claims :
                 LET old == claims[c]
                     new == CloseClaim(q, i)[c]
                 IN  /\ new.month = old.month /\ new.amount = old.amount
                     /\ new.granted \in {old.granted, old.amount}
                     /\ new.approval = old.approval
                     /\ new.state = IF old.approval = i /\ q.status \in {"APPROVED", "REJECTED"}
                                    THEN q.status ELSE old.state
  <1>1. claims \in [1..Len(claims) -> Claim] /\ Len(claims) \in Nat
    OBVIOUS
  <1>2. ASSUME NEW c \in DOMAIN claims
        PROVE  LET old == claims[c]
                   new == CloseClaim(q, i)[c]
               IN  /\ new \in Claim
                   /\ new.month = old.month /\ new.amount = old.amount
                   /\ new.granted \in {old.granted, old.amount}
                   /\ new.approval = old.approval
                   /\ new.state = IF old.approval = i /\ q.status \in {"APPROVED", "REJECTED"}
                                  THEN q.status ELSE old.state
    <2>1. claims[c] \in Claim
      OBVIOUS
    <2>2. CASE claims[c].approval = i /\ q.status = "APPROVED"
      <3> DEFINE granted == IF claims[c].granted = 0 THEN claims[c].amount ELSE claims[c].granted
      <3>1. CloseClaim(q, i)[c] = [claims[c] EXCEPT !.state = "APPROVED", !.granted = granted]
        BY <2>2 DEF CloseClaim
      <3>2. granted \in Amounts \cup {0} /\ granted \in {claims[c].granted, claims[c].amount}
        BY <2>1 DEF Claim
      <3> HIDE DEF granted
      <3> QED
        BY <2>1, <2>2, <3>1, <3>2 DEF Claim
    <2>3. CASE claims[c].approval = i /\ q.status = "REJECTED"
      BY <2>1, <2>3 DEF CloseClaim, Claim
    <2>4. CASE claims[c].approval # i \/ q.status \notin {"APPROVED", "REJECTED"}
      BY <2>1, <2>4 DEF CloseClaim, Claim
    <2> QED
      BY <2>2, <2>3, <2>4
  <1>3. CloseClaim(q, i) \in [1..Len(claims) -> Claim]
    BY <1>1, <1>2 DEF CloseClaim
  <1>4. CloseClaim(q, i) \in Seq(Claim) /\ DOMAIN CloseClaim(q, i) = DOMAIN claims
    BY <1>1, <1>3
  <1> QED
    BY <1>2, <1>4

LEMMA AwardClosed ==
    ASSUME award \in SUBSET Award, NEW q, NEW i
    PROVE  /\ CloseAward(q, i) \in SUBSET Award
           /\ {a.approval : a \in CloseAward(q, i)} = {a.approval : a \in award}
           /\ (\A a, b \in award : a = b) => \A a, b \in CloseAward(q, i) : a = b
           /\ \A b \in CloseAward(q, i) : \E a \in award :
                 /\ b.approval = a.approval
                 /\ a.approval # i \/ q.status # "APPROVED" => b = a
                 /\ a.approval = i /\ q.status = "APPROVED" => b.approved
  <1> DEFINE New(a) == IF a.approval = i /\ q.status = "APPROVED" THEN [a EXCEPT !.approved = TRUE] ELSE a
  <1>1. ASSUME NEW a \in award
        PROVE  /\ New(a) \in Award
               /\ New(a).approval = a.approval
               /\ a.approval # i \/ q.status # "APPROVED" => New(a) = a
               /\ a.approval = i /\ q.status = "APPROVED" => New(a).approved
    <2>1. a \in Award
      OBVIOUS
    <2> QED
      BY <2>1 DEF Award
  <1>2. CloseAward(q, i) = {New(a) : a \in award}
    BY DEF CloseAward
  <1> HIDE DEF New
  <1> QED
    BY <1>1, <1>2

\* To the approval requests, every step is one of those ApprovalRequestsProofs is about.
LEMMA NextIsRequestStep == TypeOK /\ [Next]_vars => RequestStep
  <1> SUFFICES ASSUME TypeOK, [Next]_vars
               PROVE  RequestStep
    OBVIOUS
  <1>1. CASE \E w \in Workers : Apply(w)
    <2>1. PICK w \in Workers : Apply(w)
      BY <1>1
    <2>2. CASE InsertExtension(w)
      <3>1. request[w].kind \in Codes
        BY <2>2, ApplicationFields, ScholarRequestsAssumption DEF InsertExtension
      <3> QED
        BY <2>2, <3>1 DEF InsertExtension, RequestStep
    <2>3. CASE InsertLeave(w)
      <3>1. LeaveCode[request[w].type] \in Codes
        BY <2>3, ApplicationFields, ScholarRequestsAssumption DEF InsertLeave
      <3> QED
        BY <2>3, <3>1 DEF InsertLeave, RequestStep
    <2>4. CASE InsertClaim(w) \/ InsertAward(w)
      <3>1. {"GRANT_CLAIM", "DEGREE_AWARD"} \subseteq Codes
        BY ScholarRequestsAssumption
      <3> QED
        BY <2>4, <3>1 DEF InsertClaim, InsertAward, RequestStep
    <2> QED
      BY <2>1, <2>2, <2>3, <2>4
         DEF Apply, RequestExtension, ApplyForLeave, SubmitGrantClaim, StartDegreeAward, Begin, Drop, RequestStep
  <1>2. CASE \E i \in DOMAIN requests, approved \in BOOLEAN : Decide(i, approved)
    BY <1>2 DEF Decide, DecideRequest, RequestStep
  <1>3. CASE \E c \in DOMAIN claims, amount \in Amounts \cup {0} : EditAmountApproved(c, amount)
    BY <1>3 DEF EditAmountApproved, RequestStep
  <1>4. CASE EditChains
    BY <1>4 DEF RequestStep
  <1>5. CASE UNCHANGED vars
    BY <1>5 DEF vars, RequestStep
  <1> QED
    BY <1>1, <1>2, <1>3, <1>4, <1>5 DEF Next

\* The request a decision is about, before and after.
LEMMA RequestDecided ==
    ASSUME TypeOK, NEW i \in DOMAIN requests, NEW approved \in BOOLEAN, Decide(i, approved)
    PROVE  LET q == Decided(requests[i], approved)
           IN  /\ requests[i] \in ApprovalRequest
               /\ requests[i].status = "PENDING"
               /\ q \in ApprovalRequest
               /\ q.code = requests[i].code
               /\ requests' = [requests EXCEPT ![i] = q]
  <1>1. requests[i] \in ApprovalRequest /\ ChainsTypeOK /\ HasPendingStep(requests[i])
    BY DEF TypeOK, ChainsTypeOK, Decide
  <1> QED
    BY <1>1, ChainsAssumption, DecidedFields DEF Decide, HasPendingStep

\* A request that starts is the next one, and the others stay.
LEMMA RequestStarted ==
    ASSUME TypeOK, NEW code \in Codes, StartApproval(code)
    PROVE  /\ Len(requests) \in Nat /\ DOMAIN requests = 1..Len(requests)
           /\ NextRequest \in Nat /\ NextRequest \notin DOMAIN requests
           /\ DOMAIN requests' = DOMAIN requests \cup {NextRequest}
           /\ requests'[NextRequest].status = "PENDING"
           /\ requests'[NextRequest].code = code
           /\ \A i \in DOMAIN requests : requests'[i] = requests[i]
  <1>1. requests \in Seq(ApprovalRequest) /\ requests' = Append(requests, Started(code))
    BY DEF TypeOK, ChainsTypeOK, StartApproval
  <1>2. Started(code).status = "PENDING" /\ Started(code).code = code
    BY DEF Started
  <1> HIDE DEF Started
  <1> QED
    BY <1>1, <1>2 DEF NextRequest

LEMMA RequestsTyped ==
    ASSUME TypeOK, NEW w \in Workers, Apply(w), ChainsTypeOK'
    PROVE  TypeOK'
  <1>1. Idle \in Request
    BY DEF Idle, Request
  <1>2. ASSUME NEW r \in Request, Begin(w, r)
        PROVE  TypeOK'
    <2>1. {overlapped, raised}' \subseteq BOOLEAN
      <3>1. overlapped' \in BOOLEAN
        BY <1>2, Zenon DEF Begin
      <3> QED
        BY <1>2, <3>1 DEF Begin, TypeOK
    <2>2. request' \in [Workers -> Request]
      BY <1>2 DEF Begin, TypeOK
    <2> QED
      BY <1>2, <2>1, <2>2 DEF Begin, TypeOK, domain
  <1>3. ASSUME Finish(w)
        PROVE  request' \in [Workers -> Request] /\ {overlapped, raised}' \subseteq BOOLEAN
    BY <1>1, <1>3 DEF Finish, TypeOK
  <1>4. NextRequest \in Nat
    BY DEF NextRequest, TypeOK, ChainsTypeOK
  <1>5. ASSUME NEW kind \in ExtensionKinds, RequestExtension(w, kind)
        PROVE  TypeOK'
    <2>1. [op |-> "extension", kind |-> kind] \in Request
      BY DEF Request
    <2> QED
      BY <1>2, <1>5, <2>1 DEF RequestExtension
  <1>6. ASSUME NEW type \in LeaveTypes, NEW year \in Years, NEW days \in Days, ApplyForLeave(w, type, year, days)
        PROVE  TypeOK'
    <2>1. [op |-> "leave", type |-> type, year |-> year, days |-> days] \in Request
      BY DEF Request
    <2> QED
      BY <1>2, <1>6, <2>1 DEF ApplyForLeave
  <1>7. ASSUME NEW month \in Months, NEW amount \in Amounts, SubmitGrantClaim(w, month, amount)
        PROVE  TypeOK'
    <2>1. [op |-> "claim", month |-> month, amount |-> amount] \in Request
      BY DEF Request
    <2> QED
      BY <1>2, <1>7, <2>1 DEF SubmitGrantClaim
  <1>8. CASE StartDegreeAward(w)
    <2>1. [op |-> "award"] \in Request
      BY DEF Request
    <2> QED
      BY <1>2, <1>8, <2>1 DEF StartDegreeAward
  <1>9. CASE InsertExtension(w)
    <2>1. [kind |-> request[w].kind, status |-> "REQUESTED", approval |-> NextRequest] \in Extension
      BY <1>4, <1>9, ApplicationFields DEF InsertExtension, Extension
    <2>2. extensions' \in Seq(Extension)
      BY <1>9, <2>1 DEF InsertExtension, TypeOK
    <2> QED
      BY <1>3, <1>9, <2>2 DEF InsertExtension, TypeOK
  <1>10. CASE InsertLeave(w)
    <2>1. [type |-> request[w].type, year |-> request[w].year, days |-> request[w].days,
           approved |-> FALSE, approval |-> NextRequest] \in Leave
      BY <1>4, <1>10, ApplicationFields DEF InsertLeave, Leave
    <2>2. leaves' \in Seq(Leave)
      BY <1>10, <2>1 DEF InsertLeave, TypeOK
    <2> QED
      BY <1>3, <1>10, <2>2 DEF InsertLeave, TypeOK
  <1>11. CASE InsertClaim(w)
    <2>1. [month |-> request[w].month, amount |-> request[w].amount, granted |-> 0,
           state |-> "PENDING", approval |-> NextRequest] \in Claim
      BY <1>4, <1>11, ApplicationFields DEF InsertClaim, Claim
    <2>2. claims' \in Seq(Claim)
      BY <1>11, <2>1 DEF InsertClaim, TypeOK
    <2> QED
      BY <1>3, <1>11, <2>2 DEF InsertClaim, TypeOK
  <1>12. CASE InsertAward(w)
    <2>1. [approval |-> NextRequest, approved |-> FALSE] \in Award
      BY <1>4 DEF Award
    <2>2. award' \in SUBSET Award
      BY <1>12, <2>1 DEF InsertAward
    <2> QED
      BY <1>3, <1>12, <2>2 DEF InsertAward, TypeOK
  <1>13. CASE Drop(w)
    BY <1>3, <1>13 DEF Drop, domain, TypeOK
  <1> QED
    BY <1>5, <1>6, <1>7, <1>8, <1>9, <1>10, <1>11, <1>12, <1>13 DEF Apply

LEMMA NextTyped == TypeOK /\ [Next]_vars => TypeOK'
  <1> SUFFICES ASSUME TypeOK, [Next]_vars
               PROVE  TypeOK'
    OBVIOUS
  <1>1. ChainsTypeOK'
    BY ChainsAssumption, NextIsRequestStep, ChainsTyped DEF TypeOK
  <1>2. CASE \E w \in Workers : Apply(w)
    BY <1>1, <1>2, RequestsTyped
  <1>3. ASSUME NEW i \in DOMAIN requests, NEW approved \in BOOLEAN, Decide(i, approved)
        PROVE  TypeOK'
    BY <1>1, <1>3, ExtensionClosed, LeaveClosed, ClaimClosed, AwardClosed DEF Decide, TypeOK
  <1>4. ASSUME NEW c \in DOMAIN claims, NEW amount \in Amounts \cup {0}, EditAmountApproved(c, amount)
        PROVE  TypeOK'
    <2>1. [claims[c] EXCEPT !.granted = amount] \in Claim
      <3>1. claims[c] \in Claim
        BY DEF TypeOK
      <3> QED
        BY <3>1 DEF Claim
    <2>2. claims' \in Seq(Claim)
      BY <1>4, <2>1 DEF EditAmountApproved, TypeOK
    <2>3. raised' \in BOOLEAN
      BY <1>4, Zenon DEF EditAmountApproved
    <2> QED
      BY <1>1, <1>4, <2>2, <2>3 DEF EditAmountApproved, TypeOK
  <1>5. CASE EditChains /\ UNCHANGED <<domain, request, overlapped, raised>>
    BY <1>1, <1>5 DEF domain, TypeOK
  <1>6. CASE UNCHANGED vars
    BY <1>1, <1>6 DEF vars, domain, TypeOK
  <1> QED
    BY <1>2, <1>3, <1>4, <1>5, <1>6 DEF Next

LEMMA InitTyped == Init => TypeOK
  <1> SUFFICES ASSUME Init
               PROVE  TypeOK
    OBVIOUS
  <1>1. ChainsTypeOK
    BY ChainsAssumption, ChainsInitSound DEF Init, RequestsInv
  <1>2. Idle \in Request
    BY DEF Idle, Request
  <1>3. {overlapped, raised} \subseteq BOOLEAN
    BY DEF Init
  <1> QED
    BY <1>1, <1>2, <1>3 DEF Init, TypeOK

\* Every table of the scholar's requests, and what each worker is doing, keeps its type.
THEOREM ScholarTypeCorrect == Spec => []TypeOK
  BY InitTyped, NextTyped, PTL DEF Spec

-----------------------------------------------------------------------------
(* Requests: the rows and the approval records *)

\* Every row refers to a request there is, and every request is referred to by exactly one row.
Referred == \A r \in Asked : r[3] \in DOMAIN requests

OneRow == \A i \in DOMAIN requests : \E r \in Asked : {s \in Asked : s[3] = i} = {r}

AgreeInv == TypeOK /\ StatusesAgree /\ Referred /\ OneRow

\* The requests the rows refer to
LEMMA ReferredRows ==
    ASSUME Referred
    PROVE  /\ \A e \in DOMAIN extensions : extensions[e].approval \in DOMAIN requests
           /\ \A l \in DOMAIN leaves : leaves[l].approval \in DOMAIN requests
           /\ \A c \in DOMAIN claims : claims[c].approval \in DOMAIN requests
           /\ \A a \in award : a.approval \in DOMAIN requests
  <1>1. ASSUME NEW k, NEW i, NEW n, <<k, i, n>> \in Asked
        PROVE  n \in DOMAIN requests
    BY <1>1 DEF Referred
  <1>2. /\ \A e \in DOMAIN extensions : <<"extension", e, extensions[e].approval>> \in Asked
        /\ \A l \in DOMAIN leaves : <<"leave", l, leaves[l].approval>> \in Asked
        /\ \A c \in DOMAIN claims : <<"claim", c, claims[c].approval>> \in Asked
        /\ \A a \in award : <<"award", 1, a.approval>> \in Asked
    BY DEF Asked
  <1> QED
    BY <1>1, <1>2

LEMMA RowsKept ==
    ASSUME AgreeInv, Asked' = Asked, DOMAIN requests' = DOMAIN requests
    PROVE  Referred' /\ OneRow'
  BY DEF AgreeInv, Referred, OneRow

LEMMA RowAdded ==
    ASSUME AgreeInv, NEW r, Asked' = Asked \cup {r}, r[3] = NextRequest,
           NextRequest \notin DOMAIN requests,
           DOMAIN requests' = DOMAIN requests \cup {NextRequest}
    PROVE  Referred' /\ OneRow'
  <1>1. Referred'
    BY DEF AgreeInv, Referred
  <1>2. ASSUME NEW i \in DOMAIN requests'
        PROVE  \E t \in Asked' : {s \in Asked' : s[3] = i} = {t}
    <2>1. CASE i \in DOMAIN requests
      <3>1. {s \in Asked' : s[3] = i} = {s \in Asked : s[3] = i}
        BY <2>1
      <3> QED
        BY <2>1, <3>1 DEF AgreeInv, OneRow
    <2>2. CASE i = NextRequest
      <3>1. {s \in Asked' : s[3] = i} = {r}
        BY <2>2 DEF AgreeInv, Referred
      <3> QED
        BY <3>1
    <2> QED
      BY <2>1, <2>2
  <1> QED
    BY <1>1, <1>2 DEF OneRow

LEMMA AgreeInsert ==
    ASSUME AgreeInv, NEW w \in Workers,
           InsertExtension(w) \/ InsertLeave(w) \/ InsertClaim(w) \/ InsertAward(w)
    PROVE  StatusesAgree' /\ Referred' /\ OneRow'
  <1> USE DEF AgreeInv
  <1>1. PICK code \in Codes : StartApproval(code)
    <2>1. CASE InsertExtension(w)
      BY <2>1, ApplicationFields, ScholarRequestsAssumption DEF InsertExtension
    <2>2. CASE InsertLeave(w)
      BY <2>2, ApplicationFields, ScholarRequestsAssumption DEF InsertLeave
    <2>3. CASE InsertClaim(w) \/ InsertAward(w)
      BY <2>3, ScholarRequestsAssumption DEF InsertClaim, InsertAward
    <2> QED
      BY <2>1, <2>2, <2>3
  <1>2. /\ NextRequest \notin DOMAIN requests
        /\ DOMAIN requests' = DOMAIN requests \cup {NextRequest}
        /\ requests'[NextRequest].status = "PENDING"
        /\ \A i \in DOMAIN requests : requests'[i] = requests[i]
    BY <1>1, RequestStarted
  <1>3. /\ \A e \in DOMAIN extensions : requests'[extensions[e].approval] = requests[extensions[e].approval]
        /\ \A l \in DOMAIN leaves : requests'[leaves[l].approval] = requests[leaves[l].approval]
        /\ \A c \in DOMAIN claims : requests'[claims[c].approval] = requests[claims[c].approval]
        /\ \A a \in award : requests'[a.approval] = requests[a.approval]
    BY <1>2, ReferredRows
  <1>4. CASE InsertExtension(w)
    <2> DEFINE row == [kind |-> request[w].kind, status |-> "REQUESTED", approval |-> NextRequest]
               n == Len(extensions) + 1
    <2>1. /\ extensions' = Append(extensions, row)
          /\ UNCHANGED <<leaves, claims, award>>
      BY <1>4 DEF InsertExtension
    <2>2. /\ DOMAIN extensions' = DOMAIN extensions \cup {n}
          /\ \A e \in DOMAIN extensions : extensions'[e] = extensions[e]
          /\ extensions'[n] = row
          /\ n \notin DOMAIN extensions
      BY <2>1 DEF TypeOK
    <2>3. Asked' = Asked \cup {<<"extension", n, NextRequest>>}
      BY <2>1, <2>2 DEF Asked
    <2>4. StatusesAgree'
      BY <1>2, <1>3, <2>1, <2>2 DEF StatusesAgree
    <2> QED
      BY <1>2, <2>3, <2>4, RowAdded
  <1>5. CASE InsertLeave(w)
    <2> DEFINE row == [type |-> request[w].type, year |-> request[w].year, days |-> request[w].days,
                       approved |-> FALSE, approval |-> NextRequest]
               n == Len(leaves) + 1
    <2>1. /\ leaves' = Append(leaves, row)
          /\ UNCHANGED <<extensions, claims, award>>
      BY <1>5 DEF InsertLeave
    <2>2. /\ DOMAIN leaves' = DOMAIN leaves \cup {n}
          /\ \A e \in DOMAIN leaves : leaves'[e] = leaves[e]
          /\ leaves'[n] = row
          /\ n \notin DOMAIN leaves
      BY <2>1 DEF TypeOK
    <2>3. Asked' = Asked \cup {<<"leave", n, NextRequest>>}
      BY <2>1, <2>2 DEF Asked
    <2>4. StatusesAgree'
      BY <1>2, <1>3, <2>1, <2>2 DEF StatusesAgree
    <2> QED
      BY <1>2, <2>3, <2>4, RowAdded
  <1>6. CASE InsertClaim(w)
    <2> DEFINE row == [month |-> request[w].month, amount |-> request[w].amount, granted |-> 0,
                       state |-> "PENDING", approval |-> NextRequest]
               n == Len(claims) + 1
    <2>1. /\ claims' = Append(claims, row)
          /\ UNCHANGED <<extensions, leaves, award>>
      BY <1>6 DEF InsertClaim
    <2>2. /\ DOMAIN claims' = DOMAIN claims \cup {n}
          /\ \A e \in DOMAIN claims : claims'[e] = claims[e]
          /\ claims'[n] = row
          /\ n \notin DOMAIN claims
      BY <2>1 DEF TypeOK
    <2>3. Asked' = Asked \cup {<<"claim", n, NextRequest>>}
      BY <2>1, <2>2 DEF Asked
    <2>4. StatusesAgree'
      BY <1>2, <1>3, <2>1, <2>2 DEF StatusesAgree
    <2> QED
      BY <1>2, <2>3, <2>4, RowAdded
  <1>7. CASE InsertAward(w)
    <2>1. /\ award = {}
          /\ award' = {[approval |-> NextRequest, approved |-> FALSE]}
          /\ UNCHANGED <<extensions, leaves, claims>>
      BY <1>7 DEF InsertAward
    <2>2. Asked' = Asked \cup {<<"award", 1, NextRequest>>}
      BY <2>1 DEF Asked
    <2>3. StatusesAgree'
      BY <1>2, <1>3, <2>1 DEF StatusesAgree
    <2> QED
      BY <1>2, <2>2, <2>3, RowAdded
  <1> QED
    BY <1>4, <1>5, <1>6, <1>7

LEMMA AgreeDecide ==
    ASSUME AgreeInv, NEW i \in DOMAIN requests, NEW approved \in BOOLEAN, Decide(i, approved)
    PROVE  StatusesAgree' /\ Referred' /\ OneRow'
  <1> DEFINE q == Decided(requests[i], approved)
  <1>1. /\ requests[i].status = "PENDING"
        /\ q \in ApprovalRequest
        /\ requests' = [requests EXCEPT ![i] = q]
        /\ extensions' = CloseExtension(q, i)
        /\ leaves' = CloseLeave(q, i)
        /\ claims' = CloseClaim(q, i)
        /\ award' = CloseAward(q, i)
    BY RequestDecided DEF AgreeInv, Decide
  <1> HIDE DEF q
  <1>2. q.status \in {"PENDING", "APPROVED", "REJECTED"}
    BY <1>1 DEF ApprovalRequest
  <1>3. /\ DOMAIN requests' = DOMAIN requests
        /\ requests'[i] = q
        /\ \A j \in DOMAIN requests : j # i => requests'[j] = requests[j]
    BY <1>1
  <1>4. /\ DOMAIN extensions' = DOMAIN extensions
        /\ \A e \in DOMAIN extensions :
              /\ extensions[e].approval \in DOMAIN requests
              /\ extensions'[e].approval = extensions[e].approval
              /\ extensions'[e].status = IF extensions[e].approval # i THEN extensions[e].status
                                         ELSE CASE q.status = "APPROVED" -> "GRANTED"
                                                [] q.status = "REJECTED" -> "REFUSED"
                                                [] OTHER -> extensions[e].status
    BY <1>1, ExtensionClosed, ReferredRows DEF AgreeInv, TypeOK
  <1>5. /\ DOMAIN leaves' = DOMAIN leaves
        /\ \A l \in DOMAIN leaves :
              /\ leaves[l].approval \in DOMAIN requests
              /\ leaves'[l].approval = leaves[l].approval
              /\ leaves[l].approval # i \/ q.status = "PENDING" => leaves'[l] = leaves[l]
              /\ leaves[l].approval = i /\ q.status # "PENDING" => (leaves'[l].approved <=> q.status = "APPROVED")
    BY <1>1, LeaveClosed, ReferredRows DEF AgreeInv, TypeOK
  <1>6. /\ DOMAIN claims' = DOMAIN claims
        /\ \A c \in DOMAIN claims :
              /\ claims[c].approval \in DOMAIN requests
              /\ claims'[c].approval = claims[c].approval
              /\ claims'[c].state = IF claims[c].approval = i /\ q.status \in {"APPROVED", "REJECTED"}
                                    THEN q.status ELSE claims[c].state
    BY <1>1, ClaimClosed, ReferredRows DEF AgreeInv, TypeOK
  <1>7. /\ {a.approval : a \in award'} = {a.approval : a \in award}
        /\ \A b \in award' : \E a \in award :
              /\ a.approval \in DOMAIN requests
              /\ b.approval = a.approval
              /\ a.approval # i \/ q.status # "APPROVED" => b = a
              /\ a.approval = i /\ q.status = "APPROVED" => b.approved
    <2>1. \A a \in award : a.approval \in DOMAIN requests
      BY ReferredRows DEF AgreeInv
    <2>2. award \in SUBSET Award
      BY DEF AgreeInv, TypeOK
    <2>3. /\ {a.approval : a \in award'} = {a.approval : a \in award}
          /\ \A b \in award' : \E a \in award :
                /\ b.approval = a.approval
                /\ a.approval # i \/ q.status # "APPROVED" => b = a
                /\ a.approval = i /\ q.status = "APPROVED" => b.approved
      <3>1. award' = CloseAward(q, i)
        BY <1>1
      <3> QED
        BY <2>2, <3>1, AwardClosed, Zenon
    <2> QED
      BY <2>1, <2>3
  <1>8. Asked' = Asked
    <2>1. {<<"award", 1, a.approval>> : a \in award'} = {<<"award", 1, n>> : n \in {a.approval : a \in award'}}
      OBVIOUS
    <2>2. {<<"award", 1, a.approval>> : a \in award} = {<<"award", 1, n>> : n \in {a.approval : a \in award}}
      OBVIOUS
    <2>3. {<<"award", 1, a.approval>> : a \in award'} = {<<"award", 1, a.approval>> : a \in award}
      BY <1>7, <2>1, <2>2
    <2> QED
      BY <1>4, <1>5, <1>6, <2>3 DEF Asked
  <1>9. Referred' /\ OneRow'
    BY <1>3, <1>8, RowsKept
  <1>10. \A e \in DOMAIN extensions' :
            /\ extensions'[e].status = "GRANTED" <=> requests'[extensions'[e].approval].status = "APPROVED"
            /\ extensions'[e].status = "REFUSED" <=> requests'[extensions'[e].approval].status = "REJECTED"
    BY <1>1, <1>2, <1>3, <1>4 DEF AgreeInv, StatusesAgree
  <1>11. \A l \in DOMAIN leaves' :
            leaves'[l].approved <=> requests'[leaves'[l].approval].status = "APPROVED"
    BY <1>1, <1>2, <1>3, <1>5 DEF AgreeInv, StatusesAgree
  <1>12. \A c \in DOMAIN claims' : claims'[c].state = requests'[claims'[c].approval].status
    BY <1>1, <1>2, <1>3, <1>6 DEF AgreeInv, StatusesAgree
  <1>13. \A a \in award' : a.approved <=> requests'[a.approval].status = "APPROVED"
    BY <1>1, <1>2, <1>3, <1>7 DEF AgreeInv, StatusesAgree
  <1> QED
    BY <1>9, <1>10, <1>11, <1>12, <1>13 DEF StatusesAgree

LEMMA AgreeUntouched ==
    ASSUME AgreeInv, requests' = requests, UNCHANGED domain
    PROVE  StatusesAgree' /\ Referred' /\ OneRow'
  BY DEF AgreeInv, domain, StatusesAgree, Referred, OneRow, Asked

LEMMA AgreeNext == AgreeInv /\ [Next]_vars => AgreeInv'
  <1> SUFFICES ASSUME AgreeInv, [Next]_vars
               PROVE  StatusesAgree' /\ Referred' /\ OneRow'
    BY NextTyped DEF AgreeInv
  <1>1. ASSUME NEW w \in Workers, Apply(w)
        PROVE  StatusesAgree' /\ Referred' /\ OneRow'
    <2>1. CASE InsertExtension(w) \/ InsertLeave(w) \/ InsertClaim(w) \/ InsertAward(w)
      BY <2>1, AgreeInsert
    <2>2. CASE ~(InsertExtension(w) \/ InsertLeave(w) \/ InsertClaim(w) \/ InsertAward(w))
      <3>1. requests' = requests /\ UNCHANGED domain
        BY <1>1, <2>2
           DEF Apply, RequestExtension, ApplyForLeave, SubmitGrantClaim, StartDegreeAward, Begin, Drop
      <3> QED
        BY <3>1, AgreeUntouched
    <2> QED
      BY <2>1, <2>2
  <1>2. ASSUME NEW i \in DOMAIN requests, NEW approved \in BOOLEAN, Decide(i, approved)
        PROVE  StatusesAgree' /\ Referred' /\ OneRow'
    BY <1>2, AgreeDecide
  <1>3. ASSUME NEW c \in DOMAIN claims, NEW amount \in Amounts \cup {0}, EditAmountApproved(c, amount)
        PROVE  StatusesAgree' /\ Referred' /\ OneRow'
    <2>1. /\ DOMAIN claims' = DOMAIN claims
          /\ \A d \in DOMAIN claims : /\ claims'[d].approval = claims[d].approval
                                      /\ claims'[d].state = claims[d].state
          /\ UNCHANGED <<requests, extensions, leaves, award>>
      <3>1. \A d \in DOMAIN claims : claims[d] \in Claim
        BY DEF AgreeInv, TypeOK
      <3> QED
        BY <1>3, <3>1 DEF EditAmountApproved, Claim
    <2>2. Asked' = Asked
      BY <2>1 DEF Asked
    <2>3. StatusesAgree'
      BY <2>1 DEF AgreeInv, StatusesAgree
    <2> QED
      BY <2>1, <2>2, <2>3, RowsKept
  <1>4. CASE EditChains /\ UNCHANGED <<domain, request, overlapped, raised>>
    BY <1>4, AgreeUntouched DEF EditChains, AddStep, RemoveStep
  <1>5. CASE UNCHANGED vars
    BY <1>5, AgreeUntouched DEF vars
  <1> QED
    BY <1>1, <1>2, <1>3, <1>4, <1>5 DEF Next

LEMMA AgreeInit == Init => AgreeInv
  <1> SUFFICES ASSUME Init
               PROVE  StatusesAgree /\ Referred /\ OneRow
    BY InitTyped DEF AgreeInv
  <1>1. Asked = {} /\ DOMAIN requests = {}
    BY DEF Init, ChainsInit, Asked
  <1> QED
    BY <1>1 DEF Init, ChainsInit, StatusesAgree, Referred, OneRow

\* What was asked for is granted exactly when its request was approved and refused exactly when it was
\* rejected, and every request is for one row, however applications, decisions and edits of the chains
\* interleave.
THEOREM RecordsStayAgreed == Spec => []RecordsAgree
  <1>1. AgreeInv => RecordsAgree
    <2> SUFFICES ASSUME AgreeInv, NEW i \in DOMAIN requests
                 PROVE  Cardinality({r \in Asked : r[3] = i}) = 1
      BY DEF AgreeInv, RecordsAgree
    <2>1. PICK r : {s \in Asked : s[3] = i} = {r}
      BY DEF AgreeInv, OneRow
    <2> QED
      BY <2>1, FS_Singleton
  <1> QED
    BY <1>1, AgreeInit, AgreeNext, PTL DEF Spec

-----------------------------------------------------------------------------
(* Requests: once *)

\* The award, of which there is one, belongs to every request for the degree.
AwardOnce ==
    /\ \A a, b \in award : a = b
    /\ \A i \in DOMAIN requests : requests[i].code = "DEGREE_AWARD" => i \in {a.approval : a \in award}

OnceInv == TypeOK /\ ExtensionsAdmissible(extensions) /\ AwardOnce

LEMMA OnceInsert ==
    ASSUME OnceInv, NEW w \in Workers,
           InsertExtension(w) \/ InsertLeave(w) \/ InsertClaim(w) \/ InsertAward(w)
    PROVE  ExtensionsAdmissible(extensions)' /\ AwardOnce'
  <1> USE DEF OnceInv
  <1>1. ASSUME NEW code \in Codes, StartApproval(code), award' = award, code # "DEGREE_AWARD"
        PROVE  AwardOnce'
    BY <1>1, RequestStarted DEF AwardOnce
  <1>2. CASE InsertExtension(w)
    <2> DEFINE row == [kind |-> request[w].kind, status |-> "REQUESTED", approval |-> NextRequest]
    <2>1. extensions' = Append(extensions, row) /\ UNCHANGED award
      BY <1>2 DEF InsertExtension
    <2>2. ExtensionsAdmissible(extensions)'
      BY <2>1 DEF ExtensionsAdmissible, TypeOK
    <2>3. request[w].kind \in Codes \ {"DEGREE_AWARD"}
      BY <1>2, ApplicationFields, ScholarRequestsAssumption DEF InsertExtension
    <2> QED
      BY <1>1, <1>2, <2>1, <2>2, <2>3 DEF InsertExtension
  <1>3. CASE InsertLeave(w)
    <2>1. LeaveCode[request[w].type] \in Codes \ {"DEGREE_AWARD"}
      BY <1>3, ApplicationFields, ScholarRequestsAssumption DEF InsertLeave, LeaveCode
    <2> QED
      BY <1>1, <1>3, <2>1 DEF InsertLeave
  <1>4. CASE InsertClaim(w)
    BY <1>1, <1>4, ScholarRequestsAssumption DEF InsertClaim
  <1>5. CASE InsertAward(w)
    <2>1. StartApproval("DEGREE_AWARD") /\ "DEGREE_AWARD" \in Codes
      BY <1>5, ScholarRequestsAssumption DEF InsertAward
    <2>2. /\ award = {}
          /\ award' = {[approval |-> NextRequest, approved |-> FALSE]}
          /\ UNCHANGED extensions
      BY <1>5 DEF InsertAward
    <2>3. AwardOnce'
      <3>1. /\ DOMAIN requests' = DOMAIN requests \cup {NextRequest}
            /\ \A i \in DOMAIN requests : requests'[i] = requests[i]
        BY <2>1, RequestStarted
      <3> QED
        BY <2>2, <3>1 DEF AwardOnce
    <2> QED
      BY <2>2, <2>3
  <1> QED
    BY <1>2, <1>3, <1>4, <1>5

LEMMA OnceNext == OnceInv /\ [Next]_vars => OnceInv'
  <1> SUFFICES ASSUME OnceInv, [Next]_vars
               PROVE  ExtensionsAdmissible(extensions)' /\ AwardOnce'
    BY NextTyped DEF OnceInv
  <1>1. ASSUME requests' = requests, award' = award, extensions' = extensions
        PROVE  ExtensionsAdmissible(extensions)' /\ AwardOnce'
    BY <1>1 DEF OnceInv, AwardOnce
  <1>2. ASSUME NEW w \in Workers, Apply(w)
        PROVE  ExtensionsAdmissible(extensions)' /\ AwardOnce'
    <2>1. CASE InsertExtension(w) \/ InsertLeave(w) \/ InsertClaim(w) \/ InsertAward(w)
      BY <2>1, OnceInsert
    <2>2. CASE ~(InsertExtension(w) \/ InsertLeave(w) \/ InsertClaim(w) \/ InsertAward(w))
      <3>1. requests' = requests /\ UNCHANGED domain
        BY <1>2, <2>2
           DEF Apply, RequestExtension, ApplyForLeave, SubmitGrantClaim, StartDegreeAward, Begin, Drop
      <3> QED
        BY <1>1, <3>1 DEF domain
    <2> QED
      BY <2>1, <2>2
  <1>3. ASSUME NEW i \in DOMAIN requests, NEW approved \in BOOLEAN, Decide(i, approved)
        PROVE  ExtensionsAdmissible(extensions)' /\ AwardOnce'
    <2> DEFINE q == Decided(requests[i], approved)
    <2>1. /\ q.code = requests[i].code
          /\ requests' = [requests EXCEPT ![i] = q]
      BY <1>3, RequestDecided DEF OnceInv
    <2>2. /\ award' = CloseAward(q, i)
          /\ ExtensionsAdmissible(extensions)'
      BY <1>3 DEF Decide
    <2> HIDE DEF q
    <2>3. award \in SUBSET Award
      BY DEF OnceInv, TypeOK
    <2>4. /\ {a.approval : a \in CloseAward(q, i)} = {a.approval : a \in award}
          /\ (\A a, b \in award : a = b) => \A a, b \in CloseAward(q, i) : a = b
      BY <2>3, AwardClosed
    <2>5. DOMAIN requests' = DOMAIN requests /\ \A j \in DOMAIN requests : requests'[j].code = requests[j].code
      BY <2>1
    <2> QED
      BY <2>2, <2>4, <2>5 DEF OnceInv, AwardOnce
  <1>4. ASSUME NEW c \in DOMAIN claims, NEW amount \in Amounts \cup {0}, EditAmountApproved(c, amount)
        PROVE  ExtensionsAdmissible(extensions)' /\ AwardOnce'
    BY <1>1, <1>4 DEF EditAmountApproved
  <1>5. CASE EditChains /\ UNCHANGED <<domain, request, overlapped, raised>>
    BY <1>1, <1>5 DEF EditChains, AddStep, RemoveStep, domain
  <1>6. CASE UNCHANGED vars
    BY <1>1, <1>6 DEF vars, domain
  <1> QED
    BY <1>2, <1>3, <1>4, <1>5, <1>6 DEF Next

\* Each extension is granted at most once, and the degree is asked for in one request, although several
\* requests for an extension are pending together and the award is started again and again.
THEOREM TakenAtMostOnce == Spec => []TakenOnce
  <1>1. Init => OnceInv
    BY InitTyped DEF Init, ChainsInit, OnceInv, ExtensionsAdmissible, AwardOnce
  <1>2. OnceInv => TakenOnce
    <2> SUFFICES ASSUME OnceInv
                 PROVE  Cardinality({i \in DOMAIN requests : requests[i].code = "DEGREE_AWARD"}) <= 1
      BY DEF OnceInv, TakenOnce
    <2> DEFINE degrees == {i \in DOMAIN requests : requests[i].code = "DEGREE_AWARD"}
    <2>1. degrees = {} \/ \E i : degrees = {i}
      BY DEF OnceInv, AwardOnce
    <2> HIDE DEF degrees
    <2>2. Cardinality(degrees) <= 1
      <3>1. Cardinality({}) = 0 /\ \A i : Cardinality({i}) = 1
        BY FS_EmptySet, FS_Singleton
      <3> QED
        BY <2>1, <3>1
    <2> QED
      BY <2>2 DEF degrees
  <1> QED
    BY <1>1, <1>2, OnceNext, PTL DEF Spec

-----------------------------------------------------------------------------
(* Requests: the decisions, and the events of the grants *)

\* Where nobody edits the chain, whatever was granted was signed at every step of it.
THEOREM GrantedWhenSigned == Spec => []SignedThroughout
  <1>1. Init => RequestsInv
    BY ChainsAssumption, ChainsInitSound DEF Init
  <1>2. TypeOK /\ RequestsInv /\ [Next]_vars => RequestsInv'
    BY ChainsAssumption, NextIsRequestStep, RequestsKept
  <1>3. RequestsInv => SignedThroughout
    BY SoFarThroughout DEF RequestsInv
  <1> QED
    BY <1>1, <1>2, <1>3, ScholarTypeCorrect, PTL DEF Spec

\* As long as applications come one at a time, the one in flight for a grant still is apart from the others.
ApartInv ==
    ~overlapped =>
        /\ ClaimsApart
        /\ \A v, w \in Workers : request[v] # Idle /\ request[w] # Idle => v = w
        /\ \A w \in Workers, i \in DOMAIN claims :
              request[w].op = "claim" /\ claims[i].state # "REJECTED" => ~TooClose(request[w].month, claims[i].month)

LEMMA TooCloseEitherWay ==
    ASSUME NEW m \in Nat, NEW n \in Nat
    PROVE  TooClose(m, n) <=> TooClose(n, m)
  BY ScholarRequestsAssumption DEF TooClose

\* Where no claim is added or comes back, and nobody but those in flight before is in flight, nothing is lost.
LEMMA ApartKept ==
    ASSUME ApartInv, ~overlapped' => ~overlapped,
           DOMAIN claims' = DOMAIN claims,
           \A i \in DOMAIN claims : /\ claims'[i].month = claims[i].month
                                    /\ claims'[i].state # "REJECTED" => claims[i].state # "REJECTED",
           \A w \in Workers : request'[w] = request[w] \/ request'[w] = Idle
    PROVE  ApartInv'
  <1> SUFFICES ASSUME ~overlapped, ~overlapped'
               PROVE  ApartInv'
    BY DEF ApartInv
  <1>1. ClaimsApart'
    BY DEF ApartInv, ClaimsApart, TooClose
  <1>2. \A v, w \in Workers : request'[v] # Idle /\ request'[w] # Idle => v = w
    BY DEF ApartInv
  <1>3. \A w \in Workers, i \in DOMAIN claims' :
            request'[w].op = "claim" /\ claims'[i].state # "REJECTED"
            => ~TooClose(request'[w].month, claims'[i].month)
    BY DEF ApartInv, Idle
  <1> QED
    BY <1>1, <1>2, <1>3 DEF ApartInv, TooClose

LEMMA ApartBegin ==
    ASSUME TypeOK, ApartInv, NEW w \in Workers, NEW r, Begin(w, r), r # Idle,
           r.op = "claim" => \A i \in DOMAIN claims : claims[i].state # "REJECTED" =>
                                                          ~TooClose(r.month, claims[i].month)
    PROVE  ApartInv'
  <1> SUFFICES ASSUME ~overlapped'
               PROVE  ApartInv'
    BY DEF ApartInv
  <1>1. /\ ~overlapped
        /\ \A v \in Workers : request[v] = Idle
        /\ claims' = claims
        /\ request' = [request EXCEPT ![w] = r]
    BY DEF Begin, domain
  <1>2. ClaimsApart'
    BY <1>1 DEF ApartInv, ClaimsApart, TooClose
  <1>3. request'[w] = r /\ \A v \in Workers : v # w => request'[v] = Idle
    BY <1>1 DEF TypeOK
  <1>4. \A v \in Workers, i \in DOMAIN claims' :
            request'[v].op = "claim" /\ claims'[i].state # "REJECTED"
            => ~TooClose(request'[v].month, claims'[i].month)
    BY <1>1, <1>3 DEF Idle
  <1> QED
    BY <1>2, <1>3, <1>4 DEF ApartInv, TooClose

LEMMA ApartInsert ==
    ASSUME TypeOK, ApartInv, NEW w \in Workers, InsertClaim(w)
    PROVE  ApartInv'
  <1> SUFFICES ASSUME ~overlapped
               PROVE  ApartInv'
    BY DEF InsertClaim, Finish, ApartInv
  <1> DEFINE month == request[w].month
             n == Len(claims) + 1
  <1>1. /\ request[w].op = "claim"
        /\ claims' = Append(claims, [month |-> month, amount |-> request[w].amount, granted |-> 0,
                                     state |-> "PENDING", approval |-> NextRequest])
        /\ request' = [request EXCEPT ![w] = Idle]
    BY DEF InsertClaim, Finish
  <1>2. month \in Nat /\ \A i \in DOMAIN claims : claims[i].month \in Nat
    <2>1. \A i \in DOMAIN claims : claims[i] \in Claim
      BY DEF TypeOK
    <2> QED
      BY <1>1, <2>1, ApplicationFields, ScholarRequestsAssumption DEF Claim
  <1>3. /\ DOMAIN claims' = DOMAIN claims \cup {n}
        /\ claims'[n].month = month
        /\ \A i \in DOMAIN claims : claims'[i] = claims[i]
    BY <1>1 DEF TypeOK
  <1>4. \A i \in DOMAIN claims : claims[i].state # "REJECTED" =>
            ~TooClose(month, claims[i].month) /\ ~TooClose(claims[i].month, month)
    BY <1>1, <1>2, TooCloseEitherWay DEF ApartInv
  <1> HIDE DEF month
  <1>5. ClaimsApart'
    <2> SUFFICES ASSUME NEW i \in DOMAIN claims', NEW j \in DOMAIN claims', i # j,
                        claims'[i].state # "REJECTED", claims'[j].state # "REJECTED"
                 PROVE  ~TooClose(claims'[i].month, claims'[j].month)
      BY DEF ClaimsApart, TooClose
    <2>1. CASE i \in DOMAIN claims /\ j \in DOMAIN claims
      BY <1>3, <2>1 DEF ApartInv, ClaimsApart
    <2>2. CASE i = n \/ j = n
      BY <1>3, <1>4, <2>2
    <2> QED
      BY <1>3, <2>1, <2>2
  <1>6. \A v \in Workers : request'[v] = Idle
    BY <1>1 DEF TypeOK, ApartInv, Idle
  <1> QED
    BY <1>5, <1>6 DEF ApartInv, Idle

LEMMA ApartNext == AgreeInv /\ ApartInv /\ [Next]_vars => ApartInv'
  <1> SUFFICES ASSUME AgreeInv, ApartInv, [Next]_vars
               PROVE  ApartInv'
    OBVIOUS
  <1> USE DEF AgreeInv
  <1>1. ASSUME NEW w \in Workers, Apply(w)
        PROVE  ApartInv'
    <2>1. CASE InsertClaim(w)
      BY <2>1, ApartInsert
    <2>2. ASSUME NEW month \in Months, NEW amount \in Amounts, SubmitGrantClaim(w, month, amount)
          PROVE  ApartInv'
      <3> DEFINE r == [op |-> "claim", month |-> month, amount |-> amount]
      <3>1. /\ Begin(w, r)
            /\ \A i \in DOMAIN claims : claims[i].state # "REJECTED" => ~TooClose(month, claims[i].month)
        BY <2>2 DEF SubmitGrantClaim, MayClaim
      <3>2. r # Idle /\ r.month = month
        BY DEF Idle
      <3> HIDE DEF r
      <3> QED
        BY <3>1, <3>2, ApartBegin
    <2>3. ASSUME NEW r, Begin(w, r), r.op \in {"extension", "leave", "award"}
          PROVE  ApartInv'
      <3>1. r # Idle
        BY <2>3 DEF Idle
      <3> QED
        BY <2>3, <3>1, ApartBegin
    <2>4. CASE \/ \E kind \in ExtensionKinds : RequestExtension(w, kind)
               \/ \E type \in LeaveTypes, year \in Years, days \in Days : ApplyForLeave(w, type, year, days)
               \/ StartDegreeAward(w)
      BY <2>3, <2>4 DEF RequestExtension, ApplyForLeave, StartDegreeAward
    <2>5. CASE InsertExtension(w) \/ InsertLeave(w) \/ InsertAward(w) \/ Drop(w)
      <3>1. claims' = claims /\ Finish(w)
        BY <2>5 DEF InsertExtension, InsertLeave, InsertAward, Drop, domain
      <3>2. /\ \A v \in Workers : request'[v] = request[v] \/ request'[v] = Idle
            /\ ~overlapped' => ~overlapped
        BY <3>1 DEF Finish, TypeOK
      <3> QED
        BY <3>1, <3>2, ApartKept
    <2> QED
      BY <1>1, <2>1, <2>2, <2>4, <2>5 DEF Apply
  <1>2. ASSUME NEW i \in DOMAIN requests, NEW approved \in BOOLEAN, Decide(i, approved)
        PROVE  ApartInv'
    <2> DEFINE q == Decided(requests[i], approved)
    <2>1. claims' = CloseClaim(q, i) /\ UNCHANGED <<request, overlapped>>
      BY <1>2 DEF Decide
    <2>2. requests[i].status = "PENDING"
      BY <1>2, RequestDecided
    <2> HIDE DEF q
    <2>3. \A c \in DOMAIN claims : claims[c].state = "REJECTED" => claims[c].approval # i
      BY <2>2 DEF StatusesAgree
    <2>4. /\ DOMAIN claims' = DOMAIN claims
          /\ \A c \in DOMAIN claims : /\ claims'[c].month = claims[c].month
                                      /\ claims'[c].state # "REJECTED" => claims[c].state # "REJECTED"
      BY <2>1, <2>3, ClaimClosed DEF TypeOK
    <2> QED
      BY <2>1, <2>4, ApartKept
  <1>3. ASSUME NEW c \in DOMAIN claims, NEW amount \in Amounts \cup {0}, EditAmountApproved(c, amount)
        PROVE  ApartInv'
    <2>1. \A d \in DOMAIN claims : claims[d] \in Claim
      BY DEF TypeOK
    <2>2. /\ DOMAIN claims' = DOMAIN claims
          /\ \A d \in DOMAIN claims : claims'[d].month = claims[d].month /\ claims'[d].state = claims[d].state
      BY <1>3, <2>1 DEF EditAmountApproved, Claim
    <2> QED
      BY <1>3, <2>2, ApartKept DEF EditAmountApproved
  <1>4. CASE (EditChains /\ UNCHANGED <<domain, request, overlapped, raised>>) \/ UNCHANGED vars
    BY <1>4, ApartKept DEF domain, vars
  <1> QED
    BY <1>1, <1>2, <1>3, <1>4 DEF Next

\* As long as a scholar's applications come one at a time, the events of the grants that are not rejected
\* are as far apart as they must be, whatever is decided about them in the meantime.
THEOREM GrantsStayApart == Spec => [](~overlapped => ClaimsApart)
  <1>1. Init => ApartInv
    BY DEF Init, ApartInv, ClaimsApart, Idle
  <1>2. ApartInv => (~overlapped => ClaimsApart)
    BY DEF ApartInv
  <1> QED
    BY <1>1, <1>2, AgreeInit, AgreeNext, ApartNext, PTL DEF Spec

-----------------------------------------------------------------------------
(* Requests: sums *)

SumOf(f, S) == MapThenSumSet(LAMBDA i : f[i], S)

\* The recursion that sums up, for the functions it may have as its value
SumStep(f, S, g) ==
    [s \in SUBSET S |-> IF s = {} THEN 0 ELSE LET x == CHOOSE x \in s : TRUE IN f[x] + g[s \ {x}]]

SumsUp(f, S, g) == g = SumStep(f, S, g)

\* What a sum chooses is in the set, which is smaller without it.
LEMMA Taken ==
    ASSUME NEW s, IsFiniteSet(s), NEW x \in s
    PROVE  /\ IsFiniteSet(s \ {x})
           /\ Cardinality(s) \in Nat /\ Cardinality(s \ {x}) \in Nat
           /\ Cardinality(s) = Cardinality(s \ {x}) + 1
  <1>1. IsFiniteSet(s \ {x}) /\ Cardinality(s \ {x}) = Cardinality(s) - 1
    BY FS_RemoveElement
  <1>2. Cardinality(s) \in Nat /\ Cardinality(s \ {x}) \in Nat
    BY <1>1, FS_CardinalityType
  <1> QED
    BY <1>1, <1>2

\* The recursion has a value: it is built for one cardinality after the other.
LEMMA SumExists ==
    ASSUME NEW f, NEW S, IsFiniteSet(S)
    PROVE  \E g : SumsUp(f, S, g)
  <1> DEFINE Small(n) == {s \in SUBSET S : Cardinality(s) <= n}
             Upto(n) == \E g : \A s \in Small(n) :
                            g[s] = IF s = {} THEN 0
                                   ELSE LET x == CHOOSE x \in s : TRUE IN f[x] + g[s \ {x}]
             Missing == {n \in Nat : ~Upto(n)}
  <1>1. \A s \in SUBSET S : IsFiniteSet(s) /\ Cardinality(s) \in Nat
    BY FS_Subset, FS_CardinalityType
  <1>2. Upto(0)
    <2> DEFINE g == [s \in SUBSET S |-> 0]
    <2>1. ASSUME NEW s \in Small(0) PROVE s = {}
      <3>1. Cardinality(s) = 0
        BY <1>1, <2>1
      <3> QED
        BY <1>1, <3>1, FS_EmptySet
    <2>2. \A s \in Small(0) : g[s] = IF s = {} THEN 0
                                   ELSE LET x == CHOOSE x \in s : TRUE IN f[x] + g[s \ {x}]
      BY <2>1
    <2> QED
      BY <2>2
  <1>3. ASSUME NEW n \in Nat, Upto(n) PROVE Upto(n + 1)
    <2>1. PICK g : \A s \in Small(n) :
                      g[s] = IF s = {} THEN 0
                             ELSE LET x == CHOOSE x \in s : TRUE IN f[x] + g[s \ {x}]
      BY <1>3
    <2> DEFINE Body(s) == IF s = {} THEN 0
                          ELSE LET x == CHOOSE x \in s : TRUE IN f[x] + g[s \ {x}]
               h == [s \in SUBSET S |-> Body(s)]
    <2>2. ASSUME NEW s \in Small(n) PROVE h[s] = g[s]
      BY <2>1, <2>2
    <2>3. ASSUME NEW s \in Small(n + 1), s # {}
          PROVE  s \ {CHOOSE x \in s : TRUE} \in Small(n)
      <3> DEFINE x == CHOOSE x \in s : TRUE
      <3>1. x \in s
        BY <2>3
      <3> HIDE DEF x
      <3>2. IsFiniteSet(s) /\ Cardinality(s) <= n + 1
        BY <1>1
      <3>3. Cardinality(s) \in Nat /\ Cardinality(s \ {x}) \in Nat /\ Cardinality(s) = Cardinality(s \ {x}) + 1
        BY <3>1, <3>2, Taken
      <3>4. Cardinality(s \ {x}) <= n
        BY <3>2, <3>3
      <3>5. s \ {x} \in Small(n)
        BY <3>4
      <3> QED
        BY <3>5 DEF x
    <2>4. ASSUME NEW s \in Small(n + 1)
          PROVE  h[s] = IF s = {} THEN 0
                        ELSE LET x == CHOOSE x \in s : TRUE IN f[x] + h[s \ {x}]
      <3>1. h[s] = Body(s)
        OBVIOUS
      <3>2. s # {} => h[s \ {CHOOSE x \in s : TRUE}] = g[s \ {CHOOSE x \in s : TRUE}]
        <4> HIDE DEF h
        <4> QED
          BY <2>2, <2>3
      <3> HIDE DEF h
      <3> QED
        BY <3>1, <3>2
    <2> HIDE DEF h
    <2> QED
      BY <2>4
  <1>4. Missing = {}
    <2> SUFFICES ASSUME Missing # {} PROVE FALSE
      OBVIOUS
    <2> HIDE DEF Upto
    <2>1. PICK m \in Missing : \A n \in Missing : m <= n
      <3>1. Missing \subseteq Nat
        OBVIOUS
      <3> HIDE DEF Missing
      <3> QED
        BY <3>1, LeastNatural
    <2>2. m \in Nat /\ ~Upto(m) /\ m # 0
      BY <1>2
    <2>3. m - 1 \in Nat /\ m - 1 \notin Missing
      <3>1. m - 1 \in Nat /\ ~(m <= m - 1)
        BY <2>2
      <3> HIDE DEF Missing
      <3> QED
        BY <2>1, <3>1
    <2>4. Upto(m - 1) => Upto((m - 1) + 1)
      BY <1>3, <2>3
    <2>5. (m - 1) + 1 = m
      BY <2>2
    <2> QED
      BY <2>2, <2>3, <2>4, <2>5
  <1>5. Upto(Cardinality(S))
    <2> HIDE DEF Upto
    <2> QED
      BY <1>4, FS_CardinalityType
  <1>6. Small(Cardinality(S)) = SUBSET S
    BY FS_Subset, FS_CardinalityType
  <1>7. PICK g : \A s \in SUBSET S :
                    g[s] = IF s = {} THEN 0
                           ELSE LET x == CHOOSE x \in s : TRUE IN f[x] + g[s \ {x}]
    <2> HIDE DEF Small
    <2> QED
      BY <1>5, <1>6
  <1> DEFINE h == [s \in SUBSET S |-> g[s]]
  <1>8. ASSUME NEW s \in SUBSET S, s # {}
        PROVE  s \ {CHOOSE x \in s : TRUE} \in SUBSET S
    OBVIOUS
  <1>9. SumsUp(f, S, h)
    BY <1>7 DEF SumsUp, SumStep
  <1> QED
    BY <1>9

\* The value of the recursion is the sum.
LEMMA SumIs ==
    ASSUME NEW f, NEW S, IsFiniteSet(S)
    PROVE  \E g : SumsUp(f, S, g) /\ SumOf(f, S) = g[S]
  <1> DEFINE Step(g) == SumStep(f, S, g)
             iter == CHOOSE g : g = Step(g)
  <1>1. SumOf(f, S) = iter[S]
    BY Zenon DEF SumOf, MapThenSumSet, MapThenFoldSet, SumStep
  <1>2. \E g : g = Step(g)
    BY SumExists DEF SumsUp
  <1>3. iter = Step(iter)
    <2> HIDE DEF Step
    <2> QED
      BY <1>2
  <1> QED
    BY <1>1, <1>3 DEF SumsUp

\* Whichever element is taken first.
LEMMA SumTakesAny ==
    ASSUME NEW f, NEW S, IsFiniteSet(S), \A i \in S : f[i] \in Int, NEW g, SumsUp(f, S, g)
    PROVE  \A s \in SUBSET S : /\ g[s] \in Int
                               /\ \A x \in s : g[s] = f[x] + g[s \ {x}]
  <1> DEFINE Good(s) == /\ g[s] \in Int
                        /\ \A x \in s : g[s] = f[x] + g[s \ {x}]
             Bad == {n \in Nat : \E s \in SUBSET S : Cardinality(s) = n /\ ~Good(s)}
  <1>1. \A s \in SUBSET S : IsFiniteSet(s) /\ Cardinality(s) \in Nat
    BY FS_Subset, FS_CardinalityType
  <1>2. SUFFICES ASSUME Bad # {} PROVE FALSE
    BY <1>1
  <1>3. PICK m \in Bad : \A n \in Bad : m <= n
    <2>1. Bad \subseteq Nat
      OBVIOUS
    <2> HIDE DEF Bad
    <2> QED
      BY <1>2, <2>1, LeastNatural
  <1>4. PICK s \in SUBSET S : Cardinality(s) = m /\ ~Good(s)
    OBVIOUS
  <1>5. ASSUME NEW t \in SUBSET S, Cardinality(t) < m PROVE Good(t)
    <2>1. Cardinality(t) \in Nat /\ Cardinality(t) \notin Bad
      <3>1. Cardinality(t) \in Nat /\ m \in Nat /\ ~(m <= Cardinality(t))
        BY <1>1, <1>5
      <3> HIDE DEF Bad
      <3> QED
        BY <1>3, <3>1
    <2> QED
      BY <2>1
  <1>6. ASSUME NEW t \in SUBSET S, NEW x \in t
        PROVE  /\ t \ {x} \in SUBSET S
               /\ Cardinality(t \ {x}) < Cardinality(t)
    <2>1. /\ Cardinality(t) \in Nat /\ Cardinality(t \ {x}) \in Nat
          /\ Cardinality(t) = Cardinality(t \ {x}) + 1
      BY <1>1, Taken
    <2> QED
      BY <2>1
  <1> DEFINE y == CHOOSE x \in s : TRUE
  <1>7. /\ s = {} => g[s] = 0
        /\ s # {} => g[s] = f[y] + g[s \ {y}]
    BY DEF SumsUp, SumStep
  <1>8. s # {}
    BY <1>4, <1>7
  <1>9. y \in s
    BY <1>8
  <1> HIDE DEF y, Good, Bad
  <1>10. Good(s \ {y})
    BY <1>4, <1>5, <1>6, <1>9
  <1>11. g[s] \in Int
    BY <1>7, <1>8, <1>9, <1>10 DEF Good
  <1>12. ASSUME NEW x \in s PROVE g[s] = f[x] + g[s \ {x}]
    <2>1. CASE x = y
      BY <1>7, <1>8, <2>1
    <2>2. CASE x # y
      <3>1. Good(s \ {x})
        BY <1>4, <1>5, <1>6
      <3>2. g[s \ {y}] = f[x] + g[(s \ {y}) \ {x}]
        BY <1>10, <2>2 DEF Good
      <3>3. g[s \ {x}] = f[y] + g[(s \ {x}) \ {y}]
        BY <1>9, <2>2, <3>1 DEF Good
      <3>4. (s \ {x}) \ {y} = (s \ {y}) \ {x}
        OBVIOUS
      <3>5. (s \ {y}) \ {x} \in SUBSET S /\ Good((s \ {y}) \ {x})
        <4>1. x \in s \ {y}
          BY <2>2
        <4>2. /\ s \ {y} \in SUBSET S /\ (s \ {y}) \ {x} \in SUBSET S
              /\ Cardinality((s \ {y}) \ {x}) < Cardinality(s \ {y})
              /\ Cardinality(s \ {y}) < Cardinality(s)
          BY <1>6, <1>9, <4>1
        <4>3. /\ Cardinality((s \ {y}) \ {x}) \in Nat /\ Cardinality(s \ {y}) \in Nat
              /\ Cardinality(s) \in Nat
          BY <1>1, <4>2
        <4>4. Cardinality((s \ {y}) \ {x}) < m
          BY <1>4, <4>2, <4>3
        <4> QED
          BY <1>5, <4>2, <4>4
      <3>6. g[(s \ {y}) \ {x}] \in Int /\ f[x] \in Int /\ f[y] \in Int
        BY <1>9, <3>5 DEF Good
      <3>7. PICK r \in Int : r = g[(s \ {y}) \ {x}]
        BY <3>6
      <3>8. g[s] = f[y] + (f[x] + r)
        BY <1>7, <1>8, <3>2, <3>7
      <3>9. g[s \ {x}] = f[y] + r
        BY <3>3, <3>4, <3>7
      <3>10. f[y] + (f[x] + r) = f[x] + (f[y] + r)
        BY <3>6, <3>7
      <3> QED
        BY <3>8, <3>9, <3>10
    <2> QED
      BY <2>1, <2>2
  <1> QED
    BY <1>4, <1>11, <1>12 DEF Good

\* Two recursions agree on the sets they both sum up.
LEMMA SumsAgree ==
    ASSUME NEW f, NEW g, NEW S, NEW T, NEW a, NEW b,
           IsFiniteSet(S), IsFiniteSet(T), SumsUp(f, S, a), SumsUp(g, T, b),
           \A i \in S \cap T : f[i] = g[i]
    PROVE  \A s \in SUBSET (S \cap T) : a[s] = b[s]
  <1> DEFINE Bad == {n \in Nat : \E s \in SUBSET (S \cap T) : Cardinality(s) = n /\ a[s] # b[s]}
  <1>1. \A s \in SUBSET (S \cap T) : IsFiniteSet(s) /\ Cardinality(s) \in Nat
    BY FS_Subset, FS_CardinalityType
  <1>2. SUFFICES ASSUME Bad # {} PROVE FALSE
    BY <1>1
  <1>3. PICK m \in Bad : \A n \in Bad : m <= n
    <2>1. Bad \subseteq Nat
      OBVIOUS
    <2> HIDE DEF Bad
    <2> QED
      BY <1>2, <2>1, LeastNatural
  <1>4. PICK s \in SUBSET (S \cap T) : Cardinality(s) = m /\ a[s] # b[s]
    OBVIOUS
  <1> DEFINE y == CHOOSE x \in s : TRUE
  <1>5. /\ s = {} => a[s] = 0 /\ b[s] = 0
        /\ s # {} => a[s] = f[y] + a[s \ {y}] /\ b[s] = g[y] + b[s \ {y}]
    BY DEF SumsUp, SumStep
  <1>6. s # {}
    BY <1>4, <1>5
  <1>7. y \in s
    BY <1>6
  <1> HIDE DEF y
  <1>8. a[s \ {y}] = b[s \ {y}]
    <2>1. /\ Cardinality(s) \in Nat /\ Cardinality(s \ {y}) \in Nat
          /\ Cardinality(s) = Cardinality(s \ {y}) + 1
      BY <1>1, <1>7, Taken
    <2>2. ~(m <= Cardinality(s \ {y}))
      BY <1>4, <2>1
    <2>3. Cardinality(s \ {y}) \notin Bad
      <3> HIDE DEF Bad
      <3> QED
        BY <1>3, <2>2
    <2> QED
      BY <2>1, <2>3
  <1> QED
    BY <1>4, <1>5, <1>6, <1>7, <1>8

\* What a sum is, apart from the recursion
LEMMA SumEmpty == ASSUME NEW f PROVE SumOf(f, {}) = 0
  <1>1. PICK g : SumsUp(f, {}, g) /\ SumOf(f, {}) = g[{}]
    BY SumIs, FS_EmptySet
  <1> QED
    BY <1>1 DEF SumsUp, SumStep

LEMMA SumType ==
    ASSUME NEW f, NEW S, IsFiniteSet(S), \A i \in S : f[i] \in Int
    PROVE  SumOf(f, S) \in Int
  BY SumIs, SumTakesAny

\* An element more adds its own value.
LEMMA SumAdds ==
    ASSUME NEW f, NEW S, IsFiniteSet(S), NEW x, x \notin S, \A i \in S \cup {x} : f[i] \in Int
    PROVE  SumOf(f, S \cup {x}) = SumOf(f, S) + f[x]
  <1> DEFINE T == S \cup {x}
  <1>1. IsFiniteSet(T)
    BY FS_AddElement
  <1>2. PICK a : SumsUp(f, S, a) /\ SumOf(f, S) = a[S]
    BY SumIs
  <1>3. PICK b : SumsUp(f, T, b) /\ SumOf(f, T) = b[T]
    BY <1>1, SumIs
  <1>4. a[S] = b[S]
    BY <1>1, <1>2, <1>3, SumsAgree
  <1>5. b[T] = f[x] + b[T \ {x}] /\ b[S] \in Int
    BY <1>1, <1>3, SumTakesAny
  <1>6. T \ {x} = S
    OBVIOUS
  <1> HIDE DEF T
  <1>7. f[x] \in Int
    OBVIOUS
  <1>8. f[x] + b[S] = b[S] + f[x]
    BY <1>5, <1>7
  <1> QED
    BY <1>2, <1>3, <1>4, <1>5, <1>6, <1>8 DEF T

\* A sum depends on the values of its elements alone.
LEMMA SumSame ==
    ASSUME NEW f, NEW g, NEW S, IsFiniteSet(S), \A i \in S : f[i] = g[i]
    PROVE  SumOf(f, S) = SumOf(g, S)
  <1>1. PICK a : SumsUp(f, S, a) /\ SumOf(f, S) = a[S]
    BY SumIs
  <1>2. PICK b : SumsUp(g, S, b) /\ SumOf(g, S) = b[S]
    BY SumIs
  <1> QED
    BY <1>1, <1>2, SumsAgree

\* Smaller values, over fewer elements, have a smaller sum.
LEMMA SumLess ==
    ASSUME NEW f, NEW g, NEW S, NEW T, IsFiniteSet(T), S \subseteq T,
           \A i \in T : f[i] \in Nat /\ g[i] \in Nat,
           \A i \in S : f[i] <= g[i]
    PROVE  SumOf(f, S) <= SumOf(g, T)
  <1> DEFINE Less(t) == SumOf(f, t \cap S) <= SumOf(g, t)
             Bad == {n \in Nat : \E t \in SUBSET T : Cardinality(t) = n /\ ~Less(t)}
  <1>1. \A t \in SUBSET T : /\ IsFiniteSet(t) /\ IsFiniteSet(t \cap S)
                            /\ Cardinality(t) \in Nat
                            /\ SumOf(f, t \cap S) \in Int /\ SumOf(g, t) \in Int
    <2> TAKE t \in SUBSET T
    <2>1. IsFiniteSet(t) /\ IsFiniteSet(t \cap S)
      BY FS_Subset
    <2>2. SumOf(f, t \cap S) \in Int
      BY <2>1, SumType
    <2>3. SumOf(g, t) \in Int
      BY <2>1, SumType
    <2> QED
      BY <2>1, <2>2, <2>3, FS_CardinalityType
  <1>2. SUFFICES Bad = {}
    <2>1. Cardinality(T) \notin Bad
      BY <1>2
    <2>2. Less(T)
      BY <1>1, <2>1
    <2>3. T \cap S = S
      OBVIOUS
    <2> QED
      BY <2>2, <2>3
  <1>3. SUFFICES ASSUME Bad # {} PROVE FALSE
    OBVIOUS
  <1>4. PICK m \in Bad : \A n \in Bad : m <= n
    <2>1. Bad \subseteq Nat
      OBVIOUS
    <2> HIDE DEF Bad
    <2> QED
      BY <1>3, <2>1, LeastNatural
  <1>5. PICK t \in SUBSET T : Cardinality(t) = m /\ ~Less(t)
    OBVIOUS
  <1>6. t # {}
    <2>1. SUFFICES ASSUME t = {} PROVE FALSE
      OBVIOUS
    <2>2. t \cap S = {} /\ SumOf(f, {}) = 0 /\ SumOf(g, {}) = 0
      BY <2>1, SumEmpty
    <2> QED
      BY <1>5, <2>1, <2>2
  <1>7. PICK x \in t : TRUE
    BY <1>6
  <1> DEFINE u == t \ {x}
  <1>8. u \in SUBSET T /\ t = u \cup {x} /\ x \notin u /\ f[x] \in Nat /\ g[x] \in Nat
    OBVIOUS
  <1>9. Less(u)
    <2>1. /\ Cardinality(t) \in Nat /\ Cardinality(u) \in Nat
          /\ Cardinality(t) = Cardinality(u) + 1
      BY <1>1, Taken
    <2>2. ~(m <= Cardinality(u))
      BY <1>5, <2>1
    <2>3. Cardinality(u) \notin Bad
      <3> HIDE DEF Bad, u
      <3> QED
        BY <1>4, <2>2
    <2> HIDE DEF u
    <2> QED
      BY <1>8, <2>1, <2>3
  <1> HIDE DEF u
  <1>10. SumOf(g, t) = SumOf(g, u) + g[x]
    <2>1. IsFiniteSet(u)
      BY <1>1, <1>8
    <2>2. \A i \in u \cup {x} : g[i] \in Int
      BY <1>8
    <2> QED
      BY <1>8, <2>1, <2>2, SumAdds
  <1>11. CASE x \in S
    <2>1. t \cap S = (u \cap S) \cup {x} /\ x \notin u \cap S
      BY <1>8, <1>11
    <2>2. IsFiniteSet(u \cap S) /\ \A i \in (u \cap S) \cup {x} : f[i] \in Int
      BY <1>1, <1>8
    <2>3. SumOf(f, t \cap S) = SumOf(f, u \cap S) + f[x]
      BY <2>1, <2>2, SumAdds
    <2>4. f[x] <= g[x]
      BY <1>11
    <2>5. SumOf(f, u \cap S) \in Int /\ SumOf(g, u) \in Int
      BY <1>1, <1>8
    <2> QED
      BY <1>5, <1>8, <1>9, <1>10, <2>3, <2>4, <2>5
  <1>12. CASE x \notin S
    <2>1. t \cap S = u \cap S
      BY <1>8, <1>12
    <2>2. SumOf(f, u \cap S) \in Int /\ SumOf(g, u) \in Int
      BY <1>1, <1>8
    <2>3. SumOf(g, u) <= SumOf(g, u) + g[x]
      BY <1>8, <2>2
    <2> QED
      BY <1>5, <1>9, <1>10, <2>1, <2>2, <2>3
  <1> QED
    BY <1>11, <1>12

\* The sum over two sets that are apart
LEMMA SumApart ==
    ASSUME NEW f, NEW S, NEW T, IsFiniteSet(S), IsFiniteSet(T), S \cap T = {},
           \A i \in S \cup T : f[i] \in Int
    PROVE  SumOf(f, S \cup T) = SumOf(f, S) + SumOf(f, T)
  <1> DEFINE Splits(t) == SumOf(f, S \cup t) = SumOf(f, S) + SumOf(f, t)
             Bad == {n \in Nat : \E t \in SUBSET T : Cardinality(t) = n /\ ~Splits(t)}
  <1>1. \A t \in SUBSET T : /\ IsFiniteSet(t) /\ IsFiniteSet(S \cup t)
                            /\ Cardinality(t) \in Nat
                            /\ SumOf(f, S \cup t) \in Int /\ SumOf(f, t) \in Int
    <2> TAKE t \in SUBSET T
    <2>1. IsFiniteSet(t)
      BY FS_Subset
    <2>2. IsFiniteSet(S \cup t)
      BY <2>1, FS_Union
    <2>3. SumOf(f, t) \in Int
      BY <2>1, SumType
    <2>4. SumOf(f, S \cup t) \in Int
      BY <2>2, SumType
    <2> QED
      BY <2>1, <2>2, <2>3, <2>4, FS_CardinalityType
  <1>2. SUFFICES Bad = {}
    <2>1. Cardinality(T) \notin Bad
      BY <1>2
    <2> QED
      BY <1>1, <2>1
  <1>3. SUFFICES ASSUME Bad # {} PROVE FALSE
    OBVIOUS
  <1>4. PICK m \in Bad : \A n \in Bad : m <= n
    <2>1. Bad \subseteq Nat
      OBVIOUS
    <2> HIDE DEF Bad
    <2> QED
      BY <1>3, <2>1, LeastNatural
  <1>5. PICK t \in SUBSET T : Cardinality(t) = m /\ ~Splits(t)
    OBVIOUS
  <1>6. SumOf(f, S) \in Int
    BY SumType
  <1>7. t # {}
    <2>1. SUFFICES ASSUME t = {} PROVE FALSE
      OBVIOUS
    <2>2. S \cup t = S /\ SumOf(f, t) = 0
      BY <2>1, SumEmpty
    <2> QED
      BY <1>5, <1>6, <2>2
  <1>8. PICK x \in t : TRUE
    BY <1>7
  <1> DEFINE u == t \ {x}
  <1>9. u \in SUBSET T /\ t = u \cup {x} /\ x \notin u /\ x \notin S \cup u /\ f[x] \in Int
        /\ S \cup t = (S \cup u) \cup {x}
    OBVIOUS
  <1>10. Splits(u)
    <2>1. /\ Cardinality(t) \in Nat /\ Cardinality(u) \in Nat
          /\ Cardinality(t) = Cardinality(u) + 1
      BY <1>1, Taken
    <2>2. ~(m <= Cardinality(u))
      BY <1>5, <2>1
    <2>3. Cardinality(u) \notin Bad
      <3> HIDE DEF Bad, u
      <3> QED
        BY <1>4, <2>2
    <2> HIDE DEF u
    <2> QED
      BY <1>9, <2>1, <2>3
  <1> HIDE DEF u
  <1>11. SumOf(f, t) = SumOf(f, u) + f[x]
    <2>1. IsFiniteSet(u) /\ \A i \in u \cup {x} : f[i] \in Int
      BY <1>1, <1>9
    <2> QED
      BY <1>9, <2>1, SumAdds
  <1>12. SumOf(f, S \cup t) = SumOf(f, S \cup u) + f[x]
    <2>1. IsFiniteSet(S \cup u) /\ \A i \in (S \cup u) \cup {x} : f[i] \in Int
      BY <1>1, <1>9
    <2> QED
      BY <1>9, <2>1, SumAdds
  <1>13. SumOf(f, u) \in Int
    BY <1>1, <1>9
  <1> QED
    BY <1>5, <1>6, <1>9, <1>10, <1>11, <1>12, <1>13

\* The sum is the value of whatever function the recursion describes.
LEMMA SumValue ==
    ASSUME NEW f, NEW S, IsFiniteSet(S), NEW g, SumsUp(f, S, g)
    PROVE  SumOf(f, S) = g[S]
  <1>1. PICK h : SumsUp(f, S, h) /\ SumOf(f, S) = h[S]
    BY SumIs
  <1> QED
    BY <1>1, SumsAgree

-----------------------------------------------------------------------------
(* Requests: what is limited *)

LeaveDays == [l \in DOMAIN leaves |-> leaves[l].days]

DaysIn(type, year) == SumOf(LeaveDays, Pool(type, year))

\* What a claim commits of the lifetime cap
Weight ==
    [c \in DOMAIN claims |-> IF claims[c].state = "APPROVED" THEN claims[c].granted ELSE claims[c].amount]

Upheld == {c \in DOMAIN claims : claims[c].state # "REJECTED"}

LeavesFit ==
    /\ \A type \in LeaveTypes, year \in Years : DaysIn(type, year) <= LeaveCap[type]
    /\ \A w \in Workers :
          request[w].op = "leave" =>
              DaysIn(request[w].type, request[w].year) + request[w].days <= LeaveCap[request[w].type]

\* An amount filled in before the decision leaves a claim what it counts for, or less, once approved.
ClaimsFit ==
    /\ \A c \in DOMAIN claims : claims[c].state = "PENDING" => claims[c].granted <= claims[c].amount
    /\ SumOf(Weight, Upheld) <= GrantCap
    /\ \A w \in Workers :
          request[w].op = "claim" => SumOf(Weight, Upheld) + request[w].amount <= GrantCap

\* While applications come one at a time, the one in flight still fits; a claim as long as no amount was
\* set above what its claim counted for.
LimitsInv == ~overlapped => LeavesFit /\ (~raised => ClaimsFit)

\* The sums of the model are these.
LEMMA DaysAre ==
    ASSUME TypeOK, NEW type \in LeaveTypes, NEW year \in Years
    PROVE  DaysOf(Pool(type, year)) = DaysIn(type, year)
  <1> DEFINE S == Pool(type, year)
             Step(g) == [s \in SUBSET S |-> IF s = {} THEN 0
                                            ELSE LET x == CHOOSE x \in s : TRUE
                                                 IN  leaves[x].days + g[s \ {x}]]
             iter == CHOOSE g : g = Step(g)
  <1>1. S \subseteq DOMAIN leaves /\ IsFiniteSet(S)
    <2>1. S \subseteq 1 .. Len(leaves) /\ DOMAIN leaves = 1 .. Len(leaves) /\ Len(leaves) \in Nat
      BY DEF TypeOK, Pool
    <2>2. IsFiniteSet(1 .. Len(leaves))
      BY <2>1, FS_Interval
    <2> QED
      BY <2>1, <2>2, FS_Subset
  <1>2. DaysOf(S) = iter[S]
    BY Zenon DEF DaysOf, MapThenSumSet, MapThenFoldSet
  <1> HIDE DEF S
  <1>3. ASSUME NEW g PROVE Step(g) = SumStep(LeaveDays, S, g)
    BY <1>1 DEF SumStep, LeaveDays
  <1>4. \E g : g = Step(g)
    <2>1. PICK g : SumsUp(LeaveDays, S, g)
      BY <1>1, SumExists
    <2>2. g = Step(g)
      BY <1>3, <2>1 DEF SumsUp
    <2> HIDE DEF Step
    <2> QED
      BY <2>2
  <1>5. iter = Step(iter)
    <2> HIDE DEF Step
    <2> QED
      BY <1>4
  <1>6. SumsUp(LeaveDays, S, iter)
    <2> HIDE DEF Step
    <2> QED
      BY <1>3, <1>5 DEF SumsUp
  <1> QED
    BY <1>1, <1>2, <1>6, SumValue DEF DaysIn, S

LEMMA CommittedIs ==
    ASSUME TypeOK
    PROVE  Committed = SumOf(Weight, Upheld)
  <1> DEFINE A == ClaimsIn("APPROVED")
             P == ClaimsIn("PENDING")
             Granted == [c \in DOMAIN claims |-> claims[c].granted]
             Amount == [c \in DOMAIN claims |-> claims[c].amount]
  <1>1. \A c \in DOMAIN claims : claims[c] \in Claim
    BY DEF TypeOK
  <1>2. IsFiniteSet(A) /\ IsFiniteSet(P) /\ A \subseteq DOMAIN claims /\ P \subseteq DOMAIN claims
    <2>1. DOMAIN claims = 1 .. Len(claims) /\ Len(claims) \in Nat
      BY DEF TypeOK
    <2>2. IsFiniteSet(1 .. Len(claims))
      BY <2>1, FS_Interval
    <2>3. A \subseteq 1 .. Len(claims) /\ P \subseteq 1 .. Len(claims)
      BY <2>1 DEF ClaimsIn
    <2> QED
      BY <2>1, <2>2, <2>3, FS_Subset
  <1>3. CommittedApproved = SumOf(Granted, A)
    <2> DEFINE Step(g) == [s \in SUBSET A |-> IF s = {} THEN 0
                                              ELSE LET x == CHOOSE x \in s : TRUE
                                                   IN  claims[x].granted + g[s \ {x}]]
               iter == CHOOSE g : g = Step(g)
    <2>1. CommittedApproved = iter[A]
      BY Zenon DEF CommittedApproved, MapThenSumSet, MapThenFoldSet
    <2> HIDE DEF A
    <2>2. ASSUME NEW g PROVE Step(g) = SumStep(Granted, A, g)
      BY <1>2 DEF SumStep
    <2>3. \E g : g = Step(g)
      <3>1. PICK g : SumsUp(Granted, A, g)
        BY <1>2, SumExists
      <3>2. g = Step(g)
        BY <2>2, <3>1 DEF SumsUp
      <3> HIDE DEF Step
      <3> QED
        BY <3>2
    <2>4. iter = Step(iter)
      <3> HIDE DEF Step
      <3> QED
        BY <2>3
    <2>5. SumsUp(Granted, A, iter)
      <3> HIDE DEF Step
      <3> QED
        BY <2>2, <2>4 DEF SumsUp
    <2> HIDE DEF Granted, iter
    <2> QED
      BY <1>2, <2>1, <2>5, SumValue
  <1>4. Committed = CommittedApproved + SumOf(Amount, P)
    <2> DEFINE Step(g) == [s \in SUBSET P |-> IF s = {} THEN 0
                                              ELSE LET x == CHOOSE x \in s : TRUE
                                                   IN  claims[x].amount + g[s \ {x}]]
               iter == CHOOSE g : g = Step(g)
    <2>1. Committed = CommittedApproved + iter[P]
      BY Zenon DEF Committed, MapThenSumSet, MapThenFoldSet
    <2> HIDE DEF P
    <2>2. ASSUME NEW g PROVE Step(g) = SumStep(Amount, P, g)
      BY <1>2 DEF SumStep
    <2>3. \E g : g = Step(g)
      <3>1. PICK g : SumsUp(Amount, P, g)
        BY <1>2, SumExists
      <3>2. g = Step(g)
        BY <2>2, <3>1 DEF SumsUp
      <3> HIDE DEF Step
      <3> QED
        BY <3>2
    <2>4. iter = Step(iter)
      <3> HIDE DEF Step
      <3> QED
        BY <2>3
    <2>5. SumsUp(Amount, P, iter)
      <3> HIDE DEF Step
      <3> QED
        BY <2>2, <2>4 DEF SumsUp
    <2>6. SumOf(Amount, P) = iter[P]
      <3> HIDE DEF Amount, iter
      <3> QED
        BY <1>2, <2>5, SumValue
    <2> HIDE DEF iter
    <2> QED
      BY <2>1, <2>6
  <1>5. SumOf(Granted, A) = SumOf(Weight, A)
    <2>1. \A c \in A : Granted[c] = Weight[c]
      BY DEF ClaimsIn, Weight
    <2> QED
      BY <1>2, <2>1, SumSame
  <1>6. SumOf(Amount, P) = SumOf(Weight, P)
    <2>1. \A c \in P : Amount[c] = Weight[c]
      BY DEF ClaimsIn, Weight
    <2> QED
      BY <1>2, <2>1, SumSame
  <1>7. SumOf(Weight, A \cup P) = SumOf(Weight, A) + SumOf(Weight, P)
    <2>1. A \cap P = {}
      BY DEF ClaimsIn
    <2>2. \A c \in DOMAIN claims : claims[c].granted \in Int /\ claims[c].amount \in Int
      <3> TAKE c \in DOMAIN claims
      <3>1. claims[c].granted \in Amounts \cup {0} /\ claims[c].amount \in Amounts
        BY <1>1 DEF Claim
      <3>2. \A amount \in Amounts \cup {0} : amount \in Nat
        BY ScholarRequestsAssumption
      <3> QED
        BY <3>1, <3>2
    <2>3. \A c \in A \cup P : Weight[c] \in Int
      BY <1>2, <2>2 DEF Weight
    <2> HIDE DEF A, P
    <2> QED
      BY <1>2, <2>1, <2>3, SumApart
  <1>8. A \cup P = Upheld
    BY <1>1 DEF ClaimsIn, Upheld, Claim
  <1> HIDE DEF A, P
  <1> QED
    BY <1>3, <1>4, <1>5, <1>6, <1>7, <1>8

\* The numbers that are added up, and what is counted
Summed ==
    /\ DOMAIN leaves = 1 .. Len(leaves) /\ DOMAIN claims = 1 .. Len(claims)
    /\ \A l \in DOMAIN leaves : leaves[l].days \in Nat /\ LeaveDays[l] = leaves[l].days
    /\ \A c \in DOMAIN claims : /\ Weight[c] \in Nat
                                /\ claims[c].amount \in Nat /\ claims[c].granted \in Nat
    /\ IsFiniteSet(Upheld) /\ Upheld \subseteq DOMAIN claims
    /\ SumOf(Weight, Upheld) \in Int
    /\ \A type, year : /\ IsFiniteSet(Pool(type, year))
                       /\ Pool(type, year) \subseteq DOMAIN leaves
                       /\ DaysIn(type, year) \in Int

LEMMA SumsTyped == TypeOK => Summed
  <1> SUFFICES ASSUME TypeOK
               PROVE  Summed
    OBVIOUS
  <1>1. /\ DOMAIN leaves = 1 .. Len(leaves) /\ DOMAIN claims = 1 .. Len(claims)
        /\ Len(leaves) \in Nat /\ Len(claims) \in Nat
    BY DEF TypeOK
  <1>2. \A l \in DOMAIN leaves : leaves[l].days \in Nat /\ LeaveDays[l] = leaves[l].days
    <2>1. \A l \in DOMAIN leaves : leaves[l] \in Leave
      BY DEF TypeOK
    <2> QED
      BY <2>1, ScholarRequestsAssumption DEF Leave, LeaveDays
  <1>3. \A c \in DOMAIN claims : /\ Weight[c] \in Nat
                                 /\ claims[c].amount \in Nat /\ claims[c].granted \in Nat
    <2>1. \A c \in DOMAIN claims : claims[c] \in Claim
      BY DEF TypeOK
    <2>2. \A c \in DOMAIN claims : claims[c].amount \in Nat /\ claims[c].granted \in Nat
      <3> TAKE c \in DOMAIN claims
      <3>1. claims[c].granted \in Amounts \cup {0} /\ claims[c].amount \in Amounts
        BY <2>1 DEF Claim
      <3>2. \A amount \in Amounts \cup {0} : amount \in Nat
        BY ScholarRequestsAssumption
      <3> QED
        BY <3>1, <3>2
    <2> QED
      BY <2>2 DEF Weight
  <1>4. IsFiniteSet(1 .. Len(leaves)) /\ IsFiniteSet(1 .. Len(claims))
    BY <1>1, FS_Interval
  <1>5. IsFiniteSet(Upheld) /\ Upheld \subseteq DOMAIN claims
    <2>1. Upheld \subseteq DOMAIN claims
      BY DEF Upheld
    <2> QED
      BY <1>1, <1>4, <2>1, FS_Subset
  <1>6. SumOf(Weight, Upheld) \in Int
    <2>1. \A c \in Upheld : Weight[c] \in Int
      BY <1>3, <1>5
    <2> QED
      BY <1>5, <2>1, SumType
  <1>7. ASSUME NEW type, NEW year
        PROVE  /\ IsFiniteSet(Pool(type, year)) /\ Pool(type, year) \subseteq DOMAIN leaves
               /\ DaysIn(type, year) \in Int
    <2>1. Pool(type, year) \subseteq DOMAIN leaves
      BY DEF Pool
    <2>2. IsFiniteSet(Pool(type, year))
      BY <1>1, <1>4, <2>1, FS_Subset
    <2>3. \A l \in Pool(type, year) : LeaveDays[l] \in Int
      BY <1>2, <2>1
    <2> QED
      BY <2>1, <2>2, <2>3, SumType DEF DaysIn
  <1> QED
    BY <1>1, <1>2, <1>3, <1>5, <1>6, <1>7 DEF Summed

\* While no leave is added, what fitted fits.
LEMMA LeavesKept ==
    ASSUME TypeOK, LeavesFit,
           DOMAIN leaves' = DOMAIN leaves,
           \A l \in DOMAIN leaves : /\ leaves'[l].type = leaves[l].type
                                    /\ leaves'[l].year = leaves[l].year
                                    /\ leaves'[l].days = leaves[l].days,
           \A w \in Workers : request'[w] = request[w] \/ request'[w] = Idle
    PROVE  LeavesFit'
  <1>1. ASSUME NEW type, NEW year
        PROVE  DaysIn(type, year)' = DaysIn(type, year)
    <2>1. Pool(type, year)' = Pool(type, year)
      BY DEF Pool
    <2>2. LeaveDays' = LeaveDays
      BY DEF LeaveDays
    <2> QED
      BY <2>1, <2>2 DEF DaysIn
  <1>2. \A type \in LeaveTypes, year \in Years : DaysIn(type, year)' <= LeaveCap[type]
    BY <1>1 DEF LeavesFit
  <1>3. ASSUME NEW w \in Workers, request'[w].op = "leave"
        PROVE  (DaysIn(request[w].type, request[w].year) + request[w].days
                    <= LeaveCap[request[w].type])'
    <2>1. request'[w] = request[w]
      BY <1>3 DEF Idle
    <2>2. PICK type, year : type = request[w].type /\ year = request[w].year
      OBVIOUS
    <2>3. DaysIn(type, year)' = DaysIn(type, year)
      BY <1>1
    <2>4. DaysIn(request[w].type, request[w].year)' = DaysIn(type, year)'
      BY <2>1, <2>2 DEF DaysIn, Pool
    <2> QED
      BY <1>3, <2>1, <2>2, <2>3, <2>4 DEF LeavesFit
  <1> QED
    BY <1>2, <1>3 DEF LeavesFit

\* While no claim is added and none commits more, what fitted fits.
LEMMA ClaimsKept ==
    ASSUME TypeOK, TypeOK', ClaimsFit,
           DOMAIN claims' = DOMAIN claims,
           \A c \in DOMAIN claims :
              /\ claims'[c].state = "PENDING" => claims'[c].granted <= claims'[c].amount
              /\ claims'[c].state # "REJECTED" => claims[c].state # "REJECTED" /\ Weight'[c] <= Weight[c],
           \A w \in Workers : request'[w] = request[w] \/ request'[w] = Idle
    PROVE  ClaimsFit'
  <1>1. /\ SumOf(Weight, Upheld)' <= SumOf(Weight, Upheld)
        /\ SumOf(Weight, Upheld)' \in Int /\ SumOf(Weight, Upheld) \in Int
    <2>1. /\ IsFiniteSet(Upheld) /\ Upheld \subseteq DOMAIN claims
          /\ \A c \in DOMAIN claims : Weight[c] \in Nat
          /\ SumOf(Weight, Upheld) \in Int
      BY SumsTyped DEF Summed
    <2>2. /\ \A c \in DOMAIN claims : Weight'[c] \in Nat
          /\ SumOf(Weight, Upheld)' \in Int
      <3>1. Summed'
        BY SumsTyped, PTL
      <3> QED
        BY <3>1 DEF Summed
    <2>3. Upheld' \subseteq Upheld
      BY DEF Upheld
    <2>4. \A c \in Upheld : Weight'[c] \in Nat /\ Weight[c] \in Nat
      BY <2>1, <2>2
    <2>5. \A c \in Upheld' : Weight'[c] <= Weight[c]
      BY DEF Upheld
    <2>6. SumOf(Weight', Upheld') <= SumOf(Weight, Upheld)
      BY <2>1, <2>3, <2>4, <2>5, SumLess
    <2> QED
      BY <2>1, <2>2, <2>6
  <1>2. SumOf(Weight, Upheld)' <= GrantCap
    BY <1>1, ScholarRequestsAssumption DEF ClaimsFit
  <1>3. ASSUME NEW w \in Workers, request'[w].op = "claim"
        PROVE  SumOf(Weight, Upheld)' + request'[w].amount <= GrantCap
    <2>1. request'[w] = request[w]
      BY <1>3 DEF Idle
    <2>2. request[w].amount \in Nat
      BY <1>3, <2>1, ApplicationFields, ScholarRequestsAssumption
    <2>3. SumOf(Weight, Upheld) + request[w].amount <= GrantCap
      BY <1>3, <2>1 DEF ClaimsFit
    <2> QED
      BY <1>1, <2>1, <2>2, <2>3, ScholarRequestsAssumption
  <1> QED
    BY <1>2, <1>3 DEF ClaimsFit

\* An application that begins fits.
LEMMA LimitsBegin ==
    ASSUME TypeOK, LimitsInv, NEW w \in Workers, NEW r, Begin(w, r),
           r.op = "leave" => DaysIn(r.type, r.year) + r.days <= LeaveCap[r.type],
           r.op = "claim" => SumOf(Weight, Upheld) + r.amount <= GrantCap
    PROVE  LimitsInv'
  <1>1. /\ leaves' = leaves /\ claims' = claims /\ raised' = raised
        /\ request'[w] = r /\ \A v \in Workers \ {w} : request'[v] = request[v]
        /\ ~overlapped' => ~overlapped
    BY DEF Begin, domain, TypeOK
  <1>2. SUFFICES ASSUME ~overlapped
                 PROVE  LeavesFit' /\ (~raised => ClaimsFit')
    BY <1>1 DEF LimitsInv
  <1>3. ASSUME NEW type, NEW year
        PROVE  DaysIn(type, year)' = DaysIn(type, year)
    BY <1>1 DEF DaysIn, Pool, LeaveDays
  <1>4. ASSUME NEW v \in Workers, request'[v].op = "leave"
        PROVE  (DaysIn(request[v].type, request[v].year) + request[v].days
                    <= LeaveCap[request[v].type])'
    <2>1. PICK q : q = request'[v]
      OBVIOUS
    <2>2. DaysIn(q.type, q.year) + q.days <= LeaveCap[q.type]
      <3>1. CASE v = w
        BY <1>1, <1>4, <2>1, <3>1
      <3>2. CASE v # w
        <4>1. q = request[v]
          BY <1>1, <2>1, <3>2
        <4> QED
          BY <1>2, <1>4, <2>1, <4>1 DEF LimitsInv, LeavesFit
      <3> QED
        BY <3>1, <3>2
    <2>3. DaysIn(q.type, q.year)' = DaysIn(q.type, q.year)
      <3>1. PICK type, year : type = q.type /\ year = q.year
        OBVIOUS
      <3> QED
        BY <1>3, <3>1
    <2>4. DaysIn(request[v].type, request[v].year)' = DaysIn(q.type, q.year)'
      BY <2>1 DEF DaysIn, Pool
    <2> QED
      BY <2>1, <2>2, <2>3, <2>4
  <1>5. LeavesFit'
    <2>1. \A type \in LeaveTypes, year \in Years : DaysIn(type, year)' <= LeaveCap[type]
      BY <1>2, <1>3 DEF LimitsInv, LeavesFit
    <2> QED
      BY <1>4, <2>1 DEF LeavesFit
  <1>6. ASSUME ~raised
        PROVE  ClaimsFit'
    <2>1. SumOf(Weight, Upheld)' = SumOf(Weight, Upheld)
      BY <1>1 DEF Weight, Upheld
    <2>2. ClaimsFit
      BY <1>2, <1>6 DEF LimitsInv
    <2>3. ASSUME NEW v \in Workers, request'[v].op = "claim"
          PROVE  SumOf(Weight, Upheld)' + request'[v].amount <= GrantCap
      <3>1. CASE v = w
        BY <1>1, <2>1, <2>3, <3>1
      <3>2. CASE v # w
        <4>1. request'[v] = request[v]
          BY <1>1, <3>2
        <4> QED
          BY <2>1, <2>2, <2>3, <4>1 DEF ClaimsFit
      <3> QED
        BY <3>1, <3>2
    <2> QED
      BY <1>1, <2>1, <2>2, <2>3 DEF ClaimsFit
  <1> QED
    BY <1>5, <1>6

LEMMA LimitsInsertLeave ==
    ASSUME TypeOK, TypeOK', ApartInv, LimitsInv, NEW w \in Workers, InsertLeave(w)
    PROVE  LimitsInv'
  <1>1. /\ request[w].op = "leave"
        /\ leaves' = Append(leaves, [type |-> request[w].type, year |-> request[w].year,
                                     days |-> request[w].days, approved |-> FALSE,
                                     approval |-> NextRequest])
        /\ claims' = claims /\ overlapped' = overlapped /\ raised' = raised
        /\ request' = [request EXCEPT ![w] = Idle]
    BY DEF InsertLeave, Finish
  <1>2. SUFFICES ASSUME ~overlapped
                 PROVE  LeavesFit' /\ (~raised => ClaimsFit')
    BY <1>1 DEF LimitsInv
  <1>3. PICK type, year, days : /\ type = request[w].type /\ year = request[w].year
                                /\ days = request[w].days
    OBVIOUS
  <1>4. type \in LeaveTypes /\ year \in Years /\ days \in Nat
    BY <1>1, <1>3, ApplicationFields, ScholarRequestsAssumption
  <1>5. PICK n : n = Len(leaves) + 1
    OBVIOUS
  <1>6. /\ DOMAIN leaves' = DOMAIN leaves \cup {n} /\ n \notin DOMAIN leaves
        /\ leaves'[n].type = type /\ leaves'[n].year = year /\ leaves'[n].days = days
        /\ \A l \in DOMAIN leaves : leaves'[l] = leaves[l]
    BY <1>1, <1>3, <1>5 DEF TypeOK
  <1>7. Summed
    BY SumsTyped
  <1>8. DaysIn(type, year) + days <= LeaveCap[type]
    BY <1>1, <1>2, <1>3 DEF LimitsInv, LeavesFit
  <1>9. ASSUME NEW t \in LeaveTypes, NEW y \in Years
        PROVE  DaysIn(t, y)' <= LeaveCap[t]
    <2>1. /\ IsFiniteSet(Pool(t, y)) /\ Pool(t, y) \subseteq DOMAIN leaves /\ n \notin Pool(t, y)
          /\ DaysIn(t, y) \in Int
      BY <1>6, <1>7 DEF Summed
    <2>2. \A l \in Pool(t, y) : LeaveDays'[l] = LeaveDays[l] /\ LeaveDays'[l] \in Int
      BY <1>6, <1>7, <2>1 DEF LeaveDays, Summed
    <2>3. SumOf(LeaveDays', Pool(t, y)) = DaysIn(t, y)
      BY <2>1, <2>2, SumSame DEF DaysIn
    <2>4. CASE t = type /\ (t = "ANNUAL" => y = year)
      <3>1. Pool(t, y)' = Pool(t, y) \cup {n}
        BY <1>6, <2>4 DEF Pool
      <3>2. LeaveDays'[n] = days
        BY <1>6 DEF LeaveDays
      <3>3. DaysIn(t, y)' = SumOf(LeaveDays', Pool(t, y)) + days
        <4>1. \A l \in Pool(t, y) \cup {n} : LeaveDays'[l] \in Int
          BY <1>4, <2>2, <3>2
        <4>2. SumOf(LeaveDays', Pool(t, y) \cup {n}) = SumOf(LeaveDays', Pool(t, y)) + LeaveDays'[n]
          BY <2>1, <4>1, SumAdds
        <4> QED
          BY <3>1, <3>2, <4>2 DEF DaysIn
      <3>4. DaysIn(t, y) = DaysIn(type, year)
        <4>1. Pool(t, y) = Pool(type, year)
          BY <2>4 DEF Pool
        <4> QED
          BY <4>1 DEF DaysIn
      <3> QED
        BY <1>8, <2>3, <2>4, <3>3, <3>4
    <2>5. CASE ~(t = type /\ (t = "ANNUAL" => y = year))
      <3>1. Pool(t, y)' = Pool(t, y)
        BY <1>6, <2>5 DEF Pool
      <3>2. DaysIn(t, y)' = DaysIn(t, y)
        BY <2>3, <3>1 DEF DaysIn
      <3> QED
        BY <1>2, <3>2 DEF LimitsInv, LeavesFit
    <2> QED
      BY <2>4, <2>5
  <1>10. \A v \in Workers : request'[v] = Idle
    <2>1. request[w] # Idle
      BY <1>1 DEF Idle
    <2>2. \A v \in Workers \ {w} : request[v] = Idle
      BY <1>2, <2>1 DEF ApartInv
    <2> QED
      BY <1>1, <2>2 DEF TypeOK
  <1>11. ASSUME ~raised
         PROVE  ClaimsFit'
    <2>1. SumOf(Weight, Upheld)' = SumOf(Weight, Upheld)
      BY <1>1 DEF Weight, Upheld
    <2> QED
      BY <1>1, <1>2, <1>10, <1>11, <2>1 DEF LimitsInv, ClaimsFit, Idle
  <1> QED
    BY <1>9, <1>10, <1>11 DEF LeavesFit, Idle

LEMMA LimitsInsertClaim ==
    ASSUME TypeOK, TypeOK', ApartInv, LimitsInv, NEW w \in Workers, InsertClaim(w)
    PROVE  LimitsInv'
  <1>1. /\ request[w].op = "claim"
        /\ claims' = Append(claims, [month |-> request[w].month, amount |-> request[w].amount,
                                     granted |-> 0, state |-> "PENDING", approval |-> NextRequest])
        /\ leaves' = leaves /\ overlapped' = overlapped /\ raised' = raised
        /\ request' = [request EXCEPT ![w] = Idle]
    BY DEF InsertClaim, Finish
  <1>2. SUFFICES ASSUME ~overlapped
                 PROVE  LeavesFit' /\ (~raised => ClaimsFit')
    BY <1>1 DEF LimitsInv
  <1>3. \A v \in Workers : request'[v] = Idle
    BY <1>1, <1>2 DEF TypeOK, ApartInv, Idle
  <1>4. LeavesFit'
    BY <1>1, <1>2, <1>3 DEF LimitsInv, LeavesFit, DaysIn, Pool, LeaveDays, Idle
  <1>5. ASSUME ~raised
        PROVE  ClaimsFit'
    <2>1. ClaimsFit
      BY <1>2, <1>5 DEF LimitsInv
    <2>2. PICK amount : amount = request[w].amount
      OBVIOUS
    <2>3. amount \in Nat
      BY <1>1, <2>2, ApplicationFields, ScholarRequestsAssumption
    <2>4. PICK n : n = Len(claims) + 1
      OBVIOUS
    <2>5. /\ DOMAIN claims' = DOMAIN claims \cup {n} /\ n \notin DOMAIN claims
          /\ claims'[n].amount = amount /\ claims'[n].granted = 0 /\ claims'[n].state = "PENDING"
          /\ \A c \in DOMAIN claims : claims'[c] = claims[c]
      BY <1>1, <2>2, <2>4 DEF TypeOK
    <2>6. \A c \in DOMAIN claims' : claims'[c].state = "PENDING" => claims'[c].granted <= claims'[c].amount
      BY <2>1, <2>3, <2>5 DEF ClaimsFit
    <2>7. SumOf(Weight, Upheld) + amount <= GrantCap
      BY <1>1, <2>1, <2>2 DEF ClaimsFit
    <2>8. SumOf(Weight, Upheld)' <= GrantCap
      <3>1. /\ IsFiniteSet(Upheld) /\ Upheld \subseteq DOMAIN claims /\ n \notin Upheld
            /\ \A c \in Upheld : Weight[c] \in Int
        BY <2>5, SumsTyped DEF Summed
      <3>2. Upheld' = Upheld \cup {n}
        BY <2>5 DEF Upheld
      <3>3. /\ \A c \in Upheld : Weight'[c] = Weight[c]
            /\ Weight'[n] = amount
        BY <2>5, <3>1 DEF Weight
      <3>4. SumOf(Weight', Upheld) = SumOf(Weight, Upheld)
        BY <3>1, <3>3, SumSame
      <3>5. SumOf(Weight', Upheld \cup {n}) = SumOf(Weight', Upheld) + Weight'[n]
        <4>1. \A c \in Upheld \cup {n} : Weight'[c] \in Int
          BY <2>3, <3>1, <3>3
        <4> QED
          BY <3>1, <4>1, SumAdds
      <3> QED
        BY <2>7, <3>2, <3>3, <3>4, <3>5
    <2> QED
      BY <1>3, <2>6, <2>8 DEF ClaimsFit, Idle
  <1> QED
    BY <1>4, <1>5

LEMMA LimitsNext == AgreeInv /\ AgreeInv' /\ ApartInv /\ LimitsInv /\ [Next]_vars => LimitsInv'
  <1> SUFFICES ASSUME AgreeInv, AgreeInv', ApartInv, LimitsInv, [Next]_vars
               PROVE  LimitsInv'
    OBVIOUS
  <1>0. TypeOK /\ TypeOK'
    BY DEF AgreeInv
  <1>1. Summed
    BY <1>0, SumsTyped
  <1>2. ASSUME leaves' = leaves, claims' = claims, overlapped' = overlapped, raised' = raised,
               \A v \in Workers : request'[v] = request[v] \/ request'[v] = Idle
        PROVE  LimitsInv'
    <2>1. LeavesFit => LeavesFit'
      BY <1>0, <1>2, LeavesKept
    <2>2. ClaimsFit => ClaimsFit'
      <3>1. \A c \in DOMAIN claims : Weight'[c] <= Weight[c]
        BY <1>1, <1>2 DEF Weight, Summed
      <3>2. ClaimsFit => \A c \in DOMAIN claims : claims'[c].state = "PENDING" =>
                                                     claims'[c].granted <= claims'[c].amount
        BY <1>2 DEF ClaimsFit
      <3> QED
        BY <1>0, <1>2, <3>1, <3>2, ClaimsKept
    <2> QED
      BY <1>2, <2>1, <2>2 DEF LimitsInv
  <1>3. ASSUME NEW w \in Workers, Apply(w)
        PROVE  LimitsInv'
    <2>1. CASE InsertLeave(w)
      BY <1>0, <2>1, LimitsInsertLeave
    <2>2. CASE InsertClaim(w)
      BY <1>0, <2>2, LimitsInsertClaim
    <2>3. ASSUME NEW type \in LeaveTypes, NEW year \in Years, NEW days \in Days,
                 ApplyForLeave(w, type, year, days)
          PROVE  LimitsInv'
      <3> DEFINE r == [op |-> "leave", type |-> type, year |-> year, days |-> days]
      <3>1. Begin(w, r) /\ DaysIn(type, year) + days <= LeaveCap[type]
        BY <1>0, <2>3, DaysAre DEF ApplyForLeave, MayTakeLeave
      <3>2. r.op = "leave" /\ r.type = type /\ r.year = year /\ r.days = days
        OBVIOUS
      <3> HIDE DEF r
      <3> QED
        BY <1>0, <3>1, <3>2, LimitsBegin
    <2>4. ASSUME NEW month \in Months, NEW amount \in Amounts, SubmitGrantClaim(w, month, amount)
          PROVE  LimitsInv'
      <3> DEFINE r == [op |-> "claim", month |-> month, amount |-> amount]
      <3>1. Begin(w, r) /\ amount <= GrantCap - SumOf(Weight, Upheld)
        BY <1>0, <2>4, CommittedIs DEF SubmitGrantClaim, MayClaim
      <3>2. amount \in Nat /\ SumOf(Weight, Upheld) \in Int
        BY <1>1, ScholarRequestsAssumption DEF Summed
      <3>3. SumOf(Weight, Upheld) + amount <= GrantCap
        BY <3>1, <3>2, ScholarRequestsAssumption
      <3>4. r.op = "claim" /\ r.amount = amount
        OBVIOUS
      <3> HIDE DEF r
      <3> QED
        BY <1>0, <3>1, <3>3, <3>4, LimitsBegin
    <2>5. ASSUME NEW r, Begin(w, r), r.op \in {"extension", "award"}
          PROVE  LimitsInv'
      BY <1>0, <2>5, LimitsBegin
    <2>6. CASE \/ \E kind \in ExtensionKinds : RequestExtension(w, kind)
               \/ StartDegreeAward(w)
      BY <2>5, <2>6 DEF RequestExtension, StartDegreeAward
    <2>7. CASE InsertExtension(w) \/ InsertAward(w) \/ Drop(w)
      <3>1. claims' = claims /\ leaves' = leaves /\ Finish(w)
        BY <2>7 DEF InsertExtension, InsertAward, Drop, domain
      <3>2. /\ \A v \in Workers : request'[v] = request[v] \/ request'[v] = Idle
            /\ overlapped' = overlapped /\ raised' = raised
        BY <1>0, <3>1 DEF Finish, TypeOK
      <3> QED
        BY <1>2, <3>1, <3>2
    <2> QED
      BY <1>3, <2>1, <2>2, <2>3, <2>4, <2>6, <2>7 DEF Apply
  <1>4. ASSUME NEW i \in DOMAIN requests, NEW approved \in BOOLEAN, Decide(i, approved)
        PROVE  LimitsInv'
    <2> DEFINE q == Decided(requests[i], approved)
    <2>1. /\ leaves' = CloseLeave(q, i) /\ claims' = CloseClaim(q, i)
          /\ UNCHANGED <<request, overlapped, raised>>
      BY <1>4 DEF Decide
    <2>2. requests[i].status = "PENDING"
      BY <1>4, RequestDecided DEF AgreeInv
    <2> HIDE DEF q
    <2>3. \A c \in DOMAIN claims : claims[c].approval = i => claims[c].state = "PENDING"
      BY <2>2 DEF AgreeInv, StatusesAgree
    <2>4. LeavesFit => LeavesFit'
      <3>1. /\ DOMAIN leaves' = DOMAIN leaves
            /\ \A l \in DOMAIN leaves : /\ leaves'[l].type = leaves[l].type
                                        /\ leaves'[l].year = leaves[l].year
                                        /\ leaves'[l].days = leaves[l].days
        BY <1>0, <2>1, LeaveClosed DEF TypeOK
      <3> QED
        BY <1>0, <2>1, <3>1, LeavesKept
    <2>5. /\ DOMAIN claims' = DOMAIN claims
          /\ \A c \in DOMAIN claims :
                /\ claims'[c].amount = claims[c].amount
                /\ claims'[c].granted \in {claims[c].granted, claims[c].amount}
                /\ claims'[c].state = IF claims[c].approval = i /\ q.status \in {"APPROVED", "REJECTED"}
                                      THEN q.status ELSE claims[c].state
                /\ claims[c].approval # i => claims'[c] = claims[c]
      <3>1. \A c \in DOMAIN claims : claims[c].approval # i => CloseClaim(q, i)[c] = claims[c]
        BY DEF CloseClaim
      <3> QED
        BY <1>0, <2>1, <3>1, ClaimClosed DEF TypeOK
    <2>6. ASSUME ClaimsFit, NEW c \in DOMAIN claims
          PROVE  /\ claims'[c].state = "PENDING" => claims'[c].granted <= claims'[c].amount
                 /\ claims'[c].state # "REJECTED" => claims[c].state # "REJECTED"
                 /\ Weight'[c] <= Weight[c]
      <3>1. /\ claims[c].granted \in Nat /\ claims[c].amount \in Nat /\ Weight[c] \in Nat
            /\ claims[c].state = "PENDING" => claims[c].granted <= claims[c].amount
        BY <1>1, <2>6 DEF Summed, ClaimsFit
      <3>2. CASE claims[c].approval # i
        BY <2>5, <3>1, <3>2 DEF Weight
      <3>3. CASE claims[c].approval = i
        <4>1. claims[c].state = "PENDING" /\ claims'[c].granted <= claims[c].amount
          BY <2>3, <2>5, <3>1, <3>3
        <4>2. Weight[c] = claims[c].amount /\ Weight'[c] \in {claims'[c].granted, claims[c].amount}
          BY <2>5, <4>1 DEF Weight
        <4> QED
          BY <2>5, <3>1, <4>1, <4>2
      <3> QED
        BY <3>2, <3>3
    <2>7. ClaimsFit => ClaimsFit'
      BY <1>0, <2>1, <2>5, <2>6, ClaimsKept
    <2> QED
      BY <2>1, <2>4, <2>7 DEF LimitsInv
  <1>5. ASSUME NEW c \in DOMAIN claims, NEW amount \in Amounts \cup {0}, EditAmountApproved(c, amount)
        PROVE  LimitsInv'
    <2>1. /\ claims' = [claims EXCEPT ![c].granted = amount]
          /\ UNCHANGED <<leaves, request, overlapped>>
      BY <1>5 DEF EditAmountApproved
    <2>2. ~raised' => ~raised /\ (claims[c].state # "REJECTED" => ~(amount > CountsFor(claims[c])))
      <3> HIDE DEF CountsFor
      <3>1. raised' = (raised \/ (claims[c].state # "REJECTED" /\ amount > CountsFor(claims[c])))
        BY <1>5 DEF EditAmountApproved
      <3> QED
        BY <3>1, Zenon
    <2>3. LeavesFit => LeavesFit'
      BY <1>0, <2>1, LeavesKept
    <2>4. ASSUME ClaimsFit, ~raised'
          PROVE  ClaimsFit'
      <3>1. \A d \in DOMAIN claims : claims[d] \in Claim
        BY <1>0 DEF TypeOK
      <3>2. /\ DOMAIN claims' = DOMAIN claims
            /\ \A d \in DOMAIN claims : /\ claims'[d].amount = claims[d].amount
                                        /\ claims'[d].state = claims[d].state
                                        /\ d # c => claims'[d] = claims[d]
            /\ claims'[c].granted = amount
        BY <2>1, <3>1 DEF Claim
      <3>3. amount \in Nat /\ claims[c].amount \in Nat /\ claims[c].granted \in Nat
        BY <1>1, ScholarRequestsAssumption DEF Summed
      <3>4. /\ claims[c].state = "PENDING" => amount <= claims[c].amount
            /\ claims[c].state = "APPROVED" => amount <= claims[c].granted
        BY <2>2, <2>4, <3>3 DEF CountsFor
      <3>5. ASSUME NEW d \in DOMAIN claims
            PROVE  /\ claims'[d].state = "PENDING" => claims'[d].granted <= claims'[d].amount
                   /\ claims'[d].state # "REJECTED" => claims[d].state # "REJECTED" /\ Weight'[d] <= Weight[d]
        <4>1. CASE d # c
          <5>1. Weight'[d] = Weight[d] /\ Weight[d] \in Nat
            BY <1>1, <3>2, <4>1 DEF Weight, Summed
          <5> QED
            BY <2>4, <3>2, <4>1, <5>1 DEF ClaimsFit
        <4>2. CASE d = c
          <5>1. claims[c].state = "APPROVED" => Weight[c] = claims[c].granted /\ Weight'[c] = amount
            BY <3>2 DEF Weight
          <5>2. claims[c].state = "PENDING" => Weight[c] = claims[c].amount /\ Weight'[c] = claims[c].amount
            BY <3>2 DEF Weight
          <5>3. claims[c].state \in {"PENDING", "APPROVED", "REJECTED"}
            BY <3>1 DEF Claim
          <5> QED
            BY <3>2, <3>3, <3>4, <4>2, <5>1, <5>2, <5>3
        <4> QED
          BY <4>1, <4>2
      <3> QED
        BY <1>0, <2>1, <2>4, <3>2, <3>5, ClaimsKept
    <2> QED
      BY <2>1, <2>2, <2>3, <2>4 DEF LimitsInv
  <1>6. CASE (EditChains /\ UNCHANGED <<domain, request, overlapped, raised>>) \/ UNCHANGED vars
    BY <1>2, <1>6 DEF domain, vars
  <1> QED
    BY <1>3, <1>4, <1>5, <1>6 DEF Next

\* While a scholar's applications come one at a time, what they add up to stays within the limits.
LEMMA LimitsMean == TypeOK /\ ApartInv /\ LimitsInv => WithinLimits
  BY DaysAre, CommittedIs DEF ApartInv, LimitsInv, LeavesFit, ClaimsFit, WithinLimits

LEMMA LimitsInit == Init => LimitsInv
  <1> SUFFICES ASSUME Init
               PROVE  LimitsInv
    OBVIOUS
  <1>1. leaves = <<>> /\ claims = <<>> /\ \A w \in Workers : request[w] = Idle
    BY DEF Init
  <1>2. \A type, year : Pool(type, year) = {}
    BY <1>1 DEF Pool
  <1>3. Upheld = {}
    BY <1>1 DEF Upheld
  <1>4. \A type, year : DaysIn(type, year) = 0
    BY <1>2, SumEmpty DEF DaysIn
  <1>5. SumOf(Weight, Upheld) = 0
    BY <1>3, SumEmpty
  <1> QED
    BY <1>1, <1>4, <1>5, ScholarRequestsAssumption DEF LimitsInv, LeavesFit, ClaimsFit, Idle

\* What is asked for once is had once, whoever asks for it at the same time; and while a scholar's
\* applications come one at a time, leave stays within the cap of its year or of the programme, the
\* events of grants apart, and grants within the lifetime cap, whatever part of a claim is approved and
\* whenever an amount is lowered, until the office sets one above what its claim counted for.
THEOREM GrantsStayBounded == Spec => []GrantsBounded
  <1>1. Init => ApartInv
    BY DEF Init, ApartInv, ClaimsApart, Idle
  <1>2. AgreeInv => TypeOK
    BY DEF AgreeInv
  <1>3. Spec => []WithinLimits
    BY <1>1, <1>2, AgreeInit, AgreeNext, ApartNext, LimitsInit, LimitsNext, LimitsMean, PTL DEF Spec
  <1>4. TakenOnce /\ WithinLimits => GrantsBounded
    BY DEF GrantsBounded
  <1> QED
    BY <1>3, <1>4, TakenAtMostOnce, PTL

-----------------------------------------------------------------------------
(* Assistantship: the types *)

\* What each kind of work carries.
LEMMA WorkFields ==
    ASSUME TaTypeOK, NEW c \in Clerks
    PROVE  /\ clerk[c].op = "register" => clerk[c].semester \in Semesters
           /\ clerk[c].op = "assign" => clerk[c].id \in Nat /\ clerk[c].load \in Loads
           /\ NoWork.op = "none"
  <1>1. clerk[c] \in {NoWork} \cup Registering \cup Assigning
    BY DEF TaTypeOK
  <1> QED
    BY <1>1 DEF NoWork, Registering, Assigning

\* What an assignment makes of a registration, and of no other.
LEMMA AssignmentInserted ==
    ASSUME TaTypeOK, NEW c \in Clerks, InsertAssignment(c), clerk[c].id \in Ids
    PROVE  LET i == clerk[c].id
               load == clerk[c].load
           IN  /\ registrations' \in Seq(Registration)
               /\ DOMAIN registrations' = DOMAIN registrations
               /\ \A j \in Ids : /\ j # i => registrations'[j] = registrations[j]
                                 /\ registrations'[j].semester = registrations[j].semester
                                 /\ registrations'[j].feedback = registrations[j].feedback
               /\ registrations'[i].hours = registrations[i].hours + load.hours
               /\ registrations'[i].contact = registrations[i].contact + load.contact
               /\ registrations'[i].state \in {"INDUCTED", "COMPLETED"}
  <1> DEFINE i == clerk[c].id
             load == clerk[c].load
             state == IF registrations[i].state \in {"REGISTERED", "LISTED"} THEN "INDUCTED"
                      ELSE registrations[i].state
             row == [registrations[i] EXCEPT !.hours = @ + load.hours, !.contact = @ + load.contact,
                                             !.state = state]
  <1>0. load \in Loads
    BY WorkFields DEF InsertAssignment
  <1>1. registrations[i] \in Registration /\ load \in [hours : Nat, contact : Nat]
    <2>1. registrations \in Seq(Registration) /\ i \in DOMAIN registrations
      BY DEF TaTypeOK, Ids
    <2> QED
      BY <1>0, <2>1, AssistanceAssumption
  <1>2. state \in {"INDUCTED", "COMPLETED"}
    BY <1>1 DEF Registration, State
  <1>3. registrations' = [registrations EXCEPT ![i] = row]
    BY DEF InsertAssignment
  <1> HIDE DEF state, load
  <1>4. /\ row \in Registration
        /\ row.semester = registrations[i].semester
        /\ row.feedback = registrations[i].feedback
        /\ row.hours = registrations[i].hours + load.hours
        /\ row.contact = registrations[i].contact + load.contact
        /\ row.state = state
    <2> DEFINE old == registrations[i]
    <2>1. old \in Registration
      BY <1>1
    <2>2. old.hours + load.hours \in Nat /\ old.contact + load.contact \in Nat
      BY <1>1 DEF Registration
    <2> HIDE DEF old
    <2>3. row = [old EXCEPT !.hours = old.hours + load.hours, !.contact = old.contact + load.contact,
                            !.state = state]
      BY <2>1 DEF Registration, old
    <2> QED
      BY <1>2, <2>1, <2>2, <2>3 DEF Registration, State, old
  <1> HIDE DEF row, i
  <1>5. i \in DOMAIN registrations /\ registrations \in Seq(Registration)
    BY DEF TaTypeOK, i, Ids
  <1>6. registrations' \in Seq(Registration) /\ DOMAIN registrations' = DOMAIN registrations
    BY <1>3, <1>4, <1>5
  <1>7. registrations'[i] = row /\ \A j \in Ids \ {i} : registrations'[j] = registrations[j]
    BY <1>3, <1>5 DEF Ids
  <1> QED
    BY <1>2, <1>4, <1>5, <1>6, <1>7 DEF i, load

\* What the office does by hand touches neither hours nor semesters, and no satisfactory feedback.
LEMMA OfficeLeaves ==
    ASSUME TaTypeOK, NEW i \in Ids,
           SetState(i) \/ \E x \in Sources, verdict \in Verdict \ {"NONE"} : GiveFeedback(i, x, verdict)
    PROVE  /\ registrations' \in Seq(Registration)
           /\ DOMAIN registrations' = DOMAIN registrations
           /\ \A j \in Ids : /\ registrations'[j].semester = registrations[j].semester
                             /\ registrations'[j].hours = registrations[j].hours
                             /\ registrations'[j].contact = registrations[j].contact
                             /\ registrations[j].state \in {"INDUCTED", "COMPLETED"} =>
                                    registrations'[j].state \in {"INDUCTED", "COMPLETED"}
                             /\ \A x \in Sources : registrations[j].feedback[x] = "SATISFACTORY" =>
                                    registrations'[j].feedback[x] = "SATISFACTORY"
           /\ UNCHANGED <<clerk, hasty>>
  <1>1. registrations \in Seq(Registration) /\ i \in DOMAIN registrations
    BY DEF TaTypeOK, Ids
  <1>2. registrations[i] \in Registration
    BY <1>1
  <1>3. ASSUME NEW state \in State,
               registrations' = [registrations EXCEPT ![i].state = state],
               registrations[i].state \in {"INDUCTED", "COMPLETED"} => state \in {"INDUCTED", "COMPLETED"}
        PROVE  /\ registrations' \in Seq(Registration)
               /\ DOMAIN registrations' = DOMAIN registrations
               /\ \A j \in Ids : /\ registrations'[j].semester = registrations[j].semester
                                 /\ registrations'[j].hours = registrations[j].hours
                                 /\ registrations'[j].contact = registrations[j].contact
                                 /\ registrations[j].state \in {"INDUCTED", "COMPLETED"} =>
                                        registrations'[j].state \in {"INDUCTED", "COMPLETED"}
                                 /\ \A x \in Sources : registrations[j].feedback[x] = "SATISFACTORY" =>
                                        registrations'[j].feedback[x] = "SATISFACTORY"
    <2> DEFINE row == [registrations[i] EXCEPT !.state = state]
    <2>1. /\ row \in Registration
          /\ row.semester = registrations[i].semester
          /\ row.hours = registrations[i].hours
          /\ row.contact = registrations[i].contact
          /\ row.feedback = registrations[i].feedback
          /\ row.state = state
      BY <1>2 DEF Registration
    <2>2. registrations' = [registrations EXCEPT ![i] = row]
      BY <1>3
    <2> HIDE DEF row
    <2>3. registrations' \in Seq(Registration) /\ DOMAIN registrations' = DOMAIN registrations
      BY <1>1, <2>1, <2>2
    <2>4. registrations'[i] = row /\ \A j \in Ids \ {i} : registrations'[j] = registrations[j]
      BY <1>1, <2>2 DEF Ids
    <2> QED
      BY <1>3, <2>1, <2>3, <2>4
  <1>4. CASE SetState(i)
    <2>1. UNCHANGED <<clerk, hasty>>
      BY <1>4 DEF SetState
    <2>2. \E state \in State :
             /\ registrations' = [registrations EXCEPT ![i].state = state]
             /\ registrations[i].state \in {"INDUCTED", "COMPLETED"} => state \in {"INDUCTED", "COMPLETED"}
      BY <1>4 DEF SetState, State
    <2> QED
      BY <1>3, <2>1, <2>2
  <1>5. ASSUME NEW x \in Sources, NEW verdict \in Verdict \ {"NONE"}, GiveFeedback(i, x, verdict)
        PROVE  /\ registrations' \in Seq(Registration)
               /\ DOMAIN registrations' = DOMAIN registrations
               /\ \A j \in Ids : /\ registrations'[j].semester = registrations[j].semester
                                 /\ registrations'[j].hours = registrations[j].hours
                                 /\ registrations'[j].contact = registrations[j].contact
                                 /\ registrations'[j].state = registrations[j].state
                                 /\ \A y \in Sources : registrations[j].feedback[y] = "SATISFACTORY" =>
                                        registrations'[j].feedback[y] = "SATISFACTORY"
               /\ UNCHANGED <<clerk, hasty>>
    <2> DEFINE feedback == [registrations[i].feedback EXCEPT ![x] = verdict]
               row == [registrations[i] EXCEPT !.feedback = feedback]
    <2>1. /\ registrations[i].feedback[x] # "SATISFACTORY"
          /\ registrations' = [registrations EXCEPT ![i] = row]
          /\ UNCHANGED <<clerk, hasty>>
      BY <1>5 DEF GiveFeedback
    <2>2. registrations[i].feedback \in [Sources -> Verdict]
      BY <1>2 DEF Registration
    <2>3. /\ feedback \in [Sources -> Verdict]
          /\ \A y \in Sources : registrations[i].feedback[y] = "SATISFACTORY" => feedback[y] = "SATISFACTORY"
      BY <2>1, <2>2
    <2> HIDE DEF feedback
    <2>4. /\ row \in Registration
          /\ row.semester = registrations[i].semester
          /\ row.hours = registrations[i].hours
          /\ row.contact = registrations[i].contact
          /\ row.state = registrations[i].state
          /\ row.feedback = feedback
      BY <1>2, <2>3 DEF Registration
    <2> HIDE DEF row
    <2>5. registrations' \in Seq(Registration) /\ DOMAIN registrations' = DOMAIN registrations
      BY <1>1, <2>1, <2>4
    <2>6. registrations'[i] = row /\ \A j \in Ids \ {i} : registrations'[j] = registrations[j]
      BY <1>1, <2>1 DEF Ids
    <2> QED
      BY <2>1, <2>3, <2>4, <2>5, <2>6
  <1> QED
    BY <1>4, <1>5

\* Work in hand is for a registration there is.
AtWork == \A c \in Clerks : clerk[c].op = "assign" => clerk[c].id \in Ids

LEMMA RegistrationInserted ==
    ASSUME TaTypeOK, NEW c \in Clerks, InsertRegistration(c)
    PROVE  LET n == Len(registrations) + 1
           IN  /\ registrations' \in Seq(Registration)
               /\ DOMAIN registrations' = DOMAIN registrations \cup {n}
               /\ n \notin DOMAIN registrations
               /\ Len(registrations') = n
               /\ registrations'[n] = Fresh(clerk[c].semester)
               /\ \A i \in DOMAIN registrations : registrations'[i] = registrations[i]
  <1>1. Fresh(clerk[c].semester) \in Registration
    BY WorkFields DEF InsertRegistration, Fresh, Registration, State, Verdict
  <1>2. registrations' = Append(registrations, Fresh(clerk[c].semester)) /\ registrations \in Seq(Registration)
    BY DEF InsertRegistration, TaTypeOK
  <1> HIDE DEF Fresh
  <1> QED
    BY <1>1, <1>2

LEMMA TaTyped == TaTypeOK /\ AtWork /\ [TaNext]_taVars => TaTypeOK' /\ AtWork'
  <1> SUFFICES ASSUME TaTypeOK, AtWork, [TaNext]_taVars
               PROVE  TaTypeOK' /\ AtWork'
    OBVIOUS
  <1>0. NoWork.op = "none"
    BY DEF NoWork
  <1>1. ASSUME NEW c \in Clerks, NEW s \in Semesters, OpenRegistration(c, s)
        PROVE  TaTypeOK' /\ AtWork'
    <2>1. [op |-> "register", semester |-> s] \in Registering
      BY DEF Registering
    <2>2. hasty' \in BOOLEAN
      BY <1>1, Zenon DEF OpenRegistration
    <2>3. /\ registrations' = registrations
          /\ clerk' = [clerk EXCEPT ![c] = [op |-> "register", semester |-> s]]
      BY <1>1 DEF OpenRegistration, Occupy
    <2> QED
      BY <2>1, <2>2, <2>3 DEF TaTypeOK, AtWork, Ids
  <1>2. ASSUME NEW c \in Clerks, NEW i \in Ids, NEW load \in Loads, OpenAssignment(c, i, load)
        PROVE  TaTypeOK' /\ AtWork'
    <2>1. [op |-> "assign", id |-> i, load |-> load] \in Assigning
      BY DEF Assigning, Ids, TaTypeOK
    <2>2. /\ UNCHANGED <<registrations, hasty>>
          /\ clerk' = [clerk EXCEPT ![c] = [op |-> "assign", id |-> i, load |-> load]]
      BY <1>2 DEF OpenAssignment, Occupy
    <2> QED
      BY <2>1, <2>2 DEF TaTypeOK, AtWork, Ids
  <1>3. ASSUME NEW c \in Clerks, InsertRegistration(c)
        PROVE  TaTypeOK' /\ AtWork'
    <2>1. clerk' = [clerk EXCEPT ![c] = NoWork] /\ UNCHANGED hasty
      BY <1>3 DEF InsertRegistration
    <2> QED
      BY <1>0, <1>3, <2>1, RegistrationInserted DEF TaTypeOK, AtWork, Ids
  <1>4. ASSUME NEW c \in Clerks, InsertAssignment(c)
        PROVE  TaTypeOK' /\ AtWork'
    <2>1. clerk' = [clerk EXCEPT ![c] = NoWork] /\ UNCHANGED hasty
      BY <1>4 DEF InsertAssignment
    <2>2. clerk[c].id \in Ids
      BY <1>4 DEF InsertAssignment, AtWork
    <2>3. registrations' \in Seq(Registration) /\ DOMAIN registrations' = DOMAIN registrations
      BY <1>4, <2>2, AssignmentInserted
    <2> QED
      BY <1>0, <2>1, <2>3 DEF TaTypeOK, AtWork, Ids
  <1>5. ASSUME NEW c \in Clerks, Abandon(c)
        PROVE  TaTypeOK' /\ AtWork'
    BY <1>0, <1>5 DEF Abandon, TaTypeOK, AtWork, Ids
  <1>6. ASSUME NEW i \in Ids,
               SetState(i) \/ \E x \in Sources, verdict \in Verdict \ {"NONE"} : GiveFeedback(i, x, verdict)
        PROVE  TaTypeOK' /\ AtWork'
    <2>1. /\ registrations' \in Seq(Registration)
          /\ DOMAIN registrations' = DOMAIN registrations
          /\ UNCHANGED <<clerk, hasty>>
      BY <1>6, OfficeLeaves
    <2> QED
      BY <2>1 DEF TaTypeOK, AtWork, Ids
  <1>7. CASE UNCHANGED taVars
    BY <1>7 DEF taVars, TaTypeOK, AtWork, Ids
  <1> QED
    BY <1>1, <1>2, <1>3, <1>4, <1>5, <1>6, <1>7 DEF TaNext

LEMMA TaInitTyped == TaInit => TaTypeOK /\ AtWork
  <1> SUFFICES ASSUME TaInit
               PROVE  TaTypeOK /\ AtWork
    OBVIOUS
  <1>1. hasty \in BOOLEAN
    BY Zenon DEF TaInit
  <1> QED
    BY <1>1 DEF TaInit, TaTypeOK, AtWork, NoWork

\* The registrations and what each clerk is doing keep their types.
THEOREM TaTypeCorrect == TaSpec => []TaTypeOK
  BY TaInitTyped, TaTyped, PTL DEF TaSpec

-----------------------------------------------------------------------------
(* Assistantship: the hours of all assignments together *)

\* An assignment in hand holds its registration's row, and still fits.
AssignmentsFit ==
    /\ \A c \in Clerks :
          clerk[c].op = "assign" =>
             LET r == registrations[clerk[c].id]
                 load == clerk[c].load
             IN  /\ load.contact <= load.hours
                 /\ r.hours + load.hours <= MaxHours
                 /\ r.contact + load.contact <= MaxContact
    /\ \A c, d \in Clerks :
          clerk[c].op = "assign" /\ clerk[d].op = "assign" /\ clerk[c].id = clerk[d].id => c = d

HoursInv == TaTypeOK /\ AtWork /\ HoursHeld /\ AssignmentsFit

\* Where the sums stay and states do not fall back, and no assignment is taken up, nothing can go wrong.
LEMMA HoursKept ==
    ASSUME HoursInv,
           DOMAIN registrations' = DOMAIN registrations,
           \A j \in Ids : /\ registrations'[j].hours = registrations[j].hours
                          /\ registrations'[j].contact = registrations[j].contact
                          /\ registrations[j].state \in {"INDUCTED", "COMPLETED"} =>
                                 registrations'[j].state \in {"INDUCTED", "COMPLETED"},
           \A c \in Clerks : clerk'[c] = clerk[c] \/ clerk'[c].op # "assign"
    PROVE  HoursHeld' /\ AssignmentsFit'
  <1>1. \A c \in Clerks : clerk'[c].op = "assign" => clerk'[c] = clerk[c] /\ clerk[c].id \in Ids
    BY DEF HoursInv, AtWork
  <1>2. HoursHeld'
    BY DEF HoursInv, HoursHeld, Ids
  <1>3. AssignmentsFit'
    BY <1>1 DEF HoursInv, AssignmentsFit
  <1> QED
    BY <1>2, <1>3

LEMMA HoursNext == HoursInv /\ [TaNext]_taVars => HoursInv'
  <1> SUFFICES ASSUME HoursInv, [TaNext]_taVars
               PROVE  HoursHeld' /\ AssignmentsFit'
    BY TaTyped DEF HoursInv
  <1>0. TaTypeOK /\ AtWork /\ NoWork.op = "none" /\ clerk \in [Clerks -> {NoWork} \cup Registering \cup Assigning]
    BY DEF HoursInv, NoWork, TaTypeOK
  <1>1. ASSUME NEW c \in Clerks, NEW s \in Semesters, OpenRegistration(c, s)
        PROVE  HoursHeld' /\ AssignmentsFit'
    <2>1. registrations' = registrations /\ clerk' = [clerk EXCEPT ![c] = [op |-> "register", semester |-> s]]
      BY <1>1 DEF OpenRegistration, Occupy
    <2> QED
      BY <1>0, <2>1, HoursKept
  <1>2. ASSUME NEW c \in Clerks, NEW i \in Ids, NEW load \in Loads, OpenAssignment(c, i, load)
        PROVE  HoursHeld' /\ AssignmentsFit'
    <2> DEFINE work == [op |-> "assign", id |-> i, load |-> load]
    <2>1. registrations' = registrations /\ clerk' = [clerk EXCEPT ![c] = work]
      BY <1>2 DEF OpenAssignment, Occupy
    <2>2. clerk'[c] = work /\ \A d \in Clerks \ {c} : clerk'[d] = clerk[d]
      BY <1>0, <2>1
    <2>3. \A d \in Clerks : clerk[d].op = "assign" => clerk[d].id # i
      BY <1>2 DEF OpenAssignment, Locked
    <2>4. HoursHeld'
      BY <2>1 DEF HoursInv, HoursHeld, Ids
    <2>5. AssignmentsFit'
      BY <1>2, <2>1, <2>2, <2>3 DEF HoursInv, AssignmentsFit, OpenAssignment
    <2> QED
      BY <2>4, <2>5
  <1>3. ASSUME NEW c \in Clerks, InsertRegistration(c)
        PROVE  HoursHeld' /\ AssignmentsFit'
    <2> DEFINE n == Len(registrations) + 1
    <2>1. clerk' = [clerk EXCEPT ![c] = NoWork]
      BY <1>3 DEF InsertRegistration
    <2>2. /\ DOMAIN registrations' = DOMAIN registrations \cup {n}
          /\ registrations'[n] = Fresh(clerk[c].semester)
          /\ \A i \in DOMAIN registrations : registrations'[i] = registrations[i]
      BY <1>0, <1>3, RegistrationInserted
    <2>3. Fresh(clerk[c].semester).hours = 0 /\ Fresh(clerk[c].semester).contact = 0
      BY DEF Fresh
    <2>4. HoursHeld'
      <3> SUFFICES ASSUME NEW i \in Ids'
                   PROVE  LET r == registrations'[i]
                          IN  /\ r.contact <= r.hours /\ r.hours <= MaxHours /\ r.contact <= MaxContact
                              /\ r.hours > 0 => r.state \in {"INDUCTED", "COMPLETED"}
        BY DEF HoursHeld
      <3>1. CASE i = n
        BY <2>2, <2>3, <3>1, AssistanceAssumption
      <3>2. CASE i # n
        BY <2>2, <3>2 DEF HoursInv, HoursHeld, Ids
      <3> QED
        BY <3>1, <3>2
    <2>5. \A d \in Clerks : clerk'[d].op = "assign" => clerk'[d] = clerk[d] /\ clerk[d].id \in Ids
      BY <1>0, <2>1 DEF AtWork
    <2>6. AssignmentsFit'
      BY <2>2, <2>5 DEF HoursInv, AssignmentsFit, Ids
    <2> QED
      BY <2>4, <2>6
  <1>4. ASSUME NEW c \in Clerks, InsertAssignment(c)
        PROVE  HoursHeld' /\ AssignmentsFit'
    <2> DEFINE i == clerk[c].id
               load == clerk[c].load
    <2>1. clerk' = [clerk EXCEPT ![c] = NoWork] /\ clerk[c].op = "assign" /\ i \in Ids
      BY <1>0, <1>4 DEF InsertAssignment, AtWork
    <2>2. /\ registrations' \in Seq(Registration)
          /\ DOMAIN registrations' = DOMAIN registrations
          /\ \A j \in Ids : j # i => registrations'[j] = registrations[j]
          /\ registrations'[i].hours = registrations[i].hours + load.hours
          /\ registrations'[i].contact = registrations[i].contact + load.contact
          /\ registrations'[i].state \in {"INDUCTED", "COMPLETED"}
      BY <1>0, <1>4, <2>1, AssignmentInserted
    <2>3. load \in [hours : Nat, contact : Nat] /\ registrations[i] \in Registration
      <3>1. load \in Loads
        BY <1>0, <2>1, WorkFields
      <3>2. registrations \in Seq(Registration) /\ i \in DOMAIN registrations
        BY <2>1 DEF HoursInv, TaTypeOK, Ids
      <3> QED
        BY <3>1, <3>2, AssistanceAssumption
    <2>4. /\ registrations[i].hours \in Nat /\ registrations[i].contact \in Nat
          /\ load.hours \in Nat /\ load.contact \in Nat
      BY <2>3 DEF Registration
    <2>5. /\ load.contact <= load.hours
          /\ registrations[i].hours + load.hours <= MaxHours
          /\ registrations[i].contact + load.contact <= MaxContact
          /\ registrations[i].contact <= registrations[i].hours
      BY <2>1 DEF HoursInv, AssignmentsFit, HoursHeld
    <2>6. \A d \in Clerks : clerk'[d].op = "assign" => /\ clerk'[d] = clerk[d]
                                                      /\ clerk[d].id \in Ids \ {i}
      BY <1>0, <2>1 DEF HoursInv, AssignmentsFit, AtWork
    <2> HIDE DEF i, load
    <2>7. HoursHeld'
      <3> SUFFICES ASSUME NEW j \in Ids'
                   PROVE  LET r == registrations'[j]
                          IN  /\ r.contact <= r.hours /\ r.hours <= MaxHours /\ r.contact <= MaxContact
                              /\ r.hours > 0 => r.state \in {"INDUCTED", "COMPLETED"}
        BY DEF HoursHeld
      <3>1. CASE j = i
        BY <2>2, <2>4, <2>5, <3>1
      <3>2. CASE j # i
        BY <2>2, <3>2 DEF HoursInv, HoursHeld, Ids
      <3> QED
        BY <3>1, <3>2
    <2>8. AssignmentsFit'
      BY <2>2, <2>6 DEF HoursInv, AssignmentsFit
    <2> QED
      BY <2>7, <2>8
  <1>5. ASSUME NEW c \in Clerks, Abandon(c)
        PROVE  HoursHeld' /\ AssignmentsFit'
    <2>1. registrations' = registrations /\ clerk' = [clerk EXCEPT ![c] = NoWork]
      BY <1>5 DEF Abandon
    <2> QED
      BY <1>0, <2>1, HoursKept
  <1>6. ASSUME NEW i \in Ids,
               SetState(i) \/ \E x \in Sources, verdict \in Verdict \ {"NONE"} : GiveFeedback(i, x, verdict)
        PROVE  HoursHeld' /\ AssignmentsFit'
    BY <1>0, <1>6, OfficeLeaves, HoursKept
  <1>7. CASE UNCHANGED taVars
    BY <1>7, HoursKept DEF taVars
  <1> QED
    BY <1>1, <1>2, <1>3, <1>4, <1>5, <1>6, <1>7 DEF TaNext

\* The row lock of assign_ta keeps the hours of all assignments of a semester together within the caps,
\* however many are made at once, and whoever has hours has been inducted.
THEOREM HoursStayHeld == TaSpec => []HoursHeld
  <1>1. TaInit => HoursInv
    BY TaInitTyped DEF TaInit, HoursInv, HoursHeld, AssignmentsFit, NoWork, Ids
  <1>2. HoursInv => HoursHeld
    BY DEF HoursInv
  <1> QED
    BY <1>1, <1>2, HoursNext, PTL DEF TaSpec

-----------------------------------------------------------------------------
(* Assistantship: the semesters a scholar earns *)

EarnedSoFar ==
    /\ Len(registrations) <= MaxSemesters
    /\ \A i, j \in Ids :
          /\ i < j
          /\ registrations[i].semester < registrations[j].semester
          /\ \A k \in 1..(j - 1) : registrations[k].semester < registrations[j].semester =>
                                      registrations[k].semester <= registrations[i].semester
          => Praised(i)

\* A registration in hand alone still finds what it found when it was opened.
StillEligible ==
    /\ \A c, d \in Clerks : clerk[c].op = "register" /\ clerk[d].op = "register" => c = d
    /\ \A c \in Clerks : clerk[c].op = "register" => TaEligible(clerk[c].semester)

EarnedInv == TaTypeOK /\ AtWork /\ (~hasty => EarnedSoFar /\ StillEligible)

\* A step that adds no registration and unsays no praise.
PraiseStands ==
    /\ registrations' \in Seq(Registration)
    /\ DOMAIN registrations' = DOMAIN registrations
    /\ \A j \in Ids :
          /\ registrations'[j].semester = registrations[j].semester
          /\ \A x \in Sources : registrations[j].feedback[x] = "SATISFACTORY" =>
                                 registrations'[j].feedback[x] = "SATISFACTORY"

LEMMA EligibleStays ==
    ASSUME TaTypeOK, PraiseStands, NEW s \in Semesters, TaEligible(s)
    PROVE  TaEligible(s)'
  <1>1. {i \in Ids' : registrations'[i].semester # s} = {i \in Ids : registrations[i].semester # s}
    BY DEF PraiseStands, Ids
  <1>2. Previous(s)' = Previous(s)
    BY DEF PraiseStands, Ids, Previous
  <1>3. \A i \in Previous(s) : Praised(i)'
    BY DEF PraiseStands, TaEligible, Praised, Previous
  <1> QED
    BY <1>1, <1>2, <1>3 DEF TaEligible

LEMMA EarnedKept ==
    ASSUME EarnedInv, PraiseStands, UNCHANGED hasty,
           \A c \in Clerks : clerk'[c].op = "register" => clerk'[c] = clerk[c]
    PROVE  ~hasty' => EarnedSoFar' /\ StillEligible'
  <1> SUFFICES ASSUME ~hasty
               PROVE  EarnedSoFar' /\ StillEligible'
    OBVIOUS
  <1>0. TaTypeOK /\ EarnedSoFar /\ StillEligible
    BY DEF EarnedInv
  <1>1. Len(registrations') = Len(registrations)
    BY <1>0 DEF PraiseStands, TaTypeOK
  <1>2. \A i \in Ids : Praised(i) => Praised(i)'
    BY DEF PraiseStands, Praised
  <1>3. EarnedSoFar'
    <2> SUFFICES ASSUME NEW i \in Ids, NEW j \in Ids, i < j,
                        registrations'[i].semester < registrations'[j].semester,
                        \A k \in 1..(j - 1) : registrations'[k].semester < registrations'[j].semester =>
                                                registrations'[k].semester <= registrations'[i].semester
                 PROVE  Praised(i)
      BY <1>0, <1>1, <1>2 DEF EarnedSoFar, PraiseStands, Ids
    <2>1. \A k \in 1..(j - 1) : k \in Ids
      BY <1>0 DEF TaTypeOK, Ids
    <2> QED
      BY <1>0, <2>1 DEF EarnedSoFar, PraiseStands
  <1>4. StillEligible'
    <2>1. ASSUME NEW c \in Clerks, clerk'[c].op = "register"
          PROVE  TaEligible(clerk[c].semester)'
      <3>1. PICK s \in Semesters : s = clerk[c].semester /\ s = clerk'[c].semester
        BY <1>0, <2>1, WorkFields
      <3>2. TaEligible(s)
        BY <1>0, <2>1, <3>1 DEF StillEligible
      <3>3. TaEligible(s)'
        BY <1>0, <3>2, EligibleStays
      <3> QED
        BY <3>1, <3>3 DEF TaEligible, Previous, Praised, Ids
    <2>2. \A c, d \in Clerks : clerk'[c].op = "register" /\ clerk'[d].op = "register" => c = d
      BY <1>0 DEF StillEligible
    <2> QED
      BY <2>1, <2>2 DEF StillEligible
  <1> QED
    BY <1>3, <1>4

LEMMA EarnedNext == EarnedInv /\ [TaNext]_taVars => EarnedInv'
  <1> SUFFICES ASSUME EarnedInv, [TaNext]_taVars
               PROVE  ~hasty' => EarnedSoFar' /\ StillEligible'
    BY TaTyped DEF EarnedInv
  <1>0. /\ TaTypeOK /\ AtWork /\ NoWork.op = "none"
        /\ registrations \in Seq(Registration)
        /\ clerk \in [Clerks -> {NoWork} \cup Registering \cup Assigning]
    BY DEF EarnedInv, NoWork, TaTypeOK
  <1>1. ASSUME NEW c \in Clerks, NEW s \in Semesters, OpenRegistration(c, s)
        PROVE  ~hasty' => EarnedSoFar' /\ StillEligible'
    <2> SUFFICES ASSUME ~hasty'
                 PROVE  EarnedSoFar' /\ StillEligible'
      OBVIOUS
    <2> DEFINE work == [op |-> "register", semester |-> s]
    <2>1. registrations' = registrations /\ clerk' = [clerk EXCEPT ![c] = work] /\ TaEligible(s)
      BY <1>1 DEF OpenRegistration, Occupy
    <2>2. ~hasty /\ \A d \in Clerks : clerk[d].op # "register"
      BY <1>1 DEF OpenRegistration
    <2>3. clerk'[c] = work /\ \A d \in Clerks \ {c} : clerk'[d] = clerk[d]
      BY <1>0, <2>1
    <2>4. EarnedSoFar'
      BY <2>1, <2>2 DEF EarnedInv, EarnedSoFar, Praised, Ids
    <2>5. \A d \in Clerks : clerk'[d].op = "register" => d = c /\ clerk'[d].semester = s
      BY <2>2, <2>3
    <2>6. StillEligible'
      BY <2>1, <2>5 DEF StillEligible, TaEligible, Previous, Praised, Ids
    <2> QED
      BY <2>4, <2>6
  <1>2. ASSUME NEW c \in Clerks, NEW i \in Ids, NEW load \in Loads, OpenAssignment(c, i, load)
        PROVE  ~hasty' => EarnedSoFar' /\ StillEligible'
    <2>1. /\ UNCHANGED <<registrations, hasty>>
          /\ clerk' = [clerk EXCEPT ![c] = [op |-> "assign", id |-> i, load |-> load]]
      BY <1>2 DEF OpenAssignment, Occupy
    <2>2. \A d \in Clerks : clerk'[d].op = "register" => clerk'[d] = clerk[d]
      BY <1>0, <2>1
    <2>3. PraiseStands
      BY <1>0, <2>1 DEF PraiseStands
    <2> QED
      BY <2>1, <2>2, <2>3, EarnedKept
  <1>3. ASSUME NEW c \in Clerks, InsertRegistration(c)
        PROVE  ~hasty' => EarnedSoFar' /\ StillEligible'
    <2> SUFFICES ASSUME ~hasty'
                 PROVE  EarnedSoFar' /\ StillEligible'
      OBVIOUS
    <2> DEFINE n == Len(registrations) + 1
    <2>1. PICK s \in Semesters : s = clerk[c].semester
      BY <1>0, <1>3, WorkFields DEF InsertRegistration
    <2>2. /\ clerk' = [clerk EXCEPT ![c] = NoWork] /\ ~hasty /\ clerk[c].op = "register"
          /\ \A i \in Ids : registrations[i].semester # s
      BY <1>3, <2>1 DEF InsertRegistration
    <2>3. /\ DOMAIN registrations' = DOMAIN registrations \cup {n}
          /\ Len(registrations') = n
          /\ registrations'[n].semester = s
          /\ \A i \in DOMAIN registrations : registrations'[i] = registrations[i]
      <3>1. Fresh(clerk[c].semester).semester = s
        BY <2>1 DEF Fresh
      <3> QED
        BY <1>0, <1>3, <3>1, RegistrationInserted
    <2>4. EarnedSoFar /\ StillEligible
      BY <2>2 DEF EarnedInv
    <2>5. TaEligible(s)
      BY <2>1, <2>2, <2>4 DEF StillEligible
    <2>6. Len(registrations) \in Nat /\ DOMAIN registrations = 1..Len(registrations)
      BY <1>0
    <2>7. n <= MaxSemesters
      <3>1. {i \in Ids : registrations[i].semester # s} = 1..Len(registrations)
        BY <2>2, <2>6 DEF Ids
      <3>2. Cardinality(1..Len(registrations)) = Len(registrations)
        <4>1. Cardinality(1..Len(registrations)) = IF 1 > Len(registrations) THEN 0 ELSE Len(registrations) - 1 + 1
          BY <2>6, FS_Interval
        <4> QED
          BY <2>6, <4>1
      <3>3. Cardinality({i \in Ids : registrations[i].semester # s}) < MaxSemesters
        BY <2>5 DEF TaEligible
      <3>4. Len(registrations) < MaxSemesters
        BY <3>1, <3>2, <3>3
      <3> QED
        BY <2>6, <3>4, AssistanceAssumption
    <2>8. EarnedSoFar'
      <3> SUFFICES ASSUME NEW i \in Ids', NEW j \in Ids', i < j,
                          registrations'[i].semester < registrations'[j].semester,
                          \A k \in 1..(j - 1) : registrations'[k].semester < registrations'[j].semester =>
                                                  registrations'[k].semester <= registrations'[i].semester
                   PROVE  \A x \in Sources : registrations'[i].feedback[x] = "SATISFACTORY"
        BY <2>3, <2>7 DEF EarnedSoFar, Praised
      <3>1. i \in DOMAIN registrations /\ i \in Ids /\ \A k \in 1..(j - 1) : k \in DOMAIN registrations
        BY <2>3, <2>6 DEF Ids
      <3>2. registrations'[i] = registrations[i]
        BY <2>3, <3>1
      <3>3. CASE j = n
        <4>1. i \in Previous(s)
          <5>1. registrations[i].semester < s
            BY <2>3, <3>2, <3>3
          <5>2. \A k \in Ids : k \in 1..(j - 1)
            BY <2>6, <3>3 DEF Ids
          <5>3. \A k \in Ids : registrations[k].semester < s => registrations[k].semester <= registrations[i].semester
            BY <2>3, <3>2, <3>3, <5>2 DEF Ids
          <5> QED
            BY <3>1, <5>1, <5>3 DEF Previous
        <4> QED
          BY <2>5, <3>2, <4>1 DEF TaEligible, Praised
      <3>4. CASE j # n
        <4>1. j \in Ids
          BY <2>3, <3>4 DEF Ids
        <4>2. registrations'[j] = registrations[j]
          BY <2>3, <4>1 DEF Ids
        <4>3. \A k \in 1..(j - 1) : registrations[k].semester < registrations[j].semester =>
                                    registrations[k].semester <= registrations[i].semester
          BY <2>3, <3>1, <3>2, <4>2
        <4> QED
          BY <2>4, <3>1, <3>2, <4>1, <4>2, <4>3 DEF EarnedSoFar, Praised
      <3> QED
        BY <3>3, <3>4
    <2>9. \A d \in Clerks : clerk'[d].op # "register"
      BY <1>0, <2>2, <2>4 DEF StillEligible
    <2>10. StillEligible'
      BY <2>9 DEF StillEligible
    <2> QED
      BY <2>8, <2>10
  <1>4. ASSUME NEW c \in Clerks, InsertAssignment(c)
        PROVE  ~hasty' => EarnedSoFar' /\ StillEligible'
    <2>1. clerk' = [clerk EXCEPT ![c] = NoWork] /\ UNCHANGED hasty /\ clerk[c].id \in Ids
      BY <1>0, <1>4 DEF InsertAssignment, AtWork
    <2>2. \A d \in Clerks : clerk'[d].op = "register" => clerk'[d] = clerk[d]
      BY <1>0, <2>1
    <2>3. /\ registrations' \in Seq(Registration)
          /\ DOMAIN registrations' = DOMAIN registrations
          /\ \A j \in Ids : /\ registrations'[j].semester = registrations[j].semester
                            /\ registrations'[j].feedback = registrations[j].feedback
      BY <1>0, <1>4, <2>1, AssignmentInserted
    <2>4. PraiseStands
      BY <2>3 DEF PraiseStands
    <2> QED
      BY <2>1, <2>2, <2>4, EarnedKept
  <1>5. ASSUME NEW c \in Clerks, Abandon(c)
        PROVE  ~hasty' => EarnedSoFar' /\ StillEligible'
    <2>1. UNCHANGED <<registrations, hasty>> /\ clerk' = [clerk EXCEPT ![c] = NoWork]
      BY <1>5 DEF Abandon
    <2>2. PraiseStands /\ \A d \in Clerks : clerk'[d].op = "register" => clerk'[d] = clerk[d]
      BY <1>0, <2>1 DEF PraiseStands
    <2> QED
      BY <2>1, <2>2, EarnedKept
  <1>6. ASSUME NEW i \in Ids,
               SetState(i) \/ \E x \in Sources, verdict \in Verdict \ {"NONE"} : GiveFeedback(i, x, verdict)
        PROVE  ~hasty' => EarnedSoFar' /\ StillEligible'
    <2>1. PraiseStands /\ UNCHANGED <<clerk, hasty>>
      BY <1>0, <1>6, OfficeLeaves DEF PraiseStands
    <2> QED
      BY <2>1, EarnedKept
  <1>7. CASE UNCHANGED taVars
    <2>1. PraiseStands /\ UNCHANGED <<clerk, hasty>>
      BY <1>0, <1>7 DEF PraiseStands, taVars
    <2> QED
      BY <2>1, EarnedKept
  <1> QED
    BY <1>1, <1>2, <1>3, <1>4, <1>5, <1>6, <1>7 DEF TaNext

\* The hours of all assignments of a semester stay within the caps; and as long as registrations do not
\* cross, a scholar assists in no more semesters than the limit, in each only after everybody was satisfied
\* with the one before, although register_for_ta checks before it inserts.
THEOREM AssistanceStaysSound == TaSpec => []AssistanceSound
  <1>1. TaInit => EarnedInv
    <2> SUFFICES ASSUME TaInit
                 PROVE  EarnedSoFar /\ StillEligible
      BY TaInitTyped DEF EarnedInv
    <2>1. Len(registrations) = 0 /\ Ids = {} /\ \A c \in Clerks : clerk[c].op = "none"
      BY DEF TaInit, Ids, NoWork
    <2> QED
      BY <2>1, AssistanceAssumption DEF EarnedSoFar, StillEligible
  <1>2. EarnedInv => SemestersEarned
    BY DEF EarnedInv, EarnedSoFar, SemestersEarned
  <1>3. HoursHeld /\ SemestersEarned => AssistanceSound
    BY DEF AssistanceSound
  <1> QED
    BY <1>1, <1>2, <1>3, EarnedNext, HoursStayHeld, PTL DEF TaSpec

-----------------------------------------------------------------------------
(* Lifecycle: the types *)

\* Rows are added and never taken away.
RowsGrow ==
    /\ DOMAIN proposals \subseteq DOMAIN proposals'
    /\ DOMAIN reports \subseteq DOMAIN reports'
    /\ DOMAIN reviews \subseteq DOMAIN reviews'

LEMMA InFlightGrows ==
    ASSUME RowsGrow, NEW r \in InFlight
    PROVE  r \in InFlight'
  <1>1. CASE r = Unoccupied
    BY <1>1 DEF InFlight
  <1>2. CASE r \in [op : {"proposal"}, row : DOMAIN proposals, outcome : {"RECOMMENDED", "NOT_RECOMMENDED"},
                    seen : Scholar, cancel : BOOLEAN]
    BY <1>2 DEF InFlight, RowsGrow
  <1>3. CASE r \in [op : {"report"}, row : DOMAIN reports, saved : ProgressReport, warnings : SUBSET DOMAIN reports]
    BY <1>3 DEF InFlight, RowsGrow
  <1>4. CASE r \in [op : {"review"}, row : DOMAIN reviews, decision : {"CONTINUE", "CANCEL"}, seen : Scholar]
    BY <1>4 DEF InFlight, RowsGrow
  <1>5. CASE r \in [op : {"withdraw"}, row : {0}, seen : Scholar]
    BY <1>5 DEF InFlight
  <1> QED
    BY <1>1, <1>2, <1>3, <1>4, <1>5 DEF InFlight

\* What each kind of request carries.
LEMMA InFlightFields ==
    ASSUME LifeTypeOK, NEW w \in Handlers
    PROVE  /\ inflight[w] = Unoccupied <=> inflight[w].op = "idle"
           /\ inflight[w].op = "proposal" => /\ inflight[w].row \in DOMAIN proposals
                                             /\ inflight[w].outcome \in Outcome
                                             /\ inflight[w].seen \in Scholar
                                             /\ inflight[w].cancel \in BOOLEAN
           /\ inflight[w].op = "report" => /\ inflight[w].row \in DOMAIN reports
                                           /\ inflight[w].saved \in ProgressReport
                                           /\ inflight[w].warnings \subseteq DOMAIN reports
           /\ inflight[w].op = "review" => /\ inflight[w].row \in DOMAIN reviews
                                           /\ inflight[w].decision \in DcDecision
                                           /\ inflight[w].seen \in Scholar
           /\ inflight[w].op = "withdraw" => inflight[w].seen \in Scholar
  <1>1. inflight[w] \in InFlight
    BY DEF LifeTypeOK
  <1> QED
    BY <1>1 DEF InFlight, Unoccupied, Outcome, DcDecision

LEMMA LastPhase ==
    /\ Len(Phase) = 10
    /\ DOMAIN Phase = 1..10
    /\ \A p \in DOMAIN Phase : Phase[p] = "DEGREE_AWARD" <=> p = 10
  BY DEF Phase

LEMMA AdvancedTyped ==
    ASSUME LifeTypeOK, scholar.status = "ACTIVE"
    PROVE  /\ Advanced \in Scholar
           /\ scholar.phase = 10 => Advanced = [phase |-> 10, status |-> "AWARDED"]
           /\ scholar.phase # 10 => Advanced = [phase |-> scholar.phase + 1, status |-> "ACTIVE"]
  <1>1. scholar \in [phase : 1..10, status : {"ACTIVE", "AWARDED", "CANCELLED", "WITHDRAWN"}]
    BY LastPhase DEF LifeTypeOK, Scholar
  <1>2. At("DEGREE_AWARD") <=> scholar.phase = 10
    BY <1>1, LastPhase DEF At
  <1>3. scholar = [phase |-> scholar.phase, status |-> "ACTIVE"]
    BY <1>1
  <1>4. CASE scholar.phase = 10
    <2>1. Advanced = [phase |-> 10, status |-> "AWARDED"]
      BY <1>2, <1>3, <1>4 DEF Advanced
    <2> QED
      BY <1>4, <2>1, LastPhase DEF Scholar
  <1>5. CASE scholar.phase # 10
    <2>1. Advanced = [phase |-> scholar.phase + 1, status |-> "ACTIVE"]
      BY <1>2, <1>3, <1>5 DEF Advanced
    <2>2. scholar.phase + 1 \in 1..10
      BY <1>1, <1>5
    <2> QED
      BY <1>5, <2>1, <2>2, LastPhase DEF Scholar
  <1> QED
    BY <1>4, <1>5

LEMMA LifeInitTyped == LifeInit => LifeTypeOK
  <1> SUFFICES ASSUME LifeInit PROVE LifeTypeOK
    OBVIOUS
  <1>1. scholar \in Scholar
    BY LastPhase DEF LifeInit, Scholar
  <1>2. inflight \in [Handlers -> InFlight]
    BY DEF LifeInit, InFlight
  <1>3. /\ met \subseteq DOMAIN Milestone
        /\ panel \in {"NONE", "PENDING", "APPROVED", "REJECTED"}
        /\ crossed \in BOOLEAN
    BY DEF LifeInit
  <1>4. /\ transitions \in Seq(PhaseTransition) /\ proposals \in Seq(Outcome)
        /\ reports \in Seq(ProgressReport) /\ reviews \in Seq(DcDecision)
        /\ examiners \in Seq(Examiner)
    BY DEF LifeInit
  <1> QED
    BY <1>1, <1>2, <1>3, <1>4 DEF LifeTypeOK

\* The log entry of an end, and the scholar after it.
LEMMA TerminateTyped ==
    ASSUME LifeTypeOK, NEW seen \in Scholar, NEW status \in {"CANCELLED", "WITHDRAWN"}, Terminate(seen, status)
    PROVE  /\ scholar' \in Scholar
           /\ scholar'.phase = scholar.phase /\ scholar'.status = status
           /\ \E t \in PhaseTransition : t.after.status = status /\ transitions' = Append(transitions, t)
  <1> DEFINE t == [before |-> seen, after |-> [seen EXCEPT !.status = status]]
  <1>1. t \in PhaseTransition /\ t.after.status = status
    BY DEF PhaseTransition, Scholar
  <1>2. transitions' = Append(transitions, t)
    BY DEF Terminate, Log
  <1>3. /\ scholar' \in Scholar
        /\ scholar'.phase = scholar.phase /\ scholar'.status = status
    BY DEF Terminate, LifeTypeOK, Scholar
  <1> HIDE DEF t
  <1> QED
    BY <1>1, <1>2, <1>3

\* What a commit does to the scholar and the log: nothing, or it ends the programme.
EndsOrStays ==
    \/ UNCHANGED <<scholar, transitions>>
    \/ \E status \in {"CANCELLED", "WITHDRAWN"} :
          /\ scholar' \in Scholar
          /\ scholar'.phase = scholar.phase /\ scholar'.status = status
          /\ \E t \in PhaseTransition : t.after.status = status /\ transitions' = Append(transitions, t)

LEMMA CommitEnds ==
    ASSUME LifeTypeOK, NEW w \in Handlers, Commit(w)
    PROVE  EndsOrStays
  <1>1. CASE UNCHANGED <<scholar, transitions>>
    BY <1>1 DEF EndsOrStays
  <1>2. ASSUME NEW status \in {"CANCELLED", "WITHDRAWN"}, inflight[w].seen \in Scholar,
               Terminate(inflight[w].seen, status)
        PROVE  EndsOrStays
    BY <1>2, TerminateTyped DEF EndsOrStays
  <1>3. CASE CommitProposal(w)
    BY <1>1, <1>2, <1>3, InFlightFields DEF CommitProposal, Stay
  <1>4. CASE CommitReport(w)
    BY <1>1, <1>4 DEF CommitReport, Stay
  <1>5. CASE CommitReview(w)
    BY <1>1, <1>2, <1>5, InFlightFields DEF CommitReview, Stay
  <1>6. CASE CommitWithdrawal(w)
    BY <1>2, <1>6, InFlightFields DEF CommitWithdrawal
  <1> QED
    BY <1>3, <1>4, <1>5, <1>6 DEF Commit

\* A table keeps its type and its rows when one of them is changed.
LEMMA EntryChanged ==
    ASSUME NEW S, NEW s \in Seq(S), NEW k, NEW v \in S
    PROVE  /\ [s EXCEPT ![k] = v] \in Seq(S)
           /\ DOMAIN [s EXCEPT ![k] = v] = DOMAIN s
           /\ Len([s EXCEPT ![k] = v]) = Len(s)
  <1>1. s \in [1..Len(s) -> S] /\ Len(s) \in Nat
    OBVIOUS
  <1>2. [s EXCEPT ![k] = v] \in [1..Len(s) -> S]
    BY <1>1
  <1> QED
    BY <1>1, <1>2

\* The reports after a commit, where a review is opened and where not.
LEMMA CommittedReports ==
    ASSUME LifeTypeOK, NEW w \in Handlers, CommitReport(w)
    PROVE  LET r == inflight[w]
               saved == [reports EXCEPT ![r.row] = r.saved]
               open == Cardinality(r.warnings) >= WarningLimit
           IN  /\ reviews' \in Seq(DcDecision) /\ Len(reviews') \in Nat
               /\ DOMAIN reviews \subseteq DOMAIN reviews'
               /\ open => Len(reviews') # 0
               /\ reports' \in Seq(ProgressReport)
               /\ DOMAIN reports' = DOMAIN reports
               /\ ~open => reports' = saved
               /\ open => \A k \in DOMAIN reports :
                             IF k \in r.warnings THEN reports'[k].review # 0 ELSE reports'[k] = saved[k]
  <1> DEFINE r == inflight[w]
             saved == [reports EXCEPT ![r.row] = r.saved]
             open == Cardinality(r.warnings) >= WarningLimit
  <1>1. /\ r.op = "report"
        /\ reviews' = IF open THEN Append(reviews, "PENDING") ELSE reviews
        /\ reports' = [k \in DOMAIN saved |->
                          IF open /\ k \in r.warnings
                          THEN [saved[k] EXCEPT !.review = Len(reviews')] ELSE saved[k]]
    BY DEF CommitReport
  <1>2. reports \in Seq(ProgressReport) /\ reviews \in Seq(DcDecision) /\ r.saved \in ProgressReport
    BY <1>1, InFlightFields DEF LifeTypeOK
  <1>3. saved \in Seq(ProgressReport) /\ DOMAIN saved = DOMAIN reports /\ Len(saved) = Len(reports)
    <2> DEFINE k == r.row
               v == r.saved
    <2>1. reports \in Seq(ProgressReport) /\ v \in ProgressReport
      BY <1>2
    <2> HIDE DEF k, v
    <2>2. /\ [reports EXCEPT ![k] = v] \in Seq(ProgressReport)
          /\ DOMAIN [reports EXCEPT ![k] = v] = DOMAIN reports
          /\ Len([reports EXCEPT ![k] = v]) = Len(reports)
      BY <2>1, EntryChanged
    <2> QED
      BY <2>2 DEF k, v
  <1>4. /\ reviews' \in Seq(DcDecision) /\ Len(reviews') \in Nat
        /\ DOMAIN reviews \subseteq DOMAIN reviews'
        /\ open => Len(reviews') # 0
    <2>1. CASE open
      <3>1. reviews' = Append(reviews, "PENDING")
        BY <1>1, <2>1
      <3> QED
        BY <1>2, <3>1 DEF DcDecision
    <2>2. CASE ~open
      BY <1>1, <1>2, <2>2
    <2> QED
      BY <2>1, <2>2
  <1> HIDE DEF saved, open
  <1>5. \A k \in DOMAIN saved :
           /\ saved[k] \in ProgressReport
           /\ [saved[k] EXCEPT !.review = Len(reviews')] \in ProgressReport
           /\ [saved[k] EXCEPT !.review = Len(reviews')].review = Len(reviews')
    <2> TAKE k \in DOMAIN saved
    <2>1. saved[k] \in ProgressReport
      BY <1>3
    <2> QED
      BY <1>4, <2>1 DEF ProgressReport
  <1>6. reports' \in [1..Len(reports) -> ProgressReport]
    <2> DEFINE after(k) == IF open /\ k \in r.warnings THEN [saved[k] EXCEPT !.review = Len(reviews')] ELSE saved[k]
    <2>1. \A k \in DOMAIN saved : after(k) \in ProgressReport
      BY <1>5
    <2>2. reports' = [k \in DOMAIN saved |-> after(k)]
      BY <1>1
    <2>3. DOMAIN saved = 1..Len(reports)
      BY <1>2, <1>3
    <2> HIDE DEF after
    <2> QED
      BY <2>1, <2>2, <2>3
  <1>7. reports' \in Seq(ProgressReport) /\ DOMAIN reports' = DOMAIN reports
    BY <1>2, <1>6
  <1>8. ~open => reports' = saved
    <2> SUFFICES ASSUME ~open PROVE reports' = saved
      OBVIOUS
    <2>1. reports' = [k \in DOMAIN saved |-> saved[k]]
      BY <1>1
    <2> QED
      BY <1>3, <2>1
  <1>9. open => \A k \in DOMAIN reports :
                   IF k \in r.warnings THEN reports'[k].review # 0 ELSE reports'[k] = saved[k]
    BY <1>1, <1>3, <1>4, <1>5
  <1> QED
    BY <1>4, <1>7, <1>8, <1>9 DEF saved, open

LEMMA LogTyped ==
    ASSUME LifeTypeOK, EndsOrStays
    PROVE  scholar' \in Scholar /\ transitions' \in Seq(PhaseTransition)
  <1>1. CASE UNCHANGED <<scholar, transitions>>
    BY <1>1 DEF LifeTypeOK
  <1>2. CASE \E status \in {"CANCELLED", "WITHDRAWN"} :
                /\ scholar' \in Scholar
                /\ scholar'.phase = scholar.phase /\ scholar'.status = status
                /\ \E t \in PhaseTransition : t.after.status = status /\ transitions' = Append(transitions, t)
    BY <1>2 DEF LifeTypeOK
  <1> QED
    BY <1>1, <1>2 DEF EndsOrStays

\* The rows after any step.
LEMMA RowsTyped ==
    ASSUME LifeTypeOK, [LifeNext]_lifeVars
    PROVE  /\ proposals' \in Seq(Outcome) /\ reports' \in Seq(ProgressReport) /\ reviews' \in Seq(DcDecision)
           /\ RowsGrow
  <1>0. proposals \in Seq(Outcome) /\ reports \in Seq(ProgressReport) /\ reviews \in Seq(DcDecision)
    BY DEF LifeTypeOK
  <1>1. CASE UNCHANGED rows
    BY <1>0, <1>1 DEF rows, RowsGrow
  <1>2. CASE SubmitProposal
    BY <1>0, <1>2 DEF SubmitProposal, Outcome, RowsGrow
  <1>3. CASE SubmitReport
    <2>1. [outcome |-> "PENDING", review |-> 0] \in ProgressReport
      BY DEF ProgressReport
    <2> QED
      BY <1>0, <1>3, <2>1 DEF SubmitReport, RowsGrow
  <1>4. ASSUME NEW w \in Handlers, Commit(w)
        PROVE  /\ proposals' \in Seq(Outcome) /\ reports' \in Seq(ProgressReport) /\ reviews' \in Seq(DcDecision)
               /\ RowsGrow
    <2>1. CASE CommitProposal(w)
      <3> DEFINE k == inflight[w].row
                 o == inflight[w].outcome
      <3>1. o \in Outcome
        BY <2>1, InFlightFields DEF CommitProposal
      <3>2. proposals' = [proposals EXCEPT ![k] = o] /\ UNCHANGED <<reports, reviews>>
        BY <2>1 DEF CommitProposal
      <3> HIDE DEF k, o
      <3> QED
        BY <1>0, <3>1, <3>2, EntryChanged DEF RowsGrow
    <2>2. CASE CommitReport(w)
      <3>1. proposals' = proposals
        BY <2>2 DEF CommitReport
      <3>2. /\ reviews' \in Seq(DcDecision) /\ DOMAIN reviews \subseteq DOMAIN reviews'
            /\ reports' \in Seq(ProgressReport) /\ DOMAIN reports' = DOMAIN reports
        BY <2>2, CommittedReports
      <3> QED
        BY <1>0, <3>1, <3>2 DEF RowsGrow
    <2>3. CASE CommitReview(w)
      <3> DEFINE k == inflight[w].row
                 d == inflight[w].decision
      <3>1. d \in DcDecision
        BY <2>3, InFlightFields DEF CommitReview
      <3>2. reviews' = [reviews EXCEPT ![k] = d] /\ UNCHANGED <<proposals, reports>>
        BY <2>3 DEF CommitReview
      <3> HIDE DEF k, d
      <3> QED
        BY <1>0, <3>1, <3>2, EntryChanged DEF RowsGrow
    <2>4. CASE CommitWithdrawal(w)
      BY <1>1, <2>4 DEF CommitWithdrawal
    <2> QED
      BY <1>4, <2>1, <2>2, <2>3, <2>4 DEF Commit
  <1>5. ASSUME NEW w \in Handlers, Serve(w), ~Commit(w) PROVE UNCHANGED rows
    BY <1>5 DEF Serve, RecordProposalOutcome, RecordTacReview, DecideDcReview, Withdraw, Read, Forget
  <1>6. CASE Examine
    BY <1>1, <1>6 DEF Examine, Evaluate, SubmitExaminerPanel, DecidePanel, SelectExaminers, ReplaceExaminer, ReceiveReport
  <1>7. CASE Enter
    BY <1>1, <1>2, <1>3, <1>7 DEF Enter, Meet, Lapse
  <1>8. CASE Advance
    BY <1>1, <1>8 DEF Advance
  <1>9. CASE UNCHANGED lifeVars
    BY <1>1, <1>9 DEF lifeVars, rows
  <1> QED
    BY <1>1, <1>4, <1>5, <1>6, <1>7, <1>8, <1>9 DEF LifeNext

\* The requests in flight after any step.
LEMMA InFlightTyped ==
    ASSUME LifeTypeOK, [LifeNext]_lifeVars
    PROVE  inflight' \in [Handlers -> InFlight']
  <1>1. RowsGrow
    BY RowsTyped
  <1>2. \A w \in Handlers : inflight[w] \in InFlight'
    BY <1>1, InFlightGrows DEF LifeTypeOK
  <1>3. CASE inflight' = inflight
    BY <1>2, <1>3 DEF LifeTypeOK
  <1>4. ASSUME NEW w \in Handlers, NEW r \in InFlight, inflight' = [inflight EXCEPT ![w] = r]
        PROVE  inflight' \in [Handlers -> InFlight']
    <2>1. r \in InFlight'
      BY <1>1, InFlightGrows
    <2> QED
      BY <1>2, <1>4, <2>1 DEF LifeTypeOK
  <1>5. Unoccupied \in InFlight
    BY DEF InFlight
  <1>6. ASSUME NEW w \in Handlers, Serve(w) PROVE inflight' \in [Handlers -> InFlight']
    <2>1. ASSUME NEW k \in DOMAIN proposals, NEW o \in {"RECOMMENDED", "NOT_RECOMMENDED"}, RecordProposalOutcome(w, k, o)
          PROVE  inflight' \in [Handlers -> InFlight']
      <3> DEFINE b == Failures([proposals EXCEPT ![k] = o]) >= MaxFailed
                 r == [op |-> "proposal", row |-> k, outcome |-> o, seen |-> scholar, cancel |-> b]
      <3>1. b \in BOOLEAN
        BY SMT
      <3>2. scholar \in Scholar
        BY DEF LifeTypeOK
      <3>3. inflight' = [inflight EXCEPT ![w] = r]
        BY <2>1 DEF RecordProposalOutcome, Read
      <3> HIDE DEF b
      <3>4. r \in InFlight
        BY <3>1, <3>2 DEF InFlight
      <3> HIDE DEF r
      <3> QED
        BY <1>4, <3>3, <3>4
    <2>2. ASSUME NEW k \in DOMAIN reports, NEW o \in {"SATISFACTORY", "UNSATISFACTORY"}, RecordTacReview(w, k, o)
          PROVE  inflight' \in [Handlers -> InFlight']
      <3> DEFINE row == [reports[k] EXCEPT !.outcome = o]
                 warnings == OpenWarnings([reports EXCEPT ![k] = row])
                 r == [op |-> "report", row |-> k, saved |-> row, warnings |-> warnings]
      <3>1. row \in ProgressReport
        <4>1. reports[k] \in ProgressReport
          BY DEF LifeTypeOK
        <4> QED
          BY <4>1 DEF ProgressReport
      <3>2. warnings \in SUBSET DOMAIN reports
        BY DEF OpenWarnings
      <3>3. inflight' = [inflight EXCEPT ![w] = r]
        BY <2>2 DEF RecordTacReview, Read
      <3> HIDE DEF row, warnings
      <3>4. r \in InFlight
        BY <3>1, <3>2 DEF InFlight
      <3> HIDE DEF r
      <3> QED
        BY <1>4, <3>3, <3>4
    <2>3. ASSUME NEW k \in DOMAIN reviews, NEW d \in {"CONTINUE", "CANCEL"}, DecideDcReview(w, k, d)
          PROVE  inflight' \in [Handlers -> InFlight']
      <3> DEFINE r == [op |-> "review", row |-> k, decision |-> d, seen |-> scholar]
      <3>1. inflight' = [inflight EXCEPT ![w] = r]
        BY <2>3 DEF DecideDcReview, Read
      <3>2. r \in InFlight
        BY DEF InFlight, LifeTypeOK
      <3> HIDE DEF r
      <3> QED
        BY <1>4, <3>1, <3>2
    <2>4. CASE Withdraw(w)
      <3> DEFINE r == [op |-> "withdraw", row |-> 0, seen |-> scholar]
      <3>1. inflight' = [inflight EXCEPT ![w] = r]
        BY <2>4 DEF Withdraw, Read
      <3>2. r \in InFlight
        BY DEF InFlight, LifeTypeOK
      <3> HIDE DEF r
      <3> QED
        BY <1>4, <3>1, <3>2
    <2>5. CASE Commit(w) \/ Forget(w)
      BY <1>4, <1>5, <2>5 DEF Commit, Forget
    <2> QED
      BY <1>6, <2>1, <2>2, <2>3, <2>4, <2>5 DEF Serve
  <1>7. CASE Examine
    BY <1>3, <1>7 DEF Examine, Evaluate, SubmitExaminerPanel, DecidePanel, SelectExaminers, ReplaceExaminer, ReceiveReport
  <1>8. CASE Enter
    BY <1>3, <1>8 DEF Enter, Meet, Lapse, SubmitProposal, SubmitReport
  <1>9. CASE Advance \/ UNCHANGED lifeVars
    BY <1>3, <1>9 DEF Advance, lifeVars
  <1> QED
    BY <1>6, <1>7, <1>8, <1>9 DEF LifeNext

\* The examiners after any step.
LEMMA ExaminersTyped ==
    ASSUME LifeTypeOK, Examine
    PROVE  /\ examiners' \in Seq(Examiner)
           /\ panel' \in {"NONE", "PENDING", "APPROVED", "REJECTED"}
  <1>0. /\ examiners \in Seq(Examiner) /\ panel \in {"NONE", "PENDING", "APPROVED", "REJECTED"}
        /\ Nominee \in Examiner /\ Dispatched \in Examiner
        /\ \A e \in DOMAIN examiners : examiners[e] \in Examiner
    <2>1. examiners \in Seq(Examiner) /\ panel \in {"NONE", "PENDING", "APPROVED", "REJECTED"}
      BY DEF LifeTypeOK
    <2>2. Nominee \in Examiner /\ Dispatched \in Examiner
      BY DEF Nominee, Dispatched, Examiner
    <2> QED
      BY <2>1, <2>2
  <1>1. CASE SubmitExaminerPanel
    <2>1. [e \in 1..PanelMin |-> Nominee] \in Seq(Examiner)
      BY <1>0, LifecycleAssumption
    <2> QED
      BY <1>0, <1>1, <2>1 DEF SubmitExaminerPanel
  <1>2. CASE DecidePanel
    BY <1>0, <1>2 DEF DecidePanel
  <1>3. ASSUME NEW chosen, SelectExaminers(chosen)
        PROVE  examiners' \in Seq(Examiner) /\ panel' \in {"NONE", "PENDING", "APPROVED", "REJECTED"}
    <2>1. examiners' \in [1..Len(examiners) -> Examiner]
      BY <1>0, <1>3 DEF SelectExaminers
    <2> QED
      BY <1>0, <1>3, <2>1 DEF SelectExaminers
  <1>4. ASSUME NEW e \in DOMAIN examiners, NEW f \in DOMAIN examiners, ReplaceExaminer(e, f)
        PROVE  examiners' \in Seq(Examiner) /\ panel' \in {"NONE", "PENDING", "APPROVED", "REJECTED"}
    <2> DEFINE replaced == [examiners[e] EXCEPT !.replaced = TRUE]
    <2>1. replaced \in Examiner
      BY <1>0 DEF Examiner
    <2>2. [examiners EXCEPT ![e] = replaced] \in Seq(Examiner)
      BY <1>0, <2>1
    <2>3. examiners' = [[examiners EXCEPT ![e] = replaced] EXCEPT ![f] = Dispatched]
      BY <1>4 DEF ReplaceExaminer
    <2> DEFINE first == [examiners EXCEPT ![e] = replaced]
    <2>4. first \in Seq(Examiner) /\ examiners' = [first EXCEPT ![f] = Dispatched] /\ panel' = panel
      BY <1>4, <2>2, <2>3 DEF ReplaceExaminer
    <2> HIDE DEF first
    <2> QED
      BY <1>0, <2>4, EntryChanged
  <1>5. ASSUME NEW e \in DOMAIN examiners, NEW r \in {"COMMEND", "REVISE"}, ReceiveReport(e, r)
        PROVE  examiners' \in Seq(Examiner) /\ panel' \in {"NONE", "PENDING", "APPROVED", "REJECTED"}
    <2> DEFINE received == [examiners[e] EXCEPT !.report = r]
    <2>1. received \in Examiner
      BY <1>0 DEF Examiner
    <2>2. examiners' = [examiners EXCEPT ![e] = received]
      BY <1>5 DEF ReceiveReport
    <2> HIDE DEF received
    <2> QED
      BY <1>0, <1>5, <2>1, <2>2 DEF ReceiveReport
  <1> QED
    BY <1>1, <1>2, <1>3, <1>4, <1>5 DEF Examine

LEMMA LifeNextTyped == LifeTypeOK /\ [LifeNext]_lifeVars => LifeTypeOK'
  <1> SUFFICES ASSUME LifeTypeOK, [LifeNext]_lifeVars PROVE LifeTypeOK'
    OBVIOUS
  <1>1. /\ scholar' \in Scholar /\ transitions' \in Seq(PhaseTransition)
        /\ met' \subseteq DOMAIN Milestone
        /\ examiners' \in Seq(Examiner) /\ panel' \in {"NONE", "PENDING", "APPROVED", "REJECTED"}
        /\ crossed' \in BOOLEAN
    <2>0. /\ scholar \in Scholar /\ transitions \in Seq(PhaseTransition)
          /\ met \subseteq DOMAIN Milestone
          /\ examiners \in Seq(Examiner) /\ panel \in {"NONE", "PENDING", "APPROVED", "REJECTED"}
          /\ crossed \in BOOLEAN
      BY DEF LifeTypeOK
    <2>1. CASE Advance
      <3>1. scholar' = Advanced /\ transitions' = Append(transitions, [before |-> scholar, after |-> scholar'])
        BY <2>1 DEF Advance, Log
      <3>2. scholar' \in Scholar
        BY <2>1, <3>1, AdvancedTyped DEF Advance, MayAdvance
      <3>3. [before |-> scholar, after |-> scholar'] \in PhaseTransition
        BY <2>0, <3>2 DEF PhaseTransition
      <3>4. crossed' \in BOOLEAN
        <4>1. crossed' = (crossed \/ Busy # {})
          BY <2>1 DEF Advance
        <4> QED
          BY <4>1, Zenon
      <3> QED
        BY <2>0, <2>1, <3>1, <3>2, <3>3, <3>4 DEF Advance, evaluation
    <2>2. CASE Examine
      BY <2>0, <2>2, ExaminersTyped DEF Examine, Evaluate, SubmitExaminerPanel, DecidePanel, SelectExaminers,
                                        ReplaceExaminer, ReceiveReport
    <2>3. CASE Enter
      BY <2>0, <2>3 DEF Enter, Meet, Lapse, SubmitProposal, SubmitReport, evaluation
    <2>4. ASSUME NEW w \in Handlers, Serve(w), ~Commit(w)
          PROVE  UNCHANGED <<scholar, transitions, met, examiners, panel>> /\ crossed' \in BOOLEAN
      <3>1. UNCHANGED <<scholar, transitions, met, examiners, panel>>
        BY <2>4 DEF Serve, RecordProposalOutcome, RecordTacReview, DecideDcReview, Withdraw, Read, Forget, evaluation
      <3>2. crossed' = crossed \/ crossed' = (crossed \/ Busy # {})
        BY <2>4 DEF Serve, RecordProposalOutcome, RecordTacReview, DecideDcReview, Withdraw, Read, Forget
      <3>3. (crossed \/ Busy # {}) \in BOOLEAN
        BY Zenon
      <3>4. CASE crossed' = crossed
        BY <2>0, <3>1, <3>4
      <3>5. CASE crossed' = (crossed \/ Busy # {})
        BY <3>1, <3>3, <3>5, Zenon
      <3> QED
        BY <3>2, <3>4, <3>5
    <2>5. ASSUME NEW w \in Handlers, Commit(w)
          PROVE  /\ UNCHANGED <<met, examiners, panel, crossed>>
                 /\ scholar' \in Scholar /\ transitions' \in Seq(PhaseTransition)
      BY <2>5, CommitEnds, LogTyped DEF Commit, evaluation
    <2>6. CASE UNCHANGED lifeVars
      BY <2>0, <2>6 DEF lifeVars, evaluation
    <2> QED
      BY <2>0, <2>1, <2>2, <2>3, <2>4, <2>5, <2>6 DEF LifeNext
  <1> QED
    BY <1>1, RowsTyped, InFlightTyped DEF LifeTypeOK

\* The scholar, the log, the rows and the requests in flight keep their types, and a request in flight is
\* for rows there are.
THEOREM LifeTypeCorrect == LifeSpec => []LifeTypeOK
  BY LifeInitTyped, LifeNextTyped, PTL DEF LifeSpec

-----------------------------------------------------------------------------
(* Lifecycle: every gate once and in order *)

AdvancesOf(log, n) == {k \in 1..n : log[k].after.status \in {"ACTIVE", "AWARDED"}}

\* The advances that led to another phase
MovesOf(log) == {k \in AdvancesOf(log, Len(log)) : log[k].after.status = "ACTIVE"}

\* AdvancesInOrder of a log and the scholar it is about, and that no advance follows the award.
InOrder(log, s) ==
    /\ \A k \in AdvancesOf(log, Len(log)) :
          log[k].before = [phase |-> Cardinality(AdvancesOf(log, k)), status |-> "ACTIVE"]
    /\ s.phase = Cardinality(MovesOf(log)) + 1
    /\ s.status = "AWARDED" => Cardinality(AdvancesOf(log, Len(log))) = 10
    /\ s.status = "ACTIVE" => MovesOf(log) = AdvancesOf(log, Len(log))

OrderInv == LifeTypeOK /\ InOrder(transitions, scholar)

LEMMA OrderMeans == OrderInv => AdvancesInOrder
  BY LastPhase DEF OrderInv, InOrder, AdvancesInOrder, Advances, AdvancesOf, MovesOf

\* The log with one more entry.
LEMMA LongerLog ==
    ASSUME NEW log \in Seq(PhaseTransition), NEW t \in PhaseTransition
    PROVE  LET longer == Append(log, t)
               n == Len(log)
           IN  /\ n \in Nat /\ Len(longer) = n + 1 /\ longer[n + 1] = t
               /\ \A k \in 1..n : longer[k] = log[k] /\ AdvancesOf(longer, k) = AdvancesOf(log, k)
               /\ AdvancesOf(longer, n + 1) = AdvancesOf(log, n)
                     \cup (IF t.after.status \in {"ACTIVE", "AWARDED"} THEN {n + 1} ELSE {})
               /\ MovesOf(longer) = MovesOf(log) \cup (IF t.after.status = "ACTIVE" THEN {n + 1} ELSE {})
               /\ AdvancesOf(log, n) \subseteq 1..n /\ MovesOf(log) \subseteq 1..n
               /\ IsFiniteSet(AdvancesOf(log, n)) /\ IsFiniteSet(MovesOf(log))
  <1> DEFINE longer == Append(log, t)
             n == Len(log)
             advance == IF t.after.status \in {"ACTIVE", "AWARDED"} THEN {n + 1} ELSE {}
             move == IF t.after.status = "ACTIVE" THEN {n + 1} ELSE {}
  <1>1. n \in Nat /\ Len(longer) = n + 1 /\ longer[n + 1] = t /\ \A k \in 1..n : longer[k] = log[k]
    OBVIOUS
  <1> HIDE DEF longer, n
  <1>2. \A k \in 1..n : AdvancesOf(longer, k) = AdvancesOf(log, k)
    BY <1>1 DEF AdvancesOf
  <1>3. AdvancesOf(longer, n + 1) = AdvancesOf(log, n) \cup advance
    <2>1. 1..(n + 1) = (1..n) \cup {n + 1}
      BY <1>1
    <2>2. \A k : k \in AdvancesOf(longer, n + 1) <=> k \in AdvancesOf(log, n) \cup advance
      BY <1>1, <2>1 DEF AdvancesOf
    <2> QED
      BY <2>2
  <1>4. AdvancesOf(log, n) \subseteq 1..n /\ MovesOf(log) \subseteq 1..n
    BY DEF AdvancesOf, MovesOf, n
  <1>5. MovesOf(longer) = MovesOf(log) \cup move
    <2>1. \A k : k \in MovesOf(longer) <=> k \in AdvancesOf(longer, n + 1) /\ longer[k].after.status = "ACTIVE"
      BY <1>1 DEF MovesOf
    <2>2. \A k : k \in MovesOf(log) <=> k \in AdvancesOf(log, n) /\ log[k].after.status = "ACTIVE"
      BY DEF MovesOf, n
    <2>3. n + 1 \notin AdvancesOf(log, n)
      BY <1>1, <1>4
    <2>4. \A k : k \in MovesOf(longer) <=> k \in MovesOf(log) \cup move
      BY <1>1, <1>3, <1>4, <2>1, <2>2, <2>3
    <2> QED
      BY <2>4
  <1>6. IsFiniteSet(AdvancesOf(log, n)) /\ IsFiniteSet(MovesOf(log))
    <2>0. 1 \in Int /\ n \in Int
      BY <1>1
    <2>1. IsFiniteSet(1..n)
      BY <2>0, FS_Interval, Zenon
    <2> QED
      BY <1>4, <2>1, FS_Subset
  <1> QED
    BY <1>1, <1>2, <1>3, <1>4, <1>5, <1>6 DEF longer, n

\* The end of a registration is no advance.
LEMMA OrderAfterEnd ==
    ASSUME OrderInv, NEW t \in PhaseTransition, t.after.status \in {"CANCELLED", "WITHDRAWN"},
           transitions' = Append(transitions, t),
           scholar'.phase = scholar.phase, scholar'.status \in {"CANCELLED", "WITHDRAWN"}
    PROVE  InOrder(transitions', scholar')
  <1> DEFINE n == Len(transitions)
  <1>1. transitions \in Seq(PhaseTransition)
    BY DEF OrderInv, LifeTypeOK
  <1>2. /\ n \in Nat /\ Len(transitions') = n + 1
        /\ \A k \in 1..n : transitions'[k] = transitions[k] /\ AdvancesOf(transitions', k) = AdvancesOf(transitions, k)
        /\ AdvancesOf(transitions', n + 1) = AdvancesOf(transitions, n)
        /\ MovesOf(transitions') = MovesOf(transitions)
        /\ AdvancesOf(transitions, n) \subseteq 1..n
    <2>1. t.after.status # "ACTIVE" /\ t.after.status \notin {"ACTIVE", "AWARDED"}
      OBVIOUS
    <2>2. /\ Len(transitions) \in Nat /\ Len(Append(transitions, t)) = Len(transitions) + 1
          /\ \A k \in 1..Len(transitions) :
                /\ Append(transitions, t)[k] = transitions[k]
                /\ AdvancesOf(Append(transitions, t), k) = AdvancesOf(transitions, k)
          /\ AdvancesOf(Append(transitions, t), Len(transitions) + 1) = AdvancesOf(transitions, Len(transitions)) \cup {}
          /\ MovesOf(Append(transitions, t)) = MovesOf(transitions) \cup {}
          /\ AdvancesOf(transitions, Len(transitions)) \subseteq 1..Len(transitions)
      <3> DEFINE log == transitions
                 advance == IF t.after.status \in {"ACTIVE", "AWARDED"} THEN {Len(log) + 1} ELSE {}
                 move == IF t.after.status = "ACTIVE" THEN {Len(log) + 1} ELSE {}
      <3>1. advance = {} /\ move = {}
        BY <2>1
      <3>2. /\ Len(log) \in Nat /\ Len(Append(log, t)) = Len(log) + 1
            /\ \A k \in 1..Len(log) :
                  Append(log, t)[k] = log[k] /\ AdvancesOf(Append(log, t), k) = AdvancesOf(log, k)
            /\ AdvancesOf(Append(log, t), Len(log) + 1) = AdvancesOf(log, Len(log)) \cup advance
            /\ MovesOf(Append(log, t)) = MovesOf(log) \cup move
            /\ AdvancesOf(log, Len(log)) \subseteq 1..Len(log)
        BY <1>1, LongerLog
      <3> HIDE DEF advance, move
      <3> QED
        BY <3>1, <3>2
    <2> QED
      BY <2>2
  <1>3. /\ \A k \in AdvancesOf(transitions, n) :
              transitions[k].before = [phase |-> Cardinality(AdvancesOf(transitions, k)), status |-> "ACTIVE"]
        /\ scholar.phase = Cardinality(MovesOf(transitions)) + 1
    BY DEF OrderInv, InOrder
  <1> HIDE DEF n
  <1> QED
    BY <1>2, <1>3 DEF InOrder

LEMMA OrderAfterAdvance ==
    ASSUME OrderInv, Advance
    PROVE  InOrder(transitions', scholar')
  <1> DEFINE n == Len(transitions)
             t == [before |-> scholar, after |-> scholar']
  <1>1. /\ transitions \in Seq(PhaseTransition) /\ scholar \in Scholar
        /\ scholar.status = "ACTIVE" /\ scholar' = Advanced
        /\ transitions' = Append(transitions, t)
    BY DEF OrderInv, LifeTypeOK, Advance, MayAdvance, Log
  <1>2. /\ scholar' \in Scholar /\ scholar.phase \in 1..10
        /\ scholar.phase = 10 => scholar' = [phase |-> 10, status |-> "AWARDED"]
        /\ scholar.phase # 10 => scholar' = [phase |-> scholar.phase + 1, status |-> "ACTIVE"]
        /\ scholar = [phase |-> scholar.phase, status |-> "ACTIVE"]
    BY <1>1, AdvancedTyped, LastPhase DEF OrderInv, Scholar
  <1>3. t \in PhaseTransition /\ t.before = scholar /\ t.after = scholar'
    BY <1>1, <1>2 DEF PhaseTransition
  <1>4. scholar'.status \in {"ACTIVE", "AWARDED"} /\ (scholar'.status = "ACTIVE" <=> scholar.phase # 10)
    BY <1>2
  <1> HIDE DEF t, n
  <1>5. /\ n \in Nat /\ Len(transitions') = n + 1 /\ transitions'[n + 1] = t
        /\ \A k \in 1..n : transitions'[k] = transitions[k] /\ AdvancesOf(transitions', k) = AdvancesOf(transitions, k)
        /\ AdvancesOf(transitions', n + 1) = AdvancesOf(transitions, n) \cup {n + 1}
        /\ MovesOf(transitions') = IF scholar.phase # 10 THEN MovesOf(transitions) \cup {n + 1} ELSE MovesOf(transitions)
        /\ AdvancesOf(transitions, n) \subseteq 1..n /\ MovesOf(transitions) \subseteq 1..n
        /\ IsFiniteSet(AdvancesOf(transitions, n)) /\ IsFiniteSet(MovesOf(transitions))
    <2> DEFINE advance == IF t.after.status \in {"ACTIVE", "AWARDED"} THEN {n + 1} ELSE {}
               move == IF t.after.status = "ACTIVE" THEN {n + 1} ELSE {}
    <2>1. advance = {n + 1} /\ move = IF scholar.phase # 10 THEN {n + 1} ELSE {}
      BY <1>3, <1>4
    <2>2. /\ n \in Nat /\ Len(transitions') = n + 1 /\ transitions'[n + 1] = t
          /\ \A k \in 1..n :
                transitions'[k] = transitions[k] /\ AdvancesOf(transitions', k) = AdvancesOf(transitions, k)
          /\ AdvancesOf(transitions', n + 1) = AdvancesOf(transitions, n) \cup advance
          /\ MovesOf(transitions') = MovesOf(transitions) \cup move
          /\ AdvancesOf(transitions, n) \subseteq 1..n /\ MovesOf(transitions) \subseteq 1..n
          /\ IsFiniteSet(AdvancesOf(transitions, n)) /\ IsFiniteSet(MovesOf(transitions))
      BY <1>1, <1>3, LongerLog DEF n
    <2> HIDE DEF advance, move
    <2> QED
      BY <2>1, <2>2
  <1>6. /\ \A k \in AdvancesOf(transitions, n) :
              transitions[k].before = [phase |-> Cardinality(AdvancesOf(transitions, k)), status |-> "ACTIVE"]
        /\ scholar.phase = Cardinality(MovesOf(transitions)) + 1
        /\ MovesOf(transitions) = AdvancesOf(transitions, n)
    BY <1>1 DEF OrderInv, InOrder, n
  <1>7. Cardinality(AdvancesOf(transitions, n) \cup {n + 1}) = Cardinality(AdvancesOf(transitions, n)) + 1
    <2>1. n + 1 \notin AdvancesOf(transitions, n)
      BY <1>5
    <2> QED
      BY <1>5, <2>1, FS_AddElement
  <1>8. Cardinality(AdvancesOf(transitions', n + 1)) = scholar.phase
    BY <1>5, <1>6, <1>7
  <1>9. \A k \in AdvancesOf(transitions', n + 1) :
           transitions'[k].before = [phase |-> Cardinality(AdvancesOf(transitions', k)), status |-> "ACTIVE"]
    <2> TAKE k \in AdvancesOf(transitions', n + 1)
    <2>1. CASE k = n + 1
      BY <1>2, <1>3, <1>5, <1>8, <2>1
    <2>2. CASE k # n + 1
      BY <1>5, <1>6, <2>2
    <2> QED
      BY <2>1, <2>2
  <1>10. scholar'.phase = Cardinality(MovesOf(transitions')) + 1
    <2>1. CASE scholar.phase = 10
      BY <1>2, <1>5, <1>6, <2>1
    <2>2. CASE scholar.phase # 10
      <3>1. MovesOf(transitions') = AdvancesOf(transitions, n) \cup {n + 1}
        BY <1>5, <1>6, <2>2
      <3>2. Cardinality(MovesOf(transitions')) = Cardinality(MovesOf(transitions)) + 1
        BY <1>6, <1>7, <3>1
      <3>3. scholar'.phase = scholar.phase + 1
        BY <1>2, <2>2
      <3> QED
        BY <1>6, <3>2, <3>3
    <2> QED
      BY <2>1, <2>2
  <1>11. scholar'.status = "AWARDED" => Cardinality(AdvancesOf(transitions', n + 1)) = 10
    BY <1>2, <1>8
  <1>12. scholar'.status = "ACTIVE" => MovesOf(transitions') = AdvancesOf(transitions', n + 1)
    BY <1>4, <1>5, <1>6
  <1> QED
    BY <1>5, <1>9, <1>10, <1>11, <1>12 DEF InOrder

LEMMA OrderNext == OrderInv /\ [LifeNext]_lifeVars => OrderInv'
  <1> SUFFICES ASSUME OrderInv, [LifeNext]_lifeVars PROVE OrderInv'
    OBVIOUS
  <1>1. LifeTypeOK'
    BY LifeNextTyped DEF OrderInv
  <1>2. CASE UNCHANGED <<scholar, transitions>>
    BY <1>1, <1>2 DEF OrderInv
  <1>3. CASE Advance
    BY <1>1, <1>3, OrderAfterAdvance DEF OrderInv
  <1>4. ASSUME NEW w \in Handlers, Commit(w) PROVE OrderInv'
    <2>1. EndsOrStays
      BY <1>4, CommitEnds DEF OrderInv
    <2>2. CASE \E status \in {"CANCELLED", "WITHDRAWN"} :
                  /\ scholar' \in Scholar
                  /\ scholar'.phase = scholar.phase /\ scholar'.status = status
                  /\ \E t \in PhaseTransition : t.after.status = status /\ transitions' = Append(transitions, t)
      BY <1>1, <2>2, OrderAfterEnd DEF OrderInv
    <2> QED
      BY <1>2, <2>1, <2>2 DEF EndsOrStays
  <1>5. ASSUME NEW w \in Handlers, Serve(w), ~Commit(w) PROVE UNCHANGED <<scholar, transitions>>
    BY <1>5 DEF Serve, RecordProposalOutcome, RecordTacReview, DecideDcReview, Withdraw, Read, Forget
  <1>6. CASE Examine
    BY <1>2, <1>6 DEF Examine, Evaluate, SubmitExaminerPanel, DecidePanel, SelectExaminers, ReplaceExaminer, ReceiveReport
  <1>7. CASE Enter
    BY <1>2, <1>7 DEF Enter, Meet, Lapse, SubmitProposal, SubmitReport
  <1>8. CASE UNCHANGED lifeVars
    BY <1>2, <1>8 DEF lifeVars
  <1> QED
    BY <1>2, <1>3, <1>4, <1>5, <1>6, <1>7, <1>8 DEF LifeNext

LEMMA OrderInit == LifeInit => OrderInv
  <1> SUFFICES ASSUME LifeInit PROVE OrderInv
    OBVIOUS
  <1>1. transitions = <<>> /\ scholar = [phase |-> 1, status |-> "ACTIVE"]
    BY DEF LifeInit
  <1>2. AdvancesOf(transitions, Len(transitions)) = {} /\ MovesOf(transitions) = {}
    BY <1>1 DEF AdvancesOf, MovesOf
  <1>3. Cardinality({}) = 0
    BY FS_EmptySet
  <1>4. Cardinality(MovesOf(transitions)) = 0 /\ scholar.phase = 1 /\ scholar.status = "ACTIVE"
    BY <1>1, <1>2, <1>3
  <1>5. InOrder(transitions, scholar)
    BY <1>2, <1>4 DEF InOrder
  <1> QED
    BY <1>5, LifeInitTyped DEF OrderInv

\* However ends of the registration interleave with it, every gate is taken once and in order.
THEOREM GatesStayInOrder == LifeSpec => []AdvancesInOrder
  BY OrderInit, OrderNext, OrderMeans, PTL DEF LifeSpec

-----------------------------------------------------------------------------
(* Lifecycle: the sanctions, while nothing overlaps *)

\* A request counts with its own row saved, what the rows would count for everybody.
Counted(r) ==
    /\ r.op = "proposal" => (r.cancel <=> Failures([proposals EXCEPT ![r.row] = r.outcome]) >= MaxFailed)
    /\ r.op = "report" => r.warnings = OpenWarnings([reports EXCEPT ![r.row] = r.saved])

OneAtATime == \A v, w \in Handlers : inflight[v] # Unoccupied /\ inflight[w] # Unoccupied => v = w

Sanctioned ==
    /\ Failures(proposals) >= MaxFailed => scholar.status # "ACTIVE"
    /\ Cardinality(OpenWarnings(reports)) < WarningLimit

Settled == Sanctioned /\ OneAtATime /\ \A w \in Handlers : Counted(inflight[w])

SanctionInv == LifeTypeOK /\ (~crossed => Settled)

LEMMA SanctionMeans == SanctionInv => SanctionsTaken
  BY DEF SanctionInv, Settled, Sanctioned, SanctionsTaken

\* A row that is not decided yet counts for nothing.
LEMMA PendingProposal ==
    ASSUME NEW outcomes \in Seq(Outcome)
    PROVE  /\ Failures(Append(outcomes, "PENDING")) = Failures(outcomes)
           /\ \A k \in DOMAIN outcomes : \A o :
                 Failures([Append(outcomes, "PENDING") EXCEPT ![k] = o]) = Failures([outcomes EXCEPT ![k] = o])
  <1> DEFINE more == Append(outcomes, "PENDING")
             n == Len(outcomes)
  <1>1. /\ n \in Nat /\ DOMAIN outcomes = 1..n /\ DOMAIN more = 1..(n + 1)
        /\ more[n + 1] = "PENDING" /\ \A k \in 1..n : more[k] = outcomes[k]
    OBVIOUS
  <1> HIDE DEF more, n
  <1>2. {k \in DOMAIN more : more[k] = "NOT_RECOMMENDED"} = {k \in DOMAIN outcomes : outcomes[k] = "NOT_RECOMMENDED"}
    BY <1>1
  <1>3. ASSUME NEW j \in DOMAIN outcomes, NEW o
        PROVE  Failures([more EXCEPT ![j] = o]) = Failures([outcomes EXCEPT ![j] = o])
    <2> DEFINE a == [more EXCEPT ![j] = o]
               b == [outcomes EXCEPT ![j] = o]
    <2>1. DOMAIN a = 1..(n + 1) /\ DOMAIN b = 1..n /\ a[n + 1] = "PENDING" /\ \A k \in 1..n : a[k] = b[k]
      BY <1>1
    <2> HIDE DEF a, b
    <2>2. {k \in DOMAIN a : a[k] = "NOT_RECOMMENDED"} = {k \in DOMAIN b : b[k] = "NOT_RECOMMENDED"}
      BY <1>1, <2>1
    <2> QED
      BY <2>2 DEF Failures, a, b
  <1> QED
    BY <1>2, <1>3 DEF Failures, more

LEMMA PendingReport ==
    ASSUME NEW rs \in Seq(ProgressReport)
    PROVE  LET more == Append(rs, [outcome |-> "PENDING", review |-> 0])
           IN  /\ OpenWarnings(more) = OpenWarnings(rs)
               /\ \A k \in DOMAIN rs : \A row : OpenWarnings([more EXCEPT ![k] = row]) = OpenWarnings([rs EXCEPT ![k] = row])
  <1> DEFINE more == Append(rs, [outcome |-> "PENDING", review |-> 0])
             n == Len(rs)
  <1>1. /\ n \in Nat /\ DOMAIN rs = 1..n /\ DOMAIN more = 1..(n + 1)
        /\ more[n + 1].outcome = "PENDING" /\ \A k \in 1..n : more[k] = rs[k]
    OBVIOUS
  <1> HIDE DEF more, n
  <1>2. OpenWarnings(more) = OpenWarnings(rs)
    BY <1>1 DEF OpenWarnings
  <1>3. ASSUME NEW j \in DOMAIN rs, NEW row
        PROVE  OpenWarnings([more EXCEPT ![j] = row]) = OpenWarnings([rs EXCEPT ![j] = row])
    <2> DEFINE a == [more EXCEPT ![j] = row]
               b == [rs EXCEPT ![j] = row]
    <2>1. DOMAIN a = 1..(n + 1) /\ DOMAIN b = 1..n /\ a[n + 1].outcome = "PENDING" /\ \A k \in 1..n : a[k] = b[k]
      BY <1>1
    <2> HIDE DEF a, b
    <2>2. OpenWarnings(a) = OpenWarnings(b)
      BY <1>1, <2>1 DEF OpenWarnings
    <2> QED
      BY <2>2 DEF a, b
  <1> QED
    BY <1>2, <1>3 DEF more

LEMMA WarningsCounted == ASSUME NEW rs \in Seq(ProgressReport) PROVE Cardinality(OpenWarnings(rs)) \in Nat
  <1>1. IsFiniteSet(DOMAIN rs)
    BY FS_Interval
  <1>2. IsFiniteSet(OpenWarnings(rs))
    BY <1>1, FS_Subset DEF OpenWarnings
  <1> QED
    BY <1>2, FS_CardinalityType

\* A request begins.
LEMMA SettledRead ==
    ASSUME LifeTypeOK, ~crossed => Settled, NEW w \in Handlers, NEW r, Read(w, r), Counted(r), ~crossed'
    PROVE  Settled'
  <1>1. ~crossed /\ Busy = {}
    BY Zenon DEF Read
  <1>2. Settled /\ UNCHANGED <<scholar, proposals, reports>> /\ inflight' = [inflight EXCEPT ![w] = r]
    BY <1>1 DEF Read, rows
  <1>3. /\ \A v \in Handlers : inflight'[v] = IF v = w THEN r ELSE inflight[v]
        /\ \A v \in Handlers : inflight[v] = Unoccupied
    BY <1>1, <1>2 DEF LifeTypeOK, Busy
  <1>4. OneAtATime'
    BY <1>3 DEF OneAtATime
  <1>5. \A v \in Handlers : Counted(inflight[v])'
    <2> TAKE v \in Handlers
    <2>1. Counted(inflight'[v])
      BY <1>2, <1>3 DEF Settled
    <2> QED
      BY <1>2, <2>1 DEF Counted
  <1> QED
    BY <1>2, <1>4, <1>5 DEF Settled, Sanctioned

LEMMA SettledServe ==
    ASSUME LifeTypeOK, ~crossed => Settled, NEW w \in Handlers, Serve(w), ~Commit(w), ~crossed'
    PROVE  Settled'
  <1>1. ASSUME NEW k \in DOMAIN proposals, NEW o \in {"RECOMMENDED", "NOT_RECOMMENDED"}, RecordProposalOutcome(w, k, o)
        PROVE  Settled'
    <2> DEFINE b == Failures([proposals EXCEPT ![k] = o]) >= MaxFailed
               r == [op |-> "proposal", row |-> k, outcome |-> o, seen |-> scholar, cancel |-> b]
    <2>1. Read(w, r)
      BY <1>1 DEF RecordProposalOutcome
    <2>2. r.op = "proposal" /\ r.row = k /\ r.outcome = o /\ r.cancel = b
      OBVIOUS
    <2>3. Counted(r)
      <3> HIDE DEF r
      <3> QED
        BY <2>2 DEF Counted
    <2> HIDE DEF r
    <2> QED
      BY <2>1, <2>3, SettledRead
  <1>2. ASSUME NEW k \in DOMAIN reports, NEW o \in {"SATISFACTORY", "UNSATISFACTORY"}, RecordTacReview(w, k, o)
        PROVE  Settled'
    <2> DEFINE row == [reports[k] EXCEPT !.outcome = o]
               r == [op |-> "report", row |-> k, saved |-> row, warnings |-> OpenWarnings([reports EXCEPT ![k] = row])]
    <2>1. Read(w, r)
      BY <1>2 DEF RecordTacReview
    <2> HIDE DEF row
    <2>2. Counted(r)
      BY DEF Counted
    <2> HIDE DEF r
    <2> QED
      BY <2>1, <2>2, SettledRead
  <1>3. ASSUME NEW k \in DOMAIN reviews, NEW d \in {"CONTINUE", "CANCEL"}, DecideDcReview(w, k, d)
        PROVE  Settled'
    <2> DEFINE r == [op |-> "review", row |-> k, decision |-> d, seen |-> scholar]
    <2>1. Read(w, r) /\ Counted(r)
      BY <1>3 DEF DecideDcReview, Counted
    <2> HIDE DEF r
    <2> QED
      BY <2>1, SettledRead
  <1>4. CASE Withdraw(w)
    <2> DEFINE r == [op |-> "withdraw", row |-> 0, seen |-> scholar]
    <2>1. Read(w, r) /\ Counted(r)
      BY <1>4 DEF Withdraw, Counted
    <2> HIDE DEF r
    <2> QED
      BY <2>1, SettledRead
  <1>5. CASE Forget(w)
    <2>1. /\ Settled /\ UNCHANGED <<scholar, proposals, reports>>
          /\ inflight' = [inflight EXCEPT ![w] = Unoccupied]
      BY <1>5 DEF Forget, rows
    <2>2. \A v \in Handlers : inflight'[v] = IF v = w THEN Unoccupied ELSE inflight[v]
      BY <2>1 DEF LifeTypeOK
    <2>3. OneAtATime'
      BY <2>1, <2>2 DEF Settled, OneAtATime
    <2>4. Counted(Unoccupied)
      BY DEF Counted, Unoccupied
    <2>5. \A v \in Handlers : Counted(inflight[v])'
      <3> TAKE v \in Handlers
      <3>1. Counted(inflight'[v])
        BY <2>1, <2>2, <2>4 DEF Settled
      <3> QED
        BY <2>1, <3>1 DEF Counted
    <2> QED
      BY <2>1, <2>3, <2>5 DEF Settled, Sanctioned
  <1> QED
    BY <1>1, <1>2, <1>3, <1>4, <1>5 DEF Serve

\* A request takes effect: what it counted decides.
LEMMA SettledCommit ==
    ASSUME LifeTypeOK, Settled, NEW w \in Handlers, Commit(w)
    PROVE  Settled'
  <1>0. /\ proposals \in Seq(Outcome) /\ reports \in Seq(ProgressReport)
        /\ MaxFailed \in Nat \ {0} /\ WarningLimit \in Nat \ {0}
        /\ Counted(inflight[w]) /\ Sanctioned
    BY LifecycleAssumption DEF LifeTypeOK, Settled
  <1>1. Sanctioned'
    <2>1. CASE CommitProposal(w)
      <3> DEFINE r == inflight[w]
      <3>1. /\ r.op = "proposal" /\ proposals' = [proposals EXCEPT ![r.row] = r.outcome] /\ reports' = reports
            /\ r.outcome \in Outcome
        BY <2>1, InFlightFields DEF CommitProposal
      <3>2. r.cancel <=> Failures(proposals') >= MaxFailed
        BY <1>0, <3>1 DEF Counted
      <3>3. CASE r.cancel
        BY <1>0, <2>1, <3>1, <3>3 DEF CommitProposal, Terminate, Sanctioned, LifeTypeOK, Scholar
      <3>4. CASE ~r.cancel
        BY <1>0, <3>1, <3>2, <3>4 DEF Sanctioned, Failures
      <3> QED
        BY <3>3, <3>4
    <2>2. CASE CommitReport(w)
      <3> DEFINE r == inflight[w]
                 saved == [reports EXCEPT ![r.row] = r.saved]
                 open == Cardinality(r.warnings) >= WarningLimit
      <3>1. /\ r.op = "report" /\ UNCHANGED <<scholar, proposals>>
            /\ r.row \in DOMAIN reports /\ r.saved \in ProgressReport
        BY <2>2, InFlightFields DEF CommitReport, Stay
      <3>2. r.warnings = OpenWarnings(saved)
        BY <1>0, <3>1 DEF Counted
      <3>3. saved \in Seq(ProgressReport) /\ DOMAIN saved = DOMAIN reports
        BY <1>0, <3>1
      <3>4. Cardinality(OpenWarnings(reports')) < WarningLimit
        <4>1. /\ ~open => reports' = saved
              /\ DOMAIN reports' = DOMAIN reports
              /\ open => \A k \in DOMAIN reports :
                            IF k \in r.warnings THEN reports'[k].review # 0 ELSE reports'[k] = saved[k]
          BY <2>2, CommittedReports
        <4>2. CASE open
          <5> HIDE DEF saved, open, r
          <5>1. OpenWarnings(reports') = {}
            BY <3>2, <3>3, <4>1, <4>2 DEF OpenWarnings
          <5> QED
            BY <1>0, <5>1, FS_EmptySet
        <4>3. CASE ~open
          <5>1. reports' = saved
            BY <4>1, <4>3
          <5>2. Cardinality(OpenWarnings(saved)) \in Nat
            BY <3>3, WarningsCounted
          <5>3. ~(Cardinality(OpenWarnings(saved)) >= WarningLimit)
            BY <3>2, <4>3
          <5> HIDE DEF saved, open, r
          <5> QED
            BY <1>0, <5>1, <5>2, <5>3
        <4> QED
          BY <4>2, <4>3
      <3> QED
        BY <1>0, <3>1, <3>4 DEF Sanctioned, Failures, OpenWarnings
    <2>3. CASE CommitReview(w)
      <3>1. UNCHANGED <<proposals, reports>>
        BY <2>3 DEF CommitReview
      <3>2. scholar' = scholar \/ scholar'.status = "CANCELLED"
        BY <2>3 DEF CommitReview, Terminate, Stay, LifeTypeOK, Scholar
      <3> QED
        BY <1>0, <3>1, <3>2 DEF Sanctioned, Failures, OpenWarnings
    <2>4. CASE CommitWithdrawal(w)
      <3>1. UNCHANGED <<proposals, reports>> /\ scholar'.status = "WITHDRAWN"
        BY <2>4 DEF CommitWithdrawal, Terminate, rows, LifeTypeOK, Scholar
      <3> QED
        BY <1>0, <3>1 DEF Sanctioned, OpenWarnings
    <2> QED
      BY <2>1, <2>2, <2>3, <2>4 DEF Commit
  <1>2. \A v \in Handlers : inflight'[v] = Unoccupied
    <2>1. inflight[w] # Unoccupied
      BY InFlightFields DEF Commit, CommitProposal, CommitReport, CommitReview, CommitWithdrawal
    <2>2. \A v \in Handlers : inflight'[v] = IF v = w THEN Unoccupied ELSE inflight[v]
      BY DEF Commit, LifeTypeOK
    <2> QED
      BY <2>1, <2>2 DEF Settled, OneAtATime
  <1>3. OneAtATime'
    BY <1>2 DEF OneAtATime
  <1>4. \A v \in Handlers : Counted(inflight[v])'
    BY <1>2 DEF Counted, Unoccupied
  <1> QED
    BY <1>1, <1>3, <1>4 DEF Settled

LEMMA SanctionNext == SanctionInv /\ [LifeNext]_lifeVars => SanctionInv'
  <1> SUFFICES ASSUME SanctionInv, [LifeNext]_lifeVars, ~crossed' PROVE Settled'
    BY LifeNextTyped DEF SanctionInv
  <1>0. LifeTypeOK /\ (~crossed => Settled) /\ proposals \in Seq(Outcome) /\ reports \in Seq(ProgressReport)
    BY DEF SanctionInv, LifeTypeOK
  <1>1. CASE UNCHANGED <<scholar, proposals, reports, inflight, crossed>>
    BY <1>0, <1>1 DEF Settled, Sanctioned, OneAtATime, Counted, Failures, OpenWarnings
  <1>2. CASE Advance
    <2>1. ~crossed
      <3>1. crossed' = (crossed \/ Busy # {})
        BY <1>2 DEF Advance
      <3> QED
        BY <3>1, Zenon
    <2>2. UNCHANGED <<proposals, reports, inflight>> /\ scholar.status = "ACTIVE"
      BY <1>2 DEF Advance, MayAdvance, rows
    <2>3. Sanctioned'
      BY <1>0, <2>1, <2>2 DEF Settled, Sanctioned, Failures, OpenWarnings
    <2>4. OneAtATime' /\ \A w \in Handlers : Counted(inflight[w])'
      BY <1>0, <2>1, <2>2 DEF Settled, OneAtATime, Counted, Failures, OpenWarnings
    <2> QED
      BY <2>3, <2>4 DEF Settled
  <1>3. CASE SubmitProposal
    <2>1. /\ Settled /\ UNCHANGED <<scholar, reports, inflight>> /\ proposals' = Append(proposals, "PENDING")
      BY <1>0, <1>3 DEF SubmitProposal
    <2>2. Failures(proposals') = Failures(proposals)
      BY <1>0, <2>1, PendingProposal
    <2>3. Sanctioned'
      BY <2>1, <2>2 DEF Settled, Sanctioned, OpenWarnings, Failures
    <2>4. \A w \in Handlers : Counted(inflight[w])'
      <3> TAKE w \in Handlers
      <3>1. CASE inflight[w].op = "proposal"
        <4>1. inflight[w].row \in DOMAIN proposals
          BY <1>0, <3>1, InFlightFields
        <4>2. Failures([proposals' EXCEPT ![inflight[w].row] = inflight[w].outcome])
                 = Failures([proposals EXCEPT ![inflight[w].row] = inflight[w].outcome])
          BY <1>0, <2>1, <4>1, PendingProposal
        <4>3. inflight[w].cancel <=> Failures([proposals EXCEPT ![inflight[w].row] = inflight[w].outcome]) >= MaxFailed
          BY <2>1, <3>1 DEF Settled, Counted
        <4> QED
          BY <2>1, <3>1, <4>2, <4>3 DEF Counted, Failures
      <3>2. CASE inflight[w].op # "proposal"
        BY <2>1, <3>2 DEF Settled, Counted, OpenWarnings
      <3> QED
        BY <3>1, <3>2
    <2> QED
      BY <2>1, <2>3, <2>4 DEF Settled, OneAtATime
  <1>4. CASE SubmitReport
    <2> DEFINE row == [outcome |-> "PENDING", review |-> 0]
    <2>1. /\ Settled /\ UNCHANGED <<scholar, proposals, inflight>> /\ reports' = Append(reports, row)
      BY <1>0, <1>4 DEF SubmitReport
    <2>2. OpenWarnings(reports') = OpenWarnings(reports)
      BY <1>0, <2>1, PendingReport
    <2>3. Sanctioned'
      BY <2>1, <2>2 DEF Settled, Sanctioned, OpenWarnings, Failures
    <2>4. \A w \in Handlers : Counted(inflight[w])'
      <3> TAKE w \in Handlers
      <3>1. CASE inflight[w].op = "report"
        <4>1. inflight[w].row \in DOMAIN reports
          BY <1>0, <3>1, InFlightFields
        <4>2. OpenWarnings([reports' EXCEPT ![inflight[w].row] = inflight[w].saved])
                 = OpenWarnings([reports EXCEPT ![inflight[w].row] = inflight[w].saved])
          BY <1>0, <2>1, <4>1, PendingReport
        <4>3. inflight[w].warnings = OpenWarnings([reports EXCEPT ![inflight[w].row] = inflight[w].saved])
          BY <2>1, <3>1 DEF Settled, Counted
        <4> QED
          BY <2>1, <3>1, <4>2, <4>3 DEF Counted, OpenWarnings
      <3>2. CASE inflight[w].op # "report"
        BY <2>1, <3>2 DEF Settled, Counted, Failures
      <3> QED
        BY <3>1, <3>2
    <2> QED
      BY <2>1, <2>3, <2>4 DEF Settled, OneAtATime
  <1>5. ASSUME NEW w \in Handlers, Commit(w) PROVE Settled'
    <2>1. ~crossed
      BY <1>5 DEF Commit
    <2> QED
      BY <1>0, <1>5, <2>1, SettledCommit
  <1>6. ASSUME NEW w \in Handlers, Serve(w), ~Commit(w) PROVE Settled'
    BY <1>0, <1>6, SettledServe
  <1>7. CASE Examine
    BY <1>1, <1>7 DEF Examine, Evaluate, SubmitExaminerPanel, DecidePanel, SelectExaminers, ReplaceExaminer, ReceiveReport, rows
  <1>8. CASE Enter
    BY <1>1, <1>3, <1>4, <1>8 DEF Enter, Meet, Lapse, rows
  <1>9. CASE UNCHANGED lifeVars
    BY <1>1, <1>9 DEF lifeVars, rows
  <1> QED
    BY <1>2, <1>3, <1>4, <1>5, <1>6, <1>7, <1>8, <1>9 DEF LifeNext

LEMMA SanctionInit == LifeInit => SanctionInv
  <1> SUFFICES ASSUME LifeInit PROVE SanctionInv
    OBVIOUS
  <1>1. /\ proposals = <<>> /\ reports = <<>> /\ scholar.status = "ACTIVE"
        /\ \A w \in Handlers : inflight[w] = Unoccupied
    BY DEF LifeInit
  <1>2. Failures(proposals) = 0 /\ Cardinality(OpenWarnings(reports)) = 0
    <2>1. {k \in DOMAIN proposals : proposals[k] = "NOT_RECOMMENDED"} = {} /\ OpenWarnings(reports) = {}
      BY <1>1 DEF OpenWarnings
    <2> QED
      BY <2>1, FS_EmptySet DEF Failures
  <1>3. \A w \in Handlers : Counted(inflight[w])
    BY <1>1 DEF Counted, Unoccupied
  <1>4. Sanctioned
    BY <1>2, LifecycleAssumption DEF Sanctioned
  <1> QED
    BY <1>1, <1>3, <1>4, LifeInitTyped DEF SanctionInv, Settled, OneAtATime

\* Every gate is taken once and in order, and while nothing overlaps the last failed proposal that is allowed
\* ends the registration and the warnings that call for a review open one.
THEOREM CourseStaysInOrder == LifeSpec => []CourseRun
  <1>1. AdvancesInOrder /\ SanctionsTaken => CourseRun
    BY DEF CourseRun
  <1> QED
    BY <1>1, GatesStayInOrder, SanctionInit, SanctionNext, SanctionMeans, PTL DEF LifeSpec

=============================================================================
