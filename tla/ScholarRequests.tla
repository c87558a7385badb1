--------------------------- MODULE ScholarRequests ---------------------------
(***************************************************************************)
(* What one scholar asks for and a chain of sign-offs decides: extensions  *)
(* of the programme, leave, grant claims and the award of the degree.      *)
(*                                                                         *)
(* Sources: scholars/{services,models}.py, finance/services.py (grants)    *)
(* and lifecycle/services.py (degree award), over core/approvals.py        *)
(* (ApprovalRequests).                                                     *)
(*                                                                         *)
(* Every application checks, then inserts and starts its request; nothing  *)
(* is locked, so requests and decisions of others come in between.         *)
(*                                                                         *)
(* Abstracted: days of leave, amounts and months are small numbers; a      *)
(* leave lies in one year; career and semester breaks, which no cap        *)
(* limits, are left out.  Of what the office can change in the admin, the  *)
(* amount approved of a claim is modelled, a save at a time; the rows and  *)
(* the other fields it can edit there are not.                             *)
(***************************************************************************)
EXTENDS ApprovalRequests, FiniteSets, FiniteSetsExt

CONSTANTS
    Workers,
    ExtensionKinds, \* the kinds of extension this scholar may ask for
    Years,
    LeaveTypes,     \* "ANNUAL", capped in each year, and "MATERNITY", capped over all
    Days,           \* the lengths of the leaves asked for
    LeaveCap,       \* ANNUAL_LEAVE_DAYS and MATERNITY_LEAVE_DAYS
    Amounts,
    GrantCap,       \* GRANT_LIFETIME_CAP
    Months,         \* the months of the events
    MinGap,         \* GRANT_MIN_GAP_MONTHS
    MaxRequests     \* bound: approval requests, those about to start included

\* The code of a request's chain: a kind of extension has one of its own.
LeaveCode == [type \in LeaveTypes |-> IF type = "ANNUAL" THEN "LEAVE" ELSE "MATERNITY_LEAVE"]

ASSUME ScholarRequestsAssumption ==
    /\ LeaveTypes \subseteq {"ANNUAL", "MATERNITY"}
    /\ Days \subseteq Nat \ {0}
    /\ LeaveCap \in [LeaveTypes -> Nat]
    /\ Amounts \subseteq Nat \ {0}
    /\ GrantCap \in Nat
    /\ Months \subseteq Nat
    /\ MinGap \in Nat
    /\ MaxRequests \in Nat
    /\ ExtensionKinds \cup {LeaveCode[type] : type \in LeaveTypes}
           \cup {"GRANT_CLAIM", "DEGREE_AWARD"} \subseteq Codes
    /\ "DEGREE_AWARD" \notin ExtensionKinds

VARIABLES
    extensions, \* ExtensionGrant rows of the scholar
    leaves,     \* LeaveRecord rows
    claims,     \* GrantClaim rows
    award,      \* the DegreeAward row, as a set of at most one
    request,    \* what each worker is doing
    overlapped, \* history: two of the scholar's applications were once in flight together
    raised      \* history: an amount approved was once set above what its claim counted for

domain == <<extensions, leaves, claims, award>>
vars == <<chains, requests, domain, request, overlapped, raised>>

-----------------------------------------------------------------------------
(* Rows *)

Extension == [kind : ExtensionKinds, status : {"REQUESTED", "GRANTED", "REFUSED"}, approval : Nat]

Leave == [type : LeaveTypes, year : Years, days : Days, approved : BOOLEAN, approval : Nat]

\* granted: amount_approved, 0 while it is NULL
Claim == [month : Months, amount : Amounts, granted : Amounts \cup {0},
          state : {"PENDING", "APPROVED", "REJECTED"}, approval : Nat]

Award == [approval : Nat, approved : BOOLEAN]

\* uniq_granted_extension
ExtensionsAdmissible(rows) ==
    \A i, j \in DOMAIN rows :
        rows[i].kind = rows[j].kind /\ rows[i].status = "GRANTED" /\ rows[j].status = "GRANTED"
        => i = j

-----------------------------------------------------------------------------
(* What the services read *)

HasExtension(kind) ==
    \E i \in DOMAIN extensions : extensions[i].kind = kind /\ extensions[i].status = "GRANTED"

DaysOf(rows) == MapThenSumSet(LAMBDA i : leaves[i].days, rows)

\* The leaves one cap limits together
Pool(type, year) ==
    {i \in DOMAIN leaves : leaves[i].type = type /\ (type = "ANNUAL" => leaves[i].year = year)}

\* validate_leave
MayTakeLeave(type, year, days) == DaysOf(Pool(type, year)) + days <= LeaveCap[type]

ClaimsIn(state) == {i \in DOMAIN claims : claims[i].state = state}

CommittedApproved == MapThenSumSet(LAMBDA i : claims[i].granted, ClaimsIn("APPROVED"))

\* grant_committed
Committed ==
    CommittedApproved + MapThenSumSet(LAMBDA i : claims[i].amount, ClaimsIn("PENDING"))

TooClose(month, other) == other - month \in (-MinGap + 1) .. (MinGap - 1)

MayClaimApartFromGrants(month, amount) ==
    /\ amount <= GrantCap - Committed
    /\ \A i \in ClaimsIn("APPROVED") : ~TooClose(month, claims[i].month)

\* The checks of submit_grant_claim
MayClaim(month, amount) ==
    /\ amount <= GrantCap - Committed
    /\ \A i \in DOMAIN claims : claims[i].state # "REJECTED" => ~TooClose(month, claims[i].month)

-----------------------------------------------------------------------------
(* Applications *)

Idle == [op |-> "idle"]

Request ==
    [op : {"idle", "award"}]
    \cup [op : {"extension"}, kind : ExtensionKinds]
    \cup [op : {"leave"}, type : LeaveTypes, year : Years, days : Days]
    \cup [op : {"claim"}, month : Months, amount : Amounts]

Begin(w, r) ==
    /\ request[w] = Idle
    /\ Len(requests) + Cardinality({v \in Workers : request[v] # Idle}) < MaxRequests
    /\ request' = [request EXCEPT ![w] = r]
    /\ overlapped' = (overlapped \/ \E v \in Workers : request[v] # Idle)
    /\ UNCHANGED <<chains, requests, domain, raised>>

RequestExtension(w, kind) ==
    /\ ~HasExtension(kind)
    /\ Begin(w, [op |-> "extension", kind |-> kind])

ApplyForLeave(w, type, year, days) ==
    /\ MayTakeLeave(type, year, days)
    /\ Begin(w, [op |-> "leave", type |-> type, year |-> year, days |-> days])

SubmitGrantClaim(w, month, amount) ==
    /\ MayClaim(month, amount)
    /\ Begin(w, [op |-> "claim", month |-> month, amount |-> amount])

\* start_degree_award finds no award yet; with one that has its approval it does nothing.
StartDegreeAward(w) ==
    /\ award = {}
    /\ Begin(w, [op |-> "award"])

Finish(w) ==
    /\ request' = [request EXCEPT ![w] = Idle]
    /\ UNCHANGED <<overlapped, raised>>

NextRequest == Len(requests) + 1

InsertExtension(w) ==
    /\ request[w].op = "extension"
    /\ extensions' = Append(extensions, [kind |-> request[w].kind, status |-> "REQUESTED",
                                         approval |-> NextRequest])
    /\ StartApproval(request[w].kind)
    /\ Finish(w)
    /\ UNCHANGED <<leaves, claims, award>>

InsertLeave(w) ==
    LET r == request[w]
    IN  /\ r.op = "leave"
        /\ leaves' = Append(leaves, [type |-> r.type, year |-> r.year, days |-> r.days,
                                     approved |-> FALSE, approval |-> NextRequest])
        /\ StartApproval(LeaveCode[r.type])
        /\ Finish(w)
        /\ UNCHANGED <<extensions, claims, award>>

InsertClaim(w) ==
    LET r == request[w]
    IN  /\ r.op = "claim"
        /\ claims' = Append(claims, [month |-> r.month, amount |-> r.amount, granted |-> 0,
                                     state |-> "PENDING", approval |-> NextRequest])
        /\ StartApproval("GRANT_CLAIM")
        /\ Finish(w)
        /\ UNCHANGED <<extensions, leaves, award>>

\* get_or_create again: an award inserted meanwhile is there with its approval, and is returned.
InsertAward(w) ==
    /\ request[w].op = "award"
    /\ award = {}
    /\ award' = {[approval |-> NextRequest, approved |-> FALSE]}
    /\ StartApproval("DEGREE_AWARD")
    /\ Finish(w)
    /\ UNCHANGED <<extensions, leaves, claims>>

\* The transaction is rolled back, or had nothing to do.
Drop(w) ==
    /\ request[w] # Idle
    /\ Finish(w)
    /\ UNCHANGED <<chains, requests, domain>>

-----------------------------------------------------------------------------
(* Decisions: what the callback of each chain does when request i becomes q *)

CloseExtensionOnApproval(q, i) ==
    [e \in DOMAIN extensions |->
        IF extensions[e].approval = i /\ q.status = "APPROVED"
        THEN [extensions[e] EXCEPT !.status = "GRANTED"]
        ELSE extensions[e]]

\* _close_extension
CloseExtension(q, i) ==
    [e \in DOMAIN extensions |->
        CASE extensions[e].approval = i /\ q.status = "APPROVED" ->
                [extensions[e] EXCEPT !.status = "GRANTED"]
          [] extensions[e].approval = i /\ q.status = "REJECTED" ->
                [extensions[e] EXCEPT !.status = "REFUSED"]
          [] OTHER -> extensions[e]]

\* _close_leave
CloseLeave(q, i) ==
    [l \in DOMAIN leaves |->
        IF leaves[l].approval = i /\ q.status # "PENDING"
        THEN [leaves[l] EXCEPT !.approved = (q.status = "APPROVED")]
        ELSE leaves[l]]

\* _close_grant
CloseClaim(q, i) ==
    [c \in DOMAIN claims |->
        CASE claims[c].approval = i /\ q.status = "APPROVED" ->
                [claims[c] EXCEPT !.state = "APPROVED",
                                  !.granted = IF @ = 0 THEN claims[c].amount ELSE @]
          [] claims[c].approval = i /\ q.status = "REJECTED" ->
                [claims[c] EXCEPT !.state = "REJECTED"]
          [] OTHER -> claims[c]]

\* _close_degree
CloseAward(q, i) ==
    {IF a.approval = i /\ q.status = "APPROVED" THEN [a EXCEPT !.approved = TRUE] ELSE a : a \in award}

\* A decision whose callback breaks a constraint is rolled back with it.
Decide(i, approved) ==
    LET q == Decided(requests[i], approved)
    IN  /\ HasPendingStep(requests[i])
        /\ ExtensionsAdmissible(CloseExtension(q, i))
        /\ requests' = [requests EXCEPT ![i] = q]
        /\ extensions' = CloseExtension(q, i)
        /\ leaves' = CloseLeave(q, i)
        /\ claims' = CloseClaim(q, i)
        /\ award' = CloseAward(q, i)
        /\ UNCHANGED <<chains, request, overlapped, raised>>

\* What a claim counts for in grant_committed
CountsFor(claim) ==
    CASE claim.state = "APPROVED" -> claim.granted
      [] claim.state = "PENDING" -> claim.amount
      [] claim.state = "REJECTED" -> 0

\* GrantClaimAdmin: only the state and the approval are read-only.  The office may set or clear the
\* amount approved of any claim, decided or not, and nothing compares it with what was claimed.
EditAmountApproved(c, amount) ==
    /\ claims' = [claims EXCEPT ![c].granted = amount]
    /\ raised' = (raised \/ (claims[c].state # "REJECTED" /\ amount > CountsFor(claims[c])))
    /\ UNCHANGED <<chains, requests, extensions, leaves, award, request, overlapped>>

-----------------------------------------------------------------------------

Init ==
    /\ ChainsInit
    /\ extensions = <<>>
    /\ leaves = <<>>
    /\ claims = <<>>
    /\ award = {}
    /\ request = [w \in Workers |-> Idle]
    /\ overlapped = FALSE
    /\ raised = FALSE

Apply(w) ==
    \/ \E kind \in ExtensionKinds : RequestExtension(w, kind)
    \/ \E type \in LeaveTypes, year \in Years, days \in Days : ApplyForLeave(w, type, year, days)
    \/ \E month \in Months, amount \in Amounts : SubmitGrantClaim(w, month, amount)
    \/ StartDegreeAward(w)
    \/ InsertExtension(w)
    \/ InsertLeave(w)
    \/ InsertClaim(w)
    \/ InsertAward(w)
    \/ Drop(w)

Next ==
    \/ \E w \in Workers : Apply(w)
    \/ \E i \in DOMAIN requests, approved \in BOOLEAN : Decide(i, approved)
    \/ \E c \in DOMAIN claims, amount \in Amounts \cup {0} : EditAmountApproved(c, amount)
    \/ EditChains /\ UNCHANGED <<domain, request, overlapped, raised>>

Spec == Init /\ [][Next]_vars

-----------------------------------------------------------------------------
(* What the services promise *)

TypeOK ==
    /\ ChainsTypeOK
    /\ extensions \in Seq(Extension)
    /\ leaves \in Seq(Leave)
    /\ claims \in Seq(Claim)
    /\ award \in SUBSET Award
    /\ request \in [Workers -> Request]
    /\ {overlapped, raised} \subseteq BOOLEAN

\* The rows that wait for a request or were decided by one, each with the request
Asked ==
    {<<"extension", e, extensions[e].approval>> : e \in DOMAIN extensions}
    \cup {<<"leave", l, leaves[l].approval>> : l \in DOMAIN leaves}
    \cup {<<"claim", c, claims[c].approval>> : c \in DOMAIN claims}
    \cup {<<"award", 1, a.approval>> : a \in award}

StatusesAgree ==
    LET status(i) == requests[i].status
    IN  /\ \A e \in DOMAIN extensions :
              /\ extensions[e].status = "GRANTED" <=> status(extensions[e].approval) = "APPROVED"
              /\ extensions[e].status = "REFUSED" <=> status(extensions[e].approval) = "REJECTED"
        /\ \A l \in DOMAIN leaves : leaves[l].approved <=> status(leaves[l].approval) = "APPROVED"
        /\ \A c \in DOMAIN claims : claims[c].state = status(claims[c].approval)
        /\ \A a \in award : a.approved <=> status(a.approval) = "APPROVED"

\* "The domain object's state and the approval record never disagree": what was asked for is
\* granted exactly when its request was approved, refused exactly when it was rejected, and every
\* request is for one row, also when several applications are in flight and chains are edited.
RecordsAgree ==
    /\ StatusesAgree
    /\ \A i \in DOMAIN requests : Cardinality({r \in Asked : r[3] = i}) = 1

\* "Each extension can be granted once per scholar", and the award of the degree goes through its
\* chain once, although several requests for an extension may be pending and approved at their
\* last step, and the award may be started again while its first request is open.
TakenOnce ==
    /\ ExtensionsAdmissible(extensions)
    /\ Cardinality({i \in DOMAIN requests : requests[i].code = "DEGREE_AWARD"}) <= 1

\* The events of the claims not rejected are apart.
ClaimsApart ==
    \A i, j \in DOMAIN claims :
        /\ i # j
        /\ claims[i].state # "REJECTED"
        /\ claims[j].state # "REJECTED"
        => ~TooClose(claims[i].month, claims[j].month)

\* Leave asked for, refused or not, stays within the cap of its year or of the programme; the events
\* of grants stay apart, and grants within the lifetime cap, whatever part of the claims is approved
\* and also where the office lowers the amount later.  It holds while the scholar's applications come
\* one at a time, as two at once miss each other, and the cap on grants until the office sets an
\* amount above what the claim counted for, which nothing checks against the cap.
WithinLimits ==
    ~overlapped =>
        /\ \A type \in LeaveTypes, year \in Years : DaysOf(Pool(type, year)) <= LeaveCap[type]
        /\ ~raised => Committed <= GrantCap
        /\ ClaimsApart

\* What is asked for once is had once, and what is limited stays within its limit.
GrantsBounded == TakenOnce /\ WithinLimits

\* "approved + pending leaves count": leave that fits beside the approved and the pending leaves
\* may be asked for.
RefusedLeaveFree ==
    \A type \in LeaveTypes, year \in Years, days \in Days :
        DaysOf({i \in Pool(type, year) : requests[leaves[i].approval].status # "REJECTED"}) + days
            <= LeaveCap[type]
        => MayTakeLeave(type, year, days)

=============================================================================
