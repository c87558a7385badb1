----------------------- MODULE ApprovalRequestsProofs -----------------------
(***************************************************************************)
(* What every step of a domain keeps true of its approval requests, for    *)
(* any chains.  A step leaves the requests alone, starts one, decides one  *)
(* or edits the chains (RequestStep); the modules of the domains cite      *)
(* these lemmas for each of their actions.                                 *)
(***************************************************************************)
EXTENDS ApprovalRequests, TLAPS, WellFoundedInduction

DecideRequest(i, approved) ==
    /\ HasPendingStep(requests[i])
    /\ requests' = [requests EXCEPT ![i] = Decided(requests[i], approved)]
    /\ UNCHANGED chains

RequestStep ==
    \/ UNCHANGED <<chains, requests>>
    \/ \E code \in Codes : StartApproval(code)
    \/ \E i \in DOMAIN requests, approved \in BOOLEAN : DecideRequest(i, approved)
    \/ EditChains

\* Where nobody edits a chain it stays as seeded, a pending request has signed exactly the steps
\* before its current one, and an approved request all of them.
SignedSoFar ==
    /\ \A code \in Codes \ EditedChains : chains[code] = SeededChains[code]
    /\ \A i \in DOMAIN requests :
          LET q == requests[i]
              signed == {q.trail[k].order : k \in DOMAIN q.trail}
          IN  q.code \notin EditedChains =>
                /\ q.status = "APPROVED" => signed = chains[q.code]
                /\ q.status = "PENDING" =>
                      /\ q.current \in chains[q.code]
                      /\ signed = {o \in chains[q.code] : o < q.current}

RequestsInv == ChainsTypeOK /\ TrailSound /\ SignedSoFar

-----------------------------------------------------------------------------

\* A nonempty set of naturals has a least element.
LEMMA LeastNatural ==
    ASSUME NEW T, T \subseteq Nat, T # {}
    PROVE  \E m \in T : \A n \in T : m <= n
  <1> DEFINE Less == {ss \in Nat \X Nat : ss[1] < ss[2]}
  <1>1. IsWellFoundedOn(Less, Nat)
    BY NatLessThanWellFounded DEF OpToRel
  <1>2. PICK m \in T : \A n \in T : ~(<<n, m>> \in Less)
    <2> HIDE DEF Less
    <2> QED
      BY <1>1, WFMin
  <1>3. ASSUME NEW n \in T PROVE m <= n
    <2>1. m \in Nat /\ n \in Nat
      OBVIOUS
    <2>2. <<n, m>> \notin Less
      <3> HIDE DEF Less
      <3> QED
        BY <1>2
    <2>3. ~(n < m)
      BY <2>1, <2>2
    <2> QED
      BY <2>1, <2>3
  <1> QED
    BY <1>3

\* The step a request moves to is the least of the later ones.
LEMMA NextStep ==
    ASSUME ChainsAssumption, ChainsTypeOK, NEW q \in ApprovalRequest, LaterSteps(q) # {}
    PROVE  LET next == CHOOSE o \in LaterSteps(q) : \A p \in LaterSteps(q) : o <= p
           IN  /\ next \in LaterSteps(q)
               /\ \A p \in LaterSteps(q) : next <= p
  <1>1. LaterSteps(q) \subseteq Nat
    BY DEF ChainsAssumption, ChainsTypeOK, LaterSteps, ApprovalRequest
  <1>2. \E m \in LaterSteps(q) : \A n \in LaterSteps(q) : m <= n
    BY <1>1, LeastNatural
  <1> QED
    BY <1>2

\* What a decision makes of a request.
LEMMA DecidedFields ==
    ASSUME ChainsAssumption, ChainsTypeOK, NEW q \in ApprovalRequest, HasPendingStep(q),
           NEW approved \in BOOLEAN
    PROVE  LET new == Decided(q, approved)
           IN  /\ new \in ApprovalRequest
               /\ new.code = q.code
               /\ new.trail = Append(q.trail, [order |-> q.current, approved |-> approved])
               /\ ~approved => new.status = "REJECTED"
               /\ approved /\ LaterSteps(q) = {} => new.status = "APPROVED"
               /\ approved /\ LaterSteps(q) # {} =>
                     /\ new.status = "PENDING"
                     /\ new.current \in LaterSteps(q)
                     /\ \A p \in LaterSteps(q) : new.current <= p
  <1> DEFINE next == CHOOSE o \in LaterSteps(q) : \A p \in LaterSteps(q) : o <= p
             new == Decided(q, approved)
             decision == [order |-> q.current, approved |-> approved]
  <1>1. LaterSteps(q) # {} => next \in LaterSteps(q) /\ \A p \in LaterSteps(q) : next <= p
    BY NextStep
  <1>2. LaterSteps(q) \subseteq Nat \ {0} /\ q.current \in Orders
    BY DEF ChainsAssumption, ChainsTypeOK, LaterSteps, ApprovalRequest, HasPendingStep
  <1>3. decision \in Decision /\ q.trail \in Seq(Decision)
    BY <1>2 DEF Decision, ApprovalRequest
  <1>4. Append(q.trail, decision) \in Seq(Decision)
    BY <1>3
  <1> DEFINE status == CASE ~approved -> "REJECTED"
                       [] approved /\ LaterSteps(q) = {} -> "APPROVED"
                       [] OTHER -> "PENDING"
             current == IF approved /\ LaterSteps(q) # {} THEN next ELSE q.current
  <1>5. /\ new.code = q.code
        /\ new.trail = Append(q.trail, decision)
        /\ new.status = status
        /\ new.current = current
        /\ new = [code |-> q.code, status |-> status, current |-> current,
                  trail |-> Append(q.trail, decision)]
    <2>1. q = [code |-> q.code, status |-> q.status, current |-> q.current, trail |-> q.trail]
      BY DEF ApprovalRequest
    <2> HIDE DEF next, decision
    <2>2. new = [[[q EXCEPT !.trail = Append(q.trail, decision)]
                     EXCEPT !.status = status] EXCEPT !.current = current]
      BY DEF Decided, decision, next
    <2> HIDE DEF new, status, current
    <2> QED
      BY <2>1, <2>2
  <1>6. new.status \in {"PENDING", "APPROVED", "REJECTED"}
    BY <1>5
  <1>7. new.current \in Nat \ {0}
    BY <1>1, <1>2, <1>5 DEF ApprovalRequest
  <1>8. new \in ApprovalRequest
    BY <1>4, <1>5, <1>6, <1>7 DEF ApprovalRequest
  <1> QED
    BY <1>1, <1>5, <1>8

\* The seeded chains, before any request.
LEMMA ChainsInitSound == ChainsAssumption /\ ChainsInit => RequestsInv
  BY DEF ChainsAssumption, ChainsInit, RequestsInv, ChainsTypeOK, TrailSound, SignedSoFar

\* Requests and chains stay well typed.
LEMMA ChainsTyped ==
    ASSUME ChainsAssumption, ChainsTypeOK, RequestStep
    PROVE  ChainsTypeOK'
  <1>1. CASE UNCHANGED <<chains, requests>>
    BY <1>1 DEF ChainsTypeOK
  <1>2. ASSUME NEW code \in Codes, StartApproval(code) PROVE ChainsTypeOK'
    <2>1. Started(code) \in ApprovalRequest
      BY DEF Started, ApprovalRequest
    <2> QED
      BY <1>2, <2>1 DEF StartApproval, ChainsTypeOK
  <1>3. ASSUME NEW i \in DOMAIN requests, NEW approved \in BOOLEAN, DecideRequest(i, approved)
        PROVE ChainsTypeOK'
    <2>1. requests[i] \in ApprovalRequest
      BY DEF ChainsTypeOK
    <2>2. Decided(requests[i], approved) \in ApprovalRequest
      BY <1>3, <2>1, DecidedFields DEF DecideRequest
    <2> QED
      BY <1>3, <2>2 DEF DecideRequest, ChainsTypeOK
  <1>4. CASE EditChains
    BY <1>4 DEF EditChains, AddStep, RemoveStep, ChainsTypeOK
  <1> QED
    BY <1>1, <1>2, <1>3, <1>4 DEF RequestStep

-----------------------------------------------------------------------------
(* The decisions on a request *)

\* What TrailSound says of one request.
Sound(q) ==
    LET n == Len(q.trail)
    IN  /\ \A k \in 1 .. n - 1 : q.trail[k].order < q.trail[k + 1].order /\ q.trail[k].approved
        /\ n > 0 => q.trail[n].approved = (q.status # "REJECTED")
        /\ q.status = "PENDING" => \A k \in 1 .. n : q.trail[k].order < q.current

\* What SignedSoFar says of one request.
Signed(q) == {q.trail[k].order : k \in DOMAIN q.trail}

SignedUp(q) ==
    q.code \notin EditedChains =>
        /\ q.status = "APPROVED" => Signed(q) = chains[q.code]
        /\ q.status = "PENDING" =>
              /\ q.current \in chains[q.code]
              /\ Signed(q) = {o \in chains[q.code] : o < q.current}

\* A decision keeps a request's decisions in order.
LEMMA DecidedSound ==
    ASSUME ChainsAssumption, ChainsTypeOK, NEW q \in ApprovalRequest, HasPendingStep(q), Sound(q),
           NEW approved \in BOOLEAN
    PROVE  Sound(Decided(q, approved))
  <1> DEFINE new == Decided(q, approved)
             n == Len(q.trail)
             decision == [order |-> q.current, approved |-> approved]
  <1>1. /\ new \in ApprovalRequest
        /\ new.trail = Append(q.trail, decision)
        /\ ~approved => new.status = "REJECTED"
        /\ approved => new.status # "REJECTED"
        /\ new.status = "PENDING" => new.current \in LaterSteps(q)
    BY DecidedFields
  <1>2. /\ q.trail \in Seq(Decision)
        /\ q.status = "PENDING"
        /\ q.current \in Nat
        /\ n \in Nat
        /\ \A k \in 1 .. n : q.trail[k].order \in Nat /\ q.trail[k].approved \in BOOLEAN
    <2>1. /\ q.trail \in Seq(Decision)
          /\ q.status = "PENDING"
          /\ q.current \in Nat
      BY DEF ApprovalRequest, HasPendingStep
    <2>2. \A k \in 1 .. n : q.trail[k] \in Decision
      BY <2>1
    <2>3. \A d \in Decision : d.order \in Nat /\ d.approved \in BOOLEAN
      BY DEF Decision, ChainsAssumption
    <2> QED
      BY <2>1, <2>2, <2>3
  <1>3. /\ Len(new.trail) = n + 1
        /\ new.trail[n + 1] = decision
        /\ \A k \in 1 .. n : new.trail[k] = q.trail[k]
    BY <1>1, <1>2
  <1>4. ASSUME NEW k \in 1 .. n PROVE q.trail[k].order < q.current /\ q.trail[k].approved
    <2>1. q.trail[k].order < q.current
      BY <1>2 DEF Sound
    <2>2. CASE k = n
      <3>1. n > 0
        BY <1>2, <2>2
      <3>2. q.trail[n].approved = (q.status # "REJECTED")
        BY <3>1 DEF Sound
      <3> QED
        BY <1>2, <2>1, <2>2, <3>2
    <2>3. CASE k \in 1 .. n - 1
      BY <2>1, <2>3 DEF Sound
    <2> QED
      BY <1>2, <2>2, <2>3
  <1> HIDE DEF new
  <1>5. ASSUME NEW k \in 1 .. n
        PROVE  new.trail[k].order < new.trail[k + 1].order /\ new.trail[k].approved
    <2>1. CASE k = n
      BY <1>2, <1>3, <1>4, <2>1
    <2>2. CASE k \in 1 .. n - 1
      <3>1. k + 1 \in 1 .. n
        BY <1>2, <2>2
      <3> QED
        BY <1>2, <1>3, <1>4, <2>2, <3>1 DEF Sound
    <2> QED
      BY <1>2, <2>1, <2>2
  <1>6. new.trail[n + 1].approved = (new.status # "REJECTED")
    BY <1>1, <1>3
  <1>7. ASSUME new.status = "PENDING", NEW k \in 1 .. n + 1 PROVE new.trail[k].order < new.current
    <2>1. new.current \in Nat /\ q.current < new.current
      BY <1>1, <1>7 DEF LaterSteps, ApprovalRequest
    <2>2. CASE k \in 1 .. n
      BY <1>2, <1>3, <1>4, <2>1, <2>2
    <2>3. CASE k = n + 1
      BY <1>3, <2>1, <2>3
    <2> QED
      BY <1>2, <2>2, <2>3
  <1>8. (n + 1) - 1 = n
    BY <1>2
  <1> QED
    BY <1>2, <1>3, <1>5, <1>6, <1>7, <1>8 DEF Sound, new

\* A decision signs the step it is taken at and no other.
LEMMA DecidedSigned ==
    ASSUME ChainsAssumption, ChainsTypeOK, NEW q \in ApprovalRequest, HasPendingStep(q),
           SignedUp(q), NEW approved \in BOOLEAN
    PROVE  SignedUp(Decided(q, approved))
  <1> DEFINE new == Decided(q, approved)
             decision == [order |-> q.current, approved |-> approved]
  <1>1. /\ new.code = q.code
        /\ new.trail = Append(q.trail, decision)
        /\ ~approved => new.status = "REJECTED"
        /\ approved /\ LaterSteps(q) = {} => new.status = "APPROVED"
        /\ approved /\ LaterSteps(q) # {} =>
              /\ new.status = "PENDING"
              /\ new.current \in LaterSteps(q)
              /\ \A p \in LaterSteps(q) : new.current <= p
    BY DecidedFields
  <1>2. q.trail \in Seq(Decision) /\ q.status = "PENDING" /\ q.current \in chains[q.code]
    BY DEF ApprovalRequest, HasPendingStep
  <1>3. chains[q.code] \subseteq Nat
    BY DEF ApprovalRequest, ChainsTypeOK, ChainsAssumption
  <1> HIDE DEF new
  <1>4. Signed(new) = Signed(q) \cup {q.current}
    BY <1>1, <1>2 DEF Signed
  <1> SUFFICES ASSUME q.code \notin EditedChains, approved
               PROVE  /\ new.status = "APPROVED" => Signed(new) = chains[q.code]
                      /\ new.status = "PENDING" =>
                            /\ new.current \in chains[q.code]
                            /\ Signed(new) = {o \in chains[q.code] : o < new.current}
    BY <1>1 DEF SignedUp, new
  <1>5. Signed(q) = {o \in chains[q.code] : o < q.current}
    BY <1>2 DEF SignedUp
  <1>6. CASE LaterSteps(q) = {}
    <2>1. \A o \in chains[q.code] : o < q.current \/ o = q.current
      BY <1>2, <1>3, <1>6 DEF LaterSteps
    <2> QED
      BY <1>1, <1>2, <1>4, <1>5, <1>6, <2>1
  <1>7. CASE LaterSteps(q) # {}
    <2>1. new.current \in chains[q.code] /\ q.current < new.current
      BY <1>1, <1>7 DEF LaterSteps
    <2>2. ASSUME NEW o \in chains[q.code]
          PROVE  o < new.current <=> o < q.current \/ o = q.current
      <3>1. /\ o \in Nat
            /\ q.current \in Nat
            /\ new.current \in Nat
        BY <1>2, <1>3, <2>1
      <3>2. q.current < o => new.current <= o
        BY <1>1, <1>7 DEF LaterSteps
      <3> QED
        BY <2>1, <3>1, <3>2
    <2> QED
      BY <1>1, <1>2, <1>4, <1>5, <1>7, <2>1, <2>2
  <1> QED
    BY <1>6, <1>7

\* Decisions stay in order, and where nobody edits the chain complete, over every step.
LEMMA RequestsKept ==
    ASSUME ChainsAssumption, RequestsInv, RequestStep
    PROVE  RequestsInv'
  <1> USE DEF RequestsInv
  <1>1. ChainsTypeOK'
    BY ChainsTyped
  <1>2. /\ \A i \in DOMAIN requests : Sound(requests[i]) /\ SignedUp(requests[i])
        /\ \A code \in Codes \ EditedChains : chains[code] = SeededChains[code]
    BY DEF TrailSound, SignedSoFar, Sound, SignedUp, Signed
  <1>3. /\ \A i \in DOMAIN requests' : Sound(requests'[i]) /\ SignedUp(requests[i])'
        /\ \A code \in Codes \ EditedChains : chains'[code] = SeededChains[code]
    <2>1. CASE UNCHANGED <<chains, requests>>
      BY <1>2, <2>1 DEF SignedUp
    <2>2. ASSUME NEW code \in Codes, StartApproval(code)
          PROVE  /\ \A i \in DOMAIN requests' : Sound(requests'[i]) /\ SignedUp(requests[i])'
                 /\ chains' = chains
      <3>1. /\ requests \in Seq(ApprovalRequest)
            /\ requests' = Append(requests, Started(code))
            /\ chains' = chains
        BY <2>2 DEF StartApproval, ChainsTypeOK
      <3>2. Sound(Started(code))
        BY DEF Sound, Started
      <3>3. code \notin EditedChains => chains[code] \subseteq Nat \ {0} /\ 1 \in chains[code]
        BY <1>2 DEF ChainsAssumption
      <3>4. SignedUp(Started(code))
        BY <3>3 DEF SignedUp, Signed, Started
      <3>5. ASSUME NEW i \in DOMAIN requests'
            PROVE  Sound(requests'[i]) /\ SignedUp(requests[i])'
        <4>1. \/ requests'[i] = Started(code)
              \/ i \in DOMAIN requests /\ requests'[i] = requests[i]
          <5>1. i \in 1 .. Len(requests) + 1 /\ DOMAIN requests = 1 .. Len(requests)
            BY <3>1
          <5> QED
            BY <3>1, <5>1
        <4> QED
          BY <1>2, <3>1, <3>2, <3>4, <4>1 DEF SignedUp
      <3> QED
        BY <3>1, <3>5
    <2>3. ASSUME NEW j \in DOMAIN requests, NEW approved \in BOOLEAN, DecideRequest(j, approved)
          PROVE  /\ \A i \in DOMAIN requests' : Sound(requests'[i]) /\ SignedUp(requests[i])'
                 /\ chains' = chains
      <3>1. /\ requests[j] \in ApprovalRequest
            /\ requests' = [requests EXCEPT ![j] = Decided(requests[j], approved)]
            /\ HasPendingStep(requests[j])
            /\ chains' = chains
        BY <2>3 DEF DecideRequest, ChainsTypeOK
      <3>2. Sound(Decided(requests[j], approved)) /\ SignedUp(Decided(requests[j], approved))
        BY <1>2, <3>1, DecidedSound, DecidedSigned
      <3>3. ASSUME NEW i \in DOMAIN requests'
            PROVE  Sound(requests'[i]) /\ SignedUp(requests[i])'
        <4>1. /\ i \in DOMAIN requests
              /\ requests'[i] = Decided(requests[j], approved) \/ requests'[i] = requests[i]
          BY <3>1
        <4> QED
          BY <1>2, <3>1, <3>2, <4>1 DEF SignedUp
      <3> QED
        BY <3>1, <3>3
    <2>4. CASE EditChains
      <3>1. /\ requests' = requests
            /\ \A code \in Codes \ EditedChains : chains'[code] = chains[code]
        BY <2>4 DEF EditChains, AddStep, RemoveStep, ChainsTypeOK
      <3>2. ASSUME NEW i \in DOMAIN requests PROVE SignedUp(requests[i])'
        <4>1. requests[i].code \in Codes
          <5>1. requests[i] \in ApprovalRequest
            BY DEF ChainsTypeOK
          <5> QED
            BY <5>1 DEF ApprovalRequest
        <4> QED
          BY <1>2, <3>1, <4>1 DEF SignedUp, Signed
      <3> QED
        BY <1>2, <3>1, <3>2
    <2> QED
      BY <1>2, <2>1, <2>2, <2>3, <2>4 DEF RequestStep
  <1>4. TrailSound'
    BY <1>3 DEF TrailSound, Sound
  <1>5. SignedSoFar'
    BY <1>3 DEF SignedSoFar, SignedUp, Signed
  <1> QED
    BY <1>1, <1>4, <1>5

\* Signed so far is signed throughout in the end.
LEMMA SoFarThroughout == SignedSoFar => SignedThroughout
  BY DEF SignedSoFar, SignedThroughout

=============================================================================
