----------------------------- MODULE ElectiveChoice -----------------------------
(***************************************************************************)
(* Elective lists of departments and schools, approved step by step, and   *)
(* the scholars' proposals to take an elective.                            *)
(*                                                                         *)
(* Sources: coursework/academic/{elective_lists,electives}.py,             *)
(* coursework/models/{electives_lists,electives}.py.                       *)
(*                                                                         *)
(* A request loads a row and checks the copy, then writes from the copy    *)
(* with no lock: Open... is the first part, Write... the second.  What the *)
(* checks read besides the copy only ever grows, so they are evaluated     *)
(* with the load.  A refused request changes nothing and is left out.      *)
(*                                                                         *)
(* Abstracted: remarks, justifications, credits, intake; the catalogue's   *)
(* active electives open to the scholars' category; who holds which        *)
(* capability in the list's scope.                                         *)
(***************************************************************************)
EXTENDS Integers, Sequences, FiniteSets

CONSTANTS
    Desks,                  \* requests that can be in flight at once
    Officers,               \* persons who are not scholars
    Candidates,             \* scholars, each the person who proposes
    Electives,              \* active electives of the catalogue
    Semesters,
    Lists, Proposals,       \* rows that can be created
    Preparers,              \* DEPARTMENT_ADMIN or SCHOOL_ADMIN in the list's scope
    HolderOf,               \* the holders of each capability
    ListChains,             \* values elective.list_approval_chain takes
    SupervisedBy,           \* the supervisors of each scholar
    Authority,              \* the holders of elective.approval_authority
    RecommendationRequired, \* elective.supervisor_recommendation_required
    ListRequired,           \* elective.proposal_requires_approved_list
    MaxDecisions,           \* bound: decisions on one list
    NoElective, Nobody

ASSUME ElectiveAssumption ==
    /\ Preparers \cup Authority \subseteq Officers
    /\ SupervisedBy \in [Candidates -> SUBSET Officers]
    /\ ListChains \subseteq Seq(DOMAIN HolderOf) \ {<<>>}
    /\ NoElective \notin Electives
    /\ RecommendationRequired \in BOOLEAN
    /\ ListRequired \in BOOLEAN
    /\ MaxDecisions \in Nat

VARIABLES
    lists,     \* ElectiveList rows with their items and decisions
    proposals, \* ElectiveProposal rows
    desk       \* the request at each desk, with the copy it loaded

electiveVars == <<lists, proposals>>

Decision == [step : Nat, by : Officers, approved : BOOLEAN]

ElectiveList ==
    [status : {"DRAFT", "SUBMITTED", "RETURNED", "APPROVED"}, step : Nat, chain : ListChains \cup {<<>>},
     by : Preparers, semester : Semesters, courses : SUBSET Electives, decisions : Seq(Decision),
     submitted : Nat, stale : BOOLEAN]

Proposal ==
    [status : {"SUBMITTED", "RECOMMENDED", "NOT_RECOMMENDED", "APPROVED", "REJECTED"}, scholar : Candidates,
     semester : Semesters, course : Electives \cup {NoElective}, recommender : Officers \cup {Nobody},
     decider : Officers \cup {Nobody}, stale : BOOLEAN]

Free == [op |-> "free"]

NoList == [status |-> "NONE"]

NoProposal == [status |-> "NONE"]

\* stale is a history: the row was written from a copy it no longer equalled.
Touched(row, copy) == row.stale \/ row # copy

OpenRequest(d, r) == desk[d] = Free /\ desk' = [desk EXCEPT ![d] = r]

CloseRequest(d) == desk' = [desk EXCEPT ![d] = Free]

-----------------------------------------------------------------------------
(* Lists *)

\* submitted is the number of decisions there were when the list was last submitted (submitted_at).
PrepareList(l, person, semester, courses) ==
    /\ lists[l] = NoList
    /\ person \in Preparers
    /\ courses # {}
    /\ lists' = [lists EXCEPT ![l] = [status |-> "DRAFT", step |-> 1, chain |-> <<>>, by |-> person,
                                      semester |-> semester, courses |-> courses, decisions |-> <<>>,
                                      submitted |-> 0, stale |-> FALSE]]
    /\ UNCHANGED <<proposals, desk>>

OpenSubmission(d, l) ==
    /\ lists[l].status \in {"DRAFT", "RETURNED"}
    /\ OpenRequest(d, [op |-> "submit", id |-> l, copy |-> lists[l]])
    /\ UNCHANGED electiveVars

WriteSubmission(d) ==
    /\ desk[d].op = "submit"
    /\ LET l == desk[d].id
       IN  \E chain \in ListChains :
              lists' = [lists EXCEPT ![l].status = "SUBMITTED", ![l].step = 1, ![l].chain = chain,
                                     ![l].submitted = Len(lists[l].decisions),
                                     ![l].stale = Touched(lists[l], desk[d].copy)]
    /\ CloseRequest(d)
    /\ UNCHANGED proposals

DecisionsOf(row) == {row.decisions[i] : i \in DOMAIN row.decisions}

\* A step beyond the chain (an approval written over a submission under a shorter one) is an IndexError.
MayDecideStep(person, row) ==
    /\ row.step \in DOMAIN row.chain
    /\ person \in HolderOf[row.chain[row.step]]

MayDecideOwn(person, row) ==
    /\ MayDecideStep(person, row)
    /\ \A x \in DecisionsOf(row) : x.by # person

MayDecideList(person, row) ==
    /\ MayDecideStep(person, row)
    /\ person # row.by
    /\ \A x \in DecisionsOf(row) : x.by # person

OpenListDecision(d, l, person, approve) ==
    /\ lists[l].status = "SUBMITTED"
    /\ MayDecideList(person, lists[l])
    /\ Len(lists[l].decisions) < MaxDecisions
    /\ OpenRequest(d, [op |-> "decideList", id |-> l, copy |-> lists[l], by |-> person, approve |-> approve])
    /\ UNCHANGED electiveVars

\* status and step are written as the copy has them, whichever of the two the decision changes.
WriteListDecision(d) ==
    /\ desk[d].op = "decideList"
    /\ LET r == desk[d]
           copy == r.copy
           last == copy.step >= Len(copy.chain)
           decision == [step |-> copy.step, by |-> r.by, approved |-> r.approve]
       IN  lists' = [lists EXCEPT ![r.id].decisions = Append(@, decision),
                                  ![r.id].status = IF ~r.approve THEN "RETURNED"
                                                   ELSE IF last THEN "APPROVED" ELSE copy.status,
                                  ![r.id].step = IF r.approve /\ ~last THEN copy.step + 1 ELSE copy.step,
                                  ![r.id].stale = Touched(lists[r.id], copy)]
    /\ CloseRequest(d)
    /\ UNCHANGED proposals

-----------------------------------------------------------------------------
(* Proposals *)

ApprovedLists(course, semester) ==
    {l \in Lists : lists[l].status = "APPROVED" /\ lists[l].semester = semester /\ course \in lists[l].courses}

\* Without a course the proposal is for one the catalogue does not have.
Propose(p, scholar, semester, course) ==
    /\ proposals[p] = NoProposal
    /\ course # NoElective /\ ListRequired => ApprovedLists(course, semester) # {}
    /\ proposals' = [proposals EXCEPT ![p] = [status |-> "SUBMITTED", scholar |-> scholar, semester |-> semester,
                                              course |-> course, recommender |-> Nobody, decider |-> Nobody,
                                              stale |-> FALSE]]
    /\ UNCHANGED <<lists, desk>>

OpenRecommendation(d, p, person, recommend) ==
    /\ proposals[p].status = "SUBMITTED"
    /\ person \in SupervisedBy[proposals[p].scholar]
    /\ OpenRequest(d, [op |-> "recommend", id |-> p, copy |-> proposals[p], by |-> person,
                       status |-> IF recommend THEN "RECOMMENDED" ELSE "NOT_RECOMMENDED"])
    /\ UNCHANGED electiveVars

WriteRecommendation(d) ==
    /\ desk[d].op = "recommend"
    /\ proposals' = [proposals EXCEPT ![desk[d].id].status = desk[d].status,
                                      ![desk[d].id].recommender = desk[d].by,
                                      ![desk[d].id].stale = Touched(proposals[desk[d].id], desk[d].copy)]
    /\ CloseRequest(d)
    /\ UNCHANGED lists

Decidable == {"RECOMMENDED", "NOT_RECOMMENDED"} \cup (IF RecommendationRequired THEN {} ELSE {"SUBMITTED"})

MayDecideProposed(person, row) == person \in Authority /\ person # row.scholar

MayDecideProposal(person, row) == person \in Authority /\ person \notin {row.scholar, row.recommender}

OpenProposalDecision(d, p, person, approve) ==
    /\ proposals[p].status \in Decidable
    /\ MayDecideProposal(person, proposals[p])
    /\ OpenRequest(d, [op |-> "decide", id |-> p, copy |-> proposals[p], by |-> person,
                       status |-> IF approve THEN "APPROVED" ELSE "REJECTED"])
    /\ UNCHANGED electiveVars

WriteProposalDecision(d) ==
    /\ desk[d].op = "decide"
    /\ proposals' = [proposals EXCEPT ![desk[d].id].status = desk[d].status,
                                      ![desk[d].id].decider = desk[d].by,
                                      ![desk[d].id].stale = Touched(proposals[desk[d].id], desk[d].copy)]
    /\ CloseRequest(d)
    /\ UNCHANGED lists

-----------------------------------------------------------------------------

ElectiveInit ==
    /\ lists = [l \in Lists |-> NoList]
    /\ proposals = [p \in Proposals |-> NoProposal]
    /\ desk = [d \in Desks |-> Free]

ElectiveNext ==
    \/ \E l \in Lists, person \in Preparers, semester \in Semesters, courses \in SUBSET Electives :
          PrepareList(l, person, semester, courses)
    \/ \E p \in Proposals, scholar \in Candidates, semester \in Semesters, course \in Electives \cup {NoElective} :
          Propose(p, scholar, semester, course)
    \/ \E d \in Desks, l \in Lists :
          \/ OpenSubmission(d, l)
          \/ \E person \in Officers, approve \in BOOLEAN : OpenListDecision(d, l, person, approve)
    \/ \E d \in Desks, p \in Proposals, person \in Officers, positive \in BOOLEAN :
          \/ OpenRecommendation(d, p, person, positive)
          \/ OpenProposalDecision(d, p, person, positive)
    \/ \E d \in Desks : \/ WriteSubmission(d) \/ WriteListDecision(d)
                        \/ WriteRecommendation(d) \/ WriteProposalDecision(d)

-----------------------------------------------------------------------------
(* What approvals rest on *)

SinceSubmission(row) ==
    {row.decisions[i] : i \in {j \in DOMAIN row.decisions : j > row.submitted}}

Signed(row) ==
    \E signer \in [DOMAIN row.chain -> Officers] :
       /\ \A i \in DOMAIN row.chain :
             /\ [step |-> i, by |-> signer[i], approved |-> TRUE] \in SinceSubmission(row)
             /\ signer[i] \in HolderOf[row.chain[i]] \ {row.by}
       /\ \A i, j \in DOMAIN row.chain : i # j => signer[i] # signer[j]

\* A list is approved only after every step of the chain it was last submitted under was approved since
\* then, by different holders of the step's capability and not by its preparer, however often it was
\* returned and the chain changed; unless a request wrote over what it had not read.
ListSigned == \A l \in Lists : lists[l].status = "APPROVED" /\ ~lists[l].stale => Signed(lists[l])

=============================================================================
