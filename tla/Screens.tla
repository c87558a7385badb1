--------------------------------- MODULE Screens ---------------------------------
(***************************************************************************)
(* The screens on which elective lists and proposals are worked: what a    *)
(* page offers a person, and the request sent from it later with the       *)
(* status, and of a list the step, that it showed.                         *)
(*                                                                         *)
(* Sources: coursework/api/approvals.py (ElectiveListsView,                *)
(* ElectiveListSubmitView, ElectiveListDecideView, ElectiveProposalsView,  *)
(* ElectiveRecommendView, ElectiveDecideView), coursework/api/common.py.   *)
(*                                                                         *)
(* The offers are computed in the view and the same action is checked      *)
(* again in the service, from its own code.  A request whose row is not as *)
(* shown is a conflict, and the page is loaded anew.                       *)
(*                                                                         *)
(* Abstracted: paging, rows a person may view but not act on, rules that   *)
(* are unresolved (they block every offer and every action).               *)
(***************************************************************************)
EXTENDS Transcripts

CONSTANT Tabs

VARIABLE shown \* what each tab shows of one row, and offers

Blank == [offer |-> "none"]

-----------------------------------------------------------------------------
(* What a page offers *)

\* The page looks up the step of every submitted list: one beyond its chain fails the page for everyone.
Displayable ==
    \A l \in Lists : lists[l].status = "SUBMITTED" => lists[l].step \in DOMAIN lists[l].chain

OffersAnyDecision(person, row) ==
    /\ row.status = "SUBMITTED"
    /\ person \in HolderOf[row.chain[row.step]] \ {row.by}

OffersDecision(person, row) ==
    /\ row.status = "SUBMITTED"
    /\ person \in HolderOf[row.chain[row.step]] \ {row.by}
    /\ \A x \in DecisionsOf(row) : x.by # person

OffersOnList(person, row) ==
    {offer \in {"submit", "decideList"} :
        \/ offer = "submit" /\ person \in Preparers /\ row.status \in {"DRAFT", "RETURNED"}
        \/ offer = "decideList" /\ OffersDecision(person, row)}

OffersOnProposal(person, row) ==
    {offer \in {"recommend", "decide"} :
        \/ offer = "recommend" /\ person \in SupervisedBy[row.scholar] /\ row.status = "SUBMITTED"
        \/ /\ offer = "decide"
           /\ person \in Authority \ {row.scholar, row.recommender}
           /\ row.status \in Decidable}

\* round is a history: which submission of the list the tab shows.
ShowList(t, person, l) ==
    /\ Displayable
    /\ lists[l] # NoList
    /\ \E offer \in OffersOnList(person, lists[l]) :
          shown' = [shown EXCEPT ![t] = [offer |-> offer, person |-> person, id |-> l, status |-> lists[l].status,
                                         step |-> lists[l].step, round |-> lists[l].submitted]]
    /\ UNCHANGED <<electiveVars, desk>>

ShowProposal(t, person, p) ==
    /\ proposals[p] # NoProposal
    /\ \E offer \in OffersOnProposal(person, proposals[p]) :
          shown' = [shown EXCEPT ![t] = [offer |-> offer, person |-> person, id |-> p, status |-> proposals[p].status]]
    /\ UNCHANGED <<electiveVars, desk>>

-----------------------------------------------------------------------------
(* What a tab sends *)

OnLists == {t \in Tabs : shown[t].offer \in {"submit", "decideList"}}
OnProposals == {t \in Tabs : shown[t].offer \in {"recommend", "decide"}}

\* expect_status, and of a decision on a list the expected step: only such a decision sends one.
AsShown(t) ==
    LET x == shown[t]
    IN  IF t \in OnProposals
        THEN proposals[x.id].status = x.status
        ELSE /\ lists[x.id].status = x.status
             /\ x.offer = "decideList" => lists[x.id].step = x.step

SendConflict(t) ==
    /\ shown[t] # Blank
    /\ ~AsShown(t)
    /\ shown' = [shown EXCEPT ![t] = Blank]
    /\ UNCHANGED <<electiveVars, desk>>

Send(t, d, positive) ==
    /\ shown[t] # Blank
    /\ AsShown(t)
    /\ LET x == shown[t]
       IN  CASE x.offer = "submit" -> OpenSubmission(d, x.id)
             [] x.offer = "decideList" -> OpenListDecision(d, x.id, x.person, positive)
             [] x.offer = "recommend" -> OpenRecommendation(d, x.id, x.person, positive)
             [] OTHER -> OpenProposalDecision(d, x.id, x.person, positive)
    /\ shown' = [shown EXCEPT ![t] = Blank]

-----------------------------------------------------------------------------

ScreensInit == shown = [t \in Tabs |-> Blank]

ScreensNext ==
    \/ \E t \in Tabs, person \in Officers :
          \/ \E l \in Lists : ShowList(t, person, l)
          \/ \E p \in Proposals : ShowProposal(t, person, p)
    \/ \E t \in Tabs : SendConflict(t) \/ \E d \in Desks, positive \in BOOLEAN : Send(t, d, positive)
    \/ /\ \E d \in Desks : \/ WriteSubmission(d) \/ WriteListDecision(d)
                           \/ WriteRecommendation(d) \/ WriteProposalDecision(d)
       /\ UNCHANGED shown

\* Tabs open beside the semester: the other requests of AcademicNext come from elsewhere.
ScreensSpec ==
    /\ AcademicInit /\ ScreensInit
    /\ [][\/ ScreensNext /\ UNCHANGED <<enrollmentVars, teachingVars, attendanceVars, examVars, transcriptVars>>
          \/ AcademicNext /\ UNCHANGED shown]_<<academicVars, shown>>

-----------------------------------------------------------------------------
(* What offers are worth *)

\* The service would take the action the tab offers.
Accepted(t) ==
    LET x == shown[t]
    IN  CASE x.offer = "submit" -> lists[x.id].status \in {"DRAFT", "RETURNED"}
          [] x.offer = "decideList" -> lists[x.id].status = "SUBMITTED" /\ MayDecideList(x.person, lists[x.id])
          [] x.offer = "recommend" -> proposals[x.id].status = "SUBMITTED" /\ x.person \in SupervisedBy[proposals[x.id].scholar]
          [] OTHER -> proposals[x.id].status \in Decidable /\ MayDecideProposal(x.person, proposals[x.id])

Overwritten(t) ==
    LET x == shown[t]
    IN  IF t \in OnProposals THEN proposals[x.id].stale
        ELSE lists[x.id].stale \/ lists[x.id].submitted # x.round

\* However long a tab stays open and whatever others do meanwhile, what it offers either is a conflict or
\* is accepted, unless the list was submitted again or a request overwrote another; and whoever the
\* service would let decide a list is offered to, on a page that can be shown.
OffersHold ==
    /\ \A t \in OnLists \cup OnProposals : AsShown(t) /\ ~Overwritten(t) => Accepted(t)
    /\ \A l \in Lists, person \in Officers :
          lists[l] # NoList /\ ~lists[l].stale /\ lists[l].status = "SUBMITTED" =>
             /\ Displayable \/ \E k \in Lists : lists[k] # NoList /\ lists[k].stale
             /\ MayDecideList(person, lists[l]) => OffersDecision(person, lists[l])

=============================================================================
