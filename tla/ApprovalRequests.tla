-------------------------- MODULE ApprovalRequests --------------------------
(***************************************************************************)
(* Approval requests moving along configurable chains of sign-offs.        *)
(*                                                                         *)
(* Source: core/approvals.py and the chain, step, request and decision     *)
(* tables of core/models.py.                                               *)
(*                                                                         *)
(* decide() locks the request's row and does everything else, the domain   *)
(* callback included, in the same transaction, so a decision is one step.  *)
(* The modules of the domains extend this one: they start requests and     *)
(* join their callback to Decided.                                         *)
(*                                                                         *)
(* Abstracted: a chain is the set of the orders of its steps.  Roles, and  *)
(* the rule that a step is for the scholar's own supervisor, only decide   *)
(* who may take a step; somebody who may is assumed.  Renumbering a step   *)
(* in the admin is not modelled, adding and removing steps is.             *)
(***************************************************************************)
EXTENDS Integers, Sequences

CONSTANTS
    Codes,        \* the codes of the chains
    Orders,       \* the orders a step may have
    SeededChains, \* seed_chains: the orders of each chain's steps
    EditedChains  \* the codes whose chain the R&D office edits while requests are pending

ASSUME ChainsAssumption ==
    /\ Orders \subseteq Nat \ {0}
    /\ SeededChains \in [Codes -> SUBSET Orders]
    /\ \A code \in Codes : 1 \in SeededChains[code]
    /\ EditedChains \subseteq Codes

VARIABLES
    chains,  \* ApprovalStep rows by chain
    requests \* ApprovalRequest rows with their decisions

Decision == [order : Orders, approved : BOOLEAN]

\* WITHDRAWN is declared but nothing sets it.
ApprovalRequest ==
    [code : Codes, status : {"PENDING", "APPROVED", "REJECTED"}, current : Nat \ {0},
     trail : Seq(Decision)]

ChainsInit ==
    /\ chains = SeededChains
    /\ requests = <<>>

\* ApprovalRequest.pending_step is not None
HasPendingStep(q) ==
    /\ q.status = "PENDING"
    /\ q.current \in chains[q.code]

\* resolve_chain: a chain without steps is refused.
Startable(code) == chains[code] # {}

\* The row start_approval saves: current_step keeps its default, whatever the first order is.
Started(code) == [code |-> code, status |-> "PENDING", current |-> 1, trail |-> <<>>]

\* start_approval, called in the transaction that inserts the rows it is for
StartApproval(code) ==
    /\ Startable(code)
    /\ requests' = Append(requests, Started(code))
    /\ UNCHANGED chains

LaterSteps(q) == {o \in chains[q.code] : o > q.current}

DecidedAtOnce(q, approved) ==
    [q EXCEPT !.trail = Append(@, [order |-> q.current, approved |-> approved]),
              !.status = IF approved THEN "APPROVED" ELSE "REJECTED"]

\* decide: a rejection closes, the last step approves, any other moves to the next order.
Decided(q, approved) ==
    [q EXCEPT
        !.trail = Append(@, [order |-> q.current, approved |-> approved]),
        !.status = CASE ~approved -> "REJECTED"
                     [] approved /\ LaterSteps(q) = {} -> "APPROVED"
                     [] OTHER -> "PENDING",
        !.current = IF approved /\ LaterSteps(q) # {}
                    THEN CHOOSE o \in LaterSteps(q) : \A p \in LaterSteps(q) : o <= p
                    ELSE @]

\* The step's decisions protect it (on_delete=PROTECT).
StepProtected(code, o) ==
    \E i \in DOMAIN requests :
        /\ requests[i].code = code
        /\ \E k \in DOMAIN requests[i].trail : requests[i].trail[k].order = o

AddStep(code, o) ==
    /\ code \in EditedChains
    /\ o \notin chains[code]
    /\ chains' = [chains EXCEPT ![code] = @ \cup {o}]
    /\ UNCHANGED requests

RemoveStep(code, o) ==
    /\ code \in EditedChains
    /\ o \in chains[code]
    /\ ~StepProtected(code, o)
    /\ chains' = [chains EXCEPT ![code] = @ \ {o}]
    /\ UNCHANGED requests

EditChains == \E code \in Codes, o \in Orders : AddStep(code, o) \/ RemoveStep(code, o)

-----------------------------------------------------------------------------

ChainsTypeOK ==
    /\ chains \in [Codes -> SUBSET Orders]
    /\ requests \in Seq(ApprovalRequest)

\* The decisions on a request were taken at rising steps, each one approved except a last one
\* that rejected, and the status is what the last of them says, however the chain was edited.
TrailSound ==
    \A i \in DOMAIN requests :
        LET q == requests[i]
            n == Len(q.trail)
        IN  /\ \A k \in 1 .. n - 1 : q.trail[k].order < q.trail[k + 1].order /\ q.trail[k].approved
            /\ n > 0 => q.trail[n].approved = (q.status # "REJECTED")
            /\ q.status = "PENDING" => \A k \in 1 .. n : q.trail[k].order < q.current

\* Where nobody edits the chain, an approved request was signed at every one of its steps.
SignedThroughout ==
    \A i \in DOMAIN requests :
        requests[i].code \notin EditedChains /\ requests[i].status = "APPROVED" =>
            {requests[i].trail[k].order : k \in DOMAIN requests[i].trail} = chains[requests[i].code]

=============================================================================
