------------------------------ MODULE MCScholar ------------------------------
(***************************************************************************)
(* One scholar and two workers, in scenes: the scholar's applications, one *)
(* chain edited while requests on it are pending; grant claims alone,      *)
(* whose amounts the office edits meanwhile; the assistantship; and the    *)
(* course of the programme in stretches, each from LifeInit or after an    *)
(* uneventful course up to its first phase, ending a few phases later.     *)
(***************************************************************************)
EXTENDS ScholarRequests, Lifecycle, TeachingAssistance, TLC

CONSTANTS w1, w2

VARIABLE scene

MCWorkers == {w1, w2}
MCCodes == {"SYNOPSIS", "LEAVE", "GRANT_CLAIM", "DEGREE_AWARD"}
MCLeaveCap == [type \in {"ANNUAL"} |-> 3]
MCSeededChains == [code \in MCCodes |-> IF code = "SYNOPSIS" THEN {1, 2} ELSE {1}]
MCLoads == {[hours |-> 1, contact |-> 1], [hours |-> 2, contact |-> 0]}

\* The first and the last phase of each stretch; the last goes as far as it can.
Stretch ==
    [admission |-> [from |-> 1, to |-> 3], coursework |-> [from |-> 3, to |-> 4],
     proposal |-> [from |-> 4, to |-> 5], progress |-> [from |-> 5, to |-> 7],
     thesis |-> [from |-> 7, to |-> 8], evaluation |-> [from |-> 8, to |-> 11]]

Uneventful(first) ==
    LET at(phase) == [phase |-> phase, status |-> "ACTIVE"]
    IN  /\ scholar = at(first)
        /\ transitions = [k \in 1..(first - 1) |-> [before |-> at(k), after |-> at(k + 1)]]
        /\ met = {m \in DOMAIN Milestone : Milestone[m] < first}
        /\ proposals = IF first > 4 THEN <<"RECOMMENDED">> ELSE <<>>
        /\ reports = IF first > 5 THEN <<[outcome |-> "SATISFACTORY", review |-> 0]>> ELSE <<>>
        /\ reviews = <<>>
        /\ panel = "NONE" /\ examiners = <<>>
        /\ inflight = [w \in Handlers |-> Unoccupied]
        /\ crossed = FALSE

AmountsByDecision ==
    \A c \in DOMAIN claims : claims'[c].granted # claims[c].granted => claims'[c].state # claims[c].state

ClaimsOnly == UNCHANGED chains /\ \A w \in Workers : request'[w].op \in {"idle", "claim"}

MCInit ==
    /\ Init
    /\ TaInit
    /\ scene \in {"applications", "claims", "assistantship"} \cup DOMAIN Stretch
    /\ IF scene \in DOMAIN Stretch THEN Uneventful(Stretch[scene].from) ELSE LifeInit

MCNext ==
    \/ scene = "applications" /\ Next /\ AmountsByDecision /\ UNCHANGED <<lifeVars, taVars, scene>>
    \/ scene = "claims" /\ Next /\ ClaimsOnly /\ UNCHANGED <<lifeVars, taVars, scene>>
    \/ scene = "assistantship" /\ TaNext /\ UNCHANGED <<vars, lifeVars, scene>>
    \/ /\ scene \in DOMAIN Stretch
       /\ LifeNext
       /\ scholar'.phase <= Stretch[scene].to
       /\ UNCHANGED <<vars, taVars, scene>>

MCSpec == MCInit /\ [][MCNext]_<<vars, lifeVars, taVars, scene>>

Symmetric == Permutations(MCWorkers)

=============================================================================
