---------------------------- MODULE MCSupervision ----------------------------
(***************************************************************************)
(* Two scenes.  Races: two requests at once, for the last place of a       *)
(* supervisor, for a scholar's supervisor and for a scholar's TAC.         *)
(* Endings: one request at a time, while the office ends what s3 has; m1   *)
(* and m2 are external there and may co-supervise.                         *)
(***************************************************************************)
EXTENDS Supervision, TLC

CONSTANTS w1, w2, s1, s2, s3, fa, fb, m1, m2

MCFaculty == {fa, fb, m1, m2}
MCCapacity == [f \in MCFaculty |-> IF f \in {fa, fb} THEN 1 ELSE 0]
MCInterdisciplinary == {m1, m2} \X {s1, s2, s3}
MCCodes == {"SUPERVISOR_ALLOCATION", "TAC_FORMATION"}
MCSeededChains == [code \in MCCodes |-> IF code = "TAC_FORMATION" THEN {1} ELSE {1, 2}]

VARIABLE scene

InRaces ==
    /\ \A w \in Workers : request'[w] # Idle => request'[w].scholar # s3
    /\ \A a \in DOMAIN assignments' : assignments'[a].faculty \notin External
    /\ Len(requests') <= 4

InEndings ==
    /\ Len(requests') <= 3
    /\ Cardinality({a \in DOMAIN assignments' : assignments'[a].faculty \in External}) <= 1
    /\ Cardinality({w \in Workers : request'[w] # Idle}) <= 1
    /\ Cardinality({assignments'[a].faculty : a \in DOMAIN assignments'} \ External) <= 1
    /\ \A t \in DOMAIN tacs' : tacs'[t].scholar = s3
    /\ \A w \in Workers : request'[w] # Idle /\ request'[w].scholar # s3 =>
          request'[w].op = "allocate" /\ request'[w].faculty \notin External
    /\ Cardinality({a \in DOMAIN assignments' : assignments'[a].scholar # s3}) <= 1

MCInit == Init /\ scene \in {"races", "endings"}

MCNext ==
    /\ Next
    /\ IF scene = "races" THEN InRaces ELSE InEndings
    /\ UNCHANGED scene

MCSpec == MCInit /\ [][MCNext]_<<vars, scene>>

Symmetric == Permutations(Workers) \cup Permutations({s1, s2}) \cup Permutations({fa, fb})
             \cup Permutations({m1, m2})

=============================================================================
