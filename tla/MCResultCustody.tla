--------------------------- MODULE MCResultCustody ---------------------------
(***************************************************************************)
(* Two scenes.  Alone: requests run one after the other, any of them may   *)
(* die at any point; the offices are shared so that separation of duties   *)
(* has someone to stop in every step.  Together: two requests interleave   *)
(* between their checks and their writes, for one office holder each; the  *)
(* mark of ca is in, so that they meet on the mark of et.                  *)
(***************************************************************************)
EXTENDS ResultCustody, FiniteSetsExt, TLC

CONSTANTS w1, w2, ca, et, ann, bob, cyd, dev, eve

VARIABLE alone

MCTotal(m) == MapThenSumSet(LAMBDA a : m[a], Assessments)

OneHolderEach ==
    /\ Len(results') <= 2
    /\ Len(cases') <= 1
    /\ \A w \in Workers :
          LET q == request'[w]
          IN  /\ q.op = "verify" => q.actor = bob
              /\ q.op = "ratify" => q.actor = cyd
              /\ q.op = "return" => q.actor \in {bob, cyd}
              /\ q.op = "review" => q.actor = eve /\ DOMAIN q.override \subseteq {et}
              /\ q.op = "enter" =>
                     IF marks[ca] = NoMark
                     THEN q.assessment = ca /\ q.entry = 1
                     ELSE q.assessment = et /\ q.entry # Absent

MCInit == Init /\ alone \in BOOLEAN

MCNext ==
    /\ Next
    /\ IF alone THEN ~overlapped' ELSE OneHolderEach
    /\ UNCHANGED alone

MCSpec == MCInit /\ [][MCNext]_<<vars, alone>>

Symmetric == Permutations(Workers)
=============================================================================
