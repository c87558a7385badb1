---------------------------- MODULE AttemptLadder ----------------------------
(***************************************************************************)
(* What the examination service promises about a scholar's attempts at a   *)
(* course: they are taken one at a time, numbered without a gap, never     *)
(* more than Last of them, none is struck from the record, and each ends   *)
(* with an outcome, which only a revision changes.                         *)
(***************************************************************************)
EXTENDS Integers, Sequences

CONSTANTS
    Outcomes, \* how an attempt can end
    Pending,  \* an attempt that has not ended
    Last      \* the number of the last attempt there can be

VARIABLE ladder \* the outcome of each attempt, in order

Init == ladder = <<>>

Open ==
    /\ Len(ladder) < Last
    /\ \A i \in DOMAIN ladder : ladder[i] # Pending
    /\ ladder' = Append(ladder, Pending)

Settle ==
    \E i \in DOMAIN ladder, o \in Outcomes :
        /\ o # ladder[i]
        /\ ladder' = [ladder EXCEPT ![i] = o]

Next == Open \/ Settle

Spec == Init /\ [][Next]_ladder
=============================================================================
