-------------------------- MODULE PublishedResult --------------------------
(***************************************************************************)
(* What the custody chain promises to a reader of the record: an attempt   *)
(* has no official result until one is published; a published result never *)
(* disappears, and it changes only while it is contested, into a different *)
(* one; a contest ends by upholding the result or by revising it.          *)
(***************************************************************************)
CONSTANTS
    Totals,      \* what a result can say
    Unpublished  \* no official result yet

VARIABLES official, contested

vars == <<official, contested>>

Init ==
    /\ official = Unpublished
    /\ contested = FALSE

Publish ==
    /\ official = Unpublished
    /\ official' \in Totals
    /\ UNCHANGED contested

Contest ==
    /\ official # Unpublished
    /\ ~contested
    /\ contested' = TRUE
    /\ UNCHANGED official

Uphold ==
    /\ contested
    /\ contested' = FALSE
    /\ UNCHANGED official

Revise ==
    /\ contested
    /\ official' \in Totals \ {official}
    /\ contested' = FALSE

Next == Publish \/ Contest \/ Uphold \/ Revise

Spec == Init /\ [][Next]_vars
=============================================================================
