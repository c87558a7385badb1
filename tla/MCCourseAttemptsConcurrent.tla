---------------------- MODULE MCCourseAttemptsConcurrent ----------------------
(***************************************************************************)
(* Two workers, and published outcomes may be revised.  Reviews, decisions *)
(* and registrations are read and written across one another.  The window  *)
(* of a day after the first attempt closes before the last exam.           *)
(***************************************************************************)
EXTENDS CourseAttempts, TLC

CONSTANTS w1, w2, sue, dan, vic

MCWorkers == {w1, w2}
MCSubmitters == {sue}
MCDeans == {dan}
MCVCs == {vic}
MCExams == {[opens |-> 0, closes |-> 0, day |-> 0], [opens |-> 1, closes |-> 1, day |-> 1],
            [opens |-> 2, closes |-> 2, day |-> 2]}
Symmetric == Permutations(MCWorkers)
=============================================================================
