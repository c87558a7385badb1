------------------------ MODULE MCCourseAttemptsSerial ------------------------
(***************************************************************************)
(* One worker.  The window ends on day 2: the first three exams are within *)
(* it, the last is outside and its registration opens while it runs.       *)
(***************************************************************************)
EXTENDS CourseAttempts

CONSTANTS w1, sue, dan, vic

MCWorkers == {w1}
MCSubmitters == {sue, dan}
MCDeans == {dan, vic}
MCVCs == {vic, sue}
MCExams == {[opens |-> 0, closes |-> 0, day |-> 0], [opens |-> 0, closes |-> 1, day |-> 1],
            [opens |-> 1, closes |-> 2, day |-> 2], [opens |-> 2, closes |-> 3, day |-> 3]}
=============================================================================
