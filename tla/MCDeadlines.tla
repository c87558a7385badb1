---------------------------- MODULE MCDeadlines ----------------------------
(* Stretches of a scholar's course, each with the dates that may be         *)
(* recorded in it; earlier dates are those of day 0.  A run meets one       *)
(* change, or dies, which it does on day 2 only; what is taken back is not  *)
(* recorded again.                                                          *)
EXTENDS Deadlines

VARIABLE may \* the dates recorded in this stretch

MCExaminers == {"1", "2"}

MCPeriod ==
    "supervisor" :> 1 @@ "tac" :> 1 @@ "coursework" :> 2 @@ "proposal" :> 1 @@ "progress" :> 2
    @@ "synopsis" :> 3 @@ "synopsis_extension" :> 1 @@ "thesis" :> 1 @@ "thesis_extension" :> 1
    @@ "examiner" :> 1 @@ "viva" :> 1 @@ "fellowship" :> 1 @@ "maximum" :> 4 @@ "re_registration" :> 1
    @@ "relaxation" :> 1

MCCalendar == <<"RPET">> :> 2

\* What is known at the start of a stretch, and what may be recorded or moved in it
Begun == {"registered", "proposed", "supervisor", "tac", "coursework", "proposal", ReportOf(1)}

Stretch ==
    {<<{}, {"registered", "proposed"}>>,
     <<{"registered", "proposed"}, {"supervisor"}>>,
     <<{"registered", "proposed", "supervisor"}, {"tac", "left"}>>,
     <<Begun \ {"coursework", "proposal"}, {"coursework", "proposal"}>>,
     <<Begun, {"RPET"}>>,
     <<Begun, {"synopsis_extension", "synopsis"}>>,
     <<Begun \cup {"synopsis", "cleared"}, {"thesis_extension", "thesis"}>>,
     <<(Begun \cup {"synopsis", "fellowship"}) \ {ReportOf(1)}, {ReportOf(1), "fellowship"}>>,
     <<Begun \cup {"synopsis"}, {"re_registration", "cleared"}>>,
     <<Begun \cup {"synopsis", "cleared", "re_registration"}, {"relaxation"}>>,
     <<Begun \cup {"synopsis", "cleared", "thesis", Dispatch("1"), Dispatch("2"), Receipt("1")},
       {Dispatch("2"), Receipt("2"), "viva"}>>}

MCDates == UNION {s[1] \cup s[2] : s \in Stretch} \ {"RPET"}

MCInit ==
    \E s \in Stretch :
        /\ may = s[2]
        /\ today = 0
        /\ on = [d \in s[1] |-> 0]
        /\ events = <<>> /\ rows = <<>> /\ notices = {}
        /\ job = Resting
        /\ settled = FALSE
        /\ crashes = 0

\* Next, with the changes of this stretch
MCNext ==
    /\ \/ JobStep
       \/ /\ job # Resting => ~job.disturbed
          /\ \/ today = 2 /\ Crash
             \/ Tick
             \/ \E d \in may \cap Dates : Record(d) \/ TakeBack(d)
             \/ \E e \in {e \in DOMAIN events : e[1] \in may} : MoveEvent(e)
    /\ may' = may \ (DOMAIN on \ DOMAIN on')

MCSpec == MCInit /\ [][MCNext]_<<vars, may>> /\ WF_vars(JobStep)

=============================================================================
