---------------------------- MODULE DeadlinesProofs ----------------------------
(***************************************************************************)
(* Theorems about Deadlines, for any dates, periods, reminder leads and    *)
(* calendar, any number of deaths of the job and any length of the course. *)
(***************************************************************************)
EXTENDS Deadlines, TLAPS

-----------------------------------------------------------------------------
(* Deadlines derived from the scholar's dates *)

\* What the first part of a deadline's key, and the second where there is one, say of it
Says(s, kind, due, met) == s.key[1] = kind => s.due = due /\ s.met = met

Keyed(s) ==
    /\ Says(s, "SUPERVISOR", on["registered"] + Period["supervisor"], Known("supervisor"))
    /\ Says(s, "COURSEWORK", on["registered"] + Period["coursework"], Known("coursework"))
    /\ Says(s, "MAX_DURATION", Ceiling, Known("thesis"))
    /\ Says(s, "TAC", on["supervisor"] + Period["tac"], Known("tac"))
    /\ Says(s, "PROPOSAL", Clamped(on["coursework"] + Period["proposal"]), Known("proposal"))
    /\ Says(s, "SYNOPSIS", Clamped(on["registered"] + Period["synopsis"]
                    + Extension("synopsis_extension", "synopsis_extension")), Known("synopsis"))
    /\ Says(s, "THESIS", Clamped(on["cleared"] + Period["thesis"]
                    + Extension("thesis_extension", "thesis_extension")), Known("thesis"))
    /\ Says(s, "VIVA", LastAnswer + Period["viva"], Known("viva"))
    /\ Says(s, "SRF", on["fellowship"] + Period["fellowship"], FALSE)
    /\ Says(s, "PROGRESS", on["registered"] + s.key[2] * Period["progress"], Known(ReportOf(s.key[2])))
    /\ Says(s, "EXAMINER", on[Dispatch(s.key[2])] + Period["examiner"], Known(Receipt(s.key[2])))

Kinds == {"SUPERVISOR", "COURSEWORK", "MAX_DURATION", "TAC", "PROPOSAL", "SYNOPSIS", "THESIS", "VIVA",
          "SRF", "PROGRESS", "EXAMINER"}

Spelt(s) == s = [key |-> s.key, due |-> s.due, met |-> s.met] /\ s.met \in BOOLEAN

LEMMA DueIs ==
    ASSUME NEW s, NEW key, NEW due, NEW met \in BOOLEAN, s \in Due(key, due, met)
    PROVE  Spelt(s) /\ s.key = key /\ s.due = due /\ s.met = met
  BY DEF Due, Spelt

LEMMA KnownOrNot == ASSUME NEW d PROVE Known(d) \in BOOLEAN
  BY DEF Known

\* A deadline is what its key says.
LEMMA SpecsKeyed ==
    ASSUME NEW day, NEW s \in ScholarDeadlines(day)
    PROVE  Spelt(s) /\ s.key[1] \in Kinds /\ Keyed(s)
  <1> DEFINE Stands == Spelt(s) /\ s.key[1] \in Kinds /\ Keyed(s)
             SupervisorDue == Due(<<"SUPERVISOR">>, on["registered"] + Period["supervisor"],
                                  Known("supervisor"))
             CourseworkDue == Due(<<"COURSEWORK">>, on["registered"] + Period["coursework"],
                                  Known("coursework"))
             DurationDue == Due(<<"MAX_DURATION">>, Ceiling, Known("thesis"))
             TacDue == Due(<<"TAC">>, on["supervisor"] + Period["tac"], Known("tac"))
             ProposalDue == Due(<<"PROPOSAL">>, Clamped(on["coursework"] + Period["proposal"]),
                                Known("proposal"))
             SynopsisDue == Due(<<"SYNOPSIS">>, Clamped(on["registered"] + Period["synopsis"]
                                + Extension("synopsis_extension", "synopsis_extension")), Known("synopsis"))
             ThesisDue == Due(<<"THESIS">>, Clamped(on["cleared"] + Period["thesis"]
                                + Extension("thesis_extension", "thesis_extension")), Known("thesis"))
             VivaDue == Due(<<"VIVA">>, LastAnswer + Period["viva"], Known("viva"))
             SrfDue == Due(<<"SRF">>, on["fellowship"] + Period["fellowship"], FALSE)
             ReportDue(n) ==
                 Due(<<"PROGRESS", n>>, on["registered"] + n * Period["progress"], Known(ReportOf(n)))
             ExaminerDue(e) ==
                 Due(<<"EXAMINER", e>>, on[Dispatch(e)] + Period["examiner"], Known(Receipt(e)))
             ReportsDue == UNION {ReportDue(n) : n \in Reports(day)}
             ExaminersDue == UNION {ExaminerDue(e) : e \in Asked}
             VivaReady == Known("thesis") /\ Asked # {} /\ Cardinality(Answered) >= Chosen
             AllDue == SupervisorDue \cup CourseworkDue \cup DurationDue
                       \cup When(Known("supervisor"), TacDue) \cup When(Known("coursework"), ProposalDue)
                       \cup ReportsDue \cup SynopsisDue \cup When(Known("cleared"), ThesisDue)
                       \cup When(Known("thesis"), ExaminersDue) \cup When(VivaReady, VivaDue)
                       \cup When(Known("fellowship"), SrfDue)
  <1>1. ASSUME NEW c, NEW specs PROVE When(c, specs) \subseteq specs
    BY DEF When
  <1>2. \/ s \in SupervisorDue \/ s \in CourseworkDue \/ s \in DurationDue \/ s \in TacDue
        \/ s \in ProposalDue \/ s \in SynopsisDue \/ s \in ThesisDue \/ s \in VivaDue \/ s \in SrfDue
        \/ (\E n \in Reports(day) : s \in ReportDue(n)) \/ (\E e \in Asked : s \in ExaminerDue(e))
    <2>1. ScholarDeadlines(day) = When(Known("registered"), AllDue)
      BY Zenon DEF ScholarDeadlines
    <2> HIDE DEF SupervisorDue, CourseworkDue, DurationDue, TacDue, ProposalDue, SynopsisDue, ThesisDue,
                 VivaDue, SrfDue, ReportDue, ExaminerDue, VivaReady
    <2>2. s \in AllDue
      BY <2>1, <1>1, Zenon
    <2>3. /\ When(Known("supervisor"), TacDue) \subseteq TacDue
          /\ When(Known("coursework"), ProposalDue) \subseteq ProposalDue
          /\ When(Known("cleared"), ThesisDue) \subseteq ThesisDue
          /\ When(Known("thesis"), ExaminersDue) \subseteq ExaminersDue
          /\ When(VivaReady, VivaDue) \subseteq VivaDue
          /\ When(Known("fellowship"), SrfDue) \subseteq SrfDue
      BY <1>1, Zenon
    <2>4. /\ s \in ReportsDue => \E n \in Reports(day) : s \in ReportDue(n)
          /\ s \in ExaminersDue => \E e \in Asked : s \in ExaminerDue(e)
      OBVIOUS
    <2> HIDE DEF ReportsDue, ExaminersDue
    <2> QED
      BY <2>2, <2>3, <2>4, Zenon
  <1>3. CASE s \in SupervisorDue
    <2>1. Spelt(s) /\ s.key = <<"SUPERVISOR">>
      BY <1>3, DueIs, KnownOrNot
    <2>2. s.due = on["registered"] + Period["supervisor"] /\ s.met = Known("supervisor")
      BY <1>3, DueIs, KnownOrNot
    <2>3. s.key[1] = "SUPERVISOR"
      BY <2>1
    <2> QED
      BY <2>1, <2>2, <2>3 DEF Says, Keyed, Kinds
  <1>4. CASE s \in CourseworkDue
    <2>1. Spelt(s) /\ s.key = <<"COURSEWORK">>
      BY <1>4, DueIs, KnownOrNot
    <2>2. s.due = on["registered"] + Period["coursework"] /\ s.met = Known("coursework")
      BY <1>4, DueIs, KnownOrNot
    <2>3. s.key[1] = "COURSEWORK"
      BY <2>1
    <2> QED
      BY <2>1, <2>2, <2>3 DEF Says, Keyed, Kinds
  <1>5. CASE s \in DurationDue
    <2>1. Spelt(s) /\ s.key = <<"MAX_DURATION">>
      BY <1>5, DueIs, KnownOrNot
    <2>2. s.due = Ceiling /\ s.met = Known("thesis")
      BY <1>5, DueIs, KnownOrNot
    <2>3. s.key[1] = "MAX_DURATION"
      BY <2>1
    <2> QED
      BY <2>1, <2>2, <2>3 DEF Says, Keyed, Kinds
  <1>6. CASE s \in TacDue
    <2>1. Spelt(s) /\ s.key = <<"TAC">>
      BY <1>6, DueIs, KnownOrNot
    <2>2. s.due = on["supervisor"] + Period["tac"] /\ s.met = Known("tac")
      BY <1>6, DueIs, KnownOrNot
    <2>3. s.key[1] = "TAC"
      BY <2>1
    <2> QED
      BY <2>1, <2>2, <2>3 DEF Says, Keyed, Kinds
  <1>7. CASE s \in ProposalDue
    <2>1. Spelt(s) /\ s.key = <<"PROPOSAL">>
      BY <1>7, DueIs, KnownOrNot
    <2>2. s.due = Clamped(on["coursework"] + Period["proposal"]) /\ s.met = Known("proposal")
      BY <1>7, DueIs, KnownOrNot
    <2>3. s.key[1] = "PROPOSAL"
      BY <2>1
    <2> QED
      BY <2>1, <2>2, <2>3 DEF Says, Keyed, Kinds
  <1>8. CASE s \in SynopsisDue
    <2>1. Spelt(s) /\ s.key = <<"SYNOPSIS">>
      BY <1>8, DueIs, KnownOrNot
    <2>2. /\ s.due = Clamped(on["registered"] + Period["synopsis"]
                                    + Extension("synopsis_extension", "synopsis_extension"))
          /\ s.met = Known("synopsis")
      BY <1>8, DueIs, KnownOrNot
    <2>3. s.key[1] = "SYNOPSIS"
      BY <2>1
    <2> QED
      BY <2>1, <2>2, <2>3 DEF Says, Keyed, Kinds
  <1>9. CASE s \in ThesisDue
    <2>1. Spelt(s) /\ s.key = <<"THESIS">>
      BY <1>9, DueIs, KnownOrNot
    <2>2. /\ s.due = Clamped(on["cleared"] + Period["thesis"]
                                    + Extension("thesis_extension", "thesis_extension"))
          /\ s.met = Known("thesis")
      BY <1>9, DueIs, KnownOrNot
    <2>3. s.key[1] = "THESIS"
      BY <2>1
    <2> QED
      BY <2>1, <2>2, <2>3 DEF Says, Keyed, Kinds
  <1>10. CASE s \in VivaDue
    <2>1. Spelt(s) /\ s.key = <<"VIVA">>
      BY <1>10, DueIs, KnownOrNot
    <2>2. s.due = LastAnswer + Period["viva"] /\ s.met = Known("viva")
      BY <1>10, DueIs, KnownOrNot
    <2>3. s.key[1] = "VIVA"
      BY <2>1
    <2> QED
      BY <2>1, <2>2, <2>3 DEF Says, Keyed, Kinds
  <1>11. CASE s \in SrfDue
    <2>1. Spelt(s) /\ s.key = <<"SRF">>
      BY <1>11, DueIs, KnownOrNot
    <2>2. s.due = on["fellowship"] + Period["fellowship"] /\ s.met = FALSE
      BY <1>11, DueIs, KnownOrNot
    <2>3. s.key[1] = "SRF"
      BY <2>1
    <2> QED
      BY <2>1, <2>2, <2>3 DEF Says, Keyed, Kinds
  <1>12. ASSUME NEW n \in Reports(day), s \in ReportDue(n)
         PROVE  Stands
    <2>1. /\ Spelt(s) /\ s.key = <<"PROGRESS", n>> /\ s.met = Known(ReportOf(n))
          /\ s.due = on["registered"] + n * Period["progress"]
      BY <1>12, DueIs, KnownOrNot
    <2>2. s.key[1] = "PROGRESS" /\ s.key[2] = n
      BY <2>1
    <2> QED
      BY <2>1, <2>2 DEF Says, Keyed, Kinds
  <1>13. ASSUME NEW e \in Asked, s \in ExaminerDue(e)
         PROVE  Stands
    <2>1. /\ Spelt(s) /\ s.key = <<"EXAMINER", e>> /\ s.met = Known(Receipt(e))
          /\ s.due = on[Dispatch(e)] + Period["examiner"]
      BY <1>13, DueIs, KnownOrNot
    <2>2. s.key[1] = "EXAMINER" /\ s.key[2] = e
      BY <2>1
    <2> QED
      BY <2>1, <2>2 DEF Says, Keyed, Kinds
  <1> QED
    BY <1>2, <1>3, <1>4, <1>5, <1>6, <1>7, <1>8, <1>9, <1>10, <1>11, <1>12, <1>13
\* A key says when the deadline is due and whether it was met.
LEMMA KeysApart ==
    ASSUME NEW day, NEW s \in ScholarDeadlines(day), NEW t \in ScholarDeadlines(day), s.key = t.key
    PROVE  s = t
  <1>1. Spelt(s) /\ s.key[1] \in Kinds /\ Keyed(s) /\ Spelt(t) /\ Keyed(t)
    BY SpecsKeyed
  <1>2. s.due = t.due /\ s.met = t.met
    BY <1>1, s.key = t.key, Zenon DEF Keyed, Says, Kinds
  <1> QED
    BY <1>1, <1>2 DEF Spelt

LEMMA SameDeadlines ==
    ASSUME NEW day, on' = on
    PROVE  ScholarDeadlines(day)' = ScholarDeadlines(day)
  BY DEF ScholarDeadlines, Known, Extension, Ceiling, Clamped, Horizon, Reports, Asked, Answered, LastAnswer

\* The synchronised rows that are not met are the deadlines that are not.
LEMMA SyncedRows ==
    ASSUME NEW specs, \A s \in specs : Spelt(s), \A s, t \in specs : s.key = t.key => s = t
    PROVE  Unmet(Synced(specs)) = {s \in specs : ~s.met}
  <1> DEFINE keys == {s.key : s \in specs}
             table == Synced(specs)
             Met == {r \in DOMAIN rows : rows[r].met}
             SpecOf(k) == CHOOSE s \in specs : s.key = k
  <1>1. ASSUME NEW s \in specs
        PROVE  /\ s.key \in DOMAIN table
               /\ table[s.key] = [due |-> s.due, met |-> s.met]
    <2>1. SpecOf(s.key) = s
      OBVIOUS
    <2> QED
      BY <2>1 DEF Synced
  <1>2. ASSUME NEW k \in DOMAIN table, k \notin keys
        PROVE  table[k].met
    BY <1>2 DEF Synced
  <1> HIDE DEF table
  <1>3. ASSUME NEW x \in Unmet(table)
        PROVE  x \in specs /\ ~x.met
    <2>1. PICK k \in DOMAIN table : ~table[k].met /\ x = [key |-> k, due |-> table[k].due, met |-> FALSE]
      BY DEF Unmet
    <2>2. PICK s \in specs : s.key = k
      BY <2>1, <1>2
    <2>3. table[k] = [due |-> s.due, met |-> s.met]
      BY <1>1, <2>2
    <2>4. s.met = FALSE
      BY <2>1, <2>3 DEF Spelt
    <2>5. x = s
      BY <2>1, <2>2, <2>3, <2>4 DEF Spelt
    <2> QED
      BY <2>4, <2>5
  <1>4. ASSUME NEW s \in specs, ~s.met
        PROVE  s \in Unmet(table)
    <2>1. s.key \in DOMAIN table /\ table[s.key] = [due |-> s.due, met |-> s.met]
      BY <1>1
    <2>2. ~table[s.key].met /\ table[s.key].due = s.due /\ s.met = FALSE
      BY <2>1, <1>4 DEF Spelt
    <2>3. s = [key |-> s.key, due |-> table[s.key].due, met |-> FALSE]
      BY <2>2 DEF Spelt
    <2> QED
      BY <2>1, <2>2, <2>3 DEF Unmet
  <1>5. Unmet(table) = {s \in specs : ~s.met}
    BY <1>3, <1>4
  <1> QED
    BY <1>5 DEF table
-----------------------------------------------------------------------------
(* What is to be told *)

Wanted == DeadlineNotices(today) \cup EventNotices(today)

\* The notices of deadlines depend on what is still to be met, whichever rows hold it.
NoticesFor(unmet) ==
    When(Active,
         UNION {UNION {{Notice(who, s.key, tier, s.due) : who \in Audience(tier)} :
                           tier \in TierFor(s.due, today)} :
                    s \in unmet})

LEMMA NoticesForUnmet == DeadlineNotices(today) = NoticesFor(Unmet(rows))
  <1>1. ASSUME NEW n \in DeadlineNotices(today)
        PROVE  n \in NoticesFor(Unmet(rows))
    <2>0. Active
      BY <1>1 DEF DeadlineNotices, When
    <2>1. PICK k \in DOMAIN rows : Active /\ ~rows[k].met /\
              \E tier \in TierFor(rows[k].due, today) : \E who \in Audience(tier) :
                 n = Notice(who, k, tier, rows[k].due)
      BY <1>1, <2>0 DEF DeadlineNotices, When
    <2> DEFINE s == [key |-> k, due |-> rows[k].due, met |-> FALSE]
    <2>2. s \in Unmet(rows) /\ s.key = k /\ s.due = rows[k].due
      BY <2>1 DEF Unmet
    <2> HIDE DEF s
    <2> QED
      BY <2>1, <2>2 DEF NoticesFor, When
  <1>2. ASSUME NEW n \in NoticesFor(Unmet(rows))
        PROVE  n \in DeadlineNotices(today)
    <2>0. Active
      BY <1>2 DEF NoticesFor, When
    <2>1. PICK s \in Unmet(rows) : Active /\
              \E tier \in TierFor(s.due, today) : \E who \in Audience(tier) :
                 n = Notice(who, s.key, tier, s.due)
      BY <1>2, <2>0 DEF NoticesFor, When
    <2>2. PICK k \in DOMAIN rows : ~rows[k].met /\ s = [key |-> k, due |-> rows[k].due, met |-> FALSE]
      BY <2>1 DEF Unmet
    <2>3. s.key = k /\ s.due = rows[k].due
      BY <2>2
    <2> QED
      BY <2>1, <2>2, <2>3 DEF DeadlineNotices, When
  <1> QED
    BY <1>1, <1>2

LEMMA SameWanted ==
    ASSUME UNCHANGED <<today, on, events>>, Unmet(rows)' = Unmet(rows)
    PROVE  Wanted' = Wanted
  <1>1. (DeadlineNotices(today) = NoticesFor(Unmet(rows)))'
    BY NoticesForUnmet, PTL
  <1>2. NoticesFor(Unmet(rows))' = NoticesFor(Unmet(rows))
    BY DEF NoticesFor, Active, Audience, Known
  <1>3. EventNotices(today)' = EventNotices(today)
    BY DEF EventNotices
  <1> QED
    BY <1>1, <1>2, <1>3, NoticesForUnmet DEF Wanted

LEMMA WantedKeys == \A n \in Wanted : n.key \in {k \in DOMAIN rows : ~rows[k].met} \cup DOMAIN events
  <1>1. ASSUME NEW n \in DeadlineNotices(today)
        PROVE  \E k \in {r \in DOMAIN rows : ~rows[r].met} : n.key = k
    <2>1. PICK k \in {r \in DOMAIN rows : ~rows[r].met} :
              \E tier \in TierFor(rows[k].due, today) : \E who \in Audience(tier) :
                 n = Notice(who, k, tier, rows[k].due)
      BY <1>1 DEF DeadlineNotices, When
    <2>2. n.key = k
      BY <2>1 DEF Notice
    <2> QED
      BY <2>2
  <1>2. ASSUME NEW n \in EventNotices(today)
        PROVE  n.key \in DOMAIN events
    <2>1. PICK e \in DOMAIN events :
              \E tier \in TierFor(events[e], today) : n = Notice("office", e, tier, events[e])
      BY <1>2, Zenon DEF EventNotices
    <2> QED
      BY <2>1 DEF Notice
  <1> QED
    BY <1>1, <1>2 DEF Wanted

-----------------------------------------------------------------------------
(* The run *)

\* The events the job of this day creates
Upcoming == {e \in DOMAIN Calendar : YearOf(Calendar[e]) \in {YearOf(today), YearOf(today) + 1}}

RowsRight == Active => Unmet(rows) = {s \in ScholarDeadlines(today) : ~s.met}

AllTold(left) == Active => \A n \in Wanted : n \in left \/ \E m \in notices : SameNotice(n, m)

JobTyped ==
    \/ job = Resting
    \/ /\ job = [step |-> job.step, day |-> job.day, disturbed |-> job.disturbed, left |-> job.left]
       /\ job.step \in {"calendar", "dispatch", "send"} /\ job.disturbed \in BOOLEAN
       /\ job.step = "calendar" => job.left \subseteq DOMAIN Calendar

EventsTyped == events = [e \in DOMAIN events |-> events[e]] /\ DOMAIN events \subseteq DOMAIN Calendar

\* After a complete run nothing is missing, and a run that goes on then has not been disturbed.
Complete ==
    settled => /\ Upcoming \subseteq DOMAIN events /\ RowsRight /\ AllTold({})
               /\ job # Resting => ~job.disturbed

\* How far a run is in which nothing changed
Running ==
    job # Resting /\ ~job.disturbed =>
        /\ job.day = today
        /\ job.step = "calendar" =>
              job.left \subseteq Upcoming /\ Upcoming \subseteq job.left \cup DOMAIN events
        /\ job.step # "calendar" => Upcoming \subseteq DOMAIN events /\ RowsRight
        /\ job.step = "send" => job.left \subseteq Wanted /\ AllTold(job.left)

RunInv == JobTyped /\ EventsTyped /\ Complete /\ Running

LEMMA RunMeans == RunInv => RunComplete
  BY DEF RunInv, Complete, RowsRight, AllTold, RunComplete, Unmet, Wanted

LEMMA RunBegins == Init => RunInv
  <1> SUFFICES ASSUME Init PROVE RunInv
    OBVIOUS
  <1>1. events = [e \in DOMAIN events |-> events[e]] /\ DOMAIN events = {}
    BY DEF Init
  <1> QED
    BY <1>1 DEF Init, RunInv, JobTyped, EventsTyped, Complete, Running
LEMMA SameRows ==
    ASSUME UNCHANGED <<today, on>>, Unmet(rows)' = Unmet(rows)
    PROVE  RowsRight' <=> RowsRight
  <1>1. ScholarDeadlines(today)' = ScholarDeadlines(today)
    BY DEF ScholarDeadlines, Known, Extension, Ceiling, Clamped, Horizon, Reports, Asked, Answered, LastAnswer
  <1> QED
    BY <1>1 DEF RowsRight, Active, Known

\* What has been told stays told.
LEMMA StaysTold ==
    ASSUME UNCHANGED on, Wanted' = Wanted, notices \subseteq notices', NEW left, AllTold(left)
    PROVE  AllTold(left)'
  BY DEF AllTold, Active, Known

LEMMA StartKeeps == RunInv /\ StartJob => RunInv'
  <1> SUFFICES ASSUME RunInv, StartJob PROVE RunInv'
    OBVIOUS
  <1> USE DEF RunInv, StartJob
  <1>1. JobTyped' /\ EventsTyped'
    BY DEF JobTyped, EventsTyped
  <1>2. /\ job'.step = "calendar" /\ job'.day = today /\ job'.disturbed = FALSE
        /\ job'.left = Upcoming /\ job' # Resting
    BY DEF Upcoming, Resting
  <1>3. Upcoming' = Upcoming /\ Unmet(rows)' = Unmet(rows)
    BY DEF Upcoming, Unmet
  <1>4. Complete'
    BY <1>2, <1>3, SameRows, SameWanted, StaysTold DEF Complete
  <1>5. Running'
    BY <1>2, <1>3 DEF Running
  <1> QED
    BY <1>1, <1>4, <1>5

LEMMA CreateKeeps == RunInv /\ CreateEvent => RunInv'
  <1> SUFFICES ASSUME RunInv, CreateEvent PROVE RunInv'
    OBVIOUS
  <1> USE DEF RunInv
  <1> DEFINE left == job.left
             e == First(left)
  <1>1. /\ job.step = "calendar" /\ left # {} /\ UNCHANGED <<today, on, rows, notices, settled>>
        /\ events' = [x \in DOMAIN events \cup {e} |-> IF x \in DOMAIN events THEN events[x] ELSE Calendar[x]]
        /\ job' = [job EXCEPT !.left = left \ {e}]
    BY DEF CreateEvent
  <1>2. e \in left
    BY <1>1 DEF First
  <1>3. job # Resting
    BY <1>1 DEF Resting
  <1>4. /\ job' = [step |-> "calendar", day |-> job.day, disturbed |-> job.disturbed, left |-> left \ {e}]
        /\ left \subseteq DOMAIN Calendar /\ job.disturbed \in BOOLEAN
    BY <1>1, <1>3 DEF JobTyped
  <1>5. /\ job'.step = "calendar" /\ job'.day = job.day
        /\ job'.disturbed = job.disturbed /\ job'.left = left \ {e}
    BY <1>4
  <1>6. job' # Resting
    BY <1>5 DEF Resting
  <1>7. /\ DOMAIN events' = DOMAIN events \cup {e}
        /\ events' = [x \in DOMAIN events' |-> events'[x]]
        /\ e \in DOMAIN events => events' = events
    BY <1>1 DEF EventsTyped
  <1>8. Upcoming' = Upcoming /\ Unmet(rows)' = Unmet(rows)
    BY <1>1 DEF Upcoming, Unmet
  <1>9. JobTyped' /\ EventsTyped'
    BY <1>2, <1>4, <1>5, <1>7 DEF JobTyped, EventsTyped
  <1>10. ASSUME settled
         PROVE  /\ Upcoming \subseteq DOMAIN events /\ e \in DOMAIN events
                /\ RowsRight /\ AllTold({}) /\ ~job.disturbed
    BY <1>1, <1>2, <1>3, <1>10 DEF Complete, Running
  <1>11. Complete'
    <2> SUFFICES ASSUME settled
                 PROVE  /\ Upcoming' \subseteq DOMAIN events' /\ RowsRight' /\ AllTold({})'
                        /\ job' # Resting => ~job'.disturbed
      BY <1>1 DEF Complete
    <2>1. Wanted' = Wanted
      BY <1>1, <1>7, <1>8, <1>10, SameWanted
    <2>2. AllTold({})'
      BY <1>1, <1>10, <2>1, StaysTold
    <2>3. RowsRight'
      BY <1>1, <1>8, <1>10, SameRows
    <2> QED
      BY <1>5, <1>7, <1>8, <1>10, <2>2, <2>3
  <1>12. Running'
    <2> SUFFICES ASSUME ~job.disturbed
                 PROVE  /\ job'.day = today' /\ job'.left \subseteq Upcoming'
                        /\ Upcoming' \subseteq job'.left \cup DOMAIN events'
      BY <1>5 DEF Running
    <2>1. job.day = today /\ left \subseteq Upcoming /\ Upcoming \subseteq left \cup DOMAIN events
      BY <1>1, <1>3 DEF Running
    <2> HIDE DEF left, e
    <2> QED
      BY <1>1, <1>5, <1>7, <1>8, <2>1
  <1> QED
    BY <1>9, <1>11, <1>12

LEMMA SyncKeeps == RunInv /\ SyncScholar => RunInv'
  <1> SUFFICES ASSUME RunInv, SyncScholar PROVE RunInv'
    OBVIOUS
  <1> USE DEF RunInv
  <1>1. /\ job.step = "calendar" /\ job.left = {} /\ UNCHANGED <<today, on, events, settled>>
        /\ rows' = IF Active THEN Synced(ScholarDeadlines(job.day)) ELSE rows
        /\ notices' = {n \in notices : n.key \in DOMAIN rows' \cup DOMAIN Calendar}
        /\ job' = [job EXCEPT !.step = "dispatch"]
    BY DEF SyncScholar
  <1>2. job # Resting
    BY <1>1 DEF Resting
  <1>3. /\ job' = [step |-> "dispatch", day |-> job.day, disturbed |-> job.disturbed, left |-> job.left]
        /\ job.disturbed \in BOOLEAN
    BY <1>1, <1>2 DEF JobTyped
  <1>4. job'.step = "dispatch" /\ job'.day = job.day /\ job'.disturbed = job.disturbed
    BY <1>3
  <1>5. Upcoming' = Upcoming /\ (Active' <=> Active)
    BY <1>1 DEF Upcoming, Active, Known
  <1>6. JobTyped' /\ EventsTyped'
    BY <1>1, <1>3, <1>4 DEF JobTyped, EventsTyped
  <1>7. ASSUME ~job.disturbed
        PROVE  job.day = today /\ Upcoming \subseteq DOMAIN events
    BY <1>1, <1>2, <1>7 DEF Running
  <1>8. ASSUME ~job.disturbed, Active
        PROVE  Unmet(rows)' = {s \in ScholarDeadlines(today) : ~s.met}
    <2>1. PICK specs : specs = ScholarDeadlines(today)
      OBVIOUS
    <2>2. /\ \A s \in specs : Spelt(s)
          /\ \A s, t \in specs : s.key = t.key => s = t
      BY <2>1, SpecsKeyed, KeysApart
    <2>3. rows' = Synced(specs)
      BY <1>1, <1>7, <1>8, <2>1
    <2>4. Unmet(rows)' = Unmet(Synced(specs))
      BY <2>3 DEF Unmet
    <2> QED
      BY <2>1, <2>2, <2>4, SyncedRows
  <1>9. ScholarDeadlines(today)' = ScholarDeadlines(today)
    BY <1>1 DEF ScholarDeadlines, Known, Extension, Ceiling, Clamped, Horizon, Reports, Asked, Answered, LastAnswer
  <1>10. ~job.disturbed => RowsRight'
    BY <1>5, <1>8, <1>9 DEF RowsRight
  <1>11. Complete'
    <2> SUFFICES ASSUME settled
                 PROVE  Upcoming' \subseteq DOMAIN events' /\ RowsRight' /\ AllTold({})' /\ ~job'.disturbed
      BY <1>1 DEF Complete
    <2>1. ~job.disturbed /\ RowsRight /\ AllTold({})
      BY <1>2 DEF Complete
    <2>2. ASSUME Active PROVE AllTold({})'
      <3>1. Unmet(rows)' = Unmet(rows)
        BY <1>8, <2>1, <2>2 DEF RowsRight
      <3>2. Wanted' = Wanted
        BY <1>1, <3>1, SameWanted
      <3>3. (\A n \in Wanted : n.key \in {k \in DOMAIN rows : ~rows[k].met} \cup DOMAIN events)'
        BY WantedKeys, PTL
      <3>4. DOMAIN events' \subseteq DOMAIN Calendar
        BY <1>6 DEF EventsTyped
      <3>5. ASSUME NEW n \in Wanted PROVE \E m \in notices' : SameNotice(n, m)
        <4>1. PICK m \in notices : SameNotice(n, m)
          BY <2>1, <2>2 DEF AllTold
        <4>2. n.key \in DOMAIN rows' \cup DOMAIN Calendar
          BY <3>2, <3>3, <3>4
        <4>3. m.key = n.key
          BY <4>1 DEF SameNotice
        <4> QED
          BY <1>1, <4>1, <4>2, <4>3
      <3> QED
        BY <3>2, <3>5 DEF AllTold
    <2>3. ~Active => AllTold({})'
      BY <1>5 DEF AllTold
    <2> QED
      BY <1>1, <1>4, <1>5, <1>7, <1>10, <2>1, <2>2, <2>3
  <1>12. Running'
    BY <1>1, <1>4, <1>5, <1>7, <1>10 DEF Running
  <1> QED
    BY <1>6, <1>11, <1>12
LEMMA DispatchKeeps == RunInv /\ StartDispatch => RunInv'
  <1> SUFFICES ASSUME RunInv, StartDispatch PROVE RunInv'
    OBVIOUS
  <1> USE DEF RunInv
  <1>1. /\ job.step = "dispatch" /\ UNCHANGED <<today, on, events, rows, notices, settled>>
        /\ job' = [job EXCEPT !.step = "send", !.left = DeadlineNotices(job.day) \cup EventNotices(job.day)]
    BY DEF StartDispatch
  <1>2. job # Resting
    BY <1>1 DEF Resting
  <1>3. PICK sent : sent = DeadlineNotices(job.day) \cup EventNotices(job.day)
    OBVIOUS
  <1>4. /\ job' = [step |-> "send", day |-> job.day, disturbed |-> job.disturbed, left |-> sent]
        /\ job.disturbed \in BOOLEAN
    BY <1>1, <1>2, <1>3 DEF JobTyped
  <1>5. job'.step = "send" /\ job'.day = job.day /\ job'.disturbed = job.disturbed /\ job'.left = sent
    BY <1>4
  <1>6. Upcoming' = Upcoming /\ Unmet(rows)' = Unmet(rows)
    BY <1>1 DEF Upcoming, Unmet
  <1>7. JobTyped' /\ EventsTyped'
    BY <1>1, <1>4, <1>5 DEF JobTyped, EventsTyped
  <1>8. Wanted' = Wanted /\ (RowsRight' <=> RowsRight)
    BY <1>1, <1>6, SameWanted, SameRows
  <1>9. Complete'
    BY <1>1, <1>2, <1>5, <1>6, <1>8, StaysTold DEF Complete
  <1>10. Running'
    <2> SUFFICES ASSUME ~job.disturbed
                 PROVE  /\ job'.day = today' /\ Upcoming' \subseteq DOMAIN events' /\ RowsRight'
                        /\ job'.left \subseteq Wanted' /\ AllTold(job.left)'
      BY <1>5 DEF Running
    <2>1. job.day = today /\ Upcoming \subseteq DOMAIN events /\ RowsRight
      BY <1>1, <1>2 DEF Running
    <2>2. sent = Wanted
      BY <1>3, <2>1 DEF Wanted
    <2>3. AllTold(job.left)'
      BY <1>5, <1>8, <2>2 DEF AllTold
    <2> QED
      BY <1>1, <1>5, <1>6, <1>8, <2>1, <2>2, <2>3
  <1> QED
    BY <1>7, <1>9, <1>10

LEMMA NotifyKeeps == RunInv /\ Notify => RunInv'
  <1> SUFFICES ASSUME RunInv, Notify PROVE RunInv'
    OBVIOUS
  <1> USE DEF RunInv
  <1>1. PICK left, n : left = job.left /\ n = First(job.left)
    OBVIOUS
  <1>2. /\ job.step = "send" /\ left # {} /\ UNCHANGED <<today, on, events, rows, settled>>
        /\ notices' = IF \E m \in notices : SameNotice(n, m) THEN notices ELSE notices \cup {n}
        /\ job' = [job EXCEPT !.left = left \ {n}]
    BY <1>1 DEF Notify
  <1>3. job # Resting
    BY <1>2 DEF Resting
  <1>4. /\ job' = [step |-> "send", day |-> job.day, disturbed |-> job.disturbed, left |-> left \ {n}]
        /\ job.disturbed \in BOOLEAN
    BY <1>2, <1>3 DEF JobTyped
  <1>5. job'.step = "send" /\ job'.day = job.day /\ job'.disturbed = job.disturbed /\ job'.left = left \ {n}
    BY <1>4
  <1>6. Upcoming' = Upcoming /\ Unmet(rows)' = Unmet(rows)
    BY <1>2 DEF Upcoming, Unmet
  <1>7. JobTyped' /\ EventsTyped'
    BY <1>2, <1>4, <1>5 DEF JobTyped, EventsTyped
  <1>8. Wanted' = Wanted /\ (RowsRight' <=> RowsRight)
    BY <1>2, <1>6, SameWanted, SameRows
  <1>9. notices \subseteq notices' /\ \E m \in notices' : SameNotice(n, m)
    BY <1>2 DEF SameNotice
  <1>10. Complete'
    BY <1>2, <1>3, <1>5, <1>6, <1>8, <1>9, StaysTold DEF Complete
  <1>11. Running'
    <2> SUFFICES ASSUME ~job.disturbed
                 PROVE  /\ job'.day = today' /\ Upcoming' \subseteq DOMAIN events' /\ RowsRight'
                        /\ job'.left \subseteq Wanted' /\ AllTold(job.left)'
      BY <1>5 DEF Running
    <2>1. job.day = today /\ Upcoming \subseteq DOMAIN events /\ RowsRight /\ left \subseteq Wanted /\ AllTold(left)
      BY <1>1, <1>2, <1>3 DEF Running
    <2>2. AllTold(left)'
      BY <1>2, <1>8, <1>9, <2>1, StaysTold
    <2>3. AllTold(job.left)'
      BY <1>5, <1>9, <2>2 DEF AllTold
    <2> QED
      BY <1>2, <1>5, <1>6, <1>8, <2>1, <2>3
  <1> QED
    BY <1>7, <1>10, <1>11

LEMMA FinishKeeps == RunInv /\ Finish => RunInv'
  <1> SUFFICES ASSUME RunInv, Finish PROVE RunInv'
    OBVIOUS
  <1> USE DEF RunInv
  <1>1. /\ job.step = "send" /\ job.left = {} /\ UNCHANGED <<today, on, events, rows, notices>>
        /\ job' = Resting /\ settled' = ~job.disturbed
    BY DEF Finish
  <1>2. job # Resting
    BY <1>1 DEF Resting
  <1>3. Upcoming' = Upcoming /\ Unmet(rows)' = Unmet(rows)
    BY <1>1 DEF Upcoming, Unmet
  <1>4. Wanted' = Wanted /\ (RowsRight' <=> RowsRight)
    BY <1>1, <1>3, SameWanted, SameRows
  <1>5. ~job.disturbed => Upcoming \subseteq DOMAIN events /\ RowsRight /\ AllTold({})
    BY <1>1, <1>2 DEF Running
  <1>6. Complete'
    BY <1>1, <1>3, <1>4, <1>5, StaysTold DEF Complete
  <1> QED
    BY <1>1, <1>6 DEF JobTyped, EventsTyped, Running

LEMMA CrashKeeps == RunInv /\ Crash => RunInv'
  <1> SUFFICES ASSUME RunInv, Crash PROVE RunInv'
    OBVIOUS
  <1> USE DEF RunInv
  <1>1. job' = Resting /\ UNCHANGED <<today, on, events, rows, notices, settled>>
    BY DEF Crash
  <1>2. Upcoming' = Upcoming /\ Unmet(rows)' = Unmet(rows)
    BY <1>1 DEF Upcoming, Unmet
  <1>3. Wanted' = Wanted /\ (RowsRight' <=> RowsRight)
    BY <1>1, <1>2, SameWanted, SameRows
  <1>4. Complete'
    BY <1>1, <1>2, <1>3, StaysTold DEF Complete
  <1> QED
    BY <1>1, <1>4 DEF JobTyped, EventsTyped, Running

\* A change ends completeness, and the run it falls into.
LEMMA DisturbKeeps == RunInv /\ Disturb /\ EventsTyped' => RunInv'
  <1> SUFFICES ASSUME RunInv, Disturb, EventsTyped' PROVE RunInv'
    OBVIOUS
  <1> USE DEF RunInv
  <1>1. CASE job = Resting
    BY <1>1 DEF Disturb, JobTyped, Complete, Running
  <1>2. CASE job # Resting
    <2>1. /\ job' = [step |-> job.step, day |-> job.day, disturbed |-> TRUE, left |-> job.left]
          /\ job.step \in {"calendar", "dispatch", "send"}
          /\ job.step = "calendar" => job.left \subseteq DOMAIN Calendar
      BY <1>2 DEF Disturb, JobTyped
    <2>2. /\ job'.disturbed = TRUE /\ job'.step = job.step /\ job'.left = job.left /\ job'.day = job.day
      BY <2>1
    <2>3. JobTyped'
      BY <2>1, <2>2 DEF JobTyped
    <2> QED
      BY <2>2, <2>3 DEF Disturb, Complete, Running
  <1> QED
    BY <1>1, <1>2

LEMMA RunKept == RunInv /\ [Next]_vars => RunInv'
  <1> SUFFICES ASSUME RunInv, [Next]_vars PROVE RunInv'
    OBVIOUS
  <1>1. CASE JobStep
    BY <1>1, StartKeeps, CreateKeeps, SyncKeeps, DispatchKeeps, NotifyKeeps, FinishKeeps DEF JobStep
  <1>2. CASE Crash
    BY <1>2, CrashKeeps
  <1>3. CASE Tick
    BY <1>3, DisturbKeeps DEF Tick, RunInv, EventsTyped
  <1>4. ASSUME NEW d \in Dates, Record(d) \/ TakeBack(d) PROVE RunInv'
    BY <1>4, DisturbKeeps DEF Record, TakeBack, RunInv, EventsTyped
  <1>5. ASSUME NEW e \in DOMAIN events, MoveEvent(e) PROVE RunInv'
    <2>1. events' = [events EXCEPT ![e] = @ + 1] /\ Disturb
      BY <1>5 DEF MoveEvent
    <2>2. EventsTyped'
      BY <2>1 DEF RunInv, EventsTyped
    <2> QED
      BY <2>1, <2>2, DisturbKeeps
  <1>6. CASE UNCHANGED vars
    <2>1. UNCHANGED <<today, on, events, rows, notices, job, settled>>
      BY <1>6 DEF vars
    <2>2. Upcoming' = Upcoming /\ Unmet(rows)' = Unmet(rows)
      BY <2>1 DEF Upcoming, Unmet
    <2>3. Wanted' = Wanted /\ (RowsRight' <=> RowsRight)
      BY <2>1, <2>2, SameWanted, SameRows
    <2> QED
      BY <2>1, <2>2, <2>3 DEF RunInv, JobTyped, EventsTyped, Complete, Running, AllTold, Active, Known
  <1> QED
    BY <1>1, <1>2, <1>3, <1>4, <1>5, <1>6 DEF Next

\* However often the daily job ran or died before, and whatever was recorded, moved or taken back:
\* after a complete run in which nothing changed, the unmet rows are the deadlines derived from the
\* scholar's dates, and everybody concerned has each notice of the tier that applies.
THEOREM RunStaysComplete == Spec => []RunComplete
  BY RunBegins, RunKept, RunMeans, PTL DEF Spec
LEMMA OverdueMeans == settled /\ RunComplete => OverdueTold
  <1> SUFFICES ASSUME settled, RunComplete, Active,
                      NEW k \in DOMAIN rows, ~rows[k].met, rows[k].due < today,
                      NEW who \in {"scholar", "office"}
               PROVE  who \in Told(k, 0)
    BY DEF OverdueTold
  <1> DEFINE n == Notice(who, k, 0, rows[k].due)
  <1>1. 0 \in TierFor(rows[k].due, today) /\ who \in Audience(0)
    BY DEF TierFor, Audience
  <1>2. n \in DeadlineNotices(today)
    BY <1>1 DEF DeadlineNotices, When
  <1>3. PICK m \in notices : SameNotice(n, m)
    BY <1>2 DEF RunComplete
  <1>4. m.who = who /\ m.key = k /\ m.tier = 0
    BY <1>3 DEF SameNotice, Notice
  <1> QED
    BY <1>3, <1>4 DEF Told

\* After such a run every unmet deadline that is overdue has been announced to the scholar and to the
\* office; that the engine settles in the end is what TLC adds to this (OverdueAnnounced).
THEOREM OverdueStaysTold == Spec => [](settled => OverdueTold)
  BY RunStaysComplete, OverdueMeans, PTL

\* A step of the job after a complete run changes none of these.
LEMMA StepIdle ==
    RunInv /\ settled /\ Active /\ JobStep =>
        events' = events /\ notices' \subseteq notices /\ Unmet(rows') = Unmet(rows)
  <1> SUFFICES ASSUME RunInv, settled, Active, JobStep
               PROVE  events' = events /\ notices' \subseteq notices /\ Unmet(rows') = Unmet(rows)
    OBVIOUS
  <1>1. /\ Upcoming \subseteq DOMAIN events /\ RowsRight /\ AllTold({})
        /\ job # Resting => ~job.disturbed
    BY DEF RunInv, Complete
  <1>2. job.step # "resting" => job # Resting
    BY DEF Resting
  <1>3. CASE StartJob \/ StartDispatch \/ Finish
    BY <1>3 DEF StartJob, StartDispatch, Finish
  <1>4. CASE CreateEvent
    <2>1. PICK e : e = First(job.left)
      OBVIOUS
    <2>2. /\ job.step = "calendar" /\ job.left # {} /\ UNCHANGED <<rows, notices>>
          /\ events' = [x \in DOMAIN events \cup {e} |-> IF x \in DOMAIN events THEN events[x] ELSE Calendar[x]]
      BY <1>4, <2>1 DEF CreateEvent
    <2>3. e \in job.left
      BY <2>1, <2>2 DEF First
    <2>4. e \in DOMAIN events
      BY <1>1, <1>2, <2>2, <2>3 DEF RunInv, Running
    <2>5. events = [x \in DOMAIN events |-> events[x]]
      BY DEF RunInv, EventsTyped
    <2>6. DOMAIN events \cup {e} = DOMAIN events
      BY <2>4
    <2> QED
      BY <2>2, <2>5, <2>6
  <1>5. CASE SyncScholar
    <2>1. /\ job.step = "calendar" /\ UNCHANGED events /\ notices' \subseteq notices
          /\ rows' = Synced(ScholarDeadlines(job.day))
      BY <1>5 DEF SyncScholar
    <2>2. job.day = today
      BY <1>1, <1>2, <2>1 DEF RunInv, Running
    <2>3. PICK specs : specs = ScholarDeadlines(today)
      OBVIOUS
    <2>4. /\ \A s \in specs : Spelt(s)
          /\ \A s, t \in specs : s.key = t.key => s = t
      BY <2>3, SpecsKeyed, KeysApart
    <2>5. Unmet(rows') = Unmet(rows)
      BY <1>1, <2>1, <2>2, <2>3, <2>4, SyncedRows DEF RowsRight
    <2> QED
      BY <2>1, <2>5
  <1>6. CASE Notify
    <2>1. PICK n : n = First(job.left)
      OBVIOUS
    <2>2. /\ job.step = "send" /\ job.left # {} /\ UNCHANGED <<events, rows>>
          /\ notices' = IF \E m \in notices : SameNotice(n, m) THEN notices ELSE notices \cup {n}
      BY <1>6, <2>1 DEF Notify
    <2>3. n \in Wanted
      BY <1>1, <1>2, <2>1, <2>2 DEF First, RunInv, Running
    <2>4. \E m \in notices : SameNotice(n, m)
      BY <1>1, <2>3 DEF AllTold
    <2> QED
      BY <2>2, <2>4
  <1> QED
    BY <1>3, <1>4, <1>5, <1>6 DEF JobStep

\* After a complete run the job may run, and die, as often as it likes: until something changes it
\* creates no event, sends nothing, and the deadlines still to be met stay as they are.
THEOREM JobIsIdempotent == Spec => Idempotent
  <1>1. RunInv /\ [Next]_vars
        => [settled /\ Active /\ JobStep => events' = events /\ notices' \subseteq notices
                                             /\ Unmet(rows') = Unmet(rows)]_vars
    BY StepIdle
  <1> QED
    BY <1>1, RunBegins, RunKept, PTL DEF Spec, Idempotent

=============================================================================
