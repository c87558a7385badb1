------------------------------ MODULE Deadlines ------------------------------
(***************************************************************************)
(* The daily job of the deadline engine for one scholar and the calendar:  *)
(* it creates missing events, recomputes the scholar's deadlines from the  *)
(* scholar's own dates, and sends a reminder for every tier once.  The job *)
(* may be late or run twice a day, and may die between any two rows;       *)
(* dates are recorded, moved and taken back while it runs.                 *)
(*                                                                         *)
(* Sources: deadlines/{engine,models}.py, phd_rules/durations.py.          *)
(*                                                                         *)
(* Abstracted: a day is a number and a period a number of days; `on` holds *)
(* the dates the engine reads, of whatever table, those of an entry being  *)
(* the day it was made.                                                    *)
(***************************************************************************)
EXTENDS Integers, Sequences, FiniteSets, FiniteSetsExt, Functions, TLC

CONSTANTS
    Dates,      \* what may be recorded: members of Recordable
    Examiners,  \* the examiners of the thesis: strings, part of the name of a date
    Period,     \* the periods of phd_rules.policy
    Leads,      \* REMINDER_LEAD_DAYS
    Chosen,     \* EXAMINERS_SELECTED
    Calendar,   \* events_for_year: the default day of each event
    Year,       \* days of a year
    LastDay,    \* bound: the clock stops
    MaxCrashes  \* bound: deaths of the job

ReportOf(n) == "report " \o ToString(n)
Dispatch(e) == "dispatch " \o e
Receipt(e) == "receipt " \o e

Recordable ==
    {"registered", "proposed", "supervisor", "tac", "coursework", "proposal", "synopsis", "cleared",
     "thesis", "viva", "fellowship", "synopsis_extension", "thesis_extension", "re_registration",
     "relaxation", "left"}
    \cup {ReportOf(n) : n \in 1..LastDay}
    \cup {Dispatch(e) : e \in Examiners} \cup {Receipt(e) : e \in Examiners}

ASSUME DeadlinesAssumption ==
    /\ Dates \subseteq Recordable
    /\ \A name \in DOMAIN Period : Period[name] \in Nat \ {0}
    /\ Leads \subseteq Nat \ {0}
    /\ \A e \in DOMAIN Calendar : Calendar[e] \in Nat
    /\ Year \in Nat \ {0}
    /\ {Chosen, LastDay, MaxCrashes} \subseteq Nat

VARIABLES
    today,
    on,        \* the dates recorded so far
    events,    \* AcademicEvent rows: the start, by key
    rows,      \* Deadline rows of the scholar, by key
    notices,   \* Notification rows
    job,       \* the run of the job
    settled,   \* history: the last run was complete and nothing has changed since it began
    crashes

vars == <<today, on, events, rows, notices, job, settled, crashes>>

-----------------------------------------------------------------------------
(* Scholar clock *)

Known(d) == d \in DOMAIN on

When(condition, specs) == IF condition THEN specs ELSE {}

Due(key, due, met) == {[key |-> key, due |-> due, met |-> met]}

Extension(kind, name) == IF Known(kind) THEN Period[name] ELSE 0

\* programme_ceiling: a re-registration and the relaxation each extend the programme.
Ceiling == on["registered"] + Period["maximum"] + Extension("re_registration", "re_registration")
               + Extension("relaxation", "relaxation")

Least(a, b) == IF a <= b THEN a ELSE b

Clamped(due) == Least(due, Ceiling)

\* Six-monthly reports fall due up to six months ahead, until the thesis is submitted.
Horizon(day) == Clamped(IF Known("thesis") THEN on["thesis"] ELSE day + Period["progress"])

Reports(day) == {n \in 1..Horizon(day) : on["registered"] + n * Period["progress"] <= Horizon(day)}

\* Reports of examiners not replaced, and those received
Asked == {e \in Examiners : Known(Dispatch(e))}
Answered == {e \in Asked : Known(Receipt(e))}

LastAnswer == Max({on[Receipt(e)] : e \in Answered})

\* scholar_deadlines
ScholarDeadlines(day) ==
    LET reg == on["registered"]
    IN  When(Known("registered"),
          Due(<<"SUPERVISOR">>, reg + Period["supervisor"], Known("supervisor"))
          \cup Due(<<"COURSEWORK">>, reg + Period["coursework"], Known("coursework"))
          \cup Due(<<"MAX_DURATION">>, Ceiling, Known("thesis"))
          \cup When(Known("supervisor"),
                    Due(<<"TAC">>, on["supervisor"] + Period["tac"], Known("tac")))
          \cup When(Known("coursework"),
                    Due(<<"PROPOSAL">>, Clamped(on["coursework"] + Period["proposal"]), Known("proposal")))
          \cup (UNION {Due(<<"PROGRESS", n>>, reg + n * Period["progress"], Known(ReportOf(n))) :
                            n \in Reports(day)})
          \cup Due(<<"SYNOPSIS">>,
                     Clamped(reg + Period["synopsis"]
                             + Extension("synopsis_extension", "synopsis_extension")),
                     Known("synopsis"))
          \cup When(Known("cleared"),
                    Due(<<"THESIS">>, Clamped(on["cleared"] + Period["thesis"]
                                            + Extension("thesis_extension", "thesis_extension")),
                          Known("thesis")))
          \cup When(Known("thesis"),
                    UNION {Due(<<"EXAMINER", e>>, on[Dispatch(e)] + Period["examiner"],
                                 Known(Receipt(e))) : e \in Asked})
          \cup When(Known("thesis") /\ Asked # {} /\ Cardinality(Answered) >= Chosen,
                    Due(<<"VIVA">>, LastAnswer + Period["viva"], Known("viva")))
          \cup When(Known("fellowship"),
                    Due(<<"SRF">>, on["fellowship"] + Period["fellowship"], FALSE)))

Active == ~Known("left")

-----------------------------------------------------------------------------
(* Reminders *)

TierForBefore(due, day) ==
    LET applicable == {lead \in Leads : due >= day /\ due - day <= lead}
    IN  IF applicable = {} THEN {} ELSE {Min(applicable)}

\* tier_for: 0 once overdue, else the smallest lead the days left are within, if there is one
TierFor(due, day) ==
    IF due < day THEN {0}
    ELSE LET applicable == {lead \in Leads : due - day <= lead}
         IN  IF applicable = {} THEN {} ELSE {Min(applicable)}

\* _scholar_audience: the supervisor is told from the proposal of the allocation on.
Audience(tier) ==
    {"scholar"} \cup (IF Known("proposed") THEN {"supervisor"} ELSE {})
                \cup (IF tier = 0 THEN {"office"} ELSE {})

\* due: the date the message names.  There is one notice for a recipient, a deadline and a tier.
Notice(who, key, tier, due) == [who |-> who, key |-> key, tier |-> tier, due |-> due]

SameNotice(n, m) == n.who = m.who /\ n.key = m.key /\ n.tier = m.tier

\* What dispatch goes through
DeadlineNotices(day) ==
    When(Active,
         UNION {UNION {{Notice(who, key, tier, rows[key].due) : who \in Audience(tier)} :
                           tier \in TierFor(rows[key].due, day)} :
                    key \in {k \in DOMAIN rows : ~rows[k].met}})

\* The audience of an event is one user.
EventNotices(day) ==
    UNION {{Notice("office", e, tier, events[e]) : tier \in TierFor(events[e], day)} :
               e \in {k \in DOMAIN events : events[k] >= day}}

-----------------------------------------------------------------------------
(* The job: run, one row after the other *)

\* Each loop goes through its rows in one order, whichever it is.
First(left) == CHOOSE x \in left : TRUE

Resting == [step |-> "resting"]

YearOf(day) == day \div Year

StartJob ==
    /\ job = Resting
    /\ job' = [step |-> "calendar", day |-> today, disturbed |-> FALSE,
               left |-> {e \in DOMAIN Calendar : YearOf(Calendar[e]) \in {YearOf(today), YearOf(today) + 1}}]
    /\ UNCHANGED <<today, on, events, rows, notices, settled, crashes>>

\* get_or_create: an event that is there is left alone.
CreateEvent ==
    /\ job.step = "calendar" /\ job.left # {}
    /\ events' = [e \in DOMAIN events \cup {First(job.left)} |->
                     IF e \in DOMAIN events THEN events[e] ELSE Calendar[e]]
    /\ job' = [job EXCEPT !.left = @ \ {First(job.left)}]
    /\ UNCHANGED <<today, on, rows, notices, settled, crashes>>

SyncedOnce(specs) ==
    LET keys == {spec.key : spec \in specs}
    IN  [k \in {r \in DOMAIN rows : rows[r].met} \cup keys |->
            IF k \notin DOMAIN rows THEN LET spec == CHOOSE s \in specs : s.key = k
                                         IN  [due |-> spec.due, met |-> spec.met]
            ELSE rows[k]]

\* sync_scholar: unmet rows no longer derived go with their notices, the others are updated.
Synced(specs) ==
    LET keys == {spec.key : spec \in specs}
    IN  [k \in {r \in DOMAIN rows : rows[r].met} \cup keys |->
            IF k \in keys THEN LET spec == CHOOSE s \in specs : s.key = k
                              IN  [due |-> spec.due, met |-> spec.met]
            ELSE rows[k]]

SyncScholarAnew ==
    /\ job.step = "calendar" /\ job.left = {}
    /\ rows' = IF Active THEN Synced(ScholarDeadlines(job.day)) ELSE rows
    /\ notices' = {n \in notices : n.key \in DOMAIN Calendar}
    /\ job' = [job EXCEPT !.step = "dispatch"]
    /\ UNCHANGED <<today, on, events, settled, crashes>>

SyncScholar ==
    /\ job.step = "calendar" /\ job.left = {}
    /\ rows' = IF Active THEN Synced(ScholarDeadlines(job.day)) ELSE rows
    /\ notices' = {n \in notices : n.key \in DOMAIN rows' \cup DOMAIN Calendar}
    /\ job' = [job EXCEPT !.step = "dispatch"]
    /\ UNCHANGED <<today, on, events, settled, crashes>>

StartDispatch ==
    /\ job.step = "dispatch"
    /\ job' = [job EXCEPT !.step = "send", !.left = DeadlineNotices(job.day) \cup EventNotices(job.day)]
    /\ UNCHANGED <<today, on, events, rows, notices, settled, crashes>>

\* _notify: get_or_create on recipient, deadline or event, and tier
Notify ==
    /\ job.step = "send" /\ job.left # {}
    /\ notices' = IF \E m \in notices : SameNotice(First(job.left), m) THEN notices
                  ELSE notices \cup {First(job.left)}
    /\ job' = [job EXCEPT !.left = @ \ {First(job.left)}]
    /\ UNCHANGED <<today, on, events, rows, settled, crashes>>

Finish ==
    /\ job.step = "send" /\ job.left = {}
    /\ job' = Resting
    /\ settled' = ~job.disturbed
    /\ UNCHANGED <<today, on, events, rows, notices, crashes>>

Crash ==
    /\ job # Resting
    /\ crashes < MaxCrashes
    /\ crashes' = crashes + 1
    /\ job' = Resting
    /\ UNCHANGED <<today, on, events, rows, notices, settled>>

JobStep ==
    \/ StartJob
    \/ CreateEvent
    \/ SyncScholar
    \/ StartDispatch
    \/ Notify
    \/ Finish

-----------------------------------------------------------------------------
(* Time and the dates the engine reads *)

Disturb ==
    /\ settled' = FALSE
    /\ job' = IF job = Resting THEN job ELSE [job EXCEPT !.disturbed = TRUE]
    /\ UNCHANGED <<rows, notices, crashes>>

Tick ==
    /\ today < LastDay
    /\ today' = today + 1
    /\ Disturb
    /\ UNCHANGED <<on, events>>

Needed(d) ==
    CASE d = "supervisor" -> {"proposed"}
      [] d = "tac" -> {"supervisor"}
      [] d = "proposal" -> {"coursework"}
      [] d = "cleared" -> {"synopsis"}
      [] d = "viva" -> {"thesis"}
      [] \E e \in Examiners : d = Dispatch(e) -> {"thesis"}
      [] \E e \in Examiners : d = Receipt(e) -> {Dispatch(e) : e \in {x \in Examiners : d = Receipt(x)}}
      [] d = "registered" -> {}
      [] OTHER -> {"registered"}

Record(d) ==
    /\ ~Known(d)
    /\ \A need \in Needed(d) : Known(need)
    /\ on' = (d :> today) @@ on
    /\ Disturb
    /\ UNCHANGED <<today, events>>

\* An allocation ends, an examiner is replaced, a fellow becomes SRF.
Withdrawable == {"proposed", "fellowship"} \cup {Dispatch(e) : e \in Examiners}

TakeBack(d) ==
    /\ Known(d) /\ d \in Withdrawable
    /\ on' = Restrict(on, DOMAIN on \ {d, IF d = "proposed" THEN "supervisor" ELSE d})
    /\ Disturb
    /\ UNCHANGED <<today, events>>

MoveEvent(e) ==
    /\ events[e] < LastDay
    /\ events' = [events EXCEPT ![e] = @ + 1]
    /\ Disturb
    /\ UNCHANGED <<today, on>>

-----------------------------------------------------------------------------

Init ==
    /\ today = 0
    /\ on = <<>>
    /\ events = <<>> /\ rows = <<>> /\ notices = {}
    /\ job = Resting
    /\ settled = FALSE
    /\ crashes = 0

Next ==
    \/ JobStep
    \/ Crash
    \/ Tick
    \/ \E d \in Dates : Record(d) \/ TakeBack(d)
    \/ \E e \in DOMAIN events : MoveEvent(e)

\* "safe to run from cron daily": the job runs again and again, and goes on while it runs.
Spec == Init /\ [][Next]_vars /\ WF_vars(JobStep)

-----------------------------------------------------------------------------
(* What the engine promises *)

Told(key, tier) == {n.who : n \in {m \in notices : m.key = key /\ m.tier = tier}}

TypeOK ==
    /\ today \in 0..LastDay
    /\ DOMAIN on \subseteq Dates
    /\ \A e \in DOMAIN events : e \in DOMAIN Calendar /\ events[e] \in Nat
    /\ \A k \in DOMAIN rows : rows[k].due \in Nat /\ rows[k].met \in BOOLEAN
    /\ \A n \in notices : n.key \in DOMAIN rows \cup DOMAIN events /\ n.tier \in Leads \cup {0}
    /\ settled \in BOOLEAN /\ crashes \in 0..MaxCrashes

\* The rows of a table that are not met, as deadlines
Unmet(table) ==
    {[key |-> k, due |-> table[k].due, met |-> FALSE] : k \in {r \in DOMAIN table : ~table[r].met}}

\* "It is idempotent": however often and wherever it died before, after a complete run in which
\* nothing changed the rows are the ones derived from the scholar's dates, and everybody concerned
\* has the reminder of the tier that applies.
RunComplete ==
    settled /\ Active =>
        /\ Unmet(rows) = {spec \in ScholarDeadlines(today) : ~spec.met}
        /\ \A n \in DeadlineNotices(today) \cup EventNotices(today) :
              \E m \in notices : SameNotice(n, m)

\* "It is idempotent", of the run after: it creates no event, sends nothing, and leaves what is still
\* to be met as it is, while nothing changes.
Idempotent ==
    [][settled /\ Active /\ JobStep => events' = events /\ notices' \subseteq notices
                                      /\ Unmet(rows') = Unmet(rows)]_vars

OverdueTold ==
    \A k \in DOMAIN rows :
        Active /\ ~rows[k].met /\ rows[k].due < today => {"scholar", "office"} \subseteq Told(k, 0)

\* As long as the job is run again and again and dies only so many times: once dates stop changing
\* it settles, every deadline that is overdue and unmet having been announced to the scholar and to
\* the office.
OverdueAnnounced == <>[][UNCHANGED <<today, on>>]_vars => <>[](settled /\ OverdueTold)

\* "Tiered reminders (30/7/1 days before and once when overdue)": whoever is concerned by an unmet
\* deadline has been told the date it has now in the tier that applies now.
DateTold == settled => DeadlineNotices(today) \subseteq notices

=============================================================================
