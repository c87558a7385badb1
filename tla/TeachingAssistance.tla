--------------------------- MODULE TeachingAssistance ---------------------------
(***************************************************************************)
(* The teaching assistantship of one scholar: registrations for semesters, *)
(* the hours assigned in each, and the feedback that the next one asks     *)
(* for.                                                                    *)
(*                                                                         *)
(* Sources: finance/{services,models,admin}.py.                            *)
(*                                                                         *)
(* register_for_ta counts and reads without a lock: Open is that part,     *)
(* Insert the other.  assign_ta holds the registration's row from its      *)
(* sums to its insert.  The office enters feedback and states by hand.     *)
(*                                                                         *)
(* Abstracted: the date of the form, which is an input; the assignments of *)
(* a registration, to the sums of their hours.  The office saves the page  *)
(* it just opened, does not worsen feedback and leaves assignments alone.  *)
(***************************************************************************)
EXTENDS Integers, Sequences, FiniteSets

CONSTANTS
    Clerks,
    Semesters,   \* numbers, in the order of their start dates
    Sources,     \* TAFeedback.Source
    Loads,       \* hours and contact hours an assignment may have
    MaxSemesters, MaxHours, MaxContact \* TA_MAX_SEMESTERS, _HOURS_PER_WEEK, _CONTACT_HOURS_PER_WEEK

ASSUME AssistanceAssumption ==
    /\ Semesters \subseteq Int
    /\ Loads \subseteq [hours : Nat, contact : Nat]
    /\ {MaxSemesters, MaxHours, MaxContact} \subseteq Nat

VARIABLES
    registrations, \* TARegistration rows with their assignments and feedback
    clerk,         \* what each clerk has checked and not yet written
    hasty          \* history: two registrations were in flight at once

taVars == <<registrations, clerk, hasty>>

-----------------------------------------------------------------------------
(* Rows *)

State == {"REGISTERED", "LISTED", "INDUCTED", "COMPLETED"}

Verdict == {"NONE", "SATISFACTORY", "UNSATISFACTORY"}

Registration ==
    [semester : Semesters, state : State, hours : Nat, contact : Nat, feedback : [Sources -> Verdict]]

Fresh(s) ==
    [semester |-> s, state |-> "REGISTERED", hours |-> 0, contact |-> 0, feedback |-> [x \in Sources |-> "NONE"]]

Ids == DOMAIN registrations

NoWork == [op |-> "none"]

Registering == [op : {"register"}, semester : Semesters]
Assigning == [op : {"assign"}, id : Nat, load : Loads]

TaTypeOK ==
    /\ registrations \in Seq(Registration)
    /\ clerk \in [Clerks -> {NoWork} \cup Registering \cup Assigning]
    /\ hasty \in BOOLEAN

-----------------------------------------------------------------------------
(* Registration *)

\* filter(semester__start_date__lt=...).order_by("-semester__start_date").first()
Previous(s) ==
    {i \in Ids : /\ registrations[i].semester < s
                 /\ \A j \in Ids : registrations[j].semester < s =>
                                      registrations[j].semester <= registrations[i].semester}

Praised(i) == \A x \in Sources : registrations[i].feedback[x] = "SATISFACTORY"

\* ta_eligibility_problems finds none.
TaEligible(s) ==
    /\ Cardinality({i \in Ids : registrations[i].semester # s}) < MaxSemesters
    /\ \A i \in Previous(s) : Praised(i)

Occupy(c, work) ==
    /\ clerk[c] = NoWork
    /\ clerk' = [clerk EXCEPT ![c] = work]

OpenRegistration(c, s) ==
    /\ TaEligible(s)
    /\ Occupy(c, [op |-> "register", semester |-> s])
    /\ hasty' = (hasty \/ \E d \in Clerks : clerk[d].op = "register")
    /\ UNCHANGED registrations

\* uniq_ta_semester
InsertRegistration(c) ==
    /\ clerk[c].op = "register"
    /\ \A i \in Ids : registrations[i].semester # clerk[c].semester
    /\ registrations' = Append(registrations, Fresh(clerk[c].semester))
    /\ clerk' = [clerk EXCEPT ![c] = NoWork]
    /\ UNCHANGED hasty

-----------------------------------------------------------------------------
(* Assignments *)

Locked(i) == \E c \in Clerks : clerk[c].op = "assign" /\ clerk[c].id = i

\* As if the row were not selected for update
OpenAssignmentUnlocked(c, i, load) ==
    /\ load.contact <= load.hours
    /\ registrations[i].hours + load.hours <= MaxHours
    /\ registrations[i].contact + load.contact <= MaxContact
    /\ Occupy(c, [op |-> "assign", id |-> i, load |-> load])
    /\ UNCHANGED <<registrations, hasty>>

OpenAssignment(c, i, load) ==
    /\ ~Locked(i)
    /\ load.contact <= load.hours
    /\ registrations[i].hours + load.hours <= MaxHours
    /\ registrations[i].contact + load.contact <= MaxContact
    /\ Occupy(c, [op |-> "assign", id |-> i, load |-> load])
    /\ UNCHANGED <<registrations, hasty>>

InsertAssignment(c) ==
    /\ clerk[c].op = "assign"
    /\ LET i == clerk[c].id
           load == clerk[c].load
       IN  registrations' = [registrations EXCEPT
               ![i].hours = @ + load.hours,
               ![i].contact = @ + load.contact,
               ![i].state = IF @ \in {"REGISTERED", "LISTED"} THEN "INDUCTED" ELSE @]
    /\ clerk' = [clerk EXCEPT ![c] = NoWork]
    /\ UNCHANGED hasty

Abandon(c) ==
    /\ clerk[c] # NoWork
    /\ clerk' = [clerk EXCEPT ![c] = NoWork]
    /\ UNCHANGED <<registrations, hasty>>

-----------------------------------------------------------------------------
(* The office, whose page saves the row of the registration as well: it waits while the row is locked. *)

\* uniq_ta_feedback_source; what was not satisfactory may be corrected.
GiveFeedback(i, x, verdict) ==
    /\ ~Locked(i)
    /\ registrations[i].feedback[x] # "SATISFACTORY"
    /\ registrations' = [registrations EXCEPT ![i].feedback[x] = verdict]
    /\ UNCHANGED <<clerk, hasty>>

\* Lists shared with the Schools, semesters completed
SetState(i) ==
    /\ ~Locked(i)
    /\ \/ /\ registrations[i].state = "REGISTERED"
          /\ registrations' = [registrations EXCEPT ![i].state = "LISTED"]
       \/ /\ registrations[i].state = "INDUCTED"
          /\ registrations' = [registrations EXCEPT ![i].state = "COMPLETED"]
    /\ UNCHANGED <<clerk, hasty>>

TaInit ==
    /\ registrations = <<>>
    /\ clerk = [c \in Clerks |-> NoWork]
    /\ hasty = FALSE

TaNext ==
    \/ \E c \in Clerks :
          \/ \E s \in Semesters : OpenRegistration(c, s)
          \/ \E i \in Ids, load \in Loads : OpenAssignment(c, i, load)
          \/ InsertRegistration(c) \/ InsertAssignment(c) \/ Abandon(c)
    \/ \E i \in Ids :
          \/ SetState(i)
          \/ \E x \in Sources, verdict \in Verdict \ {"NONE"} : GiveFeedback(i, x, verdict)

TaSpec == TaInit /\ [][TaNext]_taVars

-----------------------------------------------------------------------------
(* What the assistantship promises *)

\* "TA load exceeds": the hours of all assignments of a semester together stay within the caps, however
\* many are made at once, and whoever has hours has been inducted.
HoursHeld ==
    \A i \in Ids :
       LET r == registrations[i]
       IN  /\ r.contact <= r.hours /\ r.hours <= MaxHours /\ r.contact <= MaxContact
           /\ r.hours > 0 => r.state \in {"INDUCTED", "COMPLETED"}

\* A scholar assists in no more semesters than the limit, and in each only after everybody was satisfied
\* with the one before that the scholar had registered for; unless registrations crossed.
SemestersEarned ==
    ~hasty =>
        /\ Len(registrations) <= MaxSemesters
        /\ \A i, j \in Ids :
              /\ i < j
              /\ registrations[i].semester < registrations[j].semester
              /\ \A k \in 1..(j - 1) : registrations[k].semester < registrations[j].semester =>
                                          registrations[k].semester <= registrations[i].semester
              => Praised(i)

AssistanceSound == HoursHeld /\ SemestersEarned

=============================================================================
