---------------------------- MODULE RuleGovernance ----------------------------
(***************************************************************************)
(* The academic rule parameters: immutable versions, which of them is in   *)
(* force on a day, and changes made by one officer and decided by another. *)
(*                                                                         *)
(* Sources: coursework/academic/config.py, coursework/models/config.py,    *)
(* the migrations that seed version 1.                                     *)
(*                                                                         *)
(* decide_change checks the copy it was given (Review); in its transaction *)
(* (Decide) it locks the change and reads it anew, but looks at its state  *)
(* no more.  Whoever may propose or decide is a constant here.             *)
(***************************************************************************)
EXTENDS Integers, Sequences, FiniteSets

CONSTANTS
    Clerks,               \* concurrent requests
    Keys,                 \* the parameters, of those seeded
    Makers, Checkers,     \* persons: ACADEMIC_ADMIN, DEAN_RND
    LastRuleDay,          \* bound: days a change can be effective from
    MaxChanges,           \* bound: change requests
    NoOne

VARIABLES
    parameters,  \* AcademicRuleParameter rows
    changes,     \* ParameterChangeRequest rows, by id
    decision     \* what each request has checked and not yet written

ruleVars == <<parameters, changes, decision>>

-----------------------------------------------------------------------------
(* Classification and seeds *)

\* Seeded by migration 0003, without a value (UNRESOLVED)
Unresolved5A == {"assessment.elective_reweighting_approver", "exam.absent_counts_as_attempt",
                 "exam.reattempt_carries_continuous_assessment", "third_attempt.mentor_required",
                 "elective.approval_authority", "elective.supervisor_recommendation_required"}

\* ... with the value of one reading of several (AMBIGUOUS)
Ambiguous5A == {"coursework.electives_required", "coursework.course_pass_min_applies_to", "grading.scheme",
                "attendance.min_percent", "exam.attempt_window_start"}

\* ... with a value (CONFIGURABLE, CONFIRMED)
Settled5A == {"coursework.structure.mandatory_taught_courses", "coursework.structure.mandatory_activities",
              "coursework.category_of_entry_qualification", "coursework.required_credits", "coursework.min_gpa",
              "coursework.course_pass_min_marks", "coursework.continuation_min_grade",
              "coursework.ethics_module_required", "assessment.default_weights",
              "assessment.elective_reweighting_limit_percent", "attendance.physical_only", "exam.cycles",
              "exam.max_regular_attempts", "exam.max_attempts_with_approval", "exam.attempt_window_years",
              "exam.requires_fee_clearance", "third_attempt.review_chain", "activity.required_artefacts",
              "activity.artefacts_in_order", "result.custody_chain"}

\* Seeded by migration 0005, without and with a value
Unresolved5B == {"result.absence_policy", "revaluation.enabled", "revaluation.request_window_days",
                 "revaluation.reviewer", "activity.scoring_scheme.INDUSTRIAL_TRAINING",
                 "activity.scoring_scheme.CONFERENCE_WORKSHOP", "activity.scoring_scheme.RESEARCH_SEMINAR"}

Settled5B == {"attendance.basis", "semester_registration.required", "semester_registration.requires_fee_clearance",
              "elective.list_approval_chain", "elective.proposal_requires_approved_list",
              "question_paper.setter_appointed_by"}

Seeded == Unresolved5A \cup Ambiguous5A \cup Settled5A \cup Unresolved5B \cup Settled5B

ASSUME RuleAssumption ==
    /\ Keys \subseteq Seeded
    /\ NoOne \notin Makers \cup Checkers
    /\ LastRuleDay \in Nat
    /\ MaxChanges \in Nat

\* Only an UNRESOLVED parameter has no value: the status stands for both.
RuleStatus == {"UNRESOLVED", "SETTLED"}

Parameter ==
    [key : Keys, version : Nat \ {0}, from : 0..LastRuleDay, change : Nat, by : Makers \cup {NoOne},
     approvedBy : Checkers \cup {NoOne}, status : RuleStatus]

Change ==
    [key : Keys, status : RuleStatus, from : 0..LastRuleDay, state : {"PENDING", "APPROVED", "REJECTED"},
     by : Makers, decidedBy : Checkers \cup {NoOne}]

Seed(key) == [key |-> key, version |-> 1, from |-> 0, change |-> 0, by |-> NoOne, approvedBy |-> NoOne,
              status |-> IF key \in Unresolved5A \cup Unresolved5B THEN "UNRESOLVED" ELSE "SETTLED"]

-----------------------------------------------------------------------------
(* The version in force *)

Versions(key) == {p \in parameters : p.key = key}

Later(p, q) == p.from > q.from \/ (p.from = q.from /\ p.version > q.version)

\* get: order_by("-effective_from", "-version").first() of those effective on the day
InForceOn(key, day) ==
    LET effective == {p \in Versions(key) : p.from <= day}
    IN  CHOOSE p \in effective : \A q \in effective \ {p} : Later(p, q)

-----------------------------------------------------------------------------
(* Maker *)

Waiting == [at |-> "idle"]

Checked == [at : {"checked"}, by : Checkers, change : Nat \ {0}, approve : BOOLEAN]

Pending(key) == {c \in DOMAIN changes : changes[c].key = key /\ changes[c].state = "PENDING"}

\* one_pending_change_per_key
ProposeChange(by, key, status, from) ==
    /\ Pending(key) = {}
    /\ Len(changes) < MaxChanges
    /\ changes' = Append(changes, [key |-> key, status |-> status, from |-> from, state |-> "PENDING",
                                   by |-> by, decidedBy |-> NoOne])
    /\ UNCHANGED <<parameters, decision>>

-----------------------------------------------------------------------------
(* Checker *)

ReviewOwn(r, by, c, approve) ==
    /\ decision[r] = Waiting
    /\ changes[c].state = "PENDING"
    /\ decision' = [decision EXCEPT ![r] = [at |-> "checked", by |-> by, change |-> c, approve |-> approve]]
    /\ UNCHANGED <<parameters, changes>>

Review(r, by, c, approve) ==
    /\ changes[c].by # by
    /\ ReviewOwn(r, by, c, approve)

NewVersion(c, by) ==
    [key |-> changes[c].key, version |-> Cardinality(Versions(changes[c].key)) + 1, from |-> changes[c].from,
     change |-> c, by |-> changes[c].by, approvedBy |-> by, status |-> changes[c].status]

\* A change has at most one version (OneToOne): a second approval is refused by the database.
Decide(r) ==
    LET c == decision[r].change
        by == decision[r].by
    IN  /\ decision[r] # Waiting
        /\ changes' = [changes EXCEPT ![c].state = IF decision[r].approve THEN "APPROVED" ELSE "REJECTED",
                                      ![c].decidedBy = by]
        /\ IF decision[r].approve
           THEN /\ \A p \in parameters : p.change # c
                /\ parameters' = parameters \cup {NewVersion(c, by)}
           ELSE UNCHANGED parameters
        /\ decision' = [decision EXCEPT ![r] = Waiting]

Abandon(r) ==
    /\ decision[r] # Waiting
    /\ decision' = [decision EXCEPT ![r] = Waiting]
    /\ UNCHANGED <<parameters, changes>>

RuleInit ==
    /\ parameters = {Seed(key) : key \in Keys}
    /\ changes = <<>>
    /\ decision = [r \in Clerks |-> Waiting]

RuleNext ==
    \/ \E by \in Makers, key \in Keys, status \in RuleStatus, from \in 0..LastRuleDay :
          ProposeChange(by, key, status, from)
    \/ \E r \in Clerks, by \in Checkers, approve \in BOOLEAN : \E c \in DOMAIN changes : Review(r, by, c, approve)
    \/ \E r \in Clerks : Decide(r) \/ Abandon(r)

RuleSpec == RuleInit /\ [][RuleNext]_ruleVars

-----------------------------------------------------------------------------
(* What governance promises *)

RuleTypeOK ==
    /\ parameters \in SUBSET Parameter
    /\ changes \in Seq(Change)
    /\ decision \in [Clerks -> {Waiting} \cup Checked]
    /\ \A key \in Keys : IsFiniteSet(Versions(key))
    /\ \A p \in parameters : p.change \in 0..Len(changes)
    /\ \A r \in Clerks : decision[r] # Waiting => decision[r].change \in DOMAIN changes
    /\ \A c \in DOMAIN changes : changes[c].state = "PENDING" <=> changes[c].decidedBy = NoOne

\* Maker-checker, whatever is read stale: the versions of a parameter are numbered without gaps, each
\* but the first comes from a change of its own, made by one officer and approved by another.
VersionsChecked ==
    /\ \A key \in Keys : {p.version : p \in Versions(key)} = 1..Cardinality(Versions(key))
    /\ \A p \in parameters :
          p.version > 1 => /\ p.by # p.approvedBy /\ p.by = changes[p.change].by
                           /\ \A q \in parameters \ {p} : q.change # p.change

\* "Approved (version created)": a version exists exactly where the change says so.
StateTellsVersion ==
    \A c \in DOMAIN changes : (changes[c].state = "APPROVED") <=> (\E p \in parameters : p.change = c)

\* "The value in force on a date is the latest version whose effective_from <= that date"
LatestVersionInForce ==
    \A key \in Keys, day \in 0..LastRuleDay :
        \A p \in Versions(key) : p.from <= day => p.version <= InForceOn(key, day).version

=============================================================================
