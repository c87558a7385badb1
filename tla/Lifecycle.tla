------------------------------ MODULE Lifecycle ------------------------------
(***************************************************************************)
(* One scholar's way through the ten phases of the programme: the phase    *)
(* machine with its gates and its log, and the milestone services.         *)
(*                                                                         *)
(* Sources: lifecycle/{engine,services,models}.py.                         *)
(*                                                                         *)
(* advance locks the scholar and is one step.  What records an outcome     *)
(* and may cancel the scholar locks nothing: Read saves the outcome, not   *)
(* yet visible to others, counts the rows and holds a copy of the scholar; *)
(* Commit makes it all visible, terminate's log entry being written from   *)
(* the copy.  The services for examiners are one step: what they get wrong *)
(* they get wrong one call after the other.                                *)
(*                                                                         *)
(* Abstracted: what a gate reads of other parts, and rows the office only  *)
(* enters, are members of `met`; dates are in Deadlines.  There is one     *)
(* thesis.  The office does not edit outcomes the services record.         *)
(***************************************************************************)
EXTENDS Integers, Sequences, FiniteSets, FiniteSetsExt

CONSTANTS
    Handlers,
    MaxFailed,     \* PROPOSAL_MAX_FAILED_ATTEMPTS
    WarningLimit,  \* WARNINGS_BEFORE_DC_REVIEW
    PanelMin,      \* EXAMINER_PANEL_MIN_NOMINEES
    Chosen,        \* EXAMINERS_SELECTED
    Commends,      \* EXAMINERS_COMMEND_REQUIRED
    Ahead, Late,   \* bounds: rows of a phase are written at most so many phases early or late
    MaxProposals, MaxReports, MaxReviews, MaxPanels, \* bounds: rows
    MaxTerminations \* bound: entries of terminate in the log

ASSUME LifecycleAssumption ==
    /\ {MaxFailed, WarningLimit, Chosen, Commends} \subseteq Nat \ {0}
    /\ PanelMin >= Chosen /\ Chosen >= Commends
    /\ {PanelMin, Ahead, Late, MaxProposals, MaxReports, MaxReviews, MaxPanels, MaxTerminations} \subseteq Nat

VARIABLES
    scholar,     \* phase and status
    transitions, \* PhaseTransition rows
    met,         \* milestones that are met
    proposals,   \* outcomes, by attempt_no
    reports,     \* ProgressReport rows, by period_no
    reviews,     \* decisions of the DCReview rows
    panel,       \* status of Thesis.panel_approval, "NONE" while it is NULL
    examiners,   \* ExaminerNomination rows with their reports
    inflight,    \* what each worker is doing
    crossed      \* history: a request was in flight when another began or the scholar advanced

rows == <<proposals, reports, reviews>>
evaluation == <<panel, examiners>>
lifeVars == <<scholar, transitions, met, rows, evaluation, inflight, crossed>>

-----------------------------------------------------------------------------

Phase == <<"ADMISSION", "COURSEWORK", "SUPERVISOR_TAC", "RESEARCH_PROPOSAL", "PROGRESS", "SYNOPSIS",
           "THESIS_SUBMISSION", "THESIS_EVALUATION", "VIVA", "DEGREE_AWARD">>

Scholar == [phase : DOMAIN Phase, status : {"ACTIVE", "AWARDED", "CANCELLED", "WITHDRAWN"}]

PhaseTransition == [before : Scholar, after : Scholar]

\* The phase whose gate reads the milestone
Milestone == [registered |-> 1, coursework |-> 2, supervisor |-> 3, tac |-> 3, synopsis |-> 5,
              cleared |-> 6, thesis |-> 7, sound |-> 7, viva |-> 9,
              award |-> 10, approved |-> 10, issued |-> 10]

\* Milestones recorded on a row that another one creates
Needs == {<<"cleared", "synopsis">>, <<"sound", "thesis">>, <<"viva", "thesis">>,
          <<"approved", "award">>, <<"issued", "award">>}

\* What a revised result, or the end of an allocation or of a seat, takes back
Lapsing == {"coursework", "supervisor", "tac"}

\* RECOMMENDED stands for the passing outcomes, NOT_RECOMMENDED for the failing ones.
Outcome == {"PENDING", "RECOMMENDED", "NOT_RECOMMENDED"}

\* review: the DCReview that dealt with the warning, 0 while it is NULL
ProgressReport == [outcome : {"PENDING", "SATISFACTORY", "UNSATISFACTORY"}, review : Nat]

DcDecision == {"PENDING", "CONTINUE", "CANCEL"}

Examiner == [selected : BOOLEAN, replaced : BOOLEAN,
             report : {"NONE", "DISPATCHED", "COMMEND", "REVISE"}]

Nominee == [selected |-> FALSE, replaced |-> FALSE, report |-> "NONE"]

-----------------------------------------------------------------------------
(* Gates *)

At(p) == Phase[scholar.phase] = p

LatestProposalPassed == proposals # <<>> /\ proposals[Len(proposals)] = "RECOMMENDED"

ReviewedReports == {k \in DOMAIN reports : reports[k].outcome # "PENDING"}

ProgressSatisfactory ==
    /\ \A k \in DOMAIN reviews : reviews[k] # "PENDING"
    /\ ReviewedReports # {}
    /\ reports[Max(ReviewedReports)].outcome = "SATISFACTORY"

\* Reports received from examiners selected and not replaced
Received == {e \in DOMAIN examiners : /\ examiners[e].selected /\ ~examiners[e].replaced
                                      /\ examiners[e].report \in {"COMMEND", "REVISE"}}

Commended ==
    /\ Cardinality(Received) >= Chosen
    /\ Cardinality({e \in Received : examiners[e].report = "COMMEND"}) >= Commends

GateOpen ==
    /\ \A m \in DOMAIN Milestone : Milestone[m] = scholar.phase => m \in met
    /\ At("RESEARCH_PROPOSAL") => LatestProposalPassed
    /\ At("PROGRESS") => ProgressSatisfactory
    /\ At("THESIS_EVALUATION") => Commended

\* evaluate_gate's first condition
MayAdvance == scholar.status = "ACTIVE"

-----------------------------------------------------------------------------
(* advance and terminate *)

Unoccupied == [op |-> "idle"]

Log(log, before, after) == Append(log, [before |-> before, after |-> after])

Advanced == IF At("DEGREE_AWARD") THEN [scholar EXCEPT !.status = "AWARDED"]
                                  ELSE [scholar EXCEPT !.phase = @ + 1]

Busy == {w \in Handlers : inflight[w] # Unoccupied}

Advance ==
    /\ MayAdvance
    /\ GateOpen
    /\ scholar' = Advanced
    /\ transitions' = Log(transitions, scholar, scholar')
    /\ crossed' = (crossed \/ Busy # {})
    /\ UNCHANGED <<met, rows, evaluation, inflight>>

\* The advances among the first n transitions, those that terminate are the others
Advances(n) == {k \in 1..n : transitions[k].after.status \in {"ACTIVE", "AWARDED"}}

Terminations == Len(transitions) - Cardinality(Advances(Len(transitions)))

TerminateFromCopy(seen, status) ==
    /\ Terminations < MaxTerminations
    /\ scholar' = [seen EXCEPT !.status = status]
    /\ transitions' = Log(transitions, seen, scholar')

\* save(update_fields=["status"]), and the log entry from the copy `seen`
Terminate(seen, status) ==
    /\ Terminations < MaxTerminations
    /\ scholar' = [scholar EXCEPT !.status = status]
    /\ transitions' = Log(transitions, seen, [seen EXCEPT !.status = status])

Stay == UNCHANGED <<scholar, transitions>>

-----------------------------------------------------------------------------
(* record_proposal_outcome, record_tac_review, decide_dc_review *)

\* The bounds on when rows of a phase are written
Timely(phase) == phase \in (scholar.phase - Late)..(scholar.phase + Ahead)

\* A row somebody else has saved and not committed makes the next one wait.
Saved(op, k) == \E w \in Handlers : inflight[w].op = op /\ inflight[w].row = k

Read(w, r) ==
    /\ inflight[w] = Unoccupied
    /\ inflight' = [inflight EXCEPT ![w] = r]
    /\ crossed' = (crossed \/ Busy # {})
    /\ UNCHANGED <<scholar, transitions, met, rows, evaluation>>

Failures(outcomes) == Cardinality({k \in DOMAIN outcomes : outcomes[k] = "NOT_RECOMMENDED"})

RecordProposalOutcome(w, k, outcome) ==
    /\ Timely(4)
    /\ ~Saved("proposal", k)
    /\ Read(w, [op |-> "proposal", row |-> k, outcome |-> outcome, seen |-> scholar,
                 cancel |-> Failures([proposals EXCEPT ![k] = outcome]) >= MaxFailed])

CommitProposal(w) ==
    LET r == inflight[w]
    IN  /\ r.op = "proposal"
        /\ proposals' = [proposals EXCEPT ![r.row] = r.outcome]
        /\ IF r.cancel THEN Terminate(r.seen, "CANCELLED") ELSE Stay
        /\ UNCHANGED <<reports, reviews>>

OpenWarnings(rs) == {k \in DOMAIN rs : rs[k].outcome = "UNSATISFACTORY" /\ rs[k].review = 0}

RecordTacReview(w, k, outcome) ==
    LET row == [reports[k] EXCEPT !.outcome = outcome]
    IN  /\ Timely(5)
        /\ ~Saved("report", k)
        /\ Read(w, [op |-> "report", row |-> k, saved |-> row,
                     warnings |-> OpenWarnings([reports EXCEPT ![k] = row])])

\* Linking the warnings waits for those that somebody else has saved.
CommitReport(w) ==
    LET r == inflight[w]
        saved == [reports EXCEPT ![r.row] = r.saved]
        open == Cardinality(r.warnings) >= WarningLimit
    IN  /\ r.op = "report"
        /\ open => \A k \in r.warnings \ {r.row} : ~Saved("report", k)
        /\ open => Len(reviews) < MaxReviews
        /\ reviews' = IF open THEN Append(reviews, "PENDING") ELSE reviews
        /\ reports' = [k \in DOMAIN saved |->
                          IF open /\ k \in r.warnings
                          THEN [saved[k] EXCEPT !.review = Len(reviews')] ELSE saved[k]]
        /\ Stay
        /\ UNCHANGED proposals

DecideDcReview(w, k, decision) ==
    /\ Timely(5)
    /\ ~Saved("review", k)
    /\ Read(w, [op |-> "review", row |-> k, decision |-> decision, seen |-> scholar])

CommitReview(w) ==
    LET r == inflight[w]
    IN  /\ r.op = "review"
        /\ reviews' = [reviews EXCEPT ![r.row] = r.decision]
        /\ IF r.decision = "CANCEL" THEN Terminate(r.seen, "CANCELLED") ELSE Stay
        /\ UNCHANGED <<proposals, reports>>

Withdraw(w) == Read(w, [op |-> "withdraw", row |-> 0, seen |-> scholar])

CommitWithdrawal(w) ==
    /\ inflight[w].op = "withdraw"
    /\ Terminate(inflight[w].seen, "WITHDRAWN")
    /\ UNCHANGED rows

Commit(w) ==
    /\ inflight' = [inflight EXCEPT ![w] = Unoccupied]
    /\ CommitProposal(w) \/ CommitReport(w) \/ CommitReview(w) \/ CommitWithdrawal(w)
    /\ UNCHANGED <<met, evaluation, crossed>>

\* The process dies or the database refuses: nothing is kept.
Forget(w) ==
    /\ inflight[w] # Unoccupied
    /\ inflight' = [inflight EXCEPT ![w] = Unoccupied]
    /\ UNCHANGED <<scholar, transitions, met, rows, evaluation, crossed>>

-----------------------------------------------------------------------------
(* The examiners of the thesis *)

Evaluate ==
    /\ "thesis" \in met
    /\ Timely(8)
    /\ UNCHANGED <<scholar, transitions, met, rows, inflight, crossed>>

SubmitExaminerPanel ==
    /\ Evaluate
    /\ Len(examiners) < MaxPanels * PanelMin
    /\ examiners' = examiners \o [e \in 1..PanelMin |-> Nominee]
    /\ panel' = "PENDING"

DecidePanel ==
    /\ Evaluate
    /\ panel = "PENDING"
    /\ panel' \in {"APPROVED", "REJECTED"}
    /\ UNCHANGED examiners

Dispatched == [selected |-> TRUE, replaced |-> FALSE, report |-> "DISPATCHED"]

\* A nominee has one report (OneToOne): one who has been asked cannot be asked again.
SelectExaminers(chosen) ==
    /\ Evaluate
    /\ panel = "APPROVED"
    /\ Cardinality(chosen) = Chosen
    /\ \A e \in chosen : examiners[e].report = "NONE"
    /\ examiners' = [e \in DOMAIN examiners |-> IF e \in chosen THEN Dispatched ELSE examiners[e]]
    /\ UNCHANGED panel

ReplaceExaminer(e, f) ==
    /\ Evaluate
    /\ examiners[e].report # "NONE"
    /\ ~examiners[f].selected
    /\ examiners' = [examiners EXCEPT ![e].replaced = TRUE, ![f] = Dispatched]
    /\ UNCHANGED panel

ReceiveReport(e, recommendation) ==
    /\ Evaluate
    /\ examiners[e].report = "DISPATCHED"
    /\ examiners' = [examiners EXCEPT ![e].report = recommendation]
    /\ UNCHANGED panel

-----------------------------------------------------------------------------
(* What the office enters, and what other parts decide *)

MayEnter(phase) == scholar.status = "ACTIVE" /\ Timely(phase)

Meet(m) ==
    /\ MayEnter(Milestone[m])
    /\ m \notin met
    /\ \A need \in Needs : need[1] = m => need[2] \in met
    /\ met' = met \cup {m}
    /\ UNCHANGED <<scholar, transitions, rows, evaluation, inflight, crossed>>

Lapse(m) ==
    /\ m \in met \cap Lapsing
    /\ Timely(Milestone[m])
    /\ met' = met \ {m}
    /\ UNCHANGED <<scholar, transitions, rows, evaluation, inflight, crossed>>

SubmitProposal ==
    /\ MayEnter(4)
    /\ Len(proposals) < MaxProposals
    /\ proposals' = Append(proposals, "PENDING")
    /\ UNCHANGED <<scholar, transitions, met, reports, reviews, evaluation, inflight, crossed>>

SubmitReport ==
    /\ MayEnter(5)
    /\ Len(reports) < MaxReports
    /\ reports' = Append(reports, [outcome |-> "PENDING", review |-> 0])
    /\ UNCHANGED <<scholar, transitions, met, proposals, reviews, evaluation, inflight, crossed>>

-----------------------------------------------------------------------------

LifeInit ==
    /\ scholar = [phase |-> 1, status |-> "ACTIVE"]
    /\ transitions = <<>>
    /\ met = {}
    /\ proposals = <<>> /\ reports = <<>> /\ reviews = <<>>
    /\ panel = "NONE" /\ examiners = <<>>
    /\ inflight = [w \in Handlers |-> Unoccupied]
    /\ crossed = FALSE

Serve(w) ==
    \/ \E k \in DOMAIN proposals, o \in {"RECOMMENDED", "NOT_RECOMMENDED"} :
          RecordProposalOutcome(w, k, o)
    \/ \E k \in DOMAIN reports, o \in {"SATISFACTORY", "UNSATISFACTORY"} : RecordTacReview(w, k, o)
    \/ \E k \in DOMAIN reviews, d \in {"CONTINUE", "CANCEL"} : DecideDcReview(w, k, d)
    \/ Withdraw(w)
    \/ Commit(w)
    \/ Forget(w)

Examine ==
    \/ SubmitExaminerPanel
    \/ DecidePanel
    \/ \E chosen \in SUBSET DOMAIN examiners : SelectExaminers(chosen)
    \/ \E e, f \in DOMAIN examiners : ReplaceExaminer(e, f)
    \/ \E e \in DOMAIN examiners, r \in {"COMMEND", "REVISE"} : ReceiveReport(e, r)

Enter ==
    \/ \E m \in DOMAIN Milestone : Meet(m) \/ Lapse(m)
    \/ SubmitProposal
    \/ SubmitReport

LifeNext == Advance \/ Examine \/ Enter \/ \E w \in Handlers : Serve(w)

LifeSpec == LifeInit /\ [][LifeNext]_lifeVars

-----------------------------------------------------------------------------
(* What the lifecycle promises *)

InFlight ==
    {Unoccupied}
    \cup [op : {"proposal"}, row : DOMAIN proposals, outcome : {"RECOMMENDED", "NOT_RECOMMENDED"},
          seen : Scholar, cancel : BOOLEAN]
    \cup [op : {"report"}, row : DOMAIN reports, saved : ProgressReport, warnings : SUBSET DOMAIN reports]
    \cup [op : {"review"}, row : DOMAIN reviews, decision : {"CONTINUE", "CANCEL"}, seen : Scholar]
    \cup [op : {"withdraw"}, row : {0}, seen : Scholar]

LifeTypeOK ==
    /\ scholar \in Scholar
    /\ transitions \in Seq(PhaseTransition)
    /\ met \subseteq DOMAIN Milestone
    /\ proposals \in Seq(Outcome)
    /\ reports \in Seq(ProgressReport)
    /\ reviews \in Seq(DcDecision)
    /\ panel \in {"NONE", "PENDING", "APPROVED", "REJECTED"}
    /\ examiners \in Seq(Examiner)
    /\ inflight \in [Handlers -> InFlight]
    /\ crossed \in BOOLEAN

\* However cancellations and withdrawals interleave with it, the phase machine takes every gate
\* once and in order: the k-th advance in the log leaves phase k, and the scholar is where the
\* advances have led; an advance of the last phase is the award.
AdvancesInOrder ==
    LET log == Advances(Len(transitions))
    IN  /\ \A k \in log : transitions[k].before = [phase |-> Cardinality(Advances(k)), status |-> "ACTIVE"]
        /\ scholar.phase = Cardinality({k \in log : transitions[k].after.status = "ACTIVE"}) + 1
        /\ scholar.status = "AWARDED" => Cardinality(log) = Len(Phase)

\* Two failed proposals end the registration, and a review by the DC is opened before a second
\* warning is left unanswered: while nothing overlaps.
SanctionsTaken ==
    ~crossed =>
        /\ Failures(proposals) >= MaxFailed => scholar.status # "ACTIVE"
        /\ Cardinality(OpenWarnings(reports)) < WarningLimit

\* A scholar's course through the ten phases: every gate in order, and the sanctions on the way.
CourseRun == AdvancesInOrder /\ SanctionsTaken

\* "One of the 3 chosen by the VC": no more examiners than that count for a thesis.
ThreeExaminers ==
    Cardinality({e \in DOMAIN examiners : examiners[e].selected /\ ~examiners[e].replaced}) <= Chosen

=============================================================================
