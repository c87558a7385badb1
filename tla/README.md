# A verification project for the PhD ERP

TLA+ models of the services of this repository (a Django application that runs a university's
PhD programme), TLC configurations that check them on small instances, and TLAPS proofs of what
holds for every instance. Paths below are relative to the repository.

- [How the system runs](#how-the-system-runs)
- [Inventory](#inventory)
- [The modules and the code](#the-modules-and-the-code)
- [The runs](#the-runs)
- [What is proved](#what-is-proved)
- [Where code and text disagree](#where-code-and-text-disagree)
- [What is not modelled](#what-is-not-modelled)
- [Plan](#plan)

## How the system runs

The program is a set of Django apps over one PostgreSQL database. Users reach the same service
functions through three entrances: server-rendered views, a REST layer (`coursework/api/`) and the
Django admin. The deployment runs them under gunicorn (`docs/INTEGRATION_PLAN.md`), so two requests
may run the same service at once. Isolation is PostgreSQL's default, READ COMMITTED, and
`ATOMIC_REQUESTS` is not set.

The usual service function has three parts:

1. a view fetches the object and the function checks roles, statuses and parameters on that copy;
2. `with transaction.atomic():` opens, usually *after* the checks, and writes;
3. an audit record is appended inside the transaction.

Only a few functions lock rows (`select_for_update`): a supervisor's allocation, a decision on an
approval request, a change of phase, a teaching assistant's hours, a parameter change, a fee
clearance, the version of a transcript (an aggregate, which locks nothing), and the revocation of a
grant (after its checks). An audit record locks the last one, from there to the end of the
transaction, which orders the ends of transactions and none of their checks. Everywhere else what
stands between two requests is a unique index, a CHECK constraint, or a `save()` that reads the row
again. **Which promises survive that is the question most of this project asks.** It is why a
service is modelled in two halves (*check*, then *write*), with the tables' constraints as guards of
the second half and with other requests free to come in between.

A request may also die between its halves, or have its transaction refused. In the models it is
then dropped, which is possible for any request in flight and changes no row.

## Inventory

For each part: what it keeps, what it does, whom it meets, what is hard, and what makes it correct.
The modules of this directory that model it stand in its title. `PROJECT.json` lists every part with
its files and status, and under `hazards` what is hard to test in each, at its line, with the
properties that watch it.

### Result custody (`coursework/academic/{marks,results,revaluation}.py`) - ResultCustody, PublishedResult
- **State**: `MarkEntry` per component, `CourseResult` rows (PREPARED, VERIFIED, RATIFIED,
  RETURNED, `is_current`, `supersedes`), `RevaluationCase`, the mirrored total of `CourseAttempt`.
- **Operations**: enter a mark, prepare, verify, ratify, return, open a revaluation, review it.
- **Meets**: examination attempts (the status mirrored), the record (completion is refreshed inside
  the ratification), lifecycle (reads the completion date).
- **Hard**: three offices write one row without a lock; `CourseResult.save()` re-reads it and
  refuses to touch a ratified one; supersession moves `is_current` between two rows.
- **Correct** when one result is in force, ratified results are final, three different people
  signed, and marks, mirror and cases agree with it.

### Examination attempts (`coursework/academic/{examination,third_attempt}.py`) - CourseAttempts, AttemptLadder
- **State**: `CourseAttempt`, `ExamRegistration`, `ThirdAttemptCase`, the enrollment's status.
- **Operations**: evaluate eligibility, register, open an activity evaluation, submit, review and
  decide a case, withdraw.
- **Hard**: eligibility *counts failures*, the tables *number attempts*, the window depends on
  dates and parameters; a case is consumed by a registration that read it earlier.
- **Correct** when attempts form a ladder without holes, none follows a pass, and whoever needs a
  case has one that was decided and serves this attempt only.

### Supervision (`supervision/`) - Supervision
- **State**: `SupervisorAssignment` and `TACMembership` rows with dates and their approval request.
- **Operations**: propose a supervisor, propose a TAC, two approval callbacks, ending rows.
- **Hard**: the capacity is a count that two proposals can both find free (locked); a TAC proposal
  locks nothing; a TAC rests on an allocation that somebody may end.
- **Correct** when capacities hold, a scholar has one supervisor and one TAC led by that
  supervisor, and TAC members are independent of the supervision.

### Approval chains (`core/approvals.py`) - ApprovalRequests
- **State**: `ApprovalChain`/`ApprovalStep` (data the R&D office edits), `ApprovalRequest`,
  `ApprovalDecision`.
- **Operations**: start a request, decide its current step (row locked, callback inside).
- **Meets**: supervision, scholars, lifecycle, finance: each registers a callback.
- **Hard**: chains change while requests are pending; the current step may be gone.
- **Correct** when domain rows and requests agree, and nothing is approved that was not signed.

### Scholars and finance (`scholars/`, `finance/`) - ScholarRequests, TeachingAssistance
- **State**: `ExtensionGrant`, `LeaveRecord`, `GrantClaim`, `DegreeAward`; `TARegistration` with its
  assignments and feedback.
- **Operations**: apply for an extension, for leave, for a grant; start the degree award; callbacks;
  register for an assistantship, assign hours, enter feedback.
- **Hard**: caps are sums over other rows, read without a lock; two requests for one extension; the
  hours are locked, the registrations that count semesters are not.
- **Correct** when caps hold, an extension is granted once, rows agree with requests, and a scholar
  assists in no more semesters than earned.

### Lifecycle (`lifecycle/`) - Lifecycle
- **State**: the scholar's phase and status, the log of transitions, milestones, progress reports and
  their SDRC reviews, proposals, the examiner panel.
- **Operations**: advance, record a milestone, record a review or a proposal's outcome (which may
  cancel the scholar), terminate, choose, select and replace examiners.
- **Hard**: `advance` locks the scholar, `terminate` and what leads to it do not; a sanction counts
  rows that another request is adding.
- **Correct** when no phase is entered before its gate, nothing leaves a final status, and every
  sanction that is due is taken.

### Rule parameters (`coursework/academic/config.py`) - RuleGovernance
- **State**: versions of each `AcademicRuleParameter` by effective date, `RuleParameterChange`.
- **Hard**: a decision checks a copy, then locks the change and no longer looks at its state; the
  same change can be decided twice.
- **Correct** when versions are numbered without gaps and each was approved by somebody else.

### Elective lists and proposals (`coursework/academic/{elective_lists,electives}.py`) - ElectiveChoice, Screens
- **State**: lists with their chain, step and decisions; proposals with recommender and decider.
- **Hard**: a request writes a whole row from a copy it read before; a list may be returned and
  submitted under another chain while somebody decides.
- **Correct** when an approved list was signed at every step of its chain by different people, and
  what a screen offers is what the service accepts.

### Enrollment, semester registration, fees (`coursework/academic/{enrollment,semester,structure}.py`) - Enrollment
- **Hard**: places are counted without a lock; a proposal is read before the enrollment that rests
  on it is written; a revision may undo a pass that had freed a place.
- **Correct** when offerings and sections hold no more than their places, a scholar has one
  enrollment per course, and an elective's enrollment rests on an approved proposal.

### Teaching, attendance, examinations, the record - Teaching, Attendance, ExamOffice, Transcripts
- **State** (`coursework/academic/{structure,policies,attendance,exam_admin,records}.py`): teaching
  assignments with dates, schemes, sessions and attendance with its corrections, cycles, exams, hall
  tickets, setters of papers, transcripts issued.
- **Hard**: a scheme is re-weighted while a mark arrives; corrections are written from copies; a
  withdrawal crosses a registration; transcripts are numbered by an aggregate that locks nothing.
- **Correct** when the marks grid agrees with who may enter, corrections explain the record, ticket
  holders are enrolled, and a transcript's version tells whether the record has changed.

### Identity (`identity/`) - Identity, Access
- **State**: persons, their links to logins and profiles, capability grants, passwords.
- **Hard**: the visibility policy exists twice, per scholar and as a query; two administrators
  revoke each other.
- **Correct** when both forms agree and an administrator remains.

### Audit trail (`identity/audit.py`) - AuditChain
- **Hard**: two writers look for the last event; the lock on it arrives after the answer.
- **Correct** when every event refers to an older one that exists, in one chain.

### Deadlines (`deadlines/`, `phd_rules/durations.py`) - Deadlines
- **Hard**: a daily job that may be late, repeated or die between any two rows, while dates move.
- **Correct** when a complete run leaves the rows and reminders the dates call for, and whatever is
  overdue is in the end announced.

### Imports (`imports/`) - Imports, ColumnMapping, RecordImports
- **Hard**: the data changes between preview and commit; two commits of a batch; an assistant may
  answer anything; codes are matched without case and unique with it.
- **Correct** when a batch is imported once, a suggestion never displaces a column named by its
  header, and importing a file twice creates nothing.

### The rest
Grading is in ResultCustody's `Total` and Transcripts' points; the parts of the REST layer that
decide something are in Screens, Teaching, ExamOffice and Transcripts. Month arithmetic
(`phd_rules/dates.py`), documents, the admin, views, templates, seeds and migrations have no module
([why](#what-is-not-modelled)).


## The modules and the code

```
PublishedResult   <--implements--  ResultCustody                         ResultCustodyProofs
AttemptLadder     <--implements--  CourseAttempts                        CourseAttemptsProofs
ApprovalRequests  <--extends-----  Supervision                           SupervisionProofs
       ^          <--extends-----  ScholarRequests  \  composed with
       |                           TeachingAssistance > Lifecycle by     ScholarProofs
       |                                            /  MCScholar
       `--- ApprovalRequestsProofs (lemmas both use)
ElectiveChoice <- Enrollment <- Teaching <- Attendance <- ExamOffice <- Transcripts   (extends)
                                                                  ^
       AcademicProofs                                 Screens ----+---- RecordImports
                                                                composed by MCAcademic
Access <- Identity                                        \
AuditChain <- Imports,  RuleGovernance                     > AdministrationProofs
ColumnMapping                                             /  composed by MCAdministration
Deadlines                                                 MCDeadlines, DeadlinesProofs
```

**Conventions.** A variable is a table (a sequence of records in creation order, or a function from
the keys that may exist) or a column. `request[w]`, `desk[d]`, `clerk[c]`, `inflight[w]`, `job[w]` is
what a worker remembers between its two halves: the copy it checked, with the values it is about to
write. `Load...`, `Open...`, `Begin` (or the service's own name) is the checking half, `Write...`,
`Create...`, `Insert...`, `Commit` the writing one. `...Admissible` operators are the unique and
CHECK constraints, evaluated on the tables as they would be after the write, as the database does.
Ids called `actor`, `by` or `...By` are people; a permission is the set of people who hold it.

History variables say where a promise ends: `overlapped`, `crossed`, `hasty`, `contended`, `abreast`,
`hurried`, `contested` and the `stale` of a row remember that requests crossed on what the promise is about (and
only there, where it can be told which row it was); `raised` remembers an amount set by hand. They are
written and never read by a guard.

Each module's header names its sources, where it splits a service and what it leaves out.

**ResultCustody** is one attempt. `LoadEnter`...`LoadReview` are the service functions up to their
writes; `SaveGuard` is the re-read in `CourseResult.save()`, a step of its own because the row can
change between it and the UPDATE; `WriteRatify` is the whole transaction (supersession, case
closing, attempt and enrollment mirror, completion refresh). The mark scheme is the constant
operator `Total`, so weights, rounding and grades cost no state. `completed` is
`Scholar.coursework_completed_on`, in a programme whose only required course this is.

**PublishedResult** says what a reader of the record may rely on: unpublished, then published for
good; a published result changes only while contested, and into a different one. ResultCustody maps
`official` to the total of the ratified result in force and `contested` to an open revaluation of
it, and takes its steps while requests do not overlap (`PublishedSpecInTurn`).

**CourseAttempts** is one scholar at one course: a calendar (`today`, `Tick`), exams as constants
with registration windows, the attempts, the cases and the enrollment. `register_for_exam` reads
twice (`LoadRegister` checks eligibility, `ReadCase` picks the case) and then writes. `Publish` and
`Revise` stand for the custody chain; they are all of PublishedResult that attempts can see.

**AttemptLadder** promises that attempts are opened one at a time, at most `Last`, none is struck,
each ends with an outcome.

**ApprovalRequests** has no next-state relation of its own: it gives the modules of the domains
`StartApproval` (to conjoin to an insert), `HasPendingStep`/`Decided` (to conjoin to a callback) and
the office's `AddStep`/`RemoveStep`. A decision is one step because `decide()` locks the request and
runs the callback in the same transaction. `Decided` moves to the least later step *that exists now*.

**Supervision**: `Allocate` takes the faculty row's lock (no other allocation of that person may be
in flight) and checks; `CreateAssignment` inserts and releases. `FormTac` checks without a lock;
`CreateSeats` reads the current supervisor again, as the code does, and inserts all seats. `Decide`
carries both callbacks. `EndAssignment`/`EndSeat` are the dates the office sets in the admin, for the
scholars in the constant `Ended`.

**ScholarRequests** is one scholar with several applications in flight; `Decide` carries all four
callbacks and is rolled back when `uniq_granted_extension` refuses. `EditAmountApproved` is the claim's
page in the admin, where the amount approved of any claim can be set or cleared at any time
(`finance/admin.py`); `raised` remembers that one was set above what `grant_committed` counted for the
claim before.

**TeachingAssistance**: `register_for_ta` is `Open` and `Insert`; `assign_ta` holds the
registration's row from its sums to its insert; the office enters feedback and states.

**Lifecycle** is one scholar's way through ten phases. `advance` is one step (it locks the scholar).
`Read` is a service that saves an outcome and counts; `Commit` makes the outcome visible, with the
cancellation it may bring. What a gate reads of other parts is a member of `met`.

**Deadlines** is the daily job one row at a time: events created, deadlines recomputed, reminders
sent, each by its own `JobStep`; `Crash` ends it anywhere, `Tick`, `Record`, `TakeBack` and
`MoveEvent` come in between.

**RuleGovernance**: `ProposeChange`, then `Review` (the checks of `decide_change` on a copy) and
`Decide` (lock, read anew, write a version). **AuditChain**: `SelectLast` is the snapshot a
`select_for_update` reads, `InsertEvent` comes when the lock is free, `CommitTxn` or a rollback ends
the transaction. **Access** holds the policy without state: capabilities held or derived, scopes,
`Authorized` for one scholar and `VisibleScholars` for all. **Identity** adds persons, links, grants
and logins: `Begin` authorizes, `Commit` writes what the constraints admit. **Imports** extends
AuditChain: each row of a file is matched, inserted and recorded, a preview rolls back.
**ColumnMapping** is the sheet's way from upload to a confirmed mapping. **RecordImports** has the
six row types beside the screens that create the same records; `RecordsSpec` is imports and such
screens beside everything that goes on in a semester.

**ElectiveChoice** and **Enrollment** share the requests `desk`: a request opens with a copy and
writes it back. A row written by a request whose copy was no longer the row is `stale` from then on.
**Teaching**, **Attendance**, **ExamOffice** and **Transcripts** extend one another in the order the
semester does: who teaches, who was there, who may sit the exam, what the record says. **Screens**
keeps what an open browser tab shows and sends it later; `ScreensSpec` is tabs beside a semester.

## The runs

| run | instance | what it shows |
|---|---|---|
| `custody` | 2 scenes. *Alone*: requests one after the other; 2 assessments with scores 0/1, pass at 2; 5 people whose offices overlap; 3 results, 2 cases. *Together*: 2 workers, 2 results, 1 case | Alone the chain keeps every promise and implements PublishedResult. Together: supersession without a gap, no demotion of a ratified row. |
| `custody_marks_race` | 2 workers, 1 assessment | *Violation*: a mark written after its lock check. |
| `custody_completion` | 1 worker | *Violation*: the completion date outlives the pass. |
| `attempts_serial` | 1 worker; days 0-3, 4 exams, window of 2 days; 2 regular attempts, 3 in all; absences count; 3 cases | Eligibility, cases, standing, enrollment and the tables agree; none after a pass. |
| `attempts_concurrent` | 2 workers; days 0-2; outcomes revised; window of 1 day from the first attempt; 2 cases | The ladder is implemented and every used case was decided, under interleaving and revision. |
| `attempts_dead_end` | as serial, absences do not count, wider window | *Violation*: eligible, but the table refuses. |
| `supervision` | 2 scenes. *Races*: 2 workers, 3 scholars, places for one, 4 requests. *Endings*: the office ends what one scholar has; externals may co-supervise. 3 allocations, 2 TACs | Capacity, one TAC, led by the current supervisor, signed throughout, rows follow requests; nobody sits on the TAC of a scholar they supervise unless the two crossed. |
| `scholar` | 9 scenes: applications, claims with amounts edited by hand, assistantship, and six stretches of the lifecycle; 2 workers; 3 requests, leave cap 3, grant cap 3, months 0-2 with a gap of 2 | Records agree with requests; what is asked for once is had once; caps hold while applications come one at a time and no amount is raised by hand; phases and sanctions come in order, assistantships are earned. |
| `scholar_requests_refused` | the applications alone | *Violation*: refused leave uses up the allowance. |
| `deadlines` | 11 stretches of a course, days 0-3, 1 crash, a year of 2 days | After a complete run rows and reminders are right, and the next one changes nothing while nothing else does; overdue deadlines are in the end announced (liveness). |
| `administration` | 8 scenes: offices, links, views, trail, rules, previews, commits, columns; 3 writers, 5 events, 2 changes, 3 grants | Visibility agrees, administrators are kept, trail and versions are sound, imports happen once, suggestions stand. |
| `academic` | 10 scenes: lists, electives, fees, places, teaching, attendance, exams, imports, transcripts, screens; 2 desks, 3 decisions per list, days 0-1; desks and tabs are symmetric | Signatures, places, bases of enrollments, the grid, corrections, tickets, repeated imports, the record, offers, settled schemes. |

**Scenes.** A module of several parts would multiply states that have nothing to do with each other.
An MC module therefore starts in one of several *scenes*, each with initial rows of its own, and a
step of a scene is a step of the modules' own next-state relation that stays within the scene's
bounds. A property is checked in every scene.

**Deadlock** is not checked: every run may rest for good once every row is final and the bounds on new
rows are reached, and every operation but the daily job starts because a person decides to act.

**Fairness** is assumed in one place: `WF_vars(JobStep)` in `deadlines`. The job is a scheduled
management command; its next row is processed as long as the process lives, and the schedule starts
it again. `Crash` is not constrained by it but bounded by `MaxCrashes`, and `Tick`, `Record` and the
others are not obliged to happen. `OverdueAnnounced` needs no more than that the dates stop changing.
Everything else here is about people, and "eventually" would be a statement about them.

Why the bounds are enough for the questions asked:

- *Custody.* Three results are an original, a revision and a revision of the revision, which is
  where a reviewer might be somebody of an earlier chain. Five people in overlapping offices are
  enough for every separation check to refuse someone and still let the chain go on. Two
  assessments are needed for a set that is incomplete or absent in part; two workers and one mark
  to race for: every promise relates a row to one request that wrote it late.
- *Attempts.* `attempt_no` cannot exceed 3 (a CHECK), four exams leave one to be refused, and the
  exams lie on both sides of the window's end. Three cases are one more than two attempts can use.
- *Supervision.* A race for a place needs one free place and two proposals. Three allocations are
  two scholars' supervisors and one after a rejection; four requests are all the rows there are but one.
- *Scholar.* Two leaves or two claims already exceed each cap; the third request comes after a
  rejection. A sanction needs two failed outcomes, one of them racing. Three semesters are one more
  than an assistant may serve.
- *Deadlines.* Each stretch has the dates that bear on one another; day 3 lies behind every due date,
  so that each tier is passed; one death and one change per run meet at any two rows.
- *Administration.* Three administrators are two who remove each other and one who may remain; three
  writers are two that contend and one that comes after a gap. A batch of two rows has one before and
  one after a crash.
- *Academic.* One place and two scholars are a race; two steps of a chain with three holders are the
  least where somebody could sign twice; a returned list leaves one decision behind the new round.

**What holds only for requests that do not cross.** Without the history variable or the scene in its
name, TLC violates each of the following:

- `SeparationInTurn`, `PublishedSpecInTurn`, `CopiesFollowInTurn`: a preparation writes a whole row
  from a stale copy; `ResultMatchesMarksInTurn`: a mark written after its lock check;
- `CoveredByCase`, `StandingTruthful` (checked with one worker): a case decided, or the enrollment
  withdrawn, between a read and a write;
- `TacIndependentInTurn`: an allocation and a TAC proposed for one scholar at once;
- the sums in `GrantsBounded`, the semesters in `AssistanceSound`: two applications that each see the
  sum without the other. The lifetime cap on grants ends also without any crossing, once the office
  sets an amount approved above what the claim counted for: nothing compares it with the claim or
  with the cap;
- `AdminsKept`: two administrators revoke each other; `ChainSound`'s second half: a fork of the trail;
- `ListSigned`, `EnrollmentRests`, `PlacesHeld`, `CorrectionsExplain`, `TicketsStand`,
  `SchemeSettled`, `ImportedOnce` and `OffersHold`, for the rows concerned.

**Statements of the code's own texts that no run checks**, because the code does not keep them and a
run for each would repeat the pattern of those above. The modules define them: `ThreeExaminers`
(Lifecycle; examiners can be selected twice from one panel), `LastAdminKept` with overlapping requests
(Identity), `ChainVerifies` under contention (AuditChain), `StateTellsVersion` and
`LatestVersionInForce` (RuleGovernance; a change decided twice, a version made for an earlier day
later), `DateTold` (Deadlines; a reminder sent for a date that has moved since is not sent again).


## What is proved

TLAPS checks every theorem for all values of the constants that satisfy the named assumptions, for
any number of workers. Assumptions give constants their types and keep null values apart from the
others; the few that say more are justified by the code that reads the constant:

| assumption | why |
|---|---|
| `ListChains` has no empty chain, and `HolderOf` is defined on every step of it (ElectiveChoice) | `submit_list` refuses an empty chain; a name that no capability has is a step nobody holds |
| `IsFiniteSet(Candidates)` (Enrollment) | rows of one table |
| `DEGREE_AWARD` is no extension kind (ApprovalRequests' users) | two different chain kinds |
| a row of a file has the columns of its type, and names a scholar, a teacher, an offering; no screen enters two kinds of record at once (RecordImports) | what `parse_value` and `resolve` return for a cell; the forms |
| rows of a file are a sequence (Imports), `NoField` is neither a field nor a source (ColumnMapping) | how they are represented |

TLC evaluates them on every instance.

**ResultCustodyProofs** (one attempt, any people, marks and workers)
- `TypeCorrect`: `TypeOK` is not inductive: a request holds ids of rows, so `TypeInv` adds that they
  are rows that exist (`RequestRefers`).
- The lemma `StepCustody`, that the tables keep their constraints, is what the database itself
  promises and says nothing of the services; the invariants below use it.
- `NotDemotedHolds`: an action property. A verification or a return that read a row before its
  ratification, and passed `save()`'s re-read before it too, writes only its own columns: the
  ratifier stays on the row, and the CHECK on `ratified_at` refuses VERIFIED or RETURNED beside it.
  No lock is involved, which is why it is worth proving for every number of workers. (A preparation
  writes every column and so can reset a ratified row.)
- `SupersessionHolds`: an original leaves force only to a ratified revision of it. Only originals in
  force are prepared anew: a stale preparation of one already superseded would put it in force beside
  its revision, which the `is_current` constraint refuses, and a late verification of a superseded
  row is refused by the status constraint.
- `SeparationHoldsInTurn`, `ResultsMatchInTurn`, `CopiesHoldInTurn`, `PublishesInTurn` speak of requests
  that do not overlap, and rest on one invariant, `TurnInv`. While nothing has `overlapped`, one request
  at most is in flight (`Alone`) and what it read and checked is still so (`Fresh`). A row is right by
  whoever signed it and by the marks it was computed from (`RowsSound`), a case by its row
  (`CasesSound`), and the history is either a first row not ratified yet (`Drafted`: the marks may still
  be entered once it is returned) or a published result with its revisions (`Settled`: the marks are
  locked for good, which is why revisions computed months apart rest on the same ones). The step that
  publishes or changes the official total is the ratification; every other step stutters.
  `ImplementsPublished` is the refinement for a deployment whose requests never overlap.

**CourseAttemptsProofs**
- `TypeCorrect`, with `Refers` (cases and attempts that requests hold exist).
- `LadderImplemented`: `Spec => LadderSpec`. The invariant is `OpensAfterSettled`: what a request
  saw (no attempt pending) is still true *of the attempts before the number it will insert*. If
  another request opened that number meanwhile, `uniq_attempt` refuses the insert.
- `StopsAtPassHolds`: under `~Revaluation`, no attempt after a pass. `PassInv` carries the same idea.
- `RestsOnDecidedCaseHolds`: `DecidedInv` says an approved case has its decision on it, *also* as a
  registration in flight remembers it, and that no later write takes a decision back.
- `CoveredInTurn`, `StandingInTurn` are about behaviours in which one request is under way at a time
  (`[]OneAtATime`), for any number of workers, and under `~Revaluation`: a revised outcome changes the
  failures that were counted. `SerialInv` says that what a request found is still so when it writes
  (`StillSo`), that every attempt but the last has failed (`FailedBefore`), that the enrollment mirrors
  the attempts (`EnrollmentFollows`), and that each attempt is covered (`CoveredAt`): the failures before
  an attempt never change, and the case it used stays CONSUMED. `StandingInTurn` assumes also that
  absences count (otherwise an absence uses up an attempt without being a failure, which is the dead end
  of `attempts_dead_end`) and that `MaxTotal` is no less than the table's last number (an activity is
  evaluated without looking at `MaxTotal`).

**ApprovalRequestsProofs** has the lemmas for every module that extends ApprovalRequests: the next
step is the least later one, `RequestsInv` is kept by starting, deciding and editing, and an
approved request on an unedited chain is signed throughout (`SignedSoFar` is the induction: all
steps below the current one are signed).

**SupervisionProofs**
- `TypeCorrect`; `SignedThroughoutHolds` from the lemmas above.
- `CapacityHolds`: `CapacityInv` adds that an allocation in flight still has its place
  (`PlaceKept`) and that one allocation per faculty is in flight (`OneAllocationPerFaculty`, the
  lock). Without the lock `PlaceKept` is not inductive, and the corresponding mutant breaks the run.
- `DecisionsAgreeHolds`: `RecordsInv` adds that rows refer to requests that exist.
- `OneTacHolds`, `LedByCurrentSupervisorHolds`: both from `TacInv`: the two constraints, the records,
  and `Led` (an open TAC has its supervisor's seat, held under an approved open allocation). Two
  TACs of one scholar would hold two open seats of the one supervisor, which the seat constraint
  excludes. They are about scholars whose rows nobody ends by hand (those outside `Ended`).
- `TacIndependentHolds`: `IndependentInv` says that, unless the scholar is `crossed`, what a proposal in
  flight found apart is apart still (`CheckedApart`: no seat for the supervisor proposed, no member
  who supervises), and that two proposals of different kinds in flight for one scholar crossed.

**ScholarProofs** (ScholarRequests, TeachingAssistance, Lifecycle)
- `RecordsStayAgreed`: what was asked for is granted or refused as its request was. The invariant is
  that every pending request is for one row and every row for one request, also as an insert in
  flight remembers it. `TakenAtMostOnce` and `GrantedWhenSigned` follow from it and the lemmas on
  approvals, the former with the constraint on granted extensions and the single award row.
- `GrantsStayApart` has an invariant of its own: `ApartInv` says that while applications come one at a
  time, the claim in flight is apart from all that are not rejected.
- `GrantsStayBounded`. TLC adds up a set of rows recursively (`MapThenSumSet`); `SumsUp` says what a value
  is that such an addition may have, one row after the other in any order. That there is one, and
  only one, is shown by least counterexample (`SumExists`, `SumTakesAny`, `SumsAgree`). `LimitsInv` then
  says that while no application of a scholar overlapped another, what is taken together with the
  application in flight still fits under the cap: for leave (`LeavesFit`) always, for grants
  (`ClaimsFit`) until an amount is `raised`. It adds that until then no pending claim has an amount
  filled in above the one claimed, so that a decision only lowers what a claim counts for.
- `HoursStayHeld`, `AssistanceStaysSound`: the lock on a registration keeps the sum of its hours true
  between the check and the insert, which is what the second half of the invariant says.
- `GatesStayInOrder`, `CourseStaysInOrder` (`CourseRun`, an action property). `OrderInv` says the log
  is a run of the phases in order, and that nothing follows the award. `SanctionInv` says that while
  nothing crossed there is at most one service in flight, and that it counted exactly the rows that
  are there with its own one saved: only so does the last failure allowed bring the end that is due.

**AdministrationProofs** (RuleGovernance, AuditChain, Imports, ColumnMapping, Access, Identity)
- `VersionsStayChecked`: `decide_change` looks at a copy and never again at the state, so the same
  change may be decided twice; the versions it makes are still numbered without gaps, and the
  decider of a change is never its author.
- `ChainStaysSound`: events refer to older ones always. While nobody looked for the last event
  beside another writer, the trail is one chain: the invariant has every open transaction's idea of
  the last event be the last one committed or its own.
- `ImportsKeepTrail` (an import's steps are steps of the trail or change nothing of it: `ImportSpec`
  implements AuditChain's specification) and `ImportsHappenOnce`. `ImportInv` says which keys are
  taken: no two records alike among those committed and a writer's own; a pass that has gone through
  its file has exactly one record per row it calls valid; and a writer that has committed has its
  events in the trail, which is how the next one finds the batch done.
- `SuggestionsAlwaysStand`: whatever the assistant proposes. `MappingInv` says that every mapped
  field is marked taken, that columns whose names collide are flagged before anything is proposed,
  that the remaining fields are distinct, and that what is noted of a match's origin follows the header.
- `VisibleStaysAgreed`: the query that lists scholars and the check on a single one are written
  apart; they agree in every state, for any persons, links, roles and grants. This is a theorem about
  operators (`Authorized`, `VisibleScholars`), lifted to states by the types of the rows. TLC takes
  the first matching arm of a CASE; the proof needed arms that exclude each other, and the arms of
  `Selected` now do, as the code's early returns do.
- `AdminsStayKept`: an administrator remains while revocations do not overlap. The invariant says
  what a revocation in flight saw is still so.

**AcademicProofs** (ElectiveChoice to Transcripts, `AcademicSpec`: the requests of all the offices in
flight at the same desks)

The modules extend one another and write each other's tables: an examination makes an attempt of an
enrollment, a result passes or fails it. The lemmas about
enrollment are therefore about a `CourseStep`, which says what *any* step may do to lists, proposals,
enrollments and the desks of the course. Then every step of `AcademicNext` is shown to be one
(`StepIsCourse`), the types to be kept (`SemesterInv`), and last what each office promises.

- `ListsStaySigned`: the induction is over a list's decisions: every step below the current one has
  an approval since the last submission by somebody new, and a decision in flight would add the next,
  unless its copy is stale (`ListInv`).
- `EnrollmentsRest`: an approved proposal is changed by nobody whose copy is fresh; `RestsInv` says
  what a decision in flight will write, and that the base of an enrollment in flight has been
  approved, by whom, with the list that was needed.
- `PlacesStayHeld`: a count of holders, taken before the write. `RoomKept` (of `PlacesInv`) says that
  while an offering is not `hurried`, the room a request found is there still, because every other
  request that could take it would mark the offering when it writes. The steps are lemmas on
  cardinalities of holders.
- `SchemesSettle` (an action property): an offering somebody is about to re-weight has no marks
  still, or is `hurried`; and marks are of offerings that have a scheme (`SchemesRead`).
- `GridStaysTrue`: the grid's rule for a page and the service's for a single mark are written apart.
  They agree because a section, of an assignment or of an enrollment, is one of its own offering
  (`SectionsFit`).
- `CorrectionsStayWhole` is inductive with the types: a correction whose copy is no longer the record
  contests it, so any other extends the history at its end.
- `TicketsStaySound`: `OnePending` says that a registration in flight either finds no attempt
  undecided or has a number that is not the next one; the constraint refuses the insert of the
  latter. An enrollment with an attempt is withdrawn only by a request that crossed the registration.
- `RecordsToldTrue` needs four invariants. `PassLast`: a passed attempt is the last of its course,
  and no registration in flight would insert one after it. `IssuesOrdered`: transcripts tell records
  in the order of their numbers, also as a request in flight remembers its own. `CompletionDated`
  and `CompletionInHand`: a ratification that writes the last result missing has read all others as
  they are, unless the scholar is `crossed`. Of sums of credits only the empty one is needed.
- `OffersStayHeld` (`ScreensSpec`): `OffersRest` says what the row of a tab can have become since it was
  shown. A list that still shows the same step of the same submission waits for the same people
  (`Awaited`), a proposal that is still undecided is the one it was (`Undecided`), or a request wrote over
  them unread. What a tab sends is a request like any other, so all of `AcademicSpec`'s invariants hold.
- `ReimportCreatesNothing` (`RecordsSpec`): the invariant `ImportedRepeat` says that the record an
  imported row is compared with is the one it made: tables only grow, at their end, and the *first*
  record of a code or address is looked at. A screen that adds the same code in the other case, or a
  department of the same name, comes after it. For enrollments and assignments it is enough that rows
  are never deleted; that a revoked assignment may be imported again is the one exception.

**DeadlinesProofs** (Deadlines)
- `RunStaysComplete`. A key says which deadline it is (`Keyed`), so no two deadlines of a day share one
  and the rows synchronised from them are read back as they were (`SyncedRows`). `RunInv` says how far a
  run has come in which nothing changed: which events are there, that the rows are right from the
  synchronisation on, and that whatever is to be told has been told or is still in hand. What holds
  at the end of such a run must also survive the next one, which deletes rows with their notices
  (`SyncKeeps`), and any number that die.
- `JobIsIdempotent` (`Idempotent`, an action property; "It is idempotent", engine.py:11) and
  `OverdueStaysTold`, from the same invariant.

**Only model-checked:** `OverdueAnnounced`, which is liveness under fairness. `OverdueStaysTold` is its
safety half: TLC adds that the engine settles. Nor is it proved that due dates are numbers
(Deadlines' `TypeOK`), which no proof needs: they are compared and written, never computed with.

## Where code and text disagree

Four runs find a text of the repository refuted by the code. `PROJECT.json` quotes each.

1. **Marks race** (`coursework/academic/marks.py:32`). "Marks are locked: the result has been
   prepared, verified or ratified" is checked before the transaction opens and nothing is locked.
   A correction that passed the check commits after a preparation, and the standing result is not
   what its marks compute to.
2. **Completion** (`coursework/academic/records.py:228`). The completion date is said to mirror the
   record, and is never cleared: a revaluation from a pass to a fail leaves it, and the lifecycle
   gate reads it. No concurrency is involved.
3. **Dead end** (`coursework/academic/examination.py:194`). "Eligibility passed, so if this attempt
   needs a case, an approved one exists." Need is decided by counted failures, the table decides it
   by the attempt's number; with absences not counted they differ, and the scholar can neither
   register nor submit a case.
4. **Refused leave** (`scholars/services.py:38`). "approved + pending leaves count" towards the cap;
   the sum includes refused ones, which the table cannot tell from pending ones.

## What is not modelled

- *Roles* beyond the sets of people who hold them, except in Identity; serializers, templates and
  file formats: presentation and I/O without state of interest.
- *Documents* (`documents/`): letters rendered from rows that are modelled elsewhere.
- *Rows edited by hand in the admin*, except the end of allocations and seats, chain steps, the
  approved amount of a claim, and an assistant's feedback. Of a claim, its date and the amount
  claimed can be edited there as well. A save in the admin is one step in the models; in the program
  it writes a whole row a moment after it read it.
- *Month arithmetic* (`phd_rules/dates.py`): adding months clamps to the end of a month. In
  Deadlines a period is a number of days; how long a month is would need a calendar, and no modelled
  guard depends on it.
- *Grades, weights and the rounding of marks*: constants that a guard or a total depends on. The cells of a file
  are what a row says, already read.
- *Orientation seminars, activity components, academic years*: recorded once, or constant.
- *Renumbering of approval steps*, designations and their overrides, years of service.
- *Migrations and seeds*: generated or run once.

## Plan

1. Examiners selected twice from one panel (a hazard without a property so far).
