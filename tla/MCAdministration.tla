-------------------------- MODULE MCAdministration --------------------------
(***************************************************************************)
(* Eight scenes.  The offices that manage persons change hands; persons    *)
(* are linked, deactivated and activated; an administrator gives a person  *)
(* what lets somebody see scholars; three writers extend the audit trail;  *)
(* a maker and two checkers change a rule parameter; one file is previewed *)
(* and committed while a screen creates a record; a batch that has been    *)
(* previewed is committed by two requests at once; the columns of a sheet  *)
(* are matched to fields.                                                  *)
(***************************************************************************)
EXTENDS Identity, RuleGovernance, Imports, ColumnMapping, TLC

CONSTANTS w1, w2, a1, a2, a3, ann, bob, cyd, u1, f1, s1, s2, d1, d2, sc1, sc2, k1, k2

VARIABLE scene

MCPersons == {ann, bob, cyd}
MCSchoolOf == d1 :> sc1 @@ d2 :> sc2
MCDepartmentOf == s1 :> d1 @@ s2 :> d2
MCHomeOf == f1 :> d1
MCCommittees == {[type |-> "SDRC", school |-> sc2, members |-> {f1}, from |-> 0, to |-> 0],
                 [type |-> "DC", school |-> None, members |-> {f1}, from |-> 1, to |-> 1]}
MCSupervises == {<<f1, s2>>}
MCSeated == {<<f1, s2>>}
MCMail == {<<f1, cyd>>, <<s1, cyd>>, <<s2, cyd>>}

MCGrantable == {<<c, "INSTITUTION">> : c \in {"SYSTEM_ADMIN", "ACADEMIC_ADMIN", "COE_OPERATOR", "SUPERVISOR"}}
               \cup {<<"SUPERVISOR", "DEPARTMENT">>, <<"DEPARTMENT_ADMIN", "DEPARTMENT">>,
                     <<"SCHOOL_ADMIN", "SCHOOL">>, <<"EXAM_EVALUATOR", "SCHOLAR">>}

MCKeys == {"exam.absent_counts_as_attempt"}

ImportRow(key, values) == [key |-> key, values |-> values, cells |-> "VALID"]

TwoCourses == [type |-> "courses", rows |-> <<ImportRow(k1, "a"), ImportRow(k2, "a")>>]
SameEmail == [type |-> "faculty", rows |-> <<ImportRow(k1, "a"), ImportRow(k1, "b")>>]
Repeated == [type |-> "courses", rows |-> <<[ImportRow(k1, "a") EXCEPT !.cells = "MISSING"],
                                            ImportRow(k1, "a"), ImportRow(k1, "a")>>]
MCFiles == {SameEmail, Repeated}
MCSingles == {[type |-> t, rows |-> <<ImportRow(k1, "a")>>] : t \in {"courses", "faculty"}}

Previewed(file, report) == [status |-> "PREVIEWED", file |-> file, report |-> report]

\* Sheets of schools and departments: a title, a header, a row of data.
Text(named, near, leader) == [named |-> named, near |-> near, leader |-> leader]
Other == Text({}, {}, NoField)
Titled(first, second, third) == <<<<Other, Blank, Blank>>, <<first, second, third>>, <<Other, Other, Other>>>>

SchoolCode == Text({"school_code"} \X {"EXACT", "ALIAS"}, {}, NoField)
DeptCode == Text({<<"department_code", "ALIAS">>}, {}, NoField)
Dept == Text({<<"department_name", "ALIAS">>}, {}, NoField)
DepartmentName == Text({"department_name"} \X {"EXACT", "ALIAS"}, {}, NoField)
DepartmntCode == Text({}, {"department_code"}, "department_code")
DepartmentCodeName == Text({}, {"department_code", "department_name"}, NoField)

MCSheets == {Titled(SchoolCode, DeptCode, Dept), Titled(SchoolCode, DepartmntCode, DepartmentCodeName),
             Titled(SchoolCode, Dept, DepartmentName), Titled(Other, DepartmntCode, Dept)}

Untouched == header = 1 /\ stage = "uploaded" /\ columns = <<>> /\ taken = {} /\ mapping = <<>> /\ sources = <<>>

MCInit ==
    /\ scene \in {"offices", "links", "views", "trail", "rules", "previews", "commits", "columns"}
    /\ Init /\ RuleInit
    /\ IF scene = "columns" THEN MappingInit ELSE sheet = Titled(SchoolCode, DeptCode, Dept) /\ Untouched
    /\ txn = [w \in Writers |-> NoTxn] /\ contended = FALSE
    /\ records = {} /\ job = [w \in Writers |-> NoJob] /\ abreast = FALSE
    /\ scene # "links" => \A u \in Users : password[u] = -1
    /\ IF scene = "commits"
       THEN /\ events = {[id |-> 1, prev |-> 0]} /\ nextId = 2
            /\ batches \in [Batches -> {Previewed(TwoCourses, <<"VALID", "VALID">>),
                                          Previewed(SameEmail, <<"VALID", "CONFLICT">>)}]
       ELSE /\ events = {} /\ nextId = 1
            /\ batches = [b \in Batches |-> NotPreviewed]

InOffices(g) ==
    \/ g.capability = "SYSTEM_ADMIN"
    \/ g.capability = "ACADEMIC_ADMIN" /\ g.person = cyd /\ g.to = LastDay

InViews(g) == g.person # bob /\ g.to = LastDay /\ (g.capability = "SYSTEM_ADMIN" <=> g.person = ann)

Kept ==
    CASE scene = "offices" -> /\ link' = link
                              /\ \A g \in grants' : InOffices(g)
      [] scene = "links" -> /\ \A g \in grants' : g.person = ann /\ g.to = LastDay
                            /\ today' = 0
      [] scene = "views" -> /\ \A g \in grants' : InViews(g)
                            /\ Cardinality(grants') <= 2
                            /\ \A p \in Persons : link'[p].user = None
                            /\ "INACTIVE" \notin {status'[p] : p \in {ann, bob}}

\* Bounds of the import scenes: two writers, one of them at a screen at most, and until the batch is
\* committed one event beside those of records; one event is lost at most.
Unused == {w \in Writers : job'[w].op = "none"}

InImports ==
    /\ Cardinality({w \in Writers : txn'[w].at # "idle" \/ job'[w].op # "none"}) <= 2
    /\ Cardinality({w \in Writers : job'[w].op = "single"}) <= 1
    /\ nextId' - 1 <= 1 + Cardinality(events' \cup UNION {txn'[w].own : w \in Writers})
    /\ IF \E b \in Batches : batches'[b].status = "COMMITTED"
       THEN \A w \in Unused : txn'[w].at # "select" \/ txn[w].at = "select"
       ELSE /\ Cardinality(events') - Cardinality(records') + Cardinality({w \in Unused : txn'[w].at # "idle"}) <= 1
            /\ \A w \in Unused : txn'[w].at = "select" => txn'[w].own = {}
    /\ scene = "commits" => \A w \in Writers : job'[w].op # "preview"

MCNext ==
    /\ CASE scene = "trail" -> TrailNext /\ nextId' <= 5 /\ UNCHANGED <<vars, ruleVars, importVars>>
         [] scene = "rules" -> RuleNext /\ UNCHANGED <<vars, trailVars, importVars>>
         [] scene \in {"previews", "commits"} -> ImportNext /\ InImports /\ UNCHANGED <<vars, ruleVars>>
         [] scene = "columns" -> MappingNext /\ UNCHANGED <<vars, ruleVars, trailVars, importVars>>
         [] OTHER -> Next /\ Kept /\ UNCHANGED <<trailVars, ruleVars, importVars>>
    /\ scene # "columns" => UNCHANGED mappingVars
    /\ UNCHANGED scene

SymmetricWriters == Permutations(Writers)

MCSpec == MCInit /\ [][MCNext]_<<vars, trailVars, ruleVars, importVars, mappingVars, scene>>
=============================================================================
