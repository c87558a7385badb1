-------------------------------- MODULE Access --------------------------------
(***************************************************************************)
(* Who may do what: the capabilities a person holds, by grant or derived   *)
(* from profiles and committees, the scopes they cover, and the scholars a *)
(* person may see, as the policy decides one by one and as the query       *)
(* selects them all.                                                       *)
(*                                                                         *)
(* Sources: identity/{authz,capabilities,models}.py, core/models.py.       *)
(***************************************************************************)
EXTENDS Integers, FiniteSets

CONSTANTS
    Persons,
    Users, Faculties, Scholars, \* logins and profiles a person can be linked to
    Departments, Schools,
    SchoolOf,      \* the school of each department
    DepartmentOf,  \* the department of each scholar
    HomeOf,        \* the department of each faculty, None for external faculty
    Committees,    \* [type, school (None: institution-level), members, from, to]
    Supervises,    \* approved, open allocations: pairs of faculty and scholar
    Seated,        \* approved, open TAC seats: pairs of faculty and scholar
    LastDay,       \* bound: days pass until LastDay
    None

ASSUME AccessAssumption ==
    /\ SchoolOf \in [Departments -> Schools]
    /\ DepartmentOf \in [Scholars -> Departments]
    /\ HomeOf \in [Faculties -> Departments \cup {None}]
    /\ Supervises \cup Seated \subseteq Faculties \X Scholars
    /\ None \notin Schools
    /\ LastDay \in Nat

VARIABLES
    status,  \* of each person: "NONE" before it is created, then "ACTIVE" or "INACTIVE"
    link,    \* the login and the profiles of each person
    grants,  \* CapabilityAssignment rows that are not revoked
    today

-----------------------------------------------------------------------------
(* Capabilities and scopes *)

Derived == {"SCHOLAR", "FACULTY", "DC_MEMBER", "SDRC_MEMBER"}

Operators == {"PHD_CELL_OPERATOR", "RND_CELL_OPERATOR", "CISR_OPERATOR", "ACADEMIC_ADMIN", "DEAN_RND",
              "COE_OPERATOR", "VC_OPERATOR", "SYSTEM_ADMIN"}

Assignable == Operators \cup {"SUPERVISOR", "DEPARTMENT_ADMIN", "SCHOOL_ADMIN", "EXAM_EVALUATOR"}

AllowedScopes(c) ==
    CASE c = "SUPERVISOR" -> {"DEPARTMENT", "SCHOOL", "INSTITUTION"}
      [] c = "DEPARTMENT_ADMIN" -> {"DEPARTMENT"}
      [] c = "SCHOOL_ADMIN" -> {"SCHOOL"}
      [] c = "EXAM_EVALUATOR" -> {"SCHOLAR"}
      [] c \in Operators -> {"INSTITUTION"}
      [] OTHER -> {}

GrantableBy(c) ==
    CASE c \in {"SUPERVISOR", "DEPARTMENT_ADMIN", "SCHOOL_ADMIN"} -> {"ACADEMIC_ADMIN", "SYSTEM_ADMIN"}
      [] c = "EXAM_EVALUATOR" -> {"PHD_CELL_OPERATOR", "SYSTEM_ADMIN"}
      [] c \in Operators -> {"SYSTEM_ADMIN"}
      [] OTHER -> {}

Scope(type, of) == [type |-> type, of |-> of]

Scopes == {Scope("INSTITUTION", None)} \cup {Scope("SCHOOL", s) : s \in Schools}
          \cup {Scope("DEPARTMENT", d) : d \in Departments} \cup {Scope("SCHOLAR", s) : s \in Scholars}

\* resource_scope: what each kind of resource lies in
ScopeOfScholar(s) == [school |-> SchoolOf[DepartmentOf[s]], department |-> DepartmentOf[s], scholar |-> s]

TargetScope(scope) ==
    CASE scope.type = "INSTITUTION" -> [school |-> None, department |-> None, scholar |-> None]
      [] scope.type = "SCHOOL" -> [school |-> scope.of, department |-> None, scholar |-> None]
      [] scope.type = "DEPARTMENT" -> [school |-> SchoolOf[scope.of], department |-> scope.of, scholar |-> None]
      [] scope.type = "SCHOLAR" -> ScopeOfScholar(scope.of)

InstitutionOnly(target) == target.school = None

Covers(scope, target) ==
    \/ scope.type = "INSTITUTION"
    \/ /\ ~InstitutionOnly(target)
       /\ \/ scope.type = "SCHOOL" /\ scope.of = target.school
          \/ scope.type = "DEPARTMENT" /\ scope.of = target.department
          \/ scope.type = "COMMITTEE" /\ scope.of \in {None, target.school}
          \/ scope.type = "SCHOLAR" /\ scope.of = target.scholar

-----------------------------------------------------------------------------
(* Effective capabilities *)

Held(capability, scope) == [capability |-> capability, scope |-> scope]

FromScholarProfile(p) == {Held("SCHOLAR", Scope("SCHOLAR", s)) : s \in {link[p].scholar} \ {None}}

FromFacultyProfile(p) ==
    {Held("FACULTY", Scope("DEPARTMENT", HomeOf[f])) : f \in {g \in Faculties : link[p].faculty = g /\ HomeOf[g] # None}}

FromCommittees(p) ==
    {Held(IF c.type = "DC" THEN "DC_MEMBER" ELSE "SDRC_MEMBER", Scope("COMMITTEE", c.school)) :
        c \in {d \in Committees : /\ link[p].faculty \in d.members /\ d.type \in {"DC", "SDRC"}
                                  /\ today \in d.from..d.to}}

InForce(g) == today \in g.from..g.to

EffectiveCapabilities(p) ==
    IF status[p] # "ACTIVE" THEN {}
    ELSE FromScholarProfile(p) \cup FromFacultyProfile(p) \cup FromCommittees(p)
         \cup {Held(g.capability, g.scope) : g \in {h \in grants : h.person = p /\ InForce(h)}}

Holds(p, capability) == \E c \in EffectiveCapabilities(p) : c.capability = capability

GrantingAuthority(p, capability, scope) ==
    \E c \in EffectiveCapabilities(p) :
        c.capability \in GrantableBy(capability) /\ Covers(c.scope, TargetScope(scope))

\* identity.person.manage
MayManagePersons(p) == Holds(p, "SYSTEM_ADMIN") \/ Holds(p, "ACADEMIC_ADMIN")

-----------------------------------------------------------------------------
(* scholar.view, as a decision and as a query *)

Related(p, relationship, s) ==
    CASE relationship = "self" -> link[p].scholar = s
      [] relationship = "supervises" -> <<link[p].faculty, s>> \in Supervises
      [] relationship = "tac_member" -> <<link[p].faculty, s>> \in Seated

Relationship(capability) ==
    CASE capability = "SCHOLAR" -> "self"
      [] capability = "SUPERVISOR" -> "supervises"
      [] capability = "FACULTY" -> "tac_member"
      [] OTHER -> "none"

MayView == {"SCHOLAR", "SUPERVISOR", "FACULTY", "EXAM_EVALUATOR", "DEPARTMENT_ADMIN", "SCHOOL_ADMIN", "DC_MEMBER",
            "SDRC_MEMBER", "PHD_CELL_OPERATOR", "ACADEMIC_ADMIN", "DEAN_RND", "COE_OPERATOR", "VC_OPERATOR"}

Authorized(p, s) ==
    \E c \in EffectiveCapabilities(p) :
        /\ c.capability \in MayView
        /\ IF Relationship(c.capability) # "none" THEN Related(p, Relationship(c.capability), s)
                                                  ELSE Covers(c.scope, ScopeOfScholar(s))

SelectedByDepartment(scope) ==
    {s \in Scholars :
        CASE scope.type = "INSTITUTION" -> TRUE
          [] scope.type \in {"SCHOOL", "COMMITTEE"} -> SchoolOf[DepartmentOf[s]] = scope.of
          [] scope.type = "DEPARTMENT" -> DepartmentOf[s] = scope.of
          [] scope.type = "SCHOLAR" -> s = scope.of}

\* The scholars one capability adds to the query
Selected(scope) ==
    {s \in Scholars :
        CASE scope.type = "INSTITUTION" -> TRUE
          [] scope.type = "SCHOOL" -> SchoolOf[DepartmentOf[s]] = scope.of
          [] scope.type = "COMMITTEE" -> scope.of \in {None, SchoolOf[DepartmentOf[s]]}
          [] scope.type = "DEPARTMENT" -> DepartmentOf[s] = scope.of
          [] scope.type = "SCHOLAR" -> s = scope.of}

VisibleScholars(p) ==
    UNION {LET kind == Relationship(c.capability)
           IN  CASE kind = "self" -> {link[p].scholar}
                 [] kind = "supervises" -> {s \in Scholars : <<link[p].faculty, s>> \in Supervises}
                 [] kind = "tac_member" -> {s \in Scholars : <<link[p].faculty, s>> \in Seated}
                 [] OTHER -> Selected(c.scope) :
           c \in {d \in EffectiveCapabilities(p) : d.capability \in MayView}}

=============================================================================
