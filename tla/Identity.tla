------------------------------- MODULE Identity -------------------------------
(***************************************************************************)
(* Persons, their logins and profiles, and grants of capabilities, with    *)
(* several requests in flight.                                             *)
(*                                                                         *)
(* Sources: identity/{services,provisioning,models}.py and the commands    *)
(* bootstrap_system_admin and provision_identity.                          *)
(*                                                                         *)
(* Every service authorizes and validates first and opens its transaction  *)
(* afterwards: Begin is the first part, Commit the second, which sees of   *)
(* what happened in between only what the constraints of the database and  *)
(* the few repeated checks see.  A refusal leaves no trace but its audit   *)
(* event (AuditChain), so a refused request does not begin.  provision_    *)
(* for_record is one step: constraints repeat each of its checks.          *)
(***************************************************************************)
EXTENDS Access

CONSTANTS
    Workers,
    Grantable,  \* the pairs of capability and scope type that requests ask for
    Mail,       \* profiles with an e-mail, and whose
    MaxGrants   \* bound: grants not revoked

ASSUME IdentityAssumption ==
    /\ \A m \in Mail : m[2] \in Persons
    /\ MaxGrants \in Nat

VARIABLES
    password,   \* how often the password of each login was set, -1 before the login exists
    invited,    \* logins an activation token was issued for
    request,    \* what each worker is doing
    overlapped  \* history: a request was in flight when another began or days passed

people == <<status, link, password>>
vars == <<status, link, grants, today, password, invited, request, overlapped>>

Idle == [op |-> "idle"]

Busy == {w \in Workers : request[w] # Idle}

Begin(w, r) ==
    /\ request[w] = Idle
    /\ request' = [request EXCEPT ![w] = r]
    /\ overlapped' = (overlapped \/ Busy # {})
    /\ UNCHANGED <<people, grants, today, invited>>

-----------------------------------------------------------------------------
(* Administrators *)

AdminGrants == {g \in grants : g.capability = "SYSTEM_ADMIN"}

ActiveAdmins == {p \in Persons : status[p] = "ACTIVE" /\ \E g \in AdminGrants : g.person = p /\ InForce(g)}

\* _protect_system_admin
MayModify(actor, p) == Holds(p, "SYSTEM_ADMIN") => Holds(actor, "SYSTEM_ADMIN")

\* Revoking from, or deactivating, anyone but the last administrator
AdminWithout(p) == ActiveAdmins \ {p} # {}

-----------------------------------------------------------------------------
(* Grants *)

\* uniq_active_grant_*
Fresh(g) == \A h \in grants : <<h.person, h.capability, h.scope>> # <<g.person, g.capability, g.scope>>

\* CapabilityAssignment.clean and its constraints
Valid(g) ==
    /\ g.capability \notin Derived
    /\ g.scope.type \in AllowedScopes(g.capability)
    /\ g.capability = "SUPERVISOR" => link[g.person].faculty # None
    /\ g.from <= g.to
    /\ Fresh(g)

GrantCapability(w, actor, g) ==
    /\ actor # g.person
    /\ status[g.person] # "NONE"
    /\ GrantingAuthority(actor, g.capability, g.scope)
    /\ Valid(g)
    /\ Cardinality(grants) < MaxGrants
    /\ Begin(w, [op |-> "grant", actor |-> actor, grant |-> g])

RevokeCapabilityOfLast(w, actor, g) ==
    /\ GrantingAuthority(actor, g.capability, g.scope)
    /\ Begin(w, [op |-> "revoke", actor |-> actor, grant |-> g])

RevokeCapability(w, actor, g) ==
    /\ GrantingAuthority(actor, g.capability, g.scope)
    /\ g.capability = "SYSTEM_ADMIN" => AdminWithout(g.person)
    /\ Begin(w, [op |-> "revoke", actor |-> actor, grant |-> g])

BootstrapSystemAdmin(w, p) ==
    LET g == [person |-> p, capability |-> "SYSTEM_ADMIN", scope |-> Scope("INSTITUTION", None),
              from |-> today, to |-> LastDay]
    IN  /\ ActiveAdmins = {}
        /\ Fresh(g)
        /\ Cardinality(grants) < MaxGrants
        /\ Begin(w, [op |-> "bootstrap", actor |-> None, grant |-> g])

\* Revoking locks the grant and finds it revoked by then; granting meets the constraints.
CommitGrant(w) ==
    LET r == request[w]
    IN  /\ CASE r.op = "grant" -> Fresh(r.grant) /\ grants' = grants \cup {r.grant}
             [] r.op = "bootstrap" -> Fresh(r.grant) /\ grants' = grants \cup {r.grant}
             [] r.op = "revoke" -> r.grant \in grants /\ grants' = grants \ {r.grant}
             [] OTHER -> FALSE
        /\ status' = IF r.op = "bootstrap" /\ status[r.grant.person] = "NONE"
                     THEN [status EXCEPT ![r.grant.person] = "ACTIVE"] ELSE status
        /\ UNCHANGED <<link, password, invited>>

-----------------------------------------------------------------------------
(* Persons, profiles, logins *)

Unlinked == [user |-> None, faculty |-> None, scholar |-> None]

LinkedTo(kind, x) == {p \in Persons : link[p][kind] = x}

\* _check_profile_email: a profile with an e-mail belongs to the person with that e-mail.
MailMatches(p, x) == \A m \in Mail : m[1] = x => m[2] = p

ProvisionPerson(actor, p) ==
    /\ MayManagePersons(actor)
    /\ status[p] = "NONE"
    /\ status' = [status EXCEPT ![p] = "ACTIVE"]
    /\ UNCHANGED <<link, grants, today, password, invited, request, overlapped>>

\* link_user, link_faculty_profile, link_scholar_profile
Link(w, actor, p, kind, x) ==
    /\ MayManagePersons(actor) /\ MayModify(actor, p)
    /\ link[p][kind] \in {None, x}
    /\ kind # "user" => MailMatches(p, x)
    /\ kind = "user" => password[x] >= 0
    /\ LinkedTo(kind, x) \subseteq {p}
    /\ Begin(w, [op |-> "link", actor |-> actor, person |-> p, kind |-> kind, to |-> x])

DeactivatePerson(w, actor, p) ==
    /\ MayManagePersons(actor) /\ MayModify(actor, p)
    /\ actor # p
    /\ Holds(p, "SYSTEM_ADMIN") => AdminWithout(p)
    /\ Begin(w, [op |-> "deactivate", actor |-> actor, person |-> p])

\* provision_for_record: the record's e-mail names the person, who is new; a login awaits activation.
ProvisionForRecord(actor, p, kind, x, user) ==
    /\ MayManagePersons(actor)
    /\ <<x, p>> \in Mail
    /\ LinkedTo(kind, x) = {}
    /\ status[p] = "NONE"
    /\ user # None => password[user] = -1
    /\ status' = [status EXCEPT ![p] = "ACTIVE"]
    /\ link' = [link EXCEPT ![p] = [@ EXCEPT ![kind] = x, !.user = user]]
    /\ password' = IF user = None THEN password ELSE [password EXCEPT ![user] = 0]
    /\ UNCHANGED <<grants, today, invited, request, overlapped>>

\* The command provision_identity: all is checked, a password is asked for, then the services write
\* a login, a person and one grant in one transaction.  They check the authority again.
ProvisionIdentity(w, actor, p, capability, user) ==
    LET g == [person |-> p, capability |-> capability, scope |-> Scope("INSTITUTION", None),
              from |-> today, to |-> LastDay]
    IN  /\ Holds(actor, "SYSTEM_ADMIN")
        /\ capability \in Operators \ {"SYSTEM_ADMIN"}
        /\ status[p] = "NONE" /\ password[user] = -1
        /\ Cardinality(grants) < MaxGrants
        /\ Begin(w, [op |-> "provision", actor |-> actor, person |-> p, user |-> user, grant |-> g])

CommitPerson(w) ==
    LET r == request[w]
    IN  CASE r.op = "link" ->
                /\ LinkedTo(r.kind, r.to) \subseteq {r.person}
                /\ link' = [link EXCEPT ![r.person][r.kind] = r.to]
                /\ UNCHANGED <<status, grants, password, invited>>
          [] r.op = "deactivate" ->
                /\ status' = [status EXCEPT ![r.person] = "INACTIVE"]
                /\ UNCHANGED <<link, grants, password, invited>>
          [] r.op = "provision" ->
                /\ \E g \in AdminGrants : g.person = r.actor /\ InForce(g)
                /\ status[r.person] = "NONE" /\ password[r.user] = -1
                /\ status' = [status EXCEPT ![r.person] = "ACTIVE"]
                /\ link' = [link EXCEPT ![r.person].user = r.user]
                /\ password' = [password EXCEPT ![r.user] = 1]
                /\ grants' = grants \cup {r.grant}
                /\ UNCHANGED invited
          [] OTHER -> FALSE

-----------------------------------------------------------------------------
(* Activation *)

IssueActivation(actor, p) ==
    LET user == link[p].user
    IN  /\ MayManagePersons(actor) /\ MayModify(actor, p)
        /\ actor # p
        /\ status[p] = "ACTIVE"
        /\ user # None /\ password[user] = 0
        /\ invited' = invited \cup {user}
        /\ UNCHANGED <<people, grants, today, request, overlapped>>

\* A token is good until the password is set: it is made from the password's hash.
Activate(w, p) ==
    /\ status[p] = "ACTIVE"
    /\ link[p].user \in invited /\ password[link[p].user] = 0
    /\ Begin(w, [op |-> "activate", actor |-> None, person |-> p, user |-> link[p].user])

CommitActivation(w) ==
    /\ request[w].op = "activate"
    /\ password' = [password EXCEPT ![request[w].user] = @ + 1]
    /\ UNCHANGED <<status, link, grants, invited>>

-----------------------------------------------------------------------------

Commit(w) ==
    /\ request' = [request EXCEPT ![w] = Idle]
    /\ CommitGrant(w) \/ CommitPerson(w) \/ CommitActivation(w)
    /\ UNCHANGED <<today, overlapped>>

\* A refusal by a constraint or a repeated check, or the end of the process
Drop(w) ==
    /\ request[w] # Idle
    /\ request' = [request EXCEPT ![w] = Idle]
    /\ UNCHANGED <<people, grants, today, invited, overlapped>>

DayPasses ==
    /\ today < LastDay
    /\ today' = today + 1
    /\ overlapped' = (overlapped \/ Busy # {})
    /\ UNCHANGED <<people, grants, invited, request>>

Init ==
    /\ status = [p \in Persons |-> "NONE"]
    /\ link = [p \in Persons |-> Unlinked]
    /\ grants = {}
    /\ today = 0
    /\ password \in [Users -> {-1, 1}]
    /\ invited = {}
    /\ request = [w \in Workers |-> Idle]
    /\ overlapped = FALSE

Profiles(kind) ==
    CASE kind = "user" -> Users [] kind = "faculty" -> Faculties [] kind = "scholar" -> Scholars

Grant(w, actor) ==
    \/ \E x \in Grantable : \E scope \in {y \in Scopes : y.type = x[2]} :
          /\ GrantingAuthority(actor, x[1], scope)
          /\ \E p \in Persons, from, to \in today..LastDay :
                GrantCapability(w, actor, [person |-> p, capability |-> x[1], scope |-> scope,
                                           from |-> from, to |-> to])
    \/ \E g \in grants : RevokeCapability(w, actor, g)

Manage(w, actor) ==
    \/ \E p \in Persons : DeactivatePerson(w, actor, p)
    \/ \E p \in {q \in Persons : status[q] # "NONE"}, kind \in DOMAIN Unlinked : \E x \in Profiles(kind) :
          Link(w, actor, p, kind, x)
    \/ \E p \in Persons, x \in Grantable, user \in Users : ProvisionIdentity(w, actor, p, x[1], user)

ManageAtOnce(actor) ==
    \/ \E p \in Persons : ProvisionPerson(actor, p) \/ IssueActivation(actor, p)
    \/ \E p \in Persons, kind \in {"faculty", "scholar"}, user \in Users \cup {None} : \E x \in Profiles(kind) :
          ProvisionForRecord(actor, p, kind, x, user)

\* Whoever holds nothing is refused everywhere.
Staff == {p \in Persons : EffectiveCapabilities(p) # {}}

Next ==
    \/ \E w \in Workers \ Busy : \/ \E p \in Persons : BootstrapSystemAdmin(w, p) \/ Activate(w, p)
                                 \/ \E actor \in Staff : Grant(w, actor) \/ Manage(w, actor)
    \/ \E w \in Busy : Commit(w) \/ Drop(w)
    \/ \E actor \in Staff : ManageAtOnce(actor)
    \/ DayPasses

Spec == Init /\ [][Next]_vars

-----------------------------------------------------------------------------
(* What identity promises *)

Assignment ==
    {g \in [person : Persons, capability : Assignable, scope : Scopes, from : 0..LastDay, to : 0..LastDay] :
        g.scope.type \in AllowedScopes(g.capability)}

Request ==
    [op : {"grant", "revoke", "bootstrap"}, actor : Persons \cup {None}, grant : Assignment]
    \cup {r \in [op : {"link"}, actor : Persons, person : Persons, kind : DOMAIN Unlinked,
                 to : Users \cup Faculties \cup Scholars] : r.to \in Profiles(r.kind)}
    \cup [op : {"deactivate"}, actor : Persons, person : Persons]
    \cup [op : {"provision"}, actor : Persons, person : Persons, user : Users, grant : Assignment]
    \cup [op : {"activate"}, actor : {None}, person : Persons, user : Users]

TypeOK ==
    /\ status \in [Persons -> {"NONE", "ACTIVE", "INACTIVE"}]
    /\ link \in [Persons -> [user : Users \cup {None}, faculty : Faculties \cup {None}, scholar : Scholars \cup {None}]]
    /\ grants \subseteq Assignment
    /\ today \in 0..LastDay
    /\ password \in [Users -> {-1} \cup Nat]
    /\ invited \subseteq Users
    /\ request \in [Workers -> {Idle} \cup Request]
    /\ overlapped \in BOOLEAN

\* visible_scholars "must agree with authorize(person, 'scholar.view', s)": the query over all
\* scholars and the decision about one of them come to the same, whatever a person is and holds.
VisibleAgrees == \A p \in Persons : VisibleScholars(p) = {s \in Scholars : Authorized(p, s)}

OpenEnded == AdminGrants # {} /\ \A g \in AdminGrants : g.to = LastDay

\* "The last SYSTEM_ADMIN can't be revoked or deactivated": unless grants run out, there is one.
LastAdminKept == OpenEnded => ActiveAdmins # {}

\* While nothing overlaps that is so through any sequence of grants, revocations, deactivations; and who
\* is a SYSTEM_ADMIN is decided by a SYSTEM_ADMIN, but for the first: a step other than the passing of a
\* day changes the administrators only on behalf of one of them.
AdminsKept ==
    [][~overlapped' =>
          /\ LastAdminKept'
          /\ today' = today /\ ActiveAdmins' # ActiveAdmins =>
                \/ ActiveAdmins = {}
                \/ \E w \in Workers : request'[w] # request[w] /\ request[w].actor \in ActiveAdmins]_vars

=============================================================================
