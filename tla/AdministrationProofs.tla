--------------------------- MODULE AdministrationProofs ---------------------------
(***************************************************************************)
(* Theorems about RuleGovernance, for any officers, parameters and number  *)
(* of changes; about AuditChain, for any number of writers and events;     *)
(* about Imports, for any files, batches and writers; about ColumnMapping, *)
(* for any columns, fields and sheets; and about Identity: the query over  *)
(* the scholars a person may see agrees with the decision about each, and  *)
(* while requests do not overlap only administrators change who is one.    *)
(***************************************************************************)
EXTENDS Identity, RuleGovernance, Imports, ColumnMapping, FiniteSetTheorems, TLAPS

-----------------------------------------------------------------------------
(* Rule parameters: the types *)

\* A decision writes a change that says who decided it, and a version that is the next of its parameter.
LEMMA DecisionWrites ==
    ASSUME RuleTypeOK, NEW r \in Clerks, Decide(r)
    PROVE  LET c == decision[r].change
               by == decision[r].by
           IN  /\ c \in DOMAIN changes /\ by \in Checkers
               /\ changes' \in Seq(Change)
               /\ Len(changes') = Len(changes)
               /\ \A d \in DOMAIN changes : d # c => changes'[d] = changes[d]
               /\ changes'[c].state # "PENDING"
               /\ changes'[c].decidedBy = by
               /\ changes'[c].by = changes[c].by
               /\ NewVersion(c, by) \in Parameter
               /\ parameters' # parameters => /\ parameters' = parameters \cup {NewVersion(c, by)}
                                              /\ \A p \in parameters : p.change # c
               /\ decision' = [decision EXCEPT ![r] = Waiting]
  <1> DEFINE c == decision[r].change
             by == decision[r].by
             written == [changes[c] EXCEPT !.state = IF decision[r].approve THEN "APPROVED" ELSE "REJECTED",
                                           !.decidedBy = by]
  <1>1. /\ decision[r] \in Checked
        /\ c \in DOMAIN changes
        /\ by \in Checkers
        /\ changes[c] \in Change
    BY DEF Decide, RuleTypeOK, Checked
  <1>2. written \in Change /\ written.by = changes[c].by /\ written.decidedBy = by /\ written.state # "PENDING"
    BY <1>1 DEF Change
  <1>3. changes' = [changes EXCEPT ![c] = written]
    BY <1>1 DEF Decide, Change
  <1>4. changes \in [1..Len(changes) -> Change] /\ Len(changes) \in Nat
    BY DEF RuleTypeOK
  <1>5. changes' \in [1..Len(changes) -> Change]
    BY <1>1, <1>2, <1>3, <1>4
  <1>6. changes' \in Seq(Change) /\ Len(changes') = Len(changes)
    BY <1>4, <1>5
  <1>7. NewVersion(c, by) \in Parameter
    <2>1. IsFiniteSet(Versions(changes[c].key))
      BY <1>1 DEF RuleTypeOK, Change
    <2>2. Cardinality(Versions(changes[c].key)) \in Nat
      BY <2>1, FS_CardinalityType
    <2> HIDE DEF c, by
    <2> QED
      BY <1>1, <1>4, <2>2 DEF NewVersion, Parameter, Change
  <1>8. parameters' # parameters => /\ parameters' = parameters \cup {NewVersion(c, by)}
                                    /\ \A p \in parameters : p.change # c
    BY DEF Decide
  <1>9. decision' = [decision EXCEPT ![r] = Waiting]
    BY DEF Decide
  <1>10. \A d \in DOMAIN changes : d # c => changes'[d] = changes[d]
    BY <1>3, <1>4
  <1>11. changes'[c] = written
    BY <1>1, <1>3, <1>4
  <1> QED
    BY <1>1, <1>2, <1>6, <1>7, <1>8, <1>9, <1>10, <1>11

\* A proposal adds a change at the end and leaves the others.
LEMMA ProposalAppends ==
    ASSUME RuleTypeOK, NEW by \in Makers, NEW key \in Keys, NEW kind \in RuleStatus, NEW from \in 0..LastRuleDay,
           ProposeChange(by, key, kind, from)
    PROVE  /\ changes' \in Seq(Change)
           /\ Len(changes') = Len(changes) + 1
           /\ \A c \in DOMAIN changes : changes'[c] = changes[c]
           /\ changes'[Len(changes')].state = "PENDING"
           /\ changes'[Len(changes')].decidedBy = NoOne
           /\ UNCHANGED <<parameters, decision>>
  <1> DEFINE new == [key |-> key, status |-> kind, from |-> from, state |-> "PENDING",
                     by |-> by, decidedBy |-> NoOne]
  <1>1. new \in Change
    BY DEF Change
  <1>2. /\ changes' = Append(changes, new)
        /\ UNCHANGED <<parameters, decision>>
    BY DEF ProposeChange
  <1> QED
    BY <1>1, <1>2 DEF RuleTypeOK

\* The versions of a parameter after a step that adds p are those before, with p when p is one of its own.
LEMMA VersionsAdded ==
    ASSUME NEW p, parameters' = parameters \cup {p}, NEW key
    PROVE  Versions(key)' = IF p.key = key THEN Versions(key) \cup {p} ELSE Versions(key)
  BY DEF Versions

\* The rows, the changes and what each request has checked stay of their types, and a change has a
\* decider exactly when it is no longer pending.
THEOREM RuleTypeCorrect == RuleSpec => []RuleTypeOK
  <1>1. RuleInit => RuleTypeOK
    <2> SUFFICES ASSUME RuleInit
                 PROVE  RuleTypeOK
      OBVIOUS
    <2>1. parameters \in SUBSET Parameter
      BY RuleAssumption DEF RuleInit, Seed, Parameter, RuleStatus
    <2>2. ASSUME NEW key \in Keys
          PROVE  IsFiniteSet(Versions(key))
      <3>1. Versions(key) = {Seed(key)}
        BY DEF RuleInit, Versions, Seed
      <3> QED
        BY <3>1, FS_Singleton
    <2>3. \A p \in parameters : p.change = 0
      BY DEF RuleInit, Seed
    <2> QED
      BY <2>1, <2>2, <2>3 DEF RuleInit, RuleTypeOK
  <1>2. RuleTypeOK /\ [RuleNext]_ruleVars => RuleTypeOK'
    <2> SUFFICES ASSUME RuleTypeOK, [RuleNext]_ruleVars
                 PROVE  RuleTypeOK'
      OBVIOUS
    <2>1. ASSUME NEW by \in Makers, NEW key \in Keys, NEW kind \in RuleStatus, NEW from \in 0..LastRuleDay,
                 ProposeChange(by, key, kind, from)
          PROVE  RuleTypeOK'
      <3>1. \A k \in Keys : Versions(k)' = Versions(k)
        BY <2>1, ProposalAppends DEF Versions
      <3> QED
        BY <2>1, <3>1, ProposalAppends DEF RuleTypeOK
    <2>2. ASSUME NEW r \in Clerks, NEW by \in Checkers, NEW approve \in BOOLEAN, NEW c \in DOMAIN changes,
                 Review(r, by, c, approve)
          PROVE  RuleTypeOK'
      <3>1. [at |-> "checked", by |-> by, change |-> c, approve |-> approve] \in Checked
        BY DEF Checked, RuleTypeOK
      <3> QED
        BY <2>2, <3>1 DEF Review, ReviewOwn, RuleTypeOK, Versions
    <2>3. ASSUME NEW r \in Clerks, Decide(r)
          PROVE  RuleTypeOK'
      <3> DEFINE c == decision[r].change
                 by == decision[r].by
                 p == NewVersion(c, by)
      <3>1. /\ c \in DOMAIN changes /\ by \in Checkers
            /\ changes' \in Seq(Change)
            /\ Len(changes') = Len(changes)
            /\ \A d \in DOMAIN changes : d # c => changes'[d] = changes[d]
            /\ changes'[c].state # "PENDING"
            /\ changes'[c].decidedBy = by
            /\ p \in Parameter
            /\ parameters' # parameters => parameters' = parameters \cup {p}
            /\ decision' = [decision EXCEPT ![r] = Waiting]
        BY <2>3, DecisionWrites
      <3>2. p.change = c
        BY DEF NewVersion
      <3> HIDE DEF c, by, p
      <3>3. parameters' \in SUBSET Parameter
        BY <3>1 DEF RuleTypeOK
      <3>4. ASSUME NEW key \in Keys
            PROVE  IsFiniteSet(Versions(key)')
        <4>1. IsFiniteSet(Versions(key)) /\ IsFiniteSet(Versions(key) \cup {p})
          BY FS_AddElement DEF RuleTypeOK
        <4>2. CASE parameters' = parameters
          BY <4>1, <4>2 DEF Versions
        <4>3. CASE parameters' = parameters \cup {p}
          BY <4>1, <4>3, VersionsAdded
        <4> QED
          BY <3>1, <4>2, <4>3
      <3>5. \A q \in parameters' : q.change \in 0..Len(changes')
        BY <3>1, <3>2 DEF RuleTypeOK
      <3>6. by # NoOne
        BY <3>1, RuleAssumption
      <3>7. /\ decision' \in [Clerks -> {Waiting} \cup Checked]
            /\ \A d \in Clerks : decision'[d] # Waiting => decision'[d].change \in DOMAIN changes'
        BY <3>1 DEF RuleTypeOK
      <3>8. \A d \in DOMAIN changes' : changes'[d].state = "PENDING" <=> changes'[d].decidedBy = NoOne
        BY <3>1, <3>6 DEF RuleTypeOK
      <3> QED
        BY <3>1, <3>3, <3>4, <3>5, <3>7, <3>8 DEF RuleTypeOK
    <2>4. ASSUME NEW r \in Clerks, Abandon(r)
          PROVE  RuleTypeOK'
      BY <2>4 DEF Abandon, RuleTypeOK, Versions
    <2>5. CASE UNCHANGED ruleVars
      BY <2>5 DEF ruleVars, RuleTypeOK, Versions
    <2> QED
      BY <2>1, <2>2, <2>3, <2>4, <2>5 DEF RuleNext
  <1> QED
    BY <1>1, <1>2, PTL DEF RuleSpec

-----------------------------------------------------------------------------
(* Rule parameters: the versions *)

Numbered == \A key \in Keys : {p.version : p \in Versions(key)} = 1..Cardinality(Versions(key))

\* Every version but those seeded comes from a change of its own, made and approved by two officers.
FromChanges ==
    \A p \in parameters :
        IF p.change = 0 THEN p.version = 1
        ELSE /\ p.by # p.approvedBy
             /\ p.by = changes[p.change].by
             /\ \A q \in parameters \ {p} : q.change # p.change

\* What a request has checked of its change stays true, whatever others write meanwhile: nobody alters
\* who made it.
ByAnother == \A r \in Clerks : decision[r] # Waiting => changes[decision[r].change].by # decision[r].by

VersionsInv == RuleTypeOK /\ Numbered /\ FromChanges /\ ByAnother

LEMMA NumberedAfterDecision ==
    ASSUME VersionsInv, NEW c \in DOMAIN changes, NEW by,
           \A p \in parameters : p.change # c,
           parameters' = parameters \cup {NewVersion(c, by)}
    PROVE  Numbered'
  <1> DEFINE new == NewVersion(c, by)
  <1> SUFFICES ASSUME NEW key \in Keys
               PROVE  {p.version : p \in Versions(key)'} = 1..Cardinality(Versions(key)')
    BY DEF Numbered
  <1>1. /\ IsFiniteSet(Versions(key)) /\ Cardinality(Versions(key)) \in Nat
        /\ {p.version : p \in Versions(key)} = 1..Cardinality(Versions(key))
    BY FS_CardinalityType DEF VersionsInv, RuleTypeOK, Numbered
  <1>2. CASE changes[c].key # key
    <2>1. Versions(key)' = Versions(key)
      BY <1>2, VersionsAdded DEF NewVersion
    <2> QED
      BY <1>1, <2>1
  <1>3. CASE changes[c].key = key
    <2>1. /\ new.key = key
          /\ new.version = Cardinality(Versions(key)) + 1
          /\ new.change = c
      BY <1>3 DEF NewVersion
    <2> HIDE DEF new
    <2>2. Versions(key)' = Versions(key) \cup {new} /\ new \notin Versions(key)
      BY <2>1, VersionsAdded DEF Versions, new
    <2>3. Cardinality(Versions(key)') = Cardinality(Versions(key)) + 1
      BY <1>1, <2>2, FS_AddElement
    <2>4. {p.version : p \in Versions(key)'} = {p.version : p \in Versions(key)} \cup {new.version}
      BY <2>2
    <2> QED
      BY <1>1, <2>1, <2>3, <2>4
  <1> QED
    BY <1>2, <1>3

LEMMA FromChangesAfterDecision ==
    ASSUME VersionsInv, NEW r \in Clerks, Decide(r)
    PROVE  FromChanges'
  <1> DEFINE c == decision[r].change
             by == decision[r].by
             new == NewVersion(c, by)
  <1>1. /\ c \in DOMAIN changes
        /\ \A d \in DOMAIN changes : changes'[d].by = changes[d].by
        /\ parameters' # parameters => /\ parameters' = parameters \cup {new}
                                       /\ \A p \in parameters : p.change # c
    BY DecisionWrites DEF VersionsInv
  <1>2. new.change = c /\ new.by = changes[c].by /\ new.approvedBy = by
    BY DEF NewVersion
  <1>3. changes[c].by # by
    BY DEF VersionsInv, ByAnother, Decide
  <1>4. c # 0 /\ DOMAIN changes = 1..Len(changes) /\ Len(changes) \in Nat
    BY <1>1 DEF VersionsInv, RuleTypeOK
  <1> HIDE DEF c, by, new
  <1> SUFFICES ASSUME NEW p \in parameters'
               PROVE  IF p.change = 0 THEN p.version = 1
                      ELSE /\ p.by # p.approvedBy
                           /\ p.by = changes'[p.change].by
                           /\ \A q \in parameters' \ {p} : q.change # p.change
    BY DEF FromChanges
  <1>5. CASE p \in parameters
    <2>1. p.change \in 0..Len(changes)
      BY <1>5 DEF VersionsInv, RuleTypeOK
    <2>2. p.change = 0 \/ p.change \in DOMAIN changes
      BY <1>4, <2>1
    <2> QED
      BY <1>1, <1>2, <1>5, <2>2 DEF VersionsInv, FromChanges
  <1>6. CASE p \notin parameters
    <2>1. p = new /\ \A q \in parameters : q.change # c
      BY <1>1, <1>6
    <2> QED
      BY <1>1, <1>2, <1>3, <1>4, <2>1
  <1> QED
    BY <1>5, <1>6

LEMMA VersionsInvStep ==
    VersionsInv /\ [RuleNext]_ruleVars /\ RuleTypeOK' => VersionsInv'
  <1> SUFFICES ASSUME VersionsInv, [RuleNext]_ruleVars, RuleTypeOK'
               PROVE  Numbered' /\ FromChanges' /\ ByAnother'
    BY DEF VersionsInv
  <1> USE DEF VersionsInv
  <1>0. /\ DOMAIN changes = 1..Len(changes) /\ Len(changes) \in Nat
        /\ \A p \in parameters : p.change # 0 => p.change \in DOMAIN changes
    BY DEF RuleTypeOK
  <1>1. ASSUME NEW by \in Makers, NEW key \in Keys, NEW kind \in RuleStatus, NEW from \in 0..LastRuleDay,
               ProposeChange(by, key, kind, from)
        PROVE  Numbered' /\ FromChanges' /\ ByAnother'
    <2>1. /\ UNCHANGED <<parameters, decision>>
          /\ \A d \in DOMAIN changes : changes'[d] = changes[d]
      BY <1>1, ProposalAppends
    <2> QED
      BY <1>0, <2>1 DEF Numbered, FromChanges, ByAnother, Versions, RuleTypeOK
  <1>2. ASSUME NEW r \in Clerks, NEW by \in Checkers, NEW approve \in BOOLEAN, NEW c \in DOMAIN changes,
               Review(r, by, c, approve)
        PROVE  Numbered' /\ FromChanges' /\ ByAnother'
    BY <1>2 DEF Review, ReviewOwn, Numbered, FromChanges, ByAnother, Versions, RuleTypeOK
  <1>3. ASSUME NEW r \in Clerks, Decide(r)
        PROVE  Numbered' /\ FromChanges' /\ ByAnother'
    <2>1. FromChanges'
      BY <1>3, FromChangesAfterDecision
    <2>2. Numbered'
      <3>1. CASE parameters' = parameters
        BY <3>1 DEF Numbered, Versions
      <3>2. CASE parameters' # parameters
        BY <1>3, <3>2, DecisionWrites, NumberedAfterDecision
      <3> QED
        BY <3>1, <3>2
    <2>3. ByAnother'
      <3>1. /\ \A d \in DOMAIN changes : changes'[d].by = changes[d].by
            /\ decision' = [decision EXCEPT ![r] = Waiting]
        BY <1>3, DecisionWrites
      <3> QED
        BY <3>1 DEF ByAnother, RuleTypeOK
    <2> QED
      BY <2>1, <2>2, <2>3
  <1>4. ASSUME NEW r \in Clerks, Abandon(r)
        PROVE  Numbered' /\ FromChanges' /\ ByAnother'
    BY <1>4 DEF Abandon, Numbered, FromChanges, ByAnother, Versions, RuleTypeOK
  <1>5. CASE UNCHANGED ruleVars
    BY <1>5 DEF ruleVars, Numbered, FromChanges, ByAnother, Versions
  <1> QED
    BY <1>1, <1>2, <1>3, <1>4, <1>5 DEF RuleNext

\* The versions of a parameter are numbered without gaps, and each but the first comes from a change of
\* its own, proposed by one officer and approved by another, however many officers decide at once from
\* copies they read before.
THEOREM VersionsStayChecked == RuleSpec => []VersionsChecked
  <1>1. RuleInit => Numbered /\ FromChanges /\ ByAnother
    <2> SUFFICES ASSUME RuleInit
                 PROVE  Numbered /\ FromChanges /\ ByAnother
      OBVIOUS
    <2>1. ASSUME NEW key \in Keys
          PROVE  {p.version : p \in Versions(key)} = 1..Cardinality(Versions(key))
      <3>1. Versions(key) = {Seed(key)} /\ Seed(key).version = 1
        BY DEF RuleInit, Versions, Seed
      <3>2. Cardinality(Versions(key)) = 1
        BY <3>1, FS_Singleton
      <3>3. {p.version : p \in Versions(key)} = {1}
        BY <3>1
      <3> QED
        BY <3>2, <3>3
    <2> QED
      BY <2>1 DEF RuleInit, Numbered, FromChanges, ByAnother, Seed
  <1>2. VersionsInv => VersionsChecked
    BY DEF VersionsInv, VersionsChecked, Numbered, FromChanges, RuleTypeOK, Parameter
  <1> QED
    BY <1>1, <1>2, RuleTypeCorrect, VersionsInvStep, PTL DEF RuleSpec, VersionsInv

-----------------------------------------------------------------------------
(* The audit trail: the types *)

LEMMA TrailInitTyped == TrailInit => TrailTypeOK
  <1> SUFFICES ASSUME TrailInit
               PROVE  TrailTypeOK
    OBVIOUS
  <1>0. NoTxn \in Txn
    BY DEF NoTxn, Txn
  <1>1. contended \in BOOLEAN
    BY Zenon DEF TrailInit
  <1>2. txn \in [Writers -> Txn]
    BY <1>0 DEF TrailInit
  <1> QED
    BY <1>1, <1>2 DEF TrailInit, TrailTypeOK

LEMMA TrailNextTyped == TrailTypeOK /\ [TrailNext]_trailVars => TrailTypeOK'
  <1> SUFFICES ASSUME TrailTypeOK, [TrailNext]_trailVars
               PROVE  TrailTypeOK'
    OBVIOUS
  <1>0. NoTxn \in Txn
    BY DEF NoTxn, Txn
  <1>1. ASSUME NEW w \in Writers, SelectLast(w)
        PROVE  TrailTypeOK'
    <2>1. contended' \in BOOLEAN
      BY <1>1, Zenon DEF SelectLast, Select
    <2>2. PICK id \in 0..MaxEvents : txn' = [txn EXCEPT ![w].at = "select", ![w].row = id]
      BY <1>1 DEF SelectLast, Select
    <2>3. [txn[w] EXCEPT !.at = "select", !.row = id] \in Txn
      <3>1. txn[w] \in Txn /\ id \in Nat
        BY AuditAssumption DEF TrailTypeOK
      <3> QED
        BY <3>1 DEF Txn
    <2>4. txn' = [txn EXCEPT ![w] = [txn[w] EXCEPT !.at = "select", !.row = id]]
      BY <2>2
    <2>5. txn' \in [Writers -> Txn]
      BY <2>3, <2>4 DEF TrailTypeOK
    <2> QED
      BY <1>1, <2>1, <2>5 DEF SelectLast, Select, TrailTypeOK
  <1>2. ASSUME NEW w \in Writers, InsertEvent(w)
        PROVE  TrailTypeOK'
    <2>1. [id |-> nextId, prev |-> txn[w].row] \in Event
      BY DEF Event, TrailTypeOK, Txn
    <2> DEFINE recorded == [txn[w] EXCEPT !.at = "recorded",
                                          !.own = @ \cup {[id |-> nextId, prev |-> txn[w].row]},
                                          !.locked = @ \cup ({txn[w].row} \ {0})]
    <2>2. recorded \in Txn
      BY <2>1 DEF TrailTypeOK, Txn
    <2>3. txn' = [txn EXCEPT ![w] = recorded]
      BY <1>2 DEF InsertEvent
    <2>4. txn' \in [Writers -> Txn]
      BY <2>2, <2>3 DEF TrailTypeOK
    <2> QED
      BY <1>2, <2>4 DEF InsertEvent, TrailTypeOK
  <1>3. ASSUME NEW w \in Writers, CommitTxn(w)
        PROVE  TrailTypeOK'
    <2>1. Visible(w) \in SUBSET Event
      BY DEF Visible, TrailTypeOK, Txn
    <2> QED
      BY <1>0, <1>3, <2>1 DEF CommitTxn, TrailTypeOK
  <1>4. ASSUME NEW w \in Writers, RollbackTxn(w)
        PROVE  TrailTypeOK'
    BY <1>0, <1>4 DEF RollbackTxn, TrailTypeOK
  <1>5. CASE UNCHANGED trailVars
    BY <1>5 DEF trailVars, TrailTypeOK
  <1> QED
    BY <1>1, <1>2, <1>3, <1>4, <1>5 DEF TrailNext

\* The events, the next id and the open transactions stay of their types, whatever is in flight.
THEOREM TrailTypeCorrect == TrailSpec => []TrailTypeOK
  BY TrailInitTyped, TrailNextTyped, PTL DEF TrailSpec

-----------------------------------------------------------------------------
(* The audit trail: the chain *)

\* From each event of rows the hashes lead to an older one, or it is a first.
Grounded(rows) == \A e \in rows : e.prev = 0 \/ \E f \in rows : f.id < e.id /\ f.id = e.prev

\* verify_chain finds nothing in rows.
Verifies(rows) == \A e \in rows : IsLast({f \in rows : f.id < e.id}, e.prev)

\* What each writer sees is grounded, and so is the event it is about to add: what it selected it still sees.
SeenGrounded ==
    /\ Grounded(events)
    /\ \A w \in Writers : /\ Grounded(Visible(w))
                          /\ txn[w].at = "select" =>
                                txn[w].row = 0 \/ \E f \in Visible(w) : f.id = txn[w].row

Below == \A e \in events \cup UNION {txn[w].own : w \in Writers} : e.id < nextId

\* As long as nothing is contended at most one transaction is open; what it sees is one chain, and what it
\* selected is still the end of it.
OneAtATime ==
    ~contended =>
        /\ Verifies(events)
        /\ \A v, w \in Writers : v # w => txn[v] = NoTxn \/ txn[w] = NoTxn
        /\ \A w \in Writers : /\ Verifies(Visible(w))
                              /\ txn[w].at = "select" => IsLast(Visible(w), txn[w].row)

ClosedEmpty == \A w \in Writers : txn[w].at = "idle" => txn[w] = NoTxn

TrailInv == TrailTypeOK /\ SeenGrounded /\ Below /\ OneAtATime /\ ClosedEmpty

\* An event with the next id, after the last of rows, keeps rows grounded and one chain.
LEMMA ChainExtended ==
    ASSUME NEW rows \in SUBSET Event, NEW id \in Nat \ {0}, NEW prev \in Nat, \A f \in rows : f.id < id
    PROVE  LET longer == rows \cup {[id |-> id, prev |-> prev]}
           IN  /\ Grounded(rows) /\ (prev = 0 \/ \E f \in rows : f.id = prev) => Grounded(longer)
               /\ Verifies(rows) /\ IsLast(rows, prev) => Verifies(longer)
  <1> DEFINE new == [id |-> id, prev |-> prev]
             longer == rows \cup {new}
  <1>1. ASSUME Grounded(rows), prev = 0 \/ \E f \in rows : f.id = prev
        PROVE  Grounded(longer)
    BY <1>1 DEF Grounded
  <1>2. ASSUME Verifies(rows), IsLast(rows, prev)
        PROVE  Verifies(longer)
    <2>1. \A e \in rows : {f \in longer : f.id < e.id} = {f \in rows : f.id < e.id}
      BY DEF Event
    <2>2. {f \in longer : f.id < new.id} = rows
      BY DEF Event
    <2> QED
      BY <1>2, <2>1, <2>2 DEF Verifies
  <1> QED
    BY <1>1, <1>2

LEMMA TrailInvStep ==
    TrailInv /\ [TrailNext]_trailVars /\ TrailTypeOK' => TrailInv'
  <1> SUFFICES ASSUME TrailInv, [TrailNext]_trailVars, TrailTypeOK'
               PROVE  SeenGrounded' /\ Below' /\ OneAtATime' /\ ClosedEmpty'
    BY DEF TrailInv
  <1> USE DEF TrailInv
  <1>0. NoTxn.at = "idle" /\ NoTxn.own = {}
    BY DEF NoTxn
  <1>1. ASSUME NEW w \in Writers, SelectLast(w)
        PROVE  SeenGrounded' /\ Below' /\ OneAtATime' /\ ClosedEmpty'
    <2>1. PICK id \in 0..MaxEvents : /\ IsLast(Visible(w), id)
                                     /\ txn' = [txn EXCEPT ![w].at = "select", ![w].row = id]
      BY <1>1 DEF SelectLast, Select
    <2>2. /\ UNCHANGED <<events, nextId>>
          /\ ~contended' => ~contended /\ \A v \in Writers \ {w} : txn[v].at = "idle"
      BY <1>1 DEF SelectLast, Select, TrailTypeOK
    <2>3. /\ txn'[w].at = "select" /\ txn'[w].row = id
          /\ \A v \in Writers : txn'[v].own = txn[v].own
          /\ \A v \in Writers \ {w} : txn'[v] = txn[v]
      BY <2>1 DEF TrailTypeOK, Txn
    <2>4. \A v \in Writers : Visible(v)' = Visible(v)
      BY <2>2, <2>3 DEF Visible
    <2>5. id = 0 \/ \E f \in Visible(w) : f.id = id
      BY <2>1 DEF IsLast
    <2>6. SeenGrounded'
      BY <2>2, <2>3, <2>4, <2>5 DEF SeenGrounded
    <2>7. Below'
      BY <2>2, <2>3 DEF Below
    <2>8. OneAtATime'
      <3> SUFFICES ASSUME ~contended'
                   PROVE  OneAtATime'
        BY DEF OneAtATime
      <3>1. ~contended /\ \A v \in Writers \ {w} : txn[v] = NoTxn
        BY <2>2 DEF ClosedEmpty
      <3>2. Verifies(events') /\ \A v \in Writers : Verifies(Visible(v)')
        BY <2>2, <2>4, <3>1 DEF OneAtATime
      <3>3. \A u, v \in Writers : u # v => txn'[u] = NoTxn \/ txn'[v] = NoTxn
        BY <2>3, <3>1
      <3>4. IsLast(Visible(w)', txn'[w].row)
        BY <2>1, <2>3, <2>4
      <3>5. \A v \in Writers : txn'[v].at = "select" => v = w
        BY <1>0, <2>3, <3>1
      <3> QED
        BY <3>2, <3>3, <3>4, <3>5 DEF OneAtATime
    <2>9. ClosedEmpty'
      BY <2>3 DEF ClosedEmpty
    <2> QED
      BY <2>6, <2>7, <2>8, <2>9
  <1>2. ASSUME NEW w \in Writers, InsertEvent(w)
        PROVE  SeenGrounded' /\ Below' /\ OneAtATime' /\ ClosedEmpty'
    <2> DEFINE new == [id |-> nextId, prev |-> txn[w].row]
    <2>1. /\ txn[w].at = "select"
          /\ nextId' = nextId + 1
          /\ UNCHANGED <<events, contended>>
      BY <1>2 DEF InsertEvent
    <2>2. /\ txn'[w].at = "recorded"
          /\ txn'[w].own = txn[w].own \cup {new}
          /\ \A v \in Writers \ {w} : txn'[v] = txn[v]
      BY <1>2 DEF InsertEvent, TrailTypeOK, Txn
    <2>3. /\ Visible(w)' = Visible(w) \cup {new}
          /\ \A v \in Writers \ {w} : Visible(v)' = Visible(v)
      BY <2>1, <2>2 DEF Visible
    <2>4. /\ Visible(w) \in SUBSET Event
          /\ nextId \in Nat \ {0} /\ txn[w].row \in Nat
          /\ \A f \in Visible(w) : f.id < nextId
      BY DEF TrailTypeOK, Txn, Visible, Below
    <2>5. /\ Grounded(Visible(w)) /\ (txn[w].row = 0 \/ \E f \in Visible(w) : f.id = txn[w].row)
                => Grounded(Visible(w)')
          /\ Verifies(Visible(w)) /\ IsLast(Visible(w), txn[w].row) => Verifies(Visible(w)')
      BY <2>3, <2>4, ChainExtended
    <2>6. SeenGrounded'
      BY <2>1, <2>2, <2>3, <2>5 DEF SeenGrounded
    <2>7. Below'
      BY <2>1, <2>2 DEF Below, TrailTypeOK, Txn, Event
    <2>8. OneAtATime'
      <3> SUFFICES ASSUME ~contended
                   PROVE  OneAtATime'
        BY <2>1 DEF OneAtATime
      <3>1. \A v \in Writers \ {w} : txn[v] = NoTxn
        BY <1>0, <2>1 DEF OneAtATime
      <3>2. Verifies(Visible(w)')
        BY <2>1, <2>5 DEF OneAtATime
      <3>3. \A v \in Writers \ {w} : Visible(v)' = events /\ txn'[v] = NoTxn
        BY <1>0, <2>2, <2>3, <3>1 DEF Visible
      <3>4. \A v \in Writers \ {w} : Verifies(Visible(v)') /\ txn'[v].at # "select"
        BY <1>0, <3>3 DEF OneAtATime
      <3>5. \A u, v \in Writers : u # v => txn'[u] = NoTxn \/ txn'[v] = NoTxn
        BY <3>3
      <3>6. Verifies(events')
        BY <2>1 DEF OneAtATime
      <3>7. \A v \in Writers : Verifies(Visible(v)') /\ txn'[v].at # "select"
        BY <2>2, <3>2, <3>4
      <3> QED
        BY <3>5, <3>6, <3>7 DEF OneAtATime
    <2>9. ClosedEmpty'
      BY <2>2 DEF ClosedEmpty
    <2> QED
      BY <2>6, <2>7, <2>8, <2>9
  <1>3. ASSUME NEW w \in Writers, CommitTxn(w)
        PROVE  SeenGrounded' /\ Below' /\ OneAtATime' /\ ClosedEmpty'
    <2>1. /\ txn[w].at = "recorded"
          /\ events' = Visible(w)
          /\ txn'[w] = NoTxn
          /\ \A v \in Writers \ {w} : txn'[v] = txn[v]
          /\ UNCHANGED <<nextId, contended>>
      BY <1>3 DEF CommitTxn, TrailTypeOK
    <2>2. /\ Visible(w)' = Visible(w)
          /\ \A v \in Writers \ {w} : Visible(v)' = Visible(v) \cup Visible(w)
      BY <1>0, <2>1 DEF Visible
    <2>3. \A v \in Writers : Grounded(Visible(v)')
      BY <2>2 DEF SeenGrounded, Grounded
    <2>4. SeenGrounded'
      BY <1>0, <2>1, <2>2, <2>3 DEF SeenGrounded
    <2>5. Below'
      BY <1>0, <2>1 DEF Below, Visible
    <2>6. OneAtATime'
      <3> SUFFICES ASSUME ~contended
                   PROVE  OneAtATime'
        BY <2>1 DEF OneAtATime
      <3>1. \A v \in Writers \ {w} : txn[v] = NoTxn
        BY <1>0, <2>1 DEF OneAtATime
      <3>2. \A v \in Writers : Visible(v)' = Visible(w) /\ txn'[v] = NoTxn
        BY <1>0, <2>1, <2>2, <3>1 DEF Visible
      <3> QED
        BY <1>0, <2>1, <3>2 DEF OneAtATime
    <2>7. ClosedEmpty'
      BY <2>1 DEF ClosedEmpty
    <2> QED
      BY <2>4, <2>5, <2>6, <2>7
  <1>4. ASSUME NEW w \in Writers, RollbackTxn(w)
        PROVE  SeenGrounded' /\ Below' /\ OneAtATime' /\ ClosedEmpty'
    <2>1. /\ txn'[w] = NoTxn
          /\ \A v \in Writers \ {w} : txn'[v] = txn[v]
          /\ UNCHANGED <<events, nextId, contended>>
      BY <1>4 DEF RollbackTxn, TrailTypeOK
    <2>2. /\ Visible(w)' = events
          /\ \A v \in Writers \ {w} : Visible(v)' = Visible(v)
      BY <1>0, <2>1 DEF Visible
    <2>3. SeenGrounded'
      BY <1>0, <2>1, <2>2 DEF SeenGrounded
    <2>4. Below'
      BY <1>0, <2>1 DEF Below
    <2>5. OneAtATime'
      BY <1>0, <2>1, <2>2 DEF OneAtATime
    <2>6. ClosedEmpty'
      BY <2>1 DEF ClosedEmpty
    <2> QED
      BY <2>3, <2>4, <2>5, <2>6
  <1>5. CASE UNCHANGED trailVars
    BY <1>5 DEF trailVars, SeenGrounded, Below, OneAtATime, ClosedEmpty, Visible
  <1> QED
    BY <1>1, <1>2, <1>3, <1>4, <1>5 DEF TrailNext

\* However many writers interleave and roll back, every event of the trail refers to an older one of it or
\* is a first; and as long as no writer looked for the last event while another was recording, the trail is
\* one chain that verify_chain accepts.
THEOREM ChainStaysSound == TrailSpec => []ChainSound
  <1>1. TrailInit => SeenGrounded /\ Below /\ OneAtATime /\ ClosedEmpty
    <2> SUFFICES ASSUME TrailInit
                 PROVE  SeenGrounded /\ Below /\ OneAtATime /\ ClosedEmpty
      OBVIOUS
    <2>1. events = {} /\ \A w \in Writers : txn[w] = NoTxn /\ Visible(w) = {}
      BY DEF TrailInit, NoTxn, Visible
    <2> QED
      BY <2>1 DEF NoTxn, SeenGrounded, Grounded, Below, OneAtATime, Verifies, ClosedEmpty
  <1>2. TrailInv => ChainSound
    BY DEF TrailInv, ChainSound, SeenGrounded, Grounded, OneAtATime, Verifies, ChainVerifies, Before
  <1> QED
    BY <1>1, <1>2, TrailTypeCorrect, TrailInvStep, PTL DEF TrailSpec, TrailInv

-----------------------------------------------------------------------------
(* Imports: the types *)

importAllVars == <<trailVars, importVars>>

Verdict == {"VALID", "MISSING", "INVALID", "AMBIGUOUS", "CONFLICT", "DUPLICATE"}

AllFiles == Files \cup Singles

FileRows == UNION {RowsOf(f) : f \in AllFiles}

Record == [type : {f.type : f \in AllFiles}, key : {x.key : x \in FileRows}, values : {x.values : x \in FileRows},
           batch : Batches \cup {NoBatch}, row : Nat, event : Nat]

Batch == [status : {"PREVIEWED", "COMMITTED"}, file : AllFiles, report : Seq(Verdict)]

Job == [op : {"preview", "commit", "single"}, at : {"match", "insert", "record", "event", "save", "saved"},
        batch : Batches \cup {NoBatch}, copy : Batch \cup {NotPreviewed}, file : AllFiles,
        report : Seq(Verdict), own : SUBSET Record]

RowOf(j, i) == {r \in j.own : r.row = i}

\* Rows that have a verdict, the one being recorded included.
Upto(j) == IF j.at = "record" THEN Len(j.report) + 1 ELSE Len(j.report)

IsValid(j, i) == i = Len(j.report) + 1 \/ j.report[i] = "VALID"

\* A pass has made one record of every row it found valid, from what the file says of the row.
Passed(j) ==
    /\ \A r \in j.own : /\ r.row \in 1..Upto(j)
                        /\ r.type = j.file.type /\ r.batch = j.batch /\ r.key = j.file.rows[r.row].key
    /\ \A i \in 1..Upto(j) : IF IsValid(j, i) THEN \E r \in j.own : RowOf(j, i) = {r} ELSE RowOf(j, i) = {}

\* A pass over a batch is over the file that was previewed, and some of its rows were valid.
Loaded(j) ==
    /\ j.op = "commit" => /\ j.batch \in Batches /\ j.copy \in Batch
                          /\ j.copy.status = "PREVIEWED" /\ j.copy.file = j.file
                          /\ \E i \in DOMAIN j.copy.report : j.copy.report[i] = "VALID"
    /\ j.op # "commit" => j.batch = NoBatch
    /\ j.at \in {"event", "save", "saved"} => j.op = "commit" /\ j.report = j.copy.report
    /\ j.at = "insert" => Len(j.report) + 1 \in DOMAIN j.file.rows

JobOK(j) == j \in Job /\ Passed(j) /\ Loaded(j)

ImportTypeInv ==
    /\ TrailTypeOK
    /\ records \in SUBSET Record
    /\ batches \in [Batches -> Batch \cup {NotPreviewed}]
    /\ \A w \in Writers : job[w] = NoJob \/ JobOK(job[w])
    /\ job = [w \in Writers |-> job[w]]
    /\ abreast \in BOOLEAN

\* Every step is one of the audit trail, or leaves it alone.
LEMMA TrailStep == [ImportNext]_importAllVars => [TrailNext]_trailVars
  <1> SUFFICES ASSUME [ImportNext]_importAllVars PROVE [TrailNext]_trailVars
    OBVIOUS
  <1>1. CASE UNCHANGED importAllVars
    BY <1>1 DEF importAllVars, trailVars
  <1>2. ASSUME NEW w \in Writers,
               \/ \E file \in Files : StartPreview(w, file)
               \/ \E b \in Batches, skip \in BOOLEAN : StartCommit(w, b, skip)
               \/ \E single \in Singles : StartSingle(w, single)
        PROVE  UNCHANGED trailVars
    BY <1>2 DEF StartPreview, StartCommit, StartSingle, Start
  <1>3. ASSUME NEW w \in Writers,
               \/ \E b \in Batches : EndPreview(w, b)
               \/ InsertRow(w) \/ RecordRow(w) \/ CommitEvent(w) \/ StalePreview(w) \/ RecordCommit(w)
               \/ CommitImport(w) \/ EndSingle(w) \/ Abort(w) \/ OtherWrite(w)
        PROVE  UNCHANGED trailVars \/ SelectLast(w) \/ InsertEvent(w) \/ CommitTxn(w) \/ RollbackTxn(w)
    BY <1>3 DEF EndPreview, InsertRow, RecordRow, CommitEvent, StalePreview, RecordCommit, CommitImport,
                EndSingle, Abort, OtherWrite, Rollback
  <1>4. ASSUME NEW w \in Writers, MatchRow(w) \/ SaveBatch(w)
        PROVE  UNCHANGED trailVars \/ RollbackTxn(w)
    BY <1>4 DEF MatchRow, SaveBatch, Rollback
  <1> QED
    BY <1>1, <1>2, <1>3, <1>4 DEF ImportNext, TrailNext

\* Imports, with their previews that are rolled back, keep the rules of the audit trail: what is proved of
\* the trail holds of it beside them.
THEOREM ImportsKeepTrail == ImportSpec => TrailSpec
  <1>1. ImportInit => TrailInit
    BY DEF ImportInit
  <1> QED
    BY <1>1, TrailStep, PTL DEF ImportSpec, TrailSpec, importAllVars

LEMMA JobParts ==
    ASSUME ImportTypeInv, NEW w \in Writers, job[w] # NoJob
    PROVE  JobOK(job[w]) /\ job[w].op # "none"
  BY DEF ImportTypeInv, JobOK, Job

LEMMA BusyJob ==
    ASSUME ImportTypeInv, NEW w \in Writers, job[w].op # "none"
    PROVE  JobOK(job[w])
  BY DEF ImportTypeInv, NoJob

LEMMA MatchedTyped ==
    ASSUME NEW f \in AllFiles, NEW i \in DOMAIN f.rows, NEW known
    PROVE  Matched(f, i, known) \in Verdict
  <1>1. f.rows[i].cells \in Verdict
    BY ImportAssumption DEF AllFiles, Verdict
  <1> QED
    BY <1>1 DEF Matched, Verdict

LEMMA NextRow ==
    ASSUME NEW w, job[w] \in Job, ~Done(w)
    PROVE  Row(w) \in DOMAIN job[w].file.rows /\ Row(w) = Len(job[w].report) + 1
  <1>1. job[w].file \in AllFiles /\ Len(job[w].report) \in Nat
    BY DEF Job
  <1>2. job[w].file.rows \in Seq(RowsOf(job[w].file))
    BY <1>1, ImportAssumption DEF AllFiles
  <1> QED
    BY <1>1, <1>2 DEF Done, Row

\* A row that is not valid leaves no record behind.
LEMMA NotCreated ==
    ASSUME NEW j, JobOK(j), j.at \in {"match", "insert"}, NEW is \in Verdict \ {"VALID"}
    PROVE  JobOK([j EXCEPT !.report = Append(@, is), !.at = "match"])
  <1> DEFINE k == [j EXCEPT !.report = Append(@, is), !.at = "match"]
             n == Len(j.report)
  <1>1. j \in Job /\ Passed(j) /\ Loaded(j) /\ j.report \in Seq(Verdict)
    BY DEF JobOK, Job
  <1>2. k \in Job
    <2>1. Append(j.report, is) \in Seq(Verdict)
      BY <1>1
    <2> QED
      BY <1>1, <2>1 DEF Job
  <1>3. /\ k.report = Append(j.report, is) /\ k.at = "match" /\ k.own = j.own
        /\ k.file = j.file /\ k.batch = j.batch /\ k.op = j.op /\ k.copy = j.copy
    BY <1>1 DEF Job
  <1>4. /\ n \in Nat /\ Len(k.report) = n + 1 /\ k.report[n + 1] = is
        /\ \A i \in 1..n : k.report[i] = j.report[i]
    BY <1>1, <1>3
  <1> HIDE DEF k, n
  <1>5. Upto(j) = n /\ Upto(k) = n + 1
    BY <1>3, <1>4 DEF Upto, n
  <1>6. \A r \in k.own : /\ r.row \in 1..Upto(k)
                         /\ r.type = k.file.type /\ r.batch = k.batch /\ r.key = k.file.rows[r.row].key
    BY <1>1, <1>3, <1>4, <1>5 DEF Passed
  <1>7. \A i : RowOf(k, i) = RowOf(j, i)
    BY <1>3 DEF RowOf
  <1>8. RowOf(k, n + 1) = {}
    BY <1>1, <1>3, <1>4, <1>5 DEF RowOf, Passed
  <1>9. ASSUME NEW i \in 1..Upto(k)
        PROVE  IF IsValid(k, i) THEN \E r \in k.own : RowOf(k, i) = {r} ELSE RowOf(k, i) = {}
    <2>1. CASE i = n + 1
      <3>1. ~IsValid(k, i)
        BY <1>4, <2>1 DEF IsValid
      <3> QED
        BY <1>8, <2>1, <3>1
    <2>2. CASE i # n + 1
      <3>1. i \in 1..n /\ (IsValid(k, i) <=> IsValid(j, i))
        BY <1>4, <1>5, <2>2 DEF IsValid, n
      <3> QED
        BY <1>1, <1>3, <1>5, <1>7, <3>1 DEF Passed
    <2> QED
      BY <2>1, <2>2
  <1>10. Passed(k)
    BY <1>6, <1>9 DEF Passed
  <1>11. Loaded(k)
    BY <1>1, <1>3 DEF Loaded
  <1> QED
    BY <1>2, <1>10, <1>11 DEF JobOK, k

\* A record is made of the next row.
LEMMA Created ==
    ASSUME NEW j, JobOK(j), j.at = "insert",
           NEW new, new = [type |-> j.file.type, key |-> j.file.rows[Len(j.report) + 1].key,
                           values |-> j.file.rows[Len(j.report) + 1].values,
                           batch |-> j.batch, row |-> Len(j.report) + 1, event |-> 0]
    PROVE  JobOK([j EXCEPT !.at = "record", !.own = @ \cup {new}])
  <1> DEFINE k == [j EXCEPT !.at = "record", !.own = @ \cup {new}]
             n == Len(j.report)
  <1>1. /\ j \in Job /\ Passed(j) /\ Loaded(j) /\ j.report \in Seq(Verdict) /\ n \in Nat
        /\ j.file \in AllFiles /\ n + 1 \in DOMAIN j.file.rows /\ j.batch \in Batches \cup {NoBatch}
    BY DEF JobOK, Job, Loaded
  <1>2. new \in Record
    <2>1. j.file.rows[n + 1] \in FileRows
      BY <1>1 DEF FileRows, RowsOf
    <2> QED
      BY <1>1, <2>1 DEF Record
  <1>3. k \in Job
    BY <1>1, <1>2 DEF Job
  <1>4. /\ k.report = j.report /\ k.at = "record" /\ k.own = j.own \cup {new}
        /\ k.file = j.file /\ k.batch = j.batch /\ k.op = j.op /\ k.copy = j.copy
    BY <1>1 DEF Job
  <1>5. new.row = n + 1 /\ new.type = j.file.type /\ new.batch = j.batch /\ new.key = j.file.rows[n + 1].key
    OBVIOUS
  <1> HIDE DEF k, n
  <1>6. Upto(j) = n /\ Upto(k) = n + 1
    BY <1>4 DEF Upto, n
  <1>7. \A r \in k.own : /\ r.row \in 1..Upto(k)
                         /\ r.type = k.file.type /\ r.batch = k.batch /\ r.key = k.file.rows[r.row].key
    BY <1>1, <1>4, <1>5, <1>6 DEF Passed
  <1>8. ASSUME NEW i \in 1..Upto(k)
        PROVE  IF IsValid(k, i) THEN \E r \in k.own : RowOf(k, i) = {r} ELSE RowOf(k, i) = {}
    <2>1. CASE i = n + 1
      <3>1. RowOf(k, i) = {new}
        BY <1>1, <1>4, <1>5, <1>6, <2>1 DEF RowOf, Passed
      <3>2. IsValid(k, i)
        BY <1>4, <2>1 DEF IsValid, n
      <3> QED
        BY <1>4, <3>1, <3>2
    <2>2. CASE i # n + 1
      <3>1. i \in 1..n /\ (IsValid(k, i) <=> IsValid(j, i))
        BY <1>1, <1>4, <1>6, <2>2 DEF IsValid, n
      <3>2. RowOf(k, i) = RowOf(j, i)
        BY <1>4, <1>5, <2>2 DEF RowOf
      <3> QED
        BY <1>1, <1>4, <1>6, <3>1, <3>2 DEF Passed
    <2> QED
      BY <2>1, <2>2
  <1>9. Passed(k)
    BY <1>7, <1>8 DEF Passed
  <1>10. Loaded(k)
    BY <1>1, <1>4 DEF Loaded
  <1> QED
    BY <1>3, <1>9, <1>10 DEF JobOK, k

\* The record gets its event.
LEMMA Recorded ==
    ASSUME NEW j, JobOK(j), j.at = "record", NEW id \in Nat
    PROVE  JobOK([j EXCEPT !.at = "match", !.report = Append(@, "VALID"),
                           !.own = {[r EXCEPT !.event = IF @ = 0 THEN id ELSE @] : r \in @}])
  <1> DEFINE as(r) == [r EXCEPT !.event = IF @ = 0 THEN id ELSE @]
             k == [j EXCEPT !.at = "match", !.report = Append(@, "VALID"), !.own = {as(r) : r \in @}]
             n == Len(j.report)
  <1>1. /\ j \in Job /\ Passed(j) /\ Loaded(j) /\ j.report \in Seq(Verdict) /\ n \in Nat /\ j.own \subseteq Record
    BY DEF JobOK, Job
  <1>2. \A r \in Record : /\ as(r) \in Record /\ as(r).row = r.row /\ as(r).type = r.type
                          /\ as(r).batch = r.batch /\ as(r).key = r.key
    BY DEF Record
  <1> HIDE DEF as
  <1>3. k \in Job
    <2>1. Append(j.report, "VALID") \in Seq(Verdict)
      BY <1>1 DEF Verdict
    <2>2. {as(r) : r \in j.own} \subseteq Record
      BY <1>1, <1>2
    <2> QED
      BY <1>1, <2>1, <2>2 DEF Job
  <1>4. /\ k.report = Append(j.report, "VALID") /\ k.at = "match" /\ k.own = {as(r) : r \in j.own}
        /\ k.file = j.file /\ k.batch = j.batch /\ k.op = j.op /\ k.copy = j.copy
    BY <1>1 DEF Job
  <1>5. /\ Len(k.report) = n + 1 /\ k.report[n + 1] = "VALID"
        /\ \A i \in 1..n : k.report[i] = j.report[i]
    BY <1>1, <1>4
  <1> HIDE DEF k, n
  <1>6. Upto(j) = n + 1 /\ Upto(k) = n + 1
    BY <1>4, <1>5 DEF Upto, n
  <1>7. \A r \in k.own : /\ r.row \in 1..Upto(k)
                         /\ r.type = k.file.type /\ r.batch = k.batch /\ r.key = k.file.rows[r.row].key
    <2> TAKE r \in k.own
    <2>1. PICK q \in j.own : r = as(q)
      BY <1>4
    <2>2. q \in Record /\ q.row \in 1..Upto(j) /\ q.type = j.file.type /\ q.batch = j.batch
          /\ q.key = j.file.rows[q.row].key
      BY <1>1 DEF Passed
    <2>3. r.row = q.row /\ r.type = q.type /\ r.batch = q.batch /\ r.key = q.key
      BY <1>2, <2>1, <2>2
    <2> QED
      BY <1>4, <1>6, <2>2, <2>3
  <1>8. ASSUME NEW i \in 1..Upto(k)
        PROVE  IF IsValid(k, i) THEN \E r \in k.own : RowOf(k, i) = {r} ELSE RowOf(k, i) = {}
    <2>1. IsValid(k, i) <=> IsValid(j, i)
      BY <1>1, <1>5, <1>6 DEF IsValid, n
    <2>2. RowOf(k, i) = {as(r) : r \in RowOf(j, i)}
      <3>1. \A r \in j.own : as(r).row = r.row
        BY <1>1, <1>2
      <3> QED
        BY <1>4, <3>1 DEF RowOf
    <2>3. CASE IsValid(j, i)
      <3>1. PICK r \in j.own : RowOf(j, i) = {r}
        BY <1>1, <1>6, <2>3 DEF Passed
      <3>2. RowOf(k, i) = {as(r)} /\ as(r) \in k.own
        BY <1>4, <2>2, <3>1
      <3> QED
        BY <2>1, <2>3, <3>2
    <2>4. CASE ~IsValid(j, i)
      <3>1. RowOf(j, i) = {}
        BY <1>1, <1>6, <2>4 DEF Passed
      <3> QED
        BY <2>1, <2>2, <2>4, <3>1
    <2> QED
      BY <2>3, <2>4
  <1>9. Passed(k)
    BY <1>7, <1>8 DEF Passed
  <1>10. Loaded(k)
    BY <1>1, <1>4 DEF Loaded
  <1> QED
    BY <1>3, <1>9, <1>10 DEF JobOK, k, as

\* The last rounds of a commit change only where it is.
LEMMA Moved ==
    ASSUME NEW j, JobOK(j), j.op = "commit", j.at # "record", j.report = j.copy.report,
           NEW at \in {"event", "save", "saved"}
    PROVE  JobOK([j EXCEPT !.at = at])
  <1> DEFINE k == [j EXCEPT !.at = at]
  <1>1. j \in Job /\ Passed(j) /\ Loaded(j)
    BY DEF JobOK
  <1>2. k \in Job
    BY <1>1 DEF Job
  <1>3. /\ k.report = j.report /\ k.at = at /\ k.own = j.own
        /\ k.file = j.file /\ k.batch = j.batch /\ k.op = j.op /\ k.copy = j.copy
    BY <1>1 DEF Job
  <1> HIDE DEF k
  <1>4. Upto(k) = Upto(j) /\ \A i : RowOf(k, i) = RowOf(j, i) /\ (IsValid(k, i) <=> IsValid(j, i))
    BY <1>3 DEF Upto, RowOf, IsValid
  <1>5. Passed(k)
    BY <1>1, <1>3, <1>4 DEF Passed
  <1>6. Loaded(k)
    BY <1>1, <1>3 DEF Loaded
  <1> QED
    BY <1>2, <1>5, <1>6 DEF JobOK, k

OwnOf(j) == IF j = NoJob THEN {} ELSE j.own

Own(w) == OwnOf(job[w])

\* Two records the database would not keep both of.
Alike(r, s) == r.type \in Keyed /\ r.type = s.type /\ r.key = s.key

\* What a record of writer w may be like only in what is already w's.
Unlike(w, r) ==
    /\ \A s \in records : ~Alike(r, s)
    /\ \A v \in Writers \ {w} : \A s \in Own(v) : ~Alike(r, s)

\* How a step of w uses the audit trail.
TrailPart(w) ==
    \/ UNCHANGED trailVars /\ UNCHANGED abreast
    \/ SelectLast(w) /\ UNCHANGED abreast
    \/ InsertEvent(w) /\ Recording(w)
    \/ CommitTxn(w) /\ UNCHANGED abreast
    \/ RollbackTxn(w) /\ UNCHANGED abreast

\* A step of w that leaves it with the job j.
Turn(w, j) ==
    /\ job' = [job EXCEPT ![w] = j]
    /\ j = NoJob \/ JobOK(j)
    /\ j.op = "commit" => \/ job[w].op = "commit" /\ j.batch = job[w].batch /\ j.copy = job[w].copy /\ j.file = job[w].file
                          \/ j.copy = batches[j.batch] /\ j.file = batches[j.batch].file
    /\ TrailPart(w)
    /\ j.op = "commit" /\ j.at \in {"save", "saved"} => txn'[w].own # {}

\* A step that commits nothing.
Quiet(w, j) ==
    /\ Turn(w, j)
    /\ UNCHANGED <<records, batches>>
    /\ \A r \in OwnOf(j) : Unlike(w, r) \/ \E s \in Own(w) : s.type = r.type /\ s.key = r.key
    /\ j.op = "commit" /\ j.at = "saved" => batches[j.batch].status # "COMMITTED"

\* Writers that are importing have inserted in the trail what they are about to save.
Entered == \A w \in Writers : job[w].op = "commit" /\ job[w].at \in {"save", "saved"} => txn[w].own # {}

LEMMA TrailPartEffect ==
    ASSUME TrailTypeOK, NEW w \in Writers, TrailPart(w)
    PROVE  /\ \A v \in Writers \ {w} : txn'[v] = txn[v]
           /\ InsertEvent(w) /\ Recording(w) => txn'[w].own # {}
           /\ ~(InsertEvent(w) /\ Recording(w)) => UNCHANGED abreast /\ txn'[w].own \in {{}, txn[w].own}
  <1>0. txn \in [Writers -> Txn] /\ txn[w] \in Txn /\ NoTxn.own = {}
    BY DEF TrailTypeOK, NoTxn
  <1>1. ASSUME InsertEvent(w)
        PROVE  (\A v \in Writers \ {w} : txn'[v] = txn[v]) /\ txn'[w].own # {}
    <2> DEFINE own == txn[w].own \cup {[id |-> nextId, prev |-> txn[w].row]}
               recorded == [txn[w] EXCEPT !.at = "recorded", !.own = own, !.locked = @ \cup ({txn[w].row} \ {0})]
    <2>1. txn' = [txn EXCEPT ![w] = recorded]
      BY <1>1 DEF InsertEvent
    <2>2. recorded.own = own
      BY <1>0 DEF Txn
    <2>3. own # {}
      OBVIOUS
    <2> HIDE DEF recorded, own
    <2> QED
      BY <1>0, <2>1, <2>2, <2>3
  <1>2. ASSUME SelectLast(w)
        PROVE  (\A v \in Writers \ {w} : txn'[v] = txn[v]) /\ txn'[w].own = txn[w].own
    <2>1. PICK id \in 0..MaxEvents : txn' = [txn EXCEPT ![w].at = "select", ![w].row = id]
      BY <1>2 DEF SelectLast, Select
    <2> QED
      BY <1>0, <2>1 DEF Txn
  <1>3. ASSUME CommitTxn(w) \/ RollbackTxn(w)
        PROVE  (\A v \in Writers \ {w} : txn'[v] = txn[v]) /\ txn'[w].own = {}
    BY <1>0, <1>3 DEF CommitTxn, RollbackTxn
  <1>4. ASSUME UNCHANGED trailVars
        PROVE  txn' = txn
    BY <1>4 DEF trailVars
  <1> QED
    BY <1>1, <1>2, <1>3, <1>4 DEF TrailPart

LEMMA QuietStart ==
    ASSUME ImportTypeInv, NEW w \in Writers,
           NEW op \in {"preview", "commit", "single"}, NEW b \in Batches \cup {NoBatch}, NEW copy, NEW f \in AllFiles,
           copy \in Batch \cup {NotPreviewed},
           op = "commit" => /\ b \in Batches /\ copy = batches[b] /\ copy.status = "PREVIEWED" /\ f = copy.file
                            /\ \E i \in DOMAIN copy.report : copy.report[i] = "VALID",
           op # "commit" => b = NoBatch,
           Start(w, op, b, copy, f)
    PROVE  \E j : Quiet(w, j)
  <1> DEFINE j == [op |-> op, at |-> "match", batch |-> b, copy |-> copy, file |-> f, report |-> <<>>, own |-> {}]
  <1>1. j \in Job
    BY DEF Job
  <1>2. /\ j.op = op /\ j.at = "match" /\ j.batch = b /\ j.copy = copy /\ j.file = f
        /\ j.report = <<>> /\ j.own = {} /\ j # NoJob
    BY DEF NoJob
  <1>3. job' = [job EXCEPT ![w] = j]
    BY DEF Start
  <1>4. UNCHANGED <<records, batches, abreast, trailVars>>
    BY DEF Start
  <1> HIDE DEF j
  <1>5. Passed(j)
    BY <1>2 DEF Passed, Upto
  <1>6. Loaded(j)
    <2>1. op = "commit" => copy \in Batch
      BY DEF NotPreviewed
    <2> QED
      BY <1>2, <2>1 DEF Loaded
  <1>7. Quiet(w, j)
    BY <1>1, <1>2, <1>3, <1>4, <1>5, <1>6 DEF Quiet, Turn, TrailPart, JobOK, OwnOf
  <1> QED
    BY <1>7

LEMMA QuietStarts ==
    ASSUME ImportTypeInv, NEW w \in Writers,
           \/ \E file \in Files : StartPreview(w, file)
           \/ \E b \in Batches, skip \in BOOLEAN : StartCommit(w, b, skip)
           \/ \E single \in Singles : StartSingle(w, single)
    PROVE  \E j : Quiet(w, j)
  <1>1. ASSUME NEW f \in Files, StartPreview(w, f) PROVE \E j : Quiet(w, j)
    BY <1>1, QuietStart DEF StartPreview, AllFiles
  <1>2. ASSUME NEW f \in Singles, StartSingle(w, f) PROVE \E j : Quiet(w, j)
    BY <1>2, QuietStart DEF StartSingle, AllFiles
  <1>3. ASSUME NEW b \in Batches, NEW skip \in BOOLEAN, StartCommit(w, b, skip) PROVE \E j : Quiet(w, j)
    <2>1. /\ batches[b].status = "PREVIEWED" /\ Start(w, "commit", b, batches[b], batches[b].file)
          /\ \E i \in DOMAIN batches[b].report : batches[b].report[i] = "VALID"
      BY <1>3 DEF StartCommit
    <2>2. batches[b] \in Batch
      BY <2>1 DEF ImportTypeInv, NotPreviewed
    <2>3. batches[b].file \in AllFiles
      BY <2>2 DEF Batch
    <2> QED
      BY <2>1, <2>2, <2>3, QuietStart
  <1> QED
    BY <1>1, <1>2, <1>3

\* What a step within a pass keeps of the job.
LEMMA QuietPass ==
    ASSUME ImportTypeInv, NEW w \in Writers, job[w] # NoJob, NEW j, JobOK(j),
           job' = [job EXCEPT ![w] = j], UNCHANGED <<records, batches>>, TrailPart(w),
           j.op = job[w].op, j.batch = job[w].batch, j.copy = job[w].copy, j.file = job[w].file,
           j.op = "commit" /\ j.at \in {"save", "saved"} => txn'[w].own # {},
           j.op = "commit" /\ j.at = "saved" => batches[j.batch].status # "COMMITTED",
           \A r \in j.own : Unlike(w, r) \/ \E s \in job[w].own : s.type = r.type /\ s.key = r.key
    PROVE  Quiet(w, j)
  <1>1. j # NoJob /\ OwnOf(j) = j.own /\ Own(w) = job[w].own
    BY DEF JobOK, Job, NoJob, OwnOf, Own
  <1> QED
    BY <1>1 DEF Quiet, Turn

LEMMA QuietMatch ==
    ASSUME ImportTypeInv, NEW w \in Writers, MatchRow(w)
    PROVE  \E j : Quiet(w, j)
  <1>1. job[w] # NoJob /\ JobOK(job[w]) /\ job[w] \in Job /\ job[w].at = "match" /\ ~Done(w)
    BY BusyJob DEF MatchRow, NoJob, JobOK
  <1>2. /\ UNCHANGED <<records, batches>> /\ TrailPart(w)
        /\ \A r \in job[w].own : \E s \in job[w].own : s.type = r.type /\ s.key = r.key
    BY DEF MatchRow, TrailPart
  <1> DEFINE is == Matched(job[w].file, Row(w), records \cup job[w].own)
  <1>3. is \in Verdict /\ Row(w) \in DOMAIN job[w].file.rows /\ Row(w) = Len(job[w].report) + 1
    BY <1>1, NextRow, MatchedTyped DEF Job
  <1>4. IF is = "VALID" THEN job' = [job EXCEPT ![w].at = "insert"] ELSE Reported(w, is)
    BY DEF MatchRow
  <1> HIDE DEF is
  <1>5. CASE is = "VALID"
    <2> DEFINE k == job[w]
               j == [k EXCEPT !.at = "insert"]
    <2>1. job' = [job EXCEPT ![w] = j]
      BY <1>4, <1>5
    <2>2. /\ j \in Job /\ j.report = k.report /\ j.at = "insert" /\ j.own = k.own
          /\ j.file = k.file /\ j.batch = k.batch /\ j.op = k.op /\ j.copy = k.copy
      BY <1>1 DEF Job
    <2>3. Passed(k) /\ Loaded(k) /\ k.at = "match" /\ Len(k.report) + 1 \in DOMAIN k.file.rows
      BY <1>1, <1>3 DEF JobOK
    <2> HIDE DEF j, k
    <2>4. Upto(j) = Upto(k) /\ \A i : RowOf(j, i) = RowOf(k, i) /\ (IsValid(j, i) <=> IsValid(k, i))
      BY <2>2, <2>3 DEF Upto, RowOf, IsValid
    <2>5. Passed(j) /\ Loaded(j)
      BY <2>2, <2>3, <2>4 DEF Passed, Loaded
    <2>6. JobOK(j)
      BY <2>2, <2>5 DEF JobOK
    <2>7. Quiet(w, j)
      BY <1>1, <1>2, <2>1, <2>2, <2>6, QuietPass DEF k
    <2> QED
      BY <2>7
  <1>6. CASE is # "VALID"
    <2> DEFINE k == job[w]
               j == [k EXCEPT !.report = Append(@, is), !.at = "match"]
    <2>1. job' = [job EXCEPT ![w] = j]
      BY <1>4, <1>6 DEF Reported
    <2>2. JobOK(j)
      BY <1>1, <1>3, <1>6, NotCreated
    <2>3. /\ j.at = "match" /\ j.own = k.own
          /\ j.file = k.file /\ j.batch = k.batch /\ j.op = k.op /\ j.copy = k.copy
      BY <1>1 DEF Job
    <2> HIDE DEF j
    <2>4. Quiet(w, j)
      BY <1>1, <1>2, <2>1, <2>2, <2>3, QuietPass
    <2> QED
      BY <2>4
  <1> QED
    BY <1>5, <1>6

LEMMA QuietInsert ==
    ASSUME ImportTypeInv, NEW w \in Writers, InsertRow(w)
    PROVE  \E j : Quiet(w, j)
  <1> DEFINE k == job[w]
             row == k.file.rows[Row(w)]
             clash(known) == k.file.type \in Keyed /\ \E r \in known : Same(r, k.file, row)
             new == [type |-> k.file.type, key |-> row.key, values |-> row.values,
                     batch |-> k.batch, row |-> Row(w), event |-> 0]
  <1>1. k # NoJob /\ JobOK(k) /\ k \in Job /\ k.at = "insert" /\ Row(w) = Len(k.report) + 1
    BY BusyJob DEF InsertRow, NoJob, JobOK, Row
  <1>2. UNCHANGED <<records, batches, abreast>>
    BY DEF InsertRow
  <1>3. /\ \A v \in Writers \ {w} : job[v].op # "none" => ~clash(job[v].own)
        /\ IF clash(records) THEN Reported(w, "CONFLICT") /\ UNCHANGED trailVars
           ELSE SelectLast(w) /\ job' = [job EXCEPT ![w] = [k EXCEPT !.at = "record", !.own = @ \cup {new}]]
    BY DEF InsertRow
  <1> HIDE DEF k
  <1>4. CASE clash(records)
    <2> DEFINE j == [k EXCEPT !.report = Append(@, "CONFLICT"), !.at = "match"]
    <2>1. job' = [job EXCEPT ![w] = j] /\ TrailPart(w)
      BY <1>2, <1>3, <1>4 DEF Reported, TrailPart, k
    <2>2. JobOK(j)
      BY <1>1, NotCreated DEF Verdict
    <2>3. /\ j.at = "match" /\ j.own = k.own
          /\ j.file = k.file /\ j.batch = k.batch /\ j.op = k.op /\ j.copy = k.copy
      BY <1>1 DEF Job
    <2> HIDE DEF j
    <2>4. Quiet(w, j)
      BY <1>1, <1>2, <2>1, <2>2, <2>3, QuietPass DEF k
    <2> QED
      BY <2>4
  <1>5. CASE ~clash(records)
    <2> DEFINE j == [k EXCEPT !.at = "record", !.own = @ \cup {new}]
    <2>1. job' = [job EXCEPT ![w] = j] /\ TrailPart(w)
      BY <1>2, <1>3, <1>5 DEF TrailPart
    <2>2. JobOK(j)
      BY <1>1, Created
    <2>3. /\ j.at = "record" /\ j.own = k.own \cup {new}
          /\ j.file = k.file /\ j.batch = k.batch /\ j.op = k.op /\ j.copy = k.copy
      BY <1>1 DEF Job
    <2>4. Unlike(w, new)
      <3>1. \A r : Alike(new, r) => k.file.type \in Keyed /\ Same(r, k.file, row)
        BY DEF Alike, Same
      <3>2. \A s \in records : ~Alike(new, s)
        BY <1>5, <3>1
      <3>3. ASSUME NEW v \in Writers \ {w}, NEW s \in Own(v) PROVE ~Alike(new, s)
        <4>1. job[v].op # "none" /\ s \in job[v].own
          BY <3>3, JobParts DEF Own, OwnOf
        <4> QED
          BY <1>3, <3>1, <4>1
      <3> HIDE DEF new
      <3> QED
        BY <3>2, <3>3 DEF Unlike
    <2>5. \A r \in j.own : Unlike(w, r) \/ \E s \in k.own : s.type = r.type /\ s.key = r.key
      <3> HIDE DEF new
      <3> QED
        BY <2>3, <2>4
    <2> HIDE DEF j, new
    <2>6. Quiet(w, j)
      BY <1>1, <1>2, <2>1, <2>2, <2>3, <2>5, QuietPass DEF k
    <2> QED
      BY <2>6
  <1> QED
    BY <1>4, <1>5

LEMMA QuietRecord ==
    ASSUME ImportTypeInv, NEW w \in Writers, RecordRow(w)
    PROVE  \E j : Quiet(w, j)
  <1> DEFINE k == job[w]
             as(r) == [r EXCEPT !.event = IF @ = 0 THEN nextId ELSE @]
             j == [k EXCEPT !.at = "match", !.report = Append(@, "VALID"), !.own = {as(r) : r \in @}]
  <1>1. k # NoJob /\ JobOK(k) /\ k \in Job /\ k.at = "record" /\ nextId \in Nat
    BY BusyJob DEF RecordRow, NoJob, JobOK, ImportTypeInv, TrailTypeOK
  <1>2. UNCHANGED <<records, batches>> /\ TrailPart(w)
    BY DEF RecordRow, TrailPart
  <1>3. job' = [job EXCEPT ![w] = j]
    BY DEF RecordRow
  <1>4. JobOK(j)
    BY <1>1, Recorded
  <1>5. /\ j.at = "match" /\ j.own = {as(r) : r \in k.own}
        /\ j.file = k.file /\ j.batch = k.batch /\ j.op = k.op /\ j.copy = k.copy
    BY <1>1 DEF Job
  <1>6. \A r \in Record : as(r).type = r.type /\ as(r).key = r.key
    BY DEF Record
  <1>7. k.own \subseteq Record
    BY <1>1 DEF Job
  <1> HIDE DEF j, as, k
  <1>8. \A r \in j.own : \E s \in k.own : s.type = r.type /\ s.key = r.key
    BY <1>5, <1>6, <1>7
  <1>9. Quiet(w, j)
    BY <1>1, <1>2, <1>3, <1>4, <1>5, <1>8, QuietPass DEF k
  <1> QED
    BY <1>9

LEMMA QuietEnd ==
    ASSUME ImportTypeInv, Entered, NEW w \in Writers, CommitEvent(w) \/ RecordCommit(w) \/ SaveBatch(w)
    PROVE  \E j : Quiet(w, j)
  <1> DEFINE k == job[w]
             moved(at) == [k EXCEPT !.at = at]
  <1>1. /\ k # NoJob /\ JobOK(k) /\ k \in Job /\ k.op = "commit" /\ k.at # "record"
        /\ k.report = k.copy.report
        /\ UNCHANGED <<records, batches>>
    BY BusyJob DEF CommitEvent, RecordCommit, SaveBatch, NoJob, JobOK, Loaded
  <1>2. ASSUME NEW at \in {"event", "save", "saved"}, job' = [job EXCEPT ![w] = moved(at)], TrailPart(w),
               at \in {"save", "saved"} => txn'[w].own # {},
               at = "saved" => batches[k.batch].status # "COMMITTED"
        PROVE  \E j : Quiet(w, j)
    <2> DEFINE j == moved(at)
    <2>1. JobOK(j)
      BY <1>1, Moved
    <2>2. /\ j.at = at /\ j.own = k.own
          /\ j.file = k.file /\ j.batch = k.batch /\ j.op = k.op /\ j.copy = k.copy
      BY <1>1 DEF Job
    <2>3. job' = [job EXCEPT ![w] = j]
      BY <1>2
    <2> HIDE DEF j, k
    <2>4. Quiet(w, j)
      BY <1>1, <1>2, <2>1, <2>2, <2>3, QuietPass DEF k
    <2> QED
      BY <2>4
  <1>3. CASE CommitEvent(w)
    <2>1. job' = [job EXCEPT ![w] = moved("event")] /\ TrailPart(w)
      BY <1>3 DEF CommitEvent, TrailPart
    <2> QED
      BY <1>2, <2>1
  <1>4. CASE RecordCommit(w)
    <2>1. job' = [job EXCEPT ![w] = moved("save")] /\ InsertEvent(w) /\ Recording(w)
      BY <1>4 DEF RecordCommit
    <2>2. TrailPart(w)
      BY <2>1 DEF TrailPart
    <2>3. txn'[w].own # {}
      BY <2>1, <2>2, TrailPartEffect DEF ImportTypeInv
    <2> HIDE DEF moved
    <2> QED
      BY <1>2, <2>1, <2>2, <2>3
  <1>5. CASE SaveBatch(w)
    <2>1. CASE batches[k.batch].status = "COMMITTED"
      <3>1. job' = [job EXCEPT ![w] = NoJob] /\ TrailPart(w)
        BY <1>5, <2>1 DEF SaveBatch, Rollback, Leave, TrailPart
      <3>2. Quiet(w, NoJob)
        BY <1>1, <3>1 DEF Quiet, Turn, OwnOf, NoJob
      <3> QED
        BY <3>2
    <2>2. CASE batches[k.batch].status # "COMMITTED"
      <3>1. job' = [job EXCEPT ![w] = moved("saved")] /\ UNCHANGED trailVars /\ UNCHANGED abreast
        BY <1>5, <2>2 DEF SaveBatch
      <3>2. txn'[w].own # {}
        BY <1>5, <3>1 DEF SaveBatch, Entered, trailVars
      <3>3. TrailPart(w)
        BY <3>1 DEF TrailPart
      <3> HIDE DEF moved
      <3> QED
        BY <1>2, <2>2, <3>1, <3>2, <3>3
    <2> QED
      BY <2>1, <2>2
  <1> QED
    BY <1>3, <1>4, <1>5

LEMMA QuietLeave ==
    ASSUME ImportTypeInv, NEW w \in Writers, StalePreview(w) \/ Abort(w) \/ OtherWrite(w)
    PROVE  \E j : Quiet(w, j)
  <1>1. UNCHANGED <<records, batches>> /\ TrailPart(w) /\ job' = [job EXCEPT ![w] = NoJob]
    BY DEF StalePreview, Abort, OtherWrite, Rollback, Leave, TrailPart, ImportTypeInv
  <1>2. Quiet(w, NoJob)
    BY <1>1 DEF Quiet, Turn, OwnOf, NoJob
  <1> QED
    BY <1>2

\* The rest of a step: a preview, a commit or a screen that ends with what it wrote.
LEMMA Ends ==
    ASSUME ImportTypeInv, NEW w \in Writers,
           (\E b \in Batches : EndPreview(w, b)) \/ CommitImport(w) \/ EndSingle(w)
    PROVE  Turn(w, NoJob) /\ job[w] # NoJob /\ JobOK(job[w])
  <1>1. job[w] # NoJob /\ JobOK(job[w])
    BY BusyJob DEF EndPreview, CommitImport, EndSingle, NoJob
  <1>2. TrailPart(w) /\ job' = [job EXCEPT ![w] = NoJob]
    BY DEF EndPreview, CommitImport, EndSingle, Rollback, Leave, TrailPart
  <1> QED
    BY <1>1, <1>2 DEF Turn, NoJob

LEMMA JobsTyped ==
    ASSUME ImportTypeInv, NEW w \in Writers, NEW j, Turn(w, j)
    PROVE  /\ \A v \in Writers : job'[v] = IF v = w THEN j ELSE job[v]
           /\ \A v \in Writers : job'[v] = NoJob \/ JobOK(job'[v])
           /\ job' = [v \in Writers |-> job'[v]]
           /\ abreast' \in BOOLEAN
  <1>1. job' = [job EXCEPT ![w] = j] /\ (j = NoJob \/ JobOK(j)) /\ TrailPart(w)
    BY DEF Turn
  <1>2. job = [v \in Writers |-> job[v]] /\ \A v \in Writers : job[v] = NoJob \/ JobOK(job[v])
    BY DEF ImportTypeInv
  <1>3. /\ \A v \in Writers : job'[v] = IF v = w THEN j ELSE job[v]
        /\ job' = [v \in Writers |-> job'[v]]
    BY <1>1, <1>2
  <1>4. abreast' \in BOOLEAN
    <2>1. CASE InsertEvent(w) /\ Recording(w)
      BY <2>1, Zenon DEF Recording
    <2>2. CASE UNCHANGED abreast
      BY <2>2 DEF ImportTypeInv
    <2> QED
      BY <1>1, <2>1, <2>2 DEF TrailPart
  <1> QED
    BY <1>1, <1>2, <1>3, <1>4

\* No two records of a keyed type are alike among what is committed and what each writer would commit.
Apart ==
    /\ \A w \in Writers : \A r \in Own(w), s \in records : ~Alike(r, s)
    /\ \A v, w \in Writers : v # w => \A r \in Own(v), s \in Own(w) : ~Alike(r, s)

\* Records of a batch are of rows of its file, and only a committed batch has any.
FromBatch ==
    \A r \in records : r.batch \in Batches =>
       /\ batches[r.batch].status = "COMMITTED"
       /\ r.type = batches[r.batch].file.type
       /\ r.key = batches[r.batch].file.rows[r.row].key

\* What a commit loaded of its batch is still there.
CopiesHold ==
    \A w \in Writers : job[w].op = "commit" =>
       /\ batches[job[w].batch] \in Batch
       /\ batches[job[w].batch].file = job[w].file
       /\ batches[job[w].batch].report = job[w].copy.report

\* While the lock on the last event keeps transactions apart, one at most has events of its own, and it
\* saves a batch that is not committed.
InTurn ==
    ~abreast =>
        /\ \A v, w \in Writers : txn[v].own # {} /\ txn[w].own # {} => v = w
        /\ \A w \in Writers : job[w].op = "commit" /\ job[w].at = "saved" => batches[job[w].batch].status = "PREVIEWED"

\* ImportedOnce, without counting.
OneEach ==
    \A b \in Batches :
       batches[b] # NotPreviewed /\ (batches[b].file.type \in Keyed \/ ~abreast) =>
          \A i \in DOMAIN batches[b].report :
             IF batches[b].status = "COMMITTED" /\ batches[b].report[i] = "VALID"
             THEN \E r \in records : CreatedFrom(b, i) = {r}
             ELSE CreatedFrom(b, i) = {}

ImportInv == ImportTypeInv /\ Entered /\ Apart /\ FromBatch /\ CopiesHold /\ InTurn /\ OneEach

LEMMA OneEachMeans == OneEach => ImportedOnce
  <1> SUFFICES ASSUME OneEach,
                      NEW b \in Batches, batches[b] # NotPreviewed,
                      batches[b].file.type \in Keyed \/ ~abreast,
                      NEW i \in DOMAIN batches[b].report
               PROVE  Cardinality(CreatedFrom(b, i)) =
                         IF batches[b].status = "COMMITTED" /\ batches[b].report[i] = "VALID" THEN 1 ELSE 0
    BY DEF ImportedOnce
  <1>1. \A r : Cardinality({r}) = 1
    BY FS_Singleton
  <1>2. Cardinality({}) = 0
    BY FS_EmptySet
  <1> QED
    BY <1>1, <1>2 DEF OneEach

\* What any step keeps, of the trail and of the requests.
LEMMA TurnKeeps ==
    ASSUME ImportInv, NEW w \in Writers, NEW j, Turn(w, j)
    PROVE  /\ Entered'
           /\ ~abreast' => ~abreast /\ \A u, v \in Writers : txn'[u].own # {} /\ txn'[v].own # {} => u = v
  <1>1. \A v \in Writers : job'[v] = IF v = w THEN j ELSE job[v]
    BY JobsTyped DEF ImportInv
  <1>2. /\ \A v \in Writers \ {w} : txn'[v] = txn[v]
        /\ ~(InsertEvent(w) /\ Recording(w)) => UNCHANGED abreast /\ txn'[w].own \in {{}, txn[w].own}
    BY TrailPartEffect DEF ImportInv, ImportTypeInv, Turn
  <1>3. Entered'
    BY <1>1, <1>2 DEF Entered, ImportInv, Turn
  <1>4. ASSUME ~abreast'
        PROVE  ~abreast /\ \A u, v \in Writers : txn'[u].own # {} /\ txn'[v].own # {} => u = v
    <2>1. CASE InsertEvent(w) /\ Recording(w)
      <3>1. abreast' = (abreast \/ \E v \in Writers \ {w} : txn[v].own # {})
        BY <2>1 DEF Recording
      <3>2. ~abreast /\ \A v \in Writers \ {w} : txn[v].own = {}
        BY <1>4, <3>1, Zenon
      <3> QED
        BY <1>2, <3>2
    <2>2. CASE ~(InsertEvent(w) /\ Recording(w))
      BY <1>2, <1>4, <2>2 DEF ImportInv, InTurn
    <2> QED
      BY <2>1, <2>2
  <1> QED
    BY <1>3, <1>4

LEMMA QuietKeeps ==
    ASSUME ImportInv, NEW w \in Writers, NEW j, Quiet(w, j)
    PROVE  Entered' /\ Apart' /\ FromBatch' /\ CopiesHold' /\ InTurn' /\ OneEach'
  <1>1. /\ Turn(w, j) /\ records' = records /\ batches' = batches
        /\ \A r \in OwnOf(j) : Unlike(w, r) \/ \E s \in Own(w) : s.type = r.type /\ s.key = r.key
        /\ j.op = "commit" /\ j.at = "saved" => batches[j.batch].status # "COMMITTED"
    BY DEF Quiet
  <1>2. \A v \in Writers : job'[v] = IF v = w THEN j ELSE job[v]
    BY <1>1, JobsTyped DEF ImportInv
  <1>3. /\ Entered'
        /\ ~abreast' => ~abreast /\ \A u, v \in Writers : txn'[u].own # {} /\ txn'[v].own # {} => u = v
    BY <1>1, TurnKeeps
  <1>4. FromBatch'
    BY <1>1 DEF FromBatch, ImportInv
  <1>5. OneEach'
    BY <1>1, <1>3 DEF OneEach, CreatedFrom, ImportInv
  <1>6. CopiesHold'
    <2>1. j.op = "commit" => /\ batches[j.batch] \in Batch
                             /\ batches[j.batch].file = j.file
                             /\ batches[j.batch].report = j.copy.report
      <3>1. j.op = "commit" => JobOK(j)
        BY <1>1 DEF Turn, NoJob
      <3> QED
        BY <1>1, <3>1 DEF Turn, CopiesHold, ImportInv, JobOK, Loaded
    <2> QED
      BY <1>1, <1>2, <2>1 DEF CopiesHold, ImportInv
  <1>7. Apart'
    <2>1. \A v \in Writers : Own(v)' = IF v = w THEN OwnOf(j) ELSE Own(v)
      BY <1>2 DEF Own, OwnOf
    <2>2. \A r \in OwnOf(j), s \in records : ~Alike(r, s)
      BY <1>1 DEF Unlike, Apart, Alike, ImportInv
    <2>3. \A v \in Writers \ {w} : \A r \in OwnOf(j), s \in Own(v) : ~Alike(r, s) /\ ~Alike(s, r)
      BY <1>1 DEF Unlike, Apart, Alike, ImportInv
    <2> QED
      BY <1>1, <2>1, <2>2, <2>3 DEF Apart, ImportInv
  <1>8. InTurn'
    <2> SUFFICES ASSUME ~abreast', NEW v \in Writers, job'[v].op = "commit", job'[v].at = "saved"
                 PROVE  batches[job'[v].batch].status = "PREVIEWED"
      BY <1>1, <1>3 DEF InTurn
    <2>1. CASE v # w
      BY <1>2, <1>3, <2>1 DEF InTurn, ImportInv
    <2>2. CASE v = w
      <3>1. job'[v] = j
        BY <1>2, <2>2
      <3>2. batches[j.batch] \in Batch
        BY <1>1, <1>6, <2>2, <3>1 DEF CopiesHold
      <3> QED
        BY <1>1, <3>1, <3>2 DEF Batch
    <2> QED
      BY <2>1, <2>2
  <1> QED
    BY <1>3, <1>4, <1>5, <1>6, <1>7, <1>8

\* When w ends, what the others have is as it was.
LEMMA OthersStay ==
    ASSUME ImportTypeInv, NEW w \in Writers, Turn(w, NoJob)
    PROVE  \A v \in Writers : Own(v)' = IF v = w THEN {} ELSE Own(v)
  BY JobsTyped DEF Own, OwnOf

LEMMA PreviewKeeps ==
    ASSUME ImportInv, NEW w \in Writers, NEW b \in Batches, EndPreview(w, b)
    PROVE  Entered' /\ Apart' /\ FromBatch' /\ CopiesHold' /\ InTurn' /\ OneEach'
  <1> DEFINE kept == [status |-> "PREVIEWED", file |-> job[w].file, report |-> job[w].report]
  <1>1. Turn(w, NoJob) /\ JobOK(job[w])
    BY Ends DEF ImportInv
  <1>2. /\ records' = records /\ batches[b] = NotPreviewed /\ batches' = [batches EXCEPT ![b] = kept]
        /\ kept.status = "PREVIEWED"
    BY DEF EndPreview
  <1> HIDE DEF kept
  <1>3. \A v \in Writers : job'[v] = IF v = w THEN NoJob ELSE job[v]
    BY <1>1, JobsTyped DEF ImportInv
  <1>4. /\ Entered'
        /\ ~abreast' => ~abreast /\ \A u, v \in Writers : txn'[u].own # {} /\ txn'[v].own # {} => u = v
    BY <1>1, TurnKeeps
  <1>5. \A a \in Batches : batches'[a] = IF a = b THEN kept ELSE batches[a]
    BY <1>2 DEF ImportInv, ImportTypeInv
  <1>6. \A v \in Writers : job'[v].op = "commit" => job[v] = job'[v] /\ job'[v].batch \in Batches \ {b}
    <2> SUFFICES ASSUME NEW v \in Writers, job'[v].op = "commit"
                 PROVE  job[v] = job'[v] /\ job'[v].batch \in Batches \ {b}
      OBVIOUS
    <2>1. job[v] = job'[v] /\ job[v].op = "commit"
      BY <1>3 DEF NoJob
    <2>2. JobOK(job[v])
      BY <2>1, BusyJob DEF ImportInv
    <2>3. job[v].batch \in Batches /\ batches[job[v].batch] \in Batch
      BY <2>1, <2>2 DEF ImportInv, CopiesHold, JobOK, Loaded
    <2> QED
      BY <1>2, <2>1, <2>3 DEF Batch, NotPreviewed
  <1>7. \A r \in records : r.batch # b
    BY <1>2 DEF ImportInv, FromBatch, NotPreviewed
  <1>8. Apart'
    BY <1>1, <1>2, OthersStay DEF Apart, ImportInv
  <1>9. FromBatch'
    BY <1>2, <1>5, <1>7 DEF FromBatch, ImportInv
  <1>10. CopiesHold'
    BY <1>5, <1>6 DEF CopiesHold, ImportInv
  <1>11. InTurn'
    BY <1>4, <1>5, <1>6 DEF InTurn, ImportInv
  <1>12. OneEach'
    <2> SUFFICES ASSUME NEW a \in Batches, batches'[a] # NotPreviewed,
                        batches'[a].file.type \in Keyed \/ ~abreast',
                        NEW i \in DOMAIN batches'[a].report
                 PROVE  IF batches'[a].status = "COMMITTED" /\ batches'[a].report[i] = "VALID"
                        THEN \E r \in records : {x \in records : x.batch = a /\ x.row = i} = {r}
                        ELSE {x \in records : x.batch = a /\ x.row = i} = {}
      BY <1>2 DEF OneEach, CreatedFrom
    <2>1. CASE a = b
      BY <1>2, <1>5, <1>7, <2>1
    <2>2. CASE a # b
      BY <1>4, <1>5, <2>2 DEF OneEach, CreatedFrom, ImportInv
    <2> QED
      BY <2>1, <2>2
  <1> QED
    BY <1>4, <1>8, <1>9, <1>10, <1>11, <1>12

LEMMA SingleKeeps ==
    ASSUME ImportInv, NEW w \in Writers, EndSingle(w)
    PROVE  Entered' /\ Apart' /\ FromBatch' /\ CopiesHold' /\ InTurn' /\ OneEach'
  <1>1. Turn(w, NoJob) /\ JobOK(job[w]) /\ job[w] # NoJob /\ job[w].op = "single"
    BY Ends DEF ImportInv, EndSingle
  <1>2. batches' = batches /\ (records' = records \/ records' = records \cup Own(w))
    BY <1>1 DEF EndSingle, Own, OwnOf
  <1>3. \A v \in Writers : job'[v] = IF v = w THEN NoJob ELSE job[v]
    BY <1>1, JobsTyped DEF ImportInv
  <1>4. /\ Entered'
        /\ ~abreast' => ~abreast /\ \A u, v \in Writers : txn'[u].own # {} /\ txn'[v].own # {} => u = v
    BY <1>1, TurnKeeps
  <1>5. \A r \in Own(w) : r.batch \notin Batches
    BY <1>1, ImportAssumption DEF JobOK, Passed, Loaded, Own, OwnOf
  <1>6. Apart'
    BY <1>1, <1>2, OthersStay DEF Apart, ImportInv, Alike
  <1>7. FromBatch'
    BY <1>2, <1>5 DEF FromBatch, ImportInv
  <1>8. CopiesHold'
    BY <1>2, <1>3 DEF CopiesHold, ImportInv, NoJob
  <1>9. InTurn'
    BY <1>2, <1>3, <1>4 DEF InTurn, ImportInv, NoJob
  <1>10. OneEach'
    <2>1. \A a \in Batches : \A i : CreatedFrom(a, i)' = CreatedFrom(a, i)
      BY <1>2, <1>5 DEF CreatedFrom
    <2>2. records \subseteq records'
      BY <1>2
    <2> QED
      BY <1>2, <1>4, <2>1, <2>2 DEF OneEach, ImportInv
  <1> QED
    BY <1>4, <1>6, <1>7, <1>8, <1>9, <1>10

LEMMA CommitKeeps ==
    ASSUME ImportInv, NEW w \in Writers, CommitImport(w)
    PROVE  Entered' /\ Apart' /\ FromBatch' /\ CopiesHold' /\ InTurn' /\ OneEach'
  <1> DEFINE j == job[w]
             b == j.batch
  <1>1. Turn(w, NoJob) /\ JobOK(j) /\ j # NoJob /\ j.op = "commit" /\ j.at = "saved"
    BY Ends DEF ImportInv, CommitImport
  <1>2. /\ records' = records \cup Own(w) /\ Own(w) = j.own
        /\ batches' = [batches EXCEPT ![b].status = "COMMITTED", ![b].report = j.report]
    BY <1>1 DEF CommitImport, Own, OwnOf
  <1>3. \A v \in Writers : job'[v] = IF v = w THEN NoJob ELSE job[v]
    BY <1>1, JobsTyped DEF ImportInv
  <1>4. /\ Entered'
        /\ ~abreast' => ~abreast /\ \A u, v \in Writers : txn'[u].own # {} /\ txn'[v].own # {} => u = v
    BY <1>1, TurnKeeps
  <1>5. /\ b \in Batches /\ j.report = j.copy.report /\ j.report \in Seq(Verdict) /\ Passed(j)
        /\ \E i \in DOMAIN j.report : j.report[i] = "VALID"
    BY <1>1 DEF JobOK, Loaded, Job
  <1>6. batches[b] \in Batch /\ batches[b].file = j.file /\ batches[b].report = j.report
    BY <1>1, <1>5 DEF ImportInv, CopiesHold
  <1> HIDE DEF j, b
  <1>7. /\ \A a \in Batches \ {b} : batches'[a] = batches[a]
        /\ batches'[b].status = "COMMITTED" /\ batches'[b].report = batches[b].report /\ batches'[b].file = batches[b].file
        /\ batches'[b] \in Batch
    BY <1>2, <1>5, <1>6 DEF ImportInv, ImportTypeInv, Batch
  <1>8. \A r \in j.own : r.batch = b /\ r.type = j.file.type /\ r.key = j.file.rows[r.row].key
    BY <1>5 DEF Passed, b
  <1>9. Upto(j) = Len(j.report)
    BY <1>1 DEF Upto
  <1>10. Apart'
    <2>1. \A v \in Writers : Own(v)' = IF v = w THEN {} ELSE Own(v)
      BY <1>1, OthersStay DEF ImportInv
    <2> QED
      BY <1>2, <2>1 DEF Apart, ImportInv, Alike
  <1>11. FromBatch'
    <2> SUFFICES ASSUME NEW r \in records', r.batch \in Batches
                 PROVE  /\ batches'[r.batch].status = "COMMITTED"
                        /\ r.type = batches'[r.batch].file.type
                        /\ r.key = batches'[r.batch].file.rows[r.row].key
      BY DEF FromBatch
    <2>1. CASE r \in j.own
      BY <1>6, <1>7, <1>8, <2>1
    <2>2. CASE r \in records
      <3>1. /\ batches[r.batch].status = "COMMITTED"
            /\ r.type = batches[r.batch].file.type
            /\ r.key = batches[r.batch].file.rows[r.row].key
        BY <2>2 DEF FromBatch, ImportInv
      <3> QED
        BY <1>7, <3>1
    <2> QED
      BY <1>2, <2>1, <2>2
  <1>12. CopiesHold'
    <2> SUFFICES ASSUME NEW v \in Writers, job'[v].op = "commit"
                 PROVE  /\ batches'[job'[v].batch] \in Batch
                        /\ batches'[job'[v].batch].file = job'[v].file
                        /\ batches'[job'[v].batch].report = job'[v].copy.report
      BY DEF CopiesHold
    <2>1. job'[v] = job[v] /\ job[v].op = "commit"
      BY <1>3 DEF NoJob
    <2>2. job[v].batch \in Batches
      BY <2>1, BusyJob DEF ImportInv, JobOK, Loaded
    <2> QED
      BY <1>7, <2>1, <2>2 DEF ImportInv, CopiesHold
  <1>13. InTurn'
    <2> SUFFICES ASSUME ~abreast', NEW v \in Writers, job'[v].op = "commit", job'[v].at = "saved"
                 PROVE  batches'[job'[v].batch].status = "PREVIEWED"
      BY <1>4 DEF InTurn
    <2>1. v # w /\ job'[v] = job[v]
      BY <1>3 DEF NoJob
    <2>2. txn[v].own # {} /\ txn[w].own # {}
      BY <1>1, <2>1 DEF ImportInv, Entered, j
    <2> QED
      BY <1>4, <2>1, <2>2 DEF ImportInv, InTurn
  <1>14. batches[b].file.type \in Keyed \/ ~abreast => batches[b].status = "PREVIEWED"
    <2>1. CASE ~abreast
      BY <1>1, <2>1 DEF ImportInv, InTurn, j, b
    <2>2. CASE batches[b].file.type \in Keyed /\ batches[b].status # "PREVIEWED"
      <3>1. PICK i \in DOMAIN j.report : j.report[i] = "VALID"
        BY <1>5
      <3>2. batches[b] # NotPreviewed /\ batches[b].status = "COMMITTED"
        BY <1>6, <2>2 DEF Batch, NotPreviewed
      <3>3. PICK s \in records : CreatedFrom(b, i) = {s}
        BY <1>5, <1>6, <2>2, <3>1, <3>2 DEF OneEach, ImportInv
      <3>4. s.batch = b /\ s.row = i
        BY <3>3 DEF CreatedFrom
      <3>5. s.type = j.file.type /\ s.key = j.file.rows[i].key
        BY <1>5, <1>6, <3>4 DEF FromBatch, ImportInv
      <3>6. PICK r \in j.own : RowOf(j, i) = {r}
        BY <1>5, <1>9, <3>1 DEF Passed, IsValid
      <3>7. r.row = i /\ r.type = j.file.type /\ r.key = j.file.rows[i].key
        BY <1>8, <3>6 DEF RowOf
      <3>8. Alike(r, s)
        BY <1>6, <2>2, <3>5, <3>7 DEF Alike
      <3> QED
        BY <1>2, <3>6, <3>8 DEF ImportInv, Apart
    <2> QED
      BY <2>1, <2>2
  <1>15. OneEach'
    <2> SUFFICES ASSUME NEW a \in Batches, batches'[a] # NotPreviewed,
                        batches'[a].file.type \in Keyed \/ ~abreast',
                        NEW i \in DOMAIN batches'[a].report
                 PROVE  IF batches'[a].status = "COMMITTED" /\ batches'[a].report[i] = "VALID"
                        THEN \E r \in records' : {x \in records' : x.batch = a /\ x.row = i} = {r}
                        ELSE {x \in records' : x.batch = a /\ x.row = i} = {}
      BY DEF OneEach, CreatedFrom
    <2>1. CASE a # b
      <3>1. {x \in records' : x.batch = a /\ x.row = i} = CreatedFrom(a, i)
        BY <1>2, <1>8, <2>1 DEF CreatedFrom
      <3> QED
        BY <1>2, <1>4, <1>7, <2>1, <3>1 DEF OneEach, ImportInv
    <2>2. CASE a = b
      <3>1. batches[b].status = "PREVIEWED"
        BY <1>4, <1>7, <1>14, <2>2
      <3>2. \A x \in records : x.batch # b
        BY <1>5, <3>1 DEF FromBatch, ImportInv
      <3>3. {x \in records' : x.batch = a /\ x.row = i} = RowOf(j, i)
        BY <1>2, <1>8, <2>2, <3>2 DEF RowOf
      <3>4. i \in 1..Upto(j) /\ (IsValid(j, i) <=> batches'[a].report[i] = "VALID")
        BY <1>5, <1>6, <1>7, <1>9, <2>2 DEF IsValid
      <3>5. IF IsValid(j, i) THEN \E r \in j.own : RowOf(j, i) = {r} ELSE RowOf(j, i) = {}
        BY <1>5, <3>4 DEF Passed
      <3> QED
        BY <1>2, <1>7, <2>2, <3>3, <3>4, <3>5
    <2> QED
      BY <2>1, <2>2
  <1> QED
    BY <1>4, <1>10, <1>11, <1>12, <1>13, <1>15

LEMMA ImportTypeKept ==
    ASSUME ImportTypeInv, Entered, CopiesHold, [ImportNext]_importAllVars
    PROVE  ImportTypeInv'
  <1>1. TrailTypeOK'
    BY TrailStep, TrailNextTyped DEF ImportTypeInv
  <1>2. CASE UNCHANGED importAllVars
    BY <1>1, <1>2 DEF importAllVars, importVars, ImportTypeInv
  <1>3. ASSUME NEW w \in Writers, NEW j, Quiet(w, j) PROVE ImportTypeInv'
    BY <1>1, <1>3, JobsTyped DEF ImportTypeInv, Quiet
  <1>4. ASSUME NEW w \in Writers, (\E b \in Batches : EndPreview(w, b)) \/ CommitImport(w) \/ EndSingle(w)
        PROVE  ImportTypeInv'
    <2>1. Turn(w, NoJob) /\ JobOK(job[w])
      BY <1>4, Ends
    <2>2. job[w] \in Job /\ job[w].own \subseteq Record /\ job[w].report \in Seq(Verdict) /\ job[w].file \in AllFiles
      BY <2>1 DEF JobOK, Job
    <2>3. records' \in SUBSET Record
      BY <1>4, <2>2 DEF EndPreview, CommitImport, EndSingle, ImportTypeInv
    <2>4. batches' \in [Batches -> Batch \cup {NotPreviewed}]
      <3>1. ASSUME NEW b \in Batches, EndPreview(w, b) PROVE batches' \in [Batches -> Batch \cup {NotPreviewed}]
        <4>1. [status |-> "PREVIEWED", file |-> job[w].file, report |-> job[w].report] \in Batch
          BY <2>2 DEF Batch
        <4> QED
          BY <3>1, <4>1 DEF EndPreview, ImportTypeInv
      <3>2. CASE CommitImport(w)
        <4> DEFINE b == job[w].batch
                   kept == [batches[b] EXCEPT !.status = "COMMITTED", !.report = job[w].report]
        <4>1. b \in Batches /\ job[w].op = "commit"
          BY <2>1, <3>2 DEF CommitImport, JobOK, Loaded
        <4>2. kept \in Batch
          <5> DEFINE old == batches[b]
                     report == job[w].report
          <5>1. old \in Batch /\ report \in Seq(Verdict)
            BY <2>2, <4>1 DEF CopiesHold
          <5> HIDE DEF old, report
          <5>2. [old EXCEPT !.status = "COMMITTED", !.report = report] \in Batch
            BY <5>1 DEF Batch
          <5> QED
            BY <5>2 DEF old, report
        <4>3. batches' = [batches EXCEPT ![b] = kept]
          BY <3>2 DEF CommitImport
        <4> QED
          BY <4>1, <4>2, <4>3 DEF ImportTypeInv
      <3>3. CASE EndSingle(w)
        BY <3>3 DEF EndSingle, ImportTypeInv
      <3> QED
        BY <1>4, <3>1, <3>2, <3>3
    <2> QED
      BY <1>1, <2>1, <2>3, <2>4, JobsTyped DEF ImportTypeInv
  <1> QED
    BY <1>2, <1>3, <1>4, QuietStarts, QuietMatch, QuietInsert, QuietRecord, QuietEnd, QuietLeave DEF ImportNext

LEMMA ImportInvNext == ImportInv /\ [ImportNext]_importAllVars => ImportInv'
  <1> SUFFICES ASSUME ImportInv, [ImportNext]_importAllVars PROVE ImportInv'
    OBVIOUS
  <1>1. ImportTypeInv'
    BY ImportTypeKept DEF ImportInv
  <1>2. CASE UNCHANGED importAllVars
    BY <1>1, <1>2 DEF importAllVars, importVars, trailVars, ImportInv, Entered, Apart, FromBatch, CopiesHold, InTurn,
                      OneEach, CreatedFrom, Own, OwnOf
  <1>3. ASSUME NEW w \in Writers, NEW j, Quiet(w, j) PROVE ImportInv'
    BY <1>1, <1>3, QuietKeeps DEF ImportInv
  <1>4. ASSUME NEW w \in Writers, (\E b \in Batches : EndPreview(w, b)) \/ CommitImport(w) \/ EndSingle(w)
        PROVE  ImportInv'
    BY <1>1, <1>4, PreviewKeeps, CommitKeeps, SingleKeeps DEF ImportInv
  <1>5. ImportTypeInv /\ Entered
    BY DEF ImportInv
  <1> QED
    BY <1>2, <1>3, <1>4, <1>5, QuietStarts, QuietMatch, QuietInsert, QuietRecord, QuietEnd, QuietLeave DEF ImportNext

LEMMA ImportInvInit == ImportInit => ImportInv
  <1> SUFFICES ASSUME ImportInit PROVE ImportInv
    OBVIOUS
  <1>1. TrailTypeOK
    BY TrailInitTyped DEF ImportInit
  <1>2. /\ records = {} /\ abreast = FALSE
        /\ batches = [b \in Batches |-> NotPreviewed] /\ job = [w \in Writers |-> NoJob]
        /\ \A w \in Writers : job[w] = NoJob /\ txn[w].own = {}
    BY DEF ImportInit, TrailInit, NoTxn
  <1>3. ImportTypeInv
    BY <1>1, <1>2 DEF ImportTypeInv
  <1> QED
    BY <1>2, <1>3 DEF ImportInv, Entered, Apart, FromBatch, CopiesHold, InTurn, OneEach, Own, OwnOf, NoJob

\* Jobs, batches and records keep their types, and a pass under way has made exactly one record of every row it
\* found valid.
THEOREM ImportTypeCorrect == ImportSpec => []ImportTypeInv
  <1>1. ImportInv => ImportTypeInv
    BY DEF ImportInv
  <1> QED
    BY <1>1, ImportInvInit, ImportInvNext, PTL DEF ImportSpec, importAllVars

\* A committed batch has made one record of every row its report calls valid and none of another, whoever else
\* commits it or imports the same at once.
THEOREM ImportsHappenOnce == ImportSpec => []ImportedOnce
  <1>1. ImportInv => ImportedOnce
    BY OneEachMeans DEF ImportInv
  <1> QED
    BY <1>1, ImportInvInit, ImportInvNext, PTL DEF ImportSpec, importAllVars

-----------------------------------------------------------------------------
(* Columns and fields *)

Suggestion == [field : Fields \cup {NoField}, source : {"EXACT", "ALIAS", "FUZZY", "AI", NoField},
               status : {"MAPPED", "SUGGESTED", "UNMAPPED", "AMBIGUOUS"}]

\* Named, of a row of headers.
NamedIn(row, c, f) ==
    /\ NamedFields(row[c]) = {f}
    /\ \A d \in Texts(row) \ {c} : /\ NamedFields(row[d]) # {f}
                                   /\ row[d].named = {} => row[d].leader # f

\* What is noted of the columns is what the headers say; a field that a header names is given to no other column.
FromHeader(row, found) ==
    /\ DOMAIN found = Texts(row)
    /\ \A c \in Texts(row) :
          /\ found[c] \in Suggestion
          /\ found[c].source \in {"EXACT", "ALIAS"} => <<found[c].field, found[c].source>> \in row[c].named
    /\ \A c \in Texts(row), f \in Fields : NamedIn(row, c, f) =>
          /\ found[c].field = f /\ found[c].status = "MAPPED"
          /\ \A d \in Texts(row) \ {c} : found[d].field # f

Distinct(found) == \A c, d \in DOMAIN found : found[c].field = found[d].field /\ found[c].field # NoField => c = d

MappingInv ==
    /\ sheet \in Sheets
    /\ stage \in {"uploaded", "matching", "shown", "confirmed", "recorded"}
    /\ stage # "uploaded" => /\ header \in DOMAIN sheet
                             /\ FromHeader(sheet[header], columns)
                             /\ FieldsIn(columns, Mapped(columns)) \subseteq taken
    /\ stage \in {"shown", "recorded"} => Distinct(columns)
    /\ stage = "recorded" => \A c \in DOMAIN sources : sources[c] \in {"EXACT", "ALIAS"} =>
                                                          <<mapping[c], sources[c]>> \in sheet[header][c].named

\* A set written out is finite.
LEMMA OneMore ==
    ASSUME NEW S, NEW x, IsFiniteSet(S)
    PROVE  IsFiniteSet(S \cup {x})
  BY FS_AddElement

LEMMA FieldsFinite == IsFiniteSet(Fields)
  <1>0. IsFiniteSet({})
    BY FS_EmptySet
  <1>1. \A a, b, c, d, e, f, g, h, i, j, k : IsFiniteSet({a, b, c, d, e, f, g, h, i, j, k})
    <2> SUFFICES ASSUME NEW a, NEW b, NEW c, NEW d, NEW e, NEW f, NEW g, NEW h, NEW i, NEW j, NEW k
                 PROVE  IsFiniteSet({a, b, c, d, e, f, g, h, i, j, k})
      OBVIOUS
    <2>1. IsFiniteSet({} \cup {a} \cup {b} \cup {c} \cup {d})
      BY <1>0, OneMore
    <2> DEFINE four == {} \cup {a} \cup {b} \cup {c} \cup {d}
    <2> HIDE DEF four
    <2>2. IsFiniteSet(four \cup {e} \cup {f} \cup {g} \cup {h})
      BY <2>1, OneMore DEF four
    <2> DEFINE eight == four \cup {e} \cup {f} \cup {g} \cup {h}
    <2> HIDE DEF eight
    <2>3. IsFiniteSet(eight \cup {i} \cup {j} \cup {k})
      BY <2>2, OneMore DEF eight
    <2>4. {a, b, c, d, e, f, g, h, i, j, k} = eight \cup {i} \cup {j} \cup {k}
      BY DEF four, eight
    <2> QED
      BY <2>3, <2>4
  <1>2. Fields \in {FieldsOf[t] : t \in DOMAIN FieldsOf}
    BY MappingAssumption DEF Fields
  <1>3. DOMAIN FieldsOf = {"structure", "courses", "faculty", "scholars", "enrollments", "assignments"}
    BY DEF FieldsOf
  <1> DEFINE all(a, b, c, d, e, f, g, h, i, j, k) == {a, b, c, d, e, f, g, h, i, j, k}
  <1>4. /\ FieldsOf["structure"] = all("school_code", "school_name", "department_code", "department_name",
                                       "university_code", "university_code", "university_code", "university_code",
                                       "university_code", "university_code", "university_code")
        /\ FieldsOf["courses"] = all("code", "title", "credits", "category", "activity_type", "department",
                                     "has_ethics_submodule", "code", "code", "code", "code")
        /\ FieldsOf["faculty"] = all("name", "email", "designation", "department", "is_external", "affiliation",
                                     "name", "name", "name", "name", "name")
        /\ FieldsOf["scholars"] = all("prn", "name", "email", "gender", "category", "entry_qualification",
                                      "department", "admission_date", "registration_date", "research_area",
                                      "pwd_percent")
        /\ FieldsOf["enrollments"] = all("prn", "course_code", "academic_year", "term", "section",
                                         "prn", "prn", "prn", "prn", "prn", "prn")
        /\ FieldsOf["assignments"] = all("faculty_email", "course_code", "academic_year", "term", "role", "section",
                                         "basis", "valid_from", "valid_to", "term", "term")
    BY DEF FieldsOf
  <1>5. \A a, b, c, d, e, f, g, h, i, j, k : IsFiniteSet(all(a, b, c, d, e, f, g, h, i, j, k))
    BY <1>1
  <1> HIDE DEF all
  <1>6. \A t \in DOMAIN FieldsOf : IsFiniteSet(FieldsOf[t])
    BY <1>3, <1>4, <1>5
  <1> QED
    BY <1>2, <1>6

\* What a header matches is what it says.
LEMMA MatchesSay ==
    ASSUME NEW h, h # Blank, Header(h), NEW m \in Matches(h)
    PROVE  /\ m \in Suggestion
           /\ m.source \in {"EXACT", "ALIAS"} => <<m.field, m.source>> \in h.named
           /\ \A f \in Fields : NamedFields(h) = {f} => m.field = f /\ m.status = "MAPPED"
           /\ \A f \in Fields : m.field = f => NamedFields(h) = {f} \/ (h.named = {} /\ h.leader = f)
  <1>1. /\ h.named \subseteq Fields \X {"EXACT", "ALIAS"} /\ h.near \subseteq Fields
        /\ h.leader \in h.near \cup {NoField}
    BY DEF Header
  <1>2. NoField \notin Fields /\ NoField \notin {"EXACT", "ALIAS"}
    BY MappingAssumption
  <1>3. NamedFields(h) \subseteq Fields /\ (h.named = {} <=> NamedFields(h) = {})
    BY <1>1 DEF NamedFields
  <1>4. IsFiniteSet(NamedFields(h)) /\ Cardinality(NamedFields(h)) \in Nat
    BY <1>3, FieldsFinite, FS_Subset, FS_CardinalityType
  <1>5. CASE NamedFields(h) = {}
    <2>1. Cardinality(NamedFields(h)) = 0 /\ h.named = {}
      BY <1>3, <1>5, FS_EmptySet
    <2>2. m \in IF h.leader # NoField THEN {[field |-> h.leader, source |-> "FUZZY", status |-> "SUGGESTED"]}
                ELSE {IF h.near = {} THEN Unmapped ELSE Ambiguous}
      BY <2>1 DEF Matches
    <2> QED
      BY <1>1, <1>2, <1>5, <2>1, <2>2 DEF Suggestion, Unmapped, Ambiguous
  <1>6. CASE Cardinality(NamedFields(h)) = 1
    <2>1. PICK g : NamedFields(h) = {g}
      BY <1>4, <1>6, FS_Singleton
    <2>2. Matches(h) = {[field |-> n[1], source |-> n[2], status |-> "MAPPED"] : n \in h.named}
      <3>1. h.named # {}
        BY <1>3, <2>1
      <3> QED
        BY <1>6, <3>1 DEF Matches
    <2>3. PICK n \in h.named : m = [field |-> n[1], source |-> n[2], status |-> "MAPPED"]
      BY <2>2
    <2>4. n \in Fields \X {"EXACT", "ALIAS"} /\ n[1] \in NamedFields(h)
      BY <1>1 DEF NamedFields
    <2>5. n[1] = g /\ n = <<n[1], n[2]>> /\ n[1] \in Fields /\ n[2] \in {"EXACT", "ALIAS"}
      BY <2>1, <2>4
    <2> QED
      BY <2>1, <2>3, <2>5 DEF Suggestion
  <1>7. CASE Cardinality(NamedFields(h)) > 1
    <2>1. NamedFields(h) # {} /\ \A f : NamedFields(h) # {f}
      <3>1. NamedFields(h) # {}
        <4>1. NamedFields(h) = {} => Cardinality(NamedFields(h)) = 0
          BY FS_EmptySet
        <4> QED
          BY <1>7, <4>1
      <3>2. ASSUME NEW f, NamedFields(h) = {f} PROVE FALSE
        <4>1. Cardinality(NamedFields(h)) = 1
          BY <3>2, FS_Singleton
        <4> QED
          BY <1>7, <4>1
      <3> QED
        BY <3>1, <3>2
    <2>2. m = Ambiguous
      BY <1>3, <1>4, <1>7, <2>1 DEF Matches
    <2> QED
      BY <1>2, <2>1, <2>2 DEF Suggestion, Ambiguous
  <1> QED
    BY <1>4, <1>5, <1>6, <1>7, FS_EmptySet

LEMMA FoundFromHeader ==
    ASSUME NEW row, \A c \in Texts(row) : Header(row[c]),
           NEW found, DOMAIN found = Texts(row), \A c \in Texts(row) : found[c] \in Matches(row[c])
    PROVE  FromHeader(row, found)
  <1>1. \A c \in Texts(row) : row[c] # Blank
    BY DEF Texts
  <1>2. ASSUME NEW c \in Texts(row)
        PROVE  /\ found[c] \in Suggestion
               /\ found[c].source \in {"EXACT", "ALIAS"} => <<found[c].field, found[c].source>> \in row[c].named
               /\ \A f \in Fields : NamedFields(row[c]) = {f} => found[c].field = f /\ found[c].status = "MAPPED"
               /\ \A f \in Fields : found[c].field = f =>
                     NamedFields(row[c]) = {f} \/ (row[c].named = {} /\ row[c].leader = f)
    BY <1>1, MatchesSay
  <1>3. ASSUME NEW c \in Texts(row), NEW f \in Fields, NamedIn(row, c, f), NEW d \in Texts(row) \ {c}
        PROVE  found[d].field # f
    BY <1>2, <1>3 DEF NamedIn
  <1>4. ASSUME NEW c \in Texts(row), NEW f \in Fields, NamedIn(row, c, f)
        PROVE  found[c].field = f /\ found[c].status = "MAPPED"
    BY <1>2, <1>4 DEF NamedIn
  <1> QED
    BY <1>2, <1>3, <1>4 DEF FromHeader

\* Colliding columns lose their fields, and a column named by its header never collides.
LEMMA CollisionsFlagged ==
    ASSUME NEW row, NEW found, FromHeader(row, found)
    PROVE  /\ FromHeader(row, FlagCollisions(found))
           /\ Distinct(FlagCollisions(found))
           /\ FieldsIn(FlagCollisions(found), Mapped(FlagCollisions(found))) \subseteq FieldsIn(found, Mapped(found))
  <1> DEFINE kept == FlagCollisions(found)
  <1>0. NoField \notin Fields /\ NoField \notin {"EXACT", "ALIAS"}
    BY MappingAssumption
  <1>1. /\ DOMAIN kept = DOMAIN found /\ DOMAIN found = Texts(row)
        /\ \A c \in DOMAIN found :
              kept[c] = IF found[c].field # NoField /\ Claiming(found, found[c].field) # {c} THEN Ambiguous ELSE found[c]
    BY DEF FlagCollisions, FromHeader
  <1> HIDE DEF kept
  <1>2. Ambiguous \in Suggestion /\ Ambiguous.field = NoField /\ Ambiguous.source = NoField /\ Ambiguous.status # "MAPPED"
    BY DEF Ambiguous, Suggestion
  <1>3. \A c \in Texts(row) :
           /\ kept[c] \in Suggestion
           /\ kept[c].source \in {"EXACT", "ALIAS"} => <<kept[c].field, kept[c].source>> \in row[c].named
    BY <1>0, <1>1, <1>2 DEF FromHeader
  <1>4. ASSUME NEW c \in Texts(row), NEW f \in Fields, NamedIn(row, c, f)
        PROVE  /\ kept[c].field = f /\ kept[c].status = "MAPPED"
               /\ \A d \in Texts(row) \ {c} : kept[d].field # f
    <2>1. /\ found[c].field = f /\ found[c].status = "MAPPED"
          /\ \A d \in Texts(row) \ {c} : found[d].field # f
      BY <1>4 DEF FromHeader
    <2>2. Claiming(found, f) = {c}
      BY <1>1, <2>1 DEF Claiming
    <2>3. kept[c] = found[c]
      BY <1>1, <2>1, <2>2
    <2> QED
      BY <1>0, <1>1, <1>2, <2>1, <2>3
  <1>5. FromHeader(row, kept)
    BY <1>1, <1>3, <1>4 DEF FromHeader
  <1>6. Distinct(kept)
    <2> SUFFICES ASSUME NEW c \in DOMAIN kept, NEW d \in DOMAIN kept, kept[c].field = kept[d].field, kept[c].field # NoField
                 PROVE  c = d
      BY DEF Distinct
    <2>1. kept[c] = found[c] /\ kept[d] = found[d] /\ Claiming(found, found[c].field) = {c}
      BY <1>1, <1>2
    <2>2. d \in Claiming(found, found[c].field)
      BY <1>1, <2>1 DEF Claiming
    <2> QED
      BY <2>1, <2>2
  <1>7. ASSUME NEW c \in Mapped(kept) PROVE c \in Mapped(found) /\ kept[c].field = found[c].field
    BY <1>1, <1>2 DEF Mapped
  <1>8. FieldsIn(kept, Mapped(kept)) \subseteq FieldsIn(found, Mapped(found))
    BY <1>7 DEF FieldsIn
  <1> QED
    BY <1>5, <1>6, <1>8 DEF kept

LEMMA DeterministicSound ==
    ASSUME MappingInv, NEW i \in DOMAIN sheet, header' = i, sheet' = sheet, Deterministic
    PROVE  /\ FromHeader(sheet[i], columns')
           /\ FieldsIn(columns', Mapped(columns')) \subseteq taken'
  <1>1. \A c \in Texts(sheet[i]) : Header(sheet[i][c])
    BY MappingAssumption DEF MappingInv, Texts
  <1>2. PICK found \in [Texts(sheet[i]) -> UNION {Matches(sheet[i][c]) : c \in Texts(sheet[i])}] :
           /\ \A c \in Texts(sheet[i]) : found[c] \in Matches(sheet[i][c])
           /\ columns' = FlagCollisions(found)
           /\ taken' = FieldsIn(columns', Mapped(columns'))
    BY DEF Deterministic
  <1>3. FromHeader(sheet[i], found)
    BY <1>1, <1>2, FoundFromHeader
  <1> QED
    BY <1>2, <1>3, CollisionsFlagged

\* The assistant's answers reach no column that is mapped and no field of one.
LEMMA ProposalKept ==
    ASSUME MappingInv, NEW c, NEW f, Propose(c, f)
    PROVE  FromHeader(sheet[header], columns') /\ FieldsIn(columns', Mapped(columns')) \subseteq taken'
  <1> DEFINE row == sheet[header]
             new == [field |-> f, source |-> "AI", status |-> "SUGGESTED"]
  <1>1. /\ stage # "uploaded" /\ FromHeader(row, columns) /\ FieldsIn(columns, Mapped(columns)) \subseteq taken
        /\ c \in DOMAIN columns /\ c \notin Mapped(columns) /\ f \in Fields /\ f \notin taken
        /\ columns' = [columns EXCEPT ![c] = new] /\ taken' = taken \cup {f}
    BY DEF MappingInv, Propose, Matching, Acceptable, Real
  <1>2. /\ new \in Suggestion /\ new.field = f /\ new.source = "AI" /\ new.status = "SUGGESTED"
    BY <1>1 DEF Suggestion
  <1> HIDE DEF row, new
  <1>3. /\ DOMAIN columns' = Texts(row) /\ DOMAIN columns = Texts(row) /\ c \in Texts(row)
        /\ columns'[c] = new /\ \A d \in Texts(row) \ {c} : columns'[d] = columns[d]
    BY <1>1 DEF FromHeader
  <1>4. ASSUME NEW d \in Texts(row), NEW g \in Fields, NamedIn(row, d, g)
        PROVE  /\ columns'[d].field = g /\ columns'[d].status = "MAPPED"
               /\ \A e \in Texts(row) \ {d} : columns'[e].field # g
    <2>1. /\ columns[d].field = g /\ columns[d].status = "MAPPED"
          /\ \A e \in Texts(row) \ {d} : columns[e].field # g
      BY <1>1, <1>4 DEF FromHeader
    <2>2. d \in Mapped(columns) /\ d # c
      BY <1>1, <1>3, <2>1 DEF Mapped
    <2>3. g \in taken
      BY <1>1, <2>1, <2>2, MappingAssumption DEF FieldsIn
    <2> QED
      BY <1>1, <1>2, <1>3, <2>1, <2>2, <2>3
  <1>5. FromHeader(row, columns')
    BY <1>1, <1>2, <1>3, <1>4 DEF FromHeader
  <1>6. \A d \in Mapped(columns') : d \in Mapped(columns) /\ columns'[d] = columns[d]
    BY <1>2, <1>3 DEF Mapped
  <1>7. FieldsIn(columns', Mapped(columns')) \subseteq taken'
    BY <1>1, <1>6 DEF FieldsIn
  <1> QED
    BY <1>5, <1>7 DEF row

LEMMA MappingInvNext == MappingInv /\ [MappingNext]_mappingVars => MappingInv'
  <1> SUFFICES ASSUME MappingInv, [MappingNext]_mappingVars PROVE MappingInv'
    OBVIOUS
  <1>1. CASE UNCHANGED mappingVars
    BY <1>1 DEF mappingVars, MappingInv
  <1>2. ASSUME NEW i \in DOMAIN sheet, Analyze(i) PROVE MappingInv'
    <2>1. sheet' = sheet /\ header' = i /\ stage' = "matching" /\ Deterministic
      BY <1>2 DEF Analyze
    <2> QED
      BY <2>1, DeterministicSound DEF MappingInv
  <1>3. ASSUME NEW i \in DOMAIN sheet, NEW m, Confirm(i, m) PROVE MappingInv'
    <2>1. sheet' = sheet /\ header' = i /\ stage' = "confirmed" /\ Deterministic
      BY <1>3 DEF Confirm
    <2> QED
      BY <2>1, DeterministicSound DEF MappingInv
  <1>4. ASSUME NEW c, NEW f, Propose(c, f) PROVE MappingInv'
    <2>1. UNCHANGED <<sheet, header, stage>> /\ stage \in {"matching", "confirmed"}
      BY <1>4 DEF Propose, Matching
    <2> QED
      BY <1>4, <2>1, ProposalKept DEF MappingInv
  <1>5. CASE EndMatching
    <2>1. /\ UNCHANGED <<sheet, header, taken, mapping>> /\ stage \in {"matching", "confirmed"}
          /\ columns' = FlagCollisions(columns) /\ stage' \in {"shown", "recorded"}
      BY <1>5 DEF EndMatching, Matching
    <2>2. /\ header \in DOMAIN sheet /\ FromHeader(sheet[header], columns)
          /\ FieldsIn(columns, Mapped(columns)) \subseteq taken
      BY <2>1 DEF MappingInv
    <2>3. /\ FromHeader(sheet[header], columns') /\ Distinct(columns')
          /\ FieldsIn(columns', Mapped(columns')) \subseteq taken
      BY <2>1, <2>2, CollisionsFlagged
    <2>4. ASSUME stage' = "recorded", NEW c \in DOMAIN sources', sources'[c] \in {"EXACT", "ALIAS"}
          PROVE  <<mapping[c], sources'[c]>> \in sheet[header][c].named
      <3>1. sources' = [d \in DOMAIN mapping |->
                           IF d \in DOMAIN columns' /\ columns'[d].field = mapping[d]
                           THEN columns'[d].source ELSE "MANUAL"]
        BY <1>5, <2>4 DEF EndMatching
      <3>2. c \in DOMAIN columns' /\ columns'[c].field = mapping[c] /\ sources'[c] = columns'[c].source
        BY <2>4, <3>1
      <3> QED
        BY <2>3, <2>4, <3>2 DEF FromHeader
    <2> QED
      BY <2>1, <2>2, <2>3, <2>4 DEF MappingInv
  <1> QED
    BY <1>1, <1>2, <1>3, <1>4, <1>5 DEF MappingNext

LEMMA SuggestionsMean == MappingInv => SuggestionsStand
  <1> SUFFICES ASSUME MappingInv PROVE SuggestionsStand
    OBVIOUS
  <1>1. ASSUME stage \in {"shown", "recorded"}, NEW c \in DOMAIN columns, NEW f \in Fields, Named(c, f)
        PROVE  columns[c].field = f /\ columns[c].status = "MAPPED"
    <2>1. FromHeader(sheet[header], columns)
      BY <1>1 DEF MappingInv
    <2>2. c \in Texts(sheet[header]) /\ NamedIn(sheet[header], c, f)
      BY <1>1, <2>1 DEF FromHeader, Named, NamedIn
    <2> QED
      BY <2>1, <2>2 DEF FromHeader
  <1>2. ASSUME stage \in {"shown", "recorded"}
        PROVE  MissingRequired = {} <=> Confirmable(AsShown)
    <2> DEFINE m == AsShown
    <2>1. /\ \A c \in DOMAIN columns : columns[c].field \in Fields \cup {NoField}
          /\ Distinct(columns)
      BY <1>2 DEF MappingInv, FromHeader, Suggestion
    <2>2. DOMAIN m = {c \in DOMAIN columns : columns[c].field # NoField} /\ \A c \in DOMAIN m : m[c] = columns[c].field
      BY DEF AsShown
    <2> HIDE DEF m
    <2>3. {m[c] : c \in DOMAIN m} = FieldsIn(columns, DOMAIN columns)
      BY <2>2 DEF FieldsIn
    <2>4. /\ \A c \in DOMAIN m : m[c] \in Fields
          /\ \A c, d \in DOMAIN m : m[c] = m[d] => c = d
      BY <2>1, <2>2 DEF Distinct
    <2>5. Confirmable(m) <=> Required \subseteq FieldsIn(columns, DOMAIN columns)
      BY <2>3, <2>4 DEF Confirmable
    <2>6. MissingRequired = {} <=> Required \subseteq FieldsIn(columns, DOMAIN columns)
      BY DEF MissingRequired
    <2> QED
      BY <2>5, <2>6 DEF m
  <1> QED
    BY <1>1, <1>2 DEF SuggestionsStand, MappingInv

\* Whatever an assistant answers, a column named by its header keeps its field, what is noted as found by name
\* was named so, and nothing required is missing exactly when what is shown can be confirmed.
THEOREM SuggestionsAlwaysStand == MappingSpec => []SuggestionsStand
  <1>1. MappingInit => MappingInv
    BY DEF MappingInit, MappingInv
  <1> QED
    BY <1>1, MappingInvNext, SuggestionsMean, PTL DEF MappingSpec

-----------------------------------------------------------------------------
(* Identity: capabilities and scopes *)

LEMMA Allowed ==
    ASSUME NEW c, NEW type, type \in AllowedScopes(c)
    PROVE  /\ c \in Assignable /\ c \notin Derived
           /\ c \in Operators => type = "INSTITUTION"
           /\ type \in {"INSTITUTION", "SCHOOL", "DEPARTMENT", "SCHOLAR"}
  <1>1. CASE c \in {"SUPERVISOR", "DEPARTMENT_ADMIN", "SCHOOL_ADMIN", "EXAM_EVALUATOR"}
    BY <1>1 DEF AllowedScopes, Assignable, Derived, Operators
  <1>2. CASE c \in Operators
    BY <1>2 DEF AllowedScopes, Assignable, Derived, Operators
  <1>3. CASE c \notin Operators \cup {"SUPERVISOR", "DEPARTMENT_ADMIN", "SCHOOL_ADMIN", "EXAM_EVALUATOR"}
    BY <1>3 DEF AllowedScopes
  <1> QED
    BY <1>1, <1>2, <1>3

\* Where the query filters, the policy covers.
LEMMA ScopeAgrees ==
    ASSUME NEW scope, scope.type \in {"INSTITUTION", "SCHOOL", "DEPARTMENT", "COMMITTEE", "SCHOLAR"},
           NEW s \in Scholars
    PROVE  s \in Selected(scope) <=> Covers(scope, ScopeOfScholar(s))
  <1> DEFINE target == ScopeOfScholar(s)
  <1>1. /\ target.school = SchoolOf[DepartmentOf[s]] /\ target.school # None
        /\ target.department = DepartmentOf[s]
        /\ target.scholar = s
    BY AccessAssumption DEF ScopeOfScholar
  <1> HIDE DEF target
  <1>2. CASE scope.type = "INSTITUTION"
    BY <1>2 DEF Selected, Covers
  <1>3. CASE scope.type = "SCHOOL"
    BY <1>1, <1>3 DEF Selected, Covers, InstitutionOnly, target
  <1>4. CASE scope.type = "DEPARTMENT"
    BY <1>1, <1>4 DEF Selected, Covers, InstitutionOnly, target
  <1>5. CASE scope.type = "SCHOLAR"
    BY <1>1, <1>5 DEF Selected, Covers, InstitutionOnly, target
  <1>6. CASE scope.type = "COMMITTEE"
    <2>1. Covers(scope, target) <=> scope.of \in {None, target.school}
      BY <1>1, <1>6 DEF Covers, InstitutionOnly
    <2>2. s \in Selected(scope) <=> scope.of = None \/ target.school = scope.of
      BY <1>1, <1>6 DEF Selected
    <2> QED
      BY <2>1, <2>2 DEF target
  <1> QED
    BY <1>2, <1>3, <1>4, <1>5, <1>6

\* What a person holds has a scope of a known kind, and who is a SCHOLAR has the profile.
LEMMA HeldInScope ==
    ASSUME TypeOK, NEW p \in Persons, NEW c \in EffectiveCapabilities(p)
    PROVE  /\ c.scope.type \in {"INSTITUTION", "SCHOOL", "DEPARTMENT", "COMMITTEE", "SCHOLAR"}
           /\ c.capability = "SCHOLAR" => link[p].scholar \in Scholars
  <1>1. link[p].scholar \in Scholars \cup {None}
    BY DEF TypeOK
  <1>2. CASE c \in FromScholarProfile(p)
    BY <1>1, <1>2 DEF FromScholarProfile, Held, Scope
  <1>3. CASE c \in FromFacultyProfile(p)
    BY <1>3 DEF FromFacultyProfile, Held, Scope
  <1>4. CASE c \in FromCommittees(p)
    BY <1>4 DEF FromCommittees, Held, Scope
  <1>5. CASE c \in {Held(g.capability, g.scope) : g \in {h \in grants : h.person = p /\ InForce(h)}}
    <2>1. PICK g \in grants : c.capability = g.capability /\ c.scope = g.scope
      BY <1>5 DEF Held
    <2>2. g.scope.type \in AllowedScopes(g.capability)
      BY DEF TypeOK, Assignment
    <2> QED
      BY <2>1, <2>2, Allowed DEF Derived
  <1> QED
    BY <1>2, <1>3, <1>4, <1>5 DEF EffectiveCapabilities

LEMMA Agreed == TypeOK => VisibleAgrees
  <1> SUFFICES ASSUME TypeOK, NEW p \in Persons
               PROVE  VisibleScholars(p) = {s \in Scholars : Authorized(p, s)}
    BY DEF VisibleAgrees
  <1> DEFINE Viewing == {d \in EffectiveCapabilities(p) : d.capability \in MayView}
             Shown(c) ==
                CASE Relationship(c.capability) = "self" -> {link[p].scholar}
                  [] Relationship(c.capability) = "supervises" -> {s \in Scholars : <<link[p].faculty, s>> \in Supervises}
                  [] Relationship(c.capability) = "tac_member" -> {s \in Scholars : <<link[p].faculty, s>> \in Seated}
                  [] OTHER -> Selected(c.scope)
             Decided(c, s) ==
                IF Relationship(c.capability) # "none" THEN Related(p, Relationship(c.capability), s)
                                                       ELSE Covers(c.scope, ScopeOfScholar(s))
  <1>1. ASSUME NEW c \in Viewing
        PROVE  Shown(c) = {s \in Scholars : Decided(c, s)}
    <2>0. Relationship(c.capability) \in {"self", "supervises", "tac_member", "none"}
      BY DEF Relationship
    <2>1. CASE Relationship(c.capability) = "self"
      <3>1. link[p].scholar \in Scholars
        BY <2>1, HeldInScope DEF Relationship
      <3> QED
        BY <2>1, <3>1 DEF Related
    <2>2. CASE Relationship(c.capability) = "supervises"
      BY <2>2 DEF Related
    <2>3. CASE Relationship(c.capability) = "tac_member"
      BY <2>3 DEF Related
    <2>4. CASE Relationship(c.capability) = "none"
      <3>1. c.scope.type \in {"INSTITUTION", "SCHOOL", "DEPARTMENT", "COMMITTEE", "SCHOLAR"}
        BY HeldInScope
      <3>2. \A s \in Scholars : s \in Selected(c.scope) <=> Covers(c.scope, ScopeOfScholar(s))
        BY <3>1, ScopeAgrees
      <3>3. Selected(c.scope) \subseteq Scholars
        BY DEF Selected
      <3> QED
        BY <2>4, <3>2, <3>3
    <2> QED
      BY <2>0, <2>1, <2>2, <2>3, <2>4
  <1>2. VisibleScholars(p) = UNION {Shown(c) : c \in Viewing}
    BY DEF VisibleScholars
  <1>3. \A s : Authorized(p, s) <=> \E c \in Viewing : Decided(c, s)
    BY DEF Authorized
  <1> HIDE DEF Viewing, Shown, Decided
  <1> QED
    BY <1>1, <1>2, <1>3

-----------------------------------------------------------------------------
(* Identity: the types *)

\* What a request carries by its kind.
LEMMA RequestFields ==
    ASSUME TypeOK, NEW w \in Workers
    PROVE  /\ Idle.op = "idle"
           /\ request[w].op \in {"grant", "revoke", "bootstrap"} => request[w].grant \in Assignment
           /\ request[w].op = "link" => /\ request[w].person \in Persons
                                       /\ request[w].kind \in {"user", "faculty", "scholar"}
                                       /\ request[w].to \in Profiles(request[w].kind)
           /\ request[w].op = "deactivate" => request[w].person \in Persons
           /\ request[w].op = "provision" => /\ request[w].person \in Persons
                                            /\ request[w].user \in Users
                                            /\ request[w].grant \in Assignment
           /\ request[w].op = "activate" => request[w].user \in Users
  <1>1. request[w] \in {Idle} \cup Request
    BY DEF TypeOK
  <1>2. DOMAIN Unlinked = {"user", "faculty", "scholar"}
    BY DEF Unlinked
  <1> QED
    BY <1>1, <1>2 DEF Idle, Request

LEMMA Linked ==
    ASSUME TypeOK, NEW p \in Persons, NEW kind \in {"user", "faculty", "scholar"}, NEW x \in Profiles(kind) \cup {None}
    PROVE  [link EXCEPT ![p][kind] = x] \in
              [Persons -> [user : Users \cup {None}, faculty : Faculties \cup {None}, scholar : Scholars \cup {None}]]
  <1> DEFINE PersonRow == [user : Users \cup {None}, faculty : Faculties \cup {None}, scholar : Scholars \cup {None}]
             row == [link[p] EXCEPT ![kind] = x]
  <1>1. link \in [Persons -> PersonRow]
    BY DEF TypeOK
  <1>2. row \in PersonRow
    <2>1. link[p] \in PersonRow
      BY <1>1
    <2>2. CASE kind = "user"
      BY <2>1, <2>2 DEF Profiles
    <2>3. CASE kind = "faculty"
      BY <2>1, <2>3 DEF Profiles
    <2>4. CASE kind = "scholar"
      BY <2>1, <2>4 DEF Profiles
    <2> QED
      BY <2>2, <2>3, <2>4
  <1>3. [link EXCEPT ![p][kind] = x] = [link EXCEPT ![p] = row]
    OBVIOUS
  <1> HIDE DEF PersonRow, row
  <1>4. [link EXCEPT ![p] = row] \in [Persons -> PersonRow]
    BY <1>1, <1>2
  <1> QED
    BY <1>3, <1>4 DEF PersonRow

\* Where work begins nothing else changes.
LEMMA BeginTyped ==
    ASSUME TypeOK, NEW w \in Workers, NEW r \in Request, Begin(w, r)
    PROVE  TypeOK'
  <1>1. overlapped' \in BOOLEAN
    BY Zenon DEF Begin
  <1>2. request' \in [Workers -> {Idle} \cup Request]
    BY DEF Begin, TypeOK
  <1> QED
    BY <1>1, <1>2 DEF Begin, people, TypeOK

LEMMA GrantTyped ==
    ASSUME TypeOK, NEW w \in Workers, NEW actor \in Persons, Grant(w, actor)
    PROVE  TypeOK'
  <1>1. ASSUME NEW x \in Grantable, NEW scope \in Scopes, NEW p \in Persons, NEW from \in today..LastDay,
               NEW to \in today..LastDay,
               GrantCapability(w, actor, [person |-> p, capability |-> x[1], scope |-> scope, from |-> from, to |-> to])
        PROVE  TypeOK'
    <2> DEFINE g == [person |-> p, capability |-> x[1], scope |-> scope, from |-> from, to |-> to]
    <2>1. g.scope.type \in AllowedScopes(g.capability) /\ Begin(w, [op |-> "grant", actor |-> actor, grant |-> g])
      BY <1>1 DEF GrantCapability, Valid
    <2>2. scope.type \in AllowedScopes(x[1])
      BY <2>1
    <2>3. x[1] \in Assignable
      BY <2>2, Allowed
    <2>4. from \in 0..LastDay /\ to \in 0..LastDay
      BY AccessAssumption DEF TypeOK
    <2>5. g \in Assignment
      BY <2>2, <2>3, <2>4 DEF Assignment
    <2> HIDE DEF g
    <2>6. [op |-> "grant", actor |-> actor, grant |-> g] \in Request
      BY <2>5 DEF Request
    <2> QED
      BY <2>1, <2>6, BeginTyped
  <1>2. ASSUME NEW g \in grants, RevokeCapability(w, actor, g)
        PROVE  TypeOK'
    <2>1. [op |-> "revoke", actor |-> actor, grant |-> g] \in Request
      BY DEF TypeOK, Request
    <2> QED
      BY <1>2, <2>1, BeginTyped DEF RevokeCapability
  <1> QED
    BY <1>1, <1>2 DEF Grant

LEMMA InstitutionGrant ==
    ASSUME TypeOK, NEW p \in Persons, NEW c \in Operators
    PROVE  [person |-> p, capability |-> c, scope |-> Scope("INSTITUTION", None), from |-> today, to |-> LastDay]
              \in Assignment
  <1>1. Scope("INSTITUTION", None) \in Scopes /\ Scope("INSTITUTION", None).type = "INSTITUTION"
    BY DEF Scopes, Scope
  <1>2. "INSTITUTION" \in AllowedScopes(c) /\ c \in Assignable
    BY DEF AllowedScopes, Operators, Assignable
  <1>3. today \in 0..LastDay /\ LastDay \in 0..LastDay
    BY AccessAssumption DEF TypeOK
  <1> HIDE DEF Scope, Scopes
  <1> QED
    BY <1>1, <1>2, <1>3 DEF Assignment

LEMMA ManageTyped ==
    ASSUME TypeOK, NEW w \in Workers, NEW actor \in Persons, Manage(w, actor)
    PROVE  TypeOK'
  <1>1. ASSUME NEW p \in Persons, DeactivatePerson(w, actor, p)
        PROVE  TypeOK'
    <2>1. [op |-> "deactivate", actor |-> actor, person |-> p] \in Request
      BY DEF Request
    <2> QED
      BY <1>1, <2>1, BeginTyped DEF DeactivatePerson
  <1>2. ASSUME NEW p \in Persons, NEW kind \in DOMAIN Unlinked, NEW x \in Profiles(kind), Link(w, actor, p, kind, x)
        PROVE  TypeOK'
    <2>0. kind \in {"user", "faculty", "scholar"}
      BY DEF Unlinked
    <2>1. x \in Users \cup Faculties \cup Scholars
      BY <2>0 DEF Profiles
    <2>2. [op |-> "link", actor |-> actor, person |-> p, kind |-> kind, to |-> x] \in Request
      BY <2>1 DEF Request
    <2> QED
      BY <1>2, <2>2, BeginTyped DEF Link
  <1>3. ASSUME NEW p \in Persons, NEW x \in Grantable, NEW user \in Users, ProvisionIdentity(w, actor, p, x[1], user)
        PROVE  TypeOK'
    <2> DEFINE g == [person |-> p, capability |-> x[1], scope |-> Scope("INSTITUTION", None),
                     from |-> today, to |-> LastDay]
    <2>1. x[1] \in Operators /\ Begin(w, [op |-> "provision", actor |-> actor, person |-> p, user |-> user, grant |-> g])
      BY <1>3 DEF ProvisionIdentity
    <2>2. g \in Assignment
      BY <2>1, InstitutionGrant
    <2> HIDE DEF g
    <2>3. [op |-> "provision", actor |-> actor, person |-> p, user |-> user, grant |-> g] \in Request
      BY <2>2 DEF Request
    <2> QED
      BY <2>1, <2>3, BeginTyped
  <1> QED
    BY <1>1, <1>2, <1>3 DEF Manage

LEMMA AtOnceTyped ==
    ASSUME TypeOK, NEW actor \in Persons, ManageAtOnce(actor)
    PROVE  TypeOK'
  <1>1. ASSUME NEW p \in Persons, ProvisionPerson(actor, p)
        PROVE  TypeOK'
    BY <1>1 DEF ProvisionPerson, TypeOK
  <1>2. ASSUME NEW p \in Persons, IssueActivation(actor, p)
        PROVE  TypeOK'
    <2>1. link[p].user \in Users \cup {None} /\ link[p].user # None
      BY <1>2 DEF TypeOK, IssueActivation
    <2> QED
      BY <1>2, <2>1 DEF IssueActivation, people, TypeOK
  <1>3. ASSUME NEW p \in Persons, NEW kind \in {"faculty", "scholar"}, NEW user \in Users \cup {None},
               NEW x \in Profiles(kind), ProvisionForRecord(actor, p, kind, x, user)
        PROVE  TypeOK'
    <2> DEFINE row == [link[p] EXCEPT ![kind] = x, !.user = user]
    <2>1. row \in [user : Users \cup {None}, faculty : Faculties \cup {None}, scholar : Scholars \cup {None}]
      <3>1. link[p] \in [user : Users \cup {None}, faculty : Faculties \cup {None}, scholar : Scholars \cup {None}]
        BY DEF TypeOK
      <3>2. CASE kind = "faculty"
        BY <3>1, <3>2 DEF Profiles
      <3>3. CASE kind = "scholar"
        BY <3>1, <3>3 DEF Profiles
      <3> QED
        BY <3>2, <3>3
    <2> HIDE DEF row
    <2>2. link' = [link EXCEPT ![p] = row]
      BY <1>3 DEF ProvisionForRecord, row
    <2>3. link' \in [Persons -> [user : Users \cup {None}, faculty : Faculties \cup {None}, scholar : Scholars \cup {None}]]
      BY <2>1, <2>2 DEF TypeOK
    <2>4. password' \in [Users -> {-1} \cup Nat]
      BY <1>3 DEF ProvisionForRecord, TypeOK
    <2> QED
      BY <1>3, <2>3, <2>4 DEF ProvisionForRecord, TypeOK
  <1> QED
    BY <1>1, <1>2, <1>3 DEF ManageAtOnce

LEMMA CommitTyped ==
    ASSUME TypeOK, NEW w \in Workers, Commit(w)
    PROVE  TypeOK'
  <1> DEFINE r == request[w]
  <1>1. request' \in [Workers -> {Idle} \cup Request] /\ UNCHANGED <<today, overlapped>>
    BY DEF Commit, TypeOK
  <1>2. CASE CommitGrant(w)
    <2>1. r.op \in {"grant", "bootstrap", "revoke"}
      BY <1>2 DEF CommitGrant
    <2>2. r.grant \in Assignment
      BY <2>1, RequestFields
    <2>3. grants' \subseteq Assignment
      BY <1>2, <2>1, <2>2 DEF CommitGrant, TypeOK
    <2>4. status' \in [Persons -> {"NONE", "ACTIVE", "INACTIVE"}] /\ UNCHANGED <<link, password, invited>>
      BY <1>2 DEF CommitGrant, TypeOK
    <2> QED
      BY <1>1, <2>3, <2>4 DEF TypeOK
  <1>3. CASE CommitPerson(w)
    <2>1. r.op \in {"link", "deactivate", "provision"}
      BY <1>3 DEF CommitPerson
    <2>2. CASE r.op = "link"
      <3>1. UNCHANGED <<status, grants, password, invited>> /\ link' = [link EXCEPT ![r.person][r.kind] = r.to]
        BY <1>3, <2>2 DEF CommitPerson
      <3>2. r.person \in Persons /\ r.kind \in {"user", "faculty", "scholar"} /\ r.to \in Profiles(r.kind)
        BY <2>2, RequestFields
      <3> HIDE DEF r
      <3>3. link' \in [Persons -> [user : Users \cup {None}, faculty : Faculties \cup {None}, scholar : Scholars \cup {None}]]
        BY <3>1, <3>2, Linked
      <3> QED
        BY <1>1, <3>1, <3>3 DEF TypeOK
    <2>3. CASE r.op = "deactivate"
      BY <1>1, <1>3, <2>3 DEF CommitPerson, TypeOK
    <2>4. CASE r.op = "provision"
      <3>1. /\ status' = [status EXCEPT ![r.person] = "ACTIVE"]
            /\ link' = [link EXCEPT ![r.person]["user"] = r.user]
            /\ password' = [password EXCEPT ![r.user] = 1]
            /\ grants' = grants \cup {r.grant}
            /\ UNCHANGED invited
        BY <1>3, <2>4 DEF CommitPerson
      <3>2. r.person \in Persons /\ r.user \in Users /\ r.grant \in Assignment
        BY <2>4, RequestFields
      <3> HIDE DEF r
      <3>3. link' \in [Persons -> [user : Users \cup {None}, faculty : Faculties \cup {None}, scholar : Scholars \cup {None}]]
        BY <3>1, <3>2, Linked DEF Profiles
      <3> QED
        BY <1>1, <3>1, <3>2, <3>3 DEF TypeOK
    <2> QED
      BY <2>1, <2>2, <2>3, <2>4
  <1>4. CASE CommitActivation(w)
    <2>1. PICK u \in Users : u = r.user
      BY <1>4, RequestFields DEF CommitActivation
    <2>2. password[u] + 1 \in {-1} \cup Nat /\ password' = [password EXCEPT ![u] = password[u] + 1]
      BY <1>4, <2>1 DEF CommitActivation, TypeOK
    <2>3. password' \in [Users -> {-1} \cup Nat]
      BY <2>2 DEF TypeOK
    <2> QED
      BY <1>1, <1>4, <2>3 DEF CommitActivation, TypeOK
  <1> QED
    BY <1>2, <1>3, <1>4 DEF Commit

LEMMA Typed == TypeOK /\ [Next]_vars => TypeOK'
  <1> SUFFICES ASSUME TypeOK, [Next]_vars
               PROVE  TypeOK'
    OBVIOUS
  <1>1. ASSUME NEW w \in Workers, NEW p \in Persons, BootstrapSystemAdmin(w, p)
        PROVE  TypeOK'
    <2> DEFINE g == [person |-> p, capability |-> "SYSTEM_ADMIN", scope |-> Scope("INSTITUTION", None),
                     from |-> today, to |-> LastDay]
    <2>1. Begin(w, [op |-> "bootstrap", actor |-> None, grant |-> g])
      BY <1>1 DEF BootstrapSystemAdmin
    <2>2. g \in Assignment
      BY InstitutionGrant DEF Operators
    <2> HIDE DEF g
    <2>3. [op |-> "bootstrap", actor |-> None, grant |-> g] \in Request
      BY <2>2 DEF Request
    <2> QED
      BY <2>1, <2>3, BeginTyped
  <1>2. ASSUME NEW w \in Workers, NEW p \in Persons, Activate(w, p)
        PROVE  TypeOK'
    <2>1. link[p].user \in Users
      BY <1>2 DEF Activate, TypeOK
    <2> DEFINE r == [op |-> "activate", actor |-> None, person |-> p, user |-> link[p].user]
    <2>2. r \in Request
      BY <2>1 DEF Request
    <2>3. Begin(w, r)
      BY <1>2 DEF Activate
    <2> HIDE DEF r
    <2> QED
      BY <2>2, <2>3, BeginTyped
  <1>3. ASSUME NEW w \in Workers, NEW actor \in Persons, Grant(w, actor) \/ Manage(w, actor)
        PROVE  TypeOK'
    BY <1>3, GrantTyped, ManageTyped
  <1>4. ASSUME NEW w \in Workers, Drop(w)
        PROVE  TypeOK'
    BY <1>4 DEF Drop, people, TypeOK
  <1>5. CASE DayPasses
    <2>1. overlapped' \in BOOLEAN
      BY <1>5, Zenon DEF DayPasses
    <2>2. today' \in 0..LastDay
      BY <1>5, AccessAssumption DEF DayPasses, TypeOK
    <2> QED
      BY <1>5, <2>1, <2>2 DEF DayPasses, people, TypeOK
  <1>6. CASE UNCHANGED vars
    BY <1>6 DEF vars, TypeOK
  <1> QED
    BY <1>1, <1>2, <1>3, <1>4, <1>5, <1>6, CommitTyped, AtOnceTyped DEF Next, Busy, Staff

LEMMA InitTyped == Init => TypeOK
  <1> SUFFICES ASSUME Init
               PROVE  TypeOK
    OBVIOUS
  <1>1. overlapped \in BOOLEAN
    BY Zenon DEF Init
  <1>2. link \in [Persons -> [user : Users \cup {None}, faculty : Faculties \cup {None}, scholar : Scholars \cup {None}]]
    BY DEF Init, Unlinked
  <1> QED
    BY <1>1, <1>2, AccessAssumption DEF Init, TypeOK

\* Persons, links, grants, logins and the requests in flight keep their types; every grant has a scope its
\* capability may have.
THEOREM IdentityTypeCorrect == Spec => []TypeOK
  BY InitTyped, Typed, PTL DEF Spec

\* visible_scholars and authorize(person, "scholar.view", s) come to the same, whatever a person is,
\* holds and sits on, through any sequence of requests.
THEOREM VisibleStaysAgreed == Spec => []VisibleAgrees
  BY IdentityTypeCorrect, Agreed, PTL

-----------------------------------------------------------------------------
(* Identity: administrators *)

\* What a request asks of the persons it names, whatever happens meanwhile.
Asked(r) ==
    /\ r.op = "grant" => status[r.grant.person] # "NONE"
    /\ r.op = "provision" => r.grant.person = r.person /\ r.grant.capability # "SYSTEM_ADMIN"

\* What the checks of a request found of the administrators.
Fits(r) ==
    /\ r.op = "grant" /\ r.grant.capability = "SYSTEM_ADMIN" => r.actor \in ActiveAdmins
    /\ r.op = "revoke" /\ r.grant.capability = "SYSTEM_ADMIN" =>
           r.actor \in ActiveAdmins /\ AdminWithout(r.grant.person)
    /\ r.op = "bootstrap" => /\ ActiveAdmins = {}
                             /\ r.grant.capability = "SYSTEM_ADMIN"
                             /\ r.grant.from = today /\ r.grant.to = LastDay
    /\ r.op = "deactivate" /\ r.person \in ActiveAdmins => r.actor \in ActiveAdmins /\ AdminWithout(r.person)
    /\ r.op \in {"grant", "revoke", "link", "deactivate", "provision"} => AdminGrants # {}

GrantsRest ==
    /\ \A g \in grants : status[g.person] # "NONE"
    /\ \A w \in Workers : Asked(request[w])

\* Nothing begins before there is an administrator.
Founded == AdminGrants = {} => grants = {} /\ \A p \in Persons : status[p] # "INACTIVE"

OneRequest ==
    /\ \A v, w \in Busy : v = w
    /\ \A w \in Workers : Fits(request[w])

AdminsInv == TypeOK /\ GrantsRest /\ (~overlapped => LastAdminKept /\ Founded /\ OneRequest)

\* A capability of an operator comes from a grant in force of somebody active.
LEMMA OperatorGranted ==
    ASSUME TypeOK, NEW p \in Persons, NEW c \in EffectiveCapabilities(p), c.capability \in Operators
    PROVE  /\ status[p] = "ACTIVE"
           /\ \E g \in grants : g.person = p /\ InForce(g) /\ g.capability = c.capability
  <1>1. status[p] = "ACTIVE"
    BY DEF EffectiveCapabilities
  <1>2. /\ c \notin FromScholarProfile(p)
        /\ c \notin FromFacultyProfile(p)
        /\ c \notin FromCommittees(p)
    BY DEF FromScholarProfile, FromFacultyProfile, FromCommittees, Held, Operators
  <1>3. c \in {Held(g.capability, g.scope) : g \in {h \in grants : h.person = p /\ InForce(h)}}
    BY <1>1, <1>2 DEF EffectiveCapabilities
  <1> QED
    BY <1>1, <1>3 DEF Held

LEMMA AdminHolds ==
    ASSUME TypeOK, NEW p \in Persons
    PROVE  Holds(p, "SYSTEM_ADMIN") <=> p \in ActiveAdmins
  <1>1. ASSUME Holds(p, "SYSTEM_ADMIN")
        PROVE  p \in ActiveAdmins
    BY <1>1, OperatorGranted DEF Holds, ActiveAdmins, AdminGrants, Operators
  <1>2. ASSUME p \in ActiveAdmins
        PROVE  Holds(p, "SYSTEM_ADMIN")
    <2>1. status[p] = "ACTIVE" /\ \E g \in grants : g.capability = "SYSTEM_ADMIN" /\ g.person = p /\ InForce(g)
      BY <1>2 DEF ActiveAdmins, AdminGrants
    <2>2. PICK g \in grants : g.capability = "SYSTEM_ADMIN" /\ g.person = p /\ InForce(g)
      BY <2>1
    <2>3. Held(g.capability, g.scope) \in EffectiveCapabilities(p)
      BY <2>1, <2>2 DEF EffectiveCapabilities
    <2> QED
      BY <2>2, <2>3 DEF Holds, Held
  <1> QED
    BY <1>1, <1>2

LEMMA AuthorityGranted ==
    ASSUME TypeOK, NEW p \in Persons
    PROVE  /\ \A c, scope : GrantingAuthority(p, c, scope) => grants # {}
           /\ \A scope : GrantingAuthority(p, "SYSTEM_ADMIN", scope) => p \in ActiveAdmins
           /\ MayManagePersons(p) => grants # {}
           /\ Holds(p, "SYSTEM_ADMIN") => grants # {}
  <1>1. \A c : GrantableBy(c) \subseteq Operators
    <2> TAKE c
    <2>1. CASE c \in {"SUPERVISOR", "DEPARTMENT_ADMIN", "SCHOOL_ADMIN"}
      BY <2>1 DEF GrantableBy, Operators
    <2>2. CASE c = "EXAM_EVALUATOR"
      BY <2>2 DEF GrantableBy, Operators
    <2>3. CASE c \in Operators
      BY <2>3 DEF GrantableBy, Operators
    <2>4. CASE c \notin Operators \cup {"SUPERVISOR", "DEPARTMENT_ADMIN", "SCHOOL_ADMIN", "EXAM_EVALUATOR"}
      BY <2>4 DEF GrantableBy
    <2> QED
      BY <2>1, <2>2, <2>3, <2>4
  <1>2. GrantableBy("SYSTEM_ADMIN") = {"SYSTEM_ADMIN"}
    BY DEF GrantableBy, Operators
  <1>3. \A c, scope : GrantingAuthority(p, c, scope) => grants # {}
    BY <1>1, OperatorGranted DEF GrantingAuthority
  <1>4. \A scope : GrantingAuthority(p, "SYSTEM_ADMIN", scope) => p \in ActiveAdmins
    <2> SUFFICES ASSUME NEW scope, GrantingAuthority(p, "SYSTEM_ADMIN", scope)
                 PROVE  Holds(p, "SYSTEM_ADMIN")
      BY AdminHolds
    <2> QED
      BY <1>2 DEF GrantingAuthority, Holds
  <1>5. \A c \in Operators : Holds(p, c) => grants # {}
    BY OperatorGranted DEF Holds
  <1> QED
    BY <1>3, <1>4, <1>5 DEF MayManagePersons, Operators

\* A step that leaves alone the grants of administrators and whether those who have one are active.
AdminsAlone ==
    /\ today' = today
    /\ AdminGrants' = AdminGrants
    /\ \A g \in AdminGrants : status'[g.person] = "ACTIVE" <=> status[g.person] = "ACTIVE"

LEMMA AdminsStand ==
    ASSUME AdminsAlone
    PROVE  /\ ActiveAdmins' = ActiveAdmins
           /\ LastAdminKept' <=> LastAdminKept
           /\ \A r : Fits(r)' <=> Fits(r)
  <1>1. ActiveAdmins' = ActiveAdmins
    <2>1. \A g : InForce(g)' <=> InForce(g)
      BY DEF AdminsAlone, InForce
    <2>2. \A p \in Persons : /\ status'[p] = "ACTIVE"
                             /\ \E g \in AdminGrants' : g.person = p /\ InForce(g)'
                          <=> /\ status[p] = "ACTIVE"
                             /\ \E g \in AdminGrants : g.person = p /\ InForce(g)
      BY <2>1 DEF AdminsAlone
    <2> QED
      BY <2>2 DEF ActiveAdmins
  <1>2. AdminGrants' = AdminGrants /\ today' = today
    BY DEF AdminsAlone
  <1> QED
    BY <1>1, <1>2 DEF LastAdminKept, OpenEnded, Fits, AdminWithout

\* A step changes the administrators on behalf of one of them.
OnBehalf ==
    today' = today /\ ActiveAdmins' # ActiveAdmins =>
        \/ ActiveAdmins = {}
        \/ \E w \in Workers : request'[w] # request[w] /\ request[w].actor \in ActiveAdmins

StepKept == GrantsRest' /\ (~overlapped' => LastAdminKept' /\ Founded' /\ OneRequest' /\ OnBehalf)

\* A request that begins, on what its checks found
LEMMA AdminsBegin ==
    ASSUME AdminsInv, NEW w \in Workers, NEW r \in Request, Begin(w, r), Asked(r),
           ~overlapped /\ Busy = {} => Fits(r)
    PROVE  StepKept
  <1>0. /\ UNCHANGED <<status, link, password, grants, today, invited>>
        /\ request' = [request EXCEPT ![w] = r]
        /\ overlapped' = (overlapped \/ Busy # {})
        /\ TypeOK
    BY DEF Begin, people, AdminsInv
  <1>1. AdminsAlone
    BY <1>0 DEF AdminsAlone, AdminGrants
  <1>2. request'[w] = r /\ \A v \in Workers \ {w} : request'[v] = request[v]
    BY <1>0 DEF TypeOK
  <1>3. GrantsRest'
    BY <1>0, <1>2 DEF AdminsInv, GrantsRest, Asked
  <1>4. ASSUME ~overlapped'
        PROVE  LastAdminKept' /\ Founded' /\ OneRequest' /\ OnBehalf
    <2>1. ~overlapped /\ Busy = {} /\ LastAdminKept /\ Founded /\ OneRequest
      BY <1>0, <1>4 DEF AdminsInv
    <2>2. \A v \in Workers \ {w} : request'[v] = Idle
      BY <1>2, <2>1 DEF Busy
    <2>3. \A u, v \in Busy' : u = v
      BY <2>2 DEF Busy
    <2>4. \A v \in Workers : Fits(request'[v])
      BY <1>2, <2>1, <2>2 DEF OneRequest, Busy
    <2>5. \A v \in Workers : Fits(request[v])'
      BY <1>1, <2>4, AdminsStand
    <2>6. LastAdminKept' /\ ActiveAdmins' = ActiveAdmins
      BY <1>1, <2>1, AdminsStand
    <2>7. Founded'
      BY <1>0, <2>1 DEF Founded, AdminGrants
    <2> QED
      BY <2>3, <2>5, <2>6, <2>7 DEF OneRequest, OnBehalf
  <1> QED
    BY <1>3, <1>4 DEF StepKept

\* A step that leaves the administrators alone and ends requests at most
LEMMA AdminsQuiet ==
    ASSUME AdminsInv, AdminsAlone, GrantsRest', UNCHANGED overlapped,
           \A w \in Workers : request'[w] \in {request[w], Idle},
           ~overlapped => Founded'
    PROVE  StepKept
  <1>1. ASSUME ~overlapped
        PROVE  LastAdminKept' /\ Founded' /\ OneRequest' /\ OnBehalf
    <2>1. LastAdminKept /\ OneRequest
      BY <1>1 DEF AdminsInv
    <2>2. \A u, v \in Busy' : u = v
      BY <2>1 DEF Busy, OneRequest
    <2>3. \A v \in Workers : Fits(request'[v])
      BY <2>1 DEF OneRequest, Fits, Idle
    <2>4. \A v \in Workers : Fits(request[v])'
      BY <2>3, AdminsStand
    <2> QED
      BY <1>1, <2>1, <2>2, <2>4, AdminsStand DEF OneRequest, OnBehalf
  <1> QED
    BY <1>1 DEF StepKept

LEMMA GrantKept ==
    ASSUME AdminsInv, NEW w \in Workers, NEW actor \in Persons, Grant(w, actor)
    PROVE  StepKept
  <1>0. TypeOK
    BY DEF AdminsInv
  <1>1. ASSUME NEW x \in Grantable, NEW scope \in Scopes, NEW p \in Persons, NEW from \in today..LastDay,
               NEW to \in today..LastDay,
               GrantCapability(w, actor, [person |-> p, capability |-> x[1], scope |-> scope, from |-> from, to |-> to])
        PROVE  StepKept
    <2> DEFINE g == [person |-> p, capability |-> x[1], scope |-> scope, from |-> from, to |-> to]
               r == [op |-> "grant", actor |-> actor, grant |-> g]
    <2>1. /\ status[p] # "NONE"
          /\ GrantingAuthority(actor, x[1], scope)
          /\ scope.type \in AllowedScopes(x[1])
          /\ Begin(w, r)
      BY <1>1 DEF GrantCapability, Valid
    <2>2. r \in Request
      <3>1. x[1] \in Assignable
        BY <2>1, Allowed
      <3>2. from \in 0..LastDay /\ to \in 0..LastDay
        BY <1>0, AccessAssumption DEF TypeOK
      <3>3. g \in Assignment
        BY <2>1, <3>1, <3>2 DEF Assignment
      <3> HIDE DEF g
      <3> QED
        BY <3>3 DEF Request
    <2>3. Asked(r)
      BY <2>1 DEF Asked
    <2>4. ASSUME ~overlapped
          PROVE  Fits(r)
      <3>1. grants # {} /\ Founded
        BY <1>0, <2>1, <2>4, AuthorityGranted DEF AdminsInv
      <3>2. x[1] = "SYSTEM_ADMIN" => actor \in ActiveAdmins
        BY <1>0, <2>1, AuthorityGranted
      <3> QED
        BY <3>1, <3>2 DEF Fits, Founded
    <2> HIDE DEF r
    <2> QED
      BY <2>1, <2>2, <2>3, <2>4, AdminsBegin
  <1>2. ASSUME NEW g \in grants, RevokeCapability(w, actor, g)
        PROVE  StepKept
    <2> DEFINE r == [op |-> "revoke", actor |-> actor, grant |-> g]
    <2>1. /\ GrantingAuthority(actor, g.capability, g.scope)
          /\ g.capability = "SYSTEM_ADMIN" => AdminWithout(g.person)
          /\ Begin(w, r)
      BY <1>2 DEF RevokeCapability
    <2>2. r \in Request /\ Asked(r)
      BY <1>0 DEF TypeOK, Request, Asked
    <2>3. ASSUME ~overlapped
          PROVE  Fits(r)
      <3>1. Founded
        BY <2>3 DEF AdminsInv
      <3>2. g.capability = "SYSTEM_ADMIN" => actor \in ActiveAdmins
        BY <1>0, <2>1, AuthorityGranted
      <3> QED
        BY <2>1, <3>1, <3>2 DEF Fits, Founded
    <2> HIDE DEF r
    <2> QED
      BY <2>1, <2>2, <2>3, AdminsBegin
  <1> QED
    BY <1>1, <1>2 DEF Grant

LEMMA ManageKept ==
    ASSUME AdminsInv, NEW w \in Workers, NEW actor \in Persons, Manage(w, actor)
    PROVE  StepKept
  <1>0. TypeOK /\ (~overlapped => Founded)
    BY DEF AdminsInv
  <1>1. ASSUME NEW p \in Persons, DeactivatePerson(w, actor, p)
        PROVE  StepKept
    <2> DEFINE r == [op |-> "deactivate", actor |-> actor, person |-> p]
    <2>1. /\ MayManagePersons(actor) /\ MayModify(actor, p)
          /\ Holds(p, "SYSTEM_ADMIN") => AdminWithout(p)
          /\ Begin(w, r)
      BY <1>1 DEF DeactivatePerson
    <2>2. r \in Request /\ Asked(r)
      BY DEF Request, Asked
    <2>3. ASSUME ~overlapped
          PROVE  Fits(r)
      <3>1. grants # {}
        BY <1>0, <2>1, AuthorityGranted
      <3>2. p \in ActiveAdmins => actor \in ActiveAdmins /\ AdminWithout(p)
        BY <1>0, <2>1, AdminHolds DEF MayModify
      <3> QED
        BY <1>0, <2>3, <3>1, <3>2 DEF Fits, Founded
    <2> HIDE DEF r
    <2> QED
      BY <2>1, <2>2, <2>3, AdminsBegin
  <1>2. ASSUME NEW p \in Persons, NEW kind \in DOMAIN Unlinked, NEW x \in Profiles(kind), Link(w, actor, p, kind, x)
        PROVE  StepKept
    <2> DEFINE r == [op |-> "link", actor |-> actor, person |-> p, kind |-> kind, to |-> x]
    <2>1. MayManagePersons(actor) /\ Begin(w, r)
      BY <1>2 DEF Link
    <2>2. r \in Request /\ Asked(r)
      BY DEF Request, Asked, Profiles, Unlinked
    <2>3. ASSUME ~overlapped
          PROVE  Fits(r)
      <3>1. grants # {}
        BY <1>0, <2>1, AuthorityGranted
      <3> QED
        BY <1>0, <2>3, <3>1 DEF Fits, Founded
    <2> HIDE DEF r
    <2> QED
      BY <2>1, <2>2, <2>3, AdminsBegin
  <1>3. ASSUME NEW p \in Persons, NEW x \in Grantable, NEW user \in Users, ProvisionIdentity(w, actor, p, x[1], user)
        PROVE  StepKept
    <2> DEFINE g == [person |-> p, capability |-> x[1], scope |-> Scope("INSTITUTION", None),
                     from |-> today, to |-> LastDay]
               r == [op |-> "provision", actor |-> actor, person |-> p, user |-> user, grant |-> g]
    <2>1. x[1] \in Operators \ {"SYSTEM_ADMIN"} /\ Holds(actor, "SYSTEM_ADMIN") /\ Begin(w, r)
      BY <1>3 DEF ProvisionIdentity
    <2>2. Asked(r)
      BY <2>1 DEF Asked
    <2>3. r \in Request
      <3>1. g \in Assignment
        BY <1>0, <2>1, InstitutionGrant
      <3> HIDE DEF g
      <3> QED
        BY <3>1 DEF Request
    <2>4. ASSUME ~overlapped
          PROVE  Fits(r)
      <3>1. grants # {}
        BY <1>0, <2>1, AuthorityGranted
      <3> QED
        BY <1>0, <2>4, <3>1 DEF Fits, Founded
    <2> HIDE DEF r
    <2> QED
      BY <2>1, <2>2, <2>3, <2>4, AdminsBegin
  <1> QED
    BY <1>1, <1>2, <1>3 DEF Manage

LEMMA BootstrapKept ==
    ASSUME AdminsInv, NEW w \in Workers, NEW p \in Persons, BootstrapSystemAdmin(w, p)
    PROVE  StepKept
  <1> DEFINE g == [person |-> p, capability |-> "SYSTEM_ADMIN", scope |-> Scope("INSTITUTION", None),
                   from |-> today, to |-> LastDay]
             r == [op |-> "bootstrap", actor |-> None, grant |-> g]
  <1>1. ActiveAdmins = {} /\ Begin(w, r)
    BY DEF BootstrapSystemAdmin
  <1>2. Asked(r) /\ Fits(r)
    BY <1>1 DEF Asked, Fits
  <1>3. r \in Request
    <2>1. g \in Assignment
      BY InstitutionGrant DEF AdminsInv, Operators
    <2> HIDE DEF g
    <2> QED
      BY <2>1 DEF Request
  <1> HIDE DEF r
  <1> QED
    BY <1>1, <1>2, <1>3, AdminsBegin

LEMMA AtOnceKept ==
    ASSUME AdminsInv, NEW actor \in Persons, ManageAtOnce(actor)
    PROVE  StepKept
  <1>1. /\ UNCHANGED <<grants, today, request, overlapped>>
        /\ \/ status' = status
           \/ \E p \in Persons : status[p] = "NONE" /\ status' = [status EXCEPT ![p] = "ACTIVE"]
    BY DEF ManageAtOnce, ProvisionPerson, IssueActivation, ProvisionForRecord, people
  <1>2. TypeOK /\ GrantsRest /\ status \in [Persons -> {"NONE", "ACTIVE", "INACTIVE"}]
    BY DEF AdminsInv, TypeOK
  <1>3. /\ \A p \in Persons : status[p] # "NONE" => status'[p] = status[p]
        /\ \A p \in Persons : status'[p] = "INACTIVE" => status[p] = "INACTIVE"
    BY <1>1, <1>2
  <1>4. \A g \in grants : g.person \in Persons
    BY <1>2 DEF TypeOK, Assignment
  <1>5. AdminsAlone
    BY <1>1, <1>2, <1>3, <1>4 DEF AdminsAlone, AdminGrants, GrantsRest
  <1>6. GrantsRest'
    <2>1. \A w \in Workers : request[w].op = "grant" => request[w].grant.person \in Persons
      BY <1>2, RequestFields DEF Assignment
    <2> QED
      BY <1>1, <1>2, <1>3, <1>4, <2>1 DEF GrantsRest, Asked
  <1>7. ~overlapped => Founded'
    BY <1>1, <1>3 DEF AdminsInv, Founded, AdminGrants
  <1> QED
    BY <1>1, <1>5, <1>6, <1>7, AdminsQuiet

\* What ends while it is alone leaves nobody at work.
LEMMA CommitEnds ==
    ASSUME AdminsInv, NEW w \in Busy, Commit(w)
    PROVE  /\ UNCHANGED <<today, overlapped>>
           /\ request'[w] = Idle /\ request'[w] # request[w]
           /\ \A v \in Workers : request'[v] \in {request[v], Idle}
           /\ ~overlapped => OneRequest'
  <1>1. UNCHANGED <<today, overlapped>> /\ request' = [request EXCEPT ![w] = Idle]
    BY DEF Commit
  <1>2. request'[w] = Idle /\ \A v \in Workers \ {w} : request'[v] = request[v]
    BY <1>1 DEF AdminsInv, TypeOK, Busy
  <1>3. ASSUME ~overlapped
        PROVE  OneRequest'
    <2>1. \A v \in Workers : request'[v] = Idle
      BY <1>2, <1>3 DEF AdminsInv, OneRequest, Busy
    <2> QED
      BY <2>1 DEF OneRequest, Busy, Fits, Idle
  <1> QED
    BY <1>1, <1>2, <1>3 DEF Busy

\* Requests ask no more of persons who are not unmade.
LEMMA AskedStands ==
    ASSUME AdminsInv, \A v \in Workers : request'[v] \in {request[v], Idle},
           \A p \in Persons : status[p] # "NONE" => status'[p] # "NONE"
    PROVE  \A v \in Workers : Asked(request[v])'
  <1>1. \A v \in Workers : request[v].op = "grant" => request[v].grant.person \in Persons
    BY RequestFields DEF AdminsInv, Assignment
  <1> QED
    BY <1>1 DEF AdminsInv, GrantsRest, Asked, Idle

LEMMA CommitGrantKept ==
    ASSUME AdminsInv, NEW w \in Busy, Commit(w), CommitGrant(w)
    PROVE  StepKept
  <1> DEFINE r == request[w]
             g == request[w].grant
  <1>0. /\ TypeOK /\ GrantsRest /\ w \in Workers
        /\ status \in [Persons -> {"NONE", "ACTIVE", "INACTIVE"}]
        /\ ~overlapped => LastAdminKept /\ Founded /\ OneRequest /\ Fits(r)
    BY DEF AdminsInv, TypeOK, OneRequest, Busy
  <1>1. /\ UNCHANGED <<today, overlapped>>
        /\ request'[w] = Idle /\ request'[w] # request[w]
        /\ \A v \in Workers : request'[v] \in {request[v], Idle}
        /\ ~overlapped => OneRequest'
    BY CommitEnds
  <1>2. r.op \in {"grant", "bootstrap", "revoke"}
    BY DEF CommitGrant
  <1>3. g \in Assignment /\ g.person \in Persons /\ grants \subseteq Assignment
    BY <1>0, <1>2, RequestFields DEF Assignment, TypeOK
  <1>4. \A h \in grants : h.person \in Persons /\ status[h.person] # "NONE"
    BY <1>0, <1>3 DEF GrantsRest, Assignment
  <1>5. CASE r.op = "grant"
    <2>1. grants' = grants \cup {g} /\ status' = status
      BY <1>5 DEF CommitGrant
    <2>2. GrantsRest'
      BY <1>0, <1>1, <1>4, <1>5, <2>1, AskedStands DEF GrantsRest, Asked
    <2>3. CASE g.capability # "SYSTEM_ADMIN"
      <3>1. AdminsAlone
        BY <1>1, <2>1, <2>3 DEF AdminsAlone, AdminGrants
      <3>2. ~overlapped => Founded'
        BY <1>0, <1>5, <3>1 DEF Fits, Founded, AdminsAlone
      <3> QED
        BY <1>1, <2>2, <3>1, <3>2, AdminsQuiet
    <2>4. CASE g.capability = "SYSTEM_ADMIN"
      <3> SUFFICES ASSUME ~overlapped
                   PROVE  LastAdminKept' /\ Founded' /\ OneRequest' /\ OnBehalf
        BY <1>1, <2>2 DEF StepKept
      <3>1. r.actor \in ActiveAdmins
        BY <1>0, <1>5, <2>4 DEF Fits
      <3>2. ActiveAdmins \subseteq ActiveAdmins'
        BY <1>1, <2>1 DEF ActiveAdmins, AdminGrants, InForce
      <3>3. g \in AdminGrants'
        BY <2>1, <2>4 DEF AdminGrants
      <3> QED
        BY <1>0, <1>1, <3>1, <3>2, <3>3 DEF LastAdminKept, Founded, OnBehalf
    <2> QED
      BY <2>3, <2>4
  <1>6. CASE r.op = "bootstrap"
    <2>1. /\ grants' = grants \cup {g}
          /\ status' = IF status[g.person] = "NONE" THEN [status EXCEPT ![g.person] = "ACTIVE"] ELSE status
      BY <1>6 DEF CommitGrant
    <2>2. /\ status'[g.person] # "NONE"
          /\ \A p \in Persons : status[p] # "NONE" => status'[p] = status[p]
          /\ status'[g.person] \in {"ACTIVE", status[g.person]}
      BY <1>0, <1>3, <2>1
    <2>3. GrantsRest'
      BY <1>0, <1>1, <1>4, <2>1, <2>2, AskedStands DEF GrantsRest
    <2> SUFFICES ASSUME ~overlapped
                 PROVE  LastAdminKept' /\ Founded' /\ OneRequest' /\ OnBehalf
      BY <1>1, <2>3 DEF StepKept
    <2>4. ActiveAdmins = {} /\ g.capability = "SYSTEM_ADMIN" /\ g.from = today /\ g.to = LastDay
      BY <1>0, <1>6 DEF Fits
    <2>5. g \in AdminGrants'
      BY <2>1, <2>4 DEF AdminGrants
    <2>6. ASSUME OpenEnded'
          PROVE  ActiveAdmins' # {}
      <3>1. AdminGrants \subseteq AdminGrants'
        BY <2>1 DEF AdminGrants
      <3>2. AdminGrants = {}
        BY <1>0, <2>4, <2>6, <3>1 DEF OpenEnded, LastAdminKept
      <3>3. status'[g.person] = "ACTIVE"
        BY <1>0, <1>3, <2>2, <3>2 DEF Founded
      <3>4. PICK h \in Assignment : h = g
        BY <1>3
      <3>5. InForce(h)'
        BY <1>0, <1>1, <2>4, <3>4, AccessAssumption DEF InForce, TypeOK
      <3> QED
        BY <1>3, <2>5, <3>3, <3>4, <3>5 DEF ActiveAdmins
    <2> QED
      BY <1>1, <2>4, <2>5, <2>6 DEF LastAdminKept, Founded, OnBehalf
  <1>7. CASE r.op = "revoke"
    <2>1. g \in grants /\ grants' = grants \ {g} /\ status' = status
      BY <1>7 DEF CommitGrant
    <2>2. GrantsRest'
      BY <1>0, <1>1, <1>4, <2>1, AskedStands DEF GrantsRest
    <2>3. CASE g.capability # "SYSTEM_ADMIN"
      <3>1. AdminsAlone
        BY <1>1, <2>1, <2>3 DEF AdminsAlone, AdminGrants
      <3>2. ~overlapped => Founded'
        BY <1>0, <1>7, <3>1 DEF Fits, Founded, AdminsAlone
      <3> QED
        BY <1>1, <2>2, <3>1, <3>2, AdminsQuiet
    <2>4. CASE g.capability = "SYSTEM_ADMIN"
      <3> SUFFICES ASSUME ~overlapped
                   PROVE  LastAdminKept' /\ Founded' /\ OneRequest' /\ OnBehalf
        BY <1>1, <2>2 DEF StepKept
      <3>1. r.actor \in ActiveAdmins /\ AdminWithout(g.person)
        BY <1>0, <1>7, <2>4 DEF Fits
      <3>2. PICK q \in ActiveAdmins : q # g.person
        BY <3>1 DEF AdminWithout
      <3>3. PICK h \in AdminGrants : h.person = q /\ InForce(h)
        BY DEF ActiveAdmins
      <3>4. h \in AdminGrants' /\ InForce(h)'
        BY <1>1, <2>1, <3>2, <3>3 DEF AdminGrants, InForce
      <3>5. q \in ActiveAdmins'
        BY <2>1, <3>3, <3>4 DEF ActiveAdmins
      <3> QED
        BY <1>0, <1>1, <3>1, <3>4, <3>5 DEF LastAdminKept, Founded, OnBehalf
    <2> QED
      BY <2>3, <2>4
  <1> QED
    BY <1>2, <1>5, <1>6, <1>7

LEMMA CommitPersonKept ==
    ASSUME AdminsInv, NEW w \in Busy, Commit(w), CommitPerson(w)
    PROVE  StepKept
  <1> DEFINE r == request[w]
  <1>0. /\ TypeOK /\ GrantsRest /\ w \in Workers
        /\ status \in [Persons -> {"NONE", "ACTIVE", "INACTIVE"}]
        /\ ~overlapped => LastAdminKept /\ Founded /\ OneRequest /\ Fits(r)
    BY DEF AdminsInv, TypeOK, OneRequest, Busy
  <1>1. /\ UNCHANGED <<today, overlapped>>
        /\ request'[w] = Idle /\ request'[w] # request[w]
        /\ \A v \in Workers : request'[v] \in {request[v], Idle}
        /\ ~overlapped => OneRequest'
    BY CommitEnds
  <1>2. r.op \in {"link", "deactivate", "provision"}
    BY DEF CommitPerson
  <1>3. \A h \in grants : h.person \in Persons /\ status[h.person] # "NONE"
    BY <1>0 DEF GrantsRest, Assignment, TypeOK
  <1>4. CASE r.op = "link"
    <2>1. UNCHANGED <<status, grants>>
      BY <1>4 DEF CommitPerson
    <2>2. GrantsRest'
      BY <1>0, <1>1, <2>1, AskedStands DEF GrantsRest
    <2>3. AdminsAlone /\ (~overlapped => Founded')
      BY <1>0, <1>1, <2>1 DEF AdminsAlone, AdminGrants, Founded
    <2> QED
      BY <1>1, <2>2, <2>3, AdminsQuiet
  <1>5. CASE r.op = "deactivate"
    <2> DEFINE p == r.person
    <2>1. p \in Persons /\ status' = [status EXCEPT ![p] = "INACTIVE"] /\ grants' = grants
      BY <1>0, <1>5, RequestFields DEF CommitPerson
    <2>2. status'[p] = "INACTIVE" /\ \A q \in Persons \ {p} : status'[q] = status[q]
      BY <1>0, <2>1
    <2>3. GrantsRest'
      BY <1>0, <1>1, <1>3, <2>1, <2>2, AskedStands DEF GrantsRest
    <2> SUFFICES ASSUME ~overlapped
                 PROVE  LastAdminKept' /\ Founded' /\ OneRequest' /\ OnBehalf
      BY <1>1, <2>3 DEF StepKept
    <2>4. AdminGrants' = AdminGrants /\ AdminGrants # {}
      BY <1>0, <1>5, <2>1 DEF Fits, AdminGrants
    <2>5. ActiveAdmins' = ActiveAdmins \ {p}
      BY <1>1, <2>2, <2>4 DEF ActiveAdmins, InForce
    <2>6. p \in ActiveAdmins => r.actor \in ActiveAdmins /\ ActiveAdmins \ {p} # {}
      BY <1>0, <1>5 DEF Fits, AdminWithout
    <2>7. OpenEnded' <=> OpenEnded
      BY <2>4 DEF OpenEnded
    <2>8. LastAdminKept'
      BY <1>0, <2>5, <2>6, <2>7 DEF LastAdminKept
    <2>9. OnBehalf
      BY <1>0, <1>1, <2>5, <2>6 DEF OnBehalf
    <2> QED
      BY <1>1, <2>4, <2>8, <2>9 DEF Founded
  <1>6. CASE r.op = "provision"
    <2> DEFINE p == r.person
    <2>1. /\ p \in Persons /\ status[p] = "NONE" /\ status' = [status EXCEPT ![p] = "ACTIVE"]
          /\ grants' = grants \cup {r.grant}
      BY <1>0, <1>6, RequestFields DEF CommitPerson
    <2>2. r.grant.person = p /\ r.grant.capability # "SYSTEM_ADMIN"
      BY <1>0, <1>6 DEF GrantsRest, Asked
    <2>3. status'[p] = "ACTIVE" /\ \A q \in Persons \ {p} : status'[q] = status[q]
      BY <1>0, <2>1
    <2>4. GrantsRest'
      BY <1>0, <1>1, <1>3, <2>1, <2>2, <2>3, AskedStands DEF GrantsRest
    <2>5. AdminGrants' = AdminGrants
      BY <2>1, <2>2 DEF AdminGrants
    <2>6. AdminsAlone
      BY <1>1, <1>3, <2>1, <2>3, <2>5 DEF AdminsAlone, AdminGrants
    <2>7. ~overlapped => Founded'
      BY <1>0, <1>6, <2>5 DEF Fits, Founded
    <2> QED
      BY <1>1, <2>4, <2>6, <2>7, AdminsQuiet
  <1> QED
    BY <1>2, <1>4, <1>5, <1>6

LEMMA CommitKept ==
    ASSUME AdminsInv, NEW w \in Busy, Commit(w)
    PROVE  StepKept
  <1>1. CASE CommitActivation(w)
    <2>1. /\ UNCHANGED <<today, overlapped, status, grants>>
          /\ \A v \in Workers : request'[v] \in {request[v], Idle}
      BY <1>1, CommitEnds DEF CommitActivation
    <2>2. GrantsRest'
      BY <2>1, AskedStands DEF AdminsInv, GrantsRest
    <2>3. AdminsAlone /\ (~overlapped => Founded')
      BY <2>1 DEF AdminsInv, AdminsAlone, AdminGrants, Founded
    <2> QED
      BY <2>1, <2>2, <2>3, AdminsQuiet
  <1> QED
    BY <1>1, CommitGrantKept, CommitPersonKept DEF Commit

LEMMA DayKept ==
    ASSUME AdminsInv, DayPasses
    PROVE  StepKept
  <1>0. /\ UNCHANGED <<status, grants, request>> /\ today' = today + 1 /\ today < LastDay
        /\ overlapped' = (overlapped \/ Busy # {})
    BY DEF DayPasses, people
  <1>1. GrantsRest'
    BY <1>0 DEF AdminsInv, GrantsRest, Asked
  <1> SUFFICES ASSUME ~overlapped /\ Busy = {}
               PROVE  LastAdminKept' /\ Founded' /\ OneRequest' /\ OnBehalf
    BY <1>0, <1>1 DEF StepKept
  <1>2. LastAdminKept /\ Founded /\ \A w \in Workers : request[w] = Idle
    BY DEF AdminsInv, Busy
  <1>3. AdminGrants' = AdminGrants /\ Founded'
    BY <1>0, <1>2 DEF Founded, AdminGrants
  <1>4. OneRequest'
    BY <1>0, <1>2 DEF OneRequest, Busy, Fits, Idle
  <1>5. today \in 0..LastDay /\ today' # today
    BY <1>0, AccessAssumption DEF AdminsInv, TypeOK
  <1>6. ASSUME OpenEnded'
        PROVE  ActiveAdmins' # {}
    <2>1. OpenEnded
      BY <1>3, <1>6 DEF OpenEnded
    <2>2. PICK p \in ActiveAdmins : TRUE
      BY <1>2, <2>1 DEF LastAdminKept
    <2>3. PICK g \in AdminGrants : g.person = p /\ InForce(g)
      BY DEF ActiveAdmins
    <2>4. g.from \in Nat /\ g.to = LastDay
      BY <2>1 DEF AdminsInv, TypeOK, AdminGrants, Assignment, OpenEnded
    <2>5. InForce(g)'
      BY <1>0, <1>5, <2>3, <2>4, AccessAssumption DEF InForce
    <2>6. p \in ActiveAdmins'
      BY <1>0, <1>3, <2>3, <2>5 DEF ActiveAdmins
    <2> QED
      BY <2>6
  <1> QED
    BY <1>3, <1>4, <1>5, <1>6 DEF LastAdminKept, OnBehalf

LEMMA AdminsNext == AdminsInv /\ [Next]_vars => AdminsInv' /\ (~overlapped' => LastAdminKept' /\ OnBehalf)
  <1> SUFFICES ASSUME AdminsInv, [Next]_vars
               PROVE  StepKept
    BY Typed DEF AdminsInv, StepKept
  <1>1. ASSUME NEW w \in Workers, NEW p \in Persons, Activate(w, p)
        PROVE  StepKept
    <2> DEFINE r == [op |-> "activate", actor |-> None, person |-> p, user |-> link[p].user]
    <2>1. link[p].user \in Users
      BY <1>1 DEF Activate, AdminsInv, TypeOK
    <2>2. r \in Request /\ Asked(r) /\ Fits(r)
      BY <2>1 DEF Request, Asked, Fits
    <2>3. Begin(w, r)
      BY <1>1 DEF Activate
    <2> HIDE DEF r
    <2> QED
      BY <2>2, <2>3, AdminsBegin
  <1>2. ASSUME NEW w \in Workers, Drop(w)
        PROVE  StepKept
    <2>1. /\ UNCHANGED <<today, overlapped, status, grants>>
          /\ \A v \in Workers : request'[v] \in {request[v], Idle}
      BY <1>2 DEF Drop, people, AdminsInv, TypeOK
    <2>2. GrantsRest'
      BY <2>1, AskedStands DEF AdminsInv, GrantsRest
    <2>3. AdminsAlone /\ (~overlapped => Founded')
      BY <2>1 DEF AdminsInv, AdminsAlone, AdminGrants, Founded
    <2> QED
      BY <2>1, <2>2, <2>3, AdminsQuiet
  <1>3. CASE UNCHANGED vars
    <2>1. UNCHANGED <<today, overlapped, status, grants, request>>
      BY <1>3 DEF vars
    <2>2. GrantsRest'
      BY <2>1 DEF AdminsInv, GrantsRest, Asked
    <2>3. AdminsAlone /\ (~overlapped => Founded')
      BY <2>1 DEF AdminsInv, AdminsAlone, AdminGrants, Founded
    <2> QED
      BY <2>1, <2>2, <2>3, AdminsQuiet
  <1> QED
    BY <1>1, <1>2, <1>3, BootstrapKept, GrantKept, ManageKept, CommitKept, AtOnceKept, DayKept
       DEF Next, Busy, Staff

\* As long as requests do not overlap, through any sequence of grants, revocations and deactivations there
\* is an active SYSTEM_ADMIN unless grants run out, and only a SYSTEM_ADMIN changes who is one, but for the
\* first: the checks of identity/services.py suffice then, although the transaction opens after them.
THEOREM AdminsStayKept == Spec => AdminsKept
  <1>1. Init => AdminsInv
    <2> SUFFICES ASSUME Init
                 PROVE  AdminsInv
      OBVIOUS
    <2>1. grants = {} /\ (\A w \in Workers : request[w] = Idle) /\ \A p \in Persons : status[p] = "NONE"
      BY DEF Init
    <2>2. AdminGrants = {} /\ Busy = {}
      BY <2>1 DEF AdminGrants, Busy
    <2> QED
      BY <2>1, <2>2, InitTyped DEF AdminsInv, GrantsRest, Asked, Fits, Idle, LastAdminKept, OpenEnded, Founded, OneRequest
  <1>2. AdminsInv /\ [Next]_vars =>
           [~overlapped' =>
              /\ LastAdminKept'
              /\ today' = today /\ ActiveAdmins' # ActiveAdmins =>
                    \/ ActiveAdmins = {}
                    \/ \E w \in Workers : request'[w] # request[w] /\ request[w].actor \in ActiveAdmins]_vars
    BY AdminsNext DEF OnBehalf
  <1> QED
    BY <1>1, <1>2, AdminsNext, PTL DEF Spec, AdminsKept

=============================================================================
