------------------------------ MODULE ColumnMapping ------------------------------
(***************************************************************************)
(* The columns of an uploaded sheet and the fields of an import type:      *)
(* matched by name, alias and likeness, then by an assistant where one is  *)
(* configured, and confirmed by the administrator.                         *)
(*                                                                         *)
(* Sources: imports/{mapping,engine,api,types}.py.                         *)
(*                                                                         *)
(* Nothing is kept between analyse and preview: the preview asks again     *)
(* how each column would be matched, only to note where the administrator  *)
(* had each field from.  The assistant is a service outside the program:   *)
(* it may propose anything, and something else each time.                  *)
(*                                                                         *)
(* Abstracted: what is written in a header beyond the names it equals and  *)
(* the names it is like; the alternatives shown; the reading of files.     *)
(***************************************************************************)
EXTENDS Naturals, Sequences, FiniteSets

CONSTANTS
    ImportType,
    Columns,
    Sheets,   \* sequences of rows, each a function from Columns to headers, cells included
    Assisted, \* IMPORT_AI_MAPPER names a mapper that can be loaded
    Blank, NoField

\* Of each import type the fields, and which of them a mapping must have.
FieldsOf ==
    [structure |-> {"school_code", "school_name", "department_code", "department_name", "university_code"},
     courses |-> {"code", "title", "credits", "category", "activity_type", "department", "has_ethics_submodule"},
     faculty |-> {"name", "email", "designation", "department", "is_external", "affiliation"},
     scholars |-> {"prn", "name", "email", "gender", "category", "entry_qualification", "department",
                   "admission_date", "registration_date", "research_area", "pwd_percent"},
     enrollments |-> {"prn", "course_code", "academic_year", "term", "section"},
     assignments |-> {"faculty_email", "course_code", "academic_year", "term", "role", "section", "basis",
                      "valid_from", "valid_to"}]

OptionalOf ==
    [structure |-> {"school_name", "university_code"},
     courses |-> {"activity_type", "department", "has_ethics_submodule"},
     faculty |-> {"department", "is_external", "affiliation"},
     scholars |-> {"registration_date", "research_area", "pwd_percent"},
     enrollments |-> {"section"},
     assignments |-> {"section", "valid_from", "valid_to"}]

Fields == FieldsOf[ImportType]
Required == Fields \ OptionalOf[ImportType]

\* named: pairs of a field and how the vocabulary has the header, by the field's name or as an alias;
\* near: fields it is like; leader: the one of them it is clearly most like, or NoField.
Header(h) ==
    h # Blank => /\ h.named \subseteq Fields \X {"EXACT", "ALIAS"}
                 /\ h.near \subseteq Fields
                 /\ h.leader \in h.near \cup {NoField}
                 /\ Cardinality(h.near) = 1 => h.leader \in h.near

ASSUME MappingAssumption ==
    /\ ImportType \in DOMAIN FieldsOf
    /\ Columns \subseteq Nat
    /\ \A s \in Sheets : \A i \in DOMAIN s : \A c \in Columns : Header(s[i][c])
    /\ Assisted \in BOOLEAN
    /\ NoField \notin Fields \cup {"EXACT", "ALIAS"}

VARIABLES
    sheet,   \* the uploaded sheet
    header,  \* number of the row taken for the header
    stage,   \* "uploaded", "matching", "shown", "confirmed" (matching again), "recorded"
    columns, \* ColumnSuggestion of each column with a header
    taken,   \* fields the assistant may no longer propose
    mapping, \* the confirmed mapping
    sources  \* ImportBatch.mapping_sources

mappingVars == <<sheet, header, stage, columns, taken, mapping, sources>>

-----------------------------------------------------------------------------
(* The header row *)

Texts(row) == {c \in Columns : row[c] # Blank}

Score(row) == Cardinality({c \in Texts(row) : row[c].named # {}})

\* The first of the rows that match most, of those of the first 15 with two texts at least.
DetectHeaderRow(s) ==
    LET rows == {i \in DOMAIN s : i <= 15 /\ Cardinality(Texts(s[i])) >= 2}
        best == {i \in rows : \A j \in rows : Score(s[j]) <= Score(s[i])}
    IN  IF rows = {} THEN 1 ELSE CHOOSE i \in best : \A j \in best : i <= j

HasTable(s, i) ==
    /\ i \in DOMAIN s
    /\ Texts(s[i]) # {}
    /\ \E j \in (i + 1) .. Len(s) : Texts(s[j]) # {}

-----------------------------------------------------------------------------
(* Matching by name, alias and likeness *)

Unmapped == [field |-> NoField, source |-> NoField, status |-> "UNMAPPED"]
Ambiguous == [field |-> NoField, source |-> NoField, status |-> "AMBIGUOUS"]

NamedFields(h) == {n[1] : n \in h.named}

\* Where the vocabulary has a header for one field in both ways, either may be the one noted.
Matches(h) ==
    CASE Cardinality(NamedFields(h)) = 1 -> {[field |-> n[1], source |-> n[2], status |-> "MAPPED"] : n \in h.named}
      [] Cardinality(NamedFields(h)) > 1 -> {Ambiguous}
      [] h.named = {} /\ h.leader # NoField -> {[field |-> h.leader, source |-> "FUZZY", status |-> "SUGGESTED"]}
      [] h.named = {} /\ h.leader = NoField -> {IF h.near = {} THEN Unmapped ELSE Ambiguous}

Claiming(found, f) == {c \in DOMAIN found : found[c].field = f}

\* Two columns claiming the same field: neither is chosen.
FlagCollisions(found) ==
    [c \in DOMAIN found |-> IF found[c].field # NoField /\ Claiming(found, found[c].field) # {c}
                            THEN Ambiguous ELSE found[c]]

Mapped(found) == {c \in DOMAIN found : found[c].status = "MAPPED"}

FieldsIn(found, cs) == {found[c].field : c \in cs} \ {NoField}

Deterministic ==
    LET row == sheet[header']
        possible == UNION {Matches(row[c]) : c \in Texts(row)}
    IN  \E found \in [Texts(row) -> possible] :
           /\ \A c \in Texts(row) : found[c] \in Matches(row[c])
           /\ columns' = FlagCollisions(found)
           /\ taken' = FieldsIn(columns', Mapped(columns'))

-----------------------------------------------------------------------------
(* Analyse, the assistant, preview *)

\* The row is detected, unless the administrator gives it.
Analyze(i) ==
    /\ stage \in {"uploaded", "shown"}
    /\ HasTable(sheet, i)
    /\ header' = i
    /\ Deterministic
    /\ stage' = "matching"
    /\ UNCHANGED <<sheet, mapping, sources>>

Matching == stage \in {"matching", "confirmed"}

Real(c, f) == c \in DOMAIN columns \ Mapped(columns) /\ f \in Fields

Acceptable(c, f) == Real(c, f) /\ f \notin taken

Propose(c, f) ==
    /\ Matching /\ Assisted
    /\ Acceptable(c, f)
    /\ columns' = [columns EXCEPT ![c] = [field |-> f, source |-> "AI", status |-> "SUGGESTED"]]
    /\ taken' = taken \cup {f}
    /\ UNCHANGED <<sheet, header, stage, mapping, sources>>

\* suggest flags collisions anew when the assistant has answered.
EndMatching ==
    LET found == FlagCollisions(columns)
    IN  /\ Matching
        /\ columns' = found
        /\ IF stage = "matching"
           THEN stage' = "shown" /\ UNCHANGED sources
           ELSE /\ stage' = "recorded"
                /\ sources' = [c \in DOMAIN mapping |->
                                  IF c \in DOMAIN found /\ found[c].field = mapping[c]
                                  THEN found[c].source ELSE "MANUAL"]
        /\ UNCHANGED <<sheet, header, taken, mapping>>

MissingRequired == Required \ FieldsIn(columns, DOMAIN columns)

\* confirmed_mapping
Confirmable(m) ==
    /\ \A c \in DOMAIN m : m[c] \in Fields
    /\ \A c, d \in DOMAIN m : m[c] = m[d] => c = d
    /\ Required \subseteq {m[c] : c \in DOMAIN m}

\* The administrator may map any column to any field.
Confirm(i, m) ==
    /\ stage \in {"uploaded", "shown"}
    /\ HasTable(sheet, i)
    /\ Confirmable(m)
    /\ mapping' = m
    /\ header' = i
    /\ Deterministic
    /\ stage' = "confirmed"
    /\ UNCHANGED <<sheet, sources>>

MappingInit ==
    /\ sheet \in Sheets
    /\ header = DetectHeaderRow(sheet)
    /\ stage = "uploaded"
    /\ columns = <<>>
    /\ taken = {}
    /\ mapping = <<>>
    /\ sources = <<>>

MappingNext ==
    \/ \E i \in DOMAIN sheet :
          \/ Analyze(i)
          \/ \E cs \in SUBSET Columns : \E m \in [cs -> Fields] : Confirm(i, m)
    \/ \E c \in Columns, f \in Fields : Propose(c, f)
    \/ EndMatching

MappingSpec == MappingInit /\ [][MappingNext]_mappingVars

-----------------------------------------------------------------------------
(* What a suggestion promises *)

AsShown == [c \in {d \in DOMAIN columns : columns[d].field # NoField} |-> columns[c].field]

\* Named by the header of column c and of no other column: matched without doubt.
Named(c, f) ==
    /\ NamedFields(sheet[header][c]) = {f}
    /\ \A d \in DOMAIN columns \ {c} : /\ NamedFields(sheet[header][d]) # {f}
                                       /\ sheet[header][d].named = {} => sheet[header][d].leader # f

\* "Suggestions are only accepted for real fields that are still free", "two columns claiming the same
\* field: neither is chosen silently": whatever the assistant answers, a column named by its header keeps
\* its field, a column noted as found by name was so named, and a screen that reports no required field
\* missing shows a mapping that can be confirmed as it stands.
SuggestionsStand ==
    /\ stage \in {"shown", "recorded"} =>
          /\ \A c \in DOMAIN columns, f \in Fields :
                Named(c, f) => columns[c].field = f /\ columns[c].status = "MAPPED"
          /\ MissingRequired = {} <=> Confirmable(AsShown)
    /\ stage = "recorded" =>
          \A c \in DOMAIN sources : sources[c] \in {"EXACT", "ALIAS"} => <<mapping[c], sources[c]>> \in sheet[header][c].named

=============================================================================
