-------------------------------- MODULE Imports --------------------------------
(***************************************************************************)
(* Files of records imported in two rounds, a preview that is rolled back  *)
(* and a commit that must come out the same, beside records created one by *)
(* one and everything else that writes to the audit trail.                 *)
(*                                                                         *)
(* Sources: imports/{engine,models,types}.py, coursework/academic/         *)
(* {institution,structure}.py; the audit trail is AuditChain.              *)
(*                                                                         *)
(* A row is matched against the file and the records, inserted and then    *)
(* recorded in the audit trail, whose last event the transaction thereby   *)
(* locks until it ends.  Records of others appear when they commit.        *)
(*                                                                         *)
(* Abstracted: a row is its natural key, its other values and what reading *)
(* its cells and the authorization of the row come to; the mapping of      *)
(* columns; provisioning; that only the person who previewed a batch, with *)
(* the same file, commits it.                                              *)
(***************************************************************************)
EXTENDS AuditChain, Sequences

CONSTANTS
    Files,      \* [type, rows], a row being [key, values, cells]
    Singles,    \* [type, rows] with one row, created by a screen of its own
    Keyed,      \* the types whose natural key is unique in the database
    Batches,    \* ImportBatch rows that can be created
    NoBatch

RowsOf(f) == {f.rows[i] : i \in DOMAIN f.rows}

ASSUME ImportAssumption ==
    /\ \A f \in Files \cup Singles : f.rows \in Seq(RowsOf(f))
    /\ \A f \in Files \cup Singles : \A i \in DOMAIN f.rows :
          f.rows[i].cells \in {"VALID", "MISSING", "INVALID", "AMBIGUOUS"}
    /\ \A f \in Singles : Len(f.rows) = 1
    /\ NoBatch \notin Batches

VARIABLES
    records, \* records of all the types, each with the batch and row it came from and its event in the trail
    batches, \* ImportBatch rows
    job,     \* what each writer is importing
    abreast  \* history: two transactions recorded events at once, past the lock on the last one

importVars == <<records, batches, job, abreast>>

Blocking == {"INVALID", "AMBIGUOUS", "MISSING", "CONFLICT"}

NotPreviewed == [status |-> "NONE"]

NoJob == [op |-> "none"]

Start(w, op, batch, copy, file) ==
    /\ job[w] = NoJob
    /\ txn[w].at = "idle"
    /\ job' = [job EXCEPT ![w] = [op |-> op, at |-> "match", batch |-> batch, copy |-> copy, file |-> file,
                                  report |-> <<>>, own |-> {}]]
    /\ UNCHANGED <<records, batches, abreast, trailVars>>

StartPreview(w, file) == Start(w, "preview", NoBatch, NotPreviewed, file)

\* The checks of commit are of the batch as loaded.
StartCommit(w, b, skip) ==
    /\ batches[b].status = "PREVIEWED"
    /\ LET report == batches[b].report
       IN  /\ \E i \in DOMAIN report : report[i] = "VALID"
           /\ skip \/ \A i \in DOMAIN report : report[i] \notin Blocking
    /\ Start(w, "commit", b, batches[b], batches[b].file)

StartSingle(w, single) == Start(w, "single", NoBatch, NotPreviewed, single)

-----------------------------------------------------------------------------
(* _process *)

Row(w) == Len(job[w].report) + 1

Done(w) == Row(w) > Len(job[w].file.rows)

Same(r, file, row) == r.type = file.type /\ r.key = row.key

\* A readable row repeats the first readable one with its key, or else a record that exists.
Seen(file, i) == {j \in 1..(i - 1) : file.rows[j].cells = "VALID" /\ file.rows[j].key = file.rows[i].key}

Matched(file, i, known) ==
    LET row == file.rows[i]
        first == {file.rows[j].values : j \in {k \in Seen(file, i) : \A n \in Seen(file, i) : k <= n}}
        found == {r.values : r \in {x \in known : Same(x, file, row)}}
        earlier == IF first # {} THEN first ELSE found
    IN  IF row.cells # "VALID" THEN row.cells
        ELSE IF earlier = {} THEN "VALID"
        ELSE IF row.values \in earlier THEN "DUPLICATE" ELSE "CONFLICT"

Reported(w, is) == job' = [job EXCEPT ![w].report = Append(@, is), ![w].at = "match"]

MatchRow(w) ==
    /\ job[w].op # "none" /\ job[w].at = "match" /\ ~Done(w)
    /\ LET is == Matched(job[w].file, Row(w), records \cup job[w].own)
       IN  IF is = "VALID" THEN job' = [job EXCEPT ![w].at = "insert"] ELSE Reported(w, is)
    /\ UNCHANGED <<records, batches, abreast, trailVars>>

\* An insert waits for another one of its key, and is refused when that is committed.
InsertRow(w) ==
    LET file == job[w].file
        row == file.rows[Row(w)]
        clash(known) == file.type \in Keyed /\ \E r \in known : Same(r, file, row)
    IN  /\ job[w].op # "none" /\ job[w].at = "insert"
        /\ \A v \in Writers \ {w} : job[v].op # "none" => ~clash(job[v].own)
        /\ IF clash(records)
           THEN Reported(w, "CONFLICT") /\ UNCHANGED trailVars
           ELSE /\ SelectLast(w)
                /\ job' = [job EXCEPT ![w].at = "record", ![w].own = @ \cup
                              {[type |-> file.type, key |-> row.key, values |-> row.values,
                                batch |-> job[w].batch, row |-> Row(w), event |-> 0]}]
        /\ UNCHANGED <<records, batches, abreast>>

Recording(w) == abreast' = (abreast \/ \E v \in Writers \ {w} : txn[v].own # {})

RecordRow(w) ==
    /\ job[w].op # "none" /\ job[w].at = "record"
    /\ InsertEvent(w)
    /\ Recording(w)
    /\ job' = [job EXCEPT ![w].at = "match", ![w].report = Append(@, "VALID"),
                          ![w].own = {[r EXCEPT !.event = IF @ = 0 THEN nextId ELSE @] : r \in @}]
    /\ UNCHANGED <<records, batches>>

-----------------------------------------------------------------------------
(* How a pass ends *)

Leave(w) == job' = [job EXCEPT ![w] = NoJob]

Rollback(w) == IF txn[w].at = "idle" THEN UNCHANGED trailVars ELSE RollbackTxn(w)

EndPreview(w, b) ==
    /\ job[w].op = "preview" /\ job[w].at = "match" /\ Done(w)
    /\ batches[b] = NotPreviewed
    /\ batches' = [batches EXCEPT ![b] = [status |-> "PREVIEWED", file |-> job[w].file, report |-> job[w].report]]
    /\ Rollback(w)
    /\ Leave(w)
    /\ UNCHANGED <<records, abreast>>

CommitEvent(w) ==
    /\ job[w].op = "commit" /\ job[w].at = "match" /\ Done(w)
    /\ job[w].report = job[w].copy.report
    /\ SelectLast(w)
    /\ job' = [job EXCEPT ![w].at = "event"]
    /\ UNCHANGED <<records, batches, abreast>>

StalePreview(w) ==
    /\ job[w].op = "commit" /\ job[w].at = "match" /\ Done(w)
    /\ job[w].report # job[w].copy.report
    /\ Rollback(w)
    /\ Leave(w)
    /\ UNCHANGED <<records, batches, abreast>>

RecordCommit(w) ==
    /\ job[w].op = "commit" /\ job[w].at = "event"
    /\ InsertEvent(w)
    /\ Recording(w)
    /\ job' = [job EXCEPT ![w].at = "save"]
    /\ UNCHANGED <<records, batches>>

SaveUnguarded(w) ==
    /\ job[w].op = "commit" /\ job[w].at = "save"
    /\ job' = [job EXCEPT ![w].at = "saved"]
    /\ UNCHANGED <<records, batches, abreast, trailVars>>

\* ImportBatch.save looks at the stored status; refused, it takes the whole import back.
SaveBatch(w) ==
    /\ job[w].op = "commit" /\ job[w].at = "save"
    /\ IF batches[job[w].batch].status = "COMMITTED"
       THEN Rollback(w) /\ Leave(w)
       ELSE job' = [job EXCEPT ![w].at = "saved"] /\ UNCHANGED trailVars
    /\ UNCHANGED <<records, batches, abreast>>

\* The update of the batch waits for another one and is then made all the same.
CommitImport(w) ==
    /\ job[w].op = "commit" /\ job[w].at = "saved"
    /\ CommitTxn(w)
    /\ records' = records \cup job[w].own
    /\ batches' = [batches EXCEPT ![job[w].batch].status = "COMMITTED", ![job[w].batch].report = job[w].report]
    /\ Leave(w)
    /\ UNCHANGED abreast

EndSingle(w) ==
    /\ job[w].op = "single" /\ job[w].at = "match" /\ Done(w)
    /\ IF job[w].report = <<"VALID">>
       THEN CommitTxn(w) /\ records' = records \cup job[w].own
       ELSE Rollback(w) /\ UNCHANGED records
    /\ Leave(w)
    /\ UNCHANGED <<batches, abreast>>

\* The process dies, or the database breaks a deadlock.
Abort(w) ==
    /\ job[w] # NoJob
    /\ Rollback(w)
    /\ Leave(w)
    /\ UNCHANGED <<records, batches, abreast>>

\* Everything else that is audited.
OtherWrite(w) ==
    /\ job[w] = NoJob
    /\ \/ SelectLast(w) /\ UNCHANGED abreast
       \/ InsertEvent(w) /\ Recording(w)
       \/ CommitTxn(w) /\ UNCHANGED abreast
       \/ RollbackTxn(w) /\ UNCHANGED abreast
    /\ UNCHANGED <<records, batches, job>>

ImportInit ==
    /\ TrailInit
    /\ records = {}
    /\ batches = [b \in Batches |-> NotPreviewed]
    /\ job = [w \in Writers |-> NoJob]
    /\ abreast = FALSE

ImportNext ==
    \E w \in Writers :
       \/ \E file \in Files : StartPreview(w, file)
       \/ \E b \in Batches, skip \in BOOLEAN : StartCommit(w, b, skip)
       \/ \E single \in Singles : StartSingle(w, single)
       \/ \E b \in Batches : EndPreview(w, b)
       \/ MatchRow(w) \/ InsertRow(w) \/ RecordRow(w)
       \/ CommitEvent(w) \/ StalePreview(w) \/ RecordCommit(w) \/ SaveBatch(w) \/ CommitImport(w)
       \/ EndSingle(w) \/ Abort(w) \/ OtherWrite(w)

ImportSpec == ImportInit /\ [][ImportNext]_<<trailVars, importVars>>

-----------------------------------------------------------------------------
(* What an import promises *)

CreatedFrom(b, i) == {r \in records : r.batch = b /\ r.row = i}

\* A committed batch has created one record from every row its report calls valid and none from another, a
\* batch that is only previewed none, though two commits of it run at once, with other imports, screens and
\* crashes between their rows; for types whose key the database does not know, as long as the lock on the
\* last audit event keeps transactions apart.
ImportedOnce ==
    \A b \in Batches :
       batches[b] # NotPreviewed /\ (batches[b].file.type \in Keyed \/ ~abreast) =>
          \A i \in DOMAIN batches[b].report :
             Cardinality(CreatedFrom(b, i)) =
                IF batches[b].status = "COMMITTED" /\ batches[b].report[i] = "VALID" THEN 1 ELSE 0

=============================================================================
