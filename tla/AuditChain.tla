------------------------------ MODULE AuditChain ------------------------------
(***************************************************************************)
(* The audit trail: every event carries the hash of the one before it.     *)
(*                                                                         *)
(* Sources: identity/audit.py, identity/models.py, coursework/academic/    *)
(* common.py.                                                              *)
(*                                                                         *)
(* record runs in the transaction of the change it is about, or, for a     *)
(* denial, in one of its own.  It selects the last row for update:         *)
(* SelectLast is the snapshot the statement reads, InsertEvent comes when  *)
(* the row's lock is free.  The row has not changed when the lock arrives, *)
(* so it is still the answer, even when another has come after it.  An     *)
(* empty table has no row to lock.  Rows appear to others at CommitTxn.    *)
(*                                                                         *)
(* Abstracted: an event is its id and the id of the event whose hash it    *)
(* carries, 0 for GENESIS; hashes do not collide and rows are not edited.  *)
(***************************************************************************)
EXTENDS Integers, FiniteSets

CONSTANTS
    Writers,
    MaxEvents \* bound: ids given out

ASSUME AuditAssumption == MaxEvents \in Nat

VARIABLES
    events,    \* committed AuditEvent rows
    nextId,    \* ids are given out in the order of the inserts and never again
    txn,       \* the open transaction of each writer
    contended  \* history: one selected while another had a transaction open

trailVars == <<events, nextId, txn, contended>>

Event == [id : Nat \ {0}, prev : Nat]

Txn == [at : {"idle", "select", "recorded"}, row : Nat, own : SUBSET Event, locked : SUBSET Nat]

NoTxn == [at |-> "idle", row |-> 0, own |-> {}, locked |-> {}]

Visible(w) == events \cup txn[w].own

\* order_by("-id").first(), 0 when there is none
IsLast(rows, id) ==
    IF rows = {} THEN id = 0
    ELSE \E e \in rows : e.id = id /\ \A f \in rows : f.id <= id

LockedByOthers(w) == UNION {txn[v].locked : v \in Writers \ {w}}

Select(w, rows) ==
    /\ txn[w].at # "select"
    /\ \E id \in 0..MaxEvents :
          /\ IsLast(rows, id)
          /\ txn' = [txn EXCEPT ![w].at = "select", ![w].row = id]
    /\ contended' = (contended \/ \E v \in Writers \ {w} : txn[v].at # "idle")
    /\ UNCHANGED <<events, nextId>>

SelectLastCommitted(w) == Select(w, events)

SelectLast(w) == Select(w, Visible(w))

InsertEvent(w) ==
    /\ txn[w].at = "select"
    /\ txn[w].row \notin LockedByOthers(w)
    /\ nextId <= MaxEvents
    /\ txn' = [txn EXCEPT ![w].at = "recorded",
                          ![w].own = @ \cup {[id |-> nextId, prev |-> txn[w].row]},
                          ![w].locked = @ \cup ({txn[w].row} \ {0})]
    /\ nextId' = nextId + 1
    /\ UNCHANGED <<events, contended>>

CommitTxn(w) ==
    /\ txn[w].at = "recorded"
    /\ events' = Visible(w)
    /\ txn' = [txn EXCEPT ![w] = NoTxn]
    /\ UNCHANGED <<nextId, contended>>

\* The change is refused after the event, a deadlock is broken, or the process dies.
RollbackTxn(w) ==
    /\ txn[w].at # "idle"
    /\ txn' = [txn EXCEPT ![w] = NoTxn]
    /\ UNCHANGED <<events, nextId, contended>>

TrailInit ==
    /\ events = {}
    /\ nextId = 1
    /\ txn = [w \in Writers |-> NoTxn]
    /\ contended = FALSE

TrailNext == \E w \in Writers : SelectLast(w) \/ InsertEvent(w) \/ CommitTxn(w) \/ RollbackTxn(w)

TrailSpec == TrailInit /\ [][TrailNext]_trailVars

-----------------------------------------------------------------------------
(* What the trail promises *)

TrailTypeOK ==
    /\ events \in SUBSET Event
    /\ nextId \in Nat \ {0}
    /\ txn \in [Writers -> Txn]
    /\ contended \in BOOLEAN

Before(e) == {f \in events : f.id < e.id}

\* verify_chain: in the order of the ids, each event follows the one before it.
ChainVerifies == \A e \in events : IsLast(Before(e), e.prev)

\* However writers interleave and roll back, the trail never refers to an event that is not in it: from
\* each event the hashes lead back, over ever older events, to the beginning.  And it is one chain as long
\* as no writer looks for the last event while another is recording: several events in a transaction, and
\* events rolled back, do no harm.
ChainSound ==
    /\ \A e \in events : e.prev = 0 \/ \E f \in Before(e) : f.id = e.prev
    /\ ~contended => ChainVerifies

=============================================================================
