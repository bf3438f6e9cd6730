----------------------------- MODULE AuditStore -----------------------------
(***************************************************************************)
(* The HMAC-chained audit trail as JdbcAuditEventStore keeps it in         *)
(* PostgreSQL.  A writer is a transaction of the application that appends  *)
(* one or more rows; append joins that transaction, so the advisory lock   *)
(* it takes is held until the whole transaction ends, and its rows vanish  *)
(* if the transaction rolls back.  Each statement of a READ COMMITTED      *)
(* transaction sees the rows committed before it and its own.              *)
(*                                                                         *)
(* An HMAC covers the row's id, which the sequence never repeats, so a     *)
(* row's HMAC is represented by the row's id, and no HMAC (null) by 0.     *)
(***************************************************************************)
EXTENDS Integers, FiniteSets

CONSTANTS
  Writers,     \* concurrent application transactions
  None,
  Instants,    \* what Instant.now(clock) may return, in nanoseconds
  MaxAppends,  \* bound: rows one transaction appends
  MaxId        \* bound: no transaction begins once the sequence is past it

ASSUME AuditConstants ==
  /\ None \notin Writers
  /\ Instants \subseteq Nat
  /\ MaxAppends \in Nat
  /\ MaxId \in Nat

VARIABLES
  rows,      \* committed rows of audit_event
  nextId,    \* audit_event_id_seq: never rolled back
  lock,      \* holder of pg_advisory_xact_lock(7341)
  writer,    \* per writer: where it is and what it has not committed
  verdict    \* what the last GET /api/admin/audit/verify answered

vars == <<rows, nextId, lock, writer, verdict>>

AuditEvent == [id : Nat \ {0}, prev : Nat, hashed : Nat, stored : Nat]
Writer ==
  [pc : {"idle", "open", "locked", "linked"}, own : SUBSET AuditEvent,
   prev : Nat, appends : Nat]
IdleWriter == [pc |-> "idle", own |-> {}, prev |-> 0, appends |-> 0]

TypeOK ==
  /\ rows \subseteq AuditEvent
  /\ nextId \in Nat \ {0}
  /\ lock \in Writers \cup {None}
  /\ writer \in [Writers -> Writer]
  /\ verdict \in {"none", "ok", "broken"}

Init ==
  /\ rows = {}
  /\ nextId = 1
  /\ lock = None
  /\ writer = [w \in Writers |-> IdleWriter]
  /\ verdict = "none"

-----------------------------------------------------------------------------
(* The order of the rows: events() and previousHmac() sort by id.          *)

\* n is the id before `id` among the rows of S, 0 if there is none.
IsPredecessor(n, id, S) ==
  /\ n < id
  /\ n = 0 \/ \E r \in S : r.id = n
  /\ \A r \in S : r.id < id => r.id <= n

\* n is the highest id of S, 0 if S is empty: ORDER BY id DESC LIMIT 1.
IsLatest(n, S) ==
  /\ n = 0 \/ \E r \in S : r.id = n
  /\ \A r \in S : r.id <= n

Linked(S) == \A r \in S : IsPredecessor(r.prev, r.id, S)

\* TIMESTAMPTZ keeps microseconds; the driver rounds the nanoseconds away.
StoredTimestamp(t) == ((t + 500) \div 1000) * 1000

-----------------------------------------------------------------------------
(* AuditVerifier.verify with the segment verifier of the production        *)
(* wiring, which knows no restore nonce and so accepts no break.           *)

SegmentsUnbroken(S) == Linked(S)
RowHmacMatches(r) == r.stored = r.hashed
Verify(S) ==
  IF SegmentsUnbroken(S) /\ \A r \in S : RowHmacMatches(r) THEN "ok" ELSE "broken"

-----------------------------------------------------------------------------
Begin(w) ==
  /\ writer[w].pc = "idle"
  /\ nextId <= MaxId
  /\ writer' = [writer EXCEPT ![w].pc = "open"]
  /\ UNCHANGED <<rows, nextId, lock, verdict>>

\* The lock is reentrant: a second append of one transaction finds it held.
ChainLockIgnored(w) == TRUE
ChainLockFree(w) == lock \in {None, w}

TakeChainLock(w) ==
  /\ writer[w].pc = "open"
  /\ writer[w].appends < MaxAppends
  /\ ChainLockFree(w)
  /\ lock' = w
  /\ writer' = [writer EXCEPT ![w].pc = "locked"]
  /\ UNCHANGED <<rows, nextId, verdict>>

CommittedRowsOnly(w) == rows
VisibleRows(w) == rows \cup writer[w].own

PreviousHmac(w) ==
  /\ writer[w].pc = "locked"
  /\ \E n \in 0..nextId :
       /\ IsLatest(n, VisibleRows(w))
       /\ writer' = [writer EXCEPT ![w].pc = "linked", ![w].prev = n]
  /\ UNCHANGED <<rows, nextId, lock, verdict>>

\* A session lock given back after each append instead of the xact lock.
LockReleasedByAppend(w) == None
LockAfterAppend(w) == lock

NullIdFallback == 0
DrawnId == nextId

InsertRow(w) ==
  /\ writer[w].pc = "linked"
  /\ \E now \in Instants :
       writer' = [writer EXCEPT
         ![w].pc = "open",
         ![w].appends = @ + 1,
         ![w].own = @ \cup {[id |-> DrawnId, prev |-> writer[w].prev,
                             hashed |-> now, stored |-> StoredTimestamp(now)]}]
  /\ nextId' = nextId + 1
  /\ lock' = LockAfterAppend(w)
  /\ UNCHANGED <<rows, verdict>>

Commit(w) ==
  /\ writer[w].pc = "open"
  /\ rows' = rows \cup writer[w].own
  /\ writer' = [writer EXCEPT ![w] = IdleWriter]
  /\ lock' = IF lock = w THEN None ELSE lock
  /\ UNCHANGED <<nextId, verdict>>

\* An exception anywhere in the transaction, or the loss of its connection.
Rollback(w) ==
  /\ writer[w].pc # "idle"
  /\ writer' = [writer EXCEPT ![w] = IdleWriter]
  /\ lock' = IF lock = w THEN None ELSE lock
  /\ UNCHANGED <<rows, nextId, verdict>>

VerifyTrail ==
  /\ verdict' = Verify(rows)
  /\ UNCHANGED <<rows, nextId, lock, writer>>

Next ==
  \/ \E w \in Writers :
       \/ Begin(w) \/ TakeChainLock(w) \/ PreviousHmac(w) \/ InsertRow(w)
       \/ Commit(w) \/ Rollback(w)
  \/ VerifyTrail

Spec == Init /\ [][Next]_vars

-----------------------------------------------------------------------------
(* Properties.                                                             *)

\* However appends of concurrent transactions interleave and whichever of
\* them roll back, every committed row carries the HMAC of the committed row
\* before it, over the gaps that rollbacks leave in the sequence.
ChainLinked == Linked(rows)

\* Rows become visible in id order: a commit never adds a row below one that
\* a reader has already seen, so reading "everything after id n" misses none.
AppendsInIdOrder ==
  [][/\ rows \subseteq rows'
     /\ \A new \in rows' \ rows, old \in rows : old.id < new.id]_rows

\* The trail the application wrote passes its own verification
\* (JdbcAuditEventStoreTest.java:40, AuditChainSerializationTest.java:42).
TrailVerifies == verdict # "broken"

-----------------------------------------------------------------------------
(* The inductive invariant behind ChainLinked and AppendsInIdOrder.        *)

\* A transaction past the lock, or with rows to commit, holds the lock.
WritersHoldLock ==
  \A w \in Writers :
    writer[w].pc \in {"locked", "linked"} \/ writer[w].own # {} => lock = w

\* The sequence is above every row, and what is uncommitted above what is not.
IdsGrow ==
  /\ \A r \in rows : r.id < nextId
  /\ \A w \in Writers : \A r \in writer[w].own :
       r.id < nextId /\ \A old \in rows : old.id < r.id

\* Each transaction sees a linked chain and extends it at its end.
VisibleChainLinked ==
  /\ Linked(rows)
  /\ \A w \in Writers : Linked(VisibleRows(w))
  /\ \A w \in Writers :
       writer[w].pc = "linked" => IsLatest(writer[w].prev, VisibleRows(w))

\* What every reachable state satisfies and every step preserves: why the
\* chain cannot fork although ids are drawn outside the transaction.
ChainInv == WritersHoldLock /\ IdsGrow /\ VisibleChainLinked
=============================================================================
