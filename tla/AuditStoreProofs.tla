-------------------------- MODULE AuditStoreProofs --------------------------
(***************************************************************************)
(* The audit chain never forks and grows only at its end, for any number   *)
(* of concurrent transactions, rows and instants.                          *)
(***************************************************************************)
EXTENDS AuditStore, TLAPS

\* Rounding a timestamp to microseconds yields a natural number.
LEMMA StoredTimestampType ==
  ASSUME NEW t \in Nat
  PROVE  StoredTimestamp(t) \in Nat
  BY SMT DEF StoredTimestamp

\* A chain stays linked when a row above all others names the highest of them.
LEMMA LinkedExtends ==
  ASSUME NEW S \in SUBSET AuditEvent, NEW r \in AuditEvent,
         Linked(S), IsLatest(r.prev, S), \A s \in S : s.id < r.id
  PROVE  Linked(S \cup {r})
  <1> SUFFICES ASSUME NEW s \in S \cup {r}
               PROVE  IsPredecessor(s.prev, s.id, S \cup {r})
    BY DEF Linked
  <1>1. CASE s \in S
    <2>1. IsPredecessor(s.prev, s.id, S) /\ s.id < r.id
      BY <1>1 DEF Linked
    <2> QED  BY <2>1, <1>1, SMT DEF IsPredecessor, AuditEvent
  <1>2. CASE s = r
    <2>1. r.prev < r.id
      BY SMT DEF IsLatest, AuditEvent
    <2> QED  BY <2>1, <1>2, SMT DEF IsPredecessor, IsLatest, AuditEvent
  <1> QED  BY <1>1, <1>2

\* Every reachable state of the audit store is well typed.
THEOREM TypeCorrect == Spec => []TypeOK
  <1>1. Init => TypeOK
    BY SMT DEF Init, TypeOK, IdleWriter, Writer
  <1>2. TypeOK /\ [Next]_vars => TypeOK'
    <2> SUFFICES ASSUME TypeOK, [Next]_vars
                 PROVE  TypeOK'
      OBVIOUS
    <2> USE DEF TypeOK, Writer, IdleWriter
    <2>1. ASSUME NEW w \in Writers, Begin(w) PROVE TypeOK'
      BY <2>1, SMT DEF Begin
    <2>2. ASSUME NEW w \in Writers, TakeChainLock(w) PROVE TypeOK'
      BY <2>2, SMT DEF TakeChainLock
    <2>3. ASSUME NEW w \in Writers, PreviousHmac(w) PROVE TypeOK'
      <3> PICK n \in 0..nextId : writer' = [writer EXCEPT ![w].pc = "linked", ![w].prev = n]
        BY <2>3 DEF PreviousHmac
      <3>1. n \in Nat
        BY SMT
      <3>2. writer' \in [Writers -> Writer]
        BY <3>1
      <3> QED  BY <2>3, <3>2 DEF PreviousHmac
    <2>4. ASSUME NEW w \in Writers, InsertRow(w) PROVE TypeOK'
      <3>1. PICK now \in Instants :
              writer' = [writer EXCEPT
                ![w].pc = "open",
                ![w].appends = @ + 1,
                ![w].own = @ \cup {[id |-> nextId, prev |-> writer[w].prev,
                                    hashed |-> now, stored |-> StoredTimestamp(now)]}]
        BY <2>4 DEF InsertRow, DrawnId
      <3>2. [id |-> nextId, prev |-> writer[w].prev,
             hashed |-> now, stored |-> StoredTimestamp(now)] \in AuditEvent
        BY AuditConstants, StoredTimestampType DEF AuditEvent
      <3>3. writer' \in [Writers -> Writer]
        BY <3>1, <3>2
      <3> QED  BY <2>4, <3>3, SMT DEF InsertRow, LockAfterAppend
    <2>5. ASSUME NEW w \in Writers, Commit(w) PROVE TypeOK'
      BY <2>5, SMT DEF Commit
    <2>6. ASSUME NEW w \in Writers, Rollback(w) PROVE TypeOK'
      BY <2>6, SMT DEF Rollback
    <2>7. CASE VerifyTrail
      BY <2>7, SMT DEF VerifyTrail, Verify
    <2>8. CASE UNCHANGED vars
      BY <2>8 DEF vars
    <2> QED  BY <2>1, <2>2, <2>3, <2>4, <2>5, <2>6, <2>7, <2>8 DEF Next
  <1> QED  BY <1>1, <1>2, PTL DEF Spec

\* An append extends the chain its transaction sees, and no other one.
LEMMA InsertKeepsChainInv ==
  ASSUME TypeOK, ChainInv, NEW w \in Writers, InsertRow(w)
  PROVE  ChainInv'
  <1> PICK now \in Instants :
        writer' = [writer EXCEPT
          ![w].pc = "open",
          ![w].appends = @ + 1,
          ![w].own = @ \cup {[id |-> nextId, prev |-> writer[w].prev,
                              hashed |-> now, stored |-> StoredTimestamp(now)]}]
    BY DEF InsertRow, DrawnId
  <1> DEFINE new == [id |-> nextId, prev |-> writer[w].prev,
                     hashed |-> now, stored |-> StoredTimestamp(now)]
  <1>1. /\ new \in AuditEvent
        /\ new.id = nextId /\ new.prev = writer[w].prev
    BY AuditConstants, StoredTimestampType DEF AuditEvent, TypeOK, Writer
  <1> HIDE DEF new
  <1>2. /\ rows' = rows /\ nextId' = nextId + 1 /\ lock' = lock
        /\ writer[w].pc = "linked" /\ lock = w
    BY DEF InsertRow, LockAfterAppend, ChainInv, WritersHoldLock
  <1>3. /\ writer'[w].own = writer[w].own \cup {new}
        /\ writer'[w].pc = "open"
        /\ \A v \in Writers \ {w} : writer'[v] = writer[v]
    BY DEF new, TypeOK, Writer
  <1>4. \A v \in Writers \ {w} : writer[v].own = {} /\ writer[v].pc \notin {"locked", "linked"}
    BY <1>2 DEF ChainInv, WritersHoldLock
  <1>5. WritersHoldLock'
    BY <1>2, <1>3 DEF ChainInv, WritersHoldLock
  <1>6. IdsGrow'
    <2>1. nextId \in Nat /\ rows \subseteq AuditEvent /\ writer[w].own \subseteq AuditEvent
      BY DEF TypeOK, Writer
    <2>2. \A r \in rows' : r.id < nextId'
      BY <1>2, <2>1, SMT DEF ChainInv, IdsGrow, AuditEvent
    <2>3. \A r \in writer'[w].own : r.id < nextId' /\ \A old \in rows' : old.id < r.id
      BY <1>1, <1>2, <1>3, <2>1, SMT DEF ChainInv, IdsGrow, AuditEvent
    <2> QED  BY <2>2, <2>3, <1>3, <1>4 DEF IdsGrow
  <1>7. VisibleChainLinked'
    <2>1. /\ VisibleRows(w) \in SUBSET AuditEvent
          /\ Linked(VisibleRows(w))
          /\ IsLatest(new.prev, VisibleRows(w))
          /\ \A s \in VisibleRows(w) : s.id < new.id
      BY <1>1, <1>2, SMT DEF ChainInv, VisibleChainLinked, IdsGrow, VisibleRows, TypeOK, Writer
    <2>2. Linked(VisibleRows(w) \cup {new})
      BY <1>1, <2>1, LinkedExtends
    <2>3. VisibleRows(w)' = VisibleRows(w) \cup {new}
      BY <1>2, <1>3 DEF VisibleRows
    <2>4. Linked(rows)'
      BY <1>2 DEF ChainInv, VisibleChainLinked, Linked
    <2>5. \A v \in Writers \ {w} : VisibleRows(v)' = VisibleRows(v)
      BY <1>2, <1>3 DEF VisibleRows
    <2>6. \A v \in Writers : Linked(VisibleRows(v))'
      BY <2>2, <2>3, <2>5 DEF ChainInv, VisibleChainLinked, Linked
    <2>7. \A v \in Writers : writer'[v].pc # "linked"
      BY <1>3, <1>4
    <2> QED  BY <2>4, <2>6, <2>7 DEF VisibleChainLinked
  <1> QED  BY <1>5, <1>6, <1>7 DEF ChainInv

\* A commit publishes the one chain that has uncommitted rows at its end.
LEMMA CommitKeepsChainInv ==
  ASSUME TypeOK, ChainInv, NEW w \in Writers, Commit(w)
  PROVE  ChainInv'
  <1>1. /\ rows' = VisibleRows(w) /\ nextId' = nextId
        /\ writer'[w] = IdleWriter
        /\ \A v \in Writers \ {w} : writer'[v] = writer[v]
        /\ lock' = IF lock = w THEN None ELSE lock
    BY DEF Commit, VisibleRows, TypeOK
  <1>2. IdleWriter.own = {} /\ IdleWriter.pc = "idle"
    BY DEF IdleWriter
  <1>3. WritersHoldLock'
    BY <1>1, <1>2 DEF ChainInv, WritersHoldLock
  <1>4. CASE writer[w].own = {}
    <2>1. rows' = rows
      BY <1>1, <1>4 DEF VisibleRows
    <2>2. IdsGrow'
      BY <1>1, <1>2, <2>1 DEF ChainInv, IdsGrow
    <2>3. /\ VisibleRows(w)' = rows
          /\ \A v \in Writers \ {w} : VisibleRows(v)' = VisibleRows(v)
      BY <1>1, <1>2, <2>1 DEF VisibleRows
    <2>4. VisibleChainLinked'
      BY <1>1, <1>2, <2>1, <2>3 DEF ChainInv, VisibleChainLinked, Linked
    <2> QED  BY <1>3, <2>2, <2>4 DEF ChainInv
  <1>5. CASE writer[w].own # {}
    <2>1. \A v \in Writers \ {w} : writer[v].own = {} /\ writer[v].pc \notin {"locked", "linked"}
      BY <1>5 DEF ChainInv, WritersHoldLock
    <2>2. \A v \in Writers : writer'[v].own = {} /\ writer'[v].pc # "linked"
      BY <1>1, <1>2, <2>1
    <2>3. IdsGrow'
      BY <1>1, <2>2 DEF ChainInv, IdsGrow, VisibleRows
    <2>4. \A v \in Writers : VisibleRows(v)' = rows'
      BY <2>2 DEF VisibleRows
    <2>5. Linked(rows)'
      BY <1>1 DEF ChainInv, VisibleChainLinked, Linked
    <2>6. VisibleChainLinked'
      BY <2>2, <2>4, <2>5 DEF VisibleChainLinked, Linked
    <2> QED  BY <1>3, <2>3, <2>6 DEF ChainInv
  <1> QED  BY <1>4, <1>5

\* The chain invariant holds in every reachable state: a transaction that has
\* read the last HMAC, or holds uncommitted rows, holds the lock alone.
THEOREM ChainInvariant == Spec => []ChainInv
  <1>1. Init => ChainInv
    BY SMT DEF Init, ChainInv, WritersHoldLock, IdsGrow, VisibleChainLinked,
               VisibleRows, Linked, IdleWriter
  <1>2. TypeOK /\ ChainInv /\ [Next]_vars => ChainInv'
    <2> SUFFICES ASSUME TypeOK, ChainInv, [Next]_vars
                 PROVE  ChainInv'
      OBVIOUS
    <2> USE DEF ChainInv
    <2>1. ASSUME NEW w \in Writers, Begin(w) PROVE ChainInv'
      BY <2>1, SMT DEF Begin, TypeOK, Writer, WritersHoldLock, IdsGrow,
                       VisibleChainLinked, VisibleRows
    <2>2. ASSUME NEW w \in Writers, TakeChainLock(w) PROVE ChainInv'
      <3>1. /\ UNCHANGED <<rows, nextId>>
            /\ writer[w].pc = "open" /\ writer'[w].pc = "locked"
            /\ \A v \in Writers : writer'[v].own = writer[v].own
            /\ \A v \in Writers \ {w} : writer'[v] = writer[v]
            /\ lock \in {None, w} /\ lock' = w
        BY <2>2 DEF TakeChainLock, ChainLockFree, TypeOK, Writer
      <3>2. WritersHoldLock'
        BY <3>1, AuditConstants DEF WritersHoldLock
      <3>3. IdsGrow'
        BY <3>1 DEF IdsGrow
      <3>4. VisibleChainLinked'
        BY <3>1 DEF VisibleChainLinked, VisibleRows, Linked
      <3> QED  BY <3>2, <3>3, <3>4
    <2>3. ASSUME NEW w \in Writers, PreviousHmac(w) PROVE ChainInv'
      <3> PICK n \in 0..nextId :
            /\ IsLatest(n, VisibleRows(w))
            /\ writer' = [writer EXCEPT ![w].pc = "linked", ![w].prev = n]
        BY <2>3 DEF PreviousHmac
      <3>1. /\ UNCHANGED <<rows, nextId, lock>>
            /\ writer[w].pc = "locked" /\ writer'[w].pc = "linked" /\ writer'[w].prev = n
            /\ \A v \in Writers : writer'[v].own = writer[v].own
            /\ \A v \in Writers \ {w} : writer'[v] = writer[v]
        BY <2>3 DEF PreviousHmac, TypeOK, Writer
      <3>2. WritersHoldLock'
        BY <3>1 DEF WritersHoldLock
      <3>3. IdsGrow'
        BY <3>1 DEF IdsGrow
      <3>4. \A v \in Writers : VisibleRows(v)' = VisibleRows(v)
        BY <3>1 DEF VisibleRows
      <3>5. VisibleChainLinked'
        <4>1. Linked(rows)' /\ \A v \in Writers : Linked(VisibleRows(v))'
          BY <3>1, <3>4 DEF VisibleChainLinked, Linked
        <4>2. IsLatest(writer[w].prev, VisibleRows(w))'
          BY <3>1, <3>4 DEF IsLatest
        <4>3. ASSUME NEW v \in Writers \ {w}, writer'[v].pc = "linked"
              PROVE  IsLatest(writer[v].prev, VisibleRows(v))'
          <5>1. IsLatest(writer[v].prev, VisibleRows(v))
            BY <3>1, <4>3 DEF VisibleChainLinked
          <5> QED  BY <3>1, <3>4, <5>1 DEF IsLatest
        <4> QED  BY <4>1, <4>2, <4>3 DEF VisibleChainLinked
      <3> QED  BY <3>2, <3>3, <3>5
    <2>4. ASSUME NEW w \in Writers, InsertRow(w) PROVE ChainInv'
      BY <2>4, InsertKeepsChainInv
    <2>5. ASSUME NEW w \in Writers, Commit(w) PROVE ChainInv'
      BY <2>5, CommitKeepsChainInv
    <2>6. ASSUME NEW w \in Writers, Rollback(w) PROVE ChainInv'
      <3>1. /\ UNCHANGED <<rows, nextId>>
            /\ writer'[w] = IdleWriter
            /\ \A v \in Writers \ {w} : writer'[v] = writer[v]
            /\ lock' = IF lock = w THEN None ELSE lock
        BY <2>6 DEF Rollback, TypeOK
      <3>2. IdleWriter.own = {} /\ IdleWriter.pc = "idle"
        BY DEF IdleWriter
      <3>3. WritersHoldLock'
        BY <3>1, <3>2 DEF WritersHoldLock
      <3>4. IdsGrow'
        BY <3>1, <3>2 DEF IdsGrow
      <3>5. /\ VisibleRows(w)' = rows
            /\ \A v \in Writers \ {w} : VisibleRows(v)' = VisibleRows(v)
        BY <3>1, <3>2 DEF VisibleRows
      <3>6. VisibleChainLinked'
        BY <3>1, <3>2, <3>5 DEF VisibleChainLinked, Linked, IsLatest
      <3> QED  BY <3>3, <3>4, <3>6
    <2>7. CASE VerifyTrail
      BY <2>7 DEF VerifyTrail, WritersHoldLock, IdsGrow, VisibleChainLinked, VisibleRows
    <2>8. CASE UNCHANGED vars
      BY <2>8 DEF vars, WritersHoldLock, IdsGrow, VisibleChainLinked, VisibleRows
    <2> QED  BY <2>1, <2>2, <2>3, <2>4, <2>5, <2>6, <2>7, <2>8 DEF Next
  <1> QED  BY <1>1, <1>2, TypeCorrect, PTL DEF Spec

\* Every committed row carries the HMAC of the committed row before it.
THEOREM ChainIsLinked == Spec => []ChainLinked
  <1>1. ChainInv => ChainLinked
    BY DEF ChainInv, VisibleChainLinked, ChainLinked
  <1> QED  BY <1>1, ChainInvariant, PTL

\* Rows are only added, and only above the rows already committed.
THEOREM RowsAppendInIdOrder == Spec => AppendsInIdOrder
  <1>1. ChainInv /\ [Next]_vars =>
          [/\ rows \subseteq rows'
           /\ \A new \in rows' \ rows, old \in rows : old.id < new.id]_rows
    <2> SUFFICES ASSUME ChainInv, Next, rows' # rows
                 PROVE  /\ rows \subseteq rows'
                        /\ \A new \in rows' \ rows, old \in rows : old.id < new.id
      BY DEF vars
    <2>1. PICK w \in Writers : Commit(w)
      BY DEF Next, Begin, TakeChainLock, PreviousHmac, InsertRow, Rollback, VerifyTrail
    <2> QED  BY <2>1 DEF Commit, ChainInv, IdsGrow
  <1> QED  BY <1>1, ChainInvariant, PTL DEF Spec, AppendsInIdOrder

-----------------------------------------------------------------------------
(* Verification of the trail.  A JVM clock of nanoseconds breaks it (the   *)
(* run AuditNanoClock); what follows is that nothing else does.            *)

\* Every instant of the clock survives the rounding of the column.
WholeMicroseconds == \A t \in Instants : t % 1000 = 0

\* A whole microsecond is stored as it is.
LEMMA WholeIsKept ==
  ASSUME NEW t \in Nat, t % 1000 = 0
  PROVE  StoredTimestamp(t) = t
  BY SMT DEF StoredTimestamp

\* Every row, committed or not, recomputes to its own HMAC, and no
\* verification so far found otherwise.
RowsVerify ==
  /\ \A r \in rows : RowHmacMatches(r)
  /\ \A w \in Writers : \A r \in writer[w].own : RowHmacMatches(r)
  /\ TrailVerifies

\* With a clock of whole microseconds every verification of the trail passes,
\* whichever transactions interleave with it, commit or roll back.
THEOREM WholeMicrosecondsVerify ==
  ASSUME WholeMicroseconds
  PROVE  Spec => []TrailVerifies
  <1>1. Init => RowsVerify
    BY DEF Init, RowsVerify, TrailVerifies, IdleWriter
  <1>2. TypeOK /\ ChainInv /\ RowsVerify /\ [Next]_vars => RowsVerify'
    <2> SUFFICES ASSUME TypeOK, ChainInv, RowsVerify, [Next]_vars
                 PROVE  RowsVerify'
      OBVIOUS
    <2> USE DEF RowsVerify, TrailVerifies
    <2>1. ASSUME NEW w \in Writers,
                 Begin(w) \/ TakeChainLock(w) \/ PreviousHmac(w)
          PROVE  RowsVerify'
      <3>1. /\ UNCHANGED <<rows, verdict>>
            /\ \A v \in Writers : writer'[v].own = writer[v].own
        BY <2>1 DEF Begin, TakeChainLock, PreviousHmac, TypeOK, Writer
      <3> QED  BY <3>1
    <2>2. ASSUME NEW w \in Writers, InsertRow(w) PROVE RowsVerify'
      <3> PICK now \in Instants :
            writer' = [writer EXCEPT
              ![w].pc = "open",
              ![w].appends = @ + 1,
              ![w].own = @ \cup {[id |-> nextId, prev |-> writer[w].prev,
                                  hashed |-> now, stored |-> StoredTimestamp(now)]}]
        BY <2>2 DEF InsertRow, DrawnId
      <3> DEFINE new == [id |-> nextId, prev |-> writer[w].prev,
                         hashed |-> now, stored |-> StoredTimestamp(now)]
      <3>1. StoredTimestamp(now) = now
        BY AuditConstants, WholeIsKept DEF WholeMicroseconds
      <3>2. RowHmacMatches(new)
        BY <3>1 DEF RowHmacMatches
      <3> HIDE DEF new
      <3>3. /\ writer'[w].own = writer[w].own \cup {new}
            /\ \A v \in Writers \ {w} : writer'[v] = writer[v]
        BY DEF new, TypeOK, Writer
      <3>4. UNCHANGED <<rows, verdict>>
        BY <2>2 DEF InsertRow
      <3>5. \A v \in Writers : \A r \in writer'[v].own : RowHmacMatches(r)
        BY <3>2, <3>3
      <3> QED  BY <3>4, <3>5
    <2>3. ASSUME NEW w \in Writers, Commit(w) \/ Rollback(w) PROVE RowsVerify'
      <3>1. /\ rows' \subseteq rows \cup writer[w].own /\ verdict' = verdict
            /\ writer'[w] = IdleWriter
            /\ \A v \in Writers \ {w} : writer'[v] = writer[v]
        BY <2>3 DEF Commit, Rollback, TypeOK
      <3>2. IdleWriter.own = {}
        BY DEF IdleWriter
      <3> QED  BY <3>1, <3>2
    <2>4. CASE VerifyTrail
      <3>1. Verify(rows) = "ok"
        BY DEF Verify, SegmentsUnbroken, ChainInv, VisibleChainLinked
      <3> QED  BY <2>4, <3>1 DEF VerifyTrail
    <2>5. CASE UNCHANGED vars
      BY <2>5 DEF vars
    <2> QED  BY <2>1, <2>2, <2>3, <2>4, <2>5 DEF Next
  <1>3. RowsVerify => TrailVerifies
    BY DEF RowsVerify
  <1> QED  BY <1>1, <1>2, <1>3, TypeCorrect, ChainInvariant, PTL DEF Spec
=============================================================================
