--------------------------- MODULE PaymentProofs ---------------------------
(***************************************************************************)
(* PaymentLifecycle for any set of intents, provider events and threads:   *)
(* types, the invariant that the locks maintain, and the refinement of     *)
(* PaymentLedger.                                                          *)
(***************************************************************************)
EXTENDS PaymentLifecycle, FiniteSetTheorems, TLAPS

\* A fresh transaction record is well typed.
LEMMA NewTxType ==
  ASSUME NEW step \in Step, NEW e \in Events \cup {None}, NEW i \in Intents \cup {None},
         NEW reply \in Reply
  PROVE  NewTx(step, e, i, reply) \in Tx
  BY DEF NewTx, Tx

\* So is the record of a thread with no request.
LEMMA IdleType ==
  ASSUME NEW reply \in Reply
  PROVE  Idle(reply) \in Tx
  BY DEF Idle, NewTx, Tx, Step

\* An audit row of a known action is well typed.
LEMMA AuditOfType ==
  ASSUME NEW i \in Intents,
         NEW a \in {"cancel", "callback_accepted", "observed", "state_inconsistent"}
  PROVE  AuditOf(a, i) \in AuditRow
  BY DEF AuditOf, AuditRow

\* Whatever the provider reports, the code stores one of two statuses.
LEMMA NextStatusType ==
  ASSUME NEW s
  PROVE  NextStatus(s) \in {"succeeded", "failed"}
  BY DEF NextStatus

\* The end of a transaction leaves the locks well typed, and those of others held.
LEMMA ReleaseLocksType ==
  ASSUME TypeOK, NEW w \in Workers, ReleaseLocks(w)
  PROVE  /\ rowLock' \in [Intents -> Workers \cup {None}]
         /\ auditLock' \in Workers \cup {None}
         /\ \A i \in Intents : rowLock[i] \in Workers \ {w} => rowLock'[i] = rowLock[i]
  BY DEF TypeOK, ReleaseLocks

\* A step of one request changes its own transaction record alone.
LEMMA MoveFrame ==
  ASSUME TypeOK, NEW w \in Workers, NEW t \in Tx, Move(w, t)
  PROVE  /\ tx' \in [Workers -> Tx]
         /\ tx'[w] = t
         /\ \A v \in Workers \ {w} : tx'[v] = tx[v]
  BY DEF TypeOK, Move

\* A step of one transaction that commits nothing and takes no row lock from
\* another one leaves the other transactions as sound as they were.
LEMMA StepKeepsOthers ==
  ASSUME TypeOK, PaymentInv, NEW w \in Workers,
         tx' \in [Workers -> Tx],
         \A v \in Workers \ {w} : tx'[v] = tx[v],
         rowLock' \in [Intents -> Workers \cup {None}],
         auditLock' \in Workers \cup {None},
         \A i \in Intents : rowLock[i] \in Workers \ {w} => rowLock'[i] = rowLock[i],
         UNCHANGED <<payload, committed>>,
         TxInv(w)'
  PROVE  TypeOK' /\ PaymentInv'
  <1>1. TypeOK'
    BY DEF TypeOK, committed
  <1>2. ASSUME NEW v \in Workers \ {w} PROVE TxInv(v)'
    <2>1. TxInv(v) /\ tx'[v] = tx[v] /\ UNCHANGED <<payload, committed>>
      BY DEF PaymentInv
    <2>2. WriteIsLocked(v)'
      <3>1. tx[v].row # None => tx[v].intent \in Intents /\ rowLock[tx[v].intent] = v
        BY <2>1 DEF TxInv, WriteIsLocked, RequestIsTyped
      <3> QED  BY <2>1, <3>1 DEF TxInv, WriteIsLocked
    <2>3. KeyIsFresh(v)'
      <3>1. tx'[v].inserted => tx'[v].event \in Events \ providerEvents'
        BY <2>1 DEF TxInv, KeyIsFresh, committed
      <3>2. ~(tx'[w].inserted /\ tx'[v].inserted /\ tx'[v].event = tx'[w].event)
        BY DEF TxInv, KeyIsFresh
      <3>3. \A u \in Workers \ {v, w} :
              tx[v].inserted => ~(tx'[u].inserted /\ tx'[u].event = tx[v].event)
        BY <2>1 DEF TxInv, KeyIsFresh
      <3> QED  BY <2>1, <3>1, <3>2, <3>3 DEF KeyIsFresh
    <2>4. RequestIsTyped(v)'
      BY <2>1 DEF TxInv, RequestIsTyped
    <2>5. WriteIsCurrent(v)'
      BY <2>1 DEF TxInv, WriteIsCurrent, committed
    <2>6. AuditIsWhole(v)'
      BY <2>1 DEF TxInv, AuditIsWhole
    <2> QED  BY <2>2, <2>3, <2>4, <2>5, <2>6 DEF TxInv
  <1> QED  BY <1>1, <1>2 DEF PaymentInv

\* A request that arrives carries nothing yet.
LEMMA ReceiveCallbackStep ==
  ASSUME TypeOK, PaymentInv, NEW w \in Workers, NEW e \in Events, ReceiveCallback(w, e)
  PROVE  TypeOK' /\ PaymentInv'
  <1> DEFINE t == NewTx("insert_event", e, payload[e].intent, "none")
  <1>1. payload[e].intent \in Intents /\ "insert_event" \in Step /\ "none" \in Reply
    BY DEF Step, Reply, TypeOK, Payload
  <1>2. t \in Tx
    BY <1>1, NewTxType
  <1>3. /\ t.pc = "insert_event" /\ t.event = e /\ t.intent = payload[e].intent
        /\ t.inserted = FALSE /\ t.row = None
    BY DEF NewTx
  <1>4. Move(w, t) /\ UNCHANGED <<payload, committed, rowLock, auditLock>>
    BY DEF ReceiveCallback
  <1> HIDE DEF t
  <1>5. /\ tx' \in [Workers -> Tx] /\ tx'[w] = t
        /\ \A v \in Workers \ {w} : tx'[v] = tx[v]
    BY <1>2, <1>4, MoveFrame
  <1>6. TxInv(w)'
    BY <1>1, <1>3, <1>4, <1>5, NoneIsFresh
       DEF TxInv, WriteIsLocked, KeyIsFresh, RequestIsTyped, WriteIsCurrent, AuditIsWhole
  <1> QED  BY <1>4, <1>5, <1>6, StepKeepsOthers DEF TypeOK

\* Nor does a cancel that arrives.
LEMMA ReceiveCancelStep ==
  ASSUME TypeOK, PaymentInv, NEW w \in Workers, NEW i \in Intents, ReceiveCancel(w, i)
  PROVE  TypeOK' /\ PaymentInv'
  <1> DEFINE t == NewTx("cancel_read", None, i, "none")
  <1>1. "cancel_read" \in Step /\ "none" \in Reply
    BY DEF Step, Reply
  <1>2. t \in Tx
    BY <1>1, NewTxType
  <1>3. /\ t.pc = "cancel_read" /\ t.event = None /\ t.intent = i
        /\ t.inserted = FALSE /\ t.row = None
    BY DEF NewTx
  <1>4. Move(w, t) /\ UNCHANGED <<payload, committed, rowLock, auditLock>>
    BY DEF ReceiveCancel
  <1> HIDE DEF t
  <1>5. /\ tx' \in [Workers -> Tx] /\ tx'[w] = t
        /\ \A v \in Workers \ {w} : tx'[v] = tx[v]
    BY <1>2, <1>4, MoveFrame
  <1>6. TxInv(w)'
    BY <1>3, <1>4, <1>5
       DEF TxInv, WriteIsLocked, KeyIsFresh, RequestIsTyped, WriteIsCurrent, AuditIsWhole
  <1> QED  BY <1>4, <1>5, <1>6, StepKeepsOthers DEF TypeOK

\* A transaction that ends without COMMIT leaves nothing but its reply.
LEMMA DropStep ==
  ASSUME TypeOK, PaymentInv, NEW w \in Workers, Rollback(w) \/ ConnectionLost(w)
  PROVE  TypeOK' /\ PaymentInv'
  <1>1. PICK reply \in Reply : Move(w, Idle(reply))
    BY DEF Rollback, ConnectionLost, TypeOK, Tx, Reply
  <1>2. Idle(reply) \in Tx
    BY IdleType
  <1>3. /\ Idle(reply).pc = "idle" /\ Idle(reply).event = None
        /\ Idle(reply).inserted = FALSE /\ Idle(reply).row = None
    BY DEF Idle, NewTx
  <1>4. /\ tx' \in [Workers -> Tx] /\ tx'[w] = Idle(reply)
        /\ \A v \in Workers \ {w} : tx'[v] = tx[v]
    BY <1>1, <1>2, MoveFrame
  <1>5. UNCHANGED <<payload, committed>> /\ ReleaseLocks(w)
    BY DEF Rollback, ConnectionLost
  <1>6. TxInv(w)'
    BY <1>3, <1>4
       DEF TxInv, WriteIsLocked, KeyIsFresh, RequestIsTyped, WriteIsCurrent, AuditIsWhole
  <1> QED  BY <1>4, <1>5, <1>6, StepKeepsOthers, ReleaseLocksType

\* A request that gives up: it keeps its key and its row lock until it rolls back.
LEMMA GiveUpStep ==
  ASSUME TypeOK, PaymentInv, NEW w \in Workers, NEW t \in Tx, Move(w, t),
         tx[w].pc \in Step \ {"idle"}, tx[w].row = None,
         t.pc \in {"race_lost", "rollback"}, t.event = tx[w].event,
         t.intent = tx[w].intent, t.inserted = tx[w].inserted, t.row = tx[w].row,
         UNCHANGED <<payload, committed>>,
         rowLock' \in [Intents -> Workers \cup {None}],
         auditLock' \in Workers \cup {None},
         \A i \in Intents : rowLock[i] \in Workers \ {w} => rowLock'[i] = rowLock[i]
  PROVE  TypeOK' /\ PaymentInv'
  <1>1. TxInv(w)
    BY DEF PaymentInv
  <1>2. /\ tx' \in [Workers -> Tx] /\ tx'[w] = t
        /\ \A v \in Workers \ {w} : tx'[v] = tx[v]
    BY MoveFrame
  <1>3. TxInv(w)'
    <2>1. WriteIsLocked(w)' /\ RequestIsTyped(w)' /\ AuditIsWhole(w)' /\ WriteIsCurrent(w)'
      BY <1>1, <1>2 DEF TxInv, WriteIsLocked, RequestIsTyped, AuditIsWhole, WriteIsCurrent
    <2>2. KeyIsFresh(w)'
      BY <1>1, <1>2 DEF TxInv, KeyIsFresh, committed
    <2> QED  BY <2>1, <2>2 DEF TxInv
  <1> QED  BY <1>2, <1>3, StepKeepsOthers

\* The provider event: a fresh key goes on, a known one aborts the transaction.
LEMMA InsertEventStep ==
  ASSUME TypeOK, PaymentInv, NEW w \in Workers, InsertEvent(w)
  PROVE  TypeOK' /\ PaymentInv'
  <1>1. TxInv(w) /\ tx[w] \in Tx
    BY DEF PaymentInv, TypeOK
  <1>2. /\ tx[w].pc = "insert_event" /\ tx[w].event \in Events /\ tx[w].intent \in Intents
        /\ tx[w].row = None /\ ~tx[w].inserted
    BY <1>1 DEF InsertEvent, At, TxInv, WriteIsLocked, RequestIsTyped, Tx
  <1>3. UNCHANGED <<payload, committed, rowLock, auditLock>>
    BY DEF InsertEvent
  <1>4. CASE tx[w].event \notin providerEvents
    <2> DEFINE t == [tx[w] EXCEPT !.pc = "read_intent", !.inserted = TRUE]
    <2>1. Move(w, t)
      BY <1>4 DEF InsertEvent
    <2>2. t \in Tx
      BY <1>1 DEF Tx, Step
    <2>3. /\ t.pc = "read_intent" /\ t.event = tx[w].event /\ t.intent = tx[w].intent
          /\ t.inserted = TRUE /\ t.row = tx[w].row
      BY <1>1 DEF Tx
    <2> HIDE DEF t
    <2>4. /\ tx' \in [Workers -> Tx] /\ tx'[w] = t
          /\ \A v \in Workers \ {w} : tx'[v] = tx[v]
      BY <2>1, <2>2, MoveFrame
    <2>5. TxInv(w)'
      <3>1. WriteIsLocked(w)' /\ RequestIsTyped(w)' /\ AuditIsWhole(w)' /\ WriteIsCurrent(w)'
        BY <1>1, <1>2, <1>3, <2>3, <2>4, NoneIsFresh
           DEF TxInv, WriteIsLocked, RequestIsTyped, AuditIsWhole, WriteIsCurrent
      <3>2. KeyIsFresh(w)'
        BY <1>2, <1>3, <1>4, <2>3, <2>4 DEF KeyIsFresh, InsertEvent, KeyFree, committed
      <3> QED  BY <3>1, <3>2 DEF TxInv
    <2> QED  BY <1>3, <2>4, <2>5, StepKeepsOthers DEF TypeOK
  <1>5. CASE tx[w].event \in providerEvents
    <2> DEFINE t == [tx[w] EXCEPT !.pc = "rollback", !.aborted = TRUE, !.reply = "error"]
    <2>1. Move(w, t)
      BY <1>5 DEF InsertEvent
    <2>2. t \in Tx
      BY <1>1 DEF Tx, Step, Reply
    <2>3. /\ t.pc = "rollback" /\ t.event = tx[w].event /\ t.intent = tx[w].intent
          /\ t.inserted = tx[w].inserted /\ t.row = tx[w].row
      BY <1>1 DEF Tx
    <2> HIDE DEF t
    <2> QED  BY <1>2, <1>3, <2>1, <2>2, <2>3, GiveUpStep DEF TypeOK, Step
  <1> QED  BY <1>4, <1>5

\* The intent as the callback reads it: it may change again before the UPDATE.
LEMMA ReadIntentStep ==
  ASSUME TypeOK, PaymentInv, NEW w \in Workers, ReadIntent(w)
  PROVE  TypeOK' /\ PaymentInv'
  <1>1. TxInv(w) /\ tx[w] \in Tx
    BY DEF PaymentInv, TypeOK
  <1>2. /\ tx[w].pc = "read_intent" /\ tx[w].intent \in Intents
        /\ tx[w].event # None /\ tx[w].row = None /\ tx[w].inserted
    BY <1>1 DEF ReadIntent, At, TxInv, WriteIsLocked, RequestIsTyped
  <1>3. UNCHANGED <<payload, committed, rowLock, auditLock>>
    BY DEF ReadIntent
  <1>4. CASE intent[tx[w].intent].status \in {"absent", "cancelled"}
    <2> DEFINE t == [tx[w] EXCEPT !.pc = "race_lost", !.reply = "conflict"]
    <2>1. Move(w, t)
      BY <1>4 DEF ReadIntent, Fail
    <2>2. t \in Tx
      BY <1>1 DEF Tx, Step, Reply
    <2>3. /\ t.pc = "race_lost" /\ t.event = tx[w].event /\ t.intent = tx[w].intent
          /\ t.inserted = tx[w].inserted /\ t.row = tx[w].row
      BY <1>1 DEF Tx
    <2> HIDE DEF t
    <2> QED  BY <1>2, <1>3, <2>1, <2>2, <2>3, GiveUpStep DEF TypeOK, Step
  <1>5. CASE intent[tx[w].intent].status \notin {"absent", "cancelled"}
    <2> DEFINE t == [tx[w] EXCEPT !.pc = "update_intent"]
    <2>1. Move(w, t)
      BY <1>5 DEF ReadIntent
    <2>2. t \in Tx
      BY <1>1 DEF Tx, Step
    <2>3. /\ t.pc = "update_intent" /\ t.event = tx[w].event /\ t.intent = tx[w].intent
          /\ t.inserted = tx[w].inserted /\ t.row = tx[w].row
      BY <1>1 DEF Tx
    <2> HIDE DEF t
    <2>4. /\ tx' \in [Workers -> Tx] /\ tx'[w] = t
          /\ \A v \in Workers \ {w} : tx'[v] = tx[v]
      BY <2>1, <2>2, MoveFrame
    <2>5. TxInv(w)'
      <3>1. WriteIsLocked(w)' /\ RequestIsTyped(w)' /\ AuditIsWhole(w)'
        BY <1>1, <1>2, <1>3, <2>3, <2>4 DEF TxInv, WriteIsLocked, RequestIsTyped, AuditIsWhole
      <3>2. KeyIsFresh(w)'
        BY <1>1, <1>3, <2>3, <2>4 DEF TxInv, KeyIsFresh, committed
      <3>3. WriteIsCurrent(w)'
        BY <1>2, <1>3, <1>5, <2>3, <2>4 DEF WriteIsCurrent, committed
      <3> QED  BY <3>1, <3>2, <3>3 DEF TxInv
    <2> QED  BY <1>3, <2>4, <2>5, StepKeepsOthers DEF TypeOK
  <1> QED  BY <1>4, <1>5

\* The UPDATE: the row lock it takes makes the row it computed the current one.
LEMMA UpdateIntentStep ==
  ASSUME TypeOK, PaymentInv, NEW w \in Workers, UpdateIntent(w)
  PROVE  TypeOK' /\ PaymentInv'
  <1> DEFINE i == tx[w].intent
             next == NextStatus(payload[tx[w].event].status)
             new == [status |-> next, version |-> intent[i].version + 1]
  <1>1. TxInv(w) /\ tx[w] \in Tx
    BY DEF PaymentInv, TypeOK
  <1>2. /\ tx[w].pc = "update_intent" /\ i \in Intents
        /\ tx[w].event \in Events /\ tx[w].row = None /\ tx[w].inserted
        /\ intent[i].status # "absent"
    BY <1>1 DEF UpdateIntent, At, TxInv, WriteIsLocked, RequestIsTyped, WriteIsCurrent, Tx
  <1>3. UNCHANGED <<payload, committed, auditLock>>
    BY DEF UpdateIntent
  <1>4. /\ rowLock' \in [Intents -> Workers \cup {None}]
        /\ rowLock'[i] = w
        /\ \A j \in Intents : rowLock[j] \in Workers \ {w} => rowLock'[j] = rowLock[j]
    <2>1. RowFree(i) /\ rowLock' = [rowLock EXCEPT ![i] = w]
      BY DEF UpdateIntent
    <2> QED  BY <1>2, <2>1, NoneIsFresh DEF RowFree, TypeOK
  <1>5. CASE ~TerminalGuard(intent[i].status, next)
    <2> DEFINE t == [tx[w] EXCEPT !.pc = "race_lost", !.aborted = TRUE, !.reply = "error"]
    <2>1. Move(w, t)
      BY <1>5 DEF UpdateIntent
    <2>2. t \in Tx
      BY <1>1 DEF Tx, Step, Reply
    <2>3. /\ t.pc = "race_lost" /\ t.event = tx[w].event /\ t.intent = tx[w].intent
          /\ t.inserted = tx[w].inserted /\ t.row = tx[w].row
      BY <1>1 DEF Tx
    <2> HIDE DEF t
    <2> QED  BY <1>2, <1>3, <1>4, <2>1, <2>2, <2>3, GiveUpStep DEF TypeOK, Step
  <1>6. CASE TerminalGuard(intent[i].status, next)
    <2>1. next \in {"succeeded", "failed"}
      BY NextStatusType
    <2>2. /\ new \in Row /\ new # None
          /\ new.status = next /\ new.version = intent[i].version + 1
      <3>1. intent[i].version + 1 \in Nat
        BY <1>2 DEF TypeOK, Row
      <3> QED  BY <2>1, <3>1, NoneIsFresh DEF Row, Status
    <2> DEFINE t == [tx[w] EXCEPT !.pc = "audit_callback", !.row = new]
    <2>3. Move(w, t)
      BY <1>6 DEF UpdateIntent
    <2> HIDE DEF new, next
    <2>4. t \in Tx
      BY <1>1, <2>2 DEF Tx, Step
    <2>5. /\ t.pc = "audit_callback" /\ t.event = tx[w].event /\ t.intent = tx[w].intent
          /\ t.inserted = tx[w].inserted /\ t.row = new
      BY <1>1 DEF Tx
    <2> HIDE DEF t
    <2>6. /\ tx' \in [Workers -> Tx] /\ tx'[w] = t
          /\ \A v \in Workers \ {w} : tx'[v] = tx[v]
      BY <2>3, <2>4, MoveFrame
    <2>7. TxInv(w)'
      <3>1. WriteIsLocked(w)' /\ RequestIsTyped(w)' /\ AuditIsWhole(w)'
        BY <1>1, <1>2, <1>3, <1>4, <2>2, <2>5, <2>6, NoneIsFresh
           DEF TxInv, WriteIsLocked, RequestIsTyped, AuditIsWhole
      <3>2. KeyIsFresh(w)'
        BY <1>1, <1>3, <2>5, <2>6 DEF TxInv, KeyIsFresh, committed
      <3>3. intent[i].status \notin {"absent", "cancelled", "refunded"}
        BY <1>2, <1>6, <2>1 DEF TerminalGuard, Terminal
      <3>4. WriteIsCurrent(w)'
        BY <1>2, <1>3, <1>6, <2>2, <2>5, <2>6, <3>3 DEF WriteIsCurrent, committed, next
      <3> QED  BY <3>1, <3>2, <3>4 DEF TxInv
    <2> QED  BY <1>3, <1>4, <2>6, <2>7, StepKeepsOthers DEF TypeOK
  <1> QED  BY <1>5, <1>6

\* The audit rows of a callback complete its transaction.
LEMMA AuditCallbackStep ==
  ASSUME TypeOK, PaymentInv, NEW w \in Workers, AuditCallback(w)
  PROVE  TypeOK' /\ PaymentInv'
  <1> DEFINE two == <<AuditOf("callback_accepted", tx[w].intent),
                      AuditOf("observed", tx[w].intent)>>
             t == [tx[w] EXCEPT !.pc = "commit", !.audit = two]
  <1>1. TxInv(w) /\ tx[w] \in Tx
    BY DEF PaymentInv, TypeOK
  <1>2. /\ tx[w].pc = "audit_callback" /\ tx[w].intent \in Intents
        /\ tx[w].event # None /\ tx[w].row # None /\ tx[w].inserted
    BY <1>1 DEF AuditCallback, At, TxInv, WriteIsLocked, RequestIsTyped
  <1>3. UNCHANGED <<payload, committed, rowLock>> /\ auditLock' = w /\ Move(w, t)
    BY DEF AuditCallback
  <1>4. two \in Seq(AuditRow)
    BY <1>2, AuditOfType
  <1> HIDE DEF two
  <1>5. t \in Tx
    BY <1>1, <1>4 DEF Tx, Step
  <1>6. /\ t.pc = "commit" /\ t.event = tx[w].event /\ t.intent = tx[w].intent
        /\ t.inserted = tx[w].inserted /\ t.row = tx[w].row /\ t.audit = two
    BY <1>1 DEF Tx
  <1> HIDE DEF t
  <1>7. /\ tx' \in [Workers -> Tx] /\ tx'[w] = t
        /\ \A v \in Workers \ {w} : tx'[v] = tx[v]
    BY <1>3, <1>5, MoveFrame
  <1>8. TxInv(w)'
    <2>1. WriteIsLocked(w)' /\ RequestIsTyped(w)'
      BY <1>1, <1>2, <1>3, <1>6, <1>7 DEF TxInv, WriteIsLocked, RequestIsTyped
    <2>2. KeyIsFresh(w)'
      BY <1>1, <1>3, <1>6, <1>7 DEF TxInv, KeyIsFresh, committed
    <2>3. WriteIsCurrent(w)'
      BY <1>1, <1>3, <1>6, <1>7 DEF TxInv, WriteIsCurrent, committed
    <2>4. AuditIsWhole(w)'
      BY <1>2, <1>6, <1>7 DEF AuditIsWhole, two
    <2> QED  BY <2>1, <2>2, <2>3, <2>4 DEF TxInv
  <1> QED  BY <1>3, <1>7, <1>8, StepKeepsOthers DEF TypeOK

\* The audit row of a refused callback goes down with its transaction.
LEMMA RaceLostStep ==
  ASSUME TypeOK, PaymentInv, NEW w \in Workers, RaceLost(w)
  PROVE  TypeOK' /\ PaymentInv'
  <1>1. TxInv(w) /\ tx[w] \in Tx
    BY DEF PaymentInv, TypeOK
  <1>2. tx[w].pc = "race_lost" /\ tx[w].intent \in Intents /\ tx[w].row = None
    BY <1>1 DEF RaceLost, At, TxInv, WriteIsLocked, RequestIsTyped
  <1>3. UNCHANGED <<payload, committed, rowLock>> /\ auditLock' \in Workers \cup {None}
    BY DEF RaceLost, TypeOK
  <1>4. PICK t \in Tx :
          /\ Move(w, t) /\ t.pc = "rollback" /\ t.event = tx[w].event
          /\ t.intent = tx[w].intent /\ t.inserted = tx[w].inserted /\ t.row = tx[w].row
    <2>1. CASE tx[w].aborted
      <3> DEFINE t == [tx[w] EXCEPT !.pc = "rollback", !.reply = "error"]
      <3>1. Move(w, t)
        BY <2>1 DEF RaceLost, Fail
      <3>2. t \in Tx
        BY <1>1 DEF Tx, Step, Reply
      <3>3. /\ t.pc = "rollback" /\ t.event = tx[w].event
            /\ t.intent = tx[w].intent /\ t.inserted = tx[w].inserted /\ t.row = tx[w].row
        BY <1>1 DEF Tx
      <3> QED  BY <3>1, <3>2, <3>3
    <2>2. CASE ~tx[w].aborted
      <3> DEFINE one == <<AuditOf("state_inconsistent", tx[w].intent)>>
                 t == [tx[w] EXCEPT !.pc = "rollback", !.audit = one]
      <3>1. Move(w, t)
        BY <2>2 DEF RaceLost
      <3>2. one \in Seq(AuditRow)
        BY <1>2, AuditOfType
      <3>3. t \in Tx
        BY <1>1, <3>2 DEF Tx, Step
      <3>4. /\ t.pc = "rollback" /\ t.event = tx[w].event
            /\ t.intent = tx[w].intent /\ t.inserted = tx[w].inserted /\ t.row = tx[w].row
        BY <1>1 DEF Tx
      <3> QED  BY <3>1, <3>3, <3>4
    <2> QED  BY <2>1, <2>2
  <1> QED  BY <1>2, <1>3, <1>4, GiveUpStep DEF TypeOK, Step

\* The read that precedes a cancel decides only whether to try it.
LEMMA CancelReadStep ==
  ASSUME TypeOK, PaymentInv, NEW w \in Workers, CancelRead(w)
  PROVE  TypeOK' /\ PaymentInv'
  <1>1. TxInv(w) /\ tx[w] \in Tx
    BY DEF PaymentInv, TypeOK
  <1>2. /\ tx[w].pc = "cancel_read" /\ tx[w].intent \in Intents
        /\ tx[w].row = None /\ ~tx[w].inserted
    BY <1>1 DEF CancelRead, At, TxInv, WriteIsLocked, RequestIsTyped
  <1>3. UNCHANGED <<payload, committed, rowLock, auditLock>>
    BY DEF CancelRead
  <1>4. CASE intent[tx[w].intent].status # "pending"
    <2> DEFINE t == [tx[w] EXCEPT !.pc = "rollback", !.reply = "conflict"]
    <2>1. Move(w, t)
      BY <1>4 DEF CancelRead, Fail
    <2>2. t \in Tx
      BY <1>1 DEF Tx, Step, Reply
    <2>3. /\ t.pc = "rollback" /\ t.event = tx[w].event /\ t.intent = tx[w].intent
          /\ t.inserted = tx[w].inserted /\ t.row = tx[w].row
      BY <1>1 DEF Tx
    <2> HIDE DEF t
    <2> QED  BY <1>2, <1>3, <2>1, <2>2, <2>3, GiveUpStep DEF TypeOK, Step
  <1>5. CASE intent[tx[w].intent].status = "pending"
    <2> DEFINE seen == intent[tx[w].intent]
               t == [tx[w] EXCEPT !.pc = "cancel_update", !.seen = seen]
    <2>1. Move(w, t)
      BY <1>5 DEF CancelRead
    <2>2. seen \in Row
      BY <1>2 DEF TypeOK
    <2> HIDE DEF seen
    <2>3. t \in Tx
      BY <1>1, <2>2 DEF Tx, Step
    <2>4. /\ t.pc = "cancel_update" /\ t.event = tx[w].event /\ t.intent = tx[w].intent
          /\ t.inserted = tx[w].inserted /\ t.row = tx[w].row
      BY <1>1 DEF Tx
    <2> HIDE DEF t
    <2>5. /\ tx' \in [Workers -> Tx] /\ tx'[w] = t
          /\ \A v \in Workers \ {w} : tx'[v] = tx[v]
      BY <2>1, <2>3, MoveFrame
    <2>6. TxInv(w)'
      BY <1>1, <1>2, <1>3, <2>4, <2>5
         DEF TxInv, WriteIsLocked, KeyIsFresh, RequestIsTyped, WriteIsCurrent, AuditIsWhole
    <2> QED  BY <1>3, <2>5, <2>6, StepKeepsOthers DEF TypeOK
  <1> QED  BY <1>4, <1>5

\* The cancel that matches holds the row while it is still pending.
LEMMA CancelUpdateStep ==
  ASSUME TypeOK, PaymentInv, NEW w \in Workers, CancelUpdate(w)
  PROVE  TypeOK' /\ PaymentInv'
  <1> DEFINE i == tx[w].intent
             new == [status |-> "cancelled", version |-> intent[i].version + 1]
  <1>1. TxInv(w) /\ tx[w] \in Tx
    BY DEF PaymentInv, TypeOK
  <1>2. /\ tx[w].pc = "cancel_update" /\ i \in Intents
        /\ tx[w].row = None /\ ~tx[w].inserted
    BY <1>1 DEF CancelUpdate, At, TxInv, WriteIsLocked, RequestIsTyped
  <1>3. UNCHANGED <<payload, committed, auditLock>>
    BY DEF CancelUpdate
  <1>4. CASE ~CancelMatches(intent[i], tx[w].seen)
    <2> DEFINE t == [tx[w] EXCEPT !.pc = "rollback", !.reply = "conflict"]
    <2>1. Move(w, t) /\ UNCHANGED rowLock
      BY <1>4 DEF CancelUpdate, Fail
    <2>2. t \in Tx
      BY <1>1 DEF Tx, Step, Reply
    <2>3. /\ t.pc = "rollback" /\ t.event = tx[w].event /\ t.intent = tx[w].intent
          /\ t.inserted = tx[w].inserted /\ t.row = tx[w].row
      BY <1>1 DEF Tx
    <2> HIDE DEF t
    <2> QED  BY <1>2, <1>3, <2>1, <2>2, <2>3, GiveUpStep DEF TypeOK, Step
  <1>5. CASE CancelMatches(intent[i], tx[w].seen)
    <2> DEFINE t == [tx[w] EXCEPT !.pc = "audit_cancel", !.row = new]
    <2>1. /\ Move(w, t) /\ RowFree(i) /\ rowLock' = [rowLock EXCEPT ![i] = w]
          /\ intent[i].status = "pending"
      BY <1>5 DEF CancelUpdate, CancelMatches
    <2>2. /\ rowLock' \in [Intents -> Workers \cup {None}]
          /\ rowLock'[i] = w
          /\ \A j \in Intents : rowLock[j] \in Workers \ {w} => rowLock'[j] = rowLock[j]
      BY <1>2, <2>1, NoneIsFresh DEF RowFree, TypeOK
    <2>3. /\ new \in Row /\ new # None
          /\ new.status = "cancelled" /\ new.version = intent[i].version + 1
      <3>1. intent[i].version + 1 \in Nat
        BY <1>2 DEF TypeOK, Row
      <3> QED  BY <3>1, NoneIsFresh DEF Row, Status
    <2> HIDE DEF new
    <2>4. t \in Tx
      BY <1>1, <2>3 DEF Tx, Step
    <2>5. /\ t.pc = "audit_cancel" /\ t.event = tx[w].event /\ t.intent = tx[w].intent
          /\ t.inserted = tx[w].inserted /\ t.row = new
      BY <1>1 DEF Tx
    <2> HIDE DEF t
    <2>6. /\ tx' \in [Workers -> Tx] /\ tx'[w] = t
          /\ \A v \in Workers \ {w} : tx'[v] = tx[v]
      BY <2>1, <2>4, MoveFrame
    <2>7. TxInv(w)'
      <3>1. WriteIsLocked(w)' /\ RequestIsTyped(w)' /\ AuditIsWhole(w)' /\ KeyIsFresh(w)'
        BY <1>1, <1>2, <1>3, <2>2, <2>3, <2>5, <2>6
           DEF TxInv, WriteIsLocked, RequestIsTyped, AuditIsWhole, KeyIsFresh
      <3>2. WriteIsCurrent(w)'
        BY <1>2, <1>3, <2>1, <2>3, <2>5, <2>6 DEF WriteIsCurrent, committed
      <3> QED  BY <3>1, <3>2 DEF TxInv
    <2> QED  BY <1>3, <2>2, <2>6, <2>7, StepKeepsOthers DEF TypeOK
  <1> QED  BY <1>4, <1>5

\* The audit row of a cancel completes its transaction.
LEMMA AuditCancelStep ==
  ASSUME TypeOK, PaymentInv, NEW w \in Workers, AuditCancel(w)
  PROVE  TypeOK' /\ PaymentInv'
  <1> DEFINE one == <<AuditOf("cancel", tx[w].intent)>>
             t == [tx[w] EXCEPT !.pc = "commit", !.audit = one]
  <1>1. TxInv(w) /\ tx[w] \in Tx
    BY DEF PaymentInv, TypeOK
  <1>2. /\ tx[w].pc = "audit_cancel" /\ tx[w].intent \in Intents
        /\ tx[w].row # None /\ ~tx[w].inserted
    BY <1>1 DEF AuditCancel, At, TxInv, WriteIsLocked, RequestIsTyped
  <1>3. UNCHANGED <<payload, committed, rowLock>> /\ auditLock' = w /\ Move(w, t)
    BY DEF AuditCancel
  <1>4. one \in Seq(AuditRow)
    BY <1>2, AuditOfType
  <1> HIDE DEF one
  <1>5. t \in Tx
    BY <1>1, <1>4 DEF Tx, Step
  <1>6. /\ t.pc = "commit" /\ t.event = tx[w].event /\ t.intent = tx[w].intent
        /\ t.inserted = tx[w].inserted /\ t.row = tx[w].row /\ t.audit = one
    BY <1>1 DEF Tx
  <1> HIDE DEF t
  <1>7. /\ tx' \in [Workers -> Tx] /\ tx'[w] = t
        /\ \A v \in Workers \ {w} : tx'[v] = tx[v]
    BY <1>3, <1>5, MoveFrame
  <1>8. TxInv(w)'
    <2>1. WriteIsLocked(w)' /\ RequestIsTyped(w)' /\ KeyIsFresh(w)'
      BY <1>1, <1>2, <1>3, <1>6, <1>7 DEF TxInv, WriteIsLocked, RequestIsTyped, KeyIsFresh
    <2>2. WriteIsCurrent(w)'
      BY <1>1, <1>3, <1>6, <1>7 DEF TxInv, WriteIsCurrent, committed
    <2>3. AuditIsWhole(w)'
      BY <1>2, <1>6, <1>7 DEF AuditIsWhole, one
    <2> QED  BY <2>1, <2>2, <2>3 DEF TxInv
  <1> QED  BY <1>3, <1>7, <1>8, StepKeepsOthers DEF TypeOK

\* What a transaction that commits carries, by what it did.
LEMMA CommitCarries ==
  ASSUME TypeOK, PaymentInv, NEW w \in Workers, Commit(w)
  PROVE  LET i == tx[w].intent
             row == tx[w].row
         IN /\ i \in Intents /\ row \in Row
            /\ row.version = intent[i].version + 1
            /\ tx[w].inserted =>
                 /\ tx[w].event \in Events \ providerEvents
                 /\ i = payload[tx[w].event].intent
                 /\ row.status = NextStatus(payload[tx[w].event].status)
                 /\ row.status \in {"succeeded", "failed"}
                 /\ intent[i].status \notin {"absent", "cancelled", "refunded"}
                 /\ TerminalGuard(intent[i].status, row.status)
                 /\ tx[w].audit = <<AuditOf("callback_accepted", i), AuditOf("observed", i)>>
            /\ ~tx[w].inserted =>
                 /\ intent[i].status = "pending" /\ row.status = "cancelled"
                 /\ tx[w].audit = <<AuditOf("cancel", i)>>
  <1>1. TxInv(w) /\ tx[w] \in Tx /\ tx[w].pc = "commit"
    BY DEF PaymentInv, TypeOK, Commit, At
  <1>2. tx[w].intent \in Intents /\ tx[w].row \in Row /\ tx[w].row # None
    BY <1>1 DEF TxInv, RequestIsTyped, WriteIsLocked, Tx
  <1>3. tx[w].inserted => tx[w].event \in Events \ providerEvents /\ tx[w].event # None
    BY <1>1, NoneIsFresh DEF TxInv, KeyIsFresh
  <1>4. tx[w].inserted => tx[w].intent = payload[tx[w].event].intent
    BY <1>1, <1>3 DEF TxInv, RequestIsTyped
  <1> QED  BY <1>1, <1>2, <1>3, <1>4, NextStatusType DEF TxInv, WriteIsCurrent, AuditIsWhole

\* COMMIT publishes writes that no other transaction relies on.
LEMMA CommitStep ==
  ASSUME TypeOK, PaymentInv, NEW w \in Workers, Commit(w)
  PROVE  TypeOK' /\ PaymentInv'
  <1> DEFINE i == tx[w].intent
             row == tx[w].row
  <1>1. /\ i \in Intents /\ row \in Row
        /\ row.status # "absent"
        /\ tx[w].inserted => /\ tx[w].event \in Events \ providerEvents
                             /\ row.status \in {"succeeded", "failed"}
    BY CommitCarries
  <1>2. /\ intent' = [intent EXCEPT ![i] = row]
        /\ ReleaseLocks(w) /\ UNCHANGED payload
        /\ trail' = trail \o tx[w].audit
    BY DEF Commit
  <1>3. PICK reply \in {"ok", "lost"} : Move(w, Idle(reply))
    BY DEF Commit
  <1>4. /\ tx' \in [Workers -> Tx] /\ tx'[w] = Idle(reply)
        /\ \A v \in Workers \ {w} : tx'[v] = tx[v]
    <2>1. Idle(reply) \in Tx
      BY IdleType DEF Reply
    <2> QED  BY <1>3, <2>1, MoveFrame
  <1>5. /\ Idle(reply).pc = "idle" /\ Idle(reply).event = None
        /\ Idle(reply).inserted = FALSE /\ Idle(reply).row = None
    BY DEF Idle, NewTx
  <1>6. TypeOK'
    <2>1. intent' \in [Intents -> Row]
      BY <1>1, <1>2 DEF TypeOK
    <2>2. providerEvents' \subseteq Events /\ transactions' \in Seq(Txn)
      <3>1. CASE tx[w].inserted
        <4> DEFINE new == [event |-> tx[w].event, intent |-> i, status |-> row.status]
        <4>1. /\ providerEvents' = providerEvents \cup {tx[w].event}
              /\ transactions' = Append(transactions, new)
          BY <3>1 DEF Commit
        <4>2. new \in Txn
          BY <1>1, <3>1 DEF Txn
        <4> HIDE DEF new
        <4> QED  BY <1>1, <3>1, <4>1, <4>2 DEF TypeOK
      <3>2. CASE ~tx[w].inserted
        BY <3>2 DEF Commit, TypeOK
      <3> QED  BY <3>1, <3>2
    <2>3. trail' \in Seq(AuditRow)
      BY <1>2 DEF TypeOK, Tx
    <2> QED  BY <1>2, <1>4, <2>1, <2>2, <2>3, ReleaseLocksType DEF TypeOK
  <1>7. TxInv(w)'
    BY <1>4, <1>5
       DEF TxInv, WriteIsLocked, KeyIsFresh, RequestIsTyped, WriteIsCurrent, AuditIsWhole
  <1>8. ASSUME NEW v \in Workers \ {w} PROVE TxInv(v)'
    <2>1. TxInv(v) /\ TxInv(w) /\ tx'[v] = tx[v] /\ payload' = payload
      BY <1>2, <1>4 DEF PaymentInv
    <2>2. tx[v].row # None => tx[v].intent \in Intents /\ rowLock[tx[v].intent] = v
      BY <2>1 DEF TxInv, WriteIsLocked, RequestIsTyped
    <2>3. WriteIsLocked(v)'
      BY <1>2, <2>1, <2>2, ReleaseLocksType DEF TxInv, WriteIsLocked
    <2>4. KeyIsFresh(v)'
      <3>1. providerEvents' \subseteq providerEvents \cup {tx[w].event}
        BY DEF Commit
      <3>2. tx[w].inserted \/ providerEvents' = providerEvents
        BY DEF Commit
      <3>3. tx[v].inserted => tx[v].event \in Events \ providerEvents'
        BY <2>1, <3>1, <3>2 DEF TxInv, KeyIsFresh
      <3> QED  BY <1>4, <1>5, <2>1, <3>3 DEF TxInv, KeyIsFresh
    <2>5. RequestIsTyped(v)' /\ AuditIsWhole(v)'
      BY <2>1 DEF TxInv, RequestIsTyped, AuditIsWhole
    <2>6. WriteIsCurrent(v)'
      <3>1. CASE tx[v].row # None
        <4>1. rowLock[i] = w
          BY <2>1 DEF TxInv, WriteIsLocked, Commit, At
        <4>2. intent'[tx[v].intent] = intent[tx[v].intent]
          BY <1>1, <1>2, <2>2, <3>1, <4>1 DEF TypeOK
        <4>3. tx[v].pc # "update_intent"
          BY <2>1, <3>1 DEF TxInv, WriteIsLocked
        <4> QED  BY <2>1, <4>2, <4>3 DEF TxInv, WriteIsCurrent
      <3>2. CASE tx[v].row = None
        <4>1. tx[v].pc = "update_intent" =>
                tx[v].intent \in Intents /\ intent[tx[v].intent].status # "absent"
          BY <2>1 DEF TxInv, RequestIsTyped, WriteIsCurrent
        <4>2. tx[v].pc = "update_intent" => intent'[tx[v].intent].status # "absent"
          BY <1>1, <1>2, <4>1 DEF TypeOK
        <4> QED  BY <2>1, <3>2, <4>2 DEF WriteIsCurrent
      <3> QED  BY <3>1, <3>2
    <2> QED  BY <2>3, <2>4, <2>5, <2>6 DEF TxInv
  <1> QED  BY <1>6, <1>7, <1>8 DEF PaymentInv

\* Types and the locks' invariant hold in every reachable state.
THEOREM LocksProtectWrites == Spec => [](TypeOK /\ PaymentInv)
  <1>1. Init => TypeOK /\ PaymentInv
    <2> SUFFICES ASSUME Init PROVE TypeOK /\ PaymentInv
      OBVIOUS
    <2>1. TypeOK
      <3>1. Idle("none") \in Tx
        BY IdleType DEF Reply
      <3>2. tx \in [Workers -> Tx]
        BY <3>1 DEF Init
      <3> QED  BY <3>2 DEF Init, TypeOK, Row
    <2>2. \A w \in Workers : /\ tx[w].pc = "idle" /\ tx[w].event = None
                             /\ tx[w].inserted = FALSE /\ tx[w].row = None
      BY DEF Init, Idle, NewTx
    <2>3. PaymentInv
      BY <2>2 DEF PaymentInv, TxInv, WriteIsLocked, KeyIsFresh, RequestIsTyped,
                  WriteIsCurrent, AuditIsWhole
    <2> QED  BY <2>1, <2>3
  <1>2. TypeOK /\ PaymentInv /\ [Next]_vars => (TypeOK /\ PaymentInv)'
    <2> SUFFICES ASSUME TypeOK, PaymentInv, [Next]_vars
                 PROVE  TypeOK' /\ PaymentInv'
      OBVIOUS
    <2>1. CASE UNCHANGED vars
      BY <2>1 DEF vars, TypeOK, PaymentInv, TxInv, WriteIsLocked, KeyIsFresh, RequestIsTyped,
                  WriteIsCurrent, AuditIsWhole
    <2>2. ASSUME NEW w \in Workers, NEW e \in Events, ReceiveCallback(w, e)
          PROVE  TypeOK' /\ PaymentInv'
      BY <2>2, ReceiveCallbackStep
    <2>3. ASSUME NEW w \in Workers, NEW i \in Intents, ReceiveCancel(w, i)
          PROVE  TypeOK' /\ PaymentInv'
      BY <2>3, ReceiveCancelStep
    <2>4. ASSUME NEW w \in Workers, Callback(w) PROVE TypeOK' /\ PaymentInv'
      BY <2>4, InsertEventStep, ReadIntentStep, UpdateIntentStep, AuditCallbackStep,
         RaceLostStep DEF Callback
    <2>5. ASSUME NEW w \in Workers, Cancel(w) PROVE TypeOK' /\ PaymentInv'
      BY <2>5, CancelReadStep, CancelUpdateStep, AuditCancelStep DEF Cancel
    <2>6. ASSUME NEW w \in Workers, Finish(w) \/ ConnectionLost(w) PROVE TypeOK' /\ PaymentInv'
      BY <2>6, CommitStep, DropStep DEF Finish
    <2> QED  BY <2>1, <2>2, <2>3, <2>4, <2>5, <2>6 DEF Next
  <1> QED  BY <1>1, <1>2, PTL DEF Spec

\* Every reachable state of the payment service is well typed.
THEOREM TypeCorrect == Spec => []TypeOK
  BY LocksProtectWrites, PTL

\* Nothing but COMMIT changes what other requests can read.
LEMMA OnlyCommitPublishes ==
  ASSUME [Next]_vars, ~\E w \in Workers : Commit(w)
  PROVE  UNCHANGED <<payload, committed>>
  BY DEF Next, Callback, Cancel, Finish, ReceiveCallback, InsertEvent, ReadIntent, UpdateIntent,
         AuditCallback, RaceLost, ReceiveCancel, CancelRead, CancelUpdate, AuditCancel,
         Rollback, ConnectionLost, committed, vars

\* A failed, cancelled or refunded intent keeps its status.
THEOREM TerminalIsFinal == Spec => TerminalStaysTerminal
  <1>1. TypeOK /\ PaymentInv /\ [Next]_vars =>
          [\A i \in Intents :
             intent[i].status \in Terminal => intent'[i].status = intent[i].status]_intent
    <2> SUFFICES ASSUME TypeOK, PaymentInv, [Next]_vars, intent' # intent,
                        NEW i \in Intents, intent[i].status \in Terminal
                 PROVE  intent'[i].status = intent[i].status
      OBVIOUS
    <2>1. PICK w \in Workers : Commit(w)
      BY OnlyCommitPublishes DEF committed
    <2>2. intent' = [intent EXCEPT ![tx[w].intent] = tx[w].row] /\ intent \in [Intents -> Row]
      BY <2>1 DEF Commit, TypeOK
    <2>3. CASE i # tx[w].intent
      BY <2>2, <2>3
    <2>4. CASE i = tx[w].intent
      <3>1. tx[w].inserted => TerminalGuard(intent[i].status, tx[w].row.status)
        BY <2>1, <2>4, CommitCarries
      <3>2. ~tx[w].inserted => intent[i].status = "pending"
        BY <2>1, <2>4, CommitCarries
      <3>3. intent'[i] = tx[w].row
        BY <2>2, <2>4
      <3> QED  BY <3>1, <3>2, <3>3 DEF TerminalGuard, Terminal
    <2> QED  BY <2>3, <2>4
  <1> QED  BY <1>1, LocksProtectWrites, PTL DEF Spec, TerminalStaysTerminal

\* The status of an intent is the outcome of the last of its transaction rows.
THEOREM LastSettledWins == Spec => []StatusIsLastSettled
  <1>1. Init => StatusIsLastSettled
    BY DEF Init, StatusIsLastSettled
  <1>2. TypeOK /\ PaymentInv /\ StatusIsLastSettled /\ [Next]_vars => StatusIsLastSettled'
    <2> SUFFICES ASSUME TypeOK, PaymentInv, StatusIsLastSettled, [Next]_vars
                 PROVE  StatusIsLastSettled'
      OBVIOUS
    <2>1. CASE ~\E w \in Workers : Commit(w)
      BY <2>1, OnlyCommitPublishes DEF StatusIsLastSettled, committed
    <2>2. ASSUME NEW w \in Workers, Commit(w) PROVE StatusIsLastSettled'
      <3> DEFINE i == tx[w].intent
                 row == tx[w].row
      <3>1. /\ i \in Intents /\ intent' = [intent EXCEPT ![i] = row]
            /\ intent \in [Intents -> Row] /\ transactions \in Seq(Txn)
        BY <2>2, CommitCarries DEF Commit, TypeOK
      <3>2. \A k \in DOMAIN transactions :
              transactions[k].intent \in Intents /\ transactions[k].status \in {"succeeded", "failed"}
        <4>1. \A k \in DOMAIN transactions : transactions[k] \in Txn
          BY <3>1
        <4> QED  BY <4>1 DEF Txn
      <3>3. CASE tx[w].inserted
        <4> DEFINE new == [event |-> tx[w].event, intent |-> i, status |-> row.status]
                   n == Len(transactions)
        <4>1. transactions' = Append(transactions, new)
          BY <2>2, <3>3 DEF Commit
        <4>2. new.intent = i /\ new.status = row.status
          OBVIOUS
        <4> HIDE DEF new
        <4>3. /\ n \in Nat /\ DOMAIN transactions = 1..n /\ DOMAIN transactions' = 1..(n + 1)
              /\ transactions'[n + 1] = new
              /\ \A k \in 1..n : transactions'[k] = transactions[k]
          BY <3>1, <4>1
        <4> SUFFICES ASSUME NEW k \in 1..(n + 1),
                            \A m \in 1..(n + 1) :
                              transactions'[m].intent = transactions'[k].intent => m <= k
                     PROVE  intent'[transactions'[k].intent].status = transactions'[k].status
          BY <4>3 DEF StatusIsLastSettled
        <4>4. CASE k = n + 1
          BY <3>1, <4>2, <4>3, <4>4
        <4>5. CASE k \in 1..n
          <5>1. transactions[k].intent # i
            BY <4>2, <4>3, <4>5
          <5>2. \A m \in 1..n : transactions[m].intent = transactions[k].intent => m <= k
            BY <4>3, <4>5
          <5>3. intent[transactions[k].intent].status = transactions[k].status
            BY <4>3, <4>5, <5>2 DEF StatusIsLastSettled
          <5>4. intent'[transactions[k].intent] = intent[transactions[k].intent]
            BY <3>1, <3>2, <4>3, <4>5, <5>1
          <5> QED  BY <4>3, <4>5, <5>3, <5>4
        <4> QED  BY <4>3, <4>4, <4>5
      <3>4. CASE ~tx[w].inserted
        <4>1. transactions' = transactions
          BY <2>2, <3>4 DEF Commit
        <4>2. intent[i].status = "pending"
          BY <2>2, <3>4, CommitCarries
        <4> SUFFICES ASSUME NEW k \in DOMAIN transactions,
                            \A m \in DOMAIN transactions :
                              transactions[m].intent = transactions[k].intent => m <= k
                     PROVE  intent'[transactions[k].intent].status = transactions[k].status
          BY <4>1 DEF StatusIsLastSettled
        <4>3. intent[transactions[k].intent].status = transactions[k].status
          BY DEF StatusIsLastSettled
        <4>4. transactions[k].intent # i
          BY <3>2, <4>2, <4>3
        <4> QED  BY <3>1, <3>2, <4>3, <4>4
      <3> QED  BY <3>3, <3>4
    <2> QED  BY <2>1, <2>2
  <1> QED  BY <1>1, <1>2, LocksProtectWrites, PTL DEF Spec

\* A committed provider event has one transaction row, and the others none.
THEOREM EventsSettleExactlyOnce == Spec => []EventsSettleOnce
  <1>1. Init => EventsSettleOnce
    BY DEF Init, EventsSettleOnce
  <1>2. TypeOK /\ PaymentInv /\ EventsSettleOnce /\ [Next]_vars => EventsSettleOnce'
    <2> SUFFICES ASSUME TypeOK, PaymentInv, EventsSettleOnce, [Next]_vars
                 PROVE  EventsSettleOnce'
      OBVIOUS
    <2>1. CASE ~\E w \in Workers : Commit(w)
      BY <2>1, OnlyCommitPublishes DEF EventsSettleOnce, committed
    <2>2. ASSUME NEW w \in Workers, Commit(w) PROVE EventsSettleOnce'
      <3>1. CASE ~tx[w].inserted
        BY <2>2, <3>1 DEF Commit, EventsSettleOnce
      <3>2. CASE tx[w].inserted
        <4> DEFINE new == [event |-> tx[w].event, intent |-> tx[w].intent,
                           status |-> tx[w].row.status]
                   n == Len(transactions)
        <4>1. /\ transactions' = Append(transactions, new)
              /\ providerEvents' = providerEvents \cup {tx[w].event}
              /\ tx[w].event \notin providerEvents
          BY <2>2, <3>2, CommitCarries DEF Commit
        <4>2. new.event = tx[w].event
          OBVIOUS
        <4> HIDE DEF new
        <4>3. /\ n \in Nat /\ DOMAIN transactions = 1..n /\ DOMAIN transactions' = 1..(n + 1)
              /\ transactions'[n + 1] = new
              /\ \A k \in 1..n : transactions'[k] = transactions[k]
          BY <4>1 DEF TypeOK
        <4>4. \A k \in 1..n : transactions[k].event \in providerEvents
          BY <4>3 DEF EventsSettleOnce
        <4>5. providerEvents' = {transactions'[k].event : k \in DOMAIN transactions'}
          <5>1. 1..(n + 1) = 1..n \cup {n + 1}
            BY <4>3
          <5> HIDE DEF n
          <5>2. providerEvents = {transactions[k].event : k \in 1..n}
            BY <4>3 DEF EventsSettleOnce
          <5> QED  BY <4>1, <4>2, <4>3, <5>1, <5>2
        <4>6. ASSUME NEW k \in 1..(n + 1), NEW m \in 1..(n + 1),
                     transactions'[k].event = transactions'[m].event
              PROVE  k = m
          <5>1. CASE k \in 1..n /\ m \in 1..n
            BY <4>3, <4>6, <5>1 DEF EventsSettleOnce
          <5>2. CASE k = n + 1 \/ m = n + 1
            BY <4>1, <4>2, <4>3, <4>4, <4>6, <5>2
          <5> QED  BY <4>3, <5>1, <5>2
        <4> QED  BY <4>3, <4>5, <4>6 DEF EventsSettleOnce
      <3> QED  BY <3>1, <3>2
    <2> QED  BY <2>1, <2>2
  <1> QED  BY <1>1, <1>2, LocksProtectWrites, PTL DEF Spec

\* The threads' interleaved statements implement the ledger: a COMMIT is the
\* instant at which an event is accepted or an intent cancelled.
THEOREM RefinesLedger == Spec => ImplementsLedger
  <1>1. Init => Ledger!Init
    BY DEF Init, Ledger!Init
  <1>2. TypeOK /\ PaymentInv /\ [Next]_vars => [Ledger!Next]_(Ledger!ledgerVars)
    <2> SUFFICES ASSUME TypeOK, PaymentInv, [Next]_vars
                 PROVE  Ledger!Next \/ UNCHANGED Ledger!ledgerVars
      OBVIOUS
    <2>1. CASE ~\E w \in Workers : Commit(w)
      BY <2>1, OnlyCommitPublishes DEF Ledger!ledgerVars, committed
    <2>2. ASSUME NEW w \in Workers, Commit(w) PROVE Ledger!Next
      <3> PICK i \in Intents : i = tx[w].intent
        BY <2>2, CommitCarries
      <3> DEFINE row == tx[w].row
                 status == [j \in Intents |-> intent[j].status]
      <3>1. /\ intent' = [intent EXCEPT ![i] = row]
            /\ intent \in [Intents -> Row] /\ payload' = payload
        BY <2>2 DEF Commit, TypeOK
      <3>2. status' = [status EXCEPT ![i] = row.status] /\ status[i] = intent[i].status
        BY <3>1
      <3>3. CASE tx[w].inserted
        <4> PICK e \in Events : e = tx[w].event
          BY <2>2, <3>3, CommitCarries
        <4>1. /\ e \notin providerEvents
              /\ i = payload[e].intent
              /\ row.status = NextStatus(payload[e].status)
              /\ intent[i].status \notin {"absent", "cancelled", "refunded"}
              /\ TerminalGuard(intent[i].status, row.status)
              /\ tx[w].audit = <<AuditOf("callback_accepted", i), AuditOf("observed", i)>>
          BY <2>2, <3>3, CommitCarries
        <4>2. /\ providerEvents' = providerEvents \cup {e}
              /\ transactions' =
                   Append(transactions, [event |-> e, intent |-> i, status |-> row.status])
              /\ trail' = trail \o <<AuditOf("callback_accepted", i), AuditOf("observed", i)>>
          BY <2>2, <3>3, <4>1 DEF Commit
        <4>3. Ledger!Outcome(e) = row.status
          BY <4>1 DEF Ledger!Outcome, NextStatus
        <4>4. intent[i].status = "failed" => row.status = "failed"
          BY <4>1 DEF TerminalGuard, Terminal
        <4>5. Ledger!Accept(e)
          BY <3>1, <3>2, <4>1, <4>2, <4>3, <4>4 DEF Ledger!Accept, AuditOf
        <4> QED  BY <4>1, <4>5 DEF Ledger!Next
      <3>4. CASE ~tx[w].inserted
        <4>1. /\ intent[i].status = "pending" /\ row.status = "cancelled"
              /\ tx[w].audit = <<AuditOf("cancel", i)>>
          BY <2>2, <3>4, CommitCarries
        <4>2. /\ UNCHANGED <<providerEvents, transactions>>
              /\ trail' = trail \o <<AuditOf("cancel", i)>>
          BY <2>2, <3>4, <4>1 DEF Commit
        <4>3. trail' = Append(trail, AuditOf("cancel", i))
          BY <3>1, <4>2, AuditOfType DEF TypeOK
        <4>4. Ledger!Cancel(i)
          BY <3>1, <3>2, <4>1, <4>2, <4>3 DEF Ledger!Cancel, AuditOf
        <4> QED  BY <3>1, <4>4 DEF Ledger!Next
      <3> QED  BY <3>3, <3>4
    <2> QED  BY <2>1, <2>2
  <1> QED  BY <1>1, <1>2, LocksProtectWrites, PTL DEF Spec, ImplementsLedger, Ledger!Spec

-----------------------------------------------------------------------------
(* Counting committed rows.                                                *)

\* How many elements of a sequence lie in a set.
Count(s, Q) == Cardinality({k \in DOMAIN s : s[k] \in Q})

\* A sequence that grows by one element counts it, if it is one that counts.
LEMMA CountAppend ==
  ASSUME NEW S, NEW s \in Seq(S), NEW x \in S, NEW Q
  PROVE  /\ Append(s, x) \in Seq(S)
         /\ Count(s, Q) \in Nat
         /\ Count(Append(s, x), Q) = IF x \in Q THEN Count(s, Q) + 1 ELSE Count(s, Q)
  <1> DEFINE n == Len(s)
             old == {k \in DOMAIN s : s[k] \in Q}
             longer == Append(s, x)
             new == {k \in DOMAIN longer : longer[k] \in Q}
  <1>1. /\ n \in Nat /\ DOMAIN s = 1..n /\ DOMAIN longer = 1..(n + 1)
        /\ longer[n + 1] = x /\ longer \in Seq(S)
        /\ \A k \in 1..n : longer[k] = s[k]
    OBVIOUS
  <1> HIDE DEF n, longer
  <1>2. IsFiniteSet(1..n)
    BY <1>1, FS_Interval
  <1>3. IsFiniteSet(old) /\ old \subseteq 1..n
    BY <1>1, <1>2, FS_Subset
  <1>4. Cardinality(old) \in Nat
    BY <1>3, FS_CardinalityType
  <1>5. n + 1 \notin old
    BY <1>1, <1>3
  <1>6. CASE x \in Q
    <2>1. new = old \cup {n + 1}
      <3>1. 1..(n + 1) = 1..n \cup {n + 1}
        BY <1>1
      <3> QED  BY <1>1, <1>6, <3>1
    <2>2. Cardinality(old \cup {n + 1}) = Cardinality(old) + 1
      BY <1>3, <1>5, FS_AddElement
    <2> QED  BY <1>1, <1>4, <1>6, <2>1, <2>2 DEF Count, longer
  <1>7. CASE x \notin Q
    <2>1. new = old
      <3>1. 1..(n + 1) = 1..n \cup {n + 1}
        BY <1>1
      <3> QED  BY <1>1, <1>7, <3>1
    <2> QED  BY <1>1, <1>4, <1>7, <2>1 DEF Count, longer
  <1> QED  BY <1>6, <1>7

\* Nothing is counted in an empty sequence.
LEMMA CountEmpty ==
  ASSUME NEW Q
  PROVE  Count(<<>>, Q) = 0
  <1>1. {k \in DOMAIN <<>> : <<>>[k] \in Q} = {}
    OBVIOUS
  <1> QED  BY <1>1, FS_EmptySet DEF Count

\* The two audit rows of an accepted callback are two appends.
LEMMA TwoAppends ==
  ASSUME NEW S, NEW s \in Seq(S), NEW x \in S, NEW y \in S
  PROVE  s \o <<x, y>> = Append(Append(s, x), y) /\ s \o <<x>> = Append(s, x)
  OBVIOUS

\* A count is a number.
LEMMA CountNat ==
  ASSUME NEW S, NEW s \in Seq(S), NEW Q
  PROVE  Count(s, Q) \in Nat
  <1>1. IsFiniteSet(1..Len(s))
    BY FS_Interval
  <1>2. IsFiniteSet({k \in 1..Len(s) : s[k] \in Q})
    BY <1>1, FS_Subset
  <1>3. DOMAIN s = 1..Len(s)
    OBVIOUS
  <1> QED  BY <1>2, <1>3, FS_CardinalityType DEF Count

\* The rows that count: the transactions of an intent, its cancels, and the
\* audit rows of one action.
TxnsOf(i) == {r \in Txn : r.intent = i}
CancelsOf(i) == {AuditOf("cancel", i)}
RowsOf(a) == {r \in AuditRow : r.action = a}

\* Counting positions with a property is counting the elements that have it.
LEMMA CountsAgree ==
  ASSUME TypeOK
  PROVE  /\ \A i \in Intents :
              /\ Cardinality({k \in DOMAIN transactions : transactions[k].intent = i})
                   = Count(transactions, TxnsOf(i))
              /\ Cardinality({k \in DOMAIN trail : trail[k] = AuditOf("cancel", i)})
                   = Count(trail, CancelsOf(i))
         /\ \A a : Cardinality({k \in DOMAIN trail : trail[k].action = a})
                     = Count(trail, RowsOf(a))
  <1>1. /\ \A k \in DOMAIN transactions : transactions[k] \in Txn
        /\ \A k \in DOMAIN trail : trail[k] \in AuditRow
    BY DEF TypeOK
  <1>2. ASSUME NEW i \in Intents
        PROVE  /\ {k \in DOMAIN transactions : transactions[k].intent = i}
                    = {k \in DOMAIN transactions : transactions[k] \in TxnsOf(i)}
               /\ {k \in DOMAIN trail : trail[k] = AuditOf("cancel", i)}
                    = {k \in DOMAIN trail : trail[k] \in CancelsOf(i)}
    BY <1>1 DEF TxnsOf, CancelsOf
  <1>3. ASSUME NEW a
        PROVE  {k \in DOMAIN trail : trail[k].action = a}
                 = {k \in DOMAIN trail : trail[k] \in RowsOf(a)}
    BY <1>1 DEF RowsOf
  <1> QED  BY <1>2, <1>3 DEF Count

\* What a COMMIT of a callback appends.
LEMMA CallbackAppends ==
  ASSUME TypeOK, PaymentInv, NEW w \in Workers, Commit(w), tx[w].inserted
  PROVE  \E e \in Events, i \in Intents, row \in Row :
           /\ i = tx[w].intent /\ row = tx[w].row
           /\ intent' = [intent EXCEPT ![i] = row]
           /\ row.version = intent[i].version + 1
           /\ [event |-> e, intent |-> i, status |-> row.status] \in Txn
           /\ transactions' =
                Append(transactions, [event |-> e, intent |-> i, status |-> row.status])
           /\ trail' = Append(Append(trail, AuditOf("callback_accepted", i)), AuditOf("observed", i))
  <1>1. PICK e \in Events : e = tx[w].event
    BY CommitCarries
  <1>2. PICK i \in Intents : i = tx[w].intent
    BY CommitCarries
  <1>3. PICK row \in Row : row = tx[w].row
    BY CommitCarries
  <1>4. /\ row.version = intent[i].version + 1
        /\ row.status \in {"succeeded", "failed"}
        /\ tx[w].audit = <<AuditOf("callback_accepted", i), AuditOf("observed", i)>>
    BY <1>2, <1>3, CommitCarries
  <1>5. [event |-> e, intent |-> i, status |-> row.status] \in Txn
    BY <1>4 DEF Txn
  <1>6. trail' = trail \o <<AuditOf("callback_accepted", i), AuditOf("observed", i)>>
    BY <1>4 DEF Commit
  <1>7. AuditOf("callback_accepted", i) \in AuditRow /\ AuditOf("observed", i) \in AuditRow
    BY AuditOfType
  <1>8. trail' = Append(Append(trail, AuditOf("callback_accepted", i)), AuditOf("observed", i))
    <2>1. trail \in Seq(AuditRow)
      BY DEF TypeOK
    <2> QED  BY <1>6, <1>7, <2>1, TwoAppends
  <1>9. /\ intent' = [intent EXCEPT ![i] = row]
        /\ transactions' =
             Append(transactions, [event |-> e, intent |-> i, status |-> row.status])
    BY <1>1, <1>2, <1>3 DEF Commit
  <1> QED  BY <1>2, <1>3, <1>4, <1>5, <1>8, <1>9

\* What a COMMIT of a cancel appends.
LEMMA CancelAppends ==
  ASSUME TypeOK, PaymentInv, NEW w \in Workers, Commit(w), ~tx[w].inserted
  PROVE  \E i \in Intents, row \in Row :
           /\ i = tx[w].intent /\ row = tx[w].row
           /\ intent' = [intent EXCEPT ![i] = row]
           /\ row.version = intent[i].version + 1
           /\ transactions' = transactions
           /\ trail' = Append(trail, AuditOf("cancel", i))
  <1>1. PICK i \in Intents : i = tx[w].intent
    BY CommitCarries
  <1>2. PICK row \in Row : row = tx[w].row
    BY CommitCarries
  <1>3. /\ row.version = intent[i].version + 1
        /\ tx[w].audit = <<AuditOf("cancel", i)>>
    BY <1>1, <1>2, CommitCarries
  <1>4. trail' = trail \o <<AuditOf("cancel", i)>>
    BY <1>3 DEF Commit
  <1>5. trail' = Append(trail, AuditOf("cancel", i))
    <2>1. trail \in Seq(AuditRow) /\ AuditOf("cancel", i) \in AuditRow
      BY AuditOfType DEF TypeOK
    <2> QED  BY <1>4, <2>1, TwoAppends
  <1>6. intent' = [intent EXCEPT ![i] = row] /\ transactions' = transactions
    BY <1>1, <1>2 DEF Commit
  <1> QED  BY <1>1, <1>2, <1>3, <1>5, <1>6

\* How the count of an intent's cancels grows with an audit row.
LEMMA CancelsCounted ==
  ASSUME NEW s \in Seq(AuditRow), NEW i \in Intents, NEW j \in Intents,
         NEW act \in {"cancel", "callback_accepted", "observed", "state_inconsistent"}
  PROVE  /\ Append(s, AuditOf(act, j)) \in Seq(AuditRow)
         /\ Count(s, CancelsOf(i)) \in Nat
         /\ Count(Append(s, AuditOf(act, j)), CancelsOf(i)) =
              IF act = "cancel" /\ i = j THEN Count(s, CancelsOf(i)) + 1
              ELSE Count(s, CancelsOf(i))
  <1>1. AuditOf(act, j) \in AuditRow
    BY AuditOfType
  <1>2. AuditOf(act, j) \in CancelsOf(i) <=> act = "cancel" /\ i = j
    BY DEF CancelsOf, AuditOf
  <1> QED  BY <1>1, <1>2, CountAppend

\* How the count of one action's rows grows with an audit row.
LEMMA ActionsCounted ==
  ASSUME NEW s \in Seq(AuditRow), NEW i \in Intents,
         NEW act \in {"cancel", "callback_accepted", "observed", "state_inconsistent"},
         NEW a \in {"callback_accepted", "observed"}
  PROVE  /\ Append(s, AuditOf(act, i)) \in Seq(AuditRow)
         /\ Count(s, RowsOf(a)) \in Nat
         /\ Count(Append(s, AuditOf(act, i)), RowsOf(a)) =
              IF act = a THEN Count(s, RowsOf(a)) + 1 ELSE Count(s, RowsOf(a))
  <1>1. AuditOf(act, i) \in AuditRow
    BY AuditOfType
  <1>2. AuditOf(act, i) \in RowsOf(a) <=> act = a
    <2>1. AuditOf(act, i).action = act
      BY DEF AuditOf
    <2> QED  BY <1>1, <2>1 DEF RowsOf
  <1> QED  BY <1>1, <1>2, CountAppend

\* No update is lost: every version is a transaction or a cancel.
THEOREM NoUpdateIsLost == Spec => []VersionCountsChanges
  <1> DEFINE Counts == \A i \in Intents :
               intent[i].version = Count(transactions, TxnsOf(i)) + Count(trail, CancelsOf(i))
  <1>1. TypeOK => (Counts <=> VersionCountsChanges)
    BY CountsAgree DEF VersionCountsChanges
  <1>2. Init => Counts
    BY CountEmpty DEF Init
  <1>3. TypeOK /\ PaymentInv /\ Counts /\ [Next]_vars => Counts'
    <2> SUFFICES ASSUME TypeOK, PaymentInv, Counts, [Next]_vars, NEW i \in Intents
                 PROVE  intent'[i].version
                          = Count(transactions', TxnsOf(i)) + Count(trail', CancelsOf(i))
      OBVIOUS
    <2>1. CASE ~\E w \in Workers : Commit(w)
      BY <2>1, OnlyCommitPublishes DEF committed
    <2>2. /\ intent \in [Intents -> Row] /\ intent[i].version \in Nat
          /\ transactions \in Seq(Txn) /\ trail \in Seq(AuditRow)
      BY DEF TypeOK, Row
    <2>3. intent[i].version = Count(transactions, TxnsOf(i)) + Count(trail, CancelsOf(i))
      OBVIOUS
    <2>4. ASSUME NEW w \in Workers, Commit(w), tx[w].inserted
          PROVE  intent'[i].version
                   = Count(transactions', TxnsOf(i)) + Count(trail', CancelsOf(i))
      <3> PICK e \in Events, j \in Intents, row \in Row :
                 /\ intent' = [intent EXCEPT ![j] = row]
                 /\ row.version = intent[j].version + 1
                 /\ [event |-> e, intent |-> j, status |-> row.status] \in Txn
                 /\ transactions' =
                      Append(transactions, [event |-> e, intent |-> j, status |-> row.status])
                 /\ trail' = Append(Append(trail, AuditOf("callback_accepted", j)),
                                    AuditOf("observed", j))
        BY <2>4, CallbackAppends, ZenonT(60)
      <3> DEFINE new == [event |-> e, intent |-> j, status |-> row.status]
                 once == Append(trail, AuditOf("callback_accepted", j))
      <3>1. new \in TxnsOf(i) <=> i = j
        BY DEF TxnsOf
      <3>2. transactions' = Append(transactions, new) /\ new \in Txn
        OBVIOUS
      <3>3. trail' = Append(once, AuditOf("observed", j))
        OBVIOUS
      <3> HIDE DEF new
      <3>4. /\ Count(transactions, TxnsOf(i)) \in Nat
            /\ Count(transactions', TxnsOf(i)) =
                 IF i = j THEN Count(transactions, TxnsOf(i)) + 1
                 ELSE Count(transactions, TxnsOf(i))
        BY <2>2, <3>1, <3>2, CountAppend
      <3>5. /\ once \in Seq(AuditRow)
            /\ Count(trail, CancelsOf(i)) \in Nat
            /\ Count(once, CancelsOf(i)) = Count(trail, CancelsOf(i))
        BY <2>2, CancelsCounted
      <3> HIDE DEF once
      <3>6. Count(trail', CancelsOf(i)) = Count(once, CancelsOf(i))
        <4>1. Count(Append(once, AuditOf("observed", j)), CancelsOf(i))
                = Count(once, CancelsOf(i))
          BY <3>5, CancelsCounted
        <4> QED  BY <3>3, <4>1
      <3>7. intent'[i].version = IF i = j THEN intent[i].version + 1 ELSE intent[i].version
        BY <2>2
      <3> HIDE DEF Counts
      <3> QED  BY <2>2, <2>3, <3>4, <3>5, <3>6, <3>7
    <2>5. ASSUME NEW w \in Workers, Commit(w), ~tx[w].inserted
          PROVE  intent'[i].version
                   = Count(transactions', TxnsOf(i)) + Count(trail', CancelsOf(i))
      <3> PICK j \in Intents, row \in Row :
                 /\ intent' = [intent EXCEPT ![j] = row]
                 /\ row.version = intent[j].version + 1
                 /\ transactions' = transactions
                 /\ trail' = Append(trail, AuditOf("cancel", j))
        BY <2>5, CancelAppends
      <3>1. /\ Count(trail, CancelsOf(i)) \in Nat
            /\ Count(trail', CancelsOf(i)) =
                 IF i = j THEN Count(trail, CancelsOf(i)) + 1 ELSE Count(trail, CancelsOf(i))
        BY <2>2, CancelsCounted
      <3>2. Count(transactions', TxnsOf(i)) = Count(transactions, TxnsOf(i))
        OBVIOUS
      <3>3. intent'[i].version = IF i = j THEN intent[i].version + 1 ELSE intent[i].version
        BY <2>2
      <3>4. Count(transactions, TxnsOf(i)) \in Nat
        BY <2>2, CountNat
      <3> HIDE DEF Counts
      <3> QED  BY <2>2, <2>3, <3>1, <3>2, <3>3, <3>4
    <2> QED  BY <2>1, <2>4, <2>5
  <1> HIDE DEF Counts
  <1> QED  BY <1>1, <1>2, <1>3, LocksProtectWrites, PTL DEF Spec

\* Every transaction row comes with its two audit rows, and these with it.
THEOREM EventsSettleWithTheirAudit == Spec => []EventsSettleAtomically
  <1> DEFINE Audits == \A a \in {"callback_accepted", "observed"} :
                         Count(trail, RowsOf(a)) = Len(transactions)
  <1>1. TypeOK => (EventsSettleAtomically <=> EventsSettleOnce /\ Audits)
    BY CountsAgree DEF EventsSettleAtomically
  <1>2. Init => Audits
    BY CountEmpty DEF Init
  <1>3. TypeOK /\ PaymentInv /\ Audits /\ [Next]_vars => Audits'
    <2> SUFFICES ASSUME TypeOK, PaymentInv, Audits, [Next]_vars,
                        NEW a \in {"callback_accepted", "observed"}
                 PROVE  Count(trail', RowsOf(a)) = Len(transactions')
      OBVIOUS
    <2>1. CASE ~\E w \in Workers : Commit(w)
      BY <2>1, OnlyCommitPublishes DEF committed
    <2>2. transactions \in Seq(Txn) /\ trail \in Seq(AuditRow)
      BY DEF TypeOK
    <2>3. Count(trail, RowsOf(a)) = Len(transactions)
      OBVIOUS
    <2>4. ASSUME NEW w \in Workers, Commit(w), tx[w].inserted
          PROVE  Count(trail', RowsOf(a)) = Len(transactions')
      <3> PICK e \in Events, i \in Intents, row \in Row :
                 /\ [event |-> e, intent |-> i, status |-> row.status] \in Txn
                 /\ transactions' =
                      Append(transactions, [event |-> e, intent |-> i, status |-> row.status])
                 /\ trail' = Append(Append(trail, AuditOf("callback_accepted", i)),
                                    AuditOf("observed", i))
        BY <2>4, CallbackAppends
      <3> DEFINE once == Append(trail, AuditOf("callback_accepted", i))
      <3>1. Len(transactions') = Len(transactions) + 1
        BY <2>2
      <3>2. trail' = Append(once, AuditOf("observed", i))
        OBVIOUS
      <3>3. /\ once \in Seq(AuditRow)
            /\ Count(trail, RowsOf(a)) \in Nat
            /\ Count(once, RowsOf(a)) =
                 IF "callback_accepted" = a THEN Count(trail, RowsOf(a)) + 1
                 ELSE Count(trail, RowsOf(a))
        BY <2>2, ActionsCounted
      <3> HIDE DEF once
      <3>4. Count(trail', RowsOf(a)) =
              IF "observed" = a THEN Count(once, RowsOf(a)) + 1 ELSE Count(once, RowsOf(a))
        <4>1. Count(Append(once, AuditOf("observed", i)), RowsOf(a)) =
                IF "observed" = a THEN Count(once, RowsOf(a)) + 1 ELSE Count(once, RowsOf(a))
          BY <3>3, ActionsCounted
        <4> QED  BY <3>2, <4>1
      <3> HIDE DEF Audits
      <3> QED  BY <2>3, <3>1, <3>3, <3>4
    <2>5. ASSUME NEW w \in Workers, Commit(w), ~tx[w].inserted
          PROVE  Count(trail', RowsOf(a)) = Len(transactions')
      <3> PICK i \in Intents :
                 transactions' = transactions /\ trail' = Append(trail, AuditOf("cancel", i))
        BY <2>5, CancelAppends
      <3>1. Count(trail', RowsOf(a)) = Count(trail, RowsOf(a))
        BY <2>2, ActionsCounted
      <3> QED  BY <2>3, <3>1
    <2> QED  BY <2>1, <2>4, <2>5
  <1> HIDE DEF Audits
  <1> QED  BY <1>1, <1>2, <1>3, EventsSettleExactlyOnce, LocksProtectWrites, PTL DEF Spec
=============================================================================
