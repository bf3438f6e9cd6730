-------------------------- MODULE PaymentLifecycle --------------------------
(***************************************************************************)
(* Payment intents as PaymentService changes them: provider callbacks      *)
(* (acceptCallback) and operator cancels (cancelPaymentIntent), each one a *)
(* PostgreSQL READ COMMITTED transaction run by a request thread.  One     *)
(* action is one statement that can wait on, or be observed by, another    *)
(* transaction; writes stay in the transaction's record until Commit.      *)
(* A statement that fails aborts its transaction: every later statement    *)
(* of it fails too, which is what PostgreSQL (and not the H2 database of   *)
(* the tests) does.                                                        *)
(***************************************************************************)
EXTENDS Naturals, Sequences, FiniteSets

CONSTANTS
  Intents,   \* rows of payment_intents (nothing in the code inserts one)
  Events,    \* (provider_code, provider_event_id) pairs the provider signs
  Workers,   \* request threads, each with the connection it holds
  None

VARIABLES
  payload,         \* what the provider put into each event: never changes
  intent,          \* committed rows of payment_intents
  providerEvents,  \* committed rows of provider_events
  transactions,    \* committed rows of transactions, in commit order
  trail,           \* committed rows of audit_event, in id order
  tx,              \* per worker: the request and its uncommitted writes
  rowLock,         \* holder of the row lock on each intent
  auditLock        \* holder of pg_advisory_xact_lock(7341)

vars == <<payload, intent, providerEvents, transactions, trail, tx, rowLock, auditLock>>
committed == <<intent, providerEvents, transactions, trail>>

Status ==
  {"absent", "pending", "submitted", "succeeded", "failed", "cancelled",
   "refunded", "partially_refunded"}
Terminal == {"failed", "cancelled", "refunded"}
Row == [status : Status, version : Nat]
ASSUME NoneIsFresh == None \notin Intents \cup Events \cup Workers /\ None \notin Row

Payload == [intent : Intents, status : {"succeeded", "failed", "other"}]
Txn == [event : Events, intent : Intents, status : {"succeeded", "failed"}]
AuditRow ==
  [action : {"cancel", "callback_accepted", "observed", "state_inconsistent"},
   intent : Intents]

Step ==
  {"idle", "insert_event", "read_intent", "update_intent", "audit_callback",
   "race_lost", "cancel_read", "cancel_update", "audit_cancel", "commit", "rollback"}
Reply == {"none", "ok", "conflict", "error", "lost"}
Tx ==
  [pc : Step, event : Events \cup {None}, intent : Intents \cup {None},
   inserted : BOOLEAN, seen : Row \cup {None}, row : Row \cup {None},
   audit : Seq(AuditRow), aborted : BOOLEAN, reply : Reply]

NewTx(step, e, i, reply) ==
  [pc |-> step, event |-> e, intent |-> i, inserted |-> FALSE,
   seen |-> None, row |-> None, audit |-> <<>>, aborted |-> FALSE, reply |-> reply]
Idle(reply) == NewTx("idle", None, None, reply)

At(w, step) == tx[w].pc = step
AuditOf(action, i) == [action |-> action, intent |-> i]

TypeOK ==
  /\ payload \in [Events -> Payload]
  /\ intent \in [Intents -> Row]
  /\ providerEvents \subseteq Events
  /\ transactions \in Seq(Txn)
  /\ trail \in Seq(AuditRow)
  /\ tx \in [Workers -> Tx]
  /\ rowLock \in [Intents -> Workers \cup {None}]
  /\ auditLock \in Workers \cup {None}

\* Rows reach the code in any status the migrated table may hold.
Init ==
  /\ payload \in [Events -> Payload]
  /\ intent \in [Intents -> [status : Status, version : {0}]]
  /\ providerEvents = {}
  /\ transactions = <<>>
  /\ trail = <<>>
  /\ tx = [w \in Workers |-> Idle("none")]
  /\ rowLock = [i \in Intents |-> None]
  /\ auditLock = None

-----------------------------------------------------------------------------
(* What the statements compute.                                            *)

NextStatusPassedThrough(s) == s
NextStatus(s) == IF s = "failed" THEN "failed" ELSE "succeeded"

TerminalGuardOff(old, new) == TRUE
TerminalGuard(old, new) == old \in Terminal => new = old

CancelMatchesAnyRow(row, seen) == TRUE
CancelMatches(row, seen) == row.status = "pending" /\ row.version = seen.version

RowFreeIgnored(i) == TRUE
RowFree(i) == rowLock[i] = None

AuditLockFree == auditLock = None

\* The unique index makes an insert wait for an uncommitted one of the same key.
UniqueIndexMissing(w) == TRUE
KeyFree(w) ==
  \A v \in Workers \ {w} : ~(tx[v].inserted /\ tx[v].event = tx[w].event)

\* Every lock of a transaction goes with it, whichever way it ends.
KeepAuditLock(w) ==
  /\ rowLock' = [i \in Intents |-> IF rowLock[i] = w THEN None ELSE rowLock[i]]
  /\ UNCHANGED auditLock
ReleaseLocks(w) ==
  /\ rowLock' = [i \in Intents |-> IF rowLock[i] = w THEN None ELSE rowLock[i]]
  /\ auditLock' = IF auditLock = w THEN None ELSE auditLock

Move(w, t) == tx' = [tx EXCEPT ![w] = t]
Fail(w, step, reply) == Move(w, [tx[w] EXCEPT !.pc = step, !.reply = reply])

-----------------------------------------------------------------------------
(* A provider callback: PaymentService.acceptCallback.                     *)

ReceiveCallback(w, e) ==
  /\ At(w, "idle")
  /\ Move(w, NewTx("insert_event", e, payload[e].intent, "none"))
  /\ UNCHANGED <<payload, committed, rowLock, auditLock>>

\* A fresh key is inserted.  A known one raises DuplicateKeyException; the
\* UPDATE of duplicate_count that handles it runs in the aborted transaction,
\* so the exception it raises leaves acceptCallback.
InsertEvent(w) ==
  /\ At(w, "insert_event")
  /\ KeyFree(w)
  /\ \/ /\ tx[w].event \notin providerEvents
        /\ Move(w, [tx[w] EXCEPT !.pc = "read_intent", !.inserted = TRUE])
     \/ /\ tx[w].event \in providerEvents
        /\ Move(w, [tx[w] EXCEPT !.pc = "rollback", !.aborted = TRUE, !.reply = "error"])
  /\ UNCHANGED <<payload, committed, rowLock, auditLock>>

ReadIntent(w) ==
  /\ At(w, "read_intent")
  /\ \/ /\ intent[tx[w].intent].status \in {"absent", "cancelled"}
        /\ Fail(w, "race_lost", "conflict")
     \/ /\ intent[tx[w].intent].status \notin {"absent", "cancelled"}
        /\ Move(w, [tx[w] EXCEPT !.pc = "update_intent"])
  /\ UNCHANGED <<payload, committed, rowLock, auditLock>>

\* The UPDATE has no status or version guard: it waits for the row and sees
\* the newest committed one; only the terminal trigger can refuse it.  The
\* transaction row is inserted behind it.
UpdateIntent(w) ==
  LET i == tx[w].intent
      next == NextStatus(payload[tx[w].event].status)
  IN /\ At(w, "update_intent")
     /\ RowFree(i)
     /\ rowLock' = [rowLock EXCEPT ![i] = w]
     /\ \/ /\ TerminalGuard(intent[i].status, next)
           /\ Move(w, [tx[w] EXCEPT !.pc = "audit_callback",
                         !.row = [status |-> next, version |-> intent[i].version + 1]])
        \/ /\ ~TerminalGuard(intent[i].status, next)
           /\ Move(w, [tx[w] EXCEPT !.pc = "race_lost", !.aborted = TRUE, !.reply = "error"])
     /\ UNCHANGED <<payload, committed, auditLock>>

AuditCallback(w) ==
  /\ At(w, "audit_callback")
  /\ AuditLockFree
  /\ auditLock' = w
  /\ Move(w, [tx[w] EXCEPT !.pc = "commit",
                !.audit = <<AuditOf("callback_accepted", tx[w].intent),
                            AuditOf("observed", tx[w].intent)>>])
  /\ UNCHANGED <<payload, committed, rowLock>>

\* The catch block audits, in the same transaction, and rethrows.
RaceLost(w) ==
  /\ At(w, "race_lost")
  /\ \/ /\ tx[w].aborted
        /\ Fail(w, "rollback", "error")
        /\ UNCHANGED auditLock
     \/ /\ ~tx[w].aborted
        /\ AuditLockFree
        /\ auditLock' = w
        /\ Move(w, [tx[w] EXCEPT !.pc = "rollback",
                      !.audit = <<AuditOf("state_inconsistent", tx[w].intent)>>])
  /\ UNCHANGED <<payload, committed, rowLock>>

-----------------------------------------------------------------------------
(* An operator cancel: PaymentService.cancelPaymentIntent.                 *)

ReceiveCancel(w, i) ==
  /\ At(w, "idle")
  /\ Move(w, NewTx("cancel_read", None, i, "none"))
  /\ UNCHANGED <<payload, committed, rowLock, auditLock>>

CancelRead(w) ==
  /\ At(w, "cancel_read")
  /\ \/ /\ intent[tx[w].intent].status # "pending"
        /\ Fail(w, "rollback", "conflict")
     \/ /\ intent[tx[w].intent].status = "pending"
        /\ Move(w, [tx[w] EXCEPT !.pc = "cancel_update", !.seen = intent[tx[w].intent]])
  /\ UNCHANGED <<payload, committed, rowLock, auditLock>>

CancelUpdate(w) ==
  LET i == tx[w].intent
  IN /\ At(w, "cancel_update")
     /\ RowFree(i)
     /\ \/ /\ CancelMatches(intent[i], tx[w].seen)
           /\ rowLock' = [rowLock EXCEPT ![i] = w]
           /\ Move(w, [tx[w] EXCEPT !.pc = "audit_cancel",
                         !.row = [status |-> "cancelled", version |-> intent[i].version + 1]])
        \/ /\ ~CancelMatches(intent[i], tx[w].seen)
           /\ Fail(w, "rollback", "conflict")
           /\ UNCHANGED rowLock
     /\ UNCHANGED <<payload, committed, auditLock>>

AuditCancel(w) ==
  /\ At(w, "audit_cancel")
  /\ AuditLockFree
  /\ auditLock' = w
  /\ Move(w, [tx[w] EXCEPT !.pc = "commit", !.audit = <<AuditOf("cancel", tx[w].intent)>>])
  /\ UNCHANGED <<payload, committed, rowLock>>

-----------------------------------------------------------------------------
(* The end of a transaction.                                               *)

\* COMMIT publishes every write; the reply may still be lost on its way out.
Commit(w) ==
  LET i == tx[w].intent
      e == tx[w].event
  IN /\ At(w, "commit")
     /\ intent' = [intent EXCEPT ![i] = tx[w].row]
     /\ \/ /\ tx[w].inserted
           /\ providerEvents' = providerEvents \cup {e}
           /\ transactions' =
                Append(transactions, [event |-> e, intent |-> i, status |-> tx[w].row.status])
        \/ /\ ~tx[w].inserted
           /\ UNCHANGED <<providerEvents, transactions>>
     /\ trail' = trail \o tx[w].audit
     /\ \E reply \in {"ok", "lost"} : Move(w, Idle(reply))
     /\ ReleaseLocks(w)
     /\ UNCHANGED payload

\* acceptCallback as it was before it became @Transactional.
RollbackKeepsEvent(w) ==
  /\ At(w, "rollback")
  /\ Move(w, Idle(tx[w].reply))
  /\ providerEvents' =
       IF tx[w].inserted THEN providerEvents \cup {tx[w].event} ELSE providerEvents
  /\ ReleaseLocks(w)
  /\ UNCHANGED <<payload, intent, transactions, trail>>
Rollback(w) ==
  /\ At(w, "rollback")
  /\ Move(w, Idle(tx[w].reply))
  /\ ReleaseLocks(w)
  /\ UNCHANGED <<payload, committed>>

\* The process dies or the connection drops: the server rolls back.
ConnectionLost(w) ==
  /\ ~At(w, "idle")
  /\ Move(w, Idle("lost"))
  /\ ReleaseLocks(w)
  /\ UNCHANGED <<payload, committed>>

-----------------------------------------------------------------------------
Callback(w) ==
  \/ InsertEvent(w) \/ ReadIntent(w) \/ UpdateIntent(w)
  \/ AuditCallback(w) \/ RaceLost(w)
Cancel(w) == CancelRead(w) \/ CancelUpdate(w) \/ AuditCancel(w)
Finish(w) == Commit(w) \/ Rollback(w)

Next ==
  \E w \in Workers :
    \/ \E e \in Events : ReceiveCallback(w, e)
    \/ \E i \in Intents : ReceiveCancel(w, i)
    \/ Callback(w)
    \/ Cancel(w)
    \/ Finish(w)
    \/ ConnectionLost(w)

Spec == Init /\ [][Next]_vars

\* A thread runs its request to the end.  PostgreSQL grants row, key and
\* advisory locks in the order they were asked for, so a waiter is not passed
\* over for ever.  Nothing makes requests arrive or connections break.
Fairness ==
  \A w \in Workers : SF_vars(Callback(w)) /\ SF_vars(Cancel(w)) /\ WF_vars(Finish(w))
FairSpec == Spec /\ Fairness
-----------------------------------------------------------------------------
(* Properties.                                                             *)

\* A provider event has exactly one transaction row if it is committed and
\* none if it is not, whatever request fails half-way.
EventsSettleOnce ==
  /\ providerEvents = {transactions[k].event : k \in DOMAIN transactions}
  /\ \A k, m \in DOMAIN transactions : transactions[k].event = transactions[m].event => k = m

\* Provider events, transaction rows and their two audit rows are committed
\* together or not at all (the claim of the 1.0.0-hotfix.1 notes on
\* acceptCallback).
EventsSettleAtomically ==
  /\ EventsSettleOnce
  /\ \A a \in {"callback_accepted", "observed"} :
       Cardinality({k \in DOMAIN trail : trail[k].action = a}) = Len(transactions)

\* Callbacks of one intent are applied one after another and a cancel that
\* races with one never also wins: the status of an intent with transaction
\* rows is the outcome recorded by the last of them (so never cancelled).
StatusIsLastSettled ==
  \A k \in DOMAIN transactions :
    (\A m \in DOMAIN transactions :
       transactions[m].intent = transactions[k].intent => m <= k)
      => intent[transactions[k].intent].status = transactions[k].status

\* No update is lost: the version of a row counts the transactions and the
\* cancels that changed it.
VersionCountsChanges ==
  \A i \in Intents :
    intent[i].version =
      Cardinality({k \in DOMAIN transactions : transactions[k].intent = i})
        + Cardinality({k \in DOMAIN trail : trail[k] = AuditOf("cancel", i)})

\* A failed, cancelled or refunded intent keeps its status, even when the
\* request that would change it read the row before it became terminal.
TerminalStaysTerminal ==
  [][\A i \in Intents : intent[i].status \in Terminal => intent'[i].status = intent[i].status]_intent

\* The statements of all threads, interleaved, implement the ledger in which
\* an accepted event and a cancel are single steps.
Ledger == INSTANCE PaymentLedger WITH
  status <- [i \in Intents |-> intent[i].status],
  accepted <- providerEvents,
  settled <- transactions
ImplementsLedger == Ledger!Spec

\* The inductive invariant behind StatusIsLastSettled, TerminalStaysTerminal
\* and ImplementsLedger: what the locks a transaction holds let it rely on.
\* A row that a transaction has written is locked by it.
WriteIsLocked(w) ==
  /\ tx[w].row # None <=> tx[w].pc \in {"audit_callback", "audit_cancel", "commit"}
  /\ tx[w].row # None => rowLock[tx[w].intent] = w

\* An inserted key is new, and no other transaction has inserted it.
KeyIsFresh(w) ==
  tx[w].inserted =>
    /\ tx[w].event \in Events \ providerEvents
    /\ \A v \in Workers \ {w} : ~(tx[v].inserted /\ tx[v].event = tx[w].event)

\* Where a request is tells what it carries.
RequestIsTyped(w) ==
  /\ tx[w].pc # "idle" => tx[w].intent \in Intents
  /\ tx[w].event # None => tx[w].intent = payload[tx[w].event].intent
  /\ tx[w].pc \in {"insert_event", "read_intent", "update_intent", "audit_callback"} =>
       tx[w].event # None
  /\ tx[w].pc \in {"read_intent", "update_intent", "audit_callback"} => tx[w].inserted
  /\ tx[w].pc \in {"idle", "insert_event", "cancel_read", "cancel_update", "audit_cancel"} =>
       ~tx[w].inserted

\* A write was computed from the committed row it will replace.
WriteIsCurrent(w) ==
  LET old == intent[tx[w].intent]
      row == tx[w].row
  IN /\ tx[w].pc = "update_intent" => old.status # "absent"
     /\ row # None /\ tx[w].inserted =>
          /\ old.status \notin {"absent", "cancelled", "refunded"}
          /\ TerminalGuard(old.status, row.status)
          /\ row.status = NextStatus(payload[tx[w].event].status)
     /\ row # None /\ ~tx[w].inserted => old.status = "pending" /\ row.status = "cancelled"
     /\ row # None => row.version = old.version + 1

\* The audit rows of a transaction ready to commit say what it did.
AuditIsWhole(w) ==
  tx[w].pc = "commit" =>
    tx[w].audit = IF tx[w].inserted
                  THEN <<AuditOf("callback_accepted", tx[w].intent),
                         AuditOf("observed", tx[w].intent)>>
                  ELSE <<AuditOf("cancel", tx[w].intent)>>

TxInv(w) ==
  WriteIsLocked(w) /\ KeyIsFresh(w) /\ RequestIsTyped(w) /\ WriteIsCurrent(w) /\ AuditIsWhole(w)
PaymentInv == \A w \in Workers : TxInv(w)

\* No request waits for ever on the locks of others: no set of callbacks and
\* cancels blocks one another on the event key, the row and the audit lock.
RequestsFinish == \A w \in Workers : ~At(w, "idle") ~> At(w, "idle")

\* P3PaymentLifecycleContractTest.java:110: a callback refused with a conflict
\* because it came after a cancel leaves a state_inconsistent audit row.
LateCallbackRefused(w) ==
  /\ At(w, "rollback")
  /\ tx[w].event # None
  /\ intent[tx[w].intent].status = "cancelled"
  /\ tx'[w] = Idle("conflict")
RefusedCallbackIsAudited ==
  [][\A w \in Workers :
       LateCallbackRefused(w) =>
         \E k \in DOMAIN trail' : trail'[k] = AuditOf("state_inconsistent", tx[w].intent)]_vars

\* docs/architecture/idempotency.md:3-6: duplicate events are detected
\* explicitly; PaymentService.java:72-74 answers them with the current intent.
\* So a redelivered event is not answered with a server error.
DuplicateIsDetected ==
  \A w \in Workers :
    At(w, "rollback") /\ tx[w].event \in providerEvents => tx[w].reply # "error"

\* PaymentIntent.java:37-40 and 62-65 (markSucceeded, requireStatus): an intent
\* that has not succeeded before succeeds only after it was submitted.
SucceedsOnlyFromSubmitted ==
  [][\A i \in Intents :
       intent[i].status # "succeeded" /\ intent'[i].status = "succeeded" =>
         intent[i].status = "submitted"]_intent
=============================================================================
