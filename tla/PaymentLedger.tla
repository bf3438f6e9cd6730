--------------------------- MODULE PaymentLedger ---------------------------
(***************************************************************************)
(* What the payment service promises, with no transactions, threads or     *)
(* locks: an accepted provider event and an operator cancel each happen at *)
(* one instant, together with their transaction row and their audit rows.  *)
(* PaymentLifecycle implements it.                                         *)
(***************************************************************************)
EXTENDS Naturals, Sequences

CONSTANTS Intents, Events

VARIABLES
  payload,   \* the intent and the outcome each provider event names
  status,    \* the status of each intent
  accepted,  \* the provider events that have been accepted
  settled,   \* the accepted events with their outcome, in order
  trail      \* the audit trail, in order

ledgerVars == <<payload, status, accepted, settled, trail>>

Outcome(e) == IF payload[e].status = "failed" THEN "failed" ELSE "succeeded"

Init ==
  /\ accepted = {}
  /\ settled = <<>>
  /\ trail = <<>>

\* An event counts once, never against a cancelled intent, and never moves
\* an intent out of a terminal status.
Accept(e) ==
  LET i == payload[e].intent
  IN /\ e \notin accepted
     /\ status[i] \notin {"absent", "cancelled", "refunded"}
     /\ status[i] = "failed" => Outcome(e) = "failed"
     /\ accepted' = accepted \cup {e}
     /\ status' = [status EXCEPT ![i] = Outcome(e)]
     /\ settled' = Append(settled, [event |-> e, intent |-> i, status |-> Outcome(e)])
     /\ trail' = trail \o <<[action |-> "callback_accepted", intent |-> i],
                            [action |-> "observed", intent |-> i]>>
     /\ UNCHANGED payload

Cancel(i) ==
  /\ status[i] = "pending"
  /\ status' = [status EXCEPT ![i] = "cancelled"]
  /\ trail' = Append(trail, [action |-> "cancel", intent |-> i])
  /\ UNCHANGED <<payload, accepted, settled>>

Next == (\E e \in Events : Accept(e)) \/ (\E i \in Intents : Cancel(i))

Spec == Init /\ [][Next]_ledgerVars
=============================================================================
