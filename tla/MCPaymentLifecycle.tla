------------------------- MODULE MCPaymentLifecycle -------------------------
(* PaymentLifecycle on small instances.                                    *)
EXTENDS PaymentLifecycle, TLC

Symmetry == Permutations(Workers) \cup Permutations(Intents) \cup Permutations(Events)

\* The runs of intents that were just created: PaymentIntent.java:30 gives a new
\* intent the status pending.
FromCreated ==
  /\ Init
  /\ \A i \in Intents : intent[i].status = "pending"
  /\ [][Next]_vars
=============================================================================
