----------------------------- MODULE MCDelivery -----------------------------
(* Two instances in one run: the dispatchers at work on a queue the relay does *)
(* not add to, and the relay on a queue nobody drains; they share the emits.   *)
EXTENDS MailRelay
CONSTANTS w1, w2, m1, m2, q1, q2, u1, u2, k1, k2

VARIABLE instance

MCInit == RelayInit /\ instance \in {"dispatchers", "relay"}
MCNext ==
  /\ UNCHANGED instance
  /\ \/ instance = "dispatchers" /\ DeliveryNext /\ UNCHANGED relayVars
     \/ instance = "relay" /\ (Emit \/ Preferences) /\ UNCHANGED relayVars
     \/ instance = "relay" /\ \E q \in Request : Relay(q)

MCSpec == MCInit /\ [][MCNext]_<<deliveryVars, relayVars, instance>> /\ Fairness
=============================================================================
