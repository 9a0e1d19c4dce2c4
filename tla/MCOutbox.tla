------------------------------ MODULE MCOutbox ------------------------------
(* Instances of Outbox: one account with a history, next to one that appears. *)
EXTENDS Outbox
Two    == 1..2
Uneven == [u \in {1, 2} |-> IF u = 1 THEN 3 ELSE 1]
=============================================================================
