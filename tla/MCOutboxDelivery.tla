-------------------------- MODULE MCOutboxDelivery --------------------------
(* Instances of OutboxDelivery for TLC. *)
EXTENDS OutboxDelivery, TLC

MCItem == {1, 2}
=============================================================================
