-------------------------- MODULE MCClientDelivery --------------------------
(* Instances of ClientDelivery for TLC. *)
EXTENDS ClientDelivery, MCClient
=============================================================================
