----------------------------- MODULE MCOwnOrders -----------------------------
(* Model checking of OwnOrders. *)
EXTENDS OwnOrders
=============================================================================
