---------------------------- MODULE MCDelivery ----------------------------
(* Small instances of Delivery for TLC: the bounds are in the .cfg files.  *)
EXTENDS Delivery
=============================================================================
