---------------------------- MODULE MCHeldPane ----------------------------
(* Small instances of HeldPane for TLC: the bounds are in the .cfg files.  *)
EXTENDS HeldPane
=============================================================================
