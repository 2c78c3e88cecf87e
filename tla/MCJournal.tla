----------------------------- MODULE MCJournal -----------------------------
(* The instance of Journal that TLC checks; the .cfg files give the bounds. *)
EXTENDS Journal
=============================================================================
