---------------------------- MODULE MCInProcess ----------------------------
(* Small instances of InProcess for TLC: the bounds are in the .cfg files. *)
EXTENDS InProcess

\* Output and subscriptions are those of one pane, which is not the first one.
OneIsHeard == fed[Seed] = 0 /\ \A s \in Subs : sub[s].pane # Seed
=============================================================================
