----------------------------- MODULE MCPlaces -----------------------------
(* Small instances of Places for TLC: the bounds are in the .cfg files.    *)
EXTENDS Places, TLC

\* Places, callers and sessions are only compared.
Symmetry == Permutations(Anchors) \cup Permutations(Calls) \cup Permutations(Sessions)

\* Once two requests have persisted at once, the last daemon serves one at a time.
OneAtATimeOnceTorn ==
    overlapped /\ starts = MaxStarts => \E c \in Calls : call[c].at = "idle"
=============================================================================
