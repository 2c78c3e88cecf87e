------------------------------ MODULE MCReflow ------------------------------
(* A window for TLC: a size whose divisions leave odd cells over. *)
EXTENDS Reflow

Cells6x4       == [w |-> 6, h |-> 4]
CellsSpawned   == [w |-> 3, h |-> 1]
CellsOfClients == {[w |-> 5, h |-> 0]}
OneCell        == {1}

\* A last call that overlaps another is followed until both reflow the window.
LastOverlapIsShort ==
    calls = MaxCalls => \E c \in Callers : call[c].at \in {"idle", "select", "unregister", "spawn"}

Symmetry       == Permutations(Callers)
=============================================================================
