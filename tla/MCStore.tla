------------------------------ MODULE MCStore ------------------------------
EXTENDS Store, TLC
CONSTANTS s, p, q
MCOf == [x \in {p, q} |-> s]
Symmetry == Permutations({p, q})

\* No property says anything of a session that is late, and it stays late.
Promised == past.late # Sessions
============================================================================
