------------------------------ MODULE MCRpc ------------------------------
(* Small instances of Rpc for TLC: the bounds are in the .cfg files.       *)
EXTENDS Rpc, TLC

\* Connections are only compared.
Symmetry == Permutations(Conns)

\* A transport is cut or the daemon restarted, not both.
FewFaults == starts + cuts < MaxStarts + MaxCuts
=============================================================================
