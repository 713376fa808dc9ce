--------------------------- MODULE MCConnections ---------------------------
(* Small instances of Connections for TLC.                                   *)
EXTENDS Connections, TLC

ProcSymmetry == Permutations(Procs)
ConnSymmetry == Permutations(Conns)
BothSymmetries == ProcSymmetry \cup ConnSymmetry
=============================================================================
