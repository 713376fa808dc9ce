------------------------------ MODULE MCVolumes ------------------------------
(* Small instances of Volumes for TLC.  The snapshots are all taken of v1.    *)
EXTENDS Volumes, TLC

CONSTANTS v1

MCVolOf == [s \in Snaps |-> v1]

ProcSymmetry == Permutations(Procs)
=============================================================================
