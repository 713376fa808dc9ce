---------------------------- MODULE MCMemoryStore ----------------------------
EXTENDS MemoryStore, TLC

(* Which of the free objects is taken, and which object goes with which id,  *)
(* makes no difference.                                                      *)
Symmetry == Permutations(VolRefs) \cup Permutations(SnapRefs) \cup Permutations(Snaps)
=============================================================================
