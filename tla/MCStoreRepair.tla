---------------------------- MODULE MCStoreRepair ----------------------------
(* Two snapshots that cite the same content.                               *)
EXTENDS StoreRepair, TLC

CONSTANTS s1, s2, e1

MCRefs == [s \in {s1, s2} |-> {e1}]

Symmetry == Permutations(Procs) \cup Permutations(Snapshots)
=============================================================================
