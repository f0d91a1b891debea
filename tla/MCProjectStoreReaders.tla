------------------------ MODULE MCProjectStoreReaders ------------------------
(* One writer and one reader; every snapshot cites the same content, so    *)
(* that the snapshots are interchangeable.                                 *)
EXTENDS ProjectStoreReaders, TLC

CONSTANTS s1, s2, s3, e1

MCRefs == [s \in Snapshots |-> {e1}]

SnapshotSymmetry == Permutations(Snapshots)
=============================================================================
