--------------------------- MODULE MCProjectStore ---------------------------
(* Small instances of ProjectStore and ProjectStoreRetry for TLC.          *)
EXTENDS ProjectStoreRetry, TLC

CONSTANTS s1, s2, s3, e1, e2

(* s1 and s2 cite the same content, s3 adds to it.                         *)
MCRefs == [s \in {s1, s2, s3} |-> IF s = s3 THEN {e1, e2} ELSE {e1}]
MCRefs2 == [s \in {s1, s2} |-> IF s = s2 THEN {e1, e2} ELSE {e1}]

ProcSymmetry == Permutations(Procs)
=============================================================================
