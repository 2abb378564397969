---------------------------- MODULE MCNovelImport ----------------------------
(* Instances of NovelImport for TLC. *)
EXTENDS NovelImport, TLC

CONSTANTS p1, p2, n1, u1

Uploader == [n \in {n1} |-> u1]

Replicas == Permutations({p1, p2})
=============================================================================
