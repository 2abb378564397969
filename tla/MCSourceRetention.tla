-------------------------- MODULE MCSourceRetention --------------------------
(* Instances of SourceRetention for TLC. *)
EXTENDS SourceRetention

CONSTANTS k1, k2, w1, r1

OneBatch == [r \in {r1} |-> {k1, k2}]
=============================================================================
