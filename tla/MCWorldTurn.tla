---------------------------- MODULE MCWorldTurn ----------------------------
(* Small instances of WorldTurn for TLC. *)
EXTENDS WorldTurn, TLC

CONSTANTS t1, t2, w1, w2

MCTurnIds == {t1, t2}
MCWorkers == {w1, w2}
Narrative == {"none"}
Advanced == {"pending", "template"}

Symmetric == Permutations(MCTurnIds) \cup Permutations(MCWorkers)
Interchangeable == Permutations(MCWorkers)
=============================================================================
