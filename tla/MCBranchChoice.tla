---------------------------- MODULE MCBranchChoice ----------------------------
(* Small instances of BranchChoice for TLC. *)
EXTENDS BranchChoice, TLC

CONSTANTS r1, r2, r3

MCRequests == {r1, r2, r3}

Symmetric == Permutations(MCRequests)
===============================================================================
