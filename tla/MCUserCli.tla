----------------------------- MODULE MCUserCli -----------------------------
(***************************************************************************)
(* Instances of UserCli for TLC: two homes on one file system, a third on  *)
(* another.                                                                *)
(***************************************************************************)
EXTENDS UserCli, TLC

CONSTANTS c1, c2, h1, h2, h3

TwoDisks == [p \in Paths |-> IF p = h3 THEN 2 ELSE 1]

Alike == Permutations({c1, c2})
=============================================================================
