--------------------------- MODULE MCCacheCreate ---------------------------
(* Instances of CacheCreate: processes of root and of a member of group    *)
(* shadow.                                                                 *)
EXTENDS CacheCreate, TLC

CONSTANTS r1, r0, s1

TwoRoots == [p \in Openers |-> IF p = s1 THEN "shadow" ELSE "root"]

\* Inodes are alike; the two processes of root differ in their expiration.
Alike == Permutations(Inodes)
=============================================================================
