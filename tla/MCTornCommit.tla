--------------------------- MODULE MCTornCommit ---------------------------
(***************************************************************************)
(* The instance of TornCommit for TLC, with the constants of MCAadAuth.    *)
(***************************************************************************)
EXTENDS TornCommit

CONSTANTS s1, p1, p2, u1, u2

SameHash == [u \in Users |-> Offset]
DefaultConfig == {[exp |-> Unset, homedir |-> <<"text", "%f">>]}
AllRoot == [p \in Procs |-> shadowRWMode]
=============================================================================
