------------------------------ MODULE MCNssGo ------------------------------
(* An instance of NssGo for TLC. *)
EXTENDS NssGo, TLC

\* Threads are alike, and so are users.
Alike == Permutations(Threads) \cup Permutations(Users)
=============================================================================
