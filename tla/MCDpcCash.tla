----------------------------- MODULE MCDpcCash -----------------------------
(* Wallets and tokens are interchangeable but for the one that restarts.   *)
EXTENDS DpcCash, TLC

CONSTANTS alice, bob, carol, t1, t2, t3

Symmetry == Permutations(Wallets \ Restartable) \cup Permutations(Tokens)
=============================================================================
