--------------------------- MODULE MCOfflineCash ---------------------------
(***************************************************************************)
(* Three wallets and up to four token ids.  OfflineCash.cfg has all wallets *)
(* alike and three tokens in all, for bundles of several tokens and the    *)
(* balance cap; Recovery.cfg has one token and one more to issue it again  *)
(* as, a clock of half seconds and a wallet that can be lost.              *)
(***************************************************************************)
EXTENDS OfflineCash, TLC

CONSTANTS alice, bob, carol, t1, t2, t3, t4

MCWallets == {alice, bob, carol}
MCValue == [t \in Tokens |-> IF t = t2 THEN 2 ELSE 1]
TokenSymmetry == Permutations({t1, t3})
Symmetry == Permutations(MCWallets) \cup TokenSymmetry
=============================================================================
