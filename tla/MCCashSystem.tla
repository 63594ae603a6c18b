---------------------------- MODULE MCCashSystem ----------------------------
(***************************************************************************)
(* Three wallets that all can sign, two tokens of worth 1 and 2 issued to  *)
(* different wallets, and chains of up to two transfers of which one may   *)
(* be settled: a token can come back to the wallet it left, and be too     *)
(* long a way round for the engine.                                        *)
(***************************************************************************)
EXTENDS CashSystem, TLC

CONSTANTS w1, w2, w3, t1, t2, s1, s2

MCWallets == {w1, w2, w3}
MCTokens == {t1, t2}
MCSessions == {s1, s2}
MCValue == t1 :> 1 @@ t2 :> 2
MCIssuedTo == t1 :> w1 @@ t2 :> w2
MCExpiry == t1 :> 1 @@ t2 :> 2
=============================================================================
