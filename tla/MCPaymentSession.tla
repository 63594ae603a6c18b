-------------------------- MODULE MCPaymentSession --------------------------
(***************************************************************************)
(* Three wallets, of which w3 has no private key in the keystore, and five *)
(* tokens: enough for change that has to be broken, change that cannot be  *)
(* exact, and a price only several payments together reach.                *)
(***************************************************************************)
EXTENDS PaymentSession, TLC

CONSTANTS w1, w2, w3, t1, t2, t3, t4, t5

MCWallets == {w1, w2, w3}
MCTokens == {t1, t2, t3, t4, t5}
MCSigners == {w1, w2}
MCPrices == {-1, 0, 1, 4, 5, 9}

\* w1 holds 2 and 7; w2 holds 1, 1 and 3.
MCValue == t1 :> 2 @@ t2 :> 7 @@ t3 :> 1 @@ t4 :> 1 @@ t5 :> 3
MCIssuedTo == t1 :> w1 @@ t2 :> w1 @@ t3 :> w2 @@ t4 :> w2 @@ t5 :> w2
=============================================================================
