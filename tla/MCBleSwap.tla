----------------------------- MODULE MCBleSwap -----------------------------
(***************************************************************************)
(* Wallets of equal standing, and tokens of which some can change others   *)
(* exactly and some only with a surplus, so that a wallet may have the     *)
(* choice, and more tokens together than a wallet may hold.                *)
(***************************************************************************)
EXTENDS BleSwap, TLC

CONSTANTS alice, bob, carol, t1, t2, t3, t4

MCValue == [t \in Tokens |-> CASE t = t1 -> 1 [] t \in {t2, t3} -> 2 [] t = t4 -> 4]

Symmetry == Permutations(Wallets) \cup Permutations({t2, t3})

\* The wallets that have had a part in anything so far.
Involved ==
  {w \in Wallets : wallet[w] # EmptyState}
    \cup {p.copy.owner : p \in parcels}
    \cup {d.by : d \in deposits}
    \cup (IF call = Idle THEN {} ELSE {call.payer, call.payee})

\* Two wallets with all tokens, or all wallets with one token, which may then
\* go on to a third wallet after its return.
Explored == Cardinality(Involved) <= 2 \/ Cardinality(DOMAIN issuedAt) = 1
=============================================================================
