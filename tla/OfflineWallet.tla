--------------------------- MODULE OfflineWallet ---------------------------
(***************************************************************************)
(* The offline wallet (wallet/offline_wallet.py) and the bundles it        *)
(* exchanges (protocol/network_simulator.py).  A copy of a token is        *)
(* [id, owner, nonce, hops, chain], where chain is the history that        *)
(* last_transfer_id and last_transfer_hash stand for: the hash of each     *)
(* transfer covers the one before.  A transfer is                          *)
(* [token, from, to, at, nonce, hop, parent, id], with the history before  *)
(* and after it as parent and id.  A bundle is a sequence of parcels, each *)
(* a transfer with the copy it moves.                                      *)
(***************************************************************************)
EXTENDS Issuance

CONSTANTS MaxBalance,   \* PolicyConfig.MAX_BALANCE
          MaxTxValue    \* PolicyConfig.MAX_TX_VALUE

ASSUME OfflineWalletAssumption == MaxBalance \in Nat /\ MaxTxValue \in Nat

VARIABLES utr,            \* utr[w]: the copies wallet w can spend
          str,            \* str[w]: the copies wallet w has spent, as they were
          syncRequired,   \* sync_required of each wallet
          processed,      \* processed_transfer_ids of each wallet
          sent            \* the bundles created so far

walletVars == <<utr, str, syncRequired, processed, sent>>

WalletInit ==
  /\ utr = [w \in Wallets |-> {}]
  /\ str = [w \in Wallets |-> {}]
  /\ syncRequired = [w \in Wallets |-> {}]
  /\ processed = [w \in Wallets |-> {}]
  /\ sent = {}

Ids(reg) == {c.id : c \in reg}
Balance(reg) == Worth(Value, Ids(reg))

\* Mutant of Put: the copies that were there stay.
PutBeside(reg, S) == reg \cup S

\* dict[c.id] = c, for the copies of S.
Put(reg, S) == {d \in reg : d.id \notin Ids(S)} \cup S

MintedCopy(t) == [id |-> t, owner |-> minted[t].owner, nonce |-> 0, hops |-> 0, chain |-> <<>>]

\* Wallet.receive_token, with a token as the issuer minted it: turned down
\* when the balance would exceed the cap.  That it is called once for each
\* minted token is how its callers use it; the method itself would take the
\* minted copy in again, also after the wallet has spent it.
ReceiveToken(t) ==
  LET w == minted[t].owner
  IN /\ t \in vault
     /\ Balance(utr[w]) + Value[t] <= MaxBalance
     /\ utr' = [utr EXCEPT ![w] = Put(@, {MintedCopy(t)})]
     /\ vault' = vault \ {t}
     /\ UNCHANGED <<str, syncRequired, processed, sent>>
-----------------------------------------------------------------------------
(* Paying *)

\* Mutant of Spendable: one hop more than the payee takes.
SpendableToTheLast(w) == {c \in utr[w] : ~ExpiredAt(c.id, now) /\ c.nonce <= MaxHops}

\* Mutant of Spendable: the expiry is not looked at.
SpendableExpired(w) == {c \in utr[w] : c.nonce < MaxHops}

\* The copies _is_token_spendable lets pass.
Spendable(w) == {c \in utr[w] : ~ExpiredAt(c.id, now) /\ c.nonce < MaxHops}

\* What identifies a transfer among those that share a parent: the fields its
\* hash covers.
Hop(c, receiver) == [token |-> c.id, from |-> c.owner, to |-> receiver, at |-> now]

\* Mutant of Parcel: the nonce of the copy is not counted up.
ParcelOfSameNonce(c, receiver) ==
  [copy |-> [c EXCEPT !.owner = receiver],
   transfer |-> [token |-> c.id, from |-> c.owner, to |-> receiver, at |-> now,
                 nonce |-> c.nonce + 1, hop |-> c.hops + 1,
                 parent |-> c.chain, id |-> Append(c.chain, Hop(c, receiver))]]

\* The transfer of copy c to the receiver, with the copy it hands over.
Parcel(c, receiver) ==
  [copy |-> [c EXCEPT !.owner = receiver, !.nonce = @ + 1],
   transfer |-> [token |-> c.id, from |-> c.owner, to |-> receiver, at |-> now,
                 nonce |-> c.nonce + 1, hop |-> c.hops + 1,
                 parent |-> c.chain, id |-> Append(c.chain, Hop(c, receiver))]]

\* The order of the loop: ascending values, ties in any order.
InOrder(S) ==
  {seq \in SetToSeqs(S) : \A i, j \in DOMAIN seq : i < j => Value[seq[i].id] <= Value[seq[j].id]}

\* Mutant of Unspendable: a token at its last hop is noted.
UnspendableNext(w) == {c.id : c \in {d \in utr[w] : ExpiredAt(d.id, now) \/ d.nonce + 1 >= MaxHops}}

\* The tokens _is_token_spendable turns down and notes in sync_required.
Unspendable(w) == Ids(utr[w]) \ Ids(Spendable(w))

\* Wallet.create_payment: spendable tokens in ascending order of value up to
\* the amount are spent, each with its transfer.  For an amount not positive or
\* above the cap it raises at once, and changes nothing.
CreatePayment(w, receiver, amount) ==
  /\ amount > 0 /\ amount <= MaxTxValue
  /\ \E T \in AscendingCover(Value, Ids(Spendable(w)), amount) :
       LET paid == {c \in utr[w] : c.id \in T}
       IN /\ utr' = [utr EXCEPT ![w] = @ \ paid]
          /\ str' = [str EXCEPT ![w] = Put(@, paid)]
          /\ \E seq \in InOrder(paid) :
               sent' = sent \cup {[i \in DOMAIN seq |-> Parcel(seq[i], receiver)]}
  /\ syncRequired' = [syncRequired EXCEPT ![w] = @ \cup Unspendable(w)]
  /\ UNCHANGED processed

\* create_payment when the spendable tokens do not reach the amount: it
\* raises, which leaves a trace only where it notes more of the others.
CreatePaymentRaises(w, amount) ==
  /\ amount > 0 /\ amount <= MaxTxValue
  /\ ~(Unspendable(w) \subseteq syncRequired[w])
  /\ Balance(Spendable(w)) < amount
  /\ syncRequired' = [syncRequired EXCEPT ![w] = @ \cup Unspendable(w)]
  /\ UNCHANGED <<utr, str, processed, sent>>
-----------------------------------------------------------------------------
(* Being paid *)

\* Mutant of Verifies: the ids processed are not looked up.
VerifiesAgain(w, seen, p) ==
  /\ p.transfer.to = w
  /\ p.transfer.hop <= MaxHops /\ p.transfer.nonce <= MaxHops
  /\ p.transfer.parent = p.copy.chain
  /\ ~TooOld(p.copy.id) /\ ~ExpiredAt(p.copy.id, now)

\* verify_transfer_with_reason of wallet w, which has processed the ids seen.
Verifies(w, seen, p) ==
  /\ p.transfer.id \notin seen
  /\ p.transfer.to = w
  /\ p.transfer.hop <= MaxHops /\ p.transfer.nonce <= MaxHops
  /\ p.transfer.parent = p.copy.chain
  /\ ~TooOld(p.copy.id) /\ ~ExpiredAt(p.copy.id, now)

\* The copy wallet w keeps of the one it got.
Received(w, p) == [p.copy EXCEPT !.owner = w, !.hops = @ + 1, !.chain = p.transfer.id]

\* Mutant of ApplyTransfer: the cap is compared with the value alone.
ApplyTransferOverCap(w, held, p) ==
  IF Verifies(w, held.seen, p) /\ Value[p.copy.id] <= MaxBalance
  THEN [reg |-> Put(held.reg, {Received(w, p)}),
        seen |-> held.seen \cup {p.transfer.id}]
  ELSE held

\* apply_transfer_with_reason: what the wallet holds after one transfer of
\* the bundle.
ApplyTransfer(w, held, p) ==
  IF Verifies(w, held.seen, p) /\ Balance(held.reg) + Value[p.copy.id] <= MaxBalance
  THEN [reg |-> Put(held.reg, {Received(w, p)}),
        seen |-> held.seen \cup {p.transfer.id}]
  ELSE held

\* receive_bundle, receive_bundle_with_reasons: the transfers one after the
\* other, each taken in or not.  Where none verifies nothing changes.
ReceiveBundle(w, bundle) ==
  LET held == FoldLeft(LAMBDA h, p : ApplyTransfer(w, h, p),
                       [reg |-> utr[w], seen |-> processed[w]], bundle)
  IN /\ \E i \in DOMAIN bundle : Verifies(w, processed[w], bundle[i])
     /\ utr' = [utr EXCEPT ![w] = held.reg]
     /\ processed' = [processed EXCEPT ![w] = held.seen]
     /\ UNCHANGED <<str, syncRequired, sent>>
=============================================================================
