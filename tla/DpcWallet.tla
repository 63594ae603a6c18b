----------------------------- MODULE DpcWallet -----------------------------
(***************************************************************************)
(* The wallet of the dpc package (dpc/wallet.py, dpc/token_model.py): a    *)
(* register of receipts with the spent ids and the nonces seen, kept in    *)
(* memory and written to a file when the caller saves it.                  *)
(*                                                                         *)
(* A parcel is what send_token, swap_change and mint_token return: a token *)
(* and its chain of transfer records, [from, to, hop, draw].  `draw` tells *)
(* apart records that differ in their nonce only.  A nonce is then named   *)
(* by the parcel that ends with its record, and a receipt by its parcel.   *)
(***************************************************************************)
EXTENDS Integers, Sequences, FiniteSets, FiniteSetsExt

CONSTANTS Wallets,      \* the wallets, each named by its public key
          Issuer,       \* the issuer's public key
          Tokens,       \* the token ids secrets.token_hex returns
          TimeToLive,   \* TOKEN_TTL_SECONDS
          MaxHops,      \* MAX_OFFLINE_HOPS
          MaxBalance,   \* MAX_WALLET_BALANCE_SUBUNITS
          MaxTx,        \* MAX_SINGLE_TX_SUBUNITS
          MaxParcels    \* bound of the model: how many parcels are made

ASSUME DpcWalletAssumption ==
  /\ Issuer \notin Wallets
  /\ {TimeToLive, MaxHops, MaxBalance, MaxTx, MaxParcels} \subseteq Nat

VARIABLES now,      \* int(time.time())
          coins,    \* the signed fields of each token made: its value and the
                    \* time its life began (ttl_expiry less TOKEN_TTL_SECONDS)
          wallet,   \* wallet[w]: its UnspentTokenRegister
          files,    \* files[w]: the registers w has saved last, if any
          parcels   \* every parcel made

walletVars == <<wallet, files>>

\* TransferChain.tip.
Tip(p) == p.chain[Len(p.chain)]
Ids(S) == {p.id : p \in S}
Nonces(p) == {[p EXCEPT !.chain = SubSeq(@, 1, k)] : k \in 1..Len(p.chain)}
Balance(S) == MapThenSumSet(LAMBDA p : coins[p.id].value, S)

\* UnspentTokenRegister.__init__.
EmptyRegister == [entries |-> {}, spent |-> {}, seen |-> {}]

WalletInit ==
  /\ now = 0
  /\ coins = [t \in {} |-> 0]
  /\ wallet = [w \in Wallets |-> EmptyRegister]
  /\ files = [w \in Wallets |-> {}]
  /\ parcels = {}

Tick == now' = now + 1

\* Token.is_expired neither raises nor returns True.
Live(t) == coins[t].at <= now /\ now <= coins[t].at + TimeToLive
-----------------------------------------------------------------------------
(* Parcels *)

\* Mutant of ValidHops: a hop index has to be one more than the last.
ValidHopsNoReturn(chain) ==
  /\ chain[Len(chain)].hop <= MaxHops
  /\ chain[1].hop = 0
  /\ \A k \in 2..Len(chain) : chain[k].hop = chain[k-1].hop + 1

\* The checks of TransferChain.validate_integrity on an undamaged chain.
ValidHops(chain) ==
  /\ chain[Len(chain)].hop <= MaxHops
  /\ chain[1].hop = 0
  /\ \A k \in 2..Len(chain) : chain[k].hop \in {chain[k-1].hop + 1, 1}

\* The record send_token signs: the hop index starts again at 1 when the
\* receiver has sent the token before.
NextHop(chain, receiver) ==
  IF receiver \in {chain[k].from : k \in DOMAIN chain} THEN 1 ELSE chain[Len(chain)].hop + 1

\* A record with a nonce nobody has drawn before, at the end of a chain.
Signed(id, chain, sender, receiver, hop) ==
  LET others == {p \in parcels : /\ p.id = id /\ Len(p.chain) = Len(chain) + 1
                                 /\ SubSeq(p.chain, 1, Len(chain)) = chain
                                 /\ Tip(p).from = sender /\ Tip(p).to = receiver}
  IN [id |-> id, chain |-> Append(chain, [from |-> sender, to |-> receiver, hop |-> hop,
                                          draw |-> Cardinality(others)])]

Made(S) ==
  /\ Cardinality(parcels \cup S) <= MaxParcels
  /\ parcels' = parcels \cup S

\* Tokens with fresh ids, issued now; `value` maps the ids to their values.
NewCoins(value) ==
  /\ DOMAIN value \cap DOMAIN coins = {}
  /\ coins' = [t \in DOMAIN coins \cup DOMAIN value |->
                 IF t \in DOMAIN coins THEN coins[t] ELSE value[t]]
-----------------------------------------------------------------------------
(* The register *)

\* Mutant of Spend: the receipt stays where it is.
SpendBeside(reg, p) == [reg EXCEPT !.spent = @ \cup {p.id}]

\* UnspentTokenRegister.spend.
Spend(reg, p) == [reg EXCEPT !.entries = @ \ {p}, !.spent = @ \cup {p.id}]

\* Mutant of Restore: the receipt is not put back.
RestoreNothing(reg, p) == reg

\* UnspentTokenRegister.restore_unspent.
Restore(reg, p) == [reg EXCEPT !.entries = @ \cup {p}, !.spent = @ \ {p.id}]

\* Mutant of Unseen: a token the wallet has spent may come back with any
\* chain.
UnseenUnlessSpent(reg, p) ==
  /\ p.id \notin Ids(reg.entries)
  /\ p.id \notin reg.spent => Nonces(p) \cap reg.seen = {}

\* The replay checks of add_receipt: the nonces of the chain are new to the
\* wallet, or the last one for a token it has spent.
Unseen(reg, p) ==
  /\ p.id \notin Ids(reg.entries)
  /\ p.id \in reg.spent => p \notin reg.seen
  /\ p.id \notin reg.spent => Nonces(p) \cap reg.seen = {}

\* DPCWallet.receive_token with UnspentTokenRegister.add_receipt.
ReceiveToken(w, p) ==
  /\ Live(p.id)
  /\ ValidHops(p.chain)
  /\ Tip(p).to = w
  /\ Unseen(wallet[w], p)
  /\ Balance(wallet[w].entries) + coins[p.id].value <= MaxBalance
  /\ wallet' = [wallet EXCEPT ![w] = [entries |-> @.entries \cup {p},
                                      spent |-> @.spent \ {p.id},
                                      seen |-> @.seen \cup Nonces(p)]]
  /\ UNCHANGED <<now, coins, files, parcels>>

\* What send_token checks once it has marked the receipt spent.
CanSend(p, receiver) ==
  /\ Live(p.id)
  /\ coins[p.id].value <= MaxTx
  /\ ValidHops(p.chain)
  /\ NextHop(p.chain, receiver) <= MaxHops

\* DPCWallet.send_token: the new parcel, or the receipt put back.
SendToken(w, p, receiver) ==
  /\ p \in wallet[w].entries
  /\ \/ /\ CanSend(p, receiver)
        /\ Made({Signed(p.id, p.chain, w, receiver, NextHop(p.chain, receiver))})
        /\ wallet' = [wallet EXCEPT ![w] = Spend(@, p)]
     \/ /\ ~CanSend(p, receiver)
        /\ wallet' = [wallet EXCEPT ![w] = Restore(Spend(@, p), p)]
        /\ UNCHANGED parcels
  /\ UNCHANGED <<now, coins, files>>

\* What swap_change checks; it does not look at the expiry.
CanSplit(p, amount) ==
  /\ 0 < amount /\ amount < coins[p.id].value
  /\ amount <= MaxTx /\ coins[p.id].value - amount <= MaxTx

\* DPCWallet.swap_change: two tokens of the wallet's own making with the
\* expiry of the one they replace, or the receipt put back.
SwapChange(w, p, amount, receiver) ==
  /\ p \in wallet[w].entries
  /\ \/ /\ CanSplit(p, amount)
        /\ \E t, u \in Tokens :
             /\ t # u
             /\ NewCoins([i \in {t, u} |-> [coins[p.id] EXCEPT
                                              !.value = IF i = t THEN amount ELSE @ - amount]])
             /\ Made({Signed(t, <<>>, w, receiver, 0), Signed(u, <<>>, w, w, 0)})
        /\ wallet' = [wallet EXCEPT ![w] = Spend(@, p)]
     \/ /\ ~CanSplit(p, amount)
        /\ wallet' = [wallet EXCEPT ![w] = Restore(Spend(@, p), p)]
        /\ UNCHANGED <<coins, parcels>>
  /\ UNCHANGED <<now, files>>

\* UnspentTokenRegister.save, and load into a process started anew.
Save(w) ==
  /\ files' = [files EXCEPT ![w] = {wallet[w]}]
  /\ UNCHANGED <<now, coins, wallet, parcels>>

Restart(w) ==
  /\ \E saved \in files[w] : wallet' = [wallet EXCEPT ![w] = saved]
  /\ UNCHANGED <<now, coins, files, parcels>>
=============================================================================
