----------------------------- MODULE PocWallet -----------------------------
(***************************************************************************)
(* The wallet of the dpc_poc package (dpc_poc/dpc/wallet.py,               *)
(* dpc_poc/dpc/transfer.py) as operators on its state.  A copy of a token  *)
(* carries its owner, its hop count and the keys that had it.  A parcel is *)
(* the record and the copy a transfer makes; its nonce is a number no      *)
(* other parcel of the token has.  Undamaged parcels pass the signature    *)
(* and hash checks of receive_token.                                       *)
(***************************************************************************)
EXTENDS Integers, Sequences, FiniteSets, FiniteSetsExt

CONSTANTS Wallets,      \* the wallets, each named by its public key
          Issuer,       \* the issuer's key
          Tokens,       \* the token ids
          Value,        \* the denomination of each token
          TimeToLive,   \* token_ttl_seconds
          MaxHops,      \* max_offline_hops
          MaxBalance,   \* max_wallet_balance_etb
          MaxTx         \* max_transaction_value_etb

ASSUME PocWalletAssumption ==
  /\ Issuer \notin Wallets
  /\ Value \in [Tokens -> Nat]
  /\ {TimeToLive, MaxHops, MaxBalance, MaxTx} \subseteq Nat

Ids(S) == {c.id : c \in S}
Balance(S) == MapThenSumSet(LAMBDA c : Value[c.id], S)

\* WalletState with its unspent_tokens and spent_nonces.
EmptyState == [unspent |-> {}, nonces |-> {}]

\* A token as tests/helpers.py hands it from its issuer to its first owner.
MintedCopy(t, w) == [id |-> t, owner |-> w, hops |-> 0, history |-> <<Issuer, w>>]

\* dict[token_id] = token
Put(S, c) == {d \in S : d.id # c.id} \cup {c}

\* Mutant of LifecycleReset: only the first owner is looked for.
LifecycleResetAtRoot(c, w) == IF w = c.history[2] THEN [c EXCEPT !.hops = 0] ELSE c

\* _check_lifecycle_reset: the wallet had the token before.
LifecycleReset(c, w) ==
  IF w \in {c.history[k] : k \in 1..(Len(c.history) - 1)} THEN [c EXCEPT !.hops = 0] ELSE c

\* Mutant of ChangeTokens: a token one unit short will do.
ChangeTokensShort(state, amount) ==
  LET enough == {c \in state.unspent : Value[c.id] >= amount - 1}
  IN {c \in enough : \A d \in enough : Value[c.id] <= Value[d.id]}

\* Mutant of ChangeTokens: any token that is enough will do.
ChangeTokensAnyEnough(state, amount) == {c \in state.unspent : Value[c.id] >= amount}

\* The tokens get_token_for_swap may return: the smallest one that is worth
\* the amount.
ChangeTokens(state, amount) ==
  LET enough == {c \in state.unspent : Value[c.id] >= amount}
  IN {c \in enough : \A d \in enough : Value[c.id] <= Value[d.id]}

\* The checks of build_transfer.
CanBuild(c, w, amount, age) ==
  /\ c.owner = w
  /\ c.hops < MaxHops
  /\ amount <= MaxTx /\ amount <= Value[c.id]
  /\ age <= TimeToLive

\* Mutant of Forwarded: the recipient is not added to the history.
ForwardedUnrecorded(c, recipient) == [c EXCEPT !.owner = recipient, !.hops = @ + 1]

\* The copy build_transfer makes for the recipient.
Forwarded(c, recipient) ==
  [c EXCEPT !.owner = recipient, !.hops = @ + 1, !.history = Append(@, recipient)]

\* The wallet's state after send_token: the token is gone and its nonce
\* known, or, where build_transfer raised, the token reset.
Sent(state, c, nonce) ==
  [unspent |-> state.unspent \ {c}, nonces |-> state.nonces \cup {<<c.id, nonce>>}]

Unsent(state, c, w) == [state EXCEPT !.unspent = Put(@, LifecycleReset(c, w))]

\* Mutant of Acceptable: nonces are not looked up.
AcceptableAgain(state, w, p) ==
  /\ Balance(state.unspent) + Value[p.copy.id] <= MaxBalance
  /\ p.copy.owner = w

\* The checks of receive_token.
Acceptable(state, w, p) ==
  /\ <<p.copy.id, p.nonce>> \notin state.nonces
  /\ Balance(state.unspent) + Value[p.copy.id] <= MaxBalance
  /\ p.copy.owner = w

\* The wallet's state after receive_token took the parcel in.
Taken(state, w, p) ==
  [unspent |-> Put(state.unspent, LifecycleReset(p.copy, w)),
   nonces |-> state.nonces \cup {<<p.copy.id, p.nonce>>}]
=============================================================================
