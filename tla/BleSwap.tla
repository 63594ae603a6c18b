------------------------------ MODULE BleSwap ------------------------------
(***************************************************************************)
(* The dpc_poc package put together: BLEChannel.execute_transfer and       *)
(* execute_swap (dpc_poc/dpc/ble_sim.py) between wallets, and deposits at  *)
(* the IssuerLedger (dpc_poc/dpc/reconciliation.py).                       *)
(*                                                                         *)
(* A call of the channel is a list of legs, each a transfer of one token:  *)
(* one for execute_transfer, up to two for execute_swap.  A leg is two     *)
(* steps, send_token and receive_token; an exception ends the call where   *)
(* it is.  Calls are synchronous, so one runs at a time, but time goes on. *)
(***************************************************************************)
EXTENDS PocWallet

CONSTANTS Amounts,      \* the amounts transferred and owed
          MaxParcels,   \* bounds of the model: transfers made, tokens that come
          MaxDeposited, \* to the ledger, and the clock
          MaxTime

\* An amount is a float in the code, and whole units here.
ASSUME BleSwapAssumption ==
  /\ {MaxParcels, MaxDeposited, MaxTime} \subseteq Nat
  /\ Amounts \subseteq Int

VARIABLES now,         \* time.time()
          issuedAt,    \* issued_at of the tokens issued so far
          wallet,      \* wallet[w]: its state
          call,        \* the running call of the channel
          parcels,     \* every parcel made
          deposits,    \* what deposit_to_issuer has returned, and to whom
          registry,    \* IssuerLedger.registry
          conflicts,   \* the refused entries of submission_log, with the keys
                       \* that suspicious_keys has because of them
          kept         \* history variable: who submitted which token
                       \* without depositing it

walletVars == <<now, issuedAt, wallet, parcels>>
ledgerVars == <<registry, conflicts>>
vars == <<walletVars, call, deposits, ledgerVars, kept>>

Idle == [phase |-> "idle"]

Init ==
  /\ now = 0
  /\ issuedAt = [t \in {} |-> 0]
  /\ wallet = [w \in Wallets |-> EmptyState]
  /\ call = Idle
  /\ parcels = {} /\ deposits = {}
  /\ registry = [t \in {} |-> Issuer]
  /\ conflicts = {} /\ kept = {}

\* Wallet.issue_token by the issuer, handed over as tests/helpers.py does.
Mint(w, t) ==
  /\ call = Idle
  /\ t \notin DOMAIN issuedAt
  /\ issuedAt' = [u \in DOMAIN issuedAt \cup {t} |-> IF u = t THEN now ELSE issuedAt[u]]
  /\ wallet' = [wallet EXCEPT ![w].unspent = Put(@, MintedCopy(t, w))]
  /\ UNCHANGED <<now, parcels, call, deposits, ledgerVars, kept>>
-----------------------------------------------------------------------------
(* The channel *)

Leg(from, to, t, amount) == [from |-> from, to |-> to, token |-> t, amount |-> amount]

Started(kind, owed, legs) ==
  [phase |-> "send", kind |-> kind, payer |-> legs[1].from, payee |-> legs[1].to, owed |-> owed,
   legs |-> legs, parcel |-> {}, before |-> [w \in Wallets |-> Ids(wallet[w].unspent)]]

BeginTransfer(w, recipient, t, amount) ==
  /\ call = Idle
  /\ Cardinality(parcels) < MaxParcels
  /\ call' = Started("transfer", amount, <<Leg(w, recipient, t, amount)>>)
  /\ UNCHANGED <<walletVars, deposits, ledgerVars, kept>>

\* execute_swap up to its first transfer.
BeginSwap(payer, payee, t, owed) ==
  LET change == Value[t] - owed
      pay == Leg(payer, payee, t, Value[t])
  IN /\ call = Idle
     /\ Cardinality(parcels) + 1 < MaxParcels
     /\ t \in Ids(wallet[payer].unspent)
     /\ \/ /\ change = 0
           /\ call' = Started("swap", owed, <<pay>>)
        \/ /\ change > 0
           /\ \E c \in ChangeTokens(wallet[payee], change) :
                call' = Started("swap", owed, <<pay, Leg(payee, payer, c.id, Value[c.id])>>)
     /\ UNCHANGED <<walletVars, deposits, ledgerVars, kept>>

\* send_token of the next leg: a parcel is made, or the call raises.
Send ==
  /\ call.phase = "send" /\ call.legs # <<>>
  /\ LET leg == call.legs[1]
         w == leg.from
         nonce == Cardinality({p \in parcels : p.copy.id = leg.token})
     IN \/ \E c \in wallet[w].unspent :
             LET token == LifecycleReset(c, w)
             IN /\ c.id = leg.token
                /\ \/ /\ CanBuild(token, w, leg.amount, now - issuedAt[c.id])
                      /\ LET parcel == [copy |-> Forwarded(token, leg.to), nonce |-> nonce]
                         IN /\ parcels' = parcels \cup {parcel}
                            /\ call' = [call EXCEPT !.phase = "receive", !.parcel = {parcel}]
                      /\ wallet' = [wallet EXCEPT ![w] = Sent(@, c, nonce)]
                   \/ /\ ~CanBuild(token, w, leg.amount, now - issuedAt[c.id])
                      /\ wallet' = [wallet EXCEPT ![w] = Unsent(@, c, w)]
                      /\ call' = [call EXCEPT !.phase = "raised"]
                      /\ UNCHANGED parcels
        \/ /\ leg.token \notin Ids(wallet[w].unspent)
           /\ call' = [call EXCEPT !.phase = "raised"]
           /\ UNCHANGED <<wallet, parcels>>
  /\ UNCHANGED <<now, issuedAt, deposits, ledgerVars, kept>>

\* receive_token of the leg's parcel, or the call raises and nothing is put
\* back.
Receive ==
  /\ call.phase = "receive"
  /\ \E p \in call.parcel :
       LET w == call.legs[1].to
       IN \/ /\ Acceptable(wallet[w], w, p)
             /\ wallet' = [wallet EXCEPT ![w] = Taken(@, w, p)]
             /\ call' = [call EXCEPT !.phase = "send", !.legs = Tail(@), !.parcel = {}]
          \/ /\ ~Acceptable(wallet[w], w, p)
             /\ call' = [call EXCEPT !.phase = "raised"]
             /\ UNCHANGED wallet
  /\ UNCHANGED <<now, issuedAt, parcels, deposits, ledgerVars, kept>>

Completed == call.phase = "send" /\ call.legs = <<>>

\* The call returns to its caller, or its exception does.
Return ==
  /\ Completed \/ call.phase = "raised"
  /\ call' = Idle
  /\ UNCHANGED <<walletVars, deposits, ledgerVars, kept>>

\* receive_token called again with a parcel, for its recipient or another
\* wallet.
ReceiveAgain(w, p) ==
  /\ call = Idle
  /\ Acceptable(wallet[w], w, p)
  /\ wallet' = [wallet EXCEPT ![w] = Taken(@, w, p)]
  /\ UNCHANGED <<now, issuedAt, parcels, call, deposits, ledgerVars, kept>>
-----------------------------------------------------------------------------
(* The ledger *)

\* The model bounds how many tokens are deposited or submitted.
Room(t) ==
  Cardinality({t} \cup {d.copy.id : d \in deposits} \cup DOMAIN registry) <= MaxDeposited

\* deposit_to_issuer: the token leaves the wallet for good.
Deposit(w, c) ==
  /\ call = Idle /\ Room(c.id)
  /\ c \in wallet[w].unspent
  /\ wallet' = [wallet EXCEPT ![w].unspent = @ \ {c}]
  /\ deposits' = deposits \cup {[by |-> w, copy |-> c]}
  /\ UNCHANGED <<now, issuedAt, parcels, call, ledgerVars, kept>>

\* submit_token: registered for its first submitter; another one is flagged,
\* with the key the submitted copy came from.
SubmitToken(c, by) ==
  /\ registry' = IF c.id \in DOMAIN registry THEN registry
                 ELSE [u \in DOMAIN registry \cup {c.id} |-> IF u = c.id THEN by ELSE registry[u]]
  /\ conflicts' = IF c.id \notin DOMAIN registry \/ registry[c.id] = by THEN conflicts
                  ELSE conflicts \cup {[token |-> c.id,
                                        flagged |-> {by, c.history[Len(c.history) - 1]}]}

\* A deposited token is submitted, for the first time or again.
SubmitDeposit(d) ==
  /\ call = Idle
  /\ SubmitToken(d.copy, d.by)
  /\ UNCHANGED <<walletVars, call, deposits, kept>>

\* A token is submitted and kept, as tests/t8_double_spend.py does.
SubmitKept(w, c) ==
  /\ call = Idle /\ Room(c.id)
  /\ c \in wallet[w].unspent
  /\ SubmitToken(c, w)
  /\ kept' = kept \cup {[by |-> w, token |-> c.id]}
  /\ UNCHANGED <<walletVars, call, deposits>>

PassTime ==
  /\ now < MaxTime
  /\ now' = now + 1
  /\ UNCHANGED <<issuedAt, wallet, parcels, call, deposits, ledgerVars, kept>>

Next ==
  \/ \E w \in Wallets, t \in Tokens : Mint(w, t)
  \/ \E w, v \in Wallets, t \in DOMAIN issuedAt, amount \in Amounts :
       w # v /\ (BeginTransfer(w, v, t, amount) \/ BeginSwap(w, v, t, amount))
  \/ Send \/ Receive \/ Return
  \/ \E w \in Wallets, p \in parcels : ReceiveAgain(w, p)
  \/ \E w \in Wallets : \E c \in wallet[w].unspent : Deposit(w, c) \/ SubmitKept(w, c)
  \/ \E d \in deposits : SubmitDeposit(d)
  \/ PassTime

Spec == Init /\ [][Next]_vars
-----------------------------------------------------------------------------
(* Properties *)

Copy == [id : DOMAIN issuedAt, owner : Wallets, hops : 0..MaxHops, history : Seq(Wallets \cup {Issuer})]

\* A wallet has at most one copy of a token, which names it as the owner and
\* as the last of the keys that had it.
TypeOK ==
  /\ DOMAIN issuedAt \subseteq Tokens
  /\ \A w \in Wallets : \A c \in wallet[w].unspent :
       /\ c \in Copy /\ c.owner = w /\ c.history[Len(c.history)] = w
       /\ \A d \in wallet[w].unspent : c.id = d.id => c = d
  /\ \A p \in parcels : p.copy \in Copy
  /\ DOMAIN registry \subseteq DOMAIN issuedAt
  /\ call = Idle \/ call.phase \in {"send", "receive", "raised"}

\* Replay protection ("Replay detected", dpc_poc/dpc/wallet.py:90): a token
\* has one wallet that can spend it or would take in a parcel of it, and none
\* once it is deposited.
Takers(t) ==
  {w \in Wallets :
     \/ t \in Ids(wallet[w].unspent)
     \/ \E p \in parcels : p.copy.id = t /\ p.copy.owner = w /\ <<t, p.nonce>> \notin wallet[w].nonces}

OneTaker ==
  \A t \in Tokens :
    /\ \A v, w \in Takers(t) : v = w
    /\ t \in {d.copy.id : d \in deposits} => Takers(t) = {}

\* To an observer of the wallets between two calls, every call of the channel,
\* wherever it raises, is one step of Exchange or none
\* (dpc_poc/dpc/ble_sim.py:70-124): tokens swapped for the smallest that is
\* enough, one transferred, or one lost on its way until its parcel is
\* received.
Holders(t) ==
  {w \in Wallets : t \in IF call = Idle THEN Ids(wallet[w].unspent) ELSE call.before[w]}

Expecting(t) ==
  IF call # Idle /\ Holders(t) # {} THEN {}
  ELSE {p.copy.owner : p \in {q \in parcels : q.copy.id = t /\ <<t, q.nonce>> \notin wallet[q.copy.owner].nonces}}

ChannelAsExchange ==
  INSTANCE Exchange WITH place <-
    [t \in Tokens |-> ({"with"} \X Holders(t)) \cup ({"due"} \X Expecting(t))
                        \cup ({"deposited"} \X {d.by : d \in {e \in deposits : e.copy.id = t}})]

ImplementsExchange == ChannelAsExchange!Spec

\* The payer of a swap that completes has paid no more than it owed.  Of a
\* swap that raises this says nothing: see SwapAtomic.  It may have paid less
\* than the amount that is printed at the end (dpc_poc/dpc/ble_sim.py:124), for
\* the change may be worth more than the excess.
BalanceBefore(w) == MapThenSumSet(LAMBDA t : Value[t], call.before[w])

PayerNeverOverpays ==
  Completed /\ call.kind = "swap" =>
    Balance(wallet[call.payer].unspent) >= BalanceBefore(call.payer) - call.owed

\* prompt.md:773, "Reset hop count to 0 regardless of position": the hop count
\* of a token is the number of its transfers since it last came to a wallet
\* that had had it before, or since it was handed out, and no more than
\* max_offline_hops.
Returned(h) == {1, 2} \cup {k \in DOMAIN h : \E j \in 1..(k-1) : h[j] = h[k]}

HopsCountSinceReturn ==
  \A w \in Wallets : \A c \in wallet[w].unspent :
    /\ c.hops = Len(c.history) - Max(Returned(c.history) \cap DOMAIN c.history)
    /\ c.hops <= MaxHops

\* The ledger refuses a submission, and flags keys for it, only when the
\* token's registered owner submitted it without depositing it: a deposit
\* that is submitted again, or a parcel received again, never causes that.
ConflictOnlyAfterKept ==
  \A e \in conflicts : [by |-> registry[e.token], token |-> e.token] \in kept

\* "Atomicity ensured by same BLE session" (dpc_poc/dpc/ble_sim.py:112): a
\* swap that raises leaves both wallets the tokens they had.
SwapAtomic ==
  call.phase = "raised" /\ call.kind = "swap" =>
    \A w \in Wallets : Ids(wallet[w].unspent) = call.before[w]
=============================================================================
