---------------------------- MODULE OfflineCash ----------------------------
(***************************************************************************)
(* The offline prototype put together, as main_demo.py and                 *)
(* tests/test_offline_cbdc_poc.py drive it: tokens are minted and loaded   *)
(* into wallets, wallets create payments, a bundle is received once, again *)
(* or never and uploaded by anyone who has it, and lost wallets are        *)
(* recovered.                                                              *)
(***************************************************************************)
EXTENDS OfflineWallet, ReconciliationServer, ProxySync

CONSTANTS Amounts,        \* the amounts paid
          Losable,        \* the wallets whose loss is reported
          MaxMessages,    \* bounds of the model: how many bundles and heartbeats
          MaxHeartbeats   \* are made, and how many of them are heartbeats

ASSUME OfflineCashAssumption ==
  Losable \subseteq Wallets /\ MaxMessages \in Nat /\ MaxHeartbeats \in Nat

vars == <<issuanceVars, walletVars, serverVars, syncVars>>

Init == IssuanceInit /\ WalletInit /\ ServerInit /\ SyncInit

Room == Cardinality(sent) + Cardinality(heartbeats) < MaxMessages

MintToken(owner, t) ==
  /\ Mint(owner, {t})
  /\ UNCHANGED <<now, walletVars, serverVars, syncVars>>

LoadToken(t) ==
  /\ ReceiveToken(t)
  /\ UNCHANGED <<now, minted, serverVars, syncVars>>

Pay(w, receiver, amount) ==
  /\ Room
  /\ CreatePayment(w, receiver, amount)
  /\ UNCHANGED <<issuanceVars, serverVars, syncVars>>

PayInVain(w, amount) ==
  /\ CreatePaymentRaises(w, amount)
  /\ UNCHANGED <<issuanceVars, serverVars, syncVars>>

\* send_bundle to the receiver or to another wallet, for the first time or
\* again.
SendBundle(bundle, w) ==
  /\ ReceiveBundle(w, bundle)
  /\ UNCHANGED <<issuanceVars, serverVars, syncVars>>

Upload(bundle) ==
  /\ ProcessBundle(bundle)
  /\ UNCHANGED <<issuanceVars, walletVars, syncVars>>

ReportLoss(w) ==
  /\ RevokeWallet(w)
  /\ UNCHANGED <<issuanceVars, walletVars, syncVars>>

Recover(w, new) ==
  /\ Reissue(w, new)
  /\ UNCHANGED <<now, walletVars, syncVars>>

\* Mutant of Heartbeat: what the wallet has spent is listed as well.
HeartbeatOfSpent(w) ==
  /\ Room /\ Cardinality(heartbeats) < MaxHeartbeats
  /\ utr[w] \cup str[w] # {}
  /\ CreateHeartbeat(w, Ids(utr[w] \cup str[w]))
  /\ UNCHANGED <<issuanceVars, walletVars, serverVars>>

\* simulate_proxy_sync up to the relay: a heartbeat for all the wallet has.
\* For nothing it would renew nothing.
Heartbeat(w) ==
  /\ Room /\ Cardinality(heartbeats) < MaxHeartbeats
  /\ utr[w] # {}
  /\ CreateHeartbeat(w, Ids(utr[w]))
  /\ UNCHANGED <<issuanceVars, walletVars, serverVars>>

Relay(hb) ==
  /\ RelayHeartbeat(hb)
  /\ UNCHANGED <<issuanceVars, walletVars, serverVars>>

PassTime ==
  /\ Tick
  /\ UNCHANGED <<minted, vault, walletVars, serverVars, syncVars>>

Next ==
  \/ \E owner \in Wallets, t \in Tokens : MintToken(owner, t)
  \/ \E t \in Tokens : LoadToken(t)
  \/ \E w, receiver \in Wallets, amount \in Amounts : Pay(w, receiver, amount)
  \/ \E w \in Wallets, amount \in Amounts : PayInVain(w, amount)
  \/ \E bundle \in sent, w \in Wallets : SendBundle(bundle, w)
  \/ \E bundle \in sent : Upload(bundle)
  \/ \E w \in Losable : ReportLoss(w)
  \/ \E w \in Losable, new \in Wallets : Recover(w, new)
  \/ \E w \in Wallets : Heartbeat(w)
  \/ \E hb \in heartbeats : Relay(hb)
  \/ PassTime

Spec == Init /\ [][Next]_vars
-----------------------------------------------------------------------------
(* Properties *)

Times == 0..MaxTime
Hops == [token : Tokens, from : Wallets, to : Wallets, at : Times]
Parcels == UNION {{b[i] : i \in DOMAIN b} : b \in sent}

\* Dicts have at most one entry per key, copies and transfers the fields
\* their operations read.
TypeOK ==
  /\ now \in Times
  /\ Issued \subseteq Tokens
  /\ \A t \in Issued : minted[t] \in [owner : Wallets, at : Times]
  /\ vault \subseteq Issued
  /\ \A w \in Wallets : \A c \in utr[w] \cup str[w] :
       c \in [id : Issued, owner : Wallets, nonce : Nat, hops : Nat, chain : Seq(Hops)]
  /\ \A w \in Wallets : Cardinality(utr[w]) = Cardinality(Ids(utr[w]))
                        /\ Cardinality(str[w]) = Cardinality(Ids(str[w]))
  /\ \A w \in Wallets : syncRequired[w] \subseteq Issued
  /\ \A w \in Wallets : processed[w] \subseteq {p.transfer.id : p \in Parcels}
  /\ DOMAIN settled \subseteq Issued
  /\ \A t \in DOMAIN settled : settled[t].at \in Times
  /\ DOMAIN revoked \subseteq Losable
  /\ recovered \subseteq Losable \X Wallets
  /\ heartbeats \subseteq [wallet : Wallets, tokens : SUBSET Issued, at : Times]
  /\ lastSync \in [DOMAIN lastSync -> Times] /\ DOMAIN lastSync \subseteq Issued

\* README.md:91: a wallet never holds more than MAX_BALANCE, whichever
\* bundles it gets in whichever order.
BalanceCapped == \A w \in Wallets : Balance(utr[w]) <= MaxBalance

\* The two counters a token carries, one counted by its payers and one by its
\* payees, both count all the transfers it has made, and never more than
\* MAX_HOPS.  They count on when the token comes back to a wallet that had
\* it, although docs/scope_and_limitations.md:19 has "Token lifecycle reset on
\* return (T6)" as implemented in wallet/offline_wallet.py.
CountersAgree ==
  \A w \in Wallets : \A c \in utr[w] :
    /\ c.nonce = Len(c.chain) /\ c.hops = Len(c.chain)
    /\ Len(c.chain) <= MaxHops
    /\ c.owner = w

\* Replay protection: a token has one wallet that can spend it or would take
\* in a bundle of it, and that wallet knows its whole history.
Takers(t) ==
  {w \in Wallets :
     \/ t \in Ids(utr[w])
     \/ \E p \in Parcels : p.copy.id = t /\ p.transfer.to = w /\ p.transfer.id \notin processed[w]}

OneTaker ==
  \A t \in Tokens : /\ \A v, w \in Takers(t) : v = w
                    /\ t \in vault => Takers(t) = {}

\* Honest wallets make no fork: any two transfers of a token are on one
\* chain, and so is the one the server has settled.
OneChain ==
  /\ \A p, q \in Parcels : p.copy.id = q.copy.id =>
       \/ IsPrefix(p.transfer.id, q.transfer.id)
       \/ IsPrefix(q.transfer.id, p.transfer.id)
  /\ \A w \in Wallets : \A c \in utr[w], p \in Parcels :
       c.id = p.copy.id => IsPrefix(p.transfer.id, c.chain)
  /\ \A t \in DOMAIN settled : settled[t].transfer \in {p.transfer : p \in Parcels}

\* What a wallet marks as in need of a sync (wallet/offline_wallet.py:110) is
\* stuck there: no bundle of a replay, no later payment and no reissue lets
\* it be spent again, as nothing makes a token younger or takes hops off it.
MarkedIsStuck ==
  \A w \in Wallets : \A t \in syncRequired[w] :
    /\ t \in Ids(utr[w])
    /\ t \notin Ids(Spendable(w))

\* Payer and payee agree (_is_token_spendable and verify_transfer_with_reason
\* of wallet/offline_wallet.py): whatever is paid, the payee would take in at
\* once if its balance allows it, but for the fraction of a second in which
\* the payer still takes the token for alive and the payee no more.  (With a
\* clock of whole seconds there is no such fraction.)
FractionLeft(t) == TooOld(t) /\ now - minted[t].at < Lifetime + TicksPerSecond

PaidIsAcceptable ==
  [][\A bundle \in sent' \ sent : \A i \in DOMAIN bundle :
       LET p == bundle[i]
           payee == p.transfer.to
       IN Verifies(payee, processed[payee], p) \/ FractionLeft(p.copy.id)]_vars

\* Heartbeats renew a token only as long as its first owner has it
\* (issuer/reconciliation_server.py:135): once it gave the token away, a
\* heartbeat from before is of use for one lifetime, however late and often it
\* is relayed, and a lifetime after that is_token_expired holds.
GivenAwayAt(t) ==
  {p.transfer.at : p \in {q \in Parcels : q.copy.id = t /\ q.transfer.from = minted[t].owner}}

AliveTwoLifetimesAtMost ==
  \A t \in Issued :
    \/ GivenAwayAt(t) = {} \/ t \in Ids(utr[minted[t].owner])
    \/ \E left \in GivenAwayAt(t) : IsTokenExpired(t, left + 2 * Lifetime + TicksPerSecond)

\* A token that was issued again although another wallet has claimed it was
\* claimed in the second after the wait ended, which the expiry, cut to whole
\* seconds, leaves open.  Tokens minted for a wallet after it was revoked are
\* another matter.
PaidTwiceOnlyInTheLastSecond ==
  \A r \in reissues : \A t \in DOMAIN settled :
    LET claim == settled[t]
    IN /\ r.token = t
       /\ claim.transfer.to # minted[t].owner
       /\ minted[t].at <= r.since
       => /\ claim.at > r.since + Lifetime
          /\ claim.at < r.since + Lifetime + TicksPerSecond

\* README.md:71-75: what is issued again for a lost wallet is what it was
\* issued less what was claimed.
ClaimedOf(w) == {t \in DOMAIN settled : minted[t].owner = w /\ settled[t].transfer.to # w}
ReissuedOf(w) == {r \in reissues : minted[r.token].owner = w}

RecoveredWithinSafeBalance ==
  \A w \in Losable :
    MapThenSumSet(LAMBDA r : Value[r.token], ReissuedOf(w))
      <= Worth(Value, {t \in Issued : minted[t].owner = w}) - Worth(Value, ClaimedOf(w))
=============================================================================
