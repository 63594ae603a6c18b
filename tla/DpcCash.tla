------------------------------ MODULE DpcCash ------------------------------
(***************************************************************************)
(* The dpc package put together, as dpc/run_tests.py drives it: the ledger *)
(* mints tokens, wallets pass them on, split them, save and reload their   *)
(* registers, and parcels are received once, again or never and claimed    *)
(* from the ledger, singly or in batches.                                  *)
(***************************************************************************)
EXTENDS DpcLedger

CONSTANTS Amounts,       \* the amounts minted
          Splits,        \* the amounts split off
          Restartable,   \* what may be restarted from a file: wallets, and the
                         \* Issuer for the ledger
          MaxTime        \* bound of the model

ASSUME DpcCashAssumption ==
  /\ Restartable \subseteq Wallets \cup {Issuer}
  /\ MaxTime \in Nat

VARIABLES restarted,  \* history variables: what has been restarted so far,
          awarded     \* and which claimers each token has been settled for

historyVars == <<restarted, awarded>>
vars == <<now, coins, wallet, files, parcels, ledger, ledgerFile, historyVars>>

Init == WalletInit /\ LedgerInit /\ restarted = {} /\ awarded = {}

\* A wallet's own claims: of what it can spend, or of a parcel for it that it
\* has not received (tests T5 and T8).
ClaimsOf(w) ==
  {[by |-> w, parcel |-> p] : p \in wallet[w].entries
                                    \cup {q \in parcels : Tip(q).to = w /\ q \notin wallet[w].seen}}
Claims == UNION {ClaimsOf(w) : w \in Wallets}

Issue == \E w \in Wallets, amount \in Amounts : MintToken(w, amount) /\ UNCHANGED historyVars

Receive ==
  /\ \E w \in Wallets, p \in parcels : ReceiveToken(w, p)
  /\ UNCHANGED <<ledgerVars, historyVars>>

Pay ==
  /\ \E w, receiver \in Wallets : \E p \in wallet[w].entries : SendToken(w, p, receiver)
  /\ UNCHANGED <<ledgerVars, historyVars>>

Split ==
  /\ \E w, receiver \in Wallets, amount \in Splits : \E p \in wallet[w].entries :
       SwapChange(w, p, amount, receiver)
  /\ UNCHANGED <<ledgerVars, historyVars>>

\* Whom the books have each of their tokens settled for.
Awards(books) == {[id |-> t, by |-> books.settled[t].by] : t \in DOMAIN books.settled}

Claim ==
  /\ \E claim \in Claims : SettleToken(claim)
  /\ awarded' = awarded \cup Awards(ledger')
  /\ UNCHANGED restarted

Upload ==
  /\ \E first, second \in Claims : first # second /\ ProxySync(<<first, second>>)
  /\ awarded' = awarded \cup Awards(ledger')
  /\ UNCHANGED restarted

\* Bound of the model: each file is written once.
SaveWallet ==
  /\ \E w \in Restartable \ {Issuer} : files[w] = {} /\ Save(w)
  /\ UNCHANGED <<ledgerVars, historyVars>>

RestartWallet ==
  /\ \E w \in Restartable \ {Issuer} : Restart(w) /\ restarted' = restarted \cup {w}
  /\ UNCHANGED <<ledgerVars, awarded>>

SaveBooks == Issuer \in Restartable /\ ledgerFile = {} /\ SaveLedger /\ UNCHANGED historyVars

RestartBooks ==
  /\ Issuer \in Restartable /\ RestartLedger
  /\ restarted' = restarted \cup {Issuer}
  /\ UNCHANGED awarded

PassTime ==
  /\ now < MaxTime
  /\ Tick
  /\ UNCHANGED <<coins, walletVars, parcels, ledgerVars, historyVars>>

Next ==
  \/ Issue \/ Receive \/ Pay \/ Split \/ Claim \/ Upload
  \/ SaveWallet \/ RestartWallet \/ SaveBooks \/ RestartBooks \/ PassTime

Spec == Init /\ [][Next]_vars
-----------------------------------------------------------------------------
(* Properties *)

Record == [from : Wallets \cup {Issuer}, to : Wallets, hop : 0..MaxHops, draw : Nat]
Parcel == [id : Tokens, chain : Seq(Record)]
RegisterOK(reg) ==
  /\ reg.entries \subseteq parcels
  /\ Cardinality(reg.entries) = Cardinality(Ids(reg.entries))
  /\ reg.spent \subseteq DOMAIN coins
  /\ reg.spent \cap Ids(reg.entries) = {}
  /\ reg.seen \subseteq parcels

\* A register has one receipt of a token at most, in memory as in the file,
\* and marks no token spent that it has; what is settled was minted.
TypeOK ==
  /\ now \in 0..MaxTime
  /\ DOMAIN coins \subseteq Tokens
  /\ \A p \in parcels : p \in Parcel /\ p.id \in DOMAIN coins /\ Len(p.chain) > 0
  /\ \A w \in Wallets : \A reg \in {wallet[w]} \cup files[w] : RegisterOK(reg)
  /\ \A books \in {ledger} \cup ledgerFile :
       /\ DOMAIN books.settled \subseteq books.minted
       /\ books.minted \subseteq DOMAIN coins
       /\ books.blacklist = {e.by : e \in books.pending}

\* Replays never bring a token back (dpc/wallet.py:45-55): a wallet can spend
\* a receipt it has passed on before only if it was restarted from a file.
PassedOn(p) ==
  \E q \in parcels : q.id = p.id /\ Len(q.chain) > Len(p.chain) /\ IsPrefix(p.chain, q.chain)

ReuseOnlyByRestart ==
  \A w \in Wallets \ restarted : \A p \in wallet[w].entries : ~PassedOn(p)

\* What a wallet marks as spent has left it: it signed the token over to
\* somebody, or made two tokens of its own of it.  A refused send or split
\* loses nothing.
SentBy(w) == {p.id : p \in {q \in parcels : Tip(q).from = w}}
OwnMake(w) == {p \in parcels : Len(p.chain) = 1 /\ Tip(p).from = w}

SpentHasLeft ==
  \A w \in Wallets :
    2 * Cardinality(wallet[w].spent \ SentBy(w)) <= Cardinality(OwnMake(w))

\* dpc/run_tests.py:46-47 and 171: every chain a wallet signs, also one that
\* comes back to an earlier owner, passes its receiver's validation, and no
\* run of transfers to wallets that have not sent the token before is longer
\* than the hop limit.
NewTo(p, k) == k > 1 /\ p.chain[k].to \notin {p.chain[j].from : j \in 1..(k-1)}

ChainsValidAndBounded ==
  \A p \in parcels :
    /\ ValidHops(p.chain)
    /\ \A k \in 1..(Len(p.chain) - MaxHops) : \E j \in k..(k + MaxHops) : ~NewTo(p, j)

\* Without restarts, whoever is blacklisted got the token from the one it is
\* settled for, who passed it on after the claim: a claim that is repeated,
\* or made again in another batch, is never held against its maker.
BlacklistedHeldItLater ==
  restarted = {} =>
    \A e \in ledger.pending :
      /\ e.by # ledger.settled[e.id].by
      /\ e.depth > ledger.settled[e.id].depth

\* "First-valid-claim wins" (dpc/reconciliation_engine.py:82): until it is
\* started anew from an older file, the ledger has every token settled for the
\* one claimer it was ever settled for, whatever became of the batch, and
\* knows every token but those that a wallet made in a split.
BooksKeptUntilRestart ==
  Issuer \notin restarted =>
    /\ awarded = Awards(ledger)
    /\ \A p \in parcels : p.id \in ledger.minted <=> p.chain[1].from = Issuer
=============================================================================
