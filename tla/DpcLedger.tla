----------------------------- MODULE DpcLedger -----------------------------
(***************************************************************************)
(* The issuer's ledger of the dpc package (dpc/reconciliation_engine.py):  *)
(* tokens are minted and settled by first claim, one by one or in batches  *)
(* that a proxy uploads, and whoever claims a token settled for another is *)
(* blacklisted.                                                            *)
(***************************************************************************)
EXTENDS DpcWallet, SequencesExt

VARIABLES ledger,      \* the dicts of IssuerLedger
          ledgerFile   \* the ledger saved last, if any

ledgerVars == <<ledger, ledgerFile>>

LedgerInit ==
  /\ ledger = [minted |-> {}, settled |-> [t \in {} |-> 0], blacklist |-> {},
               pending |-> {}]
  /\ ledgerFile = {}

\* IssuerLedger.mint_token: the token and its genesis record.
MintToken(receiver, amount) ==
  /\ 0 < amount /\ amount <= MaxTx
  /\ \E t \in Tokens :
       /\ NewCoins([i \in {t} |-> [value |-> amount, at |-> now]])
       /\ Made({Signed(t, <<>>, Issuer, receiver, 0)})
       /\ ledger' = [ledger EXCEPT !.minted = @ \cup {t}]
  /\ UNCHANGED <<now, walletVars, ledgerFile>>
-----------------------------------------------------------------------------
(* Settlement.  A claim is [by, parcel]. *)

\* What settle_token refuses before it looks at the settled tokens.  It does
\* not look at the expiry.
Admissible(books, claim) ==
  /\ claim.parcel.id \in books.minted
  /\ ValidHops(claim.parcel.chain)
  /\ Tip(claim.parcel).to = claim.by

\* Mutant of Conflicts: a claim repeated by the one who settled the token.
ConflictsRepeated(books, claim) == claim.parcel.id \in DOMAIN books.settled

\* The token is settled, for somebody else.
Conflicts(books, claim) ==
  /\ claim.parcel.id \in DOMAIN books.settled
  /\ books.settled[claim.parcel.id].by # claim.by

\* What settle_token notes of a claim: as the settlement of its token, ...
Enter(settled, claim) ==
  [t \in DOMAIN settled \cup {claim.parcel.id} |->
     IF t = claim.parcel.id THEN [by |-> claim.by, depth |-> Len(claim.parcel.chain)]
                            ELSE settled[t]]

\* ... or as a conflict with it.
Refusal(claim) == [id |-> claim.parcel.id, by |-> claim.by, depth |-> Len(claim.parcel.chain)]

\* Mutant of Settle: the latest claim is the one that counts.
SettleLatest(books, claim) ==
  CASE ~Admissible(books, claim) -> books
    [] Admissible(books, claim) /\ Conflicts(books, claim) ->
         [books EXCEPT !.settled = Enter(@, claim),
                       !.blacklist = @ \cup {claim.by},
                       !.pending = @ \cup {Refusal(claim)}]
    [] Admissible(books, claim) /\ ~Conflicts(books, claim) ->
         [books EXCEPT !.settled = IF claim.parcel.id \in DOMAIN @ THEN @ ELSE Enter(@, claim)]

\* settle_token: the books after it.
Settle(books, claim) ==
  CASE ~Admissible(books, claim) -> books
    [] Admissible(books, claim) /\ Conflicts(books, claim) ->
         [books EXCEPT !.blacklist = @ \cup {claim.by}, !.pending = @ \cup {Refusal(claim)}]
    [] Admissible(books, claim) /\ ~Conflicts(books, claim) ->
         [books EXCEPT !.settled = IF claim.parcel.id \in DOMAIN @ THEN @ ELSE Enter(@, claim)]

Refused(books, claim) == ~Admissible(books, claim) \/ Conflicts(books, claim)

\* proxy_sync: the claims of a batch one after the other, up to the first
\* that raises.
ProxySync(batch) ==
  LET step(run, claim) ==
        IF run.raised THEN run
        ELSE [books |-> Settle(run.books, claim), raised |-> Refused(run.books, claim)]
  IN /\ ledger' = FoldLeft(step, [books |-> ledger, raised |-> FALSE], batch).books
     /\ UNCHANGED <<now, coins, walletVars, parcels, ledgerFile>>

SettleToken(claim) ==
  /\ ledger' = Settle(ledger, claim)
  /\ UNCHANGED <<now, coins, walletVars, parcels, ledgerFile>>

\* IssuerLedger.save, and load into a process started anew.
SaveLedger ==
  /\ ledgerFile' = {ledger}
  /\ UNCHANGED <<now, coins, walletVars, parcels, ledger>>

RestartLedger ==
  /\ ledgerFile # {}
  /\ ledger' \in ledgerFile
  /\ UNCHANGED <<now, coins, walletVars, parcels, ledgerFile>>
=============================================================================
