----------------------------- MODULE CashSystem -----------------------------
(***************************************************************************)
(* The canonical stack of docs/system_revision.md put together: wallets    *)
(* that are loaded with issued tokens, pay each other in sessions or send  *)
(* single tokens over a channel, submit what they hold or held to the      *)
(* reconciliation engine, and drop settled tokens from their spent         *)
(* registers.  Payment sessions are the atomic payments PaymentSession is  *)
(* shown to implement.                                                     *)
(***************************************************************************)
EXTENDS TransferProtocol, Reconciliation, SequencesExt

CONSTANT Prices   \* the prices asked for

VARIABLE vault    \* minted tokens no wallet has been loaded with yet

Cash == INSTANCE AtomicPayment

vars == <<utr, str, discoveries, payloads, accepted, vault>>

Init ==
  /\ utr = [w \in Wallets |-> {}]
  /\ str = [w \in Wallets |-> {}]
  /\ ChannelInit
  /\ EngineInit
  /\ vault = Tokens

\* Wallet.add_token: the copy is the issued one, so its two checks pass.  The
\* vault says that it is called once for each minted token, as its callers do;
\* the method has no check of that, and a second call would revive a token
\* the wallet has spent.
AddToken(t) ==
  /\ t \in vault
  /\ utr' = [utr EXCEPT ![IssuedTo[t]] = Put(@, {Issued(t)})]
  /\ vault' = vault \ {t}
  /\ UNCHANGED <<str, discoveries, payloads, accepted>>

\* execute_cash_payment, committed.
PayCash(payer, payee, price) ==
  /\ {payer, payee} \subseteq Signers
  /\ Room(payer) /\ Room(payee)
  /\ Cash!Pay(payer, payee, price)
  /\ UNCHANGED <<discoveries, payloads, accepted, vault>>

\* A single token sent over the channel.
TransferToken == TransferNext /\ UNCHANGED <<accepted, vault>>

\* A wallet uploads a copy it can spend, or the record of one it spent.
SubmitHeld(w, at) ==
  /\ \E c \in utr[w] \cup str[w] : Submit(c, at)
  /\ UNCHANGED <<utr, str, discoveries, payloads, vault>>

\* Mutant of Sync: the spent register is emptied.
SyncEverything(w, T) ==
  /\ str' = [str EXCEPT ![w] = {}]
  /\ UNCHANGED <<utr, discoveries, payloads, accepted, vault>>

\* Wallet.sync with settled token ids.
Sync(w, T) ==
  /\ T \subseteq Settled
  /\ str' = [str EXCEPT ![w] = Pop(@, T)]
  /\ UNCHANGED <<utr, discoveries, payloads, accepted, vault>>

Next ==
  \/ \E t \in Tokens : AddToken(t)
  \/ \E payer, payee \in Wallets, price \in Prices : PayCash(payer, payee, price)
  \/ TransferToken
  \/ \E w \in Wallets, at \in Times : SubmitHeld(w, at)
  \/ \E w \in Wallets, T \in SUBSET Tokens : Sync(w, T)

Spec == Init /\ [][Next]_vars
-----------------------------------------------------------------------------
(* Properties *)

\* Every register holds at most one well-formed copy of a token, payloads
\* belong to open sessions, and the engine's dict maps ids to times.
TypeOK ==
  /\ utr \in [Wallets -> Register]
  /\ str \in [Wallets -> Register]
  /\ DOMAIN discoveries \subseteq Sessions
  /\ \A s \in DOMAIN discoveries : discoveries[s] \in [sender : Wallets, receiver : Wallets]
  /\ DOMAIN payloads \subseteq DOMAIN discoveries
  /\ \A s \in DOMAIN payloads : payloads[s] \in Copy
  /\ Settled \subseteq Tokens
  /\ \A t \in Settled : accepted[t] \in Times
  /\ vault \subseteq Tokens

\* Until a token is settled at most one wallet can spend it, whatever
\* payloads are lost, damaged, overwritten or received twice.
UnsettledSingleHolder ==
  \A t \in Tokens \ Settled, v, w \in Wallets :
    t \in Ids(utr[v]) /\ t \in Ids(utr[w]) => v = w

\* Why UnsettledSingleHolder holds, as an inductive invariant.  A wallet is a
\* custodian of a token when it can spend it or would accept a payload of it.
Custodians(t) ==
  {w \in Wallets :
     \/ t \in Ids(utr[w])
     \/ /\ t \notin Ids(str[w])
        /\ \E s \in DOMAIN payloads : payloads[s].id = t /\ payloads[s].owner = w}

\* A payload in the channel ends at the wallet it names, so that a damaged
\* one fails validate_chain.
PayloadsAddressed ==
  \A s \in DOMAIN payloads :
    LET chain == payloads[s].chain
    IN Len(chain) > 0 /\ chain[Len(chain)].to = payloads[s].owner

\* A wallet has a token in one of its registers at most.
RegistersDisjoint == \A w \in Wallets : Ids(utr[w]) \cap Ids(str[w]) = {}

\* Tokens no wallet was loaded with are in no wallet and in no payload.
VaultUntouched == \A t \in vault, w \in Wallets : t \notin Ids(str[w]) /\ w \notin Custodians(t)

OneCustodian == \A t \in Tokens \ Settled : \A v, w \in Custodians(t) : v = w

CustodyInv == PayloadsAddressed /\ RegistersDisjoint /\ VaultUntouched /\ OneCustodian

\* docs/system_revision.md:30, "UTR/STR style accounting to prevent honest
\* local re-use": a wallet that has spent a token does not get to spend it
\* again before the token is settled.
NoReuseBeforeSettlement ==
  [][\A w \in Wallets : \A t \in Ids(str[w]) \ Settled :
       t \in Ids(str'[w]) /\ t \notin Ids(utr'[w])]_vars

\* Honest wallets never fork an unsettled token: any two copies of it, in
\* registers or in the channel, are two lengths of one chain, and the
\* spendable one is the longest.
Copies(t) ==
  {c \in (UNION {utr[w] \cup str[w] : w \in Wallets})
         \cup {payloads[s] : s \in DOMAIN payloads} : c.id = t}

CustodyIsLinear ==
  \A t \in Tokens \ Settled : \A c, d \in Copies(t) :
    /\ IsPrefix(c.chain, d.chain) \/ IsPrefix(d.chain, c.chain)
    /\ c \in UNION {utr[w] : w \in Wallets} => IsPrefix(d.chain, c.chain)

\* The engine settles each token once, by its first valid claim
\* (docs/system_revision.md:82).
Claims == INSTANCE FirstClaim WITH settled <- accepted

ImplementsFirstClaim == Claims!Spec

\* docs/system_revision.md:30 without the exception: no copy of a token
\* shows that a wallet which can spend it has already passed it on.
NoLocalReuse ==
  \A w \in Wallets : \A c \in utr[w] : \A d \in Copies(c.id) :
    \A k \in DOMAIN d.chain : d.chain[k].from = w => k <= Len(c.chain)
=============================================================================
