--------------------------- MODULE PaymentSession ---------------------------
(***************************************************************************)
(* PaymentSession.execute (protocol/payment_session.py:20-55), reached by  *)
(* execute_cash_payment (protocol/cash_payment.py:9-12): one wallet pays   *)
(* another, the payee returns change out of its own tokens, and a failure  *)
(* at any step puts all four registers back.  One session runs at a time:  *)
(* execute is a synchronous call.  Each action is one statement of execute *)
(* with the wallet operation it calls, so that the states between them,    *)
(* which an exception can end in, are states of the model.                 *)
(***************************************************************************)
EXTENDS Wallet

CONSTANT Prices   \* the prices asked for: any int, also 0 and negative

ASSUME PriceAssumption == Prices \subseteq Int

VARIABLES utr,      \* utr[w]: the copies wallet w can spend
          str,      \* str[w]: the copies wallet w has spent
          session   \* the locals of the running execute

vars == <<utr, str, session>>

\* No call of execute is running.
Idle == [phase |-> "idle"]

\* The phases of a running execute: before line 36, in the loops of lines
\* 37-39 and 45-47, and between them.
Phases == {"open", "paying", "returning"}

Running == session.phase # "idle"
-----------------------------------------------------------------------------
(* The wallets are loaded with add_token before the first payment: some of *)
(* the issued tokens are in their owner's utr.                             *)
Init ==
  /\ \E loaded \in SUBSET Tokens : utr = LoadedRegisters(loaded)
  /\ str = [w \in Wallets |-> {}]
  /\ session = Idle

\* Lines 30-33: the four registers are copied before anything is done.
Begin(payer, payee, price) ==
  /\ ~Running
  /\ session' = [phase |-> "open", payer |-> payer, payee |-> payee, price |-> price,
                 utrBefore |-> utr, strBefore |-> str,
                 paid |-> {}, inFlight |-> {}]
  /\ UNCHANGED <<utr, str>>

\* Line 36, initiate_payment: the payer selects tokens worth the price, moves
\* them to its spent register and serialises them for the payee.
InitiatePayment ==
  /\ session.phase = "open"
  /\ session.payer \in Signers
  /\ \E T \in Selected(utr[session.payer], session.price) :
       LET sent == SentCopies(utr[session.payer], T, session.payee)
       IN /\ utr' = [utr EXCEPT ![session.payer] = Pop(@, T)]
          /\ str' = [str EXCEPT ![session.payer] = Put(@, sent)]
          /\ session' = [session EXCEPT !.phase = "paying", !.paid = sent, !.inFlight = sent]

\* Mutant of Deliver: the payload stays in the list of those to be received.
DeliverForever(w) ==
  /\ \E c \in session.inFlight :
       /\ Accepts(w, str[w], c)
       /\ utr' = [utr EXCEPT ![w] = Put(@, {c})]
  /\ UNCHANGED <<str, session>>

\* One iteration of the loops of lines 37-39 and 45-47: wallet w takes in a
\* payload.
Deliver(w) ==
  /\ \E c \in session.inFlight :
       /\ Accepts(w, str[w], c)
       /\ utr' = [utr EXCEPT ![w] = Put(@, {c})]
       /\ session' = [session EXCEPT !.inFlight = @ \ {c}]
  /\ UNCHANGED str

ReceivePayment == session.phase = "paying" /\ Deliver(session.payee)

ReceiveChange == session.phase = "returning" /\ Deliver(session.payer)

\* Lines 41-43, process_payment and send_tokens: the payee selects the excess
\* from all it now holds and sends it back.
ReturnChange ==
  /\ session.phase = "paying" /\ session.inFlight = {}
  /\ session.payee \in Signers
  /\ ValueOf(session.paid) >= session.price
  /\ \E T \in Selected(utr[session.payee], ValueOf(session.paid) - session.price) :
       LET sent == SentCopies(utr[session.payee], T, session.payer)
       IN /\ utr' = [utr EXCEPT ![session.payee] = Pop(@, T)]
          /\ str' = [str EXCEPT ![session.payee] = Put(@, sent)]
          /\ session' = [session EXCEPT !.phase = "returning", !.inFlight = sent]

\* Line 49: every payload was received.
Commit ==
  /\ session.phase = "returning" /\ session.inFlight = {}
  /\ session' = Idle
  /\ UNCHANGED <<utr, str>>

\* The statements that raise: no private key, a negative price or not enough
\* tokens in initiate_payment or process_payment, a payload the wallet turns
\* down.
Raises ==
  \/ /\ session.phase = "open"
     /\ \/ session.payer \notin Signers
        \/ Selected(utr[session.payer], session.price) = {}
  \/ /\ session.phase = "paying" /\ session.inFlight = {}
     /\ \/ session.payee \notin Signers
        \/ ValueOf(session.paid) < session.price
        \/ Selected(utr[session.payee], ValueOf(session.paid) - session.price) = {}
  \/ /\ session.phase = "paying"
     /\ \E c \in session.inFlight : ~Accepts(session.payee, str[session.payee], c)
  \/ /\ session.phase = "returning"
     /\ \E c \in session.inFlight : ~Accepts(session.payer, str[session.payer], c)

\* Mutant of Rollback: the spent registers are not put back.
RollbackOfUnspent ==
  /\ Raises
  /\ utr' = [w \in Wallets |-> IF w \in {session.payer, session.payee}
                                 THEN session.utrBefore[w] ELSE utr[w]]
  /\ session' = Idle
  /\ UNCHANGED str

\* Mutant of Rollback: only the payer's registers are put back.
RollbackOfPayer ==
  /\ Raises
  /\ utr' = [utr EXCEPT ![session.payer] = session.utrBefore[session.payer]]
  /\ str' = [str EXCEPT ![session.payer] = session.strBefore[session.payer]]
  /\ session' = Idle

\* Lines 50-55: the registers of the two wallets are put back.
Rollback ==
  /\ Raises
  /\ utr' = [w \in Wallets |-> IF w \in {session.payer, session.payee}
                                 THEN session.utrBefore[w] ELSE utr[w]]
  /\ str' = [w \in Wallets |-> IF w \in {session.payer, session.payee}
                                 THEN session.strBefore[w] ELSE str[w]]
  /\ session' = Idle

\* The statements of execute after the first.
Step == InitiatePayment \/ ReceivePayment \/ ReturnChange \/ ReceiveChange \/ Commit \/ Rollback

Next ==
  \/ \E payer, payee \in Wallets, price \in Prices : Begin(payer, payee, price)
  \/ Step

Spec == Init /\ [][Next]_vars

\* A call that has started keeps running: Python executes its next statement.
FairSpec == Spec /\ WF_vars(Step)
-----------------------------------------------------------------------------
(* Properties *)

Session ==
  [phase : Phases, payer : Wallets, payee : Wallets, price : Prices,
   utrBefore : [Wallets -> Register], strBefore : [Wallets -> Register],
   paid : Register, inFlight : Register]

\* Every register holds at most one well-formed copy of a token, and a
\* running session keeps registers of that form to go back to.
TypeOK ==
  /\ utr \in [Wallets -> Register]
  /\ str \in [Wallets -> Register]
  /\ session \in Session \cup {Idle}

\* A payment is all or nothing (the docstring of execute): with the registers
\* of a running session read as they were when it began, a session is one
\* atomic payment when it commits and nothing at all when it rolls back.
AtRest(reg, before) ==
  [w \in Wallets |-> IF Running /\ w \in {session.payer, session.payee} THEN before[w] ELSE reg[w]]

Atomic == INSTANCE AtomicPayment
  WITH utr <- AtRest(utr, session.utrBefore), str <- AtRest(str, session.strBefore)

ImplementsAtomicPayment == Atomic!Spec

Carried == IF Running THEN Ids(session.inFlight) ELSE {}

\* Within a session as between sessions, a token is spendable by one wallet
\* or carried by one payload, never both and never by two wallets.
HeldByOne ==
  \A t \in Tokens, v, w \in Wallets :
    t \in Ids(utr[v]) => t \notin Carried /\ (t \in Ids(utr[w]) => v = w)

\* A token a wallet has spent is spendable by another wallet or carried to
\* one: no failure of a session loses a token.
NeverLost ==
  \A w \in Wallets : \A t \in Ids(str[w]) :
    t \in Carried \/ \E v \in Wallets \ {w} : t \in Ids(utr[v])

AboutToCommit == session.phase = "returning" /\ session.inFlight = {}

\* Select, pay, select the change: after all of it the payer has given up no
\* more than the price.
PayerNeverOvercharged ==
  AboutToCommit =>
    ValueOf(utr[session.payer]) >= ValueOf(session.utrBefore[session.payer]) - session.price

\* docs/system_implementation.md:64, "Receiver keeps value `6`" of a price of
\* 6: the payee has gained the price when a payment commits.
PayeeKeepsPrice ==
  AboutToCommit =>
    ValueOf(utr[session.payee]) >= ValueOf(session.utrBefore[session.payee]) + session.price

\* docs/system_revision.md:66, "receiver returns change from its own
\* holdings": a payee whose own tokens make exact change sends back none of
\* the tokens it has just been paid.
ChangeFromOwnHoldings ==
  LET excess == ValueOf(session.paid) - session.price
      own == Ids(session.utrBefore[session.payee])
  IN session.phase = "returning" /\ ExactSubsets(Value, own, excess) # {} =>
       Ids(session.inFlight) \cap Ids(session.paid) = {}

\* A session ends, committed or rolled back.
SessionEnds == Running ~> ~Running
=============================================================================
