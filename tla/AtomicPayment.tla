--------------------------- MODULE AtomicPayment ---------------------------
(***************************************************************************)
(* What a cash payment promises (protocol/cash_payment.py,                 *)
(* protocol/payment_session.py): in one indivisible step the payer hands   *)
(* over some of its tokens and gets back change out of what the payee held *)
(* before, or nothing happens at all.  PaymentSession is shown to          *)
(* implement this; CashSystem uses it for its payments.                    *)
(***************************************************************************)
EXTENDS Wallet

CONSTANT Prices   \* the prices asked for

VARIABLES utr,   \* utr[w]: the copies wallet w can spend
          str    \* str[w]: the copies wallet w has spent

Init ==
  /\ \E loaded \in SUBSET Tokens : utr = LoadedRegisters(loaded)
  /\ str = [w \in Wallets |-> {}]

\* The payer spends the tokens of ids P and the payee those of ids C; each
\* puts what it gets among its spendable copies.
Exchange(payer, payee, P, C) ==
  LET paid == SentCopies(utr[payer], P, payee)
      change == SentCopies(utr[payee], C, payer)
  IN /\ utr' = [utr EXCEPT ![payer] = Put(Pop(utr[payer], P), change),
                           ![payee] = Put(Pop(utr[payee], C), paid)]
     /\ str' = [str EXCEPT ![payer] = Put(str[payer], paid),
                           ![payee] = Put(str[payee], change)]

\* A committed session: two different wallets, tokens neither has spent
\* before, at least the price paid and at least the excess returned.
Pay(payer, payee, price) ==
  /\ payer # payee
  /\ \E P \in SUBSET Ids(utr[payer]), C \in SUBSET Ids(utr[payee]) :
       /\ P \cap Ids(str[payee]) = {}
       /\ C \cap (Ids(str[payer]) \cup P) = {}
       /\ Worth(Value, P) >= price
       /\ IF Worth(Value, P) = price THEN C = {}
                                     ELSE Worth(Value, C) >= Worth(Value, P) - price
       /\ Exchange(payer, payee, P, C)

Next == \E payer, payee \in Wallets, price \in Prices : Pay(payer, payee, price)

Spec == Init /\ [][Next]_<<utr, str>>
=============================================================================
