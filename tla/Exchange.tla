------------------------------ MODULE Exchange ------------------------------
(***************************************************************************)
(* What the calls of a BLEChannel promise, each as one step: a token is    *)
(* transferred, or swapped for the smallest token of the payee that is     *)
(* enough, or it gets lost on its way to a wallet that may still take it   *)
(* in.  A swap that breaks off is a transfer.                              *)
(***************************************************************************)
EXTENDS Integers

CONSTANTS Wallets,   \* the wallets
          Tokens,    \* the token ids
          Value,     \* the denomination of each token
          Amounts    \* the amounts owed

VARIABLE place   \* place[t]: where token t is, and with whom

With(w) == {<<"with", w>>}
DueTo(w) == {<<"due", w>>}
DepositedBy(w) == {<<"deposited", w>>}

Init == place = [t \in Tokens |-> {}]

HandOut(t, w) ==
  /\ place[t] = {}
  /\ place' = [place EXCEPT ![t] = With(w)]

Transfer(t, from, to) ==
  /\ place[t] = With(from)
  /\ \E end \in {With(to), DueTo(to)} : place' = [place EXCEPT ![t] = end]

Arrive(t, w) ==
  /\ place[t] = DueTo(w)
  /\ place' = [place EXCEPT ![t] = With(w)]

\* The tokens of wallet w that are enough as change for token t.
Enough(t, owed, w) == {c \in Tokens : place[c] = With(w) /\ Value[c] >= Value[t] - owed}

Swap(t, c, owed, payer, payee) ==
  /\ place[t] = With(payer)
  /\ Value[t] > owed
  /\ c \in Enough(t, owed, payee)
  /\ \A d \in Enough(t, owed, payee) : Value[c] <= Value[d]
  /\ \E end \in {With(payer), DueTo(payer)} :
       place' = [place EXCEPT ![t] = With(payee), ![c] = end]

Deposit(t, w) ==
  /\ place[t] = With(w)
  /\ place' = [place EXCEPT ![t] = DepositedBy(w)]

\* Every step moves something.
Next ==
  /\ place' # place
  /\ \/ \E t \in Tokens, w \in Wallets : HandOut(t, w) \/ Arrive(t, w) \/ Deposit(t, w)
     \/ \E t \in Tokens, v, w \in Wallets : v # w /\ Transfer(t, v, w)
     \/ \E t, c \in Tokens, owed \in Amounts, v, w \in Wallets : v # w /\ Swap(t, c, owed, v, w)

Spec == Init /\ [][Next]_place
=============================================================================
