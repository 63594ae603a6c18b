----------------------------- MODULE Selection -----------------------------
(***************************************************************************)
(* What Wallet.select_tokens (wallet/wallet.py:53-72) may return, stated   *)
(* without its search: a smallest subset of exactly the requested amount   *)
(* when one exists, else the tokens in ascending order of value up to the  *)
(* one that reaches the amount, whether or not fewer, or a cheaper set,    *)
(* would do.  Which of several smallest subsets, and the order of tokens   *)
(* of equal value, depend on the insertion order of a Python dict and are  *)
(* left open.  TokenSelection models the search itself and is checked      *)
(* against these operators.                                                *)
(***************************************************************************)
EXTENDS Integers, FiniteSets, FiniteSetsExt

\* The total value of the tokens of S: the `sum` and the running totals of
\* the code.
Worth(val, S) == MapThenSumSet(LAMBDA t : val[t], S)

ExactSubsets(val, S, amount) == {R \in SUBSET S : Worth(val, R) = amount}

SmallestExact(val, S, amount) ==
  {R \in ExactSubsets(val, S, amount) :
     \A Q \in ExactSubsets(val, S, amount) : Cardinality(R) <= Cardinality(Q)}

\* Mutant of AscendingCover: the loop stops one unit short of the amount.
AscendingCoverShort(val, S, amount) ==
  {R \in SUBSET S :
     /\ \A c \in R, d \in S \ R : val[c] <= val[d]
     /\ Worth(val, R) >= amount - 1
     /\ \E last \in R : /\ \A c \in R : val[c] <= val[last]
                        /\ Worth(val, R \ {last}) < amount - 1}

\* The sets the greedy loop can stop with: no token outside is worth less than
\* one inside, and the amount is reached by the last token only.  Of tokens of
\* 1, 1 and 4 the cover of 3 is all three, although the 4 alone is enough.
AscendingCover(val, S, amount) ==
  {R \in SUBSET S :
     /\ \A c \in R, d \in S \ R : val[c] <= val[d]
     /\ Worth(val, R) >= amount
     /\ \E last \in R : /\ \A c \in R : val[c] <= val[last]
                        /\ Worth(val, R \ {last}) < amount}

\* The possible results of select_tokens.  The empty set of results is the
\* ValueError of a negative amount or of insufficient funds.
SelectTokens(val, S, amount) ==
  CASE amount < 0 -> {}
    [] amount = 0 -> {{}}
    [] amount > 0 -> IF ExactSubsets(val, S, amount) # {}
                       THEN SmallestExact(val, S, amount)
                       ELSE AscendingCover(val, S, amount)
=============================================================================
