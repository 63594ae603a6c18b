--------------------------- MODULE TokenSelection ---------------------------
(***************************************************************************)
(* The search of Wallet.select_tokens (wallet/wallet.py:53-72) with its    *)
(* helper _find_exact_token_subset (165-185), one step per call of the     *)
(* recursive search and per turn of the greedy loop.  Tokens are the       *)
(* positions of the list sorted by value.  The recursion is the stack of   *)
(* the calls still to be made: search(index, selected, total) makes the    *)
(* call that takes tokens[index], and then the one that leaves it out.     *)
(***************************************************************************)
EXTENDS Selection, Sequences

CONSTANTS MaxTokens, MaxValue, MaxAmount   \* bounds of the inputs tried

ASSUME SelectionAssumption == MaxTokens \in Nat /\ MaxValue \in Nat /\ MaxAmount \in Nat

VARIABLES values,    \* the values of the sorted tokens
          amount,    \* the amount requested
          calls,     \* the calls of search to be made, the next one first
          best,      \* the subset found so far: none, or one in a set
          taken,     \* how many tokens the greedy loop has selected
          outcome    \* what select_tokens has returned or raised

vars == <<values, amount, calls, best, taken, outcome>>

Positions == 1..Len(values)

Pending == [status |-> "pending"]
Returned(S) == [status |-> "returned", tokens |-> S]
Raised == [status |-> "raised"]

Ascending == UNION {{s \in [1..n -> 0..MaxValue] : \A i, j \in 1..n : i < j => s[i] <= s[j]} :
                      n \in 0..MaxTokens}

\* Lines 55-61: a negative amount raises and 0 selects nothing; otherwise
\* the search is called with no token selected.
Init ==
  /\ values \in Ascending
  /\ amount \in (-1)..MaxAmount
  /\ calls = IF amount > 0 THEN << [index |-> 1, selected |-> {}] >> ELSE <<>>
  /\ best = {}
  /\ taken = 0
  /\ outcome = CASE amount < 0 -> Raised
                 [] amount = 0 -> Returned({})
                 [] amount > 0 -> Pending

Total(S) == Worth(values, S)
Shorter(S) == \A B \in best : Cardinality(S) < Cardinality(B)

\* Lines 171-174: the selection has exactly the amount.
Hit ==
  /\ calls # <<>>
  /\ LET call == Head(calls)
     IN /\ Total(call.selected) = amount
        /\ best' = IF Shorter(call.selected) THEN {call.selected} ELSE best
  /\ calls' = Tail(calls)
  /\ UNCHANGED <<values, amount, taken, outcome>>

\* Mutant of GivesUp: the end of the list is not noticed.
GivesUpNeverAtTheEnd(call) ==
  \/ Total(call.selected) > amount
  \/ ~Shorter(call.selected)

\* Lines 175-178: too much, no token left, or already as long as the best.
GivesUp(call) ==
  \/ Total(call.selected) > amount
  \/ call.index > Len(values)
  \/ ~Shorter(call.selected)

Prune ==
  /\ calls # <<>>
  /\ Total(Head(calls).selected) # amount
  /\ GivesUp(Head(calls))
  /\ calls' = Tail(calls)
  /\ UNCHANGED <<values, amount, best, taken, outcome>>

\* Mutant of Branch: the call without the token is not made.
BranchOnlyWith ==
  /\ calls # <<>>
  /\ LET call == Head(calls)
     IN /\ Total(call.selected) # amount
        /\ ~GivesUp(call)
        /\ calls' = << [index |-> call.index + 1, selected |-> call.selected \cup {call.index}] >>
                       \o Tail(calls)
  /\ UNCHANGED <<values, amount, best, taken, outcome>>

\* Mutant of Branch: the call without the token is for the same index.
BranchSameIndex ==
  /\ calls # <<>>
  /\ LET call == Head(calls)
     IN /\ Total(call.selected) # amount
        /\ ~GivesUp(call)
        /\ calls' = << [index |-> call.index + 1, selected |-> call.selected \cup {call.index}],
                       call >> \o Tail(calls)
  /\ UNCHANGED <<values, amount, best, taken, outcome>>

\* Lines 179-182: with the token, then without it.
Branch ==
  /\ calls # <<>>
  /\ LET call == Head(calls)
     IN /\ Total(call.selected) # amount
        /\ ~GivesUp(call)
        /\ calls' = << [index |-> call.index + 1, selected |-> call.selected \cup {call.index}],
                       [index |-> call.index + 1, selected |-> call.selected] >> \o Tail(calls)
  /\ UNCHANGED <<values, amount, best, taken, outcome>>

SearchOver == calls = <<>> /\ outcome = Pending

\* Lines 62-63.
ReturnExact ==
  /\ SearchOver
  /\ \E B \in best : outcome' = Returned(B)
  /\ UNCHANGED <<values, amount, calls, best, taken>>

\* Mutant of TakeNext: the total is compared before the token is added.
TakeNextLate ==
  /\ SearchOver /\ best = {} /\ taken < Len(values)
  /\ taken' = taken + 1
  /\ outcome' = IF Total(1..taken) >= amount THEN Returned(1..taken) ELSE outcome
  /\ UNCHANGED <<values, amount, calls, best>>

\* Lines 67-71: one more token, in ascending order of value.
TakeNext ==
  /\ SearchOver /\ best = {} /\ taken < Len(values)
  /\ taken' = taken + 1
  /\ outcome' = IF Total(1..taken') >= amount THEN Returned(1..taken') ELSE outcome
  /\ UNCHANGED <<values, amount, calls, best>>

\* Line 72.
RaiseInsufficient ==
  /\ SearchOver /\ best = {} /\ taken = Len(values)
  /\ outcome' = Raised
  /\ UNCHANGED <<values, amount, calls, best, taken>>

Next == Hit \/ Prune \/ Branch \/ ReturnExact \/ TakeNext \/ RaiseInsufficient

\* A sequential function: it takes its next step until it returns.
Spec == Init /\ [][Next]_vars /\ WF_vars(Next)
-----------------------------------------------------------------------------
(* Properties *)

\* The calls to be made are of positions in or just past the list, with
\* selections of earlier positions only.
TypeOK ==
  /\ values \in Ascending /\ amount \in Int
  /\ \A k \in DOMAIN calls : /\ calls[k].index \in 1..(Len(values) + 1)
                             /\ calls[k].selected \in SUBSET (1..(calls[k].index - 1))
  /\ best \in SUBSET (SUBSET Positions) /\ Cardinality(best) <= 1
  /\ taken \in 0..Len(values)
  /\ outcome \in {Pending, Raised} \cup {Returned(S) : S \in SUBSET Positions}

\* The pruning loses nothing: each subset of exactly the amount is no shorter
\* than the best found, or extends the selection of a call still to be made.
Extends(R, call) == R \cap (1..(call.index - 1)) = call.selected

NothingMissed ==
  amount > 0 => \A R \in ExactSubsets(values, Positions, amount) :
    ~Shorter(R) \/ \E k \in DOMAIN calls : Extends(R, calls[k])

\* What is returned is a smallest subset of exactly the amount or, only where
\* no subset is exact, the tokens in ascending order up to the amount, and the
\* function raises only when all tokens together do not reach it or it is
\* negative.  Such a cover is not the minimal set that
\* wallet/wallet.py:54 speaks of: of 1, 1 and 4 it takes all for an amount of 3.
ReturnsASelection ==
  /\ outcome.status = "returned" => outcome.tokens \in SelectTokens(values, Positions, amount)
  /\ outcome.status = "raised" => amount < 0 \/ Total(Positions) < amount

\* The search and the loop come to an end.
Terminates == <>(outcome # Pending)
=============================================================================
