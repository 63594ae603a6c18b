------------------------ MODULE TokenSelectionProofs ------------------------
(***************************************************************************)
(* Proofs about TokenSelection: the recursive search of                    *)
(* wallet/wallet.py:165-185 and the greedy loop of 64-72 return what       *)
(* SelectTokens promises, for lists of any length and any values.  That no *)
(* exact subset is missed is nearly inductive; SearchInv adds that the     *)
(* best subset found is exact, that the loop only starts when the search   *)
(* has found none, and that it has not reached the amount so far.          *)
(***************************************************************************)
EXTENDS TokenSelection, SelectionLemmas, SequenceTheorems

Call == [index : Nat, selected : SUBSET Nat]

\* The best subset found has exactly the amount (wallet.py:172-174).
BestIsExact ==
  /\ \A B \in best : B \in SUBSET Positions /\ Total(B) = amount
  /\ \A B, C \in best : B = C

\* The loop starts when the search has found nothing, and goes on as long as
\* the total of the tokens it has taken is below the amount (64-71).
LoopBelowAmount ==
  outcome = Pending => /\ amount > 0
                       /\ taken > 0 => calls = <<>> /\ best = {}
                       /\ Total(1..taken) < amount

SearchInv ==
  /\ TypeOK /\ calls \in Seq(Call)
  /\ calls # <<>> => outcome = Pending
  /\ NothingMissed
  /\ BestIsExact
  /\ LoopBelowAmount
  /\ ReturnsASelection
-----------------------------------------------------------------------------
(* The list and its totals *)

\* The sorted list of tokens (wallet.py:58): finitely many, with values that
\* ascend.
LEMMA ListFacts ==
  ASSUME values \in Ascending
  PROVE  /\ Len(values) \in Nat /\ Positions = 1..Len(values) /\ IsFiniteSet(Positions)
         /\ \A p \in Positions : values[p] \in Nat
         /\ \A p, q \in Positions : p < q => values[p] <= values[q]
<1>1. PICK n \in 0..MaxTokens : /\ values \in [1..n -> 0..MaxValue]
                                /\ \A i, j \in 1..n : i < j => values[i] <= values[j]
  BY DEF Ascending
<1>2. n \in Nat /\ MaxValue \in Nat
  BY SelectionAssumption
<1>3. values \in Seq(0..MaxValue)
  BY <1>1, <1>2, SeqDef
<1>4. Len(values) = n
  BY <1>1, <1>2, <1>3, LenProperties
<1>5. Positions = 1..n
  BY <1>4 DEF Positions
<1>6. IsFiniteSet(1..n)
  BY <1>2, FS_Interval
<1> QED
  BY <1>1, <1>2, <1>4, <1>5, <1>6

\* A selection of positions has a total and a length.
LEMMA PartOfList ==
  ASSUME values \in Ascending, NEW S \in SUBSET Positions
  PROVE  IsFiniteSet(S) /\ Total(S) \in Nat /\ Cardinality(S) \in Nat
<1>1. IsFiniteSet(S)
  BY ListFacts, FS_Subset
<1>2. \A t \in S : values[t] \in Nat
  BY ListFacts
<1>3. Worth(values, S) \in Nat
  BY <1>1, <1>2, WorthType
<1> QED
  BY <1>1, <1>3, FS_CardinalityType DEF Total

\* A selection with more tokens is worth at least as much, and is at least
\* as long.
LEMMA MoreIsWorthMore ==
  ASSUME values \in Ascending, NEW S \in SUBSET Positions, NEW R \in SUBSET S
  PROVE  Total(R) <= Total(S) /\ Cardinality(R) <= Cardinality(S)
<1>1. IsFiniteSet(S)
  BY PartOfList
<1>2. \A t \in S : values[t] \in Nat
  BY ListFacts
<1>3. Worth(values, R) <= Worth(values, S)
  BY <1>1, <1>2, WorthMonotone
<1>4. Cardinality(R) <= Cardinality(S)
  BY <1>1, FS_Subset
<1> QED
  BY <1>3, <1>4 DEF Total

\* What remains of the stack after a call: the calls behind it.
LEMMA StackFacts ==
  ASSUME calls \in Seq(Call), calls # <<>>
  PROVE  /\ Head(calls) = calls[1] /\ calls[1] \in Call /\ 1 \in DOMAIN calls
         /\ Tail(calls) \in Seq(Call)
         /\ \A k \in DOMAIN Tail(calls) : k + 1 \in DOMAIN calls /\ Tail(calls)[k] = calls[k + 1]
         /\ \A k \in DOMAIN calls : k # 1 => k - 1 \in DOMAIN Tail(calls) /\ Tail(calls)[k - 1] = calls[k]
<1>1. Len(calls) \in Nat \ {0} /\ DOMAIN calls = 1..Len(calls)
  BY EmptySeq, LenProperties
<1>2. /\ Tail(calls) \in Seq(Call) /\ Len(Tail(calls)) = Len(calls) - 1
      /\ \A k \in 1..Len(Tail(calls)) : Tail(calls)[k] = calls[k + 1]
  BY HeadTailProperties
<1>3. DOMAIN Tail(calls) = 1..(Len(calls) - 1)
  BY <1>2, LenProperties
<1>4. Head(calls) = calls[1] /\ calls[1] \in Call
  BY <1>1, ElementOfSeq
<1> QED
  BY <1>1, <1>2, <1>3, <1>4

\* Two calls in the place of the first one: the new two, then the others.
LEMMA TwoMoreFacts ==
  ASSUME calls \in Seq(Call), calls # <<>>, NEW c \in Call, NEW d \in Call,
         NEW s, s = <<c, d>> \o Tail(calls)
  PROVE  /\ s \in Seq(Call) /\ 1 \in DOMAIN s /\ 2 \in DOMAIN s /\ s[1] = c /\ s[2] = d
         /\ \A k \in DOMAIN s : \/ s[k] = c \/ s[k] = d
                                \/ \E j \in DOMAIN calls : s[k] = calls[j]
         /\ \A k \in DOMAIN calls : k # 1 => k + 1 \in DOMAIN s /\ s[k + 1] = calls[k]
<1> DEFINE t == Tail(calls)
<1>1. /\ t \in Seq(Call) /\ Len(t) \in Nat /\ DOMAIN t = 1..Len(t)
      /\ \A k \in DOMAIN t : k + 1 \in DOMAIN calls /\ t[k] = calls[k + 1]
      /\ \A k \in DOMAIN calls : k # 1 => k - 1 \in DOMAIN t /\ t[k - 1] = calls[k]
  BY StackFacts, LenProperties
<1>2. DOMAIN calls \in SUBSET Nat
  BY LenProperties
<1>3. <<c, d>> \in Seq(Call) /\ Len(<<c, d>>) = 2 /\ s = <<c, d>> \o t
  OBVIOUS
<1> HIDE DEF t
<1>4. /\ s \in Seq(Call) /\ Len(s) = 2 + Len(t)
      /\ \A k \in 1..(2 + Len(t)) : s[k] = IF k <= 2 THEN <<c, d>>[k] ELSE t[k - 2]
  BY <1>1, <1>3, ConcatProperties
<1>5. DOMAIN s = 1..(2 + Len(t))
  BY <1>4, LenProperties
<1>6. s[1] = c /\ s[2] = d /\ 1 \in DOMAIN s /\ 2 \in DOMAIN s
  BY <1>1, <1>4, <1>5
<1>7. ASSUME NEW k \in DOMAIN s
      PROVE  s[k] = c \/ s[k] = d \/ \E j \in DOMAIN calls : s[k] = calls[j]
  <2>1. k = 1 \/ k = 2 \/ (k - 2 \in DOMAIN t /\ s[k] = t[k - 2])
    BY <1>1, <1>4, <1>5
  <2> QED
    BY <1>1, <1>6, <2>1
<1>8. ASSUME NEW k \in DOMAIN calls, k # 1
      PROVE  k + 1 \in DOMAIN s /\ s[k + 1] = calls[k]
  <2>1. k - 1 \in 1..Len(t) /\ t[k - 1] = calls[k] /\ k \in Nat
    BY <1>1, <1>2, <1>8
  <2>2. k + 1 \in 1..(2 + Len(t)) /\ ~(k + 1 <= 2) /\ (k + 1) - 2 = k - 1
    BY <1>1, <2>1
  <2> QED
    BY <1>4, <1>5, <2>1, <2>2
<1> QED
  BY <1>4, <1>6, <1>7, <1>8

-----------------------------------------------------------------------------
(* The search (wallet.py:165-185) *)

\* A call and its selection, when it is the first of the stack.
LEMMA FirstCall ==
  ASSUME SearchInv, calls # <<>>
  PROVE  /\ Head(calls) = calls[1] /\ 1 \in DOMAIN calls
         /\ calls[1] \in Call /\ calls[1].index \in 1..(Len(values) + 1)
         /\ calls[1].selected \in SUBSET (1..(calls[1].index - 1))
         /\ calls[1].selected \in SUBSET Positions
         /\ amount > 0 /\ amount \in Int /\ outcome = Pending /\ taken = 0
<1>1. Len(values) \in Nat /\ Positions = 1..Len(values)
  BY ListFacts DEF SearchInv, TypeOK
<1>2. /\ Head(calls) = calls[1] /\ 1 \in DOMAIN calls /\ calls[1] \in Call
      /\ outcome = Pending /\ amount > 0 /\ amount \in Int /\ taken = 0
  BY StackFacts DEF SearchInv, TypeOK, LoopBelowAmount
<1>3. /\ calls[1].index \in 1..(Len(values) + 1)
      /\ calls[1].selected \in SUBSET (1..(calls[1].index - 1))
  BY <1>2 DEF SearchInv, TypeOK
<1>4. calls[1].selected \in SUBSET Positions
  BY <1>1, <1>3
<1> QED
  BY <1>2, <1>3, <1>4

\* A subset that extends the selection of a call holds it, so that it is worth
\* at least as much and at least as long.
LEMMA ExtensionFacts ==
  ASSUME SearchInv, calls # <<>>, NEW R \in SUBSET Positions, Extends(R, calls[1])
  PROVE  /\ Total(calls[1].selected) \in Nat /\ Total(R) \in Nat
         /\ Cardinality(calls[1].selected) \in Nat /\ Cardinality(R) \in Nat
         /\ Total(calls[1].selected) <= Total(R)
         /\ Cardinality(calls[1].selected) <= Cardinality(R)
<1>1. calls[1].selected \in SUBSET R
  BY DEF Extends
<1>2. values \in Ascending
  BY DEF SearchInv, TypeOK
<1>3. calls[1].selected \in SUBSET Positions
  BY FirstCall
<1> QED
  BY <1>1, <1>2, <1>3, PartOfList, MoreIsWorthMore

\* The best subset is one of the list, and there is at most one.
BestTyped == best \in SUBSET (SUBSET Positions) /\ Cardinality(best) <= 1

\* An exact best subset is of the type of best.
LEMMA BestTypes == BestIsExact => BestTyped
<1> SUFFICES ASSUME BestIsExact PROVE best \in SUBSET (SUBSET Positions) /\ Cardinality(best) <= 1
  BY DEF BestTyped
<1>1. CASE best = {}
  BY <1>1, FS_EmptySet
<1>2. CASE best # {}
  <2>1. PICK B \in best : best = {B}
    BY <1>2 DEF BestIsExact
  <2>2. Cardinality({B}) = 1
    BY FS_Singleton
  <2> QED
    BY <2>1, <2>2 DEF BestIsExact
<1> QED
  BY <1>1, <1>2

\* While the search runs nothing is returned, and the loop has taken nothing.
LEMMA SearchFrame ==
  ASSUME SearchInv, calls # <<>>, UNCHANGED <<values, amount, taken, outcome>>,
         calls' \in Seq(Call), NothingMissed', BestIsExact',
         \A k \in DOMAIN calls' : /\ calls'[k].index \in 1..(Len(values) + 1)
                                  /\ calls'[k].selected \in SUBSET (1..(calls'[k].index - 1))
  PROVE  SearchInv'
<1>1. amount > 0 /\ amount \in Int /\ outcome = Pending /\ taken = 0
  BY FirstCall
<1>2. best' \in SUBSET (SUBSET Positions) /\ Cardinality(best') <= 1
  <2>1. Positions' = Positions
    BY DEF Positions
  <2>2. BestTyped'
    BY BestTypes, PTL
  <2> QED
    BY <2>1, <2>2 DEF BestTyped
<1>3. TypeOK'
  BY <1>2 DEF SearchInv, TypeOK, Positions
<1>4. LoopBelowAmount'
  <2>1. Total(1..taken) < amount
    BY <1>1 DEF SearchInv, LoopBelowAmount
  <2> QED
    BY <1>1, <2>1 DEF LoopBelowAmount, Total
<1>5. ReturnsASelection'
  BY DEF SearchInv, ReturnsASelection, Positions, Total
<1> QED
  BY <1>1, <1>3, <1>4, <1>5 DEF SearchInv

\* Recording an exact selection misses nothing: it is the new best, or the
\* best is as short already (wallet.py:171-174).
LEMMA HitStep ==
  ASSUME SearchInv, Hit
  PROVE  SearchInv'
<1> DEFINE call == calls[1]
<1>1. /\ calls # <<>> /\ Total(call.selected) = amount /\ calls' = Tail(calls)
      /\ best' = IF Shorter(call.selected) THEN {call.selected} ELSE best
      /\ UNCHANGED <<values, amount, taken, outcome>>
  BY FirstCall DEF Hit
<1>2. /\ calls' \in Seq(Call)
      /\ \A k \in DOMAIN calls' : k + 1 \in DOMAIN calls /\ calls'[k] = calls[k + 1]
      /\ \A k \in DOMAIN calls : k # 1 => k - 1 \in DOMAIN calls' /\ calls'[k - 1] = calls[k]
  BY <1>1, StackFacts DEF SearchInv
<1>3. BestIsExact'
  <2>1. call.selected \in SUBSET Positions
    BY <1>1, FirstCall
  <2>2. Positions' = Positions /\ \A S : Total(S)' = Total(S)
    BY <1>1 DEF Positions, Total
  <2>3. \A B \in best' : B = call.selected \/ B \in best
    BY <1>1
  <2>4. \A B \in best' : B \in SUBSET Positions /\ Total(B) = amount
    BY <1>1, <2>1, <2>3 DEF SearchInv, BestIsExact
  <2>5. \A B, C \in best' : B = C
    BY <1>1 DEF SearchInv, BestIsExact
  <2> QED
    BY <1>1, <2>2, <2>4, <2>5 DEF BestIsExact
<1>4. NothingMissed'
  <2> SUFFICES ASSUME NEW R \in ExactSubsets(values, Positions, amount), Shorter(R)'
               PROVE  \E k \in DOMAIN calls' : Extends(R, calls'[k])
    BY <1>1, FirstCall DEF NothingMissed, Positions, Extends
  <2>1. \A B \in best' : Cardinality(R) < Cardinality(B)
    BY DEF Shorter
  <2>2. R \in SUBSET Positions /\ Cardinality(R) \in Nat /\ Cardinality(call.selected) \in Nat
    BY <1>1, FirstCall, PartOfList DEF SearchInv, TypeOK, ExactSubsets
  <2>3. \A B \in best : Cardinality(B) \in Nat
    BY PartOfList DEF SearchInv, TypeOK, BestIsExact
  <2>4. Shorter(R)
    <3>1. CASE Shorter(call.selected)
      <4>1. Cardinality(R) < Cardinality(call.selected)
        BY <1>1, <2>1, <3>1
      <4>2. \A B \in best : Cardinality(call.selected) < Cardinality(B)
        BY <3>1 DEF Shorter
      <4> QED
        BY <2>2, <2>3, <4>1, <4>2 DEF Shorter
    <3>2. CASE ~Shorter(call.selected)
      BY <1>1, <2>1, <3>2 DEF Shorter
    <3> QED
      BY <3>1, <3>2
  <2>5. PICK k \in DOMAIN calls : Extends(R, calls[k])
    BY <1>1, <2>4, FirstCall DEF SearchInv, NothingMissed
  <2>6. k # 1
    <3> SUFFICES ASSUME k = 1 PROVE FALSE
      OBVIOUS
    <3>1. Cardinality(call.selected) <= Cardinality(R)
      BY <1>1, <2>2, <2>5, ExtensionFacts
    <3>2. \E B \in best' : Cardinality(B) <= Cardinality(call.selected)
      <4>1. CASE Shorter(call.selected)
        BY <1>1, <2>2, <4>1
      <4>2. CASE ~Shorter(call.selected)
        BY <1>1, <2>2, <2>3, <4>2 DEF Shorter
      <4> QED
        BY <4>1, <4>2
    <3>3. \A B \in best' : Cardinality(B) \in Nat
      BY <1>1, <2>2, <2>3
    <3> QED
      BY <2>1, <2>2, <3>1, <3>2, <3>3
  <2> QED
    BY <1>2, <2>5, <2>6 DEF Extends
<1>5. ASSUME NEW k \in DOMAIN calls'
      PROVE  /\ calls'[k].index \in 1..(Len(values) + 1)
             /\ calls'[k].selected \in SUBSET (1..(calls'[k].index - 1))
  BY <1>2 DEF SearchInv, TypeOK
<1> QED
  BY <1>1, <1>2, <1>3, <1>4, <1>5, SearchFrame

\* Giving a call up misses nothing: no subset of exactly the amount extends
\* its selection and is shorter than the best (wallet.py:175-178).
LEMMA PruneStep ==
  ASSUME SearchInv, Prune
  PROVE  SearchInv'
<1> DEFINE call == calls[1]
<1>1. /\ calls # <<>> /\ Total(call.selected) # amount /\ GivesUp(call) /\ calls' = Tail(calls)
      /\ UNCHANGED <<values, amount, best, taken, outcome>>
  BY FirstCall DEF Prune
<1>2. /\ calls' \in Seq(Call)
      /\ \A k \in DOMAIN calls' : k + 1 \in DOMAIN calls /\ calls'[k] = calls[k + 1]
      /\ \A k \in DOMAIN calls : k # 1 => k - 1 \in DOMAIN calls' /\ calls'[k - 1] = calls[k]
  BY <1>1, StackFacts DEF SearchInv
<1>3. BestIsExact'
  BY <1>1 DEF SearchInv, BestIsExact, Positions, Total
<1>4. NothingMissed'
  <2> SUFFICES ASSUME NEW R \in ExactSubsets(values, Positions, amount), Shorter(R)
               PROVE  \E k \in DOMAIN calls' : Extends(R, calls'[k])
    BY <1>1, FirstCall DEF NothingMissed, Positions, Extends, Shorter
  <2>1. R \in SUBSET Positions /\ Total(R) = amount
    BY DEF ExactSubsets, Total
  <2>2. PICK k \in DOMAIN calls : Extends(R, calls[k])
    BY <1>1, FirstCall DEF SearchInv, NothingMissed
  <2>3. k # 1
    <3> SUFFICES ASSUME k = 1 PROVE FALSE
      OBVIOUS
    <3>1. /\ Total(call.selected) \in Nat /\ Total(R) \in Nat
          /\ Cardinality(call.selected) \in Nat /\ Cardinality(R) \in Nat
          /\ Total(call.selected) <= Total(R)
          /\ Cardinality(call.selected) <= Cardinality(R)
      BY <1>1, <2>1, <2>2, ExtensionFacts
    <3>2. CASE Total(call.selected) > amount
      BY <2>1, <3>1, <3>2
    <3>3. CASE call.index > Len(values)
      <4>1. call.index - 1 = Len(values) /\ Positions = 1..Len(values)
        BY <1>1, <3>3, FirstCall, ListFacts DEF SearchInv, TypeOK
      <4>2. R = call.selected
        BY <2>1, <2>2, <4>1 DEF Extends
      <4> QED
        BY <1>1, <2>1, <4>2
    <3>4. CASE ~Shorter(call.selected)
      <4>1. PICK B \in best : ~(Cardinality(call.selected) < Cardinality(B))
        BY <3>4 DEF Shorter
      <4>2. Cardinality(B) \in Nat /\ Cardinality(R) < Cardinality(B)
        BY PartOfList DEF SearchInv, TypeOK, BestIsExact, Shorter
      <4> QED
        BY <3>1, <4>1, <4>2
    <3> QED
      BY <1>1, <3>2, <3>3, <3>4 DEF GivesUp
  <2> QED
    BY <1>2, <2>2, <2>3 DEF Extends
<1>5. ASSUME NEW k \in DOMAIN calls'
      PROVE  /\ calls'[k].index \in 1..(Len(values) + 1)
             /\ calls'[k].selected \in SUBSET (1..(calls'[k].index - 1))
  BY <1>2 DEF SearchInv, TypeOK
<1> QED
  BY <1>1, <1>2, <1>3, <1>4, <1>5, SearchFrame

\* A subset that extends the selection either has the next token or not, and
\* there is a call for each (wallet.py:179-182).
LEMMA BranchStep ==
  ASSUME SearchInv, Branch
  PROVE  SearchInv'
<1> DEFINE call == calls[1]
           with == [index |-> call.index + 1, selected |-> call.selected \cup {call.index}]
           without == [index |-> call.index + 1, selected |-> call.selected]
<1>1. /\ calls # <<>> /\ ~GivesUp(call) /\ calls' = <<with, without>> \o Tail(calls)
      /\ UNCHANGED <<values, amount, best, taken, outcome>>
  BY FirstCall DEF Branch
<1>2. /\ call.index \in 1..Len(values) /\ call.index + 1 \in 1..(Len(values) + 1)
      /\ call.selected \in SUBSET (1..(call.index - 1)) /\ Len(values) \in Nat
  BY <1>1, FirstCall, ListFacts DEF GivesUp, SearchInv, TypeOK
<1>3. /\ with.index = call.index + 1 /\ with.selected = call.selected \cup {call.index}
      /\ without.index = call.index + 1 /\ without.selected = call.selected
      /\ with \in Call /\ without \in Call
  BY <1>2 DEF Call
<1> HIDE DEF with, without
<1>4. /\ calls' \in Seq(Call) /\ 1 \in DOMAIN calls' /\ 2 \in DOMAIN calls'
      /\ calls'[1] = with /\ calls'[2] = without
      /\ \A k \in DOMAIN calls' : \/ calls'[k] = with \/ calls'[k] = without
                                  \/ \E j \in DOMAIN calls : calls'[k] = calls[j]
      /\ \A k \in DOMAIN calls : k # 1 => k + 1 \in DOMAIN calls' /\ calls'[k + 1] = calls[k]
  <2>1. calls \in Seq(Call) /\ calls # <<>>
    BY <1>1 DEF SearchInv
  <2>2. calls' = <<with, without>> \o Tail(calls)
    BY <1>1
  <2> QED
    BY <1>3, <2>1, <2>2, TwoMoreFacts
<1>5. BestIsExact'
  BY <1>1 DEF SearchInv, BestIsExact, Positions, Total
<1>6. NothingMissed'
  <2> SUFFICES ASSUME NEW R \in ExactSubsets(values, Positions, amount), Shorter(R)
               PROVE  \E k \in DOMAIN calls' : Extends(R, calls'[k])
    BY <1>1, FirstCall DEF NothingMissed, Positions, Extends, Shorter
  <2>1. PICK k \in DOMAIN calls : Extends(R, calls[k])
    BY <1>1, FirstCall DEF SearchInv, NothingMissed
  <2>2. CASE k # 1
    BY <1>4, <2>1, <2>2 DEF Extends
  <2>3. CASE k = 1
    <3>1. R \cap (1..(call.index - 1)) = call.selected
      BY <2>1, <2>3 DEF Extends
    <3>2. 1..((call.index + 1) - 1) = (1..(call.index - 1)) \cup {call.index}
      BY <1>2
    <3>3. CASE call.index \in R
      <4>1. R \cap (1..(with.index - 1)) = with.selected
        BY <1>3, <3>1, <3>2, <3>3
      <4> QED
        BY <1>4, <4>1 DEF Extends
    <3>4. CASE call.index \notin R
      <4>1. R \cap (1..(without.index - 1)) = without.selected
        BY <1>3, <3>1, <3>2, <3>4
      <4> QED
        BY <1>4, <4>1 DEF Extends
    <3> QED
      BY <3>3, <3>4
  <2> QED
    BY <2>2, <2>3
<1>7. ASSUME NEW k \in DOMAIN calls'
      PROVE  /\ calls'[k].index \in 1..(Len(values) + 1)
             /\ calls'[k].selected \in SUBSET (1..(calls'[k].index - 1))
  <2>1. CASE calls'[k] = with
    <3>1. with.selected \in SUBSET (1..(with.index - 1)) /\ with.index \in 1..(Len(values) + 1)
      <4>1. with.index - 1 = call.index /\ call.index \in 1..call.index
        BY <1>2, <1>3
      <4>2. 1..(call.index - 1) \subseteq 1..call.index
        BY <1>2
      <4> QED
        BY <1>2, <1>3, <4>1, <4>2
    <3> QED
      BY <2>1, <3>1
  <2>3. CASE calls'[k] = without
    <3>1. without.index - 1 = call.index /\ 1..(call.index - 1) \subseteq 1..call.index
      BY <1>2, <1>3
    <3> QED
      BY <1>2, <1>3, <2>3, <3>1
  <2>2. CASE \E j \in DOMAIN calls : calls'[k] = calls[j]
    BY <2>2 DEF SearchInv, TypeOK
  <2> QED
    BY <1>4, <2>1, <2>2, <2>3
<1> QED
  BY <1>1, <1>4, <1>5, <1>6, <1>7, SearchFrame
-----------------------------------------------------------------------------
(* Returning (wallet.py:62-72) *)

\* Once the search is over every exact subset is at least as long as the best,
\* and there is none when nothing was found.
LEMMA SearchComplete ==
  ASSUME SearchInv, SearchOver
  PROVE  \A R \in ExactSubsets(values, Positions, amount) :
           \E B \in best : Cardinality(B) <= Cardinality(R)
<1> SUFFICES ASSUME NEW R \in ExactSubsets(values, Positions, amount)
             PROVE  \E B \in best : Cardinality(B) <= Cardinality(R)
  OBVIOUS
<1>1. amount > 0 /\ calls = <<>>
  BY DEF SearchInv, SearchOver, LoopBelowAmount
<1>2. ~Shorter(R)
  BY <1>1 DEF SearchInv, NothingMissed
<1>3. R \in SUBSET Positions /\ values \in Ascending
  BY DEF SearchInv, TypeOK, ExactSubsets
<1>4. \A S \in SUBSET Positions : Cardinality(S) \in Nat
  BY <1>3, PartOfList
<1>5. PICK B \in best : ~(Cardinality(R) < Cardinality(B))
  BY <1>2 DEF Shorter
<1> QED
  BY <1>3, <1>4, <1>5 DEF SearchInv, BestIsExact

\* What is left to show when select_tokens returns or the loop goes on.
LEMMA LoopFrame ==
  ASSUME SearchInv, SearchOver, UNCHANGED <<values, amount, calls, best>>,
         taken' \in 0..Len(values),
         outcome' \in {Pending, Raised} \cup {Returned(S) : S \in SUBSET Positions},
         LoopBelowAmount', ReturnsASelection'
  PROVE  SearchInv'
<1>1. TypeOK'
  BY DEF SearchInv, TypeOK, Positions
<1>2. NothingMissed'
  BY DEF SearchInv, NothingMissed, Positions, Shorter, Extends
<1>3. BestIsExact'
  BY DEF SearchInv, BestIsExact, Positions, Total
<1> QED
  BY <1>1, <1>2, <1>3 DEF SearchInv, SearchOver

\* The best subset found is a smallest one.
LEMMA ReturnExactStep ==
  ASSUME SearchInv, ReturnExact
  PROVE  SearchInv'
<1>1. SearchOver /\ UNCHANGED <<values, amount, calls, best, taken>>
  BY DEF ReturnExact
<1>2. PICK B \in best : outcome' = Returned(B)
  BY DEF ReturnExact
<1>3. B \in SUBSET Positions /\ Worth(values, B) = amount
  BY DEF SearchInv, BestIsExact, Total
<1>4. amount > 0
  BY <1>1 DEF SearchOver, SearchInv, LoopBelowAmount
<1>5. B \in SelectTokens(values, Positions, amount)
  <2>1. B \in ExactSubsets(values, Positions, amount)
    BY <1>3 DEF ExactSubsets
  <2>2. \A Q \in ExactSubsets(values, Positions, amount) : Cardinality(B) <= Cardinality(Q)
    BY <1>1, SearchComplete DEF SearchInv, BestIsExact
  <2>3. B \in SmallestExact(values, Positions, amount)
    BY <2>1, <2>2 DEF SmallestExact
  <2> QED
    BY <1>4, <2>1, <2>3 DEF SelectTokens, SearchInv, TypeOK
<1>6. ReturnsASelection'
  BY <1>1, <1>2, <1>5 DEF ReturnsASelection, Returned, Positions
<1>7. LoopBelowAmount'
  BY <1>2 DEF LoopBelowAmount, Returned, Pending
<1> QED
  BY <1>1, <1>2, <1>3, <1>6, <1>7, LoopFrame DEF SearchInv, TypeOK

\* One more token leaves the total below the amount, or makes a cover whose
\* last token reaches it.
LEMMA TakeNextStep ==
  ASSUME SearchInv, TakeNext
  PROVE  SearchInv'
<1> DEFINE R == 1..(taken + 1)
<1>1. /\ SearchOver /\ best = {} /\ calls = <<>> /\ outcome = Pending /\ taken < Len(values)
      /\ taken' = taken + 1 /\ UNCHANGED <<values, amount, calls, best>>
      /\ outcome' = IF Total(R) >= amount THEN Returned(R) ELSE outcome
  BY DEF TakeNext, SearchOver
<1>2. amount > 0 /\ Total(1..taken) < amount /\ amount \in Int /\ taken \in Nat
  BY <1>1 DEF SearchInv, TypeOK, LoopBelowAmount
<1>3. /\ Len(values) \in Nat /\ Positions = 1..Len(values)
      /\ \A p, q \in Positions : p < q => values[p] <= values[q]
      /\ \A p \in Positions : values[p] \in Nat
  BY ListFacts DEF SearchInv, TypeOK
<1>4. taken' \in 0..Len(values) /\ R \in SUBSET Positions
  BY <1>1, <1>2, <1>3
<1>5. Total(R) \in Nat
  BY <1>4, PartOfList DEF SearchInv, TypeOK
<1>6. CASE Total(R) >= amount
  <2>1. R \in AscendingCover(values, Positions, amount)
    <3>1. \A c \in R, d \in Positions \ R : values[c] <= values[d]
      <4>1. \A c \in R, d \in Positions \ R : c \in Positions /\ d \in Positions /\ c < d
        BY <1>2, <1>3, <1>4
      <4> QED
        BY <1>3, <4>1
    <3>2. Worth(values, R) >= amount
      BY <1>6 DEF Total
    <3>3. taken + 1 \in R /\ Worth(values, R \ {taken + 1}) < amount
      <4>1. R \ {taken + 1} = 1..taken /\ taken + 1 \in R
        BY <1>2
      <4>2. Worth(values, 1..taken) < amount
        BY <1>2 DEF Total
      <4> QED
        BY <4>1, <4>2
    <3>4. \A c \in R : values[c] <= values[taken + 1]
      <4>1. \A c \in R : c = taken + 1 \/ c < taken + 1
        BY <1>2
      <4>2. taken + 1 \in Positions /\ values[taken + 1] \in Nat
        BY <1>1, <1>2, <1>3
      <4> QED
        BY <1>3, <1>4, <4>1, <4>2
    <3> HIDE DEF R
    <3> QED
      BY <1>4, <3>1, <3>2, <3>3, <3>4 DEF AscendingCover
  <2>2. ExactSubsets(values, Positions, amount) = {}
    BY <1>1, SearchComplete
  <2>3. R \in SelectTokens(values, Positions, amount)
    BY <1>2, <2>1, <2>2 DEF SelectTokens
  <2>4. outcome' = Returned(R)
    BY <1>1, <1>6
  <2> HIDE DEF R
  <2>5. ReturnsASelection'
    BY <1>1, <2>3, <2>4 DEF ReturnsASelection, Returned, Positions
  <2>6. LoopBelowAmount'
    BY <2>4 DEF LoopBelowAmount, Returned, Pending
  <2> QED
    BY <1>1, <1>4, <2>4, <2>5, <2>6, LoopFrame
<1>7. CASE ~(Total(R) >= amount)
  <2>1. outcome' = Pending
    BY <1>1, <1>7
  <2>2. ReturnsASelection'
    BY <2>1 DEF ReturnsASelection, Pending
  <2>3. Total(1..taken)' < amount'
    <3>1. Total(1..taken)' = Total(R)
      BY <1>1 DEF Total
    <3> HIDE DEF R
    <3> QED
      BY <1>1, <1>2, <1>5, <1>7, <3>1
  <2>4. LoopBelowAmount'
    <3> HIDE DEF R
    <3> QED
      BY <1>1, <1>2, <2>3 DEF LoopBelowAmount
  <2> QED
    BY <1>1, <1>4, <2>1, <2>2, <2>4, LoopFrame
<1> QED
  BY <1>6, <1>7

\* The loop has taken every token and not reached the amount: no subset does.
LEMMA RaiseStep ==
  ASSUME SearchInv, RaiseInsufficient
  PROVE  SearchInv'
<1>1. /\ SearchOver /\ best = {} /\ calls = <<>> /\ outcome = Pending /\ taken = Len(values)
      /\ outcome' = Raised /\ UNCHANGED <<values, amount, calls, best, taken>>
  BY DEF RaiseInsufficient, SearchOver
<1>2. amount > 0 /\ Total(Positions) < amount /\ amount \in Int
  BY <1>1 DEF SearchInv, TypeOK, LoopBelowAmount, Positions
<1>3. ReturnsASelection'
  BY <1>1, <1>2 DEF ReturnsASelection, Raised, Positions, Total
<1>4. LoopBelowAmount'
  BY <1>1 DEF LoopBelowAmount, Raised, Pending
<1> QED
  BY <1>1, <1>3, <1>4, LoopFrame DEF SearchInv, TypeOK
-----------------------------------------------------------------------------
(* The results *)

\* A call of select_tokens satisfies the invariant from its first test
\* (wallet.py:54-61).
LEMMA InitSearch == Init => SearchInv
<1> SUFFICES ASSUME Init PROVE SearchInv
  OBVIOUS
<1> DEFINE first == [index |-> 1, selected |-> {}]
<1>1. /\ values \in Ascending /\ amount \in Int /\ best = {} /\ taken = 0
      /\ amount > 0 => calls = <<first>> /\ outcome = Pending
      /\ ~(amount > 0) => calls = <<>>
      /\ amount = 0 => outcome = Returned({})
      /\ amount < 0 => outcome = Raised
  <2>1. amount \in Int /\ MaxAmount \in Int
    BY SelectionAssumption DEF Init
  <2>2. amount > 0 => outcome = Pending
    BY <2>1 DEF Init
  <2>3. amount = 0 => outcome = Returned({})
    BY <2>1 DEF Init
  <2>4. amount < 0 => outcome = Raised
    BY <2>1 DEF Init
  <2> QED
    BY <2>1, <2>2, <2>3, <2>4 DEF Init
<1>2. Len(values) \in Nat
  BY <1>1, ListFacts
<1>3. first \in Call /\ first.index = 1 /\ first.selected = {}
  BY DEF Call
<1> HIDE DEF first
<1>4. calls \in Seq(Call) /\ \A k \in DOMAIN calls : amount > 0 /\ calls[k] = first
  <2>1. CASE amount > 0
    <3>1. <<first>> \in Seq(Call) /\ DOMAIN <<first>> = {1} /\ <<first>>[1] = first
      BY <1>3
    <3> QED
      BY <1>1, <2>1, <3>1
  <2>2. CASE ~(amount > 0)
    BY <1>1, <2>2
  <2> QED
    BY <2>1, <2>2
<1>5. Total(1..taken) = 0
  <2>1. 1..taken = {}
    BY <1>1
  <2>2. Worth(values, {}) = 0
    BY FS_EmptySet, WorthRecursion
  <2> QED
    BY <2>1, <2>2 DEF Total
<1>6. TypeOK
  <2>1. Cardinality(best) <= 1
    BY <1>1, FS_EmptySet
  <2>2. outcome \in {Pending, Raised} \cup {Returned(S) : S \in SUBSET Positions}
    <3>1. {} \in SUBSET Positions
      OBVIOUS
    <3> QED
      BY <1>1, <3>1
  <2>3. \A k \in DOMAIN calls : /\ calls[k].index \in 1..(Len(values) + 1)
                                /\ calls[k].selected \in SUBSET (1..(calls[k].index - 1))
    BY <1>2, <1>3, <1>4
  <2> QED
    BY <1>1, <1>2, <2>1, <2>2, <2>3 DEF TypeOK
<1>7. NothingMissed
  <2> SUFFICES ASSUME amount > 0, NEW R \in ExactSubsets(values, Positions, amount)
               PROVE  \E k \in DOMAIN calls : Extends(R, calls[k])
    BY DEF NothingMissed
  <2>1. 1 \in DOMAIN calls /\ calls[1] = first
    BY <1>1
  <2> QED
    BY <1>3, <2>1 DEF Extends
<1>8. BestIsExact
  BY <1>1 DEF BestIsExact
<1>9. LoopBelowAmount
  BY <1>1, <1>5 DEF LoopBelowAmount, Pending, Raised, Returned
<1>10. ReturnsASelection
  BY <1>1 DEF ReturnsASelection, SelectTokens, Pending, Raised, Returned
<1> QED
  BY <1>1, <1>4, <1>6, <1>7, <1>8, <1>9, <1>10 DEF SearchInv

\* Every call of the search and every turn of the loop preserves the
\* invariant.
LEMMA SearchStep ==
  ASSUME SearchInv, [Next]_vars
  PROVE  SearchInv'
<1>1. CASE UNCHANGED vars
  BY <1>1 DEF vars, SearchInv, TypeOK, NothingMissed, BestIsExact, LoopBelowAmount,
              ReturnsASelection, Positions, Total, Shorter, Extends
<1> QED
  BY <1>1, HitStep, PruneStep, BranchStep, ReturnExactStep, TakeNextStep, RaiseStep DEF Next

\* The invariant holds throughout a call of select_tokens (wallet.py:53-72),
\* for lists of any length, any values and any amount.
THEOREM Search == Spec => []SearchInv
<1>1. SearchInv /\ [Next]_vars => SearchInv'
  BY SearchStep
<1> QED
  BY InitSearch, <1>1, PTL DEF Spec

\* The calls to be made are of positions in or just past the list, and at
\* most one best subset is kept (wallet.py:165-185).
THEOREM Typing == Spec => []TypeOK
<1>1. SearchInv => TypeOK
  BY DEF SearchInv
<1> QED
  BY Search, <1>1, PTL

\* The pruning of the search (wallet.py:175-178) never drops the only way to
\* an exact subset shorter than the best one found.
THEOREM SearchMissesNothing == Spec => []NothingMissed
<1>1. SearchInv => NothingMissed
  BY DEF SearchInv
<1> QED
  BY Search, <1>1, PTL

\* select_tokens returns a smallest subset of exactly the amount where there is
\* one, and else the tokens in ascending order of value up to the one that
\* reaches the amount; it raises only for a negative amount or when all tokens
\* together do not reach it (wallet.py:53-72).
THEOREM SelectionCorrect == Spec => []ReturnsASelection
<1>1. SearchInv => ReturnsASelection
  BY DEF SearchInv
<1> QED
  BY Search, <1>1, PTL
=============================================================================
