-------------------------- MODULE SelectionLemmas --------------------------
(***************************************************************************)
(* Facts about Worth, the running totals of wallet/wallet.py:53-72: the    *)
(* total of a finite set of tokens is a number, does not depend on the     *)
(* order the tokens are added in, and the total of two sets that share no  *)
(* token is the sum of theirs.  Worth is a fold, a function defined by     *)
(* recursion over the subsets of a set.  Each induction takes a smallest   *)
(* set that refutes the claim (SmallestOf) and derives a contradiction.    *)
(***************************************************************************)
EXTENDS Selection, FiniteSetTheorems, TLAPS

\* The token added next, whichever the fold picks.
Pick(s) == CHOOSE x \in s : TRUE

\* The equation of the fold over the subsets of S.
IsTotal(val, S, f) ==
  f = [s \in SUBSET S |-> IF s = {} THEN 0 ELSE val[Pick(s)] + f[s \ {Pick(s)}]]

\* Of any family of finite sets, one has no strict subset in the family.
LEMMA SmallestOf ==
  ASSUME NEW S, IsFiniteSet(S), NEW F \in SUBSET (SUBSET S), F # {}
  PROVE  \E m \in F : \A s \in F : s \subseteq m => s = m
<1> DEFINE R == StrictSubsetOrdering(S)
<1>1. IsWellFoundedOn(R, FiniteSubsetsOf(S))
  BY FS_StrictSubsetOrderingWellFounded
<1>2. F \subseteq FiniteSubsetsOf(S)
  BY FS_Subset DEF FiniteSubsetsOf
<1>3. PICK m \in F : \A s \in F : ~ (<<s, m>> \in R)
  <2> HIDE DEF R
  <2> QED
    BY <1>1, <1>2, WFMin
<1>4. \A s \in F : s \subseteq m => s = m
  BY <1>3 DEF StrictSubsetOrdering
<1> QED
  BY <1>4

\* The token added next is one of the set, and the others are fewer.
LEMMA PickFacts ==
  ASSUME NEW s, s # {}
  PROVE  Pick(s) \in s /\ s \ {Pick(s)} \subseteq s /\ s \ {Pick(s)} # s
<1>1. Pick(s) \in s
  BY DEF Pick
<1> QED
  BY <1>1

\* Two folds agree on the sets they are both defined on.
LEMMA TotalsAgree ==
  ASSUME NEW val, NEW A, NEW B, IsFiniteSet(A), NEW f, NEW g,
         IsTotal(val, A, f), IsTotal(val, B, g)
  PROVE  \A s \in SUBSET (A \cap B) : f[s] = g[s]
<1> DEFINE Bad == {s \in SUBSET (A \cap B) : f[s] # g[s]}
<1> SUFFICES ASSUME Bad # {} PROVE FALSE
  OBVIOUS
<1>1. PICK m \in Bad : \A s \in Bad : s \subseteq m => s = m
  <2>1. Bad \in SUBSET (SUBSET A)
    OBVIOUS
  <2> HIDE DEF Bad
  <2> QED
    BY <2>1, SmallestOf
<1>2. m \in SUBSET A /\ m \in SUBSET B /\ f[m] # g[m]
  OBVIOUS
<1>3. m # {}
  <2>1. {} \in SUBSET A /\ {} \in SUBSET B
    OBVIOUS
  <2>2. f[{}] = 0 /\ g[{}] = 0
    BY <2>1 DEF IsTotal
  <2> QED
    BY <1>2, <2>2
<1> DEFINE r == m \ {Pick(m)}
<1>4. r \in SUBSET A /\ r \in SUBSET B /\ r \subseteq m /\ r # m
  BY <1>2, <1>3, PickFacts
<1>5. f[r] = g[r]
  BY <1>1, <1>4
<1>6. f[m] = val[Pick(m)] + f[r] /\ g[m] = val[Pick(m)] + g[r]
  <2>1. \A h, C : m \in SUBSET C /\ IsTotal(val, C, h) => h[m] = val[Pick(m)] + h[r]
    BY <1>3 DEF IsTotal
  <2> QED
    BY <1>2, <2>1
<1> QED
  BY <1>2, <1>5, <1>6

\* The recursion over the subsets of a finite set has a solution.
LEMMA TotalExists ==
  ASSUME NEW val, NEW S, IsFiniteSet(S)
  PROVE  \E f : IsTotal(val, S, f)
<1> DEFINE Bad == {T \in SUBSET S : ~ \E f : IsTotal(val, T, f)}
<1> SUFFICES ASSUME Bad # {} PROVE FALSE
  OBVIOUS
<1>1. PICK m \in Bad : \A s \in Bad : s \subseteq m => s = m
  <2>1. Bad \in SUBSET (SUBSET S)
    OBVIOUS
  <2> HIDE DEF Bad
  <2> QED
    BY <2>1, SmallestOf
<1>2. m \in SUBSET S /\ IsFiniteSet(m) /\ ~ \E f : IsTotal(val, m, f)
  BY FS_Subset
<1> DEFINE fold(T) == CHOOSE f : IsTotal(val, T, f)
<1>3. \A T \in SUBSET m : T # m => IsTotal(val, T, fold(T))
  BY <1>1, <1>2
<1> DEFINE h == [s \in SUBSET m |->
                   IF s = {} THEN 0 ELSE val[Pick(s)] + fold(s \ {Pick(s)})[s \ {Pick(s)}]]
<1>4. \A T \in SUBSET m : T # m => h[T] = fold(T)[T]
  <2> SUFFICES ASSUME NEW T \in SUBSET m, T # m PROVE h[T] = fold(T)[T]
    OBVIOUS
  <2>1. IsTotal(val, T, fold(T))
    BY <1>3
  <2>2. fold(T)[T] = IF T = {} THEN 0 ELSE val[Pick(T)] + fold(T)[T \ {Pick(T)}]
    <3>1. T \in SUBSET T
      OBVIOUS
    <3> HIDE DEF fold
    <3> QED
      BY <2>1, <3>1 DEF IsTotal
  <2>3. CASE T = {}
    BY <2>2, <2>3
  <2>4. CASE T # {}
    <3> DEFINE r == T \ {Pick(T)}
    <3>1. r \in SUBSET m /\ r # m /\ r \in SUBSET (T \cap r)
      BY <2>4, PickFacts
    <3>2. IsTotal(val, r, fold(r))
      BY <1>3, <3>1
    <3>3. fold(T)[r] = fold(r)[r]
      <4>1. IsFiniteSet(T)
        BY <1>2, FS_Subset
      <4> HIDE DEF r, fold
      <4> QED
        BY <2>1, <3>1, <3>2, <4>1, TotalsAgree
    <3>4. h[T] = val[Pick(T)] + fold(r)[r]
      BY <2>4
    <3>5. fold(T)[T] = val[Pick(T)] + fold(T)[r]
      BY <2>2, <2>4
    <3> QED
      BY <3>3, <3>4, <3>5
  <2> QED
    BY <2>3, <2>4
<1>5. IsTotal(val, m, h)
  <2>1. \A s \in SUBSET m : s # {} => fold(s \ {Pick(s)})[s \ {Pick(s)}] = h[s \ {Pick(s)}]
    <3> SUFFICES ASSUME NEW s \in SUBSET m, s # {}
                 PROVE  fold(s \ {Pick(s)})[s \ {Pick(s)}] = h[s \ {Pick(s)}]
      OBVIOUS
    <3>1. s \ {Pick(s)} \in SUBSET m /\ s \ {Pick(s)} # m
      BY PickFacts
    <3> HIDE DEF h, fold
    <3> QED
      BY <1>4, <3>1
  <2>2. h = [s \in SUBSET m |-> IF s = {} THEN 0 ELSE val[Pick(s)] + h[s \ {Pick(s)}]]
    <3>1. h = [s \in SUBSET m |->
                 IF s = {} THEN 0 ELSE val[Pick(s)] + fold(s \ {Pick(s)})[s \ {Pick(s)}]]
      OBVIOUS
    <3> HIDE DEF h, fold
    <3> QED
      BY <2>1, <3>1
  <2> HIDE DEF h, fold
  <2> QED
    BY <2>2 DEF IsTotal
<1> QED
  BY <1>2, <1>5

\* The total of no token is 0, and the total of a set is the value of the
\* token added last and the total of the others.
LEMMA WorthRecursion ==
  ASSUME NEW val, NEW S, IsFiniteSet(S)
  PROVE  Worth(val, S) = IF S = {} THEN 0 ELSE val[Pick(S)] + Worth(val, S \ {Pick(S)})
<1>1. \A T \in SUBSET S : \A f : IsTotal(val, T, f) => Worth(val, T) = f[T]
  <2> SUFFICES ASSUME NEW T \in SUBSET S, NEW f, IsTotal(val, T, f) PROVE Worth(val, T) = f[T]
    OBVIOUS
  <2>1. Worth(val, T) = (CHOOSE g : IsTotal(val, T, g))[T]
    BY DEF Worth, MapThenSumSet, MapThenFoldSet, IsTotal, Pick
  <2>2. IsTotal(val, T, CHOOSE g : IsTotal(val, T, g))
    OBVIOUS
  <2> DEFINE g == CHOOSE g : IsTotal(val, T, g)
  <2>3. IsFiniteSet(T) /\ T \in SUBSET (T \cap T)
    BY FS_Subset
  <2> HIDE DEF g
  <2>4. g[T] = f[T]
    BY <2>2, <2>3, TotalsAgree DEF g
  <2> QED
    BY <2>1, <2>4 DEF g
<1>2. PICK f : IsTotal(val, S, f)
  BY TotalExists
<1>3. Worth(val, S) = f[S]
  BY <1>1, <1>2
<1>4. CASE S = {}
  <2>1. f[S] = 0
    BY <1>2, <1>4 DEF IsTotal
  <2> QED
    BY <1>3, <1>4, <2>1
<1>5. CASE S # {}
  <2> DEFINE r == S \ {Pick(S)}
  <2>1. r \in SUBSET (S \cap r) /\ IsFiniteSet(r)
    BY FS_Subset
  <2>2. PICK g : IsTotal(val, r, g)
    BY <2>1, TotalExists
  <2>3. f[r] = g[r]
    BY <1>2, <2>1, <2>2, TotalsAgree
  <2>4. Worth(val, r) = g[r]
    BY <1>1, <2>2
  <2>5. f[S] = val[Pick(S)] + f[r]
    BY <1>2, <1>5 DEF IsTotal
  <2> QED
    BY <1>3, <1>5, <2>3, <2>4, <2>5
<1> QED
  BY <1>4, <1>5

\* The total of a finite set of tokens with values in Nat is in Nat.
LEMMA WorthType ==
  ASSUME NEW val, NEW S, IsFiniteSet(S), \A t \in S : val[t] \in Nat
  PROVE  Worth(val, S) \in Nat
<1> DEFINE Bad == {T \in SUBSET S : Worth(val, T) \notin Nat}
<1> SUFFICES ASSUME Bad # {} PROVE FALSE
  OBVIOUS
<1>1. PICK m \in Bad : \A s \in Bad : s \subseteq m => s = m
  <2>1. Bad \in SUBSET (SUBSET S)
    OBVIOUS
  <2> HIDE DEF Bad
  <2> QED
    BY <2>1, SmallestOf
<1>2. m \in SUBSET S /\ Worth(val, m) \notin Nat /\ IsFiniteSet(m)
  BY FS_Subset
<1>3. Worth(val, m) = IF m = {} THEN 0 ELSE val[Pick(m)] + Worth(val, m \ {Pick(m)})
  BY <1>2, WorthRecursion
<1>4. m # {}
  BY <1>2, <1>3
<1> DEFINE r == m \ {Pick(m)}
<1>5. r \in SUBSET S /\ r \subseteq m /\ r # m /\ Pick(m) \in S
  BY <1>2, <1>4, PickFacts
<1>6. Worth(val, r) \in Nat
  BY <1>1, <1>5
<1> QED
  BY <1>2, <1>3, <1>4, <1>5, <1>6

\* Any token may be the one that is added last.
LEMMA WorthRemove ==
  ASSUME NEW val, NEW S, IsFiniteSet(S), \A t \in S : val[t] \in Nat, NEW x \in S
  PROVE  Worth(val, S) = val[x] + Worth(val, S \ {x})
<1> DEFINE Bad == {T \in SUBSET S : \E y \in T : Worth(val, T) # val[y] + Worth(val, T \ {y})}
<1> SUFFICES ASSUME Bad # {} PROVE FALSE
  OBVIOUS
<1>1. PICK m \in Bad : \A s \in Bad : s \subseteq m => s = m
  <2>1. Bad \in SUBSET (SUBSET S)
    OBVIOUS
  <2> HIDE DEF Bad
  <2> QED
    BY <2>1, SmallestOf
<1>2. m \in SUBSET S /\ \A T \in SUBSET m : IsFiniteSet(T)
  BY FS_Subset
<1>3. PICK y \in m : Worth(val, m) # val[y] + Worth(val, m \ {y})
  OBVIOUS
<1> DEFINE p == Pick(m)
           r == m \ {p}
           q == m \ {y}
           rest == m \ {p, y}
<1>4. p \in m /\ r \subseteq m /\ r # m
  BY <1>3, PickFacts
<1> HIDE DEF p
<1>5. Worth(val, m) = val[p] + Worth(val, r)
  BY <1>2, <1>3, WorthRecursion DEF p
<1>6. p # y
  BY <1>3, <1>5
<1>7. r \notin Bad /\ q \notin Bad
  BY <1>1, <1>3, <1>4
<1>8. y \in r /\ p \in q /\ r \in SUBSET S /\ q \in SUBSET S /\ r \ {y} = rest /\ q \ {p} = rest
  BY <1>2, <1>3, <1>4, <1>6
<1>9. Worth(val, r) = val[y] + Worth(val, rest) /\ Worth(val, q) = val[p] + Worth(val, rest)
  BY <1>7, <1>8
<1>10. Worth(val, rest) \in Nat /\ val[p] \in Nat /\ val[y] \in Nat
  <2>1. rest \in SUBSET m
    OBVIOUS
  <2> QED
    BY <1>2, <1>3, <1>4, <2>1, WorthType
<1>11. Worth(val, m) = val[y] + Worth(val, q)
  BY <1>5, <1>9, <1>10
<1> QED
  BY <1>3, <1>11

\* The total of two sets that share no token is the sum of their totals.
LEMMA WorthUnion ==
  ASSUME NEW val, NEW A, NEW B, IsFiniteSet(A \cup B), \A t \in A \cup B : val[t] \in Nat,
         A \cap B = {}
  PROVE  Worth(val, A \cup B) = Worth(val, A) + Worth(val, B)
<1> DEFINE Bad == {T \in SUBSET B : Worth(val, A \cup T) # Worth(val, A) + Worth(val, T)}
<1> SUFFICES ASSUME Bad # {} PROVE FALSE
  OBVIOUS
<1>1. PICK m \in Bad : \A s \in Bad : s \subseteq m => s = m
  <2>1. Bad \in SUBSET (SUBSET B) /\ IsFiniteSet(B)
    BY FS_Subset
  <2> HIDE DEF Bad
  <2> QED
    BY <2>1, SmallestOf
<1>2. /\ m \in SUBSET B /\ Worth(val, A \cup m) # Worth(val, A) + Worth(val, m)
      /\ \A T \in SUBSET (A \cup B) : IsFiniteSet(T) /\ Worth(val, T) \in Nat
  BY FS_Subset, WorthType
<1>3. m # {}
  <2>1. Worth(val, {}) = 0
    BY FS_EmptySet, WorthRecursion
  <2> QED
    BY <1>2, <2>1
<1>4. PICK x \in m : TRUE
  BY <1>3
<1> DEFINE r == m \ {x}
<1>5. Worth(val, A \cup r) = Worth(val, A) + Worth(val, r)
  BY <1>1, <1>2, <1>4
<1>6. Worth(val, m) = val[x] + Worth(val, r)
  BY <1>2, <1>4, WorthRemove
<1>7. Worth(val, A \cup m) = val[x] + Worth(val, A \cup r)
  <2>1. (A \cup m) \ {x} = A \cup r /\ A \cup m \in SUBSET (A \cup B) /\ x \in A \cup m
    BY <1>2, <1>4
  <2>2. Worth(val, A \cup m) = val[x] + Worth(val, (A \cup m) \ {x})
    BY <1>2, <2>1, WorthRemove
  <2> QED
    BY <2>1, <2>2
<1>8. /\ Worth(val, A) \in Nat /\ Worth(val, r) \in Nat /\ val[x] \in Nat
  BY <1>2, <1>4
<1> QED
  BY <1>2, <1>5, <1>6, <1>7, <1>8

\* Taking tokens away takes their total away.
LEMMA WorthDifference ==
  ASSUME NEW val, NEW S, IsFiniteSet(S), \A t \in S : val[t] \in Nat, NEW R \in SUBSET S
  PROVE  /\ Worth(val, R) \in Nat /\ Worth(val, S \ R) \in Nat
         /\ Worth(val, S) = Worth(val, R) + Worth(val, S \ R)
<1>1. S = R \cup (S \ R) /\ R \cap (S \ R) = {}
  OBVIOUS
<1>2. IsFiniteSet(R) /\ IsFiniteSet(S \ R)
  BY FS_Subset
<1>3. Worth(val, R) \in Nat /\ Worth(val, S \ R) \in Nat
  BY <1>2, WorthType
<1>4. Worth(val, R \cup (S \ R)) = Worth(val, R) + Worth(val, S \ R)
  BY <1>1, WorthUnion
<1> QED
  BY <1>1, <1>3, <1>4

\* Some of the tokens are worth at most as much as all of them.
LEMMA WorthMonotone ==
  ASSUME NEW val, NEW S, IsFiniteSet(S), \A t \in S : val[t] \in Nat, NEW R \in SUBSET S
  PROVE  Worth(val, R) <= Worth(val, S)
<1>1. S = R \cup (S \ R) /\ IsFiniteSet(R) /\ IsFiniteSet(S \ R)
  BY FS_Subset
<1>2. Worth(val, R) \in Nat /\ Worth(val, S \ R) \in Nat
  BY <1>1, WorthType
<1>3. Worth(val, R \cup (S \ R)) = Worth(val, R) + Worth(val, S \ R)
  BY <1>1, WorthUnion
<1>4. Worth(val, S) = Worth(val, R) + Worth(val, S \ R)
  BY <1>1, <1>3
<1> QED
  BY <1>2, <1>4

\* What select_tokens returns is tokens of the wallet worth at least the
\* amount, and nothing for an amount of zero; a negative amount raises.
LEMMA SelectTokensFacts ==
  ASSUME NEW val, NEW S, NEW amount \in Int, NEW R \in SelectTokens(val, S, amount)
  PROVE  /\ R \in SUBSET S /\ amount >= 0 /\ Worth(val, R) >= amount
         /\ amount = 0 => R = {}
<1>1. amount >= 0
  BY DEF SelectTokens
<1>2. CASE amount = 0
  <2>1. R = {}
    BY <1>2 DEF SelectTokens
  <2>2. Worth(val, {}) = 0
    BY FS_EmptySet, WorthRecursion
  <2> QED
    BY <1>2, <2>1, <2>2
<1>3. CASE amount > 0
  <2>1. R \in SmallestExact(val, S, amount) \/ R \in AscendingCover(val, S, amount)
    BY <1>3 DEF SelectTokens
  <2> QED
    BY <1>3, <2>1 DEF SmallestExact, ExactSubsets, AscendingCover
<1> QED
  BY <1>1, <1>2, <1>3
=============================================================================
