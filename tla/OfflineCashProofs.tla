------------------------- MODULE OfflineCashProofs -------------------------
(***************************************************************************)
(* Proofs about OfflineCash, of every safety property its runs check.      *)
(* A token is in one place at a time: in the vault, in one wallet or on    *)
(* its way in one bundle.  The wallet or the bundle knows all transfers it *)
(* has made (Custody).  That is what keeps a replayed bundle from being    *)
(* taken in and what makes all transfers of a token lie on one chain.      *)
(*                                                                         *)
(* receive_bundle and process_bundle go through a bundle in a loop, which  *)
(* the model writes as FoldLeft.  ReceiveRun and ProcessRun give the       *)
(* results after each transfer of the bundle, and the proofs go through    *)
(* them one by one.                                                        *)
(***************************************************************************)
EXTENDS OfflineCash, SelectionLemmas, SequenceTheorems

(***************************************************************************)
(* The inductive invariant                                                 *)
(***************************************************************************)

Copy == [id : Tokens, owner : Wallets, nonce : Nat, hops : Nat, chain : Seq(Hops)]
Transfer == [token : Tokens, from : Wallets, to : Wallets, at : Times, nonce : Nat, hop : Nat,
             parent : Seq(Hops), id : Seq(Hops)]

\* Pointwise form of IsPrefix.
Begins(s, t) == Len(s) <= Len(t) /\ \A i \in 1..Len(s) : s[i] = t[i]

\* The clock and the issuer's register.
IssuanceInv ==
  /\ now \in Times
  /\ Issued \subseteq Tokens /\ vault \subseteq Issued
  /\ \A t \in Issued : minted[t] \in [owner : Wallets, at : Times] /\ minted[t].at <= now

\* What a wallet can spend: its own copies, each counted up once per transfer,
\* within the cap of the balance.
Counted(c) == c.nonce = Len(c.chain) /\ c.hops = Len(c.chain) /\ Len(c.chain) <= MaxHops

OwnCopy(w, c) == c \in Copy /\ c.id \in Issued /\ c.owner = w /\ Counted(c)

HoldingOf(w, reg) ==
  /\ IsFiniteSet(reg)
  /\ \A c \in reg : OwnCopy(w, c)
  /\ \A c, d \in reg : c.id = d.id => c = d
  /\ Balance(reg) <= MaxBalance

HoldingsInv(U) == \A w \in Wallets : HoldingOf(w, U[w])

\* What a wallet has spent.
SpentInv ==
  \A w \in Wallets :
    /\ IsFiniteSet(str[w])
    /\ \A c \in str[w] : c \in Copy /\ c.id \in Issued
    /\ \A c, d \in str[w] : c.id = d.id => c = d

\* A parcel is what Parcel made, after the token was issued, of a copy that
\* was counted so and had a hop left.
ParcelOK(p) ==
  LET c == p.copy
      x == p.transfer
  IN /\ c \in Copy /\ x \in Transfer /\ c.id \in Issued
     /\ c.hops = Len(c.chain) /\ c.nonce = Len(c.chain) + 1 /\ Len(c.chain) < MaxHops
     /\ c.owner = x.to
     /\ x.parent = c.chain
     /\ x.id = Append(c.chain, [token |-> c.id, from |-> x.from, to |-> x.to, at |-> x.at])
     /\ minted[c.id].at <= x.at /\ x.at <= now

ParcelsInv ==
  /\ \A b \in sent : \E n \in Nat : DOMAIN b = 1..n
  /\ \A p \in Parcels : ParcelOK(p)

\* Custody, with P for the parcels, V for the vault, U for utr and X for
\* processed.  A parcel is due as long as its payee has not processed it.
IsDue(p, X) == p.transfer.id \notin X[p.transfer.to]

OneCopy(U) ==
  \A v, w \in Wallets : \A c \in U[v] : \A d \in U[w] : c.id = d.id => v = w /\ c = d

OneDue(P, X) ==
  \A p, q \in P : IsDue(p, X) /\ IsDue(q, X) /\ p.copy.id = q.copy.id => p = q

HeldKnowsAll(P, U, X) ==
  \A w \in Wallets : \A c \in U[w] : \A p \in P :
    c.id = p.copy.id => ~IsDue(p, X) /\ Begins(p.transfer.id, c.chain)

DueKnowsAll(P, X) ==
  \A p, q \in P : IsDue(p, X) /\ p.copy.id = q.copy.id => Begins(q.transfer.id, p.transfer.id)

VaultUntouched(P, V, U) ==
  \A t \in V : /\ \A w \in Wallets : \A c \in U[w] : c.id # t
               /\ \A p \in P : p.copy.id # t

NoFork(P) ==
  \A p, q \in P : p.copy.id = q.copy.id =>
    Begins(p.transfer.id, q.transfer.id) \/ Begins(q.transfer.id, p.transfer.id)

Custody(P, V, U, X) ==
  /\ OneCopy(U) /\ OneDue(P, X) /\ HeldKnowsAll(P, U, X) /\ DueKnowsAll(P, X)
  /\ VaultUntouched(P, V, U) /\ NoFork(P)

ProcessedInv(P, X) == \A w \in Wallets : X[w] \subseteq {p.transfer.id : p \in P}

\* What is marked is held and cannot be spent any more.
MarkedInv(U) ==
  \A w \in Wallets : \A t \in syncRequired[w] :
    \E c \in U[w] : c.id = t /\ (ExpiredAt(t, now) \/ c.nonce >= MaxHops)

\* The server's books.
SettledInv ==
  /\ settled \in [DOMAIN settled -> [transfer : Transfer, at : Times]]
  /\ \A t \in DOMAIN settled :
       LET claim == settled[t]
       IN /\ t \in Issued
          /\ \E p \in Parcels : p.copy.id = t /\ p.transfer = claim.transfer
          /\ claim.at <= now /\ claim.at < minted[t].at + Lifetime + TicksPerSecond

RecoveryInv ==
  /\ DOMAIN revoked \subseteq Losable
  /\ \A w \in DOMAIN revoked : revoked[w] \in Times /\ revoked[w] <= now
  /\ recovered \subseteq Losable \X Wallets
  /\ \A r \in reissues :
       /\ r.token \in Issued /\ r.since \in Times /\ r.since + Lifetime < now
       /\ r.token \in DOMAIN settled /\ settled[r.token].transfer.to # minted[r.token].owner =>
            settled[r.token].at > r.since + Lifetime

\* Heartbeats and renewals: once its first owner gave the token away, what
\* could renew it is from before.
RenewedBefore(t, left) ==
  /\ \A hb \in heartbeats : t \in hb.tokens /\ hb.wallet = minted[t].owner => hb.at <= left
  /\ t \in DOMAIN lastSync => lastSync[t] <= left + Lifetime

SyncInv ==
  /\ heartbeats \subseteq [wallet : Wallets, tokens : SUBSET Issued, at : Times]
  /\ \A hb \in heartbeats : hb.at <= now
  /\ lastSync \in [DOMAIN lastSync -> Times] /\ DOMAIN lastSync \subseteq Issued
  /\ \A t \in DOMAIN lastSync : lastSync[t] <= now
  /\ \A t \in Issued :
       \/ GivenAwayAt(t) = {} \/ t \in Ids(utr[minted[t].owner])
       \/ \E left \in GivenAwayAt(t) : RenewedBefore(t, left)

\* The registers of the wallets.
RegistersTyped ==
  /\ utr \in [Wallets -> SUBSET Copy] /\ str \in [Wallets -> SUBSET Copy]
  /\ processed \in [Wallets -> SUBSET Seq(Hops)] /\ syncRequired \in [Wallets -> SUBSET Tokens]

OfflineInv ==
  /\ RegistersTyped /\ IssuanceInv /\ HoldingsInv(utr) /\ SpentInv /\ ParcelsInv
  /\ Custody(Parcels, vault, utr, processed) /\ ProcessedInv(Parcels, processed)
  /\ MarkedInv(utr) /\ SettledInv /\ RecoveryInv /\ SyncInv
-----------------------------------------------------------------------------
(***************************************************************************)
(* The clock                                                               *)
(***************************************************************************)

\* A product grows with its factor.
LEMMA ProductGrows ==
  ASSUME NEW x \in Int, NEW y \in Int, NEW k \in Nat, x <= y
  PROVE  x * k <= y * k
<1>1. (y - x) * k >= 0
  OBVIOUS
<1>2. (y - x) * k = y * k - x * k
  OBVIOUS
<1>3. y * k \in Int /\ x * k \in Int
  OBVIOUS
<1> QED
  BY <1>1, <1>2, <1>3

\* Whole seconds, int(...) of a time, begin at most one second before it.
LEMMA SecondFacts ==
  ASSUME NEW a \in Nat
  PROVE  /\ Second(a) \in Int
         /\ Second(a) * TicksPerSecond <= a
         /\ a < Second(a) * TicksPerSecond + TicksPerSecond
<1>1. TicksPerSecond \in Nat \ {0}
  BY IssuanceAssumption
<1>2. ASSUME NEW k \in Nat \ {0} PROVE (a \div k) \in Int /\ (a \div k) * k <= a /\ a < (a \div k) * k + k
  OBVIOUS
<1> QED
  BY <1>1, <1>2 DEF Second

\* Later is not in an earlier second.
LEMMA SecondMonotone ==
  ASSUME NEW a \in Nat, NEW b \in Nat, a <= b
  PROVE  Second(a) <= Second(b)
<1> DEFINE k == TicksPerSecond
           x == Second(a)
           y == Second(b)
<1>1. k \in Nat \ {0} /\ x \in Int /\ y \in Int /\ x * k <= a /\ b < y * k + k
  BY IssuanceAssumption, SecondFacts
<1> HIDE DEF k, x, y
<1>2. ASSUME y + 1 <= x PROVE FALSE
  <2>1. (y + 1) * k <= x * k
    BY <1>1, <1>2, ProductGrows
  <2>2. (y + 1) * k = y * k + k /\ x * k \in Int /\ y * k \in Int
    BY <1>1
  <2> QED
    BY <1>1, <2>1, <2>2
<1>3. x <= y
  BY <1>1, <1>2
<1> QED
  BY <1>3 DEF x, y

\* The expiry in whole seconds leaves a token alive for less than a second
\* more than its lifetime (protocol/policy.py).
LEMMA AliveBound ==
  ASSUME NEW a \in Nat, NEW b \in Nat, ~(Second(b) - Second(a) > ExpirySeconds)
  PROVE  b < a + Lifetime + TicksPerSecond
<1> DEFINE k == TicksPerSecond
           x == Second(a)
           y == Second(b)
           e == ExpirySeconds
<1>1. k \in Nat \ {0} /\ x \in Int /\ y \in Int /\ x * k <= a /\ b < y * k + k /\ e \in Nat
  BY IssuanceAssumption, SecondFacts
<1>2. y <= x + e
  BY <1>1
<1> HIDE DEF k, x, y, e
<1>3. y * k <= (x + e) * k
  BY <1>1, <1>2, ProductGrows
<1>4. (x + e) * k = x * k + e * k /\ x * k \in Int /\ e * k \in Int /\ y * k \in Int
  BY <1>1
<1>5. b < a + e * k + k
  BY <1>1, <1>3, <1>4
<1> QED
  BY <1>5 DEF Lifetime, e, k

\* Lifetimes are numbers of ticks.
LEMMA LifetimeType ==
  Lifetime \in Nat /\ TicksPerSecond \in Nat \ {0} /\ MaxTime \in Nat /\ MaxHops \in Nat
<1>1. ExpirySeconds \in Nat /\ TicksPerSecond \in Nat \ {0} /\ MaxTime \in Nat /\ MaxHops \in Nat
  BY IssuanceAssumption
<1>2. \A e \in Nat : \A k \in Nat : e * k \in Nat
  OBVIOUS
<1> QED
  BY <1>1, <1>2 DEF Lifetime
-----------------------------------------------------------------------------
(***************************************************************************)
(* Loops over a bundle                                                     *)
(***************************************************************************)

\* Of any finite family of finite sets, one has no strict subset in it.
LEMMA SmallestIn ==
  ASSUME NEW F, F # {}, IsFiniteSet(UNION F)
  PROVE  \E m \in F : \A s \in F : s \subseteq m => s = m
<1> DEFINE U == UNION F
<1>1. F \in SUBSET (SUBSET U) /\ IsFiniteSet(U)
  OBVIOUS
<1> HIDE DEF U
<1> QED
  BY <1>1, SmallestOf

\* Induction up to n, over a set: whatever holds at 0 and is handed on from
\* each number to the next holds at n.
LEMMA ClimbTo ==
  ASSUME NEW n \in Nat, NEW G, 0 \in G, \A k \in 0..(n - 1) : k \in G => k + 1 \in G
  PROVE  \A k \in 0..n : k \in G
<1> DEFINE Bad == {k \in 0..n : k \notin G}
           Below == {1..k : k \in Bad}
<1> SUFFICES ASSUME Bad # {} PROVE FALSE
  OBVIOUS
<1>1. PICK m \in Below : \A s \in Below : s \subseteq m => s = m
  <2>1. IsFiniteSet(1..n)
    BY FS_Interval
  <2>2. UNION Below \subseteq 1..n /\ Below # {}
    OBVIOUS
  <2>3. IsFiniteSet(UNION Below)
    BY <2>1, <2>2, FS_Subset
  <2> HIDE DEF Below
  <2> QED
    BY <2>2, <2>3, SmallestIn
<1>2. PICK k \in Bad : m = 1..k
  OBVIOUS
<1>3. k \in 1..n /\ k - 1 \in 0..(n - 1)
  OBVIOUS
<1>4. k - 1 \notin G
  BY <1>3
<1>5. k - 1 \in Bad
  BY <1>3, <1>4
<1>6. 1..(k - 1) \subseteq 1..k /\ k \in 1..k /\ k \notin 1..(k - 1)
  BY <1>3
<1>7. 1..(k - 1) \in Below
  BY <1>5
<1> QED
  BY <1>1, <1>2, <1>6, <1>7

\* The equation of a loop over the indices in D: F[<<k, h>>] is the result of
\* step k on the result h of the steps before.
IsLoop(D, base, F, f) ==
  f = [s \in SUBSET D |-> IF s = {} THEN base ELSE F[<<Max(s), f[s \ {Max(s)}]>>]]

Indices(s) == s \subseteq Nat /\ IsFiniteSet(s)

\* The last of some indices is one of them.
LEMMA MaxFacts ==
  ASSUME NEW s, s # {}, IsFiniteSet(s), s \subseteq Nat
  PROVE  /\ Max(s) \in s /\ \A k \in s : k <= Max(s)
         /\ s \ {Max(s)} \subseteq s /\ s \ {Max(s)} # s
<1> DEFINE Least == {T \in SUBSET s : \E k \in s : T = {j \in s : k < j}}
<1>1. PICK m \in Least : \A T \in Least : T \subseteq m => T = m
  <2>1. UNION Least \subseteq s /\ Least # {}
    OBVIOUS
  <2>2. IsFiniteSet(UNION Least)
    BY <2>1, FS_Subset
  <2> HIDE DEF Least
  <2> QED
    BY <2>1, <2>2, SmallestIn
<1>2. PICK k \in s : m = {j \in s : k < j}
  OBVIOUS
<1>3. \A j \in s : k >= j
  <2> SUFFICES ASSUME NEW j \in s, ~(k >= j) PROVE FALSE
    OBVIOUS
  <2>1. j \in m /\ j \in Nat /\ k \in Nat
    BY <1>2
  <2> DEFINE T == {i \in s : j < i}
  <2>2. T \in Least /\ j \notin T
    BY <2>1
  <2>3. T \subseteq m
    <3>1. ASSUME NEW i \in T PROVE i \in m
      <4>1. i \in s /\ j < i /\ i \in Nat
        OBVIOUS
      <4>2. k < i
        BY <2>1, <4>1
      <4> QED
        BY <1>2, <4>1, <4>2
    <3> QED
      BY <3>1
  <2> QED
    BY <1>1, <2>1, <2>2, <2>3
<1>4. Max(s) \in s /\ \A y \in s : Max(s) >= y
  BY <1>3 DEF Max
<1>5. \A y \in s : y <= Max(s)
  BY <1>4
<1> QED
  BY <1>4, <1>5

\* Two loops agree on the indices they are both defined on.
LEMMA LoopsAgree ==
  ASSUME NEW base, NEW F, NEW A, Indices(A), NEW B, NEW f, NEW g,
         IsLoop(A, base, F, f), IsLoop(B, base, F, g)
  PROVE  \A s \in SUBSET (A \cap B) : f[s] = g[s]
<1> DEFINE Bad == {s \in SUBSET (A \cap B) : f[s] # g[s]}
<1> SUFFICES ASSUME Bad # {} PROVE FALSE
  OBVIOUS
<1>1. PICK m \in Bad : \A s \in Bad : s \subseteq m => s = m
  <2>1. UNION Bad \subseteq A /\ IsFiniteSet(A)
    BY DEF Indices
  <2>2. IsFiniteSet(UNION Bad)
    BY <2>1, FS_Subset
  <2> HIDE DEF Bad
  <2> QED
    BY <2>2, SmallestIn
<1>2. m \in SUBSET A /\ m \in SUBSET B /\ f[m] # g[m] /\ IsFiniteSet(m) /\ m \subseteq Nat
  BY FS_Subset DEF Indices
<1>3. m # {}
  <2>1. {} \in SUBSET A /\ {} \in SUBSET B
    OBVIOUS
  <2>2. f[{}] = base /\ g[{}] = base
    BY <2>1 DEF IsLoop
  <2> QED
    BY <1>2, <2>2
<1> DEFINE r == m \ {Max(m)}
<1>4. r \in SUBSET A /\ r \in SUBSET B /\ r \subseteq m /\ r # m
  BY <1>2, <1>3, MaxFacts
<1>5. f[r] = g[r]
  BY <1>1, <1>4
<1>6. f[m] = F[<<Max(m), f[r]>>] /\ g[m] = F[<<Max(m), g[r]>>]
  <2>1. \A h, C : m \in SUBSET C /\ IsLoop(C, base, F, h) => h[m] = F[<<Max(m), h[r]>>]
    BY ZenonT(60), <1>3 DEF IsLoop
  <2> QED
    BY <1>2, <2>1
<1> QED
  BY <1>2, <1>5, <1>6

\* Every loop over finitely many indices runs to its end.
LEMMA LoopExists ==
  ASSUME NEW base, NEW F, NEW S, S \subseteq Nat, IsFiniteSet(S)
  PROVE  \E f : IsLoop(S, base, F, f)
<1> DEFINE Bad == {T \in SUBSET S : ~ \E f : IsLoop(T, base, F, f)}
<1> SUFFICES ASSUME Bad # {} PROVE FALSE
  OBVIOUS
<1>1. PICK m \in Bad : \A s \in Bad : s \subseteq m => s = m
  <2>1. UNION Bad \subseteq S
    OBVIOUS
  <2>2. IsFiniteSet(UNION Bad)
    BY <2>1, FS_Subset
  <2> HIDE DEF Bad
  <2> QED
    BY <2>2, SmallestIn
<1>2. m \in SUBSET S /\ IsFiniteSet(m) /\ ~ \E f : IsLoop(m, base, F, f)
  BY FS_Subset
<1> DEFINE loop(T) == CHOOSE f : IsLoop(T, base, F, f)
<1>3. \A T \in SUBSET m : T # m => IsLoop(T, base, F, loop(T))
  BY <1>1, <1>2
<1> DEFINE rest(s) == s \ {Max(s)}
           h == [s \in SUBSET m |->
                   IF s = {} THEN base ELSE F[<<Max(s), loop(rest(s))[rest(s)]>>]]
<1>4. \A T \in SUBSET m : T # {} => rest(T) \in SUBSET m /\ rest(T) # m /\ rest(T) \in SUBSET (T \cap rest(T))
  BY <1>2, FS_Subset, MaxFacts
<1>5. \A T \in SUBSET m : T # m => h[T] = loop(T)[T]
  <2> SUFFICES ASSUME NEW T \in SUBSET m, T # m PROVE h[T] = loop(T)[T]
    OBVIOUS
  <2>1. IsLoop(T, base, F, loop(T))
    BY <1>3
  <2>2. loop(T)[T] = IF T = {} THEN base ELSE F[<<Max(T), loop(T)[rest(T)]>>]
    <3>1. T \in SUBSET T
      OBVIOUS
    <3> HIDE DEF loop
    <3> QED
      BY <2>1, <3>1 DEF IsLoop
  <2>3. CASE T = {}
    BY <2>2, <2>3
  <2>4. CASE T # {}
    <3> DEFINE r == rest(T)
    <3>1. r \in SUBSET m /\ r # m /\ r \in SUBSET (T \cap r)
      BY <1>4, <2>4
    <3>2. IsLoop(r, base, F, loop(r))
      BY <1>3, <3>1
    <3>3. loop(T)[r] = loop(r)[r]
      <4>1. Indices(T)
        BY <1>2, FS_Subset DEF Indices
      <4> DEFINE a == loop(T)
                 b == loop(r)
      <4>2. IsLoop(T, base, F, a) /\ IsLoop(r, base, F, b)
        BY <2>1, <3>2
      <4> HIDE DEF r, rest, loop, a, b, h, Bad
      <4>3. \A s \in SUBSET (T \cap r) : a[s] = b[s]
        BY <4>1, <4>2, LoopsAgree
      <4> QED
        BY <3>1, <4>3 DEF a, b
    <3>4. h[T] = F[<<Max(T), loop(r)[r]>>]
      BY <2>4
    <3>5. loop(T)[T] = F[<<Max(T), loop(T)[r]>>]
      BY <2>2, <2>4
    <3> QED
      BY <3>3, <3>4, <3>5
  <2> QED
    BY <2>3, <2>4
<1>6. IsLoop(m, base, F, h)
  <2>1. \A s \in SUBSET m : s # {} => loop(rest(s))[rest(s)] = h[rest(s)]
    <3> HIDE DEF h, loop, rest
    <3> QED
      BY <1>4, <1>5
  <2>2. h = [s \in SUBSET m |-> IF s = {} THEN base ELSE F[<<Max(s), h[rest(s)]>>]]
    <3>1. h = [s \in SUBSET m |->
                 IF s = {} THEN base ELSE F[<<Max(s), loop(rest(s))[rest(s)]>>]]
      OBVIOUS
    <3> HIDE DEF h, loop, rest
    <3> QED
      BY <2>1, <3>1
  <2> HIDE DEF h, loop
  <2> QED
    BY <2>2 DEF IsLoop
<1> QED
  BY <1>2, <1>6

\* The first k + 1 indices are the first k and the last of them.
LEMMA LastIndex ==
  ASSUME NEW k \in Nat
  PROVE  /\ 1..(k + 1) # {} /\ Max(1..(k + 1)) = k + 1
         /\ (1..(k + 1)) \ {k + 1} = 1..k
<1> DEFINE s == 1..(k + 1)
<1>1. IsFiniteSet(s)
  BY FS_Interval
<1>2. s # {} /\ s \subseteq Nat /\ k + 1 \in s
  OBVIOUS
<1> HIDE DEF s
<1>3. Max(s) \in s /\ \A j \in s : j <= Max(s)
  BY <1>1, <1>2, MaxFacts
<1>4. Max(s) \in 1..(k + 1) /\ k + 1 <= Max(s)
  BY <1>2, <1>3 DEF s
<1>5. Max(s) = k + 1
  BY <1>4
<1>6. (1..(k + 1)) \ {k + 1} = 1..k
  OBVIOUS
<1> QED
  BY <1>2, <1>5, <1>6 DEF s

\* Some of the indices of a bundle.
LEMMA SomeIndices ==
  ASSUME NEW n \in Nat, NEW s \in SUBSET (1..n)
  PROVE  IsFiniteSet(s) /\ s \subseteq Nat
<1>1. IsFiniteSet(1..n)
  BY FS_Interval
<1>2. IsFiniteSet(s)
  BY <1>1, FS_Subset
<1> QED
  BY <1>2

\* A loop whose steps stay in H has all its results in H.
LEMMA LoopStays ==
  ASSUME NEW n \in Nat, NEW H, NEW base \in H, NEW F \in [(1..n) \X H -> H]
  PROVE  \E f : IsLoop(1..n, base, F, f) /\ \A s \in SUBSET (1..n) : f[s] \in H
<1> DEFINE D == 1..n
<1>1. IsFiniteSet(D) /\ D \subseteq Nat
  BY FS_Interval
<1>2. PICK f : IsLoop(D, base, F, f)
  <2> HIDE DEF D
  <2> QED
    BY <1>1, LoopExists
<1> DEFINE Bad == {s \in SUBSET D : f[s] \notin H}
<1>3. Bad = {}
  <2> SUFFICES ASSUME Bad # {} PROVE FALSE
    OBVIOUS
  <2>1. PICK m \in Bad : \A s \in Bad : s \subseteq m => s = m
    <3>1. UNION Bad \subseteq D
      OBVIOUS
    <3>2. IsFiniteSet(UNION Bad)
      BY <1>1, <3>1, FS_Subset
    <3> HIDE DEF Bad
    <3> QED
      BY <3>2, SmallestIn
  <2>2. m \in SUBSET D /\ f[m] \notin H /\ IsFiniteSet(m) /\ m \subseteq Nat
    BY <1>1, FS_Subset
  <2>3. f[m] = IF m = {} THEN base ELSE F[<<Max(m), f[m \ {Max(m)}]>>]
    <3> HIDE DEF D, Bad
    <3> QED
      BY <1>2, <2>2 DEF IsLoop
  <2>4. m # {}
    BY <2>2, <2>3
  <2> DEFINE r == m \ {Max(m)}
  <2>5. r \in SUBSET D /\ r \subseteq m /\ r # m /\ Max(m) \in D
    BY <2>2, <2>4, MaxFacts
  <2>6. f[r] \in H
    BY <2>1, <2>5
  <2>7. F[<<Max(m), f[r]>>] \in H
    BY <2>5, <2>6
  <2> QED
    BY <2>2, <2>3, <2>4, <2>7
<1> QED
  BY <1>2, <1>3

\* receive_bundle, transfer by transfer.
HeldAfter(w, reg, seen, bundle) ==
  FoldLeft(LAMBDA h, p : ApplyTransfer(w, h, p), [reg |-> reg, seen |-> seen], bundle)

\* g[k] is what the wallet holds after the first k of the n transfers.
Receives(g, n, w, reg, seen, bundle) ==
  /\ g[0] = [reg |-> reg, seen |-> seen]
  /\ g[n] = HeldAfter(w, reg, seen, bundle)
  /\ \A k \in 0..(n - 1) : g[k + 1] = ApplyTransfer(w, g[k], bundle[k + 1])

\* Every bundle is received that way.
LEMMA ReceiveRun ==
  ASSUME NEW w, NEW bundle, NEW n \in Nat, DOMAIN bundle = 1..n, NEW reg, NEW seen
  PROVE  \E g : Receives(g, n, w, reg, seen, bundle)
<1> DEFINE base == [reg |-> reg, seen |-> seen]
           H == [reg : SUBSET (reg \cup {Received(w, bundle[i]) : i \in 1..n}),
                 seen : SUBSET (seen \cup {bundle[i].transfer.id : i \in 1..n})]
           F == [a \in (1..n) \X H |-> ApplyTransfer(w, a[2], bundle[a[1]])]
           Runs(f) == f = [s \in SUBSET DOMAIN bundle |->
                             IF s = {} THEN base
                             ELSE ApplyTransfer(w, f[s \ {Max(s)}], bundle[Max(s)])]
           c == CHOOSE f : Runs(f)
           g == [k \in 0..n |-> c[1..k]]
<1>1. base \in H
  OBVIOUS
<1>2. F \in [(1..n) \X H -> H]
  <2> SUFFICES ASSUME NEW i \in 1..n, NEW h \in H PROVE ApplyTransfer(w, h, bundle[i]) \in H
    OBVIOUS
  <2> DEFINE d == Received(w, bundle[i])
  <2>1. d \in {Received(w, bundle[j]) : j \in 1..n}
    OBVIOUS
  <2> HIDE DEF d
  <2>2. Put(h.reg, {d}) \subseteq h.reg \cup {d}
    BY DEF Put
  <2>3. [reg |-> Put(h.reg, {d}), seen |-> h.seen \cup {bundle[i].transfer.id}] \in H
    BY <2>1, <2>2
  <2> QED
    BY <2>3 DEF ApplyTransfer, d
<1>3. \E f : Runs(f)
  <2>1. PICK f : IsLoop(1..n, base, F, f) /\ \A s \in SUBSET (1..n) : f[s] \in H
    <3> HIDE DEF H, F, base
    <3> QED
      BY <1>1, <1>2, LoopStays
  <2>2. ASSUME NEW s \in SUBSET (1..n), s # {}
        PROVE  F[<<Max(s), f[s \ {Max(s)}]>>] = ApplyTransfer(w, f[s \ {Max(s)}], bundle[Max(s)])
    <3>1. IsFiniteSet(s) /\ s \subseteq Nat
      <4> HIDE DEF H, F, Runs, c, g
      <4> QED
        BY SomeIndices
    <3>2. Max(s) \in 1..n /\ s \ {Max(s)} \in SUBSET (1..n)
      BY <2>2, <3>1, MaxFacts
    <3>3. f[s \ {Max(s)}] \in H
      BY <2>1, <3>2
    <3>4. \A i \in 1..n : \A h \in H : F[<<i, h>>] = ApplyTransfer(w, h, bundle[i])
      <4> HIDE DEF H
      <4> QED
        OBVIOUS
    <3> HIDE DEF H, F
    <3> QED
      BY <3>2, <3>3, <3>4
  <2>3. Runs(f)
    <3>1. f = [s \in SUBSET (1..n) |-> IF s = {} THEN base ELSE F[<<Max(s), f[s \ {Max(s)}]>>]]
      BY Zenon, <2>1 DEF IsLoop
    <3>2. [s \in SUBSET (1..n) |-> IF s = {} THEN base ELSE F[<<Max(s), f[s \ {Max(s)}]>>]]
          = [s \in SUBSET (1..n) |->
               IF s = {} THEN base ELSE ApplyTransfer(w, f[s \ {Max(s)}], bundle[Max(s)])]
      <4> HIDE DEF F, base, H
      <4> QED
        BY <2>2
    <3> HIDE DEF F, base, H
    <3> QED
      BY <3>1, <3>2
  <2> QED
    BY <2>3
<1>4. Runs(c)
  <2> HIDE DEF Runs
  <2> QED
    BY <1>3
<1>5. HeldAfter(w, reg, seen, bundle) = c[1..n]
  BY DEF HeldAfter, FoldLeft, MapThenFoldSet
<1>6. \A s \in SUBSET (1..n) :
        c[s] = IF s = {} THEN base ELSE ApplyTransfer(w, c[s \ {Max(s)}], bundle[Max(s)])
  <2> HIDE DEF c, base
  <2> QED
    BY <1>4
<1> HIDE DEF c, base
<1>7. c[1..0] = base
  <2>1. 1..0 = {}
    OBVIOUS
  <2> QED
    BY <1>6, <2>1
<1>8. ASSUME NEW k \in 0..(n - 1) PROVE c[1..(k + 1)] = ApplyTransfer(w, c[1..k], bundle[k + 1])
  <2>1. k \in Nat /\ 1..(k + 1) \in SUBSET (1..n)
    OBVIOUS
  <2>2. 1..(k + 1) # {} /\ Max(1..(k + 1)) = k + 1 /\ (1..(k + 1)) \ {k + 1} = 1..k
    BY <2>1, LastIndex
  <2> QED
    BY <1>6, <2>1, <2>2
<1>9. g[0] = base /\ g[n] = c[1..n] /\ \A k \in 0..(n - 1) : g[k + 1] = ApplyTransfer(w, g[k], bundle[k + 1])
  BY <1>7, <1>8
<1> HIDE DEF g
<1> QED
  BY <1>5, <1>9 DEF base, Receives

\* process_bundle, transfer by transfer.
Settle(ledger, p) ==
  IF Settles(ledger, p) THEN Set(ledger, p.copy.id, [transfer |-> p.transfer, at |-> now])
  ELSE ledger

SettledAfter(base, bundle) ==
  FoldLeft(LAMBDA ledger, p : IF Settles(ledger, p)
                                THEN Set(ledger, p.copy.id, [transfer |-> p.transfer, at |-> now])
                                ELSE ledger,
           base, bundle)

\* A ledger has claims of a set V as its values.
LedgerOf(base, V) == base \in [DOMAIN base -> V]

\* g[k] is the ledger after the first k of the n transfers.
Processes(g, n, base, bundle) ==
  /\ g[0] = base
  /\ g[n] = SettledAfter(base, bundle)
  /\ \A k \in 0..(n - 1) : g[k + 1] = Settle(g[k], bundle[k + 1])

\* Every bundle is processed that way.
LEMMA ProcessRun ==
  ASSUME NEW bundle, NEW n \in Nat, DOMAIN bundle = 1..n, NEW V, NEW base, LedgerOf(base, V)
  PROVE  \E g : Processes(g, n, base, bundle)
<1> DEFINE W == V \cup {[transfer |-> bundle[i].transfer, at |-> now] : i \in 1..n}
           K == DOMAIN base \cup {bundle[i].copy.id : i \in 1..n}
           H == UNION {[T -> W] : T \in SUBSET K}
           F == [a \in (1..n) \X H |-> Settle(a[2], bundle[a[1]])]
           Runs(f) == f = [s \in SUBSET DOMAIN bundle |->
                             IF s = {} THEN base ELSE Settle(f[s \ {Max(s)}], bundle[Max(s)])]
           c == CHOOSE f : Runs(f)
           g == [k \in 0..n |-> c[1..k]]
<1>1. base \in H
  <2>1. base \in [DOMAIN base -> W] /\ DOMAIN base \in SUBSET K
    BY DEF LedgerOf
  <2> QED
    BY <2>1
<1>2. F \in [(1..n) \X H -> H]
  <2> SUFFICES ASSUME NEW i \in 1..n, NEW h \in H PROVE Settle(h, bundle[i]) \in H
    OBVIOUS
  <2> DEFINE t == bundle[i].copy.id
             x == [transfer |-> bundle[i].transfer, at |-> now]
  <2>1. PICK T \in SUBSET K : h \in [T -> W]
    OBVIOUS
  <2>2. t \in K /\ x \in W
    OBVIOUS
  <2> HIDE DEF t, x, K, W
  <2>3. Set(h, t, x) \in [T \cup {t} -> W]
    BY <2>1, <2>2 DEF Set
  <2>4. Set(h, t, x) \in H
    BY <2>1, <2>2, <2>3
  <2> QED
    BY <2>4 DEF Settle, t, x
<1>3. \E f : Runs(f)
  <2>1. PICK f : IsLoop(1..n, base, F, f) /\ \A s \in SUBSET (1..n) : f[s] \in H
    <3> HIDE DEF H, F
    <3> QED
      BY <1>1, <1>2, LoopStays
  <2>2. ASSUME NEW s \in SUBSET (1..n), s # {}
        PROVE  F[<<Max(s), f[s \ {Max(s)}]>>] = Settle(f[s \ {Max(s)}], bundle[Max(s)])
    <3>1. IsFiniteSet(s) /\ s \subseteq Nat
      <4> HIDE DEF H, F, Runs, c, g
      <4> QED
        BY SomeIndices
    <3>2. Max(s) \in 1..n /\ s \ {Max(s)} \in SUBSET (1..n)
      BY <2>2, <3>1, MaxFacts
    <3>3. f[s \ {Max(s)}] \in H
      BY <2>1, <3>2
    <3>4. \A i \in 1..n : \A h \in H : F[<<i, h>>] = Settle(h, bundle[i])
      <4> HIDE DEF H
      <4> QED
        OBVIOUS
    <3> HIDE DEF H, F
    <3> QED
      BY <3>2, <3>3, <3>4
  <2>3. Runs(f)
    <3>1. f = [s \in SUBSET (1..n) |-> IF s = {} THEN base ELSE F[<<Max(s), f[s \ {Max(s)}]>>]]
      BY Zenon, <2>1 DEF IsLoop
    <3>2. [s \in SUBSET (1..n) |-> IF s = {} THEN base ELSE F[<<Max(s), f[s \ {Max(s)}]>>]]
          = [s \in SUBSET (1..n) |->
               IF s = {} THEN base ELSE Settle(f[s \ {Max(s)}], bundle[Max(s)])]
      <4> HIDE DEF F, H
      <4> QED
        BY <2>2
    <3> HIDE DEF F, H
    <3> QED
      BY <3>1, <3>2
  <2> QED
    BY <2>3
<1>4. Runs(c)
  <2> HIDE DEF Runs
  <2> QED
    BY <1>3
<1>5. SettledAfter(base, bundle) = c[1..n]
  BY DEF SettledAfter, FoldLeft, MapThenFoldSet, Settle
<1>6. \A s \in SUBSET (1..n) :
        c[s] = IF s = {} THEN base ELSE Settle(c[s \ {Max(s)}], bundle[Max(s)])
  <2> HIDE DEF c
  <2> QED
    BY <1>4
<1> HIDE DEF c
<1>7. c[1..0] = base
  <2>1. 1..0 = {}
    OBVIOUS
  <2> QED
    BY <1>6, <2>1
<1>8. ASSUME NEW k \in 0..(n - 1) PROVE c[1..(k + 1)] = Settle(c[1..k], bundle[k + 1])
  <2>1. k \in Nat /\ 1..(k + 1) \in SUBSET (1..n)
    OBVIOUS
  <2>2. 1..(k + 1) # {} /\ Max(1..(k + 1)) = k + 1 /\ (1..(k + 1)) \ {k + 1} = 1..k
    BY <2>1, LastIndex
  <2> QED
    BY <1>6, <2>1, <2>2
<1>9. g[0] = base /\ g[n] = c[1..n] /\ \A k \in 0..(n - 1) : g[k + 1] = Settle(g[k], bundle[k + 1])
  BY <1>7, <1>8
<1> HIDE DEF g
<1> QED
  BY <1>5, <1>9 DEF Processes
-----------------------------------------------------------------------------
(***************************************************************************)
(* Histories                                                               *)
(***************************************************************************)

\* A history begins with itself, and with what it is continued from.
LEMMA BeginsFacts ==
  ASSUME NEW t \in Seq(Hops), NEW h \in Hops
  PROVE  /\ Append(t, h) \in Seq(Hops) /\ Len(t) \in Nat /\ Len(Append(t, h)) = Len(t) + 1
         /\ Append(t, h)[Len(t) + 1] = h
         /\ Begins(t, t) /\ Begins(Append(t, h), Append(t, h))
         /\ \A s \in Seq(Hops) : Begins(s, t) => Begins(s, Append(t, h))
<1>1. /\ Append(t, h) \in Seq(Hops) /\ Len(t) \in Nat /\ Len(Append(t, h)) = Len(t) + 1
      /\ \A i \in 1..Len(t) : Append(t, h)[i] = t[i]
      /\ Append(t, h)[Len(t) + 1] = h
  BY AppendProperties, LenProperties
<1>2. Begins(t, t) /\ Begins(Append(t, h), Append(t, h))
  BY <1>1 DEF Begins
<1>3. ASSUME NEW s \in Seq(Hops), Begins(s, t) PROVE Begins(s, Append(t, h))
  <2>1. Len(s) \in Nat /\ Len(s) <= Len(t) /\ \A i \in 1..Len(s) : s[i] = t[i]
    BY <1>3, LenProperties DEF Begins
  <2>2. \A i \in 1..Len(s) : i \in 1..Len(t)
    BY <1>1, <2>1
  <2> QED
    BY <1>1, <2>1, <2>2 DEF Begins
<1> QED
  BY <1>1, <1>2, <1>3

\* Begins is IsPrefix of the community modules.
LEMMA BeginsIsPrefix ==
  ASSUME NEW s \in Seq(Hops), NEW t \in Seq(Hops), Begins(s, t)
  PROVE  IsPrefix(s, t)
<1> DEFINE n == Len(s)
<1>1. n \in Nat /\ Len(t) \in Nat /\ n <= Len(t) /\ \A i \in 1..n : s[i] = t[i]
  BY LenProperties DEF Begins
<1>2. SubSeq(s, 1, n) = [i \in 1..n |-> s[i]]
  BY <1>1 
<1>3. SubSeq(t, 1, n) = [i \in 1..n |-> t[i]]
  BY <1>1
<1> HIDE DEF n
<1>4. SubSeq(s, 1, n) = SubSeq(t, 1, n)
  BY <1>1, <1>2, <1>3
<1> QED
  BY <1>1, <1>4 DEF IsPrefix, n
-----------------------------------------------------------------------------
(***************************************************************************)
(* Custody                                                                 *)
(***************************************************************************)

\* A wallet takes in a copy of a token that nobody holds.
LEMMA TakeIn ==
  ASSUME NEW P, NEW V, NEW V2 \in SUBSET V, NEW U, NEW U2, NEW X, NEW X2,
         Custody(P, V, U, X), NEW w \in Wallets, NEW c,
         \A v \in Wallets : U2[v] \subseteq IF v = w THEN U[v] \cup {c} ELSE U[v],
         \A v \in Wallets : \A d \in U[v] : d.id # c.id,
         \A p \in P : IsDue(p, X2) => IsDue(p, X) /\ p.copy.id # c.id,
         \A p \in P : p.copy.id = c.id => Begins(p.transfer.id, c.chain),
         c.id \notin V2
  PROVE  Custody(P, V2, U2, X2)
<1>1. OneCopy(U2)
  <2>1. \A v \in Wallets : \A d \in U2[v] : d \in U[v] \/ (v = w /\ d = c)
    OBVIOUS
  <2> QED
    BY <2>1 DEF Custody, OneCopy
<1>2. OneDue(P, X2)
  BY DEF Custody, OneDue
<1>3. HeldKnowsAll(P, U2, X2)
  <2> SUFFICES ASSUME NEW v \in Wallets, NEW d \in U2[v], NEW p \in P, d.id = p.copy.id
               PROVE  ~IsDue(p, X2) /\ Begins(p.transfer.id, d.chain)
    BY DEF HeldKnowsAll
  <2>1. CASE d \in U[v]
    BY <2>1 DEF Custody, HeldKnowsAll
  <2>2. CASE d = c
    BY <2>2
  <2> QED
    BY <2>1, <2>2
<1>4. DueKnowsAll(P, X2)
  BY DEF Custody, DueKnowsAll
<1>5. VaultUntouched(P, V2, U2)
  <2> SUFFICES ASSUME NEW t \in V2
               PROVE  /\ \A v \in Wallets : \A d \in U2[v] : d.id # t
                      /\ \A p \in P : p.copy.id # t
    BY DEF VaultUntouched
  <2>1. /\ \A v \in Wallets : \A d \in U[v] : d.id # t
        /\ \A p \in P : p.copy.id # t
    BY DEF Custody, VaultUntouched
  <2> QED
    BY <2>1
<1>6. NoFork(P)
  BY DEF Custody
<1> QED
  BY <1>1, <1>2, <1>3, <1>4, <1>5, <1>6 DEF Custody

\* The parcels of N continue the histories of the copies paid with.
Continue(P, N, paid) ==
  /\ \A p \in N : \E c \in paid :
       /\ p.copy.id = c.id
       /\ \A q \in P : q.copy.id = c.id /\ Begins(q.transfer.id, c.chain) =>
                       Begins(q.transfer.id, p.transfer.id)
  /\ \A p \in N : Begins(p.transfer.id, p.transfer.id)
  /\ \A p, q \in N : p.copy.id = q.copy.id => p = q

\* The copies paid with leave the wallet w.
Leave(w, paid, U, U2) ==
  paid \subseteq U[w] /\ \A v \in Wallets : U2[v] = IF v = w THEN U[v] \ paid ELSE U[v]

\* A wallet gives copies away, each in a parcel that continues its history.
LEMMA GiveAway ==
  ASSUME NEW P, NEW N, NEW V, NEW U, NEW U2, NEW X, NEW w \in Wallets, NEW paid,
         Custody(P, V, U, X), Leave(w, paid, U, U2), Continue(P, N, paid)
  PROVE  Custody(P \cup N, V, U2, X)
<1>0. /\ paid \subseteq U[w] /\ \A v \in Wallets : U2[v] = IF v = w THEN U[v] \ paid ELSE U[v]
      /\ \A p \in N : \E c \in paid :
           /\ p.copy.id = c.id
           /\ \A q \in P : q.copy.id = c.id /\ Begins(q.transfer.id, c.chain) =>
                           Begins(q.transfer.id, p.transfer.id)
      /\ \A p \in N : Begins(p.transfer.id, p.transfer.id)
      /\ \A p, q \in N : p.copy.id = q.copy.id => p = q
  BY DEF Leave, Continue
<1>1. ASSUME NEW p \in N
      PROVE  /\ \E c \in paid : p.copy.id = c.id
             /\ \A q \in P : q.copy.id = p.copy.id => ~IsDue(q, X) /\ Begins(q.transfer.id, p.transfer.id)
             /\ p.copy.id \notin V
             /\ \A v \in Wallets : \A d \in U2[v] : d.id # p.copy.id
  <2>1. PICK c \in paid :
          /\ p.copy.id = c.id
          /\ \A q \in P : q.copy.id = c.id /\ Begins(q.transfer.id, c.chain) =>
                          Begins(q.transfer.id, p.transfer.id)
    BY <1>0
  <2>2. \A q \in P : q.copy.id = c.id => ~IsDue(q, X) /\ Begins(q.transfer.id, c.chain)
    BY <1>0 DEF Custody, HeldKnowsAll
  <2>3. \A q \in P : q.copy.id = c.id => Begins(q.transfer.id, p.transfer.id)
    BY <2>1, <2>2
  <2>4. c.id \notin V
    BY <1>0 DEF Custody, VaultUntouched
  <2>5. ASSUME NEW v \in Wallets, NEW d \in U2[v] PROVE d.id # c.id
    <3>1. d \in U[v] /\ (v = w => d \notin paid)
      BY <1>0
    <3>2. c \in U[w]
      BY <1>0
    <3> QED
      BY <3>1, <3>2 DEF Custody, OneCopy
  <2> QED
    BY <2>1, <2>2, <2>3, <2>4, <2>5
<1>2. OneCopy(U2)
  <2>1. \A v \in Wallets : U2[v] \subseteq U[v]
    BY <1>0
  <2> QED
    BY <2>1 DEF Custody, OneCopy
<1>3. OneDue(P \cup N, X)
  <2> SUFFICES ASSUME NEW p \in P \cup N, NEW q \in P \cup N,
                      IsDue(p, X), IsDue(q, X), p.copy.id = q.copy.id
               PROVE  p = q
    BY DEF OneDue
  <2>1. CASE p \in P /\ q \in P
    BY <2>1 DEF Custody, OneDue
  <2>2. CASE p \in N \/ q \in N
    BY <1>0, <1>1, <2>2
  <2> QED
    BY <2>1, <2>2
<1>4. HeldKnowsAll(P \cup N, U2, X)
  <2> SUFFICES ASSUME NEW v \in Wallets, NEW d \in U2[v], NEW p \in P \cup N, d.id = p.copy.id
               PROVE  ~IsDue(p, X) /\ Begins(p.transfer.id, d.chain)
    BY DEF HeldKnowsAll
  <2>1. p \in P /\ d \in U[v]
    BY <1>0, <1>1
  <2> QED
    BY <2>1 DEF Custody, HeldKnowsAll
<1>5. DueKnowsAll(P \cup N, X)
  <2> SUFFICES ASSUME NEW p \in P \cup N, NEW q \in P \cup N, IsDue(p, X), p.copy.id = q.copy.id
               PROVE  Begins(q.transfer.id, p.transfer.id)
    BY DEF DueKnowsAll
  <2>1. CASE p \in P /\ q \in P
    BY <2>1 DEF Custody, DueKnowsAll
  <2>2. CASE p \in N /\ q \in P
    BY <1>1, <2>2
  <2>3. CASE q \in N
    BY <1>0, <1>1, <2>3
  <2> QED
    BY <2>1, <2>2, <2>3
<1>6. VaultUntouched(P \cup N, V, U2)
  <2>1. \A v \in Wallets : U2[v] \subseteq U[v]
    BY <1>0
  <2> QED
    BY <1>1, <2>1 DEF Custody, VaultUntouched
<1>7. NoFork(P \cup N)
  <2> SUFFICES ASSUME NEW p \in P \cup N, NEW q \in P \cup N, p.copy.id = q.copy.id
               PROVE  Begins(p.transfer.id, q.transfer.id) \/ Begins(q.transfer.id, p.transfer.id)
    BY DEF NoFork
  <2>1. CASE p \in P /\ q \in P
    BY <2>1 DEF Custody, NoFork
  <2>2. CASE p \in N /\ q \in P
    BY <1>1, <2>2
  <2>3. CASE p \in P /\ q \in N
    BY <1>1, <2>3
  <2>4. CASE p \in N /\ q \in N
    BY <1>0, <2>4
  <2> QED
    BY <2>1, <2>2, <2>3, <2>4
<1> QED
  BY <1>2, <1>3, <1>4, <1>5, <1>6, <1>7 DEF Custody

\* Fresh tokens come into the vault.
LEMMA MintFresh ==
  ASSUME NEW P, NEW V, NEW U, NEW X, NEW fresh, Custody(P, V, U, X),
         \A w \in Wallets : \A c \in U[w] : c.id \notin fresh,
         \A p \in P : p.copy.id \notin fresh
  PROVE  Custody(P, V \cup fresh, U, X)
<1>1. VaultUntouched(P, V \cup fresh, U)
  BY DEF Custody, VaultUntouched
<1> QED
  BY <1>1 DEF Custody
-----------------------------------------------------------------------------
(***************************************************************************)
(* What a wallet holds                                                     *)
(***************************************************************************)

\* A dict with one entry per key has as many entries as keys.
LEMMA IdsFacts ==
  ASSUME NEW reg, IsFiniteSet(reg)
  PROVE  /\ IsFiniteSet(Ids(reg))
         /\ (\A c, d \in reg : c.id = d.id => c = d) => Cardinality(Ids(reg)) = Cardinality(reg)
<1> DEFINE f == [c \in reg |-> c.id]
<1>1. f \in Surjection(reg, Ids(reg))
  <2>1. f \in [reg -> Ids(reg)]
    BY DEF Ids
  <2>2. \A y \in Ids(reg) : \E c \in reg : f[c] = y
    BY DEF Ids
  <2> QED
    BY <2>1, <2>2 DEF Surjection
<1>2. (\A c, d \in reg : c.id = d.id => c = d) => f \in Injection(reg, Ids(reg))
  BY <1>1 DEF Surjection, Injection, IsInjective
<1> HIDE DEF f
<1> QED
  BY <1>1, <1>2, FS_Surjection

\* Values are numbers.
LEMMA ValueType ==
  \A t \in Tokens : Value[t] \in Nat
BY IssuanceAssumption

\* The balance is a number, and a copy of another token adds its value.
LEMMA BalanceFacts ==
  ASSUME NEW reg, IsFiniteSet(reg), Ids(reg) \subseteq Tokens
  PROVE  /\ Balance(reg) \in Nat
         /\ \A c : c.id \in Tokens \ Ids(reg) => Balance(reg \cup {c}) = Balance(reg) + Value[c.id]
<1> DEFINE I == Ids(reg)
<1>1. IsFiniteSet(I)
  BY IdsFacts
<1>2. \A t \in I : Value[t] \in Nat
  BY ValueType
<1>3. Balance(reg) = Worth(Value, I)
  BY DEF Balance
<1> HIDE DEF I
<1>4. Balance(reg) \in Nat
  BY <1>1, <1>2, <1>3, WorthType
<1>5. ASSUME NEW c, c.id \in Tokens \ Ids(reg) PROVE Balance(reg \cup {c}) = Balance(reg) + Value[c.id]
  <2> DEFINE t == c.id
             J == I \cup {t}
  <2>1. Ids(reg \cup {c}) = J
    BY DEF Ids, I
  <2>2. t \in J /\ J \ {t} = I /\ t \in Tokens
    BY <1>5 DEF I
  <2>3. IsFiniteSet(J)
    BY <1>1, FS_AddElement
  <2>4. \A u \in J : Value[u] \in Nat
    BY <1>2, <2>2, ValueType
  <2> HIDE DEF J, t
  <2>5. Worth(Value, J) = Value[t] + Worth(Value, J \ {t})
    BY <2>2, <2>3, <2>4, WorthRemove
  <2>6. Balance(reg \cup {c}) = Value[t] + Balance(reg)
    BY <1>3, <2>1, <2>2, <2>5 DEF Balance
  <2>7. Value[t] \in Nat
    BY <2>2, <2>4
  <2> QED
    BY <1>4, <2>6, <2>7 DEF t
<1> QED
  BY <1>4, <1>5

\* What a wallet holds is within the cap after it took in a copy that its
\* balance allows (receive_token, apply_transfer_with_reason).
LEMMA HoldMore ==
  ASSUME NEW w \in Wallets, NEW reg, HoldingOf(w, reg), NEW c, OwnCopy(w, c), Issued \subseteq Tokens,
         \A d \in reg : d.id # c.id, Balance(reg) + Value[c.id] <= MaxBalance
  PROVE  HoldingOf(w, reg \cup {c}) /\ Put(reg, {c}) = reg \cup {c}
<1>1. IsFiniteSet(reg) /\ Ids(reg) \subseteq Tokens /\ c.id \in Tokens \ Ids(reg)
  BY DEF HoldingOf, OwnCopy, Ids
<1>2. Balance(reg \cup {c}) <= MaxBalance
  BY <1>1, BalanceFacts
<1>3. IsFiniteSet(reg \cup {c})
  BY <1>1, FS_AddElement
<1>4. /\ \A d \in reg \cup {c} : OwnCopy(w, d)
      /\ \A d, e \in reg \cup {c} : d.id = e.id => d = e
  BY DEF HoldingOf
<1>5. Put(reg, {c}) = reg \cup {c}
  BY DEF Put, Ids
<1> QED
  BY <1>2, <1>3, <1>4, <1>5 DEF HoldingOf

\* What a wallet has left is within the cap.
LEMMA HoldLess ==
  ASSUME NEW w \in Wallets, NEW reg, HoldingOf(w, reg), NEW S \in SUBSET reg, Issued \subseteq Tokens
  PROVE  HoldingOf(w, S)
<1>1. IsFiniteSet(reg) /\ Ids(reg) \subseteq Tokens /\ Ids(S) \in SUBSET Ids(reg)
  BY DEF HoldingOf, OwnCopy, Ids
<1>2. IsFiniteSet(S) /\ IsFiniteSet(Ids(reg))
  BY <1>1, FS_Subset, IdsFacts
<1>3. Balance(S) <= Balance(reg)
  <2>1. \A t \in Ids(reg) : Value[t] \in Nat
    BY <1>1, ValueType
  <2> QED
    BY <1>1, <1>2, <2>1, WorthMonotone DEF Balance
<1>4. Balance(S) \in Nat /\ Balance(reg) \in Nat /\ Ids(S) \subseteq Tokens
  BY <1>1, <1>2, BalanceFacts
<1>5. Balance(S) <= MaxBalance
  BY <1>3, <1>4, OfflineWalletAssumption DEF HoldingOf
<1> QED
  BY <1>2, <1>5 DEF HoldingOf

\* A parcel's fields.
LEMMA ParcelFields ==
  ASSUME NEW p, ParcelOK(p)
  PROVE  /\ p.copy.id \in Issued /\ p.transfer.to \in Wallets /\ p.transfer.from \in Wallets
         /\ p.transfer.at \in Times /\ p.transfer.at <= now
         /\ p.copy.owner = p.transfer.to /\ p.transfer.parent = p.copy.chain
         /\ p.copy.chain \in Seq(Hops) /\ p.transfer.id \in Seq(Hops)
         /\ Len(p.copy.chain) \in Nat /\ Len(p.transfer.id) = Len(p.copy.chain) + 1
BY LenProperties DEF ParcelOK, Copy, Transfer

\* The copy the payee keeps is counted up as often as it was passed on
\* (apply_transfer_with_reason).
LEMMA ReceivedCopy ==
  ASSUME NEW w \in Wallets, NEW p, ParcelOK(p)
  PROVE  /\ OwnCopy(w, Received(w, p)) /\ Received(w, p).id = p.copy.id
         /\ Received(w, p).chain = p.transfer.id
<1> DEFINE c == p.copy
           k == Len(c.chain)
           d == Received(w, p)
<1>1. c \in Copy /\ c.id \in Issued /\ c.hops = k /\ c.nonce = k + 1 /\ k < MaxHops
  BY DEF ParcelOK
<1>2. /\ p.transfer.id \in Seq(Hops) /\ Len(p.transfer.id) = k + 1 /\ k \in Nat
  BY ParcelFields
<1> DEFINE y == p.transfer.id
           n == c.hops + 1
<1>3. n = k + 1 /\ n \in Nat
  BY <1>1, <1>2
<1>4. d = [c EXCEPT !.owner = w, !.hops = n, !.chain = y]
  BY DEF Received
<1> HIDE DEF c, d, y, n, k
<1>5. d \in Copy /\ d.id = c.id /\ d.owner = w /\ d.nonce = c.nonce /\ d.hops = n /\ d.chain = y
  <2>1. y \in Seq(Hops) /\ c \in Copy /\ n \in Nat
    BY <1>1, <1>2, <1>3 DEF y
  <2>2. d \in Copy
    BY <1>4, <2>1 DEF Copy
  <2>3. d.id = c.id /\ d.owner = w /\ d.nonce = c.nonce /\ d.hops = n /\ d.chain = y
    BY <1>4, <2>1 DEF Copy
  <2> QED
    BY <2>2, <2>3
<1>6. d.nonce = Len(d.chain) /\ d.hops = Len(d.chain) /\ Len(d.chain) <= MaxHops
  BY <1>1, <1>2, <1>3, <1>5, LifetimeType DEF y
<1> QED
  BY <1>1, <1>5, <1>6 DEF OwnCopy, Counted, c, d, y

\* The parcel create_payment makes of a copy the wallet holds.
LEMMA NewParcel ==
  ASSUME NEW w \in Wallets, NEW c, OwnCopy(w, c), c.nonce < MaxHops, NEW receiver \in Wallets, IssuanceInv
  PROVE  LET p == Parcel(c, receiver)
         IN /\ ParcelOK(p)
            /\ p.copy.id = c.id /\ p.transfer.from = w /\ p.transfer.to = receiver /\ p.transfer.at = now
            /\ p.transfer.hop = c.hops + 1 /\ p.transfer.nonce = c.nonce + 1
            /\ p.transfer.parent = p.copy.chain
            /\ p.transfer.id \in Seq(Hops) /\ p.transfer.id[Len(p.transfer.id)].token = c.id
            /\ Len(p.transfer.id) = Len(c.chain) + 1
            /\ Begins(p.transfer.id, p.transfer.id)
            /\ \A s \in Seq(Hops) : Begins(s, c.chain) => Begins(s, p.transfer.id)
<1> DEFINE p == Parcel(c, receiver)
           k == c.nonce + 1
           h == Hop(c, receiver)
           y == Append(c.chain, h)
           x == [token |-> c.id, from |-> c.owner, to |-> receiver, at |-> now,
                 nonce |-> c.nonce + 1, hop |-> c.hops + 1, parent |-> c.chain, id |-> y]
           d == [c EXCEPT !.owner = receiver, !.nonce = k]
<1>1. /\ c \in Copy /\ c.id \in Issued /\ c.owner = w /\ c.nonce = Len(c.chain) /\ c.hops = Len(c.chain)
      /\ c.id \in Tokens /\ c.nonce \in Nat /\ c.hops \in Nat /\ c.chain \in Seq(Hops)
  BY DEF OwnCopy, Counted, Copy
<1>2. now \in Times /\ now \in Nat /\ now <= now /\ minted[c.id].at <= now
  BY LifetimeType DEF Times, IssuanceInv, OwnCopy
<1>3. h = [token |-> c.id, from |-> w, to |-> receiver, at |-> now] /\ h \in Hops /\ h.token = c.id
  BY <1>1, <1>2 DEF Hop, Hops
<1>4. p.copy = d /\ p.transfer = x
  BY DEF Parcel
<1>5. /\ y \in Seq(Hops) /\ Len(c.chain) \in Nat /\ Len(y) = Len(c.chain) + 1 /\ y[Len(y)] = h
      /\ Begins(y, y) /\ \A s \in Seq(Hops) : Begins(s, c.chain) => Begins(s, y)
  <2> HIDE DEF h
  <2> QED
    BY <1>1, <1>3, BeginsFacts
<1>6. k \in Nat /\ k = Len(c.chain) + 1
  BY <1>1
<1> HIDE DEF p, h, y, k
<1>7. d \in Copy
  BY <1>1, <1>6 DEF Copy
<1>8. d.id = c.id /\ d.owner = receiver /\ d.nonce = k /\ d.hops = c.hops /\ d.chain = c.chain
  BY <1>1, <1>6 DEF Copy
<1> HIDE DEF d
<1>9. x \in Transfer
  BY <1>1, <1>2, <1>5 DEF Transfer
<1>10. /\ x.token = c.id /\ x.from = w /\ x.to = receiver /\ x.at = now /\ x.id = y
       /\ x.parent = c.chain /\ x.nonce = c.nonce + 1 /\ x.hop = c.hops + 1
  BY <1>1
<1> HIDE DEF x
<1>11. ParcelOK(p)
  BY <1>1, <1>2, <1>3, <1>4, <1>6, <1>7, <1>8, <1>9, <1>10 DEF ParcelOK, y
<1> QED
  BY <1>1, <1>3, <1>4, <1>5, <1>8, <1>10, <1>11 DEF p
-----------------------------------------------------------------------------
(***************************************************************************)
(* A bundle received                                                       *)
(***************************************************************************)

\* What holds of a wallet after some of the transfers of a bundle, if it
\* stopped there.
Between(w, h) ==
  /\ HoldingOf(w, h.reg) /\ h.reg \subseteq Copy /\ utr[w] \subseteq h.reg
  /\ h.seen \subseteq {p.transfer.id : p \in Parcels}
  /\ Custody(Parcels, vault, [utr EXCEPT ![w] = h.reg], [processed EXCEPT ![w] = h.seen])

\* One transfer of a bundle, taken in or not (apply_transfer_with_reason).
LEMMA ApplyStep ==
  ASSUME OfflineInv, NEW w \in Wallets, NEW p \in Parcels, NEW h, Between(w, h)
  PROVE  Between(w, ApplyTransfer(w, h, p))
<1> DEFINE c == Received(w, p)
           U == [utr EXCEPT ![w] = h.reg]
           X == [processed EXCEPT ![w] = h.seen]
<1>1. /\ ParcelOK(p) /\ \A q \in Parcels : ParcelOK(q)
      /\ utr \in [Wallets -> SUBSET Copy] /\ processed \in [Wallets -> SUBSET Seq(Hops)]
      /\ Issued \subseteq Tokens
  BY DEF OfflineInv, ParcelsInv, RegistersTyped, IssuanceInv
<1>2. CASE ~(Verifies(w, h.seen, p) /\ Balance(h.reg) + Value[p.copy.id] <= MaxBalance)
  <2>1. ApplyTransfer(w, h, p) = h
    BY <1>2 DEF ApplyTransfer
  <2> QED
    BY <2>1
<1>3. CASE Verifies(w, h.seen, p) /\ Balance(h.reg) + Value[p.copy.id] <= MaxBalance
  <2> DEFINE reg == Put(h.reg, {c})
             seen == h.seen \cup {p.transfer.id}
             U2 == [utr EXCEPT ![w] = reg]
             X2 == [processed EXCEPT ![w] = seen]
  <2>1. ApplyTransfer(w, h, p) = [reg |-> reg, seen |-> seen]
    BY <1>3 DEF ApplyTransfer
  <2>2. OwnCopy(w, c) /\ c.id = p.copy.id /\ c.chain = p.transfer.id /\ c \in Copy
    BY <1>1, ReceivedCopy DEF OwnCopy
  <2>3. /\ Custody(Parcels, vault, U, X) /\ HoldingOf(w, h.reg)
        /\ h.reg \subseteq Copy /\ utr[w] \subseteq h.reg /\ h.seen \subseteq {q.transfer.id : q \in Parcels}
    BY DEF Between
  <2>4. U[w] = h.reg /\ X[w] = h.seen /\ \A v \in Wallets : v # w => U[v] = utr[v] /\ X[v] = processed[v]
    BY <1>1
  <2>5. p.transfer.to = w /\ IsDue(p, X)
    BY <1>3, <2>4 DEF Verifies, IsDue
  <2>6. \A v \in Wallets : \A d \in U[v] : d.id # c.id
    BY <2>2, <2>3, <2>5 DEF Custody, HeldKnowsAll
  <2>7. HoldingOf(w, reg) /\ reg = h.reg \cup {c}
    <3> HIDE DEF c, U, X
    <3>1. \A d \in h.reg : d.id # c.id
      BY <2>4, <2>6
    <3>2. Balance(h.reg) + Value[c.id] <= MaxBalance
      BY <1>3, <2>2
    <3> DEFINE S == h.reg
    <3>3. /\ OwnCopy(w, c) /\ Issued \subseteq Tokens /\ HoldingOf(w, S)
          /\ \A d \in S : d.id # c.id
          /\ Balance(S) + Value[c.id] <= MaxBalance
      BY <1>1, <2>2, <2>3, <3>1, <3>2
    <3> HIDE DEF S
    <3>4. HoldingOf(w, S \cup {c}) /\ Put(S, {c}) = S \cup {c}
      BY <3>3, HoldMore
    <3> QED
      BY <3>4 DEF S
  <2>8. /\ U2[w] = h.reg \cup {c} /\ X2[w] = seen
        /\ \A v \in Wallets : v # w => U2[v] = U[v] /\ X2[v] = X[v]
    BY <1>1, <2>4, <2>7
  <2>9. \A v \in Wallets : U2[v] \subseteq IF v = w THEN U[v] \cup {c} ELSE U[v]
    BY <2>4, <2>8
  <2>10. ASSUME NEW q \in Parcels, IsDue(q, X2) PROVE IsDue(q, X) /\ q.copy.id # c.id
    <3>1. q.transfer.to \in Wallets
      BY <1>1, ParcelFields
    <3>2. X[q.transfer.to] \subseteq X2[q.transfer.to]
      BY <2>4, <2>8, <3>1
    <3>3. IsDue(q, X)
      BY <2>10, <3>2 DEF IsDue
    <3>4. q # p
      BY <2>5, <2>8, <2>10 DEF IsDue
    <3> QED
      BY <2>2, <2>3, <2>5, <3>3, <3>4 DEF Custody, OneDue
  <2>11. \A q \in Parcels : q.copy.id = c.id => Begins(q.transfer.id, c.chain)
    BY <2>2, <2>3, <2>5 DEF Custody, DueKnowsAll
  <2>12. c.id \notin vault
    BY <2>2, <2>3 DEF Custody, VaultUntouched
  <2>13. Custody(Parcels, vault, U2, X2)
    <3> HIDE DEF c, U, X, U2, X2
    <3>1. Custody(Parcels, vault, U, X)
      BY <2>3
    <3> QED
      BY <3>1, <2>6, <2>9, <2>10, <2>11, <2>12, TakeIn
  <2>14. seen \subseteq {q.transfer.id : q \in Parcels}
    BY <2>3
  <2>15. reg \subseteq Copy /\ utr[w] \subseteq reg
    BY <2>2, <2>3, <2>7
  <2> HIDE DEF reg, seen
  <2> QED
    BY <2>1, <2>7, <2>13, <2>14, <2>15 DEF Between
<1> QED
  BY <1>2, <1>3

\* The whole bundle (receive_bundle).
LEMMA ReceiveStep ==
  ASSUME OfflineInv, NEW bundle \in sent, NEW w \in Wallets, ReceiveBundle(w, bundle)
  PROVE  \E h : /\ Between(w, h)
                /\ utr' = [utr EXCEPT ![w] = h.reg] /\ processed' = [processed EXCEPT ![w] = h.seen]
                /\ UNCHANGED <<str, syncRequired, sent>>
<1>1. PICK n \in Nat : DOMAIN bundle = 1..n
  BY DEF OfflineInv, ParcelsInv
<1> DEFINE base == [reg |-> utr[w], seen |-> processed[w]]
           held == HeldAfter(w, utr[w], processed[w], bundle)
<1>2. /\ utr' = [utr EXCEPT ![w] = held.reg] /\ processed' = [processed EXCEPT ![w] = held.seen]
      /\ UNCHANGED <<str, syncRequired, sent>>
  BY Zenon DEF ReceiveBundle, HeldAfter
<1>3. \E g : Receives(g, n, w, utr[w], processed[w], bundle)
  <2> DEFINE R == utr[w]
             S == processed[w]
  <2> HIDE DEF R, S, base, held
  <2>1. \E g : Receives(g, n, w, R, S, bundle)
    BY <1>1, ReceiveRun
  <2> QED
    BY <2>1 DEF R, S
<1>4. Between(w, base)
  <2>1. /\ utr \in [Wallets -> SUBSET Copy] /\ processed \in [Wallets -> SUBSET Seq(Hops)]
        /\ HoldingOf(w, utr[w]) /\ processed[w] \subseteq {p.transfer.id : p \in Parcels}
        /\ Custody(Parcels, vault, utr, processed)
    BY DEF OfflineInv, RegistersTyped, HoldingsInv, ProcessedInv
  <2>2. [utr EXCEPT ![w] = utr[w]] = utr /\ [processed EXCEPT ![w] = processed[w]] = processed
    BY <2>1
  <2> QED
    BY <2>1, <2>2 DEF Between
<1> PICK g : /\ g[0] = base /\ g[n] = held
             /\ \A k \in 0..(n - 1) : g[k + 1] = ApplyTransfer(w, g[k], bundle[k + 1])
  BY <1>3 DEF Receives
<1> HIDE DEF base, held
<1> DEFINE G == {k \in 0..n : Between(w, g[k])}
<1>5. 0 \in G
  BY <1>3, <1>4
<1>6. ASSUME NEW k \in 0..(n - 1), k \in G PROVE k + 1 \in G
  <2>1. k + 1 \in 0..n /\ k + 1 \in DOMAIN bundle
    BY <1>1
  <2>2. bundle[k + 1] \in Parcels
    BY <2>1 DEF Parcels
  <2>3. Between(w, g[k + 1])
    BY <1>3, <1>6, <2>2, ApplyStep
  <2> QED
    BY <2>1, <2>3
<1>7. n \in G
  <2>1. \A k \in 0..n : k \in G
    <3> HIDE DEF G
    <3> QED
      BY <1>5, <1>6, ClimbTo
  <2> QED
    BY <2>1
<1> QED
  BY <1>2, <1>3, <1>7
-----------------------------------------------------------------------------
(***************************************************************************)
(* What every step keeps                                                   *)
(***************************************************************************)

\* Time passes, tokens stay issued as they were, and bundles stay about.
Onwards ==
  /\ now' \in Times /\ now <= now'
  /\ Issued \subseteq Issued' /\ \A t \in Issued : minted'[t] = minted[t]
  /\ Parcels \subseteq Parcels'

\* Times are numbers, now and later.
LEMMA TimesFacts ==
  ASSUME IssuanceInv, Onwards
  PROVE  /\ Times \subseteq Nat /\ now \in Nat /\ now' \in Nat
         /\ \A t \in Issued : minted[t].at \in Nat /\ minted[t].owner \in Wallets
BY LifetimeType DEF IssuanceInv, Onwards, Times

\* What the wallets hold stays in order when tokens are issued.
LEMMA HoldingsKept ==
  ASSUME Onwards, \A w \in Wallets : HoldingOf(w, utr'[w])
  PROVE  HoldingsInv(utr)'
<1> SUFFICES ASSUME NEW w \in Wallets PROVE HoldingOf(w, utr[w])'
  BY DEF HoldingsInv
<1>1. \A c \in utr'[w] : OwnCopy(w, c)'
  BY DEF HoldingOf, OwnCopy, Counted, Onwards
<1>2. Balance(utr[w])' = Balance(utr'[w])
  BY DEF Balance, Ids
<1> QED
  BY <1>1, <1>2 DEF HoldingOf

\* What the wallets have spent stays in order.
LEMMA SpentKept ==
  ASSUME SpentInv, Onwards, UNCHANGED str
  PROVE  SpentInv'
BY DEF SpentInv, Onwards

\* Parcels stay what they are.
LEMMA ParcelsKept ==
  ASSUME IssuanceInv, ParcelsInv, Onwards,
         \A b \in sent' \ sent : \E n \in Nat : DOMAIN b = 1..n,
         \A p \in Parcels' \ Parcels : ParcelOK(p)
  PROVE  ParcelsInv'
<1>1. \A b \in sent' : \E n \in Nat : DOMAIN b = 1..n
  BY DEF ParcelsInv
<1>2. ASSUME NEW p \in Parcels' PROVE ParcelOK(p)'
  <2>1. ParcelOK(p)
    BY DEF ParcelsInv
  <2>2. p.transfer.at \in Nat /\ p.transfer.at <= now
    BY <2>1, ParcelFields, TimesFacts
  <2>3. p.transfer.at <= now' /\ p.copy.id \in Issued' /\ minted'[p.copy.id] = minted[p.copy.id]
    BY <2>1, <2>2, TimesFacts DEF ParcelOK, Onwards
  <2> QED
    BY <2>1, <2>3 DEF ParcelOK
<1> QED
  BY <1>1, <1>2 DEF ParcelsInv

\* A token does not get younger.
LEMMA ExpiredStays ==
  ASSUME IssuanceInv, Onwards, NEW t \in Issued, ExpiredAt(t, now)
  PROVE  ExpiredAt(t, now)'
<1>1. now \in Nat /\ now' \in Nat /\ now <= now' /\ minted[t].at \in Nat /\ minted'[t] = minted[t]
  BY TimesFacts DEF Onwards
<1> DEFINE a == Second(now)
           b == Second(now')
           m == Second(minted[t].at)
<1>2. a <= b /\ a \in Int /\ b \in Int /\ m \in Int
  BY <1>1, SecondMonotone, SecondFacts
<1>3. a - m > ExpirySeconds
  BY DEF ExpiredAt
<1>4. ExpirySeconds \in Int
  BY IssuanceAssumption
<1> HIDE DEF a, b, m
<1>5. b - m > ExpirySeconds
  BY <1>2, <1>3, <1>4
<1>6. ExpiredAt(t, now)' <=> Second(now') - Second(minted'[t].at) > ExpirySeconds
  BY DEF ExpiredAt, Second
<1> QED
  BY <1>1, <1>5, <1>6 DEF b, m

\* What is marked stays marked.
LEMMA MarkedKept ==
  ASSUME IssuanceInv, HoldingsInv(utr), MarkedInv(utr), Onwards, UNCHANGED syncRequired,
         \A w \in Wallets : utr[w] \subseteq utr'[w]
  PROVE  MarkedInv(utr)'
<1> SUFFICES ASSUME NEW w \in Wallets, NEW t \in syncRequired[w]
             PROVE  \E c \in utr'[w] : c.id = t /\ (ExpiredAt(t, now)' \/ c.nonce >= MaxHops)
  BY DEF MarkedInv
<1>1. PICK c \in utr[w] : c.id = t /\ (ExpiredAt(t, now) \/ c.nonce >= MaxHops)
  BY DEF MarkedInv
<1>2. t \in Issued
  BY <1>1 DEF HoldingsInv, HoldingOf, OwnCopy
<1>3. ExpiredAt(t, now) => ExpiredAt(t, now)'
  BY <1>2, ExpiredStays
<1> QED
  BY <1>1, <1>3

\* The books of the server stay right.
LEMMA SettledKept ==
  ASSUME IssuanceInv, SettledInv, Onwards, UNCHANGED settled
  PROVE  SettledInv'
<1> SUFFICES ASSUME NEW t \in DOMAIN settled
             PROVE  /\ t \in Issued'
                    /\ \E p \in Parcels' : p.copy.id = t /\ p.transfer = settled[t].transfer
                    /\ settled[t].at <= now' /\ settled[t].at < minted'[t].at + Lifetime + TicksPerSecond
  BY DEF SettledInv
<1>1. /\ t \in Issued
      /\ \E p \in Parcels : p.copy.id = t /\ p.transfer = settled[t].transfer
      /\ settled[t].at <= now /\ settled[t].at < minted[t].at + Lifetime + TicksPerSecond
      /\ settled[t].at \in Times
  BY DEF SettledInv
<1>2. settled[t].at <= now'
  BY <1>1, TimesFacts DEF Onwards
<1>3. minted'[t] = minted[t] /\ t \in Issued'
  BY <1>1 DEF Onwards
<1>4. \E p \in Parcels' : p.copy.id = t /\ p.transfer = settled[t].transfer
  BY <1>1 DEF Onwards
<1> QED
  BY <1>1, <1>2, <1>3, <1>4

\* So do revocations and reissues.
LEMMA RecoveryKept ==
  ASSUME IssuanceInv, RecoveryInv, Onwards, UNCHANGED serverVars
  PROVE  RecoveryInv'
<1>1. \A w \in DOMAIN revoked : revoked[w] \in Times /\ revoked[w] <= now'
  <2>1. \A w \in DOMAIN revoked : revoked[w] \in Times /\ revoked[w] <= now
    BY DEF RecoveryInv
  <2> QED
    BY <2>1, TimesFacts DEF Onwards
<1>2. ASSUME NEW r \in reissues
      PROVE  /\ r.token \in Issued' /\ r.since \in Times /\ r.since + Lifetime < now'
             /\ r.token \in DOMAIN settled /\ settled[r.token].transfer.to # minted'[r.token].owner =>
                  settled[r.token].at > r.since + Lifetime
  <2>1. /\ r.token \in Issued /\ r.since \in Times /\ r.since + Lifetime < now
        /\ r.token \in DOMAIN settled /\ settled[r.token].transfer.to # minted[r.token].owner =>
             settled[r.token].at > r.since + Lifetime
    BY DEF RecoveryInv
  <2>2. r.token \in Issued' /\ minted'[r.token] = minted[r.token]
    BY <2>1 DEF Onwards
  <2>3. r.since + Lifetime < now'
    BY <2>1, TimesFacts, LifetimeType DEF Onwards
  <2> QED
    BY <2>1, <2>2, <2>3
<1>3. DOMAIN revoked \subseteq Losable /\ recovered \subseteq Losable \X Wallets
  BY DEF RecoveryInv
<1>4. UNCHANGED <<settled, revoked, recovered, reissues>>
  BY DEF serverVars
<1> QED
  BY <1>1, <1>2, <1>3, <1>4 DEF RecoveryInv

\* And what could renew a token that was given away.
LEMMA SyncKept ==
  ASSUME IssuanceInv, ParcelsInv, SyncInv, Onwards, Parcels' = Parcels, UNCHANGED syncVars,
         \A w \in Wallets : utr[w] \subseteq utr'[w]
  PROVE  SyncInv'
<1>1. heartbeats' = heartbeats /\ lastSync' = lastSync
  BY DEF syncVars
<1>2. /\ heartbeats' \subseteq [wallet : Wallets, tokens : SUBSET Issued', at : Times]
      /\ DOMAIN lastSync' \subseteq Issued' /\ lastSync' \in [DOMAIN lastSync' -> Times]
  <2>1. SUBSET Issued \subseteq SUBSET Issued'
    BY DEF Onwards
  <2>2. heartbeats \subseteq [wallet : Wallets, tokens : SUBSET Issued, at : Times]
    BY DEF SyncInv
  <2>3. heartbeats \subseteq [wallet : Wallets, tokens : SUBSET Issued', at : Times]
    BY <2>1, <2>2
  <2> QED
    BY <1>1, <2>3 DEF SyncInv, Onwards
<1>3. \A hb \in heartbeats : hb.at <= now'
  <2>1. \A hb \in heartbeats : hb.at \in Times /\ hb.at <= now
    BY DEF SyncInv
  <2> QED
    BY <2>1, TimesFacts DEF Onwards
<1>4. \A t \in DOMAIN lastSync : lastSync[t] <= now'
  <2>1. \A t \in DOMAIN lastSync : lastSync[t] \in Times /\ lastSync[t] <= now
    BY DEF SyncInv
  <2> QED
    BY <2>1, TimesFacts DEF Onwards
<1>5. ASSUME NEW t \in Issued'
      PROVE  \/ GivenAwayAt(t)' = {} \/ t \in Ids(utr[minted[t].owner])'
             \/ \E left \in GivenAwayAt(t)' : RenewedBefore(t, left)'
  <2>1. CASE t \notin Issued
    <3>1. \A p \in Parcels : p.copy.id # t
      BY <2>1 DEF ParcelsInv, ParcelOK
    <3> QED
      BY <3>1 DEF GivenAwayAt
  <2>2. CASE t \in Issued
    <3>1. minted'[t] = minted[t] /\ minted[t].owner \in Wallets
      BY <2>2, TimesFacts DEF Onwards
    <3>2. GivenAwayAt(t)' = GivenAwayAt(t)
      BY <3>1 DEF GivenAwayAt
    <3>3. t \in Ids(utr[minted[t].owner]) => t \in Ids(utr[minted[t].owner])'
      BY <3>1 DEF Ids
    <3>4. \A left : RenewedBefore(t, left) => RenewedBefore(t, left)'
      BY <1>1, <3>1 DEF RenewedBefore
    <3> QED
      BY <2>2, <3>2, <3>3, <3>4 DEF SyncInv
  <2> QED
    BY <2>1, <2>2
<1> QED
  BY <1>1, <1>2, <1>3, <1>4, <1>5 DEF SyncInv
-----------------------------------------------------------------------------
(***************************************************************************)
(* The steps                                                               *)
(***************************************************************************)

\* Everything but the server's books, which a step may change in its own way.
LedgerFree ==
  /\ RegistersTyped /\ IssuanceInv /\ HoldingsInv(utr) /\ SpentInv /\ ParcelsInv
  /\ Custody(Parcels, vault, utr, processed) /\ ProcessedInv(Parcels, processed)
  /\ MarkedInv(utr) /\ SyncInv

\* The invariant is that and the books.
LEMMA Split ==
  OfflineInv <=> LedgerFree /\ SettledInv /\ RecoveryInv
BY DEF OfflineInv, LedgerFree

\* Where no bundle is made the parcels are the same.
LEMMA SameParcels ==
  ASSUME UNCHANGED sent
  PROVE  Parcels' = Parcels
BY DEF Parcels

\* A step of the server or of the clock leaves the wallets alone.
LEMMA WalletsAlone ==
  ASSUME LedgerFree, Onwards, UNCHANGED <<minted, vault, walletVars>>
  PROVE  /\ RegistersTyped' /\ IssuanceInv' /\ HoldingsInv(utr)' /\ SpentInv' /\ ParcelsInv'
         /\ Custody(Parcels, vault, utr, processed)' /\ ProcessedInv(Parcels, processed)'
         /\ MarkedInv(utr)'
         /\ UNCHANGED syncVars => SyncInv'
<1>1. /\ utr' = utr /\ str' = str /\ syncRequired' = syncRequired /\ processed' = processed
      /\ sent' = sent /\ minted' = minted /\ vault' = vault /\ Parcels' = Parcels
  BY SameParcels DEF walletVars
<1>2. RegistersTyped' /\ ProcessedInv(Parcels, processed)'
  BY <1>1 DEF LedgerFree, RegistersTyped, ProcessedInv
<1>3. IssuanceInv'
  <2>1. \A t \in Issued : minted[t].at <= now'
    <3>1. \A t \in Issued : minted[t].at <= now
      BY DEF LedgerFree, IssuanceInv
    <3> QED
      BY <3>1, TimesFacts DEF LedgerFree, Onwards
  <2> QED
    BY <1>1, <2>1 DEF LedgerFree, IssuanceInv, Issued, Onwards
<1>4. HoldingsInv(utr)'
  BY <1>1, HoldingsKept DEF LedgerFree, HoldingsInv
<1>5. SpentInv'
  BY <1>1, SpentKept DEF LedgerFree
<1>6. ParcelsInv'
  BY <1>1, ParcelsKept DEF LedgerFree
<1>7. Custody(Parcels, vault, utr, processed)'
  BY <1>1 DEF LedgerFree, Custody, OneCopy, OneDue, HeldKnowsAll, DueKnowsAll, VaultUntouched,
              NoFork, IsDue
<1>8. MarkedInv(utr)'
  BY <1>1, MarkedKept DEF LedgerFree
<1>9. UNCHANGED syncVars => SyncInv'
  BY <1>1, SyncKept DEF LedgerFree
<1> QED
  BY <1>2, <1>3, <1>4, <1>5, <1>6, <1>7, <1>8, <1>9

\* Custody depends on what is where alone.
LEMMA CustodyThen ==
  ASSUME Custody(Parcels', vault', utr', processed')
  PROVE  Custody(Parcels, vault, utr, processed)'
BY DEF Custody, OneCopy, OneDue, HeldKnowsAll, DueKnowsAll, VaultUntouched, NoFork, IsDue

\* Tokens are minted (Issuer.mint_token).
LEMMA MintStep ==
  ASSUME LedgerFree, NEW owner \in Wallets, NEW fresh \in SUBSET Tokens, Mint(owner, fresh),
         UNCHANGED <<now, walletVars, syncVars>>
  PROVE  Onwards /\ LedgerFree'
<1>1. /\ utr' = utr /\ str' = str /\ syncRequired' = syncRequired /\ processed' = processed
      /\ sent' = sent /\ now' = now /\ Parcels' = Parcels /\ vault' = vault \cup fresh
  BY SameParcels DEF walletVars, Mint
<1>2. /\ Issued' = Issued \cup fresh /\ fresh \cap Issued = {}
      /\ \A t \in Issued : minted'[t] = minted[t]
      /\ \A t \in fresh : minted'[t] = [owner |-> owner, at |-> now]
  BY DEF Mint, Issued
<1>3. Onwards
  BY <1>1, <1>2 DEF Onwards, LedgerFree, IssuanceInv, Times
<1>4. IssuanceInv'
  <2>1. now \in Nat /\ now <= now /\ now \in Times
    BY <1>3, TimesFacts DEF LedgerFree, IssuanceInv
  <2>2. ASSUME NEW t \in Issued'
        PROVE  minted'[t] \in [owner : Wallets, at : Times] /\ minted'[t].at <= now'
    <3>1. CASE t \in Issued
      BY <1>1, <1>2, <3>1 DEF LedgerFree, IssuanceInv
    <3>2. CASE t \in fresh
      BY <1>1, <1>2, <2>1, <3>2
    <3> QED
      BY <1>2, <3>1, <3>2
  <2>3. Issued' \subseteq Tokens /\ vault' \subseteq Issued'
    BY <1>1, <1>2 DEF LedgerFree, IssuanceInv
  <2> QED
    BY <1>1, <2>1, <2>2, <2>3 DEF IssuanceInv
<1>5. RegistersTyped' /\ ProcessedInv(Parcels, processed)'
  BY <1>1 DEF LedgerFree, RegistersTyped, ProcessedInv
<1>6. HoldingsInv(utr)' /\ SpentInv' /\ ParcelsInv' /\ MarkedInv(utr)' /\ SyncInv'
  <2>1. HoldingsInv(utr)'
    BY <1>1, <1>3, HoldingsKept DEF LedgerFree, HoldingsInv
  <2>2. SpentInv' /\ ParcelsInv'
    BY <1>1, <1>3, SpentKept, ParcelsKept DEF LedgerFree
  <2>3. MarkedInv(utr)' /\ SyncInv'
    BY <1>1, <1>3, MarkedKept, SyncKept DEF LedgerFree
  <2> QED
    BY <2>1, <2>2, <2>3
<1>7. Custody(Parcels, vault, utr, processed)'
  <2>1. \A w \in Wallets : \A c \in utr[w] : c.id \notin fresh
    BY <1>2 DEF LedgerFree, HoldingsInv, HoldingOf, OwnCopy
  <2>2. \A p \in Parcels : p.copy.id \notin fresh
    BY <1>2 DEF LedgerFree, ParcelsInv, ParcelOK
  <2>3. Custody(Parcels, vault, utr, processed)
    BY DEF LedgerFree
  <2>4. Custody(Parcels, vault \cup fresh, utr, processed)
    BY <2>1, <2>2, <2>3, MintFresh
  <2>5. Custody(Parcels', vault', utr', processed')
    BY <1>1, <2>4
  <2> QED
    BY <2>5, CustodyThen
<1> QED
  BY <1>3, <1>4, <1>5, <1>6, <1>7 DEF LedgerFree

\* A token as it was minted is taken in (Wallet.receive_token).
LEMMA LoadStep ==
  ASSUME OfflineInv, NEW t \in Tokens, LoadToken(t)
  PROVE  OfflineInv'
<1> DEFINE w == minted[t].owner
           c == MintedCopy(t)
<1>1. /\ t \in vault /\ Balance(utr[w]) + Value[t] <= MaxBalance
      /\ utr' = [utr EXCEPT ![w] = Put(@, {c})] /\ vault' = vault \ {t}
      /\ UNCHANGED <<now, minted, str, syncRequired, processed, sent, serverVars, syncVars>>
  BY DEF LoadToken, ReceiveToken
<1>2. LedgerFree /\ SettledInv /\ RecoveryInv
  BY Split
<1>3. t \in Issued /\ w \in Wallets /\ Parcels' = Parcels /\ Issued' = Issued
  BY <1>1, <1>2, SameParcels DEF LedgerFree, IssuanceInv, Issued
<1>4. Onwards
  BY <1>1, <1>2, <1>3 DEF Onwards, LedgerFree, IssuanceInv, Times
<1>5. OwnCopy(w, c) /\ c.id = t /\ c \in Copy
  <2>1. <<>> \in Seq(Hops) /\ Len(<<>>) = 0 /\ 0 <= MaxHops /\ t \in Tokens
    BY LifetimeType
  <2>2. c = [id |-> t, owner |-> w, nonce |-> 0, hops |-> 0, chain |-> <<>>]
    BY DEF MintedCopy
  <2> HIDE DEF c, w
  <2> QED
    BY <1>3, <2>1, <2>2 DEF OwnCopy, Counted, Copy
<1>6. \A v \in Wallets : \A d \in utr[v] : d.id # c.id
  BY <1>1, <1>2, <1>5 DEF LedgerFree, Custody, VaultUntouched
<1>7. HoldingOf(w, utr[w] \cup {c}) /\ Put(utr[w], {c}) = utr[w] \cup {c}
  <2> DEFINE S == utr[w]
  <2>1. /\ HoldingOf(w, S) /\ Issued \subseteq Tokens /\ \A d \in S : d.id # c.id
        /\ Balance(S) + Value[c.id] <= MaxBalance
    BY <1>1, <1>2, <1>3, <1>5, <1>6 DEF LedgerFree, HoldingsInv, IssuanceInv
  <2> HIDE DEF S, c, w
  <2>2. HoldingOf(w, S \cup {c}) /\ Put(S, {c}) = S \cup {c}
    BY <1>3, <1>5, <2>1, HoldMore
  <2> QED
    BY <2>2 DEF S
<1> HIDE DEF c, w
<1>8. utr \in [Wallets -> SUBSET Copy]
  BY <1>2 DEF LedgerFree, RegistersTyped
<1>9. \A v \in Wallets : utr'[v] = IF v = w THEN utr[v] \cup {c} ELSE utr[v]
  BY <1>1, <1>3, <1>7, <1>8
<1>10. RegistersTyped'
  <2>1. utr' \in [Wallets -> SUBSET Copy]
    BY <1>1, <1>5, <1>7, <1>8
  <2> QED
    BY <1>1, <1>2, <2>1 DEF LedgerFree, RegistersTyped
<1>11. IssuanceInv'
  BY <1>1, <1>2, <1>3 DEF LedgerFree, IssuanceInv
<1>12. HoldingsInv(utr)'
  <2>1. \A v \in Wallets : HoldingOf(v, utr'[v])
    BY <1>2, <1>7, <1>9 DEF LedgerFree, HoldingsInv
  <2> QED
    BY <1>4, <2>1, HoldingsKept
<1>13. \A v \in Wallets : utr[v] \subseteq utr'[v]
  BY <1>9
<1>14. SpentInv' /\ ParcelsInv' /\ ProcessedInv(Parcels, processed)'
  BY <1>1, <1>2, <1>3, <1>4, SpentKept, ParcelsKept DEF LedgerFree, ProcessedInv
<1>15. MarkedInv(utr)' /\ SyncInv' /\ SettledInv' /\ RecoveryInv'
  <2>1. MarkedInv(utr)' /\ SyncInv'
    BY <1>1, <1>2, <1>3, <1>4, <1>13, MarkedKept, SyncKept DEF LedgerFree
  <2>2. SettledInv' /\ RecoveryInv'
    BY <1>1, <1>2, <1>4, SettledKept, RecoveryKept DEF LedgerFree, serverVars
  <2> QED
    BY <2>1, <2>2
<1>16. Custody(Parcels, vault, utr, processed)'
  <2>1. \A p \in Parcels : p.copy.id # c.id
    BY <1>1, <1>2, <1>5 DEF LedgerFree, Custody, VaultUntouched
  <2>2. Custody(Parcels, vault, utr, processed) /\ vault' \in SUBSET vault /\ c.id \notin vault'
    BY <1>1, <1>2, <1>5 DEF LedgerFree
  <2>3. \A v \in Wallets : utr'[v] \subseteq IF v = w THEN utr[v] \cup {c} ELSE utr[v]
    BY <1>9
  <2>4. Custody(Parcels, vault', utr', processed)
    BY <1>3, <1>6, <2>1, <2>2, <2>3, TakeIn
  <2>5. Custody(Parcels', vault', utr', processed')
    BY <1>1, <1>3, <2>4
  <2> QED
    BY <2>5, CustodyThen
<1> QED
  BY <1>10, <1>11, <1>12, <1>14, <1>15, <1>16 DEF OfflineInv

\* A bundle is sent, for the first time or again (receive_bundle).
LEMMA SendStep ==
  ASSUME OfflineInv, NEW bundle \in sent, NEW w \in Wallets, SendBundle(bundle, w)
  PROVE  OfflineInv'
<1>1. /\ LedgerFree /\ SettledInv /\ RecoveryInv
      /\ ReceiveBundle(w, bundle) /\ UNCHANGED <<now, minted, vault, serverVars, syncVars>>
  BY Split DEF SendBundle, issuanceVars
<1>2. PICK h : /\ Between(w, h)
               /\ utr' = [utr EXCEPT ![w] = h.reg] /\ processed' = [processed EXCEPT ![w] = h.seen]
               /\ UNCHANGED <<str, syncRequired, sent>>
  BY <1>1, ReceiveStep
<1>3. Parcels' = Parcels /\ Issued' = Issued
  BY <1>1, <1>2, SameParcels DEF Issued
<1>4. Onwards
  BY <1>1, <1>3 DEF Onwards, LedgerFree, IssuanceInv, Times
<1>5. /\ utr \in [Wallets -> SUBSET Copy] /\ processed \in [Wallets -> SUBSET Seq(Hops)]
      /\ \A p \in Parcels : p.transfer.id \in Seq(Hops)
  BY <1>1, ParcelFields DEF LedgerFree, RegistersTyped, ParcelsInv
<1>6. /\ HoldingOf(w, h.reg) /\ h.reg \subseteq Copy /\ utr[w] \subseteq h.reg
      /\ h.seen \subseteq {p.transfer.id : p \in Parcels}
      /\ Custody(Parcels, vault, utr', processed')
  BY <1>2 DEF Between
<1>7. \A v \in Wallets : /\ utr'[v] = IF v = w THEN h.reg ELSE utr[v]
                         /\ processed'[v] = IF v = w THEN h.seen ELSE processed[v]
  BY <1>2, <1>5
<1>8. RegistersTyped' /\ ProcessedInv(Parcels, processed)'
  <2>1. h.seen \subseteq Seq(Hops)
    BY <1>5, <1>6
  <2>2. utr' \in [Wallets -> SUBSET Copy] /\ processed' \in [Wallets -> SUBSET Seq(Hops)]
    BY <1>2, <1>5, <1>6, <2>1
  <2> QED
    BY <1>1, <1>2, <1>3, <1>6, <1>7, <2>2 DEF LedgerFree, RegistersTyped, ProcessedInv
<1>9. IssuanceInv'
  BY <1>1, <1>3 DEF LedgerFree, IssuanceInv
<1>10. HoldingsInv(utr)'
  <2>1. \A v \in Wallets : HoldingOf(v, utr'[v])
    BY <1>1, <1>6, <1>7 DEF LedgerFree, HoldingsInv
  <2> QED
    BY <1>4, <2>1, HoldingsKept
<1>11. \A v \in Wallets : utr[v] \subseteq utr'[v]
  BY <1>6, <1>7
<1>12. SpentInv' /\ ParcelsInv'
  BY <1>1, <1>2, <1>3, <1>4, SpentKept, ParcelsKept DEF LedgerFree
<1>13. MarkedInv(utr)' /\ SyncInv'
  BY <1>1, <1>2, <1>3, <1>4, <1>11, MarkedKept, SyncKept DEF LedgerFree
<1>14. SettledInv' /\ RecoveryInv'
  BY <1>1, <1>4, SettledKept, RecoveryKept DEF LedgerFree, serverVars
<1>15. Custody(Parcels, vault, utr, processed)'
  BY <1>1, <1>3, <1>6, CustodyThen
<1> QED
  BY <1>8, <1>9, <1>10, <1>12, <1>13, <1>14, <1>15 DEF OfflineInv

\* What create_payment turns down cannot be spent.
LEMMA UnspendableStuck ==
  ASSUME NEW w, NEW t \in Unspendable(w)
  PROVE  \E c \in utr[w] : c.id = t /\ (ExpiredAt(t, now) \/ ~(c.nonce < MaxHops))
BY DEF Unspendable, Spendable, Ids

\* The other way round, what it spends is alive and has a hop left.
LEMMA SpendableCopies ==
  ASSUME NEW w \in Wallets, HoldingsInv(utr), NEW T \in SUBSET Ids(Spendable(w)), NEW c \in utr[w], c.id \in T
  PROVE  OwnCopy(w, c) /\ ~ExpiredAt(c.id, now) /\ c.nonce < MaxHops
<1>1. PICK d \in Spendable(w) : d.id = c.id
  BY DEF Ids
<1>2. d \in utr[w] /\ ~ExpiredAt(d.id, now) /\ d.nonce < MaxHops
  BY DEF Spendable
<1>3. OwnCopy(w, c) /\ d = c
  BY <1>1, <1>2 DEF HoldingsInv, HoldingOf
<1> QED
  BY <1>2, <1>3

\* A payment that fails leaves its marks (Wallet.create_payment).
LEMMA PayInVainStep ==
  ASSUME OfflineInv, NEW w \in Wallets, NEW amount, PayInVain(w, amount)
  PROVE  OfflineInv'
<1>1. /\ LedgerFree /\ SettledInv /\ RecoveryInv
      /\ syncRequired' = [syncRequired EXCEPT ![w] = @ \cup Unspendable(w)]
      /\ UNCHANGED <<now, minted, vault, utr, str, processed, sent, serverVars, syncVars>>
  BY Split DEF PayInVain, CreatePaymentRaises, issuanceVars
<1>2. Parcels' = Parcels /\ Issued' = Issued
  BY <1>1, SameParcels DEF Issued
<1>3. Onwards
  BY <1>1, <1>2 DEF Onwards, LedgerFree, IssuanceInv, Times
<1>4. Unspendable(w) \subseteq Tokens
  BY <1>1 DEF LedgerFree, RegistersTyped, Unspendable, Ids, Copy
<1>5. RegistersTyped' /\ ProcessedInv(Parcels, processed)' /\ IssuanceInv'
  BY <1>1, <1>2, <1>4 DEF LedgerFree, RegistersTyped, ProcessedInv, IssuanceInv
<1>6. HoldingsInv(utr)' /\ SpentInv' /\ ParcelsInv'
  <2>1. HoldingsInv(utr)'
    BY <1>1, <1>3, HoldingsKept DEF LedgerFree, HoldingsInv
  <2> QED
    BY <1>1, <1>2, <1>3, <2>1, SpentKept, ParcelsKept DEF LedgerFree
<1>7. Custody(Parcels, vault, utr, processed)'
  BY <1>1, <1>2, CustodyThen DEF LedgerFree
<1>8. MarkedInv(utr)'
  <2> SUFFICES ASSUME NEW v \in Wallets, NEW t \in syncRequired'[v]
               PROVE  \E c \in utr[v] : c.id = t /\ (ExpiredAt(t, now) \/ c.nonce >= MaxHops)
    BY <1>1 DEF MarkedInv, ExpiredAt
  <2>1. CASE t \in syncRequired[v]
    BY <1>1, <2>1 DEF LedgerFree, MarkedInv
  <2>2. CASE t \notin syncRequired[v]
    <3>1. v = w /\ t \in Unspendable(w)
      BY <1>1, <2>2 DEF LedgerFree, RegistersTyped
    <3>2. PICK c \in utr[w] : c.id = t /\ (ExpiredAt(t, now) \/ ~(c.nonce < MaxHops))
      BY <3>1, UnspendableStuck
    <3>3. c.nonce \in Nat /\ MaxHops \in Nat
      BY <1>1, LifetimeType DEF LedgerFree, RegistersTyped, Copy
    <3> QED
      BY <3>1, <3>2, <3>3
  <2> QED
    BY <2>1, <2>2
<1>9. SyncInv' /\ SettledInv' /\ RecoveryInv'
  <2>1. SyncInv'
    BY <1>1, <1>2, <1>3, SyncKept DEF LedgerFree
  <2> QED
    BY <1>1, <1>3, <2>1, SettledKept, RecoveryKept DEF LedgerFree, serverVars
<1> QED
  BY <1>5, <1>6, <1>7, <1>8, <1>9 DEF OfflineInv

\* The parcels made of the copies paid with.
ParcelsOf(paid, receiver) == {Parcel(c, receiver) : c \in paid}

\* A bundle of all the copies paid with, in whichever order.
LEMMA BundleFacts ==
  ASSUME NEW paid, IsFiniteSet(paid), NEW receiver, NEW seq \in InOrder(paid),
         NEW bundle, bundle = [i \in DOMAIN seq |-> Parcel(seq[i], receiver)]
  PROVE  /\ \E n \in Nat : DOMAIN bundle = 1..n
         /\ {bundle[i] : i \in DOMAIN bundle} = ParcelsOf(paid, receiver)
<1> DEFINE n == Cardinality(paid)
           D == 1..n
<1>1. n \in Nat /\ IsFiniteSet(D) /\ Cardinality(D) = n
  <2>1. n \in Nat
    BY FS_CardinalityType
  <2>2. IsFiniteSet(1..n) /\ Cardinality(1..n) = IF 1 > n THEN 0 ELSE n - 1 + 1
    BY <2>1, FS_Interval
  <2> QED
    BY <2>1, <2>2
<1>2. seq \in [D -> paid] /\ \A i, j \in D : i # j => seq[i] # seq[j]
  BY DEF InOrder, SetToSeqs
<1> HIDE DEF n, D
<1>3. seq \in Surjection(D, paid)
  <2>1. seq \in Injection(D, paid)
    BY <1>2 DEF Injection, IsInjective
  <2>2. Cardinality(D) = Cardinality(paid)
    BY <1>1 DEF n
  <2> QED
    BY <2>1, <2>2, FS_Injection
<1>4. DOMAIN bundle = D /\ \A i \in D : bundle[i] = Parcel(seq[i], receiver)
  BY <1>2
<1>5. \A c \in paid : \E i \in D : seq[i] = c
  BY <1>3 DEF Surjection
<1>6. \A i \in D : seq[i] \in paid
  BY <1>2
<1> QED
  BY <1>1, <1>4, <1>5, <1>6 DEF D, ParcelsOf

\* What create_payment does when it pays.
Pays(w, receiver, paid, bundle) ==
  /\ paid \subseteq utr[w] /\ IsFiniteSet(paid)
  /\ \A c \in paid : OwnCopy(w, c) /\ ~ExpiredAt(c.id, now) /\ c.nonce < MaxHops
  /\ utr' = [utr EXCEPT ![w] = @ \ paid] /\ str' = [str EXCEPT ![w] = Put(@, paid)]
  /\ syncRequired' = [syncRequired EXCEPT ![w] = @ \cup Unspendable(w)]
  /\ sent' = sent \cup {bundle}
  /\ \E n \in Nat : DOMAIN bundle = 1..n
  /\ {bundle[i] : i \in DOMAIN bundle} = ParcelsOf(paid, receiver)
  /\ UNCHANGED <<now, minted, vault, processed, serverVars, syncVars>>

\* create_payment finds a cover of the amount, spends its copies and puts
\* their transfers in one bundle.
LEMMA PayPays ==
  ASSUME HoldingsInv(utr), NEW w \in Wallets, NEW receiver \in Wallets, NEW amount, Pay(w, receiver, amount)
  PROVE  \E paid, bundle : Pays(w, receiver, paid, bundle)
<1>1. PICK T \in AscendingCover(Value, Ids(Spendable(w)), amount) :
        LET paid == {c \in utr[w] : c.id \in T}
        IN /\ utr' = [utr EXCEPT ![w] = @ \ paid]
           /\ str' = [str EXCEPT ![w] = Put(@, paid)]
           /\ \E seq \in InOrder(paid) :
                sent' = sent \cup {[i \in DOMAIN seq |-> Parcel(seq[i], receiver)]}
  BY DEF Pay, CreatePayment
<1> DEFINE paid == {c \in utr[w] : c.id \in T}
<1>2. T \in SUBSET Ids(Spendable(w))
  BY DEF AscendingCover
<1>3. \A c \in paid : OwnCopy(w, c) /\ ~ExpiredAt(c.id, now) /\ c.nonce < MaxHops
  <2> SUFFICES ASSUME NEW c \in utr[w], c.id \in T
               PROVE  OwnCopy(w, c) /\ ~ExpiredAt(c.id, now) /\ c.nonce < MaxHops
    OBVIOUS
  <2> QED
    BY <1>2, SpendableCopies
<1>4. paid \subseteq utr[w] /\ IsFiniteSet(paid)
  <2>1. IsFiniteSet(utr[w])
    BY DEF HoldingsInv, HoldingOf
  <2> QED
    BY <2>1, FS_Subset
<1>5. /\ utr' = [utr EXCEPT ![w] = @ \ paid]
      /\ str' = [str EXCEPT ![w] = Put(@, paid)]
      /\ \E seq \in InOrder(paid) :
           sent' = sent \cup {[i \in DOMAIN seq |-> Parcel(seq[i], receiver)]}
  BY <1>1
<1> HIDE DEF paid
<1>6. PICK seq \in InOrder(paid) : sent' = sent \cup {[i \in DOMAIN seq |-> Parcel(seq[i], receiver)]}
  BY <1>5
<1> DEFINE bundle == [i \in DOMAIN seq |-> Parcel(seq[i], receiver)]
<1>7. sent' = sent \cup {bundle} /\ bundle = [i \in DOMAIN seq |-> Parcel(seq[i], receiver)]
  BY <1>6
<1> HIDE DEF bundle
<1>8. /\ \E n \in Nat : DOMAIN bundle = 1..n
      /\ {bundle[i] : i \in DOMAIN bundle} = ParcelsOf(paid, receiver)
  BY <1>4, <1>7, BundleFacts
<1>9. /\ syncRequired' = [syncRequired EXCEPT ![w] = @ \cup Unspendable(w)]
      /\ UNCHANGED <<now, minted, vault, processed, serverVars, syncVars>>
  BY DEF Pay, CreatePayment, issuanceVars
<1>10. Pays(w, receiver, paid, bundle)
  BY <1>3, <1>4, <1>5, <1>7, <1>8, <1>9 DEF Pays
<1> QED
  BY <1>10

\* The parcels there are after a payment.
LEMMA PaidParcels ==
  ASSUME NEW w, NEW receiver, NEW paid, NEW bundle, Pays(w, receiver, paid, bundle)
  PROVE  Parcels' = Parcels \cup ParcelsOf(paid, receiver)
<1>1. sent' = sent \cup {bundle} /\ {bundle[i] : i \in DOMAIN bundle} = ParcelsOf(paid, receiver)
  BY DEF Pays
<1>2. Parcels' = UNION {{b[i] : i \in DOMAIN b} : b \in sent'}
  BY DEF Parcels
<1>3. Parcels = UNION {{b[i] : i \in DOMAIN b} : b \in sent}
  BY DEF Parcels
<1>4. UNION {{b[i] : i \in DOMAIN b} : b \in sent \cup {bundle}}
      = (UNION {{b[i] : i \in DOMAIN b} : b \in sent}) \cup {bundle[i] : i \in DOMAIN bundle}
  OBVIOUS
<1> QED
  BY <1>1, <1>2, <1>3, <1>4

\* A token that is paid with is given away now; the others can be renewed as
\* before.
LEMMA PaySync ==
  ASSUME OfflineInv, Onwards, NEW w \in Wallets, NEW receiver \in Wallets, NEW paid, NEW bundle,
         Pays(w, receiver, paid, bundle)
  PROVE  SyncInv'
<1>1. /\ LedgerFree /\ IssuanceInv /\ SyncInv /\ ParcelsInv
      /\ heartbeats' = heartbeats /\ lastSync' = lastSync /\ now' = now /\ minted' = minted /\ Issued' = Issued
      /\ utr' = [utr EXCEPT ![w] = @ \ paid] /\ utr \in [Wallets -> SUBSET Copy]
      /\ \A c \in paid : OwnCopy(w, c) /\ c.nonce < MaxHops
  BY Split DEF Pays, syncVars, LedgerFree, RegistersTyped, Issued
<1>2. Parcels' = Parcels \cup ParcelsOf(paid, receiver)
  BY PaidParcels
<1>3. \A v \in Wallets : utr'[v] = IF v = w THEN utr[v] \ paid ELSE utr[v]
  BY <1>1
<1>4. \A c \in paid :
        LET p == Parcel(c, receiver)
        IN p.copy.id = c.id /\ p.transfer.from = w /\ p.transfer.at = now
  BY <1>1, NewParcel
<1>5. ASSUME NEW t \in Issued
      PROVE  \/ GivenAwayAt(t)' = {} \/ t \in Ids(utr[minted[t].owner])'
             \/ \E left \in GivenAwayAt(t)' : RenewedBefore(t, left)'
  <2>1. minted[t].owner \in Wallets
    BY <1>1, TimesFacts
  <2>2. GivenAwayAt(t)' = {p.transfer.at : p \in {q \in Parcels' : q.copy.id = t /\ q.transfer.from = minted[t].owner}}
    BY <1>1 DEF GivenAwayAt
  <2>3. GivenAwayAt(t) = {p.transfer.at : p \in {q \in Parcels : q.copy.id = t /\ q.transfer.from = minted[t].owner}}
    BY DEF GivenAwayAt
  <2>4. CASE \E c \in paid : c.id = t /\ minted[t].owner = w
    <3>1. PICK c \in paid : c.id = t /\ minted[t].owner = w
      BY <2>4
    <3>2. Parcel(c, receiver) \in Parcels'
      BY <1>2 DEF ParcelsOf
    <3>3. now \in GivenAwayAt(t)'
      BY <1>4, <2>2, <3>1, <3>2
    <3>4. RenewedBefore(t, now)
      <4>1. \A hb \in heartbeats : hb.at <= now
        BY <1>1 DEF SyncInv
      <4>2. t \in DOMAIN lastSync => lastSync[t] <= now + Lifetime
        <5>1. t \in DOMAIN lastSync => lastSync[t] \in Times /\ lastSync[t] <= now
          BY <1>1 DEF SyncInv
        <5> QED
          BY <1>1, <5>1, TimesFacts, LifetimeType
      <4> QED
        BY <4>1, <4>2 DEF RenewedBefore
    <3>5. \E left \in GivenAwayAt(t)' : RenewedBefore(t, left)
      BY <3>3, <3>4
    <3> QED
      BY <1>1, <3>5 DEF RenewedBefore
  <2>5. CASE ~ \E c \in paid : c.id = t /\ minted[t].owner = w
    <3>1. GivenAwayAt(t)' = GivenAwayAt(t)
      <4>1. \A q \in Parcels' \ Parcels : ~(q.copy.id = t /\ q.transfer.from = minted[t].owner)
        BY <1>2, <1>4, <2>5 DEF ParcelsOf
      <4>2. Parcels \subseteq Parcels'
        BY <1>2
      <4>3. {q \in Parcels' : q.copy.id = t /\ q.transfer.from = minted[t].owner}
            = {q \in Parcels : q.copy.id = t /\ q.transfer.from = minted[t].owner}
        BY <4>1, <4>2
      <4> QED
        BY <2>2, <2>3, <4>3
    <3>2. t \in Ids(utr[minted[t].owner]) => t \in Ids(utr[minted[t].owner])'
      <4>1. \A c \in utr[minted[t].owner] : c.id = t => c \in utr'[minted[t].owner]
        BY <1>3, <2>1, <2>5
      <4> QED
        BY <1>1, <4>1 DEF Ids
    <3>3. \A left : RenewedBefore(t, left) => RenewedBefore(t, left)'
      BY <1>1 DEF RenewedBefore
    <3> QED
      BY <1>1, <3>1, <3>2, <3>3 DEF SyncInv
  <2> QED
    BY <2>4, <2>5
<1> QED
  BY <1>1, <1>5 DEF SyncInv

\* A payment (Wallet.create_payment).
LEMMA PayStep ==
  ASSUME OfflineInv, NEW w \in Wallets, NEW receiver \in Wallets, NEW amount, Pay(w, receiver, amount)
  PROVE  OfflineInv'
<1>1. LedgerFree /\ SettledInv /\ RecoveryInv
  BY Split
<1>2. PICK paid, bundle : Pays(w, receiver, paid, bundle)
  BY <1>1, PayPays DEF LedgerFree
<1> DEFINE N == ParcelsOf(paid, receiver)
<1>3. /\ paid \subseteq utr[w] /\ IsFiniteSet(paid)
      /\ \A c \in paid : OwnCopy(w, c) /\ ~ExpiredAt(c.id, now) /\ c.nonce < MaxHops
      /\ utr' = [utr EXCEPT ![w] = @ \ paid] /\ str' = [str EXCEPT ![w] = Put(@, paid)]
      /\ syncRequired' = [syncRequired EXCEPT ![w] = @ \cup Unspendable(w)]
      /\ sent' = sent \cup {bundle} /\ \E n \in Nat : DOMAIN bundle = 1..n
      /\ UNCHANGED <<now, minted, vault, processed, serverVars, syncVars>>
      /\ Parcels' = Parcels \cup N
  BY <1>2, PaidParcels DEF Pays
<1>4. Onwards /\ Issued' = Issued
  BY <1>1, <1>3 DEF Onwards, LedgerFree, IssuanceInv, Times, Issued
<1>5. utr \in [Wallets -> SUBSET Copy] /\ str \in [Wallets -> SUBSET Copy] /\ IssuanceInv
  BY <1>1 DEF LedgerFree, RegistersTyped, IssuanceInv
<1>6. \A v \in Wallets : /\ utr'[v] = IF v = w THEN utr[v] \ paid ELSE utr[v]
                         /\ str'[v] = IF v = w THEN Put(str[v], paid) ELSE str[v]
  BY <1>3, <1>5
<1>7. \A p \in N : ParcelOK(p)
  BY <1>3, <1>5, NewParcel DEF ParcelsOf
<1>8. RegistersTyped'
  <2>1. utr' \in [Wallets -> SUBSET Copy]
    BY <1>3, <1>5
  <2>2. Put(str[w], paid) \in SUBSET Copy
    BY <1>3, <1>5 DEF Put, OwnCopy
  <2>3. str' \in [Wallets -> SUBSET Copy]
    BY <1>3, <1>5, <2>2
  <2>4. Unspendable(w) \subseteq Tokens
    BY <1>5 DEF Unspendable, Ids, Copy
  <2>5. syncRequired' \in [Wallets -> SUBSET Tokens]
    BY <1>1, <1>3, <2>4 DEF LedgerFree, RegistersTyped
  <2> QED
    BY <1>1, <1>3, <2>1, <2>3, <2>5 DEF LedgerFree, RegistersTyped
<1>9. IssuanceInv' /\ ProcessedInv(Parcels, processed)'
  BY <1>1, <1>3, <1>4 DEF LedgerFree, IssuanceInv, ProcessedInv
<1>10. HoldingsInv(utr)'
  <2>1. HoldingOf(w, utr[w] \ paid)
    BY <1>1, HoldLess DEF LedgerFree, HoldingsInv, IssuanceInv
  <2>2. \A v \in Wallets : HoldingOf(v, utr'[v])
    BY <1>1, <1>6, <2>1 DEF LedgerFree, HoldingsInv
  <2> QED
    BY <1>4, <2>2, HoldingsKept
<1>11. SpentInv'
  <2> SUFFICES ASSUME NEW v \in Wallets
               PROVE  /\ IsFiniteSet(str'[v])
                      /\ \A c \in str'[v] : c \in Copy /\ c.id \in Issued
                      /\ \A c, d \in str'[v] : c.id = d.id => c = d
    BY <1>4 DEF SpentInv
  <2>1. /\ IsFiniteSet(str[v])
        /\ \A c \in str[v] : c \in Copy /\ c.id \in Issued
        /\ \A c, d \in str[v] : c.id = d.id => c = d
    BY <1>1 DEF LedgerFree, SpentInv
  <2>2. CASE v # w
    BY <1>6, <2>1, <2>2
  <2>3. CASE v = w
    <3>1. str'[v] = {d \in str[v] : d.id \notin Ids(paid)} \cup paid
      BY <1>6, <2>3 DEF Put
    <3>2. IsFiniteSet(str'[v])
      <4>1. IsFiniteSet({d \in str[v] : d.id \notin Ids(paid)})
        BY <2>1, FS_Subset
      <4> QED
        BY ZenonT(60), <1>3, <3>1, <4>1, FS_Union
    <3>3. \A c \in paid : c \in Copy /\ c.id \in Issued /\ c.id \in Ids(paid)
      BY <1>3 DEF OwnCopy, Ids
    <3>4. \A c, d \in paid : c.id = d.id => c = d
      BY <1>1, <1>3 DEF LedgerFree, HoldingsInv, HoldingOf
    <3> QED
      BY <2>1, <3>1, <3>2, <3>3, <3>4
  <2> QED
    BY <2>2, <2>3
<1>12. ParcelsInv'
  <2>1. \A b \in sent' \ sent : \E n \in Nat : DOMAIN b = 1..n
    BY <1>3
  <2>2. \A p \in Parcels' \ Parcels : ParcelOK(p)
    BY <1>3, <1>7
  <2> QED
    BY <1>1, <1>4, <2>1, <2>2, ParcelsKept DEF LedgerFree
<1>13. Custody(Parcels, vault, utr, processed)'
  <2>1. Custody(Parcels, vault, utr, processed) /\ paid \in SUBSET utr[w]
    BY <1>1, <1>3 DEF LedgerFree
  <2>2. \A v \in Wallets : utr'[v] = IF v = w THEN utr[v] \ paid ELSE utr[v]
    BY <1>6
  <2>3. ASSUME NEW p \in N
        PROVE  \E c \in paid :
                 /\ p.copy.id = c.id
                 /\ \A q \in Parcels : q.copy.id = c.id /\ Begins(q.transfer.id, c.chain) =>
                                         Begins(q.transfer.id, p.transfer.id)
    <3>1. PICK c \in paid : p = Parcel(c, receiver)
      BY DEF ParcelsOf
    <3>2. /\ p.copy.id = c.id
          /\ \A s \in Seq(Hops) : Begins(s, c.chain) => Begins(s, p.transfer.id)
      BY <1>3, <1>5, <3>1, NewParcel
    <3>3. \A q \in Parcels : q.transfer.id \in Seq(Hops)
      BY <1>1, ParcelFields DEF LedgerFree, ParcelsInv
    <3> QED
      BY <3>2, <3>3
  <2>4. \A p \in N : Begins(p.transfer.id, p.transfer.id)
    BY <1>3, <1>5, NewParcel DEF ParcelsOf
  <2>5. ASSUME NEW p \in N, NEW q \in N, p.copy.id = q.copy.id PROVE p = q
    <3>1. PICK c \in paid : p = Parcel(c, receiver)
      BY DEF ParcelsOf
    <3>2. PICK d \in paid : q = Parcel(d, receiver)
      BY DEF ParcelsOf
    <3>3. p.copy.id = c.id /\ q.copy.id = d.id
      BY <1>3, <1>5, <3>1, <3>2, NewParcel
    <3>4. c = d
      BY <1>1, <1>3, <2>5, <3>3 DEF LedgerFree, HoldingsInv, HoldingOf
    <3> QED
      BY <3>1, <3>2, <3>4
  <2>6. Custody(Parcels \cup N, vault, utr', processed)
    <3> DEFINE P == Parcels
               U == utr
               U2 == utr'
    <3>1. Custody(P, vault, U, processed)
      BY <2>1
    <3>2. Leave(w, paid, U, U2)
      BY <2>1, <2>2 DEF Leave
    <3>3. Continue(P, N, paid)
      BY <2>3, <2>4, <2>5 DEF Continue
    <3> HIDE DEF N, P, U, U2
    <3>5. Custody(P \cup N, vault, U2, processed)
      BY <3>1, <3>2, <3>3, GiveAway
    <3> QED
      BY <3>5 DEF P, U2
  <2> QED
    BY <1>3, <2>6, CustodyThen
<1>14. MarkedInv(utr)'
  <2> SUFFICES ASSUME NEW v \in Wallets, NEW t \in syncRequired'[v]
               PROVE  \E c \in utr'[v] : c.id = t /\ (ExpiredAt(t, now) \/ c.nonce >= MaxHops)
    BY <1>3 DEF MarkedInv, ExpiredAt
  <2>1. PICK c \in utr[v] : c.id = t /\ (ExpiredAt(t, now) \/ c.nonce >= MaxHops)
    <3>1. CASE t \in syncRequired[v]
      BY <1>1, <3>1 DEF LedgerFree, MarkedInv
    <3>2. CASE t \notin syncRequired[v]
      <4>1. v = w /\ t \in Unspendable(w)
        BY <1>1, <1>3, <3>2 DEF LedgerFree, RegistersTyped
      <4>2. PICK c \in utr[w] : c.id = t /\ (ExpiredAt(t, now) \/ ~(c.nonce < MaxHops))
        BY <4>1, UnspendableStuck
      <4>3. c.nonce \in Nat /\ MaxHops \in Nat
        BY <1>5, LifetimeType DEF Copy
      <4> QED
        BY <4>1, <4>2, <4>3
    <3> QED
      BY <3>1, <3>2
  <2>2. c.nonce \in Nat /\ MaxHops \in Nat
    BY <1>5, LifetimeType DEF Copy
  <2>3. v = w => c \notin paid
    BY <1>3, <2>1, <2>2
  <2> QED
    BY <1>6, <2>1, <2>3
<1>15. SyncInv'
  BY <1>2, <1>4, PaySync
<1>16. SettledInv' /\ RecoveryInv'
  BY <1>1, <1>3, <1>4, SettledKept, RecoveryKept DEF LedgerFree, serverVars
<1> QED
  BY <1>8, <1>9, <1>10, <1>11, <1>12, <1>13, <1>14, <1>15, <1>16 DEF OfflineInv

\* At the start nothing is anywhere.
LEMMA Start ==
  ASSUME Init
  PROVE  OfflineInv
<1>1. /\ now = 0 /\ minted = [t \in {} |-> 0] /\ vault = {} /\ sent = {}
      /\ utr = [w \in Wallets |-> {}] /\ str = [w \in Wallets |-> {}]
      /\ syncRequired = [w \in Wallets |-> {}] /\ processed = [w \in Wallets |-> {}]
      /\ settled = [t \in {} |-> 0] /\ revoked = [w \in {} |-> 0] /\ recovered = {} /\ reissues = {}
      /\ heartbeats = {} /\ lastSync = [t \in {} |-> 0]
  BY DEF Init, IssuanceInit, WalletInit, ServerInit, SyncInit
<1>2. Issued = {} /\ Parcels = {} /\ now \in Times
  BY <1>1, LifetimeType DEF Issued, Parcels, Times
<1>3. RegistersTyped /\ IssuanceInv /\ SpentInv
  <2>1. IsFiniteSet({})
    BY FS_EmptySet
  <2> QED
    BY <1>1, <1>2, <2>1 DEF RegistersTyped, IssuanceInv, SpentInv
<1>4. HoldingsInv(utr)
  <2>1. IsFiniteSet({}) /\ MaxBalance \in Nat
    BY FS_EmptySet, OfflineWalletAssumption
  <2>2. Balance({}) = 0
    <3>1. Ids({}) = {}
      BY DEF Ids
    <3>2. Worth(Value, {}) = 0
      BY FS_EmptySet, WorthRecursion
    <3> QED
      BY <3>1, <3>2 DEF Balance
  <2> QED
    BY <1>1, <2>1, <2>2 DEF HoldingsInv, HoldingOf
<1>5. ParcelsInv /\ ProcessedInv(Parcels, processed)
  BY <1>1, <1>2 DEF ParcelsInv, ProcessedInv
<1>6. Custody(Parcels, vault, utr, processed)
  BY <1>1, <1>2 DEF Custody, OneCopy, OneDue, HeldKnowsAll, DueKnowsAll, VaultUntouched, NoFork
<1>7. MarkedInv(utr)
  BY <1>1 DEF MarkedInv
<1>8. SettledInv /\ RecoveryInv
  BY <1>1 DEF SettledInv, RecoveryInv
<1>9. SyncInv
  BY <1>1, <1>2 DEF SyncInv
<1> QED
  BY <1>3, <1>4, <1>5, <1>6, <1>7, <1>8, <1>9 DEF OfflineInv

\* A token is minted and the server's books stay as they are.
LEMMA MintTokenStep ==
  ASSUME OfflineInv, NEW owner \in Wallets, NEW t \in Tokens, MintToken(owner, t)
  PROVE  OfflineInv'
<1>1. LedgerFree /\ SettledInv /\ RecoveryInv /\ IssuanceInv
  BY Split DEF LedgerFree
<1>2. Mint(owner, {t}) /\ {t} \in SUBSET Tokens /\ UNCHANGED <<now, walletVars, serverVars, syncVars>>
  BY DEF MintToken
<1>3. Onwards /\ LedgerFree'
  BY <1>1, <1>2, MintStep
<1>4. SettledInv' /\ RecoveryInv'
  BY <1>1, <1>2, <1>3, SettledKept, RecoveryKept DEF serverVars
<1> QED
  BY <1>3, <1>4 DEF OfflineInv, LedgerFree

\* A step that leaves the issuer and the wallets alone goes on.
LEMMA OnwardsAlone ==
  ASSUME IssuanceInv, UNCHANGED <<now, minted, sent>>
  PROVE  Onwards /\ Issued' = Issued /\ Parcels' = Parcels
BY SameParcels DEF Onwards, IssuanceInv, Times, Issued

\* A loss is reported (RecoveryEngine.revoke_wallet): whatever is settled was
\* settled before.
LEMMA ReportLossStep ==
  ASSUME OfflineInv, NEW w \in Losable, ReportLoss(w)
  PROVE  OfflineInv'
<1>1. /\ LedgerFree /\ SettledInv /\ RecoveryInv /\ IssuanceInv
      /\ revoked' = Set(revoked, w, now)
      /\ UNCHANGED <<now, minted, vault, walletVars, syncVars, settled, recovered, reissues>>
  BY Split DEF LedgerFree, ReportLoss, RevokeWallet, issuanceVars
<1>2. Onwards /\ Issued' = Issued /\ Parcels' = Parcels
  BY <1>1, OnwardsAlone DEF walletVars
<1>3. /\ DOMAIN revoked' = DOMAIN revoked \cup {w}
      /\ \A v \in DOMAIN revoked' : revoked'[v] = IF v = w THEN now ELSE revoked[v]
  BY <1>1 DEF Set
<1>4. SettledInv'
  BY <1>1, <1>2, SettledKept
<1>5. RecoveryInv'
  <2>1. now \in Times /\ now <= now
    BY <1>1, <1>2, TimesFacts DEF IssuanceInv
  <2>2. \A v \in DOMAIN revoked' : revoked'[v] \in Times /\ revoked'[v] <= now
    BY <1>1, <1>3, <2>1 DEF RecoveryInv
  <2>3. DOMAIN revoked' \subseteq Losable
    BY <1>1, <1>3 DEF RecoveryInv
  <2> QED
    BY <1>1, <1>2, <2>2, <2>3 DEF RecoveryInv
<1> QED
  BY <1>1, <1>2, <1>4, <1>5, WalletsAlone DEF OfflineInv

\* Time passes.
LEMMA PassTimeStep ==
  ASSUME OfflineInv, PassTime
  PROVE  OfflineInv'
<1>1. /\ LedgerFree /\ SettledInv /\ RecoveryInv /\ IssuanceInv
      /\ now < MaxTime /\ now' = now + 1
      /\ UNCHANGED <<minted, vault, walletVars, serverVars, syncVars>>
  BY Split DEF LedgerFree, PassTime, Tick
<1>2. Onwards
  <2>1. Parcels' = Parcels /\ Issued' = Issued
    BY <1>1, SameParcels DEF walletVars, Issued
  <2>2. now' \in Times /\ now <= now'
    BY <1>1, LifetimeType DEF IssuanceInv, Times
  <2> QED
    BY <1>1, <2>1, <2>2 DEF Onwards
<1>3. SettledInv' /\ RecoveryInv'
  BY <1>1, <1>2, SettledKept, RecoveryKept DEF serverVars
<1> QED
  BY <1>1, <1>2, <1>3, WalletsAlone DEF OfflineInv

\* A heartbeat renews what its wallet holds, and nothing it gave away.
LEMMA HeartbeatStep ==
  ASSUME OfflineInv, NEW w \in Wallets, Heartbeat(w)
  PROVE  OfflineInv'
<1> DEFINE new == [wallet |-> w, tokens |-> Ids(utr[w]), at |-> now]
<1>1. /\ LedgerFree /\ SettledInv /\ RecoveryInv /\ IssuanceInv /\ SyncInv
      /\ heartbeats' = heartbeats \cup {new}
      /\ UNCHANGED <<now, minted, vault, walletVars, serverVars, lastSync>>
  BY Split DEF LedgerFree, Heartbeat, CreateHeartbeat, issuanceVars
<1>2. /\ Onwards /\ Issued' = Issued /\ Parcels' = Parcels
      /\ minted' = minted /\ now' = now /\ utr' = utr /\ lastSync' = lastSync
  BY <1>1, OnwardsAlone DEF walletVars
<1>3. new \in [wallet : Wallets, tokens : SUBSET Issued, at : Times] /\ new.at <= now
  <2>1. Ids(utr[w]) \subseteq Issued
    BY <1>1 DEF LedgerFree, HoldingsInv, HoldingOf, OwnCopy, Ids
  <2>2. now \in Times /\ now <= now
    BY <1>1, <1>2, TimesFacts DEF IssuanceInv
  <2> QED
    BY <2>1, <2>2
<1>4. new.wallet = w /\ new.tokens = Ids(utr[w])
  OBVIOUS
<1> HIDE DEF new
<1>5. ASSUME NEW t \in Issued
      PROVE  \/ GivenAwayAt(t)' = {} \/ t \in Ids(utr[minted[t].owner])'
             \/ \E left \in GivenAwayAt(t)' : RenewedBefore(t, left)'
  <2>1. GivenAwayAt(t)' = GivenAwayAt(t) /\ Ids(utr[minted[t].owner])' = Ids(utr[minted[t].owner])
    BY <1>2 DEF GivenAwayAt, Ids
  <2>2. ASSUME NEW left, RenewedBefore(t, left), t \notin Ids(utr[minted[t].owner])
        PROVE  RenewedBefore(t, left)'
    <3>1. ~(t \in new.tokens /\ new.wallet = minted[t].owner)
      BY <1>4, <2>2
    <3> QED
      BY <1>1, <1>2, <2>2, <3>1 DEF RenewedBefore
  <2> QED
    BY <1>1, <2>1, <2>2 DEF SyncInv
<1>6. SyncInv'
  BY <1>1, <1>2, <1>3, <1>5 DEF SyncInv
<1>7. SettledInv' /\ RecoveryInv'
  BY <1>1, <1>2, SettledKept, RecoveryKept DEF serverVars
<1> QED
  BY <1>1, <1>2, <1>6, <1>7, WalletsAlone DEF OfflineInv

\* A heartbeat is relayed, for the first time or again, within a lifetime.
LEMMA RelayStep ==
  ASSUME OfflineInv, NEW hb \in heartbeats, Relay(hb)
  PROVE  OfflineInv'
<1> DEFINE R == Renewed(hb)
<1>1. /\ LedgerFree /\ SettledInv /\ RecoveryInv /\ IssuanceInv /\ SyncInv /\ ParcelsInv
      /\ ~(now - hb.at > Lifetime)
      /\ lastSync' = [t \in DOMAIN lastSync \cup R |-> IF t \in R THEN now ELSE lastSync[t]]
      /\ UNCHANGED <<now, minted, vault, walletVars, serverVars, heartbeats>>
  BY Split DEF LedgerFree, Relay, RelayHeartbeat, ApplySyncHeartbeat, Stale, issuanceVars
<1>2. /\ Onwards /\ Issued' = Issued /\ Parcels' = Parcels
      /\ minted' = minted /\ now' = now /\ utr' = utr /\ heartbeats' = heartbeats
  BY <1>1, OnwardsAlone DEF walletVars
<1>3. R \subseteq Issued /\ \A t \in R : t \in hb.tokens /\ hb.wallet = minted[t].owner
  BY DEF Renewed
<1>4. now \in Times /\ now \in Nat /\ now <= now /\ hb.at \in Times /\ hb.at \in Nat /\ Times \subseteq Nat
  BY <1>1, <1>2, TimesFacts DEF IssuanceInv, SyncInv
<1> HIDE DEF R
<1>5. /\ DOMAIN lastSync' = DOMAIN lastSync \cup R
      /\ \A t \in DOMAIN lastSync' : lastSync'[t] = IF t \in R THEN now ELSE lastSync[t]
  BY <1>1
<1>6. /\ lastSync' \in [DOMAIN lastSync' -> Times] /\ DOMAIN lastSync' \subseteq Issued
      /\ \A t \in DOMAIN lastSync' : lastSync'[t] <= now
  <2>1. /\ \A t \in DOMAIN lastSync : lastSync[t] \in Times /\ lastSync[t] <= now
        /\ DOMAIN lastSync \subseteq Issued
    BY <1>1 DEF SyncInv
  <2> QED
    BY <1>1, <1>3, <1>4, <2>1
<1>7. ASSUME NEW t \in Issued
      PROVE  \/ GivenAwayAt(t)' = {} \/ t \in Ids(utr[minted[t].owner])'
             \/ \E left \in GivenAwayAt(t)' : RenewedBefore(t, left)'
  <2>1. GivenAwayAt(t)' = GivenAwayAt(t) /\ Ids(utr[minted[t].owner])' = Ids(utr[minted[t].owner])
    BY <1>2 DEF GivenAwayAt, Ids
  <2>2. ASSUME NEW left \in GivenAwayAt(t), RenewedBefore(t, left)
        PROVE  RenewedBefore(t, left)'
    <3>1. left \in Nat
      <4>1. PICK p \in Parcels : left = p.transfer.at
        BY DEF GivenAwayAt
      <4>2. p.transfer.at \in Times
        BY <1>1, ParcelFields DEF ParcelsInv
      <4> QED
        BY <1>4, <4>1, <4>2
    <3>2. t \in R => now <= left + Lifetime
      <4>1. t \in R => hb.at <= left
        BY <1>3, <2>2 DEF RenewedBefore
      <4> QED
        BY <1>1, <1>4, <3>1, <4>1, LifetimeType
    <3> QED
      BY <1>2, <1>5, <2>2, <3>2 DEF RenewedBefore
  <2> QED
    BY <1>1, <2>1, <2>2 DEF SyncInv
<1>8. SyncInv'
  BY <1>1, <1>2, <1>6, <1>7 DEF SyncInv
<1>9. SettledInv' /\ RecoveryInv'
  BY <1>1, <1>2, SettledKept, RecoveryKept DEF serverVars
<1> QED
  BY <1>1, <1>2, <1>8, <1>9, WalletsAlone DEF OfflineInv

\* The books of the server in the middle of a bundle: right entries, those
\* from before the bundle and some of now.
RightClaim(t, claim) ==
  /\ t \in Issued
  /\ \E p \in Parcels : p.copy.id = t /\ p.transfer = claim.transfer
  /\ claim.at <= now /\ claim.at < minted[t].at + Lifetime + TicksPerSecond

Books(ledger) ==
  /\ ledger \in [DOMAIN ledger -> [transfer : Transfer, at : Times]]
  /\ \A t \in DOMAIN ledger : RightClaim(t, ledger[t])
  /\ \A t \in DOMAIN settled : t \in DOMAIN ledger /\ ledger[t] = settled[t]
  /\ \A t \in DOMAIN ledger \ DOMAIN settled : ledger[t].at = now

\* One transfer of a bundle is settled or not (process_bundle).
LEMMA SettleOne ==
  ASSUME IssuanceInv, ParcelsInv, NEW ledger, Books(ledger), NEW p \in Parcels
  PROVE  Books(Settle(ledger, p))
<1>1. CASE ~Settles(ledger, p)
  BY <1>1 DEF Settle
<1>2. CASE Settles(ledger, p)
  <2> DEFINE t == p.copy.id
             claim == [transfer |-> p.transfer, at |-> now]
             L == Set(ledger, t, claim)
  <2>1. /\ t \in Issued /\ t \notin DOMAIN ledger /\ ~(Second(now) - Second(minted[t].at) > ExpirySeconds)
    BY <1>2 DEF Settles, WellFormed, ExpiredAt
  <2>2. now \in Nat /\ now \in Times /\ minted[t].at \in Nat /\ p.transfer \in Transfer
    <3>1. Times \subseteq Nat
      BY DEF Times
    <3> QED
      BY <2>1, <3>1 DEF IssuanceInv, ParcelsInv, ParcelOK
  <2>3. now < minted[t].at + Lifetime + TicksPerSecond /\ now <= now
    BY <2>1, <2>2, AliveBound
  <2>4. Settle(ledger, p) = L
    BY <1>2 DEF Settle
  <2>5. claim.at = now /\ claim.transfer = p.transfer /\ claim \in [transfer : Transfer, at : Times]
    BY <2>2
  <2> HIDE DEF claim
  <2>6. /\ DOMAIN L = DOMAIN ledger \cup {t}
        /\ \A u \in DOMAIN L : L[u] = IF u = t THEN claim ELSE ledger[u]
        /\ L = [u \in DOMAIN L |-> L[u]]
    BY DEF Set
  <2>7. RightClaim(t, claim)
    BY <2>1, <2>3, <2>5 DEF RightClaim
  <2> HIDE DEF t, L
  <2>8. L \in [DOMAIN L -> [transfer : Transfer, at : Times]]
    BY <2>5, <2>6 DEF Books
  <2> QED
    BY <2>1, <2>4, <2>5, <2>6, <2>7, <2>8 DEF Books
<1> QED
  BY <1>1, <1>2

\* A bundle is uploaded, by whoever has it, once or again (process_bundle).
LEMMA UploadStep ==
  ASSUME OfflineInv, NEW bundle \in sent, Upload(bundle)
  PROVE  OfflineInv'
<1>1. /\ LedgerFree /\ SettledInv /\ RecoveryInv /\ IssuanceInv /\ ParcelsInv
      /\ settled' = SettledAfter(settled, bundle)
      /\ UNCHANGED <<now, minted, vault, walletVars, syncVars, revoked, recovered, reissues>>
  BY Zenon, Split DEF LedgerFree, Upload, ProcessBundle, SettledAfter, issuanceVars
<1>2. /\ Onwards /\ Issued' = Issued /\ Parcels' = Parcels
      /\ minted' = minted /\ now' = now /\ revoked' = revoked
  BY <1>1, OnwardsAlone DEF walletVars
<1>3. PICK n \in Nat : DOMAIN bundle = 1..n
  BY <1>1 DEF ParcelsInv
<1>4. settled \in [DOMAIN settled -> [transfer : Transfer, at : Times]]
  BY <1>1 DEF SettledInv
<1>5. PICK g : /\ g[0] = settled
               /\ g[n] = SettledAfter(settled, bundle)
               /\ \A k \in 0..(n - 1) : g[k + 1] = Settle(g[k], bundle[k + 1])
  <2> DEFINE base == settled
             V == [transfer : Transfer, at : Times]
  <2>1. LedgerOf(base, V)
    BY <1>4 DEF LedgerOf
  <2> HIDE DEF base, V
  <2>2. \E g : Processes(g, n, base, bundle)
    BY <1>3, <2>1, ProcessRun
  <2> QED
    BY <2>2 DEF base, Processes
<1> DEFINE G == {k \in 0..n : Books(g[k])}
<1>6. 0 \in G
  BY <1>1, <1>5 DEF Books, SettledInv, RightClaim
<1>7. ASSUME NEW k \in 0..(n - 1), k \in G PROVE k + 1 \in G
  <2>1. k + 1 \in 0..n /\ k + 1 \in DOMAIN bundle
    BY <1>3
  <2>2. bundle[k + 1] \in Parcels
    BY <2>1 DEF Parcels
  <2>3. Books(g[k + 1])
    BY <1>1, <1>5, <1>7, <2>2, SettleOne
  <2> QED
    BY <2>1, <2>3
<1>8. Books(settled')
  <2>1. \A k \in 0..n : k \in G
    <3> HIDE DEF G
    <3> QED
      BY <1>6, <1>7, ClimbTo
  <2> QED
    BY <1>1, <1>5, <2>1
<1>9. SettledInv'
  BY <1>2, <1>8 DEF SettledInv, Books, RightClaim
<1>10. RecoveryInv'
  <2>1. ASSUME NEW r \in reissues, r.token \in DOMAIN settled',
               settled'[r.token].transfer.to # minted[r.token].owner
        PROVE  settled'[r.token].at > r.since + Lifetime
    <3>1. CASE r.token \in DOMAIN settled
      BY <1>1, <1>8, <2>1, <3>1 DEF RecoveryInv, Books
    <3>2. CASE r.token \notin DOMAIN settled
      <4>1. settled'[r.token].at = now
        BY <1>8, <2>1, <3>2 DEF Books
      <4>2. r.since \in Times /\ r.since + Lifetime < now
        BY <1>1 DEF RecoveryInv
      <4> QED
        BY <1>1, <1>2, <4>1, <4>2, TimesFacts, LifetimeType
    <3> QED
      BY <3>1, <3>2
  <2> QED
    BY <1>1, <1>2, <2>1 DEF RecoveryInv
<1> QED
  BY <1>1, <1>2, <1>9, <1>10, WalletsAlone DEF OfflineInv

\* A lost wallet is recovered: what is issued again was not claimed by the end
\* of the wait (reconstruct_recovery, reissue_recovered_balance).
LEMMA RecoverStep ==
  ASSUME OfflineInv, NEW w \in Losable, NEW new \in Wallets, Recover(w, new)
  PROVE  OfflineInv'
<1> DEFINE again == {[token |-> t, to |-> new, at |-> now, since |-> revoked[w]] : t \in SafeTokens(w)}
<1>1. /\ LedgerFree /\ SettledInv /\ RecoveryInv /\ IssuanceInv
      /\ w \in DOMAIN revoked /\ now - revoked[w] > Lifetime
      /\ recovered' = recovered \cup {<<w, new>>} /\ reissues' = reissues \cup again
      /\ UNCHANGED <<now, walletVars, syncVars, settled, revoked>>
  BY Split DEF LedgerFree, Recover, Reissue, WaitElapsed
<1>2. PICK fresh \in [SafeTokens(w) -> Tokens \ Issued] : Mint(new, Range(fresh))
  BY DEF Recover, Reissue
<1>3. Range(fresh) \in SUBSET Tokens
  BY DEF Range
<1>4. Onwards /\ LedgerFree'
  BY <1>1, <1>2, <1>3, MintStep
<1>5. SettledInv'
  BY <1>1, <1>4, SettledKept
<1>6. revoked[w] \in Times /\ revoked[w] \in Nat /\ now \in Nat /\ revoked[w] + Lifetime < now
  <2>1. revoked[w] \in Times
    BY <1>1 DEF RecoveryInv
  <2> QED
    BY <1>1, <1>4, <2>1, TimesFacts, LifetimeType
<1>7. ASSUME NEW r \in again
      PROVE  /\ r.token \in Issued /\ r.since \in Times /\ r.since + Lifetime < now
             /\ r.token \in DOMAIN settled /\ settled[r.token].transfer.to # minted[r.token].owner =>
                  settled[r.token].at > r.since + Lifetime
  <2>1. PICK t \in SafeTokens(w) : r.token = t /\ r.since = revoked[w]
    OBVIOUS
  <2>2. t \in Issued /\ minted[t].owner = w /\ ~ClaimedFrom(w, t)
    BY DEF SafeTokens
  <2>3. ClaimCutoff(w) = revoked[w] + Lifetime
    BY <1>6 DEF ClaimCutoff
  <2>4. ASSUME t \in DOMAIN settled, settled[t].transfer.to # w
        PROVE  settled[t].at > revoked[w] + Lifetime
    <3>1. ~(settled[t].at <= revoked[w] + Lifetime)
      BY <2>2, <2>3, <2>4 DEF ClaimedFrom
    <3>2. settled[t].at \in Nat
      <4>1. settled[t].at \in Times
        BY <1>1, <2>4 DEF SettledInv
      <4> QED
        BY <1>1, <1>4, <4>1, TimesFacts
    <3> QED
      BY <1>6, <3>1, <3>2, LifetimeType
  <2> QED
    BY <1>6, <2>1, <2>2, <2>4
<1> HIDE DEF again
<1>8. RecoveryInv'
  <2>1. \A t \in Issued : t \in Issued' /\ minted'[t] = minted[t]
    BY <1>4 DEF Onwards
  <2>2. \A r \in reissues' :
          /\ r.token \in Issued /\ r.since \in Times /\ r.since + Lifetime < now
          /\ r.token \in DOMAIN settled /\ settled[r.token].transfer.to # minted[r.token].owner =>
               settled[r.token].at > r.since + Lifetime
    BY <1>1, <1>7 DEF RecoveryInv
  <2> QED
    BY <1>1, <2>1, <2>2 DEF RecoveryInv
<1> QED
  BY <1>4, <1>5, <1>8 DEF OfflineInv, LedgerFree

\* A step that changes nothing.
LEMMA StutterStep ==
  ASSUME OfflineInv, UNCHANGED vars
  PROVE  OfflineInv'
<1>1. /\ LedgerFree /\ SettledInv /\ RecoveryInv /\ IssuanceInv
      /\ UNCHANGED <<now, minted, vault, walletVars, serverVars, syncVars>>
  BY Split DEF LedgerFree, vars, issuanceVars
<1>2. Onwards
  BY <1>1, OnwardsAlone DEF walletVars
<1>3. SettledInv' /\ RecoveryInv'
  BY <1>1, <1>2, SettledKept, RecoveryKept DEF serverVars
<1> QED
  BY <1>1, <1>2, <1>3, WalletsAlone DEF OfflineInv

\* Every step keeps the invariant.
LEMMA Steps ==
  ASSUME OfflineInv, [Next]_vars
  PROVE  OfflineInv'
<1>1. Losable \subseteq Wallets
  BY OfflineCashAssumption
<1>2. ASSUME NEW owner \in Wallets, NEW t \in Tokens, MintToken(owner, t) PROVE OfflineInv'
  BY <1>2, MintTokenStep
<1>3. ASSUME NEW t \in Tokens, LoadToken(t) PROVE OfflineInv'
  BY <1>3, LoadStep
<1>4. ASSUME NEW w \in Wallets, NEW receiver \in Wallets, NEW amount \in Amounts, Pay(w, receiver, amount)
      PROVE  OfflineInv'
  BY <1>4, PayStep
<1>5. ASSUME NEW w \in Wallets, NEW amount \in Amounts, PayInVain(w, amount) PROVE OfflineInv'
  BY <1>5, PayInVainStep
<1>6. ASSUME NEW bundle \in sent, NEW w \in Wallets, SendBundle(bundle, w) PROVE OfflineInv'
  BY <1>6, SendStep
<1>7. ASSUME NEW bundle \in sent, Upload(bundle) PROVE OfflineInv'
  BY <1>7, UploadStep
<1>8. ASSUME NEW w \in Losable, ReportLoss(w) PROVE OfflineInv'
  BY <1>8, ReportLossStep
<1>9. ASSUME NEW w \in Losable, NEW new \in Wallets, Recover(w, new) PROVE OfflineInv'
  BY <1>9, RecoverStep
<1>10. ASSUME NEW w \in Wallets, Heartbeat(w) PROVE OfflineInv'
  BY <1>10, HeartbeatStep
<1>11. ASSUME NEW hb \in heartbeats, Relay(hb) PROVE OfflineInv'
  BY <1>11, RelayStep
<1>12. ASSUME PassTime PROVE OfflineInv'
  BY <1>12, PassTimeStep
<1>13. ASSUME UNCHANGED vars PROVE OfflineInv'
  BY <1>13, StutterStep
<1> QED
  BY <1>2, <1>3, <1>4, <1>5, <1>6, <1>7, <1>8, <1>9, <1>10, <1>11, <1>12, <1>13 DEF Next

\* OfflineInv holds of every state of the offline prototype: whatever is
\* minted, loaded, paid, received, uploaded, revoked, recovered and renewed,
\* in whichever order.
THEOREM Invariance == Spec => []OfflineInv
<1>1. Init => OfflineInv
  BY Start
<1>2. OfflineInv /\ [Next]_vars => OfflineInv'
  BY Steps
<1> QED
  BY <1>1, <1>2, PTL DEF Spec
-----------------------------------------------------------------------------
(***************************************************************************)
(* The properties                                                          *)
(***************************************************************************)

\* Dicts have one entry per key, and copies and transfers the fields the
\* operations of wallet, issuer and servers read.
THEOREM Typing == Spec => []TypeOK
<1>1. ASSUME OfflineInv PROVE TypeOK
  <2>1. /\ RegistersTyped /\ IssuanceInv /\ HoldingsInv(utr) /\ SpentInv /\ ParcelsInv
        /\ ProcessedInv(Parcels, processed) /\ MarkedInv(utr) /\ SettledInv /\ RecoveryInv /\ SyncInv
    BY <1>1 DEF OfflineInv
  <2>2. ASSUME NEW w \in Wallets
        PROVE  /\ \A c \in utr[w] \cup str[w] : c \in Copy /\ c.id \in Issued
               /\ Cardinality(utr[w]) = Cardinality(Ids(utr[w]))
               /\ Cardinality(str[w]) = Cardinality(Ids(str[w]))
               /\ syncRequired[w] \subseteq Issued
    <3>1. /\ IsFiniteSet(utr[w]) /\ \A c \in utr[w] : c \in Copy /\ c.id \in Issued
          /\ \A c, d \in utr[w] : c.id = d.id => c = d
      BY <2>1 DEF HoldingsInv, HoldingOf, OwnCopy
    <3>2. /\ IsFiniteSet(str[w]) /\ \A c \in str[w] : c \in Copy /\ c.id \in Issued
          /\ \A c, d \in str[w] : c.id = d.id => c = d
      BY <2>1 DEF SpentInv
    <3>3. /\ Cardinality(utr[w]) = Cardinality(Ids(utr[w]))
          /\ Cardinality(str[w]) = Cardinality(Ids(str[w]))
      BY <3>1, <3>2, IdsFacts
    <3>4. syncRequired[w] \subseteq Issued
      BY <2>1, <3>1 DEF MarkedInv
    <3> QED
      BY <3>1, <3>2, <3>3, <3>4
  <2>3. \A w \in Wallets : \A c \in utr[w] \cup str[w] :
          c \in [id : Issued, owner : Wallets, nonce : Nat, hops : Nat, chain : Seq(Hops)]
    BY <2>2 DEF Copy
  <2>4. processed \in [Wallets -> SUBSET Seq(Hops)]
        /\ \A w \in Wallets : processed[w] \subseteq {p.transfer.id : p \in Parcels}
    BY <2>1 DEF RegistersTyped, ProcessedInv
  <2>5. /\ DOMAIN settled \subseteq Issued /\ \A t \in DOMAIN settled : settled[t].at \in Times
    BY <2>1 DEF SettledInv
  <2>6. /\ now \in Times /\ Issued \subseteq Tokens /\ vault \subseteq Issued
        /\ \A t \in Issued : minted[t] \in [owner : Wallets, at : Times]
    BY <2>1 DEF IssuanceInv
  <2>7. DOMAIN revoked \subseteq Losable /\ recovered \subseteq Losable \X Wallets
    BY <2>1 DEF RecoveryInv
  <2>8. /\ heartbeats \subseteq [wallet : Wallets, tokens : SUBSET Issued, at : Times]
        /\ lastSync \in [DOMAIN lastSync -> Times] /\ DOMAIN lastSync \subseteq Issued
    BY <2>1 DEF SyncInv
  <2> QED
    BY <2>2, <2>3, <2>4, <2>5, <2>6, <2>7, <2>8 DEF TypeOK
<1> QED
  BY <1>1, Invariance, PTL

\* README.md:91: a wallet never holds more than MAX_BALANCE, whichever tokens
\* and bundles it gets in whichever order.
THEOREM Capped == Spec => []BalanceCapped
<1>1. OfflineInv => BalanceCapped
  BY DEF OfflineInv, HoldingsInv, HoldingOf, BalanceCapped
<1> QED
  BY <1>1, Invariance, PTL

\* The counters of payers (nonce) and payees (hop_count) both count the
\* transfers a token has made, those before a return included, and stay within
\* MAX_HOPS.
THEOREM Counting == Spec => []CountersAgree
<1>1. OfflineInv => CountersAgree
  BY DEF OfflineInv, HoldingsInv, HoldingOf, OwnCopy, Counted, CountersAgree
<1> QED
  BY <1>1, Invariance, PTL

\* Replay protection (processed_transfer_ids): one wallet at most can spend a
\* token or would take in a bundle of it, and none while the token is still
\* in the issuer's hands.
THEOREM Custodian == Spec => []OneTaker
<1>1. ASSUME OfflineInv PROVE OneTaker
  <2>1. /\ OneCopy(utr) /\ OneDue(Parcels, processed) /\ HeldKnowsAll(Parcels, utr, processed)
        /\ VaultUntouched(Parcels, vault, utr)
    BY <1>1 DEF OfflineInv, Custody
  <2>2. ASSUME NEW t \in Tokens, NEW w \in Takers(t)
        PROVE  \/ \E c \in utr[w] : c.id = t
               \/ \E p \in Parcels : p.copy.id = t /\ p.transfer.to = w /\ IsDue(p, processed)
    BY <2>2 DEF Takers, Ids, IsDue
  <2>3. ASSUME NEW t \in Tokens PROVE Takers(t) \subseteq Wallets
    BY DEF Takers
  <2>4. ASSUME NEW t \in Tokens, NEW v \in Takers(t), NEW w \in Takers(t) PROVE v = w
    <3>1. v \in Wallets /\ w \in Wallets
      BY <2>3
    <3>2. CASE \E c \in utr[v] : c.id = t
      BY <2>1, <2>2, <3>1, <3>2 DEF OneCopy, HeldKnowsAll
    <3>3. CASE \E c \in utr[w] : c.id = t
      BY <2>1, <2>2, <3>1, <3>3 DEF OneCopy, HeldKnowsAll
    <3>4. CASE ~(\E c \in utr[v] : c.id = t) /\ ~(\E c \in utr[w] : c.id = t)
      BY <2>1, <2>2, <3>4 DEF OneDue
    <3> QED
      BY <3>2, <3>3, <3>4
  <2>5. ASSUME NEW t \in Tokens, t \in vault PROVE Takers(t) = {}
    BY <2>1, <2>2, <2>3, <2>5 DEF VaultUntouched
  <2> QED
    BY <2>4, <2>5 DEF OneTaker
<1> QED
  BY <1>1, Invariance, PTL

\* Honest wallets make no fork: the transfers of a token are on one chain, its
\* holder has that chain, and the server settles one of them.
THEOREM NoForks == Spec => []OneChain
<1>1. ASSUME OfflineInv PROVE OneChain
  <2>1. /\ NoFork(Parcels) /\ HeldKnowsAll(Parcels, utr, processed)
        /\ \A p \in Parcels : p.transfer.id \in Seq(Hops)
        /\ \A w \in Wallets : \A c \in utr[w] : c.chain \in Seq(Hops)
    BY <1>1, ParcelFields DEF OfflineInv, Custody, ParcelsInv, RegistersTyped, Copy
  <2>2. ASSUME NEW p \in Parcels, NEW q \in Parcels, p.copy.id = q.copy.id
        PROVE  IsPrefix(p.transfer.id, q.transfer.id) \/ IsPrefix(q.transfer.id, p.transfer.id)
    <3> DEFINE a == p.transfer.id
               b == q.transfer.id
    <3>1. a \in Seq(Hops) /\ b \in Seq(Hops) /\ (Begins(a, b) \/ Begins(b, a))
      BY <2>1, <2>2 DEF NoFork
    <3> HIDE DEF a, b
    <3>2. IsPrefix(a, b) \/ IsPrefix(b, a)
      BY <3>1, BeginsIsPrefix
    <3> QED
      BY <3>2 DEF a, b
  <2>3. ASSUME NEW w \in Wallets, NEW c \in utr[w], NEW p \in Parcels, c.id = p.copy.id
        PROVE  IsPrefix(p.transfer.id, c.chain)
    <3> DEFINE a == p.transfer.id
               b == c.chain
    <3>1. a \in Seq(Hops) /\ b \in Seq(Hops) /\ Begins(a, b)
      BY <2>1, <2>3 DEF HeldKnowsAll
    <3> HIDE DEF a, b
    <3>2. IsPrefix(a, b)
      BY <3>1, BeginsIsPrefix
    <3> QED
      BY <3>2 DEF a, b
  <2>4. \A t \in DOMAIN settled : settled[t].transfer \in {p.transfer : p \in Parcels}
    BY <1>1 DEF OfflineInv, SettledInv
  <2> QED
    BY <2>2, <2>3, <2>4 DEF OneChain
<1> QED
  BY <1>1, Invariance, PTL

\* A token that create_payment notes in sync_required is stuck in its wallet:
\* it stays there and can never be spent again.
THEOREM Stuck == Spec => []MarkedIsStuck
<1>1. ASSUME OfflineInv, NEW w \in Wallets, NEW t \in syncRequired[w]
      PROVE  t \in Ids(utr[w]) /\ t \notin Ids(Spendable(w))
  <2>1. PICK c \in utr[w] : c.id = t /\ (ExpiredAt(t, now) \/ c.nonce >= MaxHops)
    BY <1>1 DEF OfflineInv, MarkedInv
  <2>2. ASSUME NEW d \in Spendable(w), d.id = t PROVE FALSE
    <3>1. d \in utr[w] /\ ~ExpiredAt(t, now) /\ d.nonce < MaxHops
      BY <2>2 DEF Spendable
    <3>2. d = c /\ c.nonce \in Nat
      BY <1>1, <2>1, <2>2, <3>1 DEF OfflineInv, HoldingsInv, HoldingOf, OwnCopy, Copy
    <3> QED
      BY <2>1, <3>1, <3>2, LifetimeType
  <2> QED
    BY <2>1, <2>2 DEF Ids
<1>2. OfflineInv => MarkedIsStuck
  BY <1>1 DEF MarkedIsStuck
<1> QED
  BY <1>2, Invariance, PTL

\* Once its first owner gave a token away, heartbeats keep it alive for at
\* most another lifetime (apply_sync_heartbeat, is_token_expired), however
\* late and often they are relayed.
THEOREM RenewalEnds == Spec => []AliveTwoLifetimesAtMost
<1>1. ASSUME OfflineInv, NEW t \in Issued, NEW left \in GivenAwayAt(t), RenewedBefore(t, left)
      PROVE  IsTokenExpired(t, left + 2 * Lifetime + TicksPerSecond)
  <2> DEFINE last == IF t \in DOMAIN lastSync THEN lastSync[t] ELSE minted[t].at
             end == left + 2 * Lifetime + TicksPerSecond
  <2>1. Times \subseteq Nat
    BY DEF Times
  <2>2. /\ minted[t].at \in Nat /\ left \in Nat /\ minted[t].at <= left
    <3>1. PICK p \in Parcels : p.copy.id = t /\ left = p.transfer.at
      BY DEF GivenAwayAt
    <3>2. ParcelOK(p)
      BY <1>1 DEF OfflineInv, ParcelsInv
    <3>3. minted[t].at \in Times /\ p.transfer.at \in Times
      BY <1>1, <3>2, ParcelFields DEF OfflineInv, IssuanceInv
    <3>4. minted[t].at <= p.transfer.at
      BY <3>1, <3>2 DEF ParcelOK
    <3> QED
      BY <2>1, <3>1, <3>3, <3>4
  <2>3. last \in Nat /\ last <= left + Lifetime
    <3>1. CASE t \in DOMAIN lastSync
      <4>1. lastSync[t] \in Times /\ lastSync[t] <= left + Lifetime
        BY <1>1, <3>1 DEF OfflineInv, SyncInv, RenewedBefore
      <4> QED
        BY <2>1, <3>1, <4>1
    <3>2. CASE t \notin DOMAIN lastSync
      BY <2>2, <3>2, LifetimeType
    <3> QED
      BY <3>1, <3>2
  <2>4. IsTokenExpired(t, end) <=> t \notin Issued \/ Second(end) - Second(last) > ExpirySeconds
    BY DEF IsTokenExpired
  <2>5. end = left + 2 * Lifetime + TicksPerSecond
    OBVIOUS
  <2> HIDE DEF last, end
  <2>6. end \in Nat /\ ~(end < last + Lifetime + TicksPerSecond)
    BY <2>2, <2>3, <2>5, LifetimeType
  <2>7. Second(end) - Second(last) > ExpirySeconds
    BY <2>3, <2>6, AliveBound
  <2> QED
    BY <2>4, <2>5, <2>7
<1>2. ASSUME OfflineInv PROVE AliveTwoLifetimesAtMost
  BY <1>1, <1>2 DEF AliveTwoLifetimesAtMost, OfflineInv, SyncInv
<1> QED
  BY <1>2, Invariance, PTL

\* What is issued again in a recovery although another wallet claimed it was
\* claimed in the second that the expiry, cut to whole seconds, leaves open
\* after the wait (wait_elapsed, reconstruct_recovery, process_bundle).
THEOREM PaidTwiceRarely == Spec => []PaidTwiceOnlyInTheLastSecond
<1>1. ASSUME OfflineInv, NEW r \in reissues, NEW t \in DOMAIN settled, r.token = t,
             settled[t].transfer.to # minted[t].owner, minted[t].at <= r.since
      PROVE  settled[t].at > r.since + Lifetime /\ settled[t].at < r.since + Lifetime + TicksPerSecond
  <2>1. settled[t].at > r.since + Lifetime /\ r.since \in Times
    BY <1>1 DEF OfflineInv, RecoveryInv
  <2>2. settled[t].at < minted[t].at + Lifetime + TicksPerSecond /\ settled[t].at \in Times /\ t \in Issued
    BY <1>1 DEF OfflineInv, SettledInv
  <2>3. minted[t].at \in Times
    BY <1>1, <2>2 DEF OfflineInv, IssuanceInv
  <2>4. Times \subseteq Nat
    BY DEF Times
  <2> DEFINE a == settled[t].at
             m == minted[t].at
             since == r.since
  <2>5. a \in Nat /\ m \in Nat /\ since \in Nat
    BY <2>1, <2>2, <2>3, <2>4
  <2>6. m <= since /\ a < m + Lifetime + TicksPerSecond
    BY <1>1, <2>2
  <2> HIDE DEF a, m, since
  <2>7. a < since + Lifetime + TicksPerSecond
    BY <2>5, <2>6, LifetimeType
  <2> QED
    BY <2>1, <2>7 DEF a, since
<1>2. OfflineInv => PaidTwiceOnlyInTheLastSecond
  BY <1>1 DEF PaidTwiceOnlyInTheLastSecond
<1> QED
  BY <1>2, Invariance, PTL

\* Only create_payment makes bundles.
LEMMA OnlyPayments ==
  ASSUME OfflineInv, [Next]_vars, NEW bundle \in sent' \ sent
  PROVE  \E w, receiver \in Wallets : \E paid : Pays(w, receiver, paid, bundle)
<1>1. HoldingsInv(utr)
  BY DEF OfflineInv
<1>2. ASSUME NEW w \in Wallets, NEW receiver \in Wallets, NEW amount, Pay(w, receiver, amount)
      PROVE  \E paid : Pays(w, receiver, paid, bundle)
  <2>1. PICK paid, new : Pays(w, receiver, paid, new)
    BY <1>1, <1>2, PayPays
  <2>2. new = bundle
    BY <2>1 DEF Pays
  <2> QED
    BY <2>1, <2>2
<1>3. ASSUME ~ \E w, receiver \in Wallets, amount \in Amounts : Pay(w, receiver, amount) PROVE sent' = sent
  <2>1. ASSUME NEW owner \in Wallets, NEW t \in Tokens, MintToken(owner, t) PROVE sent' = sent
    BY <2>1 DEF MintToken, walletVars
  <2>2. ASSUME NEW t \in Tokens, LoadToken(t) PROVE sent' = sent
    BY <2>2 DEF LoadToken, ReceiveToken
  <2>3. ASSUME NEW w \in Wallets, NEW amount \in Amounts, PayInVain(w, amount) PROVE sent' = sent
    BY <2>3 DEF PayInVain, CreatePaymentRaises
  <2>4. ASSUME NEW b \in sent, NEW w \in Wallets, SendBundle(b, w) PROVE sent' = sent
    BY Zenon, <2>4 DEF SendBundle, ReceiveBundle
  <2>5. ASSUME NEW b \in sent, Upload(b) PROVE sent' = sent
    BY <2>5 DEF Upload, walletVars
  <2>6. ASSUME NEW w \in Losable, ReportLoss(w) PROVE sent' = sent
    BY <2>6 DEF ReportLoss, walletVars
  <2>7. ASSUME NEW w \in Losable, NEW new \in Wallets, Recover(w, new) PROVE sent' = sent
    BY <2>7 DEF Recover, walletVars
  <2>8. ASSUME NEW w \in Wallets, Heartbeat(w) PROVE sent' = sent
    BY <2>8 DEF Heartbeat, walletVars
  <2>9. ASSUME NEW hb \in heartbeats, Relay(hb) PROVE sent' = sent
    BY <2>9 DEF Relay, walletVars
  <2>10. (PassTime \/ UNCHANGED vars) => sent' = sent
    BY DEF PassTime, vars, walletVars
  <2> QED
    BY <1>3, <2>1, <2>2, <2>3, <2>4, <2>5, <2>6, <2>7, <2>8, <2>9, <2>10 DEF Next
<1>4. PICK w \in Wallets, receiver \in Wallets, amount \in Amounts : Pay(w, receiver, amount)
  BY <1>3
<1> QED
  BY <1>2, <1>4

\* Nobody has processed a transfer that is being made: its id ends with a new
\* hop of the token.
LEMMA NewIsUnprocessed ==
  ASSUME OfflineInv, NEW w \in Wallets, NEW receiver \in Wallets, NEW c \in utr[w], c.nonce < MaxHops
  PROVE  Parcel(c, receiver).transfer.id \notin processed[receiver]
<1> DEFINE y == Parcel(c, receiver).transfer.id
<1> SUFFICES ASSUME y \in processed[receiver] PROVE FALSE
  OBVIOUS
<1>1. PICK q \in Parcels : q.transfer.id = y
  BY DEF OfflineInv, ProcessedInv
<1>2. OwnCopy(w, c) /\ IssuanceInv /\ ParcelOK(q) /\ HeldKnowsAll(Parcels, utr, processed)
  BY DEF OfflineInv, HoldingsInv, HoldingOf, Custody, ParcelsInv
<1>3. y[Len(y)].token = c.id /\ Len(y) = Len(c.chain) + 1
  BY <1>2, NewParcel
<1>4. q.transfer.id[Len(q.transfer.id)].token = q.copy.id
  <2> DEFINE s == q.copy.chain
             h == [token |-> q.copy.id, from |-> q.transfer.from, to |-> q.transfer.to, at |-> q.transfer.at]
  <2>1. q.transfer.id = Append(s, h)
    BY <1>2 DEF ParcelOK
  <2>2. s \in Seq(Hops) /\ h \in Hops /\ h.token = q.copy.id
    <3>1. /\ s \in Seq(Hops) /\ q.copy.id \in Tokens
          /\ q.transfer.from \in Wallets /\ q.transfer.to \in Wallets /\ q.transfer.at \in Times
      BY <1>2, ParcelFields DEF IssuanceInv
    <3> QED
      BY <3>1 DEF Hops
  <2> HIDE DEF s, h
  <2>3. Append(s, h)[Len(Append(s, h))] = h
    BY <2>2, BeginsFacts
  <2> QED
    BY <2>1, <2>2, <2>3
<1>5. q.copy.id = c.id
  BY <1>1, <1>3, <1>4
<1>6. Len(y) <= Len(c.chain)
  BY <1>1, <1>2, <1>5 DEF HeldKnowsAll, Begins
<1>7. Len(c.chain) \in Nat
  BY <1>2, LenProperties DEF OwnCopy, Copy
<1> HIDE DEF y
<1> QED
  BY <1>3, <1>6, <1>7

\* What create_payment pays with the payee would take in at once, but for the
\* fraction of a second in which the payer takes a token for alive and the
\* payee no more (_is_token_spendable, verify_transfer_with_reason).
THEOREM PayeeAgrees == Spec => PaidIsAcceptable
<1> DEFINE Acceptable ==
             \A bundle \in sent' \ sent : \A i \in DOMAIN bundle :
               LET p == bundle[i]
                   payee == p.transfer.to
               IN Verifies(payee, processed[payee], p) \/ FractionLeft(p.copy.id)
<1>1. ASSUME OfflineInv, [Next]_vars PROVE Acceptable
  <2> SUFFICES ASSUME NEW bundle \in sent' \ sent, NEW i \in DOMAIN bundle
               PROVE  LET p == bundle[i]
                          payee == p.transfer.to
                      IN Verifies(payee, processed[payee], p) \/ FractionLeft(p.copy.id)
    OBVIOUS
  <2> PICK w \in Wallets, receiver \in Wallets : \E paid : Pays(w, receiver, paid, bundle)
    BY <1>1, OnlyPayments
  <2>1. PICK paid : Pays(w, receiver, paid, bundle)
    OBVIOUS
  <2>2. bundle[i] \in ParcelsOf(paid, receiver)
    BY <2>1 DEF Pays
  <2>3. PICK c \in paid : bundle[i] = Parcel(c, receiver)
    BY <2>2 DEF ParcelsOf
  <2>4. c \in utr[w] /\ OwnCopy(w, c) /\ ~ExpiredAt(c.id, now) /\ c.nonce < MaxHops /\ IssuanceInv
    BY <1>1, <2>1 DEF Pays, OfflineInv
  <2> DEFINE p == Parcel(c, receiver)
  <2>5. /\ p.copy.id = c.id /\ p.transfer.to = receiver
        /\ p.transfer.hop = c.hops + 1 /\ p.transfer.nonce = c.nonce + 1 /\ p.transfer.parent = p.copy.chain
    BY <2>4, NewParcel
  <2>6. p.transfer.id \notin processed[receiver]
    BY <1>1, <2>4, NewIsUnprocessed
  <2>7. c.hops + 1 <= MaxHops /\ c.nonce + 1 <= MaxHops
    <3>1. c.hops = c.nonce /\ c.nonce \in Nat
      BY <2>4 DEF OwnCopy, Counted, Copy
    <3> QED
      BY <2>4, <3>1, LifetimeType
  <2>8. now - minted[c.id].at < Lifetime + TicksPerSecond
    <3>1. now \in Nat /\ minted[c.id].at \in Nat
      <4>1. now \in Times /\ minted[c.id].at \in Times
        BY <2>4 DEF OwnCopy, IssuanceInv
      <4> QED
        BY <4>1 DEF Times
    <3>2. now < minted[c.id].at + Lifetime + TicksPerSecond
      BY <2>4, <3>1, AliveBound DEF ExpiredAt
    <3> QED
      BY <3>1, <3>2, LifetimeType
  <2> HIDE DEF p
  <2>9. Verifies(receiver, processed[receiver], p) \/ FractionLeft(p.copy.id)
    BY <2>4, <2>5, <2>6, <2>7, <2>8 DEF Verifies, FractionLeft
  <2> QED
    BY <2>3, <2>5, <2>9 DEF p
<1>2. OfflineInv /\ [Next]_vars => [Acceptable]_vars
  BY <1>1
<1>3. Spec => [][Acceptable]_vars
  BY <1>2, Invariance, PTL DEF Spec
<1> QED
  BY <1>3 DEF PaidIsAcceptable
=============================================================================
