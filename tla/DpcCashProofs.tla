--------------------------- MODULE DpcCashProofs ---------------------------
(***************************************************************************)
(* Proofs about DpcCash, for any wallets, tokens, limits, restarts and     *)
(* bounds.                                                                 *)
(***************************************************************************)
EXTENDS DpcCash, FiniteSetTheorems, TLAPS

-----------------------------------------------------------------------------
(* The inductive invariant *)

\* A chain as send_token makes them, one record after the other: each begins
\* where the last ended, and the hop index of the tip counts the records that
\* went to wallets new to the chain.
WellMade(p) ==
  /\ p \in Parcel /\ Len(p.chain) > 0
  /\ ValidHops(p.chain)
  /\ \A k \in 2..Len(p.chain) : p.chain[k].from = p.chain[k-1].to
  /\ \A k \in 2..Len(p.chain) :
       (\A j \in k..Len(p.chain) : NewTo(p, j)) => Len(p.chain) - k < Tip(p).hop

\* With a parcel go all that its chain was made from.
ParcelsInv ==
  /\ IsFiniteSet(parcels) /\ IsFiniteSet(DOMAIN coins) /\ DOMAIN coins \subseteq Tokens
  /\ \A p \in parcels : WellMade(p) /\ p.id \in DOMAIN coins /\ Nonces(p) \subseteq parcels

\* A register of a wallet, in memory or in a file, has receipts that were for
\* the wallet, one of a token and none of a token marked spent.
Registers == [entries : SUBSET parcels, spent : SUBSET DOMAIN coins, seen : SUBSET parcels]
RegisterInv(w, reg) ==
  /\ \A p \in reg.entries : Tip(p).to = w /\ p.id \notin reg.spent
  /\ \A p, q \in reg.entries : p.id = q.id => p = q

RegistersInv ==
  /\ wallet \in [Wallets -> Registers] /\ files \in [Wallets -> SUBSET Registers]
  /\ \A w \in Wallets : \A reg \in {wallet[w]} \cup files[w] : RegisterInv(w, reg)

\* The first k records of a parcel's chain, with the token.
Cut(p, k) == [id |-> p.id, chain |-> SubSeq(p.chain, 1, k)]

\* What a wallet has signed over it has seen and cannot spend.
Parent(p) == Cut(p, Len(p.chain) - 1)

GivenAway ==
  \A w \in Wallets \ restarted :
    /\ wallet[w].entries \subseteq wallet[w].seen
    /\ \A q \in parcels : Len(q.chain) > 1 /\ Tip(q).from = w =>
         Parent(q) \in wallet[w].seen \ wallet[w].entries

\* What is marked as spent, in memory or in a file, was signed over or split.
Marked(w) == wallet[w].spent \cup UNION {reg.spent : reg \in files[w]}

SplitsCounted ==
  \A w \in Wallets : 2 * Cardinality(Marked(w) \ SentBy(w)) <= Cardinality(OwnMake(w))

\* Without restarts a token is passed on once from each wallet that has it.
OneLine ==
  restarted = {} =>
    \A p, q \in parcels : p.id = q.id /\ Len(p.chain) = Len(q.chain) => p = q

\* The dicts of a ledger, in memory or in the file.
Entry == [by : Wallets, depth : Nat]
Conflict == [id : Tokens, by : Wallets, depth : Nat]
Books == [minted : SUBSET Tokens, settled : UNION {[T -> Entry] : T \in SUBSET Tokens},
          blacklist : SUBSET Wallets, pending : SUBSET Conflict]

BooksInv(books) ==
  /\ books \in Books
  /\ DOMAIN books.settled \subseteq books.minted
  /\ books.minted \subseteq DOMAIN coins
  /\ books.blacklist = {e.by : e \in books.pending}

LedgerInv == \A books \in {ledger} \cup ledgerFile : BooksInv(books)

\* A token is settled by a parcel of it, and whoever is refused after that
\* has a longer one.
FairTo(books) ==
  /\ \A t \in DOMAIN books.settled : \E p \in parcels :
       /\ p.id = t /\ Len(p.chain) = books.settled[t].depth
       /\ Tip(p).to = books.settled[t].by
  /\ \A e \in books.pending :
       /\ e.id \in DOMAIN books.settled
       /\ e.by # books.settled[e.id].by /\ e.depth > books.settled[e.id].depth

ClaimsInv == restarted = {} => FairTo(ledger)

DpcInv ==
  /\ now \in 0..MaxTime
  /\ ParcelsInv /\ RegistersInv /\ GivenAway /\ SplitsCounted /\ OneLine
  /\ LedgerInv /\ ClaimsInv /\ BooksKeptUntilRestart

-----------------------------------------------------------------------------
(* Chains *)

\* A parcel and one more record, the one send_token signs.
Longer(p, r) == [id |-> p.id, chain |-> Append(p.chain, r)]

\* What cutting a parcel short leaves.
LEMMA CutFacts ==
  ASSUME NEW p \in Parcel, NEW k \in 1..Len(p.chain)
  PROVE  /\ Cut(p, k) \in Parcel /\ Cut(p, k).id = p.id
         /\ Len(Cut(p, k).chain) = k
         /\ \A i \in 1..k : Cut(p, k).chain[i] = p.chain[i]
         /\ Tip(Cut(p, k)) = p.chain[k]
<1> DEFINE s == p.chain
           x == SubSeq(s, 1, k)
<1>1. s \in Seq(Record) /\ Len(s) \in Nat
  BY DEF Parcel
<1>2. Cut(p, k) = [id |-> p.id, chain |-> x] /\ p.id \in Tokens
  <2>1. p.id \in Tokens
    BY DEF Parcel
  <2> QED
    BY <2>1 DEF Cut
<1> HIDE DEF s
<1>3. k \in 1..Len(s)
  BY DEF s
<1>4. x \in Seq(Record) /\ Len(x) = k /\ \A i \in 1..k : x[i] = s[i]
  BY <1>1, <1>3
<1> HIDE DEF x
<1> QED
  BY <1>2, <1>3, <1>4 DEF Parcel, Tip, s

\* What one more record adds.
LEMMA LongerFacts ==
  ASSUME NEW p \in Parcel, NEW r \in Record
  PROVE  /\ Longer(p, r) \in Parcel /\ Longer(p, r).id = p.id
         /\ Len(p.chain) \in Nat
         /\ Len(Longer(p, r).chain) = Len(p.chain) + 1
         /\ \A i \in 1..Len(p.chain) : Longer(p, r).chain[i] = p.chain[i]
         /\ Longer(p, r).chain[Len(p.chain) + 1] = r
         /\ Tip(Longer(p, r)) = r
         /\ Cut(Longer(p, r), Len(p.chain)) = p
         /\ \A k \in 1..Len(p.chain) : Cut(Longer(p, r), k) = Cut(p, k)
         /\ Cut(Longer(p, r), Len(p.chain) + 1) = Longer(p, r)
<1> DEFINE s == p.chain
           y == Append(s, r)
<1>1. s \in Seq(Record) /\ Len(s) \in Nat
  BY DEF Parcel
<1>2. p = [id |-> p.id, chain |-> s] /\ p.id \in Tokens
  BY DEF Parcel
<1>3. Longer(p, r) = [id |-> p.id, chain |-> y]
  BY DEF Longer
<1> HIDE DEF s
<1>4. /\ y \in Seq(Record) /\ Len(y) = Len(s) + 1
      /\ \A i \in 1..Len(s) : y[i] = s[i]
      /\ y[Len(s) + 1] = r
  BY <1>1
<1>5. \A k \in 1..Len(s) : SubSeq(y, 1, k) = SubSeq(s, 1, k)
  BY <1>1, <1>4
<1>6. SubSeq(y, 1, Len(s)) = s /\ SubSeq(y, 1, Len(s) + 1) = y
  <2>1. SubSeq(y, 1, Len(s)) = s
    BY <1>1, <1>4
  <2> HIDE DEF y
  <2>2. SubSeq(y, 1, Len(s) + 1) = y
    BY <1>1, <1>4
  <2> QED
    BY <2>1, <2>2
<1> HIDE DEF y
<1>7. Tip(Longer(p, r)) = r
  BY <1>3, <1>4 DEF Tip
<1>8. /\ Cut(Longer(p, r), Len(s)) = p
      /\ \A k \in 1..Len(s) : Cut(Longer(p, r), k) = Cut(p, k)
      /\ Cut(Longer(p, r), Len(s) + 1) = Longer(p, r)
  <2>1. ASSUME NEW k PROVE Cut(Longer(p, r), k) = [id |-> p.id, chain |-> SubSeq(y, 1, k)]
    <3>1. Longer(p, r).id = p.id /\ Longer(p, r).chain = y
      BY <1>3
    <3> QED
      BY <3>1 DEF Cut
  <2>2. ASSUME NEW k PROVE Cut(p, k) = [id |-> p.id, chain |-> SubSeq(s, 1, k)]
    BY DEF Cut, s
  <2> QED
    BY <1>2, <1>3, <1>5, <1>6, <2>1, <2>2
<1> QED
  BY <1>1, <1>2, <1>3, <1>4, <1>7, <1>8 DEF Parcel, s

\* Nonces and Parent are such cuts.
LEMMA NoncesAre ==
  ASSUME NEW p \in Parcel
  PROVE  /\ Nonces(p) = {Cut(p, k) : k \in 1..Len(p.chain)}
         /\ Parent(p) = Cut(p, Len(p.chain) - 1)
         /\ Len(p.chain) \in Nat
         /\ Len(p.chain) > 0 => Cut(p, Len(p.chain)) = p
<1>1. Nonces(p) = {Cut(p, k) : k \in 1..Len(p.chain)} /\ Parent(p) = Cut(p, Len(p.chain) - 1)
  <2>1. \A k : [p EXCEPT !.chain = SubSeq(@, 1, k)] = Cut(p, k)
    <3>1. ASSUME NEW k PROVE [p EXCEPT !.chain = SubSeq(@, 1, k)] = Cut(p, k)
      <4> DEFINE x == SubSeq(p.chain, 1, k)
      <4>1. [p EXCEPT !.chain = SubSeq(@, 1, k)] = [p EXCEPT !.chain = x]
        OBVIOUS
      <4> HIDE DEF x
      <4>2. [p EXCEPT !.chain = x] = [id |-> p.id, chain |-> x]
        BY DEF Parcel
      <4> QED
        BY <4>1, <4>2 DEF Cut, x
    <3> QED
      BY <3>1
  <2> QED
    BY <2>1 DEF Nonces, Parent
<1> DEFINE s == p.chain
<1>2. p = [id |-> p.id, chain |-> s] /\ s \in Seq(Record)
  BY DEF Parcel
<1>3. Cut(p, Len(p.chain)) = [id |-> p.id, chain |-> SubSeq(s, 1, Len(s))]
  BY <1>2 DEF Cut
<1> HIDE DEF s
<1>4. Len(s) \in Nat /\ SubSeq(s, 1, Len(s)) = s
  BY <1>2
<1> QED
  BY <1>1, <1>2, <1>3, <1>4 DEF s

\* A chain of one record, as mint_token and swap_change make it.
LEMMA FirstRecord ==
  ASSUME NEW t \in Tokens, NEW r \in Record, r.hop = 0
  PROVE  LET p == [id |-> t, chain |-> Append(<<>>, r)]
         IN /\ WellMade(p) /\ p.id = t /\ Len(p.chain) = 1 /\ p.chain[1] = r /\ Tip(p) = r
            /\ Nonces(p) = {p}
<1> DEFINE e == <<>>
           s == Append(e, r)
           p == [id |-> t, chain |-> s]
<1>1. e \in Seq(Record) /\ Len(e) = 0
  OBVIOUS
<1> HIDE DEF e
<1>2. s \in Seq(Record) /\ Len(s) = 1 /\ s[1] = r
  BY <1>1
<1> HIDE DEF s
<1>3. p \in Parcel /\ p.id = t /\ Len(p.chain) = 1 /\ p.chain[1] = r /\ Tip(p) = r
  BY <1>2 DEF Parcel, Tip
<1> HIDE DEF p
<1>4. Nonces(p) = {p}
  <2>1. Nonces(p) = {Cut(p, k) : k \in 1..1} /\ Cut(p, 1) = p
    <3>1. /\ Nonces(p) = {Cut(p, k) : k \in 1..Len(p.chain)}
          /\ Len(p.chain) > 0 => Cut(p, Len(p.chain)) = p
      BY <1>3, NoncesAre
    <3> QED
      BY <1>3, <3>1
  <2>2. 1..1 = {1}
    OBVIOUS
  <2> QED
    BY <2>1, <2>2
<1>5. MaxHops \in Nat
  BY DpcWalletAssumption
<1>6. ValidHops(p.chain)
  BY <1>3, <1>5 DEF ValidHops
<1>7. WellMade(p)
  BY <1>3, <1>6 DEF WellMade
<1> QED
  BY <1>3, <1>4, <1>7 DEF p, s, e

\* A record of send_token continues a chain as it has to.
LEMMA NextRecord ==
  ASSUME NEW p, WellMade(p), NEW r \in Record,
         r.from = Tip(p).to, r.hop = NextHop(p.chain, r.to)
  PROVE  /\ WellMade(Longer(p, r))
         /\ Nonces(Longer(p, r)) = Nonces(p) \cup {Longer(p, r)}
         /\ Parent(Longer(p, r)) = p
         /\ Longer(p, r).chain[1] = p.chain[1]
<1> DEFINE q == Longer(p, r)
           n == Len(p.chain)
<1>1. p \in Parcel /\ n > 0 /\ n \in Nat /\ Tip(p) = p.chain[n]
  BY NoncesAre DEF WellMade, Tip
<1>2. /\ q \in Parcel /\ Len(q.chain) = n + 1
      /\ \A i \in 1..n : q.chain[i] = p.chain[i]
      /\ q.chain[n + 1] = r /\ Tip(q) = r
      /\ Cut(q, n) = p /\ Cut(q, n + 1) = q
      /\ \A k \in 1..n : Cut(q, k) = Cut(p, k)
  BY <1>1, LongerFacts
<1> HIDE DEF q, n
<1>3. DOMAIN p.chain = 1..n /\ \A k \in 1..n : p.chain[k] \in Record
  BY <1>1 DEF Parcel, n
<1>4. MaxHops \in Nat /\ \A x \in Record : x.hop \in Nat /\ x.hop <= MaxHops
  BY DpcWalletAssumption DEF Record
<1>5. NextHop(p.chain, r.to) = IF r.to \in {p.chain[k].from : k \in 1..n}
                                 THEN 1 ELSE p.chain[n].hop + 1
  BY <1>3 DEF NextHop, n
<1>6. ValidHops(q.chain)
  <2>1. /\ p.chain[1].hop = 0
        /\ \A k \in 2..n : p.chain[k].hop \in {p.chain[k-1].hop + 1, 1}
    BY DEF WellMade, ValidHops, n
  <2>2. q.chain[n + 1].hop <= MaxHops /\ q.chain[1].hop = 0
    BY <1>1, <1>2, <1>4, <2>1
  <2>3. ASSUME NEW k \in 2..(n + 1) PROVE q.chain[k].hop \in {q.chain[k-1].hop + 1, 1}
    <3>1. CASE k = n + 1
      <4>1. q.chain[k] = r /\ q.chain[k-1] = p.chain[n]
        BY <1>1, <1>2, <3>1
      <4> QED
        BY <1>5, <4>1
    <3>2. CASE k \in 2..n
      <4>1. q.chain[k] = p.chain[k] /\ q.chain[k-1] = p.chain[k-1]
        BY <1>1, <1>2, <3>2
      <4> QED
        BY <2>1, <3>2, <4>1
    <3> QED
      BY <1>1, <3>1, <3>2
  <2> QED
    BY <1>2, <2>2, <2>3 DEF ValidHops
<1>7. ASSUME NEW k \in 2..(n + 1) PROVE q.chain[k].from = q.chain[k-1].to
  <2>1. \A i \in 2..n : p.chain[i].from = p.chain[i-1].to
    BY DEF WellMade, n
  <2>2. CASE k = n + 1
    <3>1. q.chain[k] = r /\ q.chain[k-1] = p.chain[n]
      BY <1>1, <1>2, <2>2
    <3> QED
      BY <1>1, <3>1
  <2>3. CASE k \in 2..n
    <3>1. q.chain[k] = p.chain[k] /\ q.chain[k-1] = p.chain[k-1]
      BY <1>1, <1>2, <2>3
    <3> QED
      BY <2>1, <2>3, <3>1
  <2> QED
    BY <1>1, <2>2, <2>3
<1>8. ASSUME NEW k \in 2..(n + 1), \A j \in k..(n + 1) : NewTo(q, j)
      PROVE  (n + 1) - k < r.hop
  <2>1. r.hop = p.chain[n].hop + 1
    <3>1. NewTo(q, n + 1)
      BY <1>1, <1>8
    <3>2. r.to \notin {q.chain[j].from : j \in 1..n}
      <4>1. (n + 1) - 1 = n
        BY <1>1
      <4> QED
        BY <1>2, <3>1, <4>1 DEF NewTo
    <3>3. r.to \notin {p.chain[j].from : j \in 1..n}
      BY <1>2, <3>2
    <3> QED
      BY <1>5, <3>3
  <2>2. p.chain[n].hop \in Nat
    BY <1>1, <1>3, <1>4
  <2>3. CASE k = n + 1
    BY <1>1, <2>1, <2>2, <2>3
  <2>4. CASE k \in 2..n
    <3>1. ASSUME NEW j \in k..n PROVE NewTo(p, j)
      <4>1. j \in 1..n /\ j \in k..(n + 1) /\ \A i \in 1..(j - 1) : i \in 1..n
        BY <1>1, <2>4
      <4>2. NewTo(q, j)
        BY <1>8, <4>1
      <4>3. q.chain[j] = p.chain[j] /\ \A i \in 1..(j - 1) : q.chain[i] = p.chain[i]
        BY <1>2, <4>1
      <4> QED
        BY <4>2, <4>3 DEF NewTo
    <3>2. n - k < Tip(p).hop
      BY <2>4, <3>1 DEF WellMade, n
    <3> QED
      BY <1>1, <2>1, <2>2, <2>4, <3>2
  <2> QED
    BY <1>1, <2>3, <2>4
<1>9. WellMade(q)
  BY <1>1, <1>2, <1>6, <1>7, <1>8 DEF WellMade
<1>10. Nonces(q) = Nonces(p) \cup {q}
  <2>1. Nonces(q) = {Cut(q, k) : k \in 1..(n + 1)}
    BY <1>2, NoncesAre
  <2>2. Nonces(p) = {Cut(p, k) : k \in 1..n}
    BY <1>1, NoncesAre DEF n
  <2>3. 1..(n + 1) = (1..n) \cup {n + 1}
    BY <1>1
  <2> QED
    BY <1>2, <2>1, <2>2, <2>3
<1>11. Parent(q) = p
  <2>1. (n + 1) - 1 = n
    BY <1>1
  <2> QED
    BY <1>2, <2>1 DEF Parent
<1> QED
  BY <1>1, <1>2, <1>9, <1>10, <1>11 DEF q

\* Parcels are made of earlier ones: whatever was made from p was first made
\* longer by one record, and that record is of the wallet p was for.
LEMMA ChildOf ==
  ASSUME ParcelsInv, NEW p \in parcels, NEW q \in parcels,
         Len(p.chain) < Len(q.chain), Cut(q, Len(p.chain)) = p
  PROVE  \E c \in parcels : /\ c.id = p.id /\ Len(c.chain) = Len(p.chain) + 1
                            /\ Tip(c).from = Tip(p).to /\ Parent(c) = p
<1> DEFINE n == Len(p.chain)
           c == Cut(q, n + 1)
<1>1. /\ p \in Parcel /\ q \in Parcel /\ n > 0 /\ n \in Nat /\ Len(q.chain) \in Nat
      /\ Tip(p) = p.chain[n]
  BY NoncesAre DEF ParcelsInv, WellMade, Tip
<1>2. n \in 1..Len(q.chain) /\ n + 1 \in 1..Len(q.chain)
  BY <1>1
<1> HIDE DEF n
<1>3. /\ c \in Parcel /\ c.id = q.id /\ Len(c.chain) = n + 1 /\ Tip(c) = q.chain[n + 1]
  BY <1>1, <1>2, CutFacts
<1>4. /\ p.id = q.id /\ Tip(p) = q.chain[n]
  BY <1>1, <1>2, CutFacts DEF n
<1>5. c \in parcels
  <2>1. Nonces(q) = {Cut(q, k) : k \in 1..Len(q.chain)}
    BY <1>1, NoncesAre
  <2> QED
    BY <1>2, <2>1 DEF ParcelsInv
<1>6. q.chain[n + 1].from = q.chain[n].to
  <2>1. n + 1 \in 2..Len(q.chain) /\ (n + 1) - 1 = n
    BY <1>1, <1>2
  <2> QED
    BY <2>1 DEF ParcelsInv, WellMade
<1>7. Parent(c) = p
  <2>1. Parent(c) = Cut(c, n)
    <3>1. (n + 1) - 1 = n
      BY <1>1
    <3> QED
      BY <1>3, <3>1 DEF Parent
  <2>2. Cut(c, n) = Cut(q, n)
    <3>1. SubSeq(SubSeq(q.chain, 1, n + 1), 1, n) = SubSeq(q.chain, 1, n)
      <4> DEFINE s == q.chain
      <4>1. s \in Seq(Record) /\ n + 1 \in 1..Len(s) /\ n \in Nat
        BY <1>1, <1>2 DEF Parcel
      <4> HIDE DEF s
      <4>2. SubSeq(SubSeq(s, 1, n + 1), 1, n) = SubSeq(s, 1, n)
        BY <4>1
      <4> QED
        BY <4>2 DEF s
    <3> QED
      BY <3>1 DEF Cut
  <2> QED
    BY <2>1, <2>2 DEF n
<1> HIDE DEF c
<1> QED
  BY <1>3, <1>4, <1>5, <1>6, <1>7 DEF n
-----------------------------------------------------------------------------
(* What the actions make *)

\* The record of a signature: its nonce is new, and it is otherwise as asked.
SignsOne(id, chain, from, to, hop) ==
  \E r \in Record : /\ r.from = from /\ r.to = to /\ r.hop = hop
                    /\ Signed(id, chain, from, to, hop) = [id |-> id, chain |-> Append(chain, r)]

\* Every signature is of that kind.
LEMMA SignedIs ==
  ASSUME ParcelsInv, NEW id, NEW chain, NEW from \in Wallets \cup {Issuer}, NEW to \in Wallets,
         NEW hop \in 0..MaxHops
  PROVE  SignsOne(id, chain, from, to, hop)
<1> DEFINE others == {p \in parcels : /\ p.id = id /\ Len(p.chain) = Len(chain) + 1
                                      /\ SubSeq(p.chain, 1, Len(chain)) = chain
                                      /\ Tip(p).from = from /\ Tip(p).to = to}
           d == Cardinality(others)
           r == [from |-> from, to |-> to, hop |-> hop, draw |-> d]
<1>1. d \in Nat
  <2>1. others \in SUBSET parcels /\ IsFiniteSet(parcels)
    BY DEF ParcelsInv
  <2> HIDE DEF others
  <2>2. IsFiniteSet(others)
    BY <2>1, FS_Subset
  <2> QED
    BY <2>2, FS_CardinalityType
<1>2. Signed(id, chain, from, to, hop) = [id |-> id, chain |-> Append(chain, r)]
  BY DEF Signed
<1> HIDE DEF d
<1>3. r \in Record /\ r.from = from /\ r.to = to /\ r.hop = hop
  BY <1>1 DEF Record
<1> HIDE DEF r
<1> QED
  BY <1>2, <1>3 DEF SignsOne

\* So it is when it continues the chain of a parcel.
LEMMA SignedLonger ==
  ASSUME ParcelsInv, NEW p, NEW from \in Wallets \cup {Issuer}, NEW to \in Wallets,
         NEW hop \in 0..MaxHops
  PROVE  \E r \in Record : /\ r.from = from /\ r.to = to /\ r.hop = hop
                           /\ Signed(p.id, p.chain, from, to, hop) = Longer(p, r)
<1> DEFINE i == p.id
           s == p.chain
<1>1. SignsOne(i, s, from, to, hop)
  <2> HIDE DEF i, s
  <2> QED
    BY SignedIs
<1> QED
  BY <1>1 DEF SignsOne, Longer

\* A first record: the parcel of a token that was not there before.
Opens(q, t, from, to) ==
  /\ WellMade(q) /\ q.id = t /\ Len(q.chain) = 1 /\ Nonces(q) = {q}
  /\ q.chain[1] = Tip(q) /\ Tip(q).from = from /\ Tip(q).to = to

\* mint_token and swap_change open new tokens' chains so.
LEMMA OpensNew ==
  ASSUME ParcelsInv, NEW t \in Tokens, NEW from \in Wallets \cup {Issuer}, NEW to \in Wallets
  PROVE  Opens(Signed(t, <<>>, from, to, 0), t, from, to)
<1>1. 0 \in 0..MaxHops
  BY DpcWalletAssumption
<1> DEFINE e == <<>>
<1>2. PICK r \in Record : /\ r.from = from /\ r.to = to /\ r.hop = 0
                          /\ Signed(t, e, from, to, 0) = [id |-> t, chain |-> Append(e, r)]
  <2> HIDE DEF e
  <2>1. SignsOne(t, e, from, to, 0)
    BY <1>1, SignedIs
  <2> QED
    BY <2>1 DEF SignsOne
<1> DEFINE q == [id |-> t, chain |-> Append(e, r)]
<1>3. /\ WellMade(q) /\ q.id = t /\ Len(q.chain) = 1 /\ q.chain[1] = r /\ Tip(q) = r
      /\ Nonces(q) = {q}
  BY <1>2, FirstRecord
<1> HIDE DEF q
<1>4. Opens(q, t, from, to)
  BY <1>2, <1>3 DEF Opens
<1> QED
  BY <1>2, <1>4 DEF q, e

\* A parcel sent on.
Continues(q, p, w, receiver) ==
  /\ WellMade(q) /\ q.id = p.id /\ Len(p.chain) \in Nat /\ Len(q.chain) = Len(p.chain) + 1
  /\ Nonces(q) = Nonces(p) \cup {q} /\ Parent(q) = p
  /\ q.chain[1] = p.chain[1] /\ Tip(q).from = w /\ Tip(q).to = receiver

\* send_token continues the chain of a receipt so.
LEMMA ContinuesOne ==
  ASSUME ParcelsInv, NEW p \in parcels, NEW w \in Wallets, Tip(p).to = w, NEW receiver \in Wallets,
         CanSend(p, receiver)
  PROVE  Continues(Signed(p.id, p.chain, w, receiver, NextHop(p.chain, receiver)), p, w, receiver)
<1>1. WellMade(p) /\ p \in Parcel /\ Len(p.chain) > 0
  BY DEF ParcelsInv, WellMade
<1> DEFINE h == NextHop(p.chain, receiver)
<1>2. h \in 0..MaxHops
  <2>1. h <= MaxHops
    BY DEF CanSend
  <2>2. p.chain[Len(p.chain)] \in Record
    BY <1>1 DEF Parcel
  <2>3. p.chain[Len(p.chain)].hop \in Nat
    BY <2>2, DpcWalletAssumption DEF Record
  <2>4. h \in Nat
    BY <2>3 DEF NextHop
  <2>5. MaxHops \in Nat
    BY DpcWalletAssumption
  <2> QED
    BY <2>1, <2>4, <2>5
<1> HIDE DEF h
<1>3. PICK r \in Record : /\ r.from = w /\ r.to = receiver /\ r.hop = h
                          /\ Signed(p.id, p.chain, w, receiver, h) = Longer(p, r)
  <2>1. w \in Wallets \cup {Issuer}
    OBVIOUS
  <2> QED
    BY <1>2, <2>1, SignedLonger
<1> DEFINE q == Longer(p, r)
<1>5. /\ WellMade(q) /\ Nonces(q) = Nonces(p) \cup {q} /\ Parent(q) = p
      /\ q.chain[1] = p.chain[1]
  BY <1>1, <1>3, NextRecord DEF h
<1>6. q.id = p.id /\ Len(p.chain) \in Nat /\ Len(q.chain) = Len(p.chain) + 1 /\ Tip(q) = r
  BY <1>1, LongerFacts
<1> HIDE DEF q
<1>7. Continues(q, p, w, receiver)
  BY <1>3, <1>5, <1>6 DEF Continues
<1> QED
  BY <1>3, <1>7 DEF q, h

\* New parcels keep the invariant of the parcels.
LEMMA ParcelsGrow ==
  ASSUME ParcelsInv, NEW S, IsFiniteSet(S), parcels' = parcels \cup S,
         \A q \in S : WellMade(q) /\ q.id \in DOMAIN coins' /\ Nonces(q) \subseteq parcels \cup S,
         DOMAIN coins \subseteq DOMAIN coins', DOMAIN coins' \subseteq Tokens,
         IsFiniteSet(DOMAIN coins')
  PROVE  ParcelsInv'
<1>1. IsFiniteSet(parcels')
  BY FS_Union DEF ParcelsInv
<1>2. \A q \in parcels' : WellMade(q) /\ q.id \in DOMAIN coins' /\ Nonces(q) \subseteq parcels'
  BY DEF ParcelsInv
<1> QED
  BY <1>1, <1>2 DEF ParcelsInv, WellMade, Nonces, ValidHops, Tip, NewTo

\* The ids of new coins are new, and there are some more of them.
LEMMA NewCoinsFacts ==
  ASSUME ParcelsInv, NEW S \in SUBSET Tokens, IsFiniteSet(S),
         NEW value, DOMAIN value = S, NewCoins(value)
  PROVE  /\ S \cap DOMAIN coins = {} /\ DOMAIN coins' = DOMAIN coins \cup S
         /\ DOMAIN coins' \subseteq Tokens /\ IsFiniteSet(DOMAIN coins')
<1>1. S \cap DOMAIN coins = {} /\ DOMAIN coins' = DOMAIN coins \cup S
  BY DEF NewCoins
<1>2. DOMAIN coins \subseteq Tokens /\ IsFiniteSet(DOMAIN coins)
  BY DEF ParcelsInv
<1>3. IsFiniteSet(DOMAIN coins \cup S)
  BY <1>2, FS_Union
<1>4. DOMAIN coins' \subseteq Tokens
  BY <1>1, <1>2
<1> QED
  BY <1>1, <1>3, <1>4
-----------------------------------------------------------------------------
(* Registers *)

\* Registers stay registers when parcels and tokens are added.
LEMMA RegistersGrow ==
  ASSUME parcels \subseteq parcels', DOMAIN coins \subseteq DOMAIN coins'
  PROVE  Registers \subseteq Registers'
BY DEF Registers

\* A step keeps the registers in order if each register after it was there
\* before, in memory or in the file of the same wallet.
LEMMA RegistersMoved ==
  ASSUME RegistersInv, parcels \subseteq parcels', DOMAIN coins \subseteq DOMAIN coins',
         NEW a, wallet' = a, a \in [Wallets -> Registers],
         NEW b, files' = b, b \in [Wallets -> SUBSET Registers],
         \A w \in Wallets : \A reg \in {a[w]} \cup b[w] : RegisterInv(w, reg)
  PROVE  RegistersInv'
<1>1. Registers \subseteq Registers'
  BY RegistersGrow
<1>2. wallet' \in [Wallets -> Registers'] /\ files' \in [Wallets -> SUBSET Registers']
  BY <1>1
<1>3. \A w \in Wallets : \A reg \in {wallet'[w]} \cup files'[w] : RegisterInv(w, reg)
  OBVIOUS
<1> QED
  BY <1>2, <1>3 DEF RegistersInv, RegisterInv, Tip

\* A refused send or split puts back what it took out.
LEMMA RefusedIsNothing ==
  ASSUME RegistersInv, NEW w \in Wallets, NEW p \in wallet[w].entries
  PROVE  [wallet EXCEPT ![w] = Restore(Spend(@, p), p)] = wallet
<1>1. wallet[w] \in Registers /\ p.id \notin wallet[w].spent
  BY DEF RegistersInv, RegisterInv
<1>2. Restore(Spend(wallet[w], p), p) = wallet[w]
  BY <1>1 DEF Restore, Spend, Registers
<1> QED
  BY <1>2 DEF RegistersInv

\* A register after spend.
LEMMA SpendFacts ==
  ASSUME NEW w, NEW reg \in Registers, RegisterInv(w, reg), NEW p \in reg.entries
  PROVE  /\ Spend(reg, p).entries = reg.entries \ {p}
         /\ Spend(reg, p).spent = reg.spent \cup {p.id}
         /\ Spend(reg, p).seen = reg.seen
         /\ p.id \in DOMAIN coins => Spend(reg, p) \in Registers
         /\ RegisterInv(w, Spend(reg, p))
<1>1. /\ Spend(reg, p).entries = reg.entries \ {p}
      /\ Spend(reg, p).spent = reg.spent \cup {p.id}
      /\ Spend(reg, p).seen = reg.seen
      /\ p.id \in DOMAIN coins => Spend(reg, p) \in Registers
  BY DEF Spend, Registers
<1>2. RegisterInv(w, Spend(reg, p))
  BY <1>1 DEF RegisterInv
<1> QED
  BY <1>1, <1>2

\* What spend does to the registers of all wallets.
Spends(w, p) ==
  /\ wallet'[w].entries = wallet[w].entries \ {p}
  /\ wallet'[w].spent = wallet[w].spent \cup {p.id}
  /\ wallet'[w].seen = wallet[w].seen
  /\ \A v \in Wallets \ {w} : wallet'[v] = wallet[v]
  /\ files' = files

\* After spend, as send_token and swap_change call it, the registers are in
\* order.
LEMMA SpendStep ==
  ASSUME ParcelsInv, RegistersInv, NEW w \in Wallets, NEW p \in wallet[w].entries,
         wallet' = [wallet EXCEPT ![w] = Spend(@, p)], files' = files,
         parcels \subseteq parcels', DOMAIN coins \subseteq DOMAIN coins'
  PROVE  RegistersInv' /\ Spends(w, p)
<1>1. /\ wallet[w] \in Registers /\ RegisterInv(w, wallet[w])
      /\ wallet \in [Wallets -> Registers] /\ files \in [Wallets -> SUBSET Registers]
      /\ \A v \in Wallets : \A reg \in {wallet[v]} \cup files[v] : RegisterInv(v, reg)
  BY DEF RegistersInv
<1>2. p \in parcels /\ p.id \in DOMAIN coins
  BY <1>1 DEF Registers, ParcelsInv
<1>3. /\ Spend(wallet[w], p).entries = wallet[w].entries \ {p}
      /\ Spend(wallet[w], p).spent = wallet[w].spent \cup {p.id}
      /\ Spend(wallet[w], p).seen = wallet[w].seen
      /\ Spend(wallet[w], p) \in Registers
      /\ RegisterInv(w, Spend(wallet[w], p))
  BY <1>1, <1>2, SpendFacts
<1> DEFINE a == [wallet EXCEPT ![w] = Spend(@, p)]
<1>4. a \in [Wallets -> Registers] /\ a[w] = Spend(wallet[w], p) /\ \A v \in Wallets \ {w} : a[v] = wallet[v]
  BY <1>1, <1>3
<1>5. wallet' = a
  OBVIOUS
<1> HIDE DEF a
<1>6. \A v \in Wallets : \A reg \in {a[v]} \cup files[v] : RegisterInv(v, reg)
  BY <1>1, <1>3, <1>4
<1>7. RegistersInv'
  BY <1>1, <1>4, <1>5, <1>6, RegistersMoved
<1>8. Spends(w, p)
  BY <1>3, <1>4, <1>5 DEF Spends
<1> QED
  BY <1>7, <1>8

\* What add_receipt does.
Receives(w, p) ==
  /\ wallet'[w].entries = wallet[w].entries \cup {p}
  /\ wallet'[w].spent = wallet[w].spent \ {p.id}
  /\ wallet'[w].seen = wallet[w].seen \cup Nonces(p)
  /\ \A v \in Wallets \ {w} : wallet'[v] = wallet[v]

\* After add_receipt they are, too.
LEMMA ReceiveStep ==
  ASSUME ParcelsInv, RegistersInv, NEW w \in Wallets, NEW p \in parcels, ReceiveToken(w, p)
  PROVE  RegistersInv' /\ Receives(w, p)
<1>1. /\ wallet[w] \in Registers /\ RegisterInv(w, wallet[w])
      /\ wallet \in [Wallets -> Registers] /\ files \in [Wallets -> SUBSET Registers]
      /\ \A v \in Wallets : \A reg \in {wallet[v]} \cup files[v] : RegisterInv(v, reg)
  BY DEF RegistersInv
<1> DEFINE reg == [entries |-> wallet[w].entries \cup {p}, spent |-> wallet[w].spent \ {p.id},
                   seen |-> wallet[w].seen \cup Nonces(p)]
           a == [wallet EXCEPT ![w] = reg]
<1>2. /\ wallet' = a /\ files' = files /\ parcels' = parcels /\ coins' = coins
      /\ Tip(p).to = w /\ p.id \notin Ids(wallet[w].entries)
  BY DEF ReceiveToken, Unseen
<1>3. reg \in Registers
  BY <1>1 DEF Registers, ParcelsInv
<1>4. RegisterInv(w, reg)
  BY <1>1, <1>2 DEF RegisterInv, Ids
<1>5. /\ reg.entries = wallet[w].entries \cup {p} /\ reg.spent = wallet[w].spent \ {p.id}
      /\ reg.seen = wallet[w].seen \cup Nonces(p)
  OBVIOUS
<1> HIDE DEF reg
<1>6. a \in [Wallets -> Registers] /\ a[w] = reg /\ \A v \in Wallets \ {w} : a[v] = wallet[v]
  BY <1>1, <1>3
<1> HIDE DEF a
<1>7. \A v \in Wallets : \A x \in {a[v]} \cup files[v] : RegisterInv(v, x)
  BY <1>1, <1>4, <1>6
<1>8. RegistersInv'
  BY <1>1, <1>2, <1>6, <1>7, RegistersMoved
<1>9. Receives(w, p)
  BY <1>2, <1>5, <1>6 DEF Receives
<1> QED
  BY <1>8, <1>9
-----------------------------------------------------------------------------
(* What has been passed on *)

\* A receipt of a wallet that was never restarted has not been passed on.
LEMMA NotPassedOn ==
  ASSUME ParcelsInv, RegistersInv, GivenAway,
         NEW w \in Wallets \ restarted, NEW p \in parcels, Tip(p).to = w,
         p \in wallet[w].entries \/ p \notin wallet[w].seen,
         NEW q \in parcels, Len(p.chain) < Len(q.chain)
  PROVE  Cut(q, Len(p.chain)) # p
<1> SUFFICES ASSUME Cut(q, Len(p.chain)) = p PROVE FALSE
  OBVIOUS
<1>1. PICK c \in parcels : /\ c.id = p.id /\ Len(c.chain) = Len(p.chain) + 1
                           /\ Tip(c).from = Tip(p).to /\ Parent(c) = p
  BY ChildOf
<1>2. Len(p.chain) \in Nat /\ Len(p.chain) > 0
  BY NoncesAre DEF ParcelsInv, WellMade
<1>3. Len(c.chain) > 1
  BY <1>1, <1>2
<1>4. p \in wallet[w].seen \ wallet[w].entries
  BY <1>1, <1>3 DEF GivenAway
<1> QED
  BY <1>4

\* So a token of a system without restarts has no longer chain than the one
\* its holder, or whoever it is on its way to, has.
LEMMA HeldIsLongest ==
  ASSUME ParcelsInv, RegistersInv, GivenAway, OneLine, restarted = {},
         NEW w \in Wallets, NEW p \in parcels, Tip(p).to = w,
         p \in wallet[w].entries \/ p \notin wallet[w].seen,
         NEW q \in parcels, q.id = p.id
  PROVE  Len(q.chain) <= Len(p.chain)
<1>1. /\ p \in Parcel /\ q \in Parcel /\ Len(p.chain) \in Nat /\ Len(q.chain) \in Nat
      /\ Len(p.chain) > 0
  BY NoncesAre DEF ParcelsInv, WellMade
<1> SUFFICES ASSUME Len(p.chain) < Len(q.chain) PROVE FALSE
  BY <1>1
<1> DEFINE c == Cut(q, Len(p.chain))
<1>2. Len(p.chain) \in 1..Len(q.chain)
  BY <1>1
<1>3. c.id = p.id /\ Len(c.chain) = Len(p.chain)
  BY <1>1, <1>2, CutFacts
<1>4. c \in parcels
  <2>1. Nonces(q) = {Cut(q, k) : k \in 1..Len(q.chain)}
    BY <1>1, NoncesAre
  <2> QED
    BY <1>2, <2>1 DEF ParcelsInv
<1>5. c # p
  BY NotPassedOn
<1> HIDE DEF c
<1> QED
  BY <1>3, <1>4, <1>5 DEF OneLine

\* Parcels with new tokens take nothing from what wallets gave away before.
LEMMA OpensGiven ==
  ASSUME GivenAway, NEW S, parcels' = parcels \cup S, \A q \in S : Len(q.chain) = 1,
         \A w \in Wallets : wallet'[w].seen = wallet[w].seen /\ wallet'[w].entries \subseteq wallet[w].entries,
         restarted' = restarted
  PROVE  GivenAway'
<1>1. ASSUME NEW w \in Wallets \ restarted'
      PROVE  /\ wallet'[w].entries \subseteq wallet'[w].seen
             /\ \A q \in parcels' : Len(q.chain) > 1 /\ Tip(q).from = w =>
                  Parent(q) \in wallet'[w].seen \ wallet'[w].entries
  <2>1. /\ wallet[w].entries \subseteq wallet[w].seen
        /\ \A x \in parcels : Len(x.chain) > 1 /\ Tip(x).from = w =>
             Parent(x) \in wallet[w].seen \ wallet[w].entries
    BY DEF GivenAway
  <2>2. wallet'[w].seen = wallet[w].seen /\ wallet'[w].entries \subseteq wallet[w].entries
    OBVIOUS
  <2>3. ASSUME NEW q \in parcels', Len(q.chain) > 1 PROVE q \in parcels
    <3>1. q \notin S
      <4> DEFINE n == Len(q.chain)
      <4>1. (q \in S => n = 1) /\ n > 1
        BY <2>3
      <4> HIDE DEF n
      <4> QED
        BY <4>1
    <3> QED
      BY <3>1
  <2> QED
    BY <2>1, <2>2, <2>3
<1> QED
  BY <1>1 DEF GivenAway, Parent, Cut, Tip

\* A wallet that sends a token has given away what it sent.
LEMMA SendGiven ==
  ASSUME GivenAway, NEW w \in Wallets, NEW p \in wallet[w].entries, Spends(w, p),
         NEW q, NEW receiver, Continues(q, p, w, receiver), parcels' = parcels \cup {q},
         restarted' = restarted
  PROVE  GivenAway'
<1>1. ASSUME NEW v \in Wallets \ restarted'
      PROVE  /\ wallet'[v].entries \subseteq wallet'[v].seen
             /\ \A x \in parcels' : Len(x.chain) > 1 /\ Tip(x).from = v =>
                  Parent(x) \in wallet'[v].seen \ wallet'[v].entries
  <2>1. /\ wallet[v].entries \subseteq wallet[v].seen
        /\ \A x \in parcels : Len(x.chain) > 1 /\ Tip(x).from = v =>
             Parent(x) \in wallet[v].seen \ wallet[v].entries
    BY DEF GivenAway
  <2>2. /\ wallet'[v].seen = wallet[v].seen /\ wallet'[v].entries \subseteq wallet[v].entries
        /\ v = w => p \notin wallet'[v].entries
    BY DEF Spends
  <2>3. ASSUME Tip(q).from = v PROVE Parent(q) \in wallet'[v].seen \ wallet'[v].entries
    <3>1. v = w /\ Parent(q) = p
      BY <2>3 DEF Continues
    <3> QED
      BY <2>1, <2>2, <3>1
  <2> QED
    BY <2>1, <2>2, <2>3
<1> QED
  BY <1>1 DEF GivenAway, Parent, Cut, Tip

\* A receipt cannot come back once it was given away: its nonce was seen.
LEMMA ReceiveGiven ==
  ASSUME ParcelsInv, GivenAway, NEW w \in Wallets, NEW p \in parcels, ReceiveToken(w, p),
         Receives(w, p), restarted' = restarted
  PROVE  GivenAway'
<1>1. p \in Nonces(p)
  <2>1. p \in Parcel /\ Len(p.chain) > 0
    BY DEF ParcelsInv, WellMade
  <2>2. /\ Nonces(p) = {Cut(p, k) : k \in 1..Len(p.chain)} /\ Len(p.chain) \in Nat
        /\ Cut(p, Len(p.chain)) = p
    BY <2>1, NoncesAre
  <2>3. Len(p.chain) \in 1..Len(p.chain)
    BY <2>1, <2>2
  <2> QED
    BY <2>2, <2>3
<1>2. p \notin wallet[w].seen /\ parcels' = parcels
  BY <1>1 DEF ReceiveToken, Unseen
<1>3. ASSUME NEW v \in Wallets \ restarted'
      PROVE  /\ wallet'[v].entries \subseteq wallet'[v].seen
             /\ \A x \in parcels' : Len(x.chain) > 1 /\ Tip(x).from = v =>
                  Parent(x) \in wallet'[v].seen \ wallet'[v].entries
  <2>1. /\ wallet[v].entries \subseteq wallet[v].seen
        /\ \A x \in parcels : Len(x.chain) > 1 /\ Tip(x).from = v =>
             Parent(x) \in wallet[v].seen \ wallet[v].entries
    BY DEF GivenAway
  <2>2. CASE v = w
    <3>1. /\ wallet'[v].entries = wallet[v].entries \cup {p}
          /\ wallet'[v].seen = wallet[v].seen \cup Nonces(p)
      BY <2>2 DEF Receives
    <3>2. p \notin wallet[v].seen
      BY <1>2, <2>2
    <3> QED
      BY <1>1, <1>2, <2>1, <3>1, <3>2
  <2>3. CASE v # w
    <3>1. wallet'[v] = wallet[v]
      BY <2>3 DEF Receives
    <3> QED
      BY <1>2, <2>1, <3>1
  <2> QED
    BY <2>2, <2>3
<1> QED
  BY <1>3 DEF GivenAway, Parent, Cut, Tip

\* A step that changes no wallet but those restarted, and makes no parcel.
LEMMA RestGiven ==
  ASSUME GivenAway, parcels' = parcels, restarted \subseteq restarted',
         \A w \in Wallets \ restarted' : wallet'[w] = wallet[w]
  PROVE  GivenAway'
<1>1. ASSUME NEW w \in Wallets \ restarted'
      PROVE  /\ wallet'[w].entries \subseteq wallet'[w].seen
             /\ \A q \in parcels' : Len(q.chain) > 1 /\ Tip(q).from = w =>
                  Parent(q) \in wallet'[w].seen \ wallet'[w].entries
  <2>1. wallet'[w] = wallet[w] /\ w \in Wallets \ restarted
    OBVIOUS
  <2> QED
    BY <2>1 DEF GivenAway
<1> QED
  BY <1>1 DEF GivenAway, Parent, Cut, Tip

\* The chains of a new token are on one line, ...
LEMMA OpensLine ==
  ASSUME ParcelsInv, OneLine, NEW S, parcels' = parcels \cup S, restarted' = restarted,
         \A q \in S : q.id \notin DOMAIN coins,
         \A q, x \in S : q.id = x.id => q = x
  PROVE  OneLine'
<1>1. \A q \in parcels : q.id \in DOMAIN coins
  BY DEF ParcelsInv
<1> QED
  BY <1>1 DEF OneLine

\* ... and so they are when the wallet that has the token sends it on.
LEMMA SendLine ==
  ASSUME ParcelsInv, RegistersInv, GivenAway, OneLine,
         NEW w \in Wallets, NEW p \in wallet[w].entries,
         NEW q, NEW receiver, Continues(q, p, w, receiver), parcels' = parcels \cup {q},
         restarted' = restarted
  PROVE  OneLine'
<1> SUFFICES ASSUME restarted = {} PROVE OneLine'
  BY DEF OneLine
<1>1. p \in parcels /\ Tip(p).to = w
  BY DEF RegistersInv, Registers, RegisterInv
<1>2. ASSUME NEW x \in parcels, x.id = q.id PROVE Len(x.chain) < Len(q.chain)
  <2>1. x.id = p.id /\ Len(q.chain) = Len(p.chain) + 1 /\ Len(p.chain) \in Nat
    BY <1>2 DEF Continues
  <2>2. Len(x.chain) <= Len(p.chain)
    BY <1>1, <2>1, HeldIsLongest
  <2>3. Len(x.chain) \in Nat
    BY NoncesAre DEF ParcelsInv, WellMade
  <2> QED
    BY <2>1, <2>2, <2>3
<1>3. \A x \in parcels : Len(x.chain) \in Nat
  BY NoncesAre DEF ParcelsInv, WellMade
<1>4. Len(q.chain) \in Nat
  BY DEF Continues
<1>5. \A x \in parcels : x.id = q.id => Len(x.chain) # Len(q.chain)
  BY <1>2, <1>3, <1>4
<1> QED
  BY <1>5 DEF OneLine
-----------------------------------------------------------------------------
(* Splits are counted *)

\* A set that has half as many elements as another has no more of them when
\* it loses some and the other gains some, ...
LEMMA HalfKept ==
  ASSUME NEW A, NEW B, IsFiniteSet(A), 2 * Cardinality(A) <= Cardinality(B),
         NEW C \in SUBSET A, NEW D, IsFiniteSet(D), B \subseteq D
  PROVE  2 * Cardinality(C) <= Cardinality(D)
<1>1. /\ Cardinality(C) <= Cardinality(A) /\ IsFiniteSet(C)
  BY FS_Subset
<1>2. Cardinality(B) <= Cardinality(D) /\ IsFiniteSet(B)
  BY FS_Subset
<1>3. {Cardinality(A), Cardinality(B), Cardinality(C), Cardinality(D)} \subseteq Nat
  BY <1>1, <1>2, FS_CardinalityType
<1> QED
  BY <1>1, <1>2, <1>3

\* ... or when it gains one element and the other two.
LEMMA HalfGrown ==
  ASSUME NEW A, NEW B, IsFiniteSet(A), IsFiniteSet(B), 2 * Cardinality(A) <= Cardinality(B),
         NEW t, NEW C \in SUBSET (A \cup {t}),
         NEW y, NEW z, y # z, y \notin B, z \notin B
  PROVE  2 * Cardinality(C) <= Cardinality(B \cup {y, z})
<1>1. /\ IsFiniteSet(A \cup {t}) /\ Cardinality(A \cup {t}) <= Cardinality(A) + 1
  <2>1. IsFiniteSet(A \cup {t}) /\ Cardinality(A) \in Nat
    BY FS_AddElement, FS_CardinalityType
  <2>2. Cardinality(A \cup {t}) = IF t \in A THEN Cardinality(A) ELSE Cardinality(A) + 1
    BY FS_AddElement
  <2> QED
    BY <2>1, <2>2
<1>2. IsFiniteSet(C) /\ Cardinality(C) <= Cardinality(A \cup {t})
  BY <1>1, FS_Subset
<1>3. IsFiniteSet(B \cup {y}) /\ Cardinality(B \cup {y}) = Cardinality(B) + 1
  BY FS_AddElement
<1>4. Cardinality((B \cup {y}) \cup {z}) = Cardinality(B \cup {y}) + 1
  BY <1>3, FS_AddElement
<1>5. Cardinality(B \cup {y, z}) = Cardinality((B \cup {y}) \cup {z})
  <2>1. (B \cup {y}) \cup {z} = B \cup {y, z}
    OBVIOUS
  <2> QED
    BY <2>1
<1>6. /\ Cardinality(A) \in Nat /\ Cardinality(B) \in Nat /\ Cardinality(C) \in Nat
      /\ Cardinality(A \cup {t}) \in Nat
  BY <1>1, <1>2, FS_CardinalityType
<1>7. Cardinality(B \cup {y, z}) = Cardinality(B) + 2
  BY <1>3, <1>4, <1>5, <1>6
<1> QED
  BY <1>1, <1>2, <1>6, <1>7

\* What is counted is finite.
LEMMA CountedFinite ==
  ASSUME ParcelsInv, RegistersInv, NEW w \in Wallets
  PROVE  IsFiniteSet(Marked(w) \ SentBy(w)) /\ IsFiniteSet(OwnMake(w))
<1>1. wallet[w].spent \subseteq DOMAIN coins /\ \A reg \in files[w] : reg.spent \subseteq DOMAIN coins
  BY DEF RegistersInv, Registers
<1>2. Marked(w) \ SentBy(w) \in SUBSET DOMAIN coins
  BY <1>1 DEF Marked
<1>3. OwnMake(w) \in SUBSET parcels
  BY DEF OwnMake
<1> QED
  BY <1>2, <1>3, FS_Subset DEF ParcelsInv

\* With more parcels, a wallet has sent and made no fewer.
LEMMA MadeGrow ==
  ASSUME parcels \subseteq parcels', NEW w
  PROVE  SentBy(w) \subseteq SentBy(w)' /\ OwnMake(w) \subseteq OwnMake(w)'
<1>1. \A p \in parcels : Tip(p).from = w => p.id \in SentBy(w)'
  BY DEF SentBy, Tip
<1> QED
  BY <1>1 DEF SentBy, OwnMake, Tip

\* A step that marks nothing as spent but what the wallet has sent.
LEMMA SplitsKept ==
  ASSUME ParcelsInv, RegistersInv, SplitsCounted, ParcelsInv', parcels \subseteq parcels',
         \A w \in Wallets : Marked(w)' \subseteq Marked(w) \cup SentBy(w)'
  PROVE  SplitsCounted'
<1>1. ASSUME NEW w \in Wallets
      PROVE  2 * Cardinality(Marked(w)' \ SentBy(w)') <= Cardinality(OwnMake(w)')
  <2>1. IsFiniteSet(Marked(w) \ SentBy(w))
    BY CountedFinite
  <2>2. 2 * Cardinality(Marked(w) \ SentBy(w)) <= Cardinality(OwnMake(w))
    BY DEF SplitsCounted
  <2>3. /\ Marked(w)' \ SentBy(w)' \in SUBSET (Marked(w) \ SentBy(w))
        /\ OwnMake(w) \subseteq OwnMake(w)'
    BY MadeGrow
  <2>4. IsFiniteSet(OwnMake(w)')
    <3>1. OwnMake(w)' \in SUBSET (parcels') /\ IsFiniteSet(parcels')
      BY DEF OwnMake, ParcelsInv
    <3> QED
      BY <3>1, FS_Subset
  <2> DEFINE A == Marked(w) \ SentBy(w)
             C == Marked(w)' \ SentBy(w)'
             B == OwnMake(w)
             D == OwnMake(w)'
  <2>5. IsFiniteSet(A) /\ 2 * Cardinality(A) <= Cardinality(B) /\ C \in SUBSET A /\ IsFiniteSet(D) /\ B \subseteq D
    BY <2>1, <2>2, <2>3, <2>4
  <2> HIDE DEF A, B, C, D
  <2>6. 2 * Cardinality(C) <= Cardinality(D)
    BY <2>5, HalfKept
  <2> QED
    BY <2>6 DEF C, D
<1> QED
  BY <1>1 DEF SplitsCounted

\* Receiving, saving and restarting mark nothing.
LEMMA RestSplits ==
  ASSUME ParcelsInv, RegistersInv, SplitsCounted, ParcelsInv', parcels \subseteq parcels',
         \A w \in Wallets : /\ wallet'[w].spent \subseteq Marked(w)
                            /\ \A reg \in files'[w] : reg \in {wallet[w]} \cup files[w]
  PROVE  SplitsCounted'
<1>1. ASSUME NEW w \in Wallets PROVE Marked(w)' \subseteq Marked(w)
  <2>1. \A reg \in files'[w] : reg.spent \subseteq Marked(w)
    BY DEF Marked
  <2> QED
    BY <2>1 DEF Marked
<1> QED
  BY <1>1, SplitsKept

\* What is sent is marked, and sent.
LEMMA SendSplits ==
  ASSUME ParcelsInv, RegistersInv, SplitsCounted, ParcelsInv',
         NEW w \in Wallets, NEW p \in wallet[w].entries, Spends(w, p),
         NEW q, NEW receiver, Continues(q, p, w, receiver), parcels' = parcels \cup {q}
  PROVE  SplitsCounted'
<1>1. p.id \in SentBy(w)'
  <2>1. q \in parcels' /\ Tip(q).from = w /\ q.id = p.id
    BY DEF Continues
  <2>2. \A x \in parcels' : Tip(x).from = w => x.id \in SentBy(w)'
    BY DEF SentBy, Tip
  <2> QED
    BY <2>1, <2>2
<1>2. ASSUME NEW v \in Wallets PROVE Marked(v)' \subseteq Marked(v) \cup SentBy(v)'
  <2>1. wallet'[v].spent \subseteq wallet[v].spent \cup SentBy(v)'
    BY <1>1 DEF Spends
  <2> QED
    BY <2>1 DEF Marked, Spends
<1> QED
  BY <1>2, SplitsKept

\* A split marks one token and makes two.
LEMMA SplitSplits ==
  ASSUME ParcelsInv, RegistersInv, SplitsCounted, ParcelsInv',
         NEW w \in Wallets, NEW p \in wallet[w].entries, Spends(w, p),
         NEW y, NEW z, NEW t, NEW u, NEW v1, NEW v2, Opens(y, t, w, v1), Opens(z, u, w, v2), t # u,
         t \notin DOMAIN coins, u \notin DOMAIN coins, parcels' = parcels \cup {y, z}
  PROVE  SplitsCounted'
<1>0. \A v \in Wallets : SentBy(v) \subseteq SentBy(v)' /\ OwnMake(v) \subseteq OwnMake(v)'
  BY MadeGrow
<1>1. ASSUME NEW v \in Wallets, v # w
      PROVE  2 * Cardinality(Marked(v)' \ SentBy(v)') <= Cardinality(OwnMake(v)')
  <2>1. Marked(v)' = Marked(v)
    BY <1>1 DEF Marked, Spends
  <2>2. SentBy(v) \subseteq SentBy(v)' /\ OwnMake(v) \subseteq OwnMake(v)'
    BY <1>0
  <2>3. IsFiniteSet(OwnMake(v)')
    <3>1. OwnMake(v)' \in SUBSET (parcels') /\ IsFiniteSet(parcels')
      BY DEF OwnMake, ParcelsInv
    <3> QED
      BY <3>1, FS_Subset
  <2> DEFINE A == Marked(v) \ SentBy(v)
             C == Marked(v)' \ SentBy(v)'
             B == OwnMake(v)
             D == OwnMake(v)'
  <2>4. /\ IsFiniteSet(A) /\ 2 * Cardinality(A) <= Cardinality(B) /\ C \in SUBSET A
        /\ IsFiniteSet(D) /\ B \subseteq D
    BY <2>1, <2>2, <2>3, CountedFinite DEF SplitsCounted
  <2> HIDE DEF A, B, C, D
  <2>5. 2 * Cardinality(C) <= Cardinality(D)
    BY <2>4, HalfKept
  <2> QED
    BY <2>5 DEF C, D
<1>2. 2 * Cardinality(Marked(w)' \ SentBy(w)') <= Cardinality(OwnMake(w)')
  <2>1. Marked(w)' \subseteq Marked(w) \cup {p.id}
    BY DEF Marked, Spends
  <2>2. y # z /\ y \notin OwnMake(w) /\ z \notin OwnMake(w)
    BY DEF Opens, OwnMake, ParcelsInv
  <2>3. OwnMake(w)' = OwnMake(w) \cup {y, z}
    BY DEF OwnMake, Opens, Tip
  <2> DEFINE A == Marked(w) \ SentBy(w)
             C == Marked(w)' \ SentBy(w)'
             B == OwnMake(w)
             i == p.id
  <2>4. /\ IsFiniteSet(A) /\ IsFiniteSet(B) /\ 2 * Cardinality(A) <= Cardinality(B)
        /\ C \in SUBSET (A \cup {i}) /\ y # z /\ y \notin B /\ z \notin B
        /\ OwnMake(w)' = B \cup {y, z}
    BY <1>0, <2>1, <2>2, <2>3, CountedFinite DEF SplitsCounted
  <2> HIDE DEF A, B, C, i
  <2>5. 2 * Cardinality(C) <= Cardinality(B \cup {y, z})
    BY <2>4, HalfGrown
  <2> QED
    BY <2>4, <2>5 DEF C
<1> QED
  BY <1>1, <1>2 DEF SplitsCounted

-----------------------------------------------------------------------------
(* The books *)

\* The settlement a claim asks for.
EntryOf(c) == [by |-> c.by, depth |-> Len(c.parcel.chain)]

\* The books after a claim.
Settled(books, c, n) ==
  /\ n.minted = books.minted
  /\ \A t \in DOMAIN books.settled : t \in DOMAIN n.settled /\ n.settled[t] = books.settled[t]
  /\ \A t \in DOMAIN n.settled \ DOMAIN books.settled :
       t = c.parcel.id /\ t \in books.minted /\ n.settled[t] = EntryOf(c)
  /\ books.pending \subseteq n.pending
  /\ \A e \in n.pending \ books.pending :
       /\ e = Refusal(c) /\ e.id \in DOMAIN books.settled
       /\ e.by # books.settled[e.id].by

\* settle_token adds one entry, or one refusal, or nothing.
LEMMA SettleFacts ==
  ASSUME NEW books, BooksInv(books), NEW c, c.parcel.id \in Tokens, c.by \in Wallets,
         Len(c.parcel.chain) \in Nat
  PROVE  BooksInv(Settle(books, c)) /\ Settled(books, c, Settle(books, c))
<1> DEFINE t == c.parcel.id
           entry == [by |-> c.by, depth |-> Len(c.parcel.chain)]
<1>1. /\ books \in Books /\ entry \in Entry /\ t \in Tokens
      /\ DOMAIN books.settled \subseteq books.minted /\ books.minted \subseteq DOMAIN coins
      /\ books.blacklist = {e.by : e \in books.pending}
  BY DEF BooksInv, Entry
<1>2. CASE ~Admissible(books, c)
  <2>1. Settle(books, c) = books
    BY <1>2 DEF Settle
  <2> QED
    BY <2>1 DEF Settled
<1>3. CASE Admissible(books, c) /\ Conflicts(books, c)
  <2> DEFINE e == Refusal(c)
             n == [books EXCEPT !.blacklist = @ \cup {c.by}, !.pending = @ \cup {e}]
  <2>1. Settle(books, c) = n
    BY <1>3 DEF Settle
  <2>2. e = Refusal(c)
    OBVIOUS
  <2>3. Refusal(c) \in Conflict /\ Refusal(c).id = t /\ Refusal(c).by = c.by
    BY DEF Refusal, Conflict
  <2>4. t \in DOMAIN books.settled /\ books.settled[t].by # c.by
    BY <1>3 DEF Conflicts
  <2> HIDE DEF e, entry, t
  <2>5. /\ n.minted = books.minted /\ n.settled = books.settled
        /\ n.blacklist = books.blacklist \cup {c.by} /\ n.pending = books.pending \cup {e}
        /\ n \in Books
    BY Zenon, <1>1, <2>2, <2>3 DEF Books
  <2> HIDE DEF n
  <2>6. BooksInv(n)
    BY <1>1, <2>2, <2>3, <2>5 DEF BooksInv
  <2>7. Settled(books, c, n)
    BY <2>2, <2>3, <2>4, <2>5 DEF Settled
  <2> QED
    BY <2>1, <2>6, <2>7
<1>4. CASE Admissible(books, c) /\ ~Conflicts(books, c)
  <2> DEFINE g == IF t \in DOMAIN books.settled THEN books.settled
                  ELSE Enter(books.settled, c)
             n == [books EXCEPT !.settled = g]
  <2>1. Settle(books, c) = n
    BY <1>4 DEF Settle
  <2>2. t \in books.minted
    BY <1>4 DEF Admissible
  <2>3. PICK T \in SUBSET Tokens : books.settled \in [T -> Entry]
    BY <1>1 DEF Books
  <2>4. entry = EntryOf(c)
    BY DEF EntryOf
  <2> HIDE DEF t, entry
  <2>5. /\ g \in [T \cup {t} -> Entry]
        /\ \A i \in T : g[i] = books.settled[i]
        /\ t \notin T => g[t] = entry
    <3>1. CASE t \in T
      <4>1. g = books.settled /\ T \cup {t} = T
        BY <2>3, <3>1
      <4> QED
        BY <2>3, <3>1, <4>1
    <3>2. CASE t \notin T
      <4>1. g = [i \in T \cup {t} |-> IF i = t THEN entry ELSE books.settled[i]]
        BY <2>3, <3>2 DEF Enter, t, entry
      <4> QED
        BY <1>1, <2>3, <3>2, <4>1
    <3> QED
      BY <3>1, <3>2
  <2> HIDE DEF g
  <2>6. /\ n.minted = books.minted /\ n.settled = g
        /\ n.blacklist = books.blacklist /\ n.pending = books.pending /\ n \in Books
    <3>1. T \cup {t} \in SUBSET Tokens
      BY <1>1
    <3> DEFINE U == T \cup {t}
    <3> HIDE DEF U
    <3>2. g \in UNION {[S -> Entry] : S \in SUBSET Tokens}
      BY <2>5, <3>1 DEF U
    <3> QED
      BY <1>1, <3>2 DEF Books
  <2>7. DOMAIN books.settled = T /\ DOMAIN g = T \cup {t}
    BY <2>3, <2>5
  <2> HIDE DEF n
  <2>8. BooksInv(n)
    BY <1>1, <2>2, <2>6, <2>7 DEF BooksInv
  <2>9. Settled(books, c, n)
    BY <2>2, <2>4, <2>5, <2>6, <2>7 DEF Settled, t
  <2> QED
    BY <2>1, <2>8, <2>9
<1> QED
  BY <1>2, <1>3, <1>4

\* A claim is of a parcel that the claimer has, or that is on its way to it.
LEMMA ClaimIs ==
  ASSUME ParcelsInv, RegistersInv, NEW c \in Claims
  PROVE  /\ c.by \in Wallets /\ c.parcel \in parcels /\ c.parcel.id \in Tokens
         /\ Len(c.parcel.chain) \in Nat /\ Tip(c.parcel).to = c.by
         /\ c.parcel \in wallet[c.by].entries \/ c.parcel \notin wallet[c.by].seen
<1>1. PICK w \in Wallets : c \in ClaimsOf(w)
  BY DEF Claims
<1>2. PICK p \in wallet[w].entries \cup {q \in parcels : Tip(q).to = w /\ q \notin wallet[w].seen} :
        c = [by |-> w, parcel |-> p]
  BY <1>1 DEF ClaimsOf
<1>3. p \in parcels /\ Tip(p).to = w
  BY <1>2 DEF RegistersInv, Registers, RegisterInv
<1>4. Len(p.chain) \in Nat /\ p.id \in Tokens
  BY <1>3, NoncesAre DEF ParcelsInv, WellMade
<1> QED
  BY <1>2, <1>3, <1>4

\* Without restarts, a claim is settled or refused as FairTo has it: nobody
\* has a longer chain of the token than its claimer.
LEMMA SettleFair ==
  ASSUME ParcelsInv, RegistersInv, GivenAway, OneLine, restarted = {},
         NEW books, FairTo(books), NEW c \in Claims, NEW n, Settled(books, c, n)
  PROVE  FairTo(n)
<1> DEFINE p == c.parcel
<1>1. /\ c.by \in Wallets /\ p \in parcels /\ Len(p.chain) \in Nat /\ Tip(p).to = c.by
      /\ p \in wallet[c.by].entries \/ p \notin wallet[c.by].seen
  BY ClaimIs
<1>2. ASSUME NEW t \in DOMAIN n.settled
      PROVE  \E x \in parcels : /\ x.id = t /\ Len(x.chain) = n.settled[t].depth
                                /\ Tip(x).to = n.settled[t].by
  <2>1. CASE t \in DOMAIN books.settled
    <3>1. n.settled[t] = books.settled[t]
      BY <2>1 DEF Settled
    <3> QED
      BY <2>1, <3>1 DEF FairTo
  <2>2. CASE t \notin DOMAIN books.settled
    <3>1. t = p.id /\ n.settled[t] = EntryOf(c)
      BY <1>2, <2>2 DEF Settled
    <3>2. n.settled[t].by = c.by /\ n.settled[t].depth = Len(p.chain)
      BY <3>1 DEF EntryOf
    <3> QED
      BY <1>1, <3>1, <3>2
  <2> QED
    BY <2>1, <2>2
<1>3. ASSUME NEW e \in n.pending
      PROVE  /\ e.id \in DOMAIN n.settled
             /\ e.by # n.settled[e.id].by /\ e.depth > n.settled[e.id].depth
  <2>1. \A t \in DOMAIN books.settled : t \in DOMAIN n.settled /\ n.settled[t] = books.settled[t]
    BY DEF Settled
  <2>2. CASE e \in books.pending
    <3>1. /\ e.id \in DOMAIN books.settled
          /\ e.by # books.settled[e.id].by /\ e.depth > books.settled[e.id].depth
      BY <2>2 DEF FairTo
    <3> QED
      BY <2>1, <3>1
  <2>3. CASE e \notin books.pending
    <3>1. e = Refusal(c) /\ e.id \in DOMAIN books.settled /\ e.by # books.settled[e.id].by
      BY <1>3, <2>3 DEF Settled
    <3>2. e.id = p.id /\ e.by = c.by /\ e.depth = Len(p.chain)
      BY <3>1 DEF Refusal
    <3>3. PICK x \in parcels : /\ x.id = p.id /\ Len(x.chain) = books.settled[e.id].depth
                               /\ Tip(x).to = books.settled[e.id].by
      BY <3>1, <3>2 DEF FairTo
    <3>4. Len(x.chain) <= Len(p.chain)
      <4> HIDE DEF p
      <4> QED
        BY <1>1, <3>3, HeldIsLongest
    <3>5. Len(x.chain) # Len(p.chain)
      <4>1. x # p
        BY <1>1, <3>1, <3>2, <3>3
      <4> HIDE DEF p
      <4> QED
        BY <1>1, <3>3, <4>1 DEF OneLine
    <3>6. Len(x.chain) \in Nat
      BY NoncesAre DEF ParcelsInv, WellMade
    <3>7. e.depth > books.settled[e.id].depth
      BY <1>1, <3>2, <3>3, <3>4, <3>5, <3>6
    <3> QED
      BY <2>1, <3>1, <3>7
  <2> QED
    BY <2>2, <2>3
<1> QED
  BY <1>2, <1>3 DEF FairTo

\* What claims do to the books: they stay in order and fair, and whatever is
\* settled stays settled.
KeptInOrder(books, n) ==
  /\ BooksInv(n)
  /\ restarted = {} => FairTo(n)
  /\ n.minted = books.minted /\ Awards(books) \subseteq Awards(n)

\* So does a single claim.
LEMMA ClaimKeeps ==
  ASSUME ParcelsInv, RegistersInv, GivenAway, OneLine, NEW c \in Claims,
         NEW books, BooksInv(books), restarted = {} => FairTo(books)
  PROVE  KeptInOrder(books, Settle(books, c))
<1>1. c.parcel.id \in Tokens /\ c.by \in Wallets /\ Len(c.parcel.chain) \in Nat
  BY ClaimIs
<1> DEFINE n == Settle(books, c)
<1>2. BooksInv(n) /\ Settled(books, c, n)
  BY <1>1, SettleFacts
<1> HIDE DEF n
<1>3. restarted = {} => FairTo(n)
  BY <1>2, SettleFair
<1>4. n.minted = books.minted /\ Awards(books) \subseteq Awards(n)
  <2>1. \A t \in DOMAIN books.settled : t \in DOMAIN n.settled /\ n.settled[t] = books.settled[t]
    BY <1>2 DEF Settled
  <2>2. n.minted = books.minted
    BY <1>2 DEF Settled
  <2> QED
    BY <2>1, <2>2 DEF Awards
<1> QED
  BY <1>2, <1>3, <1>4 DEF KeptInOrder, n

\* A batch of two is the first claim and, unless that is refused, the second.
LEMMA UploadIs ==
  ASSUME NEW a, NEW b, ProxySync(<<a, b>>)
  PROVE  ledger' = Settle(ledger, a) \/ ledger' = Settle(Settle(ledger, a), b)
<1> DEFINE s == <<a, b>>
           Step(run, c) == IF run.raised THEN run
                           ELSE [books |-> Settle(run.books, c), raised |-> Refused(run.books, c)]
           base == [books |-> ledger, raised |-> FALSE]
           Runs(f) == f = [S \in SUBSET DOMAIN s |->
                             IF S = {} THEN base ELSE Step(f[S \ {Max(S)}], s[Max(S)])]
           h == [S \in SUBSET {1, 2} |->
                   IF S = {} THEN base
                   ELSE IF S = {1} THEN Step(base, a)
                   ELSE IF S = {2} THEN Step(base, b)
                   ELSE Step(Step(base, a), b)]
           run == CHOOSE f : Runs(f)
<1>1. DOMAIN s = {1, 2} /\ s[1] = a /\ s[2] = b
  OBVIOUS
<1>2. \A S \in SUBSET {1, 2} : S = {} \/ S = {1} \/ S = {2} \/ S = {1, 2}
  OBVIOUS
<1>3. /\ Max({1}) = 1 /\ Max({2}) = 2 /\ Max({1, 2}) = 2
      /\ {1} \ {1} = {} /\ {2} \ {2} = {} /\ {1, 2} \ {2} = {1}
  BY DEF Max
<1>4. Runs(h)
  <2> HIDE DEF s, base, Step
  <2>1. h[{}] = base /\ h[{1}] = Step(base, a)
    OBVIOUS
  <2>2. ASSUME NEW S \in SUBSET {1, 2}
        PROVE  h[S] = IF S = {} THEN base ELSE Step(h[S \ {Max(S)}], s[Max(S)])
    <3>1. CASE S = {}
      BY <3>1
    <3>2. CASE S = {1}
      BY <1>1, <1>3, <2>1, <3>2
    <3>3. CASE S = {2}
      <4>1. h[S] = Step(base, b)
        BY <3>3
      <4> HIDE DEF h
      <4> QED
        BY <1>1, <1>3, <2>1, <3>3, <4>1
    <3>4. CASE S = {1, 2}
      <4>1. h[S] = Step(Step(base, a), b)
        BY <3>4
      <4> HIDE DEF h
      <4> QED
        BY <1>1, <1>3, <2>1, <3>4, <4>1
    <3> QED
      BY <1>2, <3>1, <3>2, <3>3, <3>4
  <2>3. h = [S \in SUBSET {1, 2} |-> h[S]]
    OBVIOUS
  <2> HIDE DEF h
  <2>4. h = [S \in SUBSET {1, 2} |-> IF S = {} THEN base ELSE Step(h[S \ {Max(S)}], s[Max(S)])]
    BY <2>2, <2>3
  <2> QED
    BY <1>1, <2>4
<1>5. Runs(run)
  <2> HIDE DEF Runs, h
  <2> QED
    BY <1>4
<1>6. run[{1, 2}] = Step(Step(base, a), b)
  <2> HIDE DEF s, base, Step, run
  <2>1. run = [S \in SUBSET {1, 2} |-> IF S = {} THEN base ELSE Step(run[S \ {Max(S)}], s[Max(S)])]
    BY <1>1, <1>5
  <2>2. run[{}] = base
    BY <2>1
  <2>3. run[{1}] = Step(run[{1} \ {Max({1})}], s[Max({1})])
    BY <2>1
  <2>4. run[{1, 2}] = Step(run[{1, 2} \ {Max({1, 2})}], s[Max({1, 2})])
    BY <2>1
  <2> HIDE DEF Runs
  <2> QED
    BY <1>1, <1>3, <2>2, <2>3, <2>4
<1>7. ledger' = run[DOMAIN s].books
  BY DEF ProxySync, FoldLeft, MapThenFoldSet
<1> HIDE DEF run, Runs, h
<1>8. ledger' = Step(Step(base, a), b).books
  <2> HIDE DEF Step, base
  <2> QED
    BY <1>1, <1>6, <1>7
<1> QED
  BY <1>8

\* A step of the ledger and the history of its awards, with the rest unchanged.
LEMMA LedgerStep ==
  ASSUME DpcInv, KeptInOrder(ledger, ledger'), awarded' = awarded \cup Awards(ledger)',
         UNCHANGED <<now, coins, wallet, files, parcels, ledgerFile, restarted>>
  PROVE  DpcInv'
<1>1. /\ (now \in 0..MaxTime)' /\ ParcelsInv' /\ RegistersInv' /\ GivenAway' /\ SplitsCounted' /\ OneLine'
  <2>1. ParcelsInv'
    BY DEF DpcInv, ParcelsInv, WellMade, Nonces, ValidHops, Tip, NewTo
  <2>2. RegistersInv'
    BY DEF DpcInv, RegistersInv, Registers, RegisterInv, Tip
  <2>3. GivenAway'
    BY RestGiven DEF DpcInv
  <2>4. SplitsCounted'
    BY DEF DpcInv, SplitsCounted, Marked, SentBy, OwnMake, Tip
  <2>5. OneLine'
    BY DEF DpcInv, OneLine
  <2> QED
    BY <2>1, <2>2, <2>3, <2>4, <2>5 DEF DpcInv
<1>2. LedgerInv'
  <2>1. BooksInv(ledger') /\ \A books \in ledgerFile : BooksInv(books)
    BY DEF DpcInv, LedgerInv, KeptInOrder
  <2> QED
    BY <2>1 DEF LedgerInv, BooksInv
<1>3. ClaimsInv'
  BY DEF KeptInOrder, ClaimsInv, FairTo, Tip
<1>4. BooksKeptUntilRestart'
  <2>1. Issuer \notin restarted => awarded = Awards(ledger) /\ Awards(ledger)' = awarded'
    BY DEF DpcInv, BooksKeptUntilRestart, KeptInOrder, Awards
  <2>2. ledger'.minted = ledger.minted
    BY DEF KeptInOrder
  <2> QED
    BY <2>1, <2>2 DEF DpcInv, BooksKeptUntilRestart, Awards
<1> QED
  BY <1>1, <1>2, <1>3, <1>4 DEF DpcInv

\* settle_token.
LEMMA ClaimStep ==
  ASSUME DpcInv, Claim
  PROVE  DpcInv'
<1>1. PICK c \in Claims : SettleToken(c)
  BY DEF Claim
<1>2. KeptInOrder(ledger, Settle(ledger, c))
  BY ClaimKeeps DEF DpcInv, LedgerInv, ClaimsInv
<1> QED
  BY <1>1, <1>2, LedgerStep DEF Claim, SettleToken, walletVars, Awards

\* proxy_sync.
LEMMA UploadStep ==
  ASSUME DpcInv, Upload
  PROVE  DpcInv'
<1>1. PICK a, b \in Claims : ProxySync(<<a, b>>)
  BY DEF Upload
<1>2. KeptInOrder(ledger, Settle(ledger, a))
  BY ClaimKeeps DEF DpcInv, LedgerInv, ClaimsInv
<1>3. KeptInOrder(ledger, Settle(Settle(ledger, a), b))
  <2> DEFINE m == Settle(ledger, a)
  <2>1. KeptInOrder(ledger, m)
    BY <1>2
  <2> HIDE DEF m
  <2>2. KeptInOrder(m, Settle(m, b))
    BY <2>1, ClaimKeeps DEF DpcInv, KeptInOrder
  <2>3. KeptInOrder(ledger, Settle(m, b))
    BY <2>1, <2>2 DEF KeptInOrder
  <2> QED
    BY <2>3 DEF m
<1>4. KeptInOrder(ledger, ledger')
  BY <1>1, <1>2, <1>3, UploadIs
<1>5. UNCHANGED <<now, coins, wallet, files, parcels, ledgerFile, restarted>>
  BY Zenon, <1>1 DEF Upload, ProxySync, walletVars
<1> QED
  BY <1>4, <1>5, LedgerStep DEF Upload, Awards

\* A step that makes no parcel and no token and leaves the books alone.
LEMMA RegisterStep ==
  ASSUME DpcInv, UNCHANGED <<now, coins, parcels, ledger, ledgerFile, awarded>>,
         RegistersInv', GivenAway', restarted \subseteq restarted',
         \A w \in Wallets : /\ wallet'[w].spent \subseteq Marked(w)
                            /\ \A reg \in files'[w] : reg \in {wallet[w]} \cup files[w]
  PROVE  DpcInv'
<1>1. ParcelsInv'
  BY DEF DpcInv, ParcelsInv, WellMade, Nonces, ValidHops, Tip, NewTo
<1>2. SplitsCounted'
  BY <1>1, RestSplits DEF DpcInv
<1>3. restarted' = {} => restarted = {}
  OBVIOUS
<1>4. OneLine'
  BY <1>3 DEF DpcInv, OneLine
<1>5. LedgerInv'
  BY DEF DpcInv, LedgerInv, BooksInv
<1>6. ClaimsInv'
  BY <1>3 DEF DpcInv, ClaimsInv, FairTo, Tip
<1>7. BooksKeptUntilRestart'
  BY DEF DpcInv, BooksKeptUntilRestart, Awards
<1> QED
  BY <1>1, <1>2, <1>4, <1>5, <1>6, <1>7 DEF DpcInv

\* receive_token.
LEMMA ReceiveInvStep ==
  ASSUME DpcInv, Receive
  PROVE  DpcInv'
<1>1. PICK w \in Wallets, p \in parcels : ReceiveToken(w, p)
  BY DEF Receive
<1>2. RegistersInv' /\ Receives(w, p)
  BY <1>1, ReceiveStep DEF DpcInv
<1>3. UNCHANGED <<now, coins, files, parcels, ledger, ledgerFile, restarted, awarded>>
  BY <1>1 DEF Receive, ReceiveToken, ledgerVars, historyVars
<1>4. GivenAway'
  BY <1>1, <1>2, <1>3, ReceiveGiven DEF DpcInv
<1>5. \A v \in Wallets : wallet'[v].spent \subseteq wallet[v].spent
  BY <1>2 DEF Receives
<1> QED
  BY <1>2, <1>3, <1>4, <1>5, RegisterStep DEF Marked

\* UnspentTokenRegister.save.
LEMMA SaveStep ==
  ASSUME DpcInv, SaveWallet
  PROVE  DpcInv'
<1>1. PICK w \in Wallets : Save(w)
  BY DpcCashAssumption DEF SaveWallet
<1>2. UNCHANGED <<now, coins, wallet, parcels, ledger, ledgerFile, restarted, awarded>>
  BY <1>1 DEF SaveWallet, Save, ledgerVars, historyVars
<1> DEFINE b == [files EXCEPT ![w] = {wallet[w]}]
<1>3. wallet \in [Wallets -> Registers] /\ files \in [Wallets -> SUBSET Registers]
  BY DEF DpcInv, RegistersInv
<1>4. /\ files' = b /\ b \in [Wallets -> SUBSET Registers]
      /\ \A v \in Wallets : \A reg \in b[v] : reg \in {wallet[v]} \cup files[v]
  BY <1>1, <1>3 DEF Save
<1> HIDE DEF b
<1>5. RegistersInv'
  <2>1. \A v \in Wallets : \A reg \in {wallet[v]} \cup b[v] : RegisterInv(v, reg)
    BY <1>4 DEF DpcInv, RegistersInv
  <2> QED
    BY <1>2, <1>3, <1>4, <2>1, RegistersMoved DEF DpcInv
<1>6. GivenAway'
  BY <1>2, RestGiven DEF DpcInv
<1> QED
  BY <1>2, <1>4, <1>5, <1>6, RegisterStep DEF Marked

\* UnspentTokenRegister.load, in a process started anew.
LEMMA RestartStep ==
  ASSUME DpcInv, RestartWallet
  PROVE  DpcInv'
<1>1. PICK w \in Wallets : Restart(w) /\ restarted' = restarted \cup {w}
  BY DpcCashAssumption DEF RestartWallet
<1>2. UNCHANGED <<now, coins, files, parcels, ledger, ledgerFile, awarded>>
  BY <1>1 DEF RestartWallet, Restart, ledgerVars
<1>3. PICK saved \in files[w] : wallet' = [wallet EXCEPT ![w] = saved]
  BY <1>1 DEF Restart
<1> DEFINE a == [wallet EXCEPT ![w] = saved]
<1>4. wallet \in [Wallets -> Registers] /\ files \in [Wallets -> SUBSET Registers]
  BY DEF DpcInv, RegistersInv
<1>5. /\ wallet' = a /\ a \in [Wallets -> Registers] /\ a[w] = saved
      /\ \A v \in Wallets \ {w} : a[v] = wallet[v]
  BY <1>3, <1>4
<1> HIDE DEF a
<1>6. RegistersInv'
  <2>1. \A v \in Wallets : \A reg \in {a[v]} \cup files[v] : RegisterInv(v, reg)
    BY <1>3, <1>5 DEF DpcInv, RegistersInv
  <2> QED
    BY <1>2, <1>4, <1>5, <2>1, RegistersMoved DEF DpcInv
<1>7. GivenAway'
  BY <1>1, <1>2, <1>5, RestGiven DEF DpcInv
<1>8. \A v \in Wallets : wallet'[v].spent \subseteq Marked(v)
  BY <1>3, <1>5 DEF Marked
<1> QED
  BY <1>1, <1>2, <1>6, <1>7, <1>8, RegisterStep

\* Parcels and tokens are added, and the books are as before but for what has
\* been minted.
LEMMA BooksWhenMade ==
  ASSUME DpcInv, parcels \subseteq parcels', DOMAIN coins \subseteq DOMAIN coins',
         NEW m, m \subseteq Tokens, ledger.minted \subseteq m, m \subseteq DOMAIN coins',
         ledger' = [ledger EXCEPT !.minted = m], UNCHANGED <<ledgerFile, restarted, awarded>>
  PROVE  /\ LedgerInv' /\ ClaimsInv'
         /\ ledger'.minted = m
         /\ Issuer \notin restarted => awarded' = Awards(ledger)'
<1>1. \A books \in {ledger} \cup ledgerFile : BooksInv(books)
  BY DEF DpcInv, LedgerInv
<1>2. /\ ledger'.minted = m /\ ledger'.settled = ledger.settled
      /\ ledger'.blacklist = ledger.blacklist /\ ledger'.pending = ledger.pending
      /\ ledger' \in Books
  BY <1>1 DEF BooksInv, Books
<1>3. LedgerInv'
  BY ZenonT(60), <1>1, <1>2 DEF LedgerInv, BooksInv
<1>4. ClaimsInv'
  <2>1. ASSUME restarted = {} PROVE FairTo(ledger)'
    <3>1. FairTo(ledger)
      BY <2>1 DEF DpcInv, ClaimsInv
    <3> QED
      BY <1>2, <3>1 DEF FairTo, Tip
  <2> QED
    BY <2>1 DEF ClaimsInv
<1>5. Issuer \notin restarted => awarded' = Awards(ledger)'
  BY <1>2 DEF DpcInv, BooksKeptUntilRestart, Awards
<1> QED
  BY <1>2, <1>3, <1>4, <1>5

\* A send or split that is refused.
LEMMA RefusedStep ==
  ASSUME DpcInv, NEW w \in Wallets, NEW p \in wallet[w].entries,
         wallet' = [wallet EXCEPT ![w] = Restore(Spend(@, p), p)],
         UNCHANGED <<now, coins, files, parcels, ledger, ledgerFile, restarted, awarded>>
  PROVE  DpcInv'
<1>1. wallet' = wallet
  BY RefusedIsNothing DEF DpcInv
<1>2. RegistersInv'
  BY <1>1 DEF DpcInv, RegistersInv, Registers, RegisterInv, Tip
<1>3. GivenAway'
  BY <1>1, RestGiven DEF DpcInv
<1> QED
  BY <1>1, <1>2, <1>3, RegisterStep DEF Marked

\* send_token.
LEMMA PayStep ==
  ASSUME DpcInv, Pay
  PROVE  DpcInv'
<1>1. PICK w, receiver \in Wallets : \E p \in wallet[w].entries : SendToken(w, p, receiver)
  BY DEF Pay
<1>2. PICK p \in wallet[w].entries : SendToken(w, p, receiver)
  BY <1>1
<1>3. UNCHANGED <<now, coins, files, ledger, ledgerFile, restarted, awarded>>
  BY <1>2 DEF Pay, SendToken, ledgerVars, historyVars
<1>4. CASE ~CanSend(p, receiver)
  <2>1. wallet' = [wallet EXCEPT ![w] = Restore(Spend(@, p), p)] /\ parcels' = parcels
    BY <1>2, <1>4 DEF SendToken
  <2> QED
    BY <1>3, <2>1, RefusedStep
<1>5. CASE CanSend(p, receiver)
  <2> DEFINE q == Signed(p.id, p.chain, w, receiver, NextHop(p.chain, receiver))
  <2>1. parcels' = parcels \cup {q} /\ wallet' = [wallet EXCEPT ![w] = Spend(@, p)]
    BY <1>2, <1>5 DEF SendToken, Made
  <2>2. p \in parcels /\ Tip(p).to = w
    BY DEF DpcInv, RegistersInv, Registers, RegisterInv
  <2>3. Continues(q, p, w, receiver)
    BY <1>5, <2>2, ContinuesOne DEF DpcInv
  <2> HIDE DEF q
  <2>4. ParcelsInv'
    <3>1. IsFiniteSet({q})
      BY FS_Singleton
    <3>2. WellMade(q) /\ q.id \in DOMAIN coins' /\ Nonces(q) \subseteq parcels \cup {q}
      BY <1>3, <2>2, <2>3 DEF Continues, DpcInv, ParcelsInv
    <3>3. DOMAIN coins' = DOMAIN coins /\ DOMAIN coins \subseteq Tokens /\ IsFiniteSet(DOMAIN coins)
      BY <1>3 DEF DpcInv, ParcelsInv
    <3> QED
      BY <2>1, <3>1, <3>2, <3>3, ParcelsGrow DEF DpcInv
  <2>5. RegistersInv' /\ Spends(w, p)
    BY <1>3, <2>1, SpendStep DEF DpcInv
  <2>6. GivenAway'
    BY <1>3, <2>1, <2>3, <2>5, SendGiven DEF DpcInv
  <2>7. SplitsCounted'
    BY <2>1, <2>3, <2>4, <2>5, SendSplits DEF DpcInv
  <2>8. OneLine'
    BY <1>3, <2>1, <2>3, SendLine DEF DpcInv
  <2>9. /\ LedgerInv' /\ ClaimsInv' /\ ledger'.minted = ledger.minted
        /\ Issuer \notin restarted => awarded' = Awards(ledger)'
    <3>1. ledger' = [ledger EXCEPT !.minted = ledger.minted]
      BY <1>3 DEF DpcInv, LedgerInv, BooksInv, Books
    <3>2. ledger.minted \subseteq Tokens /\ ledger.minted \subseteq DOMAIN coins'
      BY <1>3 DEF DpcInv, LedgerInv, BooksInv, Books
    <3> QED
      BY Zenon, <1>3, <2>1, <3>1, <3>2, BooksWhenMade
  <2>10. BooksKeptUntilRestart'
    <3>1. ASSUME Issuer \notin restarted, NEW x \in parcels'
          PROVE  x.id \in ledger'.minted <=> x.chain[1].from = Issuer
      <4>1. \A y \in parcels : y.id \in ledger.minted <=> y.chain[1].from = Issuer
        BY <3>1 DEF DpcInv, BooksKeptUntilRestart
      <4>2. q.id = p.id /\ q.chain[1] = p.chain[1]
        BY <2>3 DEF Continues
      <4> QED
        BY <2>1, <2>2, <2>9, <4>1, <4>2
    <3> QED
      BY <1>3, <2>9, <3>1 DEF BooksKeptUntilRestart
  <2> QED
    BY <1>3, <2>4, <2>5, <2>6, <2>7, <2>8, <2>9, <2>10 DEF DpcInv
<1> QED
  BY <1>4, <1>5

\* Parcels of new tokens, each opened by one record.
LEMMA OpensParcels ==
  ASSUME ParcelsInv, NEW S, IsFiniteSet(S), parcels' = parcels \cup S,
         \A q \in S : \E t \in DOMAIN coins' : \E from, to : Opens(q, t, from, to),
         DOMAIN coins \subseteq DOMAIN coins', DOMAIN coins' \subseteq Tokens,
         IsFiniteSet(DOMAIN coins')
  PROVE  ParcelsInv'
<1>1. \A q \in S : WellMade(q) /\ q.id \in DOMAIN coins' /\ Nonces(q) \subseteq parcels \cup S
  BY DEF Opens
<1> QED
  BY <1>1, ParcelsGrow

\* swap_change.
LEMMA SplitStep ==
  ASSUME DpcInv, Split
  PROVE  DpcInv'
<1>1. PICK w, receiver \in Wallets, amount \in Splits :
        \E p \in wallet[w].entries : SwapChange(w, p, amount, receiver)
  BY DEF Split
<1>2. PICK p \in wallet[w].entries : SwapChange(w, p, amount, receiver)
  BY <1>1
<1>3. UNCHANGED <<now, files, ledger, ledgerFile, restarted, awarded>>
  BY <1>2 DEF Split, SwapChange, ledgerVars, historyVars
<1>4. CASE ~CanSplit(p, amount)
  <2>1. /\ wallet' = [wallet EXCEPT ![w] = Restore(Spend(@, p), p)]
        /\ parcels' = parcels /\ coins' = coins
    BY <1>2, <1>4 DEF SwapChange
  <2> QED
    BY <1>3, <2>1, RefusedStep
<1>5. CASE CanSplit(p, amount)
  <2> DEFINE Val(t, u) == [i \in {t, u} |-> [coins[p.id] EXCEPT
                                               !.value = IF i = t THEN amount ELSE @ - amount]]
             Y(t) == Signed(t, <<>>, w, receiver, 0)
             Z(u) == Signed(u, <<>>, w, w, 0)
  <2>1. /\ wallet' = [wallet EXCEPT ![w] = Spend(@, p)]
        /\ \E t, u \in Tokens : t # u /\ NewCoins(Val(t, u)) /\ Made({Y(t), Z(u)})
    BY <1>2, <1>5 DEF SwapChange
  <2>2. PICK t, u \in Tokens : t # u /\ NewCoins(Val(t, u)) /\ Made({Y(t), Z(u)})
    BY <2>1
  <2> DEFINE y == Y(t)
             z == Z(u)
             value == Val(t, u)
  <2>3. Opens(y, t, w, receiver) /\ Opens(z, u, w, w)
    BY OpensNew DEF DpcInv
  <2>4. DOMAIN value = {t, u} /\ NewCoins(value)
    BY <2>2
  <2>5. parcels' = parcels \cup {y, z}
    BY <2>2 DEF Made
  <2> HIDE DEF y, z, value, Y, Z, Val
  <2>6. /\ t \notin DOMAIN coins /\ u \notin DOMAIN coins
        /\ DOMAIN coins' = DOMAIN coins \cup {t, u}
        /\ DOMAIN coins' \subseteq Tokens /\ IsFiniteSet(DOMAIN coins')
    <3>1. IsFiniteSet({t, u}) /\ {t, u} \in SUBSET Tokens
      <4>1. IsFiniteSet({t} \cup {u})
        BY FS_Singleton, FS_AddElement
      <4>2. {t} \cup {u} = {t, u}
        OBVIOUS
      <4> QED
        BY <4>1, <4>2
    <3> DEFINE S == {t, u}
    <3>2. S \in SUBSET Tokens /\ IsFiniteSet(S) /\ DOMAIN value = S
      BY <2>4, <3>1
    <3> HIDE DEF S
    <3>3. S \cap DOMAIN coins = {} /\ DOMAIN coins' = DOMAIN coins \cup S
          /\ DOMAIN coins' \subseteq Tokens /\ IsFiniteSet(DOMAIN coins')
      BY <2>4, <3>2, NewCoinsFacts DEF DpcInv
    <3> QED
      BY <3>3 DEF S
  <2>7. ParcelsInv'
    <3>1. IsFiniteSet({y, z})
      <4>1. IsFiniteSet({y} \cup {z})
        BY FS_Singleton, FS_AddElement
      <4>2. {y} \cup {z} = {y, z}
        OBVIOUS
      <4> QED
        BY <4>1, <4>2
    <3>2. \A q \in {y, z} : \E i \in DOMAIN coins' : \E from, to : Opens(q, i, from, to)
      BY <2>3, <2>6
    <3> DEFINE S == {y, z}
    <3>3. IsFiniteSet(S) /\ parcels' = parcels \cup S
      BY <2>5, <3>1
    <3>4. \A q \in S : \E i \in DOMAIN coins' : \E from, to : Opens(q, i, from, to)
      BY <3>2
    <3> HIDE DEF S
    <3> QED
      BY <2>6, <3>3, <3>4, OpensParcels DEF DpcInv
  <2>8. RegistersInv' /\ Spends(w, p)
    BY <1>3, <2>1, <2>5, <2>6, SpendStep DEF DpcInv
  <2>9. GivenAway'
    <3>1. \A v \in Wallets : wallet'[v].seen = wallet[v].seen /\ wallet'[v].entries \subseteq wallet[v].entries
      BY <2>8 DEF Spends
    <3> DEFINE S == {y, z}
    <3>2. parcels' = parcels \cup S /\ \A q \in S : Len(q.chain) = 1
      BY <2>3, <2>5 DEF Opens
    <3> HIDE DEF S
    <3> QED
      BY <1>3, <3>1, <3>2, OpensGiven DEF DpcInv
  <2>10. SplitsCounted'
    BY <2>2, <2>3, <2>5, <2>6, <2>7, <2>8, SplitSplits DEF DpcInv
  <2>11. y.id = t /\ z.id = u /\ y.chain[1].from = w /\ z.chain[1].from = w
    BY <2>3 DEF Opens
  <2>12. OneLine'
    <3> DEFINE S == {y, z}
    <3>1. parcels' = parcels \cup S /\ \A q \in S : q.id \notin DOMAIN coins
      BY <2>5, <2>6, <2>11
    <3>2. \A q, x \in S : q.id = x.id => q = x
      BY <2>2, <2>11
    <3> HIDE DEF S
    <3> QED
      BY <1>3, <3>1, <3>2, OpensLine DEF DpcInv
  <2>13. ledger.minted \subseteq Tokens /\ ledger.minted \subseteq DOMAIN coins /\ ledger \in Books
    BY DEF DpcInv, LedgerInv, BooksInv, Books
  <2>14. /\ LedgerInv' /\ ClaimsInv' /\ ledger'.minted = ledger.minted
         /\ Issuer \notin restarted => awarded' = Awards(ledger)'
    <3>1. ledger' = [ledger EXCEPT !.minted = ledger.minted]
      BY <1>3, <2>13 DEF Books
    <3>2. parcels \subseteq parcels' /\ DOMAIN coins \subseteq DOMAIN coins'
      BY <2>5, <2>6
    <3>3. ledger.minted \subseteq DOMAIN coins'
      BY <2>13, <3>2
    <3> QED
      BY Zenon, <1>3, <2>13, <3>1, <3>2, <3>3, BooksWhenMade
  <2>15. BooksKeptUntilRestart'
    <3>1. ASSUME Issuer \notin restarted, NEW x \in parcels'
          PROVE  x.id \in ledger'.minted <=> x.chain[1].from = Issuer
      <4>1. \A q \in parcels : q.id \in ledger.minted <=> q.chain[1].from = Issuer
        BY <3>1 DEF DpcInv, BooksKeptUntilRestart
      <4>2. w # Issuer /\ t \notin ledger.minted /\ u \notin ledger.minted
        BY <2>6, <2>13, DpcWalletAssumption
      <4> QED
        BY <2>5, <2>11, <2>14, <4>1, <4>2
    <3> QED
      BY <1>3, <2>14, <3>1 DEF BooksKeptUntilRestart
  <2> QED
    BY <1>3, <2>7, <2>8, <2>9, <2>10, <2>12, <2>14, <2>15 DEF DpcInv
<1> QED
  BY <1>4, <1>5

\* mint_token.
LEMMA IssueStep ==
  ASSUME DpcInv, Issue
  PROVE  DpcInv'
<1>1. PICK w \in Wallets, amount \in Amounts : MintToken(w, amount)
  BY DEF Issue
<1>2. UNCHANGED <<now, wallet, files, ledgerFile, restarted, awarded>>
  BY <1>1 DEF Issue, MintToken, walletVars, historyVars
<1> DEFINE Val(t) == [i \in {t} |-> [value |-> amount, at |-> now]]
           Y(t) == Signed(t, <<>>, Issuer, w, 0)
<1>3. PICK t \in Tokens : /\ NewCoins(Val(t)) /\ Made({Y(t)})
                          /\ ledger' = [ledger EXCEPT !.minted = @ \cup {t}]
  BY <1>1 DEF MintToken
<1> DEFINE y == Y(t)
           value == Val(t)
<1>4. Opens(y, t, Issuer, w)
  BY OpensNew DEF DpcInv
<1>5. DOMAIN value = {t} /\ NewCoins(value) /\ parcels' = parcels \cup {y}
  BY <1>3 DEF Made
<1> HIDE DEF y, value, Y, Val
<1> DEFINE S == {t}
<1>6. S \in SUBSET Tokens /\ IsFiniteSet(S) /\ DOMAIN value = S
  BY <1>5, FS_Singleton
<1> HIDE DEF S
<1>7. /\ S \cap DOMAIN coins = {} /\ DOMAIN coins' = DOMAIN coins \cup S
      /\ DOMAIN coins' \subseteq Tokens /\ IsFiniteSet(DOMAIN coins')
  BY <1>5, <1>6, NewCoinsFacts DEF DpcInv
<1>8. t \notin DOMAIN coins /\ t \in DOMAIN coins' /\ DOMAIN coins \subseteq DOMAIN coins'
  BY <1>7 DEF S
<1>9. ParcelsInv'
  <2>1. \A q \in {y} : \E i \in DOMAIN coins' : \E from, to : Opens(q, i, from, to)
    BY <1>4, <1>8
  <2>2. IsFiniteSet({y})
    BY FS_Singleton
  <2> QED
    BY <1>5, <1>7, <1>8, <2>1, <2>2, OpensParcels DEF DpcInv
<1>10. RegistersInv'
  <2>1. /\ wallet \in [Wallets -> Registers] /\ files \in [Wallets -> SUBSET Registers]
        /\ \A v \in Wallets : \A reg \in {wallet[v]} \cup files[v] : RegisterInv(v, reg)
    BY DEF DpcInv, RegistersInv
  <2> QED
    BY <1>2, <1>5, <1>8, <2>1, RegistersMoved DEF DpcInv
<1>11. GivenAway'
  <2> DEFINE R == {y}
  <2>1. parcels' = parcels \cup R /\ \A q \in R : Len(q.chain) = 1
    BY <1>4, <1>5 DEF Opens
  <2>2. \A v \in Wallets : wallet'[v].seen = wallet[v].seen /\ wallet'[v].entries \subseteq wallet[v].entries
    BY <1>2
  <2> HIDE DEF R
  <2> QED
    BY <1>2, <2>1, <2>2, OpensGiven DEF DpcInv
<1>12. SplitsCounted'
  BY <1>2, <1>5, <1>9, RestSplits DEF DpcInv, Marked
<1>13. y.id = t /\ y.chain[1].from = Issuer
  BY <1>4 DEF Opens
<1>14. OneLine'
  <2> DEFINE R == {y}
  <2>1. /\ \A q \in R : q.id \notin DOMAIN coins
        /\ \A q, x \in R : q.id = x.id => q = x
        /\ parcels' = parcels \cup R
    BY <1>5, <1>8, <1>13
  <2> HIDE DEF R
  <2> QED
    BY <1>2, <2>1, OpensLine DEF DpcInv
<1>15. ledger.minted \subseteq Tokens /\ ledger.minted \subseteq DOMAIN coins
  BY DEF DpcInv, LedgerInv, BooksInv, Books
<1>16. /\ LedgerInv' /\ ClaimsInv' /\ ledger'.minted = ledger.minted \cup {t}
       /\ Issuer \notin restarted => awarded' = Awards(ledger)'
  <2> DEFINE m == ledger.minted \cup {t}
  <2>1. m \subseteq Tokens /\ ledger.minted \subseteq m /\ m \subseteq DOMAIN coins'
    BY <1>8, <1>15
  <2>2. ledger' = [ledger EXCEPT !.minted = m]
    BY <1>3
  <2> HIDE DEF m
  <2>3. /\ LedgerInv' /\ ClaimsInv' /\ ledger'.minted = m
        /\ Issuer \notin restarted => awarded' = Awards(ledger)'
    BY <1>2, <1>5, <1>8, <2>1, <2>2, BooksWhenMade
  <2> QED
    BY <2>3 DEF m
<1>17. BooksKeptUntilRestart'
  <2>1. ASSUME Issuer \notin restarted, NEW x \in parcels'
        PROVE  x.id \in ledger'.minted <=> x.chain[1].from = Issuer
    <3>1. \A q \in parcels : q.id \in ledger.minted <=> q.chain[1].from = Issuer
      BY <2>1 DEF DpcInv, BooksKeptUntilRestart
    <3>2. \A q \in parcels : q.id # t
      BY <1>8 DEF DpcInv, ParcelsInv
    <3> QED
      BY <1>5, <1>13, <1>16, <3>1, <3>2
  <2> QED
    BY <1>2, <1>16, <2>1 DEF BooksKeptUntilRestart
<1> QED
  BY <1>2, <1>9, <1>10, <1>11, <1>12, <1>14, <1>16, <1>17 DEF DpcInv

\* IssuerLedger.save.
LEMMA SaveBooksStep ==
  ASSUME DpcInv, SaveBooks
  PROVE  DpcInv'
<1>1. /\ UNCHANGED <<now, coins, wallet, files, parcels, ledger, restarted, awarded>>
      /\ ledgerFile' = {ledger}
  BY DEF SaveBooks, SaveLedger, walletVars, historyVars
<1>2. ParcelsInv'
  BY <1>1 DEF DpcInv, ParcelsInv, WellMade, Nonces, ValidHops, Tip, NewTo
<1>3. RegistersInv' /\ OneLine'
  BY <1>1 DEF DpcInv, RegistersInv, Registers, RegisterInv, Tip, OneLine
<1>4. GivenAway'
  BY <1>1, RestGiven DEF DpcInv
<1>5. SplitsCounted'
  BY <1>1 DEF DpcInv, SplitsCounted, Marked, SentBy, OwnMake, Tip
<1>6. LedgerInv' /\ ClaimsInv' /\ BooksKeptUntilRestart'
  BY <1>1 DEF DpcInv, LedgerInv, BooksInv, ClaimsInv, FairTo, Tip, BooksKeptUntilRestart, Awards
<1> QED
  BY <1>1, <1>2, <1>3, <1>4, <1>5, <1>6 DEF DpcInv

\* IssuerLedger.load, in a process started anew.
LEMMA RestartBooksStep ==
  ASSUME DpcInv, RestartBooks
  PROVE  DpcInv'
<1>1. /\ UNCHANGED <<now, coins, wallet, files, parcels, ledgerFile>>
      /\ ledger' \in ledgerFile /\ Issuer \in restarted' /\ restarted \subseteq restarted'
  BY DEF RestartBooks, RestartLedger, walletVars
<1>2. ParcelsInv'
  BY <1>1 DEF DpcInv, ParcelsInv, WellMade, Nonces, ValidHops, Tip, NewTo
<1>3. RegistersInv'
  BY <1>1 DEF DpcInv, RegistersInv, Registers, RegisterInv, Tip
<1>4. GivenAway'
  BY <1>1, RestGiven DEF DpcInv
<1>5. SplitsCounted'
  BY <1>1 DEF DpcInv, SplitsCounted, Marked, SentBy, OwnMake, Tip
<1>6. LedgerInv'
  BY <1>1 DEF DpcInv, LedgerInv, BooksInv
<1>7. OneLine' /\ ClaimsInv' /\ BooksKeptUntilRestart'
  BY <1>1 DEF OneLine, ClaimsInv, BooksKeptUntilRestart
<1> QED
  BY <1>1, <1>2, <1>3, <1>4, <1>5, <1>6, <1>7 DEF DpcInv

\* Nothing but the clock moves, up to the bound, or nothing at all.
LEMMA ClockStep ==
  ASSUME DpcInv, PassTime \/ UNCHANGED vars
  PROVE  DpcInv'
<1>1. UNCHANGED <<coins, wallet, files, parcels, ledger, ledgerFile, restarted, awarded>>
  BY DEF PassTime, vars, walletVars, ledgerVars, historyVars
<1>2. now' \in 0..MaxTime
  BY DpcCashAssumption DEF DpcInv, PassTime, Tick, vars
<1>3. ParcelsInv'
  BY <1>1 DEF DpcInv, ParcelsInv, WellMade, Nonces, ValidHops, Tip, NewTo
<1>4. RegistersInv' /\ OneLine'
  BY <1>1 DEF DpcInv, RegistersInv, Registers, RegisterInv, Tip, OneLine
<1>5. GivenAway'
  BY <1>1, RestGiven DEF DpcInv
<1>6. SplitsCounted'
  BY <1>1 DEF DpcInv, SplitsCounted, Marked, SentBy, OwnMake, Tip
<1>7. LedgerInv' /\ ClaimsInv' /\ BooksKeptUntilRestart'
  BY <1>1 DEF DpcInv, LedgerInv, BooksInv, ClaimsInv, FairTo, Tip, BooksKeptUntilRestart, Awards
<1> QED
  BY <1>2, <1>3, <1>4, <1>5, <1>6, <1>7 DEF DpcInv

\* The empty wallets and the empty ledger.
LEMMA InvInit ==
  ASSUME Init
  PROVE  DpcInv
<1>1. /\ now = 0 /\ coins = [t \in {} |-> 0] /\ parcels = {}
      /\ wallet = [w \in Wallets |-> EmptyRegister] /\ files = [w \in Wallets |-> {}]
      /\ ledger = [minted |-> {}, settled |-> [t \in {} |-> 0], blacklist |-> {}, pending |-> {}]
      /\ ledgerFile = {} /\ restarted = {} /\ awarded = {}
  BY DEF Init, WalletInit, LedgerInit
<1>2. now \in 0..MaxTime
  BY <1>1, DpcCashAssumption
<1>3. ParcelsInv
  BY <1>1, FS_EmptySet DEF ParcelsInv
<1>4. RegistersInv
  BY <1>1 DEF RegistersInv, Registers, RegisterInv, EmptyRegister
<1>5. GivenAway /\ OneLine
  BY <1>1 DEF GivenAway, OneLine, EmptyRegister
<1>6. SplitsCounted
  <2>1. ASSUME NEW w \in Wallets
        PROVE  2 * Cardinality(Marked(w) \ SentBy(w)) <= Cardinality(OwnMake(w))
    <3>1. Marked(w) \ SentBy(w) = {} /\ OwnMake(w) = {}
      BY <1>1 DEF Marked, SentBy, OwnMake, EmptyRegister
    <3> QED
      BY <3>1, FS_EmptySet
  <2> QED
    BY <2>1 DEF SplitsCounted
<1>7. /\ DOMAIN ledger.settled = {} /\ ledger.minted = {} /\ ledger.blacklist = {}
      /\ ledger.pending = {}
  BY <1>1
<1>8. LedgerInv
  <2>1. ledger.settled \in [{} -> Entry]
    BY <1>1
  <2>2. ledger.settled \in UNION {[T -> Entry] : T \in SUBSET Tokens}
    BY <2>1
  <2>3. ledger \in Books
    BY <1>1, <2>2 DEF Books
  <2> QED
    BY <1>1, <1>7, <2>3 DEF LedgerInv, BooksInv
<1>9. ClaimsInv
  BY <1>7 DEF ClaimsInv, FairTo
<1>10. BooksKeptUntilRestart
  BY <1>1, <1>7 DEF BooksKeptUntilRestart, Awards
<1> QED
  BY <1>2, <1>3, <1>4, <1>5, <1>6, <1>8, <1>9, <1>10 DEF DpcInv

\* The invariant holds of wallets that pay, split, save and restart, and of a
\* ledger that settles claims one by one and in batches.
THEOREM Invariance == Spec => []DpcInv
<1>1. Init => DpcInv
  BY InvInit
<1>2. DpcInv /\ [Next]_vars => DpcInv'
  <2> SUFFICES ASSUME DpcInv, [Next]_vars PROVE DpcInv'
    OBVIOUS
  <2> QED
    BY IssueStep, ReceiveInvStep, PayStep, SplitStep, ClaimStep, UploadStep, SaveStep,
       RestartStep, SaveBooksStep, RestartBooksStep, ClockStep DEF Next
<1> QED
  BY <1>1, <1>2, PTL DEF Spec

-----------------------------------------------------------------------------
(* The properties *)

\* A register has as many receipts as tokens.
LEMMA OneReceiptEach ==
  ASSUME ParcelsInv, NEW w, NEW reg \in Registers, RegisterInv(w, reg)
  PROVE  RegisterOK(reg)
<1>1. reg.entries \subseteq parcels /\ reg.spent \subseteq DOMAIN coins /\ reg.seen \subseteq parcels
  BY DEF Registers
<1>2. reg.spent \cap Ids(reg.entries) = {}
  BY DEF RegisterInv, Ids
<1>3. Cardinality(reg.entries) = Cardinality(Ids(reg.entries))
  <2> DEFINE S == reg.entries
             T == Ids(reg.entries)
             f == [p \in S |-> p.id]
  <2>1. f \in [S -> T] /\ \A p, q \in S : f[p] = f[q] => p = q
    BY DEF RegisterInv, Ids
  <2>2. \A t \in T : \E p \in S : f[p] = t
    BY DEF Ids
  <2> HIDE DEF f, S, T
  <2>3. f \in Bijection(S, T)
    BY <2>1, <2>2 DEF Bijection, Injection, Surjection, IsInjective
  <2>4. IsFiniteSet(S)
    BY <1>1, FS_Subset DEF ParcelsInv, S
  <2>5. Cardinality(T) = Cardinality(S)
    BY <2>3, <2>4, FS_Bijection DEF ExistsBijection
  <2> QED
    BY <2>5 DEF S, T
<1> QED
  BY <1>1, <1>2, <1>3 DEF RegisterOK

\* TypeOK: registers in memory and in files have one receipt of a token, and
\* the books settle what was minted.
THEOREM Typing == Spec => []TypeOK
<1>1. DpcInv => TypeOK
  <2> SUFFICES ASSUME DpcInv PROVE TypeOK
    OBVIOUS
  <2>1. \A p \in parcels : p \in Parcel /\ p.id \in DOMAIN coins /\ Len(p.chain) > 0
    BY DEF DpcInv, ParcelsInv, WellMade
  <2>2. \A w \in Wallets : \A reg \in {wallet[w]} \cup files[w] : RegisterOK(reg)
    <3>1. \A w \in Wallets : \A reg \in {wallet[w]} \cup files[w] : reg \in Registers /\ RegisterInv(w, reg)
      BY DEF DpcInv, RegistersInv
    <3> QED
      BY <3>1, OneReceiptEach DEF DpcInv
  <2>3. \A books \in {ledger} \cup ledgerFile :
          /\ DOMAIN books.settled \subseteq books.minted
          /\ books.minted \subseteq DOMAIN coins
          /\ books.blacklist = {e.by : e \in books.pending}
    BY DEF DpcInv, LedgerInv, BooksInv
  <2> QED
    BY <2>1, <2>2, <2>3 DEF TypeOK, DpcInv, ParcelsInv
<1> QED
  BY <1>1, Invariance, PTL

\* ReuseOnlyByRestart: add_receipt's replay checks keep what was passed on out
\* of the registers of wallets that were not restarted.
THEOREM OnlyByRestart == Spec => []ReuseOnlyByRestart
<1>1. DpcInv => ReuseOnlyByRestart
  <2> SUFFICES ASSUME DpcInv, NEW w \in Wallets \ restarted, NEW p \in wallet[w].entries,
                      NEW q \in parcels, q.id = p.id, Len(q.chain) > Len(p.chain),
                      IsPrefix(p.chain, q.chain)
               PROVE  FALSE
    BY DEF ReuseOnlyByRestart, PassedOn
  <2>1. p \in parcels /\ Tip(p).to = w
    BY DEF DpcInv, RegistersInv, Registers, RegisterInv
  <2>2. p \in Parcel /\ q \in Parcel /\ Len(p.chain) \in Nat /\ Len(q.chain) \in Nat /\ Len(p.chain) > 0
    BY <2>1, NoncesAre DEF DpcInv, ParcelsInv, WellMade
  <2>3. Len(p.chain) < Len(q.chain)
    BY <2>2
  <2>4. Cut(q, Len(p.chain)) # p
    BY <2>1, <2>3, NotPassedOn DEF DpcInv
  <2>5. SubSeq(q.chain, 1, Len(p.chain)) = p.chain
    <3> DEFINE s == p.chain
               t == q.chain
    <3>1. s \in Seq(Record) /\ t \in Seq(Record) /\ Len(s) <= Len(t)
      BY <2>2, <2>3 DEF Parcel
    <3>2. IsPrefix(s, t)
      OBVIOUS
    <3> HIDE DEF s, t
    <3>3. s = SubSeq(t, 1, Len(s))
      BY <3>1, <3>2 DEF IsPrefix
    <3> QED
      BY <3>3 DEF s, t
  <2>6. Cut(q, Len(p.chain)) = p
    BY <2>2, <2>5 DEF Cut, Parcel
  <2> QED
    BY <2>4, <2>6
<1> QED
  BY <1>1, Invariance, PTL

\* SpentHasLeft: what send_token and swap_change mark as spent was signed over
\* or made into two tokens, and a refusal marks nothing.
THEOREM SignedOverOrSplit == Spec => []SpentHasLeft
<1>1. DpcInv => SpentHasLeft
  <2> SUFFICES ASSUME DpcInv, NEW w \in Wallets
               PROVE  2 * Cardinality(wallet[w].spent \ SentBy(w)) <= Cardinality(OwnMake(w))
    BY DEF SpentHasLeft
  <2> DEFINE A == Marked(w) \ SentBy(w)
             B == OwnMake(w)
             C == wallet[w].spent \ SentBy(w)
  <2>1. IsFiniteSet(A) /\ IsFiniteSet(B) /\ 2 * Cardinality(A) <= Cardinality(B) /\ C \in SUBSET A
    BY CountedFinite DEF DpcInv, SplitsCounted, Marked
  <2> HIDE DEF A, B, C
  <2>2. 2 * Cardinality(C) <= Cardinality(B)
    BY <2>1, HalfKept
  <2> QED
    BY <2>2 DEF B, C
<1> QED
  BY <1>1, Invariance, PTL

\* ChainsValidAndBounded: chains pass validate_integrity, and no run of
\* transfers to new wallets is longer than MAX_OFFLINE_HOPS.
THEOREM ChainsBounded == Spec => []ChainsValidAndBounded
<1>1. DpcInv => ChainsValidAndBounded
  <2> SUFFICES ASSUME DpcInv, NEW p \in parcels
               PROVE  /\ ValidHops(p.chain)
                      /\ \A k \in 1..(Len(p.chain) - MaxHops) : \E j \in k..(k + MaxHops) : ~NewTo(p, j)
    BY DEF ChainsValidAndBounded
  <2>1. ValidHops(p.chain) /\ p \in Parcel /\ Len(p.chain) \in Nat /\ MaxHops \in Nat
    BY NoncesAre, DpcWalletAssumption DEF DpcInv, ParcelsInv, WellMade
  <2>2. ASSUME NEW k \in 1..(Len(p.chain) - MaxHops), \A j \in k..(k + MaxHops) : NewTo(p, j)
        PROVE  FALSE
    <3> DEFINE n == k + MaxHops
               c == Cut(p, n)
    <3>1. n \in 1..Len(p.chain) /\ k \in 1..n /\ k \in Int /\ n - k = MaxHops
      BY <2>1
    <3>2. k > 1
      BY <2>1, <2>2, <3>1 DEF NewTo
    <3>3. /\ Len(c.chain) = n /\ Tip(c) = p.chain[n] /\ c \in Parcel
          /\ \A i \in 1..n : c.chain[i] = p.chain[i]
      <4> HIDE DEF n
      <4> QED
        BY <2>1, <3>1, CutFacts
    <3>4. c \in parcels
      <4>1. Nonces(p) = {Cut(p, i) : i \in 1..Len(p.chain)}
        BY <2>1, NoncesAre
      <4> HIDE DEF n
      <4> QED
        BY <3>1, <4>1 DEF DpcInv, ParcelsInv
    <3>5. WellMade(c)
      BY <3>4 DEF DpcInv, ParcelsInv
    <3> HIDE DEF n, c
    <3>6. \A j \in k..n : NewTo(c, j)
      <4> SUFFICES ASSUME NEW j \in k..n PROVE NewTo(c, j)
        OBVIOUS
      <4>1. NewTo(p, j)
        BY <2>2 DEF n
      <4>2. j \in 1..n /\ \A i \in 1..(j - 1) : i \in 1..n
        BY <3>1
      <4>3. c.chain[j] = p.chain[j] /\ \A i \in 1..(j - 1) : c.chain[i] = p.chain[i]
        BY <3>3, <4>2
      <4> QED
        BY <4>1, <4>3 DEF NewTo
    <3>7. MaxHops < Tip(c).hop
      <4>1. k \in 2..Len(c.chain)
        BY <3>1, <3>2, <3>3
      <4>2. Len(c.chain) - k < Tip(c).hop
        BY <3>3, <3>5, <3>6, <4>1 DEF WellMade
      <4> QED
        BY <3>1, <3>3, <4>2
    <3>8. Tip(c).hop <= MaxHops
      BY <3>5 DEF WellMade, ValidHops, Tip
    <3>9. Tip(c).hop \in Int
      <4>1. Tip(c) \in Record
        BY <2>1, <3>1, <3>3 DEF Parcel
      <4> QED
        BY <2>1, <4>1 DEF Record
    <3> QED
      BY <2>1, <3>7, <3>8, <3>9
  <2> QED
    BY <2>1, <2>2
<1> QED
  BY <1>1, Invariance, PTL

\* BlacklistedHeldItLater: settle_token blacklists, without restarts, nobody
\* but wallets that had the token after the one it is settled for.
THEOREM BlacklistedLater == Spec => []BlacklistedHeldItLater
<1>1. DpcInv => BlacklistedHeldItLater
  BY DEF DpcInv, ClaimsInv, FairTo, BlacklistedHeldItLater
<1> QED
  BY <1>1, Invariance, PTL

\* BooksKeptUntilRestart: neither settle_token nor a batch of proxy_sync ever
\* takes a settlement back, and mint_token registers all that the issuer signs.
THEOREM BooksKept == Spec => []BooksKeptUntilRestart
<1>1. DpcInv => BooksKeptUntilRestart
  BY DEF DpcInv
<1> QED
  BY <1>1, Invariance, PTL
=============================================================================
