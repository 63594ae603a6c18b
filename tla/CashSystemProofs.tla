-------------------------- MODULE CashSystemProofs --------------------------
(***************************************************************************)
(* Proofs about CashSystem, for any wallets, tokens, sessions and bounds.  *)
(***************************************************************************)
EXTENDS CashSystem, WalletLemmas

-----------------------------------------------------------------------------
(* Types *)

\* The payment's register operators are the wallet's.
LEMMA SameOperators ==
  ASSUME NEW reg, NEW S, NEW r
  PROVE  /\ Cash!Ids(reg) = Ids(reg)
         /\ Cash!Pop(reg, S) = Pop(reg, S)
         /\ Cash!Put(reg, S) = Put(reg, S)
         /\ Cash!SentCopies(reg, S, r) = SentCopies(reg, S, r)
BY DEF Cash!Ids, Cash!Pop, Cash!Put, Cash!SentCopies, Cash!PickIds, Cash!AppendTransfer,
       Ids, Pop, Put, SentCopies, PickIds, AppendTransfer

\* The registers after an exchange.
LEMMA ExchangeUpdates ==
  ASSUME NEW payer, NEW payee, NEW P, NEW C, Cash!Exchange(payer, payee, P, C)
  PROVE  /\ utr' = [utr EXCEPT ![payer] = Put(Pop(utr[payer], P), SentCopies(utr[payee], C, payer)),
                               ![payee] = Put(Pop(utr[payee], C), SentCopies(utr[payer], P, payee))]
         /\ str' = [str EXCEPT ![payer] = Put(str[payer], SentCopies(utr[payer], P, payee)),
                               ![payee] = Put(str[payee], SentCopies(utr[payee], C, payer))]
<1>1. /\ utr' = [utr EXCEPT ![payer] = Cash!Put(Cash!Pop(utr[payer], P), Cash!SentCopies(utr[payee], C, payer)),
                            ![payee] = Cash!Put(Cash!Pop(utr[payee], C), Cash!SentCopies(utr[payer], P, payee))]
      /\ str' = [str EXCEPT ![payer] = Cash!Put(str[payer], Cash!SentCopies(utr[payer], P, payee)),
                            ![payee] = Cash!Put(str[payee], Cash!SentCopies(utr[payee], C, payer))]
  BY DEF Cash!Exchange
<1> QED
  BY ZenonT(60), <1>1, SameOperators

\* An exchange of any of their tokens leaves two wallets with registers.
LEMMA ExchangeTypes ==
  ASSUME utr \in [Wallets -> Register], str \in [Wallets -> Register],
         NEW payer \in Wallets, NEW payee \in Wallets, payer # payee, NEW P, NEW C,
         Cash!Exchange(payer, payee, P, C)
  PROVE  utr' \in [Wallets -> Register] /\ str' \in [Wallets -> Register]
<1> DEFINE paid == SentCopies(utr[payer], P, payee)
           change == SentCopies(utr[payee], C, payer)
<1>1. paid \in Register /\ change \in Register
  BY SentFacts
<1>2. \A w \in Wallets : Pop(utr[w], P) \in Register /\ Pop(utr[w], C) \in Register
  BY PopFacts
<1>3. /\ Put(Pop(utr[payer], P), change) \in Register
      /\ Put(Pop(utr[payee], C), paid) \in Register
      /\ Put(str[payer], paid) \in Register /\ Put(str[payee], change) \in Register
  BY <1>1, <1>2, PutFacts
<1>4. /\ utr' = [utr EXCEPT ![payer] = Put(Pop(utr[payer], P), change),
                            ![payee] = Put(Pop(utr[payee], C), paid)]
      /\ str' = [str EXCEPT ![payer] = Put(str[payer], paid), ![payee] = Put(str[payee], change)]
  BY ExchangeUpdates
<1> QED
  BY <1>3, <1>4

\* The registers are typed, and each payload stored in the channel is a copy
\* whose session is open.
THEOREM Typing == Spec => []TypeOK
<1>1. Init => TypeOK
  <2>1. {} \in Register
    BY DEF Register
  <2> QED
    BY <2>1 DEF Init, ChannelInit, EngineInit, NoEntries, TypeOK, Settled
<1>2. TypeOK /\ [Next]_vars => TypeOK'
  <2> SUFFICES ASSUME TypeOK, [Next]_vars PROVE TypeOK'
    OBVIOUS
  <2> USE DEF TypeOK
  <2>1. ASSUME NEW t \in Tokens, AddToken(t) PROVE TypeOK'
    <3>1. Issued(t) \in Copy /\ IssuedTo[t] \in Wallets
      BY WalletAssumption DEF Issued, Copy
    <3>2. Put(utr[IssuedTo[t]], {Issued(t)}) \in Register
      BY <3>1, SingletonFacts, PutFacts
    <3> QED
      BY <2>1, <3>1, <3>2 DEF AddToken, Settled
  <2>2. ASSUME NEW payer \in Wallets, NEW payee \in Wallets, NEW price \in Prices,
               PayCash(payer, payee, price)
        PROVE  TypeOK'
    <3>1. utr' \in [Wallets -> Register] /\ str' \in [Wallets -> Register]
      BY <2>2, ExchangeTypes DEF PayCash, Cash!Pay
    <3> QED
      BY <2>2, <3>1 DEF PayCash, Settled
  <2>3. ASSUME NEW sender \in Wallets, NEW receiver \in Wallets, OpenSession(sender, receiver),
               UNCHANGED <<accepted, vault>>
        PROVE  TypeOK'
    BY <2>3 DEF OpenSession, Set, Settled
  <2>4. ASSUME NEW s \in Sessions, NEW nonce \in {0, 1}, SendOverSession(s, nonce),
               UNCHANGED <<accepted, vault>>
        PROVE  TypeOK'
    <3> DEFINE w == discoveries[s].sender
               r == discoveries[s].receiver
    <3>1. s \in DOMAIN discoveries /\ w \in Wallets /\ r \in Wallets
      BY <2>4 DEF SendOverSession
    <3>2. PICK c \in utr[w] :
            /\ utr' = [utr EXCEPT ![w] = Pop(@, {c.id})]
            /\ str' = [str EXCEPT ![w] = Put(@, {AppendTransfer(c, r)})]
            /\ payloads' = IF nonce > 0 THEN Set(payloads, s, AppendTransfer(c, r)) ELSE payloads
      BY <2>4 DEF SendOverSession
    <3>3. AppendTransfer(c, r) \in Copy
      BY <3>1, AppendTransferFacts DEF Register
    <3>4. Pop(utr[w], {c.id}) \in Register /\ Put(str[w], {AppendTransfer(c, r)}) \in Register
      BY <3>1, <3>3, PopFacts, PutFacts, SingletonFacts
    <3>5. utr' \in [Wallets -> Register] /\ str' \in [Wallets -> Register]
      BY <3>1, <3>2, <3>4
    <3>6. /\ DOMAIN payloads' \subseteq DOMAIN discoveries
          /\ \A x \in DOMAIN payloads' : payloads'[x] \in Copy
      BY <3>1, <3>2, <3>3 DEF Set
    <3> QED
      BY <2>4, <3>5, <3>6 DEF SendOverSession, Settled
  <2>5. ASSUME NEW w \in Wallets, NEW c \in Copy, ReceiveToken(w, c),
               UNCHANGED <<discoveries, payloads, accepted, vault>>
        PROVE  TypeOK'
    <3>1. Put(utr[w], {c}) \in Register
      BY PutFacts, SingletonFacts
    <3> QED
      BY <2>5, <3>1 DEF ReceiveToken, Settled
  <2>6. ASSUME NEW s \in Sessions, ReceiveOverSession(s), UNCHANGED <<accepted, vault>>
        PROVE  TypeOK'
    BY <2>5, <2>6 DEF ReceiveOverSession, channelVars
  <2>7. ASSUME NEW s \in Sessions, NEW w \in Wallets, ReceiveDamaged(s, w),
               UNCHANGED <<accepted, vault>>
        PROVE  TypeOK'
    <3>1. [payloads[s] EXCEPT !.owner = w] \in Copy
      BY <2>7 DEF ReceiveDamaged, Copy
    <3> QED
      BY <2>5, <2>7, <3>1 DEF ReceiveDamaged, channelVars
  <2>8. ASSUME NEW w \in Wallets, NEW receiver \in Wallets, NEW T \in SUBSET Ids(utr[w]),
               SendTokensRaises(w, receiver, T), UNCHANGED <<accepted, vault>>
        PROVE  TypeOK'
    <3>1. /\ Pop(utr[w], T) \in Register
          /\ Put(str[w], SentCopies(utr[w], T, receiver)) \in Register
      BY PopFacts, PutFacts, SentFacts
    <3> QED
      BY <2>8, <3>1 DEF SendTokensRaises, channelVars, Settled
  <2>9. ASSUME NEW w \in Wallets, NEW at \in Times, SubmitHeld(w, at) PROVE TypeOK'
    BY <2>9 DEF SubmitHeld, Submit, Settled, Register, Copy
  <2>10. ASSUME NEW w \in Wallets, NEW T \in SUBSET Tokens, Sync(w, T) PROVE TypeOK'
    <3>1. Pop(str[w], T) \in Register
      BY PopFacts
    <3> QED
      BY <2>10, <3>1 DEF Sync, Settled
  <2>11. CASE UNCHANGED vars
    BY <2>11 DEF vars, Settled
  <2> QED
    BY <2>1, <2>2, <2>3, <2>4, <2>6, <2>7, <2>8, <2>9, <2>10, <2>11
    DEF Next, TransferToken, TransferNext
<1> QED
  BY <1>1, <1>2, PTL DEF Spec
-----------------------------------------------------------------------------
(* Custody *)

\* What an exchange does to the ids of the registers.
LEMMA ExchangeIds ==
  ASSUME utr \in [Wallets -> Register], str \in [Wallets -> Register],
         NEW payer \in Wallets, NEW payee \in Wallets, payer # payee,
         NEW P \in SUBSET Ids(utr[payer]), NEW C \in SUBSET Ids(utr[payee]),
         Cash!Exchange(payer, payee, P, C)
  PROVE  /\ Ids(utr'[payer]) = (Ids(utr[payer]) \ P) \cup C
         /\ Ids(utr'[payee]) = (Ids(utr[payee]) \ C) \cup P
         /\ Ids(str'[payer]) = Ids(str[payer]) \cup P
         /\ Ids(str'[payee]) = Ids(str[payee]) \cup C
         /\ \A w \in Wallets \ {payer, payee} : utr'[w] = utr[w] /\ str'[w] = str[w]
<1> DEFINE paid == SentCopies(utr[payer], P, payee)
           change == SentCopies(utr[payee], C, payer)
<1>1. /\ paid \in Register /\ Ids(paid) = P
      /\ change \in Register /\ Ids(change) = C
  <2>1. /\ paid \in Register /\ Ids(paid) = Ids(utr[payer]) \cap P
        /\ change \in Register /\ Ids(change) = Ids(utr[payee]) \cap C
    BY SentFacts
  <2> QED
    BY <2>1
<1>2. /\ Pop(utr[payer], P) \in Register /\ Ids(Pop(utr[payer], P)) = Ids(utr[payer]) \ P
      /\ Pop(utr[payee], C) \in Register /\ Ids(Pop(utr[payee], C)) = Ids(utr[payee]) \ C
  BY PopFacts
<1>3. /\ Ids(Put(Pop(utr[payer], P), change)) = (Ids(utr[payer]) \ P) \cup C
      /\ Ids(Put(Pop(utr[payee], C), paid)) = (Ids(utr[payee]) \ C) \cup P
      /\ Ids(Put(str[payer], paid)) = Ids(str[payer]) \cup P
      /\ Ids(Put(str[payee], change)) = Ids(str[payee]) \cup C
  <2>1. \A w \in Wallets : str[w] \in Register
    OBVIOUS
  <2>2. \A reg, S \in Register : Ids(Put(reg, S)) = Ids(reg) \cup Ids(S)
    BY PutFacts
  <2> QED
    BY <1>1, <1>2, <2>1, <2>2
<1>4. /\ utr' = [utr EXCEPT ![payer] = Put(Pop(utr[payer], P), change),
                            ![payee] = Put(Pop(utr[payee], C), paid)]
      /\ str' = [str EXCEPT ![payer] = Put(str[payer], paid), ![payee] = Put(str[payee], change)]
  BY ExchangeUpdates
<1>5. /\ utr'[payer] = Put(Pop(utr[payer], P), change)
      /\ utr'[payee] = Put(Pop(utr[payee], C), paid)
      /\ \A w \in Wallets \ {payer, payee} : utr'[w] = utr[w]
  BY <1>4
<1>6. /\ str'[payer] = Put(str[payer], paid) /\ str'[payee] = Put(str[payee], change)
      /\ \A w \in Wallets \ {payer, payee} : str'[w] = str[w]
  BY <1>4
<1> QED
  BY <1>3, <1>5, <1>6

\* A payment hands each token to a wallet that is no custodian of it yet and
\* whose spent register does not hold it.
LEMMA PayPreservesCustody ==
  ASSUME TypeOK, CustodyInv,
         NEW payer \in Wallets, NEW payee \in Wallets, NEW price \in Prices,
         PayCash(payer, payee, price)
  PROVE  CustodyInv'
<1> USE DEF TypeOK
<1>1. payer # payee /\ UNCHANGED <<discoveries, payloads, accepted, vault>>
  BY DEF PayCash, Cash!Pay
<1>2. PICK P \in SUBSET Ids(utr[payer]), C \in SUBSET Ids(utr[payee]) :
        /\ P \cap Ids(str[payee]) = {}
        /\ C \cap (Ids(str[payer]) \cup P) = {}
        /\ Cash!Exchange(payer, payee, P, C)
  <2>1. \A reg : Cash!Ids(reg) = Ids(reg)
    BY SameOperators
  <2> QED
    BY <2>1 DEF PayCash, Cash!Pay
<1>3. /\ Ids(utr'[payer]) = (Ids(utr[payer]) \ P) \cup C
      /\ Ids(utr'[payee]) = (Ids(utr[payee]) \ C) \cup P
      /\ Ids(str'[payer]) = Ids(str[payer]) \cup P
      /\ Ids(str'[payee]) = Ids(str[payee]) \cup C
      /\ \A w \in Wallets \ {payer, payee} : utr'[w] = utr[w] /\ str'[w] = str[w]
  <2>1. utr \in [Wallets -> Register] /\ str \in [Wallets -> Register]
    OBVIOUS
  <2> HIDE DEF TypeOK
  <2> QED
    BY ZenonT(60), <1>1, <1>2, <2>1, ExchangeIds
<1>4. PayloadsAddressed'
  BY <1>1 DEF CustodyInv, PayloadsAddressed
<1>5. RegistersDisjoint'
  BY <1>1, <1>2, <1>3 DEF CustodyInv, RegistersDisjoint
<1>6. /\ \A t \in P : Custodians(t)' \subseteq (Custodians(t) \ {payer}) \cup {payee}
      /\ \A t \in C : Custodians(t)' \subseteq (Custodians(t) \ {payee}) \cup {payer}
      /\ \A t \in Tokens \ (P \cup C) : Custodians(t)' \subseteq Custodians(t)
  BY <1>1, <1>2, <1>3 DEF CustodyInv, RegistersDisjoint, Custodians
<1>7. (\A t \in P : payer \in Custodians(t)) /\ (\A t \in C : payee \in Custodians(t))
  BY <1>2 DEF Custodians
<1>8. P \subseteq Tokens /\ C \subseteq Tokens
  BY <1>2 DEF Ids, Register, Copy
<1>9. P \cap vault = {} /\ C \cap vault = {}
  BY <1>7 DEF CustodyInv, VaultUntouched
<1>10. VaultUntouched'
  <2>1. \A t \in vault, w \in Wallets : t \notin Ids(str'[w])
    BY <1>3, <1>9 DEF CustodyInv, VaultUntouched
  <2>2. \A t \in vault : Custodians(t)' \subseteq Custodians(t)
    BY <1>6, <1>9
  <2> QED
    BY <1>1, <2>1, <2>2 DEF CustodyInv, VaultUntouched
<1>11. OneCustodian'
  <2> SUFFICES ASSUME NEW t \in Tokens \ Settled', NEW v \in Custodians(t)', NEW w \in Custodians(t)'
               PROVE  v = w
    BY DEF OneCustodian
  <2>1. t \in Tokens \ Settled
    BY <1>1 DEF Settled
  <2>2. \A x, y \in Custodians(t) : x = y
    BY <2>1 DEF CustodyInv, OneCustodian
  <2> QED
    BY <1>6, <1>7, <2>1, <2>2
<1> QED
  BY <1>4, <1>5, <1>10, <1>11 DEF CustodyInv

\* A token spent over a session leaves its holder, which keeps it in its spent
\* register; its payload makes at most the receiver a custodian.
LEMMA SendPreservesCustody ==
  ASSUME TypeOK, CustodyInv, NEW s \in Sessions, NEW nonce \in {0, 1},
         SendOverSession(s, nonce), UNCHANGED <<accepted, vault>>
  PROVE  CustodyInv'
<1> USE DEF TypeOK
<1> DEFINE w == discoveries[s].sender
           r == discoveries[s].receiver
<1>1. s \in DOMAIN discoveries /\ w \in Wallets /\ r \in Wallets
  BY DEF SendOverSession
<1>2. PICK c \in utr[w] :
        /\ utr' = [utr EXCEPT ![w] = Pop(@, {c.id})]
        /\ str' = [str EXCEPT ![w] = Put(@, {AppendTransfer(c, r)})]
        /\ payloads' = IF nonce > 0 THEN Set(payloads, s, AppendTransfer(c, r)) ELSE payloads
  BY DEF SendOverSession
<1> DEFINE sent == AppendTransfer(c, r)
<1>3. /\ sent \in Copy /\ sent.id = c.id /\ sent.owner = r
      /\ Len(sent.chain) > 0 /\ sent.chain[Len(sent.chain)].to = r
      /\ c \in Copy
  BY <1>1, AppendTransferFacts DEF Register
<1> HIDE DEF sent
<1>4. /\ Ids(utr'[w]) = Ids(utr[w]) \ {c.id}
      /\ Ids(str'[w]) = Ids(str[w]) \cup {c.id}
      /\ \A v \in Wallets \ {w} : utr'[v] = utr[v] /\ str'[v] = str[v]
  <2>1. Ids(Pop(utr[w], {c.id})) = Ids(utr[w]) \ {c.id}
    BY <1>1, PopFacts
  <2>2. {sent} \in Register /\ Ids({sent}) = {c.id}
    BY <1>3, SingletonFacts
  <2>3. Ids(Put(str[w], {sent})) = Ids(str[w]) \cup {c.id}
    BY <1>1, <2>2, PutFacts
  <2> QED
    BY <1>1, <1>2, <2>1, <2>3 DEF sent
<1>5. \A x \in DOMAIN payloads' :
        (x \in DOMAIN payloads /\ payloads'[x] = payloads[x]) \/ payloads'[x] = sent
  BY <1>2 DEF Set, sent
<1>6. PayloadsAddressed'
  BY <1>3, <1>5 DEF CustodyInv, PayloadsAddressed
<1>7. RegistersDisjoint'
  BY <1>1, <1>4 DEF CustodyInv, RegistersDisjoint
<1>8. c.id \in Tokens /\ w \in Custodians(c.id)
  BY <1>1, <1>3 DEF Copy, Custodians, Ids
<1>9. /\ Custodians(c.id)' \subseteq (Custodians(c.id) \ {w}) \cup {r}
      /\ \A t \in Tokens \ {c.id} : Custodians(t)' \subseteq Custodians(t)
  BY <1>1, <1>3, <1>4, <1>5 DEF Custodians
<1>10. VaultUntouched'
  <2>1. c.id \notin vault
    BY <1>1, <1>8 DEF CustodyInv, VaultUntouched
  <2> QED
    BY <1>1, <1>4, <1>9, <2>1 DEF CustodyInv, VaultUntouched
<1>11. OneCustodian'
  BY <1>8, <1>9 DEF CustodyInv, OneCustodian, Settled
<1> QED
  BY <1>6, <1>7, <1>10, <1>11 DEF CustodyInv

\* A wallet that takes a copy in was a custodian of it already.
LEMMA ReceivePreservesCustody ==
  ASSUME TypeOK, CustodyInv, NEW w \in Wallets, NEW c \in Copy,
         Accepts(w, str[w], c) => w \in Custodians(c.id),
         ReceiveToken(w, c), UNCHANGED <<discoveries, payloads, accepted, vault>>
  PROVE  CustodyInv'
<1> USE DEF TypeOK
<1>1. CASE ~Accepts(w, str[w], c)
  <2>1. utr' = utr /\ str' = str
    BY <1>1 DEF ReceiveToken
  <2> QED
    BY <2>1 DEF CustodyInv, PayloadsAddressed, RegistersDisjoint, VaultUntouched, OneCustodian,
                Custodians, Settled
<1>2. CASE Accepts(w, str[w], c)
  <2>1. str' = str /\ utr' = [utr EXCEPT ![w] = Put(@, {c})]
    BY <1>2 DEF ReceiveToken
  <2>2. Ids(Put(utr[w], {c})) = Ids(utr[w]) \cup {c.id}
    <3>1. {c} \in Register /\ Ids({c}) = {c.id}
      BY SingletonFacts
    <3> QED
      BY <3>1, PutFacts
  <2>3. /\ Ids(utr'[w]) = Ids(utr[w]) \cup {c.id}
        /\ \A v \in Wallets \ {w} : utr'[v] = utr[v]
    BY <2>1, <2>2
  <2>4. c.id \notin Ids(str[w]) /\ w \in Custodians(c.id)
    BY <1>2 DEF Accepts
  <2>5. RegistersDisjoint'
    <3>1. \A v \in Wallets : Ids(utr[v]) \cap Ids(str[v]) = {}
      BY DEF CustodyInv, RegistersDisjoint
    <3>2. \A v \in Wallets : Ids(utr'[v]) \cap Ids(str[v]) = {}
      BY <2>3, <2>4, <3>1
    <3> QED
      BY <2>1, <3>2 DEF RegistersDisjoint
  <2>6. \A t \in Tokens : Custodians(t)' \subseteq Custodians(t)
    BY <2>1, <2>3, <2>4 DEF Custodians
  <2>7. VaultUntouched'
    BY <2>1, <2>6 DEF CustodyInv, VaultUntouched
  <2>8. OneCustodian'
    BY <2>6 DEF CustodyInv, OneCustodian, Settled
  <2>9. PayloadsAddressed'
    BY DEF CustodyInv, PayloadsAddressed
  <2> QED
    BY <2>5, <2>7, <2>8, <2>9 DEF CustodyInv
<1> QED
  BY <1>1, <1>2

\* Tokens spent without a payload have no custodian any more.
LEMMA LossPreservesCustody ==
  ASSUME TypeOK, CustodyInv, NEW w \in Wallets, NEW receiver \in Wallets,
         NEW T \in SUBSET Ids(utr[w]),
         SendTokensRaises(w, receiver, T), UNCHANGED <<accepted, vault>>
  PROVE  CustodyInv'
<1> USE DEF TypeOK
<1> DEFINE sent == SentCopies(utr[w], T, receiver)
<1>1. UNCHANGED <<discoveries, payloads>>
  BY DEF SendTokensRaises, channelVars
<1>2. sent \in Register /\ Ids(sent) = Ids(utr[w]) \cap T
  BY SentFacts
<1>3. Ids(Put(str[w], sent)) = Ids(str[w]) \cup (Ids(utr[w]) \cap T)
  BY <1>2, PutFacts
<1>4. Ids(Pop(utr[w], T)) = Ids(utr[w]) \ T
  BY PopFacts
<1>5. /\ Ids(utr'[w]) = Ids(utr[w]) \ T
      /\ Ids(str'[w]) = Ids(str[w]) \cup T
      /\ \A v \in Wallets \ {w} : utr'[v] = utr[v] /\ str'[v] = str[v]
  BY <1>3, <1>4 DEF SendTokensRaises
<1>6. \A t \in T : w \in Custodians(t) /\ t \notin vault
  BY DEF Custodians, CustodyInv, VaultUntouched
<1>7. \A t \in Tokens : Custodians(t)' \subseteq Custodians(t)
  BY <1>1, <1>5 DEF Custodians
<1>8. RegistersDisjoint'
  BY <1>5 DEF CustodyInv, RegistersDisjoint
<1>9. VaultUntouched'
  BY <1>5, <1>6, <1>7 DEF CustodyInv, VaultUntouched
<1>10. OneCustodian'
  BY <1>7 DEF CustodyInv, OneCustodian, Settled
<1>11. PayloadsAddressed'
  BY <1>1 DEF CustodyInv, PayloadsAddressed
<1> QED
  BY <1>8, <1>9, <1>10, <1>11 DEF CustodyInv

\* A copy accepted from the channel is intact, and so makes its receiver a
\* custodian; a damaged one is never accepted.
LEMMA IntactFacts ==
  ASSUME TypeOK, PayloadsAddressed, NEW s \in DOMAIN payloads, NEW w \in Wallets
  PROVE  /\ Accepts(w, str[w], payloads[s]) => w \in Custodians(payloads[s].id)
         /\ w # payloads[s].owner => ~Accepts(w, str[w], [payloads[s] EXCEPT !.owner = w])
<1>1. ASSUME Accepts(w, str[w], payloads[s]) PROVE w \in Custodians(payloads[s].id)
  BY <1>1 DEF Accepts, Custodians
<1>2. ASSUME w # payloads[s].owner, Accepts(w, str[w], [payloads[s] EXCEPT !.owner = w])
      PROVE  FALSE
  <2> DEFINE p == payloads[s]
             d == [p EXCEPT !.owner = w]
  <2>1. p \in Copy
    BY DEF TypeOK
  <2>2. d.owner = w /\ d.chain = p.chain
    BY <2>1 DEF Copy
  <2>3. Len(p.chain) > 0 /\ p.chain[Len(p.chain)].to = p.owner
    BY DEF PayloadsAddressed
  <2>4. Len(d.chain) > 0 => d.chain[Len(d.chain)].to = d.owner
    BY <1>2 DEF Accepts, ValidChain
  <2> QED
    BY <1>2, <2>2, <2>3, <2>4
<1> QED
  BY <1>1, <1>2

\* The custody invariant is preserved by every step.
LEMMA CustodyStep ==
  ASSUME TypeOK, CustodyInv, [Next]_vars
  PROVE  CustodyInv'
<1> USE DEF TypeOK
<1>1. ASSUME NEW t \in Tokens, AddToken(t) PROVE CustodyInv'
  <2> DEFINE w == IssuedTo[t]
  <2>1. w \in Wallets /\ Issued(t) \in Copy /\ Issued(t).id = t
    BY WalletAssumption DEF Issued, Copy
  <2>2. {Issued(t)} \in Register /\ Ids({Issued(t)}) = {t}
    BY <2>1, SingletonFacts
  <2>3. Ids(Put(utr[w], {Issued(t)})) = Ids(utr[w]) \cup {t}
    BY <2>1, <2>2, PutFacts
  <2>4. /\ Ids(utr'[w]) = Ids(utr[w]) \cup {t}
        /\ \A v \in Wallets \ {w} : utr'[v] = utr[v]
        /\ t \in vault /\ vault' = vault \ {t}
        /\ UNCHANGED <<str, discoveries, payloads, accepted>>
    BY <1>1, <2>1, <2>3 DEF AddToken
  <2>5. (\A v \in Wallets : t \notin Ids(str[v])) /\ Custodians(t) = {}
    BY <2>4 DEF CustodyInv, VaultUntouched, Custodians
  <2>6. /\ Custodians(t)' \subseteq {w}
        /\ \A u \in Tokens \ {t} : Custodians(u)' \subseteq Custodians(u)
    BY <2>1, <2>4, <2>5 DEF Custodians
  <2>7. RegistersDisjoint'
    <3>1. \A v \in Wallets : Ids(utr[v]) \cap Ids(str[v]) = {}
      BY DEF CustodyInv, RegistersDisjoint
    <3>2. \A v \in Wallets : Ids(utr'[v]) \cap Ids(str[v]) = {}
      BY <2>4, <2>5, <3>1
    <3> QED
      BY <2>4, <3>2 DEF RegistersDisjoint
  <2>8. VaultUntouched'
    BY <2>4, <2>6 DEF CustodyInv, VaultUntouched
  <2>9. OneCustodian'
    BY <2>4, <2>6 DEF CustodyInv, OneCustodian, Settled
  <2> QED
    BY <2>4, <2>7, <2>8, <2>9 DEF CustodyInv, PayloadsAddressed
<1>2. ASSUME NEW payer \in Wallets, NEW payee \in Wallets, NEW price \in Prices,
             PayCash(payer, payee, price)
      PROVE  CustodyInv'
  BY <1>2, PayPreservesCustody
<1>3. ASSUME UNCHANGED <<utr, str, payloads, vault>>, Settled \subseteq Settled'
      PROVE  CustodyInv'
  BY <1>3 DEF CustodyInv, PayloadsAddressed, RegistersDisjoint, VaultUntouched, OneCustodian,
              Custodians
<1>4. ASSUME NEW sender \in Wallets, NEW receiver \in Wallets, OpenSession(sender, receiver),
             UNCHANGED <<accepted, vault>>
      PROVE  CustodyInv'
  BY <1>3, <1>4 DEF OpenSession, Settled
<1>5. ASSUME NEW s \in Sessions, NEW nonce \in {0, 1}, SendOverSession(s, nonce),
             UNCHANGED <<accepted, vault>>
      PROVE  CustodyInv'
  BY <1>5, SendPreservesCustody
<1>6. ASSUME NEW s \in Sessions, ReceiveOverSession(s), UNCHANGED <<accepted, vault>>
      PROVE  CustodyInv'
  <2>1. /\ s \in DOMAIN payloads /\ s \in DOMAIN discoveries
        /\ ReceiveToken(discoveries[s].receiver, payloads[s])
        /\ UNCHANGED <<discoveries, payloads, accepted, vault>>
    BY <1>6 DEF ReceiveOverSession, channelVars
  <2>2. discoveries[s].receiver \in Wallets /\ payloads[s] \in Copy
    BY <2>1
  <2> QED
    BY <2>1, <2>2, IntactFacts, ReceivePreservesCustody DEF CustodyInv
<1>7. ASSUME NEW s \in Sessions, NEW w \in Wallets, ReceiveDamaged(s, w),
             UNCHANGED <<accepted, vault>>
      PROVE  CustodyInv'
  <2> DEFINE d == [payloads[s] EXCEPT !.owner = w]
  <2>1. /\ s \in DOMAIN payloads /\ w # payloads[s].owner /\ ReceiveToken(w, d)
        /\ UNCHANGED <<discoveries, payloads, accepted, vault>>
    BY <1>7 DEF ReceiveDamaged, channelVars
  <2>2. d \in Copy
    BY <2>1 DEF Copy
  <2>3. ~Accepts(w, str[w], d)
    BY <2>1, IntactFacts DEF CustodyInv
  <2> QED
    BY <2>1, <2>2, <2>3, ReceivePreservesCustody
<1>8. ASSUME NEW w \in Wallets, NEW receiver \in Wallets, NEW T \in SUBSET Ids(utr[w]),
             SendTokensRaises(w, receiver, T), UNCHANGED <<accepted, vault>>
      PROVE  CustodyInv'
  BY <1>8, LossPreservesCustody
<1>9. ASSUME NEW w \in Wallets, NEW at \in Times, SubmitHeld(w, at) PROVE CustodyInv'
  BY <1>3, <1>9 DEF SubmitHeld, Submit, Settled
<1>10. ASSUME NEW w \in Wallets, NEW T \in SUBSET Tokens, Sync(w, T) PROVE CustodyInv'
  <2>1. Ids(Pop(str[w], T)) = Ids(str[w]) \ T
    BY PopFacts
  <2>2. /\ Ids(str'[w]) = Ids(str[w]) \ T
        /\ \A v \in Wallets \ {w} : str'[v] = str[v]
        /\ T \subseteq Settled
        /\ UNCHANGED <<utr, discoveries, payloads, accepted, vault>>
    BY <1>10, <2>1 DEF Sync
  <2>3. \A t \in Tokens \ Settled : Custodians(t)' \subseteq Custodians(t)
    BY <2>2 DEF Custodians
  <2>4. RegistersDisjoint'
    <3>1. \A v \in Wallets : Ids(utr[v]) \cap Ids(str[v]) = {}
      BY DEF CustodyInv, RegistersDisjoint
    <3>2. \A v \in Wallets : Ids(str'[v]) \subseteq Ids(str[v])
      BY <2>2
    <3> QED
      BY <2>2, <3>1, <3>2 DEF RegistersDisjoint
  <2>5. OneCustodian'
    BY <2>2, <2>3 DEF CustodyInv, OneCustodian, Settled
  <2>6. VaultUntouched'
    <3>1. \A t \in vault, v \in Wallets : t \notin Ids(str[v]) /\ v \notin Custodians(t)
      BY DEF CustodyInv, VaultUntouched
    <3>2. \A t \in vault, v \in Wallets : t \notin Ids(str'[v])
      BY <2>2, <3>1
    <3>3. \A t \in vault, v \in Wallets : v \notin Custodians(t)'
      BY <2>2, <3>1 DEF Custodians
    <3> QED
      BY <2>2, <3>2, <3>3 DEF VaultUntouched
  <2> QED
    BY <2>2, <2>4, <2>5, <2>6 DEF CustodyInv, PayloadsAddressed
<1>11. CASE UNCHANGED vars
  BY <1>3, <1>11 DEF vars, Settled
<1> QED
  BY <1>1, <1>2, <1>4, <1>5, <1>6, <1>7, <1>8, <1>9, <1>10, <1>11
  DEF Next, TransferToken, TransferNext

\* The custody invariant holds of every reachable state.
THEOREM Custody == Spec => []CustodyInv
<1>1. Init => CustodyInv
  BY DEF Init, ChannelInit, EngineInit, NoEntries, CustodyInv, PayloadsAddressed,
         RegistersDisjoint, VaultUntouched, OneCustodian, Custodians, Ids
<1>2. TypeOK /\ CustodyInv /\ [Next]_vars => CustodyInv'
  BY CustodyStep
<1> QED
  BY <1>1, <1>2, Typing, PTL DEF Spec

\* No two wallets can spend the same unsettled token, whatever happens to the
\* payloads that carry it.
THEOREM SingleHolder == Spec => []UnsettledSingleHolder
<1>1. CustodyInv => UnsettledSingleHolder
  BY DEF CustodyInv, OneCustodian, Custodians, UnsettledSingleHolder
<1> QED
  BY <1>1, Custody, PTL
-----------------------------------------------------------------------------
(* One chain *)

\* Pointwise form of IsPrefix.
Begins(s, t) == Len(s) <= Len(t) /\ \A i \in 1..Len(s) : s[i] = t[i]

\* The copies of S are lengths of one chain, and those of L the longest.
Linear(S, L) ==
  /\ \A c, d \in S : Begins(c.chain, d.chain) \/ Begins(d.chain, c.chain)
  /\ \A c \in L, d \in S : Begins(d.chain, c.chain)

\* The copies that make a wallet a custodian: those it can spend and the
\* payloads it would accept.
Leading(t) ==
  {c \in Copies(t) : \/ \E w \in Wallets : c \in utr[w]
                     \/ \E s \in DOMAIN payloads : c = payloads[s] /\ t \notin Ids(str[c.owner])}

LinearInv == \A t \in Tokens \ Settled : Linear(Copies(t), Leading(t))

\* A chain begins with itself, and one that is continued with whatever it
\* began with.
LEMMA BeginsFacts ==
  ASSUME NEW c \in Copy, NEW r \in Wallets
  PROVE  LET n == AppendTransfer(c, r)
         IN /\ Begins(n.chain, n.chain)
            /\ \A d \in Copy : Begins(d.chain, c.chain) => Begins(d.chain, n.chain)
<1> DEFINE n == AppendTransfer(c, r)
           s == c.chain
           hop == [from |-> c.owner, to |-> r]
           y == Append(s, hop)
<1>1. s \in Seq(Transfer) /\ hop \in Transfer /\ n.chain = y
  BY DEF Copy, Transfer, AppendTransfer
<1> HIDE DEF n, s, hop
<1>2. /\ Len(s) \in Nat /\ Len(y) = Len(s) + 1 /\ \A i \in 1..Len(s) : y[i] = s[i]
  BY <1>1
<1> HIDE DEF y
<1>3. Begins(y, y)
  BY <1>2 DEF Begins
<1>4. ASSUME NEW d \in Copy, Begins(d.chain, s) PROVE Begins(d.chain, y)
  <2> DEFINE x == d.chain
  <2>1. x \in Seq(Transfer)
    BY DEF Copy
  <2>2. Begins(x, s)
    BY <1>4
  <2> HIDE DEF x
  <2>3. Len(x) \in Nat
    BY <2>1
  <2>4. Begins(x, y)
    BY <1>2, <2>2, <2>3 DEF Begins
  <2> QED
    BY <2>4 DEF x
<1> QED
  BY <1>1, <1>3, <1>4 DEF n, s

\* Begins is IsPrefix of the community modules.
LEMMA BeginsIsPrefix ==
  ASSUME NEW s \in Seq(Transfer), NEW t \in Seq(Transfer), Begins(s, t)
  PROVE  IsPrefix(s, t)
<1> DEFINE n == Len(s)
<1>1. n \in Nat /\ Len(t) \in Nat /\ n <= Len(t) /\ \A i \in 1..n : s[i] = t[i]
  BY DEF Begins
<1>2. SubSeq(s, 1, n) = [i \in 1..n |-> s[i]]
  BY <1>1
<1>3. SubSeq(t, 1, n) = [i \in 1..n |-> t[i]]
  BY <1>1
<1> HIDE DEF n
<1>4. SubSeq(s, 1, n) = SubSeq(t, 1, n)
  BY <1>1, <1>2, <1>3
<1> QED
  BY <1>1, <1>4 DEF IsPrefix, n

\* Fewer copies of which fewer lead are on one chain still.
LEMMA FewerCopies ==
  ASSUME NEW S, NEW L, Linear(S, L), NEW S2, S2 \subseteq S, NEW L2, L2 \subseteq L
  PROVE  Linear(S2, L2)
BY DEF Linear

\* So they are with one more, made from one that leads, if it alone leads.
LEMMA OneMoreCopy ==
  ASSUME NEW S, NEW L, Linear(S, L), NEW c \in L, NEW n,
         Begins(n.chain, n.chain),
         \A d \in S : Begins(d.chain, c.chain) => Begins(d.chain, n.chain),
         NEW S2, S2 \subseteq S \cup {n}, NEW L2, L2 \subseteq {n}
  PROVE  Linear(S2, L2)
BY DEF Linear

\* Where the copies of a token are.
LEMMA CopiesAre ==
  ASSUME TypeOK, NEW t
  PROVE  /\ Copies(t) \subseteq Copy
         /\ \A c : c \in Copies(t) <=>
              /\ c.id = t
              /\ \/ \E w \in Wallets : c \in utr[w] \/ c \in str[w]
                 \/ \E s \in DOMAIN payloads : c = payloads[s]
<1>1. \A c : c \in Copies(t) <=>
         /\ c.id = t
         /\ \/ \E w \in Wallets : c \in utr[w] \/ c \in str[w]
            \/ \E s \in DOMAIN payloads : c = payloads[s]
  BY DEF Copies
<1>2. \A w \in Wallets : utr[w] \subseteq Copy /\ str[w] \subseteq Copy
  BY DEF TypeOK, Register
<1> QED
  BY <1>1, <1>2 DEF TypeOK

\* A step that makes no copy of a token, and only moves leading ones among the
\* spendable.
LEMMA NoNewCopy ==
  ASSUME TypeOK, TypeOK', LinearInv, NEW t \in Tokens \ Settled,
         \A v \in Wallets : \A e \in utr'[v] : e.id = t => e \in Leading(t),
         \A v \in Wallets : \A e \in str'[v] : e.id = t => e \in str[v],
         \A s \in DOMAIN payloads' : payloads'[s].id = t =>
           s \in DOMAIN payloads /\ payloads'[s] = payloads[s],
         \A v \in Wallets : t \in Ids(str[v]) => t \in Ids(str'[v])
  PROVE  Linear(Copies(t), Leading(t))'
<1>1. Copies(t)' \subseteq Copies(t)
  <2>1. ASSUME NEW e \in Copies(t)' PROVE e \in Copies(t)
    <3>1. /\ e.id = t
          /\ \/ \E w \in Wallets : e \in utr'[w] \/ e \in str'[w]
             \/ \E s \in DOMAIN payloads' : e = payloads'[s]
      BY <2>1 DEF Copies
    <3> QED
      BY <3>1, CopiesAre DEF Leading
  <2> QED
    BY <2>1
<1>2. Leading(t)' \subseteq Leading(t)
  <2>1. ASSUME NEW e \in Leading(t)' PROVE e \in Leading(t)
    <3>1. e \in Copies(t) /\ e.id = t
      BY <1>1 DEF Leading, Copies
    <3>2. CASE \E w \in Wallets : e \in utr'[w]
      BY <3>1, <3>2
    <3>3. CASE \E s \in DOMAIN payloads' : e = payloads'[s] /\ t \notin Ids(str'[e.owner])
      <4>1. PICK s \in DOMAIN payloads' : e = payloads'[s] /\ t \notin Ids(str'[e.owner])
        BY <3>3
      <4>2. s \in DOMAIN payloads /\ e = payloads[s] /\ e.owner \in Wallets
        BY <3>1, <4>1 DEF TypeOK, Copy
      <4> QED
        BY <3>1, <4>1, <4>2 DEF Leading
    <3> QED
      BY <2>1, <3>2, <3>3 DEF Leading
  <2> QED
    BY <2>1
<1>3. Linear(Copies(t)', Leading(t)')
  <2>1. Linear(Copies(t), Leading(t))
    BY DEF LinearInv
  <2> QED
    BY <1>1, <1>2, <2>1, FewerCopies
<1> QED
  BY <1>3 DEF Linear, Begins

\* A step that hands a token on: wallet w spends its copy c, and the new one
\* is wherever a copy of the token comes to be.
LEMMA HandOn ==
  ASSUME TypeOK, TypeOK', CustodyInv, LinearInv, NEW t \in Tokens \ Settled,
         NEW w \in Wallets, NEW c \in utr[w], c.id = t, NEW r \in Wallets,
         \A v \in Wallets : \A e \in utr'[v] : e.id = t =>
           e = AppendTransfer(c, r) \/ (v # w /\ e \in utr[v]),
         \A v \in Wallets : \A e \in str'[v] : e.id = t =>
           e = AppendTransfer(c, r) \/ e \in str[v],
         \A s \in DOMAIN payloads' : payloads'[s].id = t =>
           payloads'[s] = AppendTransfer(c, r) \/ (s \in DOMAIN payloads /\ payloads'[s] = payloads[s]),
         \A v \in Wallets : t \in Ids(str[v]) => t \in Ids(str'[v]),
         t \in Ids(str'[w])
  PROVE  Linear(Copies(t), Leading(t))'
<1> DEFINE n == AppendTransfer(c, r)
<1>1. c \in Copy /\ c \in Leading(t) /\ w \in Custodians(t)
  BY CopiesAre DEF TypeOK, Register, Leading, Custodians, Ids
<1>2. \A v \in Custodians(t) : v = w
  BY <1>1 DEF CustodyInv, OneCustodian
<1>3. /\ Begins(n.chain, n.chain)
      /\ \A d \in Copy : Begins(d.chain, c.chain) => Begins(d.chain, n.chain)
  BY <1>1, BeginsFacts
<1> HIDE DEF n
<1>4. Copies(t)' \subseteq Copies(t) \cup {n}
  <2>1. ASSUME NEW e \in Copies(t)', e # n PROVE e \in Copies(t)
    <3>1. /\ e.id = t
          /\ \/ \E v \in Wallets : e \in utr'[v] \/ e \in str'[v]
             \/ \E s \in DOMAIN payloads' : e = payloads'[s]
      BY <2>1 DEF Copies
    <3> QED
      BY <2>1, <3>1, CopiesAre DEF n
  <2> QED
    BY <2>1
<1>5. Leading(t)' \subseteq {n}
  <2>1. ASSUME NEW e \in Leading(t)', e # n PROVE FALSE
    <3>1. e.id = t
      BY <2>1 DEF Leading, Copies
    <3>2. ASSUME NEW v \in Wallets, e \in utr'[v] PROVE FALSE
      <4>1. v # w /\ e \in utr[v]
        BY <2>1, <3>1, <3>2 DEF n
      <4>2. v \in Custodians(t)
        BY <3>1, <4>1 DEF Custodians, Ids
      <4> QED
        BY <1>2, <4>1, <4>2
    <3>3. ASSUME NEW s \in DOMAIN payloads', e = payloads'[s], t \notin Ids(str'[e.owner]) PROVE FALSE
      <4>1. s \in DOMAIN payloads /\ e = payloads[s]
        BY <2>1, <3>1, <3>3 DEF n
      <4>2. e.owner \in Wallets
        BY <4>1 DEF TypeOK, Copy
      <4>3. e.owner \in Custodians(t)
        BY <3>1, <3>3, <4>1, <4>2 DEF Custodians
      <4> QED
        BY <1>2, <3>3, <4>3
    <3> QED
      BY <2>1, <3>2, <3>3 DEF Leading
  <2> QED
    BY <2>1
<1>6. Linear(Copies(t)', Leading(t)')
  <2>1. Linear(Copies(t), Leading(t))
    BY DEF LinearInv
  <2>2. \A d \in Copies(t) : Begins(d.chain, c.chain) => Begins(d.chain, n.chain)
    BY <1>3, CopiesAre
  <2> QED
    BY <1>1, <1>3, <1>4, <1>5, <2>1, <2>2, OneMoreCopy
<1> QED
  BY <1>6 DEF Linear, Begins

\* The copies an exchange leaves in the registers: those that were there and,
\* signed over, those of the other wallet.
LEMMA ExchangeCopies ==
  ASSUME utr \in [Wallets -> Register], str \in [Wallets -> Register],
         NEW payer \in Wallets, NEW payee \in Wallets, payer # payee, NEW P, NEW C,
         Cash!Exchange(payer, payee, P, C), NEW v \in Wallets
  PROVE  /\ \A e \in utr'[v] :
              \/ e \in utr[v] /\ (v = payer => e.id \notin P) /\ (v = payee => e.id \notin C)
              \/ v = payee /\ e \in SentCopies(utr[payer], P, payee)
              \/ v = payer /\ e \in SentCopies(utr[payee], C, payer)
         /\ \A e \in str'[v] :
              \/ e \in str[v]
              \/ e \in SentCopies(utr[payer], P, payee)
              \/ e \in SentCopies(utr[payee], C, payer)
<1> DEFINE paid == SentCopies(utr[payer], P, payee)
           change == SentCopies(utr[payee], C, payer)
<1>1. /\ utr' = [utr EXCEPT ![payer] = Put(Pop(utr[payer], P), change),
                            ![payee] = Put(Pop(utr[payee], C), paid)]
      /\ str' = [str EXCEPT ![payer] = Put(str[payer], paid), ![payee] = Put(str[payee], change)]
  BY ExchangeUpdates
<1> HIDE DEF paid, change
<1>2. /\ utr'[payer] = Put(Pop(utr[payer], P), change) /\ str'[payer] = Put(str[payer], paid)
      /\ utr'[payee] = Put(Pop(utr[payee], C), paid) /\ str'[payee] = Put(str[payee], change)
      /\ v \notin {payer, payee} => utr'[v] = utr[v] /\ str'[v] = str[v]
  BY <1>1
<1>3. CASE v = payer
  BY <1>2, <1>3 DEF Put, Pop, paid, change
<1>4. CASE v = payee
  BY <1>2, <1>4 DEF Put, Pop, paid, change
<1> QED
  BY <1>2, <1>3, <1>4

\* What is signed over of one token is made of the one copy there is of it.
LEMMA SentOfOne ==
  ASSUME NEW reg \in Register, NEW c \in reg, NEW T, NEW r \in Wallets,
         NEW e \in SentCopies(reg, T, r)
  PROVE  /\ e.id \in T
         /\ e.id = c.id => e = AppendTransfer(c, r)
<1>1. PICK d \in reg : d.id \in T /\ e = AppendTransfer(d, r)
  BY DEF SentCopies, PickIds
<1>2. e.id = d.id
  BY <1>1 DEF AppendTransfer
<1>3. d.id = c.id => d = c
  BY DEF Register
<1> QED
  BY <1>1, <1>2, <1>3

\* A payment hands on the tokens paid and those given in change.
LEMMA PayPreservesLine ==
  ASSUME TypeOK, TypeOK', CustodyInv, LinearInv,
         NEW payer \in Wallets, NEW payee \in Wallets, NEW price \in Prices,
         PayCash(payer, payee, price), NEW t \in Tokens \ Settled
  PROVE  Linear(Copies(t), Leading(t))'
<1>1. payer # payee /\ UNCHANGED <<discoveries, payloads, accepted, vault>>
  BY DEF PayCash, Cash!Pay
<1>2. PICK P \in SUBSET Ids(utr[payer]), C \in SUBSET Ids(utr[payee]) :
        /\ C \cap P = {}
        /\ Cash!Exchange(payer, payee, P, C)
  <2>1. \A reg : Cash!Ids(reg) = Ids(reg)
    BY SameOperators
  <2> QED
    BY <2>1 DEF PayCash, Cash!Pay
<1>3. /\ utr \in [Wallets -> Register] /\ str \in [Wallets -> Register]
      /\ utr[payer] \in Register /\ utr[payee] \in Register
  BY DEF TypeOK
<1>4. /\ Ids(str'[payer]) = Ids(str[payer]) \cup P
      /\ Ids(str'[payee]) = Ids(str[payee]) \cup C
      /\ \A w \in Wallets \ {payer, payee} : str'[w] = str[w]
  <2>1. /\ Ids(utr'[payer]) = (Ids(utr[payer]) \ P) \cup C
        /\ Ids(utr'[payee]) = (Ids(utr[payee]) \ C) \cup P
        /\ Ids(str'[payer]) = Ids(str[payer]) \cup P
        /\ Ids(str'[payee]) = Ids(str[payee]) \cup C
        /\ \A w \in Wallets \ {payer, payee} : utr'[w] = utr[w] /\ str'[w] = str[w]
    BY <1>1, <1>2, <1>3, ExchangeIds
  <2> QED
    BY <2>1
<1>5. \A v \in Wallets : t \in Ids(str[v]) => t \in Ids(str'[v])
  BY <1>4
<1>6. \A s \in DOMAIN payloads' : payloads'[s].id = t =>
        s \in DOMAIN payloads /\ payloads'[s] = payloads[s]
  BY <1>1
<1>7. \A v \in Wallets : \A e \in utr'[v] :
        \/ e \in utr[v] /\ (v = payer => e.id \notin P) /\ (v = payee => e.id \notin C)
        \/ v = payee /\ e \in SentCopies(utr[payer], P, payee)
        \/ v = payer /\ e \in SentCopies(utr[payee], C, payer)
  BY <1>1, <1>2, <1>3, ExchangeCopies
<1>8. \A v \in Wallets : \A e \in str'[v] :
        \/ e \in str[v]
        \/ e \in SentCopies(utr[payer], P, payee)
        \/ e \in SentCopies(utr[payee], C, payer)
  BY <1>1, <1>2, <1>3, ExchangeCopies
<1>9. /\ \A e \in SentCopies(utr[payer], P, payee) : e.id \in P
      /\ \A e \in SentCopies(utr[payee], C, payer) : e.id \in C
  <2>1. ASSUME NEW reg, NEW T, NEW r, NEW e \in SentCopies(reg, T, r) PROVE e.id \in T
    <3>1. PICK d \in reg : d.id \in T /\ e = AppendTransfer(d, r)
      BY <2>1 DEF SentCopies, PickIds
    <3>2. e.id = d.id
      BY <3>1 DEF AppendTransfer
    <3> QED
      BY <3>1, <3>2
  <2> QED
    BY <2>1
<1>10. CASE t \in P
  <2>1. PICK c \in utr[payer] : c.id = t
    BY <1>2, <1>10 DEF Ids
  <2>2. \A e \in SentCopies(utr[payer], P, payee) : e.id = t => e = AppendTransfer(c, payee)
    BY <1>3, <2>1, SentOfOne
  <2>3. t \notin C
    BY <1>2, <1>10
  <2>4. \A v \in Wallets : \A e \in utr'[v] : e.id = t =>
          e = AppendTransfer(c, payee) \/ (v # payer /\ e \in utr[v])
    BY <1>1, <1>7, <1>9, <1>10, <2>2, <2>3
  <2>5. \A v \in Wallets : \A e \in str'[v] : e.id = t => e = AppendTransfer(c, payee) \/ e \in str[v]
    BY <1>8, <1>9, <2>2, <2>3
  <2>6. t \in Ids(str'[payer])
    BY <1>4, <1>10
  <2> QED
    BY <1>5, <1>6, <2>1, <2>4, <2>5, <2>6, HandOn
<1>11. CASE t \in C
  <2>1. PICK c \in utr[payee] : c.id = t
    BY <1>2, <1>11 DEF Ids
  <2>2. \A e \in SentCopies(utr[payee], C, payer) : e.id = t => e = AppendTransfer(c, payer)
    BY <1>3, <2>1, SentOfOne
  <2>3. t \notin P
    BY <1>2, <1>11
  <2>4. \A v \in Wallets : \A e \in utr'[v] : e.id = t =>
          e = AppendTransfer(c, payer) \/ (v # payee /\ e \in utr[v])
    BY <1>1, <1>7, <1>9, <1>11, <2>2, <2>3
  <2>5. \A v \in Wallets : \A e \in str'[v] : e.id = t => e = AppendTransfer(c, payer) \/ e \in str[v]
    BY <1>8, <1>9, <2>2, <2>3
  <2>6. t \in Ids(str'[payee])
    BY <1>4, <1>11
  <2> QED
    BY <1>5, <1>6, <2>1, <2>4, <2>5, <2>6, HandOn
<1>12. CASE t \notin P \cup C
  <2>1. \A v \in Wallets : \A e \in utr'[v] : e.id = t => e \in utr[v]
    BY <1>7, <1>9, <1>12
  <2>2. \A v \in Wallets : \A e \in utr'[v] : e.id = t => e \in Leading(t)
    BY <2>1, CopiesAre DEF Leading
  <2>3. \A v \in Wallets : \A e \in str'[v] : e.id = t => e \in str[v]
    BY <1>8, <1>9, <1>12
  <2> QED
    BY <1>5, <1>6, <2>2, <2>3, NoNewCopy
<1> QED
  BY <1>10, <1>11, <1>12

\* A token sent over a session is handed on, in the sender's spent register
\* and in the payload.
LEMMA SendPreservesLine ==
  ASSUME TypeOK, TypeOK', CustodyInv, LinearInv, NEW s \in Sessions, NEW nonce \in {0, 1},
         SendOverSession(s, nonce), NEW t \in Tokens \ Settled
  PROVE  Linear(Copies(t), Leading(t))'
<1> DEFINE w == discoveries[s].sender
           r == discoveries[s].receiver
<1>1. s \in DOMAIN discoveries /\ w \in Wallets /\ r \in Wallets
  BY DEF SendOverSession, TypeOK
<1>2. PICK c \in utr[w] :
        /\ utr' = [utr EXCEPT ![w] = Pop(@, {c.id})]
        /\ str' = [str EXCEPT ![w] = Put(@, {AppendTransfer(c, r)})]
        /\ payloads' = IF nonce > 0 THEN Set(payloads, s, AppendTransfer(c, r)) ELSE payloads
  BY DEF SendOverSession
<1> DEFINE n == AppendTransfer(c, r)
<1>3. n \in Copy /\ n.id = c.id
  BY <1>1, AppendTransferFacts DEF TypeOK, Register
<1>4. \A x \in DOMAIN payloads' :
        (x \in DOMAIN payloads /\ payloads'[x] = payloads[x]) \/ payloads'[x] = n
  BY <1>2 DEF Set
<1> HIDE DEF n, w, r
<1>5. \A v \in Wallets : \A e \in utr'[v] : e \in utr[v] /\ (v = w => e.id # c.id)
  BY <1>1, <1>2 DEF TypeOK, Pop
<1>6. /\ \A v \in Wallets : \A e \in str'[v] : e \in str[v] \/ e = n
      /\ \A v \in Wallets : Ids(str[v]) \subseteq Ids(str'[v])
      /\ c.id \in Ids(str'[w])
  <2>1. {n} \in Register /\ Ids({n}) = {c.id}
    BY <1>3, SingletonFacts
  <2>2. str[w] \in Register /\ str \in [Wallets -> Register]
    BY <1>1 DEF TypeOK
  <2>3. Ids(Put(str[w], {n})) = Ids(str[w]) \cup {c.id}
    BY <2>1, <2>2, PutFacts
  <2>4. \A e \in Put(str[w], {n}) : e \in str[w] \/ e = n
    BY DEF Put, Pop
  <2>5. str'[w] = Put(str[w], {n}) /\ \A v \in Wallets \ {w} : str'[v] = str[v]
    BY <1>1, <1>2, <2>2 DEF n
  <2> QED
    BY <2>3, <2>4, <2>5
<1>7. CASE t = c.id
  <2>1. \A v \in Wallets : \A e \in utr'[v] : e.id = t => e = n \/ (v # w /\ e \in utr[v])
    BY <1>5, <1>7
  <2> QED
    BY <1>1, <1>4, <1>6, <1>7, <2>1, HandOn DEF n
<1>8. CASE t # c.id
  <2>1. \A v \in Wallets : \A e \in utr'[v] : e.id = t => e \in Leading(t)
    BY <1>5, CopiesAre DEF Leading
  <2>2. \A v \in Wallets : \A e \in str'[v] : e.id = t => e \in str[v]
    BY <1>3, <1>6, <1>8
  <2>3. \A x \in DOMAIN payloads' : payloads'[x].id = t =>
          x \in DOMAIN payloads /\ payloads'[x] = payloads[x]
    BY <1>3, <1>4, <1>8
  <2> QED
    BY <1>6, <2>1, <2>2, <2>3, NoNewCopy
<1> QED
  BY <1>7, <1>8

\* Tokens spent without a payload are handed on in the spent register.
LEMMA LossPreservesLine ==
  ASSUME TypeOK, TypeOK', CustodyInv, LinearInv, NEW w \in Wallets, NEW receiver \in Wallets,
         NEW T \in SUBSET Ids(utr[w]), SendTokensRaises(w, receiver, T),
         NEW t \in Tokens \ Settled
  PROVE  Linear(Copies(t), Leading(t))'
<1> DEFINE sent == SentCopies(utr[w], T, receiver)
<1>1. /\ utr \in [Wallets -> Register] /\ str \in [Wallets -> Register]
      /\ utr[w] \in Register /\ str[w] \in Register
  BY DEF TypeOK
<1>2. sent \in Register /\ Ids(sent) = T /\ \A e \in sent : e.id \in T
  <2>1. sent \in Register /\ Ids(sent) = Ids(utr[w]) \cap T
    BY <1>1, SentFacts
  <2> QED
    BY <2>1 DEF Ids
<1>3. /\ utr'[w] = Pop(utr[w], T) /\ \A v \in Wallets \ {w} : utr'[v] = utr[v]
      /\ str'[w] = Put(str[w], sent) /\ \A v \in Wallets \ {w} : str'[v] = str[v]
      /\ payloads' = payloads
  BY <1>1 DEF SendTokensRaises, channelVars
<1> HIDE DEF sent
<1>4. \A v \in Wallets : \A e \in utr'[v] : e \in utr[v] /\ (v = w => e.id \notin T)
  BY <1>3 DEF Pop
<1>5. \A v \in Wallets : \A e \in str'[v] : e \in str[v] \/ e \in sent
  <2>1. \A e \in Put(str[w], sent) : e \in str[w] \/ e \in sent
    BY DEF Put, Pop
  <2> QED
    BY <1>3, <2>1
<1>6. /\ \A v \in Wallets : Ids(str[v]) \subseteq Ids(str'[v])
      /\ T \subseteq Ids(str'[w])
  <2>1. Ids(Put(str[w], sent)) = Ids(str[w]) \cup T
    BY <1>1, <1>2, PutFacts
  <2> QED
    BY <1>3, <2>1
<1>7. CASE t \in T
  <2>1. PICK c \in utr[w] : c.id = t
    BY <1>7 DEF Ids
  <2>2. \A e \in sent : e.id = t => e = AppendTransfer(c, receiver)
    BY <1>1, <2>1, SentOfOne DEF sent
  <2>3. \A v \in Wallets : \A e \in utr'[v] : e.id = t =>
          e = AppendTransfer(c, receiver) \/ (v # w /\ e \in utr[v])
    BY <1>4, <1>7
  <2>4. \A v \in Wallets : \A e \in str'[v] : e.id = t =>
          e = AppendTransfer(c, receiver) \/ e \in str[v]
    BY <1>5, <2>2
  <2> QED
    BY <1>3, <1>6, <1>7, <2>1, <2>3, <2>4, HandOn
<1>8. CASE t \notin T
  <2>1. \A v \in Wallets : \A e \in utr'[v] : e.id = t => e \in Leading(t)
    BY <1>4, CopiesAre DEF Leading
  <2>2. \A v \in Wallets : \A e \in str'[v] : e.id = t => e \in str[v]
    BY <1>2, <1>5, <1>8
  <2> QED
    BY <1>3, <1>6, <2>1, <2>2, NoNewCopy
<1> QED
  BY <1>7, <1>8

\* Taking a copy in makes none, and one that is accepted led already.
LEMMA ReceivePreservesLine ==
  ASSUME TypeOK, TypeOK', LinearInv, NEW w \in Wallets, NEW c,
         Accepts(w, str[w], c) => c \in Leading(c.id),
         ReceiveToken(w, c), payloads' = payloads, NEW t \in Tokens \ Settled
  PROVE  Linear(Copies(t), Leading(t))'
<1>1. str' = str /\ \A v \in Wallets : \A e \in utr'[v] :
        e \in utr[v] \/ (e = c /\ Accepts(w, str[w], c))
  <2>1. \A e \in Put(utr[w], {c}) : e \in utr[w] \/ e = c
    BY DEF Put, Pop
  <2> QED
    BY <2>1 DEF TypeOK, ReceiveToken
<1>2. \A v \in Wallets : \A e \in utr'[v] : e.id = t => e \in Leading(t)
  BY <1>1, CopiesAre DEF Leading
<1> QED
  BY <1>1, <1>2, NoNewCopy

\* A token put into a wallet for the first time has one copy, that of the
\* issuer, whose chain is empty.
LEMMA LoadPreservesLine ==
  ASSUME TypeOK, TypeOK', CustodyInv, LinearInv, NEW u \in Tokens, AddToken(u),
         NEW t \in Tokens \ Settled
  PROVE  Linear(Copies(t), Leading(t))'
<1> DEFINE n == Issued(u)
           w == IssuedTo[u]
<1>1. w \in Wallets /\ n.id = u /\ n.chain = <<>>
  BY WalletAssumption DEF Issued
<1>2. /\ u \in vault /\ str' = str /\ payloads' = payloads
      /\ utr' = [utr EXCEPT ![w] = Put(utr[w], {n})]
  BY DEF AddToken
<1> HIDE DEF n, w
<1>3. \A v \in Wallets : \A e \in utr'[v] : e \in utr[v] \/ e = n
  <2>1. \A e \in Put(utr[w], {n}) : e \in utr[w] \/ e = n
    BY DEF Put, Pop
  <2> QED
    BY <1>2, <2>1 DEF TypeOK
<1>4. CASE t = u
  <2>1. \A v \in Wallets : t \notin Ids(str[v]) /\ v \notin Custodians(t)
    BY <1>2, <1>4 DEF CustodyInv, VaultUntouched
  <2>2. /\ \A v \in Wallets : \A e \in utr[v] : e.id # t
        /\ \A v \in Wallets : \A e \in str[v] : e.id # t
    BY <2>1 DEF Custodians, Ids
  <2>3. \A s \in DOMAIN payloads : payloads[s].id # t
    <3>1. \A s \in DOMAIN payloads : payloads[s].owner \in Wallets
      BY DEF TypeOK, Copy
    <3> QED
      BY <2>1, <3>1 DEF Custodians
  <2>4. Copies(t)' \subseteq {n}
    BY <1>2, <1>3, <2>2, <2>3 DEF Copies
  <2>5. Leading(t)' \subseteq {n}
    BY <2>4 DEF Leading
  <2>6. Begins(n.chain, n.chain)
    BY <1>1 DEF Begins
  <2> QED
    BY <2>4, <2>5, <2>6 DEF Linear, Begins
<1>5. CASE t # u
  <2>1. \A v \in Wallets : \A e \in utr'[v] : e.id = t => e \in Leading(t)
    BY <1>1, <1>3, <1>5, CopiesAre DEF Leading
  <2> QED
    BY <1>2, <2>1, NoNewCopy
<1> QED
  BY <1>4, <1>5

\* A step that touches neither the registers nor the channel, whatever it
\* settles, leaves the copies.
LEMMA RestPreservesLine ==
  ASSUME LinearInv, UNCHANGED <<utr, str, payloads>>, Settled \subseteq Settled'
  PROVE  LinearInv'
<1>1. \A t : Copies(t)' = Copies(t) /\ Leading(t)' = Leading(t)
  BY DEF Copies, Leading
<1>2. \A t \in Tokens \ Settled' : Linear(Copies(t)', Leading(t)')
  BY <1>1 DEF LinearInv
<1> QED
  BY <1>2 DEF LinearInv, Linear, Begins

\* Every step leaves the copies of each unsettled token on one line.
LEMMA LinearStep ==
  ASSUME TypeOK, TypeOK', CustodyInv, LinearInv, [Next]_vars
  PROVE  LinearInv'
<1>1. ASSUME Settled' = Settled, \A t \in Tokens \ Settled : Linear(Copies(t), Leading(t))'
      PROVE  LinearInv'
  BY <1>1 DEF LinearInv
<1>2. ASSUME accepted' = accepted PROVE Settled' = Settled
  BY <1>2 DEF Settled
<1>3. ASSUME NEW t \in Tokens, AddToken(t) PROVE LinearInv'
  <2>1. accepted' = accepted
    BY <1>3 DEF AddToken
  <2> QED
    BY <1>1, <1>2, <1>3, <2>1, LoadPreservesLine
<1>4. ASSUME NEW payer \in Wallets, NEW payee \in Wallets, NEW price \in Prices,
             PayCash(payer, payee, price)
      PROVE  LinearInv'
  <2>1. accepted' = accepted
    BY <1>4 DEF PayCash
  <2> QED
    BY <1>1, <1>2, <1>4, <2>1, PayPreservesLine
<1>5. ASSUME NEW sender \in Wallets, NEW receiver \in Wallets, OpenSession(sender, receiver),
             UNCHANGED <<accepted, vault>>
      PROVE  LinearInv'
  BY <1>2, <1>5, RestPreservesLine DEF OpenSession
<1>6. ASSUME NEW s \in Sessions, NEW nonce \in {0, 1}, SendOverSession(s, nonce),
             UNCHANGED <<accepted, vault>>
      PROVE  LinearInv'
  BY <1>1, <1>2, <1>6, SendPreservesLine
<1>7. ASSUME NEW s \in Sessions, ReceiveOverSession(s), UNCHANGED <<accepted, vault>>
      PROVE  LinearInv'
  <2> DEFINE w == discoveries[s].receiver
             c == payloads[s]
  <2>1. s \in DOMAIN payloads /\ ReceiveToken(w, c) /\ payloads' = payloads /\ w \in Wallets
    BY <1>7 DEF ReceiveOverSession, channelVars, TypeOK
  <2>2. Accepts(w, str[w], c) => c \in Leading(c.id)
    <3>1. c \in Copies(c.id)
      BY <2>1, CopiesAre
    <3> QED
      BY <2>1, <3>1 DEF Leading, Accepts
  <2> HIDE DEF w, c
  <2>3. \A t \in Tokens \ Settled : Linear(Copies(t), Leading(t))'
    BY <2>1, <2>2, ReceivePreservesLine
  <2> QED
    BY <1>1, <1>2, <1>7, <2>3
<1>8. ASSUME NEW s \in Sessions, NEW w \in Wallets, ReceiveDamaged(s, w),
             UNCHANGED <<accepted, vault>>
      PROVE  LinearInv'
  <2> DEFINE d == [payloads[s] EXCEPT !.owner = w]
  <2>1. s \in DOMAIN payloads /\ w # payloads[s].owner /\ ReceiveToken(w, d) /\ payloads' = payloads
    BY <1>8 DEF ReceiveDamaged, channelVars
  <2>2. ~Accepts(w, str[w], d)
    BY <2>1, IntactFacts DEF CustodyInv
  <2> HIDE DEF d
  <2>3. \A t \in Tokens \ Settled : Linear(Copies(t), Leading(t))'
    BY <2>1, <2>2, ReceivePreservesLine
  <2> QED
    BY <1>1, <1>2, <1>8, <2>3
<1>9. ASSUME NEW w \in Wallets, NEW receiver \in Wallets, NEW T \in SUBSET Ids(utr[w]),
             SendTokensRaises(w, receiver, T), UNCHANGED <<accepted, vault>>
      PROVE  LinearInv'
  BY <1>1, <1>2, <1>9, LossPreservesLine
<1>10. ASSUME NEW w \in Wallets, NEW at \in Times, SubmitHeld(w, at) PROVE LinearInv'
  <2>1. Settled \subseteq Settled'
    BY <1>10 DEF SubmitHeld, Submit, Settled
  <2> QED
    BY <1>10, <2>1, RestPreservesLine DEF SubmitHeld
<1>11. ASSUME NEW w \in Wallets, NEW T \in SUBSET Tokens, Sync(w, T) PROVE LinearInv'
  <2>1. accepted' = accepted /\ utr' = utr /\ payloads' = payloads /\ T \subseteq Settled
    BY <1>11 DEF Sync
  <2>2. str'[w] = Pop(str[w], T) /\ \A v \in Wallets \ {w} : str'[v] = str[v]
    BY <1>11 DEF Sync, TypeOK
  <2>3. ASSUME NEW t \in Tokens \ Settled PROVE Linear(Copies(t), Leading(t))'
    <3>1. \A v \in Wallets : \A e \in utr'[v] : e.id = t => e \in Leading(t)
      BY <2>1, CopiesAre DEF Leading
    <3>2. \A v \in Wallets : \A e \in str'[v] : e.id = t => e \in str[v]
      BY <2>2 DEF Pop
    <3>3. \A v \in Wallets : t \in Ids(str[v]) => t \in Ids(str'[v])
      BY <2>1, <2>2 DEF Pop, Ids
    <3> QED
      BY <2>1, <3>1, <3>2, <3>3, NoNewCopy
  <2> QED
    BY <1>1, <1>2, <2>1, <2>3
<1>12. CASE UNCHANGED vars
  BY <1>2, <1>12, RestPreservesLine DEF vars
<1> QED
  BY <1>3, <1>4, <1>5, <1>6, <1>7, <1>8, <1>9, <1>10, <1>11, <1>12
  DEF Next, TransferToken, TransferNext

\* The copies that lead are the longest of one chain, in every reachable
\* state.
THEOREM Leads == Spec => []LinearInv
<1>1. Init => LinearInv
  <2>1. Init => \A t : Copies(t) = {} /\ Leading(t) = {}
    BY DEF Init, ChannelInit, NoEntries, Copies, Leading
  <2> QED
    BY <2>1 DEF LinearInv, Linear
<1>2. TypeOK /\ TypeOK' /\ CustodyInv /\ LinearInv /\ [Next]_vars => LinearInv'
  BY LinearStep
<1> QED
  BY <1>1, <1>2, Typing, Custody, PTL DEF Spec

\* Honest wallets never fork an unsettled token, however payloads are lost,
\* damaged or received again: its copies are lengths of one chain, and the
\* spendable one is the longest.
THEOREM OneLine == Spec => []CustodyIsLinear
<1>1. TypeOK /\ LinearInv => CustodyIsLinear
  <2> SUFFICES ASSUME TypeOK, LinearInv, NEW t \in Tokens \ Settled,
                      NEW c \in Copies(t), NEW d \in Copies(t)
               PROVE  /\ IsPrefix(c.chain, d.chain) \/ IsPrefix(d.chain, c.chain)
                      /\ c \in UNION {utr[w] : w \in Wallets} => IsPrefix(d.chain, c.chain)
    BY DEF CustodyIsLinear
  <2>1. c.chain \in Seq(Transfer) /\ d.chain \in Seq(Transfer)
    <3>1. c \in Copy /\ d \in Copy
      BY CopiesAre
    <3> QED
      BY <3>1 DEF Copy
  <2>2. Begins(c.chain, d.chain) \/ Begins(d.chain, c.chain)
    BY DEF LinearInv, Linear
  <2>3. c \in UNION {utr[w] : w \in Wallets} => Begins(d.chain, c.chain)
    BY DEF LinearInv, Linear, Leading
  <2>4. /\ Begins(c.chain, d.chain) => IsPrefix(c.chain, d.chain)
        /\ Begins(d.chain, c.chain) => IsPrefix(d.chain, c.chain)
    BY <2>1, BeginsIsPrefix
  <2> QED
    BY <2>2, <2>3, <2>4
<1> QED
  BY <1>1, Leads, Typing, PTL

-----------------------------------------------------------------------------
(* Re-use and settlement *)

\* A step removes a token from a spent register only by a sync, which names
\* settled tokens.
LEMMA SpentStays ==
  ASSUME TypeOK, [Next]_vars, NEW w \in Wallets, NEW t \in Ids(str[w]) \ Settled
  PROVE  t \in Ids(str'[w])
<1> USE DEF TypeOK
<1>1. ASSUME NEW payer \in Wallets, NEW payee \in Wallets, NEW price \in Prices,
             PayCash(payer, payee, price)
      PROVE  t \in Ids(str'[w])
  <2>1. payer # payee
    BY <1>1 DEF PayCash, Cash!Pay
  <2>2. \A reg : Cash!Ids(reg) = Ids(reg)
    BY SameOperators
  <2>3. PICK P \in SUBSET Ids(utr[payer]), C \in SUBSET Ids(utr[payee]) :
          Cash!Exchange(payer, payee, P, C)
    BY <1>1, <2>2 DEF PayCash, Cash!Pay
  <2>4. /\ Ids(utr'[payer]) = (Ids(utr[payer]) \ P) \cup C
        /\ Ids(utr'[payee]) = (Ids(utr[payee]) \ C) \cup P
        /\ Ids(str'[payer]) = Ids(str[payer]) \cup P
        /\ Ids(str'[payee]) = Ids(str[payee]) \cup C
        /\ \A v \in Wallets \ {payer, payee} : utr'[v] = utr[v] /\ str'[v] = str[v]
    BY <2>1, <2>3, ExchangeIds
  <2> QED
    BY <2>4
<1>2. ASSUME NEW s \in Sessions, NEW nonce \in {0, 1}, SendOverSession(s, nonce)
      PROVE  t \in Ids(str'[w])
  <2> DEFINE v == discoveries[s].sender
             r == discoveries[s].receiver
  <2>1. v \in Wallets /\ r \in Wallets
    BY <1>2 DEF SendOverSession
  <2>2. PICK c \in utr[v] : str' = [str EXCEPT ![v] = Put(@, {AppendTransfer(c, r)})]
    BY <1>2 DEF SendOverSession
  <2>3. AppendTransfer(c, r) \in Copy
    BY <2>1, <2>2, AppendTransferFacts DEF Register
  <2>4. {AppendTransfer(c, r)} \in Register
    BY <2>3, SingletonFacts
  <2>5. Ids(str[v]) \subseteq Ids(Put(str[v], {AppendTransfer(c, r)}))
    BY <2>1, <2>4, PutFacts
  <2> QED
    BY <2>1, <2>2, <2>5
<1>3. ASSUME NEW v \in Wallets, NEW receiver \in Wallets, NEW T \in SUBSET Ids(utr[v]),
             SendTokensRaises(v, receiver, T)
      PROVE  t \in Ids(str'[w])
  <2>1. SentCopies(utr[v], T, receiver) \in Register
    BY SentFacts
  <2>2. Ids(str[v]) \subseteq Ids(Put(str[v], SentCopies(utr[v], T, receiver)))
    BY <2>1, PutFacts
  <2> QED
    BY <1>3, <2>2 DEF SendTokensRaises
<1>4. ASSUME NEW v \in Wallets, NEW T \in SUBSET Tokens, Sync(v, T) PROVE t \in Ids(str'[w])
  <2>1. Ids(Pop(str[v], T)) = Ids(str[v]) \ T
    BY PopFacts
  <2> QED
    BY <1>4, <2>1 DEF Sync
<1>5. CASE UNCHANGED str
  BY <1>5
<1> QED
  BY <1>1, <1>2, <1>3, <1>4, <1>5
  DEF Next, TransferToken, TransferNext, AddToken, OpenSession, ReceiveOverSession,
      ReceiveDamaged, ReceiveToken, SubmitHeld, vars

\* A wallet that has spent a token cannot spend it again before the token is
\* settled.
THEOREM NoReuse == Spec => NoReuseBeforeSettlement
<1>1. TypeOK /\ TypeOK' /\ CustodyInv' /\ [Next]_vars
        => [\A w \in Wallets : \A t \in Ids(str[w]) \ Settled :
              t \in Ids(str'[w]) /\ t \notin Ids(utr'[w])]_vars
  BY SpentStays DEF CustodyInv, RegistersDisjoint
<1> QED
  BY <1>1, Typing, Custody, PTL DEF Spec, NoReuseBeforeSettlement

\* The engine settles a token once, by its first valid claim.
THEOREM SettlesFirstClaim == Spec => ImplementsFirstClaim
<1>1. Init => Claims!Init
  BY DEF Init, EngineInit, Claims!Init
<1>2. TypeOK /\ [Next]_vars => [Claims!Next]_accepted
  <2> SUFFICES ASSUME TypeOK, [Next]_vars PROVE [Claims!Next]_accepted
    OBVIOUS
  <2>1. ASSUME NEW w \in Wallets, NEW at \in Times, SubmitHeld(w, at) PROVE Claims!Next
    <3>1. PICK c \in utr[w] \cup str[w] : Submit(c, at)
      BY <2>1 DEF SubmitHeld
    <3>2. c.id \in Tokens
      BY DEF TypeOK, Register, Copy
    <3>3. c.id \notin Settled /\ at <= Expiry[c.id]
      BY <3>1, <3>2, ReconciliationAssumption DEF Submit, Reason
    <3> QED
      BY <3>1, <3>2, <3>3 DEF Submit, Settled, Claims!Next, Claims!Claim
  <2>2. CASE UNCHANGED accepted
    BY <2>2
  <2> QED
    BY <2>1, <2>2
    DEF Next, TransferToken, PayCash, AddToken, Sync, vars
<1> QED
  BY <1>1, <1>2, Typing, PTL DEF Spec, ImplementsFirstClaim, Claims!Spec
=============================================================================
