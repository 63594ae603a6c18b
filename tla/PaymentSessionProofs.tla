------------------------ MODULE PaymentSessionProofs ------------------------
(***************************************************************************)
(* Proofs about PaymentSession, for any wallets, tokens and prices.        *)
(***************************************************************************)
EXTENDS PaymentSession, WalletLemmas, SelectionLemmas

(* The inductive invariant: the registers of a running session are those it *)
(* began with and what its statements have done to them so far.            *)

\* No token is spendable twice, and what a wallet has spent another can spend.
Intact(u, s) ==
  /\ \A t \in Tokens, v, w \in Wallets : t \in Ids(u[v]) /\ t \in Ids(u[w]) => v = w
  /\ \A w \in Wallets : \A t \in Ids(s[w]) : \E v \in Wallets \ {w} : t \in Ids(u[v])

PaidIds == Ids(session.paid)

\* What select_tokens returned for the price.
PaysThePrice ==
  /\ PaidIds \subseteq Ids(session.utrBefore[session.payer])
  /\ session.paid = SentCopies(session.utrBefore[session.payer], PaidIds, session.payee)
  /\ session.price >= 0 /\ Worth(Value, PaidIds) >= session.price

Opened ==
  /\ utr = session.utrBefore /\ str = session.strBefore
  /\ session.paid = {} /\ session.inFlight = {}

\* Some of the payment has been taken in by the payee.
Paying ==
  LET delivered == session.paid \ session.inFlight
      sent == [session.utrBefore EXCEPT ![session.payer] = Pop(@, PaidIds)]
  IN /\ PaysThePrice
     /\ session.inFlight \subseteq session.paid
     /\ utr = [sent EXCEPT ![session.payee] = Put(@, delivered)]
     /\ str = [session.strBefore EXCEPT ![session.payer] = Put(@, session.paid)]
     /\ Ids(delivered) \cap Ids(str[session.payee]) = {}

\* The payee has received the payment, and some of the change it made with the
\* tokens C has been taken in by the payer.
Returning(C) ==
  LET held == Put(session.utrBefore[session.payee], session.paid)
      change == SentCopies(held, C, session.payer)
      excess == Worth(Value, PaidIds) - session.price
  IN /\ session.payer # session.payee
     /\ PaysThePrice
     /\ PaidIds \cap Ids(session.strBefore[session.payee]) = {}
     /\ C \subseteq Ids(held)
     /\ IF excess = 0 THEN C = {} ELSE Worth(Value, C) >= excess
     /\ session.inFlight \subseteq change
     /\ utr = [session.utrBefore EXCEPT
                 ![session.payer] = Put(Pop(@, PaidIds), change \ session.inFlight),
                 ![session.payee] = Pop(held, C)]
     /\ str = [session.strBefore EXCEPT ![session.payer] = Put(@, session.paid),
                                        ![session.payee] = Put(@, change)]
     /\ Ids(change \ session.inFlight) \cap Ids(str[session.payer]) = {}

\* A wallet that pays itself returns only from a payment of nothing.
ReturningNothing == session.payer = session.payee /\ session.price = 0 /\ Opened

SessionInv ==
  /\ TypeOK
  /\ ~Running => Intact(utr, str)
  /\ Running => Intact(session.utrBefore, session.strBefore)
  /\ session.phase = "open" => Opened
  /\ session.phase = "paying" => Paying
  /\ session.phase = "returning" =>
       ReturningNothing \/ \E C \in SUBSET Tokens : Returning(C)
-----------------------------------------------------------------------------
(* Types *)

\* A running session has the fields its statements use.
LEMMA RunningSession ==
  ASSUME TypeOK, Running
  PROVE  session \in Session
BY DEF TypeOK, Running, Idle

\* transfer_over_channel (protocol/transfer_protocol.py) leaves registers
\* and a session of the right type, whether or not its payload arrives.
LEMMA DeliverTypes ==
  ASSUME TypeOK, Running, NEW w \in Wallets, Deliver(w)
  PROVE  TypeOK'
<1>1. PICK c \in session.inFlight :
        /\ utr' = [utr EXCEPT ![w] = Put(@, {c})]
        /\ session' = [session EXCEPT !.inFlight = @ \ {c}]
  BY DEF Deliver
<1>2. session \in Session
  BY RunningSession
<1>3. c \in Copy /\ session.inFlight \ {c} \in Register
  BY <1>2 DEF Session, Register
<1>4. Put(utr[w], {c}) \in Register
  BY <1>3, SingletonFacts, PutFacts DEF TypeOK
<1>5. session' \in Session
  BY <1>1, <1>2, <1>3 DEF Session
<1> QED
  BY <1>1, <1>4, <1>5 DEF TypeOK, Deliver

\* Every statement of execute leaves registers in the wallets and in the
\* session's locals.
LEMMA TypeStep ==
  ASSUME TypeOK, [Next]_vars
  PROVE  TypeOK'
<1>1. ASSUME NEW payer \in Wallets, NEW payee \in Wallets, NEW price \in Prices,
             Begin(payer, payee, price)
      PROVE  TypeOK'
  <2>1. {} \in Register
    BY DEF Register
  <2> QED
    BY <1>1, <2>1 DEF Begin, TypeOK, Session, Phases
<1>2. CASE InitiatePayment
  <2>1. session \in Session
    BY <1>2, RunningSession DEF InitiatePayment, Running
  <2>2. PICK T \in Selected(utr[session.payer], session.price) :
          /\ utr' = [utr EXCEPT ![session.payer] = Pop(@, T)]
          /\ str' = [str EXCEPT ![session.payer] =
                       Put(@, SentCopies(utr[session.payer], T, session.payee))]
          /\ session' = [session EXCEPT
                           !.phase = "paying",
                           !.paid = SentCopies(utr[session.payer], T, session.payee),
                           !.inFlight = SentCopies(utr[session.payer], T, session.payee)]
    BY Zenon, <1>2 DEF InitiatePayment
  <2>3. session.payer \in Wallets /\ session.payee \in Wallets
    BY <2>1 DEF Session
  <2> DEFINE sent == SentCopies(utr[session.payer], T, session.payee)
  <2>4. sent \in Register /\ Pop(utr[session.payer], T) \in Register
    BY <2>3, SentFacts, PopFacts DEF TypeOK
  <2> HIDE DEF sent
  <2>5. Put(str[session.payer], sent) \in Register
    BY <2>3, <2>4, PutFacts DEF TypeOK
  <2>6. session' \in Session
    BY <2>1, <2>2, <2>4 DEF Session, Phases, sent
  <2> QED
    BY <2>2, <2>3, <2>4, <2>5, <2>6 DEF TypeOK, sent
<1>3. CASE ReceivePayment
  <2>1. Running /\ session.payee \in Wallets
    BY <1>3, RunningSession DEF ReceivePayment, Running, Session
  <2> QED
    BY <1>3, <2>1, DeliverTypes DEF ReceivePayment
<1>4. CASE ReturnChange
  <2>1. session \in Session
    BY <1>4, RunningSession DEF ReturnChange, Running
  <2>2. PICK T \in Selected(utr[session.payee], ValueOf(session.paid) - session.price) :
          /\ utr' = [utr EXCEPT ![session.payee] = Pop(@, T)]
          /\ str' = [str EXCEPT ![session.payee] =
                       Put(@, SentCopies(utr[session.payee], T, session.payer))]
          /\ session' = [session EXCEPT
                           !.phase = "returning",
                           !.inFlight = SentCopies(utr[session.payee], T, session.payer)]
    BY Zenon, <1>4 DEF ReturnChange
  <2>3. session.payer \in Wallets /\ session.payee \in Wallets
    BY <2>1 DEF Session
  <2> DEFINE sent == SentCopies(utr[session.payee], T, session.payer)
  <2>4. sent \in Register /\ Pop(utr[session.payee], T) \in Register
    BY <2>3, SentFacts, PopFacts DEF TypeOK
  <2> HIDE DEF sent
  <2>5. Put(str[session.payee], sent) \in Register
    BY <2>3, <2>4, PutFacts DEF TypeOK
  <2>6. session' \in Session
    BY <2>1, <2>2, <2>4 DEF Session, Phases, sent
  <2> QED
    BY <2>2, <2>3, <2>4, <2>5, <2>6 DEF TypeOK, sent
<1>5. CASE ReceiveChange
  <2>1. Running /\ session.payer \in Wallets
    BY <1>5, RunningSession DEF ReceiveChange, Running, Session
  <2> QED
    BY <1>5, <2>1, DeliverTypes DEF ReceiveChange
<1>6. CASE Commit
  BY <1>6 DEF Commit, TypeOK
<1>7. CASE Rollback
  <2>1. session \in Session
    BY <1>7, RunningSession DEF Rollback, Raises, Running
  <2> QED
    BY <1>7, <2>1 DEF Rollback, TypeOK, Session
<1>8. CASE UNCHANGED vars
  BY <1>8 DEF vars, TypeOK
<1> QED
  BY <1>1, <1>2, <1>3, <1>4, <1>5, <1>6, <1>7, <1>8 DEF Next, Step

\* The wallets are typed before any payment.
LEMMA InitTypes == Init => TypeOK
<1> SUFFICES ASSUME Init PROVE TypeOK
  OBVIOUS
<1>1. PICK loaded \in SUBSET Tokens : utr = LoadedRegisters(loaded)
  BY DEF Init
<1>2. ASSUME NEW w \in Wallets PROVE utr[w] \in Register
  <2>1. \A t \in loaded : Issued(t) \in Copy /\ Issued(t).id = t
    BY WalletAssumption DEF Issued, Copy
  <2> QED
    BY <1>1, <2>1 DEF LoadedRegisters, Register
<1>3. utr \in [Wallets -> Register] /\ {} \in Register
  BY <1>1, <1>2 DEF LoadedRegisters, Register
<1> QED
  BY <1>3 DEF Init, TypeOK

\* Every register holds at most one well-formed copy of a token, and so do the
\* registers a running execute would go back to (payment_session.py:30-33).
THEOREM Typing == Spec => []TypeOK
<1>1. TypeOK /\ [Next]_vars => TypeOK'
  BY TypeStep
<1> QED
  BY InitTypes, <1>1, PTL DEF Spec
-----------------------------------------------------------------------------
(* The statements of execute *)

\* At the start the loaded tokens are each spendable by the wallet they were
\* issued to.
LEMMA InitIntact ==
  ASSUME Init
  PROVE  SessionInv
<1>1. TypeOK
  BY InitTypes
<1>2. Intact(utr, str)
  <2>1. PICK loaded \in SUBSET Tokens : utr = LoadedRegisters(loaded)
    BY DEF Init
  <2>2. \A w \in Wallets, t \in Tokens : t \in Ids(utr[w]) => IssuedTo[t] = w
    BY <2>1 DEF LoadedRegisters, Ids, Issued
  <2>3. \A w \in Wallets : Ids(str[w]) = {}
    BY DEF Init, Ids
  <2> QED
    BY <2>2, <2>3 DEF Intact
<1>3. session.phase = "idle"
  BY DEF Init, Idle
<1> QED
  BY <1>1, <1>2, <1>3 DEF SessionInv, Running

\* Starting a payment, which only notes what the wallets held, preserves
\* the invariant.
LEMMA BeginStep ==
  ASSUME SessionInv, TypeOK', NEW payer \in Wallets, NEW payee \in Wallets, NEW price \in Prices,
         Begin(payer, payee, price)
  PROVE  SessionInv'
<1>1. /\ session'.phase = "open" /\ session'.utrBefore = utr /\ session'.strBefore = str
      /\ session'.paid = {} /\ session'.inFlight = {} /\ utr' = utr /\ str' = str
  BY DEF Begin
<1>2. Intact(utr, str)
  BY DEF SessionInv, Begin
<1>3. Intact(session.utrBefore, session.strBefore)' /\ Opened'
  BY <1>1, <1>2 DEF Intact, Opened
<1> QED
  BY <1>1, <1>3 DEF SessionInv, Running

\* The payer's selection and first transfer preserve the invariant.
LEMMA InitiateStep ==
  ASSUME SessionInv, TypeOK', InitiatePayment
  PROVE  SessionInv'
<1> DEFINE pr == session.payer
           pe == session.payee
<1>1. session.phase = "open" /\ session \in Session
  BY RunningSession DEF InitiatePayment, Running, SessionInv
<1>2. pr \in Wallets /\ pe \in Wallets /\ session.price \in Int
  BY <1>1, PriceAssumption DEF Session
<1>3. Opened /\ Intact(session.utrBefore, session.strBefore) /\ TypeOK
  BY <1>1 DEF SessionInv, Running
<1>4. PICK T \in Selected(utr[pr], session.price) :
        /\ utr' = [utr EXCEPT ![pr] = Pop(@, T)]
        /\ str' = [str EXCEPT ![pr] = Put(@, SentCopies(utr[pr], T, pe))]
        /\ session' = [session EXCEPT !.phase = "paying",
                                      !.paid = SentCopies(utr[pr], T, pe),
                                      !.inFlight = SentCopies(utr[pr], T, pe)]
  BY Zenon DEF InitiatePayment
<1> DEFINE sent == SentCopies(utr[pr], T, pe)
<1>5. T \in SUBSET Ids(utr[pr]) /\ session.price >= 0 /\ Worth(Value, T) >= session.price
  BY <1>2, SelectTokensFacts DEF Selected
<1>6. Ids(sent) = T
  <2>1. Ids(sent) = Ids(utr[pr]) \cap T
    BY <1>2, <1>3, SentFacts DEF TypeOK
  <2> QED
    BY <1>5, <2>1
<1>7. /\ session'.phase = "paying" /\ session'.payer = pr /\ session'.payee = pe
      /\ session'.price = session.price
      /\ session'.utrBefore = utr /\ session'.strBefore = str
      /\ session'.paid = sent /\ session'.inFlight = sent
  BY <1>1, <1>3, <1>4 DEF Session, Opened
<1>8. PaysThePrice'
  BY <1>5, <1>6, <1>7 DEF PaysThePrice, PaidIds
<1>9. Paying'
  <2>1. session'.paid \ session'.inFlight = {}
    BY <1>7
  <2>2. utr' = [[utr EXCEPT ![pr] = Pop(@, T)] EXCEPT ![pe] = Put(@, {})]
    <3> DEFINE X == [utr EXCEPT ![pr] = Pop(@, T)]
    <3>1. X = [w \in Wallets |-> X[w]] /\ Put(X[pe], {}) = X[pe]
      BY <1>3, NothingFacts DEF TypeOK
    <3> HIDE DEF X
    <3>2. X = [X EXCEPT ![pe] = Put(@, {})]
      BY <3>1
    <3> QED
      BY <1>4, <3>2 DEF X
  <2>3. Ids({}) = {}
    BY DEF Ids
  <2> QED
    BY <1>4, <1>6, <1>7, <1>8, <2>1, <2>2, <2>3 DEF Paying, PaidIds
<1>10. Intact(session.utrBefore, session.strBefore)'
  BY <1>3, <1>7 DEF Intact, Opened
<1> QED
  BY <1>7, <1>9, <1>10 DEF SessionInv, Running

\* The payee's receipt of the price preserves the invariant, whether it
\* accepts, refuses or has nothing to receive.
LEMMA ReceivePaymentStep ==
  ASSUME SessionInv, TypeOK', ReceivePayment
  PROVE  SessionInv'
<1> DEFINE pr == session.payer
           pe == session.payee
           D == session.paid \ session.inFlight
<1>1. session.phase = "paying" /\ session \in Session
  BY RunningSession DEF ReceivePayment, Running, SessionInv
<1>2. pr \in Wallets /\ pe \in Wallets /\ session.paid \in Register
  BY <1>1 DEF Session
<1>3. Paying /\ Intact(session.utrBefore, session.strBefore) /\ TypeOK
  BY <1>1 DEF SessionInv, Running
<1>4. PICK c \in session.inFlight :
        /\ Accepts(pe, str[pe], c)
        /\ utr' = [utr EXCEPT ![pe] = Put(@, {c})]
        /\ session' = [session EXCEPT !.inFlight = @ \ {c}]
        /\ str' = str
  BY DEF ReceivePayment, Deliver
<1>5. /\ session'.phase = "paying" /\ session'.payer = pr /\ session'.payee = pe
      /\ session'.price = session.price
      /\ session'.utrBefore = session.utrBefore /\ session'.strBefore = session.strBefore
      /\ session'.paid = session.paid /\ session'.inFlight = session.inFlight \ {c}
  BY <1>1, <1>4 DEF Session
<1>6. PaysThePrice'
  BY <1>3, <1>5 DEF Paying, PaysThePrice, PaidIds
<1>7. c \in session.paid /\ (session.paid \ session.inFlight)' = D \cup {c} /\ c \notin D
  BY <1>3, <1>5 DEF Paying
<1>8. Paying'
  <2> DEFINE X == [session.utrBefore EXCEPT ![pr] = Pop(@, PaidIds)]
  <2>1. utr = [X EXCEPT ![pe] = Put(@, D)] /\ X \in [Wallets -> SUBSET Copy]
    <3>1. session.utrBefore \in [Wallets -> Register]
      BY <1>1 DEF Session
    <3>2. Pop(session.utrBefore[pr], PaidIds) \in Register
      BY <1>2, <3>1, PopFacts
    <3> QED
      BY <1>3, <3>1, <3>2 DEF Paying, Register
  <2>2. Put(Put(X[pe], D), {c}) = Put(X[pe], D \cup {c})
    <3>1. D \in SUBSET session.paid /\ c \in session.paid \ D
      BY <1>7
    <3> HIDE DEF X, D
    <3> QED
      BY <1>2, <3>1, PutOneMore
  <2>3. utr' = [X EXCEPT ![pe] = Put(@, D \cup {c})]
    <3> HIDE DEF X, D
    <3> QED
      BY <1>2, <1>4, <2>1, <2>2
  <2>4. Ids(D \cup {c}) \cap Ids(str[pe]) = {}
    <3>1. Ids(D) \cap Ids(str[pe]) = {} /\ c.id \notin Ids(str[pe])
      BY <1>3, <1>4 DEF Paying, Accepts
    <3>2. Ids(D \cup {c}) = Ids(D) \cup {c.id}
      BY DEF Ids
    <3> QED
      BY <3>1, <3>2
  <2>5. str' = [session.strBefore EXCEPT ![pr] = Put(@, session.paid)]
    BY <1>3, <1>4 DEF Paying
  <2>6. PaidIds' = PaidIds
    BY <1>5 DEF PaidIds
  <2> HIDE DEF D
  <2> QED
    BY <1>3, <1>4, <1>5, <1>6, <1>7, <2>3, <2>4, <2>5, <2>6 DEF Paying
<1>9. Intact(session.utrBefore, session.strBefore)'
  BY <1>3, <1>5 DEF Intact
<1> QED
  BY <1>5, <1>8, <1>9 DEF SessionInv, Running

\* A wallet that pays itself accepts none of its own payload, so that its
\* session gets past the delivery loop only with a payment of nothing.
LEMMA ReturnStep ==
  ASSUME SessionInv, TypeOK', ReturnChange
  PROVE  SessionInv'
<1> DEFINE pr == session.payer
           pe == session.payee
           held == Put(session.utrBefore[pe], session.paid)
           excess == Worth(Value, PaidIds) - session.price
<1>1. session.phase = "paying" /\ session \in Session /\ session.inFlight = {}
  BY RunningSession DEF ReturnChange, Running, SessionInv
<1>2. /\ pr \in Wallets /\ pe \in Wallets /\ session.paid \in Register
      /\ session.price \in Int
      /\ session.utrBefore \in [Wallets -> Register] /\ session.strBefore \in [Wallets -> Register]
  BY <1>1, PriceAssumption DEF Session
<1>3. Paying /\ Intact(session.utrBefore, session.strBefore) /\ TypeOK
  BY <1>1 DEF SessionInv, Running
<1>4. PICK T \in Selected(utr[pe], excess) :
        /\ utr' = [utr EXCEPT ![pe] = Pop(@, T)]
        /\ str' = [str EXCEPT ![pe] = Put(@, SentCopies(utr[pe], T, pr))]
        /\ session' = [session EXCEPT !.phase = "returning",
                                      !.inFlight = SentCopies(utr[pe], T, pr)]
  BY Zenon DEF ReturnChange, ValueOf, PaidIds
<1> DEFINE change == SentCopies(utr[pe], T, pr)
<1>5. /\ session'.phase = "returning" /\ session'.payer = pr /\ session'.payee = pe
      /\ session'.price = session.price
      /\ session'.utrBefore = session.utrBefore /\ session'.strBefore = session.strBefore
      /\ session'.paid = session.paid /\ session'.inFlight = change
  BY <1>1, <1>4 DEF Session
<1>6. session.paid \ session.inFlight = session.paid
  BY <1>1
<1>7. /\ PaysThePrice
      /\ utr = [[session.utrBefore EXCEPT ![pr] = Pop(@, PaidIds)] EXCEPT
                  ![pe] = Put(@, session.paid)]
      /\ str = [session.strBefore EXCEPT ![pr] = Put(@, session.paid)]
      /\ PaidIds \cap Ids(str[pe]) = {}
  BY <1>3, <1>6 DEF Paying, PaidIds
<1>8. excess \in Int
  <2>1. PaidIds \in SUBSET Tokens
    BY <1>2 DEF PaidIds, Ids, Register, Copy
  <2>2. IsFiniteSet(PaidIds) /\ \A t \in PaidIds : Value[t] \in Nat
    BY <2>1, WalletAssumption, FS_Subset
  <2>3. Worth(Value, PaidIds) \in Nat
    BY <2>2, WorthType
  <2> QED
    BY <1>2, <2>3
<1>9. /\ T \in SUBSET Ids(utr[pe]) /\ excess >= 0 /\ Worth(Value, T) >= excess
      /\ excess = 0 => T = {}
  <2> HIDE DEF excess
  <2> QED
    BY <1>8, SelectTokensFacts DEF Selected
<1>10. CASE pr = pe
  <2>1. PaidIds = {} /\ session.paid = {}
    <3>1. Ids(str[pe]) = Ids(session.strBefore[pe]) \cup PaidIds
      BY <1>2, <1>7, <1>10, PutFacts DEF PaidIds
    <3>2. PaidIds = {}
      BY <1>7, <3>1
    <3> QED
      BY <3>2 DEF PaidIds, Ids
  <2>2. T = {} /\ session.price = 0
    <3>1. Worth(Value, {}) = 0
      BY FS_EmptySet, WorthRecursion
    <3> QED
      BY <1>2, <1>7, <1>9, <2>1, <3>1 DEF PaysThePrice
  <2>3. change = {}
    BY <2>2, NothingFacts
  <2>4. utr = session.utrBefore /\ str = session.strBefore
    <3>1. /\ [session.utrBefore EXCEPT ![pr] = Pop(@, {})] = session.utrBefore
          /\ [session.utrBefore EXCEPT ![pr] = Put(@, {})] = session.utrBefore
          /\ [session.strBefore EXCEPT ![pr] = Put(@, {})] = session.strBefore
      BY <1>2, NothingFacts
    <3> QED
      BY <1>7, <1>10, <2>1, <3>1
  <2>5. utr' = utr /\ str' = str
    <3>1. [utr EXCEPT ![pe] = Pop(@, {})] = utr /\ [str EXCEPT ![pe] = Put(@, {})] = str
      BY <1>3, NothingFacts DEF TypeOK
    <3> QED
      BY <1>4, <2>2, <2>3, <3>1
  <2>6. ReturningNothing'
    BY <1>5, <1>10, <2>1, <2>2, <2>3, <2>4, <2>5 DEF ReturningNothing, Opened
  <2>7. Intact(session.utrBefore, session.strBefore)'
    BY <1>3, <1>5 DEF Intact
  <2> QED
    BY <1>5, <2>6, <2>7 DEF SessionInv, Running
<1>11. CASE pr # pe
  <2>1. utr[pe] = held /\ str[pe] = session.strBefore[pe]
    BY <1>2, <1>7, <1>11
  <2>2. PaidIds' = PaidIds /\ PaysThePrice'
    BY <1>5, <1>7 DEF PaysThePrice, PaidIds
  <2>3. change \ session'.inFlight = {} /\ Ids({}) = {} /\ change = SentCopies(held, T, pr)
    BY <1>5, <2>1 DEF Ids
  <2>4. utr' = [session.utrBefore EXCEPT ![pr] = Put(Pop(@, PaidIds), {}), ![pe] = Pop(held, T)]
    <3>1. Put(Pop(session.utrBefore[pr], PaidIds), {}) = Pop(session.utrBefore[pr], PaidIds)
      BY NothingFacts
    <3> HIDE DEF held
    <3> QED
      BY <1>2, <1>4, <1>7, <1>11, <2>1, <3>1
  <2>5. str' = [session.strBefore EXCEPT ![pr] = Put(@, session.paid), ![pe] = Put(@, change)]
    <3> HIDE DEF change
    <3> QED
      BY <1>2, <1>4, <1>7, <1>11, <2>1 DEF change
  <2>6. T \in SUBSET Ids(held) /\ T \in SUBSET Tokens
    BY <1>2, <1>3, <1>9, <2>1 DEF TypeOK, Ids, Register, Copy
  <2>7. Returning(T)'
    <3> HIDE DEF held, change, excess
    <3> USE <1>5 DEF PaidIds
    <3>1. (Put(session.utrBefore[session.payee], session.paid))' = held
      BY DEF held
    <3>2. (Worth(Value, PaidIds) - session.price)' = excess
      BY DEF excess
    <3> QED
      BY <1>7, <1>9, <1>11, <2>1, <2>2, <2>3, <2>4, <2>5, <2>6, <3>1, <3>2 DEF Returning
  <2>8. Intact(session.utrBefore, session.strBefore)'
    BY <1>3, <1>5 DEF Intact
  <2> QED
    BY <1>5, <2>6, <2>7, <2>8 DEF SessionInv, Running
<1> QED
  BY <1>10, <1>11

\* The payer's receipt of the change preserves the invariant, and with it
\* the payment is whole.
LEMMA ReceiveChangeStep ==
  ASSUME SessionInv, TypeOK', ReceiveChange
  PROVE  SessionInv'
<1> DEFINE pr == session.payer
           pe == session.payee
<1>1. session.phase = "returning" /\ session \in Session
  BY RunningSession DEF ReceiveChange, Running, SessionInv
<1>2. /\ pr \in Wallets /\ pe \in Wallets
      /\ session.utrBefore \in [Wallets -> Register] /\ session.strBefore \in [Wallets -> Register]
  BY <1>1 DEF Session
<1>3. PICK c \in session.inFlight :
        /\ Accepts(pr, str[pr], c)
        /\ utr' = [utr EXCEPT ![pr] = Put(@, {c})]
        /\ session' = [session EXCEPT !.inFlight = @ \ {c}]
        /\ str' = str
  BY DEF ReceiveChange, Deliver
<1>4. PICK C \in SUBSET Tokens : Returning(C)
  BY <1>1, <1>3 DEF SessionInv, ReturningNothing, Opened
<1> DEFINE held == Put(session.utrBefore[pe], session.paid)
           change == SentCopies(held, C, pr)
           D == change \ session.inFlight
           sent == Pop(session.utrBefore[pr], PaidIds)
<1>5. /\ session'.phase = "returning" /\ session'.payer = pr /\ session'.payee = pe
      /\ session'.price = session.price
      /\ session'.utrBefore = session.utrBefore /\ session'.strBefore = session.strBefore
      /\ session'.paid = session.paid /\ session'.inFlight = session.inFlight \ {c}
  BY <1>1, <1>3 DEF Session
<1>6. change \in Register
  <2>1. session.paid \in Register
    BY <1>1 DEF Session
  <2>2. held \in Register
    BY <1>2, <2>1, PutFacts
  <2> HIDE DEF held
  <2> QED
    BY <1>2, <2>2, SentFacts
<1>7. /\ pr # pe /\ session.inFlight \subseteq change
      /\ utr = [session.utrBefore EXCEPT ![pr] = Put(sent, D), ![pe] = Pop(held, C)]
      /\ Ids(D) \cap Ids(str[pr]) = {}
  BY <1>4 DEF Returning
<1> HIDE DEF change, held, sent
<1>8. c \in change /\ c \notin D /\ change \ session'.inFlight = D \cup {c}
  BY <1>5, <1>7
<1>9. Put(Put(sent, D), {c}) = Put(sent, D \cup {c})
  <2>1. D \in SUBSET change /\ c \in change \ D
    BY <1>8
  <2> HIDE DEF D
  <2> QED
    BY <1>6, <2>1, PutOneMore
<1>10. utr' = [session.utrBefore EXCEPT ![pr] = Put(sent, D \cup {c}), ![pe] = Pop(held, C)]
  <2> HIDE DEF D
  <2> QED
    BY <1>2, <1>3, <1>7, <1>9
<1>11. Ids(D \cup {c}) \cap Ids(str[pr]) = {}
  <2>1. Ids(D \cup {c}) = Ids(D) \cup {c.id} /\ c.id \notin Ids(str[pr])
    BY <1>3 DEF Ids, Accepts
  <2> QED
    BY <1>7, <2>1
<1>12. PaysThePrice' /\ PaidIds' = PaidIds
  BY <1>4, <1>5 DEF Returning, PaysThePrice, PaidIds
<1>13. Returning(C)'
  <2> USE <1>5
  <2>1. (SentCopies(Put(session.utrBefore[session.payee], session.paid), C, session.payer))' = change
    BY DEF change, held
  <2>2. (Put(session.utrBefore[session.payee], session.paid))' = held
    BY DEF held
  <2>3. (change \ session.inFlight)' = D \cup {c} /\ change' = change /\ held' = held
    BY <1>8, <2>1 DEF change, held
  <2>4. session'.inFlight \subseteq change
    BY <1>7
  <2>5. str' = [session'.strBefore EXCEPT ![session'.payer] = Put(@, session'.paid),
                                          ![session'.payee] = Put(@, change)]
    BY <1>3, <1>4 DEF Returning, change, held
  <2>6. utr' = [session'.utrBefore EXCEPT ![session'.payer] = Put(Pop(@, PaidIds'), D \cup {c}),
                                          ![session'.payee] = Pop(held, C)]
    BY <1>10, <1>12 DEF sent
  <2>7. /\ session.payer # session.payee
        /\ PaidIds \cap Ids(session.strBefore[session.payee]) = {}
        /\ C \subseteq Ids(held)
        /\ IF Worth(Value, PaidIds) - session.price = 0
             THEN C = {} ELSE Worth(Value, C) >= Worth(Value, PaidIds) - session.price
    BY <1>4 DEF Returning, held
  <2> HIDE DEF D
  <2> QED
    BY <1>3, <1>11, <1>12, <2>1, <2>2, <2>3, <2>4, <2>5, <2>6, <2>7 DEF Returning
<1>14. Intact(session.utrBefore, session.strBefore)'
  BY <1>1, <1>5 DEF SessionInv, Running, Intact
<1> QED
  BY <1>4, <1>5, <1>13, <1>14 DEF SessionInv, Running
-----------------------------------------------------------------------------
(* Custody within a session *)

\* Where the tokens are while a payment is delivered.
LEMMA PayingIds ==
  ASSUME SessionInv, session.phase = "paying"
  PROVE  LET pr == session.payer
             pe == session.payee
             D == Ids(session.paid \ session.inFlight)
         IN /\ pr \in Wallets /\ pe \in Wallets
            /\ \A w \in Wallets :
                 /\ Ids(utr[w]) = (Ids(session.utrBefore[w]) \ (IF w = pr THEN PaidIds ELSE {}))
                                    \cup (IF w = pe THEN D ELSE {})
                 /\ Ids(str[w]) = Ids(session.strBefore[w]) \cup (IF w = pr THEN PaidIds ELSE {})
            /\ PaidIds \subseteq Ids(session.utrBefore[pr])
            /\ PaidIds = D \cup Ids(session.inFlight) /\ D \cap Ids(session.inFlight) = {}
            /\ D \cap Ids(str[pe]) = {}
<1> DEFINE pr == session.payer
           pe == session.payee
           D == session.paid \ session.inFlight
           X == [session.utrBefore EXCEPT ![pr] = Pop(@, PaidIds)]
<1>1. session \in Session /\ Paying
  BY RunningSession DEF SessionInv, Running
<1>2. /\ pr \in Wallets /\ pe \in Wallets /\ session.paid \in Register
      /\ session.utrBefore \in [Wallets -> Register] /\ session.strBefore \in [Wallets -> Register]
  BY <1>1 DEF Session
<1>3. /\ PaidIds \subseteq Ids(session.utrBefore[pr]) /\ session.inFlight \in SUBSET session.paid
      /\ utr = [X EXCEPT ![pe] = Put(@, D)]
      /\ str = [session.strBefore EXCEPT ![pr] = Put(@, session.paid)]
      /\ Ids(D) \cap Ids(str[pe]) = {}
  BY <1>1 DEF Paying, PaysThePrice
<1>4. /\ D \in Register
      /\ PaidIds = Ids(D) \cup Ids(session.inFlight) /\ Ids(D) \cap Ids(session.inFlight) = {}
  <2>1. /\ session.paid \ session.inFlight \in Register
        /\ Ids(session.paid) = Ids(session.inFlight) \cup Ids(session.paid \ session.inFlight)
        /\ Ids(session.inFlight) \cap Ids(session.paid \ session.inFlight) = {}
    BY <1>2, <1>3, PartFacts
  <2> QED
    BY <2>1 DEF PaidIds
<1> HIDE DEF D
<1>5. /\ X \in [Wallets -> Register]
      /\ \A w \in Wallets :
           Ids(X[w]) = Ids(session.utrBefore[w]) \ (IF w = pr THEN PaidIds ELSE {})
  <2>1. /\ Pop(session.utrBefore[pr], PaidIds) \in Register
        /\ Ids(Pop(session.utrBefore[pr], PaidIds)) = Ids(session.utrBefore[pr]) \ PaidIds
    BY <1>2, PopFacts
  <2> QED
    BY <1>2, <2>1
<1> HIDE DEF X
<1>6. \A w \in Wallets : Ids(utr[w]) = Ids(X[w]) \cup (IF w = pe THEN Ids(D) ELSE {})
  <2>1. Ids(Put(X[pe], D)) = Ids(X[pe]) \cup Ids(D)
    BY <1>2, <1>4, <1>5, PutFacts
  <2> QED
    BY <1>2, <1>3, <1>5, <2>1
<1>7. \A w \in Wallets :
        Ids(str[w]) = Ids(session.strBefore[w]) \cup (IF w = pr THEN PaidIds ELSE {})
  <2>1. Ids(Put(session.strBefore[pr], session.paid)) = Ids(session.strBefore[pr]) \cup PaidIds
    BY <1>2, PutFacts DEF PaidIds
  <2> QED
    BY <1>2, <1>3, <2>1
<1> QED
  BY <1>2, <1>3, <1>4, <1>5, <1>6, <1>7 DEF D

\* Where they are while the change of the tokens C is delivered.
LEMMA ReturningIds ==
  ASSUME SessionInv, session.phase = "returning", NEW C \in SUBSET Tokens, Returning(C)
  PROVE  LET pr == session.payer
             pe == session.payee
             P == PaidIds
             D == C \ Ids(session.inFlight)
         IN /\ pr \in Wallets /\ pe \in Wallets /\ pr # pe
            /\ Ids(utr[pr]) = (Ids(session.utrBefore[pr]) \ P) \cup D
            /\ Ids(utr[pe]) = (Ids(session.utrBefore[pe]) \cup P) \ C
            /\ Ids(str[pr]) = Ids(session.strBefore[pr]) \cup P
            /\ Ids(str[pe]) = Ids(session.strBefore[pe]) \cup C
            /\ \A w \in Wallets \ {pr, pe} : /\ utr[w] = session.utrBefore[w]
                                             /\ str[w] = session.strBefore[w]
            /\ P \subseteq Ids(session.utrBefore[pr])
            /\ P \cap Ids(session.strBefore[pe]) = {}
            /\ C \subseteq Ids(session.utrBefore[pe]) \cup P
            /\ Ids(session.inFlight) \subseteq C
            /\ D \cap Ids(str[pr]) = {}
<1> DEFINE pr == session.payer
           pe == session.payee
           held == Put(session.utrBefore[pe], session.paid)
           change == SentCopies(held, C, pr)
           D == change \ session.inFlight
           sent == Pop(session.utrBefore[pr], PaidIds)
<1>1. session \in Session
  BY RunningSession DEF SessionInv, Running
<1>2. /\ pr \in Wallets /\ pe \in Wallets /\ session.paid \in Register
      /\ session.utrBefore \in [Wallets -> Register] /\ session.strBefore \in [Wallets -> Register]
  BY <1>1 DEF Session
<1>3. /\ pr # pe /\ session.inFlight \in SUBSET change /\ C \subseteq Ids(held)
      /\ utr = [session.utrBefore EXCEPT ![pr] = Put(sent, D), ![pe] = Pop(held, C)]
      /\ str = [session.strBefore EXCEPT ![pr] = Put(@, session.paid), ![pe] = Put(@, change)]
      /\ Ids(D) \cap Ids(str[pr]) = {}
      /\ PaidIds \subseteq Ids(session.utrBefore[pr])
      /\ PaidIds \cap Ids(session.strBefore[pe]) = {}
  BY DEF Returning, PaysThePrice
<1>4. held \in Register /\ Ids(held) = Ids(session.utrBefore[pe]) \cup PaidIds
  BY <1>2, PutFacts DEF PaidIds
<1> HIDE DEF held
<1>5. change \in Register /\ Ids(change) = C
  <2>1. change \in Register /\ Ids(change) = Ids(held) \cap C
    BY <1>2, <1>4, SentFacts
  <2> QED
    BY <1>3, <2>1
<1> HIDE DEF change
<1>6. D \in Register /\ C = Ids(D) \cup Ids(session.inFlight) /\ Ids(D) \cap Ids(session.inFlight) = {}
  BY <1>3, <1>5, PartFacts
<1>7. Ids(D) = C \ Ids(session.inFlight) /\ Ids(session.inFlight) \subseteq C
  BY <1>6
<1> HIDE DEF D
<1>8. sent \in Register /\ Ids(sent) = Ids(session.utrBefore[pr]) \ PaidIds
  BY <1>2, PopFacts
<1> HIDE DEF sent
<1>9. /\ Ids(Put(sent, D)) = Ids(sent) \cup Ids(D)
      /\ Ids(Pop(held, C)) = Ids(held) \ C
      /\ Ids(Put(session.strBefore[pr], session.paid)) = Ids(session.strBefore[pr]) \cup PaidIds
      /\ Ids(Put(session.strBefore[pe], change)) = Ids(session.strBefore[pe]) \cup Ids(change)
  BY <1>2, <1>4, <1>5, <1>6, <1>8, PutFacts, PopFacts DEF PaidIds
<1>10. /\ utr[pr] = Put(sent, D) /\ utr[pe] = Pop(held, C)
       /\ str[pr] = Put(session.strBefore[pr], session.paid)
       /\ str[pe] = Put(session.strBefore[pe], change)
       /\ \A w \in Wallets \ {pr, pe} : utr[w] = session.utrBefore[w] /\ str[w] = session.strBefore[w]
  BY <1>2, <1>3
<1> QED
  BY <1>2, <1>3, <1>4, <1>5, <1>7, <1>8, <1>9, <1>10

\* At rest and within a session, the tokens are spendable by one wallet or
\* carried by one payload, and none is lost.
LEMMA CustodyWithin ==
  ASSUME SessionInv
  PROVE  HeldByOne /\ NeverLost
<1>1. CASE ~Running
  BY <1>1 DEF SessionInv, Intact, HeldByOne, NeverLost, Carried
<1>2. CASE Running
  <2> DEFINE U(w) == Ids(session.utrBefore[w])
             S(w) == Ids(session.strBefore[w])
             pr == session.payer
             pe == session.payee
  <2>1. session \in Session /\ Carried = Ids(session.inFlight)
    BY <1>2, RunningSession DEF SessionInv, Carried
  <2>2. /\ \A t \in Tokens, v, w \in Wallets : t \in U(v) /\ t \in U(w) => v = w
        /\ \A w \in Wallets : \A t \in S(w) : \E v \in Wallets \ {w} : t \in U(v)
    BY <1>2 DEF SessionInv, Intact
  <2>3. \A w \in Wallets : U(w) \subseteq Tokens
    BY <2>1 DEF Session, Register, Copy, Ids
  <2>4. CASE Opened
    <3>1. Carried = {}
      BY <2>1, <2>4 DEF Opened, Ids
    <3> QED
      BY <2>2, <2>4, <3>1 DEF Opened, HeldByOne, NeverLost
  <2>5. CASE session.phase = "paying"
    <3> DEFINE D == Ids(session.paid \ session.inFlight)
    <3>1. /\ pr \in Wallets /\ pe \in Wallets
          /\ \A w \in Wallets :
               /\ Ids(utr[w]) = (U(w) \ (IF w = pr THEN PaidIds ELSE {})) \cup (IF w = pe THEN D ELSE {})
               /\ Ids(str[w]) = S(w) \cup (IF w = pr THEN PaidIds ELSE {})
          /\ PaidIds \subseteq U(pr)
          /\ PaidIds = D \cup Carried /\ D \cap Carried = {}
          /\ D \cap Ids(str[pe]) = {}
      BY <2>1, <2>5, PayingIds
    <3> HIDE DEF D, U, S
    <3>2. HeldByOne
      BY <2>2, <2>3, <3>1 DEF HeldByOne
    <3>3. NeverLost
      <4> SUFFICES ASSUME NEW w \in Wallets, NEW t \in Ids(str[w]), t \notin Carried
                   PROVE  \E v \in Wallets \ {w} : t \in Ids(utr[v])
        BY DEF NeverLost
      <4>1. CASE t \in PaidIds
        <5>1. t \in D /\ t \in Ids(utr[pe]) /\ w # pe
          BY <3>1, <4>1
        <5> QED
          BY <3>1, <5>1
      <4>2. CASE t \notin PaidIds
        <5>1. PICK v \in Wallets \ {w} : t \in U(v)
          BY <2>2, <3>1, <4>2
        <5> QED
          BY <3>1, <4>2, <5>1
      <4> QED
        BY <4>1, <4>2
    <3> QED
      BY <3>2, <3>3
  <2>6. CASE session.phase = "returning" /\ \E C \in SUBSET Tokens : Returning(C)
    <3>1. PICK C \in SUBSET Tokens : Returning(C)
      BY <2>6
    <3> DEFINE D == C \ Carried
    <3>2. /\ pr \in Wallets /\ pe \in Wallets /\ pr # pe
          /\ Ids(utr[pr]) = (U(pr) \ PaidIds) \cup D
          /\ Ids(utr[pe]) = (U(pe) \cup PaidIds) \ C
          /\ Ids(str[pr]) = S(pr) \cup PaidIds
          /\ Ids(str[pe]) = S(pe) \cup C
          /\ \A w \in Wallets \ {pr, pe} : Ids(utr[w]) = U(w) /\ Ids(str[w]) = S(w)
          /\ PaidIds \subseteq U(pr)
          /\ PaidIds \cap S(pe) = {}
          /\ C \subseteq U(pe) \cup PaidIds
          /\ Carried \subseteq C
          /\ D \cap Ids(str[pr]) = {}
      BY <2>1, <2>6, <3>1, ReturningIds
    <3> HIDE DEF D, U, S
    <3>3. D \subseteq C /\ C = D \cup Carried /\ D \cap Carried = {}
      BY <3>2 DEF D
    <3>4. \A w \in Wallets :
            w = pr \/ w = pe \/ (w \in Wallets \ {pr, pe} /\ Ids(utr[w]) = U(w) /\ Ids(str[w]) = S(w))
      BY <3>2
    <3>5. HeldByOne
      <4> SUFFICES ASSUME NEW t \in Tokens, NEW v \in Wallets, NEW w \in Wallets, t \in Ids(utr[v])
                   PROVE  t \notin Carried /\ (t \in Ids(utr[w]) => v = w)
        BY DEF HeldByOne
      <4>1. D \subseteq U(pe)
        BY <3>2, <3>3
      <4> QED
        BY <2>2, <3>2, <3>3, <3>4, <4>1
    <3>6. NeverLost
      <4> SUFFICES ASSUME NEW w \in Wallets, NEW t \in Ids(str[w]), t \notin Carried
                   PROVE  \E v \in Wallets \ {w} : t \in Ids(utr[v])
        BY DEF NeverLost
      <4>1. CASE t \in C
        BY <3>2, <3>3, <3>4, <4>1
      <4>2. CASE t \notin C /\ t \in PaidIds
        <5>1. t \in Ids(utr[pe]) /\ w # pe
          BY <3>2, <4>2
        <5> QED
          BY <3>2, <5>1
      <4>3. CASE t \notin C /\ t \notin PaidIds
        <5>1. t \in S(w)
          BY <3>2, <3>4, <4>3
        <5>2. PICK v \in Wallets \ {w} : t \in U(v)
          BY <2>2, <5>1
        <5> QED
          BY <3>2, <3>4, <4>3, <5>2
      <4> QED
        BY <4>1, <4>2, <4>3
    <3> QED
      BY <3>5, <3>6
  <2> QED
    BY <1>2, <2>1, <2>4, <2>5, <2>6 DEF SessionInv, ReturningNothing, Session, Phases
<1> QED
  BY <1>1, <1>2

\* A session that commits leaves the registers as they are.
LEMMA CommitStep ==
  ASSUME SessionInv, TypeOK', Commit
  PROVE  SessionInv'
<1>1. HeldByOne /\ NeverLost
  BY CustodyWithin
<1>2. Carried = {}
  BY DEF Commit, Carried, Ids
<1>3. Intact(utr, str)
  BY <1>1, <1>2 DEF HeldByOne, NeverLost, Intact
<1>4. session'.phase = "idle" /\ utr' = utr /\ str' = str
  BY DEF Commit, Idle
<1> QED
  BY <1>3, <1>4 DEF SessionInv, Running, Intact

\* Until it commits a session has changed no wallet but its own two.
LEMMA OthersUntouched ==
  ASSUME SessionInv, Running
  PROVE  /\ session \in Session
         /\ \A w \in Wallets \ {session.payer, session.payee} :
              utr[w] = session.utrBefore[w] /\ str[w] = session.strBefore[w]
<1>1. session \in Session
  BY RunningSession DEF SessionInv
<1>2. CASE Opened
  BY <1>1, <1>2 DEF Opened
<1>3. CASE Paying
  BY <1>1, <1>3 DEF Paying, Session
<1>4. ASSUME NEW C \in SUBSET Tokens, Returning(C)
      PROVE  \A w \in Wallets \ {session.payer, session.payee} :
               utr[w] = session.utrBefore[w] /\ str[w] = session.strBefore[w]
  BY <1>1, <1>4 DEF Returning, Session
<1> QED
  BY <1>1, <1>2, <1>3, <1>4 DEF SessionInv, Running, ReturningNothing, Session, Phases

\* A failed session leaves the registers it began with (lines 50-55).
LEMMA RollbackRestores ==
  ASSUME SessionInv, Rollback
  PROVE  Running /\ utr' = session.utrBefore /\ str' = session.strBefore
<1>1. Running
  BY DEF Rollback, Raises, Running
<1>2. session \in Session
  BY <1>1, OthersUntouched
<1>3. session.utrBefore \in [Wallets -> Register] /\ session.strBefore \in [Wallets -> Register]
  BY <1>2 DEF Session
<1> QED
  BY <1>1, <1>3, OthersUntouched DEF Rollback

\* The rollback of a failed payment preserves the invariant, since it puts
\* both wallets back as they were.
LEMMA RollbackStep ==
  ASSUME SessionInv, TypeOK', Rollback
  PROVE  SessionInv'
<1>1. Running /\ utr' = session.utrBefore /\ str' = session.strBefore
  BY RollbackRestores
<1>2. Intact(session.utrBefore, session.strBefore)
  BY <1>1 DEF SessionInv
<1>3. session'.phase = "idle"
  BY DEF Rollback, Idle
<1> QED
  BY <1>1, <1>2, <1>3 DEF SessionInv, Running, Intact

\* Every step of a payment preserves the invariant.
LEMMA SessionStep ==
  ASSUME SessionInv, [Next]_vars
  PROVE  SessionInv'
<1>1. TypeOK'
  BY TypeStep DEF SessionInv
<1>2. CASE UNCHANGED vars
  BY <1>2, <1>1 DEF vars, SessionInv, Running, Intact, Opened, Paying, PaysThePrice, PaidIds, Returning, ReturningNothing
<1> QED
  BY <1>1, <1>2, BeginStep, InitiateStep, ReceivePaymentStep, ReturnStep, ReceiveChangeStep,
     CommitStep, RollbackStep DEF Next, Step

\* Whatever a session does, fails at, or puts back, no token is spendable by
\* two wallets or both spendable and under way (wallet.py:82-84, 121-129).
THEOREM OneHolder == Spec => []HeldByOne
<1>1. Init => SessionInv
  BY InitIntact
<1>2. SessionInv /\ [Next]_vars => SessionInv'
  BY SessionStep
<1>3. SessionInv => HeldByOne
  BY CustodyWithin
<1> QED
  BY <1>1, <1>2, <1>3, PTL DEF Spec

\* Nor is a token lost: what a wallet has spent, another can spend or is being
\* delivered, also when a payload is turned down and when the session is rolled
\* back (payment_session.py:50-55).
THEOREM NothingLost == Spec => []NeverLost
<1>1. Init => SessionInv
  BY InitIntact
<1>2. SessionInv /\ [Next]_vars => SessionInv'
  BY SessionStep
<1>3. SessionInv => NeverLost
  BY CustodyWithin
<1> QED
  BY <1>1, <1>2, <1>3, PTL DEF Spec
-----------------------------------------------------------------------------
(* What a session that commits has done *)

\* The tokens of a register have a total, and its parts have theirs.
LEMMA TokenTotals ==
  ASSUME NEW S \in SUBSET Tokens
  PROVE  IsFiniteSet(S) /\ Worth(Value, S) \in Nat /\ \A t \in S : Value[t] \in Nat
<1>1. IsFiniteSet(S) /\ \A t \in S : Value[t] \in Nat
  BY WalletAssumption, FS_Subset
<1> QED
  BY <1>1, WorthType

\* What is left of some tokens without a part of them is worth the difference.
LEMMA TokenDifference ==
  ASSUME NEW S \in SUBSET Tokens, NEW R \in SUBSET S
  PROVE  /\ Worth(Value, R) \in Nat /\ Worth(Value, S \ R) \in Nat
         /\ Worth(Value, S) = Worth(Value, R) + Worth(Value, S \ R)
<1>1. IsFiniteSet(S) /\ \A t \in S : Value[t] \in Nat
  BY TokenTotals
<1> QED
  BY <1>1, WorthDifference

\* The invariant leaves the payer of a finished payment no poorer than by
\* the price.
LEMMA OverchargedNever ==
  ASSUME SessionInv
  PROVE  PayerNeverOvercharged
<1> SUFFICES ASSUME AboutToCommit
             PROVE  Worth(Value, Ids(utr[session.payer]))
                      >= Worth(Value, Ids(session.utrBefore[session.payer])) - session.price
  BY DEF PayerNeverOvercharged, ValueOf
<1> DEFINE pr == session.payer
           pe == session.payee
           U(w) == Ids(session.utrBefore[w])
<1>1. session \in Session /\ session.phase = "returning" /\ session.inFlight = {} /\ TypeOK
  BY OthersUntouched DEF AboutToCommit, Running, SessionInv
<1>2. /\ pr \in Wallets /\ pe \in Wallets /\ session.price \in Int
      /\ \A w \in Wallets : U(w) \subseteq Tokens /\ Ids(utr[w]) \subseteq Tokens
  BY <1>1, PriceAssumption DEF Session, TypeOK, Ids, Register, Copy
<1>3. CASE ReturningNothing
  BY <1>2, <1>3, TokenTotals DEF ReturningNothing, Opened
<1>4. ASSUME NEW C \in SUBSET Tokens, Returning(C)
      PROVE  Worth(Value, Ids(utr[pr])) >= Worth(Value, U(pr)) - session.price
  <2>1. Ids(session.inFlight) = {}
    BY <1>1 DEF Ids
  <2>2. /\ Ids(utr[pr]) = (U(pr) \ PaidIds) \cup C
        /\ Ids(str[pr]) = Ids(session.strBefore[pr]) \cup PaidIds
        /\ pr # pe /\ PaidIds \subseteq U(pr) /\ C \subseteq U(pe) \cup PaidIds
        /\ C \cap Ids(str[pr]) = {}
    BY <1>1, <1>4, <2>1, ReturningIds
  <2>3. U(pr) \cap U(pe) = {}
    BY <1>1, <1>2, <2>2 DEF SessionInv, Running, Intact
  <2> HIDE DEF U
  <2>4. (U(pr) \ PaidIds) \cap C = {}
    BY <2>2, <2>3
  <2>5. /\ Worth(Value, PaidIds) \in Nat /\ Worth(Value, U(pr) \ PaidIds) \in Nat
        /\ Worth(Value, U(pr)) = Worth(Value, PaidIds) + Worth(Value, U(pr) \ PaidIds)
    <3>1. U(pr) \in SUBSET Tokens /\ PaidIds \in SUBSET U(pr)
      BY <1>2, <2>2
    <3> QED
      BY <3>1, TokenDifference
  <2>6. Worth(Value, Ids(utr[pr])) = Worth(Value, U(pr) \ PaidIds) + Worth(Value, C)
    <3>1. (U(pr) \ PaidIds) \cup C \in SUBSET Tokens
      BY <1>2
    <3>2. /\ IsFiniteSet((U(pr) \ PaidIds) \cup C)
          /\ \A t \in (U(pr) \ PaidIds) \cup C : Value[t] \in Nat
      BY <3>1, TokenTotals
    <3> QED
      BY <2>2, <2>4, <3>2, WorthUnion
  <2>7. Worth(Value, C) \in Nat /\ Worth(Value, C) >= Worth(Value, PaidIds) - session.price
    <3>1. Worth(Value, C) \in Nat
      BY TokenTotals
    <3>2. CASE Worth(Value, PaidIds) - session.price = 0
      BY <3>1, <3>2
    <3>3. CASE Worth(Value, PaidIds) - session.price # 0
      BY <1>4, <3>1, <3>3 DEF Returning
    <3> QED
      BY <3>1, <3>2, <3>3
  <2> QED
    BY <1>2, <2>5, <2>6, <2>7
<1> QED
  BY <1>1, <1>3, <1>4 DEF SessionInv

\* Select, pay, select the change: when a payment commits the payer has given
\* up no more than the price, whatever the denominations (wallet.py:53-72,
\* 97-109).
THEOREM NeverOvercharged == Spec => []PayerNeverOvercharged
<1>1. Init => SessionInv
  BY InitIntact
<1>2. SessionInv /\ [Next]_vars => SessionInv'
  BY SessionStep
<1>3. SessionInv => PayerNeverOvercharged
  BY OverchargedNever
<1> QED
  BY <1>1, <1>2, <1>3, PTL DEF Spec
-----------------------------------------------------------------------------
(* A session implements an atomic payment *)

\* The operators of AtomicPayment are those of Wallet.
LEMMA AtomicOperators ==
  /\ \A reg : Atomic!Ids(reg) = Ids(reg)
  /\ \A reg, S : Atomic!Pop(reg, S) = Pop(reg, S)
  /\ \A reg, S : Atomic!Put(reg, S) = Put(reg, S)
  /\ \A reg, S, r : Atomic!SentCopies(reg, S, r) = SentCopies(reg, S, r)
  /\ \A S : Atomic!Worth(Value, S) = Worth(Value, S)
  /\ \A loaded : Atomic!LoadedRegisters(loaded) = LoadedRegisters(loaded)
<1>1. /\ \A reg : Atomic!Ids(reg) = Ids(reg)
      /\ \A reg, S : Atomic!Pop(reg, S) = Pop(reg, S)
      /\ \A reg, S : Atomic!Put(reg, S) = Put(reg, S)
      /\ \A reg, S, r : Atomic!SentCopies(reg, S, r) = SentCopies(reg, S, r)
  BY DEF Atomic!Ids, Atomic!Pop, Atomic!Put, Atomic!SentCopies, Atomic!PickIds,
         Atomic!AppendTransfer, Ids, Pop, Put, SentCopies, PickIds, AppendTransfer
<1>2. \A S : Atomic!Worth(Value, S) = Worth(Value, S)
  BY DEF Atomic!Worth, Worth, Atomic!MapThenSumSet, MapThenSumSet, Atomic!MapThenFoldSet, MapThenFoldSet
<1>3. \A loaded : Atomic!LoadedRegisters(loaded) = LoadedRegisters(loaded)
  BY DEF Atomic!LoadedRegisters, LoadedRegisters, Atomic!Issued, Issued
<1> QED
  BY <1>1, <1>2, <1>3

\* Read at rest, the registers of a running session are those it began with.
ReadAtRest ==
  /\ AtRest(utr, session.utrBefore) = IF Running THEN session.utrBefore ELSE utr
  /\ AtRest(str, session.strBefore) = IF Running THEN session.strBefore ELSE str

\* Between payments an observer reads the registers themselves, and during
\* one what they were before it.
LEMMA ReadsAtRest ==
  ASSUME SessionInv
  PROVE  ReadAtRest
<1>1. CASE Running
  <2>1. session.utrBefore \in [Wallets -> Register] /\ session.strBefore \in [Wallets -> Register]
    BY <1>1, OthersUntouched DEF Session
  <2> QED
    BY <1>1, <2>1, OthersUntouched DEF AtRest, ReadAtRest
<1>2. CASE ~Running
  BY <1>2 DEF AtRest, SessionInv, TypeOK, ReadAtRest
<1> QED
  BY <1>1, <1>2

\* What the payee sends back is none of the tokens it was paid, or the payer,
\* which has spent those, would have turned the change down.
LEMMA CommittedExchange ==
  ASSUME SessionInv, Commit, utr # session.utrBefore \/ str # session.strBefore
  PROVE  LET pr == session.payer
             pe == session.payee
             U == session.utrBefore
             S == session.strBefore
         IN /\ pr \in Wallets /\ pe \in Wallets /\ pr # pe /\ session.price \in Prices
            /\ \E P \in SUBSET Ids(U[pr]), C \in SUBSET Ids(U[pe]) :
                 /\ P \cap Ids(S[pe]) = {}
                 /\ C \cap (Ids(S[pr]) \cup P) = {}
                 /\ Worth(Value, P) >= session.price
                 /\ IF Worth(Value, P) = session.price
                      THEN C = {} ELSE Worth(Value, C) >= Worth(Value, P) - session.price
                 /\ utr = [U EXCEPT ![pr] = Put(Pop(U[pr], P), SentCopies(U[pe], C, pr)),
                                    ![pe] = Put(Pop(U[pe], C), SentCopies(U[pr], P, pe))]
                 /\ str = [S EXCEPT ![pr] = Put(S[pr], SentCopies(U[pr], P, pe)),
                                    ![pe] = Put(S[pe], SentCopies(U[pe], C, pr))]
<1> DEFINE pr == session.payer
           pe == session.payee
           U == session.utrBefore
           S == session.strBefore
           P == PaidIds
<1>1. session \in Session /\ session.phase = "returning" /\ session.inFlight = {}
  BY OthersUntouched DEF Commit, Running
<1>2. PICK C \in SUBSET Tokens : Returning(C)
  BY <1>1 DEF SessionInv, ReturningNothing, Opened
<1>3. /\ pr \in Wallets /\ pe \in Wallets /\ session.price \in Prices /\ session.paid \in Register
      /\ U \in [Wallets -> Register] /\ S \in [Wallets -> Register]
      /\ session.price \in Int /\ Worth(Value, P) \in Nat
  <2>1. P \in SUBSET Tokens
    BY <1>1 DEF Session, PaidIds, Ids, Register, Copy
  <2> QED
    BY <1>1, <2>1, PriceAssumption, TokenTotals DEF Session
<1>4. /\ pr # pe /\ P \subseteq Ids(U[pr]) /\ P \cap Ids(S[pe]) = {}
      /\ C \subseteq Ids(U[pe]) \cup P /\ C \cap (Ids(S[pr]) \cup P) = {}
  <2>1. Ids(session.inFlight) = {}
    BY <1>1 DEF Ids
  <2> QED
    BY <1>1, <1>2, <2>1, ReturningIds
<1>5. C \subseteq Ids(U[pe])
  BY <1>4
<1> DEFINE held == Put(U[pe], session.paid)
<1>6. /\ session.paid = SentCopies(U[pr], P, pe) /\ Worth(Value, P) >= session.price
      /\ IF Worth(Value, P) - session.price = 0
           THEN C = {} ELSE Worth(Value, C) >= Worth(Value, P) - session.price
      /\ utr = [U EXCEPT ![pr] = Put(Pop(U[pr], P), SentCopies(held, C, pr) \ session.inFlight),
                         ![pe] = Pop(held, C)]
      /\ str = [S EXCEPT ![pr] = Put(S[pr], session.paid),
                         ![pe] = Put(S[pe], SentCopies(held, C, pr))]
  <2> HIDE DEF held
  <2> QED
    BY <1>2, <1>4 DEF Returning, PaysThePrice, held
<1>7. /\ SentCopies(held, C, pr) = SentCopies(U[pe], C, pr)
      /\ Pop(held, C) = Put(Pop(U[pe], C), session.paid)
  <2>1. Ids(session.paid) \cap C = {}
    BY <1>4 DEF PaidIds
  <2> QED
    BY <2>1, PutThenSendOthers
<1>8. SentCopies(held, C, pr) \ session.inFlight = SentCopies(held, C, pr)
  BY <1>1
<1> HIDE DEF held, P
<1>9. /\ utr = [U EXCEPT ![pr] = Put(Pop(U[pr], P), SentCopies(U[pe], C, pr)),
                         ![pe] = Put(Pop(U[pe], C), SentCopies(U[pr], P, pe))]
      /\ str = [S EXCEPT ![pr] = Put(S[pr], SentCopies(U[pr], P, pe)),
                         ![pe] = Put(S[pe], SentCopies(U[pe], C, pr))]
  BY <1>6, <1>7, <1>8
<1>10. IF Worth(Value, P) = session.price
         THEN C = {} ELSE Worth(Value, C) >= Worth(Value, P) - session.price
  BY <1>3, <1>6
<1> QED
  BY <1>3, <1>4, <1>5, <1>6, <1>9, <1>10

\* A commit is one atomic payment, and no other statement changes the
\* registers read at rest.
LEMMA AtomicStep ==
  ASSUME SessionInv, ReadAtRest, ReadAtRest', [Next]_vars
  PROVE  [Atomic!Next]_<<AtRest(utr, session.utrBefore), AtRest(str, session.strBefore)>>
<1> DEFINE u == AtRest(utr, session.utrBefore)
           s == AtRest(str, session.strBefore)
<1>1. /\ u = (IF Running THEN session.utrBefore ELSE utr)
      /\ s = (IF Running THEN session.strBefore ELSE str)
  BY DEF ReadAtRest
<1>2. /\ u' = (IF Running' THEN session'.utrBefore ELSE utr')
      /\ s' = (IF Running' THEN session'.strBefore ELSE str')
  BY DEF ReadAtRest
<1> SUFFICES ASSUME u' # u \/ s' # s PROVE Atomic!Next
  OBVIOUS
<1> HIDE DEF u, s
<1>3. Commit
  <2>1. ASSUME NEW payer \in Wallets, NEW payee \in Wallets, NEW price \in Prices,
               Begin(payer, payee, price)
        PROVE  FALSE
    BY <1>1, <1>2, <2>1 DEF Begin, Running
  <2>2. CASE InitiatePayment \/ ReceivePayment \/ ReturnChange \/ ReceiveChange
    <3>1. Running
      BY Zenon, <2>2 DEF InitiatePayment, ReceivePayment, ReturnChange, ReceiveChange, Running
    <3>2. session \in Session
      BY <3>1, OthersUntouched
    <3>3. /\ session'.utrBefore = session.utrBefore /\ session'.strBefore = session.strBefore
          /\ session'.phase # "idle"
      BY Zenon, <2>2, <3>2
      DEF InitiatePayment, ReceivePayment, ReturnChange, ReceiveChange, Deliver, Session
    <3> QED
      BY <1>1, <1>2, <3>1, <3>3 DEF Running
  <2>3. CASE Rollback
    <3>1. Running /\ utr' = session.utrBefore /\ str' = session.strBefore
      BY <2>3, RollbackRestores
    <3>2. ~Running'
      BY <2>3 DEF Rollback, Running, Idle
    <3> QED
      BY <1>1, <1>2, <3>1, <3>2
  <2>4. CASE UNCHANGED vars
    BY <1>1, <1>2, <2>4 DEF vars, Running
  <2> QED
    BY <2>1, <2>2, <2>3, <2>4 DEF Next, Step
<1>4. u = session.utrBefore /\ s = session.strBefore /\ u' = utr /\ s' = str
  BY <1>1, <1>2, <1>3 DEF Commit, Running, Idle
<1> DEFINE pr == session.payer
           pe == session.payee
<1>5. PICK P \in SUBSET Ids(u[pr]), C \in SUBSET Ids(u[pe]) :
        /\ pr \in Wallets /\ pe \in Wallets /\ pr # pe /\ session.price \in Prices
        /\ P \cap Ids(s[pe]) = {}
        /\ C \cap (Ids(s[pr]) \cup P) = {}
        /\ Worth(Value, P) >= session.price
        /\ IF Worth(Value, P) = session.price
             THEN C = {} ELSE Worth(Value, C) >= Worth(Value, P) - session.price
        /\ u' = [u EXCEPT ![pr] = Put(Pop(u[pr], P), SentCopies(u[pe], C, pr)),
                          ![pe] = Put(Pop(u[pe], C), SentCopies(u[pr], P, pe))]
        /\ s' = [s EXCEPT ![pr] = Put(s[pr], SentCopies(u[pr], P, pe)),
                          ![pe] = Put(s[pe], SentCopies(u[pe], C, pr))]
  BY <1>3, <1>4, CommittedExchange
<1>6. Atomic!Exchange(pr, pe, P, C)
  BY <1>5, AtomicOperators DEF Atomic!Exchange, u, s
<1>7. Atomic!Pay(pr, pe, session.price)
  BY <1>5, <1>6, AtomicOperators DEF Atomic!Pay, u, s
<1> QED
  BY <1>5, <1>7 DEF Atomic!Next

\* execute is all or nothing, as its docstring says: with the registers of a
\* running session read as they were when it began, each session is one
\* exchange of at least the price for at least the excess, or no step at all
\* (payment_session.py:20-55).
THEOREM AllOrNothing == Spec => ImplementsAtomicPayment
<1>1. Init => SessionInv
  BY InitIntact
<1>2. SessionInv /\ [Next]_vars => SessionInv'
  BY SessionStep
<1>3. SessionInv => ReadAtRest
  BY ReadsAtRest
<1>4. Init => Atomic!Init
  <2> SUFFICES ASSUME Init PROVE Atomic!Init
    OBVIOUS
  <2>1. AtRest(utr, session.utrBefore) = utr /\ AtRest(str, session.strBefore) = str
    BY <1>1, <1>3 DEF ReadAtRest, Init, Running, Idle
  <2> QED
    BY <2>1, AtomicOperators DEF Init, Atomic!Init
<1>5. SessionInv /\ ReadAtRest /\ ReadAtRest' /\ [Next]_vars
        => [Atomic!Next]_<<AtRest(utr, session.utrBefore), AtRest(str, session.strBefore)>>
  BY AtomicStep
<1> QED
  BY <1>1, <1>2, <1>3, <1>4, <1>5, PTL DEF Spec, ImplementsAtomicPayment, Atomic!Spec
=============================================================================
