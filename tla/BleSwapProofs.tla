---------------------------- MODULE BleSwapProofs ----------------------------
(***************************************************************************)
(* Proofs about BleSwap, for any wallets, tokens, values and bounds.  The  *)
(* invariant BleInv is the conjunction of what the code keeps of types,    *)
(* nonces, places of tokens, hop counts, the ledger and the running call;  *)
(* each is shown to be preserved from those before it.                     *)
(***************************************************************************)
EXTENDS BleSwap, SelectionLemmas, SequenceTheorems

(***************************************************************************)
(* The inductive invariant                                                 *)
(***************************************************************************)

LegRecord == [from : Wallets, to : Wallets, token : Tokens, amount : Int]

\* What the running call of the channel keeps (ble_sim.py:70-124).
CallRecord ==
  [phase : {"send", "receive", "raised"}, kind : {"transfer", "swap"},
   payer : Wallets, payee : Wallets, owed : Amounts, legs : Seq(LegRecord),
   parcel : SUBSET parcels, before : [Wallets -> SUBSET Tokens]]

CallTyped ==
  call # Idle =>
    /\ call \in CallRecord /\ call.payer # call.payee
    /\ \A k \in DOMAIN call.legs : call.legs[k].from # call.legs[k].to
    /\ call.phase = "receive" => call.legs # <<>>

\* A copy belongs to the last of the keys that had it.
LastIsOwner(c) == Len(c.history) >= 2 /\ c.history[Len(c.history)] = c.owner

WalletState == [unspent : SUBSET Copy, nonces : SUBSET (Tokens \X Nat)]

Typed ==
  /\ TypeOK /\ CallTyped
  /\ wallet \in [Wallets -> WalletState]
  /\ \A w \in Wallets : IsFiniteSet(wallet[w].unspent) /\ \A c \in wallet[w].unspent : LastIsOwner(c)
  /\ parcels \in SUBSET [copy : Copy, nonce : Nat] /\ IsFiniteSet(parcels)
  /\ \A p \in parcels : LastIsOwner(p.copy)
  /\ deposits \in SUBSET [by : Wallets, copy : Copy]

\* The nonces of a token's parcels are numbers below their count, so that the
\* next one is new to every wallet (dpc_poc/dpc/transfer.py:85-135).
ParcelsOf(t) == {p \in parcels : p.copy.id = t}

NoncesFresh ==
  /\ \A p, q \in parcels : p.copy.id = q.copy.id /\ p.nonce = q.nonce => p = q
  /\ \A p \in parcels : p.nonce < Cardinality(ParcelsOf(p.copy.id))
  /\ \A w \in Wallets : \A e \in wallet[w].nonces : e[2] < Cardinality(ParcelsOf(e[1]))

\* The parcels of token t that their recipients have not received.
Due(t) == {p \in ParcelsOf(t) : <<t, p.nonce>> \notin wallet[p.copy.owner].nonces}

Holding(t) == {w \in Wallets : t \in Ids(wallet[w].unspent)}
Deposits(t) == {d \in deposits : d.copy.id = t}

\* A token is in one place: with a wallet, in a parcel to be received, or
\* deposited.
OnePlace ==
  \A t \in Tokens :
    /\ \A v, w \in Holding(t) : v = w
    /\ \A p, q \in Due(t) : p = q
    /\ \A d, e \in Deposits(t) : d = e
    /\ Holding(t) # {} => Due(t) = {} /\ Deposits(t) = {}
    /\ Due(t) # {} => Deposits(t) = {}

\* The ledger's owner of a token deposited it or kept it
\* (dpc_poc/dpc/reconciliation.py).
RegistryKnown ==
  \A t \in DOMAIN registry :
    \/ [by |-> registry[t], token |-> t] \in kept
    \/ \E d \in Deposits(t) : d.by = registry[t]

LedgerInv ==
  /\ RegistryKnown
  /\ \A e \in conflicts : e.token \in DOMAIN registry
  /\ ConflictOnlyAfterKept

\* A copy in a wallet was reset when it came to a wallet that had had it, and
\* one in a parcel has not been.
HopsFrom(c, places) ==
  LET last == Len(c.history) - c.hops
  IN last \in places /\ \A k \in places : k <= last

HopsInv ==
  /\ \A w \in Wallets : \A c \in wallet[w].unspent :
       HopsFrom(c, Returned(c.history) \cap DOMAIN c.history)
  /\ \A p \in parcels :
       /\ Len(p.copy.history) >= 3
       /\ HopsFrom(p.copy, Returned(p.copy.history) \cap (1..(Len(p.copy.history) - 1)))
(* The stages of a call: what each wallet has now, of what it had before the *)
(* call, when out and back are what has left the payer and come to it, and   *)
(* inn and change what has come to the payee and left it.                    *)
NowHas(out, inn, change, back) ==
  \A w \in Wallets :
    Ids(wallet[w].unspent) =
      IF w = call.payer THEN (call.before[w] \ out) \cup back
      ELSE IF w = call.payee THEN (call.before[w] \cup inn) \ change
      ELSE call.before[w]

IsLeg(leg, from, to, t) ==
  leg \in LegRecord /\ leg.from = from /\ leg.to = to /\ leg.token = t

\* The legs still to be made: the change, or none.
ChangeLegs(C) ==
  \/ C = {} /\ call.legs = <<>>
  \/ \E c \in Tokens : C = {c} /\ Len(call.legs) = 1 /\ IsLeg(call.legs[1], call.payee, call.payer, c)

AllLegs(t, C) ==
  /\ call.legs # <<>> /\ IsLeg(call.legs[1], call.payer, call.payee, t)
  /\ \/ C = {} /\ Len(call.legs) = 1
     \/ \E c \in Tokens : C = {c} /\ Len(call.legs) = 2 /\ IsLeg(call.legs[2], call.payee, call.payer, c)

\* The parcel under way, or left behind when its receipt raised.
UnderWay(t, w) ==
  \E p \in Due(t) : p.copy.owner = w /\ (call.phase = "receive" => call.parcel = {p})

\* What execute_swap found before its first transfer: t is worth more than is
\* owed, and C is the smallest change of the payee, or t is exact.
EnoughBefore(t) == {c \in call.before[call.payee] : Value[c] >= Value[t] - call.owed}

Planned(t, C) ==
  \/ call.kind = "transfer" /\ C = {}
  \/ /\ call.kind = "swap" /\ t \in call.before[call.payer]
     /\ \/ C = {} /\ Value[t] = call.owed
        \/ /\ Value[t] > call.owed
           /\ \E c \in EnoughBefore(t) : C = {c} /\ \A d \in EnoughBefore(t) : Value[c] <= Value[d]

NotStarted(t, C) ==
  /\ NowHas({}, {}, {}, {})
  /\ call.phase = "raised" \/ (call.phase = "send" /\ AllLegs(t, C))

Paying(t, C) ==
  /\ NowHas({t}, {}, {}, {}) /\ t \in call.before[call.payer] /\ UnderWay(t, call.payee)
  /\ call.phase = "raised" \/ (call.phase = "receive" /\ AllLegs(t, C))

Paid(t, C) ==
  /\ NowHas({t}, {t}, {}, {}) /\ t \in call.before[call.payer]
  /\ (call.phase = "raised" /\ C # {}) \/ (call.phase = "send" /\ ChangeLegs(C))

Changing(t, C) ==
  /\ NowHas({t}, {t}, C, {}) /\ t \in call.before[call.payer] /\ C # {}
  /\ \A c \in C : UnderWay(c, call.payer)
  /\ call.phase = "raised" \/ (call.phase = "receive" /\ ChangeLegs(C))

Changed(t, C) ==
  /\ NowHas({t}, {t}, C, C) /\ t \in call.before[call.payer] /\ C # {}
  /\ call.phase = "send" /\ call.legs = <<>>

CallInv ==
  call # Idle =>
    /\ \A v, w \in Wallets : v # w => call.before[v] \cap call.before[w] = {}
    /\ \E t \in Tokens, C \in SUBSET Tokens :
         /\ Planned(t, C)
         /\ \/ NotStarted(t, C) \/ Paying(t, C) \/ Paid(t, C) \/ Changing(t, C) \/ Changed(t, C)

BleInv == Typed /\ NoncesFresh /\ OnePlace /\ LedgerInv /\ HopsInv /\ CallInv
-----------------------------------------------------------------------------
(* Copies *)

\* Resetting a copy changes only its hop count, to 0.
LEMMA ResetFacts ==
  ASSUME NEW c \in Copy, NEW w
  PROVE  /\ LifecycleReset(c, w) \in Copy
         /\ LifecycleReset(c, w).id = c.id /\ LifecycleReset(c, w).owner = c.owner
         /\ LifecycleReset(c, w).history = c.history
         /\ LifecycleReset(c, w).hops =
              IF w \in {c.history[k] : k \in 1..(Len(c.history) - 1)} THEN 0 ELSE c.hops
<1>1. MaxHops \in Nat
  BY PocWalletAssumption
<1>2. 0 \in 0..MaxHops
  BY <1>1
<1> DEFINE had == w \in {c.history[k] : k \in 1..(Len(c.history) - 1)}
<1>3. LifecycleReset(c, w) = IF had THEN [c EXCEPT !.hops = 0] ELSE c
  BY DEF LifecycleReset
<1> HIDE DEF had
<1>4. /\ LifecycleReset(c, w) \in Copy
      /\ LifecycleReset(c, w).id = c.id /\ LifecycleReset(c, w).owner = c.owner
      /\ LifecycleReset(c, w).history = c.history
      /\ LifecycleReset(c, w).hops = IF had THEN 0 ELSE c.hops
  BY <1>2, <1>3 DEF Copy
<1> QED
  BY <1>4 DEF had

\* The copy made for a recipient (build_transfer, dpc_poc/dpc/transfer.py):
\* one hop more, and the recipient added to its keys.
LEMMA ForwardedFacts ==
  ASSUME NEW c \in Copy, NEW v \in Wallets, c.hops < MaxHops, Len(c.history) >= 2
  PROVE  /\ Forwarded(c, v) \in Copy /\ LastIsOwner(Forwarded(c, v))
         /\ Forwarded(c, v).id = c.id /\ Forwarded(c, v).owner = v
         /\ Forwarded(c, v).hops = c.hops + 1
         /\ Forwarded(c, v).history = Append(c.history, v)
<1>1. MaxHops \in Nat /\ c.hops \in 0..MaxHops /\ c.history \in Seq(Wallets \cup {Issuer})
  BY PocWalletAssumption DEF Copy
<1>2. c.hops + 1 \in 0..MaxHops
  BY <1>1
<1>3. /\ Append(c.history, v) \in Seq(Wallets \cup {Issuer})
      /\ Len(Append(c.history, v)) = Len(c.history) + 1
      /\ Append(c.history, v)[Len(c.history) + 1] = v
      /\ Len(c.history) \in Nat
  BY <1>1
<1> DEFINE n == c.hops + 1
           h == Append(c.history, v)
<1>4. Forwarded(c, v) = [c EXCEPT !.owner = v, !.hops = n, !.history = h]
  BY DEF Forwarded
<1> HIDE DEF n, h
<1>5. Forwarded(c, v) = [id |-> c.id, owner |-> v, hops |-> n, history |-> h]
  BY <1>4 DEF Copy
<1> USE DEF n, h
<1> QED
  BY <1>2, <1>3, <1>5 DEF Copy, LastIsOwner

\* The copy an issued token starts as.
LEMMA MintedFacts ==
  ASSUME NEW t \in DOMAIN issuedAt, NEW w \in Wallets
  PROVE  /\ MintedCopy(t, w) \in Copy /\ LastIsOwner(MintedCopy(t, w))
         /\ MintedCopy(t, w).id = t /\ MintedCopy(t, w).owner = w
         /\ MintedCopy(t, w).hops = 0 /\ MintedCopy(t, w).history = <<Issuer, w>>
<1>1. 0 \in 0..MaxHops
  BY PocWalletAssumption
<1>2. <<Issuer, w>> \in Seq(Wallets \cup {Issuer}) /\ Len(<<Issuer, w>>) = 2
  OBVIOUS
<1> QED
  BY <1>1, <1>2 DEF MintedCopy, Copy, LastIsOwner
-----------------------------------------------------------------------------
(* The tokens of a wallet, a dict from ids to copies *)

OneEach(S) == \A c, d \in S : c.id = d.id => c = d

\* dict[token_id] = token: the copy is there and the others stay.
LEMMA PutFacts ==
  ASSUME NEW S, NEW c
  PROVE  /\ Ids(Put(S, c)) = Ids(S) \cup {c.id}
         /\ OneEach(S) => OneEach(Put(S, c))
         /\ \A d \in Put(S, c) : d = c \/ (d \in S /\ d.id # c.id)
         /\ IsFiniteSet(S) => IsFiniteSet(Put(S, c))
<1>1. \A d : d \in Put(S, c) <=> d = c \/ (d \in S /\ d.id # c.id)
  BY DEF Put
<1>2. Ids(Put(S, c)) = Ids(S) \cup {c.id}
  BY <1>1 DEF Ids
<1>3. ASSUME IsFiniteSet(S) PROVE IsFiniteSet(Put(S, c))
  <2> DEFINE R == {d \in S : d.id # c.id}
  <2>1. IsFiniteSet(R)
    BY <1>3, FS_Subset
  <2> HIDE DEF R
  <2>2. IsFiniteSet(R \cup {c})
    BY <2>1, FS_AddElement
  <2> QED
    BY <2>2 DEF R, Put
<1> QED
  BY <1>1, <1>2, <1>3 DEF OneEach

\* del dict[token_id].
LEMMA DropFacts ==
  ASSUME NEW S, OneEach(S), NEW c \in S
  PROVE  /\ Ids(S \ {c}) = Ids(S) \ {c.id} /\ OneEach(S \ {c})
         /\ IsFiniteSet(S) => IsFiniteSet(S \ {c})
<1>1. Ids(S \ {c}) = Ids(S) \ {c.id} /\ OneEach(S \ {c})
  BY DEF Ids, OneEach
<1> QED
  BY <1>1, FS_RemoveElement
-----------------------------------------------------------------------------
(* What a step does to the wallets and the parcels: six kinds of move *)

Still == UNCHANGED <<issuedAt, wallet, parcels, deposits>>

MintedTo(w, t) ==
  /\ t \in Tokens \ DOMAIN issuedAt
  /\ DOMAIN issuedAt' = DOMAIN issuedAt \cup {t}
  /\ wallet' = [wallet EXCEPT ![w].unspent = Put(@, MintedCopy(t, w))]
  /\ UNCHANGED <<parcels, deposits>>

NextParcel(w, v, c) ==
  [copy |-> Forwarded(LifecycleReset(c, w), v), nonce |-> Cardinality(ParcelsOf(c.id))]

HandedOver(w, v, c) ==
  /\ w # v /\ c \in wallet[w].unspent /\ LifecycleReset(c, w).hops < MaxHops
  /\ parcels' = parcels \cup {NextParcel(w, v, c)}
  /\ wallet' = [wallet EXCEPT ![w] = Sent(@, c, Cardinality(ParcelsOf(c.id)))]
  /\ UNCHANGED <<issuedAt, deposits>>

PutBack(w, c) ==
  /\ c \in wallet[w].unspent
  /\ wallet' = [wallet EXCEPT ![w] = Unsent(@, c, w)]
  /\ UNCHANGED <<issuedAt, parcels, deposits>>

TakenIn(w, p) ==
  /\ p \in parcels /\ Acceptable(wallet[w], w, p)
  /\ wallet' = [wallet EXCEPT ![w] = Taken(@, w, p)]
  /\ UNCHANGED <<issuedAt, parcels, deposits>>

DepositedBy(w, c) ==
  /\ c \in wallet[w].unspent
  /\ wallet' = [wallet EXCEPT ![w].unspent = @ \ {c}]
  /\ deposits' = deposits \cup {[by |-> w, copy |-> c]}
  /\ UNCHANGED <<issuedAt, parcels>>

Move ==
  \/ Still
  \/ \E w \in Wallets, t \in Tokens : MintedTo(w, t)
  \/ \E w, v \in Wallets : \E c \in wallet[w].unspent : HandedOver(w, v, c)
  \/ \E w \in Wallets : \E c \in wallet[w].unspent : PutBack(w, c) \/ DepositedBy(w, c)
  \/ \E w \in Wallets : \E p \in parcels : TakenIn(w, p)

\* The leg a call makes next.
LEMMA NextLeg ==
  ASSUME Typed, call # Idle, call.legs # <<>>
  PROVE  call.legs[1] \in LegRecord /\ call.legs[1].from # call.legs[1].to
<1>1. call.legs \in Seq(LegRecord)
  BY DEF Typed, CallTyped, CallRecord
<1>2. 1 \in DOMAIN call.legs /\ call.legs[1] \in LegRecord
  BY <1>1, EmptySeq, LenProperties, ElementOfSeq
<1> QED
  BY <1>2 DEF Typed, CallTyped

\* What send_token and receive_token are called with.
LEMMA CallFacts ==
  ASSUME Typed
  PROVE  /\ call.phase = "send" \/ call.phase = "receive" \/ call.phase = "raised" => call # Idle
         /\ call.phase = "receive" => call.legs # <<>>
<1>1. call.phase = "send" \/ call.phase = "receive" \/ call.phase = "raised" => call # Idle
  BY DEF Idle
<1> QED
  BY <1>1 DEF Typed, CallTyped

\* Every step of the program makes one of these moves.
LEMMA StepMoves ==
  ASSUME Typed, [Next]_vars
  PROVE  Move
<1>1. ASSUME NEW w \in Wallets, NEW t \in Tokens, Mint(w, t) PROVE Move
  <2>1. DOMAIN issuedAt' = DOMAIN issuedAt \cup {t}
    BY <1>1 DEF Mint
  <2> QED
    BY <1>1, <2>1 DEF Mint, MintedTo, Move
<1>2. ASSUME NEW w, NEW v, NEW t, NEW amount,
             BeginTransfer(w, v, t, amount) \/ BeginSwap(w, v, t, amount)
      PROVE  Still
  BY <1>2 DEF BeginTransfer, BeginSwap, walletVars, Still
<1>3. ASSUME Send PROVE Move
  <2> DEFINE leg == call.legs[1]
             w == leg.from
  <2>1. w \in Wallets /\ leg.to \in Wallets /\ w # leg.to
    BY Zenon, <1>3, NextLeg, CallFacts DEF Send, LegRecord
  <2>2. CASE UNCHANGED <<wallet, parcels>>
    BY Zenon, <1>3, <2>2 DEF Send, Still, Move
  <2>3. CASE ~UNCHANGED <<wallet, parcels>>
    <3>1. PICK c \in wallet[w].unspent :
            LET token == LifecycleReset(c, w)
                nonce == Cardinality({p \in parcels : p.copy.id = leg.token})
            IN  /\ c.id = leg.token
                /\ \/ /\ CanBuild(token, w, leg.amount, now - issuedAt[c.id])
                      /\ LET parcel == [copy |-> Forwarded(token, leg.to), nonce |-> nonce]
                         IN /\ parcels' = parcels \cup {parcel}
                            /\ call' = [call EXCEPT !.phase = "receive", !.parcel = {parcel}]
                      /\ wallet' = [wallet EXCEPT ![w] = Sent(@, c, nonce)]
                   \/ /\ ~CanBuild(token, w, leg.amount, now - issuedAt[c.id])
                      /\ wallet' = [wallet EXCEPT ![w] = Unsent(@, c, w)]
                      /\ call' = [call EXCEPT !.phase = "raised"]
                      /\ UNCHANGED parcels
      BY Zenon, <1>3, <2>3 DEF Send
    <3>2. UNCHANGED <<issuedAt, deposits>>
      BY Zenon, <1>3 DEF Send
    <3> HIDE DEF leg
    <3>3. HandedOver(w, leg.to, c) \/ PutBack(w, c)
      BY <2>1, <3>1, <3>2 DEF HandedOver, PutBack, NextParcel, ParcelsOf, CanBuild
    <3> QED
      BY <2>1, <3>3 DEF Move
  <2> QED
    BY <2>2, <2>3
<1>4. ASSUME Receive PROVE Move
  <2>1. call # Idle /\ call.legs[1] \in LegRecord
    BY <1>4, NextLeg, CallFacts DEF Receive
  <2>2. call.legs[1].to \in Wallets /\ call.parcel \in SUBSET parcels
    BY <2>1 DEF Typed, CallTyped, CallRecord, LegRecord
  <2>3. CASE UNCHANGED wallet
    BY <1>4, <2>3 DEF Receive, Still, Move
  <2>4. CASE ~UNCHANGED wallet
    <3>1. PICK p \in call.parcel : TakenIn(call.legs[1].to, p)
      BY <1>4, <2>2, <2>4 DEF Receive, TakenIn
    <3> QED
      BY <2>2, <3>1 DEF Move
  <2> QED
    BY <2>3, <2>4
<1>5. ASSUME NEW w \in Wallets, NEW p \in parcels, ReceiveAgain(w, p) PROVE Move
  BY <1>5 DEF ReceiveAgain, TakenIn, Move
<1>6. ASSUME NEW w \in Wallets, NEW c \in wallet[w].unspent, Deposit(w, c) PROVE Move
  BY <1>6 DEF Deposit, DepositedBy, Move
<1>7. ASSUME Return \/ (\E w \in Wallets : \E c \in wallet[w].unspent : SubmitKept(w, c))
             \/ (\E d \in deposits : SubmitDeposit(d)) \/ PassTime \/ UNCHANGED vars
      PROVE  Still
  BY <1>7 DEF Return, SubmitKept, SubmitDeposit, PassTime, vars, walletVars, Still
<1> QED
  BY <1>1, <1>2, <1>3, <1>4, <1>5, <1>6, <1>7 DEF Next, Move
-----------------------------------------------------------------------------
(* Types *)

\* The state of wallet w: one copy of each token it has, in its name.
GoodState(state, w) ==
  /\ state \in WalletState /\ IsFiniteSet(state.unspent) /\ OneEach(state.unspent)
  /\ \A c \in state.unspent : c.owner = w /\ LastIsOwner(c)

WalletsTyped ==
  /\ DOMAIN issuedAt \in SUBSET Tokens
  /\ wallet \in [Wallets -> WalletState] /\ \A w \in Wallets : GoodState(wallet[w], w)
  /\ parcels \in SUBSET [copy : Copy, nonce : Nat] /\ IsFiniteSet(parcels)
  /\ \A p \in parcels : LastIsOwner(p.copy)
  /\ deposits \in SUBSET [by : Wallets, copy : Copy]

\* The typed state has typed wallets.
LEMMA TypedWallets ==
  ASSUME Typed
  PROVE  WalletsTyped
<1>1. ASSUME NEW w \in Wallets PROVE GoodState(wallet[w], w)
  BY DEF Typed, TypeOK, GoodState, OneEach
<1> QED
  BY <1>1 DEF Typed, TypeOK, WalletsTyped

\* A copy put into a wallet in its owner's name keeps the wallet's state good.
LEMMA PutState ==
  ASSUME NEW w \in Wallets, NEW state, GoodState(state, w), NEW c \in Copy,
         c.owner = w, LastIsOwner(c), NEW nonces \in SUBSET (Tokens \X Nat)
  PROVE  GoodState([unspent |-> Put(state.unspent, c), nonces |-> nonces], w)
<1> DEFINE S == Put(state.unspent, c)
<1>1. IsFiniteSet(state.unspent) /\ OneEach(state.unspent) /\ state.unspent \in SUBSET Copy
  BY DEF GoodState, WalletState
<1>2. /\ IsFiniteSet(S) /\ OneEach(S)
      /\ \A d \in S : d = c \/ d \in state.unspent
  BY <1>1, PutFacts
<1>3. \A d \in S : d \in Copy /\ d.owner = w /\ LastIsOwner(d)
  BY <1>1, <1>2 DEF GoodState
<1> HIDE DEF S
<1>4. S \in SUBSET Copy
  BY <1>3
<1>5. [unspent |-> S, nonces |-> nonces] \in WalletState
  BY <1>4 DEF WalletState
<1>6. [unspent |-> S, nonces |-> nonces].unspent = S
  OBVIOUS
<1>7. GoodState([unspent |-> S, nonces |-> nonces], w)
  BY <1>2, <1>3, <1>5, <1>6 DEF GoodState
<1> QED
  BY <1>7 DEF S

\* A copy taken out of a wallet leaves the wallet's state good.
LEMMA DropState ==
  ASSUME NEW w \in Wallets, NEW state, GoodState(state, w), NEW c \in state.unspent,
         NEW nonces \in SUBSET (Tokens \X Nat)
  PROVE  GoodState([unspent |-> state.unspent \ {c}, nonces |-> nonces], w)
<1> DEFINE S == state.unspent \ {c}
<1>1. IsFiniteSet(state.unspent) /\ OneEach(state.unspent) /\ state.unspent \in SUBSET Copy
  BY DEF GoodState, WalletState
<1>2. IsFiniteSet(S) /\ OneEach(S)
  BY <1>1, DropFacts
<1>3. \A d \in S : d \in Copy /\ d.owner = w /\ LastIsOwner(d)
  BY <1>1 DEF GoodState
<1> HIDE DEF S
<1>5. [unspent |-> S, nonces |-> nonces] \in WalletState
  BY <1>3 DEF WalletState
<1>6. [unspent |-> S, nonces |-> nonces].unspent = S
  OBVIOUS
<1>7. GoodState([unspent |-> S, nonces |-> nonces], w)
  BY <1>2, <1>3, <1>5, <1>6 DEF GoodState
<1> QED
  BY <1>7 DEF S

\* The number of parcels of a token is a number.
LEMMA ParcelCount ==
  ASSUME WalletsTyped, NEW t
  PROVE  Cardinality(ParcelsOf(t)) \in Nat /\ IsFiniteSet(ParcelsOf(t))
<1>1. IsFiniteSet(ParcelsOf(t))
  BY FS_Subset DEF ParcelsOf, WalletsTyped
<1> QED
  BY <1>1, FS_CardinalityType

\* Changing what a wallet has leaves its nonces.
LEMMA UnspentChanged ==
  ASSUME NEW state \in WalletState, NEW S
  PROVE  [state EXCEPT !.unspent = S] = [unspent |-> S, nonces |-> state.nonces]
<1>1. state = [unspent |-> state.unspent, nonces |-> state.nonces]
  BY DEF WalletState
<1> DEFINE u == state.unspent
           n == state.nonces
<1> HIDE DEF u, n
<1>2. state = [unspent |-> u, nonces |-> n]
  BY <1>1 DEF u, n
<1>3. [state EXCEPT !.unspent = S] = [unspent |-> S, nonces |-> n]
  BY <1>2
<1> QED
  BY <1>3 DEF n

\* The same for a wallet among the others.
LEMMA WalletUnspentChanged ==
  ASSUME WalletsTyped, NEW w \in Wallets, NEW S,
         NEW W, W = [wallet EXCEPT ![w].unspent = S]
  PROVE  W = [wallet EXCEPT ![w] = [unspent |-> S, nonces |-> wallet[w].nonces]]
<1>1. wallet[w] \in WalletState
  BY DEF WalletsTyped
<1> DEFINE s == [wallet[w] EXCEPT !.unspent = S]
           q == [unspent |-> S, nonces |-> wallet[w].nonces]
<1>2. s = q
  BY <1>1, UnspentChanged
<1>3. W = [wallet EXCEPT ![w] = s]
  OBVIOUS
<1> HIDE DEF s, q
<1>4. W = [wallet EXCEPT ![w] = q]
  BY <1>2, <1>3
<1> QED
  BY <1>4 DEF q

\* A copy in a wallet, and the parcel made of it.
LEMMA HeldFacts ==
  ASSUME WalletsTyped, NEW w \in Wallets, NEW c \in wallet[w].unspent
  PROVE  /\ c \in Copy /\ c.owner = w /\ LastIsOwner(c) /\ c.id \in Tokens
         /\ wallet[w] \in WalletState /\ OneEach(wallet[w].unspent)
         /\ wallet[w] = [unspent |-> wallet[w].unspent, nonces |-> wallet[w].nonces]
         /\ wallet[w].nonces \in SUBSET (Tokens \X Nat)
<1>1. wallet[w] \in WalletState /\ GoodState(wallet[w], w)
  BY DEF WalletsTyped
<1>2. c \in Copy /\ c.owner = w /\ LastIsOwner(c)
  BY <1>1 DEF GoodState, WalletState
<1>3. c.id \in Tokens
  BY <1>2 DEF Copy, WalletsTyped
<1>4. /\ wallet[w] = [unspent |-> wallet[w].unspent, nonces |-> wallet[w].nonces]
      /\ wallet[w].nonces \in SUBSET (Tokens \X Nat)
  BY <1>1 DEF WalletState
<1> QED
  BY <1>1, <1>2, <1>3, <1>4 DEF GoodState

\* The parcel made of a copy that is handed over.
LEMMA ParcelFacts ==
  ASSUME WalletsTyped, NEW w \in Wallets, NEW v \in Wallets, NEW c \in wallet[w].unspent,
         LifecycleReset(c, w).hops < MaxHops
  PROVE  /\ NextParcel(w, v, c) \in [copy : Copy, nonce : Nat]
         /\ LastIsOwner(NextParcel(w, v, c).copy)
         /\ NextParcel(w, v, c).copy.id = c.id /\ NextParcel(w, v, c).copy.owner = v
         /\ NextParcel(w, v, c).copy.history = Append(c.history, v)
         /\ NextParcel(w, v, c).copy.hops = LifecycleReset(c, w).hops + 1
         /\ NextParcel(w, v, c).nonce = Cardinality(ParcelsOf(c.id))
<1> DEFINE r == LifecycleReset(c, w)
<1>1. c \in Copy /\ LastIsOwner(c)
  BY HeldFacts
<1>2. r \in Copy /\ r.id = c.id /\ r.history = c.history /\ Len(r.history) >= 2
  BY <1>1, ResetFacts DEF LastIsOwner
<1> HIDE DEF r
<1>3. /\ Forwarded(r, v) \in Copy /\ LastIsOwner(Forwarded(r, v))
      /\ Forwarded(r, v).id = c.id /\ Forwarded(r, v).owner = v
      /\ Forwarded(r, v).hops = r.hops + 1
      /\ Forwarded(r, v).history = Append(c.history, v)
  BY <1>2, ForwardedFacts DEF r
<1>4. NextParcel(w, v, c) = [copy |-> Forwarded(r, v), nonce |-> Cardinality(ParcelsOf(c.id))]
  BY DEF NextParcel, r
<1>5. Cardinality(ParcelsOf(c.id)) \in Nat
  BY ParcelCount
<1> QED
  BY <1>3, <1>4, <1>5 DEF r

\* A parcel, and the copy a wallet keeps of it.
LEMMA TakenFacts ==
  ASSUME WalletsTyped, NEW w \in Wallets, NEW p \in parcels, p.copy.owner = w
  PROVE  /\ p \in [copy : Copy, nonce : Nat] /\ p.copy.id \in Tokens
         /\ LifecycleReset(p.copy, w) \in Copy /\ LastIsOwner(LifecycleReset(p.copy, w))
         /\ LifecycleReset(p.copy, w).id = p.copy.id /\ LifecycleReset(p.copy, w).owner = w
         /\ LifecycleReset(p.copy, w).history = p.copy.history
<1>1. p \in [copy : Copy, nonce : Nat] /\ LastIsOwner(p.copy)
  BY DEF WalletsTyped
<1>2. p.copy \in Copy /\ p.copy.id \in Tokens
  BY <1>1 DEF Copy, WalletsTyped
<1> DEFINE r == LifecycleReset(p.copy, w)
<1>3. r \in Copy /\ r.id = p.copy.id /\ r.owner = p.copy.owner /\ r.history = p.copy.history
  BY <1>2, ResetFacts
<1> HIDE DEF r
<1>4. LastIsOwner(r)
  BY <1>1, <1>3 DEF LastIsOwner
<1> QED
  BY <1>1, <1>2, <1>3, <1>4 DEF r

\* One wallet changes its state and the others keep theirs.
LEMMA OneChanged ==
  ASSUME WalletsTyped, NEW w \in Wallets, NEW s, wallet' = [wallet EXCEPT ![w] = s],
         GoodState(s, w), UNCHANGED issuedAt
  PROVE  /\ wallet' \in [Wallets -> WalletState'] /\ \A v \in Wallets : GoodState(wallet[v], v)'
         /\ Copy' = Copy /\ DOMAIN issuedAt' \in SUBSET Tokens
<1>1. Copy' = Copy /\ WalletState' = WalletState
  BY DEF Copy, WalletState
<1>2. s \in WalletState
  BY DEF GoodState
<1>3. ASSUME NEW v \in Wallets PROVE GoodState(wallet[v], v)'
  <2>1. wallet'[v] = IF v = w THEN s ELSE wallet[v]
    BY DEF WalletsTyped
  <2>2. GoodState(wallet[v], v)
    BY DEF WalletsTyped
  <2> QED
    BY <1>1, <2>1, <2>2 DEF GoodState, LastIsOwner, OneEach
<1> QED
  BY <1>1, <1>2, <1>3 DEF WalletsTyped

\* Minting hands a wallet a copy of a token it did not have.
LEMMA MintedTypes ==
  ASSUME WalletsTyped, NEW w \in Wallets, NEW t \in Tokens, MintedTo(w, t)
  PROVE  WalletsTyped'
<1>1. /\ DOMAIN issuedAt' = DOMAIN issuedAt \cup {t} /\ UNCHANGED <<parcels, deposits>>
      /\ wallet' = [wallet EXCEPT ![w].unspent = Put(@, MintedCopy(t, w))]
  BY DEF MintedTo
<1>2. Copy \subseteq Copy' /\ WalletState \subseteq WalletState'
  <2>1. Copy \subseteq Copy'
    BY <1>1 DEF Copy
  <2> QED
    BY <2>1 DEF WalletState
<1>3. /\ MintedCopy(t, w) \in Copy' /\ LastIsOwner(MintedCopy(t, w))
      /\ MintedCopy(t, w).owner = w
  <2>1. 0 \in 0..MaxHops
    BY PocWalletAssumption
  <2>2. <<Issuer, w>> \in Seq(Wallets \cup {Issuer}) /\ Len(<<Issuer, w>>) = 2
    OBVIOUS
  <2> QED
    BY <1>1, <2>1, <2>2 DEF MintedCopy, Copy, LastIsOwner
<1> DEFINE c == MintedCopy(t, w)
           S == Put(wallet[w].unspent, c)
<1> HIDE DEF c
<1>4. /\ IsFiniteSet(S) /\ OneEach(S)
      /\ \A d \in S : d = c \/ d \in wallet[w].unspent
  BY PutFacts DEF WalletsTyped, GoodState
<1> HIDE DEF S
<1>5. wallet[w] \in WalletState /\ wallet[w].unspent \in SUBSET Copy
  BY DEF WalletsTyped, WalletState
<1>6. /\ wallet' = [wallet EXCEPT ![w] = [unspent |-> S, nonces |-> wallet[w].nonces]]
      /\ wallet[w].nonces \in SUBSET (Tokens \X Nat)
  <2>1. wallet' = [wallet EXCEPT ![w].unspent = S]
    BY <1>1 DEF S, c
  <2> QED
    BY <1>5, <2>1, WalletUnspentChanged DEF WalletState
<1>7. \A d \in S : d \in Copy' /\ d.owner = w /\ LastIsOwner(d)
  BY <1>2, <1>3, <1>4, <1>5 DEF c, WalletsTyped, GoodState
<1>8. [unspent |-> S, nonces |-> wallet[w].nonces] \in WalletState'
  BY <1>6, <1>7 DEF WalletState
<1>9. wallet' \in [Wallets -> WalletState']
  BY <1>2, <1>6, <1>8 DEF WalletsTyped
<1>10. ASSUME NEW v \in Wallets PROVE GoodState(wallet[v], v)'
  <2>1. CASE v = w
    <3>1. wallet'[v] = [unspent |-> S, nonces |-> wallet[w].nonces]
      BY <1>6, <2>1 DEF WalletsTyped
    <3> QED
      BY <1>4, <1>7, <1>8, <2>1, <3>1 DEF GoodState, LastIsOwner, OneEach
  <2>2. CASE v # w
    <3>1. wallet'[v] = wallet[v] /\ GoodState(wallet[v], v)
      BY <1>6, <2>2 DEF WalletsTyped
    <3> QED
      BY <1>2, <3>1 DEF GoodState, LastIsOwner, OneEach
  <2> QED
    BY <2>1, <2>2
<1>11. /\ parcels' \in SUBSET [copy : Copy', nonce : Nat] /\ deposits' \in SUBSET [by : Wallets, copy : Copy']
  BY <1>1, <1>2 DEF WalletsTyped
<1> QED
  BY <1>1, <1>9, <1>10, <1>11 DEF WalletsTyped, LastIsOwner

\* Every move leaves typed wallets, parcels and deposits.
LEMMA MoveTypes ==
  ASSUME WalletsTyped, Move
  PROVE  WalletsTyped'
<1>1. CASE Still
  BY <1>1 DEF Still, WalletsTyped, GoodState, WalletState, Copy, LastIsOwner, OneEach
<1>2. ASSUME NEW w \in Wallets, NEW v \in Wallets, NEW c \in wallet[w].unspent, HandedOver(w, v, c)
      PROVE  WalletsTyped'
  <2> DEFINE n == Cardinality(ParcelsOf(c.id))
             s == Sent(wallet[w], c, n)
  <2>1. n \in Nat /\ c.id \in Tokens /\ wallet[w].nonces \in SUBSET (Tokens \X Nat)
    BY ParcelCount, HeldFacts
  <2>2. wallet[w].nonces \cup {<<c.id, n>>} \in SUBSET (Tokens \X Nat)
    BY <2>1
  <2>3. GoodState(wallet[w], w)
    BY DEF WalletsTyped
  <2>4. GoodState(s, w)
    BY <2>2, <2>3, DropState DEF Sent
  <2>5. wallet' = [wallet EXCEPT ![w] = s] /\ UNCHANGED <<issuedAt, deposits>>
    BY <1>2 DEF HandedOver
  <2>6. parcels' = parcels \cup {NextParcel(w, v, c)}
    BY <1>2 DEF HandedOver
  <2>7. NextParcel(w, v, c) \in [copy : Copy, nonce : Nat] /\ LastIsOwner(NextParcel(w, v, c).copy)
    BY <1>2, ParcelFacts DEF HandedOver
  <2> HIDE DEF s
  <2>8. /\ wallet' \in [Wallets -> WalletState'] /\ \A u \in Wallets : GoodState(wallet[u], u)'
        /\ Copy' = Copy /\ DOMAIN issuedAt' \in SUBSET Tokens
    BY <2>4, <2>5, OneChanged
  <2>9. IsFiniteSet(parcels')
    BY <2>6, FS_AddElement DEF WalletsTyped
  <2> QED
    BY <2>5, <2>6, <2>7, <2>8, <2>9 DEF WalletsTyped, LastIsOwner
<1>3. ASSUME NEW w \in Wallets, NEW c \in wallet[w].unspent, PutBack(w, c) PROVE WalletsTyped'
  <2> DEFINE s == Unsent(wallet[w], c, w)
  <2>1. GoodState(wallet[w], w) /\ c \in Copy /\ c.owner = w /\ LastIsOwner(c)
    BY HeldFacts DEF WalletsTyped
  <2>2. LifecycleReset(c, w) \in Copy /\ LifecycleReset(c, w).owner = w /\ LastIsOwner(LifecycleReset(c, w))
    BY <2>1, ResetFacts DEF LastIsOwner
  <2>3. s = [unspent |-> Put(wallet[w].unspent, LifecycleReset(c, w)), nonces |-> wallet[w].nonces]
    BY HeldFacts, UnspentChanged DEF Unsent
  <2>4. GoodState(s, w)
    <3>1. wallet[w].nonces \in SUBSET (Tokens \X Nat)
      BY HeldFacts
    <3> DEFINE r == LifecycleReset(c, w)
    <3> HIDE DEF r, s
    <3> QED
      BY <2>1, <2>2, <2>3, <3>1, PutState DEF r
  <2> HIDE DEF s
  <2>5. /\ wallet' \in [Wallets -> WalletState'] /\ \A u \in Wallets : GoodState(wallet[u], u)'
        /\ Copy' = Copy /\ DOMAIN issuedAt' \in SUBSET Tokens
    BY <1>3, <2>4, OneChanged DEF PutBack, s
  <2> QED
    BY <1>3, <2>5 DEF PutBack, WalletsTyped, LastIsOwner
<1>4. ASSUME NEW w \in Wallets, NEW p \in parcels, TakenIn(w, p) PROVE WalletsTyped'
  <2> DEFINE s == Taken(wallet[w], w, p)
             r == LifecycleReset(p.copy, w)
  <2>1. GoodState(wallet[w], w) /\ wallet[w].nonces \in SUBSET (Tokens \X Nat)
    BY DEF WalletsTyped, WalletState
  <2>2. p.copy.owner = w
    BY <1>4 DEF TakenIn, Acceptable
  <2>3. r \in Copy /\ r.owner = w /\ LastIsOwner(r) /\ p.copy.id \in Tokens /\ p.nonce \in Nat
    BY <2>2, TakenFacts
  <2>4. wallet[w].nonces \cup {<<p.copy.id, p.nonce>>} \in SUBSET (Tokens \X Nat)
    BY <2>1, <2>3
  <2>5. s = [unspent |-> Put(wallet[w].unspent, r), nonces |-> wallet[w].nonces \cup {<<p.copy.id, p.nonce>>}]
    BY DEF Taken
  <2> HIDE DEF r
  <2>6. GoodState(s, w)
    BY <2>1, <2>3, <2>4, <2>5, PutState
  <2> HIDE DEF s
  <2>7. /\ wallet' \in [Wallets -> WalletState'] /\ \A u \in Wallets : GoodState(wallet[u], u)'
        /\ Copy' = Copy /\ DOMAIN issuedAt' \in SUBSET Tokens
    BY <1>4, <2>6, OneChanged DEF TakenIn, s
  <2> QED
    BY <1>4, <2>7 DEF TakenIn, WalletsTyped, LastIsOwner
<1>5. ASSUME NEW w \in Wallets, NEW c \in wallet[w].unspent, DepositedBy(w, c) PROVE WalletsTyped'
  <2> DEFINE s == [unspent |-> wallet[w].unspent \ {c}, nonces |-> wallet[w].nonces]
  <2>1. GoodState(wallet[w], w) /\ c \in Copy
    BY HeldFacts DEF WalletsTyped
  <2>2. GoodState(s, w)
    BY <2>1, HeldFacts, DropState
  <2>3. wallet' = [wallet EXCEPT ![w] = s]
    <3>1. wallet' = [wallet EXCEPT ![w].unspent = wallet[w].unspent \ {c}]
      BY <1>5 DEF DepositedBy
    <3> QED
      BY <3>1, WalletUnspentChanged
  <2>4. UNCHANGED <<issuedAt, parcels>> /\ deposits' = deposits \cup {[by |-> w, copy |-> c]}
    BY <1>5 DEF DepositedBy
  <2> HIDE DEF s
  <2>5. /\ wallet' \in [Wallets -> WalletState'] /\ \A u \in Wallets : GoodState(wallet[u], u)'
        /\ Copy' = Copy /\ DOMAIN issuedAt' \in SUBSET Tokens
    BY <2>2, <2>3, <2>4, OneChanged
  <2> QED
    BY <2>1, <2>4, <2>5 DEF WalletsTyped, LastIsOwner
<1> QED
  BY <1>1, <1>2, <1>3, <1>4, <1>5, MintedTypes DEF Move
-----------------------------------------------------------------------------
(* What each move does to the tokens and the nonces of the wallets *)

OthersKeep(w) == \A u \in Wallets : u # w => wallet'[u] = wallet[u]

\* A new token adds to its wallet.
LEMMA MintedEffect ==
  ASSUME WalletsTyped, NEW w \in Wallets, NEW t \in Tokens, MintedTo(w, t)
  PROVE  /\ OthersKeep(w) /\ wallet'[w].nonces = wallet[w].nonces
         /\ wallet'[w].unspent = Put(wallet[w].unspent, MintedCopy(t, w))
         /\ Ids(wallet'[w].unspent) = Ids(wallet[w].unspent) \cup {t}
<1> DEFINE S == Put(wallet[w].unspent, MintedCopy(t, w))
<1>1. wallet' = [wallet EXCEPT ![w].unspent = S]
  BY DEF MintedTo
<1>2. Ids(S) = Ids(wallet[w].unspent) \cup {t}
  BY PutFacts DEF MintedCopy
<1> HIDE DEF S
<1>3. wallet' = [wallet EXCEPT ![w] = [unspent |-> S, nonces |-> wallet[w].nonces]]
  BY <1>1, WalletUnspentChanged
<1> QED
  BY <1>2, <1>3 DEF WalletsTyped, OthersKeep, S

\* A token handed over leaves its wallet, which knows the nonce.
LEMMA HandedEffect ==
  ASSUME WalletsTyped, NEW w \in Wallets, NEW v \in Wallets, NEW c \in wallet[w].unspent,
         HandedOver(w, v, c)
  PROVE  /\ OthersKeep(w)
         /\ wallet'[w].unspent = wallet[w].unspent \ {c}
         /\ wallet'[w].nonces = wallet[w].nonces \cup {<<c.id, Cardinality(ParcelsOf(c.id))>>}
         /\ Ids(wallet'[w].unspent) = Ids(wallet[w].unspent) \ {c.id}
<1> DEFINE S == wallet[w].unspent \ {c}
           N == wallet[w].nonces \cup {<<c.id, Cardinality(ParcelsOf(c.id))>>}
<1>1. wallet' = [wallet EXCEPT ![w] = [unspent |-> S, nonces |-> N]]
  BY DEF HandedOver, Sent
<1>2. Ids(S) = Ids(wallet[w].unspent) \ {c.id}
  BY HeldFacts, DropFacts
<1> HIDE DEF S, N
<1> QED
  BY <1>1, <1>2 DEF WalletsTyped, OthersKeep, S, N

\* A token that could not be sent stays, reset.
LEMMA PutBackEffect ==
  ASSUME WalletsTyped, NEW w \in Wallets, NEW c \in wallet[w].unspent, PutBack(w, c)
  PROVE  /\ OthersKeep(w) /\ wallet'[w].nonces = wallet[w].nonces
         /\ wallet'[w].unspent = Put(wallet[w].unspent, LifecycleReset(c, w))
         /\ Ids(wallet'[w].unspent) = Ids(wallet[w].unspent)
<1> DEFINE r == LifecycleReset(c, w)
           S == Put(wallet[w].unspent, r)
<1>1. wallet[w] \in WalletState /\ c \in Copy
  BY HeldFacts
<1>2. r.id = c.id
  BY <1>1, ResetFacts
<1> HIDE DEF r
<1>3. Ids(S) = Ids(wallet[w].unspent)
  <2>1. Ids(S) = Ids(wallet[w].unspent) \cup {r.id}
    BY PutFacts
  <2>2. c.id \in Ids(wallet[w].unspent)
    BY DEF Ids
  <2> QED
    BY <1>2, <2>1, <2>2
<1>4. Unsent(wallet[w], c, w) = [unspent |-> S, nonces |-> wallet[w].nonces]
  BY <1>1, UnspentChanged DEF Unsent, r
<1>5. wallet' = [wallet EXCEPT ![w] = Unsent(wallet[w], c, w)]
  BY DEF PutBack
<1> HIDE DEF S
<1> QED
  BY <1>3, <1>4, <1>5 DEF WalletsTyped, OthersKeep, S, r

\* A token taken in adds to its wallet, which knows the nonce.
LEMMA TakenEffect ==
  ASSUME WalletsTyped, NEW w \in Wallets, NEW p \in parcels, TakenIn(w, p)
  PROVE  /\ OthersKeep(w) /\ p.copy.owner = w /\ p \in Due(p.copy.id)
         /\ wallet'[w].unspent = Put(wallet[w].unspent, LifecycleReset(p.copy, w))
         /\ wallet'[w].nonces = wallet[w].nonces \cup {<<p.copy.id, p.nonce>>}
         /\ Ids(wallet'[w].unspent) = Ids(wallet[w].unspent) \cup {p.copy.id}
<1> DEFINE r == LifecycleReset(p.copy, w)
           S == Put(wallet[w].unspent, r)
           N == wallet[w].nonces \cup {<<p.copy.id, p.nonce>>}
<1>1. wallet' = [wallet EXCEPT ![w] = [unspent |-> S, nonces |-> N]]
  BY DEF TakenIn, Taken
<1>2. p.copy.owner = w /\ p \in Due(p.copy.id)
  BY DEF TakenIn, Acceptable, Due, ParcelsOf
<1>3. r.id = p.copy.id
  BY <1>2, TakenFacts
<1> HIDE DEF r
<1>4. Ids(S) = Ids(wallet[w].unspent) \cup {p.copy.id}
  BY <1>3, PutFacts
<1> HIDE DEF S, N
<1> QED
  BY <1>1, <1>2, <1>4 DEF WalletsTyped, OthersKeep, S, N, r

\* A deposited token leaves its wallet.
LEMMA DepositEffect ==
  ASSUME WalletsTyped, NEW w \in Wallets, NEW c \in wallet[w].unspent, DepositedBy(w, c)
  PROVE  /\ OthersKeep(w) /\ wallet'[w].nonces = wallet[w].nonces
         /\ wallet'[w].unspent = wallet[w].unspent \ {c}
         /\ Ids(wallet'[w].unspent) = Ids(wallet[w].unspent) \ {c.id}
<1> DEFINE S == wallet[w].unspent \ {c}
<1>1. wallet' = [wallet EXCEPT ![w].unspent = S]
  BY DEF DepositedBy
<1>2. Ids(S) = Ids(wallet[w].unspent) \ {c.id}
  BY HeldFacts, DropFacts
<1> HIDE DEF S
<1>3. wallet' = [wallet EXCEPT ![w] = [unspent |-> S, nonces |-> wallet[w].nonces]]
  BY <1>1, WalletUnspentChanged
<1> QED
  BY <1>2, <1>3 DEF WalletsTyped, OthersKeep, S
-----------------------------------------------------------------------------
(* Nonces *)

\* The next nonce of a token is new to every wallet and to every parcel.
LEMMA NextNonceFresh ==
  ASSUME WalletsTyped, NoncesFresh, NEW t
  PROVE  LET n == Cardinality(ParcelsOf(t))
         IN  /\ \A p \in ParcelsOf(t) : p.nonce # n
             /\ \A w \in Wallets : <<t, n>> \notin wallet[w].nonces
<1> DEFINE n == Cardinality(ParcelsOf(t))
<1>1. n \in Nat
  BY ParcelCount
<1>2. \A p \in ParcelsOf(t) : p.nonce < n /\ p.nonce \in Nat
  BY DEF NoncesFresh, ParcelsOf, WalletsTyped
<1>3. ASSUME NEW w \in Wallets PROVE <<t, n>> \notin wallet[w].nonces
  <2> SUFFICES ASSUME <<t, n>> \in wallet[w].nonces PROVE FALSE
    OBVIOUS
  <2>1. <<t, n>>[2] < Cardinality(ParcelsOf(<<t, n>>[1]))
    BY DEF NoncesFresh
  <2>2. n < n
    BY <2>1
  <2> QED
    BY <1>1, <2>2
<1> QED
  BY <1>1, <1>2, <1>3

\* No step gives two parcels of a token the same nonce.
LEMMA NoncesStep ==
  ASSUME WalletsTyped, NoncesFresh, Move
  PROVE  NoncesFresh'
<1>1. ASSUME UNCHANGED parcels,
             \A w \in Wallets : \A e \in wallet'[w].nonces :
               e[2] < Cardinality(ParcelsOf(e[1]))
      PROVE  NoncesFresh'
  BY <1>1 DEF NoncesFresh, ParcelsOf
<1>2. CASE Still
  BY <1>2 DEF Still, NoncesFresh, ParcelsOf
<1>3. ASSUME NEW w \in Wallets, NEW t \in Tokens, MintedTo(w, t) PROVE NoncesFresh'
  <2>1. OthersKeep(w) /\ wallet'[w].nonces = wallet[w].nonces /\ UNCHANGED parcels
    BY <1>3, MintedEffect DEF MintedTo
  <2> QED
    BY <1>1, <2>1 DEF NoncesFresh, OthersKeep
<1>4. ASSUME NEW w \in Wallets, NEW c \in wallet[w].unspent, PutBack(w, c) PROVE NoncesFresh'
  <2>1. OthersKeep(w) /\ wallet'[w].nonces = wallet[w].nonces /\ UNCHANGED parcels
    BY <1>4, PutBackEffect DEF PutBack
  <2> QED
    BY <1>1, <2>1 DEF NoncesFresh, OthersKeep
<1>5. ASSUME NEW w \in Wallets, NEW c \in wallet[w].unspent, DepositedBy(w, c) PROVE NoncesFresh'
  <2>1. OthersKeep(w) /\ wallet'[w].nonces = wallet[w].nonces /\ UNCHANGED parcels
    BY <1>5, DepositEffect DEF DepositedBy
  <2> QED
    BY <1>1, <2>1 DEF NoncesFresh, OthersKeep
<1>6. ASSUME NEW w \in Wallets, NEW p \in parcels, TakenIn(w, p) PROVE NoncesFresh'
  <2>1. /\ OthersKeep(w) /\ UNCHANGED parcels
        /\ wallet'[w].nonces = wallet[w].nonces \cup {<<p.copy.id, p.nonce>>}
    BY <1>6, TakenEffect DEF TakenIn
  <2>2. p.nonce < Cardinality(ParcelsOf(p.copy.id))
    BY DEF NoncesFresh
  <2> QED
    BY <1>1, <2>1, <2>2 DEF NoncesFresh, OthersKeep
<1>7. ASSUME NEW w \in Wallets, NEW v \in Wallets, NEW c \in wallet[w].unspent, HandedOver(w, v, c)
      PROVE  NoncesFresh'
  <2> DEFINE n == Cardinality(ParcelsOf(c.id))
             q == NextParcel(w, v, c)
  <2>1. /\ OthersKeep(w) /\ parcels' = parcels \cup {q}
        /\ wallet'[w].nonces = wallet[w].nonces \cup {<<c.id, n>>}
    <3>1. OthersKeep(w) /\ wallet'[w].nonces = wallet[w].nonces \cup {<<c.id, n>>}
      BY <1>7, HandedEffect
    <3>2. parcels' = parcels \cup {q}
      BY <1>7 DEF HandedOver
    <3> QED
      BY <3>1, <3>2
  <2>2. q.copy.id = c.id /\ q.nonce = n
    BY <1>7, ParcelFacts DEF HandedOver
  <2>3. \A t : Cardinality(ParcelsOf(t)) \in Nat /\ IsFiniteSet(ParcelsOf(t))
    BY ParcelCount
  <2>4. \A x \in ParcelsOf(c.id) : x.nonce # n
    BY NextNonceFresh
  <2> HIDE DEF n, q
  <2>5. \A t : ParcelsOf(t)' = IF t = c.id THEN ParcelsOf(t) \cup {q} ELSE ParcelsOf(t)
    BY <2>1, <2>2 DEF ParcelsOf
  <2>6. q \notin ParcelsOf(c.id)
    BY <2>2, <2>4
  <2>7. Cardinality(ParcelsOf(c.id) \cup {q}) = n + 1
    BY <2>3, <2>6, FS_AddElement DEF n
  <2>8. \A t : Cardinality(ParcelsOf(t)') =
                 IF t = c.id THEN Cardinality(ParcelsOf(t)) + 1 ELSE Cardinality(ParcelsOf(t))
    BY <2>5, <2>7 DEF n
  <2>9. \A x, y \in parcels' : x.copy.id = y.copy.id /\ x.nonce = y.nonce => x = y
    BY <2>1, <2>2, <2>4 DEF NoncesFresh, ParcelsOf
  <2>10. \A x \in parcels' : x.nonce < Cardinality(ParcelsOf(x.copy.id)')
    <3> SUFFICES ASSUME NEW x \in parcels' PROVE x.nonce < Cardinality(ParcelsOf(x.copy.id)')
      OBVIOUS
    <3>1. CASE x = q
      BY <2>2, <2>3, <2>8, <3>1 DEF n
    <3>2. CASE x \in parcels
      <4>1. x.nonce < Cardinality(ParcelsOf(x.copy.id)) /\ x.nonce \in Nat
        BY <3>2 DEF NoncesFresh, WalletsTyped
      <4> QED
        BY <2>3, <2>8, <4>1
    <3> QED
      BY <2>1, <3>1, <3>2
  <2>11. ASSUME NEW u \in Wallets, NEW e \in wallet'[u].nonces
         PROVE  e[2] < Cardinality(ParcelsOf(e[1])')
    <3>1. CASE e \in wallet[u].nonces
      <4>1. e[2] < Cardinality(ParcelsOf(e[1])) /\ e[2] \in Nat
        BY <3>1 DEF NoncesFresh, WalletsTyped, WalletState
      <4> QED
        BY <2>3, <2>8, <4>1
    <3>2. CASE e = <<c.id, n>>
      BY <2>3, <2>8, <3>2 DEF n
    <3> QED
      BY <2>1, <3>1, <3>2 DEF OthersKeep
  <2> QED
    BY <2>9, <2>10, <2>11 DEF NoncesFresh
<1> QED
  BY <1>2, <1>3, <1>4, <1>5, <1>6, <1>7 DEF Move
-----------------------------------------------------------------------------
(* Places *)

\* A token that was never issued is nowhere.
LEMMA UnissuedNowhere ==
  ASSUME WalletsTyped, NEW t \in Tokens \ DOMAIN issuedAt
  PROVE  Holding(t) = {} /\ Due(t) = {} /\ Deposits(t) = {}
<1>1. \A c \in Copy : c.id # t
  BY DEF Copy
<1>2. Holding(t) = {}
  BY <1>1 DEF Holding, Ids, WalletsTyped, WalletState
<1> QED
  BY <1>1, <1>2 DEF Due, ParcelsOf, Deposits, WalletsTyped

\* A copy handed over is due to its recipient, who has not got its nonce.
LEMMA HandedIsDue ==
  ASSUME WalletsTyped, NoncesFresh, OnePlace, NEW w \in Wallets, NEW v \in Wallets,
         NEW c \in wallet[w].unspent, HandedOver(w, v, c)
  PROVE  /\ \A t \in Tokens \ {c.id} : Due(t)' = Due(t)
         /\ Due(c.id)' = {NextParcel(w, v, c)}
<1> DEFINE n == Cardinality(ParcelsOf(c.id))
           q == NextParcel(w, v, c)
<1>1. /\ OthersKeep(w) /\ parcels' = parcels \cup {q} /\ w # v
      /\ wallet'[w].nonces = wallet[w].nonces \cup {<<c.id, n>>}
  <2>1. OthersKeep(w) /\ wallet'[w].nonces = wallet[w].nonces \cup {<<c.id, n>>}
    BY HandedEffect
  <2>2. parcels' = parcels \cup {q} /\ w # v
    BY DEF HandedOver
  <2> QED
    BY <2>1, <2>2
<1>2. q.copy.id = c.id /\ q.nonce = n /\ q.copy.owner = v
  BY ParcelFacts DEF HandedOver
<1>3. \A x \in ParcelsOf(c.id) : x.nonce # n
  BY NextNonceFresh
<1>4. \A u \in Wallets : <<c.id, n>> \notin wallet[u].nonces
  BY NextNonceFresh
<1>5. \A x \in parcels : x.copy.owner \in Wallets
  BY DEF WalletsTyped, Copy
<1>6. c.id \in Tokens /\ w \in Holding(c.id)
  BY HeldFacts DEF Holding, Ids
<1>7. Due(c.id) = {}
  BY <1>6 DEF OnePlace
<1> HIDE DEF n, q
<1>8. ASSUME NEW t \in Tokens \ {c.id} PROVE Due(t)' = Due(t)
  <2>1. ParcelsOf(t)' = ParcelsOf(t)
    BY <1>1, <1>2 DEF ParcelsOf
  <2>2. \A u \in Wallets : \A k : <<t, k>> \in wallet'[u].nonces <=> <<t, k>> \in wallet[u].nonces
    BY <1>1 DEF OthersKeep
  <2> QED
    BY <1>5, <2>1, <2>2 DEF Due, ParcelsOf
<1>9. ParcelsOf(c.id)' = ParcelsOf(c.id) \cup {q}
  BY <1>1, <1>2 DEF ParcelsOf
<1>10. <<c.id, q.nonce>> \notin wallet'[q.copy.owner].nonces
  BY <1>1, <1>2, <1>4 DEF OthersKeep
<1>11. \A x \in ParcelsOf(c.id) : <<c.id, x.nonce>> \in wallet'[x.copy.owner].nonces
  <2>1. \A x \in ParcelsOf(c.id) : <<c.id, x.nonce>> \in wallet[x.copy.owner].nonces
    BY <1>7 DEF Due
  <2> QED
    BY <1>1, <1>5, <2>1 DEF OthersKeep, ParcelsOf
<1>12. Due(c.id)' = {q}
  BY <1>9, <1>10, <1>11 DEF Due
<1> QED
  BY <1>8, <1>12 DEF q

\* A parcel that is taken in is no longer due; the others are as they were.
LEMMA TakenNotDue ==
  ASSUME WalletsTyped, OnePlace, NEW w \in Wallets, NEW p \in parcels, TakenIn(w, p)
  PROVE  /\ \A t \in Tokens \ {p.copy.id} : Due(t)' = Due(t)
         /\ Due(p.copy.id) = {p} /\ Due(p.copy.id)' = {}
<1>1. /\ OthersKeep(w) /\ UNCHANGED parcels /\ p.copy.owner = w /\ p \in Due(p.copy.id)
      /\ wallet'[w].nonces = wallet[w].nonces \cup {<<p.copy.id, p.nonce>>}
  BY TakenEffect DEF TakenIn
<1>2. p.copy.id \in Tokens /\ \A x \in parcels : x.copy.owner \in Wallets
  BY <1>1, TakenFacts DEF WalletsTyped, Copy
<1>3. Due(p.copy.id) = {p}
  BY <1>1, <1>2 DEF OnePlace
<1>4. \A t : ParcelsOf(t)' = ParcelsOf(t)
  BY <1>1 DEF ParcelsOf
<1>5. ASSUME NEW t \in Tokens \ {p.copy.id} PROVE Due(t)' = Due(t)
  <2>1. \A u \in Wallets : \A k : <<t, k>> \in wallet'[u].nonces <=> <<t, k>> \in wallet[u].nonces
    BY <1>1 DEF OthersKeep
  <2> QED
    BY <1>2, <1>4, <2>1 DEF Due, ParcelsOf
<1>6. Due(p.copy.id)' = {}
  <2> SUFFICES ASSUME NEW x \in ParcelsOf(p.copy.id),
                      <<p.copy.id, x.nonce>> \notin wallet'[x.copy.owner].nonces
               PROVE  FALSE
    BY <1>4 DEF Due
  <2>1. <<p.copy.id, x.nonce>> \notin wallet[x.copy.owner].nonces
    BY <1>1, <1>2 DEF OthersKeep, ParcelsOf
  <2>2. x = p
    BY <1>3, <2>1 DEF Due
  <2> QED
    BY <1>1, <2>2
<1> QED
  BY <1>3, <1>5, <1>6

\* What is due only depends on the parcels and the nonces.
LEMMA DueKept ==
  ASSUME WalletsTyped, UNCHANGED parcels, \A u \in Wallets : wallet'[u].nonces = wallet[u].nonces
  PROVE  \A t : Due(t)' = Due(t)
<1>1. \A x \in parcels : x.copy.owner \in Wallets
  BY DEF WalletsTyped, Copy
<1> QED
  BY <1>1 DEF Due, ParcelsOf

\* The wallets that hold a token, when one wallet's tokens change.
LEMMA HoldingChanged ==
  ASSUME NEW w \in Wallets, OthersKeep(w), NEW t
  PROVE  /\ (t \in Ids(wallet'[w].unspent) <=> t \in Ids(wallet[w].unspent)) => Holding(t)' = Holding(t)
         /\ t \in Ids(wallet'[w].unspent) => Holding(t)' = Holding(t) \cup {w}
         /\ t \notin Ids(wallet'[w].unspent) => Holding(t)' = Holding(t) \ {w}
BY DEF OthersKeep, Holding

\* The place of a token is kept when nothing about it changes.
PlaceOf(t) ==
  /\ \A v, w \in Holding(t) : v = w
  /\ \A p, q \in Due(t) : p = q
  /\ \A d, e \in Deposits(t) : d = e
  /\ Holding(t) # {} => Due(t) = {} /\ Deposits(t) = {}
  /\ Due(t) # {} => Deposits(t) = {}

\* No step leaves a token in two places.
LEMMA PlaceStep ==
  ASSUME WalletsTyped, NoncesFresh, OnePlace, Move
  PROVE  OnePlace'
<1> SUFFICES ASSUME NEW t \in Tokens PROVE PlaceOf(t)'
  BY DEF OnePlace, PlaceOf
<1>1. PlaceOf(t)
  BY DEF OnePlace, PlaceOf
<1>2. ASSUME Holding(t)' = Holding(t), Due(t)' = Due(t), Deposits(t)' = Deposits(t)
      PROVE  PlaceOf(t)'
  BY <1>1, <1>2 DEF PlaceOf
<1>3. CASE Still
  BY <1>2, <1>3 DEF Still, Holding, Due, Deposits, ParcelsOf
<1>4. ASSUME NEW w \in Wallets, NEW s \in Tokens, MintedTo(w, s) PROVE PlaceOf(t)'
  <2>1. /\ OthersKeep(w) /\ wallet'[w].nonces = wallet[w].nonces
        /\ Ids(wallet'[w].unspent) = Ids(wallet[w].unspent) \cup {s}
    BY <1>4, MintedEffect
  <2>2. UNCHANGED <<parcels, deposits>>
    BY <1>4 DEF MintedTo
  <2>3. Due(t)' = Due(t) /\ Deposits(t)' = Deposits(t)
    BY <2>1, <2>2, DueKept DEF OthersKeep, Deposits
  <2>4. CASE t # s
    BY <1>2, <2>1, <2>3, <2>4, HoldingChanged
  <2>5. CASE t = s
    <3>1. Holding(t) = {} /\ Due(t) = {} /\ Deposits(t) = {}
      BY <1>4, <2>5, UnissuedNowhere DEF MintedTo
    <3>2. Holding(t)' = {w}
      BY <2>1, <2>5, <3>1, HoldingChanged
    <3> QED
      BY <2>3, <3>1, <3>2 DEF PlaceOf
  <2> QED
    BY <2>4, <2>5
<1>5. ASSUME NEW w \in Wallets, NEW v \in Wallets, NEW c \in wallet[w].unspent, HandedOver(w, v, c)
      PROVE  PlaceOf(t)'
  <2>1. OthersKeep(w) /\ Ids(wallet'[w].unspent) = Ids(wallet[w].unspent) \ {c.id}
    BY <1>5, HandedEffect
  <2>2. Deposits(t)' = Deposits(t)
    BY <1>5 DEF HandedOver, Deposits
  <2>3. CASE t # c.id
    <3>1. Due(t)' = Due(t)
      BY <1>5, <2>3, HandedIsDue
    <3> QED
      BY <1>2, <2>1, <2>2, <2>3, <3>1, HoldingChanged
  <2>4. CASE t = c.id
    <3>1. w \in Holding(t)
      BY <2>4 DEF Holding, Ids
    <3>2. Holding(t)' = {}
      BY <1>1, <2>1, <2>4, <3>1, HoldingChanged DEF PlaceOf
    <3>3. Due(t)' = {NextParcel(w, v, c)} /\ Deposits(t) = {}
      BY <1>1, <1>5, <2>4, <3>1, HandedIsDue DEF PlaceOf
    <3> QED
      BY <2>2, <3>2, <3>3 DEF PlaceOf
  <2> QED
    BY <2>3, <2>4
<1>6. ASSUME NEW w \in Wallets, NEW c \in wallet[w].unspent, PutBack(w, c) PROVE PlaceOf(t)'
  <2>1. /\ OthersKeep(w) /\ wallet'[w].nonces = wallet[w].nonces
        /\ Ids(wallet'[w].unspent) = Ids(wallet[w].unspent)
    BY <1>6, PutBackEffect
  <2>2. UNCHANGED <<parcels, deposits>>
    BY <1>6 DEF PutBack
  <2>3. Due(t)' = Due(t) /\ Deposits(t)' = Deposits(t)
    BY <2>1, <2>2, DueKept DEF OthersKeep, Deposits
  <2> QED
    BY <1>2, <2>1, <2>3, HoldingChanged
<1>7. ASSUME NEW w \in Wallets, NEW p \in parcels, TakenIn(w, p) PROVE PlaceOf(t)'
  <2>1. OthersKeep(w) /\ Ids(wallet'[w].unspent) = Ids(wallet[w].unspent) \cup {p.copy.id}
    BY <1>7, TakenEffect
  <2>2. Deposits(t)' = Deposits(t)
    BY <1>7 DEF TakenIn, Deposits
  <2>3. CASE t # p.copy.id
    <3>1. Due(t)' = Due(t)
      BY <1>7, <2>3, TakenNotDue
    <3> QED
      BY <1>2, <2>1, <2>2, <2>3, <3>1, HoldingChanged
  <2>4. CASE t = p.copy.id
    <3>1. Due(t) = {p} /\ Due(t)' = {}
      BY <1>7, <2>4, TakenNotDue
    <3>2. Holding(t) = {} /\ Deposits(t) = {}
      BY <1>1, <3>1 DEF PlaceOf
    <3>3. Holding(t)' = {w}
      BY <2>1, <2>4, <3>2, HoldingChanged
    <3> QED
      BY <2>2, <3>1, <3>2, <3>3 DEF PlaceOf
  <2> QED
    BY <2>3, <2>4
<1>8. ASSUME NEW w \in Wallets, NEW c \in wallet[w].unspent, DepositedBy(w, c) PROVE PlaceOf(t)'
  <2>1. /\ OthersKeep(w) /\ wallet'[w].nonces = wallet[w].nonces
        /\ Ids(wallet'[w].unspent) = Ids(wallet[w].unspent) \ {c.id}
    BY <1>8, DepositEffect
  <2>2. UNCHANGED parcels /\ deposits' = deposits \cup {[by |-> w, copy |-> c]}
    BY <1>8 DEF DepositedBy
  <2>3. Due(t)' = Due(t)
    BY <2>1, <2>2, DueKept DEF OthersKeep
  <2>4. CASE t # c.id
    <3>1. Deposits(t)' = Deposits(t)
      BY <2>2, <2>4 DEF Deposits
    <3> QED
      BY <1>2, <2>1, <2>3, <2>4, <3>1, HoldingChanged
  <2>5. CASE t = c.id
    <3>1. w \in Holding(t)
      BY <2>5 DEF Holding, Ids
    <3>2. Holding(t)' = {} /\ Due(t) = {} /\ Deposits(t) = {}
      BY <1>1, <2>1, <2>5, <3>1, HoldingChanged DEF PlaceOf
    <3>3. Deposits(t)' = {[by |-> w, copy |-> c]}
      BY <2>2, <2>5, <3>2 DEF Deposits
    <3> QED
      BY <2>3, <3>2, <3>3 DEF PlaceOf
  <2> QED
    BY <2>4, <2>5
<1> QED
  BY <1>3, <1>4, <1>5, <1>6, <1>7, <1>8 DEF Move
-----------------------------------------------------------------------------
(* The running call *)

\* A call that begins is of the right type.
LEMMA StartedTypes ==
  ASSUME WalletsTyped, NEW kind \in {"transfer", "swap"}, NEW owed \in Amounts,
         NEW legs \in Seq(LegRecord), legs # <<>>, legs[1] \in LegRecord,
         \A k \in DOMAIN legs : legs[k].from # legs[k].to, legs[1].from # legs[1].to,
         call' = Started(kind, owed, legs), UNCHANGED parcels
  PROVE  CallTyped'
<1> DEFINE before == [w \in Wallets |-> Ids(wallet[w].unspent)]
<1>1. before \in [Wallets -> SUBSET Tokens]
  <2>1. \A w \in Wallets : Ids(wallet[w].unspent) \in SUBSET Tokens
    BY DEF WalletsTyped, WalletState, Copy, Ids
  <2> QED
    BY <2>1
<1>2. call' = [phase |-> "send", kind |-> kind, payer |-> legs[1].from, payee |-> legs[1].to,
               owed |-> owed, legs |-> legs, parcel |-> {}, before |-> before]
  BY DEF Started
<1>3. legs[1].from \in Wallets /\ legs[1].to \in Wallets
  BY DEF LegRecord
<1> HIDE DEF before
<1>4. call' \in CallRecord'
  BY <1>1, <1>2, <1>3 DEF CallRecord
<1> QED
  BY <1>2, <1>4 DEF CallTyped

\* One or two legs.
LEMMA LegsFacts ==
  ASSUME NEW a \in LegRecord, NEW b \in LegRecord, a.from # a.to, b.from # b.to,
         NEW legs \in {<<a>>, <<a, b>>}
  PROVE  /\ legs \in Seq(LegRecord) /\ legs # <<>> /\ legs[1] = a
         /\ \A k \in DOMAIN legs : legs[k].from # legs[k].to
<1>1. CASE legs = <<a>>
  <2>1. <<a>> \in Seq(LegRecord) /\ <<a>> # <<>> /\ <<a>>[1] = a /\ DOMAIN <<a>> = {1}
    OBVIOUS
  <2> QED
    BY <1>1, <2>1
<1>2. CASE legs = <<a, b>>
  <2>1. /\ <<a, b>> \in Seq(LegRecord) /\ <<a, b>> # <<>> /\ <<a, b>>[1] = a /\ <<a, b>>[2] = b
        /\ DOMAIN <<a, b>> = {1, 2}
    OBVIOUS
  <2> QED
    BY <1>2, <2>1
<1> QED
  BY <1>1, <1>2

\* A change token is one the payee has, worth at least the change, and the
\* smallest of those.
LEMMA ChangeFacts ==
  ASSUME WalletsTyped, NEW w \in Wallets, NEW amount, NEW c \in ChangeTokens(wallet[w], amount)
  PROVE  /\ c \in wallet[w].unspent /\ c.id \in Tokens /\ Value[c.id] \in Nat
         /\ Value[c.id] >= amount
         /\ \A d \in wallet[w].unspent : Value[d.id] >= amount => Value[c.id] <= Value[d.id]
<1>1. c \in wallet[w].unspent
  BY DEF ChangeTokens
<1>2. c.id \in Tokens
  BY <1>1, HeldFacts
<1> QED
  BY <1>1, <1>2, PocWalletAssumption DEF ChangeTokens

\* The two kinds of call, as they begin.
LEMMA BeginTypes ==
  ASSUME WalletsTyped, NEW w \in Wallets, NEW v \in Wallets, w # v,
         NEW t \in DOMAIN issuedAt, NEW amount \in Amounts,
         BeginTransfer(w, v, t, amount) \/ BeginSwap(w, v, t, amount)
  PROVE  CallTyped'
<1>1. t \in Tokens /\ amount \in Int /\ Value[t] \in Int
  BY PocWalletAssumption, BleSwapAssumption DEF WalletsTyped
<1>2. UNCHANGED parcels
  BY DEF BeginTransfer, BeginSwap, walletVars
<1>3. CASE BeginTransfer(w, v, t, amount)
  <2> DEFINE a == Leg(w, v, t, amount)
  <2>1. a \in LegRecord /\ a.from = w /\ a.to = v
    BY <1>1 DEF Leg, LegRecord
  <2>2. call' = Started("transfer", amount, <<a>>)
    BY <1>3 DEF BeginTransfer
  <2> HIDE DEF a
  <2> DEFINE legs == <<a>>
  <2>3. /\ legs \in Seq(LegRecord) /\ legs # <<>> /\ legs[1] = a
        /\ \A k \in DOMAIN legs : legs[k].from # legs[k].to
    BY <2>1, LegsFacts
  <2>4. call' = Started("transfer", amount, legs)
    BY <2>2
  <2> HIDE DEF legs
  <2> QED
    BY <1>1, <1>2, <2>1, <2>3, <2>4, StartedTypes
<1>4. CASE BeginSwap(w, v, t, amount)
  <2> DEFINE a == Leg(w, v, t, Value[t])
  <2>1. a \in LegRecord /\ a.from = w /\ a.to = v
    BY <1>1 DEF Leg, LegRecord
  <2>2. PICK legs : /\ call' = Started("swap", amount, legs)
                    /\ \/ legs = <<a>>
                       \/ \E c \in ChangeTokens(wallet[v], Value[t] - amount) :
                            legs = <<a, Leg(v, w, c.id, Value[c.id])>>
    BY <1>4 DEF BeginSwap
  <2> HIDE DEF a
  <2>3. \E b \in LegRecord : b.from # b.to /\ legs \in {<<a>>, <<a, b>>}
    <3>1. CASE legs = <<a>>
      BY <2>1, <3>1
    <3>2. ASSUME NEW c \in ChangeTokens(wallet[v], Value[t] - amount),
                 legs = <<a, Leg(v, w, c.id, Value[c.id])>>
          PROVE  \E b \in LegRecord : b.from # b.to /\ legs \in {<<a>>, <<a, b>>}
      <4> DEFINE b == Leg(v, w, c.id, Value[c.id])
      <4>1. c.id \in Tokens /\ Value[c.id] \in Int
        <5>1. c \in wallet[v].unspent
          BY DEF ChangeTokens
        <5>2. c.id \in Tokens
          BY <5>1, HeldFacts
        <5> QED
          BY <5>2, PocWalletAssumption
      <4>2. b \in LegRecord /\ b.from # b.to
        BY <4>1 DEF Leg, LegRecord
      <4> HIDE DEF b
      <4> QED
        BY <3>2, <4>2 DEF b
    <3> QED
      BY <2>2, <3>1, <3>2
  <2>4. /\ legs \in Seq(LegRecord) /\ legs # <<>> /\ legs[1] = a
        /\ \A k \in DOMAIN legs : legs[k].from # legs[k].to
    BY ZenonT(60), <2>1, <2>3, LegsFacts
  <2> QED
    BY <1>1, <1>2, <2>1, <2>2, <2>4, StartedTypes
<1> QED
  BY <1>3, <1>4

\* A call goes on, or ends.
LEMMA CallTypesStep ==
  ASSUME Typed, [Next]_vars, WalletsTyped'
  PROVE  CallTyped'
<1>1. WalletsTyped
  BY TypedWallets
<1>2. CASE call = Idle /\ call' = call
  BY <1>2 DEF CallTyped
<1>3. CASE UNCHANGED <<call, parcels>>
  BY <1>3 DEF Typed, CallTyped, CallRecord
<1>4. ASSUME Send PROVE CallTyped'
  <2>1. call # Idle /\ call \in CallRecord /\ call.payer # call.payee /\ call.legs # <<>>
    BY Zenon, <1>4, CallFacts DEF Send, Typed, CallTyped
  <2>2. parcels \subseteq parcels' /\ \E P \in SUBSET parcels' :
          \/ call' = [call EXCEPT !.phase = "receive", !.parcel = P]
          \/ call' = [call EXCEPT !.phase = "raised"]
    BY Zenon, <1>4 DEF Send
  <2>3. call' \in CallRecord' /\ call'.payer # call'.payee /\ call'.legs = call.legs
    BY <2>1, <2>2 DEF CallRecord
  <2> QED
    BY <2>1, <2>3 DEF Typed, CallTyped
<1>5. ASSUME Receive PROVE CallTyped'
  <2>1. call # Idle /\ call \in CallRecord /\ call.payer # call.payee /\ call.legs # <<>>
    BY <1>5, CallFacts DEF Receive, Typed, CallTyped
  <2>2. UNCHANGED parcels /\ \/ call' = [call EXCEPT !.phase = "send", !.legs = Tail(call.legs), !.parcel = {}]
                             \/ call' = [call EXCEPT !.phase = "raised"]
    BY <1>5 DEF Receive
  <2>3. /\ call.legs \in Seq(LegRecord) /\ Tail(call.legs) \in Seq(LegRecord)
        /\ \A k \in DOMAIN Tail(call.legs) : k + 1 \in DOMAIN call.legs /\ Tail(call.legs)[k] = call.legs[k + 1]
    <3>1. call.legs \in Seq(LegRecord)
      BY <2>1 DEF CallRecord
    <3>2. /\ Tail(call.legs) \in Seq(LegRecord) /\ Len(Tail(call.legs)) = Len(call.legs) - 1
          /\ \A k \in 1..Len(Tail(call.legs)) : Tail(call.legs)[k] = call.legs[k + 1]
      BY <2>1, <3>1, HeadTailProperties
    <3>3. Len(call.legs) \in Nat /\ DOMAIN call.legs = 1..Len(call.legs)
      BY <3>1, LenProperties
    <3>4. DOMAIN Tail(call.legs) = 1..(Len(call.legs) - 1)
      BY <3>2, LenProperties
    <3> QED
      BY <3>1, <3>2, <3>3, <3>4
  <2> DEFINE rest == Tail(call.legs)
  <2>4. \A k \in DOMAIN rest : rest[k].from # rest[k].to
    BY <2>1, <2>3 DEF Typed, CallTyped
  <2> HIDE DEF rest
  <2>5. CASE call' = [call EXCEPT !.phase = "send", !.legs = rest, !.parcel = {}]
    <3>1. /\ call' \in CallRecord' /\ call'.payer # call'.payee /\ call'.legs = rest
          /\ call'.phase = "send"
      BY <2>1, <2>2, <2>3, <2>5 DEF CallRecord, rest
    <3> QED
      BY <2>4, <3>1 DEF CallTyped
  <2>6. CASE call' = [call EXCEPT !.phase = "raised"]
    <3>1. /\ call' \in CallRecord' /\ call'.payer # call'.payee /\ call'.legs = call.legs
          /\ call'.phase = "raised"
      BY <2>1, <2>2, <2>6 DEF CallRecord
    <3> QED
      BY <2>1, <3>1 DEF Typed, CallTyped
  <2> QED
    BY <2>2, <2>5, <2>6 DEF rest
<1>6. CASE Return
  BY <1>6 DEF Return, CallTyped
<1>7. ASSUME NEW w \in Wallets, NEW v \in Wallets, NEW t \in DOMAIN issuedAt, NEW amount \in Amounts,
             w # v, BeginTransfer(w, v, t, amount) \/ BeginSwap(w, v, t, amount)
      PROVE  CallTyped'
  BY <1>1, <1>7, BeginTypes
<1>8. ASSUME NEW w \in Wallets, NEW t \in Tokens, Mint(w, t) PROVE CallTyped'
  BY <1>2, <1>8 DEF Mint
<1>9. ASSUME NEW w \in Wallets, NEW p \in parcels, ReceiveAgain(w, p) PROVE CallTyped'
  BY <1>2, <1>9 DEF ReceiveAgain
<1>10. ASSUME NEW w \in Wallets, NEW c \in wallet[w].unspent, Deposit(w, c) \/ SubmitKept(w, c)
       PROVE  CallTyped'
  BY <1>2, <1>10 DEF Deposit, SubmitKept
<1>11. ASSUME NEW d \in deposits, SubmitDeposit(d) PROVE CallTyped'
  BY <1>2, <1>11 DEF SubmitDeposit
<1>12. CASE PassTime \/ UNCHANGED vars
  BY <1>3, <1>12 DEF PassTime, vars, walletVars
<1> QED
  BY <1>4, <1>5, <1>6, <1>7, <1>8, <1>9, <1>10, <1>11, <1>12 DEF Next

\* Every step submits a token to the ledger or leaves the ledger as it is.
LEMMA LedgerMoves ==
  ASSUME [Next]_vars
  PROVE  \/ \E d \in deposits : SubmitDeposit(d)
         \/ \E w \in Wallets : \E c \in wallet[w].unspent : SubmitKept(w, c)
         \/ UNCHANGED <<registry, conflicts, kept>> /\ deposits \subseteq deposits'
<1> DEFINE Apart == UNCHANGED <<registry, conflicts, kept>> /\ deposits \subseteq deposits'
<1>1. ASSUME NEW w, NEW t, Mint(w, t) PROVE Apart
  BY <1>1 DEF Mint, ledgerVars
<1>2. ASSUME NEW w, NEW v, NEW t, NEW amount,
             BeginTransfer(w, v, t, amount) \/ BeginSwap(w, v, t, amount)
      PROVE  Apart
  BY <1>2 DEF BeginTransfer, BeginSwap, ledgerVars
<1>3. ASSUME Send PROVE Apart
  BY Zenon, <1>3 DEF Send, ledgerVars
<1>4. ASSUME Receive PROVE Apart
  BY <1>4 DEF Receive, ledgerVars
<1>5. ASSUME Return PROVE Apart
  BY <1>5 DEF Return, ledgerVars
<1>6. ASSUME NEW w, NEW p, ReceiveAgain(w, p) PROVE Apart
  BY <1>6 DEF ReceiveAgain, ledgerVars
<1>7. ASSUME NEW w, NEW c, Deposit(w, c) PROVE Apart
  BY <1>7 DEF Deposit, ledgerVars
<1>8. ASSUME PassTime \/ UNCHANGED vars PROVE Apart
  BY <1>8 DEF PassTime, ledgerVars, vars
<1> HIDE DEF Apart
<1>9. \/ \E d \in deposits : SubmitDeposit(d)
      \/ \E w \in Wallets : \E c \in wallet[w].unspent : SubmitKept(w, c)
      \/ Apart
  BY <1>1, <1>2, <1>3, <1>4, <1>5, <1>6, <1>7, <1>8 DEF Next
<1> QED
  BY <1>9 DEF Apart

\* The ledger registers tokens that were issued.
LEMMA RegistryTypes ==
  ASSUME Typed, [Next]_vars, WalletsTyped'
  PROVE  DOMAIN registry' \subseteq DOMAIN issuedAt'
<1>1. WalletsTyped /\ DOMAIN registry \subseteq DOMAIN issuedAt
  BY TypedWallets DEF Typed, TypeOK
<1>2. ASSUME NEW c \in Copy, NEW by, SubmitToken(c, by), UNCHANGED issuedAt
      PROVE  DOMAIN registry' \subseteq DOMAIN issuedAt'
  <2>1. DOMAIN registry' \subseteq DOMAIN registry \cup {c.id}
    BY <1>2 DEF SubmitToken
  <2> QED
    BY <1>1, <1>2, <2>1 DEF Copy
<1>3. ASSUME NEW d \in deposits, SubmitDeposit(d) PROVE DOMAIN registry' \subseteq DOMAIN issuedAt'
  <2>1. d.copy \in Copy
    BY <1>1 DEF WalletsTyped
  <2> QED
    BY <1>2, <1>3, <2>1 DEF SubmitDeposit, walletVars
<1>4. ASSUME NEW w \in Wallets, NEW c \in wallet[w].unspent, SubmitKept(w, c)
      PROVE  DOMAIN registry' \subseteq DOMAIN issuedAt'
  <2>1. c \in Copy
    BY <1>1, HeldFacts
  <2> QED
    BY <1>2, <1>4, <2>1 DEF SubmitKept, walletVars
<1>5. CASE UNCHANGED registry
  <2>1. DOMAIN issuedAt \subseteq DOMAIN issuedAt'
    <3>1. Move
      BY StepMoves
    <3> QED
      BY <3>1 DEF Move, Still, MintedTo, HandedOver, PutBack, DepositedBy, TakenIn
  <2> QED
    BY <1>1, <1>5, <2>1
<1> QED
  BY <1>3, <1>4, <1>5, LedgerMoves

\* Every step keeps the types.
LEMMA TypesStep ==
  ASSUME Typed, [Next]_vars
  PROVE  Typed' /\ WalletsTyped'
<1>1. WalletsTyped'
  BY TypedWallets, StepMoves, MoveTypes
<1>2. CallTyped' /\ DOMAIN registry' \subseteq DOMAIN issuedAt'
  BY <1>1, CallTypesStep, RegistryTypes
<1>3. call' = Idle \/ call'.phase \in {"send", "receive", "raised"}
  BY <1>2 DEF CallTyped, CallRecord
<1>4. ASSUME NEW w \in Wallets, NEW c \in wallet'[w].unspent
      PROVE  /\ c \in Copy' /\ c.owner = w /\ LastIsOwner(c)
             /\ \A d \in wallet'[w].unspent : c.id = d.id => c = d
  BY <1>1 DEF WalletsTyped, GoodState, WalletState, OneEach, LastIsOwner
<1>5. TypeOK'
  <2>1. \A w \in Wallets : \A c \in wallet'[w].unspent :
          /\ c \in Copy' /\ c.owner = w /\ c.history[Len(c.history)] = w
          /\ \A d \in wallet'[w].unspent : c.id = d.id => c = d
    BY <1>4 DEF LastIsOwner
  <2>2. DOMAIN issuedAt' \subseteq Tokens /\ \A p \in parcels' : p.copy \in Copy'
    BY <1>1 DEF WalletsTyped
  <2> QED
    BY <1>2, <1>3, <2>1, <2>2 DEF TypeOK
<1>6. /\ wallet' \in [Wallets -> WalletState']
      /\ \A w \in Wallets : IsFiniteSet(wallet'[w].unspent)
      /\ parcels' \in SUBSET [copy : Copy', nonce : Nat] /\ IsFiniteSet(parcels')
      /\ \A p \in parcels' : LastIsOwner(p.copy)
      /\ deposits' \in SUBSET [by : Wallets, copy : Copy']
  BY <1>1 DEF WalletsTyped, GoodState, LastIsOwner
<1>7. Typed'
  BY <1>2, <1>4, <1>5, <1>6 DEF Typed, LastIsOwner
<1> QED
  BY <1>1, <1>7
-----------------------------------------------------------------------------
(* The ledger *)

\* A submission registers a token for a wallet that keeps or deposited it, and
\* refuses one only when the registered wallet kept the token.
LEMMA SubmitFacts ==
  ASSUME LedgerInv, NEW c, NEW by, SubmitToken(c, by), UNCHANGED deposits, kept \subseteq kept',
         [by |-> by, token |-> c.id] \in kept' \/ \E d \in Deposits(c.id) : d.by = by,
         \A d \in Deposits(c.id) : d.by = by
  PROVE  LedgerInv'
<1>1. \A t : Deposits(t)' = Deposits(t)
  BY DEF Deposits
<1>2. CASE c.id \notin DOMAIN registry
  <2>1. /\ registry' = [u \in DOMAIN registry \cup {c.id} |-> IF u = c.id THEN by ELSE registry[u]]
        /\ conflicts' = conflicts
    BY <1>2 DEF SubmitToken
  <2>2. /\ DOMAIN registry' = DOMAIN registry \cup {c.id} /\ registry'[c.id] = by
        /\ \A t \in DOMAIN registry : registry'[t] = registry[t]
    BY <1>2, <2>1
  <2>3. RegistryKnown'
    BY <1>1, <2>2 DEF LedgerInv, RegistryKnown
  <2> QED
    BY <2>1, <2>2, <2>3 DEF LedgerInv, ConflictOnlyAfterKept
<1>3. CASE c.id \in DOMAIN registry
  <2>1. registry' = registry
    BY <1>3 DEF SubmitToken
  <2>2. RegistryKnown'
    BY <1>1, <2>1 DEF LedgerInv, RegistryKnown
  <2>3. CASE registry[c.id] = by
    <3>1. conflicts' = conflicts
      BY <1>3, <2>3 DEF SubmitToken
    <3> QED
      BY <2>1, <2>2, <3>1 DEF LedgerInv, ConflictOnlyAfterKept
  <2>4. CASE registry[c.id] # by
    <3>1. [by |-> registry[c.id], token |-> c.id] \in kept
      BY <1>3, <2>4 DEF LedgerInv, RegistryKnown
    <3>2. \A e \in conflicts' : e \in conflicts \/ e.token = c.id
      BY <1>3, <2>4 DEF SubmitToken
    <3> QED
      BY <1>3, <2>1, <2>2, <3>1, <3>2 DEF LedgerInv, ConflictOnlyAfterKept
  <2> QED
    BY <2>3, <2>4
<1> QED
  BY <1>2, <1>3

\* Every step keeps the ledger's books.
LEMMA LedgerStep ==
  ASSUME WalletsTyped, OnePlace, LedgerInv, [Next]_vars
  PROVE  LedgerInv'
<1>1. ASSUME UNCHANGED <<registry, conflicts, kept>>, deposits \subseteq deposits' PROVE LedgerInv'
  BY <1>1 DEF LedgerInv, RegistryKnown, ConflictOnlyAfterKept, Deposits
<1>2. ASSUME NEW d \in deposits, SubmitDeposit(d) PROVE LedgerInv'
  <2>1. d.copy.id \in Tokens /\ d \in Deposits(d.copy.id)
    BY DEF WalletsTyped, Copy, Deposits
  <2>2. \A e \in Deposits(d.copy.id) : e = d
    BY <2>1 DEF OnePlace
  <2>3. SubmitToken(d.copy, d.by) /\ UNCHANGED <<deposits, kept>>
    BY <1>2 DEF SubmitDeposit
  <2> QED
    BY <2>1, <2>2, <2>3, SubmitFacts
<1>3. ASSUME NEW w \in Wallets, NEW c \in wallet[w].unspent, SubmitKept(w, c) PROVE LedgerInv'
  <2>1. c.id \in Tokens /\ w \in Holding(c.id)
    BY HeldFacts DEF Holding, Ids
  <2>2. Deposits(c.id) = {}
    BY <2>1 DEF OnePlace
  <2>3. /\ SubmitToken(c, w) /\ UNCHANGED deposits
        /\ kept' = kept \cup {[by |-> w, token |-> c.id]}
    BY <1>3 DEF SubmitKept
  <2> QED
    BY <2>2, <2>3, SubmitFacts
<1> QED
  BY <1>1, <1>2, <1>3, LedgerMoves
-----------------------------------------------------------------------------
(* Hop counts *)

\* The copies a wallet may have, and those a parcel may carry, by hop count.
HeldHops(c) == HopsFrom(c, Returned(c.history) \cap DOMAIN c.history)
SentHops(c) ==
  /\ Len(c.history) >= 3
  /\ HopsFrom(c, Returned(c.history) \cap (1..(Len(c.history) - 1)))

\* A history is a list of keys.
LEMMA HistoryFacts ==
  ASSUME NEW c \in Copy
  PROVE  /\ c.history \in Seq(Wallets \cup {Issuer}) /\ Len(c.history) \in Nat
         /\ DOMAIN c.history = 1..Len(c.history) /\ c.hops \in Nat
<1>1. c.history \in Seq(Wallets \cup {Issuer}) /\ c.hops \in 0..MaxHops /\ MaxHops \in Nat
  BY PocWalletAssumption DEF Copy
<1> QED
  BY <1>1, LenProperties

\* A copy in a wallet has been reset already: resetting it changes nothing.
LEMMA ResetHeld ==
  ASSUME NEW c \in Copy, LastIsOwner(c), HeldHops(c)
  PROVE  LifecycleReset(c, c.owner).hops = c.hops
<1> DEFINE h == c.history
           n == Len(c.history)
<1>1. n \in Nat /\ DOMAIN h = 1..n /\ c.hops \in Nat /\ n >= 2 /\ h[n] = c.owner
  BY HistoryFacts DEF LastIsOwner
<1>2. CASE c.owner \in {h[k] : k \in 1..(n - 1)}
  <2>1. PICK j \in 1..(n - 1) : h[j] = h[n]
    BY <1>1, <1>2
  <2>2. n \in Returned(h) \cap DOMAIN h
    BY <1>1, <2>1 DEF Returned
  <2>3. n <= n - c.hops
    BY <2>2 DEF HeldHops, HopsFrom
  <2>4. c.hops = 0
    BY <1>1, <2>3
  <2> QED
    BY <1>2, <2>4, ResetFacts
<1>3. CASE c.owner \notin {h[k] : k \in 1..(n - 1)}
  BY <1>3, ResetFacts
<1> QED
  BY <1>2, <1>3

\* One more transfer is one more hop.
LEMMA ForwardHops ==
  ASSUME NEW c \in Copy, Len(c.history) >= 2, HeldHops(c), NEW v \in Wallets,
         NEW d, d.history = Append(c.history, v), d.hops = c.hops + 1
  PROVE  SentHops(d)
<1> DEFINE h == c.history
           n == Len(c.history)
<1>1. n \in Nat /\ DOMAIN h = 1..n /\ c.hops \in Nat /\ h \in Seq(Wallets \cup {Issuer})
  BY HistoryFacts
<1>2. /\ Len(d.history) = n + 1
      /\ DOMAIN d.history = 1..(n + 1)
      /\ \A k \in 1..n : d.history[k] = h[k]
  <2>1. /\ Append(h, v) \in Seq(Wallets \cup {Issuer}) /\ Len(Append(h, v)) = n + 1
        /\ \A k \in 1..n : Append(h, v)[k] = h[k]
    BY <1>1, AppendProperties
  <2> QED
    BY <2>1, LenProperties
<1> HIDE DEF h, n
<1>3. Returned(d.history) \cap (1..((n + 1) - 1)) = Returned(h) \cap DOMAIN h
  <2>1. (n + 1) - 1 = n /\ \A k \in 1..n : k \in 1..(n + 1) /\ 1..(k - 1) \subseteq 1..n
    BY <1>1 DEF n
  <2>2. ASSUME NEW k \in 1..n PROVE k \in Returned(d.history) <=> k \in Returned(h)
    <3>1. k \in Returned(d.history) <=> k \in {1, 2} \/ \E j \in 1..(k - 1) : d.history[j] = d.history[k]
      BY <1>2, <2>1 DEF Returned
    <3>2. k \in Returned(h) <=> k \in {1, 2} \/ \E j \in 1..(k - 1) : h[j] = h[k]
      BY <1>1 DEF Returned
    <3>3. \A j \in 1..(k - 1) : d.history[j] = h[j]
      BY <1>2, <2>1
    <3> QED
      BY <1>2, <3>1, <3>2, <3>3
  <2>3. 1..((n + 1) - 1) = 1..n
    BY <2>1
  <2>4. \A k \in 1..n : k \in Returned(d.history) <=> k \in Returned(h)
    BY <2>2
  <2> QED
    BY <1>1, <2>3, <2>4
<1>4. Len(d.history) - d.hops = n - c.hops
  BY SMTT(30), <1>1, <1>2
<1>5. SentHops(d)
  <2>1. HopsFrom(c, Returned(h) \cap DOMAIN h) /\ n >= 2
    BY DEF HeldHops, h, n
  <2>2. n - c.hops \in Returned(h) \cap DOMAIN h /\ \A k \in Returned(h) \cap DOMAIN h : k <= n - c.hops
    BY <2>1 DEF HopsFrom, h, n
  <2> QED
    BY <1>1, <1>2, <1>3, <1>4, <2>1, <2>2 DEF SentHops, HopsFrom
<1> QED
  BY <1>5

\* The recipient's reset makes the count start at a return
\* (dpc_poc/dpc/wallet.py, _check_lifecycle_reset).
LEMMA ReceiveHops ==
  ASSUME NEW c \in Copy, LastIsOwner(c), SentHops(c)
  PROVE  HeldHops(LifecycleReset(c, c.owner))
<1> DEFINE h == c.history
           n == Len(c.history)
           r == LifecycleReset(c, c.owner)
<1>1. n \in Nat /\ DOMAIN h = 1..n /\ c.hops \in Nat /\ n >= 3 /\ h[n] = c.owner
  BY HistoryFacts DEF LastIsOwner, SentHops
<1>2. /\ r.history = h
      /\ r.hops = IF c.owner \in {h[k] : k \in 1..(n - 1)} THEN 0 ELSE c.hops
  BY ResetFacts
<1>3. /\ n - c.hops \in Returned(h) \cap (1..(n - 1))
      /\ \A k \in Returned(h) \cap (1..(n - 1)) : k <= n - c.hops
  BY DEF SentHops, HopsFrom
<1> HIDE DEF h, n, r
<1>4. ASSUME c.owner \in {h[k] : k \in 1..(n - 1)} PROVE HeldHops(r)
  <2>1. n \in Returned(h)
    BY <1>1, <1>4 DEF Returned
  <2>2. n - 0 = n /\ \A k \in Returned(h) \cap DOMAIN h : k <= n
    BY <1>1
  <2>3. Len(r.history) = n /\ r.hops = 0 /\ n \in DOMAIN h
    BY <1>1, <1>2, <1>4 DEF n
  <2> QED
    BY <1>2, <2>1, <2>2, <2>3 DEF HeldHops, HopsFrom
<1>5. ASSUME c.owner \notin {h[k] : k \in 1..(n - 1)} PROVE HeldHops(r)
  <2>1. n \notin Returned(h)
    BY <1>1, <1>5 DEF Returned
  <2>2. Returned(h) \cap DOMAIN h = Returned(h) \cap (1..(n - 1))
    <3>1. \A k \in 1..n : k = n \/ k \in 1..(n - 1)
      BY <1>1
    <3> QED
      BY <1>1, <2>1, <3>1
  <2>3. r.hops = c.hops /\ Len(r.history) = n
    BY <1>2, <1>5 DEF h, n
  <2> QED
    BY <1>2, <1>3, <2>2, <2>3 DEF HeldHops, HopsFrom, n
<1> QED
  BY <1>4, <1>5 DEF r

\* A minted copy has not been anywhere.
LEMMA MintedHops ==
  ASSUME NEW t, NEW w
  PROVE  HeldHops(MintedCopy(t, w))
<1> DEFINE h == <<Issuer, w>>
<1>1. Len(h) = 2 /\ DOMAIN h = {1, 2}
  OBVIOUS
<1>2. MintedCopy(t, w).history = h /\ MintedCopy(t, w).hops = 0
  BY DEF MintedCopy
<1> HIDE DEF h
<1>3. 2 \in Returned(h) \cap DOMAIN h /\ \A k \in Returned(h) \cap DOMAIN h : k <= 2
  <2>1. 2 \in Returned(h)
    BY DEF Returned
  <2> QED
    BY <1>1, <2>1
<1>4. 2 - 0 = 2
  OBVIOUS
<1> QED
  BY <1>1, <1>2, <1>3, <1>4 DEF HeldHops, HopsFrom

\* What HopsInv says of a wallet's copies and of a parcel.
LEMMA HopsAre ==
  HopsInv <=> /\ \A w \in Wallets : \A c \in wallet[w].unspent : HeldHops(c)
              /\ \A p \in parcels : SentHops(p.copy)
BY DEF HopsInv, HeldHops, SentHops

\* Every step keeps the hop counts.
LEMMA HopsStep ==
  ASSUME WalletsTyped, HopsInv, Move
  PROVE  HopsInv'
<1>1. /\ \A w \in Wallets : \A c \in wallet[w].unspent : HeldHops(c)
      /\ \A p \in parcels : SentHops(p.copy)
  BY HopsAre
<1>2. ASSUME NEW w \in Wallets, OthersKeep(w), UNCHANGED parcels,
             \A c \in wallet'[w].unspent : c \in wallet[w].unspent \/ HeldHops(c)
      PROVE  HopsInv'
  BY <1>1, <1>2 DEF OthersKeep, HopsInv, HeldHops, SentHops
<1>3. CASE Still
  BY <1>3 DEF Still, HopsInv
<1>4. ASSUME NEW w \in Wallets, NEW t \in Tokens, MintedTo(w, t) PROVE HopsInv'
  <2>1. OthersKeep(w) /\ wallet'[w].unspent = Put(wallet[w].unspent, MintedCopy(t, w)) /\ UNCHANGED parcels
    BY <1>4, MintedEffect DEF MintedTo
  <2>2. HeldHops(MintedCopy(t, w))
    BY MintedHops
  <2> QED
    BY <1>2, <2>1, <2>2, PutFacts
<1>5. ASSUME NEW w \in Wallets, NEW c \in wallet[w].unspent, PutBack(w, c) PROVE HopsInv'
  <2>1. OthersKeep(w) /\ wallet'[w].unspent = Put(wallet[w].unspent, LifecycleReset(c, w)) /\ UNCHANGED parcels
    BY <1>5, PutBackEffect DEF PutBack
  <2>2. c \in Copy /\ c.owner = w /\ LastIsOwner(c) /\ HeldHops(c)
    BY <1>1, HeldFacts
  <2>3. LifecycleReset(c, w).hops = c.hops /\ LifecycleReset(c, w).history = c.history
    BY <2>2, ResetHeld, ResetFacts
  <2>4. HeldHops(LifecycleReset(c, w))
    BY <2>2, <2>3 DEF HeldHops, HopsFrom
  <2> QED
    BY <1>2, <2>1, <2>4, PutFacts
<1>6. ASSUME NEW w \in Wallets, NEW c \in wallet[w].unspent, DepositedBy(w, c) PROVE HopsInv'
  <2>1. OthersKeep(w) /\ wallet'[w].unspent = wallet[w].unspent \ {c} /\ UNCHANGED parcels
    BY <1>6, DepositEffect DEF DepositedBy
  <2> QED
    BY <1>2, <2>1
<1>7. ASSUME NEW w \in Wallets, NEW p \in parcels, TakenIn(w, p) PROVE HopsInv'
  <2>1. /\ OthersKeep(w) /\ wallet'[w].unspent = Put(wallet[w].unspent, LifecycleReset(p.copy, w))
        /\ UNCHANGED parcels /\ p.copy.owner = w
    BY <1>7, TakenEffect DEF TakenIn
  <2>2. p.copy \in Copy /\ LastIsOwner(p.copy) /\ SentHops(p.copy)
    BY <1>1 DEF WalletsTyped
  <2>3. HeldHops(LifecycleReset(p.copy, w))
    BY <2>1, <2>2, ReceiveHops
  <2> QED
    BY <1>2, <2>1, <2>3, PutFacts
<1>8. ASSUME NEW w \in Wallets, NEW v \in Wallets, NEW c \in wallet[w].unspent, HandedOver(w, v, c)
      PROVE  HopsInv'
  <2>1. OthersKeep(w) /\ wallet'[w].unspent = wallet[w].unspent \ {c}
    BY <1>8, HandedEffect
  <2>5. parcels' = parcels \cup {NextParcel(w, v, c)}
    BY <1>8 DEF HandedOver
  <2>2. c \in Copy /\ c.owner = w /\ LastIsOwner(c) /\ HeldHops(c)
    BY <1>1, HeldFacts
  <2>3. /\ NextParcel(w, v, c).copy.history = Append(c.history, v)
        /\ NextParcel(w, v, c).copy.hops = c.hops + 1
    BY <1>8, <2>2, ParcelFacts, ResetHeld DEF HandedOver
  <2>4. SentHops(NextParcel(w, v, c).copy)
    BY <2>2, <2>3, ForwardHops DEF LastIsOwner
  <2> QED
    BY <1>1, <2>1, <2>4, <2>5 DEF OthersKeep, HopsInv, HeldHops, SentHops
<1> QED
  BY <1>3, <1>4, <1>5, <1>6, <1>7, <1>8 DEF Move

\* The count of a copy in a wallet is the transfers since its last return.
LEMMA HopsCounted ==
  ASSUME WalletsTyped, HopsInv
  PROVE  HopsCountSinceReturn
<1> SUFFICES ASSUME NEW w \in Wallets, NEW c \in wallet[w].unspent
             PROVE  /\ c.hops = Len(c.history) - Max(Returned(c.history) \cap DOMAIN c.history)
                    /\ c.hops <= MaxHops
  BY DEF HopsCountSinceReturn
<1> DEFINE S == Returned(c.history) \cap DOMAIN c.history
           last == Len(c.history) - c.hops
<1>1. last \in S /\ \A k \in S : k <= last
  BY DEF HopsInv, HopsFrom
<1>2. c \in Copy
  BY HeldFacts
<1>3. Len(c.history) \in Nat /\ c.hops \in Nat /\ S \in SUBSET Int
  BY <1>2, HistoryFacts
<1>4. c.hops <= MaxHops
  BY <1>2, PocWalletAssumption DEF Copy
<1>5. last \in Int /\ c.hops = Len(c.history) - last
  BY <1>3
<1> HIDE DEF S, last
<1>6. \A x \in S : (\A y \in S : x >= y) => x = last
  BY <1>1, <1>3, <1>5
<1>7. Max(S) = last
  BY <1>1, <1>3, <1>5, <1>6 DEF Max
<1> QED
  BY <1>4, <1>5, <1>7 DEF S
-----------------------------------------------------------------------------
(* The stages of a call *)

\* What a call keeps to its end.
SameCall ==
  /\ call'.payer = call.payer /\ call'.payee = call.payee /\ call'.before = call.before
  /\ call'.kind = call.kind /\ call'.owed = call.owed

TokensOf(w) == Ids(wallet[w].unspent)

\* send_token of a leg raises and leaves each wallet the tokens it had, or
\* takes the token out and makes the only parcel that is due.
LEMMA SendOutcome ==
  ASSUME Typed, NoncesFresh, OnePlace, Send, NEW w, NEW v, NEW t, IsLeg(call.legs[1], w, v, t)
  PROVE  /\ SameCall /\ call' # Idle /\ call'.legs = call.legs
         /\ \/ /\ call'.phase = "raised"
               /\ \A u \in Wallets : TokensOf(u)' = TokensOf(u)
               /\ \A s \in Tokens : Due(s)' = Due(s)
            \/ /\ call'.phase = "receive" /\ t \in TokensOf(w)
               /\ TokensOf(w)' = TokensOf(w) \ {t}
               /\ \A u \in Wallets : u # w => TokensOf(u)' = TokensOf(u)
               /\ \E q \in Due(t)' : q.copy.owner = v /\ call'.parcel = {q}
               /\ \A s \in Tokens : s # t => Due(s)' = Due(s)
<1> DEFINE leg == call.legs[1]
<1>1. /\ WalletsTyped /\ call # Idle /\ call \in CallRecord /\ call.legs # <<>>
      /\ leg \in LegRecord /\ leg.from # leg.to
  BY Zenon, TypedWallets, CallFacts, NextLeg DEF Send, Typed, CallTyped
<1>2. w \in Wallets /\ v \in Wallets /\ w # v /\ t \in Tokens /\ leg.from = w /\ leg.to = v /\ leg.token = t
  BY <1>1 DEF LegRecord, IsLeg
<1>3. call' = [call EXCEPT !.phase = "raised"] \/ \E q : call' = [call EXCEPT !.phase = "receive", !.parcel = {q}]
  BY Zenon DEF Send
<1>4. SameCall /\ call'.legs = call.legs /\ call' # Idle
  <2>1. call' = [call EXCEPT !.phase = "raised"] => call'.phase = "raised"
    BY <1>1 DEF CallRecord
  <2>2. (\E q : call' = [call EXCEPT !.phase = "receive", !.parcel = {q}]) => call'.phase = "receive"
    BY <1>1 DEF CallRecord
  <2>3. SameCall /\ call'.legs = call.legs
    BY Zenon, <1>1, <1>3 DEF CallRecord, SameCall
  <2>4. call'.phase # "idle"
    BY Zenon, <1>3, <2>1, <2>2
  <2>5. Idle.phase = "idle"
    BY DEF Idle
  <2> QED
    BY <2>3, <2>4, <2>5
<1>5. CASE UNCHANGED <<wallet, parcels>>
  <2>1. call' = [call EXCEPT !.phase = "raised"]
    <3> SUFFICES ASSUME NEW c \in wallet[w].unspent, wallet' = [wallet EXCEPT ![w] = Sent(@, c, Cardinality(ParcelsOf(t)))]
                 PROVE  FALSE
      BY Zenon, <1>2, <1>5 DEF Send, ParcelsOf
    <3>1. wallet'[w].unspent = wallet[w].unspent \ {c}
      BY <1>2 DEF Sent, Typed
    <3> QED
      BY <1>5, <3>1
  <2>2. call'.phase = "raised"
    BY <1>1, <2>1 DEF CallRecord
  <2> QED
    BY <1>4, <1>5, <2>2 DEF TokensOf, Due, ParcelsOf
<1>6. CASE ~UNCHANGED <<wallet, parcels>>
  <2>1. PICK c \in wallet[w].unspent :
          LET token == LifecycleReset(c, w)
              nonce == Cardinality({p \in parcels : p.copy.id = t})
          IN  /\ c.id = t
              /\ \/ /\ CanBuild(token, w, leg.amount, now - issuedAt[c.id])
                    /\ LET parcel == [copy |-> Forwarded(token, v), nonce |-> nonce]
                       IN /\ parcels' = parcels \cup {parcel}
                          /\ call' = [call EXCEPT !.phase = "receive", !.parcel = {parcel}]
                    /\ wallet' = [wallet EXCEPT ![w] = Sent(@, c, nonce)]
                 \/ /\ ~CanBuild(token, w, leg.amount, now - issuedAt[c.id])
                    /\ wallet' = [wallet EXCEPT ![w] = Unsent(@, c, w)]
                    /\ call' = [call EXCEPT !.phase = "raised"]
                    /\ UNCHANGED parcels
    BY Zenon, <1>2, <1>6 DEF Send
  <2>2. UNCHANGED <<issuedAt, deposits>> /\ c.id = t /\ t \in TokensOf(w)
    BY Zenon, <2>1 DEF Send, TokensOf, Ids
  <2> HIDE DEF leg
  <2>3. \/ /\ HandedOver(w, v, c)
           /\ call' = [call EXCEPT !.phase = "receive", !.parcel = {NextParcel(w, v, c)}]
        \/ /\ PutBack(w, c)
           /\ call' = [call EXCEPT !.phase = "raised"]
    BY <1>2, <2>1, <2>2 DEF HandedOver, PutBack, NextParcel, ParcelsOf, CanBuild
  <2>4. ASSUME PutBack(w, c), call' = [call EXCEPT !.phase = "raised"]
        PROVE  /\ call'.phase = "raised"
               /\ \A u \in Wallets : TokensOf(u)' = TokensOf(u)
               /\ \A s \in Tokens : Due(s)' = Due(s)
    <3>1. /\ OthersKeep(w) /\ wallet'[w].nonces = wallet[w].nonces
          /\ Ids(wallet'[w].unspent) = Ids(wallet[w].unspent)
      BY <1>1, <1>2, <2>4, PutBackEffect
    <3>2. \A s : Due(s)' = Due(s)
      BY <1>1, <2>4, <3>1, DueKept DEF OthersKeep, PutBack
    <3>3. call'.phase = "raised"
      BY <1>1, <2>4 DEF CallRecord
    <3> QED
      BY <3>1, <3>2, <3>3 DEF OthersKeep, TokensOf
  <2>5. ASSUME HandedOver(w, v, c),
               call' = [call EXCEPT !.phase = "receive", !.parcel = {NextParcel(w, v, c)}]
        PROVE  /\ call'.phase = "receive"
               /\ TokensOf(w)' = TokensOf(w) \ {t}
               /\ \A u \in Wallets : u # w => TokensOf(u)' = TokensOf(u)
               /\ \E q \in Due(t)' : q.copy.owner = v /\ call'.parcel = {q}
               /\ \A s \in Tokens : s # t => Due(s)' = Due(s)
    <3>1. OthersKeep(w) /\ Ids(wallet'[w].unspent) = Ids(wallet[w].unspent) \ {c.id}
      BY <1>1, <1>2, <2>5, HandedEffect
    <3>2. (\A s \in Tokens \ {c.id} : Due(s)' = Due(s)) /\ Due(c.id)' = {NextParcel(w, v, c)}
      BY <1>1, <1>2, <2>5, HandedIsDue
    <3>3. NextParcel(w, v, c).copy.owner = v
      BY <1>1, <1>2, <2>5, ParcelFacts DEF HandedOver
    <3>4. call'.phase = "receive" /\ call'.parcel = {NextParcel(w, v, c)}
      BY <1>1, <2>5 DEF CallRecord
    <3>5. \E q \in Due(t)' : q.copy.owner = v /\ call'.parcel = {q}
      BY <2>2, <3>2, <3>3, <3>4
    <3>6. \A s \in Tokens : s # t => Due(s)' = Due(s)
      BY <2>2, <3>2
    <3>7. TokensOf(w)' = TokensOf(w) \ {t} /\ \A u \in Wallets : u # w => TokensOf(u)' = TokensOf(u)
      BY <2>2, <3>1 DEF OthersKeep, TokensOf
    <3> QED
      BY <3>4, <3>5, <3>6, <3>7
  <2> QED
    BY <1>4, <2>2, <2>3, <2>4, <2>5
<1> QED
  BY <1>5, <1>6

\* receive_token of the parcel raises and changes nothing, or puts the token
\* in the recipient's wallet.
LEMMA ReceiveOutcome ==
  ASSUME Typed, OnePlace, Receive, NEW p, call.parcel = {p}
  PROVE  /\ SameCall /\ call' # Idle
         /\ \/ /\ call'.phase = "raised"
               /\ \A u \in Wallets : TokensOf(u)' = TokensOf(u)
               /\ \A t \in Tokens : Due(t)' = Due(t)
            \/ /\ call'.phase = "send" /\ call'.legs = Tail(call.legs)
               /\ TokensOf(p.copy.owner)' = TokensOf(p.copy.owner) \cup {p.copy.id}
               /\ \A u \in Wallets : u # p.copy.owner => TokensOf(u)' = TokensOf(u)
               /\ \A t \in Tokens : t # p.copy.id => Due(t)' = Due(t)
<1> DEFINE w == call.legs[1].to
<1>1. /\ WalletsTyped /\ call # Idle /\ call \in CallRecord /\ call.legs # <<>>
      /\ call.legs[1] \in LegRecord
  BY TypedWallets, CallFacts, NextLeg DEF Receive, Typed, CallTyped
<1>2. w \in Wallets /\ p \in parcels
  BY <1>1 DEF LegRecord, CallRecord
<1>3. \/ /\ Acceptable(wallet[w], w, p)
         /\ wallet' = [wallet EXCEPT ![w] = Taken(@, w, p)]
         /\ call' = [call EXCEPT !.phase = "send", !.legs = Tail(call.legs), !.parcel = {}]
      \/ UNCHANGED wallet /\ call' = [call EXCEPT !.phase = "raised"]
  BY DEF Receive
<1>4. UNCHANGED <<issuedAt, parcels, deposits>>
  BY DEF Receive
<1> HIDE DEF w
<1>5. ASSUME UNCHANGED wallet, call' = [call EXCEPT !.phase = "raised"]
      PROVE  /\ SameCall /\ call'.phase = "raised"
             /\ \A u \in Wallets : TokensOf(u)' = TokensOf(u)
             /\ \A t \in Tokens : Due(t)' = Due(t)
  <2>1. SameCall /\ call'.phase = "raised"
    BY <1>1, <1>5 DEF CallRecord, SameCall
  <2> QED
    BY <1>4, <1>5, <2>1 DEF TokensOf, Due, ParcelsOf
<1>6. ASSUME Acceptable(wallet[w], w, p), wallet' = [wallet EXCEPT ![w] = Taken(@, w, p)],
             call' = [call EXCEPT !.phase = "send", !.legs = Tail(call.legs), !.parcel = {}]
      PROVE  /\ SameCall /\ call'.phase = "send" /\ call'.legs = Tail(call.legs)
             /\ TokensOf(p.copy.owner)' = TokensOf(p.copy.owner) \cup {p.copy.id}
             /\ \A u \in Wallets : u # p.copy.owner => TokensOf(u)' = TokensOf(u)
             /\ \A t \in Tokens : t # p.copy.id => Due(t)' = Due(t)
  <2>1. SameCall /\ call'.phase = "send" /\ call'.legs = Tail(call.legs)
    BY <1>1, <1>6 DEF CallRecord, SameCall
  <2>2. TakenIn(w, p)
    BY <1>2, <1>4, <1>6 DEF TakenIn
  <2>3. /\ OthersKeep(w) /\ p.copy.owner = w
        /\ Ids(wallet'[w].unspent) = Ids(wallet[w].unspent) \cup {p.copy.id}
    BY <1>1, <1>2, <2>2, TakenEffect
  <2>4. \A t \in Tokens \ {p.copy.id} : Due(t)' = Due(t)
    BY <1>1, <1>2, <2>2, TakenNotDue
  <2> QED
    BY <2>1, <2>3, <2>4 DEF OthersKeep, TokensOf
<1>7. call'.phase \in {"raised", "send"} => call' # Idle
  BY DEF Idle
<1> QED
  BY <1>3, <1>5, <1>6, <1>7
-----------------------------------------------------------------------------
(* The invariant of the running call *)

\* What a call set out to do does not change while it runs.
LEMMA PlannedKept ==
  ASSUME SameCall, NEW t, NEW C
  PROVE  Planned(t, C)' <=> Planned(t, C)
BY DEF SameCall, Planned, EnoughBefore

\* The wallets are where they were when they have the tokens they had.
LEMMA NowHasKept ==
  ASSUME SameCall, \A u \in Wallets : TokensOf(u)' = TokensOf(u), NEW A, NEW B, NEW C, NEW D
  PROVE  NowHas(A, B, C, D)' <=> NowHas(A, B, C, D)
BY DEF SameCall, NowHas, TokensOf

\* send_token of the token to pay with, or of the change.
LEMMA SendStage ==
  ASSUME Typed, NoncesFresh, OnePlace, Send, NEW t \in Tokens, NEW C \in SUBSET Tokens,
         NotStarted(t, C) \/ Paying(t, C) \/ Paid(t, C) \/ Changing(t, C) \/ Changed(t, C)
  PROVE  /\ SameCall /\ call' # Idle
         /\ NotStarted(t, C)' \/ Paying(t, C)' \/ Paid(t, C)' \/ Changing(t, C)'
<1>1. call # Idle /\ call.legs # <<>> /\ call.phase = "send"
  BY Zenon, CallFacts DEF Send
<1>2. /\ call \in CallRecord /\ call.payer # call.payee
      /\ call.payer \in Wallets /\ call.payee \in Wallets
  BY <1>1 DEF Typed, CallTyped, CallRecord
<1>3. PICK a \in Wallets, b \in Wallets : call.payer = a /\ call.payee = b /\ a # b
  BY <1>2
<1>4. CASE NotStarted(t, C)
  <2>1. AllLegs(t, C) /\ IsLeg(call.legs[1], a, b, t) /\ \A u \in Wallets : TokensOf(u) = call.before[u]
    BY <1>1, <1>3, <1>4 DEF NotStarted, AllLegs, NowHas, TokensOf
  <2>2. SameCall /\ call' # Idle /\ call'.legs = call.legs
    BY <2>1, SendOutcome
  <2>3. \/ call'.phase = "raised" /\ \A u \in Wallets : TokensOf(u)' = TokensOf(u)
        \/ /\ call'.phase = "receive" /\ t \in TokensOf(a)
           /\ TokensOf(a)' = TokensOf(a) \ {t}
           /\ \A u \in Wallets : u # a => TokensOf(u)' = TokensOf(u)
           /\ \E q \in Due(t)' : q.copy.owner = b /\ call'.parcel = {q}
    BY <2>1, SendOutcome
  <2>4. CASE call'.phase = "raised" /\ \A u \in Wallets : TokensOf(u)' = TokensOf(u)
    <3>1. NowHas({}, {}, {}, {})'
      BY <1>4, <2>2, <2>4, NowHasKept DEF NotStarted
    <3> QED
      BY <2>2, <2>4, <3>1 DEF NotStarted
  <2>5. CASE /\ call'.phase = "receive" /\ t \in TokensOf(a)
             /\ TokensOf(a)' = TokensOf(a) \ {t}
             /\ \A u \in Wallets : u # a => TokensOf(u)' = TokensOf(u)
             /\ \E q \in Due(t)' : q.copy.owner = b /\ call'.parcel = {q}
    <3>1. NowHas({t}, {}, {}, {})'
      BY ZenonT(60), <1>3, <2>1, <2>2, <2>5 DEF NowHas, TokensOf, SameCall
    <3>2. t \in call'.before[call'.payer] /\ call'.payee = b
      BY <1>3, <2>1, <2>2, <2>5 DEF SameCall
    <3>3. UnderWay(t, b)'
      BY <2>5 DEF UnderWay
    <3>4. AllLegs(t, C)'
      BY <2>1, <2>2 DEF AllLegs, SameCall
    <3> QED
      BY <2>2, <2>5, <3>1, <3>2, <3>3, <3>4 DEF Paying
  <2> QED
    BY <2>3, <2>4, <2>5
<1>5. CASE Paid(t, C)
  <2>1. /\ ChangeLegs(C) /\ NowHas({t}, {t}, {}, {}) /\ t \in call.before[a]
        /\ TokensOf(b) = call.before[b] \cup {t}
    BY <1>1, <1>3, <1>5 DEF Paid, NowHas, TokensOf
  <2>2. PICK c \in Tokens : C = {c} /\ IsLeg(call.legs[1], b, a, c)
    BY <1>1, <1>3, <2>1 DEF ChangeLegs
  <2>3. SameCall /\ call' # Idle /\ call'.legs = call.legs
    BY <2>2, SendOutcome
  <2>4. \/ call'.phase = "raised" /\ \A u \in Wallets : TokensOf(u)' = TokensOf(u)
        \/ /\ call'.phase = "receive"
           /\ TokensOf(b)' = TokensOf(b) \ {c}
           /\ \A u \in Wallets : u # b => TokensOf(u)' = TokensOf(u)
           /\ \E q \in Due(c)' : q.copy.owner = a /\ call'.parcel = {q}
    BY <2>2, SendOutcome
  <2>5. t \in call'.before[call'.payer] /\ call'.payer = a /\ call'.payee = b
    BY <1>3, <2>1, <2>3 DEF SameCall
  <2>6. CASE call'.phase = "raised" /\ \A u \in Wallets : TokensOf(u)' = TokensOf(u)
    <3>1. NowHas({t}, {t}, {}, {})'
      BY <2>1, <2>3, <2>6, NowHasKept
    <3> QED
      BY <2>2, <2>3, <2>5, <2>6, <3>1 DEF Paid
  <2>7. CASE /\ call'.phase = "receive"
             /\ TokensOf(b)' = TokensOf(b) \ {c}
             /\ \A u \in Wallets : u # b => TokensOf(u)' = TokensOf(u)
             /\ \E q \in Due(c)' : q.copy.owner = a /\ call'.parcel = {q}
    <3>1. NowHas({t}, {t}, C, {})'
      BY ZenonT(60), <1>3, <2>1, <2>2, <2>3, <2>5, <2>7 DEF NowHas, TokensOf, SameCall
    <3>2. UnderWay(c, a)'
      BY <2>7 DEF UnderWay
    <3>3. ChangeLegs(C)'
      BY <2>1, <2>3 DEF ChangeLegs, SameCall
    <3> QED
      BY <2>2, <2>3, <2>5, <2>7, <3>1, <3>2, <3>3 DEF Changing
  <2> QED
    BY <2>4, <2>6, <2>7
<1> QED
  BY <1>1, <1>4, <1>5 DEF Paying, Changing, Changed

\* What is left of one leg, and of two.
LEMMA LegsLeft ==
  ASSUME NEW legs \in Seq(LegRecord)
  PROVE  /\ Len(legs) = 1 => Tail(legs) = <<>>
         /\ Len(legs) = 2 => Len(Tail(legs)) = 1 /\ Tail(legs)[1] = legs[2]
<1>1. legs # <<>> => /\ Tail(legs) \in Seq(LegRecord) /\ Len(Tail(legs)) = Len(legs) - 1
                     /\ \A k \in 1..Len(Tail(legs)) : Tail(legs)[k] = legs[k + 1]
  BY HeadTailProperties
<1>2. Len(legs) # 0 => legs # <<>>
  BY EmptySeq
<1>3. ASSUME Len(legs) = 1 PROVE Tail(legs) = <<>>
  <2>1. Tail(legs) \in Seq(LegRecord) /\ Len(Tail(legs)) = 0
    BY <1>1, <1>2, <1>3
  <2> HIDE DEF LegRecord
  <2> QED
    BY <2>1, EmptySeq
<1>4. ASSUME Len(legs) = 2 PROVE Len(Tail(legs)) = 1 /\ Tail(legs)[1] = legs[2]
  BY <1>1, <1>2, <1>4
<1> QED
  BY <1>3, <1>4

\* receive_token of the token paid with, or of the change.
LEMMA ReceiveStage ==
  ASSUME Typed, OnePlace, Receive, NEW t \in Tokens, NEW C \in SUBSET Tokens,
         NotStarted(t, C) \/ Paying(t, C) \/ Paid(t, C) \/ Changing(t, C) \/ Changed(t, C)
  PROVE  /\ SameCall /\ call' # Idle
         /\ Paying(t, C)' \/ Paid(t, C)' \/ Changing(t, C)' \/ Changed(t, C)'
<1>1. call # Idle /\ call.legs # <<>> /\ call.phase = "receive"
  BY CallFacts DEF Receive
<1>2. /\ call \in CallRecord /\ call.payer # call.payee /\ call.legs \in Seq(LegRecord)
      /\ call.payer \in Wallets /\ call.payee \in Wallets
  BY <1>1 DEF Typed, CallTyped, CallRecord
<1>3. PICK a \in Wallets, b \in Wallets : call.payer = a /\ call.payee = b /\ a # b
  BY <1>2
<1>4. CASE Paying(t, C)
  <2>1. PICK p \in Due(t) : p.copy.owner = b /\ call.parcel = {p}
    BY <1>1, <1>3, <1>4 DEF Paying, UnderWay
  <2>2. p.copy.id = t /\ p.copy.owner = b /\ call.parcel = {p}
    BY <2>1 DEF Due, ParcelsOf
  <2>3. /\ AllLegs(t, C) /\ NowHas({t}, {}, {}, {}) /\ t \in call.before[a]
        /\ TokensOf(b) = call.before[b]
    BY <1>1, <1>3, <1>4 DEF Paying, NowHas, TokensOf
  <2>4. SameCall /\ call' # Idle
    BY <2>2, ReceiveOutcome
  <2>5. \/ /\ call'.phase = "raised" /\ \A u \in Wallets : TokensOf(u)' = TokensOf(u)
           /\ \A s \in Tokens : Due(s)' = Due(s)
        \/ /\ call'.phase = "send" /\ call'.legs = Tail(call.legs)
           /\ TokensOf(b)' = TokensOf(b) \cup {t}
           /\ \A u \in Wallets : u # b => TokensOf(u)' = TokensOf(u)
    BY <2>2, ReceiveOutcome
  <2>6. t \in call'.before[call'.payer] /\ call'.payer = a /\ call'.payee = b
    BY <1>3, <2>3, <2>4 DEF SameCall
  <2>7. CASE /\ call'.phase = "raised" /\ \A u \in Wallets : TokensOf(u)' = TokensOf(u)
             /\ \A s \in Tokens : Due(s)' = Due(s)
    <3>1. NowHas({t}, {}, {}, {})'
      BY <2>3, <2>4, <2>7, NowHasKept
    <3>2. UnderWay(t, b)'
      BY <2>1, <2>7 DEF UnderWay
    <3> QED
      BY <2>4, <2>6, <2>7, <3>1, <3>2 DEF Paying
  <2>8. CASE /\ call'.phase = "send" /\ call'.legs = Tail(call.legs)
             /\ TokensOf(b)' = TokensOf(b) \cup {t}
             /\ \A u \in Wallets : u # b => TokensOf(u)' = TokensOf(u)
    <3>1. NowHas({t}, {t}, {}, {})'
      BY ZenonT(60), <1>3, <2>3, <2>4, <2>6, <2>8 DEF NowHas, TokensOf, SameCall
    <3>2. ChangeLegs(C)'
      <4>1. CASE C = {} /\ Len(call.legs) = 1
        BY <1>2, <2>8, <4>1, LegsLeft DEF ChangeLegs
      <4>2. CASE \E c \in Tokens : C = {c} /\ Len(call.legs) = 2 /\ IsLeg(call.legs[2], b, a, c)
        BY <1>2, <2>6, <2>8, <4>2, LegsLeft DEF ChangeLegs
      <4> QED
        BY <1>3, <2>3, <4>1, <4>2 DEF AllLegs
    <3> QED
      BY <2>4, <2>6, <2>8, <3>1, <3>2 DEF Paid
  <2> QED
    BY <2>5, <2>7, <2>8
<1>5. CASE Changing(t, C)
  <2>1. PICK c \in Tokens : C = {c} /\ Len(call.legs) = 1
    BY <1>1, <1>5 DEF Changing, ChangeLegs
  <2>2. PICK p \in Due(c) : p.copy.owner = a /\ call.parcel = {p}
    BY <1>1, <1>3, <1>5, <2>1 DEF Changing, UnderWay
  <2>3. p.copy.id = c /\ p.copy.owner = a /\ call.parcel = {p}
    BY <2>2 DEF Due, ParcelsOf
  <2>4. /\ NowHas({t}, {t}, C, {}) /\ t \in call.before[a]
        /\ TokensOf(a) = call.before[a] \ {t}
    BY <1>3, <1>5 DEF Changing, NowHas, TokensOf
  <2>5. SameCall /\ call' # Idle
    BY <2>3, ReceiveOutcome
  <2>6. \/ /\ call'.phase = "raised" /\ \A u \in Wallets : TokensOf(u)' = TokensOf(u)
           /\ \A s \in Tokens : Due(s)' = Due(s)
        \/ /\ call'.phase = "send" /\ call'.legs = Tail(call.legs)
           /\ TokensOf(a)' = TokensOf(a) \cup {c}
           /\ \A u \in Wallets : u # a => TokensOf(u)' = TokensOf(u)
    BY <2>3, ReceiveOutcome
  <2>7. t \in call'.before[call'.payer] /\ call'.payer = a /\ call'.payee = b
    BY <1>3, <2>4, <2>5 DEF SameCall
  <2>8. CASE /\ call'.phase = "raised" /\ \A u \in Wallets : TokensOf(u)' = TokensOf(u)
             /\ \A s \in Tokens : Due(s)' = Due(s)
    <3>1. NowHas({t}, {t}, C, {})'
      BY <2>4, <2>5, <2>8, NowHasKept
    <3>2. UnderWay(c, a)'
      BY <2>2, <2>8 DEF UnderWay
    <3> QED
      BY <2>1, <2>5, <2>7, <2>8, <3>1, <3>2 DEF Changing
  <2>9. CASE /\ call'.phase = "send" /\ call'.legs = Tail(call.legs)
             /\ TokensOf(a)' = TokensOf(a) \cup {c}
             /\ \A u \in Wallets : u # a => TokensOf(u)' = TokensOf(u)
    <3>1. NowHas({t}, {t}, C, C)'
      BY ZenonT(60), <1>3, <2>1, <2>4, <2>5, <2>7, <2>9 DEF NowHas, TokensOf, SameCall
    <3>2. call'.legs = <<>>
      BY <1>2, <2>1, <2>9, LegsLeft
    <3> QED
      BY <2>1, <2>5, <2>7, <2>9, <3>1, <3>2 DEF Changed
  <2> QED
    BY <2>6, <2>8, <2>9
<1> QED
  BY <1>1, <1>4, <1>5 DEF NotStarted, Paid, Changed
\* A call that begins has each wallet's tokens as they are.
LEMMA StartedFacts ==
  ASSUME NEW kind, NEW owed, NEW legs, call' = Started(kind, owed, legs), UNCHANGED wallet
  PROVE  /\ call' # Idle /\ call'.phase = "send" /\ call'.kind = kind /\ call'.owed = owed
         /\ call'.legs = legs /\ call'.payer = legs[1].from /\ call'.payee = legs[1].to
         /\ \A u \in Wallets : call'.before[u] = TokensOf(u)
         /\ NowHas({}, {}, {}, {})'
<1>1. /\ call'.phase = "send" /\ call'.kind = kind /\ call'.owed = owed
      /\ call'.legs = legs /\ call'.payer = legs[1].from /\ call'.payee = legs[1].to
      /\ \A u \in Wallets : call'.before[u] = TokensOf(u)
  BY DEF Started, TokensOf
<1>2. call' # Idle
  BY <1>1 DEF Idle
<1>3. NowHas({}, {}, {}, {})'
  BY <1>1 DEF NowHas, TokensOf
<1> QED
  BY <1>1, <1>2, <1>3

\* The two kinds of call start with what they found planned.
LEMMA BeginStage ==
  ASSUME WalletsTyped, OnePlace, NEW w \in Wallets, NEW v \in Wallets, w # v,
         NEW t \in DOMAIN issuedAt, NEW amount \in Amounts,
         BeginTransfer(w, v, t, amount) \/ BeginSwap(w, v, t, amount)
  PROVE  CallInv'
<1>1. t \in Tokens /\ amount \in Int /\ Value[t] \in Nat
  BY PocWalletAssumption, BleSwapAssumption DEF WalletsTyped
<1>2. UNCHANGED wallet
  BY DEF BeginTransfer, BeginSwap, walletVars
<1>3. \A x, y \in Wallets : x # y => TokensOf(x) \cap TokensOf(y) = {}
  <2>1. ASSUME NEW x \in Wallets PROVE TokensOf(x) \subseteq Tokens
    <3>1. \A c \in wallet[x].unspent : c.id \in Tokens
      BY HeldFacts
    <3> QED
      BY <3>1 DEF TokensOf, Ids
  <2> QED
    BY <2>1 DEF OnePlace, Holding, TokensOf
<1>4. CASE BeginTransfer(w, v, t, amount)
  <2> DEFINE a == Leg(w, v, t, amount)
             legs == <<a>>
  <2>1. a \in LegRecord /\ a.from = w /\ a.to = v /\ a.token = t
    BY <1>1 DEF Leg, LegRecord
  <2>2. call' = Started("transfer", amount, legs)
    BY <1>4 DEF BeginTransfer
  <2> HIDE DEF a
  <2>3. legs # <<>> /\ legs[1] = a /\ Len(legs) = 1
    OBVIOUS
  <2> HIDE DEF legs
  <2>4. /\ call' # Idle /\ call'.phase = "send" /\ call'.kind = "transfer"
        /\ call'.legs = legs /\ call'.payer = w /\ call'.payee = v
        /\ \A u \in Wallets : call'.before[u] = TokensOf(u)
        /\ NowHas({}, {}, {}, {})'
    BY <1>2, <2>1, <2>2, <2>3, StartedFacts
  <2>5. AllLegs(t, {})'
    BY <2>1, <2>3, <2>4 DEF AllLegs, IsLeg
  <2>6. NotStarted(t, {})' /\ Planned(t, {})'
    BY <2>4, <2>5 DEF NotStarted, Planned
  <2>7. \A x, y \in Wallets : x # y => call'.before[x] \cap call'.before[y] = {}
    BY <1>3, <2>4
  <2> QED
    BY <1>1, <2>6, <2>7 DEF CallInv
<1>5. CASE BeginSwap(w, v, t, amount)
  <2> DEFINE a == Leg(w, v, t, Value[t])
  <2>1. a \in LegRecord /\ a.from = w /\ a.to = v /\ a.token = t
    BY <1>1 DEF Leg, LegRecord
  <2> HIDE DEF a
  <2>2. t \in TokensOf(w)
    BY <1>5 DEF BeginSwap, TokensOf
  <2>3. PICK legs \in Seq(LegRecord), C \in SUBSET Tokens :
          /\ call' = Started("swap", amount, legs) /\ legs # <<>> /\ legs[1] = a
          /\ \/ Len(legs) = 1 /\ C = {} /\ Value[t] = amount
             \/ \E c \in Tokens : /\ Len(legs) = 2 /\ C = {c} /\ IsLeg(legs[2], v, w, c)
                                  /\ c \in TokensOf(v) /\ Value[t] > amount
                                  /\ Value[c] >= Value[t] - amount
                                  /\ \A d \in TokensOf(v) : Value[d] >= Value[t] - amount => Value[c] <= Value[d]
    <3>1. CASE Value[t] - amount = 0 /\ call' = Started("swap", amount, <<a>>)
      <4> DEFINE legs == <<a>>
      <4>1. legs \in Seq(LegRecord) /\ legs # <<>> /\ legs[1] = a /\ Len(legs) = 1
        BY <2>1
      <4>2. Value[t] = amount /\ call' = Started("swap", amount, legs)
        BY <1>1, <3>1
      <4> HIDE DEF legs
      <4> QED
        BY <4>1, <4>2
    <3>2. ASSUME Value[t] - amount > 0, NEW c \in ChangeTokens(wallet[v], Value[t] - amount),
                 call' = Started("swap", amount, <<a, Leg(v, w, c.id, Value[c.id])>>)
          PROVE  \E legs \in Seq(LegRecord), C \in SUBSET Tokens :
                   /\ call' = Started("swap", amount, legs) /\ legs # <<>> /\ legs[1] = a
                   /\ \E k \in Tokens : /\ Len(legs) = 2 /\ C = {k} /\ IsLeg(legs[2], v, w, k)
                                        /\ k \in TokensOf(v) /\ Value[t] > amount
                                        /\ Value[k] >= Value[t] - amount
                                        /\ \A d \in TokensOf(v) : Value[d] >= Value[t] - amount => Value[k] <= Value[d]
      <4> DEFINE b == Leg(v, w, c.id, Value[c.id])
                 legs == <<a, b>>
                 k == c.id
      <4>1. /\ c \in wallet[v].unspent /\ k \in Tokens /\ Value[k] \in Nat
            /\ Value[k] >= Value[t] - amount
            /\ \A d \in wallet[v].unspent : Value[d.id] >= Value[t] - amount => Value[k] <= Value[d.id]
        BY <3>2, ChangeFacts
      <4>2. k \in TokensOf(v) /\ \A d \in TokensOf(v) : Value[d] >= Value[t] - amount => Value[k] <= Value[d]
        BY <4>1 DEF TokensOf, Ids
      <4>3. IsLeg(b, v, w, k)
        BY <4>1 DEF Leg, LegRecord, IsLeg
      <4>4. call' = Started("swap", amount, legs)
        BY <3>2
      <4> HIDE DEF b
      <4>5. /\ legs \in Seq(LegRecord) /\ legs # <<>> /\ legs[1] = a
            /\ Len(legs) = 2 /\ legs[2] = b
        BY <2>1, <4>3 DEF IsLeg
      <4>6. Value[t] > amount
        BY <1>1, <3>2
      <4> HIDE DEF legs, k
      <4>7. IsLeg(legs[2], v, w, k) /\ {k} \in SUBSET Tokens
        BY <4>1, <4>3, <4>5
      <4>8. /\ Len(legs) = 2 /\ {k} = {k} /\ IsLeg(legs[2], v, w, k)
            /\ k \in TokensOf(v) /\ Value[t] > amount /\ Value[k] >= Value[t] - amount
            /\ \A d \in TokensOf(v) : Value[d] >= Value[t] - amount => Value[k] <= Value[d]
        BY <4>1, <4>2, <4>5, <4>6, <4>7
      <4> QED
        BY <4>1, <4>4, <4>5, <4>7, <4>8
    <3> QED
      BY <1>5, <3>1, <3>2 DEF BeginSwap, a
  <2>4. /\ call' # Idle /\ call'.phase = "send" /\ call'.kind = "swap" /\ call'.owed = amount
        /\ call'.legs = legs /\ call'.payer = w /\ call'.payee = v
        /\ \A u \in Wallets : call'.before[u] = TokensOf(u)
        /\ NowHas({}, {}, {}, {})'
    BY <1>2, <2>1, <2>3, StartedFacts
  <2>5. AllLegs(t, C)'
    BY <2>1, <2>3, <2>4 DEF AllLegs, IsLeg
  <2>6. NotStarted(t, C)'
    BY <2>4, <2>5 DEF NotStarted
  <2>7. Planned(t, C)'
    BY <2>2, <2>3, <2>4 DEF Planned, EnoughBefore
  <2>8. \A x, y \in Wallets : x # y => call'.before[x] \cap call'.before[y] = {}
    BY <1>3, <2>4
  <2> QED
    BY <1>1, <2>6, <2>7, <2>8 DEF CallInv
<1> QED
  BY <1>4, <1>5

\* A call goes on from stage to stage, or ends.
LEMMA CallStep ==
  ASSUME Typed, NoncesFresh, OnePlace, CallInv, [Next]_vars
  PROVE  CallInv'
<1>1. CASE call = Idle /\ call' = call
  BY <1>1 DEF CallInv
<1>2. CASE UNCHANGED <<call, wallet, parcels>>
  <2>1. SUFFICES ASSUME call # Idle PROVE CallInv'
    BY <1>2 DEF CallInv
  <2>2. PICK t \in Tokens, C \in SUBSET Tokens :
          /\ Planned(t, C)
          /\ \/ NotStarted(t, C) \/ Paying(t, C) \/ Paid(t, C) \/ Changing(t, C) \/ Changed(t, C)
    BY <2>1 DEF CallInv
  <2>3. SameCall /\ call'.phase = call.phase /\ call'.legs = call.legs /\ call'.parcel = call.parcel
    BY <1>2 DEF SameCall
  <2>4. \A s : Due(s)' = Due(s)
    BY <1>2 DEF Due, ParcelsOf
  <2>5. /\ NowHas({}, {}, {}, {})' <=> NowHas({}, {}, {}, {})
        /\ NowHas({t}, {}, {}, {})' <=> NowHas({t}, {}, {}, {})
        /\ NowHas({t}, {t}, {}, {})' <=> NowHas({t}, {t}, {}, {})
        /\ NowHas({t}, {t}, C, {})' <=> NowHas({t}, {t}, C, {})
        /\ NowHas({t}, {t}, C, C)' <=> NowHas({t}, {t}, C, C)
    BY <1>2, <2>3 DEF NowHas, SameCall
  <2>6. (AllLegs(t, C)' <=> AllLegs(t, C)) /\ (ChangeLegs(C)' <=> ChangeLegs(C))
    BY <2>3 DEF AllLegs, ChangeLegs, SameCall
  <2>7. \A u, w : UnderWay(u, w) => UnderWay(u, w)'
    BY <2>3, <2>4 DEF UnderWay
  <2>8. NotStarted(t, C)' \/ Paying(t, C)' \/ Paid(t, C)' \/ Changing(t, C)' \/ Changed(t, C)'
    <3>1. NotStarted(t, C) => NotStarted(t, C)'
      BY <2>3, <2>5, <2>6 DEF NotStarted
    <3>2. Paying(t, C) => Paying(t, C)'
      BY <2>3, <2>5, <2>6, <2>7 DEF Paying, SameCall
    <3>3. Paid(t, C) => Paid(t, C)'
      BY <2>3, <2>5, <2>6 DEF Paid, SameCall
    <3>4. Changing(t, C) => Changing(t, C)'
      BY <2>3, <2>5, <2>6, <2>7 DEF Changing, SameCall
    <3>5. Changed(t, C) => Changed(t, C)'
      BY <2>3, <2>5 DEF Changed, SameCall
    <3> QED
      BY <2>2, <3>1, <3>2, <3>3, <3>4, <3>5
  <2>9. Planned(t, C)' /\ \A v, w \in Wallets : v # w => call'.before[v] \cap call'.before[w] = {}
    BY <2>1, <2>2, <2>3, PlannedKept DEF CallInv, SameCall
  <2> QED
    BY <2>8, <2>9 DEF CallInv
<1>3. ASSUME Send \/ Receive PROVE CallInv'
  <2>1. call # Idle
    BY Zenon, <1>3, CallFacts DEF Send, Receive
  <2>2. PICK t \in Tokens, C \in SUBSET Tokens :
          /\ Planned(t, C)
          /\ \/ NotStarted(t, C) \/ Paying(t, C) \/ Paid(t, C) \/ Changing(t, C) \/ Changed(t, C)
    BY <2>1 DEF CallInv
  <2>3. /\ SameCall
        /\ \/ NotStarted(t, C)' \/ Paying(t, C)' \/ Paid(t, C)' \/ Changing(t, C)' \/ Changed(t, C)'
    BY <1>3, <2>2, SendStage, ReceiveStage
  <2>4. Planned(t, C)'
    BY <2>2, <2>3, PlannedKept
  <2>5. \A v, w \in Wallets : v # w => call'.before[v] \cap call'.before[w] = {}
    BY <2>1, <2>3 DEF CallInv, SameCall
  <2> QED
    BY <2>3, <2>4, <2>5 DEF CallInv
<1>4. CASE Return
  BY <1>4 DEF Return, CallInv
<1>5. ASSUME NEW w \in Wallets, NEW v \in Wallets, NEW t \in DOMAIN issuedAt, NEW amount \in Amounts,
             w # v, BeginTransfer(w, v, t, amount) \/ BeginSwap(w, v, t, amount)
      PROVE  CallInv'
  BY <1>5, TypedWallets, BeginStage
<1>6. ASSUME NEW w \in Wallets, NEW t \in Tokens, Mint(w, t) PROVE CallInv'
  BY <1>1, <1>6 DEF Mint
<1>7. ASSUME NEW w \in Wallets, NEW p \in parcels, ReceiveAgain(w, p) PROVE CallInv'
  BY <1>1, <1>7 DEF ReceiveAgain
<1>8. ASSUME NEW w \in Wallets, NEW c \in wallet[w].unspent, Deposit(w, c) \/ SubmitKept(w, c)
      PROVE  CallInv'
  BY <1>1, <1>8 DEF Deposit, SubmitKept
<1>9. ASSUME NEW d \in deposits, SubmitDeposit(d) PROVE CallInv'
  BY <1>1, <1>9 DEF SubmitDeposit
<1>10. CASE PassTime \/ UNCHANGED vars
  BY <1>2, <1>10 DEF PassTime, vars, walletVars
<1> QED
  BY <1>3, <1>4, <1>5, <1>6, <1>7, <1>8, <1>9, <1>10 DEF Next
-----------------------------------------------------------------------------
(* The balance of a wallet *)

\* The equation of the sum in Balance, as IsTotal is that of Worth.
IsBalance(S, f) ==
  f = [s \in SUBSET S |-> IF s = {} THEN 0 ELSE Value[Pick(s).id] + f[s \ {Pick(s)}]]

\* The balance of some copies, one of each token, is the total value of the
\* tokens they are of.
LEMMA BalanceWorth ==
  ASSUME NEW S, IsFiniteSet(S), OneEach(S), \A c \in S : c.id \in Tokens
  PROVE  Balance(S) = Worth(Value, Ids(S)) /\ IsFiniteSet(Ids(S)) /\ Ids(S) \in SUBSET Tokens
<1> DEFINE v == [c \in S |-> Value[c.id]]
<1>1. \A c \in S : v[c] = Value[c.id] /\ v[c] \in Nat
  BY PocWalletAssumption
<1>2. IsFiniteSet(Ids(S)) /\ Ids(S) \in SUBSET Tokens
  <2> DEFINE id == [c \in S |-> c.id]
  <2>1. id \in [S -> Ids(S)] /\ \A i \in Ids(S) : \E c \in S : id[c] = i
    BY DEF Ids
  <2>2. id \in Surjection(S, Ids(S))
    BY <2>1 DEF Surjection
  <2>3. IsFiniteSet(Ids(S))
    BY <2>2, FS_Surjection
  <2> QED
    BY <2>3 DEF Ids
<1>3. Balance(S) = Worth(v, S)
  <2> HIDE DEF v
  <2>1. Balance(S) = (CHOOSE g : IsBalance(S, g))[S]
    BY DEF Balance, MapThenSumSet, MapThenFoldSet, IsBalance, Pick
  <2>2. \A s \in SUBSET S : s # {} => v[Pick(s)] = Value[Pick(s).id]
    BY <1>1, PickFacts
  <2>3. \A g : IsBalance(S, g) <=> IsTotal(v, S, g)
    <3> SUFFICES ASSUME NEW g PROVE IsBalance(S, g) <=> IsTotal(v, S, g)
      OBVIOUS
    <3> DEFINE L == [s \in SUBSET S |-> IF s = {} THEN 0 ELSE Value[Pick(s).id] + g[s \ {Pick(s)}]]
               R == [s \in SUBSET S |-> IF s = {} THEN 0 ELSE v[Pick(s)] + g[s \ {Pick(s)}]]
    <3>1. L = R
      BY <2>2
    <3> QED
      BY <3>1 DEF IsBalance, IsTotal
  <2>4. PICK f : IsTotal(v, S, f)
    BY TotalExists
  <2> DEFINE g == CHOOSE g : IsBalance(S, g)
  <2>5. IsBalance(S, g)
    BY <2>3, <2>4
  <2> HIDE DEF g
  <2>6. IsTotal(v, S, g)
    BY <2>3, <2>5
  <2>7. Worth(v, S) = (CHOOSE h : IsTotal(v, S, h))[S]
    BY DEF Worth, MapThenSumSet, MapThenFoldSet, IsTotal, Pick
  <2> DEFINE h == CHOOSE h : IsTotal(v, S, h)
  <2>8. IsTotal(v, S, h)
    BY <2>4
  <2> HIDE DEF h
  <2>9. g[S] = h[S]
    BY <2>6, <2>8, TotalsAgree
  <2> QED
    BY <2>1, <2>7, <2>9 DEF g, h
<1>4. Worth(v, S) = Worth(Value, Ids(S))
  <2> DEFINE Bad == {T \in SUBSET S : Worth(v, T) # Worth(Value, Ids(T))}
  <2> SUFFICES ASSUME Bad # {} PROVE FALSE
    OBVIOUS
  <2>1. PICK m \in Bad : \A s \in Bad : s \subseteq m => s = m
    <3>1. Bad \in SUBSET (SUBSET S)
      OBVIOUS
    <3> HIDE DEF Bad
    <3> QED
      BY <3>1, SmallestOf
  <2>2. m \in SUBSET S /\ Worth(v, m) # Worth(Value, Ids(m)) /\ IsFiniteSet(m) /\ OneEach(m)
    BY <2>1, FS_Subset DEF OneEach
  <2>3. m # {}
    <3> SUFFICES ASSUME m = {} PROVE FALSE
      OBVIOUS
    <3>1. Worth(v, {}) = 0 /\ Worth(Value, {}) = 0
      BY FS_EmptySet, WorthRecursion
    <3>2. Ids({}) = {}
      BY DEF Ids
    <3> HIDE DEF v
    <3> QED
      BY <2>2, <3>1, <3>2
  <2>4. PICK c \in m : TRUE
    BY <2>3
  <2> DEFINE n == m \ {c}
  <2>5. n \in SUBSET S /\ n \subseteq m /\ n # m
    BY <2>2, <2>4
  <2>6. Worth(v, n) = Worth(Value, Ids(n))
    BY <2>1, <2>5
  <2>7. Ids(n) = Ids(m) \ {c.id} /\ c.id \in Ids(m)
    <3>1. Ids(n) = Ids(m) \ {c.id}
      BY <2>2, DropFacts
    <3> QED
      BY <3>1 DEF Ids
  <2> HIDE DEF n, v, Bad
  <2>8. Worth(v, m) = v[c] + Worth(v, n)
    BY <1>1, <2>2, WorthRemove DEF n
  <2>9. Worth(Value, Ids(m)) = Value[c.id] + Worth(Value, Ids(n))
    <3>1. IsFiniteSet(Ids(m)) /\ \A t \in Ids(m) : Value[t] \in Nat
      BY <1>2, <2>2, FS_Subset, PocWalletAssumption DEF Ids
    <3>2. Worth(Value, Ids(m)) = Value[c.id] + Worth(Value, Ids(m) \ {c.id})
      BY <2>7, <3>1, WorthRemove
    <3> QED
      BY <2>7, <3>2
  <2> QED
    BY <1>1, <2>2, <2>4, <2>6, <2>8, <2>9
<1> QED
  BY <1>2, <1>3, <1>4

\* The payer of a swap that is done has what it had, less the token it paid
\* with and more the change, which is worth at least the difference.
LEMMA NeverOverpaid ==
  ASSUME Typed, CallInv
  PROVE  PayerNeverOverpays
<1> SUFFICES ASSUME Completed, call.kind = "swap"
             PROVE  Balance(wallet[call.payer].unspent)
                      >= MapThenSumSet(LAMBDA t : Value[t], call.before[call.payer]) - call.owed
  BY DEF PayerNeverOverpays, BalanceBefore
<1>1. call # Idle /\ WalletsTyped
  BY CallFacts, TypedWallets DEF Completed
<1>2. /\ call.payer \in Wallets /\ call.payee \in Wallets /\ call.payer # call.payee
      /\ call.before \in [Wallets -> SUBSET Tokens] /\ call.owed \in Int
  BY <1>1, BleSwapAssumption DEF Typed, CallTyped, CallRecord
<1>3. PICK t \in Tokens, C \in SUBSET Tokens :
        /\ Planned(t, C)
        /\ \/ NotStarted(t, C) \/ Paying(t, C) \/ Paid(t, C) \/ Changing(t, C) \/ Changed(t, C)
  BY <1>1 DEF CallInv
<1> DEFINE S == wallet[call.payer].unspent
           had == call.before[call.payer]
           has == Ids(S)
<1>4. /\ Balance(S) = Worth(Value, has) /\ IsFiniteSet(has)
      /\ MapThenSumSet(LAMBDA s : Value[s], had) = Worth(Value, had)
  <2>1. IsFiniteSet(S) /\ OneEach(S)
    BY <1>1, <1>2 DEF WalletsTyped, GoodState
  <2>2. \A c \in S : c.id \in Tokens
    BY <1>1, <1>2, HeldFacts
  <2>3. MapThenSumSet(LAMBDA s : Value[s], had) = Worth(Value, had)
    BY DEF Worth
  <2> HIDE DEF S
  <2> QED
    BY <2>1, <2>2, <2>3, BalanceWorth
<1>5. /\ t \in had /\ had \in SUBSET Tokens
      /\ \/ has = had \ {t} /\ Value[t] = call.owed
         \/ \E c \in Tokens \ had : has = (had \ {t}) \cup {c} /\ Value[c] >= Value[t] - call.owed
  <2>1. had \in SUBSET Tokens /\ call.phase = "send" /\ call.legs = <<>>
    BY <1>2 DEF Completed
  <2>2. ~NotStarted(t, C) /\ ~Paying(t, C) /\ ~Changing(t, C)
    BY <2>1 DEF NotStarted, Paying, Changing, AllLegs
  <2>3. CASE Paid(t, C)
    <3>1. C = {}
      <4>1. Len(<<>>) = 0
        OBVIOUS
      <4> QED
        BY <2>1, <2>3, <4>1 DEF Paid, ChangeLegs
    <3>2. t \in had /\ has = had \ {t} /\ Value[t] = call.owed
      BY <1>2, <1>3, <2>3, <3>1 DEF Paid, NowHas, Planned
    <3> QED
      BY <2>1, <3>2
  <2>4. CASE Changed(t, C)
    <3>1. t \in had /\ has = (had \ {t}) \cup C /\ C # {}
      BY <1>2, <2>4 DEF Changed, NowHas
    <3>2. PICK c \in call.before[call.payee] : C = {c} /\ Value[c] >= Value[t] - call.owed
      BY <1>3, <3>1 DEF Planned, EnoughBefore
    <3>3. c \in Tokens \ had
      BY <1>1, <1>2, <3>2 DEF CallInv
    <3> QED
      BY <2>1, <3>1, <3>2, <3>3
  <2> QED
    BY <1>3, <2>2, <2>3, <2>4
<1> HIDE DEF S, had, has
<1> DEFINE rest == had \ {t}
<1>6. IsFiniteSet(rest) /\ IsFiniteSet(had) /\ \A s \in had : Value[s] \in Nat
  <2>1. rest \subseteq has
    BY <1>5
  <2>2. IsFiniteSet(rest)
    BY <1>4, <2>1, FS_Subset
  <2>3. IsFiniteSet(rest \cup {t}) /\ had = rest \cup {t}
    BY <1>5, <2>2, FS_AddElement
  <2> QED
    BY <1>5, <2>2, <2>3, PocWalletAssumption
<1>7. Worth(Value, had) = Value[t] + Worth(Value, rest) /\ Worth(Value, rest) \in Nat
  BY <1>5, <1>6, WorthRemove, WorthType
<1>8. Value[t] \in Nat
  BY PocWalletAssumption
<1>9. CASE has = rest /\ Value[t] = call.owed
  BY <1>2, <1>4, <1>7, <1>8, <1>9 DEF had, S
<1>10. ASSUME NEW c \in Tokens \ had, has = rest \cup {c}, Value[c] >= Value[t] - call.owed
       PROVE  Balance(S) >= Worth(Value, had) - call.owed
  <2>1. Value[c] \in Nat /\ has \ {c} = rest /\ \A s \in has : Value[s] \in Nat
    BY <1>5, <1>6, <1>10, PocWalletAssumption
  <2>2. c \in has
    BY <1>10
  <2>3. Worth(Value, has) = Value[c] + Worth(Value, has \ {c})
    BY <1>4, <2>1, <2>2, WorthRemove
  <2> HIDE DEF rest
  <2>4. Worth(Value, has) = Value[c] + Worth(Value, rest)
    BY <2>1, <2>3
  <2>5. Balance(S) = Value[c] + Worth(Value, rest)
    BY <1>4, <2>4
  <2> QED
    BY <1>2, <1>7, <1>8, <1>10, <2>1, <2>5
<1> QED
  BY <1>2, <1>4, <1>5, <1>7, <1>8, <1>9, <1>10 DEF S, had, has
-----------------------------------------------------------------------------
(* The invariant, and what follows from it *)

\* Nothing is issued, sent, deposited or submitted to begin with.
LEMMA InitInv ==
  ASSUME Init
  PROVE  BleInv
<1>1. \A w \in Wallets : wallet[w].unspent = {} /\ wallet[w].nonces = {}
  BY DEF Init, EmptyState
<1>2. EmptyState \in WalletState
  BY DEF EmptyState, WalletState
<1>3. wallet \in [Wallets -> WalletState]
  BY <1>2 DEF Init
<1>4. DOMAIN issuedAt = {} /\ DOMAIN registry = {}
  BY DEF Init
<1>5. Typed
  BY <1>1, <1>3, <1>4, FS_EmptySet DEF Init, Typed, TypeOK, CallTyped
<1>6. NoncesFresh
  BY <1>1 DEF Init, NoncesFresh
<1>7. \A t \in Tokens : Holding(t) = {} /\ Due(t) = {} /\ Deposits(t) = {}
  BY <1>1 DEF Init, Holding, Ids, Due, ParcelsOf, Deposits
<1>8. OnePlace
  BY <1>7 DEF OnePlace
<1>9. LedgerInv
  BY <1>4 DEF Init, LedgerInv, RegistryKnown, ConflictOnlyAfterKept
<1>10. HopsInv /\ CallInv
  BY <1>1 DEF Init, HopsInv, CallInv
<1> QED
  BY <1>5, <1>6, <1>8, <1>9, <1>10 DEF BleInv

\* Every step keeps all the parts of the invariant.
LEMMA InvStep ==
  ASSUME BleInv, [Next]_vars
  PROVE  BleInv'
<1>1. Typed /\ WalletsTyped /\ Move
  BY TypedWallets, StepMoves DEF BleInv
<1>2. Typed'
  BY <1>1, TypesStep
<1>3. NoncesFresh' /\ OnePlace' /\ HopsInv'
  BY <1>1, NoncesStep, PlaceStep, HopsStep DEF BleInv
<1>4. LedgerInv'
  BY <1>1, LedgerStep DEF BleInv
<1>5. CallInv'
  BY CallStep DEF BleInv
<1> QED
  BY <1>2, <1>3, <1>4, <1>5 DEF BleInv

\* What wallets, parcels, ledger and calls keep between any two steps of
\* BLEChannel, the wallets and the ledger (dpc_poc/dpc).
THEOREM Invariance == Spec => []BleInv
<1>1. Init => BleInv
  BY InitInv
<1>2. BleInv /\ [Next]_vars => BleInv'
  BY InvStep
<1> QED
  BY <1>1, <1>2, PTL DEF Spec

\* Types, and: the dict of a wallet has one copy of a token, whose owner is
\* the wallet and the last of the keys that had it (dpc_poc/dpc/wallet.py).
THEOREM Typing == Spec => []TypeOK
<1>1. BleInv => TypeOK
  BY DEF BleInv, Typed
<1> QED
  BY <1>1, Invariance, PTL

\* Replay protection, "Replay detected" (dpc_poc/dpc/wallet.py:90): whatever
\* is sent, received again or lost, a token has at most one wallet that can
\* spend it or would take in a parcel of it, and none once it is deposited.
THEOREM NoReplay == Spec => []OneTaker
<1>1. ASSUME OnePlace PROVE OneTaker
  <2>1. ASSUME NEW t \in Tokens, NEW w \in Takers(t)
        PROVE  w \in Holding(t) \/ \E p \in Due(t) : p.copy.owner = w
    BY DEF Takers, Holding, Due, ParcelsOf
  <2>2. ASSUME NEW t \in Tokens, NEW v \in Takers(t), NEW w \in Takers(t) PROVE v = w
    BY <1>1, <2>1 DEF OnePlace
  <2>3. ASSUME NEW t \in Tokens, t \in {d.copy.id : d \in deposits} PROVE Takers(t) = {}
    <3>1. Deposits(t) # {}
      BY <2>3 DEF Deposits
    <3> QED
      BY <1>1, <2>1, <3>1 DEF OnePlace
  <2> QED
    BY <2>2, <2>3 DEF OneTaker
<1> QED
  BY <1>1, Invariance, PTL DEF BleInv

\* The ledger refuses a token, and flags keys, only when its registered owner
\* submitted it without depositing it; submitting a deposit twice, or taking
\* in a parcel twice, cannot do that (dpc_poc/dpc/reconciliation.py:36-87).
THEOREM HonestNotFlagged == Spec => []ConflictOnlyAfterKept
<1>1. BleInv => ConflictOnlyAfterKept
  BY DEF BleInv, LedgerInv
<1> QED
  BY <1>1, Invariance, PTL

\* A token's hop count is the transfers since it last came back to a wallet
\* that had had it, or since it was handed out (prompt.md:773;
\* dpc_poc/dpc/wallet.py, _check_lifecycle_reset), and within the hop limit.
THEOREM HopsCount == Spec => []HopsCountSinceReturn
<1>1. BleInv => HopsCountSinceReturn
  BY TypedWallets, HopsCounted DEF BleInv
<1> QED
  BY <1>1, Invariance, PTL

\* A swap that completes has cost its payer no more than the amount owed
\* (dpc_poc/dpc/ble_sim.py:101-125, execute_swap).
THEOREM NoOverpayment == Spec => []PayerNeverOverpays
<1>1. BleInv => PayerNeverOverpays
  BY NeverOverpaid DEF BleInv
<1> QED
  BY <1>1, Invariance, PTL
-----------------------------------------------------------------------------
(* The channel implements an exchange of tokens *)

\* Where an observer between two calls sees token t.
PlaceAt(t) ==
  ({"with"} \X Holders(t)) \cup ({"due"} \X Expecting(t))
    \cup ({"deposited"} \X {d.by : d \in {e \in deposits : e.copy.id = t}})

Place == [t \in Tokens |-> PlaceAt(t)]

With(w) == {<<"with", w>>}
DueTo(w) == {<<"due", w>>}

\* One token moves.
Moved(t, end) == Place' = [Place EXCEPT ![t] = end]

\* Token c of w is the smallest that is enough as change for token t of v.
IsChange(c, t, owed, v, w) ==
  /\ Place[t] = With(v) /\ Place[c] = With(w)
  /\ Value[t] > owed /\ Value[c] >= Value[t] - owed
  /\ \A d \in Tokens : Place[d] = With(w) /\ Value[d] >= Value[t] - owed => Value[c] <= Value[d]

\* The steps of Exchange, as moves of the place.
LEMMA ExchangeSteps ==
  /\ \A t \in Tokens, w \in Wallets : Place[t] = {} /\ Moved(t, With(w)) => ChannelAsExchange!HandOut(t, w)
  /\ \A t \in Tokens, w \in Wallets : Place[t] = DueTo(w) /\ Moved(t, With(w)) => ChannelAsExchange!Arrive(t, w)
  /\ \A t \in Tokens, w \in Wallets :
       Place[t] = With(w) /\ Moved(t, {<<"deposited", w>>}) => ChannelAsExchange!Deposit(t, w)
  /\ \A t \in Tokens, v, w \in Wallets :
       Place[t] = With(v) /\ (Moved(t, With(w)) \/ Moved(t, DueTo(w))) => ChannelAsExchange!Transfer(t, v, w)
  /\ \A t, c \in Tokens, owed \in Amounts, v, w \in Wallets :
       /\ IsChange(c, t, owed, v, w)
       /\ \E end \in {With(v), DueTo(v)} : Place' = [Place EXCEPT ![t] = With(w), ![c] = end]
       => ChannelAsExchange!Swap(t, c, owed, v, w)
<1>1. \A t \in Tokens, w \in Wallets : Place[t] = {} /\ Moved(t, With(w)) => ChannelAsExchange!HandOut(t, w)
  BY DEF Moved, Place, PlaceAt, With, ChannelAsExchange!HandOut, ChannelAsExchange!With
<1>2. \A t \in Tokens, w \in Wallets : Place[t] = DueTo(w) /\ Moved(t, With(w)) => ChannelAsExchange!Arrive(t, w)
  BY DEF Moved, Place, PlaceAt, With, DueTo, ChannelAsExchange!Arrive, ChannelAsExchange!With,
         ChannelAsExchange!DueTo
<1>3. \A t \in Tokens, w \in Wallets :
        Place[t] = With(w) /\ Moved(t, {<<"deposited", w>>}) => ChannelAsExchange!Deposit(t, w)
  BY DEF Moved, Place, PlaceAt, With, ChannelAsExchange!Deposit, ChannelAsExchange!With,
         ChannelAsExchange!DepositedBy
<1>4. \A t \in Tokens, v, w \in Wallets :
        Place[t] = With(v) /\ (Moved(t, With(w)) \/ Moved(t, DueTo(w))) => ChannelAsExchange!Transfer(t, v, w)
  BY DEF Moved, Place, PlaceAt, With, DueTo, ChannelAsExchange!Transfer, ChannelAsExchange!With,
         ChannelAsExchange!DueTo
<1>5. ASSUME NEW t \in Tokens, NEW c \in Tokens, NEW owed \in Amounts, NEW v \in Wallets, NEW w \in Wallets,
             IsChange(c, t, owed, v, w),
             \E end \in {With(v), DueTo(v)} : Place' = [Place EXCEPT ![t] = With(w), ![c] = end]
      PROVE  ChannelAsExchange!Swap(t, c, owed, v, w)
  <2>1. c \in ChannelAsExchange!Enough(t, owed, w)
    BY <1>5 DEF IsChange, Place, PlaceAt, With, ChannelAsExchange!Enough, ChannelAsExchange!With
  <2>2. \A d \in ChannelAsExchange!Enough(t, owed, w) : Value[c] <= Value[d]
    BY <1>5 DEF IsChange, Place, PlaceAt, With, ChannelAsExchange!Enough, ChannelAsExchange!With
  <2>3. \E end \in {ChannelAsExchange!With(v), ChannelAsExchange!DueTo(v)} :
          Place' = [Place EXCEPT ![t] = ChannelAsExchange!With(w), ![c] = end]
    BY <1>5 DEF With, DueTo, ChannelAsExchange!With, ChannelAsExchange!DueTo
  <2>4. Place[t] = ChannelAsExchange!With(v) /\ Value[t] > owed
    BY <1>5 DEF IsChange, With, ChannelAsExchange!With
  <2> QED
    BY <2>1, <2>2, <2>3, <2>4 DEF Place, PlaceAt, ChannelAsExchange!Swap
<1> QED
  BY <1>1, <1>2, <1>3, <1>4, <1>5

\* The same, seen between two calls.
RestAt(t) ==
  ({"with"} \X Holding(t)) \cup ({"due"} \X {p.copy.owner : p \in Due(t)})
    \cup ({"deposited"} \X {d.by : d \in Deposits(t)})

\* Between two calls, the place is read off the wallets.
LEMMA PlaceAtRest ==
  ASSUME NEW t
  PROVE  /\ call = Idle => PlaceAt(t) = RestAt(t)
         /\ call' = Idle => PlaceAt(t)' = RestAt(t)'
<1>1. Deposits(t) = {e \in deposits : e.copy.id = t} /\ Deposits(t)' = {e \in deposits' : e.copy.id = t}
  BY DEF Deposits
<1>2. /\ Due(t) = {q \in parcels : q.copy.id = t /\ <<t, q.nonce>> \notin wallet[q.copy.owner].nonces}
      /\ Due(t)' = {q \in parcels' : q.copy.id = t /\ <<t, q.nonce>> \notin wallet'[q.copy.owner].nonces}
  BY DEF Due, ParcelsOf
<1>3. call = Idle => Holders(t) = Holding(t) /\ Expecting(t) = {p.copy.owner : p \in Due(t)}
  BY <1>2 DEF Holders, Holding, Expecting
<1>4. call' = Idle => Holders(t)' = Holding(t)' /\ Expecting(t)' = {p.copy.owner : p \in Due(t)'}
  BY <1>2 DEF Holders, Holding, Expecting
<1>5. call = Idle => PlaceAt(t) = RestAt(t)
  BY <1>1, <1>3 DEF PlaceAt, RestAt
<1>6. call' = Idle => PlaceAt(t)' = RestAt(t)'
  BY <1>1, <1>4 DEF PlaceAt, RestAt
<1> QED
  BY <1>5, <1>6

\* A token that is somewhere is in that place alone.
RestFacts ==
  \A t \in Tokens :
    /\ \A w \in Wallets : t \in TokensOf(w) => RestAt(t) = With(w)
    /\ \A p \in Due(t) : RestAt(t) = DueTo(p.copy.owner)
    /\ \A d \in Deposits(t) : RestAt(t) = {<<"deposited", d.by>>}

\* A token whose copies rest at one place each is nowhere else: a copy in
\* custody, due or deposited excludes the two others.
LEMMA PlacesAlone ==
  ASSUME OnePlace
  PROVE  RestFacts
<1> SUFFICES ASSUME NEW t \in Tokens
             PROVE  /\ \A w \in Wallets : t \in TokensOf(w) => RestAt(t) = With(w)
                    /\ \A p \in Due(t) : RestAt(t) = DueTo(p.copy.owner)
                    /\ \A d \in Deposits(t) : RestAt(t) = {<<"deposited", d.by>>}
  BY DEF RestFacts
<1>1. ASSUME NEW w \in Wallets, t \in TokensOf(w) PROVE RestAt(t) = With(w)
  <2>1. Holding(t) = {w} /\ Due(t) = {} /\ Deposits(t) = {}
    BY <1>1 DEF OnePlace, Holding, TokensOf
  <2> QED
    BY <2>1 DEF RestAt, With
<1>2. ASSUME NEW p \in Due(t) PROVE RestAt(t) = DueTo(p.copy.owner)
  <2>1. Holding(t) = {} /\ Due(t) = {p} /\ Deposits(t) = {}
    BY <1>2 DEF OnePlace
  <2> QED
    BY <2>1 DEF RestAt, DueTo
<1>3. ASSUME NEW d \in Deposits(t) PROVE RestAt(t) = {<<"deposited", d.by>>}
  <2>1. Holding(t) = {} /\ Due(t) = {} /\ Deposits(t) = {d}
    BY <1>3 DEF OnePlace
  <2> QED
    BY <2>1 DEF RestAt
<1> QED
  BY <1>1, <1>2, <1>3

\* A token that a step leaves where it is.
LEMMA RestKept ==
  ASSUME NEW w \in Wallets, OthersKeep(w), NEW t,
         t \in Ids(wallet'[w].unspent) <=> t \in Ids(wallet[w].unspent),
         Due(t)' = Due(t), Deposits(t)' = Deposits(t)
  PROVE  RestAt(t)' = RestAt(t)
<1>1. Holding(t)' = Holding(t)
  BY HoldingChanged
<1> QED
  BY <1>1 DEF RestAt

\* One token moves when the others stay where they are.
LEMMA OneMoves ==
  ASSUME NEW t \in Tokens, NEW end, PlaceAt(t)' = end,
         \A s \in Tokens : s # t => PlaceAt(s)' = PlaceAt(s)
  PROVE  Moved(t, end)
<1> DEFINE at == [s \in Tokens |-> PlaceAt(s)']
<1>1. Place' = at
  BY DEF Place
<1>2. Place = [s \in Tokens |-> PlaceAt(s)]
  BY DEF Place
<1> HIDE DEF Place
<1>3. at = [[s \in Tokens |-> PlaceAt(s)] EXCEPT ![t] = end]
  OBVIOUS
<1> QED
  BY <1>1, <1>2, <1>3 DEF Moved
\* Places differ when the wallets do, or what they have to do with the token.
LEMMA EndsDiffer ==
  ASSUME NEW v, NEW w
  PROVE  /\ With(v) # {} /\ With(v) # DueTo(w) /\ With(v) # {<<"deposited", w>>}
         /\ v # w => With(v) # With(w)
<1>1. <<"with", v>> # <<"due", w>> /\ <<"with", v>> # <<"deposited", w>>
  OBVIOUS
<1>2. v # w => <<"with", v>> # <<"with", w>>
  OBVIOUS
<1>3. \A x, y : {x} = {y} => x = y
  OBVIOUS
<1> QED
  BY <1>1, <1>2, <1>3 DEF With, DueTo

\* A step between two calls hands out a token, takes a late parcel in,
\* deposits a token, or moves nothing.
LEMMA StepAtRest ==
  ASSUME BleInv, RestFacts', [Next]_vars, call = Idle, call' = Idle
  PROVE  ChannelAsExchange!Next \/ Place' = Place
<1>1. WalletsTyped /\ OnePlace /\ RestFacts
  BY TypedWallets, PlacesAlone DEF BleInv
<1>2. \A t : PlaceAt(t) = RestAt(t) /\ PlaceAt(t)' = RestAt(t)'
  BY PlaceAtRest
<1>3. \A t \in Tokens : Place[t] = PlaceAt(t) /\ Place'[t] = PlaceAt(t)'
  BY DEF Place
<1>4. ASSUME NEW t \in Tokens, NEW end, PlaceAt(t)' = end, Place[t] # end,
             \A s \in Tokens : s # t => PlaceAt(s)' = PlaceAt(s)
      PROVE  Moved(t, end) /\ Place' # Place
  BY <1>3, <1>4, OneMoves
<1>5. ASSUME NEW w \in Wallets, NEW t \in Tokens, Mint(w, t)
      PROVE  ChannelAsExchange!HandOut(t, w) /\ Place' # Place
  <2>1. MintedTo(w, t)
    <3>1. DOMAIN issuedAt' = DOMAIN issuedAt \cup {t}
      BY <1>5 DEF Mint
    <3> QED
      BY <1>5, <3>1 DEF Mint, MintedTo
  <2>2. /\ OthersKeep(w) /\ wallet'[w].nonces = wallet[w].nonces
        /\ Ids(wallet'[w].unspent) = Ids(wallet[w].unspent) \cup {t}
    BY <1>1, <2>1, MintedEffect
  <2>3. \A s : Due(s)' = Due(s) /\ Deposits(s)' = Deposits(s)
    BY <1>1, <2>1, <2>2, DueKept DEF MintedTo, OthersKeep, Deposits
  <2>4. \A s \in Tokens : s # t => PlaceAt(s)' = PlaceAt(s)
    BY <1>2, <2>2, <2>3, RestKept
  <2>5. PlaceAt(t) = {}
    BY <1>1, <1>2, <2>1, UnissuedNowhere DEF MintedTo, RestAt
  <2>6. PlaceAt(t)' = With(w)
    BY <1>2, <2>2 DEF RestFacts, TokensOf
  <2> QED
    BY <1>3, <1>4, <2>4, <2>5, <2>6, EndsDiffer, ExchangeSteps
<1>6. ASSUME NEW w \in Wallets, NEW p \in parcels, ReceiveAgain(w, p)
      PROVE  /\ p.copy.id \in Tokens
             /\ ChannelAsExchange!Arrive(p.copy.id, w) /\ Place' # Place
  <2> DEFINE t == p.copy.id
  <2>1. TakenIn(w, p) /\ t \in Tokens
    BY <1>1, <1>6 DEF ReceiveAgain, TakenIn, WalletsTyped, Copy
  <2>2. /\ OthersKeep(w) /\ p.copy.owner = w /\ p \in Due(t)
        /\ Ids(wallet'[w].unspent) = Ids(wallet[w].unspent) \cup {t}
    BY <1>1, <2>1, TakenEffect
  <2>3. \A s \in Tokens : s # t => Due(s)' = Due(s) /\ Deposits(s)' = Deposits(s)
    BY <1>1, <2>1, TakenNotDue DEF TakenIn, Deposits
  <2> HIDE DEF t
  <2>4. \A s \in Tokens : s # t => PlaceAt(s)' = PlaceAt(s)
    BY <1>2, <2>2, <2>3, RestKept
  <2>5. PlaceAt(t) = DueTo(w)
    BY <1>1, <1>2, <2>1, <2>2 DEF RestFacts
  <2>6. PlaceAt(t)' = With(w)
    BY <1>2, <2>1, <2>2 DEF RestFacts, TokensOf
  <2>7. Moved(t, With(w)) /\ Place' # Place /\ Place[t] = DueTo(w)
    BY <1>3, <1>4, <2>1, <2>4, <2>5, <2>6, EndsDiffer
  <2> QED
    BY <2>1, <2>7, ExchangeSteps DEF t
<1>7. ASSUME NEW w \in Wallets, NEW c \in wallet[w].unspent, Deposit(w, c)
      PROVE  /\ c.id \in Tokens
             /\ ChannelAsExchange!Deposit(c.id, w) /\ Place' # Place
  <2> DEFINE t == c.id
             d == [by |-> w, copy |-> c]
  <2>1. DepositedBy(w, c) /\ t \in Tokens
    BY <1>1, <1>7, HeldFacts DEF Deposit, DepositedBy
  <2>2. /\ OthersKeep(w) /\ wallet'[w].nonces = wallet[w].nonces
        /\ Ids(wallet'[w].unspent) = Ids(wallet[w].unspent) \ {t}
    BY <1>1, <2>1, DepositEffect
  <2>3. \A s : Due(s)' = Due(s)
    BY <1>1, <2>1, <2>2, DueKept DEF DepositedBy, OthersKeep
  <2>4. d \in Deposits(t)' /\ \A s : s # t => Deposits(s)' = Deposits(s)
    BY <2>1 DEF DepositedBy, Deposits
  <2>5. t \in TokensOf(w)
    BY DEF TokensOf, Ids
  <2> HIDE DEF t
  <2>6. \A s \in Tokens : s # t => PlaceAt(s)' = PlaceAt(s)
    BY <1>2, <2>2, <2>3, <2>4, RestKept
  <2>7. PlaceAt(t) = With(w)
    BY <1>1, <1>2, <2>1, <2>5 DEF RestFacts
  <2>8. PlaceAt(t)' = {<<"deposited", w>>}
    BY <1>2, <2>1, <2>4 DEF RestFacts
  <2>9. Moved(t, {<<"deposited", w>>}) /\ Place' # Place /\ Place[t] = With(w)
    BY <1>3, <1>4, <2>1, <2>6, <2>7, <2>8, EndsDiffer
  <2> QED
    BY <2>1, <2>9, ExchangeSteps DEF t
<1>8. ASSUME UNCHANGED <<wallet, parcels, deposits>> PROVE Place' = Place
  <2>1. \A t : Holding(t)' = Holding(t) /\ Due(t)' = Due(t) /\ Deposits(t)' = Deposits(t)
    BY <1>8 DEF Holding, Due, ParcelsOf, Deposits
  <2>2. \A t : RestAt(t)' = RestAt(t)
    BY <2>1 DEF RestAt
  <2> QED
    BY <1>2, <2>2 DEF Place
<1>9. ASSUME NEW w, NEW v, NEW t, NEW amount,
              BeginTransfer(w, v, t, amount) \/ BeginSwap(w, v, t, amount)
       PROVE  FALSE
  <2>1. call'.phase = "send"
    BY <1>9 DEF BeginTransfer, BeginSwap, Started
  <2> QED
    BY <2>1, CallFacts DEF Idle
<1>10. ~Send /\ ~Receive
  BY Zenon, CallFacts DEF Send, Receive, BleInv
<1>11. ASSUME Return \/ (\E w \in Wallets : \E c \in wallet[w].unspent : SubmitKept(w, c))
              \/ (\E d \in deposits : SubmitDeposit(d)) \/ PassTime \/ UNCHANGED vars
       PROVE  UNCHANGED <<wallet, parcels, deposits>>
  BY <1>11 DEF Return, SubmitKept, SubmitDeposit, PassTime, vars, walletVars
<1>12. ASSUME Place' # Place,
              \E t \in Tokens, w \in Wallets :
                ChannelAsExchange!HandOut(t, w) \/ ChannelAsExchange!Arrive(t, w) \/ ChannelAsExchange!Deposit(t, w)
       PROVE  ChannelAsExchange!Next
  BY <1>12 DEF Place, PlaceAt, ChannelAsExchange!Next
<1> QED
  BY <1>5, <1>6, <1>7, <1>8, <1>9, <1>10, <1>11, <1>12 DEF Next
\* The tokens that had a wallet before the call.
HadBefore(s) == \E u \in Wallets : s \in call.before[u]

\* send_token and receive_token make a parcel of, or take in, no token but
\* those that a wallet had before the call.
LEMMA DueWithin ==
  ASSUME Typed, NoncesFresh, OnePlace, CallInv, Send \/ Receive
  PROVE  /\ SameCall /\ call # Idle /\ call' # Idle
         /\ \A s \in Tokens : ~HadBefore(s) => Due(s)' = Due(s)
<1>1. call # Idle /\ call.legs # <<>> /\ call.phase \in {"send", "receive"}
  BY Zenon, CallFacts DEF Send, Receive
<1>2. PICK t \in Tokens, C \in SUBSET Tokens :
        /\ Planned(t, C)
        /\ \/ NotStarted(t, C) \/ Paying(t, C) \/ Paid(t, C) \/ Changing(t, C) \/ Changed(t, C)
  BY <1>1 DEF CallInv
<1>3. SameCall /\ call' # Idle
  BY <1>2, SendStage, ReceiveStage
<1>4. PICK a \in Wallets, b \in Wallets : call.payer = a /\ call.payee = b /\ a # b
  BY <1>1 DEF Typed, CallTyped, CallRecord
<1>5. C # {} => \A c \in C : HadBefore(c)
  BY <1>2, <1>4 DEF Planned, EnoughBefore, HadBefore
<1>6. ASSUME Send PROVE \A s \in Tokens : ~HadBefore(s) => Due(s)' = Due(s)
  <2>1. call.phase = "send"
    BY Zenon, <1>6 DEF Send
  <2>2. CASE NotStarted(t, C)
    <3>1. IsLeg(call.legs[1], a, b, t) /\ TokensOf(a) = call.before[a]
      BY <1>4, <2>1, <2>2 DEF NotStarted, AllLegs, NowHas, TokensOf
    <3>2. \/ \A s \in Tokens : Due(s)' = Due(s)
          \/ t \in TokensOf(a) /\ \A s \in Tokens : s # t => Due(s)' = Due(s)
      BY <1>6, <3>1, SendOutcome
    <3> QED
      BY <3>1, <3>2 DEF HadBefore
  <2>3. CASE Paid(t, C)
    <3>1. PICK c \in Tokens : C = {c} /\ IsLeg(call.legs[1], b, a, c)
      BY <1>1, <1>4, <2>1, <2>3 DEF Paid, ChangeLegs
    <3>2. \A s \in Tokens : s # c => Due(s)' = Due(s)
      BY <1>6, <3>1, SendOutcome
    <3> QED
      BY <1>5, <3>1, <3>2
  <2> QED
    BY <1>1, <1>2, <2>1, <2>2, <2>3 DEF Paying, Changing, Changed
<1>7. ASSUME Receive PROVE \A s \in Tokens : ~HadBefore(s) => Due(s)' = Due(s)
  <2>1. call.phase = "receive"
    BY <1>7 DEF Receive
  <2>2. CASE Paying(t, C)
    <3>1. PICK p \in Due(t) : call.parcel = {p}
      BY <2>1, <2>2 DEF Paying, UnderWay
    <3>2. p.copy.id = t /\ call.parcel = {p}
      BY <3>1 DEF Due, ParcelsOf
    <3>3. \A s \in Tokens : s # t => Due(s)' = Due(s)
      BY <1>7, <3>2, ReceiveOutcome
    <3>4. HadBefore(t)
      BY <1>4, <2>2 DEF Paying, HadBefore
    <3> QED
      BY <3>3, <3>4
  <2>3. CASE Changing(t, C)
    <3>1. PICK c \in Tokens : C = {c}
      BY <2>1, <2>3 DEF Changing, ChangeLegs
    <3>2. PICK p \in Due(c) : call.parcel = {p}
      BY <2>1, <2>3, <3>1 DEF Changing, UnderWay
    <3>3. p.copy.id = c /\ call.parcel = {p}
      BY <3>2 DEF Due, ParcelsOf
    <3>4. \A s \in Tokens : s # c => Due(s)' = Due(s)
      BY <1>7, <3>3, ReceiveOutcome
    <3> QED
      BY <1>5, <3>1, <3>4
  <2> QED
    BY <1>1, <1>2, <2>1, <2>2, <2>3 DEF NotStarted, Paid, Changed
<1> QED
  BY <1>1, <1>3, <1>6, <1>7

\* While a call runs, the observer sees what there was before it.
LEMMA StepInCall ==
  ASSUME BleInv, Send \/ Receive
  PROVE  Place' = Place
<1>1. /\ SameCall /\ call # Idle /\ call' # Idle
      /\ \A s \in Tokens : ~HadBefore(s) => Due(s)' = Due(s)
  BY DueWithin DEF BleInv
<1>2. UNCHANGED deposits
  BY Zenon DEF Send, Receive
<1>3. ASSUME NEW s \in Tokens PROVE PlaceAt(s)' = PlaceAt(s)
  <2>1. Holders(s)' = Holders(s)
    BY <1>1 DEF Holders, SameCall
  <2>2. (Holders(s) = {}) <=> ~HadBefore(s)
    BY <1>1 DEF Holders, HadBefore
  <2>3. Due(s) = {q \in parcels : q.copy.id = s /\ <<s, q.nonce>> \notin wallet[q.copy.owner].nonces}
    BY DEF Due, ParcelsOf
  <2>4. Due(s)' = {q \in parcels' : q.copy.id = s /\ <<s, q.nonce>> \notin wallet'[q.copy.owner].nonces}
    BY DEF Due, ParcelsOf
  <2>5. Expecting(s)' = Expecting(s)
    BY <1>1, <2>1, <2>2, <2>3, <2>4 DEF Expecting
  <2> QED
    BY <1>2, <2>1, <2>5 DEF PlaceAt
<1> QED
  BY <1>3 DEF Place

\* Nothing moves as a call begins.
LEMMA StepBegins ==
  ASSUME BleInv, NEW w \in Wallets, NEW v \in Wallets, NEW t, NEW amount, call = Idle,
         BeginTransfer(w, v, t, amount) \/ BeginSwap(w, v, t, amount)
  PROVE  Place' = Place
<1>1. UNCHANGED <<wallet, parcels, deposits>>
  BY DEF BeginTransfer, BeginSwap, walletVars
<1>2. /\ call' # Idle /\ \A u \in Wallets : call'.before[u] = TokensOf(u)
  <2>1. \E kind, owed, legs : call' = Started(kind, owed, legs)
    BY DEF BeginTransfer, BeginSwap
  <2> QED
    BY <1>1, <2>1, StartedFacts
<1>3. ASSUME NEW s \in Tokens PROVE PlaceAt(s)' = PlaceAt(s)
  <2>1. Holders(s)' = Holding(s) /\ Holders(s) = Holding(s)
    BY <1>2 DEF Holders, Holding, TokensOf
  <2>2. Due(s) = {q \in parcels : q.copy.id = s /\ <<s, q.nonce>> \notin wallet[q.copy.owner].nonces}
    BY DEF Due, ParcelsOf
  <2>3. Expecting(s) = {p.copy.owner : p \in Due(s)}
    BY <2>2 DEF Expecting
  <2>4. Expecting(s)' = IF Holding(s) # {} THEN {} ELSE {p.copy.owner : p \in Due(s)}
    BY <1>1, <1>2, <2>1, <2>2 DEF Expecting
  <2>5. Holding(s) # {} => Due(s) = {}
    BY DEF BleInv, OnePlace
  <2>6. Expecting(s)' = Expecting(s)
    BY <2>3, <2>4, <2>5
  <2> QED
    BY <1>1, <2>1, <2>6 DEF PlaceAt
<1> QED
  BY <1>3 DEF Place
\* Two tokens move when the others stay where they are.
LEMMA TwoMove ==
  ASSUME NEW t \in Tokens, NEW c \in Tokens, t # c, NEW end, NEW stop,
         PlaceAt(t)' = end, PlaceAt(c)' = stop,
         \A s \in Tokens : s # t /\ s # c => PlaceAt(s)' = PlaceAt(s)
  PROVE  Place' = [Place EXCEPT ![t] = end, ![c] = stop]
<1> DEFINE at == [s \in Tokens |-> PlaceAt(s)']
<1>1. Place' = at
  BY DEF Place
<1>2. Place = [s \in Tokens |-> PlaceAt(s)]
  BY DEF Place
<1> HIDE DEF Place
<1>3. at = [[s \in Tokens |-> PlaceAt(s)] EXCEPT ![t] = end, ![c] = stop]
  OBVIOUS
<1> QED
  BY <1>1, <1>2, <1>3

\* During a call the observer sees a token with the wallet that had it, and
\* a token that no wallet had where it is.
LEMMA PlaceInCall ==
  ASSUME OnePlace, CallInv, call # Idle, NEW s \in Tokens
  PROVE  /\ \A u \in Wallets : s \in call.before[u] /\ Deposits(s) = {} => PlaceAt(s) = With(u)
         /\ \A u \in Wallets : PlaceAt(s) = With(u) => s \in call.before[u]
         /\ (\A u \in Wallets : s \in call.before[u] <=> s \in TokensOf(u)) => PlaceAt(s) = RestAt(s)
<1>1. Holders(s) = {u \in Wallets : s \in call.before[u]}
  BY DEF Holders
<1>2. Due(s) = {q \in parcels : q.copy.id = s /\ <<s, q.nonce>> \notin wallet[q.copy.owner].nonces}
  BY DEF Due, ParcelsOf
<1>3. Expecting(s) = IF Holders(s) # {} THEN {} ELSE {p.copy.owner : p \in Due(s)}
  BY <1>2 DEF Expecting
<1>4. Deposits(s) = {e \in deposits : e.copy.id = s}
  BY DEF Deposits
<1>5. ASSUME NEW u \in Wallets, s \in call.before[u], Deposits(s) = {} PROVE PlaceAt(s) = With(u)
  <2>1. Holders(s) = {u}
    BY <1>1, <1>5 DEF CallInv
  <2>2. Expecting(s) = {}
    BY <1>3, <2>1
  <2> QED
    BY <1>4, <1>5, <2>1, <2>2 DEF PlaceAt, With
<1>6. ASSUME NEW u \in Wallets, PlaceAt(s) = With(u) PROVE s \in call.before[u]
  <2>1. <<"with", u>> \in PlaceAt(s)
    BY <1>6 DEF With
  <2>2. u \in Holders(s)
    BY <2>1 DEF PlaceAt
  <2> QED
    BY <1>1, <2>2
<1>7. ASSUME \A u \in Wallets : s \in call.before[u] <=> s \in TokensOf(u) PROVE PlaceAt(s) = RestAt(s)
  <2>1. Holders(s) = Holding(s)
    BY <1>1, <1>7 DEF Holding, TokensOf
  <2>2. Expecting(s) = {p.copy.owner : p \in Due(s)}
    BY <1>3, <2>1 DEF OnePlace
  <2> QED
    BY <1>4, <2>1, <2>2 DEF PlaceAt, RestAt
<1> QED
  BY <1>5, <1>6, <1>7

\* As a call returns, or its exception does, the observer sees one exchange,
\* or one transfer, or nothing.
LEMMA StepReturns ==
  ASSUME BleInv, Return
  PROVE  ChannelAsExchange!Next \/ Place' = Place
<1>1. /\ call # Idle /\ call' = Idle /\ UNCHANGED <<wallet, parcels, deposits>>
      /\ Typed /\ OnePlace /\ CallInv /\ RestFacts
  BY CallFacts, PlacesAlone DEF Return, Completed, walletVars, BleInv
<1>2. PICK t \in Tokens, C \in SUBSET Tokens :
        /\ Planned(t, C)
        /\ \/ NotStarted(t, C) \/ Paying(t, C) \/ Paid(t, C) \/ Changing(t, C) \/ Changed(t, C)
  BY <1>1 DEF CallInv
<1>3. PICK a \in Wallets, b \in Wallets : call.payer = a /\ call.payee = b /\ a # b /\ call.owed \in Amounts
  BY <1>1 DEF Typed, CallTyped, CallRecord
<1>4. \A s : PlaceAt(s)' = RestAt(s)
  <2>1. \A s : Holding(s)' = Holding(s) /\ Due(s)' = Due(s) /\ Deposits(s)' = Deposits(s)
    BY <1>1 DEF Holding, Due, ParcelsOf, Deposits
  <2>2. \A s : RestAt(s)' = RestAt(s)
    BY <2>1 DEF RestAt
  <2> QED
    BY <1>1, <2>2, PlaceAtRest
<1>5. /\ \A s \in Tokens : \A u \in Wallets : s \in call.before[u] /\ Deposits(s) = {} => PlaceAt(s) = With(u)
      /\ \A s \in Tokens : \A u \in Wallets : PlaceAt(s) = With(u) => s \in call.before[u]
      /\ \A s \in Tokens :
           (\A u \in Wallets : s \in call.before[u] <=> s \in TokensOf(u)) => PlaceAt(s)' = PlaceAt(s)
  BY <1>1, <1>4, PlaceInCall
<1>6. /\ \A s \in Tokens : \A u \in Wallets : s \in TokensOf(u) => RestAt(s) = With(u) /\ Deposits(s) = {}
      /\ \A s \in Tokens : \A p \in Due(s) : RestAt(s) = DueTo(p.copy.owner) /\ Deposits(s) = {}
  BY <1>1 DEF RestFacts, OnePlace, Holding, TokensOf
<1>7. \A s \in Tokens : Place[s] = PlaceAt(s) /\ Place'[s] = PlaceAt(s)'
  BY DEF Place
<1>8. CASE NotStarted(t, C)
  <2>1. \A s \in Tokens : PlaceAt(s)' = PlaceAt(s)
    BY <1>5, <1>8 DEF NotStarted, NowHas, TokensOf
  <2> QED
    BY <2>1 DEF Place
<1>9. ASSUME t \in call.before[a], NEW end \in {With(b), DueTo(b)}, RestAt(t) = end, Deposits(t) = {},
             \A s \in Tokens : s # t => \A u \in Wallets : s \in call.before[u] <=> s \in TokensOf(u)
      PROVE  ChannelAsExchange!Next
  <2>1. PlaceAt(t)' = end /\ \A s \in Tokens : s # t => PlaceAt(s)' = PlaceAt(s)
    BY <1>4, <1>5, <1>9
  <2>2. Moved(t, end) /\ Place[t] = With(a)
    BY <1>5, <1>7, <1>9, <2>1, OneMoves
  <2>3. Place' # Place
    BY <1>3, <1>7, <1>9, <2>1, <2>2, EndsDiffer
  <2>4. ChannelAsExchange!Transfer(t, a, b)
    BY <2>2, ExchangeSteps
  <2> QED
    BY <1>3, <2>3, <2>4 DEF Place, PlaceAt, ChannelAsExchange!Next
<1>10. CASE Paying(t, C)
  <2>1. PICK p \in Due(t) : p.copy.owner = b
    BY <1>3, <1>10 DEF Paying, UnderWay
  <2>2. RestAt(t) = DueTo(b) /\ Deposits(t) = {}
    BY <1>6, <2>1
  <2>3. /\ t \in call.before[a]
        /\ \A s \in Tokens : s # t => \A u \in Wallets : s \in call.before[u] <=> s \in TokensOf(u)
    BY <1>3, <1>10 DEF Paying, NowHas, TokensOf
  <2> QED
    BY <1>9, <2>2, <2>3
<1>11. CASE Paid(t, C)
  <2>1. /\ t \in call.before[a] /\ t \in TokensOf(b)
        /\ \A s \in Tokens : s # t => \A u \in Wallets : s \in call.before[u] <=> s \in TokensOf(u)
    BY <1>3, <1>11 DEF Paid, NowHas, TokensOf
  <2>2. RestAt(t) = With(b) /\ Deposits(t) = {}
    BY <1>6, <2>1
  <2> QED
    BY <1>9, <2>1, <2>2
<1>12. ASSUME t \in call.before[a], NEW c \in Tokens, C = {c}, t \in TokensOf(b),
              NEW end \in {With(a), DueTo(a)}, RestAt(c) = end, Deposits(c) = {},
              \A s \in Tokens : s # t /\ s # c => \A u \in Wallets : s \in call.before[u] <=> s \in TokensOf(u)
       PROVE  ChannelAsExchange!Next
  <2>1. /\ Value[t] > call.owed /\ c \in EnoughBefore(t)
        /\ \A d \in EnoughBefore(t) : Value[c] <= Value[d]
    BY <1>2, <1>12 DEF Planned
  <2>2. c \in call.before[b] /\ Value[c] >= Value[t] - call.owed
    BY <1>3, <2>1 DEF EnoughBefore
  <2>3. t # c
    BY <1>1, <1>3, <1>12, <2>2 DEF CallInv
  <2>4. PlaceAt(t) = With(a) /\ PlaceAt(c) = With(b) /\ PlaceAt(t)' = With(b) /\ PlaceAt(c)' = end
    BY <1>4, <1>5, <1>6, <1>12, <2>2
  <2>5. \A s \in Tokens : s # t /\ s # c => PlaceAt(s)' = PlaceAt(s)
    BY <1>5, <1>12
  <2>6. Place' = [Place EXCEPT ![t] = With(b), ![c] = end]
    BY <2>3, <2>4, <2>5, TwoMove
  <2>7. Place' # Place
    BY <1>3, <1>7, <2>4, EndsDiffer
  <2>8. \A d \in Tokens : Place[d] = With(b) /\ Value[d] >= Value[t] - call.owed => Value[c] <= Value[d]
    BY <1>3, <1>5, <1>7, <2>1 DEF EnoughBefore
  <2>9. IsChange(c, t, call.owed, a, b)
    BY <1>7, <2>1, <2>2, <2>4, <2>8 DEF IsChange
  <2>10. ChannelAsExchange!Swap(t, c, call.owed, a, b)
    BY <1>3, <2>6, <2>9, ExchangeSteps
  <2> QED
    BY <1>3, <2>7, <2>10 DEF Place, PlaceAt, ChannelAsExchange!Next
<1>13. CASE Changing(t, C)
  <2>1. PICK c \in C : C = {c} /\ c \in EnoughBefore(t)
    BY <1>2, <1>13 DEF Changing, Planned
  <2>2. c \in Tokens /\ c # t
    BY <1>1, <1>3, <1>13, <2>1 DEF CallInv, Changing, EnoughBefore
  <2>3. PICK p \in Due(c) : p.copy.owner = a
    BY <1>3, <1>13, <2>1 DEF Changing, UnderWay
  <2>4. RestAt(c) = DueTo(a) /\ Deposits(c) = {}
    BY <1>6, <2>2, <2>3
  <2>5. /\ t \in call.before[a] /\ t \in TokensOf(b)
        /\ \A s \in Tokens : s # t /\ s # c => \A u \in Wallets : s \in call.before[u] <=> s \in TokensOf(u)
    BY <1>3, <1>13, <2>1, <2>2 DEF Changing, NowHas, TokensOf
  <2> QED
    BY <1>12, <2>1, <2>2, <2>4, <2>5
<1>14. CASE Changed(t, C)
  <2>1. PICK c \in C : C = {c} /\ c \in EnoughBefore(t)
    BY <1>2, <1>14 DEF Changed, Planned
  <2>2. c \in Tokens /\ c # t
    BY <1>1, <1>3, <1>14, <2>1 DEF CallInv, Changed, EnoughBefore
  <2>3. /\ t \in call.before[a] /\ t \in TokensOf(b) /\ c \in TokensOf(a)
        /\ \A s \in Tokens : s # t /\ s # c => \A u \in Wallets : s \in call.before[u] <=> s \in TokensOf(u)
    BY <1>3, <1>14, <2>1, <2>2 DEF Changed, NowHas, TokensOf
  <2>4. RestAt(c) = With(a) /\ Deposits(c) = {}
    BY <1>6, <2>2, <2>3
  <2> QED
    BY <1>12, <2>1, <2>2, <2>3, <2>4
<1> QED
  BY <1>2, <1>8, <1>10, <1>11, <1>13, <1>14

\* Every step is a step of Exchange, or none.
LEMMA ExchangeStep ==
  ASSUME BleInv, RestFacts', [Next]_vars
  PROVE  ChannelAsExchange!Next \/ Place' = Place
<1>1. CASE call = Idle /\ call' = Idle
  BY <1>1, StepAtRest
<1>2. CASE Send \/ Receive
  BY <1>2, StepInCall
<1>3. CASE Return
  BY <1>3, StepReturns
<1>4. ASSUME NEW w \in Wallets, NEW v \in Wallets, NEW t, NEW amount,
             BeginTransfer(w, v, t, amount) \/ BeginSwap(w, v, t, amount)
      PROVE  Place' = Place
  <2>1. call = Idle
    BY <1>4 DEF BeginTransfer, BeginSwap
  <2> QED
    BY <1>4, <2>1, StepBegins
<1>5. CASE PassTime \/ UNCHANGED vars
  <2>1. UNCHANGED <<call, wallet, parcels, deposits>>
    BY <1>5 DEF PassTime, vars, walletVars
  <2>2. \A s : PlaceAt(s)' = PlaceAt(s)
    BY <2>1 DEF PlaceAt, Holders, Expecting
  <2> QED
    BY <2>2 DEF Place
<1>6. ASSUME \/ \E w \in Wallets, t \in Tokens : Mint(w, t)
             \/ \E w \in Wallets, p \in parcels : ReceiveAgain(w, p)
             \/ \E w \in Wallets : \E c \in wallet[w].unspent : Deposit(w, c) \/ SubmitKept(w, c)
             \/ \E d \in deposits : SubmitDeposit(d)
      PROVE  call = Idle /\ call' = Idle
  BY <1>6 DEF Mint, ReceiveAgain, Deposit, SubmitKept, SubmitDeposit
<1> QED
  BY <1>1, <1>2, <1>3, <1>4, <1>5, <1>6 DEF Next

\* To an observer of the wallets between two calls, whatever a transfer or a
\* swap does, and wherever it raises, is one transfer, one exchange for the
\* smallest change that is enough, a token on its way to a wallet that may
\* still take it in, or nothing (dpc_poc/dpc/ble_sim.py:70-125).
THEOREM CallsAreExchanges == Spec => ImplementsExchange
<1>1. BleInv => RestFacts
  BY PlacesAlone DEF BleInv
<1>2. Init => ChannelAsExchange!Init
  <2> SUFFICES ASSUME Init PROVE ChannelAsExchange!Init
    OBVIOUS
  <2>1. \A t \in Tokens : Holders(t) = {} /\ Expecting(t) = {}
    BY DEF Init, Holders, Expecting, EmptyState, Ids
  <2>2. deposits = {}
    BY DEF Init
  <2>3. \A t \in Tokens : PlaceAt(t) = {}
    BY <2>1, <2>2 DEF PlaceAt
  <2>4. Place = [t \in Tokens |-> {}]
    BY <2>3 DEF Place
  <2> QED
    BY <2>4 DEF Place, PlaceAt, ChannelAsExchange!Init
<1>3. BleInv /\ RestFacts' /\ [Next]_vars => [ChannelAsExchange!Next]_Place
  BY ExchangeStep
<1> QED
  BY <1>1, <1>2, <1>3, Invariance, PTL DEF Spec, ImplementsExchange, ChannelAsExchange!Spec, Place, PlaceAt
=============================================================================
