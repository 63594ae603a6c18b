---------------------------- MODULE WalletLemmas ----------------------------
(***************************************************************************)
(* Facts about the register operators of Wallet, cited by the proofs about *)
(* the modules that run them.                                              *)
(***************************************************************************)
EXTENDS Wallet, TLAPS

\* append_transfer keeps the id, names the receiver as the owner and ends the
\* chain at it.
LEMMA AppendTransferFacts ==
  ASSUME NEW c \in Copy, NEW r \in Wallets
  PROVE  /\ AppendTransfer(c, r) \in Copy
         /\ AppendTransfer(c, r).id = c.id
         /\ AppendTransfer(c, r).owner = r
         /\ Len(AppendTransfer(c, r).chain) > 0
         /\ AppendTransfer(c, r).chain[Len(AppendTransfer(c, r).chain)].to = r
<1> DEFINE hop == [from |-> c.owner, to |-> r]
<1>1. hop \in Transfer /\ c.chain \in Seq(Transfer)
  BY DEF Copy, Transfer
<1>2. AppendTransfer(c, r) = [id |-> c.id, owner |-> r, chain |-> Append(c.chain, hop)]
  BY DEF AppendTransfer
<1>3. /\ Append(c.chain, hop) \in Seq(Transfer)
      /\ Len(Append(c.chain, hop)) = Len(c.chain) + 1
      /\ Append(c.chain, hop)[Len(c.chain) + 1] = hop
      /\ Len(c.chain) \in Nat
  BY <1>1
<1> QED
  BY <1>1, <1>2, <1>3 DEF Copy

\* What popping and putting do to the ids of a register.
LEMMA PopFacts ==
  ASSUME NEW reg \in Register, NEW T
  PROVE  Pop(reg, T) \in Register /\ Ids(Pop(reg, T)) = Ids(reg) \ T
BY DEF Pop, Ids, Register

\* _add_token (wallet/wallet.py:143): the copy put in is there, and every
\* other token has the copies it had.
LEMMA PutFacts ==
  ASSUME NEW reg \in Register, NEW S \in Register
  PROVE  Put(reg, S) \in Register /\ Ids(Put(reg, S)) = Ids(reg) \cup Ids(S)
<1>1. Pop(reg, Ids(S)) \in Register /\ Ids(Pop(reg, Ids(S))) = Ids(reg) \ Ids(S)
  BY PopFacts
<1>2. (\A c \in Pop(reg, Ids(S)) : c.id \notin Ids(S)) /\ (\A c \in S : c.id \in Ids(S))
  BY DEF Pop, Ids
<1>3. Put(reg, S) \in Register
  BY <1>1, <1>2 DEF Put, Register
<1>4. Ids(Put(reg, S)) = Ids(Pop(reg, Ids(S))) \cup Ids(S)
  BY DEF Put, Ids
<1> QED
  BY <1>1, <1>3, <1>4

\* What send_tokens signs over is a register of the ids that were there.
LEMMA SentFacts ==
  ASSUME NEW reg \in Register, NEW T, NEW r \in Wallets
  PROVE  /\ SentCopies(reg, T, r) \in Register
         /\ Ids(SentCopies(reg, T, r)) = Ids(reg) \cap T
<1>1. \A c \in reg : AppendTransfer(c, r) \in Copy /\ AppendTransfer(c, r).id = c.id
  BY AppendTransferFacts DEF Register
<1>2. SentCopies(reg, T, r) \in Register
  BY <1>1 DEF SentCopies, PickIds, Register
<1> QED
  BY <1>1, <1>2 DEF SentCopies, PickIds, Ids

\* One copy is a register.
LEMMA SingletonFacts ==
  ASSUME NEW c \in Copy
  PROVE  {c} \in Register /\ Ids({c}) = {c.id}
BY DEF Register, Ids

\* Putting nothing changes no register, and neither does taking nothing.
LEMMA NothingFacts ==
  ASSUME NEW reg, NEW r
  PROVE  Pop(reg, {}) = reg /\ Put(reg, {}) = reg /\ SentCopies(reg, {}, r) = {}
BY DEF Pop, Put, Ids, SentCopies, PickIds

\* Copies of different tokens may be put one after the other.
LEMMA PutOneMore ==
  ASSUME NEW reg, NEW S \in Register, NEW D \in SUBSET S, NEW c \in S \ D
  PROVE  Put(Put(reg, D), {c}) = Put(reg, D \cup {c})
<1>1. \A d \in D : d.id # c.id
  BY DEF Register
<1>2. Ids({c}) = {c.id} /\ Ids(D \cup {c}) = Ids(D) \cup {c.id}
  BY DEF Ids
<1>3. Pop(Put(reg, D), {c.id}) = Pop(reg, Ids(D) \cup {c.id}) \cup D
  BY <1>1 DEF Put, Pop
<1> QED
  BY <1>2, <1>3 DEF Put

\* A part of a register is a register, and of the ids of the whole each is in
\* one of two parts.
LEMMA PartFacts ==
  ASSUME NEW S \in Register, NEW D \in SUBSET S
  PROVE  /\ D \in Register /\ S \ D \in Register
         /\ Ids(S) = Ids(D) \cup Ids(S \ D) /\ Ids(D) \cap Ids(S \ D) = {}
BY DEF Register, Ids

\* What was put into a register does not matter to taking other tokens out of
\* it, nor to sending them.
LEMMA PutThenSendOthers ==
  ASSUME NEW reg, NEW S, NEW T, NEW r, Ids(S) \cap T = {}
  PROVE  /\ Pop(Put(reg, S), T) = Put(Pop(reg, T), S)
         /\ SentCopies(Put(reg, S), T, r) = SentCopies(reg, T, r)
<1>1. \A c \in S : c.id \in Ids(S) /\ c.id \notin T
  BY DEF Ids
<1>2. Pop(Put(reg, S), T) = Put(Pop(reg, T), S)
  BY <1>1 DEF Pop, Put
<1>3. PickIds(Put(reg, S), T) = PickIds(reg, T)
  BY <1>1 DEF Pop, Put, PickIds
<1> QED
  BY <1>2, <1>3 DEF SentCopies
=============================================================================
