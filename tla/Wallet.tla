------------------------------- MODULE Wallet -------------------------------
(***************************************************************************)
(* The token copies of digital_token/token_model.py and the two registers  *)
(* of wallet/wallet.py, with the wallet's operations as operators on the   *)
(* registers.  PaymentSession, TransferProtocol and CashSystem run them.   *)
(*                                                                         *)
(* A copy of a token is [id, owner, chain]: the chain is the sequence of   *)
(* its transfers, each [from, to].  The nonce, the parent id and the hash  *)
(* of a transfer are its position in the chain; signatures are those of    *)
(* the wallet that appended the transfer, so a copy that is not damaged    *)
(* verifies.  A register is a set of copies with at most one per token id, *)
(* the dict `utr` or `str` of the code.                                    *)
(***************************************************************************)
EXTENDS Integers, Sequences, Selection

CONSTANTS Wallets,    \* the wallets, each named by its owner_pk
          Tokens,     \* the token ids the issuer minted
          Value,      \* the denomination of each token
          IssuedTo,   \* the owner_pk the issuer signed into each token
          Signers     \* the wallets whose private key the keystore resolves

ASSUME WalletAssumption ==
  /\ Value \in [Tokens -> Nat]
  /\ IssuedTo \in [Tokens -> Wallets]
  /\ Signers \subseteq Wallets
  /\ IsFiniteSet(Tokens)

Transfer == [from : Wallets, to : Wallets]
Copy == [id : Tokens, owner : Wallets, chain : Seq(Transfer)]
-----------------------------------------------------------------------------
(* Copies of a token *)

\* A token as the issuer minted it.
Issued(t) == [id |-> t, owner |-> IssuedTo[t], chain |-> <<>>]

\* Token.append_transfer: the owner signs the token over to the receiver.
AppendTransfer(c, receiver) ==
  [id |-> c.id, owner |-> receiver,
   chain |-> Append(c.chain, [from |-> c.owner, to |-> receiver])]

\* Mutant of ValidChain: the last receiver is not compared with the owner.
ValidChainOfAnyOwner(c) ==
  /\ IF c.chain = <<>> THEN c.owner = IssuedTo[c.id] ELSE c.chain[1].from = IssuedTo[c.id]
  /\ \A k \in 2..Len(c.chain) : c.chain[k].from = c.chain[k-1].to

\* Token.validate_chain: the issuer signed the first owner, each transfer
\* starts at the holder the one before it ended at, and the last one ends at
\* the owner the copy names.
ValidChain(c) ==
  LET n == Len(c.chain)
      issuedOwner == IF n = 0 THEN c.owner ELSE c.chain[1].from
  IN /\ issuedOwner = IssuedTo[c.id]
     /\ \A k \in 2..n : c.chain[k].from = c.chain[k-1].to
     /\ n > 0 => c.chain[n].to = c.owner
-----------------------------------------------------------------------------
(* Registers: sets of copies, with at most one copy of a token *)

Register == {reg \in SUBSET Copy : \A c, d \in reg : c.id = d.id => c = d}

Ids(reg) == {c.id : c \in reg}
PickIds(reg, T) == {c \in reg : c.id \in T}

\* Mutant of Pop: a copy stays in the register it is taken from.
PopNothing(reg, T) == reg

Pop(reg, T) == {c \in reg : c.id \notin T}
Put(reg, S) == Pop(reg, Ids(S)) \cup S

\* The spendable registers once add_token (lines 45-51) has put the issued
\* tokens of the set `loaded` into the wallets they were issued to.
LoadedRegisters(loaded) ==
  [w \in Wallets |-> {Issued(t) : t \in {u \in loaded : IssuedTo[u] = w}}]

ValueOf(S) == Worth(Value, Ids(S))

\* Wallet.select_tokens, as the sets of ids it may return.
Selected(reg, amount) == SelectTokens(Value, Ids(reg), amount)

\* What Wallet.send_tokens signs over to the receiver: the copies of the ids
\* T in the register, each with one more transfer.
SentCopies(reg, T, receiver) == {AppendTransfer(c, receiver) : c \in PickIds(reg, T)}

\* Mutant of Accepts: the spent register is not looked at.
AcceptsSpent(w, spent, c) == c.owner = w /\ ValidChain(c)

\* The checks of Wallet.receive_token of wallet w, whose spent register is
\* spent: the owner named, the chain, and that w has not spent the token.
Accepts(w, spent, c) ==
  /\ c.owner = w
  /\ ValidChain(c)
  /\ c.id \notin Ids(spent)
=============================================================================
