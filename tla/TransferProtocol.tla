-------------------------- MODULE TransferProtocol --------------------------
(***************************************************************************)
(* The two-phase transfer of protocol/transfer_protocol.py: a session is   *)
(* opened, the sender's wallet spends a token and leaves the payload in    *)
(* the channel, the receiver's wallet takes it in.  transfer_over_channel  *)
(* makes the three calls one after the other and undoes nothing when one   *)
(* of them fails; the channel keeps its payloads, so that a payload can be *)
(* received again, and later.                                              *)
(***************************************************************************)
EXTENDS Wallet

CONSTANTS Sessions,     \* the session ids uuid4 returns
          ChainBound    \* bound of the model: longest chain of a copy

ASSUME TransferAssumption == ChainBound \in Nat

VARIABLES utr,           \* utr[w]: the copies wallet w can spend
          str,           \* str[w]: the copies wallet w has spent
          discoveries,   \* _discoveries: open sessions with their two wallets
          payloads       \* _payloads: the last payload of each session

channelVars == <<discoveries, payloads>>

NoEntries == [s \in {} |-> 0]

\* dict[key] = value
Set(dict, key, value) ==
  [k \in DOMAIN dict \cup {key} |-> IF k = key THEN value ELSE dict[k]]

ChannelInit == discoveries = NoEntries /\ payloads = NoEntries

Room(w) == \A c \in utr[w] : Len(c.chain) < ChainBound
-----------------------------------------------------------------------------
\* Channel.open_session: a fresh session id for two wallets.
OpenSession(sender, receiver) ==
  /\ \E s \in Sessions \ DOMAIN discoveries :
       discoveries' = Set(discoveries, s, [sender |-> sender, receiver |-> receiver])
  /\ UNCHANGED <<utr, str, payloads>>

\* Lines 88-90 of transfer_over_channel: Wallet.send_token spends one token
\* (the first in the order of the ids, which is left open), then
\* send_transfer_payload stores its payload, replacing the one the session
\* had; a nonce that is not positive makes it raise, the token already spent.
SendOverSession(s, nonce) ==
  LET w == discoveries[s].sender
  IN /\ s \in DOMAIN discoveries
     /\ w \in Signers
     /\ Room(w)
     /\ \E c \in utr[w] :
          LET sent == AppendTransfer(c, discoveries[s].receiver)
          IN /\ utr' = [utr EXCEPT ![w] = Pop(@, {c.id})]
             /\ str' = [str EXCEPT ![w] = Put(@, {sent})]
             /\ payloads' = IF nonce > 0 THEN Set(payloads, s, sent) ELSE payloads
     /\ UNCHANGED discoveries

\* Wallet.receive_token: a copy that is turned down leaves the registers as
\* they were.
ReceiveToken(w, c) ==
  /\ utr' = [utr EXCEPT ![w] = IF Accepts(w, str[w], c) THEN Put(@, {c}) ELSE @]
  /\ UNCHANGED str

\* Lines 91-92: the receiver of the session takes its payload in, for the
\* first time or again.
ReceiveOverSession(s) ==
  /\ s \in DOMAIN payloads
  /\ ReceiveToken(discoveries[s].receiver, payloads[s])
  /\ UNCHANGED channelVars

\* A payload damaged on the way, so that it names wallet w as its owner
\* (tests/test_wallet_flow.py:74-77), is taken in by w.
ReceiveDamaged(s, w) ==
  /\ s \in DOMAIN payloads
  /\ w # payloads[s].owner
  /\ ReceiveToken(w, [payloads[s] EXCEPT !.owner = w])
  /\ UNCHANGED channelVars

\* Wallet.send_tokens called with a list in which a token the wallet no
\* longer has follows the tokens T: T is spent, the call raises, and its
\* payloads are lost with it (lines 78-85).
SendTokensRaises(w, receiver, T) ==
  /\ w \in Signers
  /\ Room(w)
  /\ utr' = [utr EXCEPT ![w] = Pop(@, T)]
  /\ str' = [str EXCEPT ![w] = Put(@, SentCopies(utr[w], T, receiver))]
  /\ UNCHANGED channelVars

TransferNext ==
  \/ \E sender, receiver \in Wallets : OpenSession(sender, receiver)
  \/ \E s \in Sessions, nonce \in {0, 1} : SendOverSession(s, nonce)
  \/ \E s \in Sessions : ReceiveOverSession(s)
  \/ \E s \in Sessions, w \in Wallets : ReceiveDamaged(s, w)
  \/ \E w, receiver \in Wallets : \E T \in (SUBSET Ids(utr[w])) \ {{}} :
       SendTokensRaises(w, receiver, T)
=============================================================================
