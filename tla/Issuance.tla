------------------------------ MODULE Issuance ------------------------------
(***************************************************************************)
(* The issuer of the offline prototype (issuer/issuer.py), the clock that  *)
(* its tokens are dated by and the two ways the code tells that a token    *)
(* has expired (protocol/policy.py).  Time is counted in fractions of a    *)
(* second: created_at keeps them, issue_timestamp is cut to whole seconds. *)
(***************************************************************************)
EXTENDS Selection, SequencesExt

CONSTANTS Wallets,          \* the wallets, each named by its public key
          Tokens,           \* the token ids uuid4 returns
          Value,            \* the value a token of this id is minted with
          ExpirySeconds,    \* PolicyConfig.TOKEN_EXPIRY_SECONDS
          MaxHops,          \* PolicyConfig.MAX_HOPS
          TicksPerSecond,   \* resolution of the clock
          MaxTime           \* bound of the model: the last tick

ASSUME IssuanceAssumption ==
  /\ Value \in [Tokens -> Nat]
  /\ ExpirySeconds \in Nat /\ MaxHops \in Nat
  /\ TicksPerSecond \in Nat \ {0}
  /\ MaxTime \in Nat

VARIABLES now,      \* the clock, in ticks
          minted,   \* issued_tokens: each token's first owner and issue time
          vault     \* minted copies no wallet has taken in yet

issuanceVars == <<now, minted, vault>>

IssuanceInit ==
  /\ now = 0
  /\ minted = [t \in {} |-> 0]
  /\ vault = {}

Issued == DOMAIN minted
Lifetime == ExpirySeconds * TicksPerSecond
Second(tick) == tick \div TicksPerSecond

\* int(now) - issue_timestamp > TOKEN_EXPIRY_SECONDS, at a given tick.
ExpiredAt(t, tick) == Second(tick) - Second(minted[t].at) > ExpirySeconds

\* not is_not_expired(created_at, TOKEN_EXPIRY_SECONDS).
TooOld(t) == now - minted[t].at > Lifetime

Tick == now < MaxTime /\ now' = now + 1

\* Issuer.mint_token, once for each value in a list: fresh tokens of these
\* values for the owner, in the issuer's register and in the caller's hands.
Mint(owner, fresh) ==
  /\ fresh \cap Issued = {}
  /\ minted' = [t \in Issued \cup fresh |->
                  IF t \in fresh THEN [owner |-> owner, at |-> now] ELSE minted[t]]
  /\ vault' = vault \cup fresh
=============================================================================
