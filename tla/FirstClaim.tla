----------------------------- MODULE FirstClaim -----------------------------
(***************************************************************************)
(* What reconciliation promises (docs/system_revision.md:82): the first    *)
(* valid claim on a token settles it, at a time the token had not expired, *)
(* and no later claim changes that.                                        *)
(***************************************************************************)
EXTENDS Integers

CONSTANTS Tokens,   \* the token ids
          Times,    \* settlement times
          Expiry    \* the last time each token can be settled at

VARIABLE settled    \* settled[t]: when token t was settled

Init == settled = [t \in {} |-> 0]

Claim(t, at) ==
  /\ t \notin DOMAIN settled
  /\ at <= Expiry[t]
  /\ settled' = [u \in DOMAIN settled \cup {t} |-> IF u = t THEN at ELSE settled[u]]

Next == \E t \in Tokens, at \in Times : Claim(t, at)

Spec == Init /\ [][Next]_settled
=============================================================================
