--------------------------- MODULE Reconciliation ---------------------------
(***************************************************************************)
(* ReconciliationEngine (issuer/reconciliation.py): settlement of tokens   *)
(* submitted one at a time.  The engine keeps the ids it accepted with the *)
(* time of the submission; the time is the caller's, so it need not grow   *)
(* from one call to the next.                                              *)
(***************************************************************************)
EXTENDS Wallet

CONSTANTS Times,     \* submission times
          Expiry,    \* the expiry the issuer signed into each token
          MaxHops    \* the longest chain that is settled: 7 in the code

ASSUME ReconciliationAssumption ==
  /\ Times \subseteq Nat
  /\ Expiry \in [Tokens -> Nat]
  /\ MaxHops \in Nat

VARIABLE accepted    \* _accepted_by_token_id: token id to acceptance time

EngineInit == accepted = [t \in {} |-> 0]

Settled == DOMAIN accepted

\* Mutant of Reason: the accepted ids are not looked up.
ReasonWithoutLookup(c, at) ==
  CASE ~ValidChain(c) -> "INVALID_CHAIN"
    [] ValidChain(c) /\ Expiry[c.id] < at -> "EXPIRED"
    [] ValidChain(c) /\ Expiry[c.id] >= at /\ Len(c.chain) > MaxHops -> "MAX_HOPS_EXCEEDED"
    [] OTHER -> "OK"

\* The reason submit returns, its checks in their order.
Reason(c, at) ==
  CASE ~ValidChain(c) -> "INVALID_CHAIN"
    [] ValidChain(c) /\ Expiry[c.id] < at -> "EXPIRED"
    [] ValidChain(c) /\ Expiry[c.id] >= at /\ Len(c.chain) > MaxHops -> "MAX_HOPS_EXCEEDED"
    [] ValidChain(c) /\ Expiry[c.id] >= at /\ Len(c.chain) <= MaxHops /\ c.id \in Settled ->
         "DUPLICATE_TOKEN_ID"
    [] OTHER -> "OK"

\* Only an accepted submission changes the engine.
Submit(c, at) ==
  /\ Reason(c, at) = "OK"
  /\ accepted' = [t \in Settled \cup {c.id} |-> IF t = c.id THEN at ELSE accepted[t]]
=============================================================================
