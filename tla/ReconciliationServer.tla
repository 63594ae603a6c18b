------------------------ MODULE ReconciliationServer ------------------------
(***************************************************************************)
(* The settlement side of the offline prototype                            *)
(* (issuer/reconciliation_server.py): bundles are settled transfer by      *)
(* transfer, lost wallets are revoked, and what they had been issued and   *)
(* nobody else has claimed is issued again to a new key.                   *)
(***************************************************************************)
EXTENDS Issuance

VARIABLES settled,    \* the transfer that settled a token, and when: ledger,
                      \* accepted_chains, accepted_transfers and
                      \* accepted_transfer_times, written together
          revoked,    \* revoked_wallets: time of the last revocation
          recovered,  \* recovery_reissued: pairs of old and new wallet
          reissues    \* history variable: which token was issued again, to
                      \* whom, when, and after which revocation

serverVars == <<settled, revoked, recovered, reissues>>

ServerInit ==
  /\ settled = [t \in {} |-> 0]
  /\ revoked = [w \in {} |-> 0]
  /\ recovered = {}
  /\ reissues = {}

\* dict[key] = value
Set(dict, key, value) ==
  [k \in DOMAIN dict \cup {key} |-> IF k = key THEN value ELSE dict[k]]
-----------------------------------------------------------------------------
(* Settlement *)

\* The checks of process_bundle that look at the transfer alone.
WellFormed(p) ==
  /\ p.copy.id \in Issued
  /\ p.transfer.hop <= MaxHops /\ p.transfer.nonce <= MaxHops
  /\ p.transfer.parent = p.copy.chain

\* Mutant of Settles: the expiry is not looked at.
SettlesExpired(ledger, p) ==
  /\ WellFormed(p)
  /\ p.copy.id \notin DOMAIN ledger
  /\ p.transfer.from \in DOMAIN revoked => p.transfer.at < revoked[p.transfer.from]

\* The verdict ACCEPTED.  A token already settled is a DOUBLE_SPEND, for the
\* same chain (TOKEN_ALREADY_SETTLED) as for another (CONFLICTING_CHAIN).
Settles(ledger, p) ==
  /\ WellFormed(p)
  /\ p.copy.id \notin DOMAIN ledger
  /\ p.transfer.from \in DOMAIN revoked => p.transfer.at < revoked[p.transfer.from]
  /\ ~ExpiredAt(p.copy.id, now)

\* process_bundle: the transfers one after the other, each settled or not.
\* Where none would settle only the verdicts are returned.
ProcessBundle(bundle) ==
  /\ \E i \in DOMAIN bundle : Settles(settled, bundle[i])
  /\ settled' = FoldLeft(LAMBDA ledger, p : IF Settles(ledger, p)
                                              THEN Set(ledger, p.copy.id, [transfer |-> p.transfer, at |-> now])
                                              ELSE ledger,
                         settled, bundle)
  /\ UNCHANGED <<revoked, recovered, reissues>>
-----------------------------------------------------------------------------
(* Revocation and recovery *)

\* RecoveryEngine.revoke_wallet, also of a wallet revoked before, whose first
\* report is forgotten.
RevokeWallet(w) ==
  /\ revoked' = Set(revoked, w, now)
  /\ UNCHANGED <<settled, recovered, reissues>>

\* RecoveryEngine.wait_elapsed.
WaitElapsed(w) == w \in DOMAIN revoked /\ now - revoked[w] > Lifetime

\* Claims accepted later than this do not count against a revoked wallet.
ClaimCutoff(w) == IF revoked[w] + Lifetime < now THEN revoked[w] + Lifetime ELSE now

\* externally_deposited_token_ids: the token was settled for another wallet.
ClaimedFrom(w, t) ==
  /\ t \in DOMAIN settled
  /\ settled[t].transfer.to # w
  /\ settled[t].at <= ClaimCutoff(w)

\* reconstruct_recovery: what was issued to w, never mind where it is now,
\* less what others have claimed of it.
SafeTokens(w) == {t \in Issued : minted[t].owner = w /\ ~ClaimedFrom(w, t)}

\* reissue_recovered_balance, for a pair of wallets not served before: each
\* safe token is minted anew, with another id, for the new wallet.
Reissue(w, new) ==
  /\ WaitElapsed(w)
  /\ <<w, new>> \notin recovered
  /\ \E fresh \in [SafeTokens(w) -> Tokens \ Issued] :
       /\ IsInjective(fresh)
       /\ \A t \in SafeTokens(w) : Value[fresh[t]] = Value[t]
       /\ Mint(new, Range(fresh))
  /\ recovered' = recovered \cup {<<w, new>>}
  /\ reissues' = reissues \cup {[token |-> t, to |-> new, at |-> now, since |-> revoked[w]] :
                                  t \in SafeTokens(w)}
  /\ UNCHANGED <<settled, revoked>>
=============================================================================
