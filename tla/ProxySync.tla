----------------------------- MODULE ProxySync -----------------------------
(***************************************************************************)
(* Heartbeats of the offline prototype: a wallet signs a list of its       *)
(* tokens (protocol/proxy_sync.py), a peer that is online relays it, and   *)
(* the server renews those tokens (issuer/reconciliation_server.py).  A    *)
(* heartbeat with a signature that does not fit changes nothing, so that   *)
(* the heartbeats here are the signed ones.                                *)
(***************************************************************************)
EXTENDS Issuance

VARIABLES heartbeats,   \* the heartbeats wallets have signed
          lastSync      \* last_sync: when a token was last renewed

syncVars == <<heartbeats, lastSync>>

SyncInit ==
  /\ heartbeats = {}
  /\ lastSync = [t \in {} |-> 0]

CreateHeartbeat(w, tokens) ==
  /\ heartbeats' = heartbeats \cup {[wallet |-> w, tokens |-> tokens, at |-> now]}
  /\ UNCHANGED lastSync

\* now - hb.timestamp > TOKEN_EXPIRY_SECONDS.
Stale(hb) == now - hb.at > Lifetime

\* The tokens of the list that were issued to the wallet, wherever they are.
Renewed(hb) == {t \in hb.tokens \cap Issued : minted[t].owner = hb.wallet}

\* apply_sync_heartbeat.
ApplySyncHeartbeat(hb) ==
  /\ ~Stale(hb)
  /\ lastSync' = [t \in DOMAIN lastSync \cup Renewed(hb) |->
                    IF t \in Renewed(hb) THEN now ELSE lastSync[t]]

\* relay_heartbeat, for the first time or again: the age is looked at here
\* and again by the server.
RelayHeartbeat(hb) ==
  /\ ~Stale(hb)
  /\ ApplySyncHeartbeat(hb)
  /\ UNCHANGED heartbeats

\* is_token_expired, with at_time at a given tick.
IsTokenExpired(t, tick) ==
  \/ t \notin Issued
  \/ Second(tick) - Second(IF t \in DOMAIN lastSync THEN lastSync[t] ELSE minted[t].at) > ExpirySeconds
=============================================================================
