# A TLA+ development for Digital Pocket Cash

This directory specifies the offline cash protocols of the repository in TLA+,
model-checks them with TLC and proves with TLAPS the safety properties that
hold of all four stacks (below). `PROJECT.json` is the machine-readable index:
components, runs, mutants, the map from definitions to source lines, findings, hazards and theorems.

## The system

The repository holds several stacks for the same idea, digital tokens that
change hands without the issuer being reachable. They do not share code, and
are listed here from the most to the least central.

### 1. The canonical stack (`docs/system_revision.md`)

| component | state | operations |
|---|---|---|
| token, chain (`digital_token/token_model.py`, `transfer_chain.py`) | issued fields, owner, list of transfer records | `append_transfer`, `validate_chain` |
| wallet (`wallet/wallet.py`) | `utr` (spendable), `str` (spent), dicts by token id | `add_token`, `select_tokens`, `send_token(s)`, `initiate_payment`, `process_payment`, `receive_token`, `sync` |
| payment session (`protocol/payment_session.py`, `cash_payment.py`) | locals of one synchronous call | `execute`: pay, receive, return change, roll back on an exception |
| channel (`protocol/transfer_protocol.py`) | open sessions, last payload of each | `open_session`, `send_transfer_payload`, `receive_transfer_payload`, `transfer_over_channel` |
| reconciliation engine (`issuer/reconciliation.py`) | accepted ids with their times | `submit` |

Wallets call each other's methods with serialised tokens, the session and the
channel are the callers, and the engine sees whatever copy a wallet submits.
Nothing runs in parallel inside one process, but the operations of different
wallets, sessions, the engine and `sync` come in any order, a channel keeps its
payloads, and several steps of one operation can fail separately. What makes
the stack correct: an unsettled token can be spent by one wallet, no wallet
spends it twice, a payment happens altogether or not at all, a payment never
costs more than its price, and each token is settled once.

### 2. The offline CBDC prototype (`main_demo.py`, `tests/test_offline_cbdc_poc.py`)

| component | state | operations |
|---|---|---|
| issuer (`issuer/issuer.py`) | `issued_tokens` | `mint_token` |
| wallet (`wallet/offline_wallet.py`, `digital_token/poc_models.py`, `protocol/policy.py`) | `utr`, `str`, `processed_transfer_ids`, `sync_required` | `receive_token`, `create_payment`, `verify_transfer`, `apply_transfer`, `receive_bundle` |
| reconciliation server (`issuer/reconciliation_server.py`) | ledger, accepted chains and times, revocations, reissues, `last_sync` | `process_bundle`, `revoke_wallet`, `reconstruct_recovery`, `reissue_recovered_balance`, `apply_sync_heartbeat`, `is_token_expired` |
| network simulator (`protocol/network_simulator.py`) | none | `send_bundle`, `simulate_proxy_sync` |
| proxy sync (`protocol/proxy_sync.py`) | heartbeats in the hands of peers | `create_heartbeat`, `verify_heartbeat`, `relay_heartbeat` |

A payment is a bundle of transfers; a bundle is an object the payer gives to
whoever asks: the payee, again the payee, another wallet, the server, or
nobody. All time checks are against the local clock, in whole seconds at some
places and in fractions at others. A heartbeat is a signed list of tokens that
a peer relays to the server, at once, later or again. What makes it correct:
caps hold, replays are refused, honest wallets never fork a chain, payer and
payee agree on what can be spent, a heartbeat keeps no token alive for ever,
and a recovery pays out no more than what is safe.

### 3. The `dpc` package (`dpc/run_tests.py`)

| component | state | operations |
|---|---|---|
| wallet (`dpc/wallet.py`, `dpc/token_model.py`) | register of receipts, spent ids, seen nonces; the file it was saved to | `receive_token`, `send_token`, `swap_change`, `save`, `load` |
| ledger (`dpc/reconciliation_engine.py`) | minted and settled tokens, blacklist, pending conflicts; its file | `mint_token`, `settle_token`, `proxy_sync`, `save`, `load` |
| session simulator (`dpc/ble_session_simulator.py`) | session key | `simulate_transfer` |

Wallets pass on a token with its whole chain as return values; whoever has
them may call `receive_token` or `settle_token` with them, once, later, again
or never. Hard: restarts from an old file, an owner that comes back into the
history, a refusal after the receipt was marked spent, a batch that stops at
its first error. What makes it correct: a replay brings no token back, a
refusal loses nothing, the hop limit bounds every stretch between two returns,
and nobody is blacklisted for claiming again.

### 4. The `dpc_poc` package (`dpc_poc/tests`)

| component | state | operations |
|---|---|---|
| wallet (`dpc/wallet.py`, `dpc/transfer.py`) | unspent tokens, nonces | `issue_token`, `send_token`, `receive_token`, `get_token_for_swap`, `deposit_to_issuer`, `get_sync_heartbeat` |
| channel (`dpc/ble_sim.py`) | session key | `execute_transfer`, `execute_swap` |
| ledger (`dpc/reconciliation.py`) | registry, flagged keys, audit log | `submit_token`, `submit_batch` |
| proxy sync (`dpc/proxy_sync.py`) | time of each wallet's last sync | `relay_heartbeat`, `is_token_valid` |

The channel calls both wallets, one transfer is a send and a receipt of which
the second can fail, and a swap is two transfers. Hard: the second of two steps
fails after the first, a nonce is the only thing against a replay, the hop count
starts again when a token comes back. What makes it correct: one wallet can
take a token, a payer does not overpay, and honest deposits conflict with
nothing.

### Left aside

The cryptography wrappers (`crypto/`, `dpc/crypto_utils.py`,
`dpc_poc/dpc/crypto.py`) keep no state: a signature is taken to be valid exactly for
what was signed and a hash to identify what was hashed. The demos and test
harnesses are straight-line scripts over the components, the mobile adapter is
a test stub, `__init__` files and tests have no logic of their own.

## The modules

| module | models | kind |
|---|---|---|
| `Selection` | what `select_tokens` may return | operators |
| `TokenSelection` | the branch-and-bound search and the greedy loop of `select_tokens` | state machine |
| `Wallet` | copies of tokens, `append_transfer`, `validate_chain`, the two registers | operators |
| `AtomicPayment` | what a cash payment promises | abstract specification |
| `PaymentSession` | `PaymentSession.execute`, one action per statement | state machine, implements `AtomicPayment` |
| `TransferProtocol` | the channel and `transfer_over_channel` | actions |
| `Reconciliation` | `ReconciliationEngine.submit` | actions |
| `FirstClaim` | what settlement promises | abstract specification |
| `CashSystem` | the canonical stack composed | state machine, implements `FirstClaim` |
| `SelectionLemmas`, `TokenSelectionProofs` | about `Selection` and `TokenSelection` | proofs |
| `WalletLemmas`, `PaymentSessionProofs`, `CashSystemProofs` | about `Wallet`, `PaymentSession` and `CashSystem` | proofs |
| `Issuance` | the issuer, the register of issued tokens, the clock | actions |
| `OfflineWallet` | the offline wallet and its bundles | actions |
| `ReconciliationServer` | settlement of bundles, revocation and recovery | actions |
| `ProxySync` | heartbeats, their relay and what they renew | actions |
| `OfflineCash` | the prototype composed | state machine |
| `OfflineCashProofs` | about `OfflineCash` | proofs |
| `DpcWallet` | the wallets of stack 3, their parcels and files | actions |
| `DpcLedger` | the ledger of stack 3 | actions |
| `DpcCash` | stack 3 composed | state machine |
| `DpcCashProofs` | about `DpcCash` | proofs |
| `PocWallet` | the wallet state and checks of stack 4 | operators |
| `Exchange` | what the calls of the channel of stack 4 promise | abstract specification |
| `BleSwap` | the channel, deposits and the ledger of stack 4 | state machine, implements `Exchange` |
| `BleSwapProofs` | about `BleSwap` | proofs |
| `MC...` | the instances TLC checks | |

### How the state corresponds

*Copies and chains.* A copy of a token is a record of its id, the owner it
names and its chain of transfers. Nonce, parent id and transfer id of the code are
the position in the chain and the chain up to it; a copy of another chain has
other hashes. In stack 2 a transfer also carries the time it was signed at,
because settlement looks at it. *Registers* are sets of copies with at most
one per token id, the dicts `utr` and `str`; `Pop` and `Put` are
`dict.pop` and assignment.

*Selection.* `SelectTokens` gives the *set* of results: the code sorts by
value and breaks ties by the order of a dict, and callers cannot rely on one.
`TokenSelection` models the real search as a stack of calls over a sorted list, and
run `TokenSelection` compares its results with `Selection`.

*A payment session* has one action for each statement of `execute`:
`Begin` (30-33), `InitiatePayment` (36), `ReceivePayment` (37-39), `ReturnChange`
(41-43), `ReceiveChange` (45-47), `Commit` (49) and `Rollback` (50-55).
`Raises` is the list of what can raise in the `try`. The order in which
payloads are delivered is left open. One session runs at a time as `execute`
is a synchronous call in one process.

*The channel* separates the three calls of `transfer_over_channel`, because
nothing undoes the first when a later one fails and because the payload stays
available: `OpenSession`, `SendOverSession` (whose nonce may be refused after the token was spent),
`ReceiveOverSession` (once, again, or never), `ReceiveDamaged` and
`SendTokensRaises`, a list of tokens of which a later one is missing.
`send_token` takes the first id in sorted order; which one that is, is left open.

*CashSystem* uses the atomic payment, which `PaymentSession` implements, for
its payments, with the wallets' other operations between them. The time of a
submission is the caller's argument, so it is any of `Times`.

*Stack 2.* `Pay` is the whole of `create_payment`, `PayInVain` one that raises
for want of spendable tokens but has noted others in `sync_required`, `SendBundle` the whole of
`receive_bundle` with its transfer by transfer loop (a fold that goes on until
the first refusal and keeps what came before), `Upload` the whole of `process_bundle`. One
call takes place at one instant of the clock. `TicksPerSecond` ticks make a second, so
that the places where the code cuts to whole seconds differ from those where it does not.
`reissues` is a history variable for the recovery properties. `at_time` arguments are the clock.
Where an operation refuses everything (a bundle of which no transfer verifies or
settles, a heartbeat that is too old) it changes nothing, and the action has no
step for it. `Heartbeat` is `simulate_proxy_sync` up to the call of `relay_heartbeat`,
and `Relay` that call, which whoever has the heartbeat may make again. A transfer is
identified by its token and the hops up to it, for its `transfer_id` is a fresh one.

*Stack 3.* A parcel is what `send_token`, `swap_change` or `mint_token`
returns: a token id and a chain of records. A nonce is named by the chain that
ends with its record, so that "nonce already seen" is "chain up to there
already seen". One operation is one action; `send_token` has an alternative for
the refusal, with the receipt marked spent and restored as in the code.
`proxy_sync` is a fold over the batch that stops at the first claim that
raises and keeps what was settled. `Save` writes a copy of the register, and
`Restart` replaces the one in memory by it. `awarded` is a history variable: for
whom the ledger ever had a token settled. `swap_change` is called with the
wallet's own key as the issuer's, as in test T7; with another key no receiver accepts the tokens.
Wallets claim what they hold or a parcel for them that they have not received
(tests T5 and T8). The clock does not go back, so `is_expired` never raises.

*Stack 4.* `Send` and `Receive` are the two halves of `execute_transfer`, and
the variable `call` is the running call of the channel with the legs still to come: one for
`execute_transfer`, one or two for `execute_swap`, whose change token is chosen at the start as in
the code. Either half can raise, which ends the call in phase `raised` and
leaves the state as it is. Time may pass between the steps, nothing else
may, as the calls are synchronous. `ReceiveAgain` is `receive_token` with any
parcel made before, for any wallet. Tokens are handed out as
`tests/helpers.py` does, deposited tokens are submitted, once or again, and tokens
are also submitted and kept, as test T8 does. Only the latter may make the ledger flag anyone.

## The runs

Seven runs hold, five are disagreements between the code and what its documents say; further
disagreements, of less weight or easy to see without a run, are listed at the end.

| run | question | instance | states |
|---|---|---|---|
| `PaymentSession` | does `execute`, with every failure at every statement, implement an atomic payment, and end? | 3 wallets, one without a private key, 5 tokens of different and equal values, prices from negative to unpayable | 14,419 |
| `CashSystem` | one holder, one chain, one settlement, in any order of payments, transfers, losses, submissions and syncs? | 3 wallets, 2 tokens, 2 sessions, 2 submission times, chains of up to 2 with `MaxHops` 1 | 392,594 |
| `TokenSelection` | does the search return a smallest exact subset or else an ascending cover, as `Selection` says, and end? | every sorted list of up to 4 values in 0..4, amounts -1..12 | 35,571 |
| `OfflineCash` | caps, counters, replay, no fork, agreement of payer and payee, for bundles received in part, late, again, or by the wrong wallet | 3 wallets, 3 tokens, 3 bundles, expiry inside the run | 794,854 |
| `Recovery` | how far do waiting time and expiry keep a reissued token from being claimed too, and for how long do heartbeats renew a token given away? | 2 wallets, 2 tokens, half seconds, expiry of 1 s, 2 bundles or a bundle and a heartbeat, repeated reports of loss | 3,791,283 |
| `DpcCash` | replay, refusals, hop limit, blacklist and books, for parcels received late or again, splits, batches and restarts | 3 wallets, one of them and the ledger restartable, 3 tokens, 3 parcels, expiry inside the run | 534,272 |
| `BleSwap` | is each call one transfer or one exchange for the smallest change, with one taker, no overpayment in a completed swap, right hop counts and no conflict from honest deposits, whatever leg of a swap fails? | 3 wallets, 4 tokens of 1, 2, 2 and 4, 3 parcels, balance cap, hop limit and expiry reached; constraint `Explored` | 1,632,307 |
| `PayeeKeepsPrice` | does the payee keep the price? | violated: paid 7 for 5 and holding a 3, it returns 3 | |
| `ChangeFromOwnHoldings` | is change taken from the payee's own tokens? | violated: it selects a token just paid, which the payer refuses, and the payment is rolled back | |
| `NoLocalReuse` | does a wallet never get back what it has spent? | violated after `sync` has dropped the record of it and the payload is received again | |
| `RecoveredWithinSafeBalance` | is a recovery bounded by the safe balance? | violated: reissued once for each of two new keys | |
| `SwapAtomic` | does a swap happen altogether or not at all? | violated: the first receipt is refused at the balance cap after the token was sent, or the second transfer fails after the first | |

What the properties of the passing runs say, beyond the type invariants:

- `ImplementsAtomicPayment`: with the registers of a running session read as they were when
  it began, each session is one step of `AtomicPayment` or none. This is what the
  rollback is for. `HeldByOne` and `NeverLost` speak of the states in between
  as well; `PayerNeverOvercharged` relates selection, payment and change.
- `UnsettledSingleHolder`: at most one wallet can spend an unsettled token.
  `CustodyInv` is why (see the proofs). `CustodyIsLinear`: any two copies are
  two lengths of one chain, the spendable one the longest. `NoReuseBeforeSettlement`
  is an action property: what a wallet has spent stays in its spent register,
  and out of the other, until it is settled.
- `ImplementsFirstClaim`: the engine inside the system is a map that takes
  the first valid claim and never changes it.
- `NothingMissed`, `ReturnsASelection`, `Terminates`: pruning loses no exact
  subset and no shorter one; the result is a smallest exact subset or, where none is
  exact, the tokens in ascending order up to the amount, and `select_tokens` raises only
  where all tokens do not reach it. That cover is in general neither the smallest nor the cheapest one.
- `BalanceCapped`: the cap holds after every transfer of a bundle.
  `CountersAgree`: the two hop counters, one kept by payers and one by payees,
  both equal the length of the whole chain, also after the token came back to an earlier holder
  (which a document denies, see the end), and stay within the limit. `OneTaker`: a token has one wallet that can
  spend it or would take it in from some bundle. `OneChain`: honest wallets fork
  nothing, and what is settled is on the chain.
- `PaidTwiceOnlyInTheLastSecond`: a token that is issued again although it was
  claimed was claimed in the one second between the end of the wait, exact,
  and the expiry, cut to whole seconds.
- `PaidIsAcceptable`, an action property: what a payer puts into a bundle its payee
  would take in at once, if its balance allows it. The checks on both sides are
  written apart, with another counter and another clock, and the one gap between them
  is the fraction of a second that the payer cuts off. `MarkedIsStuck`: a
  token in `sync_required` is in the wallet and never spendable again, whatever is
  received, paid or issued afterwards. `AliveTwoLifetimesAtMost`: once its first owner has
  given a token away, heartbeats from before keep `is_token_expired`
  false for two lifetimes at most, however late or often they are relayed.

- `ReuseOnlyByRestart`: a wallet that was not started anew from a file holds no
  receipt it has passed on, although returning tokens are let in with nonces
  it has seen. `SpentHasLeft`: what is marked as spent was signed over or
  split. `ChainsValidAndBounded`: whatever a sender signs passes the receiver's
  check of hop indices, and no more than `MaxHops` transfers in a row go to
  wallets that have not sent the token before. `BlacklistedHeldItLater`: who is
  blacklisted claimed with a longer chain than the settled one; the code blacklists that
  wallet also when it is the honest one of the two. `BooksKeptUntilRestart`: until the ledger is
  started anew from a file, it has each token settled for the only claimer it was
  ever settled for ("First-valid-claim wins", `dpc/reconciliation_engine.py:82`), and
  exactly the tokens of splits are unknown to it.
- `OneTaker` (stack 4): at most one wallet can spend a token or would take in a
  parcel of it, nobody after its deposit. `PayerNeverOverpays`: a completed
  swap costs the payer at most what it owes; of a swap that raised it says nothing
  (`SwapAtomic`), and the payer may pay less than it owes. `HopsCountSinceReturn`: the hop
  count is the number of transfers since the token last came to a wallet
  of its history, and within the limit. `ConflictOnlyAfterKept`: the ledger flags keys only over a token that
  its registered owner submitted without depositing it. `ImplementsExchange`: with the
  wallets of a running call read as they were when it began, each call of the channel is one
  step of `Exchange` or none: a transfer, also where a swap broke off after
  its first leg, an exchange for the smallest token that is enough, or either of them with its last
  token under way, where its receiver may still take it in. That a swap may come to a transfer is
  part of `Exchange`, as it is what the code does (`SwapAtomic`).

### Bounds, and why they are enough

`ChainBound` (stack 1) stops payments and transfers out of a wallet that holds
a chain of that length; two transfers let a token return to an earlier holder
and make it one longer than `MaxHops`. Two tokens make one
settle while the other circulates, and payloads overwrite each other. The five
tokens of the sessions give exact change, change that cannot be exact, ties and
a payee with other tokens of its own. `MaxMessages` (bundles and heartbeats),
`MaxHeartbeats`, `MaxTime` and the number of tokens (ids left to mint) bound stack 2: three bundles give a payment, its
replay and the way back, four half seconds the expiry, the wait and the
fraction between them. One heartbeat and one payment, in either order, are what a renewal
of a token given away takes. `MaxParcels` and the ids left bound stacks 3 and 4:
three parcels are an issue and two transfers in stack 3, with `MaxHops` 1 enough to reach the
limit and to come back to the first wallet, or an issue and a split. In stack 4 they are a swap
and one more transfer, before or after it, or three transfers of a token.
The constraint `Explored` of `MCBleSwap` lets two wallets have all four tokens, and three wallets one token:
it goes from the first to the second and on to the third, where a further send is refused at `MaxHops` 2, or back to
the first and from there to the third, with a count of 1 after the return; `MaxDeposited` lets one of the four tokens come to the ledger, whose
entries do not depend on each other. Values of 1, 2, 2 and 4 leave a payee the choice
of change for a token of 2, and make up more than the balance cap. In stack 3 each file is written once. `CHECK_DEADLOCK FALSE` is set for the runs of `OfflineCash`, `DpcCash` and `BleSwap`, whose
clocks and parcels end, and for those of `TokenSelection`, which ends with its result.
`OfflineCash`, `DpcCash` and `BleSwap` use symmetry of wallets of equal standing (and, some of them, of tokens of equal value);
they have no liveness property.

Every property has a mutant in `PROJECT.json`: a definition of the
model changed as a plausible bug would change the code, under which TLC finds the property violated.

### Fairness

`PaymentSession` assumes weak fairness of `Step`: a synchronous call that
has started goes on to its next statement. It does not assume that another
payment begins. `TokenSelection` assumes weak fairness of its `Next` for the
same reason. Nothing else is fair: no code retries, delivers or synchronises
by itself, so the system may stop anywhere between operations, and no
liveness is claimed of it.

## The proofs

Every theorem holds for any wallets, tokens, values, amounts, times and bounds
that satisfy the named assumptions of the modules (`WalletAssumption`,
`SelectionAssumption`, `IssuanceAssumption` and so on): that values, limits and
times are natural numbers, that prices and the amounts of a swap are integers, that the
issuer has minted finitely many tokens, and that what may be restarted is a wallet or the ledger. No theorem of a state machine assumes
more than that.

### Stack 1: custody and settlement (`CashSystemProofs`)

- `Typing`: `Spec => []TypeOK`.
- `Custody`: `Spec => []CustodyInv`.
- `SingleHolder`: `Spec => []UnsettledSingleHolder`.
- `OneLine`: `Spec => []CustodyIsLinear`.
- `NoReuse`: `Spec => NoReuseBeforeSettlement`, an action property.
- `SettlesFirstClaim`: `Spec => ImplementsFirstClaim`, a refinement.

"One wallet can spend the token" is not inductive, as a payload under way can
make a second one. `CustodyInv` counts a wallet as *custodian* of a token when
it can spend it or would accept a payload of it, and states that an unsettled
token has one custodian at most (`OneCustodian`). To carry that over each step
it needs three more parts: `PayloadsAddressed`, that a payload's chain ends at
the owner it names, so that a damaged payload is refused; `RegistersDisjoint`,
that a wallet that can spend a token would accept no other copy of it; and
`VaultUntouched`, that a token not loaded yet is nowhere. A payment moves
custody from payer to payee and the change the other way
(`PayPreservesCustody`), a send moves it into the payload's receiver
(`SendPreservesCustody`), a receipt keeps it (`ReceivePreservesCustody`), a raised
`send_tokens` ends it (`LossPreservesCustody`), and `Sync` affects settled tokens only
(`IntactFacts`, `CustodyStep`). `NoReuse` uses the invariant for the one step
that could bring a token back.

`CustodyIsLinear` is not inductive either: it compares the spendable copy with
the others and says nothing of one in the channel that is about to become spendable.
`LinearInv` (`Leads`) calls a copy *leading* if it makes its wallet a custodian
(`Leading`), and states that the copies of an unsettled token lie on one chain of
which the leading ones are the longest. With a single custodian, the wallet that hands a
token on has the leading copy, so the one it makes continues them all (`HandOn`);
every other step makes no copy (`NoNewCopy`). `WalletLemmas` has the facts about the register operators.

### Stack 1: payments (`PaymentSessionProofs`)

- `Typing`, `OneHolder`, `NothingLost`, `NeverOvercharged`: `TypeOK`,
  `HeldByOne`, `NeverLost` and `PayerNeverOvercharged` hold between any two
  statements of a payment.
- `AllOrNothing`: `Spec => ImplementsAtomicPayment`. Seen at the
  boundaries of `execute`, both legs with their exceptions and the rollback are
  one step of `AtomicPayment` or none.

The registers say nothing of what a failing statement will restore, so the
invariant `SessionInv` describes, phase by phase, what the registers are in terms of those saved at
the start (`Opened`, `Paying`, `Returning`) and that those saved were in order (`Intact`). The price is
compared through `Worth`, the running totals of the code.

### `select_tokens` (`SelectionLemmas`, `TokenSelectionProofs`)

- `WorthRemove`, `WorthUnion` and the lemmas beside them: a running
  total does not depend on the order, grows with the set, and adds up over
  disjoint sets.
- `Typing`, `SearchMissesNothing`, `SelectionCorrect`: `TypeOK`,
  `NothingMissed` and `ReturnsASelection`. The branch-and-bound search with its
  pruning and the greedy loop return what `SelectTokens` promises, for lists
  of any length. `SearchInv` adds to `NothingMissed` that the best subset found
  is exact (`BestIsExact`), that the loop starts only when there is none and that
  it is below the amount until it ends (`LoopBelowAmount`).

`Worth` is a fold over a set. Induction over data is out of the prover's
reach, and is avoided: if the statement failed for some sets it would fail for a smallest
one (`SmallestOf`), and adding one element to that is a contradiction.

### Stack 2 (`OfflineCashProofs`)

- `Invariance`: `Spec => []OfflineInv`, the inductive invariant.
- `Typing`, `Capped`, `Counting`, `Custodian`, `NoForks`, `Stuck`: `TypeOK`,
  `BalanceCapped`, `CountersAgree`, `OneTaker`, `OneChain`, `MarkedIsStuck`.
- `RenewalEnds`, `PaidTwiceRarely`: `AliveTwoLifetimesAtMost`,
  `PaidTwiceOnlyInTheLastSecond`.
- `PayeeAgrees`: `Spec => PaidIsAcceptable`, an action property.

`OneTaker` and `OneChain` hold for one reason, `Custody`: a token is in one wallet or in one
parcel its payee has not processed, and whichever has it knows the whole history (`HeldKnowsAll`,
`DueKnowsAll`), so that the transfer the wallet makes next continues every
earlier one. `ParcelOK`, `HoldingOf` and `Counted` say how the counters of
a copy go with its chain, which is what makes payee and payer agree in `PayeeAgrees`.
The server's part is about time: `SettledInv` bounds when a token is settled by
its issue (`AliveBound`: the cut to whole seconds costs less than one), `RecoveryInv` says
that what is settled after a reissue was settled after the wait, and `SyncInv` that
once the first owner gave a token away its heartbeats are all from before.
The loops over a bundle are folds; `LoopExists`, `ReceiveRun` and
`ProcessRun` show that a fold passes through states each of which follows from
the one before by one transfer, and `ClimbTo` carries the invariant along them.

### Stack 3 (`DpcCashProofs`)

- `Invariance`: `Spec => []DpcInv`, the inductive invariant.
- `Typing`, `OnlyByRestart`, `SignedOverOrSplit`, `ChainsBounded`,
  `BlacklistedLater`, `BooksKept`: `TypeOK`, `ReuseOnlyByRestart`,
  `SpentHasLeft`, `ChainsValidAndBounded`, `BlacklistedHeldItLater`,
  `BooksKeptUntilRestart`.

`ParcelsInv` has with each parcel all the shorter ones its chain was made from,
and says in `WellMade` that the hop index of a chain's tip is larger than the run of
transfers to new wallets before it; the bound on such runs is that, applied to the chain cut
where the run ends. A register has no memory of what became of a token, only of
nonces, so `GivenAway` ties the two: what a wallet that was not restarted has
signed over, it has seen and does not have. `NotPassedOn` and `HeldIsLongest`
follow, and from them that replays bring nothing back and, while nothing is restarted, that the chains of a
token lie on one line (`OneLine`). A claimer then has the longest chain of its token,
which is why a refused one had it after the one it is settled for (`FairTo`, `SettleFair`).
`SpentHasLeft` alone is not inductive: a restart brings back what a file
marks as spent, so `SplitsCounted` counts the files too. A restart
otherwise needs no more of a file than that it is a register in order
(`RegistersInv`), and a loaded ledger than that it is one (`LedgerInv`).
`UploadIs` computes the fold of `proxy_sync` for the batches of two the model uploads.

### Stack 4 (`BleSwapProofs`)

- `Invariance`: `Spec => []BleInv`, the inductive invariant.
- `Typing`, `NoReplay`, `HopsCount`, `NoOverpayment`, `HonestNotFlagged`:
  `TypeOK`, `OneTaker`, `HopsCountSinceReturn`, `PayerNeverOverpays`,
  `ConflictOnlyAfterKept`.
- `CallsAreExchanges`: `Spec => ImplementsExchange`. Seen between two calls,
  every transfer and every swap, with the failures after each of their steps, is
  a step of `Exchange` or none.

Replay protection goes by nonces that a wallet counts for itself, so
`NoncesFresh` ties them to the parcels made so far: a new parcel's nonce is one no
wallet has seen. With it `OnePlace` (a wallet, a parcel to be received or the deposits)
is inductive. `HopsInv` says where in the history the count starts, also for parcels; `LedgerInv` that a
registered owner deposited or kept the token; `CallInv` which stage a running
call is in, in terms of what both wallets had before it. The last part is what the
refinement needs: a swap that raises has done a part of its legs, and has left
every token where a step of `Exchange` would have put it.

### Only model-checked

- `SessionEnds` and `Terminates`: liveness under fairness and ENABLED are outside
  what the prover can do.
- The properties of the violation runs, which do not hold.

## What the models leave out

- Signatures, hashes and serialisation: abstracted as said above; a damaged payload is modelled where a
  damaged field passes parsing.
- `transfer_history` and `transfer_hashes` of the offline
  wallet, which nothing reads, and its `select_tokens`, which nothing calls.
- Heartbeats of stack 4 (`get_sync_heartbeat`, `dpc/proxy_sync.py`): `relay_heartbeat` writes a
  registry that only `is_token_valid` reads, which no code and no test calls.
- The session simulator of stack 3, which returns a copy of what it is given.
- Partial amounts in stack 4: the code checks them and moves the whole token,
  so the model has them in the checks only.
- The chain hash of stack 4: `verify_transfer_chain` accepts what an unaltered
  `build_transfer` has made, also after a lifecycle reset cleared the hash.
- The clock does not move inside a call of stacks 1 to 3.
- A second `add_token` or `receive_token` of the same minted copy. Nothing in `wallet/wallet.py:45-51` or
  `wallet/offline_wallet.py:29-35` refuses it, and it would make a spent token spendable
  again; every caller in the repository loads a token once, and `vault` says so in the models. It is an
  assumption about the callers, under which the custody properties hold.
- `created_at` and `issue_timestamp` of stack 2, which `mint_token` reads from the clock one after the
  other, are one field. The fraction of a second in which payer and payee differ (`FractionLeft`) decides nothing in run
  `OfflineCash`, whose ticks are seconds; it does in `Recovery`.
- The verdicts of `process_bundle` other than acceptance: which reason a refused transfer is
  given, and so the `CONFLICTING_CHAIN` an honest later hop gets when an earlier one is settled, is not seen.

## Where the documents and the code part without a run

- Minimal selections. "Select minimal token set with sum >= requested amount"
  (`wallet/wallet.py:54`) is so only where some subset has exactly the amount. Otherwise the loop of
  `wallet/wallet.py:65-71` takes tokens in ascending order: of 1, 1 and 4 it returns all three for an
  amount of 3, although the 4 is enough. `AscendingCover` is what the code does.
- Lifecycle reset in stack 2. `docs/scope_and_limitations.md:19` has "Token lifecycle reset on return (T6)"
  as implemented in `wallet/offline_wallet.py`. There is no reset in that file: `create_payment` increments the nonce (75)
  and `apply_transfer` the hop count (157) whoever had the token before, and a token going back and forth
  reaches `MAX_HOPS`. `CountersAgree` states what the code does, with returns in run `OfflineCash`. Stack 4 has the reset.
- A second report of loss. `tests/test_offline_cbdc_poc.py:188` asks that a revoked
  wallet's new spend is rejected. The server keeps the last report only
  (`issuer/reconciliation_server.py:33`), so that a payment signed after a first report is settled if it is uploaded
  after a second one. Run `Recovery` has such behaviours; its properties hold in them. Nor is a payment rejected that its receiver has
  passed on, as only the sender of the uploaded transfer is looked up.
- What a swap costs. `dpc_poc/dpc/ble_sim.py:124` prints the amount owed as the net result of both wallets. With a
  change token worth more than the excess the payer has paid less: owing 1, paying with a 2 and given a 2, nothing.
  `PayerNeverOverpays` is the half that holds.
- Renewed tokens. Heartbeats of stack 2 renew a token for `is_token_expired`, which is what
  `tests/test_proxy_sync.py:77` asks ("keeps token non expired"). But settlement
  (`issuer/reconciliation_server.py:109`) and the wallets still go by the time of
  issue, so that a renewed token can be neither paid with nor settled; and as
  `issued_tokens` keeps the first owner, whoever was paid with a token
  cannot renew it. The models have all of these as the code has them.

## Plan

Every invariant and action property that a passing run checks is also a theorem. What may
follow:

1. Batches of any length in `DpcCash`, as `ProxySync` already allows, with the
   fold argument of `OfflineCashProofs` instead of `UploadIs`.
2. The heartbeats of stack 4, should some operation come to depend on them.
