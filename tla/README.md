# Verification of the constraints builder

TLA+ models of the live block builder in `src/crates/rbuilder` (a fork of rbuilder that
accepts preconfirmation constraints and proves their inclusion), the TLC runs that check
them on small instances, and TLAPS proofs of the part every order goes through.

## 1. The system

One slot, from left to right:

```
submitConstraints RPC ─► results channel ─► bridge ─► ConstraintPool ──┐ snapshot, reserved gas
        └─ one bundle per transaction ─┐                               ▼
mempool, bundle RPC ───────────────────┴► OrderPool ─► OrderReplacementManager (one per sink)
     ─► SimulationJob / SimTree / workers ─► broadcast channel ─► builders
     (PrioritizedOrderStore, fill_orders, BlockBuildingHelper) ─► best block ─► prefinalize
     ─► bidder ─► finalize or adjust ─► PendingBlockCell ─► relay job ─► relays
                                                              └► proof observer ─► storage ─► RPC
```

### Inventory

| Part | State | Operations | What makes it hard | Properties sought |
|---|---|---|---|---|
| Order replacement (`order_replacement_manager.rs`) | valid or cancelled state per key | insert, cancel bundle, cancel share bundle | notifications reordered and duplicated | highest sequence number wins; a remove names what the sink holds |
| Order pool (`orderpool.rs`) | mempool, bundles by block, cancellations, known orders, sinks | process command, add/remove sink, head updated | late sinks, expiry by time and by block, bounded dedupe | late and live sinks agree; cancellations are honoured |
| Constraint pool (`constraintpool.rs`) | constraints by block, known ones, sinks | insert, remove block, add/remove sink, snapshot, expiry | the snapshot prunes; bounded dedupe | nothing is missed or stored twice |
| Constraint pipeline (`constraint_input/{rpc_server,mod}.rs`) | two bounded channels, a bridge, a job | call, timeout, forward, batch, cancel | timeouts, retries, full channels | what was acknowledged gets to the pool |
| Block building (`building/mod.rs`, `order_commit.rs`, `block_building_helper.rs`) | space used and reserved, balances, nonces, refunds, reverts, header caches | commit order, append constraints, finalize, adjust | promises kept later; undo; incremental roots | gas and money promised are there; adjusting equals finalizing |
| Order store and ordering builder (`prioritized_order_store.rs`, `ordering_builder.rs`) | queue, nonces, pending lists, attempts | consume commands, pop, retry, nonce update, drop failed | lagging channel, failing reads, lazy cleaning | the indexes agree; builds end |
| Simulation (`sim.rs`, `simulation_job.rs`, `sim_worker.rs`) | tree of pending nonces, in flight, sent | new order, cancel, result, send tasks | results against cancellations | the builders hold what is wanted; nothing is forgotten |
| Sealing (`unfinished_block_processing.rs`) | best block, prefinalized blocks, contexts, commands | new block, prefinalize, seal, finalize | three kinds of threads, three kinds of locks | blocks stay biddable; no deadlock |
| Relay submission (`relay_submit.rs`) | pending cell, job, submissions | update, take, submit, cancel | lost wake-ups, cancellation | the last block is bid; one request per relay |
| Constraint proofs (`constraint_proof_*.rs`) | storage by slot and block, tasks | block submitted, prove, evict | concurrent tasks, late slots | the newest slots are kept, and complete |
| Payload events, slot loop | seen payloads, epoch cache | — | next stage | — |
| Parallel builder | conflict groups, task queue, best results | — | next stage | — |
| Share bundle merging, tx cache, sparse trie, bid scraper, ClickHouse backup, operator, rebalancer | — | — | later | — |

`PROJECT.json` lists every part, also those left out, with the reason, and every hazard at the line
where it bites with the properties that would catch it.

## 2. Modules

Each module states in its header what it abstracts. Names are the code's where TLA+ allows it.
A definition that follows a comment "Mutant:" is not part of the model: it is a plausible slip in the
definition after it, kept to show that a property of a run would notice it.

* **BundleReplacement** — `BundleReplacementState`: what the state of a key becomes and which commands go
  to the sink. Operators only; shared by the next two.
* **OrderReplacementManager** — the manager of one sink. `replacement_states` is the map of the code (a `Vacant`
  state is an absent entry), `orders` what the sink holds, `received` is history. Actions:
  `InsertPlainOrder`, `InsertReplaceableOrder`, `RemoveBundle`, `RemoveSBundle`. The id of an order covers
  neither its replacement data nor its signer, so `KeysOf` gives each order a set of keys it may come
  under, `NoKey` among them: one order may be held for two keys at once.
  **OrderReplacementContract** is the promise to a consumer: of each key the first notification with the
  highest number is current, the sink holds no order that is not current for a key or sent without one,
  and lacks one only when another of its keys let it go. **OrderReplacementProofs** has the proofs.
* **OrderPool** — the pool behind its mutex with a replacement manager in front of each sink.
  One action per public operation; time is a clock that ticks. An order comes with any key, number and
  block the constants allow it, and `known_orders` is keyed by id and block as in the code.
* **ConstraintPool**, **ConstraintPipeline** — the pool, and its composition with the RPC handlers, the
  bridge task, the pool job and the cancellation of the process. A handler first sends one bundle per
  transaction (a failed one is only logged), then the constraint itself with a timeout.
  `SendRemoveBlock` is environment: the pool handles the command, and no code of the repository sends it.
* **OrderNonces** — which nonces an order needs and moves; used by the next two.
* **OrderingBuilder** — a builder thread: intake over a broadcast channel of bounded size, the store
  (`base`), its clone for one build (`work`), the loop of `fill_orders` and the removal of failed
  orders. What executing an order yields is nondeterministic where it depends on the EVM.
* **Simulation** — job, tree, workers and the channels between them. The job's `select!` is two steps,
  receiving and processing, then sending the tasks that became ready. The job does not check whether it
  has an order already, so an order may come again at any moment; `again` records that it came after
  its result was sent.
* **BlockBuilding** — one block: gas and value of each transaction are constants, balances, nonces,
  promises, reverts and the caches behind the header are state. A transaction may take from the
  coinbase (a negative profit). `FinalizeBlock` and
  `AdjustFinalizedBlock` are whole calls, `ProcessRequests` and the header included.
* **Sealing** — builder threads, prefinalize thread, the bidder (environment: it may bid for any block
  published to it), one finalize thread per relay set. A step ends where a lock is taken or released.
  `CancelSlot` ends the slot; the threads notice at the head of their loops, a woken one after the
  block or command it was woken for.
* **ConstraintProofs** — observer, spawned tasks, storage; a transaction is encoded with or without
  its envelope. **RelaySubmission** extends it with the cell, the submission job and the relays, so
  that every submission starts the proof task the code starts, and with the jobs of other slots as
  far as the observer sees them.

`MC*` modules give the constants small values. Modules compose by EXTENDS where state is shared
(ConstraintPipeline with ConstraintPool, RelaySubmission with ConstraintProofs, OrderPool with
BundleReplacement).

## 3. Runs

Runs that pass:

| Run | Shows |
|---|---|
| `order_replacement` | a bundle under two keys, one under a key and without, and a share bundle, notified in every order: the highest number wins, removes are live, and the manager implements the contract |
| `order_pool` | cancellations are honoured, also when an order comes under a second key; sinks get their own block; late sinks agree with live ones on the keys whose notifications can be replayed |
| `constraint_pipeline` | sinks follow the pool and slots miss nothing, constraints are stored once, acknowledged ones get to the pool (liveness) |
| `block_building` | reserved gas, refunds and value of a block; any number of adjustments gives the block of one finalization |
| `ordering_builder` | the store's maps agree, builds end, cancelled orders go |
| `simulation` | tree and job agree, the builders hold what is wanted, nothing is forgotten, ready orders are simulated (liveness) |
| `sealing` | two algorithms and two relay sets: published blocks stay biddable, recycling takes contexts of superseded blocks only |
| `sealing_live` | a bid reaches the relay job, unless it fails, is replaced or the slot ends, whatever the order of locks (liveness) |
| `relay_submission` | one request per relay and block, within the relay's limit; no lost wake-up, and a cancellation ends the job (liveness); eviction keeps the newest slots of proofs, and concurrent tasks lose none |

Runs that end in a violation show where a comment, a doc or the code's intention and the code differ.
Each has an entry under "findings" with the line quoted:

| Run | The code |
|---|---|
| `reserved_gas_serves_constraints` | does not let the constraints use the gas reserved for them |
| `waiting_block_is_the_best` | releases the lock between choosing and handing over the best block |
| `proofs_verify_against_header` | builds the proof's trie over another encoding than the header's |

### Other differences between comments and code

Met while modelling; the models follow the code, and no run is spent on them. Paths are under
`src/crates/rbuilder/src/`.

* `live_builder/order_input/order_replacement_manager.rs:108` "On Cancel always ends in Cancelled": a
  cancellation that is not newer than the bundle is ignored (line 148).
* `live_builder/order_input/order_replacement_manager.rs:12` "we must always honor the one with higher
  sequence_number": the manager keeps its states by key and removes by order id (line 159). When one
  order comes under two keys, or with and without one, a replacement or cancellation of one key takes
  it from the sink for the other, whose state still names it; a later remove is then for an order the
  sink does not hold. `HighestSequenceHonoured` is about the orders of one key alone; `RemovesAreLive`
  and the contract exempt orders another key let go, and say that nothing else is lost.
* `live_builder/order_input/orderpool.rs:62` "we can ask for the events ... even if the orders arrived in
  the past": `process_order` (line 105) dedupes by id and block, so a bundle sent again with a higher
  number reaches live sinks and is not replayed to later ones. `LateSinksAgree` excludes it.
* `live_builder/constraint_input/constraintpool.rs`: the docs of the pool ("Expiration is explicit") and of
  `block_updated` ("notifies sinks (no silent pruning)"): taking a snapshot prunes older blocks, and no
  expiry tells the sinks. `SinksFollowPool` is one inclusion for blocks that expired or were removed.
* `building/builders/block_building_helper.rs:662`: the profit of an appended constraint is added with
  `unsigned_abs`, so that what a transaction takes from the coinbase counts as earned. The value
  of the block is then twice that amount too high, and a bid of it loses as much.
  `BidsWithinValueLoseNothing` allows for exactly this amount.
* `building/builders/mod.rs`: `update_onchain_nonces` marks an address as read before the store learns its
  nonce, and returns at the first failed read; the addresses read before it are never read again.
  `NoncesInSync` holds for builds without a failed read.
* `building/block_orders/prioritized_order_store.rs`: `remove_order` returns `None` for a ready order it
  removed; the trait says "if found, returns the removed order".
* `building/sim.rs:193`: the parents of an order are collected account by account, so those of an order
  with several accounts may be listed twice or in an order they cannot execute in.
  `OneAccountParentsReachNonce` is about the others.
* `live_builder/simulation/simulation_job.rs:264`: "it was never sent" is wrong for an order that is
  inserted again after its result was sent. The pool deduplicates what it stores, not what it passes to a
  live sink, so the same transaction or bundle sent twice is enough. Cancelled while it is in flight again,
  such an order stays with the builders. `BuildersHoldWanted` exempts the orders in `again`.
* `live_builder/block_output/unfinished_block_processing.rs:639`: a failed block leaves the list "as it can
  be inconsistent", but a command that already holds it still runs.
* `building/mod.rs:1058`: an adjustment collects the accounts of its own and of the previous iteration and
  replaces the last entries of the tries. `adjust_finalized_block` may append a constraint that the
  finalization passed over; the header sealed then does not describe the block, or the payout finds
  no gas, where `unfinished_block_processing.rs` says "finalization adjustment should not fail".
* `live_builder/block_output/relay_submit.rs:374`: the observer is notified twice for one block, also when
  there is no optimistic relay; and line 492 submits a bid equal to the limit of a relay, where the
  comment says "max bid > bid_value".
* `live_builder/block_output/constraint_proof_observer.rs:46`: only appended constraints are proved, not
  those the builders included as orders; `src/README.md:24` says "for each constraint transaction".

### Bounds

Every bound is a constant of the module or of its MC module (`MaxNotifications`, `MaxCommands`, `MaxSinks`,
`MaxTime`, `MaxAdjusts`, `MaxBlocks`, `MaxBids`, `MaxTasks`, `MaxUpdates`, and the capacities of channels
and caches).

* Replacement: three orders, three keys, three sequence numbers; at most five different notifications, each
  any number of times, enough for two keys to receive, replace and cancel the order they share.
* Order pool: two bundles for a block under one key, one of them under a second key too, a bundle for any
  block with and without the first key, a share bundle for either block and a transaction; three
  commands, two sinks, a cache of two, so eviction, expiry and late subscription all happen. `NotSent`
  in the MC module names the commands left out to keep the run short: the cancellations of the second
  key, and some orders with one of the two numbers.
* Constraints: two constraints of two blocks, a cache of one, a subscriber, channels of capacity one, three
  calls of which two carry the same constraint and one cannot be decoded. Commands are bounded by
  the calls and by one removal of either block.
* Block building: six orders over five transactions (combined, immediate and delayed refund, optional and
  reverting transactions), two constraints, one of which takes from the coinbase, gas for some but not
  all of them, two adjustments: the first reverts a finalization, the second an adjustment. The
  payouts include one (8) with which the run fails if what the constraint takes is allowed for only once.
* Ordering builder and simulation: two accounts, chains of nonces of length three, bundles that
  need two accounts, one retry, a channel shorter than the number of commands, two workers, a
  results channel of one.
* Sealing: two algorithms, two relay sets, three blocks, two bids, with symmetry over algorithms and relay
  sets (only invariants are checked there), in a slot that lasts (`LastingSpec`): a worker that has ended
  changes nothing the invariants are about. Liveness, with the slot cancelled at any moment: one algorithm and one relay set, three blocks and
  three bids, the fewest with which a finalize worker, the prefinalize worker and the bidder wait for
  one another when a lock is kept too long.
* Relays and proofs: two blocks of the slot, one with two appended constraints and one with none, blocks of
  the slot before and after with their own proof tasks, a storage of two slots; a relay with a limit
  equal to one of the bids, and an optimistic relay.

CHECK_DEADLOCK is off where the system ends: a slot is cancelled, a bound is used up.

### Fairness

* ConstraintPipeline: the pool's job is polled, so weakly fair; the bridge is strongly fair because tokio
  gives room in a channel to waiting senders in the order they came. Nothing is assumed of callers.
* Simulation: `select!` picks at random among ready branches and each worker is a thread.
* Sealing: the workers and a call of `seal_bid` that has begun go on. The builders and the bidder are under
  no obligation to produce anything.
* RelaySubmission: the job is polled; cancellation is strongly fair because `select!` picks at random.

## 4. Proofs

`OrderReplacementProofs` holds for any sets of orders and keys, any greatest sequence number, and any
assignment of keys to orders: one order may come under several keys, and with and without one.
It assumes only `ReplacementAssumption` and `KeyAssumption` on the shape of the constants (bundle and
share bundle keys are different types, `NoKey` is no key, `NoOrder` no order, the greatest sequence
number is a natural number).

* **Safety** — `Spec => []IInv`. That the sink holds the version with the highest number is not
  inductive: the manager does not keep the notifications, and decides by the state of the key. `IInv` links
  the three. `StateHasHighestSequence`: a key has a state exactly when something was received for it, no
  notification of the key has a higher number, and the state is the content of one with its number.
  `SinkMatchesStates`: the sink holds no order but those named by the state of some key or received
  without a key, and lacks one of these only when another key it was received under names something else.
* **HighestSequenceWins** — `Spec => []HighestSequenceHonoured`, from `IInv`: for an order received under
  one key only, the exemption of `SinkMatchesStates` is empty, so the sink holds it exactly when the
  state of its key names it.
* **RemovesLive** — `Spec => RemovesAreLive`, the action property: a remove is the first command of a call
  and is for an order in the sink, or for one another key let go before. A remove names the order of a
  valid state, so `SinkMatchesStates` leaves only these two cases.
* **Refinement** — `Spec => ImplementsContract`, with the current notification of a key mapped to the order
  its state names. Initial states map to initial states; each call is a `Receive` of the contract, for
  which `StateHasHighestSequence` shows that the manager's comparison with one number is the contract's
  comparison with all notifications, and `SinkMatchesStates` after the step is what the contract promises
  of the sink. The contract also says that a call touches no order but those of its own key.

`InsertEffect` and `CancelEffect` say what the commands of one notification make of the sink. `NextCases`
reduces a step to a plain insertion or to `Notified`, what any notification of a key does to its state
and to the sink, and the two conjuncts of `IInv` are preserved by lemmas of their own.

Everything else is model-checked only. Liveness under fairness and properties of folds over sequences are
out of the prover's reach and stay with TLC.

## 5. Not modelled

The EVM, tries and signatures are abstracted to what they change; encodings appear only where a property
is about them (the proof's trie). In the modelled parts these are left out: share bundles in block
building, blob gas and the RLP size limit (checked like gas), the blocklist, system transactions,
`verify_bundle_consistency`, the second pre-filtered fill of the ordering builder, the finalization mode
that clones the block for every bid, optimistic V3 and rate limits at the relays, a second relay set in
RelaySubmission. Configuration, telemetry, tracing and backtest tools have no state that building
reads back.

## 6. Plan

1. *SlotLoop*: payload events, deduplication, epoch cache, the wait for the header, the snapshot of
   constraints; composed with ConstraintPool.
2. *ParallelBuilder*: conflict groups, task generation and superseding, results aggregation.
3. *ShareBundleMerger* and `commit_share_bundle`; *OrderPriority* as operators.
4. *ClickHouse backup*, *bid scraper*, *best true value pusher*, *rebalancer*, *TxSimCache*; the diff trie as
   operators against a reference definition.
5. Composition of Sealing and RelaySubmission: the last bid reaches the relays.
6. Proofs: gas of BlockBuilding (`FinalizeKeepsItsGas`), ConstraintPool (`SinksFollowPool`), OrderPool
   (`CancellationsHonoured`), Simulation (`BuildersHoldWanted`, `TreeConsistent`), the indexes of the
   order store, Sealing (`BlocksKeptUntilSuperseded`), ConstraintProofs (`NewestSlotsAreKept`).
