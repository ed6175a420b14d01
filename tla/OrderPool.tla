------------------------------- MODULE OrderPool -------------------------------
(***************************************************************************)
(* OrderPool (order_input/orderpool.rs), behind the mutex it shares with   *)
(* its subscribers, and the OrderReplacementManager in front of each sink. *)
(* Commands go to the live sinks of their block; a new sink is given what  *)
(* the pool kept: the mempool, all bundle cancellations, then the bundles  *)
(* and share bundle cancellations of its block, then the bundles without a *)
(* block.                                                                  *)
(*                                                                         *)
(* An order is its id, which hashes neither its replacement data nor, of a *)
(* share bundle, its block: it may be sent again under another key, with   *)
(* another sequence number and, a share bundle, for another block.         *)
(***************************************************************************)
EXTENDS BundleReplacement, FiniteSets

CONSTANTS TxIds,          \* Order::Tx
          Blocks, NoBlock,
          BlocksOf,       \* the blocks, or NoBlock, that an order is sent for
          KnownCapacity,  \* size of the LRU of known orders (10_000)
          TimeToKeepCancellations, TimeToKeepMempoolTxs,
          MaxTime, MaxCommands, MaxSinks   \* bounds

ASSUME OrderPoolAssumption ==
  /\ TxIds \subseteq Ids /\ Blocks \subseteq Nat
  /\ BlocksOf \in [Ids -> SUBSET (Blocks \cup {NoBlock})]
  /\ \A t \in TxIds : KeysOf[t] = {NoKey} /\ BlocksOf[t] = {NoBlock}
  /\ KnownCapacity \in Nat \ {0}

Sx == INSTANCE SequencesExt

VARIABLES pool,      \* the OrderPool
          sinks,     \* the sinks, in the order of their subscription ids
          now,       \* Instant::now(), in ticks
          head,      \* number of the last block
          stale,     \* transactions whose nonce is below the one on chain
          processed, \* number of commands processed
          history    \* the commands processed, and the cancellations expired

vars == << pool, sinks, now, head, stale, processed, history >>

Order(id, k, seq, b) == [op |-> "order", id |-> id, key |-> k, seq |-> seq, block |-> b]
CancelBundle(k, seq) == [op |-> "cancel", id |-> NoOrder, key |-> k, seq |-> seq,
                         block |-> NoBlock]
CancelShareBundle(k, b) == [op |-> "cancel", id |-> NoOrder, key |-> k, seq |-> MaxSeq,
                            block |-> b]

\* Orders are numbered below u64::MAX, the number of a cancellation without one.
Commands ==
  UNION {{Order(id, k, seq, b) : k \in KeysOf[id] \ {NoKey}, seq \in SeqNumbers \ {MaxSeq},
                                 b \in BlocksOf[id]} : id \in Ids}
    \cup UNION {{Order(id, k, 0, b) : k \in KeysOf[id] \cap {NoKey}, b \in BlocksOf[id]} : id \in Ids}
    \cup {CancelBundle(k, seq) : k \in BundleKeys, seq \in SeqNumbers}
    \cup {CancelShareBundle(k, b) : k \in ShareKeys, b \in Blocks}

\* The OrderReplacementManager of a sink, and the OrderStore behind it.
Deliver(s, c) ==
  LET st == s.states[c.key] IN
  IF c.key = NoKey THEN [s EXCEPT !.orders = @ \cup {c.id}]
  ELSE IF c.op = "order"
  THEN [s EXCEPT !.states[c.key] = InsertedState(st, c.seq, c.id),
                 !.orders = ApplyCommands(@, InsertCommands(st, c.seq, c.id))]
  ELSE [s EXCEPT !.states[c.key] = CancelledState(st, c.seq),
                 !.orders = ApplyCommands(@, CancelCommands(st, c.seq))]

--------------------------------------------------------------------------------
\* process_order, process_remove_sbundle and process_remove_bundle.
ProcessOrder(c) ==
  LET known == Append(pool.known_orders, << c.id, c.block >>)
      p == [pool EXCEPT !.known_orders =
              SubSeq(known, IF Len(known) > KnownCapacity THEN 2 ELSE 1, Len(known))] IN
  IF << c.id, c.block >> \in Sx!ToSet(pool.known_orders) THEN pool
  ELSE IF c.id \in TxIds
  THEN [p EXCEPT !.mempool_txs = Append(@, [id |-> c.id, time |-> now]),
                 !.mempool_txs_size = @ + 1]
  ELSE IF c.block = NoBlock THEN [p EXCEPT !.bundles_for_current_block = Append(@, c)]
  ELSE [p EXCEPT !.bundles_by_target_block[c.block] = Append(@, c)]

ProcessCancellation(c) ==
  IF c.key \in ShareKeys
  THEN [pool EXCEPT !.cancelled_sbundles[c.block] = Append(@, c)]
  ELSE [pool EXCEPT !.bundle_cancellations = Append(@, [cmd |-> c, time |-> now])]

NewSink(b) ==
  [block |-> b, subscribed |-> TRUE, alive |-> TRUE, orders |-> {},
   states |-> [k \in Keys \cup {NoKey} |-> Vacant]]

\* A sink that is no longer followed, and what of it is left in the pool.
Dropped(b, subscribed) == [NewSink(b) EXCEPT !.alive = FALSE, !.subscribed = subscribed]

\* Mutant: a sink is given the commands of every block.
InterestedInAll(s, c) == TRUE
\* Mutant: commands without a block reach no sink.
InterestedInItsBlock(s, c) == c.block = s.block

\* A command without a block is for every sink.
Interested(s, c) == c.block = NoBlock \/ c.block = s.block

\* process_command
ProcessCommand(c) ==
  /\ processed < MaxCommands
  /\ processed' = processed + 1
  /\ pool' = IF c.op = "order" THEN ProcessOrder(c) ELSE ProcessCancellation(c)
  /\ sinks' = [i \in DOMAIN sinks |->
       LET s == sinks[i] IN
       IF ~s.subscribed THEN s
       ELSE IF ~s.alive THEN Dropped(s.block, FALSE)
       ELSE IF Interested(s, c) THEN Deliver(s, c) ELSE s]
  /\ history' = [history EXCEPT !.commands = @ \cup {c}]
  /\ UNCHANGED << now, head, stale >>

Cancellations == [i \in DOMAIN pool.bundle_cancellations |-> pool.bundle_cancellations[i].cmd]

MempoolTxs ==
  [i \in DOMAIN pool.mempool_txs |-> Order(pool.mempool_txs[i].id, NoKey, 0, NoBlock)]

\* Mutant: cancellations of share bundles are not replayed.
ReplayWithoutShareCancellations(b) ==
  MempoolTxs \o Cancellations \o pool.bundles_by_target_block[b] \o pool.bundles_for_current_block

\* What add_sink pushes, in this order.
Replay(b) ==
  MempoolTxs \o Cancellations
    \o pool.bundles_by_target_block[b] \o pool.cancelled_sbundles[b]
    \o pool.bundles_for_current_block

AddSink(b) ==
  /\ Len(sinks) < MaxSinks
  /\ b > head
  /\ sinks' = Append(sinks, Sx!FoldLeft(Deliver, NewSink(b), Replay(b)))
  /\ UNCHANGED << pool, now, head, stale, processed, history >>

RemoveSink(i) ==
  /\ sinks[i].subscribed
  /\ sinks' = [sinks EXCEPT ![i] = Dropped(@.block, FALSE)]
  /\ UNCHANGED << pool, now, head, stale, processed, history >>

\* The receiver of the sink is dropped.
CloseSink(i) ==
  /\ sinks[i].alive
  /\ sinks' = [sinks EXCEPT ![i] = Dropped(@.block, @.subscribed)]
  /\ UNCHANGED << pool, now, head, stale, processed, history >>

--------------------------------------------------------------------------------
\* must_retain_order
MustRetain(e, used) == now - e.time <= TimeToKeepMempoolTxs /\ e.id \notin used

Expired(e) == now - e.time >= TimeToKeepCancellations

\* Mutant: the size is not corrected for what was dropped.
SizeUnchanged(size, before, kept) == size

\* measure_tx of every transaction not retained is subtracted.
SizeRetained(size, before, kept) == size - (Len(before) - Len(kept))

\* head_updated, with the transactions whose nonce the new state has used.
HeadUpdated(b, used) ==
  LET kept == SelectSeq(pool.mempool_txs, LAMBDA e : MustRetain(e, used))
      young == {i \in DOMAIN pool.bundle_cancellations : ~Expired(pool.bundle_cancellations[i])}
      from == IF young = {} THEN Len(pool.bundle_cancellations) + 1
              ELSE CHOOSE i \in young : \A j \in young : i <= j IN
  /\ b > head
  /\ stale \subseteq used
  /\ head' = b
  /\ stale' = used
  /\ pool' = [pool EXCEPT
       !.bundles_by_target_block = [n \in Blocks |-> IF n > b THEN @[n] ELSE << >>],
       !.cancelled_sbundles = [n \in Blocks |-> IF n > b THEN @[n] ELSE << >>],
       !.bundles_for_current_block = << >>,
       !.mempool_txs = kept,
       !.mempool_txs_size = SizeRetained(@, pool.mempool_txs, kept),
       !.bundle_cancellations = SubSeq(@, from, Len(@))]
  /\ history' = [history EXCEPT
       !.expired = @ \cup {Cancellations[i] : i \in 1 .. from - 1}]
  /\ UNCHANGED << sinks, now, processed >>

Tick ==
  /\ now < MaxTime
  /\ now' = now + 1
  /\ UNCHANGED << pool, sinks, head, stale, processed, history >>

--------------------------------------------------------------------------------
Init ==
  /\ pool = [mempool_txs |-> << >>, mempool_txs_size |-> 0, bundle_cancellations |-> << >>,
             bundles_by_target_block |-> [b \in Blocks |-> << >>],
             cancelled_sbundles |-> [b \in Blocks |-> << >>],
             bundles_for_current_block |-> << >>, known_orders |-> << >>]
  /\ sinks = << >>
  /\ now = 0 /\ head = 0 /\ stale = {} /\ processed = 0
  /\ history = [commands |-> {}, expired |-> {}]

Next ==
  \/ \E c \in Commands : ProcessCommand(c)
  \/ \E b \in Blocks : AddSink(b)
  \/ \E i \in DOMAIN sinks : RemoveSink(i)
  \/ \E i \in DOMAIN sinks : CloseSink(i)
  \/ \E b \in Blocks, used \in SUBSET TxIds : HeadUpdated(b, used)
  \/ Tick

Spec == Init /\ [][Next]_vars

--------------------------------------------------------------------------------
\* The pool keeps orders under their block; the size of the mempool, which
\* head_updated subtracts from, is exact.
TypeOK ==
  /\ pool.mempool_txs_size = Len(pool.mempool_txs)
  /\ \A b \in Blocks : \A c \in Sx!ToSet(pool.bundles_by_target_block[b]) : c.block = b
  /\ Len(pool.known_orders) <= KnownCapacity
  /\ \A i \in DOMAIN sinks : /\ sinks[i].orders \subseteq Ids
                             /\ \A k \in Keys : sinks[i].states[k] \in ReplacementStates
  /\ history.commands \subseteq Commands
  /\ stale \subseteq TxIds

Followed == {i \in DOMAIN sinks : sinks[i].subscribed /\ sinks[i].alive}

\* The orders a sink of block b is told of.
Received(b) == {c \in history.commands : c.op = "order" /\ c.block \in {NoBlock, b}}

\* A cancellation the pool has not expired is honoured in every block, whether
\* the sink was there when it came or was added later: no sink holds an order
\* that came only under the cancelled key and lower sequence numbers, and a
\* version of a lower number that comes later will not get in.
CancellationsHonoured ==
  \A i \in Followed : \A j \in DOMAIN Cancellations :
    LET cancel == Cancellations[j]
        st == sinks[i].states[cancel.key] IN
    /\ st.tag # "Vacant" /\ st.seq >= cancel.seq
    /\ \A id \in sinks[i].orders : \E c \in Received(sinks[i].block) :
         c.id = id /\ ~(c.key = cancel.key /\ c.seq < cancel.seq)

\* A sink is given only orders that came for its own block or without one.
OrdersOfItsBlock ==
  \A i \in DOMAIN sinks : \A id \in sinks[i].orders :
    \E c \in Received(sinks[i].block) : c.id = id

Of(k, b) == {c \in history.commands : c.key = k /\ c.block \in {NoBlock, b}}

\* Notifications of a key that the pool can replay to a sink of block b: numbered
\* apart, no order sent again under another number or key, none without a block,
\* no cancellation expired.
Replayable(k, b) ==
  /\ \A c, d \in Of(k, b) : c.seq = d.seq => c = d
  /\ \A c \in Of(k, b) \cap Received(b), d \in Received(b) : c.id = d.id => c = d
  /\ \A c \in Of(k, b) \cap Received(b) : c.block # NoBlock
  /\ Of(k, b) \cap history.expired = {}

\* "we can ask for the events for a particular block even if the orders arrived in
\* the past": for replayable notifications a sink added later agrees with one that
\* saw them live on which version of a bundle to build with, although add_sink
\* replays the cancellations first.
LateSinksAgree ==
  \A i, j \in Followed : sinks[i].block = sinks[j].block /\ sinks[i].block > head =>
    \A k \in Keys : Replayable(k, sinks[i].block) =>
      \A c \in Of(k, sinks[i].block) : c.id \in sinks[i].orders <=> c.id \in sinks[j].orders
================================================================================
