----------------------------- MODULE BlockBuilding -----------------------------
(***************************************************************************)
(* One BlockBuildingHelperFromProvider (block_building_helper.rs) and the  *)
(* PartialBlock, BlockState and finalization caches under it               *)
(* (building/mod.rs, order_commit.rs, utils/receipts.rs): orders are       *)
(* committed, then the block is finalized with a payout, then re-finalized *)
(* ("adjusted") with other payouts.  Missing constraint transactions are   *)
(* appended by every finalization, before the payout.                      *)
(*                                                                         *)
(* The state of the chain is a number per account: the nonce of a signer,  *)
(* what a recipient was paid, how often the system contracts ran; the      *)
(* builder's address has two, its nonce and, as Coinbase, its balance.  A  *)
(* transaction is valid when its signer's nonce is its own.  Gas stands    *)
(* for the three dimensions of BlockSpace.  A transaction order is the     *)
(* bundle of that one transaction, which may revert.                       *)
(***************************************************************************)
EXTENDS Integers, Sequences, SequencesExt

CONSTANTS Txs,            \* transactions of orders and constraints
          Tx,             \* their signer, nonce, gas, profit, outcome, encoding
          Signers,
          Orders,         \* orders offered to the block
          Bundle,         \* their txs, reverting and dropping hashes, refund and its tx_hash
          NoRefund,
          Recipients,     \* of refunds
          PayGas,         \* the gas it takes to pay a recipient
          Contracts,      \* recipients that have code
          Constraints,    \* the transactions of ctx.constraints, in order
          DiscardTxs,     \* discard_txs of the builder
          GasLimit, BaseTxGas, BaseFee, MevBlockerPrice,
          BuilderBalance, \* balance of the coinbase before the block
          PayoutValues,   \* the bids
          FasterFinalize, \* ctx.faster_finalize
          MaxAdjusts,     \* bound on the adjustments of one block
          Builder, Coinbase, FeeRecipient, System

Accounts == Signers \cup Recipients \cup {Builder, Coinbase, FeeRecipient, System}

PayoutGas == PayGas[FeeRecipient]

ASSUME GasAssumption ==
  /\ GasLimit \in Nat /\ BaseTxGas \in Nat /\ BaseFee \in Nat /\ MevBlockerPrice \in Nat
  /\ BuilderBalance \in Nat /\ PayoutValues \subseteq Nat /\ MaxAdjusts \in Nat
  /\ PayGas \in [Recipients \cup {FeeRecipient} -> Nat]
  /\ \A t \in Txs : /\ Tx[t].gas_limit \in Nat
                    /\ Tx[t].gas_used \in 1 .. Tx[t].gas_limit

\* calculate_constraint_gas_reservation: undecodable transactions are skipped.
ConstraintReservedGas ==
  FoldLeft(LAMBDA acc, t : acc + IF Tx[t].decodes THEN Tx[t].gas_limit ELSE 0,
           0, Constraints)

\* gas_limit.saturating_sub(constraint_reserved_gas)
GasAvailable ==
  IF ConstraintReservedGas > GasLimit THEN 0 ELSE GasLimit - ConstraintReservedGas

VARIABLES block,       \* PartialBlock and BlockState
          tried,       \* the orders commit_order was called for
          adjustment,  \* finalize_adjustment_state
          cache,       \* the finalization caches of the local context
          header,      \* the last block finalize returned
          appended,    \* built_block_trace.appended_constraint_txs
          phase,       \* what the owner of the helper may do next
          failure,     \* why the last finalize failed
          adjusts,     \* number of adjustments
          prefinal     \* history: the block the first finalize was given

vars == << block, tried, adjustment, cache, header, appended, phase, failure,
           adjusts, prefinal >>

--------------------------------------------------------------------------------
\* BlockState: each commit records what it takes to revert it.
Apply(b, changes) ==
  [b EXCEPT !.accounts = [a \in Accounts |-> IF a \in DOMAIN changes THEN changes[a] ELSE @[a]],
            !.reverts = Append(@, [a \in DOMAIN changes |-> b.accounts[a]])]

\* BundleState::revert(n)
Revert(b, n) ==
  LET old == SubSeq(b.reverts, Len(b.reverts) - n + 1, Len(b.reverts)) IN
  [b EXCEPT !.accounts = [a \in Accounts |->
                            LET hit == {i \in 1 .. n : a \in DOMAIN old[i]} IN
                            IF hit = {} THEN @[a] ELSE old[Min(hit)][a]],
            !.reverts = SubSeq(@, 1, Len(@) - n)]

\* Mutant: reserved space is given away.
CanFitTxIgnoringReserved(b, gas) == gas + b.space_used <= GasAvailable

\* can_fit_tx, for every transaction that enters the block.
CanFitTx(b, gas) == gas + b.space_used + b.reserved <= GasAvailable

\* commit_tx of a signed transaction; valid when the signer's nonce matches and
\* the coinbase has what it may take.
TxOk(b, t) == /\ CanFitTx(b, Tx[t].gas_limit)
              /\ b.accounts[Tx[t].signer] = Tx[t].nonce
              /\ b.accounts[Coinbase] + Tx[t].profit >= 0

PushTx(b, item, gas) == [b EXCEPT !.space_used = @ + gas, !.executed = Append(@, item)]

CommitTx(b, t) ==
  PushTx(Apply(b, (Tx[t].signer :> Tx[t].nonce + 1)
                    @@ (Coinbase :> b.accounts[Coinbase] + Tx[t].profit)),
         << "tx", t >>, Tx[t].gas_used)

\* Mutant: the fee of the transfer is not counted.
CanPayIgnoringFee(b, to, value) == value <= b.accounts[Coinbase]

\* create_payout_tx and its commit_tx: a transfer signed by the builder.
CanPay(b, to, value) == value + PayGas[to] * BaseFee <= b.accounts[Coinbase]

Transfer(b, kind, to, value) ==
  PushTx(Apply(b, (Builder :> b.accounts[Builder] + 1)
                    @@ (Coinbase :> b.accounts[Coinbase] - value - PayGas[to] * BaseFee)
                    @@ (to :> b.accounts[to] + value)),
         << kind, to, value >>, PayGas[to])

--------------------------------------------------------------------------------
\* commit_bundle_no_rollback, one transaction.  A transaction that cannot run is
\* skipped when it is optional; one that reverts is dropped, kept or fatal.  The
\* profit of the transaction the refund names is refundable (is_tx_refundable).
RunTx(o, r, t) ==
  LET optional == t \in Bundle[o].dropping \/ (DiscardTxs /\ t \in Bundle[o].reverting)
      failed == [r EXCEPT !.ok = FALSE]
      done == [r EXCEPT !.b = CommitTx(@, t),
                        !.refundable = IF Tx[t].profit > 0 /\ t = Bundle[o].refund_tx
                                       THEN @ + Tx[t].profit ELSE @]
  IN IF ~r.ok THEN r
     ELSE IF ~TxOk(r.b, t) THEN (IF optional THEN r ELSE failed)
     ELSE IF ~Tx[t].reverts THEN done
     ELSE IF t \in Bundle[o].dropping THEN r
     ELSE IF t \in Bundle[o].reverting THEN done
     ELSE failed

RunTxs(o, b) ==
  LET r == FoldLeft(LAMBDA q, t : RunTx(o, q, t),
                    [ok |-> TRUE, b |-> b, refundable |-> 0], Bundle[o].txs)
  IN [r EXCEPT !.ok = @ /\ r.b.space_used > b.space_used]   \* EmptyBundle

\* The refund of a bundle.  A delayed one is only recorded.  A recipient of
\* combined_refunds gets all of it; another one pays for the transfer, which is
\* combined at the end of the block when it costs BASE_TX_GAS and its space can
\* be reserved, and inserted at once otherwise.
Refund(o, b, refundable) ==
  LET to    == Bundle[o].to
      value == (refundable * Bundle[o].percent) \div 100
      fee   == PayGas[to] * BaseFee
      ok(promised, c) == [ok |-> TRUE, promised |-> promised, b |-> c]
      failed == [ok |-> FALSE, promised |-> 0, b |-> b]
  IN IF to = NoRefund THEN ok(0, b)
     ELSE IF Bundle[o].delayed THEN ok(value, [b EXCEPT !.delayed_refund = @ + value])
     ELSE IF to \in DOMAIN b.combined_refunds
     THEN ok(value, [b EXCEPT !.combined_refunds[to] = @ + value])
     ELSE IF fee > value THEN failed                         \* NotEnoughRefundForGas
     ELSE IF PayGas[to] = BaseTxGas /\ CanFitTx(b, BaseTxGas)
     THEN ok(value, [b EXCEPT !.combined_refunds = (to :> value - fee) @@ @,
                              !.reserved = @ + BaseTxGas])
     ELSE IF CanFitTx(b, PayGas[to]) /\ CanPay(b, to, value - fee)
     THEN ok(0, Transfer(b, "refund", to, value - fee))
     ELSE failed

\* Mutant: promised refunds count as profit.
OrderProfitIgnoringPromises(before, b, promised) == b.accounts[Coinbase] - before.accounts[Coinbase]

\* coinbase_profit_when_refunds
OrderProfit(before, b, promised) == b.accounts[Coinbase] - before.accounts[Coinbase] - promised

\* PartialBlock::commit_order.  An order that fails, that loses money or that
\* result_filter does not accept is rolled back.
CommitOrder(o, accepted) ==
  LET run == RunTxs(o, block)
      ref == Refund(o, run.b, run.refundable)
      profit == OrderProfit(block, ref.b, ref.promised)
  IN /\ phase = "filling"
     /\ o \notin tried
     /\ tried' = tried \cup {o}
     /\ block' = IF run.ok /\ ref.ok /\ profit >= 0 /\ accepted
                 THEN [ref.b EXCEPT !.coinbase_profit = @ + profit]
                 ELSE block
     /\ UNCHANGED << adjustment, cache, header, appended, phase, failure, adjusts, prefinal >>

--------------------------------------------------------------------------------
Present(b) == {t \in Txs : \E i \in DOMAIN b.executed : b.executed[i] = << "tx", t >>}

\* execute_constraint_transaction; unsigned_abs of the profit.
AppendConstraint(r, t) ==
  LET p == IF Tx[t].profit < 0 THEN -Tx[t].profit ELSE Tx[t].profit IN
  [r EXCEPT !.b = [CommitTx(@, t) EXCEPT !.coinbase_profit = @ + p],
            !.new = Append(@, t)]

\* insert_constraint_transactions: the transactions in the block are collected
\* once; a missing one that cannot be decoded is an error, one that cannot run
\* is passed over.
InsertConstraints(b) ==
  FoldLeft(LAMBDA r, t :
             IF r.err # "none" THEN r
             ELSE IF ~Tx[t].decodes THEN [r EXCEPT !.err = "decode"]
             ELSE IF t \notin Present(b) /\ TxOk(r.b, t) THEN AppendConstraint(r, t)
             ELSE r,
           [b |-> b, new |-> << >>, err |-> "none"], Constraints)

InsertTransfer(r, kind, to, value) ==
  IF r.err # "none" THEN r
  ELSE IF ~CanFitTx(r.b, PayGas[to]) THEN [r EXCEPT !.err = "gas"]
  ELSE IF ~CanPay(r.b, to, value) THEN [r EXCEPT !.err = "funds"]
  ELSE [r EXCEPT !.b = Transfer(@, kind, to, value)]

\* Mutant: an adjustment pays the refunds again.
InsertRefundsAlways(r, adjust) ==
  FoldLeft(LAMBDA q, to : InsertTransfer(q, "refund", to, r.b.combined_refunds[to]),
           r, SetToSeq(DOMAIN r.b.combined_refunds \ Contracts))

\* The combined refunds, which an adjustment leaves in the block.
InsertRefunds(r, adjust) ==
  IF adjust THEN r
  ELSE FoldLeft(LAMBDA q, to : InsertTransfer(q, "refund", to, r.b.combined_refunds[to]),
                r, SetToSeq(DOMAIN r.b.combined_refunds \ Contracts))

\* insert_refunds_and_proposer_payout_tx
InsertRefundsAndPayout(r, value, adjust) ==
  IF r.err # "none" THEN r
  ELSE InsertTransfer(InsertRefunds([r EXCEPT !.b.reserved = 0], adjust),
                      "payout", FeeRecipient, value)

\* true_block_value
TrueBlockValue(b) == b.coinbase_profit - PayoutGas * BaseFee - MevBlockerPrice

\* finalize_block_execution
FinalizeBlockExecution(b, value, adjust) ==
  LET r == InsertRefundsAndPayout(InsertConstraints(b), value, adjust) IN
  IF r.err = "none" /\ TrueBlockValue(r.b) < 0 THEN [r EXCEPT !.err = "profit"] ELSE r

--------------------------------------------------------------------------------
\* process_requests: the system contracts and the withdrawals, one revert.
ProcessRequests(b) == Apply(b, System :> b.accounts[System] + 1)

\* get_changes_for_last_reverts
LastChanged(b, n) ==
  UNION {DOMAIN b.reverts[i] : i \in (Len(b.reverts) - n + 1) .. Len(b.reverts)}

\* calculate_receipts_data: an adjustment takes the blooms of all receipts but
\* the last from the previous finalization, and zips them with the receipts.
Blooms(b, adjust) ==
  Append(IF adjust THEN cache.blooms ELSE Front(b.executed), Last(b.executed))

Receipts(b, blooms) ==
  [i \in 1 .. Min({Len(blooms), Len(b.executed)}) |-> << b.executed[i], blooms[i] >>]

\* The cached receipt and transaction tries: an adjustment inserts the last leaf.
InsertLast(trie, leaves) ==
  [i \in 1 .. Max({Len(trie), Len(leaves)}) |-> IF i = Len(leaves) THEN leaves[i] ELSE trie[i]]

Trie(trie, leaves, adjust) ==
  IF adjust /\ FasterFinalize THEN InsertLast(trie, leaves) ELSE leaves

\* state_root: an adjustment updates the accounts changed by the last
\* state_reverts of this and of the previous finalization.
StateRoot(b, adjust) ==
  [a \in Accounts |-> IF ~adjust \/ a \in cache.changed \cup LastChanged(b, 2)
                      THEN b.accounts[a] ELSE cache.state[a]]

Caches(b, adjust) ==
  LET blooms == Blooms(b, adjust) IN
  [blooms   |-> Front(blooms),
   receipts |-> Trie(cache.receipts, Receipts(b, blooms), adjust),
   txs      |-> Trie(cache.txs, b.executed, adjust),
   changed  |-> LastChanged(b, 2),
   state    |-> StateRoot(b, adjust)]

\* PartialBlock::finalize
Header(b, c) ==
  [body |-> b.executed, gas_used |-> b.space_used,
   transactions_root |-> c.txs, receipts_root |-> c.receipts, state_root |-> c.state]

\* finalize_block_impl on a block that is in its state before the payout.
FinalizeBlockImpl(b, value, adjust, root_ok) ==
  LET r == FinalizeBlockExecution(b, value, adjust)
      done == ProcessRequests(r.b)
      c == Caches(done, adjust) IN
  /\ appended' = appended \o r.new
  /\ IF r.err = "none" /\ root_ok
     THEN /\ block' = done
          /\ cache' = c
          /\ header' = Header(done, c)
          /\ adjustment' = [some |-> TRUE, last_tx_block_space |-> PayoutGas, state_reverts |-> 2]
          /\ phase' = "finalized"
          /\ UNCHANGED failure
     ELSE /\ block' = r.b
          /\ adjustment' = [some |-> FALSE, last_tx_block_space |-> 0, state_reverts |-> 0]
          /\ phase' = "failed"
          /\ failure' = IF r.err = "none" THEN "root" ELSE r.err
          /\ UNCHANGED << cache, header >>

\* finalize_block
FinalizeBlock(value, root_ok) ==
  /\ phase = "filling"
  /\ prefinal' = block
  /\ FinalizeBlockImpl(block, value, FALSE, root_ok)
  /\ UNCHANGED << tried, adjusts >>

\* Mutant: the system calls after the payout are not reverted.
RevertPayoutOnly(b) ==
  [Revert(b, 1) EXCEPT !.space_used = @ - adjustment.last_tx_block_space, !.executed = Front(@)]

\* adjust_finalize_block_revert_to_prefinalized_state
RevertToPrefinalizedState(b) ==
  [Revert(b, adjustment.state_reverts) EXCEPT
     !.space_used = @ - adjustment.last_tx_block_space,
     !.executed = Front(@)]

\* adjust_finalized_block
AdjustFinalizedBlock(value, root_ok) ==
  /\ phase = "finalized"
  /\ adjustment.some
  /\ adjusts < MaxAdjusts
  /\ adjusts' = adjusts + 1
  /\ FinalizeBlockImpl(RevertToPrefinalizedState(block), value, TRUE, root_ok)
  /\ UNCHANGED << tried, prefinal >>

--------------------------------------------------------------------------------
\* new_with_execution_tracer: the space of the payout is reserved.
Init ==
  /\ block = [accounts |-> [a \in Accounts |-> IF a = Coinbase THEN BuilderBalance ELSE 0],
              reverts |-> << >>, space_used |-> 0, reserved |-> PayoutGas,
              coinbase_profit |-> 0, executed |-> << >>,
              combined_refunds |-> << >>, delayed_refund |-> 0]
  /\ tried = {}
  /\ adjustment = [some |-> FALSE, last_tx_block_space |-> 0, state_reverts |-> 0]
  /\ cache = [blooms |-> << >>, receipts |-> << >>, txs |-> << >>, changed |-> {},
              state |-> block.accounts]
  /\ header = Header(block, cache)
  /\ appended = << >>
  /\ phase = "filling"
  /\ failure = "none"
  /\ adjusts = 0
  /\ prefinal = block

Next ==
  \/ \E o \in Orders, accepted \in BOOLEAN : CommitOrder(o, accepted)
  \/ \E v \in PayoutValues, root_ok \in BOOLEAN : FinalizeBlock(v, root_ok)
  \/ \E v \in PayoutValues, root_ok \in BOOLEAN : AdjustFinalizedBlock(v, root_ok)

Spec == Init /\ [][Next]_vars

--------------------------------------------------------------------------------
\* The state has its shape: profits and space never go negative (U256 and the
\* checked subtraction of BlockSpace would panic), and only a finalized block
\* can be adjusted.
TypeOK ==
  /\ block.accounts \in [Accounts -> Nat]
  /\ {block.space_used, block.reserved, block.coinbase_profit, block.delayed_refund} \subseteq Nat
  /\ DOMAIN block.combined_refunds \subseteq Recipients
  /\ tried \subseteq Orders
  /\ phase \in {"filling", "finalized", "failed"}
  /\ failure \in {"none", "decode", "gas", "funds", "profit", "root"}
  /\ adjustment.some <=> phase = "finalized"
  /\ failure # "none" <=> phase = "failed"
  /\ adjusts \in 0 .. MaxAdjusts

\* What the orders used and what is reserved for the refunds and the payout fit
\* together in the gas available, so the transfers promised while the block was
\* filled still fit when it is finalized for the first time, whatever constraint
\* transactions were appended in between.
FinalizeKeepsItsGas ==
  /\ block.space_used + block.reserved <= GasAvailable
  /\ failure = "gas" => adjusts > 0

\* What appended constraint transactions took from the coinbase.
TakenByConstraints ==
  FoldLeft(LAMBDA acc, t : acc + IF Tx[t].profit < 0 THEN -Tx[t].profit ELSE 0, 0, appended)

\* The value the block can pay is what it earned: a finalized block whose payout
\* is at most its true value leaves the coinbase with no less than it had, after
\* every refund is paid and with the delayed ones still to pay.  What an appended
\* constraint transaction takes from the coinbase is lost twice, since
\* execute_constraint_transaction counts it as earned, and nothing else is lost.
BidsWithinValueLoseNothing ==
  phase = "finalized" /\ Last(block.executed)[3] <= TrueBlockValue(block)
    => block.accounts[Coinbase] + 2 * TakenByConstraints
         >= BuilderBalance + block.delayed_refund + MevBlockerPrice

\* The header describes the block it is sealed with: its transactions and
\* receipts roots those of its body, its state root that of its final state.
HeaderMatchesBlock(h, b) ==
  /\ h.body = b.executed
  /\ h.gas_used = b.space_used
  /\ h.transactions_root = b.executed
  /\ h.receipts_root = [i \in DOMAIN b.executed |-> << b.executed[i], b.executed[i] >>]
  /\ h.state_root = b.accounts

\* Any number of adjustments leaves the block that a single finalization with
\* the last payout would have made, header included: one payout, the last
\* transaction, the refunds once, no nonce of the builder lost.  An adjustment
\* that appends a constraint transaction the first finalization had passed over
\* is the exception.
AdjustMatchesFinalize ==
  phase = "finalized" /\ appended = InsertConstraints(prefinal).new =>
    LET v == Last(block.executed)[3]
        fresh == ProcessRequests(FinalizeBlockExecution(prefinal, v, FALSE).b) IN
    /\ [block EXCEPT !.reverts = << >>] = [fresh EXCEPT !.reverts = << >>]
    /\ HeaderMatchesBlock(header, block)

\* A refund promised to a recipient without code is paid in every finalized
\* block, once and in full, whatever number of adjustments followed.
RefundsPaidOnce ==
  phase = "finalized" =>
    \A to \in DOMAIN block.combined_refunds \ Contracts :
      LET paid == SelectSeq(block.executed, LAMBDA e : e[1] = "refund" /\ e[2] = to) IN
      /\ << "refund", to, block.combined_refunds[to] >> \in {paid[i] : i \in DOMAIN paid}
      /\ Len(paid) = 1

\* The gas reserved for the constraint transactions is there for them: one that
\* is missing from a finalized block is not executable in its final state.
ReservedGasServesConstraints ==
  phase = "finalized" /\ ConstraintReservedGas <= GasLimit =>
    \A i \in DOMAIN Constraints :
      LET t == Constraints[i] IN
      Tx[t].nonce = block.accounts[Tx[t].signer] => t \in Present(block)
================================================================================
