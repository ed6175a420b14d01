------------------------------ MODULE Sealing ------------------------------
(***************************************************************************)
(* What happens to a block between a building algorithm and the relay      *)
(* submission job, for one slot: UnfinishedBuiltBlocksInput and its        *)
(* threads.                                                                *)
(*                                                                         *)
(*   builder threads     new_block: the best of the last blocks of every   *)
(*                       algorithm is chosen under a lock, and handed over *)
(*                       through a Watch after the lock is released;       *)
(*   prefinalize_worker  takes the last chosen block, recycles a context,  *)
(*                       prefinalizes, publishes the block and tells the   *)
(*                       bidder;                                           *)
(*   bidder              seal_bid for a block it was told about: finds the *)
(*                       block, drops the older ones and leaves a command  *)
(*                       for the finalize worker of every relay set;       *)
(*   finalize_worker     one per relay set: locks the block, adjusts it to *)
(*                       the bid and hands it to the relay job.            *)
(*                                                                         *)
(* The workers look at the cancellation token of the slot between blocks.  *)
(*                                                                         *)
(* A block stands for its orders: `txs` names the transactions, Value its  *)
(* true block value.  What finalizing does to a block is in BlockBuilding; *)
(* here it succeeds or fails.                                              *)
(***************************************************************************)
EXTENDS Naturals, Sequences

LOCAL Sx == INSTANCE SequencesExt

CONSTANTS Algorithms,    \* building algorithms, one thread each
          TxLists,       \* the transaction lists a block may have
          Value,         \* true_block_value of a block with these transactions
          RelaySets,
          MaxBlocks,     \* bound on the blocks built
          MaxBids,       \* bound on the bids of the bidder
          None

ASSUME SealingAssumption ==
    /\ Value \in [TxLists -> Nat]
    /\ MaxBlocks \in Nat /\ MaxBids \in Nat
    /\ None \notin TxLists

VARIABLES
    nextId,                  \* BuiltBlockIdSource
    builder,                 \* algorithm -> what its thread is doing
    lastBlockByAlgorithm,    \* BestBlockFromAlgorithms
    lastBestBlockHash,       \*   and the transactions last chosen
    lastUnfinalizedBlock,    \* Watch<BiddableUnfinishedBlock>
    prefinalizer,            \* prefinalize_worker
    inners,                  \* the PrefinalizedBlockInners ever made
    multiBlocks,             \* pre_finalized_multi_blocks
    listLocked,              \* ... its mutex is held across a step
    unused,                  \* unused_prefinalized_block_inners
    bidder,                  \* the thread in seal_bid
    bids,                    \* the block ids bid for so far, in order
    lastFinalizeCommand,     \* relay set -> Watch<FinalizeCommand>
    finalizer,               \* relay set -> finalize_worker
    sink,                    \* relay set -> the bid of the last block handed on
    cancelled                \* cancellation_token

vars == <<nextId, builder, lastBlockByAlgorithm, lastBestBlockHash,
          lastUnfinalizedBlock, prefinalizer, inners, multiBlocks, listLocked,
          unused, bidder, bids, lastFinalizeCommand, finalizer, sink, cancelled>>

building == <<nextId, builder, lastBlockByAlgorithm, lastBestBlockHash>>
sealing == <<bidder, bids, lastFinalizeCommand, finalizer, sink, cancelled>>

Ids == 0 .. MaxBlocks - 1
Blocks == [id : Ids, txs : TxLists]

\* A prefinalized copy is one PrefinalizedBlock per relay set, numbered by the
\* turn of the worker that made it.
Copies == 1 .. Len(inners)
Commands == [copy : Copies, bid : 1 .. MaxBids]

Range(s) == {s[i] : i \in DOMAIN s}

----------------------------------------------------------------------------
(* The builder threads *)

Init ==
    /\ nextId = 0
    /\ builder = [a \in Algorithms |-> [pc |-> "idle"]]
    /\ lastBlockByAlgorithm = [a \in Algorithms |-> None]
    /\ lastBestBlockHash = None
    /\ lastUnfinalizedBlock = None
    /\ prefinalizer = [pc |-> "wait"]
    /\ inners = <<>>
    /\ multiBlocks = <<>>
    /\ listLocked = FALSE
    /\ unused = <<>>
    /\ bidder = [pc |-> "idle"]
    /\ bids = <<>>
    /\ lastFinalizeCommand = [r \in RelaySets |-> None]
    /\ finalizer = [r \in RelaySets |-> [pc |-> "wait"]]
    /\ sink = [r \in RelaySets |-> 0]
    /\ cancelled = FALSE

\* The id of a block is drawn when its building starts, so blocks of two
\* algorithms may arrive in the other order.
StartBuild(a) ==
    /\ builder[a].pc = "idle"
    /\ nextId < MaxBlocks
    /\ nextId' = nextId + 1
    /\ builder' = [builder EXCEPT ![a] = [pc |-> "building", id |-> nextId]]
    /\ UNCHANGED <<lastBlockByAlgorithm, lastBestBlockHash, lastUnfinalizedBlock,
                   prefinalizer, inners, multiBlocks, listLocked, unused>>
    /\ UNCHANGED sealing

\* max_by_key over the values of a hash map: any of the best ones.
Best(last) ==
    LET present == {last[a] : a \in Algorithms} \ {None}
    IN  {b \in present : \A other \in present : Value[other.txs] <= Value[b.txs]}

\* BestBlockFromAlgorithms::update_with_new_block, under its lock.  The chosen
\* block is still in the hands of the builder thread.
UpdateWithNewBlock(a, txs) ==
    /\ builder[a].pc = "building"
    /\ LET last == [lastBlockByAlgorithm EXCEPT ![a] =
                        [id |-> builder[a].id, txs |-> txs]]
       IN  \E best \in Best(last) :
             /\ lastBlockByAlgorithm' = last
             /\ lastBestBlockHash' = best.txs
             /\ builder' = [builder EXCEPT ![a] =
                    IF lastBestBlockHash = best.txs
                      THEN [pc |-> "idle"]
                      ELSE [pc |-> "chosen", block |-> best]]
    /\ UNCHANGED <<nextId, lastUnfinalizedBlock, prefinalizer, inners,
                   multiBlocks, listLocked, unused>>
    /\ UNCHANGED sealing

\* The end of new_block: the Watch keeps only the last value.
SetLastUnfinalizedBlock(a) ==
    /\ builder[a].pc = "chosen"
    /\ lastUnfinalizedBlock' = builder[a].block
    /\ builder' = [builder EXCEPT ![a] = [pc |-> "idle"]]
    /\ UNCHANGED <<nextId, lastBlockByAlgorithm, lastBestBlockHash, prefinalizer,
                   inners, multiBlocks, listLocked, unused>>
    /\ UNCHANGED sealing

----------------------------------------------------------------------------
(* prefinalize_worker *)

\* The head of both workers' loops, which end with the slot.  A worker in
\* wait_for_data still takes what comes before its wait times out.
LoopHead == [pc |-> IF cancelled THEN "ended" ELSE "wait"]

PrefinalizerEnds ==
    /\ prefinalizer.pc = "wait" /\ cancelled
    /\ prefinalizer' = LoopHead
    /\ UNCHANGED building
    /\ UNCHANGED <<lastUnfinalizedBlock, inners, multiBlocks, listLocked, unused>>
    /\ UNCHANGED sealing

WaitForBlock ==
    /\ prefinalizer.pc = "wait"
    /\ lastUnfinalizedBlock # None
    /\ prefinalizer' = [pc |-> "localCtx", block |-> lastUnfinalizedBlock]
    /\ lastUnfinalizedBlock' = None
    /\ UNCHANGED building
    /\ UNCHANGED <<inners, multiBlocks, listLocked, unused>>
    /\ UNCHANGED sealing

\* local_ctx pops a recycled inner and keeps the mutex of the list of unused
\* ones while it waits for the inner's own mutex.
PopUnused ==
    /\ prefinalizer.pc = "localCtx"
    /\ prefinalizer' =
         IF unused = <<>>
           THEN [prefinalizer EXCEPT !.pc = "finalize"]
           ELSE [pc |-> "lockInner", block |-> prefinalizer.block,
                 inner |-> unused[Len(unused)]]
    /\ unused' = IF unused = <<>> THEN <<>> ELSE Sx!Front(unused)
    /\ UNCHANGED building
    /\ UNCHANGED <<lastUnfinalizedBlock, inners, multiBlocks, listLocked>>
    /\ UNCHANGED sealing

UnusedLocked == prefinalizer.pc = "lockInner"

InnerLocked(copy, r) ==
    finalizer[r].pc \in {"locked", "failed"} /\ finalizer[r].command.copy = copy

\* ... takes the context of the inner, which cannot be finalized from then on.
TakeContext ==
    /\ prefinalizer.pc = "lockInner"
    /\ ~InnerLocked(prefinalizer.inner[1], prefinalizer.inner[2])
    /\ inners' = [inners EXCEPT ![prefinalizer.inner[1]].localCtx[prefinalizer.inner[2]] = FALSE]
    /\ prefinalizer' = [pc |-> "finalize", block |-> prefinalizer.block]
    /\ UNCHANGED building
    /\ UNCHANGED <<lastUnfinalizedBlock, multiBlocks, listLocked, unused>>
    /\ UNCHANGED sealing

\* The block is prefinalized, cloned for every relay set and published; the
\* bidder learns its id.
Prefinalize ==
    /\ prefinalizer.pc = "finalize"
    /\ ~listLocked
    /\ inners' = Append(inners,
           [id |-> prefinalizer.block.id,
            localCtx |-> [r \in RelaySets |-> TRUE],
            failed |-> [r \in RelaySets |-> FALSE]])
    /\ multiBlocks' = Append(multiBlocks, Len(inners) + 1)
    /\ prefinalizer' = LoopHead
    /\ UNCHANGED building
    /\ UNCHANGED <<lastUnfinalizedBlock, listLocked, unused>>
    /\ UNCHANGED sealing

\* true_block_value or finalize_block fails: the block and the context are gone.
PrefinalizeFails ==
    /\ prefinalizer.pc = "finalize"
    /\ prefinalizer' = LoopHead
    /\ UNCHANGED building
    /\ UNCHANGED <<lastUnfinalizedBlock, inners, multiBlocks, listLocked, unused>>
    /\ UNCHANGED sealing

----------------------------------------------------------------------------
(* seal_bid *)

IdOf(copy) == inners[copy].id

\* Mutant: the first block that is not older is taken.
FoundAtLeast(list, id) == Sx!SelectInSeq(list, LAMBDA c : IdOf(c) >= id)

\* Where the scan of do_seal_command stops: at the first block with the id.
FoundAt(list, id) == Sx!SelectInSeq(list, LAMBDA c : IdOf(c) = id)

ScannedPart(list, id) ==
    IF FoundAt(list, id) = 0 THEN list ELSE SubSeq(list, 1, FoundAt(list, id) - 1)

\* Mutant: everything in front of the block bid for is dropped.
IsAnother(copy, id) == IdOf(copy) # id

IsOlder(copy, id) == IdOf(copy) < id

\* The blocks removed and the blocks kept, in the order of the list.
Dropped(list, id) ==
    SelectSeq(ScannedPart(list, id), LAMBDA c : IsOlder(c, id))

KeptBlocks(list, id) ==
    SelectSeq(ScannedPart(list, id), LAMBDA c : ~IsOlder(c, id))
        \o SubSeq(list, Len(ScannedPart(list, id)) + 1, Len(list))

\* Mutant: the list stays locked until the older blocks are recycled.
ScanKeepingLock(id, payouts) ==
    /\ bidder.pc = "idle" /\ ~listLocked
    /\ Len(bids) < MaxBids
    /\ bids' = Append(bids, id)
    /\ multiBlocks' = KeptBlocks(multiBlocks, id)
    /\ listLocked' = TRUE
    /\ bidder' = [pc |-> "recycle", dropped |-> Dropped(multiBlocks, id),
                  found |-> IF FoundAt(multiBlocks, id) = 0 THEN None
                              ELSE multiBlocks[FoundAt(multiBlocks, id)],
                  payouts |-> payouts]
    /\ UNCHANGED building
    /\ UNCHANGED <<lastUnfinalizedBlock, prefinalizer, inners, unused,
                   lastFinalizeCommand, finalizer, sink, cancelled>>

\* The first part of do_seal_command, under the mutex of the list: a bid for
\* block id, with a payout for each of the relay sets in payouts.
Scan(id, payouts) ==
    /\ bidder.pc = "idle" /\ ~listLocked
    /\ Len(bids) < MaxBids
    /\ bids' = Append(bids, id)
    /\ multiBlocks' = KeptBlocks(multiBlocks, id)
    /\ bidder' = [pc |-> "recycle", dropped |-> Dropped(multiBlocks, id),
                  found |-> IF FoundAt(multiBlocks, id) = 0 THEN None
                              ELSE multiBlocks[FoundAt(multiBlocks, id)],
                  payouts |-> payouts]
    /\ UNCHANGED building
    /\ UNCHANGED <<lastUnfinalizedBlock, prefinalizer, inners, listLocked, unused,
                   lastFinalizeCommand, finalizer, sink, cancelled>>

\* Mutant: the block bid for is recycled too.
AlsoTheFound(dropped, found) == IF found = None THEN dropped ELSE Append(dropped, found)

Recycled(dropped, found) == dropped

\* One inner of each dropped block is recycled: that of whichever relay set the
\* hash map yields first.
Recycle ==
    /\ bidder.pc = "recycle"
    /\ ~UnusedLocked
    /\ LET recycled == Recycled(bidder.dropped, bidder.found)
       IN  \E first \in [DOMAIN recycled -> RelaySets] :
             unused' = unused \o [i \in DOMAIN recycled |-> <<recycled[i], first[i]>>]
    /\ listLocked' = FALSE
    /\ bidder' = [pc |-> "command", found |-> bidder.found,
                  payouts |-> bidder.payouts]
    /\ UNCHANGED building
    /\ UNCHANGED <<lastUnfinalizedBlock, prefinalizer, inners, multiBlocks, bids,
                   lastFinalizeCommand, finalizer, sink, cancelled>>

\* A command for the finalize worker of every relay set paid; nothing when the
\* block was not found.
SetFinalizeCommands ==
    /\ bidder.pc = "command"
    /\ lastFinalizeCommand' = [r \in RelaySets |->
           IF bidder.found # None /\ r \in bidder.payouts
             THEN [copy |-> bidder.found, bid |-> Len(bids)]
             ELSE lastFinalizeCommand[r]]
    /\ bidder' = [pc |-> "idle"]
    /\ UNCHANGED building
    /\ UNCHANGED <<lastUnfinalizedBlock, prefinalizer, inners, multiBlocks,
                   listLocked, unused, bids, finalizer, sink, cancelled>>

----------------------------------------------------------------------------
(* finalize_worker of relay set r *)

WaitForCommand(r) ==
    /\ finalizer[r].pc = "wait"
    /\ lastFinalizeCommand[r] # None
    /\ finalizer' = [finalizer EXCEPT ![r] =
                        [pc |-> "lock", command |-> lastFinalizeCommand[r]]]
    /\ lastFinalizeCommand' = [lastFinalizeCommand EXCEPT ![r] = None]
    /\ UNCHANGED building
    /\ UNCHANGED <<lastUnfinalizedBlock, prefinalizer, inners, multiBlocks,
                   listLocked, unused, bidder, bids, sink, cancelled>>

FinalizerEnds(r) ==
    /\ finalizer[r].pc = "wait" /\ cancelled
    /\ finalizer' = [finalizer EXCEPT ![r] = LoopHead]
    /\ UNCHANGED building
    /\ UNCHANGED <<lastUnfinalizedBlock, prefinalizer, inners, multiBlocks, listLocked,
                   unused, bidder, bids, lastFinalizeCommand, sink, cancelled>>

LockInner(r) ==
    /\ finalizer[r].pc = "lock"
    /\ finalizer' = [finalizer EXCEPT ![r].pc = "locked"]
    /\ UNCHANGED building
    /\ UNCHANGED <<lastUnfinalizedBlock, prefinalizer, inners, multiBlocks,
                   listLocked, unused, bidder, bids, lastFinalizeCommand, sink,
                   cancelled>>

HasContext(r) == inners[finalizer[r].command.copy].localCtx[r]

\* finalize_block succeeds and the block goes to the relay job.
Finalize(r) ==
    /\ finalizer[r].pc = "locked" /\ HasContext(r)
    /\ sink' = [sink EXCEPT ![r] = finalizer[r].command.bid]
    /\ finalizer' = [finalizer EXCEPT ![r] = LoopHead]
    /\ UNCHANGED building
    /\ UNCHANGED <<lastUnfinalizedBlock, prefinalizer, inners, multiBlocks,
                   listLocked, unused, bidder, bids, lastFinalizeCommand, cancelled>>

\* Ok(None): the context was recycled.
Discard(r) ==
    /\ finalizer[r].pc = "locked" /\ ~HasContext(r)
    /\ finalizer' = [finalizer EXCEPT ![r] = LoopHead]
    /\ UNCHANGED building
    /\ UNCHANGED <<lastUnfinalizedBlock, prefinalizer, inners, multiBlocks,
                   listLocked, unused, bidder, bids, lastFinalizeCommand, sink,
                   cancelled>>

\* finalize_block fails, with the inner's mutex held ...
FinalizeFails(r) ==
    /\ finalizer[r].pc = "locked" /\ HasContext(r)
    /\ inners' = [inners EXCEPT ![finalizer[r].command.copy].failed[r] = TRUE]
    /\ finalizer' = [finalizer EXCEPT ![r].pc = "failed"]
    /\ UNCHANGED building
    /\ UNCHANGED <<lastUnfinalizedBlock, prefinalizer, multiBlocks, listLocked, unused,
                   bidder, bids, lastFinalizeCommand, sink, cancelled>>

\* ... and still held when the worker takes that of the list: every block with
\* the id leaves it.
RemoveFailed(r) ==
    /\ finalizer[r].pc = "failed"
    /\ ~listLocked
    /\ multiBlocks' = SelectSeq(multiBlocks,
                          LAMBDA c : IdOf(c) # IdOf(finalizer[r].command.copy))
    /\ finalizer' = [finalizer EXCEPT ![r] = LoopHead]
    /\ UNCHANGED building
    /\ UNCHANGED <<lastUnfinalizedBlock, prefinalizer, inners, listLocked, unused,
                   bidder, bids, lastFinalizeCommand, sink, cancelled>>

----------------------------------------------------------------------------

Builder(a) ==
    \/ StartBuild(a)
    \/ \E txs \in TxLists : UpdateWithNewBlock(a, txs)
    \/ SetLastUnfinalizedBlock(a)

Prefinalizer ==
    PrefinalizerEnds \/ WaitForBlock \/ PopUnused \/ TakeContext
        \/ Prefinalize \/ PrefinalizeFails

\* The bidder bids for any block it was told of, when it likes.
NewBid ==
    \E copy \in Copies, payouts \in SUBSET RelaySets : Scan(IdOf(copy), payouts)

Finalizer(r) ==
    \/ FinalizerEnds(r) \/ WaitForCommand(r) \/ LockInner(r)
    \/ Finalize(r) \/ Discard(r)
    \/ FinalizeFails(r) \/ RemoveFailed(r)

\* The slot ends.
CancelSlot ==
    /\ ~cancelled
    /\ cancelled' = TRUE
    /\ UNCHANGED building
    /\ UNCHANGED <<lastUnfinalizedBlock, prefinalizer, inners, multiBlocks, listLocked,
                   unused, bidder, bids, lastFinalizeCommand, finalizer, sink>>

Next ==
    \/ \E a \in Algorithms : Builder(a)
    \/ Prefinalizer
    \/ CancelSlot
    \/ NewBid \/ Recycle \/ SetFinalizeCommands
    \/ \E r \in RelaySets : Finalizer(r)

Spec == Init /\ [][Next]_vars

\* The workers poll their Watch, and seal_bid runs to its end unless a lock stops
\* it.  Nothing is assumed of the builders.
FairSpec ==
    /\ Spec
    /\ WF_vars(Prefinalizer)
    /\ WF_vars(Recycle \/ SetFinalizeCommands)
    /\ \A r \in RelaySets : WF_vars(Finalizer(r))

----------------------------------------------------------------------------
(* Properties *)

\* The shape of the state, and where a thread may be; a command is for the block
\* of the bid it was made for, whatever blocks left the list before.
TypeOK ==
    /\ nextId \in 0 .. MaxBlocks
    /\ \A a \in Algorithms :
         /\ builder[a].pc \in {"idle", "building", "chosen"}
         /\ lastBlockByAlgorithm[a] \in Blocks \cup {None}
    /\ lastBestBlockHash \in TxLists \cup {None}
    /\ lastUnfinalizedBlock \in Blocks \cup {None}
    /\ prefinalizer.pc \in {"wait", "localCtx", "lockInner", "finalize", "ended"}
    /\ cancelled \in BOOLEAN
    /\ inners \in Seq([id : Ids, localCtx : [RelaySets -> BOOLEAN],
                       failed : [RelaySets -> BOOLEAN]])
    /\ multiBlocks \in Seq(Copies) /\ unused \in Seq(Copies \X RelaySets)
    /\ bidder.pc \in {"idle", "recycle", "command"}
    /\ bids \in Seq(Ids) /\ Len(bids) <= MaxBids
    /\ \A r \in RelaySets :
         /\ \/ lastFinalizeCommand[r] = None
            \/ /\ lastFinalizeCommand[r] \in Commands
               /\ IdOf(lastFinalizeCommand[r].copy) = bids[lastFinalizeCommand[r].bid]
         /\ finalizer[r].pc \in {"wait", "lock", "locked", "failed", "ended"}
         /\ sink[r] \in 0 .. MaxBids

Superseded(copy) == \E id \in Range(bids) : IdOf(copy) < id

FailedId(id) == \E copy \in Copies : IdOf(copy) = id /\ TRUE \in Range(inners[copy].failed)

\* A published block can be bid for until a bid for a later block arrives or
\* its finalization fails: do_seal_command drops nothing else, whatever the
\* order in which blocks are chosen, prefinalized and bid for.
BlocksKeptUntilSuperseded ==
    \A copy \in Copies :
        copy \in Range(multiBlocks) \/ Superseded(copy) \/ FailedId(IdOf(copy))

\* "Prefinalized block was discarded" only ever happens to a block for which a
\* bid for a later block has arrived: recycling a context never takes it from
\* a block the bidder may still count on.
OnlySupersededLoseTheirContext ==
    \A copy \in Copies, r \in RelaySets :
        ~inners[copy].localCtx[r] => Superseded(copy)

\* The last bid of a relay set gets to the relay job unless a later bid
\* replaces it, its block lost its context or failed, or the slot ends: no
\* order of locks of the bidder, the prefinalize and the finalize workers
\* blocks it for ever.
BidsReachTheSink ==
    \A r \in RelaySets, n \in 1 .. MaxBids :
        (lastFinalizeCommand[r] # None /\ lastFinalizeCommand[r].bid = n)
            ~> \/ sink[r] >= n \/ cancelled
               \/ lastFinalizeCommand[r] # None /\ lastFinalizeCommand[r].bid > n
               \/ finalizer[r].pc = "wait" /\ \E copy \in Copies :
                    /\ n \in DOMAIN bids /\ IdOf(copy) = bids[n]
                    /\ ~inners[copy].localCtx[r] \/ inners[copy].failed[r]

\* The block that waits for prefinalization is the one last chosen as the best
\* of all algorithms, when no thread is in the middle of new_block.  (The code
\* does not guarantee it: the lock on the choice is released before the Watch
\* is set.)
WaitingBlockIsTheBest ==
    ((\A a \in Algorithms : builder[a].pc # "chosen") /\ lastUnfinalizedBlock # None)
        => lastUnfinalizedBlock.txs = lastBestBlockHash

============================================================================
