-------------------------- MODULE ConstraintProofs --------------------------
(***************************************************************************)
(* Merkle inclusion proofs of constraint transactions: the observer that   *)
(* spawns a task per submitted block, the task that proves the appended    *)
(* constraints one by one, and the storage the proof RPC reads.            *)
(*                                                                         *)
(* A trie stands for the sequence of its encoded values (two tries have    *)
(* the same root exactly when they hold the same values), so a root is     *)
(* that sequence and a proof names the root it verifies against.           *)
(***************************************************************************)
EXTENDS Naturals, Sequences, FiniteSets, TLC

LOCAL Sx == INSTANCE SequencesExt
LOCAL Fx == INSTANCE FiniteSetsExt

CONSTANTS Blocks,            \* the blocks that may be submitted, by hash
          Txs,
          Typed,             \* the transactions with an EIP-2718 type byte
          Slot,              \* slot of a block
          Body,              \* its transactions
          Appended,          \* appended_constraint_txs of its trace
          MaxSlotsToKeep,    \* MAX_SLOTS_TO_KEEP
          MaxTasks           \* bound on the notifications of the observer

ASSUME ProofsAssumption ==
    /\ Typed \subseteq Txs
    /\ Slot \in [Blocks -> Nat]
    /\ Body \in [Blocks -> Seq(Txs)] /\ Appended \in [Blocks -> Seq(Txs)]
    /\ MaxSlotsToKeep \in Nat \ {0} /\ MaxTasks \in Nat

VARIABLES submitted,   \* the blocks the observer was told of
          tasks,       \* proof tasks: the block and the constraints left
          storage      \* slot -> block hash -> its proofs

proofVars == <<submitted, tasks, storage>>

ProofInit ==
    /\ submitted = {}
    /\ tasks = <<>>
    /\ storage = [s \in {} |-> <<>>]

----------------------------------------------------------------------------
(* What the code encodes *)

\* encode_2718, with which the block's own transactions root is computed.
Encode2718(t) == <<t>>

\* The RLP encoding of a signed transaction: as above for a legacy one, and
\* wrapped in a string header when the transaction has a type.
Encode(t) == IF t \in Typed THEN <<"string", t>> ELSE <<t>>

HeaderRoot(b) == [i \in DOMAIN Body[b] |-> Encode2718(Body[b][i])]

\* TransactionTrieBuilder::build and root.
TrieRoot(b) == [i \in DOMAIN Body[b] |-> Encode(Body[b][i])]

\* find_tx_index: the first transaction with the hash, 0 when there is none.
FindTxIndex(b, t) == Sx!SelectInSeq(Body[b], LAMBDA u : u = t)

GenerateSingleProof(b, t) ==
    [tx |-> t, index |-> FindTxIndex(b, t), root |-> TrieRoot(b), slot |-> Slot[b]]

----------------------------------------------------------------------------
(* ConstraintProofStorage *)

\* Mutant: the entry of the block is replaced, not extended.
WithProofReplaced(blocks, b, proof) == (b :> <<proof>>) @@ blocks

WithProof(blocks, b, proof) ==
    (b :> Append(IF b \in DOMAIN blocks THEN blocks[b] ELSE <<>>, proof)) @@ blocks

\* Mutant: the slot just written is the one to go.
EvictWritten(st, slot) ==
    IF Cardinality(DOMAIN st) > MaxSlotsToKeep
      THEN [s \in DOMAIN st \ {slot} |-> st[s]]
      ELSE st

\* Keep MAX_SLOTS_TO_KEEP slots: the oldest goes, whichever was written.
Evict(st, slot) ==
    IF Cardinality(DOMAIN st) > MaxSlotsToKeep
      THEN [s \in DOMAIN st \ {Fx!Min(DOMAIN st)} |-> st[s]]
      ELSE st

\* add_proof, under the write lock.
AddProof(st, slot, b, proof) ==
    LET blocks == IF slot \in DOMAIN st THEN st[slot] ELSE [h \in {} |-> <<>>]
    IN  Evict((slot :> WithProof(blocks, b, proof)) @@ st, slot)

----------------------------------------------------------------------------
(* ConstraintProofObserver *)

\* The early return of block_submitted.
Spawns(b) == Appended[b] # <<>>

\* n calls of block_submitted for block b: a background task each.
BlockSubmitted(b, n) ==
    /\ submitted' = IF n > 0 THEN submitted \cup {b} ELSE submitted
    /\ tasks' = IF Spawns(b)
                  THEN tasks \o [i \in 1 .. n |-> [block |-> b, left |-> Appended[b]]]
                  ELSE tasks

\* One turn of the loop of generate_and_log_constraint_proofs of task i: the
\* proof of its next constraint is generated and stored, or reported missing.
GenerateProof(i) ==
    /\ tasks[i].left # <<>>
    /\ LET b == tasks[i].block
           t == Head(tasks[i].left)
       IN  storage' = IF FindTxIndex(b, t) = 0
                        THEN storage
                        ELSE AddProof(storage, Slot[b], b, GenerateSingleProof(b, t))
    /\ tasks' = [tasks EXCEPT ![i].left = Tail(@)]
    /\ UNCHANGED submitted

\* A relay job submits a block, in any order of blocks and slots.
Submit(b) ==
    /\ Len(tasks) < MaxTasks
    /\ BlockSubmitted(b, 1)
    /\ UNCHANGED storage

----------------------------------------------------------------------------
(* Properties *)

Proof == [tx : Txs, index : Nat, root : {TrieRoot(b) : b \in Blocks}, slot : Nat]

\* The shape of the tasks and of the storage.
ProofTypeOK ==
    /\ submitted \subseteq Blocks
    /\ \A i \in DOMAIN tasks :
         /\ tasks[i].block \in submitted
         /\ Sx!IsSuffix(tasks[i].left, Appended[tasks[i].block])
    /\ \A s \in DOMAIN storage : \A b \in DOMAIN storage[s] :
         /\ b \in submitted /\ Slot[b] = s
         /\ storage[s][b] \in Seq(Proof) /\ storage[s][b] # <<>>

\* The slots some proof was stored for.
ProvedSlots ==
    {Slot[tasks[i].block] : i \in {j \in DOMAIN tasks :
        tasks[j].left # Appended[tasks[j].block]}}

Newer(s) == {u \in ProvedSlots : u > s}

\* Whatever the order in which tasks of different slots run, the storage holds
\* the newest MAX_SLOTS_TO_KEEP slots that have proofs: a late proof of an old
\* slot never costs a newer one its place.
NewestSlotsAreKept ==
    DOMAIN storage = {s \in ProvedSlots : Cardinality(Newer(s)) < MaxSlotsToKeep}

\* What the RPC serves for a block of a kept slot is complete: every constraint
\* its task has been through has a proof with the position it has in the block.
\* Eviction and concurrent tasks lose none of them.
KeptProofsAreComplete ==
    \A i \in DOMAIN tasks :
        LET b == tasks[i].block
            done == Len(Appended[b]) - Len(tasks[i].left)
        IN  Slot[b] \in DOMAIN storage =>
              \A k \in 1 .. done :
                  \E j \in DOMAIN storage[Slot[b]][b] :
                      LET proof == storage[Slot[b]][b][j]
                      IN  /\ proof.tx = Appended[b][k]
                          /\ Body[b][proof.index] = proof.tx

\* A stored proof verifies against the transactions root of the block's header.
\* (The code builds its trie over another encoding: the roots differ as soon as
\* a transaction of the block has a type.)
ProofsVerifyAgainstHeader ==
    \A s \in DOMAIN storage : \A b \in DOMAIN storage[s] :
        \A j \in DOMAIN storage[s][b] : storage[s][b][j].root = HeaderRoot(b)

============================================================================
