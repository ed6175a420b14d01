----------------------------- MODULE ConstraintPool -----------------------------
(***************************************************************************)
(* ConstraintPool (constraint_input/constraintpool.rs) behind the mutex of *)
(* ConstraintPoolSubscriber: the constraints of each block, the cache of   *)
(* known ones, and the sinks that are told of every event for their block. *)
(*                                                                         *)
(* A constraint is a value of which only the target block matters.  A sink *)
(* is a channel: it stands for the constraints its subscriber holds once   *)
(* it has read everything in it.                                           *)
(***************************************************************************)
EXTENDS Naturals, Sequences, SequencesExt, FiniteSets

CONSTANTS ConstraintIds,
          BlockOf,        \* their target block
          Blocks,
          KnownCapacity,  \* size of the LRU of known constraints (1_000)
          MaxSinks        \* bound on subscriptions

ASSUME PoolAssumption ==
  /\ Blocks \subseteq Nat
  /\ BlockOf \in [ConstraintIds -> Blocks]
  /\ KnownCapacity \in Nat \ {0}
  /\ MaxSinks \in Nat

VARIABLE pool,     \* the ConstraintPool and the channels of its sinks
         received, \* history: the constraints the pool was told of
         removed,  \* history: the blocks removed by a command
         asked     \* history: the highest block of get_constraints_for_block or block_updated

poolVars == << pool, received, removed, asked >>

Insert(c) == [op |-> "insert", id |-> c, block |-> BlockOf[c]]
RemoveBlock(b) == [op |-> "remove", block |-> b]
Commands == {Insert(c) : c \in ConstraintIds} \cup {RemoveBlock(b) : b \in Blocks}

\* The channel of a sink: a send fails once the receiver is gone.
IsAlive(p, i) == p.chan[i].open

--------------------------------------------------------------------------------
\* Mutant: a known constraint is stored again.
ProcessConstraintUnchecked(p, c) ==
  [p EXCEPT !.constraints_by_block[BlockOf[c]] = Append(@, c),
            !.known_constraints = << c >>]

\* process_constraint.  `contains` does not refresh the LRU entry, so the cache
\* is a queue.
ProcessConstraint(p, c) ==
  LET known == Append(p.known_constraints, c)
      first == IF Len(known) > KnownCapacity THEN 2 ELSE 1 IN
  IF c \in ToSet(p.known_constraints) THEN p
  ELSE [p EXCEPT !.constraints_by_block[BlockOf[c]] = Append(@, c),
                 !.known_constraints = SubSeq(known, first, Len(known))]

ProcessRemoveBlock(p, b) == [p EXCEPT !.constraints_by_block[b] = << >>]

\* What a subscriber holds after one more command.
Read(content, cmd) == IF cmd.op = "insert" THEN content \cup {cmd.id} ELSE {}

\* process_command: the state, then the live sinks of the block; the dead ones go.
ProcessCommand(p, cmd) ==
  LET q == IF cmd.op = "insert" THEN ProcessConstraint(p, cmd.id)
                                ELSE ProcessRemoveBlock(p, cmd.block)
      alive == {i \in q.sinks : IsAlive(q, i)} IN
  [q EXCEPT !.sinks = alive,
            !.chan = [i \in DOMAIN @ |->
                        IF i \in alive /\ @[i].block = cmd.block
                        THEN [@[i] EXCEPT !.content = Read(@, cmd)] ELSE @[i]]]

\* process_commands, on the batch the job took from its channel, under the lock.
ProcessCommands(cmds) ==
  /\ pool' = FoldLeft(ProcessCommand, pool, cmds)
  /\ received' = received \cup {cmds[i].id : i \in {j \in DOMAIN cmds : cmds[j].op = "insert"}}
  /\ removed' = removed \cup {cmds[i].block : i \in {j \in DOMAIN cmds : cmds[j].op = "remove"}}
  /\ UNCHANGED asked

\* Mutant: a new sink starts empty.
ReplayNothing(b) == {}

\* What add_sink sends the new sink: an insertion of each stored constraint.
Replay(b) == ToSet(pool.constraints_by_block[b])

AddSink(b) ==
  LET id == Cardinality(DOMAIN pool.chan) + 1 IN
  /\ id <= MaxSinks
  /\ pool' = [pool EXCEPT !.chan = Append(@, [block |-> b, open |-> TRUE, content |-> Replay(b)]),
                          !.sinks = @ \cup {id}]
  /\ UNCHANGED << received, removed, asked >>

RemoveSink(i) ==
  /\ i \in pool.sinks
  /\ pool' = [pool EXCEPT !.sinks = @ \ {i}]
  /\ UNCHANGED << received, removed, asked >>

\* The subscriber drops its end of the channel.
CloseSink(i) ==
  /\ IsAlive(pool, i)
  /\ pool' = [pool EXCEPT !.chan[i].open = FALSE]
  /\ UNCHANGED << received, removed, asked >>

\* Mutant: the current block expires too.
CleanupThroughCurrentBlock(p, current) ==
  [p EXCEPT !.constraints_by_block = [b \in Blocks |-> IF b <= current THEN << >> ELSE @[b]]]

\* cleanup_expired_constraints
CleanupExpired(p, current) ==
  [p EXCEPT !.constraints_by_block = [b \in Blocks |-> IF b < current THEN << >> ELSE @[b]]]

Higher(a, b) == IF a > b THEN a ELSE b

\* block_updated
BlockUpdated(current) ==
  LET p == CleanupExpired(pool, current) IN
  /\ pool' = [p EXCEPT !.sinks = {i \in @ : IsAlive(p, i) /\ p.chan[i].block >= current}]
  /\ asked' = Higher(asked, current)
  /\ UNCHANGED << received, removed >>

\* get_constraints_for_block: the slot of block b is built with a copy of what
\* the pool then stores for it.
GetConstraintsForBlock(b) ==
  /\ pool' = CleanupExpired(pool, b)
  /\ asked' = Higher(asked, b)
  /\ UNCHANGED << received, removed >>

--------------------------------------------------------------------------------
PoolInit ==
  /\ pool = [constraints_by_block |-> [b \in Blocks |-> << >>], known_constraints |-> << >>,
             sinks |-> {}, chan |-> << >>]
  /\ received = {}
  /\ removed = {}
  /\ asked = 0

\* The operations of a pool other than the processing of commands.
PoolCall ==
  \/ \E b \in Blocks : AddSink(b)
  \/ \E i \in DOMAIN pool.chan : RemoveSink(i)
  \/ \E i \in DOMAIN pool.chan : CloseSink(i)
  \/ \E b \in Blocks : BlockUpdated(b)
  \/ \E b \in Blocks : GetConstraintsForBlock(b)

--------------------------------------------------------------------------------
\* The pool keeps constraints under their own block, and no more known ones
\* than the cache holds.
PoolTypeOK ==
  /\ pool.constraints_by_block \in [Blocks -> Seq(ConstraintIds)]
  /\ \A b \in Blocks : \A c \in ToSet(pool.constraints_by_block[b]) : BlockOf[c] = b
  /\ Len(pool.known_constraints) <= KnownCapacity
  /\ pool.sinks \subseteq DOMAIN pool.chan
  /\ received \subseteq ConstraintIds /\ removed \subseteq Blocks

\* A sink follows the pool: whenever it subscribed, by replay or by events it has
\* every constraint that the pool stores for its block.  While the block has
\* neither expired nor been removed it has no others, although the pool passes on
\* to the sinks what it drops itself as known.
SinksFollowPool ==
  \A i \in pool.sinks :
    LET b == pool.chan[i].block
        stored == ToSet(pool.constraints_by_block[b]) IN
    IsAlive(pool, i) => /\ stored \subseteq pool.chan[i].content
                        /\ b >= asked /\ b \notin removed => pool.chan[i].content = stored

\* Constraints are deduplicated: as long as no more were received than the cache
\* of known ones holds, none is stored twice (it would be appended, and its gas
\* reserved, twice).
StoredOnce ==
  Cardinality(received) <= KnownCapacity =>
    \A b \in Blocks : IsInjective(pool.constraints_by_block[b])

\* The constraints a slot is built with are all those received for its block:
\* unless a later block was asked for before, or the block was removed, neither
\* the cache of known ones nor an expiry costs it one.
StoredComplete ==
  \A b \in Blocks \ removed :
    b >= asked => ToSet(pool.constraints_by_block[b]) = {c \in received : BlockOf[c] = b}
================================================================================
