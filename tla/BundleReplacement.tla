--------------------------- MODULE BundleReplacement ---------------------------
(***************************************************************************)
(* What one replaceable bundle is to the order input of a block: the       *)
(* BundleReplacementState of order_replacement_manager.rs and the commands *)
(* its transitions send to the OrderSink behind it.                        *)
(*                                                                         *)
(* A notification is an order or a cancellation that carries a replacement *)
(* key and a sequence number.  Notifications arrive in any order, any      *)
(* number of times.                                                        *)
(***************************************************************************)
EXTENDS Naturals, Sequences

CONSTANTS Ids,        \* order ids (OrderId)
          MaxSeq,     \* u64::MAX, SBUNDLE_SEQUENCE_NUMBER
          NoOrder,    \* the order id of a state that holds none
          BundleKeys,   \* OrderReplacementKey::Bundle
          ShareKeys,    \* OrderReplacementKey::ShareBundle
          NoKey,        \* no replacement data
          KeysOf        \* the keys, or NoKey, that an order may be sent with

ASSUME ReplacementAssumption == MaxSeq \in Nat /\ NoOrder \notin Ids

Keys == BundleKeys \cup ShareKeys

\* The id of a bundle hashes neither its replacement data nor its signer: the
\* same order may come under several keys, and with and without one.
ASSUME KeyAssumption == /\ BundleKeys \cap ShareKeys = {}
                        /\ NoKey \notin Keys
                        /\ KeysOf \in [Ids -> SUBSET (Keys \cup {NoKey})]

SeqNumbers == 0 .. MaxSeq

\* BundleReplacementState, and the vacant entry of the map of states.
Vacant == [tag |-> "Vacant", seq |-> 0, id |-> NoOrder]
Valid(seq, id) == [tag |-> "Valid", seq |-> seq, id |-> id]
Cancelled(seq) == [tag |-> "Cancelled", seq |-> seq, id |-> NoOrder]

ReplacementStates ==
  {Vacant} \cup [tag : {"Valid"}, seq : SeqNumbers, id : Ids]
           \cup [tag : {"Cancelled"}, seq : SeqNumbers, id : {NoOrder}]

\* OrderPoolCommand: what an OrderSink is told.
Insert(id) == [op |-> "Insert", id |-> id]
Remove(id) == [op |-> "Remove", id |-> id]
SinkCommands == [op : {"Insert", "Remove"}, id : Ids]

--------------------------------------------------------------------------------
\* Mutant: of two notifications with one number the later one wins.
SupersedesOnTie(seq, st) == st.tag = "Vacant" \/ seq >= st.seq

\* A notification is acted on when its key is new or its number is higher.
Supersedes(seq, st) == st.tag = "Vacant" \/ seq > st.seq

\* send_remove_order_if_needed
SendRemoveOrderIfNeeded(st) == IF st.tag = "Valid" THEN << Remove(st.id) >> ELSE << >>

\* BundleReplacementState::insert_order: the new state, and the commands sent,
\* the remove of send_remove_order_if_needed before the insert.
InsertedState(st, seq, id) == IF Supersedes(seq, st) THEN Valid(seq, id) ELSE st

\* Mutant: a remove is sent although the sink holds no version.
InsertAlwaysRemoving(st, seq, id) ==
  IF ~Supersedes(seq, st) THEN << >>
  ELSE IF st.tag = "Valid" THEN << Remove(st.id), Insert(id) >> ELSE << Remove(id), Insert(id) >>

\* Mutant: the version before is left in the sink.
InsertWithoutRemove(st, seq, id) == IF ~Supersedes(seq, st) THEN << >> ELSE << Insert(id) >>

InsertCommands(st, seq, id) ==
  IF ~Supersedes(seq, st) THEN << >>
  ELSE IF st.tag = "Valid" THEN << Remove(st.id), Insert(id) >> ELSE << Insert(id) >>

\* BundleReplacementState::cancel_order
CancelledState(st, seq) == IF Supersedes(seq, st) THEN Cancelled(seq) ELSE st

CancelCommands(st, seq) ==
  IF Supersedes(seq, st) THEN SendRemoveOrderIfNeeded(st) ELSE << >>

--------------------------------------------------------------------------------
\* A sink that keeps the current orders (order_sink.rs, OrderStore): what one
\* command, and what a list of at most two commands, makes of them.
ApplyCommand(orders, cmd) ==
  IF cmd.op = "Insert" THEN orders \cup {cmd.id} ELSE orders \ {cmd.id}

ApplyCommands(orders, cmds) ==
  IF Len(cmds) = 0 THEN orders
  ELSE IF Len(cmds) = 1 THEN ApplyCommand(orders, cmds[1])
  ELSE ApplyCommand(ApplyCommand(orders, cmds[1]), cmds[2])
================================================================================
