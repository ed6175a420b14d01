------------------------ MODULE OrderReplacementManager ------------------------
(***************************************************************************)
(* order_replacement_manager.rs: the OrderReplacementManager of one block. *)
(* It turns the low level flow of orders and cancellations, which arrive   *)
(* out of order and more than once, into inserts and removes on a sink.    *)
(*                                                                         *)
(* The sink is an OrderStore: "orders" is what the commands sent so far    *)
(* leave in it.  "received" is a history variable.                         *)
(***************************************************************************)
EXTENDS BundleReplacement

VARIABLES replacement_states,   \* Keys -> BundleReplacementState
          sent,                 \* the commands the last call sent to the sink
          orders,               \* the orders in the sink
          received              \* the notifications received so far

vars == << replacement_states, sent, orders, received >>

Contract == INSTANCE OrderReplacementContract
              WITH current <- [k \in Keys |-> replacement_states[k].id]

\* The shape of the state.
TypeOK ==
  /\ replacement_states \in [Keys -> ReplacementStates]
  /\ sent \in Seq(SinkCommands)
  /\ orders \subseteq Ids
  /\ received \subseteq Contract!Notifications

Init ==
  /\ replacement_states = [k \in Keys |-> Vacant]
  /\ sent = << >>
  /\ orders = {}
  /\ received = {}

Send(cmds) ==
  /\ sent' = cmds
  /\ orders' = ApplyCommands(orders, cmds)

\* insert_order of an order without replacement data: passed on.
InsertPlainOrder(id) ==
  /\ NoKey \in KeysOf[id]
  /\ Send(<< Insert(id) >>)
  /\ received' = received \cup {[key |-> NoKey, seq |-> 0, id |-> id]}
  /\ UNCHANGED replacement_states

\* insert_order of an order with a replacement key and a sequence number.
InsertReplaceableOrder(id, k, seq) ==
  /\ k \in KeysOf[id] \cap Keys
  /\ Send(InsertCommands(replacement_states[k], seq, id))
  /\ replacement_states' =
       [replacement_states EXCEPT ![k] = InsertedState(replacement_states[k], seq, id)]
  /\ received' = received \cup {[key |-> k, seq |-> seq, id |-> id]}

Cancel(k, seq) ==
  /\ Send(CancelCommands(replacement_states[k], seq))
  /\ replacement_states' =
       [replacement_states EXCEPT ![k] = CancelledState(replacement_states[k], seq)]
  /\ received' = received \cup {[key |-> k, seq |-> seq, id |-> NoOrder]}

\* remove_bundle
RemoveBundle(k, seq) == k \in BundleKeys /\ Cancel(k, seq)

\* remove_sbundle: no sequence number, considered final.
RemoveSBundle(k) == k \in ShareKeys /\ Cancel(k, MaxSeq)

Next ==
  \/ \E id \in Ids : InsertPlainOrder(id)
  \/ \E id \in Ids, k \in Keys, seq \in SeqNumbers : InsertReplaceableOrder(id, k, seq)
  \/ \E k \in BundleKeys, seq \in SeqNumbers : RemoveBundle(k, seq)
  \/ \E k \in ShareKeys : RemoveSBundle(k)

Spec == Init /\ [][Next]_vars

--------------------------------------------------------------------------------
Current(k) == replacement_states[k].id

\* A key the order was also sent under has moved on to another notification.
LetGo(id) == \E k \in Keys : id \in Contract!Under(received, k) /\ Current(k) # id

\* The sink holds no outdated version: every order in it is the current one of a
\* key or came without a key.  And it lacks none of these, except an order that
\* came under two keys: the remove that the first of them sends takes it from
\* the other as well.
SinkMatchesStates ==
  /\ \A id \in orders : id \in Contract!Under(received, NoKey) \/ \E k \in Keys : Current(k) = id
  /\ \A id \in Ids : id \in Contract!Under(received, NoKey) \/ (\E k \in Keys : Current(k) = id)
                       => id \in orders \/ LetGo(id)

\* The sequence number of a state is that of the highest notification.
StateHasHighestSequence ==
  \A k \in Keys :
    /\ (replacement_states[k].tag = "Vacant") <=> (\A n \in received : n.key # k)
    /\ \A n \in received : n.key = k => n.seq <= replacement_states[k].seq
    /\ replacement_states[k].tag # "Vacant" =>
         [key |-> k, seq |-> replacement_states[k].seq, id |-> Current(k)] \in received

\* The strengthening of HighestSequenceHonoured that insert_order, remove_bundle
\* and remove_sbundle preserve: the sink agrees with the states of the keys, and
\* these with what was received.
IInv == TypeOK /\ SinkMatchesStates /\ StateHasHighestSequence

\* The notifications of a key that no other of that key exceeds.
Highest(k) == {n \in received : n.key = k /\ \A m \in received : m.key = k => m.seq <= n.seq}

\* The orders received under a key and under no other, nor without one.
OnlyUnder(k) ==
  {id \in Contract!Under(received, k) :
     \A j \in (Keys \cup {NoKey}) \ {k} : id \notin Contract!Under(received, j)}

\* "we must always honor the one with higher sequence_number": in whatever order
\* insert_order and remove_bundle were called, there is a notification of the key
\* that none exceeds, and of the orders sent under this key alone the sink holds
\* exactly the one it carries.
HighestSequenceHonoured ==
  \A k \in Keys : Contract!Under(received, k) # {} =>
    \E n \in Highest(k) : orders \cap OnlyUnder(k) = {n.id} \cap OnlyUnder(k)

\* A sink is told to remove only an order it holds, and before the insert that
\* replaces it, unless another key took the same order out of the sink before:
\* insert_order and cancel_order send a remove for the version their state names.
RemovesAreLive ==
  [][\A i \in 1 .. Len(sent') :
        sent'[i].op = "Remove" =>
          i = 1 /\ (sent'[i].id \in orders \/ LetGo(sent'[i].id))]_vars

\* Every call of insert_order, remove_bundle and remove_sbundle keeps the promise
\* of the contract: what a consumer of the sink may rely on.
ImplementsContract == Contract!Spec
================================================================================
