------------------------ MODULE OrderReplacementProofs ------------------------
(***************************************************************************)
(* Proofs about OrderReplacementManager, for any sets of keys and orders   *)
(* and any greatest sequence number.                                       *)
(***************************************************************************)
EXTENDS OrderReplacementManager, TLAPS

\* What a superseding insert sends: the remove of the version in the sink, if
\* there is one, then the insert.  (BundleReplacementState::insert_order)
LEMMA InsertEffect ==
  ASSUME NEW os, NEW st \in ReplacementStates, NEW seq \in SeqNumbers, NEW id \in Ids,
         st.tag = "Valid" => st.id \in Ids
  PROVE  /\ InsertCommands(st, seq, id) \in Seq(SinkCommands)
         /\ Supersedes(seq, st) =>
              ApplyCommands(os, InsertCommands(st, seq, id)) =
                (IF st.tag = "Valid" THEN os \ {st.id} ELSE os) \cup {id}
         /\ ~Supersedes(seq, st) =>
              ApplyCommands(os, InsertCommands(st, seq, id)) = os
<1>1. CASE ~Supersedes(seq, st)
  BY <1>1 DEF InsertCommands, ApplyCommands, SinkCommands
<1>2. CASE Supersedes(seq, st) /\ st.tag = "Valid"
  <2>1. InsertCommands(st, seq, id) = << Remove(st.id), Insert(id) >>
    BY <1>2 DEF InsertCommands
  <2>2. Remove(st.id) \in SinkCommands /\ Insert(id) \in SinkCommands
    BY <1>2 DEF Remove, Insert, SinkCommands
  <2> QED  BY <1>2, <2>1, <2>2 DEF ApplyCommands, ApplyCommand, Remove, Insert
<1>3. CASE Supersedes(seq, st) /\ st.tag # "Valid"
  <2>1. InsertCommands(st, seq, id) = << Insert(id) >>
    BY <1>3 DEF InsertCommands
  <2>2. Insert(id) \in SinkCommands
    BY DEF Insert, SinkCommands
  <2> QED  BY <1>3, <2>1, <2>2 DEF ApplyCommands, ApplyCommand, Insert
<1> QED  BY <1>1, <1>2, <1>3

\* What a superseding cancellation sends: at most the remove of the version in
\* the sink.  (BundleReplacementState::cancel_order)
LEMMA CancelEffect ==
  ASSUME NEW os, NEW st \in ReplacementStates, NEW seq \in SeqNumbers,
         st.tag = "Valid" => st.id \in Ids
  PROVE  /\ CancelCommands(st, seq) \in Seq(SinkCommands)
         /\ Supersedes(seq, st) =>
              ApplyCommands(os, CancelCommands(st, seq)) =
                (IF st.tag = "Valid" THEN os \ {st.id} ELSE os)
         /\ ~Supersedes(seq, st) => ApplyCommands(os, CancelCommands(st, seq)) = os
<1>1. CASE Supersedes(seq, st) /\ st.tag = "Valid"
  <2>1. CancelCommands(st, seq) = << Remove(st.id) >>
    BY <1>1 DEF CancelCommands, SendRemoveOrderIfNeeded
  <2>2. Remove(st.id) \in SinkCommands
    BY <1>1 DEF Remove, SinkCommands
  <2> QED  BY <1>1, <2>1, <2>2 DEF ApplyCommands, ApplyCommand, Remove
<1>2. CASE ~(Supersedes(seq, st) /\ st.tag = "Valid")
  <2>1. CancelCommands(st, seq) = << >>
    BY <1>2 DEF CancelCommands, SendRemoveOrderIfNeeded
  <2> QED  BY <1>2, <2>1 DEF ApplyCommands
<1> QED  BY <1>1, <1>2

\* insert_order sends at most one remove, first, for the order of a valid state.
LEMMA InsertRemoves ==
  ASSUME NEW st, NEW seq, NEW id, NEW i \in 1 .. Len(InsertCommands(st, seq, id)),
         InsertCommands(st, seq, id)[i].op = "Remove"
  PROVE  i = 1 /\ st.tag = "Valid" /\ InsertCommands(st, seq, id)[i].id = st.id
<1>1. CASE ~Supersedes(seq, st)
  BY <1>1 DEF InsertCommands
<1>2. CASE Supersedes(seq, st) /\ st.tag = "Valid"
  <2>1. InsertCommands(st, seq, id) = << Remove(st.id), Insert(id) >>
    BY <1>2 DEF InsertCommands
  <2> QED  BY <1>2, <2>1 DEF Remove, Insert
<1>3. CASE Supersedes(seq, st) /\ st.tag # "Valid"
  <2>1. InsertCommands(st, seq, id) = << Insert(id) >>
    BY <1>3 DEF InsertCommands
  <2> QED  BY <2>1 DEF Insert
<1> QED  BY <1>1, <1>2, <1>3

\* cancel_order sends nothing but a remove, for the order of a valid state.
LEMMA CancelRemoves ==
  ASSUME NEW st, NEW seq, NEW i \in 1 .. Len(CancelCommands(st, seq))
  PROVE  i = 1 /\ st.tag = "Valid" /\ CancelCommands(st, seq)[i].id = st.id
<1>1. CASE Supersedes(seq, st) /\ st.tag = "Valid"
  <2>1. CancelCommands(st, seq) = << Remove(st.id) >>
    BY <1>1 DEF CancelCommands, SendRemoveOrderIfNeeded
  <2> QED  BY <1>1, <2>1 DEF Remove
<1>2. CASE ~(Supersedes(seq, st) /\ st.tag = "Valid")
  <2>1. CancelCommands(st, seq) = << >>
    BY <1>2 DEF CancelCommands, SendRemoveOrderIfNeeded
  <2> QED  BY <2>1
<1> QED  BY <1>1, <1>2

\* A state names an order exactly when it is valid.
LEMMA StateNamesOrder ==
  ASSUME NEW st \in ReplacementStates
  PROVE  /\ st.seq \in SeqNumbers
         /\ st.tag \in {"Vacant", "Valid", "Cancelled"}
         /\ st.tag = "Valid" => st.id \in Ids
         /\ st.tag # "Valid" => st.id = NoOrder
<1>1. CASE st = Vacant
  BY <1>1, ReplacementAssumption DEF Vacant, SeqNumbers
<1>2. CASE st # Vacant
  BY <1>2 DEF ReplacementStates
<1> QED  BY <1>1, <1>2

\* Receiving a notification adds its order to those of its key.
LEMMA UnderGrows ==
  ASSUME NEW ns, NEW n, NEW j
  PROVE  /\ n.key = j =>
              Contract!Under(ns \cup {n}, j) = Contract!Under(ns, j) \cup ({n.id} \ {NoOrder})
         /\ n.key # j => Contract!Under(ns \cup {n}, j) = Contract!Under(ns, j)
BY DEF Contract!Under

\* The order a key's state names was received under that key.
LEMMA CurrentReceived ==
  ASSUME IInv, NEW k \in Keys, Current(k) # NoOrder
  PROVE  /\ Current(k) \in Ids
         /\ Current(k) \in Contract!Under(received, k)
         /\ replacement_states[k].tag = "Valid"
<1>1. replacement_states[k] \in ReplacementStates
  BY DEF IInv, TypeOK
<1>2. replacement_states[k].tag = "Valid" /\ Current(k) \in Ids
  BY <1>1, StateNamesOrder DEF Current
<1>3. [key |-> k, seq |-> replacement_states[k].seq, id |-> Current(k)] \in received
  BY <1>2 DEF IInv, StateHasHighestSequence
<1> QED  BY <1>2, <1>3 DEF Contract!Under

\* What was received under a key or without one are orders.
LEMMA UnderOrders ==
  ASSUME IInv, NEW j
  PROVE  Contract!Under(received, j) \subseteq Ids
BY DEF IInv, TypeOK, Contract!Notifications, Contract!Under

\* The empty manager satisfies the invariant.
LEMMA InitEstablishes == Init => IInv
<1> SUFFICES ASSUME Init PROVE IInv
  OBVIOUS
<1>1. Vacant \in ReplacementStates
  BY ReplacementAssumption DEF Vacant, ReplacementStates, SeqNumbers
<1>2. TypeOK
  BY <1>1 DEF Init, TypeOK
<1>3. \A k \in Keys : replacement_states[k] = Vacant /\ Current(k) = NoOrder
  BY DEF Init, Current, Vacant
<1>4. Contract!Under(received, NoKey) = {}
  BY DEF Init, Contract!Under
<1>5. SinkMatchesStates
  BY <1>3, <1>4, ReplacementAssumption DEF Init, SinkMatchesStates
<1>6. StateHasHighestSequence
  BY <1>3 DEF Init, StateHasHighestSequence, Vacant
<1> QED  BY <1>2, <1>5, <1>6 DEF IInv

\* insert_order of an order without replacement data disturbs no key.
LEMMA PlainPreserves ==
  ASSUME IInv, NEW id \in Ids, InsertPlainOrder(id)
  PROVE  IInv'
<1> DEFINE n == [key |-> NoKey, seq |-> 0, id |-> id]
<1>1. n \in Contract!Notifications
  BY DEF Contract!Notifications
<1>2. orders' = orders \cup {id} /\ sent' \in Seq(SinkCommands)
  <2>1. Insert(id) \in SinkCommands
    BY DEF Insert, SinkCommands
  <2> QED  BY <2>1 DEF InsertPlainOrder, Send, ApplyCommands, ApplyCommand, Insert
<1>3. received' = received \cup {n} /\ replacement_states' = replacement_states
  BY DEF InsertPlainOrder
<1>4. TypeOK'
  BY <1>1, <1>2, <1>3 DEF IInv, TypeOK
<1>5. \A k \in Keys : Current(k)' = Current(k)
  BY <1>3 DEF Current
<1>6. SinkMatchesStates'
  <2>1. /\ Contract!Under(received', NoKey) = Contract!Under(received, NoKey) \cup {id}
        /\ \A k \in Keys : Contract!Under(received', k) = Contract!Under(received, k)
    <3>1. n.key = NoKey /\ n.id = id /\ id # NoOrder /\ \A k \in Keys : k # NoKey
      BY KeyAssumption, ReplacementAssumption
    <3> HIDE DEF n
    <3>2. Contract!Under(received \cup {n}, NoKey) = Contract!Under(received, NoKey) \cup {id}
      BY <3>1, UnderGrows
    <3>3. ASSUME NEW k \in Keys
          PROVE  Contract!Under(received \cup {n}, k) = Contract!Under(received, k)
      <4>1. n.key # k
        BY <3>1
      <4> QED  BY <4>1 DEF Contract!Under
    <3> QED  BY <1>3, <3>2, <3>3
  <2>2. \A x : LetGo(x) => LetGo(x)'
    BY <1>5, <2>1 DEF LetGo
  <2> QED  BY <1>2, <1>5, <2>1, <2>2 DEF IInv, SinkMatchesStates
<1>7. StateHasHighestSequence'
  <2>1. \A k \in Keys : n.key # k
    BY KeyAssumption
  <2> HIDE DEF n
  <2> QED  BY <1>3, <1>5, <2>1 DEF IInv, StateHasHighestSequence
<1> QED  BY <1>4, <1>6, <1>7 DEF IInv

\* One notification of key k, an insert (id an order) or a cancellation (id is
\* NoOrder), as both entry points of the manager apply it.
Notified(k, seq, id, st) ==
  /\ received' = received \cup {[key |-> k, seq |-> seq, id |-> id]}
  /\ replacement_states' = [replacement_states EXCEPT ![k] = st]
  /\ sent' \in Seq(SinkCommands)
  /\ IF Supersedes(seq, replacement_states[k])
     THEN /\ st.seq = seq
          /\ st.id = id
          /\ st.tag # "Vacant"
          /\ orders' = (orders \ {Current(k)}) \cup ({id} \ {NoOrder})
     ELSE /\ st = replacement_states[k]
          /\ orders' = orders

\* insert_order of a replaceable order is one notification of its key.
LEMMA InsertNotifies ==
  ASSUME IInv, NEW id \in Ids, NEW k \in Keys, NEW seq \in SeqNumbers,
         InsertReplaceableOrder(id, k, seq)
  PROVE  \E st \in ReplacementStates : Notified(k, seq, id, st)
<1> DEFINE old == replacement_states[k]
           st == InsertedState(old, seq, id)
<1>1. old \in ReplacementStates /\ orders \subseteq Ids
  BY DEF IInv, TypeOK
<1>2. (old.tag = "Valid" => old.id \in Ids) /\ (old.tag # "Valid" => old.id \notin orders)
  BY <1>1, StateNamesOrder, ReplacementAssumption
<1>3. st \in ReplacementStates
  BY <1>1 DEF InsertedState, Valid, ReplacementStates
<1>4. sent' = InsertCommands(old, seq, id) /\ orders' = ApplyCommands(orders, sent')
  BY DEF InsertReplaceableOrder, Send
<1>5. id # NoOrder
  BY ReplacementAssumption
<1>6. Supersedes(seq, old) => st.seq = seq /\ st.id = id /\ st.tag # "Vacant"
  BY DEF InsertedState, Valid
<1>7. ~Supersedes(seq, old) => st = old
  BY DEF InsertedState
<1>8. /\ received' = received \cup {[key |-> k, seq |-> seq, id |-> id]}
      /\ replacement_states' = [replacement_states EXCEPT ![k] = st]
  BY DEF InsertReplaceableOrder
<1>9. Current(k) = old.id
  BY DEF Current
<1> HIDE DEF st, old
<1>10. /\ sent' \in Seq(SinkCommands)
       /\ Supersedes(seq, old) => orders' = (orders \ {old.id}) \cup ({id} \ {NoOrder})
       /\ ~Supersedes(seq, old) => orders' = orders
  <2> DEFINE cmds == InsertCommands(old, seq, id)
  <2>1. /\ cmds \in Seq(SinkCommands)
        /\ Supersedes(seq, old) =>
             ApplyCommands(orders, cmds) =
               (IF old.tag = "Valid" THEN orders \ {old.id} ELSE orders) \cup {id}
        /\ ~Supersedes(seq, old) => ApplyCommands(orders, cmds) = orders
    <3>1. old.tag = "Valid" => old.id \in Ids
      BY <1>2
    <3>2. old \in ReplacementStates
      BY <1>1
    <3> QED  BY <3>1, <3>2, InsertEffect, Zenon
  <2> HIDE DEF cmds
  <2>2. sent' = cmds /\ orders' = ApplyCommands(orders, cmds)
    BY <1>4 DEF cmds
  <2>3. (IF old.tag = "Valid" THEN orders \ {old.id} ELSE orders) \cup {id}
          = (orders \ {old.id}) \cup ({id} \ {NoOrder})
    BY <1>2, <1>5
  <2> QED  BY <2>1, <2>2, <2>3
<1>11. Notified(k, seq, id, st)
  BY <1>6, <1>7, <1>8, <1>9, <1>10 DEF Notified, old
<1> QED  BY <1>3, <1>11

\* cancel_order, for both kinds of bundle, is one notification of its key.
LEMMA CancelNotifies ==
  ASSUME IInv, NEW k \in Keys, NEW seq \in SeqNumbers, Cancel(k, seq)
  PROVE  \E st \in ReplacementStates : Notified(k, seq, NoOrder, st)
<1> DEFINE old == replacement_states[k]
           st == CancelledState(old, seq)
<1>1. old \in ReplacementStates /\ orders \subseteq Ids
  BY DEF IInv, TypeOK
<1>2. (old.tag = "Valid" => old.id \in Ids) /\ (old.tag # "Valid" => old.id \notin orders)
  BY <1>1, StateNamesOrder, ReplacementAssumption
<1>3. st \in ReplacementStates
  BY <1>1 DEF CancelledState, Cancelled, ReplacementStates
<1>4. sent' = CancelCommands(old, seq) /\ orders' = ApplyCommands(orders, sent')
  BY DEF Cancel, Send
<1>5. Supersedes(seq, old) => st.seq = seq /\ st.id = NoOrder /\ st.tag # "Vacant"
  BY DEF CancelledState, Cancelled
<1>6. ~Supersedes(seq, old) => st = old
  BY DEF CancelledState
<1>7. /\ received' = received \cup {[key |-> k, seq |-> seq, id |-> NoOrder]}
      /\ replacement_states' = [replacement_states EXCEPT ![k] = st]
  BY DEF Cancel
<1>8. Current(k) = old.id
  BY DEF Current
<1> HIDE DEF st, old
<1>9. /\ sent' \in Seq(SinkCommands)
      /\ Supersedes(seq, old) => orders' = (orders \ {old.id}) \cup ({NoOrder} \ {NoOrder})
      /\ ~Supersedes(seq, old) => orders' = orders
  <2> DEFINE cmds == CancelCommands(old, seq)
  <2>1. /\ cmds \in Seq(SinkCommands)
        /\ Supersedes(seq, old) =>
             ApplyCommands(orders, cmds) = IF old.tag = "Valid" THEN orders \ {old.id} ELSE orders
        /\ ~Supersedes(seq, old) => ApplyCommands(orders, cmds) = orders
    BY <1>1, <1>2, CancelEffect
  <2> HIDE DEF cmds
  <2>2. sent' = cmds /\ orders' = ApplyCommands(orders, cmds)
    BY <1>4 DEF cmds
  <2> QED  BY <1>2, <2>1, <2>2
<1>10. Notified(k, seq, NoOrder, st)
  BY <1>5, <1>6, <1>7, <1>8, <1>9 DEF Notified, old
<1> QED  BY <1>3, <1>10

\* One notification of a key preserves the agreement of the sink with the states:
\* the state of the key moves on, those of the other keys stay.
LEMMA NotifiedKeepsSink ==
  ASSUME IInv, NEW k \in Keys, NEW seq \in SeqNumbers, NEW id \in Ids \cup {NoOrder},
         NEW st \in ReplacementStates, Notified(k, seq, id, st)
  PROVE  SinkMatchesStates'
<1> DEFINE n == [key |-> k, seq |-> seq, id |-> id]
           plain == Contract!Under(received, NoKey)
<1>1. /\ received' = received \cup {n}
      /\ replacement_states' = [replacement_states EXCEPT ![k] = st]
  BY DEF Notified
<1>2. Current(k)' = st.id /\ \A j \in Keys \ {k} : Current(j)' = Current(j)
  BY <1>1 DEF IInv, TypeOK, Current
<1>3. n.key = k /\ n.id = id /\ k # NoKey
  BY KeyAssumption
<1> HIDE DEF n
<1>4. plain' = plain
  BY <1>1, <1>3, UnderGrows
<1>5. \A j \in Keys : Contract!Under(received, j) \subseteq Contract!Under(received', j)
  BY <1>1 DEF Contract!Under
<1> HIDE DEF plain
<1>6. /\ \A x \in orders : x \in plain \/ \E j \in Keys : Current(j) = x
      /\ \A x \in Ids : x \in plain \/ (\E j \in Keys : Current(j) = x) => x \in orders \/ LetGo(x)
  BY DEF IInv, SinkMatchesStates, plain
<1>7. /\ \A x \in orders' : x \in plain \/ \E j \in Keys : Current(j)' = x
      /\ \A x \in Ids : x \in plain \/ (\E j \in Keys : Current(j)' = x)
                          => x \in orders' \/ LetGo(x)'
  <2>1. CASE Supersedes(seq, replacement_states[k])
    <3>1. st.id = id /\ orders' = (orders \ {Current(k)}) \cup ({id} \ {NoOrder})
      BY <2>1 DEF Notified
    <3>2. ASSUME NEW x \in orders' PROVE x \in plain \/ \E j \in Keys : Current(j)' = x
      BY <1>2, <1>6, <3>1, <3>2
    <3>3. ASSUME NEW x \in Ids, x \in plain \/ \E j \in Keys : Current(j)' = x
          PROVE  x \in orders' \/ LetGo(x)'
      <4>1. CASE x = id
        BY <3>1, <4>1, ReplacementAssumption
      <4>2. CASE x # id
        <5>1. x \in orders \/ LetGo(x)
          BY <1>2, <1>6, <3>1, <3>3, <4>2
        <5>2. CASE x \in orders /\ x # Current(k)
          BY <3>1, <5>2
        <5>3. CASE x = Current(k)
          <6>1. x \in Contract!Under(received, k)
            BY <5>3, CurrentReceived, ReplacementAssumption
          <6> QED  BY <1>2, <1>5, <3>1, <4>2, <6>1 DEF LetGo
        <5>4. CASE LetGo(x)
          <6>1. PICK j \in Keys : x \in Contract!Under(received, j) /\ Current(j) # x
            BY <5>4 DEF LetGo
          <6>2. Current(j)' # x
            BY <1>2, <3>1, <4>2, <6>1
          <6> QED  BY <1>5, <6>1, <6>2 DEF LetGo
        <5> QED  BY <5>1, <5>2, <5>3, <5>4
      <4> QED  BY <4>1, <4>2
    <3> QED  BY <3>2, <3>3
  <2>2. CASE ~Supersedes(seq, replacement_states[k])
    <3>1. st.id = Current(k) /\ orders' = orders
      BY <2>2 DEF Notified, Current
    <3>2. \A j \in Keys : Current(j)' = Current(j)
      BY <1>2, <3>1
    <3>3. \A x : LetGo(x) => LetGo(x)'
      BY <1>5, <3>2 DEF LetGo
    <3> QED  BY <1>6, <3>1, <3>2, <3>3
  <2> QED  BY <2>1, <2>2
<1>8. plain' = Contract!Under(received', NoKey)
  BY DEF plain
<1> QED  BY <1>4, <1>7, <1>8 DEF SinkMatchesStates

\* One notification of a key keeps the state of the key at the highest sequence
\* number received for it.
LEMMA NotifiedKeepsHighest ==
  ASSUME IInv, NEW k \in Keys, NEW seq \in SeqNumbers, NEW id \in Ids \cup {NoOrder},
         NEW st \in ReplacementStates, Notified(k, seq, id, st)
  PROVE  StateHasHighestSequence'
<1> DEFINE n == [key |-> k, seq |-> seq, id |-> id]
           old == replacement_states[k]
<1>1. /\ received' = received \cup {n}
      /\ replacement_states' = [replacement_states EXCEPT ![k] = st]
  BY DEF Notified
<1>2. /\ replacement_states'[k] = st
      /\ \A j \in Keys \ {k} : replacement_states'[j] = replacement_states[j]
  BY <1>1 DEF IInv, TypeOK
<1> SUFFICES ASSUME NEW j \in Keys
             PROVE  /\ (replacement_states'[j].tag = "Vacant")
                          <=> (\A m \in received' : m.key # j)
                    /\ \A m \in received' : m.key = j => m.seq <= replacement_states'[j].seq
                    /\ replacement_states'[j].tag # "Vacant" =>
                         [key |-> j, seq |-> replacement_states'[j].seq,
                          id |-> replacement_states'[j].id] \in received'
  BY DEF StateHasHighestSequence, Current
<1>3. n.key = k /\ n.seq = seq /\ n.id = id
  OBVIOUS
<1>4. CASE j # k
  <2> HIDE DEF n
  <2> QED  BY <1>1, <1>2, <1>3, <1>4 DEF IInv, StateHasHighestSequence, Current
<1>5. CASE j = k /\ Supersedes(seq, old)
  <2>1. st.seq = seq /\ st.id = id /\ st.tag # "Vacant"
    BY <1>5 DEF Notified
  <2>2. \A m \in received : m.key = k => m.seq \in Nat /\ m.seq <= seq
    <3>1. \A m \in received : m.seq \in Nat
      BY ReplacementAssumption DEF IInv, TypeOK, Contract!Notifications, SeqNumbers
    <3>2. CASE old.tag = "Vacant"
      BY <3>1, <3>2 DEF IInv, StateHasHighestSequence
    <3>3. CASE old.tag # "Vacant"
      <4>1. old \in ReplacementStates
        BY DEF IInv, TypeOK
      <4>2. old.seq \in Nat /\ seq \in Nat /\ seq > old.seq
        BY <1>5, <3>3, <4>1, StateNamesOrder, ReplacementAssumption DEF SeqNumbers, Supersedes
      <4>3. \A m \in received : m.key = k => m.seq <= old.seq
        BY DEF IInv, StateHasHighestSequence
      <4> QED  BY <3>1, <4>2, <4>3
    <3> QED  BY <3>2, <3>3
  <2>3. seq <= seq
    BY DEF SeqNumbers
  <2>4. [key |-> k, seq |-> st.seq, id |-> st.id] = n
    BY <2>1
  <2> HIDE DEF n
  <2> QED  BY <1>1, <1>2, <1>3, <1>5, <2>1, <2>2, <2>3, <2>4
<1>6. CASE j = k /\ ~Supersedes(seq, old)
  <2>1. old \in ReplacementStates
    BY DEF IInv, TypeOK
  <2>2. st = old /\ old.tag # "Vacant" /\ seq <= old.seq
    BY <1>6, <2>1, StateNamesOrder, ReplacementAssumption DEF Notified, Supersedes, SeqNumbers
  <2> HIDE DEF n
  <2> QED  BY <1>1, <1>2, <1>3, <1>6, <2>2 DEF IInv, StateHasHighestSequence, Current
<1> QED  BY <1>4, <1>5, <1>6

\* Every call of the manager is a plain insert or one notification of a key.
LEMMA NextCases ==
  ASSUME IInv, Next
  PROVE  \/ \E id \in Ids : InsertPlainOrder(id)
         \/ \E k \in Keys, seq \in SeqNumbers, id \in Ids \cup {NoOrder},
               st \in ReplacementStates : Notified(k, seq, id, st)
<1>1. ASSUME NEW k \in BundleKeys, NEW seq \in SeqNumbers, RemoveBundle(k, seq)
      PROVE  k \in Keys /\ \E st \in ReplacementStates : Notified(k, seq, NoOrder, st)
  BY <1>1, CancelNotifies DEF RemoveBundle, Keys
<1>2. ASSUME NEW k \in ShareKeys, RemoveSBundle(k)
      PROVE  k \in Keys /\ \E st \in ReplacementStates : Notified(k, MaxSeq, NoOrder, st)
  BY <1>2, CancelNotifies, ReplacementAssumption DEF RemoveSBundle, Keys, SeqNumbers
<1>3. MaxSeq \in SeqNumbers
  BY ReplacementAssumption DEF SeqNumbers
<1> QED  BY <1>1, <1>2, <1>3, InsertNotifies DEF Next

\* The invariant is inductive.
LEMMA NextPreserves == IInv /\ [Next]_vars => IInv'
<1> SUFFICES ASSUME IInv, [Next]_vars PROVE IInv'
  OBVIOUS
<1>1. ASSUME NEW k \in Keys, NEW seq \in SeqNumbers, NEW id \in Ids \cup {NoOrder},
             NEW st \in ReplacementStates, Notified(k, seq, id, st)
      PROVE  IInv'
  <2>1. [key |-> k, seq |-> seq, id |-> id] \in Contract!Notifications
    BY DEF Contract!Notifications
  <2>2. orders' \subseteq Ids
    BY <1>1, ReplacementAssumption DEF IInv, TypeOK, Notified
  <2>3. TypeOK'
    BY <1>1, <2>1, <2>2 DEF IInv, TypeOK, Notified
  <2> QED  BY <1>1, <2>3, NotifiedKeepsSink, NotifiedKeepsHighest DEF IInv
<1>2. CASE Next
  BY <1>1, <1>2, NextCases, PlainPreserves
<1>3. CASE UNCHANGED vars
  BY <1>3 DEF IInv, TypeOK, SinkMatchesStates, StateHasHighestSequence, LetGo, Current, vars
<1> QED  BY <1>2, <1>3

\* The inductive invariant of the manager, for any orders sent under any keys:
\* types, the agreement of the sink with the states of the keys, and of the
\* states with what was received.
THEOREM Safety == Spec => []IInv
<1> QED  BY InitEstablishes, NextPreserves, PTL DEF Spec

\* The invariant implies that the highest sequence number is honoured.
LEMMA InvariantHonours == IInv => HighestSequenceHonoured
<1> SUFFICES ASSUME IInv, NEW k \in Keys, Contract!Under(received, k) # {}
             PROVE  \E n \in Highest(k) :
                      orders \cap OnlyUnder(k) = {n.id} \cap OnlyUnder(k)
  BY DEF HighestSequenceHonoured
<1> DEFINE n == [key |-> k, seq |-> replacement_states[k].seq, id |-> Current(k)]
<1>1. replacement_states[k].tag # "Vacant"
  BY DEF IInv, StateHasHighestSequence, Contract!Under
<1>2. n \in received /\ \A m \in received : m.key = k => m.seq <= n.seq
  BY <1>1 DEF IInv, StateHasHighestSequence
<1>3. n \in Highest(k) /\ n.id = Current(k)
  BY <1>2 DEF Highest
<1>4. ASSUME NEW x \in orders, x \in OnlyUnder(k) PROVE x = Current(k)
  <2>1. x \notin Contract!Under(received, NoKey) /\ x \in Ids
    BY <1>4, UnderOrders, KeyAssumption DEF OnlyUnder
  <2>2. PICK j \in Keys : Current(j) = x
    BY <2>1 DEF IInv, SinkMatchesStates
  <2>3. x \in Contract!Under(received, j)
    BY <2>1, <2>2, CurrentReceived, ReplacementAssumption
  <2> QED  BY <1>4, <2>2, <2>3 DEF OnlyUnder
<1>5. ASSUME Current(k) \in OnlyUnder(k) PROVE Current(k) \in orders
  <2>1. Current(k) \in Ids
    BY <1>5, UnderOrders DEF OnlyUnder
  <2>2. ~LetGo(Current(k))
    BY <1>5 DEF LetGo, OnlyUnder
  <2> QED  BY <2>1, <2>2 DEF IInv, SinkMatchesStates
<1> HIDE DEF n
<1>6. orders \cap OnlyUnder(k) = {n.id} \cap OnlyUnder(k)
  BY <1>3, <1>4, <1>5
<1> QED  BY <1>3, <1>6

\* In whatever order insert_order, remove_bundle and remove_sbundle are called,
\* of the orders sent under one key alone the sink holds exactly the one a
\* notification with the highest sequence number carries.
THEOREM HighestSequenceWins == Spec => []HighestSequenceHonoured
<1> QED  BY Safety, InvariantHonours, PTL

\* The order a valid state names is in the sink or was let go by another key.
LEMMA ValidIsLive ==
  ASSUME IInv, NEW k \in Keys, replacement_states[k].tag = "Valid"
  PROVE  Current(k) \in orders \/ LetGo(Current(k))
<1>1. Current(k) \in Ids
  BY StateNamesOrder DEF IInv, TypeOK, Current
<1> QED  BY <1>1 DEF IInv, SinkMatchesStates

\* A call sends the remove of an order only while the sink holds it, unless
\* another key took it out.
LEMMA StepRemovesLive ==
  ASSUME IInv, [Next]_vars
  PROVE  [\A i \in 1 .. Len(sent') :
            sent'[i].op = "Remove" =>
              i = 1 /\ (sent'[i].id \in orders \/ LetGo(sent'[i].id))]_vars
<1> DEFINE Good == \A i \in 1 .. Len(sent') :
                     sent'[i].op = "Remove" =>
                       i = 1 /\ (sent'[i].id \in orders \/ LetGo(sent'[i].id))
<1>1. ASSUME NEW id \in Ids, InsertPlainOrder(id) PROVE Good
  BY <1>1 DEF InsertPlainOrder, Send, Insert
<1>2. ASSUME NEW k \in Keys
      PROVE  /\ replacement_states[k] \in ReplacementStates
             /\ replacement_states[k].tag = "Valid" =>
                  /\ replacement_states[k].id \in Ids
                  /\ replacement_states[k].id \in orders \/ LetGo(replacement_states[k].id)
  BY StateNamesOrder, ValidIsLive DEF IInv, TypeOK, Current
<1>3. ASSUME NEW id \in Ids, NEW k \in Keys, NEW seq \in SeqNumbers,
             InsertReplaceableOrder(id, k, seq)
      PROVE  Good
  <2> DEFINE old == replacement_states[k]
  <2>1. sent' = InsertCommands(old, seq, id)
    BY <1>3 DEF InsertReplaceableOrder, Send
  <2>2. /\ old \in ReplacementStates
        /\ old.tag = "Valid" => old.id \in Ids /\ (old.id \in orders \/ LetGo(old.id))
    BY <1>2
  <2> HIDE DEF old
  <2>3. \A i \in 1 .. Len(sent') :
          sent'[i].op = "Remove" => i = 1 /\ old.tag = "Valid" /\ sent'[i].id = old.id
    <3>1. \A i \in 1 .. Len(InsertCommands(old, seq, id)) :
            InsertCommands(old, seq, id)[i].op = "Remove" =>
              i = 1 /\ old.tag = "Valid" /\ InsertCommands(old, seq, id)[i].id = old.id
      BY InsertRemoves
    <3> QED  BY <2>1, <3>1
  <2> QED  BY <2>2, <2>3 DEF LetGo
<1>4. ASSUME NEW k \in Keys, NEW seq \in SeqNumbers, Cancel(k, seq) PROVE Good
  <2> DEFINE old == replacement_states[k]
  <2>1. sent' = CancelCommands(old, seq)
    BY <1>4 DEF Cancel, Send
  <2>2. /\ old \in ReplacementStates
        /\ old.tag = "Valid" => old.id \in Ids /\ (old.id \in orders \/ LetGo(old.id))
    BY <1>2
  <2> HIDE DEF old
  <2>3. \A i \in 1 .. Len(sent') :
          sent'[i].op = "Remove" => i = 1 /\ old.tag = "Valid" /\ sent'[i].id = old.id
    <3>1. \A i \in 1 .. Len(CancelCommands(old, seq)) :
            i = 1 /\ old.tag = "Valid" /\ CancelCommands(old, seq)[i].id = old.id
      BY CancelRemoves
    <3> QED  BY <2>1, <3>1
  <2> QED  BY <2>2, <2>3 DEF LetGo
<1>5. MaxSeq \in SeqNumbers
  BY ReplacementAssumption DEF SeqNumbers
<1>6. CASE Next
  <2> HIDE DEF Good
  <2>1. Good
    BY <1>1, <1>3, <1>4, <1>5, <1>6 DEF Next, RemoveBundle, RemoveSBundle, Keys
  <2> QED  BY <2>1 DEF Good
<1> QED  BY <1>6

\* A sink is told to remove only an order it holds, and before the insert that
\* replaces it, unless another key took the same order out of the sink before.
THEOREM RemovesLive == Spec => RemovesAreLive
<1>1. IInv /\ [Next]_vars =>
        [\A i \in 1 .. Len(sent') :
            sent'[i].op = "Remove" =>
              i = 1 /\ (sent'[i].id \in orders \/ LetGo(sent'[i].id))]_vars
  BY StepRemovesLive
<1> QED  BY <1>1, Safety, PTL DEF Spec, RemovesAreLive

\* The invariant says that the sink honours the current notifications.
LEMMA InvariantHonoursCurrent ==
  IInv => Contract!Honours(orders, received, [k \in Keys |-> replacement_states[k].id])
<1> SUFFICES ASSUME IInv
             PROVE  Contract!Honours(orders, received, [k \in Keys |-> Current(k)])
  BY DEF Current
<1> DEFINE cur == [k \in Keys |-> Current(k)]
<1>1. \A k \in Keys : cur[k] = Current(k)
  OBVIOUS
<1>2. ASSUME NEW x \in Ids
      PROVE  x \in Contract!Wanted(received, cur)
               <=> x \in Contract!Under(received, NoKey) \/ \E k \in Keys : Current(k) = x
  BY <1>1, ReplacementAssumption DEF Contract!Wanted
<1>3. \A x : LetGo(x) => Contract!LetGo(received, cur, x)
  BY <1>1 DEF LetGo, Contract!LetGo
<1>4. Contract!Wanted(received, cur) \subseteq Ids
  <2>1. \A k \in Keys : Current(k) # NoOrder => Current(k) \in Ids
    BY CurrentReceived
  <2> QED  BY <1>1, <2>1, UnderOrders DEF Contract!Wanted
<1> HIDE DEF cur
<1>5. orders \subseteq Contract!Wanted(received, cur)
  BY <1>2 DEF IInv, TypeOK, SinkMatchesStates
<1>6. \A x \in Contract!Wanted(received, cur) \ orders : Contract!LetGo(received, cur, x)
  BY <1>2, <1>3, <1>4 DEF IInv, SinkMatchesStates
<1>7. Contract!Honours(orders, received, cur)
  BY <1>5, <1>6 DEF Contract!Honours
<1> QED  BY <1>7 DEF cur

\* A call of the manager is a step of the contract.
LEMMA StepRefines ==
  ASSUME IInv, IInv', [Next]_vars
  PROVE  [Contract!Next]_(Contract!vars)
<1> DEFINE cur == [k \in Keys |-> replacement_states[k].id]
<1>1. (Contract!Honours(orders, received, cur))'
  BY InvariantHonoursCurrent, PTL
<1>2. orders' \in SUBSET Ids
  BY DEF IInv, TypeOK
<1>3. ASSUME NEW id \in Ids, InsertPlainOrder(id)
      PROVE  Contract!Next
  <2> DEFINE n == [key |-> NoKey, seq |-> 0, id |-> id]
  <2>1. n \in Contract!Notifications /\ n.key = NoKey /\ n.id = id
    BY DEF Contract!Notifications
  <2>2. /\ received' = received \cup {n}
        /\ orders' = orders \cup {id}
        /\ replacement_states' = replacement_states
    BY <1>3 DEF InsertPlainOrder, Send, ApplyCommands, ApplyCommand, Insert
  <2> HIDE DEF n
  <2>3. \A x \in Ids : (x \in orders) # (x \in orders') => x \in Contract!Under(received', n.key)
    BY <2>1, <2>2, ReplacementAssumption DEF Contract!Under
  <2>4. cur' = [k \in Keys |->
          IF k = n.key /\ \A m \in received : m.key = k => m.seq < n.seq THEN n.id ELSE cur[k]]
    BY <2>1, <2>2, KeyAssumption
  <2>5. Contract!Receive(n)
    BY <1>1, <1>2, <2>2, <2>3, <2>4 DEF Contract!Receive
  <2> QED  BY <2>1, <2>5 DEF Contract!Next
<1>4. ASSUME NEW k \in Keys, NEW seq \in SeqNumbers, NEW id \in Ids \cup {NoOrder},
             NEW st \in ReplacementStates, Notified(k, seq, id, st)
      PROVE  Contract!Next
  <2> DEFINE n == [key |-> k, seq |-> seq, id |-> id]
             old == replacement_states[k]
  <2>1. n \in Contract!Notifications /\ n.key = k /\ n.seq = seq /\ n.id = id
    BY DEF Contract!Notifications
  <2>2. /\ received' = received \cup {n}
        /\ replacement_states' = [replacement_states EXCEPT ![k] = st]
    BY <1>4 DEF Notified
  <2> HIDE DEF n
  <2>3. Supersedes(seq, old) <=> \A m \in received : m.key = k => m.seq < seq
    <3>1. old \in ReplacementStates
      BY DEF IInv, TypeOK
    <3>2. old.seq \in Nat /\ seq \in Nat
      BY <3>1, StateNamesOrder, ReplacementAssumption DEF SeqNumbers
    <3>3. \A m \in received : m.seq \in Nat
      BY ReplacementAssumption DEF IInv, TypeOK, Contract!Notifications, SeqNumbers
    <3>4. CASE old.tag = "Vacant"
      BY <3>4 DEF IInv, StateHasHighestSequence, Supersedes
    <3>5. CASE old.tag # "Vacant"
      <4>1. [key |-> k, seq |-> old.seq, id |-> Current(k)] \in received
        BY <3>5 DEF IInv, StateHasHighestSequence
      <4>2. \A m \in received : m.key = k => m.seq <= old.seq
        BY DEF IInv, StateHasHighestSequence
      <4>3. Supersedes(seq, old) <=> seq > old.seq
        BY <3>5 DEF Supersedes
      <4> HIDE DEF old
      <4>4. ASSUME seq > old.seq, NEW m \in received, m.key = k PROVE m.seq < seq
        BY <3>2, <3>3, <4>2, <4>4
      <4>5. ASSUME \A m \in received : m.key = k => m.seq < seq PROVE seq > old.seq
        BY <3>2, <4>1, <4>5
      <4> QED  BY <4>3, <4>4, <4>5
    <3> QED  BY <3>4, <3>5
  <2>4. cur' = [j \in Keys |->
          IF j = n.key /\ \A m \in received : m.key = j => m.seq < n.seq THEN n.id ELSE cur[j]]
    <3>1. \A j \in Keys \ {k} : replacement_states'[j].id = replacement_states[j].id
      BY <2>2 DEF IInv, TypeOK
    <3>2. replacement_states'[k].id = IF Supersedes(seq, old) THEN id ELSE old.id
      BY <1>4, <2>2 DEF IInv, TypeOK, Notified
    <3> HIDE DEF old
    <3>3. replacement_states'[k].id =
            IF \A m \in received : m.key = k => m.seq < seq THEN id ELSE old.id
      BY <2>3, <3>2
    <3> QED  BY <2>1, <3>1, <3>3 DEF old
  <2>5. \A x \in Ids : (x \in orders) # (x \in orders') => x \in Contract!Under(received', n.key)
    <3>1. Contract!Under(received, k) \subseteq Contract!Under(received', k)
      BY <2>2 DEF Contract!Under
    <3>2. id # NoOrder => id \in Contract!Under(received', k)
      BY <2>1, <2>2 DEF Contract!Under
    <3>3. \A x \in Ids : (x \in orders) # (x \in orders') => x = id \/ x = Current(k)
      BY <1>4 DEF Notified
    <3>4. Current(k) # NoOrder => Current(k) \in Contract!Under(received, k)
      BY CurrentReceived
    <3> QED  BY <2>1, <3>1, <3>2, <3>3, <3>4, ReplacementAssumption
  <2>6. Contract!Receive(n)
    BY <1>1, <1>2, <2>2, <2>4, <2>5 DEF Contract!Receive
  <2> QED  BY <2>1, <2>6 DEF Contract!Next
<1>5. CASE Next
  BY <1>3, <1>4, <1>5, NextCases
<1>6. CASE UNCHANGED vars
  BY <1>6 DEF vars, Contract!vars
<1> QED  BY <1>5, <1>6

\* OrderReplacementManager implements OrderReplacementContract, for any orders
\* sent under any keys: each call is one Receive of the contract, which adds or
\* takes away only orders that were received under its key.
THEOREM Refinement == Spec => ImplementsContract
<1>1. Init => Contract!Init
  BY DEF Init, Contract!Init, Vacant
<1>2. IInv /\ IInv' /\ [Next]_vars => [Contract!Next]_(Contract!vars)
  BY StepRefines
<1> QED  BY <1>1, <1>2, Safety, PTL DEF Spec, ImplementsContract, Contract!Spec
================================================================================
