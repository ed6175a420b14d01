----------------------- MODULE OrderReplacementContract -----------------------
(***************************************************************************)
(* What the replacement of bundles promises to the consumers of a block's  *)
(* orders, whatever the order of arrival.  Of each replacement key one     *)
(* notification is current: the first with the highest sequence number     *)
(* received so far.  The sink holds no order but those that are current    *)
(* for a key or came without one, and it lacks such an order only when the *)
(* same order was also sent under another key that has let it go.          *)
(***************************************************************************)
EXTENDS Naturals

CONSTANTS Ids, Keys, NoOrder, NoKey, SeqNumbers

VARIABLES received,   \* every notification so far
          current,    \* Keys -> the order of the current notification, or NoOrder
          orders      \* the orders the sink holds

vars == << received, current, orders >>

Notifications == [key : Keys, seq : SeqNumbers, id : Ids \cup {NoOrder}]
                   \cup [key : {NoKey}, seq : {0}, id : Ids]

\* The orders received under a key, or without one.
Under(ns, k) == {n.id : n \in {m \in ns : m.key = k}} \ {NoOrder}

\* The orders a consumer should build with.
Wanted(ns, cur) == Under(ns, NoKey) \cup ({cur[k] : k \in Keys} \ {NoOrder})

\* Some key the order was received under is current with something else.
LetGo(ns, cur, id) == \E k \in Keys : id \in Under(ns, k) /\ cur[k] # id

Honours(os, ns, cur) ==
  /\ os \subseteq Wanted(ns, cur)
  /\ \A id \in Wanted(ns, cur) \ os : LetGo(ns, cur, id)

Init == received = {} /\ current = [k \in Keys |-> NoOrder] /\ orders = {}

Receive(n) ==
  /\ received' = received \cup {n}
  /\ current' = [k \in Keys |->
       IF k = n.key /\ \A m \in received : m.key = k => m.seq < n.seq THEN n.id ELSE current[k]]
  /\ orders' \in SUBSET Ids
  /\ Honours(orders', received', current')
  /\ \A id \in Ids : (id \in orders) # (id \in orders') => id \in Under(received', n.key)

Next == \E n \in Notifications : Receive(n)

Spec == Init /\ [][Next]_vars
================================================================================
