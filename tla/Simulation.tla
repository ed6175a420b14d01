----------------------------- MODULE Simulation -----------------------------
(***************************************************************************)
(* The simulation of one slot's orders: SimulationJob feeds the SimTree    *)
(* with the orders and cancellations of the OrderReplacementManager, the   *)
(* tree releases an order when simulated orders bring the nonces it needs, *)
(* worker threads simulate, and the results go to the builders unless the  *)
(* order was cancelled meanwhile.                                          *)
(*                                                                         *)
(* Simulations are kept only where the code reads them again: as the       *)
(* filler of a nonce (sims_that_update_one_nonce with the sim it names).   *)
(***************************************************************************)
EXTENDS OrderNonces, TLC

CONSTANTS Chain,            \* account nonces of the parent block
          Profits,          \* the coinbase profits a simulation may give
          Workers,          \* sim threads
          ResultsCapacity,  \* of the channel from the workers to the job
          MaxCommands       \* bound: commands ever processed

LOCAL Sx == INSTANCE SequencesExt
LOCAL Fn == INSTANCE Functions

ASSUME SimulationAssumption ==
    /\ Chain \in [Accounts -> Nat]
    /\ Profits \subseteq Nat
    /\ ResultsCapacity \in Nat \ {0}
    /\ MaxCommands \in Nat

VARIABLES
    job,            \* "select", or the batch it is in: "commands" | "results"; "ended"
    commands,       \* how many commands were processed
    wanted,         \* orders inserted and not removed, as the sender sees it
    refused,        \* wanted orders the tree could not take
    again,          \* orders inserted again while the builders held them
    in_flight_orders,
    not_cancelled_sent_simulated_orders,
    tree,           \* SimTree
    requests,       \* queue to the workers
    working,        \* what each worker simulates
    results,        \* queue from the workers
    stuck           \* orders whose last simulation gave no result

jobState == <<commands, wanted, refused, again, in_flight_orders,
              not_cancelled_sent_simulated_orders, tree>>
vars == <<job, jobState, requests, working, results, stuck>>

Idle == <<>>

Keys == UNION {{<<a, Nonce(o, a)>> : a \in Signers(o)} : o \in Orders}

-----------------------------------------------------------------------------
(***************************************************************************)
(* SimTree                                                                 *)
(***************************************************************************)
EmptyTree ==
    [fillers        |-> <<>>,                      \* nonce key -> simulation
     pending_orders |-> <<>>,                      \* order -> unsatisfied_nonces
     pending_nonces |-> [k \in Keys |-> {}],
     ready_orders   |-> <<>>]

Invalid(o) == \E a \in Signers(o) : Chain[a] > Nonce(o, a) /\ ~Optional(o, a)

\* The nonces above the chain's: optional ones are waited for as well.
Ahead ==
    [o \in Orders |-> {<<a, Nonce(o, a)>> : a \in {b \in Signers(o) : Chain[b] < Nonce(o, b)}}]

PendingNonces(t, o) == Ahead[o] \ DOMAIN t.fillers

\* Mutant: what the filler was simulated after is left out.
ParentsFillersOnly(t, o) ==
    LET keys == Sx!SetToSortSeq(Ahead[o], LAMBDA k, l : k[1] < l[1])
    IN  [i \in DOMAIN keys |-> t.fillers[keys[i]].order]

\* For each nonce, by address, the orders its filler was simulated after, and the filler.
Parents(t, o) ==
    LET keys == Sx!SetToSortSeq(Ahead[o], LAMBDA k, l : k[1] < l[1])
    IN  Sx!FlattenSeq([i \in DOMAIN keys |->
            Append(t.fillers[keys[i]].previous_orders, t.fillers[keys[i]].order)])

\* A SimulationRequest.
Request(t, o) == [order |-> o, parents |-> Parents(t, o)]

AddPending(t, o, missing) ==
    [t EXCEPT !.pending_orders = (o :> Cardinality(missing)) @@ @,
              !.pending_nonces =
                  [k \in Keys |-> IF k \in missing THEN @[k] \cup {o} ELSE @[k]]]

\* Mutant: an order that waits is listed under nonces that are already filled.
PushOrderWaitingForAll(t, o) ==
    CASE o \in DOMAIN t.pending_orders \/ Invalid(o) -> t
      [] PendingNonces(t, o) # {} -> AddPending(t, o, Ahead[o])
      [] OTHER -> [t EXCEPT !.ready_orders = Append(@, Request(t, o))]

\* push_order: dropped, waiting for nonces no simulation fills yet, or ready.
PushOrder(t, o) ==
    CASE o \in DOMAIN t.pending_orders \/ Invalid(o) -> t
      [] PendingNonces(t, o) # {} -> AddPending(t, o, PendingNonces(t, o))
      [] OTHER -> [t EXCEPT !.ready_orders = Append(@, Request(t, o))]

\* Only a simulation that moved exactly one nonce can fill it for others.
FilledKey(result) ==
    {<<a, result.nonces_after[a]>> : a \in DOMAIN result.nonces_after}

\* The first filler of a nonce releases the orders that waited for it.
Release(t, k, sim) ==
    LET waiting  == IF k \in Keys THEN t.pending_nonces[k] ELSE {}
        released == {o \in waiting : t.pending_orders[o] = 1}
        filled   == [t EXCEPT
            !.fillers = (k :> sim) @@ @,
            !.pending_nonces = [l \in Keys |-> IF l = k THEN {} ELSE @[l]],
            !.pending_orders = [o \in DOMAIN @ \ released |->
                                   IF o \in waiting THEN @[o] - 1 ELSE @[o]]]
        released_seq == Sx!SetToSeq(released)
    IN  [filled EXCEPT !.ready_orders =
            @ \o [i \in DOMAIN released_seq |-> Request(filled, released_seq[i])]]

ProcessSimulationTaskResult(t, result) ==
    LET k   == CHOOSE key \in FilledKey(result) : TRUE
        sim == [order |-> result.order, previous_orders |-> result.previous_orders,
                profit |-> result.profit]
    IN  CASE Cardinality(FilledKey(result)) # 1 -> t
          [] k \notin DOMAIN t.fillers -> Release(t, k, sim)
          [] sim.profit > t.fillers[k].profit -> [t EXCEPT !.fillers[k] = sim]
          [] OTHER -> t

-----------------------------------------------------------------------------
Init ==
    /\ job = "select" /\ commands = 0 /\ wanted = {} /\ refused = {} /\ again = {}
    /\ in_flight_orders = {} /\ not_cancelled_sent_simulated_orders = {}
    /\ tree = EmptyTree
    /\ requests = <<>> /\ working = [w \in Workers |-> Idle] /\ results = <<>>
    /\ stuck = {}

Batch(name) ==
    /\ job \in {"select", name}
    /\ job' = name

NewCommand ==
    /\ Batch("commands")
    /\ commands < MaxCommands
    /\ commands' = commands + 1
    /\ UNCHANGED <<requests, working, results>>

\* An order may come again, while it is in flight and when its result was sent: the
\* pool forwards what it knows, and the same bundle comes under several keys.
ProcessNewOrder ==
    \E o \in Orders :
        /\ NewCommand
        /\ wanted' = wanted \cup {o}
        /\ refused' = refused \ {o}
        /\ again' = again \cup ({o} \cap not_cancelled_sent_simulated_orders)
        /\ tree' = PushOrder(tree, o)
        /\ in_flight_orders' = in_flight_orders \cup {o}
        /\ stuck' = IF Invalid(o) THEN stuck \cup {o} ELSE stuck \ {o}
        /\ UNCHANGED not_cancelled_sent_simulated_orders

\* The state provider fails while the nonces are read: the order is ignored.  The
\* nonces of an order that was taken are cached.
PushOrderFails ==
    \E o \in Orders \ (wanted \ refused) :
        /\ NewCommand
        /\ o \notin DOMAIN tree.pending_orders
        /\ wanted' = wanted \cup {o}
        /\ refused' = refused \cup {o}
        /\ UNCHANGED <<again, in_flight_orders, not_cancelled_sent_simulated_orders, tree, stuck>>

\* A cancellation of an order in flight goes no further.  Each key an order came under
\* may cancel it, so it may be cancelled already; unless the builders hold it, that
\* changes nothing.
ProcessOrderCancellation ==
    \E o \in wanted \cup not_cancelled_sent_simulated_orders :
        /\ NewCommand
        /\ wanted' = wanted \ {o}
        /\ refused' = refused \ {o}
        /\ IF o \in in_flight_orders
              THEN /\ in_flight_orders' = in_flight_orders \ {o}
                   /\ UNCHANGED not_cancelled_sent_simulated_orders
              ELSE /\ not_cancelled_sent_simulated_orders' =
                          not_cancelled_sent_simulated_orders \ {o}
                   /\ UNCHANGED in_flight_orders
        /\ UNCHANGED <<again, tree, stuck>>

\* Mutant: results of cancelled orders are used.
AnyResult(o) == TRUE

\* in_flight_orders.remove of a result's order.
IsInFlight(o) == o \in in_flight_orders

\* Results of cancelled orders reach neither the builders nor the tree.
ProcessNewSimulation ==
    /\ Batch("results")
    /\ results # <<>>
    /\ results' = Tail(results)
    /\ LET result == Head(results)
       IN  IF IsInFlight(result.order)
              THEN /\ in_flight_orders' = in_flight_orders \ {result.order}
                   /\ not_cancelled_sent_simulated_orders' =
                          not_cancelled_sent_simulated_orders \cup {result.order}
                   /\ tree' = ProcessSimulationTaskResult(tree, result)
              ELSE UNCHANGED <<in_flight_orders, not_cancelled_sent_simulated_orders, tree>>
    /\ UNCHANGED <<commands, wanted, refused, again, requests, working, stuck>>

\* Mutant: the filter is the wrong way round.
OrderCancelled(o) == o \notin in_flight_orders

OrderStillValid(o) == o \in in_flight_orders

\* The loop's head, before the next select: ready orders not cancelled go to the workers.
SendNewTasksForSimulation ==
    /\ job \in {"commands", "results"}
    /\ job' = "select"
    /\ requests' = requests \o SelectSeq(tree.ready_orders,
                                         LAMBDA r : OrderStillValid(r.order))
    /\ tree' = [tree EXCEPT !.ready_orders = <<>>]
    /\ UNCHANGED <<commands, wanted, refused, again, in_flight_orders,
                   not_cancelled_sent_simulated_orders, working, results, stuck>>

\* The slot ends.
Cancel ==
    /\ job = "select"
    /\ job' = "ended"
    /\ UNCHANGED <<jobState, requests, working, results, stuck>>

-----------------------------------------------------------------------------
(***************************************************************************)
(* run_sim_worker.  What it simulates after the job has ended reaches      *)
(* nobody: the receiver of the results is gone.                            *)
(***************************************************************************)
\* Mutant: the last request of the queue stays there.
TakeRequestOfBacklog(w) ==
    /\ job # "ended"
    /\ working[w] = Idle
    /\ Len(requests) > 1
    /\ working' = [working EXCEPT ![w] = Head(requests)]
    /\ requests' = Tail(requests)
    /\ UNCHANGED <<job, jobState, results, stuck>>

TakeRequest(w) ==
    /\ job # "ended"
    /\ working[w] = Idle
    /\ requests # <<>>
    /\ working' = [working EXCEPT ![w] = Head(requests)]
    /\ requests' = Tail(requests)
    /\ UNCHANGED <<job, jobState, results, stuck>>

\* The blocks an order can be simulated on: its parents committed in order.
AfterParents(request) ==
    Sx!FoldLeft(LAMBDA chains, o : UNION {CommitOrder(chain, o) : chain \in chains},
                {Chain}, request.parents)

\* Mutant: one more than fits.
HasRoomForOneMore == Len(results) <= ResultsCapacity

HasRoom == Len(results) < ResultsCapacity

\* A result is delivered with try_send: a full channel loses it.
SimulationSucceeds(w) ==
    /\ job # "ended"
    /\ working[w] # Idle
    /\ \E before \in AfterParents(working[w]), profit \in Profits :
       \E after \in CommitOrder(before, working[w].order) :
          LET result == [order |-> working[w].order,
                         previous_orders |-> working[w].parents,
                         nonces_after |-> Updated(before, after),
                         profit |-> profit]
          IN  IF HasRoom
                 THEN /\ results' = Append(results, result)
                      /\ UNCHANGED stuck
                 ELSE /\ stuck' = stuck \cup {working[w].order}
                      /\ UNCHANGED results
    /\ working' = [working EXCEPT ![w] = Idle]
    /\ UNCHANGED <<job, jobState, requests>>

\* The order or a parent fails, or a critical error sends the worker back for a context.
SimulationFails(w) ==
    /\ job # "ended"
    /\ working[w] # Idle
    /\ stuck' = stuck \cup {working[w].order}
    /\ working' = [working EXCEPT ![w] = Idle]
    /\ UNCHANGED <<job, jobState, requests, results>>

Next ==
    \/ ProcessNewOrder \/ PushOrderFails \/ ProcessOrderCancellation
    \/ ProcessNewSimulation \/ SendNewTasksForSimulation \/ Cancel
    \/ \E w \in Workers : TakeRequest(w) \/ SimulationSucceeds(w) \/ SimulationFails(w)

\* select! is fair to both channels, and each worker is a thread of its own.
Fairness ==
    /\ WF_vars(ProcessNewSimulation)
    /\ WF_vars(SendNewTasksForSimulation)
    /\ \A w \in Workers : WF_vars(TakeRequest(w) \/ SimulationFails(w) \/ SimulationSucceeds(w))

Spec == Init /\ [][Next]_vars

FairSpec == Spec /\ Fairness

-----------------------------------------------------------------------------
sent == not_cancelled_sent_simulated_orders

Outstanding ==
    Sx!ToSet(requests) \cup Sx!ToSet(tree.ready_orders)
        \cup {working[w] : w \in {v \in Workers : working[v] # Idle}}

\* The shape of the state; a waiting order counts no more nonces than it needs, and
\* the results channel is bounded.
TypeOK ==
    /\ job \in {"select", "commands", "results", "ended"}
    /\ wanted \subseteq Orders /\ refused \subseteq wanted
    /\ again \subseteq Orders /\ stuck \subseteq Orders
    /\ in_flight_orders \subseteq Orders /\ sent \subseteq Orders
    /\ DOMAIN tree.pending_orders \subseteq Orders
    /\ \A o \in DOMAIN tree.pending_orders :
          tree.pending_orders[o] \in 1..Cardinality(Ahead[o])
    /\ tree.pending_nonces \in [Keys -> SUBSET Orders]
    /\ \A r \in Outstanding : r.order \in Orders /\ r.parents \in Seq(Orders)
    /\ Len(results) <= ResultsCapacity

\* A wanted order is in flight or with the builders, and nothing else is in flight;
\* builders hold no order that is cancelled, and none that is being simulated, except
\* those that came again after their result was sent: their cancellation is taken for
\* one of an order "never sent".
BuildersHoldWanted ==
    /\ in_flight_orders \subseteq wanted \ refused
    /\ wanted \ refused \subseteq in_flight_orders \cup sent
    /\ in_flight_orders \cap sent \subseteq again
    /\ sent \ (wanted \ refused) \subseteq again

\* None of the three "SimTree bug" errors can happen: an order is listed under exactly
\* the nonces it still waits for, its counter is their number, and no filler is known.
TreeConsistent ==
    /\ \A k \in Keys, o \in Orders :
          o \in tree.pending_nonces[k]
             <=> o \in DOMAIN tree.pending_orders /\ k \in PendingNonces(tree, o)
    /\ \A o \in DOMAIN tree.pending_orders :
          tree.pending_orders[o] = Cardinality(PendingNonces(tree, o))

\* An order in flight is on its way: waiting in the tree, requested, being simulated
\* or in a result, unless its simulation failed or its result was lost.
NothingForgotten ==
    \A o \in in_flight_orders \ stuck :
        \/ o \in DOMAIN tree.pending_orders
        \/ \E r \in Outstanding : r.order = o
        \/ \E i \in DOMAIN results : results[i].order = o

Executable(request) ==
    \E chain \in AfterParents(request) : CommitOrder(chain, request.order) # {}

\* An order of one account that is given to the workers can execute after its parents:
\* the chain of fillers leads to its nonce, whichever of several fillers was kept and
\* whatever was cancelled meanwhile.
OneAccountParentsReachNonce ==
    \A r \in Outstanding : Cardinality(Signers(r.order)) = 1 => Executable(r)

\* An order that needs no other is simulated, or cancelled, unless the slot ends.
ReadyOrdersAreSimulated ==
    \A o \in {p \in Orders : Ahead[p] = {}} :
        o \in in_flight_orders
            ~> (o \notin in_flight_orders \/ o \in stuck \/ job = "ended")
=============================================================================
