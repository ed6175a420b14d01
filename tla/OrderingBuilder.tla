--------------------------- MODULE OrderingBuilder ---------------------------
(***************************************************************************)
(* The ordering builder of one slot: simulated orders and cancellations    *)
(* arrive on a bounded broadcast channel, OrderIntakeConsumer applies them *)
(* to a PrioritizedOrderStore, and each build pops a copy of that store    *)
(* empty, best order first, keeping the copy's account nonces in step with *)
(* the block being filled.                                                 *)
(***************************************************************************)
EXTENDS OrderNonces, TLC

CONSTANTS Chain,              \* the account nonces of the parent block
          Profit,             \* what an order's simulation promised
          FailedOrderRetries, \* failed_order_retries of the configuration
          ChannelCapacity,    \* the broadcast channel keeps this many commands
          MaxCommands         \* bound: commands ever sent

LOCAL Fn == INSTANCE Functions

ASSUME BuilderAssumption ==
    /\ Chain \in [Accounts -> Nat]
    /\ Profit \in [Orders -> Nat]
    /\ FailedOrderRetries \in Nat
    /\ ChannelCapacity \in Nat \ {0}
    /\ MaxCommands \in Nat

VARIABLES
    channel,        \* broadcast::Receiver<SimulatedOrderCommand>
    sent,           \* how many commands were sent
    wanted,         \* orders simulated and not cancelled, as the sender sees it
    lagged,         \* the receiver has lost a command
    new_commands,   \* OrderConsumer: commands received and not applied
    fetched,        \* onchain_nonces_updated
    lookup_failed,  \* some read of an account nonce failed
    base,           \* OrderIntakeConsumer.block_orders
    phase,          \* "consume", or the pass of fill_orders: "fill" | "filtered"
    work,           \* the copy of base a build consumes
    block,          \* account nonces after the orders committed so far
    committed,      \* the orders in the block
    attempts,       \* order_attempts
    failed,         \* failed_orders
    removed         \* removed_orders: what remove_orders returned

intake == <<new_commands, fetched, lookup_failed, base>>
OutOfFill == <<channel, sent, wanted, lagged, intake, removed>>
building == <<phase, work, block, committed, attempts, failed>>
vars == <<channel, sent, wanted, lagged, intake, building, removed>>

-----------------------------------------------------------------------------
(***************************************************************************)
(* PrioritizedOrderStore                                                   *)
(***************************************************************************)
Keys == UNION {{<<a, Nonce(o, a)>> : a \in Signers(o)} : o \in Orders}

EmptyStore ==
    [main_queue        |-> {},
     main_queue_nonces |-> [a \in Accounts |-> {}],
     onchain_nonces    |-> [a \in Accounts |-> 0],  \* unwrap_or_default
     pending_orders    |-> [k \in Keys |-> {}],
     orders            |-> <<>>]                    \* id -> value

Outdated(s, o) ==
    \E a \in Signers(o) : s.onchain_nonces[a] > Nonce(o, a) /\ ~Optional(o, a)

PendingNonces(s, o) ==
    {<<a, Nonce(o, a)>> : a \in {b \in Signers(o) :
                     s.onchain_nonces[b] < Nonce(o, b) /\ ~Optional(o, b)}}

\* insert_order for each of the simulated orders `new`, a function from id to value.
InsertOrders(s, new) ==
    LET fresh == {o \in DOMAIN new : o \notin DOMAIN s.orders /\ ~Outdated(s, o)}
        ready == {o \in fresh : PendingNonces(s, o) = {}}
    IN  [s EXCEPT !.main_queue = @ \cup ready,
                  !.main_queue_nonces =
                      [a \in Accounts |-> @[a] \cup {o \in ready : a \in Signers(o)}],
                  !.pending_orders =
                      [k \in Keys |-> @[k] \cup {o \in fresh : k \in PendingNonces(s, o)}],
                  !.orders = @ @@ Fn!Restrict(new, fresh)]

RemoveFromOrders(s, ids) ==
    [s EXCEPT !.orders = Fn!Restrict(@, DOMAIN @ \ ids)]

\* Orders taken out of main_queue leave `orders` and the index by account too.
RemovePopedOrders(s, ids) ==
    [RemoveFromOrders(s, ids) EXCEPT
        !.main_queue = @ \ ids,
        !.main_queue_nonces = [a \in Accounts |-> @[a] \ ids]]

\* An order that must give way is kept while no mandatory nonce is outdated and one still fits.
Retained(s, o) ==
    /\ ~Outdated(s, o)
    /\ \E a \in Signers(o) : s.onchain_nonces[a] = Nonce(o, a)

\* Mutant: the nonce of an account no ready order uses is not stored.
UpdateListedOnly(s, new_nonces) ==
    LET listed   == {a \in DOMAIN new_nonces : s.main_queue_nonces[a] # {}}
        touched  == UNION {s.main_queue_nonces[a] : a \in listed}
        moved    == [s EXCEPT !.onchain_nonces = Fn!Restrict(new_nonces, listed) @@ @]
        retained == {o \in touched \cap DOMAIN s.orders : Retained(moved, o)}
    IN  InsertOrders(RemovePopedOrders(moved, touched), Fn!Restrict(s.orders, retained))

\* The nonces move and the ready orders of the accounts moved are looked at again.
UpdateInvalidated(s, new_nonces) ==
    LET touched  == UNION {s.main_queue_nonces[a] : a \in DOMAIN new_nonces}
        moved    == [s EXCEPT !.onchain_nonces = new_nonces @@ @]
        retained == {o \in touched \cap DOMAIN s.orders : Retained(moved, o)}
    IN  InsertOrders(RemovePopedOrders(moved, touched), Fn!Restrict(s.orders, retained))

\* Mutant: orders that waited for the nonce keep waiting.
UpdateNoPending(s, new_nonces) == s

\* The orders that waited for exactly these nonces are inserted again.
UpdatePending(s, new_nonces) ==
    LET reached  == {k \in Keys : k[1] \in DOMAIN new_nonces /\ new_nonces[k[1]] = k[2]}
        released == UNION {s.pending_orders[k] : k \in reached} \cap DOMAIN s.orders
    IN  InsertOrders(
            [RemoveFromOrders(s, released) EXCEPT
                !.pending_orders = [k \in Keys |-> IF k \in reached THEN {} ELSE @[k]]],
            Fn!Restrict(s.orders, released))

UpdateOnchainNonces(s, new_nonces) ==
    UpdatePending(UpdateInvalidated(s, new_nonces), new_nonces)

\* Mutant: an order that waits for a nonce is not removed.
RemoveReadyOrders(s, ids) == RemovePopedOrders(s, ids \cap s.main_queue)

\* Entries of pending_orders stay: they are cleaned when the nonce is reached.
RemoveOrders(s, ids) ==
    RemoveFromOrders(RemovePopedOrders(s, ids \cap s.main_queue), ids)

\* The removed order is returned, unless it was ready: then it is already gone.
RemoveOrderReturns(s, o) ==
    IF o \in DOMAIN s.orders /\ o \notin s.main_queue THEN {o} ELSE {}

\* The best orders a priority queue may pop.
Best(s) ==
    {o \in s.main_queue : \A p \in s.main_queue : s.orders[o] >= s.orders[p]}

-----------------------------------------------------------------------------
Simulation(o) == [type |-> "Simulation", id |-> o]
Cancellation(o) == [type |-> "Cancellation", id |-> o]

Init ==
    /\ channel = <<>> /\ sent = 0 /\ wanted = {} /\ lagged = FALSE
    /\ new_commands = <<>> /\ fetched = {} /\ lookup_failed = FALSE
    /\ base = EmptyStore
    /\ phase = "consume" /\ work = EmptyStore /\ block = Chain
    /\ committed = {} /\ attempts = [o \in Orders |-> 0] /\ failed = {}
    /\ removed = {}

\* A full broadcast channel overwrites its oldest value; the receiver learns it lagged.
Broadcast(command) ==
    /\ sent < MaxCommands
    /\ sent' = sent + 1
    /\ IF Len(channel) = ChannelCapacity
          THEN /\ channel' = Append(Tail(channel), command)
               /\ lagged' = TRUE
          ELSE /\ channel' = Append(channel, command)
               /\ UNCHANGED lagged
    /\ UNCHANGED <<intake, building, removed>>

SendSimulation ==
    \E o \in Orders \ wanted :
        /\ wanted' = wanted \cup {o}
        /\ Broadcast(Simulation(o))

SendCancellation ==
    \E o \in wanted :
        /\ wanted' = wanted \ {o}
        /\ Broadcast(Cancellation(o))

-----------------------------------------------------------------------------
(***************************************************************************)
(* OrderIntakeConsumer                                                     *)
(***************************************************************************)
\* The commands that bring an order of account a.
Uses(commands, a) ==
    {i \in DOMAIN commands : /\ commands[i].type = "Simulation"
                             /\ a \in Signers(commands[i].id)}

\* Accounts of new orders whose nonce was not read yet.
Unfetched(commands) == {a \in Accounts \ fetched : Uses(commands, a) # {}}

\* Nonces are read order by order, and by address within an order.
ReadBefore(commands, a, b) ==
    \E i \in Uses(commands, a) : \A j \in Uses(commands, b) : i < j \/ (i = j /\ a < b)

ApplyCommand(s, command) ==
    IF command.type = "Simulation"
       THEN InsertOrders(s, command.id :> Profit[command.id])
       ELSE RemoveOrders(s, {command.id})

\* blocking_consume_next_commands and update_onchain_nonces.
ConsumeNextCommands ==
    LET commands == new_commands \o channel
        read     == Unfetched(commands)
    IN  /\ phase = "consume"
        /\ channel # <<>>
        /\ channel' = <<>> /\ new_commands' = commands
        /\ fetched' = fetched \cup read
        /\ base' = UpdateOnchainNonces(base, [a \in read |-> Chain[a]])
        /\ phase' = "apply"
        /\ UNCHANGED <<sent, wanted, lagged, lookup_failed, work, block, committed,
                       attempts, failed, removed>>

\* apply_new_commands, a command at a time (only this thread sees the store).
ApplyNewCommand ==
    /\ phase = "apply"
    /\ new_commands # <<>>
    /\ new_commands' = Tail(new_commands)
    /\ base' = ApplyCommand(base, Head(new_commands))
    /\ UNCHANGED <<channel, sent, wanted, lagged, fetched, lookup_failed, building, removed>>

\* current_block_orders is a copy; build_block starts from the parent block.
StartBuild ==
    /\ phase = "apply"
    /\ new_commands = <<>>
    /\ phase' = "fill" /\ work' = base /\ block' = Chain
    /\ committed' = {} /\ attempts' = [o \in Orders |-> 0] /\ failed' = {}
    /\ UNCHANGED OutOfFill

\* The state provider fails at the next account: the nonces read before it in this
\* round are dropped, their accounts stay marked, the commands stay for the next round.
NonceLookupFails ==
    LET commands == new_commands \o channel
        needed   == Unfetched(commands)
    IN  /\ phase = "consume"
        /\ channel # <<>>
        /\ \E b \in needed :
              fetched' = fetched \cup {a \in needed : ReadBefore(commands, a, b)}
        /\ channel' = <<>> /\ new_commands' = commands
        /\ lookup_failed' = TRUE
        /\ UNCHANGED <<sent, wanted, lagged, base, building, removed>>

-----------------------------------------------------------------------------
(***************************************************************************)
(* fill_orders, one popped order at a time.  The first pass takes every    *)
(* order, the second only those other builders included (a choice here).   *)
(***************************************************************************)
filling == phase \in {"fill", "filtered"}

Pop(o) == /\ filling
          /\ o \in Best(work)

\* An order of no gas, or one the second pass filters out.
Skip ==
    \E o \in work.main_queue :
        /\ Pop(o)
        /\ work' = RemovePopedOrders(work, {o})
        /\ UNCHANGED <<OutOfFill, phase, block, committed, attempts, failed>>

Commit ==
    \E o \in work.main_queue :
        /\ Pop(o)
        /\ \E after \in CommitOrder(block, o) :
              /\ block' = after
              /\ work' = UpdateOnchainNonces(RemovePopedOrders(work, {o}),
                                             Updated(block, after))
        /\ committed' = committed \cup {o}
        /\ UNCHANGED <<OutOfFill, phase, attempts, failed>>

\* Mutant: one retry too many.
MayRetryOnceMore(o) == attempts[o] <= FailedOrderRetries

MayRetry(o) == attempts[o] < FailedOrderRetries

\* Mutant: the attempt is not counted.
ForgetAttempt(o) == attempts

CountAttempt(o) == [attempts EXCEPT ![o] = @ + 1]

\* Mutant: an order put back for another try is reported as failed.
FailedAnyway(o, reinserted) == failed \cup {o}

FailedUnless(o, reinserted) == IF reinserted THEN failed ELSE failed \cup {o}

\* The order gave less than it promised: it may try again at the value it gave.
LowerInsertedValue ==
    \E o \in work.main_queue :
        /\ Pop(o)
        /\ work.orders[o] > 0
        /\ CommitOrder(block, o) # {}
        /\ IF MayRetry(o)
              THEN /\ \E inplace \in 0..(work.orders[o] - 1) :
                        work' = InsertOrders(RemovePopedOrders(work, {o}), o :> inplace)
                   /\ attempts' = CountAttempt(o)
              ELSE /\ work' = RemovePopedOrders(work, {o})
                   /\ UNCHANGED attempts
        /\ failed' = FailedUnless(o, MayRetry(o))
        /\ UNCHANGED <<OutOfFill, phase, block, committed>>

OrderFails ==
    \E o \in work.main_queue :
        /\ Pop(o)
        /\ work' = RemovePopedOrders(work, {o})
        /\ failed' = failed \cup {o}
        /\ UNCHANGED <<OutOfFill, phase, block, committed, attempts>>

\* The deadline is looked at after the pop: the popped order is in neither list.
Deadline ==
    \E o \in work.main_queue :
        /\ Pop(o)
        /\ work' = RemovePopedOrders(work, {o})
        /\ phase' = IF phase = "fill" THEN "filtered" ELSE "built"
        /\ UNCHANGED <<OutOfFill, block, committed, attempts, failed>>

QueueEmpty ==
    /\ filling
    /\ work.main_queue = {}
    /\ phase' = "built"
    /\ UNCHANGED <<OutOfFill, work, block, committed, attempts, failed>>

\* A critical error ends the build; an unhealthy provider ends the builder too.
BuildingError ==
    /\ filling
    /\ phase' \in {"built", "stopped"}
    /\ UNCHANGED <<OutOfFill, work, block, committed, attempts, failed>>

\* drop_failed_orders: the orders that failed are taken out of the intake's store.
DropFailedOrders ==
    /\ phase = "built"
    /\ phase' = "consume"
    /\ base' = RemoveOrders(base, failed)
    /\ removed' = removed \cup UNION {RemoveOrderReturns(base, o) : o \in failed}
    /\ failed' = {}
    /\ UNCHANGED <<channel, sent, wanted, lagged, new_commands, fetched,
                   lookup_failed, work, block, committed, attempts>>

\* The slot is cancelled, or the sender is gone.
Stop ==
    /\ phase = "consume"
    /\ phase' = "stopped"
    /\ UNCHANGED <<OutOfFill, work, block, committed, attempts, failed>>

Next ==
    \/ SendSimulation \/ SendCancellation
    \/ ConsumeNextCommands \/ ApplyNewCommand \/ StartBuild \/ NonceLookupFails
    \/ Skip \/ Commit \/ LowerInsertedValue \/ OrderFails \/ Deadline
    \/ QueueEmpty \/ BuildingError
    \/ DropFailedOrders \/ Stop

Spec == Init /\ [][Next]_vars

-----------------------------------------------------------------------------
StoreTypeOK(s) ==
    /\ s.main_queue \subseteq DOMAIN s.orders
    /\ DOMAIN s.orders \subseteq Orders
    /\ \A o \in DOMAIN s.orders : s.orders[o] \in 0..Profit[o]
    /\ s.main_queue_nonces \in [Accounts -> SUBSET Orders]
    /\ s.onchain_nonces \in [Accounts -> Nat]
    /\ s.pending_orders \in [Keys -> SUBSET Orders]

\* Types.  An order is tried at most failed_order_retries times more than once.
TypeOK ==
    /\ Len(channel) <= ChannelCapacity
    /\ wanted \subseteq Orders
    /\ fetched \subseteq Accounts
    /\ StoreTypeOK(base) /\ StoreTypeOK(work)
    /\ phase \in {"consume", "apply", "fill", "filtered", "built", "stopped"}
    /\ block \in [Accounts -> Nat]
    /\ attempts \in [Orders -> 0..FailedOrderRetries]
    /\ failed \subseteq Orders /\ committed \subseteq Orders /\ removed \subseteq Orders

\* The two expects of the store ("order from prio queue not found in block orders")
\* never fail: the queue and its index by account name the same stored orders.
IndexesAgree(s) ==
    /\ s.main_queue \subseteq DOMAIN s.orders
    /\ \A a \in Accounts :
          s.main_queue_nonces[a] = {o \in s.main_queue : a \in Signers(o)}

Ready(s, o) == ~Outdated(s, o) /\ PendingNonces(s, o) = {}

\* An order is in the main queue when, by the nonces the store knows, it can execute,
\* and only then; an order that waits is listed under a nonce still to come.
QueueIsReady(s) ==
    /\ \A o \in s.main_queue : Ready(s, o)
    /\ \A o \in DOMAIN s.orders \ s.main_queue :
          /\ ~Ready(s, o)
          /\ \A k \in PendingNonces(s, o) : o \in s.pending_orders[k]

\* Whatever sequence of inserts, cancellations, pops, retries and nonce updates, the
\* store's four maps agree (update_onchain_nonces, insert_order, remove_order).
StoresConsistent ==
    /\ IndexesAgree(base) /\ IndexesAgree(work)
    /\ QueueIsReady(base) /\ QueueIsReady(work)

\* "Special care must be taken to keep this in sync": the nonces the copy schedules by
\* are those of the block being filled, for every account some order of it uses.
InSync ==
    filling => \A o \in DOMAIN work.orders : \A a \in Signers(o) :
                  work.onchain_nonces[a] = block[a]

\* As long as every nonce read from the state provider succeeded.
NoncesInSync == ~lookup_failed => InSync

\* An order that was committed, or that failed for good, does not come back in the
\* same build, whatever nonces later commits move.
SettledStaysSettled ==
    filling => (committed \cup failed) \cap DOMAIN work.orders = {}

\* Once the channel is read empty and no command was overwritten in it, a builder
\* has no order left whose simulation was cancelled.
CancelledIsForgotten ==
    (~lagged /\ channel = <<>> /\ new_commands = <<>>) =>
        DOMAIN base.orders \subseteq wanted

\* What is left to do in a build: the orders stored and the retries they still have.
Remaining == Cardinality(DOMAIN work.orders)
             + Fn!FoldFunction(LAMBDA n, left : FailedOrderRetries - n + left, 0, attempts)

\* Every order popped brings the end of the build nearer, retries and the orders that
\* nonce updates put back included: the loop of fill_orders terminates.
BuildsEnd == [][filling /\ filling' => Remaining' < Remaining]_building
=============================================================================
