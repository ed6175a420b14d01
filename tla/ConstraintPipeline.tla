--------------------------- MODULE ConstraintPipeline ---------------------------
(***************************************************************************)
(* The way of a constraint from submitConstraints to a slot:               *)
(* the RPC handlers (constraint_input/rpc_server.rs) send each transaction *)
(* as a bundle to the order pool and then the constraint to a bounded      *)
(* channel, waiting at most a timeout for each; a bridge task moves it to  *)
(* the command channel; the job of the pool takes commands in batches      *)
(* (start_constraintpool_jobs); the slot loop (LiveBuilder::run) takes the *)
(* constraints of the block it builds.                                     *)
(***************************************************************************)
EXTENDS ConstraintPool

CONSTANTS Calls,           \* calls of submitConstraints
          CallOf,          \* the constraint a call submits
          TxsOf,           \* number of transactions of a constraint
          Undecodable,     \* constraints with a transaction that cannot be decoded
          ResultsCapacity, CommandsCapacity,  \* CONSTRAINT_INPUT_BUFFER
          MaxBatch         \* size of recv_many (100)

VARIABLES call,       \* where each call is, and how many bundles it still sends
          bundles,    \* constraints with a bundle in the order pool's channel
          results,    \* channel of the RPC server
          bridge,     \* the bridge task runs
          held,       \* what the bridge has taken and not yet sent on
          commands,   \* channel of the pool's job
          cancelled   \* global_cancel

pipeVars == << call, bundles, results, bridge, held, commands, cancelled >>
vars == << poolVars, pipeVars >>

Nobody == << >>

--------------------------------------------------------------------------------
\* The handler decodes all the transactions before it sends the first bundle.
SubmitConstraints(k) ==
  /\ call[k].pc = "idle"
  /\ call' = [call EXCEPT ![k] =
       [pc |-> "running", left |-> IF CallOf[k] \in Undecodable THEN 0 ELSE TxsOf[CallOf[k]]]]
  /\ UNCHANGED << poolVars, bundles, results, bridge, held, commands, cancelled >>

\* One bundle to the order pool; a timeout is only logged.
SendBundle(k, timeout) ==
  /\ call[k].pc = "running" /\ call[k].left > 0
  /\ call' = [call EXCEPT ![k].left = @ - 1]
  /\ bundles' = IF timeout THEN bundles ELSE bundles \cup {CallOf[k]}
  /\ UNCHANGED << poolVars, results, bridge, held, commands, cancelled >>

\* Mutant: the channel takes any number.
SendConstraintUnbounded(k) ==
  /\ call[k].pc = "running" /\ call[k].left = 0
  /\ bridge
  /\ results' = Append(results, CallOf[k])
  /\ call' = [call EXCEPT ![k].pc = "ok"]
  /\ UNCHANGED << poolVars, bundles, bridge, held, commands, cancelled >>

\* The constraint always goes to the pool, whatever happened to its bundles.
SendConstraint(k) ==
  /\ call[k].pc = "running" /\ call[k].left = 0
  /\ bridge
  /\ Len(results) < ResultsCapacity
  /\ results' = Append(results, CallOf[k])
  /\ call' = [call EXCEPT ![k].pc = "ok"]
  /\ UNCHANGED << poolVars, bundles, bridge, held, commands, cancelled >>

\* send_timeout on a full channel, "overloaded", or on a closed one.
TimeOut(k) ==
  /\ call[k].pc = "running" /\ call[k].left = 0
  /\ bridge => Len(results) = ResultsCapacity
  /\ call' = [call EXCEPT ![k].pc = "error"]
  /\ UNCHANGED << poolVars, bundles, results, bridge, held, commands, cancelled >>

\* The bridge: recv, then a send that waits for room.
BridgeReceive ==
  /\ bridge /\ held = Nobody
  /\ results # << >>
  /\ held' = << Head(results) >>
  /\ results' = Tail(results)
  /\ UNCHANGED << poolVars, call, bundles, bridge, commands, cancelled >>

\* Mutant: the bridge drops what does not fit.
BridgeTrySend ==
  /\ held # Nobody /\ ~cancelled
  /\ commands' = IF Len(commands) < CommandsCapacity THEN Append(commands, Insert(held[1]))
                                                     ELSE commands
  /\ held' = Nobody
  /\ UNCHANGED << poolVars, call, bundles, results, bridge, cancelled >>

BridgeSend ==
  /\ held # Nobody /\ ~cancelled
  /\ Len(commands) < CommandsCapacity
  /\ commands' = Append(commands, Insert(held[1]))
  /\ held' = Nobody
  /\ UNCHANGED << poolVars, call, bundles, results, bridge, cancelled >>

\* The job of the pool is gone: the send fails, the bridge ends and drops its
\* receiver with what is queued there.
BridgeEnds ==
  /\ held # Nobody /\ cancelled
  /\ bridge' = FALSE
  /\ held' = Nobody
  /\ results' = << >>
  /\ UNCHANGED << poolVars, call, bundles, commands, cancelled >>

\* Environment: the channel's command to remove a block has no sender in the
\* repository; the code that starts the pool holds a sender and may use it.
SendRemoveBlock(b) ==
  /\ ~cancelled
  /\ Len(commands) < CommandsCapacity
  /\ b \notin removed
  /\ commands' = Append(commands, RemoveBlock(b))
  /\ UNCHANGED << poolVars, call, bundles, results, bridge, held, cancelled >>

\* The job of the pool: recv_many, and process_commands under the lock.
PoolJob(n) ==
  /\ ~cancelled
  /\ n <= Len(commands)
  /\ ProcessCommands(SubSeq(commands, 1, n))
  /\ commands' = SubSeq(commands, n + 1, Len(commands))
  /\ UNCHANGED << call, bundles, results, bridge, held, cancelled >>

Cancel ==
  /\ ~cancelled
  /\ cancelled' = TRUE
  /\ UNCHANGED << poolVars, call, bundles, results, bridge, held, commands >>

--------------------------------------------------------------------------------
Init ==
  /\ PoolInit
  /\ call = [k \in Calls |-> [pc |-> "idle", left |-> 0]]
  /\ bundles = {}
  /\ results = << >> /\ bridge = TRUE /\ held = Nobody /\ commands = << >>
  /\ cancelled = FALSE

Next ==
  \/ \E k \in Calls : \/ SubmitConstraints(k)
                      \/ \E timeout \in BOOLEAN : SendBundle(k, timeout)
                      \/ SendConstraint(k)
                      \/ TimeOut(k)
  \/ BridgeReceive
  \/ BridgeSend
  \/ BridgeEnds
  \/ \E b \in Blocks : SendRemoveBlock(b)
  \/ \E n \in 1 .. MaxBatch : PoolJob(n)
  \/ Cancel
  \/ PoolCall /\ UNCHANGED pipeVars

\* The bridge and the job of the pool are tasks of the runtime.  Senders that
\* wait for room in a tokio channel get it in the order they came, so the bridge
\* is not starved by another owner of the channel.  Nothing is assumed of calls.
Fairness ==
  /\ SF_vars(BridgeReceive \/ BridgeSend)
  /\ WF_vars(\E n \in 1 .. MaxBatch : PoolJob(n))

Spec == Init /\ [][Next]_vars /\ Fairness

--------------------------------------------------------------------------------
\* The calls, channels and the pool have their shape.
TypeOK ==
  /\ PoolTypeOK
  /\ \A k \in Calls : /\ call[k].pc \in {"idle", "running", "ok", "error"}
                      /\ call[k].left \in Nat
  /\ bundles \subseteq ConstraintIds
  /\ results \in Seq(ConstraintIds) /\ Len(results) <= ResultsCapacity
  /\ commands \in Seq(Commands) /\ Len(commands) <= CommandsCapacity
  /\ Len(held) <= 1

\* A constraint whose submission was acknowledged reaches the pool, although it
\* crosses two bounded channels and a task that waits for room in the second,
\* unless the builder is shutting down.
AcknowledgedReachesPool ==
  \A c \in ConstraintIds :
    (\E k \in Calls : CallOf[k] = c /\ call[k].pc = "ok") ~> (c \in received \/ cancelled)
================================================================================
