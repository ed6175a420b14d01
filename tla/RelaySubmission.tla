-------------------------- MODULE RelaySubmission --------------------------
(***************************************************************************)
(* run_submit_to_relays_job of one relay set in one slot: the cell the     *)
(* finalize worker leaves blocks in, the job that takes the last one and   *)
(* signs it, a task per relay and block, and the observer of submissions   *)
(* (ConstraintProofs), which the jobs of other slots share.                *)
(***************************************************************************)
EXTENDS ConstraintProofs

CONSTANTS JobSlot,           \* the slot of this job
          BidValue,          \* bid value of a block
          RegularRelays, OptimisticRelays,
          MaxBid,            \* max_bid of a relay, NoLimit when it has none
          OptimisticMaxBid,  \* optimistic max_bid_value, NoLimit without a config
          NoLimit, None,
          MaxUpdates         \* bound on the blocks sealed

Relays == RegularRelays \cup OptimisticRelays

ASSUME RelayAssumption ==
    /\ BidValue \in [Blocks -> Nat]
    /\ RegularRelays \cap OptimisticRelays = {}
    /\ MaxBid \in [Relays -> Nat \cup {NoLimit}]
    /\ OptimisticMaxBid \in Nat \cup {NoLimit}
    /\ None \notin Blocks

VARIABLES updates,       \* blocks sealed so far
          cell,          \* PendingBlockCell: the pending block
          permit,        \*   and the permit of its Notify
          job,           \* where the job is
          lastBidHash,
          round,         \* blocks the job has taken for submission
          submissions,   \* tasks: a request on its way to a relay
          sent,          \* every submission made, per round
          cancelled      \* the CancellationToken of the slot

relayVars == <<updates, cell, permit, job, lastBidHash, round, submissions, sent,
               cancelled>>
vars == <<relayVars, proofVars>>

Init ==
    /\ ProofInit
    /\ updates = 0
    /\ cell = None /\ permit = FALSE
    /\ job = "wait" /\ lastBidHash = None /\ round = 0
    /\ submissions = {} /\ sent = {}
    /\ cancelled = FALSE

----------------------------------------------------------------------------
(* PendingBlockCell *)

\* Mutant: the block is stored and nobody is told.
NotifiesNobody(b) == permit

\* notify_one stores a permit when the job is not waiting.
Notified(b) == permit \/ b # cell

\* update: unless it is exactly the same block.
Update(b) ==
    /\ Slot[b] = JobSlot
    /\ updates < MaxUpdates
    /\ updates' = updates + 1
    /\ cell' = b
    /\ permit' = Notified(b)
    /\ UNCHANGED <<job, lastBidHash, round, submissions, sent, cancelled>>
    /\ UNCHANGED proofVars

----------------------------------------------------------------------------
(* run_submit_to_relays_job *)

WaitForChange ==
    /\ job = "wait" /\ permit
    /\ permit' = FALSE
    /\ job' = "take"
    /\ UNCHANGED <<updates, cell, lastBidHash, round, submissions, sent, cancelled>>
    /\ UNCHANGED proofVars

\* Mutant: the token is looked at only when a block wakes the job.
JobCancelledOnChange ==
    /\ job = "wait" /\ cancelled /\ permit
    /\ job' = "done"
    /\ UNCHANGED <<updates, cell, permit, lastBidHash, round, submissions, sent,
                   cancelled>>
    /\ UNCHANGED proofVars

\* The other branch of the select.
JobCancelled ==
    /\ job = "wait" /\ cancelled
    /\ job' = "done"
    /\ UNCHANGED <<updates, cell, permit, lastBidHash, round, submissions, sent,
                   cancelled>>
    /\ UNCHANGED proofVars

\* The optimistic config is used only below its bid limit.
UsesOptimisticConfig(b) ==
    OptimisticMaxBid # NoLimit /\ BidValue[b] < OptimisticMaxBid

RegularRequest(b) == ~UsesOptimisticConfig(b) \/ RegularRelays # {}
OptimisticRequest(b) == UsesOptimisticConfig(b) /\ OptimisticRelays # {}

\* Mutant: the limit of the relay is not looked at.
WithinAnyLimit(relay, b) == TRUE

\* Blocks go only to relays whose limit they do not exceed.
Within(relay, b) == MaxBid[relay] = NoLimit \/ ~(BidValue[b] > MaxBid[relay])

\* Mutant: every relay of the set gets the request signed with the key.
SubmitToAllRelays(relays, b, key) ==
    {[relay |-> r, block |-> b, key |-> key, round |-> round + 1] :
        r \in {s \in Relays : Within(s, b)}}

SubmitBlockToRelays(relays, b, key) ==
    {[relay |-> r, block |-> b, key |-> key, round |-> round + 1] :
        r \in {s \in relays : Within(s, b)}}

\* The part of the loop after a block is taken.  regular and optimistic tell
\* whether the requests were made (signing may fail): the optimistic relays get
\* the regular request when there is no optimistic one, and the observer is
\* told in both halves.
SubmitBlock(b, regular, optimistic) ==
    LET new == (IF regular THEN SubmitBlockToRelays(RegularRelays, b, "regular") ELSE {})
               \cup (IF optimistic
                       THEN SubmitBlockToRelays(OptimisticRelays, b, "optimistic")
                       ELSE IF regular
                         THEN SubmitBlockToRelays(OptimisticRelays, b, "regular")
                         ELSE {})
        notifications == (IF regular THEN 1 ELSE 0)
                         + (IF optimistic \/ regular THEN 1 ELSE 0)
    IN  /\ submissions' = submissions \cup new
        /\ sent' = sent \cup new
        /\ BlockSubmitted(b, notifications)

\* Nothing in the cell, or the block of the last bid: back to waiting.
TakeNothingNew ==
    /\ job = "take"
    /\ cell \in {None, lastBidHash}
    /\ cell' = None
    /\ job' = "wait"
    /\ UNCHANGED <<updates, permit, lastBidHash, round, submissions, sent, cancelled>>
    /\ UNCHANGED proofVars

TakePendingBlock(regularOk, optimisticOk) ==
    /\ job = "take"
    /\ cell \notin {None, lastBidHash}
    /\ lastBidHash' = cell
    /\ round' = round + 1
    /\ SubmitBlock(cell, RegularRequest(cell) /\ regularOk,
                         OptimisticRequest(cell) /\ optimisticOk)
    /\ cell' = None
    /\ job' = "wait"
    /\ UNCHANGED <<updates, permit, cancelled, storage>>

----------------------------------------------------------------------------
(* submit_bid_to_the_relay *)

\* Accepted, rate limited, refused, or dropped because the slot is cancelled.
SubmissionEnds(s) ==
    /\ submissions' = submissions \ {s}
    /\ UNCHANGED <<updates, cell, permit, job, lastBidHash, round, sent, cancelled>>
    /\ UNCHANGED proofVars

\* The payload was delivered, the slot is past, or the block failed the relay's
\* simulation: the whole slot is cancelled.
SubmissionCancelsSlot(s) ==
    /\ submissions' = submissions \ {s}
    /\ cancelled' = TRUE
    /\ UNCHANGED <<updates, cell, permit, job, lastBidHash, round, sent>>
    /\ UNCHANGED proofVars

\* The slot ends.
Cancel ==
    /\ ~cancelled
    /\ cancelled' = TRUE
    /\ UNCHANGED <<updates, cell, permit, job, lastBidHash, round, submissions, sent>>
    /\ UNCHANGED proofVars

\* The job of another slot submits its block; late ones are still running when
\* the next slot begins.
OtherJobSubmits(b) ==
    /\ Slot[b] # JobSlot
    /\ b \notin submitted
    /\ Submit(b)
    /\ UNCHANGED relayVars

ProofTask(i) == GenerateProof(i) /\ UNCHANGED relayVars

Job ==
    \/ WaitForChange \/ TakeNothingNew
    \/ \E regularOk, optimisticOk \in BOOLEAN : TakePendingBlock(regularOk, optimisticOk)

Next ==
    \/ \E b \in Blocks : Update(b)
    \/ Job \/ JobCancelled
    \/ \E s \in submissions : SubmissionEnds(s) \/ SubmissionCancelsSlot(s)
    \/ Cancel
    \/ \E b \in Blocks : OtherJobSubmits(b)
    \/ \E i \in 1 .. Len(tasks) : ProofTask(i)

Spec == Init /\ [][Next]_vars

\* The job is polled; its select picks among ready branches at random, so a
\* branch that is ready again and again is taken.
FairSpec == Spec /\ WF_vars(Job) /\ SF_vars(JobCancelled)

----------------------------------------------------------------------------
(* Properties *)

\* The shape of the state; no relay is sent a bid above the limit it is configured
\* with, whichever of the two halves of the loop sends it.
TypeOK ==
    /\ ProofTypeOK
    /\ cell \in Blocks \cup {None} /\ lastBidHash \in Blocks \cup {None}
    /\ permit \in BOOLEAN /\ cancelled \in BOOLEAN
    /\ job \in {"wait", "take", "done"}
    /\ round \in 0 .. updates /\ updates \in 0 .. MaxUpdates
    /\ submissions \subseteq sent
    /\ sent \subseteq [relay : Relays, block : Blocks, key : {"regular", "optimistic"},
                       round : 1 .. MaxUpdates]
    /\ \A s \in sent : MaxBid[s.relay] # NoLimit => BidValue[s.block] <= MaxBid[s.relay]

\* A relay gets at most one request per block taken, and one signed with the
\* optimistic key only if it is an optimistic relay and the bid is below the
\* limit, also when one of the two requests cannot be made.
OneRequestPerRelayAndBlock ==
    /\ \A s, t \in sent : (s.relay = t.relay /\ s.round = t.round) => s = t
    /\ \A s \in sent : s.key = "optimistic" =>
         s.relay \in OptimisticRelays /\ UsesOptimisticConfig(s.block)

\* The last block sealed is bid: a block in the cell is taken by the job, or
\* replaced by a later one, or the slot is cancelled.  No wake-up is lost
\* between the check of the cell and the wait.
PendingBlockIsBid ==
    \A b \in Blocks :
        cell = b ~> \/ lastBidHash = b
                    \/ cell \notin {b, None}
                    \/ job = "done"

\* A relay that reports the payload delivered or the slot past ends the job,
\* even while blocks keep coming.
CancelEndsTheJob == cancelled ~> job = "done"

============================================================================
