----------------------------- MODULE OrderNonces -----------------------------
(***************************************************************************)
(* Orders seen through the account nonces they need and change: what the   *)
(* simulation and the ordering builder schedule by.                        *)
(*                                                                         *)
(* An order is a sequence of transactions.  A transaction "must" succeed,  *)
(* or may be included reverted ("revert"), or may be left out ("drop").    *)
(* The EVM is not modelled: whether a transaction whose nonce fits reverts *)
(* is a choice.                                                            *)
(***************************************************************************)
EXTENDS Naturals, Sequences, FiniteSets

CONSTANTS Accounts,     \* the signers, as numbers: order.nonces() is sorted by address
          Orders,       \* order ids
          Txs           \* the transactions of an order

LOCAL Sx == INSTANCE SequencesExt

Kinds == {"must", "revert", "drop"}

ASSUME OrdersAssumption ==
    /\ Accounts \subseteq Nat
    /\ \A o \in Orders :
         /\ Txs[o] \in Seq([from : Accounts, nonce : Nat, kind : Kinds])
         /\ Txs[o] # <<>>

Signers(o) == {Txs[o][i].from : i \in DOMAIN Txs[o]}

IsTxOptional(tx) == tx.kind # "must"

\* The lowest nonce of the account in the order, as the first transaction that has it.
LowestTx ==
    [o \in Orders |-> [a \in Signers(o) |->
        LET mine == {i \in DOMAIN Txs[o] : Txs[o][i].from = a}
            low  == {i \in mine : \A j \in mine : Txs[o][i].nonce <= Txs[o][j].nonce}
        IN  Txs[o][CHOOSE i \in low : \A j \in low : i <= j]]]

Nonce(o, a) == LowestTx[o][a].nonce

Optional(o, a) == IsTxOptional(LowestTx[o][a])

(***************************************************************************)
(* commit_order on a block whose account nonces are `chain`: every way it  *)
(* can succeed, as the nonces it leaves.  It may always fail instead.      *)
(***************************************************************************)
CommitTx(chain, tx) ==
    (IF chain[tx.from] = tx.nonce
        THEN {[chain EXCEPT ![tx.from] = @ + 1]} ELSE {})
    \cup (IF IsTxOptional(tx) THEN {chain} ELSE {})

CommitTxs(chains, tx) == UNION {CommitTx(chain, tx) : chain \in chains}

\* A bundle in which nothing was executed is an error (EmptyBundle).
CommitOrder(chain, o) == Sx!FoldLeft(CommitTxs, {chain}, Txs[o]) \ {chain}

\* nonces_updated of a commit that took the block from `before` to `after`.
Updated(before, after) ==
    LET changed == {a \in Accounts : before[a] # after[a]}
    IN  [a \in changed |-> after[a]]
=============================================================================
