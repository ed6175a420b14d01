-------------------------- MODULE MCOrderingBuilder --------------------------
(***************************************************************************)
(* Two accounts; account 1 has nonce 1, account 2 has nonce 0.             *)
(*   t0, t1  consecutive transactions of account 1                         *)
(*   b       a bundle: account 1 at nonce 1 may be dropped, then account 2 *)
(*           at its present nonce must succeed                             *)
(*   w       a bundle that waits for both accounts to move                 *)
(***************************************************************************)
EXTENDS OrderingBuilder

Tx(a, n, k) == [from |-> a, nonce |-> n, kind |-> k]

MCTxs == [t0 |-> <<Tx(1, 1, "must")>>,
          t1 |-> <<Tx(1, 2, "must")>>,
          b  |-> <<Tx(1, 1, "drop"), Tx(2, 0, "must")>>,
          w  |-> <<Tx(1, 2, "revert"), Tx(2, 1, "must"), Tx(1, 3, "must")>>]

MCAccounts == {1, 2}
MCChain == <<1, 0>>
MCProfit == [t0 |-> 2, t1 |-> 1, b |-> 1, w |-> 1]
=============================================================================
