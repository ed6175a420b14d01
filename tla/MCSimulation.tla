---------------------------- MODULE MCSimulation ----------------------------
(***************************************************************************)
(* Two accounts at nonce 0.                                                *)
(*   x   a transaction of account 2                                        *)
(*   y   another for the same nonce                                        *)
(*   z   a transaction of account 2 at the next nonce                      *)
(*   w   a transaction of account 2 at the nonce after that                *)
(*   s   a bundle: account 1 must succeed, account 2 at nonce 1 may drop   *)
(*   o   a bundle that needs both accounts at nonce 1                      *)
(***************************************************************************)
EXTENDS Simulation

Tx(a, n, k) == [from |-> a, nonce |-> n, kind |-> k]

MCTxs == [x |-> <<Tx(2, 0, "must")>>,
          y |-> <<Tx(2, 0, "must")>>,
          z |-> <<Tx(2, 1, "must")>>,
          w |-> <<Tx(2, 2, "must")>>,
          s |-> <<Tx(1, 0, "must"), Tx(2, 1, "drop")>>,
          o |-> <<Tx(1, 1, "must"), Tx(2, 1, "must")>>]

MCAccounts == {1, 2}
MCChain == <<0, 0>>
=============================================================================
