---------------------------- MODULE MCBlockBuilding ----------------------------
(***************************************************************************)
(* Two constraint transactions, either of which an order may already       *)
(* include, one of which takes from the coinbase, and orders with a        *)
(* combined, an immediate and a delayed refund, optional and reverting     *)
(* transactions.                                                           *)
(***************************************************************************)
EXTENDS BlockBuilding

tx(signer, nonce, gas_limit, gas_used, profit, reverts) ==
  [signer |-> signer, nonce |-> nonce, gas_limit |-> gas_limit, gas_used |-> gas_used,
   profit |-> profit, reverts |-> reverts, decodes |-> TRUE]

bundle(txs, reverting, dropping) ==
  [txs |-> txs, reverting |-> reverting, dropping |-> dropping,
   to |-> NoRefund, refund_tx |-> NoRefund, percent |-> 0, delayed |-> FALSE]

refund(b, t, to, percent, delayed) ==
  [b EXCEPT !.to = to, !.refund_tx = t, !.percent = percent, !.delayed = delayed]

MCTx ==
  [t \in Txs |->
     CASE t = "a0" -> tx("A", 0, 3, 2, 5, FALSE)
       [] t = "a1" -> tx("A", 1, 2, 2, 4, TRUE)
       [] t = "b0" -> tx("B", 0, 2, 1, 8, FALSE)
       [] t = "b1" -> tx("B", 1, 2, 2, 6, FALSE)
       [] t = "c0" -> tx("C", 0, 3, 1, -1, FALSE)]

MCBundle ==
  [o \in Orders |->
     CASE o = "o1" -> bundle(<< "a0" >>, {"a0"}, {})
       [] o = "o2" -> refund(bundle(<< "b0", "a1" >>, {}, {"a1"}), "b0", "eoa", 50, FALSE)
       [] o = "o3" -> refund(bundle(<< "b1" >>, {}, {}), "b1", "eoa", 90, FALSE)
       [] o = "o4" -> refund(bundle(<< "a0", "a1" >>, {"a1"}, {}), "a0", "safe", 60, FALSE)
       [] o = "o5" -> refund(bundle(<< "c0", "b0" >>, {}, {"c0"}), "b0", "eoa", 50, TRUE)
       [] o = "o6" -> bundle(<< "b0" >>, {"b0"}, {})]

MCPayGas == [r \in Recipients \cup {FeeRecipient} |-> IF r = "safe" THEN 2 ELSE 1]
MCConstraints == << "c0", "a1" >>
================================================================================
