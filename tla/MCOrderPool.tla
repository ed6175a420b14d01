------------------------------ MODULE MCOrderPool ------------------------------
(* Two bundles for the second block under one key, one of them under a second *)
(* key too; a bundle for any block, with and without the first key; a share   *)
(* bundle for either block; and a transaction.  The first bundle and the      *)
(* share bundle come with two sequence numbers, the others with one or the    *)
(* other; cancellations come with the lower one and above both, and the       *)
(* second key is not cancelled.                                               *)
EXTENDS OrderPool

MCKeysOf == [id \in Ids |-> CASE id = "b1" -> {"kb"} [] id = "b2" -> {"kb", "kc"}
                             [] id = "n1" -> {"kb", NoKey} [] id = "s1" -> {"ks"}
                             [] OTHER -> {NoKey}]
MCBlocksOf == [id \in Ids |-> CASE id \in {"b1", "b2"} -> {2} [] id = "s1" -> {1, 2}
                               [] OTHER -> {NoBlock}]

NotSent == {CancelBundle("kc", seq) : seq \in SeqNumbers}
             \cup {CancelBundle("kb", 1), Order("b2", "kb", 0, 2), Order("b2", "kc", 1, 2),
                   Order("n1", "kb", 1, NoBlock), Order("s1", "ks", 1, 1)}

\* Time passes only while something is kept that grows old.
MCNext == /\ Next
          /\ history'.commands \cap NotSent = {}
          /\ now' # now => Len(pool.mempool_txs) + Len(pool.bundle_cancellations) > 0

MCSpec == Init /\ [][MCNext]_vars
================================================================================
