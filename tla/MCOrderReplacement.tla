-------------------------- MODULE MCOrderReplacement --------------------------
(* OrderReplacementManager with a bundle that is sent under two keys, one that *)
(* is sent under a key and without, and a share bundle.                        *)
EXTENDS OrderReplacementManager, FiniteSets, TLC

CONSTANTS b1, b2, s1, kb, kc, ks,
          MaxNotifications   \* bound: different notifications received

MCIds == {b1, b2, s1}
MCKeysOf == (b1 :> {kb, kc}) @@ (b2 :> {kb, NoKey}) @@ (s1 :> {ks})

MCSpec == Init /\ [][Next /\ Cardinality(received') <= MaxNotifications]_vars
================================================================================
