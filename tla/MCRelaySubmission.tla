------------------------- MODULE MCRelaySubmission -------------------------
(* Small instances of RelaySubmission for TLC: two blocks of the slot, a low *)
(* and a high bid around the limits of the relays, and a block of the slot   *)
(* before and of the one after.  The high one includes its constraint as an  *)
(* order and appends none.                                                   *)
EXTENDS RelaySubmission

MCSlot == [b \in Blocks |-> CASE b = "before" -> 1 [] b = "after" -> 3 [] OTHER -> 2]
MCBody == [b \in Blocks |-> CASE b = "low" -> <<"o", "x", "y">> [] OTHER -> <<"o", "x">>]
MCAppended == [b \in Blocks |-> CASE b = "low" -> <<"x", "y">> [] b = "high" -> <<>>
                                  [] OTHER -> <<"x">>]
MCBidValue == [b \in Blocks |-> CASE b = "low" -> 1 [] OTHER -> 2]
MCMaxBid == [r \in Relays |-> CASE r = "capped" -> 1 [] OTHER -> NoLimit]
============================================================================
