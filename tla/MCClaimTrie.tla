----------------------------- MODULE MCClaimTrie -----------------------------
(* Instances of ClaimTrie for TLC: two claims that compete for one name.   *)
EXTENDS ClaimTrie

TwoClaims == {"big", "small"}
Amounts   == [c \in TwoClaims |-> IF c = "big" THEN 2 ELSE 1]

=============================================================================
