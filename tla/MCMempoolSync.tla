---------------------------- MODULE MCMempoolSync ----------------------------
(* Instances of MempoolSync for TLC: three transactions in a chain, with two *)
(* rivals, or with one that spends the outputs of two others.                *)
EXTENDS MempoolSync

ThreeTx == {"a", "b", "c"}

InLine  == [t \in ThreeTx |-> CASE t = "a" -> {} [] t = "b" -> {"a"} [] t = "c" -> {"b"}]
Rivalry == [t \in ThreeTx |-> CASE t = "a" -> {} [] t = "b" -> {"a"} [] t = "c" -> {"a"}]
Joined  == [t \in ThreeTx |-> CASE t = "a" -> {} [] t = "b" -> {}    [] t = "c" -> {"a", "b"}]

Shapes == {InLine, Rivalry, Joined}

=============================================================================
