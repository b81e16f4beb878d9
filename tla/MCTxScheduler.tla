---------------------------- MODULE MCTxScheduler ----------------------------
(* TxScheduler on every dependency graph of a small block.                 *)
EXTENDS TxScheduler

\* Every set of forward edges: at most one edge per pair and reason.
AllGraphs == SUBSET {e \in Edges : e.parent < e.child}

=============================================================================
