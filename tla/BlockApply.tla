----------------------------- MODULE BlockApply ------------------------------
(***************************************************************************)
(* What applying the transactions of a block promises to its caller        *)
(* ProcessBlock (daemon/processing/block.go): a transaction is applied     *)
(* after the transactions of the block it depends on, and the call ends    *)
(* with all of them applied or with an error.  TxScheduler implements this *)
(* module.                                                                 *)
(***************************************************************************)
EXTENDS Integers

CONSTANTS N, Graphs

Tx == 1..N

VARIABLES
  edgeSet,   \* the dependencies of the block
  applied,   \* transactions whose rows are all in the database
  spends,    \* transactions with spent outputs marked in the database
  outcome    \* "running", then the result of syncTransactionsOfBlock

vars == <<edgeSet, applied, spends, outcome>>

Parents(t) == {e.parent : e \in {d \in edgeSet : d.child = t}}

Init ==
  /\ edgeSet \in Graphs
  /\ applied = {}
  /\ spends = {}
  /\ outcome = IF N = 0 THEN "ok" ELSE "running"

\* One attempt at t, successful or not.
Apply(t) ==
  /\ outcome = "running"
  /\ Parents(t) \subseteq applied
  /\ t \notin applied
  /\ \/ applied' = applied \cup {t} /\ spends' = spends \cup {t}
     \/ applied' = applied /\ spends' \in {spends, spends \cup {t}}
  /\ UNCHANGED <<edgeSet, outcome>>

Succeed ==
  /\ outcome = "running"
  /\ applied = Tx
  /\ outcome' = "ok"
  /\ UNCHANGED <<edgeSet, applied, spends>>

\* The block is given up; "dirty" if the spends could not be reset.
Abort ==
  /\ outcome = "running"
  /\ \/ outcome' = "failed" /\ spends' = {}
     \/ outcome' = "dirty" /\ spends' = spends
  /\ UNCHANGED <<edgeSet, applied>>

Next == Succeed \/ Abort \/ \E t \in Tx : Apply(t)

Spec == Init /\ [][Next]_vars

=============================================================================
