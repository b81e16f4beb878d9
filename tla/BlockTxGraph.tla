---------------------------- MODULE BlockTxGraph -----------------------------
(***************************************************************************)
(* The dependency graph of the transactions of one block, built by         *)
(* buildDependencies of daemon/processing/block_scheduler.go.  Its first   *)
(* pass adds an edge for every input that spends an output of the same     *)
(* block, its second pass one for every pair of neighbouring accesses to a *)
(* claim, its third pass collects the transactions that wait for nothing.  *)
(* The graph it leaves is the one TxScheduler starts from.                 *)
(*                                                                         *)
(* Transaction i is the i-th entry of graph.order.  An input is the number *)
(* of the transaction it spends from, NoTx when that is not in the block.  *)
(* An output is its kind of script and the claim it names.                 *)
(***************************************************************************)
EXTENDS Integers, Sequences, FiniteSets

CONSTANTS
  N,       \* len(graph.order)
  Claims,  \* claim ids
  Blocks   \* the blocks a validating node may deliver

Tx      == 1..N
NoTx    == 0
Reasons == {"utxo", "claim"}
Edges   == [parent : Tx, child : Tx, reason : Reasons]

\* The script kinds that claimGraphEventsForVout tells apart; "other" stands
\* for every other script, one that does not decode or parse included.
Kinds == {"claimName", "update", "support", "purchase", "other"}
Vouts == [kind : Kinds, claim : Claims]

writer(vout) == vout.kind \in {"claimName", "update"}
reader(vout) == vout.kind \in {"support", "purchase"}

\* In a valid block an input spends an output of an earlier transaction.
Vin(i) == {p \in Tx : p < i} \cup {NoTx}

WellFormed(b) ==
  \A i \in Tx : b.vin[i] \in Seq(Vin(i)) /\ b.vout[i] \in Seq(Vouts)

ASSUME NAssumption      == N \in Nat
ASSUME BlocksAssumption == \A b \in Blocks : WellFormed(b)

VARIABLES
  block,           \* the inputs and outputs of the transactions
  pass,            \* which pass of buildDependencies is running
  pos,             \* the transaction the pass has reached
  item,            \* the input or output of that transaction it has reached
  edgeSet,         \* graph.edgeSet
  unresolved,      \* graph.unresolved
  latestWriter,    \* the last transaction that wrote each claim, or NoTx
  waitingReaders,  \* the transactions that read each claim since then
  ready            \* graph.ready

vars == <<block, pass, pos, item, edgeSet, unresolved, latestWriter,
          waitingReaders, ready>>

-----------------------------------------------------------------------------
Init ==
  /\ block \in Blocks
  /\ pass = "utxo"
  /\ pos = 1
  /\ item = 1
  /\ edgeSet = {}
  /\ unresolved = [i \in Tx |-> 0]
  /\ latestWriter = [c \in Claims |-> NoTx]
  /\ waitingReaders = [c \in Claims |-> {}]
  /\ ready = <<>>

\* Mutated form: an edge that is there already is counted again.
addDependenciesTwice(parents, reason) ==
  LET wanted == {[parent |-> p, child |-> pos, reason |-> reason] :
                   p \in parents \ {NoTx, pos}}
  IN  /\ edgeSet' = edgeSet \cup wanted
      /\ unresolved' = [unresolved EXCEPT ![pos] = @ + Cardinality(wanted)]

\* Mutated form: the check parent == child is missing.
addDependenciesToSelf(parents, reason) ==
  LET new == {[parent |-> p, child |-> pos, reason |-> reason] :
                p \in parents \ {NoTx}} \ edgeSet
  IN  /\ edgeSet' = edgeSet \cup new
      /\ unresolved' = [unresolved EXCEPT ![pos] = @ + Cardinality(new)]

\* addDependency, called for each of the parents: no edge from a transaction
\* to itself, and no second edge with the same reason.
addDependencies(parents, reason) ==
  LET new == {[parent |-> p, child |-> pos, reason |-> reason] :
                p \in parents \ {NoTx, pos}} \ edgeSet
  IN  /\ edgeSet' = edgeSet \cup new
      /\ unresolved' = [unresolved EXCEPT ![pos] = @ + Cardinality(new)]

\* addUTXODependencies, one input.
AddUTXO ==
  /\ pass = "utxo"
  /\ pos <= N
  /\ item <= Len(block.vin[pos])
  /\ addDependencies({block.vin[pos][item]}, "utxo")
  /\ item' = item + 1
  /\ UNCHANGED <<block, pass, pos, latestWriter, waitingReaders, ready>>

vout == block.vout[pos][item]

AtVout ==
  /\ pass = "claim"
  /\ pos <= N
  /\ item <= Len(block.vout[pos])

\* Mutated form: a writer does not wait for the readers before it.
AddWriterOnly ==
  /\ AtVout
  /\ writer(vout)
  /\ addDependencies({latestWriter[vout.claim]}, "claim")
  /\ waitingReaders' = [waitingReaders EXCEPT ![vout.claim] = {}]
  /\ latestWriter' = [latestWriter EXCEPT ![vout.claim] = pos]
  /\ item' = item + 1
  /\ UNCHANGED <<block, pass, pos, ready>>

\* A writer waits for the previous writer and for the readers since then.
AddWriter ==
  /\ AtVout
  /\ writer(vout)
  /\ addDependencies({latestWriter[vout.claim]} \cup waitingReaders[vout.claim],
                     "claim")
  /\ waitingReaders' = [waitingReaders EXCEPT ![vout.claim] = {}]
  /\ latestWriter' = [latestWriter EXCEPT ![vout.claim] = pos]
  /\ item' = item + 1
  /\ UNCHANGED <<block, pass, pos, ready>>

\* Mutated form: a reader also waits for the readers before it.
AddReaderOrdered ==
  /\ AtVout
  /\ reader(vout)
  /\ addDependencies({latestWriter[vout.claim]} \cup waitingReaders[vout.claim],
                     "claim")
  /\ waitingReaders' = [waitingReaders EXCEPT ![vout.claim] = @ \cup {pos}]
  /\ item' = item + 1
  /\ UNCHANGED <<block, pass, pos, latestWriter, ready>>

\* A reader waits for the previous writer only.
AddReader ==
  /\ AtVout
  /\ reader(vout)
  /\ addDependencies({latestWriter[vout.claim]}, "claim")
  /\ waitingReaders' = [waitingReaders EXCEPT ![vout.claim] = @ \cup {pos}]
  /\ item' = item + 1
  /\ UNCHANGED <<block, pass, pos, latestWriter, ready>>

SkipVout ==
  /\ AtVout
  /\ vout.kind = "other"
  /\ item' = item + 1
  /\ UNCHANGED <<block, pass, pos, edgeSet, unresolved, latestWriter,
                 waitingReaders, ready>>

Items(i) == IF pass = "utxo" THEN block.vin[i] ELSE block.vout[i]

NextTx ==
  /\ pass \in {"utxo", "claim"}
  /\ pos <= N
  /\ item > Len(Items(pos))
  /\ pos' = pos + 1
  /\ item' = 1
  /\ UNCHANGED <<block, pass, edgeSet, unresolved, latestWriter, waitingReaders,
                 ready>>

\* Mutated form: the next pass starts one entry too early.
NextPassFromZero ==
  /\ pass \in {"utxo", "claim"}
  /\ pos > N
  /\ pass' = IF pass = "utxo" THEN "claim" ELSE "ready"
  /\ pos' = 0
  /\ UNCHANGED <<block, item, edgeSet, unresolved, latestWriter, waitingReaders,
                 ready>>

NextPass ==
  /\ pass \in {"utxo", "claim"}
  /\ pos > N
  /\ pass' = IF pass = "utxo" THEN "claim" ELSE "ready"
  /\ pos' = 1
  /\ UNCHANGED <<block, item, edgeSet, unresolved, latestWriter, waitingReaders,
                 ready>>

\* The last loop of buildDependencies, one transaction.
CollectReady ==
  /\ pass = "ready"
  /\ pos <= N
  /\ ready' = IF unresolved[pos] = 0 THEN Append(ready, pos) ELSE ready
  /\ pos' = pos + 1
  /\ UNCHANGED <<block, pass, item, edgeSet, unresolved, latestWriter,
                 waitingReaders>>

\* The graph is returned, or ErrDependencyGraphStalled.
Finish ==
  /\ pass = "ready"
  /\ pos > N
  /\ pass' = IF ready = <<>> /\ N > 0 THEN "stalled" ELSE "built"
  /\ UNCHANGED <<block, pos, item, edgeSet, unresolved, latestWriter,
                 waitingReaders, ready>>

Terminated == pass \in {"built", "stalled"} /\ UNCHANGED vars

Next ==
  \/ AddUTXO \/ AddWriter \/ AddReader \/ SkipVout
  \/ NextTx \/ NextPass \/ CollectReady \/ Finish \/ Terminated

Spec == Init /\ [][Next]_vars

-----------------------------------------------------------------------------
(* Properties.                                                             *)

\* The variables keep their types, the counters of open edges included.
TypeOK ==
  /\ WellFormed(block)
  /\ pass \in {"utxo", "claim", "ready", "built", "stalled"}
  /\ pos \in 1..(N + 1)
  /\ item \in Nat \ {0}
  /\ edgeSet \subseteq Edges
  /\ unresolved \in [Tx -> Nat]
  /\ latestWriter \in [Claims -> Tx \cup {NoTx}]
  /\ waitingReaders \in [Claims -> SUBSET Tx]
  /\ ready \in Seq(Tx)

Into(i)  == {e \in edgeSet : e.child = i}
Elems(s) == {s[k] : k \in DOMAIN s}

\* What runBlockTxScheduler takes over is what TxScheduler starts from: every
\* edge leads forward, each counter is the number of edges into its
\* transaction, and ready lists, in block order, the transactions with none.
HandOver ==
  pass \in {"built", "stalled"} =>
    /\ \A e \in edgeSet : e.parent < e.child
    /\ \A i \in Tx : unresolved[i] = Cardinality(Into(i))
    /\ Elems(ready) = {i \in Tx : Into(i) = {}}
    /\ \A j, k \in DOMAIN ready : j < k => ready[j] < ready[k]

\* The graph of a valid block always has a transaction to start with.
NoStall == pass # "stalled"

\* j comes after i, or is i: every set of transactions that contains i and is
\* closed under the edges contains j.
After(i, j) ==
  \A S \in SUBSET Tx :
    (i \in S /\ \A e \in edgeSet : e.parent \in S => e.child \in S) => j \in S

Touches(i, c) == {k \in DOMAIN block.vout[i] : block.vout[i][k].claim = c}
Writes(i, c)  == \E k \in Touches(i, c) : writer(block.vout[i][k])
Reads(i, c)   == \E k \in Touches(i, c) : reader(block.vout[i][k])

ClaimConflict(i, j) ==
  \E c \in Claims : \/ Writes(i, c) /\ (Writes(j, c) \/ Reads(j, c))
                    \/ Reads(i, c) /\ Writes(j, c)

Spends(j, i) == i \in Elems(block.vin[j])

\* Two transactions that may not be swapped, because the later one spends an
\* output of the earlier one or because they touch a claim that one of them
\* writes, are ordered by the graph as they are in the block.
ConflictsOrdered ==
  pass = "built" =>
    \A i, j \in Tx :
      i < j /\ (Spends(j, i) \/ ClaimConflict(i, j)) => After(i, j)

\* The graph orders no more than it has to: an edge joins two transactions
\* that conflict, so two supports or purchases of one claim stay parallel.
OnlyConflicts ==
  \A e \in edgeSet : IF e.reason = "utxo" THEN Spends(e.child, e.parent)
                     ELSE ClaimConflict(e.parent, e.child)

=============================================================================
