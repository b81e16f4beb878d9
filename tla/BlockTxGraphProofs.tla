------------------------- MODULE BlockTxGraphProofs --------------------------
(***************************************************************************)
(* Proofs about BlockTxGraph, for every number of transactions, every set  *)
(* of claims and every block whose inputs spend earlier outputs.           *)
(***************************************************************************)
EXTENDS BlockTxGraph, FiniteSetTheorems, TLAPS

-----------------------------------------------------------------------------
(* The inductive invariant.                                                *)

\* Input k, or output k, of transaction t is behind the position of its pass.
Behind(t, k)  == t < pos \/ (t = pos /\ k < item)
SeenIn(t, k)  == pass # "utxo" \/ Behind(t, k)
SeenOut(t, k) == pass \notin {"utxo", "claim"} \/ (pass = "claim" /\ Behind(t, k))

\* What the second pass has seen t do to claim c.
Wrote(t, c) == \E k \in Touches(t, c) : SeenOut(t, k) /\ writer(block.vout[t][k])
HasRead(t, c) == \E k \in Touches(t, c) : SeenOut(t, k) /\ reader(block.vout[t][k])

\* Where the passes are.
Position ==
  /\ pos > N \/ pass \notin {"utxo", "claim"} => item = 1
  /\ pass \in {"built", "stalled"} => pos = N + 1
  /\ pass = "utxo" => \A c \in Claims : latestWriter[c] = NoTx /\ waitingReaders[c] = {}

\* The transactions that the second pass remembers are not ahead of it, and are
\* those that write and read the claim.
Remembered ==
  pass = "claim" =>
    \A c \in Claims :
      /\ latestWriter[c] # NoTx => latestWriter[c] <= pos /\ Writes(latestWriter[c], c)
      /\ \A r \in waitingReaders[c] : r <= pos /\ Reads(r, c)

Forward == \A e \in edgeSet : e.parent < e.child

Counts == \A i \in Tx : unresolved[i] = Cardinality(Into(i))

\* The third pass lists what it has passed, in order.
Listed ==
  /\ pass \in {"utxo", "claim"} => ready = <<>>
  /\ pass \notin {"utxo", "claim"} =>
       /\ Elems(ready) = {i \in Tx : i < pos /\ unresolved[i] = 0}
       /\ \A j, k \in DOMAIN ready : j < k => ready[j] < ready[k]

\* An input that was seen has its edge.
Spent ==
  \A t \in Tx : \A k \in DOMAIN block.vin[t] :
    SeenIn(t, k) /\ block.vin[t][k] # NoTx =>
      [parent |-> block.vin[t][k], child |-> t, reason |-> "utxo"] \in edgeSet

\* Every access to a claim is before its latest writer, or remembered.
Chained ==
  \A c \in Claims, t \in Tx :
    /\ Wrote(t, c) => latestWriter[c] # NoTx /\ After(t, latestWriter[c])
    /\ HasRead(t, c) => \/ t \in waitingReaders[c]
                        \/ latestWriter[c] # NoTx /\ After(t, latestWriter[c])

\* Two accesses that conflict are ordered as soon as both were seen.
Ordered ==
  \A c \in Claims : \A i, j \in Tx :
    i < j => /\ Wrote(i, c) /\ (Wrote(j, c) \/ HasRead(j, c)) => After(i, j)
             /\ HasRead(i, c) /\ Wrote(j, c) => After(i, j)

IInv ==
  /\ TypeOK /\ Position /\ Remembered /\ Forward /\ Counts /\ Listed
  /\ NoStall /\ OnlyConflicts /\ Spent /\ Chained /\ Ordered

-----------------------------------------------------------------------------
(* The order that a set of edges defines.                                  *)

\* After, of any set of edges.
AfterIn(E, i, j) ==
  \A S \in SUBSET Tx :
    (i \in S /\ \A e \in E : e.parent \in S => e.child \in S) => j \in S

\* The order is reflexive.
LEMMA AfterRefl == ASSUME NEW E, NEW i PROVE AfterIn(E, i, i)
  BY DEF AfterIn

\* More edges order no less.
LEMMA AfterMono ==
  ASSUME NEW E, NEW F, E \subseteq F, NEW i, NEW j, AfterIn(E, i, j)
  PROVE  AfterIn(F, i, j)
  BY DEF AfterIn

\* The order is prolonged by an edge.
LEMMA AfterEdge ==
  ASSUME NEW E, NEW i, NEW e \in E, AfterIn(E, i, e.parent)
  PROVE  AfterIn(E, i, e.child)
  BY DEF AfterIn

-----------------------------------------------------------------------------
(* Counting edges.                                                         *)

\* There are finitely many possible edges.
LEMMA EdgesFinite == IsFiniteSet(Edges)
<1> DEFINE Triples == Tx \X (Tx \X Reasons)
           f == [x \in Triples |-> [parent |-> x[1], child |-> x[2][1], reason |-> x[2][2]]]
<1>1. 1 \in Int /\ N \in Int
  BY NAssumption
<1>2. IsFiniteSet(Tx)
  BY <1>1, FS_Interval DEF Tx
<1>3. IsFiniteSet({"utxo"}) /\ IsFiniteSet({"utxo"} \cup {"claim"})
  BY FS_Singleton, FS_AddElement
<1>4. Reasons = {"utxo"} \cup {"claim"}
  BY DEF Reasons
<1>5. IsFiniteSet(Triples)
  <2>1. IsFiniteSet(Tx \X Reasons)
    BY <1>2, <1>3, <1>4, FS_Product
  <2>2. QED BY <1>2, <2>1, FS_Product
<1>6. f \in Surjection(Triples, Edges)
  <2>1. f \in [Triples -> Edges]
    BY DEF Edges
  <2>2. ASSUME NEW e \in Edges PROVE \E x \in Triples : f[x] = e
    <3>1. <<e.parent, <<e.child, e.reason>>>> \in Triples
      BY DEF Edges
    <3>2. f[<<e.parent, <<e.child, e.reason>>>>] = e
      BY <3>1 DEF Edges
    <3>3. QED BY <3>1, <3>2
  <2>3. QED BY <2>1, <2>2 DEF Surjection
<1>7. QED
  <2> HIDE DEF f, Triples
  <2>1. QED BY <1>5, <1>6, FS_Surjection

\* The graph grew by edges from parents to the transaction at pos.
Grown(parents, reason) ==
  /\ edgeSet \subseteq edgeSet' /\ edgeSet' \subseteq Edges
  /\ unresolved' \in [Tx -> Nat] /\ Forward' /\ Counts'
  /\ \A p \in parents \ {NoTx, pos} :
       [parent |-> p, child |-> pos, reason |-> reason] \in edgeSet'
  /\ \A e \in edgeSet' \ edgeSet :
       e.child = pos /\ e.reason = reason /\ e.parent \in parents \ {NoTx, pos}

\* What addDependency, called for the parents of the transaction at pos, does to
\* the graph: the edges that were asked for are there, no other edge is new, and
\* the counter of the transaction has grown by the number of new edges.
LEMMA AddDependencies ==
  ASSUME edgeSet \subseteq Edges, unresolved \in [Tx -> Nat], Forward, Counts,
         pos \in Tx, NEW reason \in Reasons,
         NEW parents \in SUBSET Nat, \A p \in parents : p <= pos,
         addDependencies(parents, reason)
  PROVE  Grown(parents, reason)
<1> DEFINE wanted == {[parent |-> p, child |-> pos, reason |-> reason] :
                        p \in parents \ {NoTx, pos}}
           new == wanted \ edgeSet
<1>1. /\ edgeSet' = edgeSet \cup new
      /\ unresolved' = [unresolved EXCEPT ![pos] = @ + Cardinality(new)]
  BY DEF addDependencies
<1>2. \A p \in parents \ {NoTx, pos} : p \in Tx /\ p < pos
  BY NAssumption DEF Tx, NoTx
<1>3. wanted \subseteq Edges
  BY <1>2 DEF Edges
<1>4. ASSUME NEW e \in wanted
      PROVE  /\ e.child = pos /\ e.reason = reason
             /\ e.parent \in parents \ {NoTx, pos} /\ e.parent < e.child
  <2>1. PICK p \in parents \ {NoTx, pos} : e = [parent |-> p, child |-> pos, reason |-> reason]
    OBVIOUS
  <2>2. QED BY <2>1, <1>2
<1>5. Forward'
  BY <1>1, <1>4 DEF Forward
<1>6. IsFiniteSet(new) /\ Cardinality(new) \in Nat
  <2>1. new \in SUBSET Edges
    BY <1>3
  <2>2. IsFiniteSet(new)
    BY <2>1, EdgesFinite, FS_Subset
  <2>3. QED BY <2>2, FS_CardinalityType
<1>7. unresolved' \in [Tx -> Nat]
  BY <1>1, <1>6
<1>8. Counts'
  <2> SUFFICES ASSUME NEW i \in Tx PROVE unresolved'[i] = Cardinality(Into(i)')
    BY DEF Counts
  <2>1. unresolved[i] = Cardinality(Into(i))
    BY DEF Counts
  <2>2. CASE i # pos
    <3>1. Into(i)' = Into(i)
      BY <1>1, <1>4, <2>2 DEF Into
    <3>2. QED BY <1>1, <2>1, <2>2, <3>1
  <2>3. CASE i = pos
    <3>1. Into(i)' = Into(i) \cup new
      BY <1>1, <1>4, <2>3 DEF Into
    <3>2. Into(i) \in SUBSET Edges /\ Into(i) \cap new = {}
      BY DEF Into
    <3>3. IsFiniteSet(Into(i)) /\ Cardinality(Into(i)) \in Nat
      BY <3>2, EdgesFinite, FS_Subset, FS_CardinalityType
    <3>4. Cardinality(Into(i) \cup new)
            = Cardinality(Into(i)) + Cardinality(new) - Cardinality(Into(i) \cap new)
      BY <3>3, <1>6, FS_Union
    <3>5. Cardinality(Into(i) \cap new) = 0
      BY <3>2, FS_EmptySet
    <3>6. Cardinality(Into(i) \cup new) = Cardinality(Into(i)) + Cardinality(new)
      BY <3>3, <3>4, <3>5, <1>6
    <3>7. QED BY <1>1, <2>1, <2>3, <3>1, <3>6
  <2>4. QED BY <2>2, <2>3
<1>9. \A p \in parents \ {NoTx, pos} :
        [parent |-> p, child |-> pos, reason |-> reason] \in edgeSet'
  BY <1>1
<1>10. QED BY <1>1, <1>3, <1>4, <1>5, <1>7, <1>8, <1>9 DEF Grown

\* The transaction, the output and the claim that the second pass looks at.
LEMMA AtOutput ==
  ASSUME TypeOK, AtVout
  PROVE  /\ pos \in Tx /\ item \in DOMAIN block.vout[pos]
         /\ vout = block.vout[pos][item] /\ vout \in Vouts /\ vout.claim \in Claims
<1>1. pos \in Tx
  BY NAssumption DEF TypeOK, AtVout, Tx
<1>2. block.vout[pos] \in Seq(Vouts)
  BY <1>1 DEF TypeOK, WellFormed
<1>3. item \in DOMAIN block.vout[pos]
  BY <1>2 DEF TypeOK, AtVout
<1>4. vout \in Vouts
  BY <1>2, <1>3 DEF vout
<1>5. QED BY <1>1, <1>3, <1>4 DEF vout, Vouts

\* The input that the first pass looks at spends from an earlier transaction.
LEMMA AtInput ==
  ASSUME TypeOK, AddUTXO
  PROVE  /\ pos \in Tx /\ item \in DOMAIN block.vin[pos]
         /\ block.vin[pos][item] \in Vin(pos)
         /\ block.vin[pos][item] \in Nat /\ block.vin[pos][item] <= pos
<1>1. pos \in Tx
  BY NAssumption DEF TypeOK, AddUTXO, Tx
<1>2. block.vin[pos] \in Seq(Vin(pos))
  BY <1>1 DEF TypeOK, WellFormed
<1>3. item \in DOMAIN block.vin[pos]
  BY <1>2 DEF TypeOK, AddUTXO
<1>4. block.vin[pos][item] \in Vin(pos)
  BY <1>2, <1>3
<1>5. QED BY <1>1, <1>3, <1>4, NAssumption DEF Vin, Tx, NoTx

\* One input of addUTXODependencies.
LEMMA UTXOGrows ==
  ASSUME IInv, AddUTXO
  PROVE  Grown({block.vin[pos][item]}, "utxo")
<1> DEFINE parents == {block.vin[pos][item]}
<1>1. pos \in Tx /\ parents \in SUBSET Nat /\ \A p \in parents : p <= pos
  BY AtInput DEF IInv
<1>2. edgeSet \subseteq Edges /\ unresolved \in [Tx -> Nat] /\ Forward /\ Counts
  BY DEF IInv, TypeOK
<1>3. "utxo" \in Reasons /\ addDependencies(parents, "utxo")
  BY DEF Reasons, AddUTXO
<1> HIDE DEF parents
<1>4. Grown(parents, "utxo")
  BY <1>1, <1>2, <1>3, AddDependencies
<1>5. QED BY <1>4 DEF parents

\* The claims that the second pass remembers are not ahead of it.
LEMMA ClaimGrows ==
  ASSUME IInv, AtVout, NEW readers \in SUBSET waitingReaders[vout.claim],
         addDependencies({latestWriter[vout.claim]} \cup readers, "claim")
  PROVE  Grown({latestWriter[vout.claim]} \cup readers, "claim")
<1> DEFINE parents == {latestWriter[vout.claim]} \cup readers
<1>0. vout.claim \in Claims /\ pos \in Tx
  BY AtOutput DEF IInv
<1>1. latestWriter[vout.claim] \in Nat /\ latestWriter[vout.claim] <= pos
  BY <1>0, NAssumption DEF IInv, TypeOK, Remembered, AtVout, Tx, NoTx
<1>2. readers \in SUBSET Nat /\ \A p \in readers : p <= pos
  BY <1>0, NAssumption DEF IInv, TypeOK, Remembered, AtVout, Tx
<1>3. parents \in SUBSET Nat /\ \A p \in parents : p <= pos
  BY <1>1, <1>2
<1>4. edgeSet \subseteq Edges /\ unresolved \in [Tx -> Nat] /\ Forward /\ Counts
  BY DEF IInv, TypeOK
<1>5. "claim" \in Reasons /\ addDependencies(parents, "claim")
  BY DEF Reasons
<1> HIDE DEF parents
<1>6. Grown(parents, "claim")
  BY <1>0, <1>3, <1>4, <1>5, AddDependencies
<1>7. QED BY <1>6 DEF parents

\* A writer of a claim.
LEMMA WriterGrows ==
  ASSUME IInv, AddWriter
  PROVE  Grown({latestWriter[vout.claim]} \cup waitingReaders[vout.claim], "claim")
  BY ClaimGrows DEF AddWriter

\* A reader of a claim.
LEMMA ReaderGrows ==
  ASSUME IInv, AddReader
  PROVE  Grown({latestWriter[vout.claim]}, "claim")
<1>1. {latestWriter[vout.claim]} \cup {} = {latestWriter[vout.claim]}
  OBVIOUS
<1>2. {} \in SUBSET waitingReaders[vout.claim]
  OBVIOUS
<1>3. AtVout /\ addDependencies({latestWriter[vout.claim]} \cup {}, "claim")
  BY <1>1 DEF AddReader
<1>4. Grown({latestWriter[vout.claim]} \cup {}, "claim")
  BY <1>2, <1>3, ClaimGrows
<1>5. QED BY <1>1, <1>4

-----------------------------------------------------------------------------
(* Every step preserves the invariant.                                     *)

\* The empty graph satisfies it.
LEMMA InitIInv == Init => IInv
<1> SUFFICES ASSUME Init PROVE IInv
  OBVIOUS
<1>1. TypeOK
  BY NAssumption, BlocksAssumption DEF Init, TypeOK, Tx, NoTx
<1>2. Position /\ Remembered /\ Forward /\ NoStall /\ OnlyConflicts
  BY NAssumption DEF Init, Position, Remembered, Forward, NoStall, OnlyConflicts
<1>3. Counts
  BY FS_EmptySet DEF Init, Counts, Into
<1>4. Listed
  BY DEF Init, Listed
<1>5. Spent
  <2>1. ASSUME NEW t \in Tx, NEW k \in DOMAIN block.vin[t] PROVE ~SeenIn(t, k)
    <3>1. block.vin[t] \in Seq(Vin(t))
      BY <1>1 DEF TypeOK, WellFormed
    <3>2. k \in Nat \ {0} /\ t \in Nat \ {0}
      BY <3>1, NAssumption DEF Tx
    <3>3. QED BY <3>2 DEF Init, SeenIn, Behind
  <2>2. QED BY <2>1 DEF Spent
<1>6. Chained /\ Ordered
  BY DEF Init, Chained, Ordered, Wrote, HasRead, SeenOut
<1>7. QED BY <1>1, <1>2, <1>3, <1>4, <1>5, <1>6 DEF IInv

\* The types and the positions of the passes.
LEMMA TypeStep == IInv /\ [Next]_vars => TypeOK' /\ Position'
<1> SUFFICES ASSUME IInv, [Next]_vars PROVE TypeOK' /\ Position'
  OBVIOUS
<1> USE NAssumption DEF Position
<1>1. TypeOK /\ Position
  BY DEF IInv
<1>2. CASE AddUTXO
  <2>1. edgeSet' \subseteq Edges /\ unresolved' \in [Tx -> Nat]
    BY <1>2, UTXOGrows DEF Grown
  <2>2. QED BY <1>1, <1>2, <2>1 DEF AddUTXO, TypeOK, WellFormed
<1>3. CASE AddWriter
  <2>1. edgeSet' \subseteq Edges /\ unresolved' \in [Tx -> Nat]
    BY <1>3, WriterGrows DEF Grown
  <2>2. pos \in Tx /\ vout.claim \in Claims
    BY <1>1, <1>3, AtOutput DEF AddWriter
  <2>3. QED BY <1>1, <1>3, <2>1, <2>2 DEF AddWriter, AtVout, TypeOK, WellFormed
<1>4. CASE AddReader
  <2>1. edgeSet' \subseteq Edges /\ unresolved' \in [Tx -> Nat]
    BY <1>4, ReaderGrows DEF Grown
  <2>2. pos \in Tx /\ vout.claim \in Claims
    BY <1>1, <1>4, AtOutput DEF AddReader
  <2>3. QED BY <1>1, <1>4, <2>1, <2>2 DEF AddReader, AtVout, TypeOK, WellFormed
<1>5. CASE SkipVout
  BY <1>1, <1>5 DEF SkipVout, AtVout, TypeOK, WellFormed
<1>6. CASE NextTx
  BY <1>1, <1>6 DEF NextTx, TypeOK, WellFormed
<1>7. CASE NextPass
  BY <1>1, <1>7 DEF NextPass, TypeOK, WellFormed
<1>8. CASE CollectReady
  <2>1. pos \in Tx
    BY <1>1, <1>8 DEF CollectReady, TypeOK, Tx
  <2>2. ready' \in Seq(Tx)
    BY <1>1, <1>8, <2>1 DEF CollectReady, TypeOK
  <2>3. item' = 1
    BY <1>1, <1>8 DEF CollectReady
  <2>4. QED BY <1>1, <1>8, <2>2, <2>3 DEF CollectReady, TypeOK, WellFormed
<1>9. CASE Finish
  BY <1>1, <1>9 DEF Finish, TypeOK, WellFormed
<1>10. CASE Terminated \/ UNCHANGED vars
  BY <1>1, <1>10 DEF Terminated, vars, TypeOK, WellFormed
<1>11. QED
  BY <1>2, <1>3, <1>4, <1>5, <1>6, <1>7, <1>8, <1>9, <1>10 DEF Next

\* What a step leaves alone: the block always, and the graph unless it is one of
\* the three that add edges.
LEMMA Frame ==
  ASSUME [Next]_vars
  PROVE  /\ block' = block
         /\ AddUTXO \/ AddWriter \/ AddReader \/ UNCHANGED <<edgeSet, unresolved>>
         /\ \A t, c : (Writes(t, c)' <=> Writes(t, c)) /\ (Reads(t, c)' <=> Reads(t, c))
         /\ \A t, u : Spends(t, u)' <=> Spends(t, u)
<1>1. /\ block' = block
      /\ AddUTXO \/ AddWriter \/ AddReader \/ UNCHANGED <<edgeSet, unresolved>>
  BY DEF Next, vars, AddUTXO, AddWriter, AddReader, SkipVout, NextTx, NextPass, CollectReady,
         Finish, Terminated
<1>2. \A t, c : (Writes(t, c)' <=> Writes(t, c)) /\ (Reads(t, c)' <=> Reads(t, c))
  BY <1>1 DEF Writes, Reads, Touches
<1>3. \A t, u : Spends(t, u)' <=> Spends(t, u)
  BY <1>1 DEF Spends, Elems
<1>4. QED BY <1>1, <1>2, <1>3

\* Edges lead forward and are counted, and each has a reason.
LEMMA EdgesStep == IInv /\ [Next]_vars => Forward' /\ Counts' /\ OnlyConflicts'
<1> SUFFICES ASSUME IInv, [Next]_vars PROVE Forward' /\ Counts' /\ OnlyConflicts'
  OBVIOUS
<1>0. TypeOK /\ Forward /\ Counts /\ OnlyConflicts /\ Remembered
  BY DEF IInv
<1>1. \A i, j : ClaimConflict(i, j)' <=> ClaimConflict(i, j)
  BY Frame DEF ClaimConflict
<1>2. CASE AddUTXO
  <2>1. Grown({block.vin[pos][item]}, "utxo")
    BY <1>2, UTXOGrows
  <2>2. item \in DOMAIN block.vin[pos]
    BY <1>0, <1>2, AtInput
  <2>3. Spends(pos, block.vin[pos][item])
    BY <2>2 DEF Spends, Elems
  <2>4. OnlyConflicts'
    BY <1>0, <1>1, <2>1, <2>3, Frame DEF Grown, OnlyConflicts
  <2>5. QED BY <2>1, <2>4 DEF Grown
<1>3. CASE AddWriter
  <2> DEFINE c == vout.claim
  <2>1. Grown({latestWriter[c]} \cup waitingReaders[c], "claim")
    BY <1>3, WriterGrows
  <2>2. Writes(pos, c) /\ c \in Claims
    BY <1>0, <1>3, AtOutput DEF AddWriter, Writes, Touches
  <2>3. \A p \in ({latestWriter[c]} \cup waitingReaders[c]) \ {NoTx, pos} : ClaimConflict(p, pos)
    BY <1>0, <1>3, <2>2 DEF Remembered, AddWriter, AtVout, ClaimConflict
  <2> HIDE DEF c
  <2>4. OnlyConflicts'
    BY <1>0, <1>1, <2>1, <2>3, Frame DEF Grown, OnlyConflicts
  <2>5. QED BY <2>1, <2>4 DEF Grown
<1>4. CASE AddReader
  <2> DEFINE c == vout.claim
  <2>1. Grown({latestWriter[c]}, "claim")
    BY <1>4, ReaderGrows
  <2>2. Reads(pos, c) /\ c \in Claims
    BY <1>0, <1>4, AtOutput DEF AddReader, Reads, Touches
  <2>3. \A p \in {latestWriter[c]} \ {NoTx, pos} : ClaimConflict(p, pos)
    BY <1>0, <1>4, <2>2 DEF Remembered, AddReader, AtVout, ClaimConflict
  <2> HIDE DEF c
  <2>4. OnlyConflicts'
    BY <1>0, <1>1, <2>1, <2>3, Frame DEF Grown, OnlyConflicts
  <2>5. QED BY <2>1, <2>4 DEF Grown
<1>5. CASE UNCHANGED <<edgeSet, unresolved>>
  BY <1>0, <1>1, <1>5, Frame DEF Forward, Counts, Into, OnlyConflicts
<1>6. QED
  BY <1>2, <1>3, <1>4, <1>5, Frame

\* The writers and readers that the second pass remembers.
LEMMA RememberedStep == IInv /\ [Next]_vars => Remembered'
<1> SUFFICES ASSUME IInv, [Next]_vars PROVE Remembered'
  OBVIOUS
<1>0. TypeOK /\ Remembered /\ Position
  BY DEF IInv
<1>1. CASE AddUTXO
  BY <1>1 DEF AddUTXO, Remembered
<1>2. CASE AddWriter
  <2>1. Writes(pos, vout.claim) /\ vout.claim \in Claims /\ pos \in Tx
    BY <1>0, <1>2, AtOutput DEF AddWriter, Writes, Touches
  <2>2. QED
    BY <1>0, <1>2, <2>1, Frame, NAssumption DEF Remembered, AddWriter, AtVout, TypeOK, Tx
<1>3. CASE AddReader
  <2>1. Reads(pos, vout.claim) /\ vout.claim \in Claims /\ pos \in Tx
    BY <1>0, <1>3, AtOutput DEF AddReader, Reads, Touches
  <2>2. QED
    BY <1>0, <1>3, <2>1, Frame, NAssumption DEF Remembered, AddReader, AtVout, TypeOK, Tx
<1>4. CASE NextPass
  BY <1>0, <1>4 DEF NextPass, Remembered, Position
<1>5. CASE NextTx
  BY <1>0, <1>5, Frame, NAssumption DEF NextTx, Remembered, TypeOK, Tx, NoTx
<1>6. CASE SkipVout \/ CollectReady \/ Finish \/ Terminated \/ UNCHANGED vars
  BY <1>0, <1>6, Frame DEF SkipVout, CollectReady, Finish, Terminated, vars, Remembered
<1>7. QED
  BY <1>1, <1>2, <1>3, <1>4, <1>5, <1>6 DEF Next

\* The list of the transactions that wait for nothing.
LEMMA ListedStep == IInv /\ [Next]_vars => Listed'
<1> SUFFICES ASSUME IInv, [Next]_vars PROVE Listed'
  OBVIOUS
<1>0. TypeOK /\ Listed /\ Position
  BY DEF IInv
<1>1. CASE AddUTXO \/ AddWriter \/ AddReader \/ SkipVout \/ NextTx
  BY <1>0, <1>1 DEF AddUTXO, AddWriter, AddReader, SkipVout, NextTx, AtVout, Listed
<1>2. CASE NextPass
  <2>1. ready' = <<>> /\ pos' = 1
    BY <1>0, <1>2 DEF NextPass, Listed
  <2>2. {i \in Tx : i < 1 /\ unresolved'[i] = 0} = {}
    BY NAssumption DEF Tx
  <2>3. Elems(<<>>) = {} /\ DOMAIN <<>> = {}
    BY DEF Elems
  <2>4. QED BY <2>1, <2>2, <2>3 DEF Listed, Elems
<1>3. CASE CollectReady
  <2>0. pos \in Tx /\ pos' = pos + 1 /\ pass = "ready" /\ pass' = "ready" /\ unresolved' = unresolved
    BY <1>0, <1>3, NAssumption DEF CollectReady, TypeOK, Tx
  <2>1. /\ Elems(ready) = {i \in Tx : i < pos /\ unresolved[i] = 0}
        /\ \A j, k \in DOMAIN ready : j < k => ready[j] < ready[k]
        /\ ready \in Seq(Tx)
    BY <1>0, <2>0 DEF Listed, TypeOK
  <2>2. CASE unresolved[pos] # 0
    <3>1. ready' = ready
      BY <1>3, <2>2 DEF CollectReady
    <3>2. {i \in Tx : i < pos + 1 /\ unresolved[i] = 0} = {i \in Tx : i < pos /\ unresolved[i] = 0}
      BY <2>0, <2>2, NAssumption DEF Tx
    <3>3. QED BY <2>0, <2>1, <3>1, <3>2 DEF Listed, Elems
  <2>3. CASE unresolved[pos] = 0
    <3>1. ready' = Append(ready, pos)
      BY <1>3, <2>3 DEF CollectReady
    <3>2. /\ Len(ready) \in Nat /\ DOMAIN ready = 1..Len(ready)
          /\ DOMAIN ready' = 1..(Len(ready) + 1)
          /\ \A k \in 1..Len(ready) : ready'[k] = ready[k]
          /\ ready'[Len(ready) + 1] = pos
      BY <2>0, <2>1, <3>1
    <3>3. Elems(ready') = Elems(ready) \cup {pos}
      <4>1. ASSUME NEW k \in DOMAIN ready' PROVE ready'[k] \in Elems(ready) \cup {pos}
        BY <3>2 DEF Elems
      <4>2. ASSUME NEW k \in DOMAIN ready PROVE ready[k] \in Elems(ready')
        BY <3>2 DEF Elems
      <4>3. pos \in Elems(ready')
        BY <3>2 DEF Elems
      <4>4. QED BY <4>1, <4>2, <4>3 DEF Elems
    <3>4. {i \in Tx : i < pos + 1 /\ unresolved[i] = 0}
            = {i \in Tx : i < pos /\ unresolved[i] = 0} \cup {pos}
      BY <2>0, <2>3, NAssumption DEF Tx
    <3>5. \A k \in DOMAIN ready : ready[k] < pos
      BY <2>1 DEF Elems
    <3>6. \A j, k \in DOMAIN ready' : j < k => ready'[j] < ready'[k]
      BY <2>1, <3>2, <3>5
    <3>7. QED BY <2>0, <2>1, <3>3, <3>4, <3>6 DEF Listed, Elems
  <2>4. QED BY <2>2, <2>3
<1>4. CASE Finish \/ Terminated \/ UNCHANGED vars
  BY <1>0, <1>4 DEF Finish, Terminated, vars, Listed, Elems
<1>5. QED
  BY <1>1, <1>2, <1>3, <1>4 DEF Next

\* The first transaction of a block waits for nothing, so the graph has a start.
LEMMA NoStallStep == IInv /\ [Next]_vars => NoStall'
<1> SUFFICES ASSUME IInv, [Next]_vars PROVE NoStall'
  OBVIOUS
<1>1. CASE Finish
  <2>1. CASE N = 0
    BY <1>1, <2>1 DEF Finish, NoStall
  <2>2. CASE N > 0
    <3>1. 1 \in Tx /\ pos > 1 /\ pass = "ready"
      BY <1>1, <2>2, NAssumption DEF Finish, IInv, TypeOK, Tx
    <3>2. Into(1) = {}
      BY NAssumption DEF Into, IInv, Forward, TypeOK, Edges, Tx
    <3>3. unresolved[1] = 0
      BY <3>1, <3>2, FS_EmptySet DEF IInv, Counts
    <3>4. 1 \in Elems(ready)
      BY <3>1, <3>3 DEF IInv, Listed
    <3>5. ready # <<>>
      BY <3>4 DEF Elems
    <3>6. QED BY <1>1, <3>5 DEF Finish, NoStall
  <2>3. QED BY <2>1, <2>2, NAssumption
<1>2. CASE ~Finish
  BY <1>2 DEF Next, vars, AddUTXO, AddWriter, AddReader, SkipVout, AtVout, NextTx, NextPass,
              CollectReady, Terminated, IInv, NoStall
<1>3. QED BY <1>1, <1>2

\* Every input that was seen has its edge.
LEMMA SpentStep == IInv /\ [Next]_vars => Spent'
<1> SUFFICES ASSUME IInv, [Next]_vars PROVE Spent'
  OBVIOUS
<1>0. TypeOK /\ Position /\ Spent /\ block' = block
  BY Frame DEF IInv
<1>1. edgeSet \subseteq edgeSet'
  BY Frame, UTXOGrows, WriterGrows, ReaderGrows DEF Grown
<1> SUFFICES ASSUME NEW t \in Tx, NEW k \in DOMAIN block.vin[t],
                    SeenIn(t, k)', block.vin[t][k] # NoTx
             PROVE  [parent |-> block.vin[t][k], child |-> t, reason |-> "utxo"] \in edgeSet'
  BY <1>0 DEF Spent
<1>2. /\ block.vin[t] \in Seq(Vin(t)) /\ k \in 1..Len(block.vin[t]) /\ Len(block.vin[t]) \in Nat
      /\ t \in Nat /\ t <= N /\ pos \in Nat /\ item \in Nat
  BY <1>0, NAssumption DEF TypeOK, WellFormed, Tx
<1>3. CASE SeenIn(t, k)
  BY <1>0, <1>1, <1>3 DEF Spent
<1>4. CASE AddUTXO /\ ~SeenIn(t, k)
  <2>1. t = pos /\ k = item
    BY <1>2, <1>4 DEF AddUTXO, SeenIn, Behind
  <2>2. block.vin[t][k] \in Vin(t) /\ block.vin[t][k] # pos
    BY <1>2, <2>1 DEF Vin, NoTx, Tx
  <2>3. QED
    BY <1>4, <2>1, <2>2, UTXOGrows DEF Grown
<1>5. CASE NextTx /\ ~SeenIn(t, k)
  BY <1>2, <1>5 DEF NextTx, Items, SeenIn, Behind
<1>6. CASE NextPass /\ ~SeenIn(t, k)
  BY <1>2, <1>6, NAssumption DEF NextPass, SeenIn, Behind
<1>7. CASE ~AddUTXO /\ ~NextTx /\ ~NextPass /\ ~SeenIn(t, k)
  BY <1>7 DEF Next, vars, AddWriter, AddReader, SkipVout, AtVout, CollectReady, Finish,
              Terminated, SeenIn, Behind
<1>8. QED BY <1>3, <1>4, <1>5, <1>6, <1>7

\* A step makes at most the access at the position of the second pass seen.
LEMMA SeenStep ==
  ASSUME IInv, [Next]_vars, NEW t \in Tx, NEW c \in Claims
  PROVE  /\ Wrote(t, c)' => Wrote(t, c) \/ (AddWriter /\ t = pos /\ c = vout.claim)
         /\ HasRead(t, c)' => HasRead(t, c) \/ (AddReader /\ t = pos /\ c = vout.claim)
<1>0. TypeOK /\ Position /\ block' = block
  BY Frame DEF IInv
<1>1. /\ block.vout[t] \in Seq(Vouts) /\ Len(block.vout[t]) \in Nat
      /\ DOMAIN block.vout[t] = 1..Len(block.vout[t])
      /\ t \in Nat /\ t >= 1 /\ t <= N /\ pos \in Nat /\ item \in Nat
  BY <1>0, NAssumption DEF TypeOK, WellFormed, Tx
<1>2. ASSUME NEW k \in DOMAIN block.vout[t], SeenOut(t, k)', ~SeenOut(t, k)
      PROVE  (AddWriter \/ AddReader \/ SkipVout) /\ t = pos /\ k = item
  <2>1. CASE AddUTXO
    BY <1>2, <2>1 DEF AddUTXO, SeenOut
  <2>2. CASE AddWriter
    BY <1>1, <1>2, <2>2 DEF AddWriter, AtVout, SeenOut, Behind
  <2>3. CASE AddReader
    BY <1>1, <1>2, <2>3 DEF AddReader, AtVout, SeenOut, Behind
  <2>4. CASE SkipVout
    BY <1>1, <1>2, <2>4 DEF SkipVout, AtVout, SeenOut, Behind
  <2>5. CASE NextTx
    BY <1>1, <1>2, <2>5 DEF NextTx, Items, SeenOut, Behind
  <2>6. CASE NextPass
    BY <1>0, <1>1, <1>2, <2>6, NAssumption DEF NextPass, Position, SeenOut, Behind
  <2>7. CASE CollectReady \/ Finish \/ Terminated \/ UNCHANGED vars
    BY <1>2, <2>7 DEF CollectReady, Finish, Terminated, vars, SeenOut, Behind
  <2>8. QED
    BY <2>1, <2>2, <2>3, <2>4, <2>5, <2>6, <2>7 DEF Next
<1>3. ASSUME Wrote(t, c)', ~Wrote(t, c) PROVE AddWriter /\ t = pos /\ c = vout.claim
  <2>1. PICK k \in DOMAIN block.vout[t] :
          block.vout[t][k].claim = c /\ SeenOut(t, k)' /\ writer(block.vout[t][k])
    BY <1>0, <1>3 DEF Wrote, Touches
  <2>2. ~SeenOut(t, k)
    BY <1>3, <2>1 DEF Wrote, Touches
  <2>3. (AddWriter \/ AddReader \/ SkipVout) /\ t = pos /\ k = item
    BY <1>2, <2>1, <2>2
  <2>4. vout = block.vout[t][k]
    BY <2>3 DEF vout
  <2>5. QED
    BY <2>1, <2>3, <2>4 DEF AddReader, SkipVout, reader, writer
<1>4. ASSUME HasRead(t, c)', ~HasRead(t, c) PROVE AddReader /\ t = pos /\ c = vout.claim
  <2>1. PICK k \in DOMAIN block.vout[t] :
          block.vout[t][k].claim = c /\ SeenOut(t, k)' /\ reader(block.vout[t][k])
    BY <1>0, <1>4 DEF HasRead, Touches
  <2>2. ~SeenOut(t, k)
    BY <1>4, <2>1 DEF HasRead, Touches
  <2>3. (AddWriter \/ AddReader \/ SkipVout) /\ t = pos /\ k = item
    BY <1>2, <2>1, <2>2
  <2>4. vout = block.vout[t][k]
    BY <2>3 DEF vout
  <2>5. QED
    BY <2>1, <2>3, <2>4 DEF AddWriter, SkipVout, reader, writer
<1>5. QED BY <1>3, <1>4

\* After, spelled with the edges before and after a step.
LEMMA AfterStep ==
  ASSUME IInv, [Next]_vars
  PROVE  /\ edgeSet \subseteq edgeSet'
         /\ \A i, j : After(i, j) => AfterIn(edgeSet', i, j)
         /\ \A i, j : AfterIn(edgeSet', i, j) => After(i, j)'
<1>1. edgeSet \subseteq edgeSet'
  BY Frame, UTXOGrows, WriterGrows, ReaderGrows DEF Grown
<1>2. ASSUME NEW i, NEW j, After(i, j) PROVE AfterIn(edgeSet', i, j)
  <2>1. AfterIn(edgeSet, i, j)
    BY <1>2 DEF After, AfterIn
  <2>2. QED BY <1>1, <2>1, AfterMono
<1>3. ASSUME NEW i, NEW j, AfterIn(edgeSet', i, j) PROVE After(i, j)'
  BY <1>3 DEF After, AfterIn
<1>4. QED BY <1>1, <1>2, <1>3

\* A transaction that accesses a claim comes after every earlier writer of it, and
\* after every earlier reader if it writes the claim itself.
LEMMA AccessAfter ==
  ASSUME IInv, [Next]_vars, NEW t \in Tx
  PROVE  /\ AddWriter => (Wrote(t, vout.claim) \/ HasRead(t, vout.claim) => AfterIn(edgeSet', t, pos))
         /\ AddReader => (Wrote(t, vout.claim) => AfterIn(edgeSet', t, pos))
<1> DEFINE c == vout.claim
           w == latestWriter[c]
<1>1. ASSUME AddWriter \/ AddReader
      PROVE  /\ c \in Claims /\ pos \in Tx
             /\ w # NoTx /\ After(t, w) => AfterIn(edgeSet', t, pos)
  <2>1. c \in Claims /\ pos \in Tx
    BY <1>1, AtOutput DEF AddWriter, AddReader, IInv
  <2>2. ASSUME w # NoTx, After(t, w) PROVE AfterIn(edgeSet', t, pos)
    <3>1. AfterIn(edgeSet', t, w)
      BY <2>2, AfterStep
    <3>2. CASE w = pos
      BY <3>1, <3>2
    <3>3. CASE w # pos
      <4> DEFINE e == [parent |-> w, child |-> pos, reason |-> "claim"]
      <4>1. e \in edgeSet'
        BY <1>1, <2>2, <3>3, WriterGrows, ReaderGrows DEF Grown
      <4>2. AfterIn(edgeSet', t, e.parent)
        BY <3>1
      <4>3. AfterIn(edgeSet', t, e.child)
        <5> HIDE DEF e
        <5>1. QED BY <4>1, <4>2, AfterEdge
      <4>4. QED BY <4>3
    <3>4. QED BY <3>2, <3>3
  <2>3. QED BY <2>1, <2>2
<1>2. ASSUME AddWriter \/ AddReader, Wrote(t, c) PROVE AfterIn(edgeSet', t, pos)
  BY <1>1, <1>2 DEF IInv, Chained
<1>3. ASSUME AddWriter, HasRead(t, c) PROVE AfterIn(edgeSet', t, pos)
  <2>1. CASE t \in waitingReaders[c]
    <3>1. CASE t = pos
      BY <3>1, AfterRefl
    <3>2. CASE t # pos
      <4> DEFINE e == [parent |-> t, child |-> pos, reason |-> "claim"]
      <4>1. t # NoTx
        BY NAssumption DEF Tx, NoTx
      <4>2. e \in edgeSet'
        BY <1>3, <2>1, <3>2, <4>1, WriterGrows DEF Grown
      <4>3. AfterIn(edgeSet', t, e.parent)
        BY AfterRefl
      <4>4. AfterIn(edgeSet', t, e.child)
        <5> HIDE DEF e
        <5>1. QED BY <4>2, <4>3, AfterEdge
      <4>5. QED BY <4>4
    <3>3. QED BY <3>1, <3>2
  <2>2. CASE w # NoTx /\ After(t, w)
    BY <1>1, <1>3, <2>2
  <2>3. QED BY <1>1, <1>3, <2>1, <2>2 DEF IInv, Chained
<1>4. QED BY <1>2, <1>3

\* Every access is before the latest writer of its claim, or remembered.
LEMMA ChainedStep == IInv /\ [Next]_vars => Chained'
<1> SUFFICES ASSUME IInv, [Next]_vars, NEW c \in Claims, NEW t \in Tx
             PROVE  /\ Wrote(t, c)' => latestWriter'[c] # NoTx /\ After(t, latestWriter[c])'
                    /\ HasRead(t, c)' =>
                         \/ t \in waitingReaders'[c]
                         \/ latestWriter'[c] # NoTx /\ After(t, latestWriter[c])'
  BY DEF Chained
<1>0. /\ latestWriter \in [Claims -> Tx \cup {NoTx}] /\ waitingReaders \in [Claims -> SUBSET Tx]
      /\ Wrote(t, c) => latestWriter[c] # NoTx /\ After(t, latestWriter[c])
      /\ HasRead(t, c) => \/ t \in waitingReaders[c]
                          \/ latestWriter[c] # NoTx /\ After(t, latestWriter[c])
  BY DEF IInv, TypeOK, Chained
<1>1. \A w : latestWriter'[c] = w /\ AfterIn(edgeSet', t, w) => After(t, latestWriter[c])'
  BY DEF After, AfterIn
<1>2. CASE AddWriter /\ c = vout.claim
  <2>1. pos \in Tx /\ pos # NoTx
    BY <1>2, AtOutput, NAssumption DEF AddWriter, IInv, Tx, NoTx
  <2>2. latestWriter'[c] = pos
    BY <1>0, <1>2 DEF AddWriter
  <2>3. Wrote(t, c)' \/ HasRead(t, c)' => Wrote(t, c) \/ HasRead(t, c) \/ t = pos
    BY <1>2, SeenStep
  <2>4. Wrote(t, c)' \/ HasRead(t, c)' => AfterIn(edgeSet', t, pos)
    BY <1>2, <2>3, AccessAfter, AfterRefl
  <2>5. QED BY <1>1, <2>1, <2>2, <2>4
<1>3. CASE ~(AddWriter /\ c = vout.claim)
  <2>1. ASSUME latestWriter[c] # NoTx, After(t, latestWriter[c]), latestWriter'[c] = latestWriter[c]
        PROVE  latestWriter'[c] # NoTx /\ After(t, latestWriter[c])'
    BY <1>1, <2>1, AfterStep
  <2>2. latestWriter'[c] = latestWriter[c]
    BY <1>0, <1>3 DEF Next, vars, AddUTXO, AddWriter, AddReader, SkipVout, NextTx, NextPass,
                      CollectReady, Finish, Terminated
  <2>3. waitingReaders[c] \subseteq waitingReaders'[c]
    BY <1>0, <1>3 DEF Next, vars, AddUTXO, AddWriter, AddReader, SkipVout, NextTx, NextPass,
                      CollectReady, Finish, Terminated
  <2>4. Wrote(t, c)' => Wrote(t, c)
    BY <1>3, SeenStep
  <2>5. ASSUME HasRead(t, c)', ~HasRead(t, c) PROVE t \in waitingReaders'[c]
    <3>1. AddReader /\ t = pos /\ c = vout.claim
      BY <2>5, SeenStep
    <3>2. QED BY <1>0, <3>1 DEF AddReader
  <2>6. QED BY <1>0, <2>1, <2>2, <2>3, <2>4, <2>5
<1>4. QED BY <1>2, <1>3

\* Two accesses that conflict are ordered once both were seen.
LEMMA OrderedStep == IInv /\ [Next]_vars => Ordered'
<1> SUFFICES ASSUME IInv, [Next]_vars, NEW c \in Claims, NEW i \in Tx, NEW j \in Tx, i < j
             PROVE  /\ Wrote(i, c)' /\ (Wrote(j, c)' \/ HasRead(j, c)') => After(i, j)'
                    /\ HasRead(i, c)' /\ Wrote(j, c)' => After(i, j)'
  BY DEF Ordered
<1>0. /\ Wrote(i, c) /\ (Wrote(j, c) \/ HasRead(j, c)) => After(i, j)
      /\ HasRead(i, c) /\ Wrote(j, c) => After(i, j)
  BY DEF IInv, Ordered
<1>1. After(i, j) \/ AfterIn(edgeSet', i, j) => After(i, j)'
  BY AfterStep
<1>2. pos \in Nat /\ i \in Nat /\ j \in Nat
  BY NAssumption DEF IInv, TypeOK, Tx
<1>4. ASSUME i = pos, AddWriter \/ AddReader
      PROVE  ~Wrote(j, c)' /\ ~HasRead(j, c)'
  <2>1. pass = "claim" /\ pass' = "claim" /\ pos' = pos /\ block' = block
    BY <1>4 DEF AddWriter, AddReader, AtVout
  <2>2. QED
    BY <1>2, <1>4, <2>1 DEF Wrote, HasRead, SeenOut, Behind
<1>5. CASE AddWriter /\ j = pos /\ c = vout.claim
  <2>1. Wrote(i, c)' => Wrote(i, c)
    BY <1>2, <1>5, SeenStep
  <2>2. HasRead(i, c)' => HasRead(i, c)
    BY <1>2, <1>5, SeenStep
  <2>3. QED BY <1>1, <1>5, <2>1, <2>2, AccessAfter
<1>6. CASE AddReader /\ j = pos /\ c = vout.claim
  <2>1. Wrote(i, c)' => Wrote(i, c)
    BY <1>2, <1>6, SeenStep
  <2>2. AfterIn(edgeSet', i, j) \/ ~Wrote(i, c)
    BY <1>6, AccessAfter
  <2>3. HasRead(i, c)' => HasRead(i, c)
    BY <1>2, <1>6, SeenStep
  <2>4. Wrote(j, c)' => Wrote(j, c)
    BY <1>6, SeenStep DEF AddReader, AddWriter, reader, writer
  <2>5. QED BY <1>0, <1>1, <2>1, <2>2, <2>3, <2>4
<1>7. CASE ~((AddWriter \/ AddReader) /\ j = pos /\ c = vout.claim)
  <2>1. (Wrote(j, c)' => Wrote(j, c)) /\ (HasRead(j, c)' => HasRead(j, c))
    BY <1>7, SeenStep
  <2>2. Wrote(i, c)' => Wrote(i, c) \/ (AddWriter /\ i = pos)
    BY SeenStep
  <2>3. HasRead(i, c)' => HasRead(i, c) \/ (AddReader /\ i = pos)
    BY SeenStep
  <2>4. QED BY <1>0, <1>1, <1>4, <2>1, <2>2, <2>3
<1>8. QED BY <1>5, <1>6, <1>7

\* The inductive invariant holds whenever buildDependencies is running.
THEOREM Invariance == Spec => []IInv
<1>1. IInv /\ [Next]_vars => IInv'
  BY TypeStep, RememberedStep, EdgesStep, ListedStep, NoStallStep, SpentStep, ChainedStep,
     OrderedStep DEF IInv
<1>2. QED BY <1>1, InitIInv, PTL DEF Spec

-----------------------------------------------------------------------------
(* What follows from it.                                                   *)

\* Type correctness; the counters of open edges are natural numbers.
THEOREM TypeCorrect == Spec => []TypeOK
<1>1. IInv => TypeOK
  BY DEF IInv
<1>2. QED BY <1>1, Invariance, PTL

\* The graph that buildDependencies returns is one that the scheduler can start
\* from, whatever the block: forward edges, exact counters, the right start list.
THEOREM HandOverAlways == Spec => []HandOver
<1>1. ASSUME IInv, pass \in {"built", "stalled"}
      PROVE  Elems(ready) = {i \in Tx : Into(i) = {}}
  <2>1. Elems(ready) = {i \in Tx : i < pos /\ unresolved[i] = 0} /\ pos = N + 1
    BY <1>1 DEF IInv, Listed, Position
  <2>2. \A i \in Tx : i < pos
    BY <2>1, NAssumption DEF Tx
  <2>3. ASSUME NEW i \in Tx PROVE unresolved[i] = 0 <=> Into(i) = {}
    <3>1. Into(i) \in SUBSET Edges
      BY <1>1 DEF Into, IInv, TypeOK
    <3>2. IsFiniteSet(Into(i))
      BY <3>1, EdgesFinite, FS_Subset
    <3>3. QED BY <1>1, <3>2, FS_EmptySet DEF IInv, Counts
  <2>4. QED BY <2>1, <2>2, <2>3
<1>2. IInv => HandOver
  BY <1>1 DEF HandOver, IInv, Forward, Counts, Listed
<1>3. QED BY <1>2, Invariance, PTL

\* ErrDependencyGraphStalled is never returned for a block whose inputs spend
\* earlier outputs.
THEOREM NoStallEver == Spec => []NoStall
<1>1. IInv => NoStall
  BY DEF IInv
<1>2. QED BY <1>1, Invariance, PTL

\* The graph of the whole block orders any two transactions that conflict, over
\* any number of transactions in between: the neighbouring accesses that the
\* second pass joins are enough.
THEOREM ConflictsOrderedAlways == Spec => []ConflictsOrdered
<1>1. ASSUME IInv, pass = "built", NEW i \in Tx, NEW j \in Tx, i < j, Spends(j, i)
      PROVE  After(i, j)
  <2>1. PICK k \in DOMAIN block.vin[j] : block.vin[j][k] = i
    BY <1>1 DEF Spends, Elems
  <2> DEFINE e == [parent |-> i, child |-> j, reason |-> "utxo"]
  <2>2. i # NoTx
    BY NAssumption DEF Tx, NoTx
  <2>3. e \in edgeSet
    BY <1>1, <2>1, <2>2 DEF IInv, Spent, SeenIn
  <2>4. AfterIn(edgeSet, i, e.parent)
    BY AfterRefl
  <2>5. AfterIn(edgeSet, i, e.child)
    <3> HIDE DEF e
    <3>1. QED BY <2>3, <2>4, AfterEdge
  <2>6. QED BY <2>5 DEF After, AfterIn
<1>2. ASSUME IInv, pass = "built", NEW i \in Tx, NEW j \in Tx, i < j, ClaimConflict(i, j)
      PROVE  After(i, j)
  <2>1. \A t \in Tx, c \in Claims : (Writes(t, c) => Wrote(t, c)) /\ (Reads(t, c) => HasRead(t, c))
    BY <1>2 DEF Writes, Reads, Wrote, HasRead, SeenOut
  <2>2. QED BY <1>2, <2>1 DEF ClaimConflict, IInv, Ordered
<1>3. IInv => ConflictsOrdered
  BY <1>1, <1>2 DEF ConflictsOrdered
<1>4. QED BY <1>3, Invariance, PTL

\* Every edge joins two transactions that conflict, so the graph never keeps two
\* transactions apart that could be applied in parallel for another reason.
THEOREM OnlyConflictsAlways == Spec => []OnlyConflicts
<1>1. IInv => OnlyConflicts
  BY DEF IInv
<1>2. QED BY <1>1, Invariance, PTL

=============================================================================
