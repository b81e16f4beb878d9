-------------------------- MODULE TxSchedulerProofs --------------------------
(***************************************************************************)
(* Proofs about TxScheduler, for every block size, every dependency graph  *)
(* with forward edges, every number of workers and every MaxFailures.      *)
(***************************************************************************)
EXTENDS TxScheduler, FiniteSetTheorems, WellFoundedInduction, TLAPS

-----------------------------------------------------------------------------
(* The inductive invariant.                                                *)

\* The edges into c that still hold it back.
Open(c) == {e \in Into(c) : e.parent \notin completed}

WorkingSet == {w \in Workers : WorkingOn(w)}
PendingSet == {t \in Tx : retry[t] # "none"}

NoDuplicates(s) == \A i, j \in DOMAIN s : s[i] = s[j] => i = j

Held(t)   == \E w \in Workers : WorkingOn(w) /\ worker[w].tx = t
Placed(t) == t \in Elems(ready) \/ t \in completed \/ retry[t] # "none"
             \/ t = popped \/ Held(t)

\* The types, without the ranges of the counters.
Typed ==
  /\ edgeSet \in Graphs
  /\ unresolved \in [Tx -> Int]
  /\ ready \in Seq(Tx)
  /\ attempts \in [Tx -> Nat]
  /\ completed \in SUBSET Tx
  /\ nCompleted \in Int
  /\ active \in Int
  /\ pendingRetries \in Int
  /\ terminalErr \in {"none", "shutdown", "stalled", "invariant", "fatal",
                      "tooManyFailures"}
  /\ pc \in {"loop", "send", "select", "stopRetries", "stopWorkers", "cleanup",
             "returned", "dirty"}
  /\ popped \in Tx \cup {NoTx}
  /\ worker \in [Workers -> WorkerStates]
  /\ retry \in [Tx -> {"none", "live", "exited"}]
  /\ stopped \in BOOLEAN
  /\ applied \in SUBSET Tx
  /\ spends \in SUBSET Tx

Ending == {"stopRetries", "stopWorkers", "cleanup", "returned", "dirty"}

\* What is known at each place of the scheduler goroutine.
Control ==
  /\ pc = "send" <=> popped # NoTx
  /\ pc \in {"send", "select"} => terminalErr = "none" /\ nCompleted < N
  /\ pc \in Ending => active = 0 /\ (terminalErr = "none" => nCompleted >= N)
  /\ pc \in {"cleanup", "dirty"} => terminalErr # "none"
  /\ pc \in {"cleanup", "returned", "dirty"} =>
       \A w \in Workers : worker[w].at = "exited"
  /\ pc = "returned" /\ terminalErr # "none" => spends = {}
  /\ terminalErr \notin {"stalled", "invariant"}

\* The counters count what they are meant to count.
Counters ==
  /\ \A c \in Tx : unresolved[c] = Cardinality(Open(c))
  /\ nCompleted = Cardinality(completed)
  /\ active = Cardinality(WorkingSet)
  /\ pendingRetries = Cardinality(PendingSet)

\* A transaction is in one place only.
OnePlace ==
  /\ NoDuplicates(ready)
  /\ \A v, w \in Workers :
       WorkingOn(v) /\ WorkingOn(w) /\ worker[v].tx = worker[w].tx => v = w
  /\ \A w \in Workers : WorkingOn(w) =>
       /\ worker[w].tx \in Tx
       /\ worker[w].tx \notin Elems(ready)
       /\ worker[w].tx \notin completed
       /\ worker[w].tx # popped
       /\ retry[worker[w].tx] = "none"
  /\ \A t \in Elems(ready) : t \notin completed /\ t # popped /\ retry[t] = "none"
  /\ \A t \in Tx : retry[t] # "none" => t \notin completed /\ t # popped
  /\ popped \notin completed

\* Nothing that has left the graph has an open edge, and while no error is
\* pending everything without an open edge has left the graph.
Released == \A t \in Tx : Placed(t) \/ t \in applied => Open(t) = {}
Located  == terminalErr = "none" => \A t \in Tx : Open(t) = {} => Placed(t)

\* What is applied is completed or still unreported.
Applied ==
  /\ completed \subseteq applied
  /\ \A t \in applied : t \notin Elems(ready) /\ t # popped /\ retry[t] = "none"
  /\ \A w \in Workers :
       /\ worker[w].at = "busy" => worker[w].tx \notin applied
       /\ worker[w].at = "result" =>
            (worker[w].err = "ok" <=> worker[w].tx \in applied)
       /\ worker[w].err # "missingSameBlock"

IInv == Typed /\ Control /\ Counters /\ OnePlace /\ Released /\ Located /\ Applied

-----------------------------------------------------------------------------
(* Sequences: the entries of the ready queue.                              *)

\* Popping the head of the queue removes exactly that transaction.
LEMMA ElemsTail ==
  ASSUME NEW S, NEW s \in Seq(S), s # <<>>
  PROVE  /\ Head(s) \in Elems(s)
         /\ Head(s) \in S
         /\ Tail(s) \in Seq(S)
         /\ Elems(s) = Elems(Tail(s)) \cup {Head(s)}
         /\ NoDuplicates(s) => NoDuplicates(Tail(s)) /\ Head(s) \notin Elems(Tail(s))
<1>1. /\ Len(s) \in Nat /\ Len(s) > 0 /\ DOMAIN s = 1..Len(s)
      /\ Head(s) = s[1] /\ s[1] \in S
      /\ Tail(s) \in Seq(S) /\ DOMAIN Tail(s) = 1..(Len(s) - 1)
      /\ \A i \in 1..(Len(s) - 1) : Tail(s)[i] = s[i + 1]
  OBVIOUS
<1>2. Head(s) \in Elems(s)
  BY <1>1 DEF Elems
<1>3. Elems(s) = Elems(Tail(s)) \cup {Head(s)}
  <2>1. ASSUME NEW i \in DOMAIN s PROVE s[i] \in Elems(Tail(s)) \cup {Head(s)}
    <3>1. CASE i = 1
      BY <3>1, <1>1
    <3>2. CASE i # 1
      <4>1. i - 1 \in DOMAIN Tail(s) /\ Tail(s)[i - 1] = s[i]
        BY <3>2, <1>1
      <4>2. QED BY <4>1 DEF Elems
    <3>3. QED BY <3>1, <3>2
  <2>2. ASSUME NEW i \in DOMAIN Tail(s) PROVE Tail(s)[i] \in Elems(s)
    <3>1. i + 1 \in DOMAIN s /\ Tail(s)[i] = s[i + 1]
      BY <1>1
    <3>2. QED BY <3>1 DEF Elems
  <2>3. QED BY <2>1, <2>2, <1>2 DEF Elems
<1>4. ASSUME NoDuplicates(s)
      PROVE  NoDuplicates(Tail(s)) /\ Head(s) \notin Elems(Tail(s))
  <2>1. ASSUME NEW i \in DOMAIN Tail(s), NEW j \in DOMAIN Tail(s),
               Tail(s)[i] = Tail(s)[j]
        PROVE  i = j
    <3>1. i + 1 \in DOMAIN s /\ j + 1 \in DOMAIN s /\ s[i + 1] = s[j + 1]
      BY <2>1, <1>1
    <3>2. i + 1 = j + 1
      BY <3>1, <1>4 DEF NoDuplicates
    <3>3. QED BY <3>2, <1>1
  <2>2. ASSUME NEW i \in DOMAIN Tail(s) PROVE Tail(s)[i] # Head(s)
    <3>1. i + 1 \in DOMAIN s /\ 1 \in DOMAIN s /\ i + 1 # 1
      BY <1>1
    <3>2. s[i + 1] # s[1]
      BY <3>1, <1>4 DEF NoDuplicates
    <3>3. QED BY <3>2, <1>1
  <2>3. QED BY <2>1, <2>2 DEF NoDuplicates, Elems
<1>5. QED BY <1>1, <1>2, <1>3, <1>4

\* Appending the listing of a disjoint set to the queue adds exactly that set.
LEMMA ElemsConcat ==
  ASSUME NEW S, NEW s \in Seq(S), NEW r \in Seq(S)
  PROVE  /\ s \o r \in Seq(S)
         /\ Elems(s \o r) = Elems(s) \cup Elems(r)
         /\ NoDuplicates(s) /\ NoDuplicates(r) /\ Elems(s) \cap Elems(r) = {}
              => NoDuplicates(s \o r)
<1> DEFINE c == s \o r
<1>1. /\ Len(s) \in Nat /\ Len(r) \in Nat
      /\ DOMAIN s = 1..Len(s) /\ DOMAIN r = 1..Len(r)
      /\ c \in Seq(S) /\ DOMAIN c = 1..(Len(s) + Len(r))
      /\ \A i \in DOMAIN c :
           c[i] = IF i <= Len(s) THEN s[i] ELSE r[i - Len(s)]
  OBVIOUS
<1> HIDE DEF c
<1>2. ASSUME NEW i \in DOMAIN c
      PROVE  \/ i \in DOMAIN s /\ c[i] = s[i]
             \/ i - Len(s) \in DOMAIN r /\ c[i] = r[i - Len(s)]
  BY <1>1
<1>3. ASSUME NEW i \in DOMAIN s PROVE i \in DOMAIN c /\ c[i] = s[i]
  BY <1>1
<1>4. ASSUME NEW i \in DOMAIN r
      PROVE  i + Len(s) \in DOMAIN c /\ c[i + Len(s)] = r[i]
  BY <1>1
<1>5. Elems(c) = Elems(s) \cup Elems(r)
  BY <1>2, <1>3, <1>4 DEF Elems
<1>6. ASSUME NoDuplicates(s), NoDuplicates(r), Elems(s) \cap Elems(r) = {}
      PROVE  NoDuplicates(c)
  <2> SUFFICES ASSUME NEW i \in DOMAIN c, NEW j \in DOMAIN c, c[i] = c[j]
               PROVE  i = j
    BY DEF NoDuplicates
  <2>1. CASE i \in DOMAIN s /\ c[i] = s[i] /\ j \in DOMAIN s /\ c[j] = s[j]
    BY <2>1, <1>6 DEF NoDuplicates
  <2>2. CASE /\ i - Len(s) \in DOMAIN r /\ c[i] = r[i - Len(s)]
             /\ j - Len(s) \in DOMAIN r /\ c[j] = r[j - Len(s)]
    <3>1. i - Len(s) = j - Len(s)
      BY <2>2, <1>6 DEF NoDuplicates
    <3>2. QED BY <3>1, <1>1
  <2>3. ~(/\ i \in DOMAIN s /\ c[i] = s[i]
          /\ j - Len(s) \in DOMAIN r /\ c[j] = r[j - Len(s)])
    BY <1>6 DEF Elems
  <2>4. ~(/\ j \in DOMAIN s /\ c[j] = s[j]
          /\ i - Len(s) \in DOMAIN r /\ c[i] = r[i - Len(s)])
    BY <1>6 DEF Elems
  <2>5. QED BY <2>1, <2>2, <2>3, <2>4, <1>2
<1>7. QED BY <1>1, <1>5, <1>6 DEF c

\* Appending a new transaction to the queue adds exactly that transaction.
LEMMA ElemsAppend ==
  ASSUME NEW S, NEW s \in Seq(S), NEW x \in S
  PROVE  /\ Append(s, x) \in Seq(S)
         /\ Elems(Append(s, x)) = Elems(s) \cup {x}
         /\ NoDuplicates(s) /\ x \notin Elems(s) => NoDuplicates(Append(s, x))
<1>1. Append(s, x) = s \o <<x>> /\ <<x>> \in Seq(S)
  OBVIOUS
<1>2. Elems(<<x>>) = {x} /\ NoDuplicates(<<x>>)
  BY DEF Elems, NoDuplicates
<1>3. /\ s \o <<x>> \in Seq(S)
      /\ Elems(s \o <<x>>) = Elems(s) \cup Elems(<<x>>)
      /\ NoDuplicates(s) /\ NoDuplicates(<<x>>) /\ Elems(s) \cap Elems(<<x>>) = {}
           => NoDuplicates(s \o <<x>>)
  BY <1>1, ElemsConcat
<1>4. QED BY <1>1, <1>2, <1>3

\* The transactions of a block and the workers are finitely many.
LEMMA TxFinite == IsFiniteSet(Tx) /\ Cardinality(Tx) = N
<1>1. 1 \in Int /\ N \in Int
  BY NAssumption
<1>2. IsFiniteSet(1..N) /\ Cardinality(1..N) = IF 1 > N THEN 0 ELSE N - 1 + 1
  BY <1>1, FS_Interval
<1>3. QED BY <1>2, NAssumption DEF Tx

\* There is at least one worker, and finitely many.
LEMMA WorkersFinite ==
  /\ WorkerCount \in Nat /\ WorkerCount >= 1
  /\ IsFiniteSet(Workers) /\ Cardinality(Workers) = WorkerCount
<1>1. WorkerCount \in Nat /\ WorkerCount >= 1
  BY NAssumption, ParallelAssumption DEF WorkerCount
<1>2. 1 \in Int /\ WorkerCount \in Int
  BY <1>1
<1>3. /\ IsFiniteSet(1..WorkerCount)
      /\ Cardinality(1..WorkerCount) = IF 1 > WorkerCount THEN 0 ELSE WorkerCount - 1 + 1
  BY <1>2, FS_Interval
<1>4. QED BY <1>1, <1>3 DEF Workers

\* A listing of a set of transactions is a queue of exactly these.
LEMMA ListingElems ==
  ASSUME NEW S \in SUBSET Tx, NEW s \in Listing(S)
  PROVE  s \in Seq(Tx) /\ Elems(s) = S /\ NoDuplicates(s)
<1>1. IsFiniteSet(S) /\ Cardinality(S) \in Nat
  BY TxFinite, FS_Subset, FS_CardinalityType
<1>2. s \in [1..Cardinality(S) -> S] /\ Elems(s) = S
  BY DEF Listing
<1>3. s \in Seq(Tx)
  BY <1>1, <1>2
<1>4. ASSUME NEW i \in DOMAIN s, NEW j \in DOMAIN s, s[i] = s[j] PROVE i = j
  <2>0. i \in 1..Cardinality(S) /\ j \in 1..Cardinality(S) /\ s[i] \in Tx /\ s[j] \in Tx
    BY <1>2
  <2>1. i \in Int /\ j \in Int /\ s[i] \in Int /\ s[j] \in Int
    BY <1>1, <2>0, NAssumption DEF Tx
  <2>2. (i < j => s[i] < s[j]) /\ (j < i => s[j] < s[i])
    BY DEF Listing
  <2>3. QED BY <2>1, <2>2, <1>4
<1>5. QED BY <1>2, <1>3, <1>4 DEF NoDuplicates

-----------------------------------------------------------------------------
(* The dependency graph: what releaseChildren does to the counters.        *)

\* A dependency graph has finitely many edges.
LEMMA EdgesFinite == ASSUME NEW g \in Graphs PROVE IsFiniteSet(g)
<1> DEFINE Triples == Tx \X (Tx \X Reasons)
           edge    == [x \in Triples |-> [parent |-> x[1], child |-> x[2][1],
                                          reason |-> x[2][2]]]
<1>0. IsFiniteSet({"utxo"}) /\ IsFiniteSet({"utxo"} \cup {"claim"})
  BY FS_Singleton, FS_AddElement
<1>1. IsFiniteSet(Reasons)
  <2>1. Reasons = {"utxo"} \cup {"claim"}
    BY DEF Reasons
  <2>2. QED BY <2>1, <1>0
<1>2. IsFiniteSet(Tx \X Reasons)
  BY <1>1, TxFinite, FS_Product
<1>3. IsFiniteSet(Triples)
  BY <1>2, TxFinite, FS_Product
<1>4. edge \in Surjection(Triples, Edges)
  <2>1. edge \in [Triples -> Edges]
    BY DEF Edges
  <2>2. ASSUME NEW e \in Edges PROVE \E x \in Triples : edge[x] = e
    <3>1. <<e.parent, <<e.child, e.reason>>>> \in Triples
      BY DEF Edges
    <3>2. edge[<<e.parent, <<e.child, e.reason>>>>] = e
      BY <3>1 DEF Edges
    <3>3. QED BY <3>1, <3>2
  <2>3. QED BY <2>1, <2>2 DEF Surjection
<1>5. IsFiniteSet(Edges)
  BY <1>3, <1>4, FS_Surjection
<1>6. g \in SUBSET Edges
  BY GraphsAssumption
<1>7. QED BY <1>5, <1>6, FS_Subset

\* The open edges of c are those that stay open when t completes and those
\* that lead from t to c.
LEMMA OpenSplit ==
  ASSUME Typed, NEW t \in Tx, t \notin completed, NEW c \in Tx
  PROVE  LET rest == {e \in Into(c) : e.parent \notin completed \cup {t}}
         IN  /\ Open(c) = rest \cup ChildrenOf(t, c)
             /\ rest \cap ChildrenOf(t, c) = {}
             /\ IsFiniteSet(rest) /\ IsFiniteSet(ChildrenOf(t, c))
             /\ IsFiniteSet(Open(c))
             /\ Cardinality(rest) = Cardinality(Open(c)) - Cardinality(ChildrenOf(t, c))
             /\ Cardinality(rest) \in Nat
             /\ Cardinality(rest) = 0 <=> rest = {}
<1> DEFINE rest == {e \in Into(c) : e.parent \notin completed \cup {t}}
<1>1. IsFiniteSet(edgeSet)
  BY EdgesFinite DEF Typed
<1>2. rest \in SUBSET edgeSet /\ ChildrenOf(t, c) \in SUBSET edgeSet
  BY DEF Into, ChildrenOf
<1>3. IsFiniteSet(rest) /\ IsFiniteSet(ChildrenOf(t, c))
  BY <1>1, <1>2, FS_Subset
<1>4. Open(c) = rest \cup ChildrenOf(t, c) /\ rest \cap ChildrenOf(t, c) = {}
  BY DEF Open, Into, ChildrenOf
<1>5. /\ Cardinality(rest) \in Nat /\ Cardinality(ChildrenOf(t, c)) \in Nat
      /\ Cardinality(rest) = 0 <=> rest = {}
  BY <1>3, FS_CardinalityType, FS_EmptySet
<1>6. /\ IsFiniteSet(rest \cup ChildrenOf(t, c))
      /\ Cardinality(rest \cup ChildrenOf(t, c)) =
           Cardinality(rest) + Cardinality(ChildrenOf(t, c))
             - Cardinality(rest \cap ChildrenOf(t, c))
  BY <1>3, FS_Union
<1>7. Cardinality(Open(c)) = Cardinality(rest) + Cardinality(ChildrenOf(t, c))
  <2>1. Cardinality(rest \cap ChildrenOf(t, c)) = 0
    BY <1>4, FS_EmptySet
  <2> HIDE DEF rest
  <2>2. QED BY <1>4, <1>5, <1>6, <2>1
<1>8. QED BY <1>3, <1>4, <1>5, <1>6, <1>7

\* The open edges are finitely many, and there are none exactly when the
\* counter is zero.
LEMMA OpenFinite ==
  ASSUME Typed, NEW c \in Tx
  PROVE  /\ IsFiniteSet(Open(c)) /\ Cardinality(Open(c)) \in Nat
         /\ Cardinality(Open(c)) = 0 <=> Open(c) = {}
<1>1. IsFiniteSet(edgeSet) /\ Open(c) \in SUBSET edgeSet
  BY EdgesFinite DEF Typed, Open, Into
<1>2. IsFiniteSet(Open(c))
  BY <1>1, FS_Subset
<1>3. QED BY <1>2, FS_CardinalityType, FS_EmptySet

-----------------------------------------------------------------------------
(* Two arguments about states that satisfy the invariant.                  *)

\* When every transaction is counted as completed, all of them are, and no
\* worker has one in its hands.
LEMMA AllCompleted ==
  ASSUME IInv, nCompleted >= N
  PROVE  completed = Tx /\ WorkingSet = {} /\ active = 0
<1>1. completed \in SUBSET Tx /\ nCompleted = Cardinality(completed)
  BY DEF IInv, Typed, Counters
<1>2. Cardinality(completed) <= N /\ (Cardinality(Tx) = Cardinality(completed) => Tx = completed)
  BY <1>1, TxFinite, FS_Subset
<1>3. Cardinality(completed) \in Nat
  BY <1>1, TxFinite, FS_Subset, FS_CardinalityType
<1>4. completed = Tx
  BY <1>1, <1>2, <1>3, TxFinite, NAssumption
<1>5. WorkingSet = {}
  BY <1>4 DEF IInv, OnePlace, WorkingSet
<1>6. QED BY <1>4, <1>5, FS_EmptySet DEF IInv, Counters

\* While transactions are left there is one that is ready, with a worker or
\* waiting for its retry: the first transaction in block order that is not
\* completed has only completed parents.
LEMMA SomeWorkLeft ==
  ASSUME IInv, terminalErr = "none", nCompleted < N, popped = NoTx,
         active = 0, ready = <<>>, pendingRetries = 0
  PROVE  FALSE
<1> DEFINE Left == Tx \ completed
<1>1. Left # {} /\ Left \subseteq Nat
  <2>1. completed # Tx
    BY TxFinite DEF IInv, Counters
  <2>2. completed \in SUBSET Tx
    BY DEF IInv, Typed
  <2>3. Tx \subseteq Nat
    BY NAssumption DEF Tx
  <2>4. QED BY <2>1, <2>2, <2>3
<1>2. PICK t \in Left : \A u \in Left : ~(<<u, t>> \in OpToRel(<, Nat))
  BY <1>1, NatLessThanWellFounded, WFMin
<1>3. \A u \in Left : ~(u < t)
  BY <1>1, <1>2 DEF OpToRel
<1>4. ASSUME NEW e \in Into(t) PROVE e.parent \in completed
  <2>1. e \in Edges /\ e.parent < e.child /\ e.child = t
    BY GraphsAssumption DEF IInv, Typed, Into
  <2>2. e.parent \in Tx /\ e.parent < t
    BY <2>1 DEF Edges
  <2>3. QED BY <2>2, <1>3
<1>5. Open(t) = {}
  BY <1>4 DEF Open
<1>6. Placed(t)
  BY <1>5 DEF IInv, Located
<1>7. WorkingSet = {} /\ PendingSet = {}
  <2>1. WorkingSet \in SUBSET Workers /\ PendingSet \in SUBSET Tx
    BY DEF WorkingSet, PendingSet
  <2>2. IsFiniteSet(WorkingSet) /\ IsFiniteSet(PendingSet)
    BY <2>1, TxFinite, WorkersFinite, FS_Subset
  <2>3. Cardinality(WorkingSet) = 0 /\ Cardinality(PendingSet) = 0
    BY DEF IInv, Counters
  <2>4. QED BY <2>2, <2>3, FS_EmptySet
<1>8. Elems(ready) = {}
  BY DEF Elems
<1>9. t # NoTx
  <2>1. t \in Tx
    OBVIOUS
  <2>2. QED BY <2>1, NAssumption DEF Tx, NoTx
<1>10. QED
  BY <1>2, <1>6, <1>7, <1>8, <1>9 DEF Placed, Held, WorkingSet, PendingSet

-----------------------------------------------------------------------------
(* The invariant is inductive.                                             *)

\* The types are preserved; a worker that reports has a transaction in hand.
LEMMA TypedStep == ASSUME IInv, [Next]_vars PROVE Typed'
<1>0. Typed /\ \A w \in Workers : WorkingOn(w) => worker[w].tx \in Tx
  BY DEF IInv, OnePlace
<1> USE <1>0 DEF Typed, graphVars, loopVars, dbVars, vars
<1>1. CASE UNCHANGED vars
  BY <1>1
<1>2. CASE LoopDone \/ DispatchStopped \/ SendStopped \/ DispatchDone \/ Drained
  BY <1>2 DEF LoopDone, DispatchStopped, SendStopped, DispatchDone, Drained
<1>3. CASE SelectStopped \/ RetriesStopped \/ WorkersStopped \/ Cleanup \/ Stop
           \/ Terminated
  BY <1>3 DEF SelectStopped, RetriesStopped, WorkersStopped, Cleanup, Stop,
              Terminated
<1>4. CASE DispatchPop
  BY <1>4, ElemsTail DEF DispatchPop, CanDispatch
<1>5. ASSUME NEW w \in Workers, SendJob(w) PROVE Typed'
  BY <1>5 DEF SendJob, WorkerStates, Outcomes
<1>6. ASSUME NEW w \in Workers, Drain(w) PROVE Typed'
  BY <1>6 DEF Drain, WorkerStates, Outcomes, Idle
<1>7. ASSUME NEW w \in Workers, WorkerExit(w) PROVE Typed'
  BY <1>7 DEF WorkerExit, WorkerStates, Outcomes, Gone
<1>8. ASSUME NEW t \in Tx, ReceiveRetry(t) PROVE Typed'
  BY <1>8, ElemsAppend DEF ReceiveRetry
<1>9. ASSUME NEW t \in Tx, RetryExit(t) PROVE Typed'
  BY <1>9 DEF RetryExit
<1>10. ASSUME NEW w \in Workers, FinishTx(w) PROVE Typed'
  <2>1. worker[w].tx \in Tx
    BY <1>10 DEF FinishTx, WorkingOn
  <2>2. PICK err \in Outcomes :
          /\ processTx(worker[w].tx, err)
          /\ worker' = [worker EXCEPT ![w] = [at |-> "result", tx |-> worker[w].tx,
                                              err |-> err]]
    BY <1>10 DEF FinishTx
  <2>3. worker' \in [Workers -> WorkerStates]
    BY <2>1, <2>2 DEF WorkerStates
  <2>4. applied' \in SUBSET Tx /\ spends' \in SUBSET Tx
    BY <2>1, <2>2 DEF processTx
  <2>5. QED BY <1>10, <2>3, <2>4 DEF FinishTx
<1>11. ASSUME NEW w \in Workers, ReceiveResult(w) PROVE Typed'
  <2> DEFINE t == worker[w].tx
  <2>0. t \in Tx
    BY <1>11 DEF ReceiveResult, WorkingOn
  <2>1. worker' \in [Workers -> WorkerStates]
    BY <1>11 DEF ReceiveResult, WorkerStates, Outcomes, Idle
  <2>2. CASE stopped
    BY <2>1, <2>2, <1>11 DEF ReceiveResult
  <2>3. CASE ~stopped /\ worker[w].err # "ok"
    <3>1. handleScheduledTxError(t, worker[w].err)
      BY <2>3, <1>11 DEF ReceiveResult
    <3>2. attempts' \in [Tx -> Nat]
      BY <2>0, <3>1 DEF handleScheduledTxError
    <3>3. terminalErr' \in {"none", "invariant", "fatal", "tooManyFailures"}
      BY <3>1, Zenon DEF handleScheduledTxError, Verdict
    <3>4. pendingRetries' \in Int
      BY <3>1 DEF handleScheduledTxError
    <3>5. retry' \in [Tx -> {"none", "live", "exited"}]
      BY <2>0, <3>1 DEF handleScheduledTxError
    <3>6. QED
      BY <2>1, <3>1, <3>2, <3>3, <3>4, <3>5, <1>11
         DEF ReceiveResult, handleScheduledTxError
  <2>4. CASE ~stopped /\ worker[w].err = "ok"
    <3>1. completeTx(t)
      BY <2>4, <1>11 DEF ReceiveResult
    <3>2. \A c \in Tx : Unblocked(t, c) \in Int
      <4>1. ASSUME NEW c \in Tx PROVE Cardinality(ChildrenOf(t, c)) \in Nat
        <5>1. IsFiniteSet(edgeSet) /\ ChildrenOf(t, c) \in SUBSET edgeSet
          BY EdgesFinite DEF ChildrenOf
        <5>2. QED BY <5>1, FS_Subset, FS_CardinalityType
      <4>2. QED BY <4>1 DEF Unblocked
    <3>3. PICK s \in Listing(NewlyReady(t)) : ready' = ready \o s
      BY <3>1 DEF completeTx, releaseChildren
    <3>4. ready' \in Seq(Tx)
      <4>1. s \in Seq(Tx)
        BY <3>3, ListingElems DEF NewlyReady
      <4>2. QED BY <3>3, <4>1
    <3>5. QED
      BY <2>0, <2>1, <3>1, <3>2, <3>4, <1>11
         DEF ReceiveResult, completeTx, releaseChildren, WorkerStates
  <2>5. QED BY <2>2, <2>3, <2>4
<1>12. QED
  BY <1>1, <1>2, <1>3, <1>4, <1>5, <1>6, <1>7, <1>8, <1>9, <1>10, <1>11
     DEF Next, Scheduler

\* The initial state satisfies the invariant.
LEMMA InitInv == Init => IInv
<1> SUFFICES ASSUME Init PROVE IInv
  OBVIOUS
<1> USE DEF Init
<1>1. \A c \in Tx : Open(c) = Into(c)
  BY DEF Open
<1>2. /\ ready \in Seq(Tx) /\ NoDuplicates(ready)
      /\ Elems(ready) = {c \in Tx : Into(c) = {}}
  BY ListingElems
<1>3. \A c \in Tx : Cardinality(Into(c)) \in Nat
  <2>1. ASSUME NEW c \in Tx PROVE Cardinality(Into(c)) \in Nat
    <3>1. IsFiniteSet(edgeSet) /\ Into(c) \in SUBSET edgeSet
      BY EdgesFinite DEF Into
    <3>2. QED BY <3>1, FS_Subset, FS_CardinalityType
  <2>2. QED BY <2>1
<1>4. \A w \in Workers : /\ worker[w].at \in {"idle", "exited"}
                         /\ worker[w].tx = NoTx /\ worker[w].err = "ok"
                         /\ N = 0 => worker[w].at = "exited"
  BY DEF Idle, Gone
<1>5. Typed
  <2>1. worker \in [Workers -> WorkerStates]
    BY DEF WorkerStates, Idle, Gone, Outcomes
  <2>2. unresolved \in [Tx -> Int]
    BY <1>3
  <2>3. pc \in {"loop", "returned"}
    OBVIOUS
  <2>4. retry \in [Tx -> {"none", "live", "exited"}] /\ attempts \in [Tx -> Nat]
    OBVIOUS
  <2>5. /\ edgeSet \in Graphs /\ completed = {} /\ applied = {} /\ spends = {}
        /\ nCompleted = 0 /\ active = 0 /\ pendingRetries = 0
        /\ terminalErr = "none" /\ popped = NoTx /\ stopped \in BOOLEAN
    OBVIOUS
  <2> HIDE DEF Init
  <2>6. QED BY <1>2, <2>1, <2>2, <2>3, <2>4, <2>5 DEF Typed
<1>6. Control
  BY <1>4, NAssumption DEF Control, Ending
<1>7. Counters
  <2>1. WorkingSet = {} /\ PendingSet = {}
    BY <1>4 DEF WorkingSet, PendingSet, WorkingOn
  <2>2. QED BY <1>1, <2>1, FS_EmptySet DEF Counters
<1>8. OnePlace
  <2>1. \A t \in Tx : t # NoTx
    BY NAssumption DEF Tx, NoTx
  <2>2. QED BY <1>2, <1>4, <2>1 DEF OnePlace, WorkingOn
<1>9. Released /\ Located
  <2>1. \A t \in Tx : t # NoTx
    BY NAssumption DEF Tx, NoTx
  <2>2. \A t \in Tx : Placed(t) <=> Into(t) = {}
    BY <1>2, <1>4, <2>1 DEF Placed, Held, WorkingOn
  <2>3. QED BY <1>1, <2>2 DEF Released, Located
<1>10. Applied
  BY <1>4 DEF Applied
<1>11. QED BY <1>5, <1>6, <1>7, <1>8, <1>9, <1>10 DEF IInv

\* A step that only moves the scheduler, or sets the error or the stop, leaves
\* the transactions where they are.
LEMMA Frame ==
  ASSUME IInv,
         UNCHANGED <<graphVars, popped, nCompleted, active, pendingRetries,
                     worker, retry, applied>>,
         terminalErr' = "none" => terminalErr = "none"
  PROVE  Counters' /\ OnePlace' /\ Released' /\ Located' /\ Applied'
<1> USE DEF IInv, graphVars, WorkingOn
<1>1. \A c : Open(c)' = Open(c)
  BY DEF Open, Into
<1>2. WorkingSet' = WorkingSet /\ PendingSet' = PendingSet
  BY DEF WorkingSet, PendingSet
<1>3. \A t \in Tx : Placed(t)' <=> Placed(t)
  BY DEF Placed, Held
<1>4. Counters'
  BY <1>1, <1>2 DEF Counters
<1>5. OnePlace'
  BY DEF OnePlace
<1>6. Released' /\ Located'
  BY <1>1, <1>3 DEF Released, Located
<1>7. Applied'
  BY DEF Applied
<1>8. QED BY <1>4, <1>5, <1>6, <1>7

\* The part of the invariant that is left once the types are dealt with.
Rest == Control /\ Counters /\ OnePlace /\ Released /\ Located /\ Applied

\* Moves of the scheduler that touch no transaction.
LEMMA MoveStep ==
  ASSUME IInv,
         \/ LoopDone \/ DispatchStopped \/ DispatchDone \/ Drained
         \/ SelectStopped \/ RetriesStopped \/ WorkersStopped \/ Cleanup
         \/ Stop \/ UNCHANGED vars
  PROVE  Rest'
<1> USE DEF graphVars, loopVars, dbVars, vars
<1>0. Control /\ (DispatchDone => popped = NoTx)
  BY DEF IInv, Control, DispatchDone, InLoop
<1>1. CASE LoopDone
  <2>1. active = 0
    BY <1>1, AllCompleted DEF LoopDone
  <2>2. Control'
    BY <1>0, <1>1, <2>1 DEF LoopDone, Control, Ending
  <2>3. QED BY <1>1, <2>2, Frame DEF LoopDone, Rest
<1>2. CASE DispatchStopped
  <2>1. Control'
    BY <1>0, <1>2 DEF DispatchStopped, InLoop, Control, Ending
  <2>2. QED BY <1>2, <2>1, Frame DEF DispatchStopped, Rest
<1>3. CASE DispatchDone
  <2>1. ~(active = 0 /\ ready = <<>> /\ pendingRetries = 0)
    BY <1>0, <1>3, SomeWorkLeft DEF DispatchDone, InLoop
  <2>2. Control'
    BY <1>0, <1>3, <2>1 DEF DispatchDone, InLoop, Control, Ending
  <2>3. QED BY <1>3, <2>1, <2>2, Frame DEF DispatchDone, Rest
<1>4. CASE Drained
  <2>1. Control'
    BY <1>0, <1>4 DEF Drained, InLoop, Control, Ending
  <2>2. QED BY <1>4, <2>1, Frame DEF Drained, Rest
<1>5. CASE SelectStopped
  <2>1. Control'
    BY <1>0, <1>5 DEF SelectStopped, Control, Ending
  <2>2. QED BY <1>5, <2>1, Frame DEF SelectStopped, Rest
<1>6. CASE RetriesStopped
  <2>1. Control'
    BY <1>0, <1>6 DEF RetriesStopped, Control, Ending
  <2>2. QED BY <1>6, <2>1, Frame DEF RetriesStopped, Rest
<1>7. CASE WorkersStopped
  <2>1. Control'
    BY <1>0, <1>7 DEF WorkersStopped, Control, Ending
  <2>2. QED BY <1>7, <2>1, Frame DEF WorkersStopped, Rest
<1>8. CASE Cleanup
  <2>1. Control'
    BY <1>0, <1>8 DEF Cleanup, Control, Ending
  <2>2. QED BY <1>8, <2>1, Frame DEF Cleanup, Rest
<1>9. CASE Stop \/ UNCHANGED vars
  <2>1. Control'
    BY <1>0, <1>9 DEF Stop, Control, Ending
  <2>2. QED BY <1>9, <2>1, Frame DEF Stop, Rest
<1>10. QED
  BY <1>1, <1>2, <1>3, <1>4, <1>5, <1>6, <1>7, <1>8, <1>9

\* A transaction is popped, handed to a worker, or dropped.
LEMMA PopStep == ASSUME IInv, DispatchPop PROVE Rest'
<1> USE DEF DispatchPop, WorkingOn, dbVars
<1> DEFINE t == Head(ready)
<1>0. Typed /\ Control /\ Counters /\ OnePlace /\ Released /\ Located /\ Applied
  BY DEF IInv
<1>1. /\ t \in Tx /\ Elems(ready) = Elems(ready') \cup {t}
      /\ NoDuplicates(ready') /\ t \notin Elems(ready')
  BY <1>0, ElemsTail DEF CanDispatch, Typed, OnePlace
<1>2. popped = NoTx /\ t # NoTx
  BY <1>0, <1>1, NAssumption DEF Control, InLoop, Tx, NoTx
<1>3. \A c : Open(c)' = Open(c)
  BY DEF Open, Into
<1>4. \A u \in Tx : Placed(u)' <=> Placed(u)
  <2>1. \A u \in Tx : Held(u)' <=> Held(u)
    BY DEF Held
  <2>2. \A u \in Tx : u # NoTx
    BY NAssumption DEF Tx, NoTx
  <2>3. QED BY <1>1, <1>2, <2>1, <2>2 DEF Placed
<1>5. Control'
  BY <1>0, <1>2 DEF Control, InLoop, Ending
<1>6. Counters'
  <2>1. WorkingSet' = WorkingSet /\ PendingSet' = PendingSet
    BY DEF WorkingSet, PendingSet
  <2>2. QED BY <1>0, <1>3, <2>1 DEF Counters
<1>7. OnePlace'
  <2>1. t \notin completed /\ retry[t] = "none"
    BY <1>0, <1>1 DEF OnePlace
  <2>2. \A u \in Elems(ready') : u \in Elems(ready) /\ u # t
    BY <1>1
  <2>3. \A v \in Workers : WorkingOn(v)' <=> WorkingOn(v)
    OBVIOUS
  <2>4. \A u \in Tx : retry[u] # "none" => u # t
    BY <2>1
  <2>5. \A v \in Workers : WorkingOn(v) => worker[v].tx # t /\ worker[v].tx \notin Elems(ready')
    BY <1>0, <1>1 DEF OnePlace
  <2> HIDE DEF WorkingOn, t
  <2>6. QED BY <1>0, <1>1, <2>1, <2>2, <2>3, <2>4, <2>5 DEF OnePlace, t
<1>8. Released' /\ Located'
  <2>1. applied' = applied /\ terminalErr' = terminalErr
    BY DEF dbVars
  <2>2. QED BY <1>0, <1>3, <1>4, <2>1 DEF Released, Located
<1>9. Applied'
  BY <1>0, <1>1 DEF Applied
<1>10. QED BY <1>5, <1>6, <1>7, <1>8, <1>9 DEF Rest

\* Handing the popped transaction to an idle worker.
LEMMA SendStep ==
  ASSUME IInv, NEW w \in Workers, SendJob(w)
  PROVE  Rest'
<1> USE DEF SendJob
<1>0. Typed /\ Control /\ Counters /\ OnePlace /\ Released /\ Located /\ Applied
  BY DEF IInv
<1>1. /\ popped \in Tx /\ popped # NoTx /\ NoTx \notin Tx
  BY <1>0, NAssumption DEF Control, Typed, Tx, NoTx
<1>2. /\ worker'[w] = [at |-> "busy", tx |-> popped, err |-> "ok"]
      /\ \A v \in Workers : v # w => worker'[v] = worker[v]
  BY <1>0 DEF Typed
<1>3. /\ WorkingOn(w)' /\ ~WorkingOn(w)
      /\ \A v \in Workers : v # w => (WorkingOn(v)' <=> WorkingOn(v))
  BY <1>2 DEF WorkingOn
<1>4. \A c : Open(c)' = Open(c)
  BY DEF Open, Into, graphVars
<1>5. \A u \in Tx : Placed(u)' <=> Placed(u)
  <2>1. \A u \in Tx : Held(u)' <=> Held(u) \/ u = popped
    BY <1>2, <1>3 DEF Held
  <2>2. QED BY <1>1, <2>1 DEF Placed, graphVars
<1>6. Control'
  BY <1>0 DEF Control, Ending, dbVars
<1>7. Counters'
  <2>1. WorkingSet' = WorkingSet \cup {w} /\ w \notin WorkingSet
    BY <1>3 DEF WorkingSet
  <2>2. IsFiniteSet(WorkingSet) /\ Cardinality(WorkingSet) \in Nat
    BY WorkersFinite, FS_Subset, FS_CardinalityType DEF WorkingSet
  <2>3. Cardinality(WorkingSet') = Cardinality(WorkingSet) + 1
    BY <2>1, <2>2, FS_AddElement
  <2>4. PendingSet' = PendingSet
    BY DEF PendingSet
  <2>5. QED BY <1>0, <1>4, <2>3, <2>4 DEF Counters, graphVars
<1>8. OnePlace'
  <2>1. \A v \in Workers : WorkingOn(v)' =>
          IF v = w THEN worker'[v].tx = popped
                   ELSE WorkingOn(v) /\ worker'[v].tx = worker[v].tx
                        /\ worker[v].tx # popped
    BY <1>0, <1>2, <1>3 DEF OnePlace
  <2>2. /\ popped \notin Elems(ready) /\ popped \notin completed
        /\ retry[popped] = "none"
    BY <1>0, <1>1 DEF OnePlace
  <2>3. \A t \in Elems(ready) : t \in Tx
    BY <1>0 DEF Typed, Elems
  <2>4. completed \subseteq Tx
    BY <1>0 DEF Typed
  <2>5. QED BY <1>0, <1>1, <2>1, <2>2, <2>3, <2>4 DEF OnePlace, graphVars
<1>9. Released' /\ Located'
  BY <1>0, <1>4, <1>5 DEF Released, Located, dbVars
<1>10. Applied'
  <2>1. popped \notin applied /\ applied \in SUBSET Tx
    BY <1>0 DEF Applied, Typed
  <2>2. \A v \in Workers :
           /\ worker'[v].at = "busy" => worker'[v].tx \notin applied
           /\ worker'[v].at = "result" =>
                (worker'[v].err = "ok" <=> worker'[v].tx \in applied)
           /\ worker'[v].err # "missingSameBlock"
    BY <1>0, <1>2, <2>1 DEF Applied
  <2>3. QED BY <1>0, <1>1, <2>1, <2>2 DEF Applied, graphVars, dbVars
<1>11. QED BY <1>6, <1>7, <1>8, <1>9, <1>10 DEF Rest

\* Dropping the popped transaction because of a stop.
LEMMA SendStoppedStep == ASSUME IInv, SendStopped PROVE Rest'
<1> USE DEF SendStopped, graphVars, dbVars
<1>0. Typed /\ Control /\ Counters /\ OnePlace /\ Released /\ Located /\ Applied
  BY DEF IInv
<1>1. /\ NoTx \notin Tx /\ completed \subseteq Tx /\ applied \subseteq Tx
      /\ \A t \in Elems(ready) : t \in Tx
  BY <1>0, NAssumption DEF Typed, Tx, NoTx, Elems
<1>2. \A c : Open(c)' = Open(c)
  BY DEF Open, Into
<1>3. \A v \in Workers : WorkingOn(v)' <=> WorkingOn(v)
  BY DEF WorkingOn
<1>4. \A u \in Tx : Placed(u)' => Placed(u)
  <2>1. \A u \in Tx : Held(u)' <=> Held(u)
    BY <1>3 DEF Held
  <2>2. QED BY <1>1, <2>1 DEF Placed
<1>5. Control'
  BY <1>0 DEF Control, Ending
<1>6. Counters'
  <2>1. WorkingSet' = WorkingSet /\ PendingSet' = PendingSet
    BY <1>3 DEF WorkingSet, PendingSet
  <2>2. QED BY <1>0, <1>2, <2>1 DEF Counters
<1>7. OnePlace'
  BY <1>0, <1>1, <1>3 DEF OnePlace
<1>8. Released' /\ Located'
  BY <1>0, <1>2, <1>4 DEF Released, Located
<1>9. Applied'
  BY <1>0, <1>1 DEF Applied
<1>10. QED BY <1>5, <1>6, <1>7, <1>8, <1>9 DEF Rest

\* A worker whose result is received is idle again and no longer counted.
LEMMA WorkerFreed ==
  ASSUME IInv, NEW w \in Workers, worker[w].at = "result",
         worker' = [worker EXCEPT ![w] = Idle]
  PROVE  /\ worker'[w].at = "idle" /\ worker'[w].err = "ok"
         /\ \A v \in Workers : v # w => worker'[v] = worker[v]
         /\ \A v \in Workers : WorkingOn(v)' <=> v # w /\ WorkingOn(v)
         /\ WorkingOn(w) /\ worker[w].tx \in Tx
         /\ Cardinality(WorkingSet') = active - 1
<1>1. /\ worker'[w] = Idle
      /\ \A v \in Workers : v # w => worker'[v] = worker[v]
  BY DEF IInv, Typed
<1>2. worker'[w].at = "idle" /\ worker'[w].err = "ok"
  BY <1>1 DEF Idle
<1>3. \A v \in Workers : WorkingOn(v)' <=> v # w /\ WorkingOn(v)
  BY <1>1, <1>2 DEF WorkingOn
<1>4. WorkingOn(w) /\ worker[w].tx \in Tx
  BY DEF WorkingOn, IInv, OnePlace
<1>5. Cardinality(WorkingSet') = active - 1
  <2>1. WorkingSet' = WorkingSet \ {w} /\ w \in WorkingSet
    BY <1>3, <1>4 DEF WorkingSet
  <2>2. IsFiniteSet(WorkingSet)
    BY WorkersFinite, FS_Subset DEF WorkingSet
  <2>3. Cardinality(WorkingSet') = Cardinality(WorkingSet) - 1
    BY <2>1, <2>2, FS_RemoveElement
  <2>4. QED BY <2>3 DEF IInv, Counters
<1>6. QED BY <1>1, <1>2, <1>3, <1>4, <1>5

\* A result that is received and discarded because the block is abandoned.
LEMMA DiscardStep ==
  ASSUME IInv, NEW w \in Workers, worker[w].at = "result",
         worker' = [worker EXCEPT ![w] = Idle], active' = active - 1,
         pc' = "loop", pc \in {"loop", "select"},
         terminalErr' \in {terminalErr, "shutdown"}, terminalErr' # "none",
         UNCHANGED <<graphVars, nCompleted, pendingRetries, popped, retry, dbVars>>
  PROVE  Rest'
<1> USE DEF graphVars, dbVars
<1>0. Typed /\ Control /\ Counters /\ OnePlace /\ Released /\ Located /\ Applied
  BY DEF IInv
<1>1. /\ worker'[w].at = "idle" /\ worker'[w].err = "ok"
      /\ \A v \in Workers : v # w => worker'[v] = worker[v]
      /\ \A v \in Workers : WorkingOn(v)' <=> v # w /\ WorkingOn(v)
      /\ Cardinality(WorkingSet') = active - 1
  BY WorkerFreed
<1>2. \A c : Open(c)' = Open(c)
  BY DEF Open, Into
<1>3. \A u \in Tx : Placed(u)' => Placed(u)
  <2>1. \A u \in Tx : Held(u)' => Held(u)
    BY <1>1 DEF Held
  <2>2. QED BY <2>1 DEF Placed
<1>4. Control'
  BY <1>0 DEF Control, Ending
<1>5. Counters'
  <2>1. PendingSet' = PendingSet
    BY DEF PendingSet
  <2>2. QED BY <1>0, <1>1, <1>2, <2>1 DEF Counters
<1>6. OnePlace'
  <2>1. \A v \in Workers : WorkingOn(v)' => WorkingOn(v) /\ worker'[v].tx = worker[v].tx
    BY <1>1
  <2>2. QED BY <1>0, <2>1 DEF OnePlace
<1>7. Released' /\ Located'
  BY <1>0, <1>2, <1>3 DEF Released, Located
<1>8. Applied'
  <2>1. \A v \in Workers :
          \/ worker'[v] = worker[v]
          \/ worker'[v].at = "idle" /\ worker'[v].err = "ok"
    BY <1>1
  <2>2. \A v \in Workers :
           /\ worker'[v].at = "busy" => worker'[v].tx \notin applied
           /\ worker'[v].at = "result" =>
                (worker'[v].err = "ok" <=> worker'[v].tx \in applied)
           /\ worker'[v].err # "missingSameBlock"
    BY <1>0, <2>1 DEF Applied
  <2>3. QED BY <1>0, <2>2 DEF Applied
<1>9. QED BY <1>4, <1>5, <1>6, <1>7, <1>8 DEF Rest

\* Discarding a result after a terminal error.
LEMMA DrainStep == ASSUME IInv, NEW w \in Workers, Drain(w) PROVE Rest'
  BY DiscardStep DEF Drain, InLoop

\* A worker or a retry goroutine leaves: nothing moves.
LEMMA WorkerExitStep == ASSUME IInv, NEW w \in Workers, WorkerExit(w) PROVE Rest'
<1> USE DEF WorkerExit, graphVars, loopVars, dbVars
<1>0. Typed /\ Control /\ Counters /\ OnePlace /\ Released /\ Located /\ Applied
  BY DEF IInv
<1>1. /\ worker'[w].at = "exited" /\ worker'[w].err = "ok"
      /\ \A v \in Workers : v # w => worker'[v] = worker[v]
  BY <1>0 DEF Typed, Gone
<1>2. \A v \in Workers : /\ WorkingOn(v)' <=> WorkingOn(v)
                         /\ WorkingOn(v) => worker'[v].tx = worker[v].tx
  BY <1>1 DEF WorkingOn
<1>3. \A c : Open(c)' = Open(c)
  BY DEF Open, Into
<1>4. \A u \in Tx : Placed(u)' <=> Placed(u)
  <2>1. \A u \in Tx : Held(u)' <=> Held(u)
    BY <1>2 DEF Held
  <2>2. QED BY <2>1 DEF Placed
<1>5. Control'
  BY <1>0, <1>1 DEF Control, Ending
<1>6. Counters'
  <2>1. WorkingSet' = WorkingSet /\ PendingSet' = PendingSet
    BY <1>2 DEF WorkingSet, PendingSet
  <2>2. QED BY <1>0, <1>3, <2>1 DEF Counters
<1>7. OnePlace'
  BY <1>0, <1>2 DEF OnePlace
<1>8. Released' /\ Located'
  BY <1>0, <1>3, <1>4 DEF Released, Located
<1>9. Applied'
  <2>1. \A v \in Workers :
           /\ worker'[v].at = "busy" => worker'[v].tx \notin applied
           /\ worker'[v].at = "result" =>
                (worker'[v].err = "ok" <=> worker'[v].tx \in applied)
           /\ worker'[v].err # "missingSameBlock"
    BY <1>0, <1>1 DEF Applied
  <2>2. QED BY <1>0, <2>1 DEF Applied
<1>10. QED BY <1>5, <1>6, <1>7, <1>8, <1>9 DEF Rest

\* A retry goroutine that gives up stays counted.
LEMMA RetryExitStep == ASSUME IInv, NEW t \in Tx, RetryExit(t) PROVE Rest'
<1> USE DEF RetryExit, graphVars, loopVars, dbVars
<1>0. Typed /\ Control /\ Counters /\ OnePlace /\ Released /\ Located /\ Applied
  BY DEF IInv
<1>1. \A u \in Tx : retry'[u] = "none" <=> retry[u] = "none"
  BY <1>0 DEF Typed
<1>2. \A v \in Workers : WorkingOn(v)' <=> WorkingOn(v)
  BY DEF WorkingOn
<1>3. \A c : Open(c)' = Open(c)
  BY DEF Open, Into
<1>4. \A u \in Tx : Placed(u)' <=> Placed(u)
  <2>1. \A u \in Tx : Held(u)' <=> Held(u)
    BY <1>2 DEF Held
  <2>2. QED BY <1>1, <2>1 DEF Placed
<1>5. Control'
  BY <1>0 DEF Control, Ending
<1>6. Counters'
  <2>1. WorkingSet' = WorkingSet /\ PendingSet' = PendingSet
    BY <1>1, <1>2 DEF WorkingSet, PendingSet
  <2>2. QED BY <1>0, <1>3, <2>1 DEF Counters
<1>7. OnePlace'
  <2>1. \A u \in Elems(ready) : u \in Tx
    BY <1>0 DEF Typed, Elems
  <2>2. QED BY <1>0, <1>1, <1>2, <2>1 DEF OnePlace
<1>8. Released' /\ Located'
  BY <1>0, <1>3, <1>4 DEF Released, Located
<1>9. Applied'
  <2>1. applied \subseteq Tx
    BY <1>0 DEF Typed
  <2>2. QED BY <1>0, <1>1, <2>1 DEF Applied
<1>10. QED BY <1>5, <1>6, <1>7, <1>8, <1>9 DEF Rest

\* A transaction whose backoff is over joins the ready queue.
LEMMA RetryStep == ASSUME IInv, NEW t \in Tx, ReceiveRetry(t) PROVE Rest'
<1> USE DEF ReceiveRetry, dbVars
<1>0. Typed /\ Control /\ Counters /\ OnePlace /\ Released /\ Located /\ Applied
  BY DEF IInv
<1>1. /\ t \notin Elems(ready) /\ t \notin completed /\ t # popped /\ t \notin applied
      /\ \A w \in Workers : WorkingOn(w) => worker[w].tx # t
  BY <1>0 DEF OnePlace, Applied
<1>2. /\ Elems(ready') = Elems(ready) \cup {t} /\ NoDuplicates(ready')
      /\ \A u \in Elems(ready) : u \in Tx
  <2>1. ready \in Seq(Tx) /\ NoDuplicates(ready) /\ ready' = Append(ready, t)
    BY <1>0 DEF Typed, OnePlace
  <2>2. \A u \in Elems(ready) : u \in Tx
    BY <2>1 DEF Elems
  <2>3. QED BY <1>1, <2>1, <2>2, ElemsAppend
<1>3. /\ retry'[t] = "none"
      /\ \A u \in Tx : u # t => retry'[u] = retry[u]
  BY <1>0 DEF Typed
<1>4. \A v \in Workers : WorkingOn(v)' <=> WorkingOn(v)
  BY DEF WorkingOn
<1>5. \A c : Open(c)' = Open(c)
  BY DEF Open, Into
<1>6. \A u \in Tx : Placed(u)' <=> Placed(u)
  <2>1. \A u \in Tx : Held(u)' <=> Held(u)
    BY <1>4 DEF Held
  <2>2. QED BY <1>2, <1>3, <2>1 DEF Placed
<1>7. Control'
  BY <1>0 DEF Control, Ending
<1>8. Counters'
  <2>1. WorkingSet' = WorkingSet
    BY <1>4 DEF WorkingSet
  <2>2. PendingSet' = PendingSet \ {t} /\ t \in PendingSet
    BY <1>3 DEF PendingSet
  <2>3. IsFiniteSet(PendingSet)
    BY TxFinite, FS_Subset DEF PendingSet
  <2>4. Cardinality(PendingSet') = Cardinality(PendingSet) - 1
    BY <2>2, <2>3, FS_RemoveElement
  <2>5. QED BY <1>0, <1>5, <2>1, <2>4 DEF Counters
<1>9. OnePlace'
  <2>1. \A w \in Workers : WorkingOn(w)' => WorkingOn(w) /\ worker'[w].tx = worker[w].tx
    BY <1>4
  <2>2. \A w \in Workers : WorkingOn(w) =>
          worker[w].tx \in Tx /\ worker[w].tx # t /\ worker[w].tx \notin Elems(ready')
    BY <1>0, <1>1, <1>2 DEF OnePlace
  <2>3. \A u \in Elems(ready') :
          u \notin completed /\ u # popped /\ retry'[u] = "none"
    BY <1>0, <1>1, <1>2, <1>3 DEF OnePlace
  <2>4. completed' = completed /\ popped' = popped
    OBVIOUS
  <2>5. \A u \in Tx : retry'[u] # "none" => retry[u] # "none" /\ u # t
    BY <1>3
  <2>6. \A w \in Workers : WorkingOn(w) => retry'[worker[w].tx] = "none"
    BY <1>0, <1>3, <2>2 DEF OnePlace
  <2> HIDE DEF ReceiveRetry
  <2>7. QED BY <1>0, <1>2, <2>1, <2>2, <2>3, <2>4, <2>5, <2>6 DEF OnePlace
<1>10. Released' /\ Located'
  BY <1>0, <1>5, <1>6 DEF Released, Located
<1>11. Applied'
  <2>1. applied \subseteq Tx
    BY <1>0 DEF Typed
  <2>2. QED BY <1>0, <1>1, <1>2, <1>3, <2>1 DEF Applied
<1>12. QED BY <1>7, <1>8, <1>9, <1>10, <1>11 DEF Rest

\* A transaction in the hands of a worker has only applied parents, so a
\* source output of its own block cannot be missing.
LEMMA ParentsApplied ==
  ASSUME IInv, NEW w \in Workers, WorkingOn(w)
  PROVE  \A e \in Into(worker[w].tx) : e.parent \in applied
<1>1. worker[w].tx \in Tx /\ Placed(worker[w].tx)
  BY DEF IInv, OnePlace, Placed, Held
<1>2. Open(worker[w].tx) = {}
  BY <1>1 DEF IInv, Released
<1>3. QED BY <1>2 DEF IInv, Applied, Open

\* A worker finishes its transaction.
LEMMA FinishStep == ASSUME IInv, NEW w \in Workers, FinishTx(w) PROVE Rest'
<1> USE DEF graphVars, loopVars
<1> DEFINE t == worker[w].tx
<1>0. Typed /\ Control /\ Counters /\ OnePlace /\ Released /\ Located /\ Applied
  BY DEF IInv
<1>1. /\ worker[w].at = "busy" /\ WorkingOn(w)
      /\ UNCHANGED <<graphVars, loopVars, retry, stopped>>
  BY DEF FinishTx, WorkingOn
<1>2. PICK err \in Outcomes :
        /\ processTx(t, err)
        /\ worker' = [worker EXCEPT ![w] = [at |-> "result", tx |-> t, err |-> err]]
  BY DEF FinishTx
<1>3. /\ worker'[w] = [at |-> "result", tx |-> t, err |-> err]
      /\ \A v \in Workers : v # w => worker'[v] = worker[v]
  BY <1>0, <1>2 DEF Typed
<1>4. \A v \in Workers : /\ WorkingOn(v)' <=> WorkingOn(v)
                         /\ worker'[v].tx = worker[v].tx
  BY <1>1, <1>3 DEF WorkingOn
<1>5. err # "missingSameBlock"
  <2>1. UTXOParents(t) \subseteq applied
    BY <1>1, ParentsApplied DEF UTXOParents
  <2>2. QED BY <1>2, <2>1 DEF processTx
<1>6. /\ t \in Tx /\ t \notin applied /\ t \notin Elems(ready) /\ t # popped
      /\ t \notin completed /\ retry[t] = "none" /\ Open(t) = {}
  BY <1>0, <1>1 DEF OnePlace, Applied, Released, Placed, Held
<1>7. applied' = IF err = "ok" THEN applied \cup {t} ELSE applied
  BY <1>2 DEF processTx
<1>8. \A c : Open(c)' = Open(c)
  BY <1>1 DEF Open, Into
<1>9. \A u \in Tx : Placed(u)' <=> Placed(u)
  <2>1. \A u \in Tx : Held(u)' <=> Held(u)
    BY <1>4 DEF Held
  <2>2. QED BY <1>1, <2>1 DEF Placed
<1>10. Control'
  BY <1>0, <1>1 DEF Control, Ending
<1>11. Counters'
  <2>1. WorkingSet' = WorkingSet /\ PendingSet' = PendingSet
    BY <1>1, <1>4 DEF WorkingSet, PendingSet
  <2>2. QED BY <1>0, <1>1, <1>8, <2>1 DEF Counters
<1>12. OnePlace'
  BY <1>0, <1>1, <1>4 DEF OnePlace
<1>13. Released' /\ Located'
  BY <1>0, <1>1, <1>6, <1>7, <1>8, <1>9 DEF Released, Located
<1>14. Applied'
  <2>1. completed' \subseteq applied'
    BY <1>0, <1>1, <1>7 DEF Applied
  <2>2. \A u \in applied' : u \notin Elems(ready') /\ u # popped' /\ retry'[u] = "none"
    BY <1>0, <1>1, <1>6, <1>7 DEF Applied
  <2>3. ASSUME NEW v \in Workers
        PROVE  /\ worker'[v].at = "busy" => worker'[v].tx \notin applied'
               /\ worker'[v].at = "result" =>
                    (worker'[v].err = "ok" <=> worker'[v].tx \in applied')
               /\ worker'[v].err # "missingSameBlock"
    <3>1. CASE v = w
      BY <3>1, <1>3, <1>5, <1>6, <1>7
    <3>2. CASE v # w
      <4>1. WorkingOn(v) => worker[v].tx # t
        BY <3>2, <1>0, <1>1 DEF OnePlace
      <4>2. WorkingOn(v) => (worker[v].tx \in applied' <=> worker[v].tx \in applied)
        BY <4>1, <1>7
      <4>3. QED BY <3>2, <4>2, <1>0, <1>3 DEF Applied, WorkingOn
    <3>3. QED BY <3>1, <3>2
  <2>4. QED BY <2>1, <2>2, <2>3 DEF Applied
<1>15. QED BY <1>10, <1>11, <1>12, <1>13, <1>14 DEF Rest

\* A failed attempt: the transaction waits for its retry, or ends the block.
LEMMA FailStep ==
  ASSUME IInv, NEW w \in Workers, ReceiveResult(w), ~stopped, worker[w].err # "ok"
  PROVE  Rest'
<1> DEFINE t == worker[w].tx
<1>0. Typed /\ Control /\ Counters /\ OnePlace /\ Released /\ Located /\ Applied
  BY DEF IInv
<1>1. /\ pc = "select" /\ pc' = "loop" /\ active' = active - 1
      /\ worker[w].at = "result" /\ worker' = [worker EXCEPT ![w] = Idle]
      /\ UNCHANGED <<edgeSet, popped, stopped, applied, spends>>
      /\ handleScheduledTxError(t, worker[w].err)
  BY DEF ReceiveResult, dbVars
<1>2. /\ worker'[w].at = "idle" /\ worker'[w].err = "ok"
      /\ \A v \in Workers : v # w => worker'[v] = worker[v]
      /\ \A v \in Workers : WorkingOn(v)' <=> v # w /\ WorkingOn(v)
      /\ WorkingOn(w) /\ t \in Tx
      /\ Cardinality(WorkingSet') = active - 1
  BY <1>1, WorkerFreed
<1>3. /\ UNCHANGED <<unresolved, ready, completed, nCompleted>>
      /\ terminalErr' \in {"none", "fatal", "tooManyFailures"}
  <2>1. worker[w].err # "missingSameBlock"
    BY <1>0 DEF Applied
  <2>2. terminalErr' = Verdict(worker[w].err, attempts[t] + 1)
    BY <1>1 DEF handleScheduledTxError
  <2>3. terminalErr' \in {"none", "fatal", "tooManyFailures"}
    BY <2>1, <2>2, Zenon DEF Verdict
  <2>4. QED BY <1>1, <2>3 DEF handleScheduledTxError
<1>4. /\ t \notin applied /\ t \notin Elems(ready) /\ t # popped
      /\ t \notin completed /\ retry[t] = "none"
      /\ \A v \in Workers : v # w /\ WorkingOn(v) => worker[v].tx # t
  BY <1>0, <1>1, <1>2 DEF OnePlace, Applied
<1>5. /\ \A u \in Tx : u # t => retry'[u] = retry[u]
      /\ \/ /\ retry'[t] # "none" /\ pendingRetries' = pendingRetries + 1
         \/ /\ terminalErr' # "none" /\ retry' = retry
            /\ pendingRetries' = pendingRetries
  BY <1>0, <1>1, <1>2 DEF handleScheduledTxError, Typed
<1>6. \A c : Open(c)' = Open(c)
  BY <1>1, <1>3 DEF Open, Into
<1>7. /\ \A u \in Tx : Placed(u)' => Placed(u)
      /\ terminalErr' = "none" => \A u \in Tx : Placed(u) => Placed(u)'
  <2>1. \A u \in Tx : Held(u) <=> Held(u)' \/ u = t
    BY <1>2 DEF Held
  <2>2. QED BY <1>1, <1>3, <1>5, <2>1 DEF Placed
<1>8. Control'
  BY <1>0, <1>1, <1>3 DEF Control, Ending
<1>9. Counters'
  <2>1. Cardinality(PendingSet') = pendingRetries'
    <3>1. IsFiniteSet(PendingSet) /\ Cardinality(PendingSet) = pendingRetries
      BY <1>0, TxFinite, FS_Subset DEF PendingSet, Counters
    <3>2. CASE retry'[t] # "none" /\ pendingRetries' = pendingRetries + 1
      <4>1. PendingSet' = PendingSet \cup {t} /\ t \notin PendingSet
        BY <1>2, <1>4, <1>5, <3>2 DEF PendingSet
      <4>2. Cardinality(PendingSet') = Cardinality(PendingSet) + 1
        BY <3>1, <4>1, FS_AddElement
      <4>3. QED BY <3>1, <3>2, <4>2
    <3>3. CASE retry' = retry /\ pendingRetries' = pendingRetries
      BY <3>1, <3>3 DEF PendingSet
    <3>4. QED BY <1>5, <3>2, <3>3
  <2>2. QED BY <1>0, <1>1, <1>2, <1>3, <1>6, <2>1 DEF Counters
<1>10. OnePlace'
  <2>1. \A v \in Workers : WorkingOn(v)' =>
          /\ WorkingOn(v) /\ worker'[v].tx = worker[v].tx
          /\ worker[v].tx \in Tx /\ worker[v].tx # t
          /\ retry'[worker[v].tx] = "none"
    BY <1>0, <1>2, <1>4, <1>5 DEF OnePlace
  <2>2. \A u \in Elems(ready) : u \in Tx /\ u # t /\ retry'[u] = "none"
    BY <1>0, <1>4, <1>5 DEF Typed, Elems, OnePlace
  <2>3. \A u \in Tx : retry'[u] # "none" => u \notin completed /\ u # popped
    BY <1>0, <1>4, <1>5 DEF OnePlace
  <2>4. QED BY <1>0, <1>1, <1>3, <2>1, <2>2, <2>3 DEF OnePlace
<1>11. Released' /\ Located'
  <2>1. terminalErr = "none"
    BY <1>0, <1>1 DEF Control
  <2>2. QED BY <1>0, <1>1, <1>6, <1>7, <2>1 DEF Released, Located
<1>12. Applied'
  <2>1. \A u \in applied : u \in Tx /\ u # t /\ retry'[u] = "none"
    BY <1>0, <1>4, <1>5 DEF Applied, Typed
  <2>2. \A v \in Workers :
           /\ worker'[v].at = "busy" => worker'[v].tx \notin applied
           /\ worker'[v].at = "result" =>
                (worker'[v].err = "ok" <=> worker'[v].tx \in applied)
           /\ worker'[v].err # "missingSameBlock"
    BY <1>0, <1>2 DEF Applied
  <2>3. QED BY <1>0, <1>1, <1>3, <2>1, <2>2 DEF Applied
<1>13. QED BY <1>8, <1>9, <1>10, <1>11, <1>12 DEF Rest

\* A completed transaction releases its children.
LEMMA CompleteStep ==
  ASSUME IInv, NEW w \in Workers, ReceiveResult(w), ~stopped, worker[w].err = "ok"
  PROVE  Rest'
<1> DEFINE t == worker[w].tx
           rest(c) == {e \in Into(c) : e.parent \notin completed \cup {t}}
<1>0. Typed /\ Control /\ Counters /\ OnePlace /\ Released /\ Located /\ Applied
  BY DEF IInv
<1>1. /\ pc = "select" /\ pc' = "loop" /\ active' = active - 1
      /\ worker[w].at = "result" /\ worker' = [worker EXCEPT ![w] = Idle]
      /\ UNCHANGED <<edgeSet, popped, stopped, applied, spends>>
      /\ completeTx(t)
  BY DEF ReceiveResult, dbVars
<1>2. /\ worker'[w].at = "idle" /\ worker'[w].err = "ok"
      /\ \A v \in Workers : v # w => worker'[v] = worker[v]
      /\ \A v \in Workers : WorkingOn(v)' <=> v # w /\ WorkingOn(v)
      /\ WorkingOn(w) /\ t \in Tx
      /\ Cardinality(WorkingSet') = active - 1
  BY <1>1, WorkerFreed
<1>3. /\ completed' = completed \cup {t} /\ nCompleted' = nCompleted + 1
      /\ unresolved' = [c \in Tx |-> Unblocked(t, c)]
      /\ UNCHANGED <<attempts, terminalErr, pendingRetries, retry>>
  BY <1>1 DEF completeTx, releaseChildren
<1>4. /\ t \in applied /\ t \notin Elems(ready) /\ t # popped
      /\ t \notin completed /\ retry[t] = "none"
      /\ \A v \in Workers : v # w /\ WorkingOn(v) => worker[v].tx # t
  BY <1>0, <1>1, <1>2 DEF OnePlace, Applied
<1>5. \A c \in Tx : Open(c)' = rest(c)
  BY <1>1, <1>3 DEF Open, Into
<1>6. ASSUME NEW c \in Tx
      PROVE  /\ Open(c) = rest(c) \cup ChildrenOf(t, c)
             /\ unresolved'[c] = Cardinality(rest(c))
             /\ c \in NewlyReady(t) <=> ChildrenOf(t, c) # {} /\ rest(c) = {}
  <2>1. /\ Open(c) = rest(c) \cup ChildrenOf(t, c)
        /\ Cardinality(rest(c)) = Cardinality(Open(c)) - Cardinality(ChildrenOf(t, c))
        /\ Cardinality(rest(c)) = 0 <=> rest(c) = {}
    BY <1>0, <1>2, <1>4, OpenSplit
  <2>2. Unblocked(t, c) = Cardinality(rest(c))
    BY <1>0, <2>1 DEF Unblocked, Counters
  <2>3. unresolved'[c] = Unblocked(t, c)
    BY <1>3
  <2>4. c \in NewlyReady(t) <=> ChildrenOf(t, c) # {} /\ Unblocked(t, c) = 0
    BY DEF NewlyReady
  <2> HIDE DEF rest, t
  <2>5. QED BY <2>1, <2>2, <2>3, <2>4
<1> HIDE DEF rest
<1>7. \A c \in NewlyReady(t) :
        c \in Tx /\ ~Placed(c) /\ c \notin applied /\ c # t /\ rest(c) = {}
  <2>1. \A c \in NewlyReady(t) : c \in Tx /\ Open(c) # {} /\ rest(c) = {}
    BY <1>6 DEF NewlyReady
  <2>2. Placed(t)
    BY <1>2 DEF Placed, Held
  <2>3. QED BY <1>0, <2>1, <2>2 DEF Released
<1>8. PICK s \in Listing(NewlyReady(t)) : ready' = ready \o s
  BY <1>1 DEF completeTx, releaseChildren
<1>9. /\ Elems(ready') = Elems(ready) \cup NewlyReady(t)
      /\ NoDuplicates(ready')
  <2>1. NewlyReady(t) \in SUBSET Tx
    BY DEF NewlyReady
  <2>2. s \in Seq(Tx) /\ Elems(s) = NewlyReady(t) /\ NoDuplicates(s)
    BY <2>1, ListingElems
  <2>3. Elems(ready) \cap Elems(s) = {}
    BY <1>7, <2>2 DEF Placed
  <2>4. ready \in Seq(Tx) /\ NoDuplicates(ready)
    BY <1>0 DEF Typed, OnePlace
  <2>5. QED BY <1>8, <2>2, <2>3, <2>4, ElemsConcat
<1>10. \A u \in Tx : Placed(u)' <=> Placed(u) \/ u \in NewlyReady(t)
  <2>1. \A u \in Tx : Held(u) <=> Held(u)' \/ u = t
    BY <1>2 DEF Held
  <2>2. QED BY <1>1, <1>3, <1>9, <2>1 DEF Placed
<1>11. Control'
  BY <1>0, <1>1, <1>3 DEF Control, Ending
<1>12. Counters'
  <2>1. Cardinality(completed') = nCompleted'
    <3>1. IsFiniteSet(completed) /\ Cardinality(completed) = nCompleted
      BY <1>0, TxFinite, FS_Subset DEF Typed, Counters
    <3>2. Cardinality(completed') = Cardinality(completed) + 1
      BY <1>3, <1>4, <3>1, FS_AddElement
    <3>3. QED BY <1>3, <3>1, <3>2
  <2>2. PendingSet' = PendingSet
    BY <1>3 DEF PendingSet
  <2>3. \A c \in Tx : unresolved'[c] = Cardinality(Open(c)')
    BY <1>5, <1>6
  <2>4. QED BY <1>0, <1>1, <1>2, <1>3, <2>1, <2>2, <2>3 DEF Counters
<1>13. OnePlace'
  <2>1. \A v \in Workers : WorkingOn(v)' =>
          /\ WorkingOn(v) /\ worker'[v].tx = worker[v].tx
          /\ worker[v].tx \in Tx /\ worker[v].tx # t
          /\ worker[v].tx \notin Elems(ready')
    BY <1>0, <1>2, <1>4, <1>7, <1>9 DEF OnePlace, Placed, Held
  <2>2. \A u \in Elems(ready') :
          u # t /\ u \notin completed /\ u # popped /\ retry[u] = "none"
    BY <1>0, <1>4, <1>7, <1>9 DEF OnePlace, Placed
  <2>3. \A u \in Tx : retry[u] # "none" => u # t
    BY <1>4
  <2>4. QED BY <1>0, <1>1, <1>3, <1>4, <1>9, <2>1, <2>2, <2>3 DEF OnePlace
<1>14. Released'
  <2>1. \A u \in Tx : Placed(u) \/ u \in applied => rest(u) = {}
    BY <1>0, <1>6 DEF Released
  <2>2. QED BY <1>1, <1>5, <1>7, <1>10, <2>1 DEF Released
<1>15. Located'
  <2>1. \A u \in Tx : rest(u) = {} => Open(u) = {} \/ u \in NewlyReady(t)
    BY <1>6
  <2>2. terminalErr = "none"
    BY <1>0, <1>1 DEF Control
  <2>3. QED BY <1>0, <1>5, <1>10, <2>1, <2>2 DEF Located
<1>16. Applied'
  <2>1. completed' \subseteq applied'
    BY <1>0, <1>1, <1>3, <1>4 DEF Applied
  <2>2. \A u \in applied : u \notin Elems(ready') /\ u # popped /\ retry[u] = "none"
    BY <1>0, <1>7, <1>9 DEF Applied
  <2>3. \A v \in Workers :
           /\ worker'[v].at = "busy" => worker'[v].tx \notin applied
           /\ worker'[v].at = "result" =>
                (worker'[v].err = "ok" <=> worker'[v].tx \in applied)
           /\ worker'[v].err # "missingSameBlock"
    BY <1>0, <1>2 DEF Applied
  <2>4. QED BY <1>1, <1>3, <2>1, <2>2, <2>3 DEF Applied
<1>17. QED BY <1>11, <1>12, <1>13, <1>14, <1>15, <1>16 DEF Rest

-----------------------------------------------------------------------------
(* The theorems.                                                           *)

\* Every action preserves the invariant.
LEMMA StepInv == ASSUME IInv, [Next]_vars PROVE IInv'
<1>1. Rest'
  <2>1. CASE UNCHANGED vars \/ Terminated
    BY <2>1, MoveStep DEF Terminated
  <2>2. CASE Scheduler
    <3>1. ASSUME NEW w \in Workers, ReceiveResult(w) PROVE Rest'
      <4>1. CASE stopped
        BY <3>1, <4>1, DiscardStep DEF ReceiveResult, graphVars, dbVars
      <4>2. CASE ~stopped /\ worker[w].err # "ok"
        BY <3>1, <4>2, FailStep
      <4>3. CASE ~stopped /\ worker[w].err = "ok"
        BY <3>1, <4>3, CompleteStep
      <4>4. QED BY <4>1, <4>2, <4>3
    <3>2. QED
      BY <2>2, <3>1, MoveStep, PopStep, SendStep, SendStoppedStep, DrainStep,
         RetryStep
         DEF Scheduler
  <2>3. CASE \E w \in Workers : FinishTx(w) \/ WorkerExit(w)
    BY <2>3, FinishStep, WorkerExitStep
  <2>4. CASE \E t \in Tx : RetryExit(t)
    BY <2>4, RetryExitStep
  <2>5. CASE Stop
    BY <2>5, MoveStep
  <2>6. QED BY <2>1, <2>2, <2>3, <2>4, <2>5 DEF Next
<1>2. QED BY <1>1, TypedStep DEF Rest, IInv

\* The inductive invariant holds in every reachable state of the scheduler.
THEOREM Invariance == Spec => []IInv
<1>1. IInv /\ [Next]_vars => IInv'
  BY StepInv
<1>2. QED BY <1>1, InitInv, PTL DEF Spec

\* Type correctness, with the ranges of the counters: no dependency counter
\* goes below zero and active never exceeds the pool of workers.
THEOREM TypeCorrect == Spec => []TypeOK
<1>1. ASSUME IInv PROVE TypeOK
  <2>0. Typed /\ Counters
    BY <1>1 DEF IInv
  <2>1. unresolved \in [Tx -> Nat]
    BY <2>0, OpenFinite DEF Typed, Counters
  <2>2. nCompleted \in 0..N
    <3>1. completed \in SUBSET Tx /\ IsFiniteSet(completed)
      BY <2>0, TxFinite, FS_Subset DEF Typed
    <3>2. Cardinality(completed) \in Nat /\ Cardinality(completed) <= N
      BY <3>1, TxFinite, FS_Subset, FS_CardinalityType
    <3>3. QED BY <2>0, <3>2, NAssumption DEF Counters
  <2>3. active \in 0..WorkerCount
    <3>1. WorkingSet \in SUBSET Workers /\ IsFiniteSet(WorkingSet)
      BY WorkersFinite, FS_Subset DEF WorkingSet
    <3>2. Cardinality(WorkingSet) \in Nat /\ Cardinality(WorkingSet) <= WorkerCount
      BY <3>1, WorkersFinite, FS_Subset, FS_CardinalityType
    <3>3. QED BY <2>0, <3>2, WorkersFinite DEF Counters
  <2>4. pendingRetries \in 0..N
    <3>1. PendingSet \in SUBSET Tx /\ IsFiniteSet(PendingSet)
      BY TxFinite, FS_Subset DEF PendingSet
    <3>2. Cardinality(PendingSet) \in Nat /\ Cardinality(PendingSet) <= N
      BY <3>1, TxFinite, FS_Subset, FS_CardinalityType
    <3>3. QED BY <2>0, <3>2, NAssumption DEF Counters
  <2>5. QED BY <2>0, <2>1, <2>2, <2>3, <2>4 DEF Typed, TypeOK
<1>2. QED BY <1>1, Invariance, PTL

\* On every graph and every schedule a worker only gets a transaction whose
\* parents in the block have been applied.
THEOREM ParentsFirstAlways == Spec => []ParentsFirst
<1>1. IInv => ParentsFirst
  BY ParentsApplied DEF ParentsFirst
<1>2. QED BY <1>1, Invariance, PTL

\* No transaction is ever with two workers, or queued again while it is held.
THEOREM OneHandlerAlways == Spec => []OneHandler
<1>1. IInv => OneHandler
  BY DEF IInv, OnePlace, OneHandler
<1>2. QED BY <1>1, Invariance, PTL

\* On the graph of a valid block the scheduler reports neither a stall nor a
\* missing same-block output.
THEOREM NoInternalErrorEver == Spec => []NoInternalError
<1>1. IInv => NoInternalError
  BY DEF IInv, Control, NoInternalError
<1>2. QED BY <1>1, Invariance, PTL

\* A nil return means that every transaction of the block was applied, and an
\* error return that the spent outputs were reset, unless the cleanup failed.
THEOREM AllOrNothingAlways == Spec => []AllOrNothing
<1>1. ASSUME IInv PROVE AllOrNothing
  <2>1. ASSUME pc = "returned", terminalErr = "none" PROVE applied = Tx
    <3>1. nCompleted >= N
      BY <1>1, <2>1 DEF IInv, Control, Ending
    <3>2. completed = Tx
      BY <1>1, <3>1, AllCompleted
    <3>3. QED BY <1>1, <3>2 DEF IInv, Applied, Typed
  <2>2. ASSUME pc = "returned", terminalErr # "none" PROVE spends = {}
    BY <1>1, <2>2 DEF IInv, Control
  <2>3. QED BY <2>1, <2>2 DEF AllOrNothing
<1>2. QED BY <1>1, Invariance, PTL

\* Once the cleanup started or the scheduler returned, nothing is written.
THEOREM NoLateWriteEver == Spec => NoLateWrite
<1>1. ASSUME IInv, [Next]_vars, pc = "cleanup" \/ Returned
      PROVE  applied' = applied /\ spends' \subseteq spends
  <2> USE DEF graphVars, loopVars, dbVars, vars
  <2>0. \A w \in Workers : worker[w].at = "exited"
    BY <1>1 DEF IInv, Control, Returned
  <2>1. pc \in {"cleanup", "returned", "dirty"}
    BY <1>1 DEF Returned
  <2>2. CASE UNCHANGED vars \/ Terminated \/ Stop
    BY <2>2 DEF Terminated, Stop
  <2>3. CASE Scheduler
    BY <2>1, <2>3
       DEF Scheduler, LoopDone, DispatchStopped, DispatchPop, SendStopped,
           DispatchDone, Drained, SelectStopped, RetriesStopped, WorkersStopped,
           Cleanup, SendJob, Drain, ReceiveResult, ReceiveRetry, InLoop
  <2>4. CASE \E w \in Workers : FinishTx(w) \/ WorkerExit(w)
    BY <2>0, <2>4 DEF FinishTx, WorkerExit
  <2>5. CASE \E t \in Tx : RetryExit(t)
    BY <2>5 DEF RetryExit
  <2>6. QED BY <1>1, <2>2, <2>3, <2>4, <2>5 DEF Next
<1>2. ASSUME IInv, [Next]_vars
      PROVE  [pc = "cleanup" \/ Returned => applied' = applied /\ spends' \subseteq spends]_vars
  BY <1>1, <1>2
<1>3. QED BY <1>2, Invariance, PTL DEF Spec, NoLateWrite

\* While no error is pending every attempt that failed was within MaxFailures.
Tolerated ==
  \A t \in Tx : /\ attempts[t] <= MaxFailures + 1
                /\ terminalErr = "none" => attempts[t] <= MaxFailures

\* A transaction is tried at most MaxFailures + 1 times, whatever happens to
\* the other transactions of the block in between.
THEOREM BoundedAttemptsAlways == Spec => []BoundedAttempts
<1>1. Init => Tolerated
  BY MaxFailuresAssumption DEF Init, Tolerated
<1>2. ASSUME IInv, Tolerated, [Next]_vars PROVE Tolerated'
  <2>1. CASE attempts' = attempts /\ (terminalErr' = "none" => terminalErr = "none")
    BY <1>2, <2>1 DEF Tolerated
  <2>2. ASSUME NEW w \in Workers, ReceiveResult(w) PROVE Tolerated'
    <3> DEFINE t == worker[w].tx
    <3>1. CASE stopped \/ worker[w].err = "ok"
      BY <2>1, <2>2, <3>1 DEF ReceiveResult, completeTx
    <3>2. CASE ~stopped /\ worker[w].err # "ok"
      <4>1. /\ t \in Tx /\ terminalErr = "none" /\ attempts \in [Tx -> Nat]
            /\ handleScheduledTxError(t, worker[w].err)
        BY <1>2, <2>2, <3>2
           DEF ReceiveResult, IInv, OnePlace, Control, Typed, WorkingOn
      <4>2. /\ attempts'[t] = attempts[t] + 1
            /\ \A u \in Tx : u # t => attempts'[u] = attempts[u]
        BY <4>1 DEF handleScheduledTxError
      <4>3. attempts[t] \in Nat /\ attempts[t] <= MaxFailures
        BY <1>2, <4>1 DEF Tolerated
      <4>4. terminalErr' = "none" => attempts[t] + 1 <= MaxFailures
        <5>1. terminalErr' = Verdict(worker[w].err, attempts[t] + 1)
          BY <4>1 DEF handleScheduledTxError
        <5>2. attempts[t] + 1 > MaxFailures => terminalErr' # "none"
          BY <5>1 DEF Verdict
        <5>3. QED BY <4>3, <5>2, MaxFailuresAssumption
      <4>5. QED BY <1>2, <4>1, <4>2, <4>3, <4>4, MaxFailuresAssumption DEF Tolerated
    <3>3. QED BY <3>1, <3>2
  <2>3. CASE \E w \in Workers : SendJob(w) \/ Drain(w) \/ FinishTx(w) \/ WorkerExit(w)
    BY <2>1, <2>3 DEF SendJob, Drain, FinishTx, WorkerExit, graphVars, loopVars
  <2>4. CASE \E t \in Tx : ReceiveRetry(t) \/ RetryExit(t)
    BY <2>1, <2>4 DEF ReceiveRetry, RetryExit, graphVars, loopVars
  <2>5. CASE LoopDone \/ DispatchStopped \/ DispatchPop \/ SendStopped \/ DispatchDone
             \/ Drained
    BY <2>1, <2>5 DEF LoopDone, DispatchStopped, DispatchPop, SendStopped,
       DispatchDone, Drained, graphVars
  <2>6. CASE SelectStopped \/ RetriesStopped \/ WorkersStopped \/ Cleanup \/ Stop
             \/ Terminated \/ UNCHANGED vars
    BY <2>1, <2>6 DEF SelectStopped, RetriesStopped, WorkersStopped, Cleanup, Stop,
       Terminated, graphVars, loopVars, vars
  <2>7. QED BY <1>2, <2>2, <2>3, <2>4, <2>5, <2>6 DEF Next, Scheduler
<1>3. IInv /\ Tolerated /\ [Next]_vars => Tolerated'
  BY <1>2
<1>4. Tolerated => BoundedAttempts
  BY DEF Tolerated, BoundedAttempts
<1>5. QED BY <1>1, <1>3, <1>4, Invariance, PTL DEF Spec

\* The scheduler implements BlockApply, the promise its caller relies on: the
\* initial states agree, finishing a transaction is an attempt at it, the
\* return and the cleanup are the outcome, and every other step is a stutter.
THEOREM Refinement == Spec => ImplementsBlockApply
<1>1. Init => BA!Init
  BY NAssumption DEF Init, BA!Init, Outcome
<1>2. ASSUME IInv, [Next]_vars PROVE [BA!Next]_(BA!vars)
  <2> USE DEF graphVars, loopVars, dbVars, vars
  <2>0. /\ BA!Tx = Tx
        /\ pc \notin {"returned", "dirty"} => Outcome = "running"
        /\ pc' \notin {"returned", "dirty"} => Outcome' = "running"
    BY DEF BA!Tx, Tx, Outcome
  <2>1. CASE /\ edgeSet' = edgeSet /\ applied' = applied /\ spends' = spends
             /\ \/ pc \notin {"returned", "dirty"} /\ pc' \notin {"returned", "dirty"}
                \/ pc' = pc /\ terminalErr' = terminalErr
    <3>1. Outcome' = Outcome
      BY <2>0, <2>1 DEF Outcome
    <3>2. QED BY <2>1, <3>1 DEF BA!vars
  <2>2. ASSUME NEW w \in Workers, FinishTx(w) PROVE [BA!Next]_(BA!vars)
    <3> DEFINE t == worker[w].tx
    <3>1. /\ WorkingOn(w) /\ pc \notin {"returned", "dirty"}
          /\ edgeSet' = edgeSet /\ pc' = pc /\ terminalErr' = terminalErr
      BY <1>2, <2>2 DEF FinishTx, WorkingOn, IInv, Control
    <3>2. t \in Tx /\ t \notin applied
      BY <1>2, <2>2, <3>1 DEF IInv, OnePlace, Applied, FinishTx
    <3>3. BA!Parents(t) \subseteq applied
      BY <1>2, <3>1, ParentsApplied DEF BA!Parents, Into
    <3>4. Outcome = "running" /\ Outcome' = Outcome
      BY <2>0, <3>1 DEF Outcome
    <3>5. \/ applied' = applied \cup {t} /\ spends' = spends \cup {t}
          \/ applied' = applied /\ spends' \in {spends, spends \cup {t}}
      BY <2>2 DEF FinishTx, processTx
    <3>6. BA!Apply(t)
      BY <3>1, <3>2, <3>3, <3>4, <3>5 DEF BA!Apply
    <3>7. QED BY <2>0, <3>2, <3>6 DEF BA!Next
  <2>3. CASE WorkersStopped
    <3>1. CASE terminalErr = "none"
      <4>1. applied = Tx
        <5>1. nCompleted >= N
          BY <1>2, <2>3, <3>1 DEF WorkersStopped, IInv, Control, Ending
        <5>2. completed = Tx
          BY <1>2, <5>1, AllCompleted
        <5>3. QED BY <1>2, <5>2 DEF IInv, Applied, Typed
      <4>2. Outcome = "running" /\ Outcome' = "ok"
        BY <2>3, <3>1 DEF WorkersStopped, Outcome
      <4>3. BA!Succeed
        BY <2>0, <2>3, <4>1, <4>2 DEF BA!Succeed, WorkersStopped
      <4>4. QED BY <4>3 DEF BA!Next
    <3>2. CASE terminalErr # "none"
      BY <2>1, <2>3, <3>2 DEF WorkersStopped
    <3>3. QED BY <3>1, <3>2
  <2>4. CASE Cleanup
    <3>1. Outcome = "running" /\ terminalErr # "none" /\ terminalErr' = terminalErr
      BY <1>2, <2>0, <2>4 DEF Cleanup, IInv, Control
    <3>2. \/ spends' = {} /\ Outcome' = "failed"
          \/ spends' = spends /\ Outcome' = "dirty"
      BY <2>4, <3>1 DEF Cleanup, Outcome
    <3>3. BA!Abort
      BY <2>4, <3>1, <3>2 DEF BA!Abort, Cleanup
    <3>4. QED BY <3>3 DEF BA!Next
  <2>5. CASE \E w \in Workers : SendJob(w) \/ Drain(w) \/ ReceiveResult(w) \/ WorkerExit(w)
    BY <2>1, <2>5 DEF SendJob, Drain, ReceiveResult, WorkerExit, InLoop
  <2>6. CASE \E t \in Tx : ReceiveRetry(t) \/ RetryExit(t)
    BY <2>1, <2>6 DEF ReceiveRetry, RetryExit
  <2>7. CASE LoopDone \/ DispatchStopped \/ DispatchPop \/ SendStopped \/ DispatchDone
             \/ Drained
    BY <2>1, <2>7 DEF LoopDone, DispatchStopped, DispatchPop, SendStopped,
       DispatchDone, Drained, InLoop
  <2>8. CASE SelectStopped \/ RetriesStopped \/ Stop \/ Terminated \/ UNCHANGED vars
    BY <2>1, <2>8 DEF SelectStopped, RetriesStopped, Stop, Terminated
  <2>9. QED
    BY <1>2, <2>2, <2>3, <2>4, <2>5, <2>6, <2>7, <2>8 DEF Next, Scheduler
<1>3. IInv /\ [Next]_vars => [BA!Next]_(BA!vars)
  BY <1>2
<1>4. QED BY <1>1, <1>3, Invariance, PTL DEF Spec, ImplementsBlockApply, BA!Spec

=============================================================================
