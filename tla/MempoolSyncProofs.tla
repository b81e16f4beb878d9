-------------------------- MODULE MempoolSyncProofs --------------------------
(***************************************************************************)
(* Proofs about MempoolSync, for all transactions, whatever they spend:    *)
(* the types, NoDemotion and CommittedWhole.                               *)
(*                                                                         *)
(* CommittedWhole speaks of complete blocks only, and is not inductive.    *)
(* What is needed besides: the stored branch was a branch of the node once *)
(* (Ordered), so that deleting its last block cannot take a source away    *)
(* from the blocks below; a row names the block that holds it; a mark      *)
(* names an input that may exist; the job holds BlockLock and works on a   *)
(* transaction without a row; and the worker's transactions are whole      *)
(* already before the block is.                                            *)
(***************************************************************************)
EXTENDS MempoolSync, FiniteSetTheorems, TLAPS

Held == {"apply", "cleanup", "remove"}
Busy == {"lock"} \cup Held

\* A branch that a node had: no transaction twice, no two rivals, and every
\* source in the same or in an earlier block.
Ordered(s) ==
  \A h \in 1..Len(s) : \A t \in s[h] :
    /\ \A g \in 1..Len(s) : t \in s[g] => g = h
    /\ \A p \in sources[t] : \E g \in 1..h : p \in s[g]
    /\ \A g \in 1..Len(s) : s[g] \cap Rivals(t) = {}

\* The node.
NodeInv ==
  /\ sources \in [Tx -> SUBSET Tx]
  /\ chain \in Seq(SUBSET Tx) /\ Len(chain) <= MaxHeight /\ Ordered(chain)
  /\ pool \subseteq Tx /\ entry \in [Tx -> Nat]
  /\ \A t \in pool : t \notin Mined(chain) /\ Rivals(t) \cap Mined(chain) = {}

\* The block worker, and what it is about to insert.
WorkerInv ==
  /\ worker.at \in Busy \cup {"idle", "boot"}
  /\ worker.at \in Busy => worker \in [at : Busy, left : SUBSET Tx]
  /\ worker.at \in Held <=> blockLock = "worker"
  /\ worker.at = "boot" => job = Idle
  /\ worker.at = "lock" => Len(stored) < Len(chain) /\ Ordered(Append(stored, worker.left))

\* The stored branch.
BlockInv ==
  /\ stored \in Seq(SUBSET Tx) /\ Len(stored) <= Len(chain) /\ Ordered(stored)
  /\ headState \in {"processing", "complete"}
  /\ worker.at \in Held => headState = "processing"
  /\ headState = "processing" => worker.at \in Held \cup {"boot"} /\ stored # <<>>
  /\ worker.at = "apply" => worker.left \subseteq stored[Len(stored)]

\* The mempool job.
JobInv ==
  /\ job.at \in {"idle", "fetch", "lock", "loop", "delayed"}
  /\ job.at \in {"fetch", "lock"} =>
       job \in [at : {"fetch", "lock"}, set : SUBSET Tx, entry : [Tx -> Nat]]
  /\ job.at = "loop" =>
       job \in [at : {"loop"}, set : SUBSET Tx, entry : [Tx -> Nat], todo : SUBSET Tx,
                stale : SUBSET Tx, head : Nat, queue : Seq(Tx)]
  /\ job.at = "loop" <=> blockLock = "job"

\* The call of ProcessTx.
CallInv ==
  /\ blockLock \in {"nobody", "worker", "job"}
  /\ cur # NoCall =>
       /\ cur \in [at : {"row", "vins", "vouts", "failed"}, tx : Tx]
       /\ blockLock # "nobody"
       /\ blockLock = "worker" => worker.at = "apply" /\ cur.tx \in worker.left
       /\ blockLock = "job" => job.queue # <<>>
                               /\ txBlock[cur.tx] = (IF cur.at = "row" THEN NoRow ELSE Mempool)

\* The rows and the marks.
RowInv ==
  /\ txBlock \in [Tx -> {NoRow, Mempool} \cup 1..MaxHeight]
  /\ inputs \subseteq Tx \X Tx /\ outputs \subseteq Tx
  /\ spentBy \in [Tx -> Tx \cup {"nobody", "deleted"}]
  /\ \A t \in Tx : txBlock[t] > Mempool => txBlock[t] <= Len(stored) /\ t \in stored[txBlock[t]]
  /\ \A p \in Tx : spentBy[p] \in Tx => p \in sources[spentBy[p]]

\* A transaction of the block at height h is done.
Applied(t, h) ==
  /\ Whole(t, h)
  /\ \A p \in sources[t] : spentBy[p] = t \/ (Rivals(t) # {} /\ spentBy[p] # "nobody")

\* What the worker has done of the last block.
Underway ==
  worker.at = "apply" =>
    /\ \A t \in stored[Len(stored)] \ worker.left : Applied(t, Len(stored))
    /\ cur.at \in {"vins", "vouts"} => txBlock[cur.tx] = Len(stored)
    /\ cur.at = "vouts" => /\ {cur.tx} \X sources[cur.tx] \subseteq inputs
                           /\ \A p \in sources[cur.tx] : spentBy[p] = cur.tx

Committed == \A h \in 1..Len(stored) : (h < Len(stored) \/ headState = "complete") =>
               \A t \in stored[h] : Applied(t, h)

IInv ==
  /\ NodeInv /\ WorkerInv /\ BlockInv /\ JobInv /\ CallInv /\ RowInv /\ Underway /\ Committed

-----------------------------------------------------------------------------
(* Branches.                                                               *)

\* Mined is the union of the blocks.
LEMMA MinedBlocks ==
  ASSUME NEW c \in Seq(SUBSET Tx), NEW x
  PROVE  x \in Mined(c) <=> \E h \in 1..Len(c) : x \in c[h]
  BY DEF Mined

\* What Append does to a branch.
LEMMA AppendBlock ==
  ASSUME NEW c \in Seq(SUBSET Tx), NEW B \in SUBSET Tx
  PROVE  /\ Append(c, B) \in Seq(SUBSET Tx) /\ Len(Append(c, B)) = Len(c) + 1
         /\ Append(c, B)[Len(c) + 1] = B
         /\ \A i \in 1..Len(c) : Append(c, B)[i] = c[i]
         /\ Mined(Append(c, B)) = B \cup Mined(c)
<1>1. /\ Append(c, B) \in Seq(SUBSET Tx) /\ Len(Append(c, B)) = Len(c) + 1
      /\ Append(c, B)[Len(c) + 1] = B
      /\ \A i \in 1..Len(c) : Append(c, B)[i] = c[i]
  OBVIOUS
<1>2. Len(c) \in Nat
  OBVIOUS
<1> DEFINE d == Append(c, B)
<1>3. \A x : x \in Mined(d) <=> \E h \in 1..Len(d) : x \in d[h]
  BY <1>1, MinedBlocks
<1>4. \A x : x \in Mined(c) <=> \E h \in 1..Len(c) : x \in c[h]
  BY MinedBlocks
<1> HIDE DEF d
<1>5. ASSUME NEW x PROVE x \in Mined(d) <=> x \in B \cup Mined(c)
  <2>1. ASSUME x \in Mined(d) PROVE x \in B \cup Mined(c)
    <3>1. PICK h \in 1..Len(d) : x \in d[h]
      BY <1>3, <2>1
    <3>2. h = Len(c) + 1 \/ h \in 1..Len(c)
      BY <1>1, <1>2 DEF d
    <3>3. QED BY <1>1, <1>4, <3>1, <3>2 DEF d
  <2>2. ASSUME x \in B PROVE x \in Mined(d)
    <3>1. Len(c) + 1 \in 1..Len(d) /\ x \in d[Len(c) + 1]
      BY <1>1, <1>2, <2>2 DEF d
    <3>2. QED BY <1>3, <3>1
  <2>3. ASSUME x \in Mined(c) PROVE x \in Mined(d)
    <3>1. PICK h \in 1..Len(c) : x \in c[h]
      BY <1>4, <2>3
    <3>2. h \in 1..Len(d) /\ x \in d[h]
      BY <1>1, <1>2, <3>1 DEF d
    <3>3. QED BY <1>3, <3>2
  <2>4. QED BY <2>1, <2>2, <2>3
<1>6. QED BY <1>1, <1>5 DEF d

\* What SubSeq does to a branch.
LEMMA Shorter ==
  ASSUME NEW c \in Seq(SUBSET Tx), NEW n \in Nat, n <= Len(c)
  PROVE  /\ SubSeq(c, 1, n) \in Seq(SUBSET Tx) /\ Len(SubSeq(c, 1, n)) = n
         /\ \A i \in 1..n : SubSeq(c, 1, n)[i] = c[i]
<1>1. Len(c) \in Nat /\ \A i \in 1..n : c[i] \in SUBSET Tx
  OBVIOUS
<1>2. SubSeq(c, 1, n) = [i \in 1..n |-> c[i]]
  BY <1>1
<1> DEFINE f == [i \in 1..n |-> c[i]]
<1>3. f \in Seq(SUBSET Tx) /\ Len(f) = n /\ \A i \in 1..n : f[i] = c[i]
  BY <1>1
<1>4. QED BY <1>2, <1>3

\* The beginning of a branch is one.
LEMMA OrderedPrefix ==
  ASSUME NEW s \in Seq(SUBSET Tx), NEW r \in Seq(SUBSET Tx), Len(r) <= Len(s),
         \A i \in 1..Len(r) : r[i] = s[i], Ordered(s)
  PROVE  Ordered(r)
<1> SUFFICES ASSUME NEW h \in 1..Len(r), NEW t \in r[h]
             PROVE  /\ \A g \in 1..Len(r) : t \in r[g] => g = h
                    /\ \A p \in sources[t] : \E g \in 1..h : p \in r[g]
                    /\ \A g \in 1..Len(r) : r[g] \cap Rivals(t) = {}
  BY DEF Ordered
<1>1. Len(r) \in Nat /\ Len(s) \in Nat
  OBVIOUS
<1>2. 1..h \subseteq 1..Len(r) /\ 1..Len(r) \subseteq 1..Len(s)
  BY <1>1
<1> DEFINE H == 1..h
           R == 1..Len(r)
           S == 1..Len(s)
<1>3. t \in s[h] /\ h \in S
  BY <1>2
<1>4. /\ \A g \in S : t \in s[g] => g = h
      /\ \A p \in sources[t] : \E g \in H : p \in s[g]
      /\ \A g \in S : s[g] \cap Rivals(t) = {}
  BY <1>3 DEF Ordered
<1>5. H \subseteq R /\ R \subseteq S /\ \A i \in R : r[i] = s[i]
  BY <1>2
<1> HIDE DEF H, R, S
<1>6. /\ \A g \in R : t \in r[g] => g = h
      /\ \A p \in sources[t] : \E g \in H : p \in r[g]
      /\ \A g \in R : r[g] \cap Rivals(t) = {}
  BY <1>4, <1>5
<1>7. QED BY <1>6 DEF H, R

\* A node that accepts a block on top of a branch has a branch again.
LEMMA OrderedAppend ==
  ASSUME sources \in [Tx -> SUBSET Tx],
         NEW c \in Seq(SUBSET Tx), NEW B \in SUBSET Tx, Ordered(c),
         B \cap Mined(c) = {}, Valid(B \cup Mined(c))
  PROVE  Ordered(Append(c, B))
<1> DEFINE d == Append(c, B)
           n == Len(c) + 1
<1>1. /\ d \in Seq(SUBSET Tx) /\ Len(d) = n /\ d[n] = B
      /\ \A i \in 1..Len(c) : d[i] = c[i]
      /\ Mined(d) = B \cup Mined(c) /\ Len(c) \in Nat
  BY AppendBlock
<1> HIDE DEF d
<1>2. SUFFICES ASSUME NEW h \in 1..Len(d), NEW t \in d[h]
             PROVE  /\ \A g \in 1..Len(d) : t \in d[g] => g = h
                    /\ \A p \in sources[t] : \E g \in 1..h : p \in d[g]
                    /\ \A g \in 1..Len(d) : d[g] \cap Rivals(t) = {}
  BY DEF Ordered, d
<1>3. \A x : x \in Mined(d) <=> \E g \in 1..Len(d) : x \in d[g]
  BY <1>1, MinedBlocks
<1>4. \A x : x \in Mined(c) <=> \E g \in 1..Len(c) : x \in c[g]
  BY MinedBlocks
<1>5. t \in B \cup Mined(c) /\ t \in Mined(d)
  BY <1>1, <1>3
<1>6. sources[t] \subseteq Mined(d) /\ Rivals(t) \cap Mined(d) = {}
  BY <1>1, <1>5 DEF Valid
<1>7. \A g \in 1..Len(d) : d[g] \cap Rivals(t) = {}
  BY <1>3, <1>6
<1>8. CASE h = n
  <2>1. t \in B /\ t \notin Mined(c)
    BY <1>1, <1>8
  <2>2. ASSUME NEW g \in 1..Len(d), t \in d[g] PROVE g = h
    <3>1. g = n \/ (g \in 1..Len(c) /\ d[g] = c[g])
      BY <1>1
    <3>2. QED BY <1>4, <1>8, <2>1, <2>2, <3>1
  <2>3. \A p \in sources[t] : \E g \in 1..h : p \in d[g]
    BY <1>1, <1>3, <1>6, <1>8
  <2>4. QED BY <1>7, <2>2, <2>3
<1>9. CASE h # n
  <2>1. h \in 1..Len(c) /\ d[h] = c[h]
    BY <1>1, <1>9
  <2>2. t \in Mined(c) /\ t \notin B
    BY <1>4, <2>1
  <2>3. /\ \A g \in 1..Len(c) : t \in c[g] => g = h
        /\ \A p \in sources[t] : \E g \in 1..h : p \in c[g]
    BY <2>1 DEF Ordered
  <2>4. ASSUME NEW g \in 1..Len(d), t \in d[g] PROVE g = h
    <3>1. g = n \/ (g \in 1..Len(c) /\ d[g] = c[g])
      BY <1>1
    <3>2. QED BY <1>1, <2>2, <2>3, <2>4, <3>1
  <2>5. ASSUME NEW p \in sources[t] PROVE \E g \in 1..h : p \in d[g]
    <3>1. PICK g \in 1..h : p \in c[g]
      BY <2>3
    <3>2. g \in 1..Len(c)
      BY <1>1, <2>1
    <3>3. QED BY <1>1, <3>1, <3>2
  <2>6. QED BY <1>7, <2>4, <2>5
<1>10. QED BY <1>8, <1>9

-----------------------------------------------------------------------------
(* The steps of the node.                                                  *)

\* The rest of the invariant depends on the node's chain through its length only.
LEMMA NodeFrame ==
  ASSUME IInv, NodeInv', Len(chain) <= Len(chain'),
         UNCHANGED <<sources, blockVars, rowVars, blockLock, cur, worker, job>>
  PROVE  IInv'
<1> USE DEF blockVars, rowVars
<1>0. chain \in Seq(SUBSET Tx) /\ chain' \in Seq(SUBSET Tx) /\ stored \in Seq(SUBSET Tx)
  BY DEF IInv, NodeInv, BlockInv
<1>a. Len(chain) \in Nat /\ Len(chain') \in Nat /\ Len(stored) \in Nat
  BY <1>0
<1>1. Ordered(stored)' <=> Ordered(stored)
  BY DEF Ordered, Rivals
<1>2. Ordered(Append(stored, worker.left))' <=> Ordered(Append(stored, worker.left))
  BY DEF Ordered, Rivals
<1>3. WorkerInv' /\ BlockInv'
  BY <1>a, <1>1, <1>2 DEF IInv, WorkerInv, BlockInv
<1>4. JobInv' /\ CallInv'
  BY DEF IInv, JobInv, CallInv
<1>5. RowInv'
  BY DEF IInv, RowInv
<1>6. \A t, h : Applied(t, h)' <=> Applied(t, h)
  BY DEF Applied, Whole, Rivals
<1>7. Committed'
  BY <1>6 DEF IInv, Committed
<1>8. Underway'
  BY <1>6 DEF IInv, Underway, Applied, Whole, Rivals
<1>9. QED BY <1>3, <1>4, <1>5, <1>7, <1>8 DEF IInv

\* What is kept in the mempool does not conflict with the chain.
LEMMA KeptFits ==
  ASSUME sources' = sources, NEW T \in SUBSET Tx, NEW c, NEW t \in Kept(T, c)
  PROVE  t \in Tx /\ t \notin Mined(c) /\ Rivals(t) \cap Mined(c) = {}
<1>1. PICK K \in SUBSET (T \ Mined(c)) : Valid(K \cup Mined(c)) /\ t \in K
  BY DEF Kept
<1>2. QED BY <1>1 DEF Valid

\* The mempool after a step.
LEMMA NewPool ==
  ASSUME IInv, sources' = sources, NEW T \in SUBSET Tx, chain' \in Seq(SUBSET Tx),
         pool' = Kept(T, chain')
  PROVE  /\ pool' \subseteq Tx
         /\ \A t \in pool' : t \notin Mined(chain)' /\ Rivals(t)' \cap Mined(chain)' = {}
<1>1. \A t \in pool' : t \in Tx /\ t \notin Mined(chain') /\ Rivals(t) \cap Mined(chain') = {}
  BY KeptFits
<1>2. \A t : Rivals(t)' = Rivals(t)
  BY DEF Rivals
<1>3. Mined(chain)' = Mined(chain')
  BY DEF Mined
<1>4. QED BY <1>1, <1>2, <1>3

\* Enter keeps the heights.
LEMMA EnterType ==
  ASSUME IInv, NEW T, NEW h \in Nat, Enter(T, h)
  PROVE  entry' \in [Tx -> Nat]
  BY DEF Enter, IInv, NodeInv

\* A new transaction.
LEMMA BroadcastStep == ASSUME IInv, NEW t \in Tx, Broadcast(t) PROVE IInv'
<1>0. /\ pool' = pool \cup {t} /\ chain' = chain /\ sources' = sources
      /\ t \notin Mined(chain) /\ Valid(pool \cup Mined(chain) \cup {t}) /\ Enter({t}, Len(chain))
  BY DEF Broadcast
<1>a. chain \in Seq(SUBSET Tx) /\ Len(chain) \in Nat
  BY DEF IInv, NodeInv
<1>1. entry' \in [Tx -> Nat]
  BY <1>0, <1>a, EnterType
<1>2. Rivals(t) \cap Mined(chain) = {}
  BY <1>0 DEF Valid
<1>3. Ordered(chain)' /\ Mined(chain)' = Mined(chain) /\ \A u : Rivals(u)' = Rivals(u)
  BY <1>0 DEF IInv, NodeInv, Ordered, Rivals, Mined
<1>4. NodeInv'
  BY <1>0, <1>1, <1>2, <1>3 DEF IInv, NodeInv
<1>5. QED BY <1>a, <1>4, NodeFrame DEF Broadcast

\* A transaction leaves the mempool.
LEMMA EvictStep == ASSUME IInv, NEW t \in Tx, Evict(t) PROVE IInv'
<1>0. /\ pool' = Kept(pool \ {t}, chain) /\ chain' = chain /\ sources' = sources /\ Enter({}, 0)
  BY DEF Evict
<1>a. chain \in Seq(SUBSET Tx) /\ Len(chain) \in Nat /\ pool \ {t} \in SUBSET Tx
  BY DEF IInv, NodeInv
<1>1. entry' \in [Tx -> Nat]
  BY <1>0, EnterType
<1>2. /\ pool' \subseteq Tx
      /\ \A u \in pool' : u \notin Mined(chain)' /\ Rivals(u)' \cap Mined(chain)' = {}
  BY <1>0, <1>a, NewPool
<1>3. Ordered(chain)'
  BY <1>0 DEF IInv, NodeInv, Ordered, Rivals
<1>4. NodeInv'
  BY <1>0, <1>1, <1>2, <1>3 DEF IInv, NodeInv
<1>5. QED BY <1>a, <1>0, <1>4, NodeFrame DEF Evict

\* A new block.
LEMMA MineStep == ASSUME IInv, Mine PROVE IInv'
<1>a. /\ chain \in Seq(SUBSET Tx) /\ Len(chain) \in Nat /\ pool \in SUBSET Tx
      /\ sources \in [Tx -> SUBSET Tx] /\ Ordered(chain) /\ MaxHeight \in Nat
      /\ \A t \in pool : t \notin Mined(chain) /\ Rivals(t) \cap Mined(chain) = {}
  BY BoundsAssumption DEF IInv, NodeInv
<1>0. PICK B \in (SUBSET (pool \cup UNION {Rivals(t) : t \in pool})) \ {{}} :
        Valid(B \cup Mined(chain)) /\ chain' = Append(chain, B) /\ pool' = Kept(pool, chain')
  BY DEF Mine
<1>1. sources' = sources /\ Len(chain) < MaxHeight /\ Enter({}, 0)
  BY DEF Mine
<1>2. B \in SUBSET Tx /\ B \cap Mined(chain) = {}
  BY <1>a, <1>0 DEF Rivals
<1>3. chain' \in Seq(SUBSET Tx) /\ Len(chain') = Len(chain) + 1
  BY <1>a, <1>0, <1>2, AppendBlock
<1>4. Ordered(chain')
  BY <1>a, <1>0, <1>2, OrderedAppend
<1>5. Ordered(chain)'
  BY <1>1, <1>4 DEF Ordered, Rivals
<1>6. entry' \in [Tx -> Nat]
  BY <1>1, EnterType
<1>7. /\ pool' \subseteq Tx
      /\ \A u \in pool' : u \notin Mined(chain)' /\ Rivals(u)' \cap Mined(chain)' = {}
  BY <1>a, <1>0, <1>1, <1>3, NewPool
<1>b. Len(chain)' <= MaxHeight
  BY <1>a, <1>1, <1>3
<1>8. NodeInv'
  BY <1>a, <1>b, <1>1, <1>3, <1>5, <1>6, <1>7 DEF NodeInv
<1>9. Len(chain) <= Len(chain')
  BY <1>a, <1>3
<1>10. QED BY <1>8, <1>9, NodeFrame DEF Mine

\* A reorganisation.
LEMMA ReorgStep == ASSUME IInv, Reorg PROVE IInv'
<1> DEFINE below == SubSeq(chain, 1, Len(chain) - 1)
           back  == chain[Len(chain)]
<1>a. /\ chain \in Seq(SUBSET Tx) /\ Len(chain) \in Nat /\ pool \in SUBSET Tx
      /\ sources \in [Tx -> SUBSET Tx] /\ Ordered(chain) /\ MaxHeight \in Nat
  BY BoundsAssumption DEF IInv, NodeInv
<1>0. PICK B, C \in SUBSET (Tx \ Mined(below)) :
        /\ B \cap C = {}
        /\ Valid(B \cup Mined(below)) /\ Valid(B \cup C \cup Mined(below))
        /\ chain' = below \o <<B, C>>
        /\ pool' = Kept(pool \cup back, chain')
        /\ Enter(back, Len(below))
  BY DEF Reorg
<1>1. sources' = sources /\ Len(chain) \in 1..(MaxHeight - 1)
  BY DEF Reorg
<1>2. /\ below \in Seq(SUBSET Tx) /\ Len(below) = Len(chain) - 1 /\ Len(below) \in Nat
      /\ \A i \in 1..Len(below) : below[i] = chain[i]
      /\ back \in SUBSET Tx
  <2>1. Len(chain) \in 1..Len(chain) /\ Len(chain) - 1 \in Nat /\ Len(chain) - 1 <= Len(chain)
    BY <1>a, <1>1
  <2>2. back \in SUBSET Tx
    BY <1>a, <2>1
  <2>3. /\ below \in Seq(SUBSET Tx) /\ Len(below) = Len(chain) - 1
        /\ \A i \in 1..Len(below) : below[i] = chain[i]
    BY <1>a, <2>1, Shorter
  <2>4. QED BY <2>1, <2>2, <2>3
<1>b. Len(below) <= Len(chain)
  BY <1>a, <1>2
<1> HIDE DEF below, back
<1>3. Ordered(below)
  BY <1>a, <1>2, <1>b, OrderedPrefix
<1>4. /\ Append(below, B) \in Seq(SUBSET Tx) /\ Len(Append(below, B)) = Len(below) + 1
      /\ Mined(Append(below, B)) = B \cup Mined(below) /\ Ordered(Append(below, B))
  BY <1>a, <1>0, <1>2, <1>3, AppendBlock, OrderedAppend
<1> DEFINE d == Append(below, B)
<1>5. /\ d \in Seq(SUBSET Tx) /\ Len(d) = Len(below) + 1 /\ Ordered(d)
      /\ C \cap Mined(d) = {} /\ C \cup Mined(d) = B \cup C \cup Mined(below)
      /\ below \o <<B, C>> = Append(d, C)
  BY <1>0, <1>2, <1>4
<1> HIDE DEF d
<1>6. /\ Append(d, C) \in Seq(SUBSET Tx) /\ Len(Append(d, C)) = Len(d) + 1
      /\ Ordered(Append(d, C))
  BY <1>a, <1>0, <1>5, AppendBlock, OrderedAppend
<1>7. chain' \in Seq(SUBSET Tx) /\ Len(chain') = Len(chain) + 1 /\ Ordered(chain')
  <2>1. chain' = Append(d, C)
    BY <1>0, <1>5
  <2>2. Len(d) + 1 = Len(chain) + 1
    BY <1>a, <1>2, <1>5
  <2>3. QED BY <1>6, <2>1, <2>2
<1>8. Ordered(chain)'
  BY <1>1, <1>7 DEF Ordered, Rivals
<1>9. entry' \in [Tx -> Nat]
  BY <1>0, <1>2, EnterType
<1>10. /\ pool' \subseteq Tx
       /\ \A u \in pool' : u \notin Mined(chain)' /\ Rivals(u)' \cap Mined(chain)' = {}
  <2>1. pool \cup back \in SUBSET Tx
    BY <1>a, <1>2
  <2>2. QED BY <1>0, <1>1, <1>7, <2>1, NewPool
<1>11. Len(chain)' <= MaxHeight /\ Len(chain) <= Len(chain')
  BY <1>a, <1>1, <1>7
<1>12. NodeInv'
  BY <1>a, <1>1, <1>7, <1>8, <1>9, <1>10, <1>11 DEF NodeInv
<1>13. QED BY <1>11, <1>12, NodeFrame DEF Reorg

-----------------------------------------------------------------------------
(* Deleting rows.                                                          *)

\* The daemon does not change the node.
LEMMA NodeSame ==
  ASSUME IInv, UNCHANGED <<sources, nodeVars>>
  PROVE  NodeInv' /\ (\A t : Rivals(t)' = Rivals(t)) /\ (Ordered(stored)' <=> Ordered(stored'))
<1>1. chain' = chain /\ pool' = pool /\ entry' = entry /\ sources' = sources
  BY DEF nodeVars
<1>2. \A t : Rivals(t)' = Rivals(t)
  BY <1>1 DEF Rivals
<1>3. Ordered(chain)' /\ Mined(chain)' = Mined(chain) /\ (Ordered(stored)' <=> Ordered(stored'))
  BY <1>1, <1>2 DEF IInv, NodeInv, Ordered, Mined
<1>4. QED BY <1>1, <1>2, <1>3 DEF IInv, NodeInv

\* The types of the rows after a deletion, and the marks.
LEMMA DeleteTypes ==
  ASSUME IInv, NEW T \in SUBSET Tx, Delete(T), sources' = sources
  PROVE  /\ txBlock' \in [Tx -> {NoRow, Mempool} \cup 1..MaxHeight]
         /\ inputs' \subseteq Tx \X Tx /\ outputs' \subseteq Tx
         /\ spentBy' \in [Tx -> Tx \cup {"nobody", "deleted"}]
         /\ \A p \in Tx : spentBy'[p] \in Tx => p \in sources'[spentBy'[p]]
         /\ \A t \in Tx : txBlock'[t] > Mempool => t \notin T /\ txBlock'[t] = txBlock[t]
<1>1. txBlock' \in [Tx -> {NoRow, Mempool} \cup 1..MaxHeight]
  BY DEF IInv, RowInv, Delete
<1>2. inputs' \subseteq Tx \X Tx /\ outputs' \subseteq Tx
  BY DEF IInv, RowInv, Delete
<1>3. spentBy' \in [Tx -> Tx \cup {"nobody", "deleted"}]
  BY DEF IInv, RowInv, Delete
<1>4. \A p \in Tx : spentBy'[p] \in Tx => p \in sources'[spentBy'[p]]
  BY TxAssumption DEF IInv, RowInv, Delete
<1>5. \A t \in Tx : txBlock'[t] > Mempool => t \notin T /\ txBlock'[t] = txBlock[t]
  BY DEF IInv, RowInv, Delete, NoRow, Mempool
<1>6. QED BY <1>1, <1>2, <1>3, <1>4, <1>5

\* A transaction that is not deleted, nor any of its sources, stays done.
LEMMA DeleteKeeps ==
  ASSUME IInv, NEW T \in SUBSET Tx, Delete(T), sources' = sources,
         NEW t \in Tx, NEW h, Applied(t, h), t \notin T, sources[t] \cap T = {}
  PROVE  Applied(t, h)'
<1>0. sources[t] \subseteq Tx
  BY DEF IInv, NodeInv
<1>1. Rivals(t)' = Rivals(t)
  BY DEF Rivals
<1>2. txBlock'[t] = h /\ t \in outputs'
  BY DEF Applied, Whole, Delete
<1>3. {t} \X sources[t] \subseteq inputs'
  BY DEF Applied, Whole, Delete
<1>4. ASSUME NEW p \in sources[t]
      PROVE  spentBy'[p] = t \/ (Rivals(t) # {} /\ spentBy'[p] # "nobody")
  <2>1. /\ p \in Tx /\ p \notin T
        /\ spentBy[p] = t \/ (Rivals(t) # {} /\ spentBy[p] # "nobody")
    BY <1>0 DEF Applied
  <2>2. spentBy'[p] = IF spentBy[p] \in T THEN "deleted" ELSE spentBy[p]
    BY <2>1 DEF Delete
  <2>3. QED BY <2>1, <2>2
<1>5. QED BY <1>1, <1>2, <1>3, <1>4 DEF Applied, Whole

\* A transaction of a complete block, and its sources, have rows of complete
\* blocks that are not above it.
LEMMA CompleteRows ==
  ASSUME IInv, NEW h \in 1..Len(stored), h < Len(stored) \/ headState = "complete",
         NEW t \in stored[h]
  PROVE  /\ t \in Tx /\ txBlock[t] = h
         /\ \A p \in sources[t] : txBlock[p] \in 1..h
<1>0. stored \in Seq(SUBSET Tx) /\ Len(stored) \in Nat /\ Ordered(stored)
  BY DEF IInv, BlockInv
<1>1. t \in Tx /\ txBlock[t] = h
  BY <1>0 DEF IInv, Committed, Applied, Whole
<1>2. ASSUME NEW p \in sources[t] PROVE txBlock[p] \in 1..h
  <2>1. PICK g \in 1..h : p \in stored[g]
    BY <1>0 DEF Ordered
  <2>2. g \in 1..Len(stored) /\ (g < Len(stored) \/ headState = "complete")
    BY <1>0
  <2>3. txBlock[p] = g
    BY <2>1, <2>2 DEF IInv, Committed, Applied, Whole
  <2>4. QED BY <2>3
<1>3. QED BY <1>1, <1>2

\* block.DeleteG of the last block takes nothing away from the blocks below.
LEMMA DropHead ==
  ASSUME IInv, stored # <<>>, DeleteHead, UNCHANGED <<sources, nodeVars>>
  PROVE  /\ stored' \in Seq(SUBSET Tx) /\ Len(stored') <= Len(chain) /\ Ordered(stored)'
         /\ headState' = "complete" /\ RowInv' /\ Committed'
         /\ \A t \in Tx : txBlock[t] <= Mempool => txBlock'[t] = txBlock[t]
<1> DEFINE n == Len(stored)
           T == {t \in Tx : txBlock[t] = n}
<1>0. /\ stored \in Seq(SUBSET Tx) /\ n \in Nat /\ n # 0 /\ Ordered(stored) /\ n <= Len(chain)
      /\ Len(chain) \in Nat
  BY DEF IInv, BlockInv, NodeInv
<1>a. n - 1 \in Nat /\ n - 1 <= n /\ n - 1 <= Len(chain)
  BY <1>0
<1>1. /\ stored' = SubSeq(stored, 1, n - 1) /\ headState' = "complete" /\ Delete(T)
      /\ sources' = sources
  BY DEF DeleteHead
<1>2. stored' \in Seq(SUBSET Tx) /\ Len(stored') = n - 1 /\ \A i \in 1..(n - 1) : stored'[i] = stored[i]
  BY <1>0, <1>a, <1>1, Shorter
<1> HIDE DEF n, T
<1>3. Len(stored') <= n /\ Len(stored') <= Len(chain)
  BY <1>a, <1>2
<1>4. Ordered(stored)'
  <2>1. Ordered(stored')
    BY <1>0, <1>2, <1>3, OrderedPrefix DEF n
  <2>2. QED BY <2>1, NodeSame
<1>5. T \in SUBSET Tx
  BY DEF T
<1>6. RowInv'
  <2>1. ASSUME NEW t \in Tx, txBlock'[t] > Mempool
        PROVE  txBlock'[t] <= Len(stored') /\ t \in stored'[txBlock'[t]]
    <3>1. t \notin T /\ txBlock'[t] = txBlock[t] /\ txBlock[t] > Mempool
      BY <1>1, <1>5, <2>1, DeleteTypes
    <3>2. txBlock[t] # n /\ txBlock[t] <= n /\ t \in stored[txBlock[t]] /\ txBlock[t] \in Int
      BY <3>1, BoundsAssumption DEF IInv, RowInv, T, n, NoRow, Mempool
    <3>3. txBlock[t] \in 1..(n - 1)
      BY <1>0, <3>1, <3>2 DEF Mempool
    <3>4. QED BY <1>0, <1>2, <3>1, <3>2, <3>3
  <2>2. QED BY <1>1, <1>5, <2>1, DeleteTypes DEF RowInv
<1>7. Committed'
  <2>1. SUFFICES ASSUME NEW h \in 1..Len(stored'), NEW t \in stored'[h]
                 PROVE  Applied(t, h)'
    BY DEF Committed
  <2>2. h \in 1..n /\ h < n /\ t \in stored[h] /\ h \in 1..(n - 1)
    BY <1>0, <1>2, <2>1
  <2>3. t \in Tx /\ txBlock[t] = h /\ \A p \in sources[t] : txBlock[p] \in 1..h
    BY <2>2, CompleteRows DEF n
  <2>4. Applied(t, h)
    BY <2>2 DEF IInv, Committed, n
  <2>5. t \notin T /\ sources[t] \cap T = {}
    BY <1>0, <2>2, <2>3 DEF T
  <2>6. QED BY <1>1, <1>5, <2>3, <2>4, <2>5, DeleteKeeps
<1>8. ASSUME NEW t \in Tx, txBlock[t] <= Mempool PROVE txBlock'[t] = txBlock[t]
  <2>1. t \notin T
    BY <1>0, <1>8 DEF T, Mempool
  <2>2. QED BY <1>1, <2>1 DEF Delete
<1>9. QED BY <1>1, <1>2, <1>3, <1>4, <1>6, <1>7, <1>8

-----------------------------------------------------------------------------
(* The steps of ProcessTx.                                                 *)

\* Who makes the call.
LEMMA TheCall ==
  ASSUME IInv, cur.at \in {"row", "vins", "vouts", "failed"}
  PROVE  /\ cur # NoCall /\ cur.tx \in Tx /\ cur = [at |-> cur.at, tx |-> cur.tx]
         /\ \/ /\ blockLock = "worker" /\ worker.at = "apply" /\ job.at # "loop"
               /\ cur.tx \in worker.left /\ worker \in [at : Busy, left : SUBSET Tx]
               /\ headState = "processing" /\ stored # <<>>
               /\ cur.tx \in stored[Len(stored)]
            \/ /\ blockLock = "job" /\ worker.at \notin Held /\ job.at = "loop"
               /\ job.queue # <<>> /\ headState = "complete"
               /\ txBlock[cur.tx] = (IF cur.at = "row" THEN NoRow ELSE Mempool)
<1>1. cur # NoCall
  BY DEF NoCall
<1>2. cur \in [at : {"row", "vins", "vouts", "failed"}, tx : Tx]
  BY <1>1 DEF IInv, CallInv
<1>3. cur.tx \in Tx /\ cur = [at |-> cur.at, tx |-> cur.tx]
  BY <1>2
<1>4. blockLock = "worker" \/ blockLock = "job"
  BY <1>1 DEF IInv, CallInv
<1>5. CASE blockLock = "worker"
  <2>1. worker.at = "apply" /\ cur.tx \in worker.left
    BY <1>1, <1>5 DEF IInv, CallInv
  <2>2. worker \in [at : Busy, left : SUBSET Tx] /\ job.at # "loop"
    BY <1>5, <2>1 DEF IInv, WorkerInv, JobInv, Busy, Held
  <2>3. headState = "processing" /\ stored # <<>> /\ cur.tx \in stored[Len(stored)]
    BY <2>1 DEF IInv, BlockInv, Held
  <2>4. QED BY <1>1, <1>3, <1>5, <2>1, <2>2, <2>3
<1>6. CASE blockLock = "job"
  <2>1. job.queue # <<>> /\ txBlock[cur.tx] = (IF cur.at = "row" THEN NoRow ELSE Mempool)
    BY <1>1, <1>6 DEF IInv, CallInv
  <2>2. worker.at \notin Held /\ job.at = "loop"
    BY <1>6 DEF IInv, WorkerInv, JobInv
  <2>3. worker.at # "boot"
    BY <2>2 DEF IInv, WorkerInv, Idle
  <2>4. headState = "complete"
    BY <2>2, <2>3 DEF IInv, BlockInv
  <2>5. QED BY <1>1, <1>3, <1>6, <2>1, <2>2, <2>4
<1>7. QED BY <1>4, <1>5, <1>6

\* The block is not touched by ProcessTx.
LEMMA CallFrame ==
  ASSUME IInv, UNCHANGED <<sources, nodeVars, blockVars, blockLock, worker>>,
         job.at = job'.at
  PROVE  NodeInv' /\ BlockInv' /\ (job' = job => WorkerInv')
<1>1. NodeInv' /\ Ordered(stored)'
  BY NodeSame DEF IInv, BlockInv, blockVars
<1>2. BlockInv'
  BY <1>1 DEF IInv, BlockInv, blockVars, nodeVars
<1>3. ASSUME job' = job PROVE WorkerInv'
  <2>1. Ordered(Append(stored, worker.left))' <=> Ordered(Append(stored, worker.left))
    BY NodeSame DEF Ordered, blockVars
  <2>2. QED BY <1>3, <2>1 DEF IInv, WorkerInv, blockVars, nodeVars
<1>4. QED BY <1>1, <1>2, <1>3

\* saveUpdateTransaction.
LEMMA SaveRowStep ==
  ASSUME IInv, SaveRow, UNCHANGED <<worker, job, sources, nodeVars, blockVars, blockLock>>
  PROVE  IInv'
<1> DEFINE t == cur.tx
           n == Len(stored)
<1>0. /\ cur.at = "row" /\ txBlock' = [txBlock EXCEPT ![t] = Dest]
      /\ cur' = [cur EXCEPT !.at = IF sources[t] \subseteq outputs THEN "vins" ELSE "failed"]
      /\ UNCHANGED <<inputs, outputs, spentBy, stored, headState, chain, sources>>
  BY DEF SaveRow, In, Goto, blockVars, nodeVars
<1>1. /\ t \in Tx /\ cur = [at |-> cur.at, tx |-> t]
      /\ \/ /\ blockLock = "worker" /\ worker.at = "apply" /\ job.at # "loop"
            /\ t \in worker.left /\ headState = "processing" /\ stored # <<>>
            /\ t \in stored[n]
         \/ /\ blockLock = "job" /\ worker.at \notin Held /\ job.at = "loop"
            /\ job.queue # <<>> /\ headState = "complete" /\ txBlock[t] = NoRow
  BY <1>0, TheCall
<1>2. NodeInv' /\ BlockInv' /\ WorkerInv'
  BY CallFrame
<1>3. JobInv'
  BY DEF IInv, JobInv
<1>4. /\ stored \in Seq(SUBSET Tx) /\ n \in Nat /\ n <= MaxHeight /\ Ordered(stored)
      /\ txBlock \in [Tx -> {NoRow, Mempool} \cup 1..MaxHeight]
  <2>1. Len(chain) \in Nat /\ Len(chain) <= MaxHeight /\ n \in Nat /\ n <= Len(chain)
    BY DEF IInv, NodeInv, BlockInv
  <2>2. QED BY <2>1, BoundsAssumption DEF IInv, BlockInv, RowInv
<1>5. /\ Dest \in {NoRow, Mempool} \cup 1..MaxHeight
      /\ blockLock = "worker" => Dest = n /\ n > 0
      /\ blockLock = "job" => Dest = Mempool
  <2>1. CASE blockLock = "worker"
    <3>1. n \in 1..MaxHeight
      BY <1>1, <1>4, <2>1, BoundsAssumption
    <3>2. QED BY <2>1, <3>1, BoundsAssumption DEF Dest
  <2>2. QED BY <1>1, <2>1 DEF Dest
<1>6. txBlock' \in [Tx -> {NoRow, Mempool} \cup 1..MaxHeight] /\ txBlock'[t] = Dest
      /\ \A u \in Tx \ {t} : txBlock'[u] = txBlock[u]
  BY <1>0, <1>1, <1>4, <1>5
<1> HIDE DEF t, n
<1>7. cur'.tx = t /\ cur'.at \in {"vins", "failed"} /\ cur' \in [at : {"row", "vins", "vouts", "failed"}, tx : Tx]
  BY <1>0, <1>1
<1>8. CallInv'
  BY <1>1, <1>5, <1>6, <1>7 DEF IInv, CallInv
<1>9. RowInv'
  <2>1. ASSUME NEW u \in Tx, txBlock'[u] > Mempool
        PROVE  txBlock'[u] <= Len(stored) /\ u \in stored[txBlock'[u]]
    <3>1. CASE u = t
      BY <1>1, <1>4, <1>5, <1>6, <2>1, <3>1 DEF Mempool, n
    <3>2. CASE u # t
      BY <1>6, <2>1, <3>2 DEF IInv, RowInv
    <3>3. QED BY <3>1, <3>2
  <2>2. QED BY <1>0, <1>6, <2>1 DEF IInv, RowInv
<1>10. ASSUME NEW u \in Tx \ {t}, NEW h, Applied(u, h) PROVE Applied(u, h)'
  BY <1>0, <1>6, <1>10 DEF Applied, Whole, Rivals
<1>11. Committed'
  <2>1. SUFFICES ASSUME NEW h \in 1..n, h < n \/ headState = "complete", NEW u \in stored[h]
                 PROVE  Applied(u, h)'
    BY <1>0 DEF Committed, n
  <2>2. u \in Tx /\ txBlock[u] = h /\ Applied(u, h)
    BY <2>1, CompleteRows DEF IInv, Committed, n
  <2>3. u # t
    BY <1>1, <1>4, <2>1, <2>2 DEF Ordered, n, NoRow
  <2>4. QED BY <1>10, <2>2, <2>3
<1>12. Underway'
  <2>1. SUFFICES ASSUME worker.at = "apply"
                 PROVE  /\ \A u \in stored[n] \ worker.left : Applied(u, n)'
                        /\ txBlock'[t] = n
    BY <1>0, <1>7 DEF Underway, Applied, Whole, Rivals, n
  <2>2. blockLock = "worker" /\ t \in worker.left
    BY <1>1, <2>1 DEF Held
  <2>3. stored[n] \subseteq Tx
    BY <1>1, <1>4, <2>2 DEF n
  <2>4. \A u \in stored[n] \ worker.left : Applied(u, n)
    BY <2>1 DEF IInv, Underway, n
  <2>5. \A u \in stored[n] \ worker.left : Applied(u, n)'
    BY <1>0, <1>6, <2>2, <2>3, <2>4 DEF Applied, Whole, Rivals, n
  <2>6. QED BY <1>5, <1>6, <2>2, <2>5
<1>13. QED BY <1>2, <1>3, <1>8, <1>9, <1>11, <1>12 DEF IInv

\* ProcessVin takes no mark away: it sets the marks of cur.tx, and a transaction
\* whose mark it replaces has a rival.
LEMMA PutKeeps ==
  ASSUME IInv, cur.tx \in Tx, sources' = sources,
         NEW saved, NEW marked \in SUBSET sources[cur.tx], PutInputs(saved, marked),
         NEW u \in Tx, NEW h, Applied(u, h)
  PROVE  Applied(u, h)'
<1>0. sources[u] \subseteq Tx /\ Rivals(u)' = Rivals(u)
  BY DEF IInv, NodeInv, Rivals
<1>1. txBlock'[u] = h /\ u \in outputs' /\ {u} \X sources[u] \subseteq inputs'
  BY DEF Applied, Whole, PutInputs
<1>2. ASSUME NEW p \in sources[u]
      PROVE  spentBy'[p] = u \/ (Rivals(u) # {} /\ spentBy'[p] # "nobody")
  <2>1. p \in Tx /\ spentBy'[p] = IF p \in marked THEN cur.tx ELSE spentBy[p]
    BY <1>0 DEF PutInputs
  <2>2. CASE p \in marked /\ cur.tx # u
    <3>1. cur.tx \in Rivals(u)
      BY <2>2 DEF Rivals
    <3>2. QED BY <2>1, <2>2, <3>1, TxAssumption
  <2>3. CASE p \notin marked
    BY <2>1, <2>3 DEF Applied
  <2>4. QED BY <2>1, <2>2, <2>3
<1>3. QED BY <1>0, <1>1, <1>2 DEF Applied, Whole

\* saveUpdateInputs.
LEMMA SaveInputsStep ==
  ASSUME IInv, SaveInputs, UNCHANGED <<worker, job, sources, nodeVars, blockVars, blockLock>>
  PROVE  IInv'
<1> DEFINE t == cur.tx
           n == Len(stored)
           found == sources[t] \cap outputs
<1>0. /\ cur.at = "vins"
      /\ \E saved \in SUBSET found : \E marked \in SUBSET saved :
           /\ PutInputs(saved, marked)
           /\ \/ cur' = [cur EXCEPT !.at = "failed"]
              \/ cur' = [cur EXCEPT !.at = "vouts"] /\ saved = sources[t] /\ marked = sources[t]
  <2>1. found \in SUBSET found
    OBVIOUS
  <2>2. QED BY <2>1 DEF SaveInputs, In, Goto
<1>1. PICK saved \in SUBSET found : \E marked \in SUBSET saved :
           /\ PutInputs(saved, marked)
           /\ \/ cur' = [cur EXCEPT !.at = "failed"]
              \/ cur' = [cur EXCEPT !.at = "vouts"] /\ saved = sources[t] /\ marked = sources[t]
  BY <1>0
<1>2. PICK marked \in SUBSET saved :
           /\ PutInputs(saved, marked)
           /\ \/ cur' = [cur EXCEPT !.at = "failed"]
              \/ cur' = [cur EXCEPT !.at = "vouts"] /\ saved = sources[t] /\ marked = sources[t]
  BY <1>1
<1>3. UNCHANGED <<txBlock, outputs, stored, headState, chain, sources>>
  BY <1>2 DEF PutInputs, blockVars, nodeVars
<1>4. /\ t \in Tx /\ cur = [at |-> cur.at, tx |-> t]
      /\ \/ blockLock = "worker" /\ worker.at = "apply" /\ t \in worker.left
         \/ blockLock = "job" /\ worker.at \notin Held /\ job.queue # <<>> /\ txBlock[t] = Mempool
  BY <1>0, TheCall
<1>a. saved \in SUBSET sources[t] /\ marked \in SUBSET sources[t] /\ sources[t] \in SUBSET Tx
  BY <1>4 DEF IInv, NodeInv
<1>5. NodeInv' /\ BlockInv' /\ WorkerInv'
  BY CallFrame
<1>6. JobInv'
  BY DEF IInv, JobInv
<1> HIDE DEF t, n, found
<1>7. cur'.tx = t /\ cur'.at \in {"vouts", "failed"}
      /\ cur' \in [at : {"row", "vins", "vouts", "failed"}, tx : Tx]
  BY <1>2, <1>4
<1>8. CallInv'
  BY <1>3, <1>4, <1>7 DEF IInv, CallInv
<1>9. RowInv'
  <2>1. inputs' \subseteq Tx \X Tx
    BY <1>2, <1>4, <1>a DEF IInv, RowInv, PutInputs, t
  <2>2. spentBy' \in [Tx -> Tx \cup {"nobody", "deleted"}]
    BY <1>2, <1>4 DEF IInv, RowInv, PutInputs, t
  <2>3. \A p \in Tx : spentBy'[p] \in Tx => p \in sources[spentBy'[p]]
    BY <1>2, <1>4, <1>a DEF IInv, RowInv, PutInputs, t
  <2>4. QED BY <1>3, <2>1, <2>2, <2>3 DEF IInv, RowInv
<1>10. \A u \in Tx : \A h : Applied(u, h) => Applied(u, h)'
  BY <1>2, <1>3, <1>4, <1>a, PutKeeps DEF t
<1>b. stored \in Seq(SUBSET Tx) /\ Len(stored) \in Nat
  BY DEF IInv, BlockInv
<1>11. Committed'
  <2>1. SUFFICES ASSUME NEW h \in 1..n, h < n \/ headState = "complete", NEW u \in stored[h]
                 PROVE  Applied(u, h)'
    BY <1>3 DEF Committed, n
  <2>2. u \in Tx /\ Applied(u, h)
    BY <2>1, CompleteRows DEF IInv, Committed, n
  <2>3. QED BY <1>10, <2>2
<1>12. Underway'
  <2>1. SUFFICES ASSUME worker.at = "apply"
                 PROVE  /\ \A u \in stored[n] \ worker.left : Applied(u, n)'
                        /\ txBlock[t] = n
                        /\ cur'.at = "vouts" => /\ {t} \X sources[t] \subseteq inputs'
                                                /\ \A p \in sources[t] : spentBy'[p] = t
    BY <1>3, <1>7 DEF Underway, Applied, Whole, Rivals, n
  <2>2. /\ \A u \in stored[n] \ worker.left : Applied(u, n)
        /\ txBlock[t] = n /\ stored # <<>>
    BY <1>0, <2>1 DEF IInv, Underway, BlockInv, Held, n, t
  <2>3. stored[n] \subseteq Tx
    BY <1>b, <2>2 DEF n
  <2>4. \A u \in stored[n] \ worker.left : Applied(u, n)'
    <3>1. PICK m : m = n
      OBVIOUS
    <3>2. \A u \in stored[n] \ worker.left : Applied(u, m)'
      BY <1>10, <2>2, <2>3, <3>1
    <3>3. QED BY <1>3, <3>1, <3>2 DEF n, Applied, Whole, Rivals
  <2>5. ASSUME cur'.at = "vouts"
        PROVE  {t} \X sources[t] \subseteq inputs' /\ \A p \in sources[t] : spentBy'[p] = t
    <3>1. saved = sources[t] /\ marked = sources[t]
      BY <1>2, <1>4, <2>5
    <3>2. QED BY <1>2, <1>a, <3>1 DEF PutInputs, t
  <2>6. QED BY <2>2, <2>4, <2>5
<1>13. QED BY <1>5, <1>6, <1>8, <1>9, <1>11, <1>12 DEF IInv

\* saveUpdateOutputs, and what the caller does next.
LEMMA SaveOutputsStep ==
  ASSUME IInv, SaveOutputs, UNCHANGED <<sources, nodeVars, blockVars, blockLock>>
  PROVE  IInv'
<1> DEFINE t == cur.tx
           n == Len(stored)
<1>0. /\ cur.at = "vouts" /\ outputs' = outputs \cup {t}
      /\ UNCHANGED <<txBlock, inputs, spentBy, stored, headState, chain, sources, blockLock>>
  BY DEF SaveOutputs, In, blockVars, nodeVars
<1>1. /\ t \in Tx /\ cur = [at |-> cur.at, tx |-> t] /\ cur # NoCall
      /\ \/ /\ blockLock = "worker" /\ worker.at = "apply" /\ t \in worker.left /\ job.at # "loop"
            /\ worker \in [at : Busy, left : SUBSET Tx]
         \/ /\ blockLock = "job" /\ worker.at \notin Held /\ job.queue # <<>> /\ job.at = "loop"
            /\ txBlock[t] = Mempool
  BY <1>0, TheCall
<1>b. stored \in Seq(SUBSET Tx) /\ Len(stored) \in Nat
  BY DEF IInv, BlockInv
<1>2. RowInv'
  BY <1>0, <1>1 DEF IInv, RowInv
<1>3. \A u, h : Applied(u, h) => Applied(u, h)'
  BY <1>0 DEF Applied, Whole, Rivals
<1>4. \A u, h : Applied(u, h)' <=> /\ txBlock[u] = h /\ {u} \X sources[u] \subseteq inputs
                                   /\ u \in outputs'
                                   /\ \A p \in sources[u] : spentBy[p] = u \/ (Rivals(u) # {} /\ spentBy[p] # "nobody")
  BY <1>0 DEF Applied, Whole, Rivals
<1>5. Committed'
  <2>1. SUFFICES ASSUME NEW h \in 1..n, h < n \/ headState = "complete", NEW u \in stored[h]
                 PROVE  Applied(u, h)'
    BY <1>0 DEF Committed
  <2>2. Applied(u, h)
    BY <2>1 DEF IInv, Committed
  <2>3. QED BY <1>3, <2>2
<1>6. worker.at = "apply" => \A u \in stored[n] \ worker.left : Applied(u, n)'
  <2>1. ASSUME worker.at = "apply", NEW u \in stored[n] \ worker.left PROVE Applied(u, n)'
    <3>1. Applied(u, n)
      BY <2>1 DEF IInv, Underway
    <3>2. QED BY <1>0, <3>1 DEF Applied, Whole, Rivals
  <2>2. QED BY <2>1
<1> HIDE DEF t, n
<1>7. CASE TxDone /\ blockLock = "worker"
  <2>0. cur' = NoCall /\ worker' = [worker EXCEPT !.left = @ \ {t}] /\ job' = job
    BY <1>7 DEF TxDone, t
  <2>1. /\ worker' \in [at : Busy, left : SUBSET Tx] /\ worker'.at = "apply"
        /\ worker'.left = worker.left \ {t}
    BY <1>1, <1>7, <2>0
  <2>2. NodeInv' /\ Ordered(stored)'
    BY <1>0, NodeSame DEF IInv, BlockInv
  <2>3. WorkerInv' /\ BlockInv'
    BY <1>0, <1>1, <1>7, <2>0, <2>1, <2>2 DEF IInv, WorkerInv, BlockInv, Busy, Held
  <2>4. JobInv' /\ CallInv'
    BY <1>0, <2>0 DEF IInv, JobInv, CallInv
  <2>5. ASSUME NEW v \in Tx, v = t PROVE Applied(v, n)'
    <3>1. /\ txBlock[t] = n /\ {t} \X sources[t] \subseteq inputs
          /\ \A p \in sources[t] : spentBy[p] = t
      BY <1>0, <1>1, <1>7 DEF IInv, Underway, t, n, Held
    <3>2. v \in outputs' /\ n' = n
      BY <1>0, <2>5 DEF n
    <3>3. QED BY <1>0, <2>5, <3>1, <3>2 DEF Applied, Whole
  <2>6. Underway'
    <3>1. \A u \in stored[n] \ worker'.left : Applied(u, n)'
      <4>1. ASSUME NEW u \in stored[n] \ worker'.left PROVE Applied(u, n)'
        <5>1. CASE u = t
          BY <1>1, <2>5, <5>1
        <5>2. CASE u # t
          BY <1>1, <1>6, <1>7, <2>1, <5>2 DEF Held
        <5>3. QED BY <5>1, <5>2
      <4>2. QED BY <4>1
    <3>2. cur'.at \notin {"vins", "vouts"}
      BY <2>0 DEF NoCall
    <3>3. QED BY <1>0, <3>1, <3>2 DEF Underway, n
  <2>7. QED BY <1>2, <1>5, <2>2, <2>3, <2>4, <2>6 DEF IInv
<1>8. CASE TxDone /\ blockLock = "job"
  <2>0. cur' = NoCall /\ job' = [job EXCEPT !.queue = Tail(@)] /\ worker' = worker
    BY <1>8 DEF TxDone
  <2>1. job \in [at : {"loop"}, set : SUBSET Tx, entry : [Tx -> Nat], todo : SUBSET Tx,
                 stale : SUBSET Tx, head : Nat, queue : Seq(Tx)]
    BY <1>1, <1>8 DEF IInv, JobInv
  <2>2. Tail(job.queue) \in Seq(Tx)
    BY <1>1, <1>8, <2>1
  <2>3. job' \in [at : {"loop"}, set : SUBSET Tx, entry : [Tx -> Nat], todo : SUBSET Tx,
                  stale : SUBSET Tx, head : Nat, queue : Seq(Tx)] /\ job'.at = "loop"
    BY <2>0, <2>1, <2>2
  <2>4. JobInv' /\ CallInv'
    BY <1>0, <1>8, <2>0, <2>3 DEF IInv, JobInv, CallInv
  <2>5. NodeInv' /\ Ordered(stored)' /\ (Ordered(Append(stored, worker.left))' <=> Ordered(Append(stored, worker.left)))
    BY <1>0, <2>0, NodeSame DEF IInv, BlockInv, Ordered
  <2>6. worker.at # "boot" /\ worker.at # "apply"
    BY <1>1, <1>8 DEF IInv, WorkerInv, Idle, Held
  <2>7. WorkerInv' /\ BlockInv'
    BY <1>0, <2>0, <2>5, <2>6 DEF IInv, WorkerInv, BlockInv
  <2>8. Underway'
    BY <2>0, <2>6 DEF Underway
  <2>9. QED BY <1>2, <1>5, <2>4, <2>5, <2>7, <2>8 DEF IInv
<1>9. CASE Goto("failed") /\ UNCHANGED <<worker, job>>
  <2>1. cur'.tx = t /\ cur'.at = "failed" /\ cur' \in [at : {"row", "vins", "vouts", "failed"}, tx : Tx]
    BY <1>1, <1>9 DEF Goto, t
  <2>2. NodeInv' /\ BlockInv' /\ WorkerInv'
    BY <1>9, CallFrame
  <2>3. JobInv' /\ CallInv'
    BY <1>0, <1>1, <1>9, <2>1 DEF IInv, JobInv, CallInv
  <2>4. Underway'
    BY <1>0, <1>6, <1>9, <2>1 DEF Underway, n
  <2>5. QED BY <1>2, <1>5, <2>2, <2>3, <2>4 DEF IInv
<1>10. QED BY <1>1, <1>7, <1>8, <1>9 DEF SaveOutputs

\* A step of ProcessTx.
LEMMA ProcessTxStep == ASSUME IInv, ProcessTx PROVE IInv'
  BY SaveRowStep, SaveInputsStep, SaveOutputsStep DEF ProcessTx

-----------------------------------------------------------------------------
(* The steps of the block worker.                                          *)

\* A step that leaves the database alone.
LEMMA RowsFrame ==
  ASSUME IInv, UNCHANGED <<sources, nodeVars, blockVars, rowVars>>
  PROVE  /\ NodeInv' /\ RowInv' /\ Committed' /\ Ordered(stored)'
         /\ \A u, h : Applied(u, h)' <=> Applied(u, h)
         /\ Ordered(Append(stored, worker.left))' <=> Ordered(Append(stored, worker'.left))
<1>0. UNCHANGED <<sources, chain, pool, entry, stored, headState, txBlock, inputs, outputs, spentBy>>
  BY DEF nodeVars, blockVars, rowVars
<1>1. NodeInv' /\ Ordered(stored)' /\ \A u : Rivals(u)' = Rivals(u)
  BY <1>0, NodeSame DEF IInv, BlockInv
<1>2. \A u, h : Applied(u, h)' <=> Applied(u, h)
  BY <1>0, <1>1 DEF Applied, Whole
<1>3. RowInv'
  BY <1>0 DEF IInv, RowInv
<1>4. Committed'
  BY <1>0, <1>2 DEF IInv, Committed
<1>5. Ordered(Append(stored, worker.left))' <=> Ordered(Append(stored, worker'.left))
  BY <1>0, <1>1 DEF Ordered
<1>6. QED BY <1>1, <1>2, <1>3, <1>4, <1>5

\* Underway depends on the call and the worker, and on the rows that stay.
LEMMA UnderwayFrame ==
  ASSUME IInv, UNCHANGED <<sources, nodeVars, blockVars, rowVars>>,
         worker'.at = "apply" => /\ worker.at = "apply" /\ worker'.left = worker.left
                                 /\ cur'.at \in {"vins", "vouts"} => cur' = cur
  PROVE  Underway'
<1>0. UNCHANGED <<sources, stored, headState, txBlock, inputs, outputs, spentBy>>
  BY DEF blockVars, rowVars
<1>1. SUFFICES ASSUME worker'.at = "apply"
               PROVE  /\ \A t \in stored[Len(stored)] \ worker.left : Applied(t, Len(stored))'
                      /\ cur'.at \in {"vins", "vouts"} => txBlock[cur'.tx] = Len(stored)
                      /\ cur'.at = "vouts" => /\ {cur'.tx} \X sources[cur'.tx] \subseteq inputs
                                              /\ \A p \in sources[cur'.tx] : spentBy[p] = cur'.tx
  BY <1>0 DEF Underway
<1>2. \A t \in stored[Len(stored)] \ worker.left : Applied(t, Len(stored))
  BY <1>1 DEF IInv, Underway
<1>3. \A t \in stored[Len(stored)] \ worker.left : Applied(t, Len(stored))'
  BY <1>0, <1>2 DEF Applied, Whole, Rivals
<1>4. QED BY <1>1, <1>3 DEF IInv, Underway

\* checkHandleReorg deletes the head, while the mempool job may be at work.
LEMMA DropDivergedStep == ASSUME IInv, DropDiverged PROVE IInv'
<1>0. /\ worker.at = "idle" /\ stored # <<>> /\ DeleteHead
      /\ UNCHANGED <<sources, nodeVars>> /\ UNCHANGED <<chain, blockLock, cur, worker, job>>
  BY DEF DropDiverged, WorkerAt, nodeVars
<1>1. /\ stored' \in Seq(SUBSET Tx) /\ Len(stored') <= Len(chain) /\ Ordered(stored)'
      /\ headState' = "complete" /\ RowInv' /\ Committed'
      /\ \A t \in Tx : txBlock[t] <= Mempool => txBlock'[t] = txBlock[t]
  BY <1>0, DropHead
<1>2. NodeInv'
  BY <1>0, NodeSame
<1>3. WorkerInv' /\ BlockInv' /\ Underway' /\ JobInv'
  BY <1>0, <1>1 DEF IInv, WorkerInv, BlockInv, Underway, JobInv, Held
<1>4. CallInv'
  <2>1. SUFFICES ASSUME cur # NoCall, blockLock = "job"
                 PROVE  txBlock'[cur.tx] = txBlock[cur.tx]
    BY <1>0 DEF IInv, CallInv
  <2>2. cur.tx \in Tx /\ txBlock[cur.tx] = (IF cur.at = "row" THEN NoRow ELSE Mempool)
    BY <2>1 DEF IInv, CallInv
  <2>3. txBlock[cur.tx] <= Mempool
    BY <2>2 DEF NoRow, Mempool
  <2>4. QED BY <1>1, <2>2, <2>3
<1>5. QED BY <1>1, <1>2, <1>3, <1>4 DEF IInv

\* The next block of the node's chain.
LEMMA FetchBlockStep == ASSUME IInv, FetchBlock PROVE IInv'
<1> DEFINE n == Len(stored)
           B == chain[n + 1]
<1>0. /\ worker.at = "idle" /\ stored = SubSeq(chain, 1, n) /\ n < Len(chain)
      /\ worker' = [at |-> "lock", left |-> B]
      /\ UNCHANGED <<sources, nodeVars, blockVars, rowVars>>
      /\ UNCHANGED <<stored, headState, chain, txBlock, blockLock, cur, job>>
  BY DEF FetchBlock, WorkerAt, Prefix, blockVars, rowVars, nodeVars
<1>1. NodeInv' /\ RowInv' /\ Committed' /\ Ordered(stored)'
      /\ (Ordered(Append(stored, worker.left))' <=> Ordered(Append(stored, worker'.left)))
  BY <1>0, RowsFrame
<1>2. /\ chain \in Seq(SUBSET Tx) /\ stored \in Seq(SUBSET Tx) /\ Ordered(chain)
      /\ n \in Nat /\ Len(chain) \in Nat
  BY DEF IInv, NodeInv, BlockInv
<1>3. B \in SUBSET Tx
  BY <1>0, <1>2
<1>4. \A i \in 1..n : stored[i] = chain[i]
  BY <1>0, <1>2, Shorter
<1> DEFINE r == Append(stored, B)
<1>5. r \in Seq(SUBSET Tx) /\ Len(r) = n + 1 /\ r[n + 1] = B /\ \A i \in 1..n : r[i] = stored[i]
  BY <1>2, <1>3, AppendBlock
<1> HIDE DEF r
<1>6. Len(r) <= Len(chain) /\ \A i \in 1..Len(r) : r[i] = chain[i]
  <2>1. \A i \in 1..(n + 1) : i \in 1..n \/ i = n + 1
    BY <1>2
  <2>2. QED BY <1>0, <1>2, <1>4, <1>5, <2>1
<1>7. Ordered(r)
  BY <1>2, <1>5, <1>6, OrderedPrefix
<1> HIDE DEF B
<1>8. worker'.at = "lock" /\ worker'.left = B /\ worker' \in [at : Busy, left : SUBSET Tx]
  BY <1>0, <1>3 DEF Busy, Held
<1>9. WorkerInv'
  BY <1>0, <1>1, <1>7, <1>8 DEF IInv, WorkerInv, r, Busy, Held
<1>10. BlockInv' /\ JobInv' /\ CallInv'
  BY <1>0, <1>1, <1>8 DEF IInv, BlockInv, JobInv, CallInv, Held, WorkerInv
<1>11. Underway'
  BY <1>8 DEF Underway
<1>12. QED BY <1>1, <1>9, <1>10, <1>11 DEF IInv

\* BlockLock, and the row of the block.
LEMMA InsertBlockStep == ASSUME IInv, InsertBlock PROVE IInv'
<1> DEFINE n == Len(stored)
           B == worker.left
<1>0. /\ worker.at = "lock" /\ blockLock = "nobody" /\ blockLock' = "worker"
      /\ stored' = Append(stored, B) /\ headState' = "processing"
      /\ worker' = [worker EXCEPT !.at = "apply"]
      /\ UNCHANGED <<sources, nodeVars>>
      /\ UNCHANGED <<sources, chain, txBlock, inputs, outputs, spentBy, cur, job>>
  BY DEF InsertBlock, WorkerAt, rowVars, nodeVars
<1>1. /\ stored \in Seq(SUBSET Tx) /\ n \in Nat /\ Len(chain) \in Nat /\ headState = "complete"
      /\ worker \in [at : Busy, left : SUBSET Tx] /\ n < Len(chain) /\ Ordered(Append(stored, B))
  BY <1>0 DEF IInv, BlockInv, NodeInv, WorkerInv, Busy, Held
<1>2. /\ worker' \in [at : Busy, left : SUBSET Tx] /\ worker'.at = "apply" /\ worker'.left = B
      /\ B \in SUBSET Tx
  BY <1>0, <1>1 DEF Busy, Held
<1> HIDE DEF B
<1>3. /\ stored' \in Seq(SUBSET Tx) /\ Len(stored') = n + 1 /\ stored'[n + 1] = B
      /\ \A i \in 1..n : stored'[i] = stored[i]
  BY <1>0, <1>1, <1>2, AppendBlock
<1>4. NodeInv' /\ Ordered(stored)'
  BY <1>0, <1>1, NodeSame
<1>5. stored' # <<>> /\ Len(stored') <= Len(chain) /\ stored'[Len(stored')] = B
  BY <1>1, <1>3
<1>6. WorkerInv' /\ BlockInv'
  BY <1>0, <1>2, <1>3, <1>4, <1>5 DEF IInv, WorkerInv, BlockInv, Busy, Held, Idle
<1>7. JobInv'
  BY <1>0 DEF IInv, JobInv
<1>8. cur = NoCall /\ CallInv'
  BY <1>0 DEF IInv, CallInv
<1>9. RowInv'
  <2>1. ASSUME NEW t \in Tx, txBlock[t] > Mempool
        PROVE  txBlock[t] <= Len(stored') /\ t \in stored'[txBlock[t]]
    <3>1. txBlock[t] \in {NoRow, Mempool} \cup 1..MaxHeight /\ txBlock[t] <= n /\ t \in stored[txBlock[t]]
      BY <2>1 DEF IInv, RowInv
    <3>2. txBlock[t] \in 1..n
      BY <1>1, <2>1, <3>1, BoundsAssumption DEF NoRow, Mempool
    <3>3. QED BY <1>1, <1>3, <3>1, <3>2
  <2>2. QED BY <1>0, <2>1 DEF IInv, RowInv
<1>10. \A u, h : Applied(u, h)' <=> Applied(u, h)
  BY <1>0 DEF Applied, Whole, Rivals
<1>11. Committed'
  <2>1. SUFFICES ASSUME NEW h \in 1..Len(stored'), h < Len(stored'), NEW t \in stored'[h]
                 PROVE  Applied(t, h)'
    BY <1>0 DEF Committed
  <2>2. h \in 1..n /\ t \in stored[h]
    BY <1>1, <1>3, <2>1
  <2>3. Applied(t, h)
    BY <1>1, <2>2 DEF IInv, Committed
  <2>4. QED BY <1>10, <2>3
<1>12. Underway'
  BY <1>0, <1>2, <1>5, <1>8 DEF Underway, NoCall
<1>13. QED BY <1>4, <1>6, <1>7, <1>8, <1>9, <1>11, <1>12 DEF IInv

\* The scheduler starts a transaction.
LEMMA ApplyStep == ASSUME IInv, NEW t \in Tx, Apply(t) PROVE IInv'
<1>0. /\ worker.at = "apply" /\ cur' = [at |-> "row", tx |-> t] /\ t \in worker.left
      /\ UNCHANGED <<sources, nodeVars, blockVars, rowVars>>
      /\ UNCHANGED <<stored, headState, chain, txBlock, blockLock, worker, job>>
  BY DEF Apply, WorkerAt, Start, blockVars, rowVars, nodeVars
<1>1. NodeInv' /\ RowInv' /\ Committed' /\ Ordered(stored)'
  BY <1>0, RowsFrame
<1>2. blockLock = "worker"
  BY <1>0 DEF IInv, WorkerInv, Held
<1>3. WorkerInv' /\ BlockInv' /\ JobInv'
  BY <1>0, <1>1 DEF IInv, WorkerInv, BlockInv, JobInv
<1>4. cur'.at = "row" /\ cur'.tx = t /\ cur' \in [at : {"row", "vins", "vouts", "failed"}, tx : Tx]
  BY <1>0
<1>5. CallInv'
  BY <1>0, <1>2, <1>4 DEF IInv, CallInv
<1>6. Underway'
  BY <1>0, <1>4, UnderwayFrame
<1>7. QED BY <1>1, <1>3, <1>5, <1>6 DEF IInv

\* The worker gives the block up; nothing is done with BlockLock.
LEMMA GiveUp ==
  ASSUME IInv, worker.at = "apply", cur' = NoCall, worker' = [worker EXCEPT !.at = "cleanup"],
         UNCHANGED <<sources, nodeVars, blockVars, rowVars, blockLock, job>>
  PROVE  IInv'
<1>0. UNCHANGED <<stored, headState, chain, txBlock, blockLock, job>>
  BY DEF blockVars, rowVars, nodeVars
<1>1. NodeInv' /\ RowInv' /\ Committed' /\ Ordered(stored)'
  BY RowsFrame
<1>2. worker \in [at : Busy, left : SUBSET Tx]
  BY DEF IInv, WorkerInv, Busy, Held
<1>3. worker' \in [at : Busy, left : SUBSET Tx] /\ worker'.at = "cleanup"
  BY <1>2 DEF Busy, Held
<1>4. WorkerInv' /\ BlockInv' /\ JobInv' /\ CallInv'
  BY <1>0, <1>1, <1>3 DEF IInv, WorkerInv, BlockInv, JobInv, CallInv, Busy, Held
<1>5. Underway'
  BY <1>3 DEF Underway
<1>6. QED BY <1>1, <1>4, <1>5 DEF IInv

\* A failed transaction.
LEMMA ApplyFailedStep == ASSUME IInv, ApplyFailed PROVE IInv'
<1>0. /\ worker.at = "apply" /\ cur.at = "failed"
      /\ UNCHANGED <<sources, nodeVars, blockVars, rowVars, blockLock, job>>
      /\ UNCHANGED <<stored, headState, chain, txBlock>>
  BY DEF ApplyFailed, WorkerAt, In, blockVars, rowVars, nodeVars
<1>1. CASE Start(cur.tx) /\ UNCHANGED worker
  <2>0. cur' = [at |-> "row", tx |-> cur.tx] /\ worker' = worker
    BY <1>1 DEF Start
  <2>1. NodeInv' /\ RowInv' /\ Committed' /\ Ordered(stored)'
    BY <1>0, RowsFrame
  <2>2. cur.tx \in Tx /\ cur.tx \in worker.left /\ blockLock = "worker"
    BY <1>0, TheCall DEF Held
  <2>3. WorkerInv' /\ BlockInv' /\ JobInv'
    BY <1>0, <2>0, <2>1 DEF IInv, WorkerInv, BlockInv, JobInv
  <2>4. /\ cur'.at = "row" /\ cur'.tx = cur.tx
        /\ cur' \in [at : {"row", "vins", "vouts", "failed"}, tx : Tx]
    BY <2>0, <2>2
  <2>5. CallInv'
    BY <1>0, <2>0, <2>2, <2>4 DEF IInv, CallInv
  <2>6. Underway'
    BY <1>0, <2>0, <2>4, UnderwayFrame
  <2>7. QED BY <2>1, <2>3, <2>5, <2>6 DEF IInv
<1>2. CASE cur' = NoCall /\ worker' = [worker EXCEPT !.at = "cleanup"]
  BY <1>0, <1>2, GiveUp
<1>3. QED BY <1>1, <1>2 DEF ApplyFailed

\* A shutdown.
LEMMA ApplyStoppedStep == ASSUME IInv, ApplyStopped PROVE IInv'
  BY GiveUp DEF ApplyStopped, WorkerAt

\* All transactions are done: the block becomes complete.
LEMMA MarkCompleteStep == ASSUME IInv, MarkComplete PROVE IInv'
<1> DEFINE n == Len(stored)
<1>0. /\ worker.at = "apply" /\ cur = NoCall /\ worker.left = {}
      /\ headState' = "complete" /\ blockLock' = "nobody" /\ worker' = Idle
      /\ UNCHANGED <<sources, nodeVars>>
      /\ UNCHANGED <<sources, chain, stored, txBlock, inputs, outputs, spentBy, cur, job>>
  BY DEF MarkComplete, WorkerAt, rowVars, nodeVars
<1>1. NodeInv' /\ Ordered(stored)'
  BY <1>0, NodeSame DEF IInv, BlockInv
<1>2. worker'.at = "idle"
  BY <1>0 DEF Idle
<1>3. blockLock = "worker"
  BY <1>0 DEF IInv, WorkerInv, Held
<1>4. WorkerInv' /\ BlockInv'
  BY <1>0, <1>1, <1>2 DEF IInv, WorkerInv, BlockInv, Busy, Held
<1>5. JobInv' /\ CallInv'
  BY <1>0, <1>3 DEF IInv, JobInv, CallInv
<1>6. RowInv'
  BY <1>0 DEF IInv, RowInv
<1>7. \A u, h : Applied(u, h)' <=> Applied(u, h)
  BY <1>0 DEF Applied, Whole, Rivals
<1>8. Committed'
  <2>1. SUFFICES ASSUME NEW h \in 1..n, NEW t \in stored[h] PROVE Applied(t, h)'
    BY <1>0 DEF Committed
  <2>2. n \in Nat
    BY DEF IInv, BlockInv
  <2>3. CASE h < n
    BY <1>7, <2>3 DEF IInv, Committed
  <2>4. CASE h = n
    <3>1. Applied(t, h)
      BY <1>0, <2>4 DEF IInv, Underway
    <3>2. QED BY <1>7, <3>1
  <2>5. QED BY <2>2, <2>3, <2>4
<1>9. Underway'
  BY <1>2 DEF Underway
<1>10. QED BY <1>1, <1>4, <1>5, <1>6, <1>8, <1>9 DEF IInv

\* cleanupAbortedBlockTransactions takes no mark away from the blocks below: their
\* transactions are not rivals of those of the block.
LEMMA CleanupStep == ASSUME IInv, Cleanup PROVE IInv'
<1> DEFINE n == Len(stored)
           block == stored[n]
<1>0. /\ worker.at = "cleanup" /\ worker' = [worker EXCEPT !.at = "remove"]
      /\ \/ spentBy' = [p \in Tx |-> IF spentBy[p] \in block THEN "nobody" ELSE spentBy[p]]
         \/ spentBy' = spentBy
      /\ UNCHANGED <<sources, nodeVars>>
      /\ UNCHANGED <<sources, chain, stored, headState, txBlock, inputs, outputs, blockLock, cur, job>>
  BY DEF Cleanup, WorkerAt, blockVars, nodeVars
<1>1. NodeInv' /\ Ordered(stored)'
  BY <1>0, NodeSame DEF IInv, BlockInv
<1>2. worker \in [at : Busy, left : SUBSET Tx]
  BY <1>0 DEF IInv, WorkerInv, Busy, Held
<1>3. worker' \in [at : Busy, left : SUBSET Tx] /\ worker'.at = "remove"
  BY <1>0, <1>2 DEF Busy, Held
<1>4. WorkerInv' /\ BlockInv' /\ JobInv'
  BY <1>0, <1>1, <1>3 DEF IInv, WorkerInv, BlockInv, JobInv, Busy, Held
<1>5. CallInv'
  BY <1>0 DEF IInv, CallInv, WorkerInv, Held
<1>6. RowInv'
  BY <1>0, TxAssumption DEF IInv, RowInv
<1>7. /\ stored \in Seq(SUBSET Tx) /\ n \in Nat /\ n # 0 /\ Ordered(stored)
      /\ headState = "processing" /\ n \in 1..n
  BY <1>0 DEF IInv, BlockInv, Held
<1>8. Committed'
  <2>1. SUFFICES ASSUME NEW h \in 1..n, h < n, NEW t \in stored[h] PROVE Applied(t, h)'
    BY <1>0, <1>7 DEF Committed
  <2>2. Applied(t, h) /\ t \in Tx
    BY <1>7, <2>1 DEF IInv, Committed
  <2>3. sources[t] \subseteq Tx
    BY <2>2 DEF IInv, NodeInv
  <2>4. \A p \in sources[t] : spentBy[p] \notin block
    <3>1. SUFFICES ASSUME NEW p \in sources[t], spentBy[p] \in block PROVE FALSE
      OBVIOUS
    <3> DEFINE u == spentBy[p]
    <3>2. u \in Tx /\ p \in sources[u]
      BY <1>7, <2>3, <3>1 DEF IInv, RowInv
    <3>3. u # t
      BY <1>7, <2>1, <3>1 DEF Ordered
    <3>4. u \in Rivals(t)
      BY <3>1, <3>2, <3>3 DEF Rivals
    <3>5. stored[n] \cap Rivals(t) = {}
      BY <1>7, <2>1 DEF Ordered
    <3>6. QED BY <3>1, <3>4, <3>5
  <2>5. \A p \in sources[t] : spentBy'[p] = spentBy[p]
    BY <1>0, <2>3, <2>4
  <2>6. QED BY <1>0, <2>2, <2>5 DEF Applied, Whole, Rivals
<1>9. Underway'
  BY <1>3 DEF Underway
<1>10. QED BY <1>1, <1>4, <1>5, <1>6, <1>8, <1>9 DEF IInv

\* The block is removed.
LEMMA RemoveBlockStep == ASSUME IInv, RemoveBlock PROVE IInv'
<1>0. /\ worker.at = "remove" /\ DeleteHead /\ blockLock' = "nobody" /\ worker' = Idle
      /\ UNCHANGED <<sources, nodeVars>> /\ UNCHANGED <<chain, cur, job>>
  BY DEF RemoveBlock, WorkerAt, nodeVars
<1>1. headState = "processing" /\ stored # <<>>
  BY <1>0 DEF IInv, BlockInv, Held
<1>2. /\ stored' \in Seq(SUBSET Tx) /\ Len(stored') <= Len(chain) /\ Ordered(stored)'
      /\ headState' = "complete" /\ RowInv' /\ Committed'
  BY <1>0, <1>1, DropHead
<1>3. NodeInv' /\ worker'.at = "idle"
  BY <1>0, NodeSame DEF Idle
<1>4. blockLock = "worker" /\ cur = NoCall
  BY <1>0 DEF IInv, WorkerInv, CallInv, Held
<1>5. WorkerInv' /\ BlockInv' /\ Underway'
  BY <1>0, <1>2, <1>3 DEF IInv, WorkerInv, BlockInv, Underway, Busy, Held
<1>6. JobInv' /\ CallInv'
  BY <1>0, <1>4 DEF IInv, JobInv, CallInv
<1>7. QED BY <1>2, <1>3, <1>5, <1>6 DEF IInv

\* A crash.
LEMMA CrashStep == ASSUME IInv, Crash PROVE IInv'
<1>0. /\ worker' = [at |-> "boot"] /\ job' = Idle /\ cur' = NoCall /\ blockLock' = "nobody"
      /\ UNCHANGED <<sources, nodeVars, blockVars, rowVars>>
      /\ UNCHANGED <<stored, headState, chain, txBlock>>
  BY DEF Crash, blockVars, rowVars, nodeVars
<1>1. NodeInv' /\ RowInv' /\ Committed' /\ Ordered(stored)'
  BY <1>0, RowsFrame
<1>2. worker'.at = "boot" /\ job'.at = "idle"
  BY <1>0 DEF Idle
<1>3. WorkerInv' /\ BlockInv' /\ JobInv' /\ CallInv' /\ Underway'
  BY <1>0, <1>1, <1>2 DEF IInv, WorkerInv, BlockInv, JobInv, CallInv, Underway, Busy, Held
<1>4. QED BY <1>1, <1>3 DEF IInv

\* The start, with CleanupIncompleteHead.
LEMMA BootStep == ASSUME IInv, Boot PROVE IInv'
<1>0. /\ worker.at = "boot" /\ worker' = Idle /\ cleanupIncompleteHead
      /\ UNCHANGED <<sources, nodeVars>> /\ UNCHANGED <<chain, blockLock, cur, job>>
  BY DEF Boot, WorkerAt, nodeVars
<1>1. blockLock = "nobody" /\ cur = NoCall /\ job = Idle
  BY <1>0 DEF IInv, WorkerInv, JobInv, CallInv, Held, Idle
<1>2. /\ stored' \in Seq(SUBSET Tx) /\ Len(stored') <= Len(chain) /\ Ordered(stored)'
      /\ headState' = "complete" /\ RowInv' /\ Committed'
  <2>1. CASE stored # <<>> /\ DeleteHead
    BY <1>0, <2>1, DropHead
  <2>2. CASE headState = "complete" /\ UNCHANGED <<blockVars, rowVars>>
    BY <1>0, <2>2, RowsFrame DEF IInv, BlockInv, blockVars
  <2>3. headState \in {"processing", "complete"} /\ (headState = "processing" => stored # <<>>)
    BY DEF IInv, BlockInv
  <2>4. QED BY <1>0, <2>1, <2>2, <2>3 DEF cleanupIncompleteHead
<1>3. NodeInv' /\ worker'.at = "idle"
  BY <1>0, NodeSame DEF Idle
<1>4. WorkerInv' /\ BlockInv' /\ Underway' /\ JobInv' /\ CallInv'
  BY <1>0, <1>1, <1>2, <1>3 DEF IInv, WorkerInv, BlockInv, Underway, JobInv, CallInv, Busy, Held
<1>5. QED BY <1>2, <1>3, <1>4 DEF IInv

-----------------------------------------------------------------------------
(* The steps of the mempool job.                                           *)

\* A step of the job that leaves the database alone.
LEMMA JobFrame ==
  ASSUME IInv, UNCHANGED <<sources, nodeVars, blockVars, rowVars, worker>>,
         worker.at = "boot" => job' = Idle, JobInv', CallInv',
         blockLock' = "worker" <=> blockLock = "worker",
         blockLock = "worker" => cur' = cur
  PROVE  IInv'
<1>0. UNCHANGED <<stored, headState, chain, worker>>
  BY DEF blockVars, nodeVars
<1>1. /\ NodeInv' /\ RowInv' /\ Committed' /\ Ordered(stored)'
      /\ Ordered(Append(stored, worker.left))' <=> Ordered(Append(stored, worker'.left))
  BY RowsFrame
<1>2. WorkerInv' /\ BlockInv'
  BY <1>0, <1>1 DEF IInv, WorkerInv, BlockInv
<1>3. worker.at = "apply" => blockLock = "worker"
  BY DEF IInv, WorkerInv, Held
<1>4. Underway'
  BY <1>0, <1>3, UnderwayFrame
<1>5. QED BY <1>1, <1>2, <1>4 DEF IInv

\* The job returns.
LEMMA JobReturnsStep ==
  ASSUME IInv, JobReturns, UNCHANGED <<sources, nodeVars, blockVars, rowVars, worker>>
  PROVE  IInv'
<1>0. /\ job' = Idle /\ job'.at = "idle"
      /\ blockLock' = IF blockLock = "job" THEN "nobody" ELSE blockLock
      /\ cur' = IF blockLock = "job" THEN NoCall ELSE cur
      /\ UNCHANGED <<txBlock, worker>>
  BY DEF JobReturns, Idle, rowVars
<1>1. JobInv'
  BY <1>0 DEF IInv, JobInv
<1>2. CallInv'
  <2>1. CASE blockLock = "job"
    BY <1>0, <2>1 DEF CallInv
  <2>2. CASE blockLock # "job"
    BY <1>0, <2>2 DEF IInv, CallInv
  <2>3. QED BY <2>1, <2>2
<1>3. QED BY <1>0, <1>1, <1>2, JobFrame

\* GetRawMempool.
LEMMA SnapshotStep == ASSUME IInv, Snapshot PROVE IInv'
<1>0. /\ job.at = "idle" /\ worker.at # "boot"
      /\ job' = [at |-> "fetch", set |-> pool, entry |-> entry]
      /\ UNCHANGED <<sources, nodeVars, blockVars, rowVars, worker>>
      /\ UNCHANGED <<blockLock, cur, txBlock>>
  BY DEF Snapshot, JobAt, WorkerAt, rowVars
<1>1. /\ job'.at = "fetch"
      /\ job' \in [at : {"fetch", "lock"}, set : SUBSET Tx, entry : [Tx -> Nat]]
  BY <1>0 DEF IInv, NodeInv
<1>2. blockLock # "job"
  BY <1>0 DEF IInv, JobInv
<1>3. JobInv'
  BY <1>0, <1>1, <1>2 DEF JobInv
<1>4. CallInv'
  BY <1>0, <1>2 DEF IInv, CallInv
<1>5. QED BY <1>0, <1>3, <1>4, JobFrame

\* fetchMempoolRawTransactions.
LEMMA FetchRawStep == ASSUME IInv, FetchRaw PROVE IInv'
<1>0. /\ job.at = "fetch" /\ UNCHANGED <<sources, nodeVars, blockVars, rowVars, worker>>
      /\ txBlock' = txBlock /\ worker' = worker
  BY DEF FetchRaw, JobAt, rowVars
<1>1. CASE job' = [job EXCEPT !.at = "lock"] /\ UNCHANGED <<blockLock, cur>>
  <2>1. job \in [at : {"fetch", "lock"}, set : SUBSET Tx, entry : [Tx -> Nat]]
    BY <1>0 DEF IInv, JobInv
  <2>2. /\ job'.at = "lock"
        /\ job' \in [at : {"fetch", "lock"}, set : SUBSET Tx, entry : [Tx -> Nat]]
    BY <1>1, <2>1
  <2>3. blockLock # "job" /\ worker.at # "boot"
    BY <1>0 DEF IInv, JobInv, WorkerInv, Idle
  <2>4. JobInv'
    BY <1>1, <2>2, <2>3 DEF JobInv
  <2>5. CallInv'
    BY <1>0, <1>1, <2>3 DEF IInv, CallInv
  <2>6. QED BY <1>0, <1>1, <2>3, <2>4, <2>5, JobFrame
<1>2. CASE JobReturns
  BY <1>0, <1>2, JobReturnsStep
<1>3. QED BY <1>1, <1>2 DEF FetchRaw

LoopJobs == [at : {"loop"}, set : SUBSET Tx, entry : [Tx -> Nat], todo : SUBSET Tx,
             stale : SUBSET Tx, head : Nat, queue : Seq(Tx)]

\* The job in its loop.
LEMMA InLoop ==
  ASSUME IInv, job.at = "loop"
  PROVE  job \in LoopJobs /\ blockLock = "job" /\ worker.at \notin Held \cup {"boot"}
         /\ headState = "complete"
<1>1. job \in LoopJobs /\ blockLock = "job" /\ worker.at \notin Held \cup {"boot"}
  BY DEF IInv, JobInv, WorkerInv, LoopJobs, Idle
<1>2. headState = "complete"
  BY <1>1 DEF IInv, BlockInv
<1>3. QED BY <1>1, <1>2

\* BlockLock is taken by the job.
LEMMA LockJobStep == ASSUME IInv, LockJobAny PROVE IInv'
<1>0. PICK stale \in SUBSET Tx : LockJob(stale)
  BY DEF LockJobAny
<1>1. /\ job.at = "lock" /\ blockLock = "nobody" /\ blockLock' = "job"
      /\ job' = [at |-> "loop", set |-> job.set, entry |-> job.entry, todo |-> job.set,
                 stale |-> stale, head |-> Len(stored), queue |-> <<>>]
      /\ UNCHANGED <<sources, nodeVars, blockVars, rowVars, worker>>
      /\ UNCHANGED <<cur, worker>>
  BY <1>0 DEF LockJob, JobAt
<1>2. /\ job \in [at : {"fetch", "lock"}, set : SUBSET Tx, entry : [Tx -> Nat]]
      /\ Len(stored) \in Nat /\ cur = NoCall /\ worker.at # "boot" /\ <<>> \in Seq(Tx)
  BY <1>1 DEF IInv, JobInv, BlockInv, CallInv, WorkerInv, Idle
<1>3. job.set \in SUBSET Tx /\ job.entry \in [Tx -> Nat]
  BY <1>2
<1>4. job' \in LoopJobs /\ job'.at = "loop"
  BY <1>1, <1>2, <1>3 DEF LoopJobs
<1>5. JobInv'
  BY <1>1, <1>4 DEF JobInv, LoopJobs
<1>6. CallInv'
  BY <1>1, <1>2 DEF CallInv
<1>7. QED BY <1>1, <1>2, <1>5, <1>6, JobFrame

\* The job comes to a transaction of its snapshot.
LEMMA VisitStep == ASSUME IInv, NEW txid \in Tx, Visit(txid) PROVE IInv'
<1> DEFINE depends == sources[txid] \cap job.set
<1>0. /\ job.at = "loop" /\ cur = NoCall /\ txid \in job.todo
      /\ \/ /\ \E q \in [1..Cardinality(depends) -> depends] :
                 job' = [job EXCEPT !.todo = @ \ {txid}, !.queue = Append(q, txid),
                                    !.stale = @ \ (depends \cup {txid})]
            /\ UNCHANGED blockLock
         \/ job' = [at |-> "delayed"] /\ blockLock' = "nobody"
      /\ UNCHANGED <<sources, nodeVars, blockVars, rowVars, worker>>
      /\ UNCHANGED <<cur, worker>>
  BY DEF Visit, JobAt
<1>1. job \in LoopJobs /\ blockLock = "job" /\ worker.at \notin Held \cup {"boot"}
  BY <1>0, InLoop
<1>2. CallInv' \/ blockLock' \notin {"nobody", "job"}
  BY <1>0 DEF CallInv
<1>3. CASE \E q \in [1..Cardinality(depends) -> depends] :
             /\ job' = [job EXCEPT !.todo = @ \ {txid}, !.queue = Append(q, txid),
                                   !.stale = @ \ (depends \cup {txid})]
             /\ UNCHANGED blockLock
  <2>1. PICK q \in [1..Cardinality(depends) -> depends] :
             /\ job' = [job EXCEPT !.todo = @ \ {txid}, !.queue = Append(q, txid),
                                   !.stale = @ \ (depends \cup {txid})]
             /\ UNCHANGED blockLock
    BY <1>3
  <2>2. depends \in SUBSET Tx
    BY <1>1 DEF LoopJobs
  <2>3. Cardinality(depends) \in Nat
    BY <2>2, TxAssumption, FS_Subset, FS_CardinalityType
  <2> DEFINE m == Cardinality(depends)
  <2> HIDE DEF depends, m
  <2>4. q \in [1..m -> Tx]
    BY <2>1, <2>2 DEF m
  <2>5. q \in Seq(Tx)
    BY <2>3, <2>4 DEF m
  <2>6. Append(q, txid) \in Seq(Tx)
    BY <2>5
  <2>7. job' \in LoopJobs /\ job'.at = "loop"
    BY <1>1, <2>1, <2>6 DEF LoopJobs
  <2>8. JobInv'
    BY <1>1, <2>1, <2>7 DEF JobInv, LoopJobs
  <2>9. CallInv'
    BY <1>1, <1>2, <2>1
  <2>10. QED BY <1>0, <1>1, <2>1, <2>8, <2>9, JobFrame
<1>4. CASE job' = [at |-> "delayed"] /\ blockLock' = "nobody"
  <2>1. JobInv'
    BY <1>4 DEF JobInv
  <2>2. CallInv'
    BY <1>2, <1>4
  <2>3. QED BY <1>0, <1>1, <1>4, <2>1, <2>2, JobFrame
<1>5. QED BY <1>0, <1>3, <1>4

\* processMempoolTx starts a call for a transaction without a row only.
LEMMA ProcessMempoolTxStep == ASSUME IInv, processMempoolTx PROVE IInv'
<1>0. /\ job.at = "loop" /\ cur = NoCall /\ job.queue # <<>>
      /\ UNCHANGED <<sources, nodeVars, blockVars, rowVars, worker>>
      /\ UNCHANGED <<txBlock, blockLock, worker>>
  BY DEF processMempoolTx, JobAt, rowVars
<1>1. job \in LoopJobs /\ blockLock = "job" /\ worker.at \notin Held \cup {"boot"}
  BY <1>0, InLoop
<1>2. job.queue \in Seq(Tx)
  BY <1>1 DEF LoopJobs
<1>3. Head(job.queue) \in Tx /\ Tail(job.queue) \in Seq(Tx)
  BY <1>0, <1>2
<1>4. CASE txBlock[Head(job.queue)] = NoRow /\ Start(Head(job.queue)) /\ UNCHANGED job
  <2>1. cur' = [at |-> "row", tx |-> Head(job.queue)]
    BY <1>4 DEF Start
  <2>2. /\ cur'.at = "row" /\ cur'.tx = Head(job.queue)
        /\ cur' \in [at : {"row", "vins", "vouts", "failed"}, tx : Tx]
    BY <1>3, <2>1
  <2>3. CallInv'
    BY <1>0, <1>1, <1>4, <2>2 DEF CallInv
  <2>4. JobInv'
    BY <1>0, <1>4 DEF IInv, JobInv
  <2>5. QED BY <1>0, <1>1, <2>3, <2>4, JobFrame
<1>5. CASE job' = [job EXCEPT !.queue = Tail(@)] /\ UNCHANGED cur
  <2>1. job' \in LoopJobs /\ job'.at = "loop"
    BY <1>1, <1>3, <1>5 DEF LoopJobs
  <2>2. JobInv' /\ CallInv'
    BY <1>0, <1>1, <1>5, <2>1 DEF JobInv, LoopJobs, CallInv
  <2>3. QED BY <1>0, <1>1, <2>2, JobFrame
<1>6. QED BY <1>4, <1>5 DEF processMempoolTx

\* An old transaction of the mempool block is no source of a complete block.
LEMMA DeleteStaleStep == ASSUME IInv, DeleteStale PROVE IInv'
<1>0. job.at = "loop" /\ cur = NoCall /\ UNCHANGED <<sources, nodeVars, blockVars, worker>>
  BY DEF DeleteStale, JobAt
<1>1. job \in LoopJobs /\ blockLock = "job" /\ worker.at \notin Held \cup {"boot"}
  BY <1>0, InLoop
<1>2. CASE JobReturns /\ UNCHANGED rowVars
  BY <1>0, <1>2, JobReturnsStep
<1>3. CASE \E t \in job.stale :
            /\ job' = [job EXCEPT !.stale = @ \ {t}]
            /\ IF txBlock[t] = Mempool THEN Delete({t}) ELSE UNCHANGED rowVars
            /\ UNCHANGED <<blockLock, cur>>
  <2>0. PICK t \in job.stale :
            /\ job' = [job EXCEPT !.stale = @ \ {t}]
            /\ IF txBlock[t] = Mempool THEN Delete({t}) ELSE UNCHANGED rowVars
            /\ UNCHANGED <<blockLock, cur>>
    BY <1>3
  <2>1. t \in Tx /\ job' \in LoopJobs /\ job'.at = "loop"
    BY <1>1, <2>0 DEF LoopJobs
  <2>2. JobInv' /\ CallInv'
    BY <1>0, <1>1, <2>0, <2>1 DEF JobInv, LoopJobs, CallInv
  <2>3. CASE UNCHANGED rowVars
    BY <1>0, <1>1, <2>0, <2>2, <2>3, JobFrame
  <2>4. CASE txBlock[t] = Mempool /\ Delete({t})
    <3>0. UNCHANGED <<sources, chain, stored, headState, worker>> /\ {t} \in SUBSET Tx
      BY <1>0, <2>1 DEF nodeVars, blockVars
    <3>1. NodeInv' /\ Ordered(stored)'
      BY <1>0, <3>0, NodeSame DEF IInv, BlockInv
    <3>2. WorkerInv'
      <4>1. Ordered(Append(stored, worker.left))' <=> Ordered(Append(stored, worker.left))
        BY <3>0 DEF Ordered, Rivals
      <4>2. QED BY <1>1, <2>0, <3>0, <4>1 DEF IInv, WorkerInv
    <3>3. BlockInv' /\ Underway'
      BY <1>1, <3>0, <3>1 DEF IInv, BlockInv, Underway, Held
    <3>4. RowInv'
      <4>1. ASSUME NEW u \in Tx, txBlock'[u] > Mempool
            PROVE  txBlock'[u] <= Len(stored) /\ u \in stored[txBlock'[u]]
        <5>1. txBlock'[u] = txBlock[u]
          BY <2>4, <3>0, <4>1, DeleteTypes
        <5>2. QED BY <4>1, <5>1 DEF IInv, RowInv
      <4>2. QED BY <2>4, <3>0, <4>1, DeleteTypes DEF RowInv
    <3>5. Committed'
      <4>1. SUFFICES ASSUME NEW h \in 1..Len(stored), h < Len(stored) \/ headState = "complete",
                            NEW u \in stored[h]
                     PROVE  Applied(u, h)'
        BY <3>0 DEF Committed
      <4>2. u \in Tx /\ txBlock[u] = h /\ \A p \in sources[u] : txBlock[p] \in 1..h
        BY <4>1, CompleteRows
      <4>3. Applied(u, h)
        BY <4>1 DEF IInv, Committed
      <4>4. u \notin {t} /\ sources[u] \cap {t} = {}
        BY <2>4, <4>2 DEF Mempool
      <4>5. QED BY <2>4, <3>0, <4>2, <4>3, <4>4, DeleteKeeps
    <3>6. QED BY <2>2, <3>1, <3>2, <3>3, <3>4, <3>5 DEF IInv
  <2>5. QED BY <2>0, <2>3, <2>4
<1>4. QED BY <1>2, <1>3 DEF DeleteStale

\* The delay is over.
LEMMA DelayStep == ASSUME IInv, delayMempoolSyncReset PROVE IInv'
<1>0. /\ job.at = "delayed" /\ job' = Idle
      /\ UNCHANGED <<sources, nodeVars, blockVars, rowVars, worker>>
      /\ UNCHANGED <<txBlock, worker, blockLock, cur>>
  BY DEF delayMempoolSyncReset, JobAt, rowVars
<1>1. blockLock # "job" /\ job'.at = "idle"
  BY <1>0 DEF IInv, JobInv, Idle
<1>2. JobInv' /\ CallInv'
  BY <1>0, <1>1 DEF IInv, JobInv, CallInv
<1>3. QED BY <1>0, <1>2, JobFrame

-----------------------------------------------------------------------------
(* The theorems.                                                           *)

\* The first state.
LEMMA InitInv == Init => IInv
<1> SUFFICES ASSUME Init PROVE IInv
  OBVIOUS
<1>0. worker.at = "idle" /\ job.at = "idle" /\ Len(chain) = 0 /\ Len(stored) = 0
  BY DEF Init, Idle
<1>1. sources \in [Tx -> SUBSET Tx] /\ chain \in Seq(SUBSET Tx) /\ stored \in Seq(SUBSET Tx)
  BY SpendsAssumption DEF Init
<1>2. Ordered(chain) /\ Ordered(stored)
  BY <1>0 DEF Ordered
<1>3. NodeInv
  BY <1>0, <1>1, <1>2, BoundsAssumption DEF Init, NodeInv
<1>4. WorkerInv /\ BlockInv /\ JobInv /\ CallInv /\ Underway
  BY <1>0, <1>1, <1>2 DEF Init, WorkerInv, BlockInv, JobInv, CallInv, Underway, Busy, Held
<1>5. RowInv
  BY TxAssumption DEF Init, RowInv, NoRow, Mempool
<1>6. Committed
  BY <1>0 DEF Committed
<1>7. QED BY <1>3, <1>4, <1>5, <1>6 DEF IInv

\* Every step keeps the invariant.
LEMMA StepInv == ASSUME IInv, [Next]_vars PROVE IInv'
<1>1. CASE Node
  BY <1>1, MineStep, ReorgStep, BroadcastStep, EvictStep DEF Node
<1>2. CASE Worker
  BY <1>2, DropDivergedStep, FetchBlockStep, InsertBlockStep, ApplyFailedStep, MarkCompleteStep,
     CleanupStep, RemoveBlockStep, BootStep, ApplyStep DEF Worker
<1>3. CASE Job
  <2>1. CASE JobTxFailed
    BY <2>1, JobReturnsStep DEF JobTxFailed
  <2>2. QED BY <1>3, <2>1, SnapshotStep, FetchRawStep, ProcessMempoolTxStep, DeleteStaleStep,
               DelayStep, VisitStep DEF Job
<1>4. CASE JobFails
  BY <1>4, JobReturnsStep DEF JobFails
<1>5. CASE UNCHANGED vars
  <2>1. UNCHANGED <<sources, blockVars, rowVars, blockLock, cur, worker, job>>
        /\ UNCHANGED <<sources, nodeVars>> /\ chain' = chain
    BY <1>5 DEF vars, nodeVars
  <2>2. NodeInv' /\ Len(chain) <= Len(chain')
    BY <2>1, NodeSame DEF IInv, NodeInv
  <2>3. QED BY <2>1, <2>2, NodeFrame
<1>6. QED BY <1>1, <1>2, <1>3, <1>4, <1>5, LockJobStep, ProcessTxStep, ApplyStoppedStep, CrashStep
        DEF Next

\* The inductive invariant holds in every state, for any transactions and whatever
\* they spend.
THEOREM Invariance == Spec => []IInv
  BY InitInv, StepInv, PTL DEF Spec

\* The variables of the two writers keep their types, and the stored branch never
\* gets longer than the node's chain (daemon/processing, daemon/jobs/mempoolsync.go).
THEOREM TypeCorrect == Spec => []TypeOK
<1>1. IInv => TypeOK
  <2> SUFFICES ASSUME IInv PROVE TypeOK
    OBVIOUS
  <2>1. Len(stored) <= Len(chain) /\ Len(chain) <= MaxHeight
    BY DEF IInv, BlockInv, NodeInv
  <2>2. QED BY <2>1 DEF IInv, TypeOK, RowInv, BlockInv, CallInv
<1>2. QED BY <1>1, Invariance, PTL

\* Every transaction of a complete block is there with all its rows and marks,
\* although the mempool job stores transactions from an older snapshot, deletes
\* old ones, and reorganisations delete blocks without BlockLock.
THEOREM CommittedWholeAlways == Spec => []CommittedWhole
<1>1. IInv => CommittedWhole
  <2> SUFFICES ASSUME IInv, NEW h \in Complete, NEW t \in stored[h] PROVE Applied(t, h)
    BY DEF CommittedWhole, Applied
  <2>1. h \in 1..Len(stored) /\ (h < Len(stored) \/ headState = "complete")
    BY DEF Complete, IInv, BlockInv
  <2>2. QED BY <2>1 DEF IInv, Committed
<1>2. QED BY <1>1, Invariance, PTL

\* No step turns a transaction of a block back into an unconfirmed one.
THEOREM NoDemotionEver == Spec => NoDemotion
<1>1. ASSUME IInv, [Next]_vars, NEW t \in Tx, txBlock[t] > Mempool, txBlock'[t] = Mempool
      PROVE  FALSE
  <2>0. /\ txBlock \in [Tx -> {NoRow, Mempool} \cup 1..MaxHeight]
        /\ txBlock'[t] # txBlock[t] /\ txBlock'[t] # NoRow
    BY <1>1 DEF IInv, RowInv, NoRow, Mempool
  <2>1. ~\E T : Delete(T)
    BY <1>1, <2>0 DEF Delete
  <2>2. CASE ProcessTx
    <3>1. SaveRow
      BY <2>0, <2>2 DEF ProcessTx, SaveOutputs, SaveInputs, PutInputs
    <3>2. cur.at = "row" /\ txBlock' = [txBlock EXCEPT ![cur.tx] = Dest]
      BY <3>1 DEF SaveRow, In
    <3>3. cur.tx = t /\ Dest = Mempool
      BY <1>1, <2>0, <3>2
    <3>4. CASE blockLock = "worker"
      <4>1. stored # <<>>
        BY <1>1, <3>2, <3>4, TheCall
      <4>2. stored \in Seq(SUBSET Tx)
        BY <1>1 DEF IInv, BlockInv
      <4>3. Len(stored) # 0
        BY <4>1, <4>2
      <4>4. QED BY <3>3, <3>4, <4>3 DEF Dest, Mempool
    <3>5. CASE blockLock = "job"
      BY <1>1, <3>2, <3>3, <3>5, TheCall DEF NoRow, Mempool
    <3>6. QED BY <1>1, <3>2, <3>4, <3>5, TheCall
  <2>3. CASE UNCHANGED vars
    BY <2>0, <2>3 DEF vars, rowVars
  <2>4. CASE Node \/ LockJobAny \/ ApplyStopped \/ JobFails \/ Crash
    BY <2>0, <2>4 DEF Node, Mine, Reorg, Broadcast, Evict, LockJobAny, LockJob, ApplyStopped,
       JobFails, Crash, rowVars
  <2>5. CASE Worker
    BY <2>0, <2>1, <2>5 DEF Worker, DropDiverged, FetchBlock, InsertBlock, ApplyFailed,
       MarkComplete, Cleanup, RemoveBlock, Boot, cleanupIncompleteHead, DeleteHead, Apply, rowVars
  <2>6. CASE Job
    BY <2>0, <2>1, <2>6 DEF Job, Snapshot, FetchRaw, processMempoolTx, JobTxFailed, DeleteStale,
       delayMempoolSyncReset, Visit, rowVars
  <2>7. QED BY <1>1, <2>2, <2>3, <2>4, <2>5, <2>6 DEF Next
<1>2. IInv /\ [Next]_vars => [\A t \in Tx : txBlock[t] > Mempool => txBlock'[t] # Mempool]_vars
  BY <1>1
<1>3. QED BY <1>2, Invariance, PTL DEF Spec, NoDemotion

=============================================================================
