--------------------------- MODULE HeightJobsProofs --------------------------
(***************************************************************************)
(* Proofs about ChainSync and ValueSync, for all bounds: the types,        *)
(* Reported, and the heights that the batches of the value jobs reach.     *)
(*                                                                         *)
(* Reported is not inductive: a run that fails goes back to the saved      *)
(* state, which must be right for the rows that were changed meanwhile; a  *)
(* block is left after many steps; and rows are deleted, without           *)
(* BlockLock, at heights that the walk has passed, by the daemon and by    *)
(* the job's own search for the common ancestor.  The invariant says       *)
(* besides that only blocks of the first branch are damaged, that the job  *)
(* stores blocks of the node only, and that what alignTxs passed in a      *)
(* block is right or reported.  What carries it is that no step makes a    *)
(* height wrong that was not (Kept).                                       *)
(***************************************************************************)
EXTENDS HeightJobs, WellFoundedInduction, TLAPS

\* The areas that the job passes to recordError.
Areas == {"lbrycrd-getblockhash", "mysql-getblock", "daemon-process-block", "tx-hash-creation",
          "block-alignment", "mysql-tx", "tx-processing", "tx-part-count", "tx-reprocessing",
          "tx-alignment", "vin-alignment", "vout-alignment"}

Entries == [area : Areas, heights : SUBSET Nat]

\* Two entries of one area are those of RunBlockProcessing for different heights.
Apart(es, i, j) ==
  es[i].area = es[j].area =>
    i = j \/ (es[i].area = "daemon-process-block" /\ es[i].heights \cap es[j].heights = {})

\* A list of errors: not too long, and one entry for an error.
GoodErrors(es) ==
  /\ es \in Seq(Entries) /\ Len(es) <= MaxErrors
  /\ \A i, j \in DOMAIN es : Apart(es, i, j)

States == [last : Nat, max : Nat, errors : Seq(Entries), forgotten : SUBSET Nat]

\* A state of the walk.
GoodState(s) ==
  /\ s \in States /\ GoodErrors(s.errors)
  /\ s.last <= s.max /\ s.max <= Len(node)

Marked(s) == Heights(s.errors) \cup s.forgotten

\* The heights up to n are right or reported.
Clean(s, n) == \A g \in 1..n : Wrong(g) => g \in Marked(s)

\* The rows: blocks of the node, of this or an earlier branch.
Shapes == [1..Txs -> Kinds \cup {"ok"}]
RowsOK ==
  /\ node \in Seq(Nat) /\ Len(node) \in 1..MaxHeight /\ reorgs \in Nat
  /\ \A h \in 1..Len(node) : node[h] <= reorgs
  /\ \A r \in DOMAIN db :
       /\ r \in (1..Len(node)) \X Nat /\ r[2] <= reorgs
       /\ db[r] \in Shapes
       /\ r[2] # 0 => db[r] = Good
  /\ db = [r \in DOMAIN db |-> db[r]]
  /\ \A h \in emptied : RowsAt(h) = {}

CursorOK == cursor \in 0..Len(node)

\* The run of the job: the block of the walk was the node's, of this or an earlier
\* branch, and so is the block that RunBlockProcessing is to store.
Busy == {"find", "check", "store", "lock", "align"}
Shape(j) ==
  \/ j \in [at : {"find", "lock"}, s : States, b : Nat \X Nat]
  \/ j \in [at : {"check"}, s : States, b : Nat \X Nat, json : Nat \X Nat, prev : Nat, want : Nat \X Nat]
  \/ j \in [at : {"store"}, s : States, b : Nat \X Nat, json : Nat \X Nat]
  \/ j \in [at : {"align"}, s : States, b : Nat \X Nat, tx : 1..Txs]
Filling(j) ==
  /\ j.at \in {"check", "store"} => j.json[1] = j.b[1] /\ j.json[2] <= reorgs
  /\ j.at = "check" => j.prev < j.b[1] /\ (j.prev = 0 => j.want = <<0, 0>>)
JobOK ==
  \/ job = Idle
  \/ job.at = "loop" /\ GoodState(job.s)
  \/ /\ Shape(job) /\ Filling(job)
     /\ GoodState(job.s) /\ job.b[1] = job.s.last /\ job.s.last >= 1
     /\ job.b # <<job.b[1], node[job.b[1]]>> => node[job.b[1]] # 0

Aligned ==
  job.at = "align" =>
    \/ job.b[1] \in Marked(job.s)
    \/ job.b \in DOMAIN db => \A i \in 1..(job.tx - 1) : db[job.b][i] = "ok"

Reports ==
  /\ GoodState(saved) /\ Clean(saved, saved.last)
  /\ job.at = "loop" => Clean(job.s, job.s.last)
  /\ job.at \in Busy => Clean(job.s, job.s.last - 1)

IInv == RowsOK /\ CursorOK /\ JobOK /\ Aligned /\ Reports

-----------------------------------------------------------------------------
(* The top of the stored blocks.                                           *)

IsTop(D, h) == (h = 0 \/ \E r \in D : r[1] = h) /\ \A r \in D : r[1] <= h

TopOf(D) == CHOOSE h \in 0..MaxHeight : IsTop(D, h)

\* A set of blocks of bounded heights has a top.
LEMMA TopExists ==
  ASSUME NEW m \in 0..MaxHeight, NEW D, \A r \in D : r[1] \in 1..m
  PROVE  TopOf(D) \in 0..m /\ IsTop(D, TopOf(D))
<1>0. m \in Nat /\ MaxHeight \in Nat /\ m <= MaxHeight
  BY ChainSyncAssumption
<1>1. \E h \in 0..m : IsTop(D, h)
  <2>1. CASE D = {}
    BY <1>0, <2>1 DEF IsTop
  <2>2. CASE D # {}
    <3> DEFINE T == {m - r[1] : r \in D}
    <3>1. T \subseteq Nat /\ T # {}
      BY <1>0, <2>2
    <3>2. PICK n \in T : \A x \in T : ~(<<x, n>> \in OpToRel(<, Nat))
      BY <3>1, NatLessThanWellFounded, WFMin
    <3>3. \A x \in T : ~(x < n)
      BY <3>1, <3>2 DEF OpToRel
    <3>4. PICK d \in D : n = m - d[1]
      OBVIOUS
    <3>5. ASSUME NEW r \in D PROVE r[1] <= d[1]
      <4>1. ~(m - r[1] < m - d[1])
        BY <3>3, <3>4
      <4>2. r[1] \in 1..m /\ d[1] \in 1..m
        OBVIOUS
      <4>3. QED BY <1>0, <4>1, <4>2
    <3>6. IsTop(D, d[1]) /\ d[1] \in 0..m
      BY <1>0, <3>5 DEF IsTop
    <3>7. QED BY <3>6
  <2>3. QED BY <2>1, <2>2
<1>2. \E h \in 0..MaxHeight : IsTop(D, h)
  BY <1>0, <1>1
<1>3. TopOf(D) \in 0..MaxHeight /\ IsTop(D, TopOf(D))
  BY <1>2 DEF TopOf
<1>4. PICK h \in 0..m : IsTop(D, h)
  BY <1>1
<1>5. TopOf(D) <= h
  BY <1>0, <1>3, <1>4 DEF IsTop
<1>6. QED BY <1>0, <1>3, <1>5

\* Top is that of the stored blocks.
LEMMA TopDef == Top = TopOf(DOMAIN db)
<1>1. \A h : (/\ h = 0 \/ RowsAt(h) # {}
              /\ \A r \in DOMAIN db : r[1] <= h) <=> IsTop(DOMAIN db, h)
  BY DEF IsTop, RowsAt
<1>2. QED BY <1>1 DEF Top, TopOf

\* The same in the next state.
LEMMA TopDefNext == Top' = TopOf(DOMAIN db')
<1>1. \A h : (/\ h = 0 \/ {r \in DOMAIN db' : r[1] = h} # {}
              /\ \A r \in DOMAIN db' : r[1] <= h) <=> IsTop(DOMAIN db', h)
  BY DEF IsTop
<1>2. QED BY <1>1 DEF Top, TopOf, RowsAt

\* The top is one.
LEMMA TopNow == ASSUME RowsOK PROVE Top \in 0..Len(node) /\ IsTop(DOMAIN db, Top)
<1>1. Len(node) \in 0..MaxHeight /\ \A r \in DOMAIN db : r[1] \in 1..Len(node)
  BY ChainSyncAssumption DEF RowsOK
<1>2. QED BY <1>1, TopDef, TopExists

\* The next one is one.
LEMMA TopNext == ASSUME RowsOK' PROVE Top' \in 0..Len(node') /\ IsTop(DOMAIN db', Top')
<1>1. Len(node') \in 0..MaxHeight /\ \A r \in DOMAIN db' : r[1] \in 1..Len(node')
  BY ChainSyncAssumption DEF RowsOK
<1>2. QED BY <1>1, TopDefNext, TopExists

-----------------------------------------------------------------------------
(* What a change of the rows, or of the node's chain, does.                *)

\* The rows of the next state are right, no height became wrong, and a block of the
\* node was not replaced by one of the first branch.
Kept ==
  /\ RowsOK' /\ CursorOK' /\ Len(node) <= Len(node') /\ reorgs <= reorgs'
  /\ \A g \in 1..Len(node) : Wrong(g)' => Wrong(g)
  /\ \A h \in 1..Len(node) : node'[h] = node[h] \/ node'[h] > 0

\* The block at a height above the genesis block.
LEMMA BlockIs == \A g \in Nat : g # 0 => Block(g) = <<g, node[g]>>
  BY DEF Block

\* The same in the next state.
LEMMA BlockIsNext == \A g \in Nat : g # 0 => Block(g)' = <<g, node'[g]>>
  BY DEF Block

\* A wrong height in the next state.
LEMMA WrongNext ==
  ASSUME NEW g \in Nat, g # 0
  PROVE  Wrong(g)' <=> \/ {r \in DOMAIN db' : r[1] = g} = {} /\ g \notin emptied'
                       \/ <<g, node'[g]>> \in DOMAIN db' /\ db'[<<g, node'[g]>>] # Good
  BY DEF Wrong, RowsAt, Block, Good

\* A wrong height.
LEMMA WrongNow ==
  ASSUME NEW g \in Nat, g # 0
  PROVE  Wrong(g) <=> \/ {r \in DOMAIN db : r[1] = g} = {} /\ g \notin emptied
                      \/ <<g, node[g]>> \in DOMAIN db /\ db[<<g, node[g]>>] # Good
  BY DEF Wrong, RowsAt, Block

\* The chain grows; blocks may be replaced by some that nobody has stored.
LEMMA ChainGrows ==
  ASSUME RowsOK, CursorOK, UNCHANGED <<db, emptied, cursor>>, reorgs' \in Nat, reorgs <= reorgs',
         node' \in Seq(Nat), Len(node') = Len(node) + 1, Len(node) < MaxHeight,
         \A h \in 1..Len(node') : node'[h] <= reorgs',
         \A h \in 1..Len(node) : node'[h] = node[h] \/ node'[h] > reorgs
  PROVE  Kept
<1> DEFINE n == Len(node)
<1>0. n \in Nat /\ n >= 1 /\ MaxHeight \in Nat /\ reorgs \in Nat /\ Len(node') = n + 1 /\ n < MaxHeight
  BY ChainSyncAssumption DEF RowsOK
<1> HIDE DEF n
<1>2. RowsOK'
  <2>1. ASSUME NEW r \in DOMAIN db
        PROVE  r \in (1..(n + 1)) \X Nat /\ r[2] <= reorgs' /\ db[r] \in Shapes /\ (r[2] # 0 => db[r] = Good)
    <3>1. /\ r \in (1..n) \X Nat /\ r[2] <= reorgs /\ db[r] \in Shapes /\ (r[2] # 0 => db[r] = Good)
      BY DEF RowsOK, n
    <3>2. r[2] \in Nat /\ r[1] \in 1..n /\ r = <<r[1], r[2]>>
      BY <3>1
    <3>3. r[1] \in 1..(n + 1) /\ r[2] <= reorgs'
      BY <1>0, <3>1, <3>2
    <3>4. QED BY <3>1, <3>2, <3>3
  <2>2. Len(node') \in 1..MaxHeight
    BY <1>0
  <2>3. \A h \in emptied' : RowsAt(h)' = {}
    BY DEF RowsOK, RowsAt
  <2>4. QED BY <1>0, <2>1, <2>2, <2>3 DEF RowsOK, Shapes, Good, Kinds
<1>3. CursorOK'
  BY <1>0 DEF CursorOK, n
<1>7. ASSUME NEW g \in 1..n, Wrong(g)' PROVE Wrong(g)
  <2>0. g \in Nat /\ g # 0
    BY <1>0
  <2>1. \/ {r \in DOMAIN db : r[1] = g} = {} /\ g \notin emptied
        \/ <<g, node'[g]>> \in DOMAIN db /\ db[<<g, node'[g]>>] # Good
    BY <1>7, <2>0, WrongNext
  <2>2. CASE node'[g] = node[g]
    BY <2>0, <2>1, <2>2, WrongNow
  <2>3. CASE node'[g] > reorgs
    <3>1. <<g, node'[g]>>[2] = node'[g] /\ node'[g] \in Nat
      BY <1>0
    <3>2. <<g, node'[g]>> \notin DOMAIN db
      BY <1>0, <2>3, <3>1 DEF RowsOK
    <3>3. QED BY <2>0, <2>1, <3>2, WrongNow
  <2>4. QED BY <2>2, <2>3 DEF n
<1>8. ASSUME NEW h \in 1..n PROVE node'[h] = node[h] \/ node'[h] > 0
  <2>1. node'[h] \in Nat
    BY <1>0
  <2>2. QED BY <1>0, <2>1 DEF n
<1>9. QED BY <1>0, <1>2, <1>3, <1>7, <1>8 DEF Kept, n

\* A row is deleted, if it is there.
LEMMA RowDeleted ==
  ASSUME RowsOK, UNCHANGED <<node, reorgs>>, CursorOK', NEW r, Delete(r)
  PROVE  Kept
<1>0. Len(node) \in Nat /\ reorgs \in Nat /\ node' = node /\ reorgs' = reorgs
  BY DEF RowsOK
<1>1. /\ DOMAIN db' = DOMAIN db \ {r} /\ \A q \in DOMAIN db' : db'[q] = db[q]
      /\ db' = [q \in DOMAIN db' |-> db'[q]]
      /\ emptied' = IF RowsAt(r[1]) = {r} THEN emptied \cup {r[1]} ELSE emptied
  BY DEF Delete, Without
<1>2. \A g : RowsAt(g)' = RowsAt(g) \ {r}
  BY <1>1 DEF RowsAt
<1>3. ASSUME NEW h \in emptied' PROVE RowsAt(h)' = {}
  <2>1. CASE h \in emptied
    BY <1>2, <2>1 DEF RowsOK
  <2>2. CASE h \notin emptied
    BY <1>1, <1>2, <2>2
  <2>3. QED BY <2>1, <2>2
<1>4. RowsOK'
  BY <1>0, <1>1, <1>3 DEF RowsOK, Shapes, Good, Kinds
<1>5. ASSUME NEW g \in 1..Len(node), Wrong(g)' PROVE Wrong(g)
  <2>0. g \in Nat /\ g # 0
    BY <1>0
  <2>1. CASE RowsAt(g)' = {} /\ g \notin emptied'
    <3>1. RowsAt(g) # {r}
      <4>1. ASSUME RowsAt(g) = {r} PROVE FALSE
        <5>1. r[1] = g
          BY <4>1 DEF RowsAt
        <5>2. QED BY <1>1, <2>1, <4>1, <5>1
      <4>2. QED BY <4>1
    <3>2. RowsAt(g) = {}
      BY <1>2, <2>1, <3>1
    <3>3. g \notin emptied
      BY <1>1, <2>1
    <3>4. QED BY <3>2, <3>3 DEF Wrong
  <2>2. CASE <<g, node'[g]>> \in DOMAIN db' /\ db'[<<g, node'[g]>>] # Good
    BY <1>0, <1>1, <2>0, <2>2, WrongNow
  <2>3. QED BY <1>5, <2>0, <2>1, <2>2, WrongNext DEF RowsAt
<1>6. QED BY <1>0, <1>4, <1>5 DEF Kept

\* A block is stored.
LEMMA RowStored ==
  ASSUME RowsOK, UNCHANGED <<node, reorgs>>, CursorOK',
         NEW r \in (1..Len(node)) \X Nat, r[2] <= reorgs, Put(r)
  PROVE  Kept
<1>0. Len(node) \in Nat /\ reorgs \in Nat /\ node' = node /\ reorgs' = reorgs
  BY DEF RowsOK
<1>1. /\ DOMAIN db' = DOMAIN db \cup {r} /\ db'[r] = Good
      /\ \A q \in DOMAIN db : q # r => db'[q] = db[q]
      /\ db' = [q \in DOMAIN db' |-> db'[q]] /\ emptied' = emptied \ {r[1]}
  BY DEF Put, With
<1>2. \A g : RowsAt(g) \subseteq RowsAt(g)' /\ (g # r[1] => RowsAt(g)' = RowsAt(g)) /\ r \in RowsAt(r[1])'
  BY <1>1 DEF RowsAt
<1>3. \A h \in emptied' : RowsAt(h)' = {}
  BY <1>1, <1>2 DEF RowsOK
<1>4. RowsOK'
  <2>1. ASSUME NEW q \in DOMAIN db'
        PROVE  q \in (1..Len(node)) \X Nat /\ q[2] <= reorgs /\ db'[q] \in Shapes /\ (q[2] # 0 => db'[q] = Good)
    <3>1. CASE q = r
      BY <1>1, <3>1 DEF Shapes, Good
    <3>2. CASE q \in DOMAIN db /\ q # r
      BY <1>1, <3>2 DEF RowsOK
    <3>3. QED BY <1>1, <3>1, <3>2
  <2>2. Shapes' = Shapes /\ Good' = Good
    BY DEF Shapes, Good, Kinds
  <2>3. node \in Seq(Nat) /\ Len(node) \in 1..MaxHeight /\ \A h \in 1..Len(node) : node[h] <= reorgs
    BY DEF RowsOK
  <2>4. QED BY <1>0, <1>1, <1>3, <2>1, <2>2, <2>3 DEF RowsOK
<1>5. ASSUME NEW g \in 1..Len(node), Wrong(g)' PROVE Wrong(g)
  <2>0. g \in Nat /\ g # 0
    BY <1>0
  <2>1. CASE RowsAt(g)' = {} /\ g \notin emptied'
    <3>1. g # r[1] /\ RowsAt(g) = {} /\ g \notin emptied
      BY <1>1, <1>2, <2>1
    <3>2. QED BY <3>1 DEF Wrong
  <2>2. CASE <<g, node'[g]>> \in DOMAIN db' /\ db'[<<g, node'[g]>>] # Good
    <3>1. <<g, node[g]>> # r /\ <<g, node[g]>> \in DOMAIN db /\ db'[<<g, node[g]>>] = db[<<g, node[g]>>]
      BY <1>0, <1>1, <2>2
    <3>2. QED BY <1>0, <2>0, <2>2, <3>1, WrongNow
  <2>3. QED BY <1>5, <2>0, <2>1, <2>2, WrongNext DEF RowsAt
<1>6. QED BY <1>0, <1>4, <1>5 DEF Kept

\* The rows of the next state, on the same chain.
LEMMA RowsStay ==
  ASSUME node \in Seq(Nat), Len(node) \in 1..MaxHeight, reorgs \in Nat,
         \A h \in 1..Len(node) : node[h] <= reorgs, node' = node, reorgs' = reorgs,
         \A r \in DOMAIN db' : r \in (1..Len(node')) \X Nat /\ r[2] <= reorgs' /\ db'[r] \in Shapes'
                              /\ (r[2] # 0 => db'[r] = Good'),
         db' = [r \in DOMAIN db' |-> db'[r]], \A h \in emptied' : RowsAt(h)' = {}
  PROVE  RowsOK'
  BY DEF RowsOK

\* A transaction is repaired, or stays damaged.
LEMMA RowAligned ==
  ASSUME RowsOK, UNCHANGED <<node, reorgs, emptied>>, CursorOK',
         NEW b \in DOMAIN db, NEW i \in 1..Txs, NEW k \in Kinds \cup {"ok"},
         k = "ok" \/ db[b][i] # "ok", db' = [db EXCEPT ![b][i] = k]
  PROVE  Kept
<1>0. Len(node) \in Nat /\ reorgs \in Nat /\ node' = node /\ reorgs' = reorgs
  BY DEF RowsOK
<1>1. db[b] \in Shapes /\ Good \in Shapes /\ Good[i] = "ok" /\ db = [r \in DOMAIN db |-> db[r]]
  BY DEF RowsOK, Shapes, Good
<1>2. /\ DOMAIN db' = DOMAIN db /\ db'[b] = [db[b] EXCEPT ![i] = k]
      /\ \A q \in DOMAIN db \ {b} : db'[q] = db[q]
      /\ db' = [r \in DOMAIN db' |-> db'[r]]
  BY <1>1
<1>3. db'[b] \in Shapes /\ (db[b] = Good => db'[b] = Good)
  <2>1. db'[b] \in Shapes
    BY <1>1, <1>2 DEF Shapes
  <2>2. ASSUME db[b] = Good PROVE db'[b] = Good
    <3>1. k = "ok"
      BY <1>1, <2>2
    <3>2. QED BY <1>1, <1>2, <2>2, <3>1 DEF Good
  <2>3. QED BY <2>1, <2>2
<1>4. RowsOK'
  <2>1. ASSUME NEW r \in DOMAIN db
        PROVE  r \in (1..Len(node)) \X Nat /\ r[2] <= reorgs /\ db'[r] \in Shapes /\ (r[2] # 0 => db'[r] = Good)
    <3>1. CASE r = b
      BY <1>3, <3>1 DEF RowsOK
    <3>2. CASE r # b
      BY <1>2, <3>2 DEF RowsOK
    <3>3. QED BY <3>1, <3>2
  <2>2. \A h \in emptied' : RowsAt(h)' = {}
    BY <1>2 DEF RowsOK, RowsAt
  <2>3. Shapes' = Shapes /\ Good' = Good
    BY DEF Shapes, Good, Kinds
  <2>4. node \in Seq(Nat) /\ Len(node) \in 1..MaxHeight /\ \A h \in 1..Len(node) : node[h] <= reorgs
    BY DEF RowsOK
  <2>5. /\ \A r \in DOMAIN db' : r \in (1..Len(node')) \X Nat /\ r[2] <= reorgs' /\ db'[r] \in Shapes'
                                /\ (r[2] # 0 => db'[r] = Good')
        /\ db' = [r \in DOMAIN db' |-> db'[r]]
    <3>1. \A r \in DOMAIN db' : r \in DOMAIN db
      BY <1>2
    <3>2. QED BY <1>0, <1>2, <2>1, <2>3, <3>1
  <2>6. QED BY <1>0, <2>2, <2>4, <2>5, RowsStay
<1>5. ASSUME NEW g \in 1..Len(node), Wrong(g)' PROVE Wrong(g)
  <2>0. g \in Nat /\ g # 0
    BY <1>0
  <2>1. \/ {r \in DOMAIN db : r[1] = g} = {} /\ g \notin emptied
        \/ <<g, node[g]>> \in DOMAIN db /\ db'[<<g, node[g]>>] # Good
    BY <1>0, <1>2, <1>5, <2>0, WrongNext
  <2>2. <<g, node[g]>> \in DOMAIN db /\ db'[<<g, node[g]>>] # Good => db[<<g, node[g]>>] # Good
    BY <1>2, <1>3
  <2>3. QED BY <2>0, <2>1, <2>2, WrongNow
<1>6. QED BY <1>0, <1>4, <1>5 DEF Kept

-----------------------------------------------------------------------------
(* The list of errors.                                                     *)

\* Heights is the union of the heights of the entries.
LEMMA HeightsOf ==
  ASSUME NEW es \in Seq(Entries), NEW x
  PROVE  x \in Heights(es) <=> \E i \in 1..Len(es) : x \in es[i].heights
  BY DEF Heights

\* Heights are numbers.
LEMMA HeightsType == ASSUME NEW es \in Seq(Entries) PROVE Heights(es) \in SUBSET Nat
<1>1. ASSUME NEW x \in Heights(es) PROVE x \in Nat
  <2>1. PICK i \in 1..Len(es) : x \in es[i].heights
    BY HeightsOf
  <2>2. es[i] \in Entries
    OBVIOUS
  <2>3. QED BY <2>1, <2>2 DEF Entries
<1>2. QED BY <1>1

\* recordError keeps the list short, with one entry for an error, and lists the
\* height.
LEMMA RecordErrorGood ==
  ASSUME NEW es, GoodErrors(es), NEW area \in Areas, NEW h \in Nat
  PROVE  GoodErrors(recordError(es, area, h)) /\ h \in Heights(recordError(es, area, h))
<1> DEFINE L == Listed(es, area, h)
           n == Len(es)
<1>b. es \in Seq(Entries) /\ n <= MaxErrors /\ \A i, j \in DOMAIN es : Apart(es, i, j)
  BY DEF GoodErrors
<1>c. DOMAIN es = 1..n /\ n \in Nat
  BY <1>b
<1>0. /\ es \in Seq(Entries) /\ n \in Nat /\ DOMAIN es = 1..n /\ n <= MaxErrors /\ MaxErrors \in Nat
      /\ MaxErrors >= 1 /\ \A i, j \in 1..n : Apart(es, i, j)
      /\ \A i \in 1..n : es[i] \in Entries
  BY <1>b, <1>c, ChainSyncAssumption
<1>a. L = {i \in 1..n : es[i].area = area /\ (area = "daemon-process-block" => h \in es[i].heights)}
  BY <1>0 DEF Listed
<1> HIDE DEF L
<1>1. CASE L # {}
  <2> DEFINE f == [i \in DOMAIN es |-> IF i \in L THEN [es[i] EXCEPT !.heights = @ \cup {h}] ELSE es[i]]
  <2>1. recordError(es, area, h) = f
    BY <1>1 DEF recordError, L
  <2>2. ASSUME NEW i \in 1..n
        PROVE  /\ f[i] \in Entries /\ f[i].area = es[i].area
               /\ i \in L => h \in f[i].heights
               /\ area = "daemon-process-block" \/ es[i].area # area => f[i].heights = es[i].heights
    <3>1. es[i] \in [area : Areas, heights : SUBSET Nat] /\ i \in DOMAIN es
      BY <1>0 DEF Entries
    <3>2. [es[i] EXCEPT !.heights = @ \cup {h}] \in Entries
          /\ [es[i] EXCEPT !.heights = @ \cup {h}].area = es[i].area
          /\ [es[i] EXCEPT !.heights = @ \cup {h}].heights = es[i].heights \cup {h}
      BY <3>1 DEF Entries
    <3>3. i \in L /\ area = "daemon-process-block" => es[i].heights \cup {h} = es[i].heights
      BY <1>a
    <3>4. es[i].area # area => i \notin L
      BY <1>a
    <3>5. CASE i \in L
      BY <3>1, <3>2, <3>3, <3>4, <3>5 DEF Entries
    <3>6. CASE i \notin L
      BY <3>1, <3>6 DEF Entries
    <3>7. QED BY <3>5, <3>6
  <2>3. DOMAIN f = 1..n
    BY <1>0
  <2> HIDE DEF f
  <2>4. f \in Seq(Entries) /\ Len(f) = n
    <3>1. f = [i \in 1..n |-> f[i]]
      BY <1>0 DEF f
    <3>2. f \in [1..n -> Entries]
      BY <2>2, <3>1
    <3>3. QED BY <1>0, <3>2
  <2>a. ASSUME NEW i \in 1..n, NEW j \in 1..n PROVE Apart(f, i, j)
    <3>1. SUFFICES ASSUME f[i].area = f[j].area, i # j
                   PROVE  f[i].area = "daemon-process-block" /\ f[i].heights \cap f[j].heights = {}
      BY DEF Apart
    <3>2. es[i].area = es[j].area
      BY <2>2, <3>1
    <3>3. es[i].area = "daemon-process-block" /\ es[i].heights \cap es[j].heights = {}
      BY <1>0, <3>1, <3>2 DEF Apart
    <3>4. f[i].heights = es[i].heights /\ f[j].heights = es[j].heights
      BY <2>2, <3>2, <3>3
    <3>5. QED BY <2>2, <3>3, <3>4
  <2>5. GoodErrors(f)
    BY <1>0, <2>3, <2>4, <2>a DEF GoodErrors
  <2>6. h \in Heights(f)
    <3>1. PICK i \in L : TRUE
      BY <1>1
    <3>2. i \in 1..n
      BY <1>a
    <3>3. QED BY <2>2, <2>4, <3>1, <3>2, HeightsOf
  <2>7. QED BY <2>1, <2>5, <2>6
<1>2. CASE L = {}
  <2> DEFINE e == [area |-> area, heights |-> {h}]
             f == Append(es, e)
  <2>1. e \in Entries /\ e.area = area /\ e.heights = {h}
    BY DEF Entries
  <2>2. recordError(es, area, h) = IF Len(f) > MaxErrors THEN Tail(f) ELSE f
    BY <1>2 DEF recordError, L
  <2> HIDE DEF e
  <2>3. /\ f \in Seq(Entries) /\ Len(f) = n + 1 /\ f[n + 1] = e
        /\ \A i \in 1..n : f[i] = es[i]
    BY <1>0, <2>1
  <2> HIDE DEF f
  <2>4. \A i \in 1..(n + 1) : i \in 1..n \/ i = n + 1
    BY <1>0
  <2>5. \A i \in 1..n : es[i].area = area => area = "daemon-process-block" /\ h \notin es[i].heights
    BY <1>2, <1>a
  <2>6. ASSUME NEW i \in 1..(n + 1), NEW j \in 1..(n + 1) PROVE Apart(f, i, j)
    <3>1. CASE i \in 1..n /\ j \in 1..n
      BY <1>0, <2>3, <3>1 DEF Apart
    <3>2. CASE i = n + 1 /\ j \in 1..n
      BY <2>1, <2>3, <2>5, <3>2 DEF Apart
    <3>3. CASE i \in 1..n /\ j = n + 1
      BY <2>1, <2>3, <2>5, <3>3 DEF Apart
    <3>4. CASE i = n + 1 /\ j = n + 1
      BY <3>4 DEF Apart
    <3>5. QED BY <2>4, <3>1, <3>2, <3>3, <3>4
  <2>7. CASE Len(f) > MaxErrors
    <3> DEFINE t == Tail(f)
    <3>0. f # <<>> /\ n + 1 > MaxErrors /\ n >= 1
      BY <1>0, <2>3, <2>7
    <3>1. t \in Seq(Entries) /\ Len(t) = n /\ \A i \in 1..n : t[i] = f[i + 1]
      BY <1>0, <2>3, <3>0
    <3> HIDE DEF t
    <3>2. \A i \in 1..n : i + 1 \in 1..(n + 1)
      BY <1>0
    <3>3. ASSUME NEW i \in 1..n, NEW j \in 1..n PROVE Apart(t, i, j)
      <4>1. t[i] = f[i + 1] /\ t[j] = f[j + 1] /\ i + 1 \in 1..(n + 1) /\ j + 1 \in 1..(n + 1)
        BY <3>1, <3>2
      <4>2. i + 1 = j + 1 => i = j
        BY <1>0
      <4>3. Apart(f, i + 1, j + 1)
        BY <2>6, <4>1
      <4>4. QED BY <4>1, <4>2, <4>3 DEF Apart
    <3>4. DOMAIN t = 1..n
      BY <3>1
    <3>5. GoodErrors(t)
      BY <1>0, <3>1, <3>3, <3>4 DEF GoodErrors
    <3>6. n \in 1..n /\ t[n] = e
      BY <1>0, <2>3, <3>0, <3>1
    <3>7. h \in Heights(t)
      BY <2>1, <3>1, <3>6, HeightsOf
    <3>8. QED BY <2>2, <2>7, <3>5, <3>7 DEF t
  <2>8. CASE ~(Len(f) > MaxErrors)
    <3>1. DOMAIN f = 1..(n + 1) /\ Len(f) <= MaxErrors
      BY <1>0, <2>3, <2>8
    <3>2. GoodErrors(f)
      BY <2>3, <2>6, <3>1 DEF GoodErrors
    <3>3. n + 1 \in 1..Len(f)
      BY <1>0, <2>3
    <3>4. h \in Heights(f)
      BY <2>1, <2>3, <3>3, HeightsOf
    <3>5. QED BY <2>2, <2>8, <3>2, <3>4
  <2>9. QED BY <2>7, <2>8
<1>3. QED BY <1>1, <1>2

\* Record keeps every height that was reported.
LEMMA RecordGood ==
  ASSUME GoodState(job.s), NEW es, GoodErrors(es), NEW lost \in SUBSET Nat
  PROVE  /\ GoodState(Record(es, lost)) /\ Record(es, lost).last = job.s.last
         /\ Marked(job.s) \cup Heights(es) \cup lost \subseteq Marked(Record(es, lost))
<1> DEFINE H == Heights(job.s.errors)
           f == job.s.forgotten \cup (H \ Heights(es)) \cup lost
<1>0. /\ job.s \in States /\ es \in Seq(Entries) /\ job.s.errors \in Seq(Entries)
      /\ job.s.forgotten \in SUBSET Nat
  BY DEF GoodState, GoodErrors, States
<1>1. H \in SUBSET Nat
  BY <1>0, HeightsType
<1>2. f \in SUBSET Nat
  BY <1>0, <1>1
<1>3. Record(es, lost) = [job.s EXCEPT !.errors = es, !.forgotten = f]
  BY DEF Record
<1> HIDE DEF f, H
<1>4. /\ Record(es, lost) \in States /\ Record(es, lost).errors = es
      /\ Record(es, lost).forgotten = f /\ Record(es, lost).last = job.s.last
      /\ Record(es, lost).max = job.s.max
  BY <1>0, <1>2, <1>3 DEF States
<1>5. GoodState(Record(es, lost))
  BY <1>4 DEF GoodState
<1>6. QED BY <1>4, <1>5 DEF Marked, f, H

-----------------------------------------------------------------------------
(* The steps.                                                              *)

\* A good state stays one.
LEMMA StateKept ==
  ASSUME NEW s, GoodState(s), Kept, RowsOK
  PROVE  s \in States /\ GoodErrors(s.errors) /\ s.last <= s.max /\ s.max <= Len(node')
         /\ s.last \in 0..Len(node) /\ s.max <= Len(node)
  BY DEF GoodState, Kept, RowsOK, States

\* The heights that were clean stay so.
LEMMA CleanKept ==
  ASSUME NEW s, NEW n \in 0..Len(node), Kept, RowsOK, Clean(s, n)
  PROVE  \A g \in 1..n : Wrong(g)' => g \in Marked(s)
<1>1. 1..n \subseteq 1..Len(node)
  BY DEF RowsOK
<1>2. QED BY <1>1 DEF Clean, Kept

\* The saved state, when it is not written.
LEMMA SavedKept ==
  ASSUME IInv, Kept, saved' = saved
  PROVE  GoodState(saved)' /\ Clean(saved, saved.last)'
<1>1. RowsOK /\ GoodState(saved) /\ Clean(saved, saved.last)
  BY DEF IInv, Reports
<1>2. GoodState(saved)' /\ saved.last \in 0..Len(node)
  BY <1>1, StateKept DEF GoodState, GoodErrors, Apart
<1>3. \A g \in 1..saved.last : Wrong(g)' => g \in Marked(saved)
  BY <1>1, <1>2, CleanKept
<1>4. QED BY <1>2, <1>3 DEF Clean, Marked

\* What the states of the job say.
LEMMA JobAt ==
  ASSUME IInv
  PROVE  /\ job.at \in {"idle", "loop"} \cup Busy /\ (job.at = "idle" <=> job = Idle)
         /\ job.at \in Busy =>
              /\ Shape(job) /\ Filling(job)
              /\ GoodState(job.s) /\ job.b \in Nat \X Nat /\ job.b[1] = job.s.last
              /\ job.s.last \in 1..Len(node) /\ job.s.last >= 1
              /\ (job.b # <<job.b[1], node[job.b[1]]>> => node[job.b[1]] # 0)
              /\ Clean(job.s, job.s.last - 1)
         /\ job.at = "loop" => GoodState(job.s) /\ Clean(job.s, job.s.last)
<1>1. job.at \in {"idle", "loop"} \cup Busy /\ (job.at = "idle" <=> job = Idle)
  BY DEF IInv, JobOK, Idle, Shape, Busy
<1>2. ASSUME job.at \in Busy
      PROVE  /\ Shape(job) /\ Filling(job)
             /\ GoodState(job.s) /\ job.b \in Nat \X Nat /\ job.b[1] = job.s.last
             /\ job.s.last \in 1..Len(node) /\ job.s.last >= 1
             /\ (job.b # <<job.b[1], node[job.b[1]]>> => node[job.b[1]] # 0)
             /\ Clean(job.s, job.s.last - 1)
  <2>1. /\ Shape(job) /\ Filling(job)
        /\ GoodState(job.s) /\ job.b[1] = job.s.last /\ job.s.last >= 1
        /\ (job.b # <<job.b[1], node[job.b[1]]>> => node[job.b[1]] # 0)
    BY <1>2 DEF IInv, JobOK, Idle, Busy
  <2>2. job.s.last \in 1..Len(node)
    BY <2>1 DEF GoodState, States, IInv, RowsOK
  <2>3. job.b \in Nat \X Nat
    BY <2>1 DEF Shape
  <2>4. QED BY <1>2, <2>1, <2>2, <2>3 DEF IInv, Reports
<1>5. job.at = "loop" => GoodState(job.s) /\ Clean(job.s, job.s.last)
  BY DEF IInv, JobOK, Reports, Idle, Shape
<1>6. QED BY <1>1, <1>2, <1>5

\* A job that RunBlockProcessing is at work for stays right.
LEMMA FillingKept == ASSUME NEW j, Filling(j), Shape(j), reorgs \in Nat, reorgs' \in Nat, reorgs <= reorgs'
                     PROVE  Filling(j)'
<1>1. j.at \in {"check", "store"} => j.json[1] = j.b[1] /\ j.json[2] <= reorgs /\ j.json[2] \in Nat
  BY DEF Filling, Shape
<1>2. j.at \in {"check", "store"} => j.json[2] <= reorgs'
  BY <1>1
<1>3. QED BY <1>1, <1>2 DEF Filling

\* The job waits, while the node or the daemon does something.
LEMMA JobWaits ==
  ASSUME IInv, Kept, UNCHANGED <<saved, job>>, Aligned'
  PROVE  IInv'
<1>0. RowsOK /\ saved' = saved /\ job' = job
  BY DEF IInv
<1>1. GoodState(saved)' /\ Clean(saved, saved.last)'
  BY SavedKept
<1>2. CASE job = Idle
  <2>1. job.at = "idle"
    BY <1>2 DEF Idle
  <2>2. QED BY <1>0, <1>1, <1>2, <2>1 DEF IInv, Kept, JobOK, Reports, Busy
<1>3. CASE job.at = "loop"
  <2>1. GoodState(job.s) /\ Clean(job.s, job.s.last)
    BY <1>3, JobAt
  <2>2. GoodState(job.s)' /\ job.s.last \in 0..Len(node)
    BY <1>0, <2>1, StateKept DEF GoodState, GoodErrors, Apart
  <2>3. \A g \in 1..job.s.last : Wrong(g)' => g \in Marked(job.s)
    BY <1>0, <2>1, <2>2, CleanKept
  <2>4. Reports' /\ JobOK'
    BY <1>0, <1>1, <1>3, <2>2, <2>3 DEF Reports, JobOK, Clean, Marked, Busy
  <2>5. QED BY <2>4 DEF IInv, Kept
<1>4. CASE job.at \in Busy
  <2>1. /\ Shape(job) /\ Filling(job)
        /\ GoodState(job.s) /\ job.b \in Nat \X Nat /\ job.b[1] = job.s.last
        /\ job.s.last \in 1..Len(node) /\ job.s.last >= 1
        /\ (job.b # <<job.b[1], node[job.b[1]]>> => node[job.b[1]] # 0)
        /\ Clean(job.s, job.s.last - 1)
    BY <1>4, JobAt
  <2>2. GoodState(job.s)'
    BY <1>0, <2>1, StateKept DEF GoodState, GoodErrors, Apart
  <2>3. job.s.last - 1 \in 0..Len(node)
    BY <1>0, <2>1 DEF RowsOK
  <2>4. \A g \in 1..(job.s.last - 1) : Wrong(g)' => g \in Marked(job.s)
    BY <1>0, <2>1, <2>3, CleanKept
  <2>5. job.b # <<job.b[1], node'[job.b[1]]>> => node'[job.b[1]] # 0
    <3>1. node'[job.b[1]] = node[job.b[1]] \/ node'[job.b[1]] > 0
      BY <2>1 DEF Kept
    <3>2. QED BY <2>1, <3>1
  <2>6. JobOK'
    <3>1. Filling(job)'
      <4>1. reorgs \in Nat /\ reorgs' \in Nat /\ reorgs <= reorgs'
        BY <1>0 DEF Kept, RowsOK
      <4>2. QED BY <1>0, <2>1, <4>1, FillingKept DEF Filling
    <3>2. Shape(job)'
      BY <1>0, <2>1 DEF Shape, States, Entries, Areas
    <3>3. QED BY <1>0, <2>1, <2>2, <2>5, <3>1, <3>2 DEF JobOK
  <2>7. Reports'
    BY <1>0, <1>1, <1>4, <2>4 DEF Reports, Clean, Marked, Busy
  <2>8. QED BY <2>6, <2>7 DEF IInv, Kept
<1>5. QED BY <1>2, <1>3, <1>4, JobAt

\* The job leaves a block that is right or reported.
LEMMA LeaveBlock ==
  ASSUME IInv, Kept, saved' = saved, job.at \in Busy,
         NEW s, GoodState(s), s.last = job.s.last, Marked(job.s) \subseteq Marked(s),
         NEW h, h = job.s.last, Wrong(h)' => h \in Marked(s),
         job' = [at |-> "loop", ran |-> TRUE, s |-> s]
  PROVE  IInv'
<1>0. RowsOK /\ job'.at = "loop" /\ job'.s = s
  BY DEF IInv
<1>1. GoodState(saved)' /\ Clean(saved, saved.last)'
  BY SavedKept
<1>2. job.s.last \in 1..Len(node) /\ Clean(job.s, job.s.last - 1) /\ Len(node) \in Nat
  BY <1>0, JobAt DEF RowsOK
<1>3. job.s.last - 1 \in 0..Len(node)
  BY <1>2
<1>4. \A g \in 1..(job.s.last - 1) : Wrong(g)' => g \in Marked(job.s)
  BY <1>0, <1>2, <1>3, CleanKept
<1>5. ASSUME NEW g \in 1..s.last, Wrong(g)' PROVE g \in Marked(s)
  <2>1. g = job.s.last \/ g \in 1..(job.s.last - 1)
    BY <1>2
  <2>2. CASE g = job.s.last
    BY <1>5, <2>2
  <2>3. CASE g \in 1..(job.s.last - 1)
    BY <1>4, <1>5, <2>3
  <2>4. QED BY <2>1, <2>2, <2>3
<1>6. GoodState(job.s)'
  BY <1>0, StateKept DEF GoodState, GoodErrors, Apart
<1>7. JobOK' /\ Aligned'
  BY <1>0, <1>6 DEF JobOK, Aligned
<1>8. Reports'
  BY <1>0, <1>1, <1>5 DEF Reports, Clean, Marked, Busy
<1>9. QED BY <1>7, <1>8 DEF IInv, Kept

\* The job leaves a block after an error.
LEMMA LeaveReported ==
  ASSUME IInv, Kept, saved' = saved, job.at \in Busy,
         NEW es, GoodErrors(es), job.b[1] \in Heights(es), Leave(Record(es, {}))
  PROVE  IInv'
<1>1. GoodState(job.s) /\ job.b[1] = job.s.last
  BY JobAt
<1> DEFINE s == Record(es, {})
<1>2. GoodState(s) /\ s.last = job.s.last /\ Marked(job.s) \cup Heights(es) \cup {} \subseteq Marked(s)
  BY <1>1, RecordGood
<1>3. job' = [at |-> "loop", ran |-> TRUE, s |-> s]
  BY DEF Leave
<1> HIDE DEF s
<1>4. Marked(job.s) \subseteq Marked(s) /\ job.s.last \in Marked(s)
  BY <1>1, <1>2
<1>5. PICK h : h = job.s.last
  OBVIOUS
<1>6. QED BY <1>2, <1>3, <1>4, <1>5, LeaveBlock

\* The job gives the block up with an error.
LEMMA GivenUp ==
  ASSUME IInv, Kept, saved' = saved, job.at \in Busy, NEW area \in Areas, GiveUp(area)
  PROVE  IInv'
<1> DEFINE es == recordError(job.s.errors, area, job.b[1])
<1>1. GoodErrors(job.s.errors) /\ job.b[1] \in Nat
  BY JobAt DEF GoodState
<1>2. GoodErrors(es) /\ job.b[1] \in Heights(es)
  BY <1>1, RecordErrorGood
<1>3. Leave(Record(es, {}))
  BY DEF GiveUp
<1> HIDE DEF es
<1>4. QED BY <1>2, <1>3, LeaveReported

\* The job goes on with the block, at which nothing is aligned yet.
LEMMA GoesOn ==
  ASSUME IInv, Kept, saved' = saved, job.at \in Busy, UNCHANGED <<node, reorgs>>,
         NEW j, job' = j, j.at \in Busy, Shape(j), Filling(j), j.s = job.s, j.b = job.b,
         j.at = "align" => j.tx = 1
  PROVE  IInv'
<1>0. RowsOK /\ node' = node /\ reorgs' = reorgs
  BY DEF IInv
<1>1. GoodState(saved)' /\ Clean(saved, saved.last)'
  BY SavedKept
<1>2. /\ GoodState(job.s) /\ job.b \in Nat \X Nat /\ job.b[1] = job.s.last
      /\ job.s.last \in 1..Len(node) /\ job.s.last >= 1
      /\ (job.b # <<job.b[1], node[job.b[1]]>> => node[job.b[1]] # 0)
      /\ Clean(job.s, job.s.last - 1) /\ Len(node) \in Nat
  BY <1>0, JobAt DEF RowsOK
<1>3. job.s.last - 1 \in 0..Len(node)
  BY <1>2
<1>4. \A g \in 1..(job.s.last - 1) : Wrong(g)' => g \in Marked(job.s)
  BY <1>0, <1>2, <1>3, CleanKept
<1>5. job'.s = job.s /\ job'.b = job.b /\ job'.at \in Busy /\ (job'.at = "align" => job'.tx = 1)
  OBVIOUS
<1>6. GoodState(job.s)'
  BY <1>0, <1>2, <1>5, StateKept DEF GoodState, GoodErrors, Apart
<1>7. JobOK'
  <2>1. Shape(job)' /\ Filling(job)'
    BY <1>0 DEF Shape, Filling, States, Entries, Areas
  <2>2. QED BY <1>0, <1>2, <1>5, <1>6, <2>1 DEF JobOK
<1>8. Aligned'
  BY <1>5 DEF Aligned
<1>9. Reports'
  BY <1>1, <1>4, <1>5 DEF Reports, Clean, Marked, Busy
<1>10. QED BY <1>7, <1>8, <1>9 DEF IInv, Kept

\* alignTxs passes a transaction that is right, or whose block is reported.
LEMMA NextTxKept ==
  ASSUME IInv, Kept, saved' = saved, node' = node, job.at = "align",
         NEW s, GoodState(s), s.last = job.s.last, Marked(job.s) \subseteq Marked(s), NextTx(s),
         \/ job.b[1] \in Marked(s)
         \/ job.b \in DOMAIN db' /\ \A i \in 1..job.tx : db'[job.b][i] = "ok"
  PROVE  IInv'
<1>0. RowsOK /\ RowsOK'
  BY DEF IInv, Kept
<1>2. /\ GoodState(job.s) /\ job.b \in Nat \X Nat /\ job.b[1] = job.s.last
      /\ job.s.last \in 1..Len(node) /\ (job.b # <<job.b[1], node[job.b[1]]>> => node[job.b[1]] # 0)
      /\ Clean(job.s, job.s.last - 1) /\ Len(node) \in Nat /\ Shape(job)
  BY <1>0, JobAt DEF RowsOK, Busy
<1>b. job \in [at : {"align"}, s : States, b : Nat \X Nat, tx : 1..Txs]
  BY <1>2 DEF Shape
<1>a. job.tx \in 1..Txs /\ Txs \in Nat
  BY <1>b, ChainSyncAssumption
<1> DEFINE h == job.s.last
           b == job.b
<1>3. CASE job.tx = Txs
  <2>1. job' = [at |-> "loop", ran |-> TRUE, s |-> s]
    BY <1>3 DEF NextTx, Leave
  <2>2. PICK g \in Nat : g = h
    BY <1>2
  <2>3. ASSUME g \notin Marked(s) PROVE ~Wrong(g)'
    <3>0. g \in 1..Len(node) /\ g # 0 /\ node' = node /\ b[1] = g
      BY <1>2, <2>2
    <3>1. /\ b \in DOMAIN db' /\ \A i \in 1..Txs : db'[b][i] = "ok"
      BY <1>2, <1>3, <2>2, <2>3
    <3>2. db'[b] \in Shapes
      BY <1>0, <3>1 DEF RowsOK, Shapes, Kinds
    <3>3. db'[b] = Good
      BY <3>1, <3>2 DEF Shapes, Good
    <3>4. {r \in DOMAIN db' : r[1] = g} # {}
      BY <3>0, <3>1
    <3>5. CASE b = <<g, node[g]>>
      BY <3>0, <3>3, <3>4, <3>5, WrongNext
    <3>6. CASE b # <<g, node[g]>>
      <4>1. node[g] # 0
        BY <1>2, <3>0, <3>6
      <4>2. <<g, node[g]>>[2] = node[g]
        OBVIOUS
      <4>3. <<g, node[g]>> \in DOMAIN db' => db'[<<g, node[g]>>] = Good
        BY <1>0, <4>1, <4>2 DEF RowsOK, Good
      <4>4. QED BY <3>0, <3>4, <4>3, WrongNext
    <3>7. QED BY <3>5, <3>6
  <2>4. job.at \in Busy /\ (Wrong(g)' => g \in Marked(s)) /\ g = job.s.last
    BY <2>2, <2>3 DEF Busy
  <2>5. QED BY <2>1, <2>4, LeaveBlock
<1>4. CASE job.tx # Txs
  <2>1. job' = [job EXCEPT !.tx = @ + 1, !.s = s]
    BY <1>4 DEF NextTx
  <2>2. job.tx + 1 \in 1..Txs /\ s \in States
    BY <1>a, <1>4 DEF GoodState
  <2>3. /\ job' \in [at : {"align"}, s : States, b : Nat \X Nat, tx : 1..Txs]
        /\ job'.s = s /\ job'.b = b /\ job'.tx = job.tx + 1 /\ job'.at = "align"
    BY <1>b, <2>1, <2>2
  <2>4. GoodState(saved)' /\ Clean(saved, saved.last)'
    BY SavedKept
  <2>5. h - 1 \in 0..Len(node) /\ h >= 1
    BY <1>2
  <2>6. \A g \in 1..(h - 1) : Wrong(g)' => g \in Marked(job.s)
    BY <1>0, <1>2, <2>5, CleanKept
  <2>7. GoodState(job.s)'
    BY <1>0, <2>3, StateKept DEF GoodState, GoodErrors, Apart
  <2>8. JobOK'
    <3>1. job'.b # <<job'.b[1], node'[job'.b[1]]>> => node'[job'.b[1]] # 0
      BY <1>2, <2>3
    <3>2. job'.b[1] = job'.s.last /\ job'.s.last >= 1
      BY <1>2, <2>3, <2>5
    <3>3. Shape(job)' /\ Filling(job)'
      BY <2>3 DEF Shape, Filling, States, Entries, Areas
    <3>4. QED BY <2>3, <2>7, <3>1, <3>2, <3>3 DEF JobOK
  <2>9. Aligned'
    <3>1. job'.tx - 1 = job.tx
      BY <1>a, <2>3
    <3>2. QED BY <2>3, <3>1 DEF Aligned, Marked
  <2>10. Reports'
    BY <2>3, <2>4, <2>6 DEF Reports, Clean, Marked, Busy
  <2>11. QED BY <2>8, <2>9, <2>10 DEF IInv, Kept
<1>5. QED BY <1>3, <1>4

\* The rows and the chain do not change.
LEMMA SameRows == ASSUME IInv, UNCHANGED <<node, db, emptied, reorgs>>, CursorOK' PROVE Kept
<1>0. /\ RowsOK /\ node' = node /\ db' = db /\ reorgs' = reorgs /\ emptied' = emptied
      /\ Len(node) \in Nat /\ reorgs \in Nat
  BY DEF IInv, RowsOK
<1>2. \A g : RowsAt(g)' = RowsAt(g) /\ Block(g)' = Block(g) /\ Good' = Good
  BY <1>0 DEF RowsAt, Block, Good
<1>3. RowsOK'
  BY <1>0, <1>2 DEF RowsOK, Shapes, Good, Kinds
<1>4. \A g \in 1..Len(node) : Wrong(g)' => Wrong(g)
  BY <1>0, <1>2 DEF Wrong
<1>5. QED BY <1>0, <1>3, <1>4 DEF Kept

\* Nothing changes but the state of the job.
LEMMA SameAll == ASSUME IInv, UNCHANGED <<node, rows, cursor, reorgs>> PROVE Kept
<1>1. CursorOK'
  BY DEF IInv, CursorOK
<1>2. QED BY <1>1, SameRows DEF rows

\* The node finds a block.
LEMMA ExtendStep == ASSUME IInv, Extend PROVE IInv'
<1> DEFINE n == Len(node)
<1>0. /\ n < MaxHeight /\ node' = Append(node, node[n]) /\ UNCHANGED <<db, emptied, cursor, saved, job, reorgs>>
  BY DEF Extend, Height, rows
<1>1. /\ node \in Seq(Nat) /\ n \in Nat /\ n >= 1 /\ reorgs \in Nat /\ \A h \in 1..n : node[h] <= reorgs
      /\ RowsOK /\ CursorOK
  BY ChainSyncAssumption DEF IInv, RowsOK
<1>2. node[n] \in Nat /\ node[n] <= reorgs
  BY <1>1
<1>3. node' \in Seq(Nat) /\ Len(node') = n + 1 /\ node'[n + 1] = node[n] /\ \A h \in 1..n : node'[h] = node[h]
  BY <1>0, <1>1, <1>2
<1>4. \A h \in 1..(n + 1) : node'[h] <= reorgs
  <2>1. \A h \in 1..(n + 1) : h \in 1..n \/ h = n + 1
    BY <1>1
  <2>2. QED BY <1>1, <1>2, <1>3, <2>1
<1>6. Kept
  <2>1. reorgs' \in Nat /\ reorgs <= reorgs'
    BY <1>0, <1>1
  <2> HIDE DEF n
  <2>2. QED BY <1>0, <1>1, <1>3, <1>4, <2>1, ChainGrows DEF n
<1>7. Aligned'
  BY <1>0 DEF IInv, Aligned, Marked
<1>8. QED BY <1>0, <1>6, <1>7, JobWaits

\* The last blocks are replaced.
LEMMA ReorgStep == ASSUME IInv, Reorg PROVE IInv'
<1> DEFINE n == Len(node)
<1>0. PICK k \in 0..(n - 1) : node' = [h \in 1..(n + 1) |-> IF h <= k THEN node[h] ELSE reorgs + 1]
  BY DEF Reorg, Height
<1>1. n < MaxHeight /\ reorgs' = reorgs + 1 /\ UNCHANGED <<db, emptied, cursor, saved, job>>
  BY DEF Reorg, Height, rows
<1>2. /\ node \in Seq(Nat) /\ n \in Nat /\ n >= 1 /\ reorgs \in Nat
      /\ \A h \in 1..n : node[h] <= reorgs /\ node[h] \in Nat
      /\ RowsOK /\ CursorOK
  BY ChainSyncAssumption DEF IInv, RowsOK
<1> HIDE DEF n
<1>3. reorgs + 1 \in Nat /\ reorgs <= reorgs + 1 /\ reorgs + 1 > reorgs
  BY <1>2
<1>4. ASSUME NEW h \in 1..(n + 1)
      PROVE  /\ node'[h] \in Nat /\ node'[h] <= reorgs + 1
             /\ h \in 1..n => node'[h] = node[h] \/ node'[h] > reorgs
  <2>1. CASE h <= k
    <3>1. h \in 1..n /\ node'[h] = node[h]
      BY <1>0, <1>2, <2>1
    <3>2. QED BY <1>2, <3>1
  <2>2. CASE ~(h <= k)
    <3>1. node'[h] = reorgs + 1
      BY <1>0, <2>2
    <3>2. QED BY <1>2, <1>3, <3>1
  <2>3. QED BY <2>1, <2>2
<1>5. node' \in Seq(Nat) /\ Len(node') = n + 1
  <2>1. node' \in [1..(n + 1) -> Nat]
    BY <1>0, <1>4
  <2>2. n + 1 \in Nat
    BY <1>2
  <2>3. QED BY <2>1, <2>2
<1>6. \A h \in 1..n : h \in 1..(n + 1)
  BY <1>2
<1>7. Kept
  <2>1. \A h \in 1..n : node'[h] = node[h] \/ node'[h] > reorgs
    BY <1>4, <1>6
  <2>2. \A h \in 1..(n + 1) : node'[h] <= reorgs'
    BY <1>1, <1>4
  <2>3. QED BY <1>1, <1>2, <1>3, <1>5, <2>1, <2>2, ChainGrows DEF n
<1>9. Aligned'
  BY <1>1 DEF IInv, Aligned, Marked
<1>10. QED BY <1>1, <1>7, <1>9, JobWaits

\* A block of the node, at a height of its chain.
LEMMA BlockType ==
  ASSUME RowsOK, NEW h \in 0..Len(node)
  PROVE  /\ Block(h) \in Nat \X Nat /\ Block(h)[1] = h /\ Block(h)[2] <= reorgs
         /\ h = 0 => Block(h) = <<0, 0>>
<1>1. CASE h = 0
  <2>1. Block(h) = <<0, 0>>
    BY <1>1 DEF Block
  <2>2. <<0, 0>> \in Nat \X Nat /\ <<0, 0>>[1] = 0 /\ <<0, 0>>[2] = 0 /\ reorgs \in Nat
    BY DEF RowsOK
  <2>3. QED BY <1>1, <2>1, <2>2
<1>2. CASE h # 0
  <2>1. h \in 1..Len(node) /\ h \in Nat
    BY <1>2 DEF RowsOK
  <2>2. Block(h) = <<h, node[h]>> /\ node[h] \in Nat /\ node[h] <= reorgs
    BY <1>2, <2>1, BlockIs DEF RowsOK
  <2>3. QED BY <1>2, <2>1, <2>2
<1>3. QED BY <1>1, <1>2

\* The daemon deletes a block of another branch, while the job may be at work on it.
LEMMA DaemonDeletesStep == ASSUME IInv, DaemonDeletes PROVE IInv'
<1>0. PICK r \in RowsAt(cursor) : Delete(r)
  BY DEF DaemonDeletes
<1>1. UNCHANGED <<node, reorgs>> /\ UNCHANGED <<saved, job>> /\ RowsOK
  BY DEF DaemonDeletes, IInv
<1>2. CursorOK'
  <2>1. cursor \in 1..(Len(node) - 1) /\ cursor' = cursor - 1 /\ node' = node /\ Len(node) \in Nat
    BY <1>1 DEF DaemonDeletes, Height, RowsOK
  <2>2. QED BY <2>1 DEF CursorOK
<1>3. Kept
  BY <1>0, <1>1, <1>2, RowDeleted
<1>4. DOMAIN db' \subseteq DOMAIN db /\ \A q \in DOMAIN db' : db'[q] = db[q]
  BY <1>0 DEF Without, Delete
<1>5. Aligned'
  BY <1>1, <1>4 DEF IInv, Aligned, Marked
<1>6. QED BY <1>1, <1>3, <1>5, JobWaits

\* The daemon stores the next block.
LEMMA DaemonStoresStep == ASSUME IInv, DaemonStores PROVE IInv'
<1>0. /\ cursor < Len(node) /\ job.at # "align" /\ Put(Block(cursor + 1)) /\ cursor' = cursor + 1
      /\ UNCHANGED <<node, reorgs>> /\ UNCHANGED <<saved, job>> /\ RowsOK /\ node' = node
      /\ cursor \in 0..Len(node) /\ Len(node) \in Nat
  BY DEF DaemonStores, IInv, Locked, Height, RowsOK, CursorOK
<1> DEFINE h == cursor + 1
<1>1. h \in 1..Len(node) /\ h \in 0..Len(node)
  BY <1>0
<1>2. CursorOK'
  BY <1>0, <1>1 DEF CursorOK
<1> DEFINE r == Block(h)
<1>3. r \in Nat \X Nat /\ r[1] = h /\ r[2] <= reorgs
  BY <1>0, <1>1, BlockType
<1>4. r \in (1..Len(node)) \X Nat
  BY <1>1, <1>3
<1>5. Put(r)
  BY <1>0
<1> HIDE DEF r
<1>6. Kept
  BY <1>0, <1>2, <1>3, <1>4, <1>5, RowStored
<1>7. Aligned'
  BY <1>0 DEF Aligned
<1>8. QED BY <1>0, <1>6, <1>7, JobWaits

\* A run starts with the saved state, or with a new round.
LEMMA StartStep == ASSUME IInv, Start PROVE IInv'
<1> DEFINE s == IF saved.last >= saved.max THEN updateMaxHeightStored(saved) ELSE saved
<1>0. /\ job = Idle /\ job' = [at |-> "loop", ran |-> FALSE, s |-> s]
      /\ UNCHANGED <<node, rows, cursor, reorgs>> /\ UNCHANGED <<node, saved>>
  BY DEF Start
<1>1. Kept /\ RowsOK
  BY <1>0, SameAll DEF IInv
<1>2. GoodState(saved)' /\ Clean(saved, saved.last)'
  BY <1>0, <1>1, SavedKept
<1>3. GoodState(saved) /\ saved \in States
  BY DEF IInv, Reports, GoodState
<1>4. Top \in 0..Len(node) /\ Len(node) \in Nat
  BY <1>1, TopNow DEF RowsOK
<1>5. <<>> \in Seq(Entries) /\ GoodErrors(<<>>)
  BY ChainSyncAssumption DEF GoodErrors
<1>6. GoodState(s) /\ (s.last = 0 \/ (s.last = saved.last /\ Marked(s) = Marked(saved)))
  <2>1. CASE saved.last >= saved.max /\ saved.last >= Top
    <3>1. s = [saved EXCEPT !.last = 0, !.errors = <<>>, !.forgotten = {}]
      BY <2>1 DEF updateMaxHeightStored
    <3> HIDE DEF s
    <3>a. 0 \in Nat /\ {} \in SUBSET Nat
      OBVIOUS
    <3>2. s \in States /\ s.last = 0 /\ s.max = saved.max /\ s.errors = <<>>
      BY <1>3, <1>5, <3>1, <3>a DEF States
    <3>3. QED BY <1>3, <1>5, <3>2 DEF GoodState, States
  <2>2. CASE saved.last >= saved.max /\ ~(saved.last >= Top)
    <3>1. s = [saved EXCEPT !.max = Top]
      BY <2>2 DEF updateMaxHeightStored
    <3>a. Top \in Nat
      BY <1>4
    <3>2. /\ s \in States /\ s.last = saved.last /\ s.max = Top /\ s.errors = saved.errors
          /\ s.forgotten = saved.forgotten
      BY <1>3, <3>a, <3>1 DEF States
    <3>b. saved.last <= Top /\ Top <= Len(node)
      BY <1>3, <1>4, <2>2 DEF States
    <3> HIDE DEF s
    <3>3. QED BY <1>3, <3>2, <3>b DEF GoodState, Marked
  <2>3. CASE ~(saved.last >= saved.max)
    BY <1>3, <2>3
  <2>4. QED BY <2>1, <2>2, <2>3
<1>7. job'.at = "loop" /\ job'.s = s
  BY <1>0
<1> HIDE DEF s
<1>8. GoodState(job.s)'
  BY <1>0, <1>6, <1>7 DEF GoodState, GoodErrors, Apart
<1>9. \A g \in 1..s.last : Wrong(g)' => g \in Marked(s)
  <2>1. \A g \in 1..saved.last : Wrong(g)' => g \in Marked(saved)
    BY <1>0, <1>2 DEF Clean, Marked
  <2>2. QED BY <1>6, <2>1
<1>10. JobOK' /\ Aligned' /\ Reports'
  BY <1>0, <1>2, <1>7, <1>8, <1>9 DEF JobOK, Aligned, Reports, Clean, Marked, Busy
<1>11. QED BY <1>1, <1>10 DEF IInv, Kept

\* The walk goes on to the next height.
LEMMA ProcessNextStep == ASSUME IInv, ProcessNext PROVE IInv'
<1> DEFINE s == [job.s EXCEPT !.last = @ + 1]
           h == job.s.last + 1
<1>0. /\ job.at = "loop" /\ job.s.last < job.s.max
      /\ job' = [at |-> "find", s |-> s, b |-> Block(h)]
      /\ UNCHANGED <<node, rows, cursor, reorgs>> /\ UNCHANGED <<node, saved>>
  BY DEF ProcessNext
<1>1. Kept /\ RowsOK
  BY <1>0, SameAll DEF IInv
<1>2. GoodState(saved)' /\ Clean(saved, saved.last)'
  BY <1>0, <1>1, SavedKept
<1>3. GoodState(job.s) /\ job.s \in States /\ Clean(job.s, job.s.last)
  BY <1>0, JobAt DEF GoodState
<1>4. job.s.last \in Nat /\ job.s.max \in Nat /\ Len(node) \in Nat /\ job.s.max <= Len(node)
  BY <1>1, <1>3 DEF States, GoodState, RowsOK
<1>5. h \in 1..Len(node) /\ h \in Nat /\ h <= job.s.max /\ h - 1 = job.s.last
  BY <1>0, <1>4
<1>6. /\ s \in States /\ s.last = h /\ s.max = job.s.max /\ s.errors = job.s.errors
      /\ s.forgotten = job.s.forgotten
  BY <1>3, <1>5 DEF States
<1> HIDE DEF s, h
<1>7. Block(h) \in Nat \X Nat /\ Block(h) = <<h, node[h]>> /\ Block(h)[1] = h
  BY <1>1, <1>5, BlockType, BlockIs
<1>8. /\ job' \in [at : {"find", "lock"}, s : States, b : Nat \X Nat] /\ job'.at = "find"
      /\ job'.s = s /\ job'.b = Block(h)
  BY <1>0, <1>6, <1>7
<1>9. GoodState(job.s)'
  BY <1>0, <1>3, <1>5, <1>6, <1>8 DEF GoodState, GoodErrors, Apart
<1>10. JobOK'
  <2>1. job'.b = <<job'.b[1], node'[job'.b[1]]>> /\ job'.b[1] = job'.s.last /\ job'.s.last >= 1
    BY <1>0, <1>5, <1>6, <1>7, <1>8
  <2>2. Shape(job)' /\ Filling(job)'
    BY <1>8 DEF Shape, Filling, States, Entries, Areas
  <2>3. QED BY <1>9, <2>1, <2>2 DEF JobOK
<1>11. job.s.last \in 0..Len(node)
  BY <1>0, <1>4
<1>12. \A g \in 1..job.s.last : Wrong(g)' => g \in Marked(job.s)
  BY <1>1, <1>3, <1>11, CleanKept
<1>13. job'.s.last - 1 = job.s.last /\ Marked(job'.s) = Marked(job.s)
  BY <1>5, <1>6, <1>8 DEF Marked
<1>14. Aligned' /\ Reports'
  BY <1>2, <1>8, <1>12, <1>13 DEF Aligned, Reports, Clean, Marked, Busy
<1>15. QED BY <1>1, <1>10, <1>14 DEF IInv, Kept

\* What the job knows at a block.
LEMMA AtBlock ==
  ASSUME IInv, job.at \in Busy
  PROVE  /\ RowsOK /\ Len(node) \in Nat /\ Shape(job) /\ Filling(job) /\ job.s \in States
         /\ job.b \in Nat \X Nat /\ job.b[1] \in 1..Len(node)
  BY JobAt DEF IInv, RowsOK, GoodState

\* The block is stored.
LEMMA FoundStep == ASSUME IInv, Found PROVE IInv'
<1>0. /\ job.at = "find" /\ job' = [job EXCEPT !.at = "lock"] /\ saved' = saved
      /\ UNCHANGED <<node, rows, cursor, reorgs>> /\ UNCHANGED <<node, reorgs>> /\ job.at \in Busy
  BY DEF Found, Busy
<1>1. Kept
  BY <1>0, SameAll
<1>2. job \in [at : {"find", "lock"}, s : States, b : Nat \X Nat]
  BY <1>0, AtBlock DEF Shape
<1> DEFINE j == [job EXCEPT !.at = "lock"]
<1>3. j \in [at : {"find", "lock"}, s : States, b : Nat \X Nat] /\ j.at = "lock" /\ j.s = job.s /\ j.b = job.b
  BY <1>2
<1>4. job' = j
  BY <1>0
<1> HIDE DEF j
<1>5. Shape(j) /\ Filling(j) /\ j.at \in Busy
  BY <1>3 DEF Shape, Filling, Busy
<1>6. QED BY <1>0, <1>1, <1>3, <1>4, <1>5, GoesOn

\* RunBlockProcessing starts.
LEMMA FillStep == ASSUME IInv, Fill PROVE IInv'
<1> DEFINE h == job.b[1]
           j == [at |-> "check", s |-> job.s, b |-> job.b, json |-> Block(h),
                 prev |-> h - 1, want |-> Block(h - 1)]
<1>0. /\ job.at = "find" /\ job' = j /\ saved' = saved
      /\ UNCHANGED <<node, rows, cursor, reorgs>> /\ UNCHANGED <<node, reorgs>> /\ job.at \in Busy
  BY DEF Fill, Busy
<1>1. Kept
  BY <1>0, SameAll
<1>2. RowsOK /\ h \in 1..Len(node) /\ Len(node) \in Nat /\ job.s \in States /\ job.b \in Nat \X Nat
  BY <1>0, AtBlock
<1>3. h \in 0..Len(node) /\ h - 1 \in 0..Len(node) /\ h - 1 \in Nat /\ h - 1 < h
  <2> HIDE DEF h
  <2>1. QED BY <1>2
<1>4. /\ Block(h) \in Nat \X Nat /\ Block(h)[1] = h /\ Block(h)[2] <= reorgs
      /\ Block(h - 1) \in Nat \X Nat /\ (h - 1 = 0 => Block(h - 1) = <<0, 0>>)
  <2> HIDE DEF h
  <2>1. QED BY <1>2, <1>3, BlockType
<1>5. /\ j \in [at : {"check"}, s : States, b : Nat \X Nat, json : Nat \X Nat, prev : Nat, want : Nat \X Nat]
      /\ j.at = "check" /\ j.s = job.s /\ j.b = job.b /\ j.json = Block(h) /\ j.prev = h - 1
      /\ j.want = Block(h - 1)
  BY <1>2, <1>3, <1>4
<1> HIDE DEF j
<1>6. Shape(j) /\ Filling(j) /\ j.at \in Busy
  BY <1>3, <1>4, <1>5 DEF Shape, Filling, Busy
<1>7. QED BY <1>0, <1>1, <1>5, <1>6, GoesOn

\* One height of checkHandleReorg.
LEMMA CheckPreviousStep == ASSUME IInv, CheckPrevious PROVE IInv'
<1> DEFINE p == job.prev
           w == job.want
<1>0. /\ job.at = "check" /\ saved' = saved /\ cursor' = cursor /\ UNCHANGED <<node, reorgs>>
      /\ job.at \in Busy /\ node' = node
  BY DEF CheckPrevious, Busy
<1>1. /\ RowsOK /\ job.b[1] \in 1..Len(node) /\ Len(node) \in Nat /\ Filling(job)
      /\ job \in [at : {"check"}, s : States, b : Nat \X Nat, json : Nat \X Nat, prev : Nat, want : Nat \X Nat]
  BY <1>0, AtBlock DEF Shape
<1>2. /\ p \in Nat /\ p < job.b[1] /\ (p = 0 => w = <<0, 0>>) /\ job.json[1] = job.b[1] /\ job.json[2] <= reorgs
      /\ job.s \in States /\ job.b \in Nat \X Nat /\ job.json \in Nat \X Nat
  BY <1>0, <1>1 DEF Filling
<1>3. CursorOK'
  BY <1>0 DEF IInv, CursorOK
<1>4. "daemon-process-block" \in Areas
  BY DEF Areas
<1>5. CASE GiveUp("daemon-process-block") /\ UNCHANGED rows
  <2>1. Kept
    BY <1>0, <1>5, SameAll
  <2>2. QED BY <1>0, <1>4, <1>5, <2>1, GivenUp
<1>6. CASE /\ job' = [at |-> "store", s |-> job.s, b |-> job.b, json |-> job.json]
           /\ UNCHANGED rows
  <2>1. Kept
    BY <1>0, <1>6, SameAll
  <2> DEFINE j == [at |-> "store", s |-> job.s, b |-> job.b, json |-> job.json]
  <2>2. /\ j \in [at : {"store"}, s : States, b : Nat \X Nat, json : Nat \X Nat] /\ j.at = "store"
        /\ j.s = job.s /\ j.b = job.b /\ j.json = job.json /\ job' = j
    BY <1>2, <1>6
  <2> HIDE DEF j
  <2>3. Shape(j) /\ Filling(j) /\ j.at \in Busy
    BY <1>2, <2>2 DEF Shape, Filling, Busy
  <2>4. QED BY <1>0, <2>1, <2>2, <2>3, GoesOn
<1>7. ASSUME NEW r \in Stored(p) \ {w}, Delete(r),
             job' = [job EXCEPT !.prev = @ - 1, !.want = Block(job.prev - 1)]
      PROVE  IInv'
  <2>1. Kept
    BY <1>0, <1>1, <1>3, <1>7, RowDeleted
  <2>2. p # 0
    <3>1. SUFFICES ASSUME p = 0 PROVE FALSE
      OBVIOUS
    <3>2. Stored(p) = {<<0, 0>>}
      BY <3>1 DEF Stored, Block
    <3>3. QED BY <1>2, <1>7, <3>1, <3>2
  <2>3. p - 1 \in Nat /\ p - 1 < job.b[1] /\ p - 1 \in 0..Len(node)
    <3> HIDE DEF p
    <3>1. QED BY <1>1, <1>2, <2>2
  <2>4. Block(p - 1) \in Nat \X Nat /\ (p - 1 = 0 => Block(p - 1) = <<0, 0>>)
    <3> HIDE DEF p
    <3>1. QED BY <1>1, <2>3, BlockType
  <2> DEFINE c == Block(p - 1)
             j == [job EXCEPT !.prev = @ - 1, !.want = c]
  <2>a. job' = j
    BY <1>7
  <2>b. c \in Nat \X Nat /\ (p - 1 = 0 => c = <<0, 0>>)
    BY <2>4
  <2> HIDE DEF c
  <2>5. /\ j \in [at : {"check"}, s : States, b : Nat \X Nat, json : Nat \X Nat, prev : Nat, want : Nat \X Nat]
        /\ j.at = "check" /\ j.s = job.s /\ j.b = job.b /\ j.json = job.json /\ j.prev = p - 1 /\ j.want = c
    BY <1>1, <2>3, <2>b
  <2> HIDE DEF j
  <2>6. Shape(j) /\ Filling(j) /\ j.at \in Busy
    BY <1>2, <2>3, <2>b, <2>5 DEF Shape, Filling, Busy
  <2>7. QED BY <1>0, <2>1, <2>5, <2>6, <2>a, GoesOn
<1>8. QED BY <1>5, <1>6, <1>7 DEF CheckPrevious

\* ProcessBlock.
LEMMA StoreStep == ASSUME IInv, Store PROVE IInv'
<1>0. /\ job.at = "store" /\ saved' = saved /\ cursor' = cursor /\ UNCHANGED <<node, reorgs>>
      /\ job.at \in Busy /\ node' = node
  BY DEF Store, Busy
<1>1. /\ RowsOK /\ job.b[1] \in 1..Len(node) /\ Len(node) \in Nat /\ Filling(job)
      /\ job \in [at : {"store"}, s : States, b : Nat \X Nat, json : Nat \X Nat]
  BY <1>0, AtBlock DEF Shape
<1>2. /\ job.json[1] = job.b[1] /\ job.json[2] <= reorgs
      /\ job.s \in States /\ job.b \in Nat \X Nat /\ job.json \in Nat \X Nat
  BY <1>0, <1>1 DEF Filling
<1>3. CursorOK'
  BY <1>0 DEF IInv, CursorOK
<1>4. "daemon-process-block" \in Areas
  BY DEF Areas
<1>5. CASE Delete(job.json) /\ GiveUp("daemon-process-block")
  <2>1. Kept
    BY <1>0, <1>1, <1>3, <1>5, RowDeleted
  <2>2. QED BY <1>0, <1>4, <1>5, <2>1, GivenUp
<1>6. CASE Put(job.json) /\ job' = [at |-> "lock", s |-> job.s, b |-> job.b]
  <2>1. job.json \in (1..Len(node)) \X Nat
    BY <1>1, <1>2
  <2>2. Kept
    BY <1>0, <1>1, <1>2, <1>3, <1>6, <2>1, RowStored
  <2> DEFINE j == [at |-> "lock", s |-> job.s, b |-> job.b]
  <2>3. /\ j \in [at : {"find", "lock"}, s : States, b : Nat \X Nat] /\ j.at = "lock"
        /\ j.s = job.s /\ j.b = job.b /\ job' = j
    BY <1>2, <1>6
  <2> HIDE DEF j
  <2>4. Shape(j) /\ Filling(j) /\ j.at \in Busy
    BY <2>3 DEF Shape, Filling, Busy
  <2>5. QED BY <1>0, <2>2, <2>3, <2>4, GoesOn
<1>7. QED BY <1>5, <1>6 DEF Store

\* BlockLock, and the block is read again.
LEMMA LockBlockStep == ASSUME IInv, LockBlock PROVE IInv'
<1>0. /\ job.at = "lock" /\ saved' = saved /\ UNCHANGED <<node, rows, cursor, reorgs>>
      /\ UNCHANGED <<node, reorgs>> /\ job.at \in Busy
  BY DEF LockBlock, Busy
<1>1. Kept
  BY <1>0, SameAll
<1>2. CASE job' = [at |-> "align", s |-> job.s, b |-> job.b, tx |-> 1]
  <2> DEFINE j == [at |-> "align", s |-> job.s, b |-> job.b, tx |-> 1]
  <2>1. job.s \in States /\ job.b \in Nat \X Nat /\ 1 \in 1..Txs
    BY <1>0, AtBlock, ChainSyncAssumption
  <2>2. /\ j \in [at : {"align"}, s : States, b : Nat \X Nat, tx : 1..Txs] /\ j.at = "align"
        /\ j.s = job.s /\ j.b = job.b /\ j.tx = 1 /\ job' = j
    BY <1>2, <2>1
  <2> HIDE DEF j
  <2>3. Shape(j) /\ Filling(j) /\ j.at \in Busy
    BY <2>2 DEF Shape, Filling, Busy
  <2>4. QED BY <1>0, <1>1, <2>2, <2>3, GoesOn
<1>3. CASE GiveUp("mysql-getblock")
  <2>1. "mysql-getblock" \in Areas
    BY DEF Areas
  <2>2. QED BY <1>0, <1>1, <1>3, <2>1, GivenUp
<1>4. QED BY <1>2, <1>3 DEF LockBlock

\* A query fails before the block is aligned.
LEMMA BlockFailsStep == ASSUME IInv, BlockFails PROVE IInv'
<1>0. saved' = saved /\ cursor' = cursor /\ UNCHANGED <<node, reorgs>> /\ job.at \in Busy /\ RowsOK
  BY DEF BlockFails, Busy, IInv
<1>1. CursorOK'
  BY <1>0 DEF IInv, CursorOK
<1>2. PICK area \in {"lbrycrd-getblockhash", "mysql-getblock", "daemon-process-block",
                     "tx-hash-creation", "block-alignment"} : GiveUp(area)
  BY DEF BlockFails
<1>3. area \in Areas
  BY DEF Areas
<1>4. CASE UNCHANGED rows
  <2>1. Kept
    BY <1>0, <1>4, SameAll
  <2>2. QED BY <1>0, <1>2, <1>3, <2>1, GivenUp
<1>5. CASE Delete(job.json)
  <2>1. Kept
    BY <1>0, <1>1, <1>5, RowDeleted
  <2>2. QED BY <1>0, <1>2, <1>3, <2>1, GivenUp
<1>6. QED BY <1>4, <1>5 DEF BlockFails

\* The facts of a step of alignTxs.
LEMMA AlignFacts ==
  ASSUME IInv, job.at = "align"
  PROVE  /\ GoodState(job.s) /\ GoodErrors(job.s.errors) /\ job.b[1] \in Nat /\ job.tx \in 1..Txs
         /\ job.b[1] = job.s.last /\ RowsOK /\ CursorOK /\ job.at \in Busy
<1>1. job.at \in Busy
  BY DEF Busy
<1>2. job.tx \in 1..Txs
  BY <1>1, JobAt DEF Shape
<1>3. QED BY <1>1, <1>2, JobAt DEF GoodState, IInv

\* A transaction is aligned.
LEMMA AlignTxStep == ASSUME IInv, AlignTx PROVE IInv'
<1> DEFINE b == job.b
           t == job.tx
<1>0. /\ job.at = "align" /\ b \in DOMAIN db /\ db' = [db EXCEPT ![b][t] = "ok"] /\ NextTx(job.s)
      /\ UNCHANGED <<node, reorgs, emptied>> /\ node' = node /\ saved' = saved /\ cursor' = cursor
  BY DEF AlignTx
<1>1. GoodState(job.s) /\ t \in 1..Txs /\ RowsOK /\ CursorOK'
  BY <1>0, AlignFacts DEF CursorOK
<1>2. Kept
  BY <1>0, <1>1, RowAligned
<1>3. db[b] \in Shapes /\ db = [r \in DOMAIN db |-> db[r]] /\ Txs \in Nat
  BY <1>0, <1>1, ChainSyncAssumption DEF RowsOK
<1> HIDE DEF b, t
<1>4. b \in DOMAIN db' /\ db'[b] = [db[b] EXCEPT ![t] = "ok"]
  BY <1>0, <1>3
<1>5. b[1] \in Marked(job.s) \/ \A i \in 1..t : db'[b][i] = "ok"
  <2>1. CASE b[1] \notin Marked(job.s)
    <3>1. \A i \in 1..(t - 1) : db[b][i] = "ok"
      BY <1>0, <2>1 DEF IInv, Aligned, b, t
    <3>2. ASSUME NEW i \in 1..t PROVE db'[b][i] = "ok"
      <4>1. i = t \/ i \in 1..(t - 1)
        BY <1>1, <1>3
      <4>2. i \in 1..Txs
        BY <1>1, <1>3
      <4>3. QED BY <1>1, <1>3, <1>4, <3>1, <4>1, <4>2 DEF Shapes
    <3>3. QED BY <3>2
  <2>2. QED BY <2>1
<1>6. QED BY <1>0, <1>1, <1>2, <1>4, <1>5, NextTxKept DEF b, t

\* An error is reported, and alignTxs goes on.
LEMMA NextTxReported ==
  ASSUME IInv, Kept, saved' = saved, node' = node, job.at = "align",
         NEW es, GoodErrors(es), NEW lost \in SUBSET Nat, job.b[1] \in Heights(es) \cup lost,
         NextTx(Record(es, lost))
  PROVE  IInv'
<1>1. GoodState(job.s)
  BY AlignFacts
<1> DEFINE s == Record(es, lost)
<1>2. GoodState(s) /\ s.last = job.s.last /\ Marked(job.s) \cup Heights(es) \cup lost \subseteq Marked(s)
  BY <1>1, RecordGood
<1>3. NextTx(s)
  OBVIOUS
<1> HIDE DEF s
<1>4. Marked(job.s) \subseteq Marked(s) /\ job.b[1] \in Marked(s)
  BY <1>2
<1>5. QED BY <1>2, <1>3, <1>4, NextTxKept

\* The block was deleted meanwhile.
LEMMA AlignGoneStep == ASSUME IInv, AlignGone PROVE IInv'
<1> DEFINE es == recordError(job.s.errors, "tx-processing", job.b[1])
<1>0. Kept /\ job.at = "align" /\ saved' = saved /\ node' = node /\ NextTx(Record(es, {}))
  BY SameAll DEF AlignGone
<1>1. GoodErrors(job.s.errors) /\ job.b[1] \in Nat /\ "tx-processing" \in Areas
  BY <1>0, AlignFacts DEF Areas
<1>2. GoodErrors(es) /\ job.b[1] \in Heights(es)
  BY <1>1, RecordErrorGood
<1> HIDE DEF es
<1>3. {} \in SUBSET Nat /\ job.b[1] \in Heights(es) \cup {}
  BY <1>2
<1>4. QED BY <1>0, <1>2, <1>3, NextTxReported

\* alignTxs ends the block with an error that is recorded twice.
LEMMA StopReported ==
  ASSUME IInv, Kept, saved' = saved, job.at = "align", NEW area \in Areas,
         Leave(Record(recordError(recordError(job.s.errors, area, job.b[1]),
                                  "tx-alignment", job.b[1]), {}))
  PROVE  IInv'
<1> DEFINE e == recordError(job.s.errors, area, job.b[1])
           f == recordError(e, "tx-alignment", job.b[1])
<1>1. GoodErrors(job.s.errors) /\ job.b[1] \in Nat /\ "tx-alignment" \in Areas
  BY AlignFacts DEF Areas
<1>2. GoodErrors(e)
  BY <1>1, RecordErrorGood
<1> HIDE DEF e
<1>3. GoodErrors(f) /\ job.b[1] \in Heights(f)
  BY <1>1, <1>2, RecordErrorGood
<1>4. Leave(Record(f, {})) /\ job.at \in Busy
  BY DEF e, Busy
<1> HIDE DEF f
<1>5. QED BY <1>3, <1>4, LeaveReported

\* A query of alignTxs fails.
LEMMA AlignFailsStep == ASSUME IInv, AlignFails PROVE IInv'
<1> DEFINE h == job.b[1]
           es == job.s.errors
           kind == db[job.b][job.tx]
<1>0. /\ job.at = "align" /\ job.b \in DOMAIN db /\ UNCHANGED <<node, reorgs, emptied>>
      /\ node' = node /\ reorgs' = reorgs /\ emptied' = emptied /\ saved' = saved /\ cursor' = cursor
  BY DEF AlignFails
<1>1. GoodErrors(es) /\ h \in Nat /\ job.tx \in 1..Txs /\ RowsOK /\ CursorOK'
  BY <1>0, AlignFacts DEF CursorOK
<1>2. {} \in SUBSET Nat /\ {h} \in SUBSET Nat
  BY <1>1
<1>a. ASSUME NEW area \in Areas, Kept, NextTx(Record(recordError(es, area, h), {})) PROVE IInv'
  <2> DEFINE e == recordError(es, area, h)
  <2>1. GoodErrors(e) /\ h \in Heights(e)
    BY <1>1, RecordErrorGood
  <2>2. NextTx(Record(e, {}))
    BY <1>a
  <2> HIDE DEF e
  <2>3. h \in Heights(e) \cup {}
    BY <2>1
  <2>4. QED BY <1>0, <1>2, <1>a, <2>1, <2>2, <2>3, NextTxReported
<1>b. ASSUME NEW area \in Areas, db' = db,
             Leave(Record(recordError(recordError(es, area, h), "tx-alignment", h), {}))
      PROVE  IInv'
  <2>1. Kept
    BY <1>0, <1>1, <1>b, SameRows
  <2>2. QED BY <1>0, <1>b, <2>1, StopReported
<1>3. CASE /\ kind = "row" /\ NextTx(Record(recordError(es, "tx-processing", h), {}))
           /\ \E k \in {"row", "parts"} : db' = [db EXCEPT ![job.b][job.tx] = k]
  <2>1. PICK k \in {"row", "parts"} : db' = [db EXCEPT ![job.b][job.tx] = k]
    BY <1>3
  <2>2. k \in Kinds \cup {"ok"} /\ kind # "ok"
    BY <1>3 DEF Kinds
  <2>3. Kept
    BY <1>0, <1>1, <2>1, <2>2, RowAligned
  <2>4. "tx-processing" \in Areas
    BY DEF Areas
  <2>5. QED BY <1>3, <1>a, <2>3, <2>4
<1>4. CASE \E area \in {"mysql-tx", "tx-part-count", "tx-reprocessing", "tx-alignment"} :
             /\ db' = db
             /\ Leave(Record(recordError(recordError(es, area, h), "tx-alignment", h), {}))
  <2>1. PICK area \in {"mysql-tx", "tx-part-count", "tx-reprocessing", "tx-alignment"} :
             /\ db' = db
             /\ Leave(Record(recordError(recordError(es, area, h), "tx-alignment", h), {}))
    BY <1>4
  <2>2. area \in Areas
    BY DEF Areas
  <2>3. QED BY <1>b, <2>1, <2>2
<1>5. CASE NextTx(Record(recordError(es, "vin-alignment", h), {})) /\ db' = db
  <2>1. Kept /\ "vin-alignment" \in Areas
    BY <1>0, <1>1, <1>5, SameRows DEF Areas
  <2>2. QED BY <1>5, <1>a, <2>1
<1>6. CASE /\ db' = db
           /\ LET copy == recordInCopy(es, "vout-alignment", h)
              IN  NextTx(Record(copy, IF copy = es THEN {h} ELSE {}))
  <2> DEFINE copy == recordInCopy(es, "vout-alignment", h)
             lost == IF copy = es THEN {h} ELSE {}
  <2>1. Kept /\ "vout-alignment" \in Areas
    BY <1>0, <1>1, <1>6, SameRows DEF Areas
  <2>2. GoodErrors(copy) /\ h \in Heights(copy) \cup lost
    <3>1. CASE Listed(es, "vout-alignment", h) # {}
      <4>1. copy = recordError(es, "vout-alignment", h)
        BY <3>1 DEF recordInCopy
      <4>2. GoodErrors(recordError(es, "vout-alignment", h))
            /\ h \in Heights(recordError(es, "vout-alignment", h))
        BY <1>1, <2>1, RecordErrorGood
      <4> HIDE DEF lost
      <4>3. QED BY <4>1, <4>2
    <3>2. CASE Listed(es, "vout-alignment", h) = {}
      <4>1. copy = es
        BY <3>2 DEF recordInCopy
      <4>2. QED BY <1>1, <4>1
    <3>3. QED BY <3>1, <3>2
  <2>3. lost \in SUBSET Nat
    BY <1>2
  <2>4. NextTx(Record(copy, lost))
    BY <1>6
  <2> HIDE DEF copy, lost
  <2>5. QED BY <1>0, <2>1, <2>2, <2>3, <2>4, NextTxReported
<1>7. QED BY <1>3, <1>4, <1>5, <1>6 DEF AlignFails

\* The state of the run is saved.
LEMMA DoneStep == ASSUME IInv, Done PROVE IInv'
<1>0. /\ job.at = "loop" /\ saved' = job.s /\ job' = Idle /\ node' = node
      /\ UNCHANGED <<node, rows, cursor, reorgs>>
  BY DEF Done
<1>1. Kept /\ RowsOK
  BY <1>0, SameAll DEF IInv
<1>2. GoodState(job.s) /\ Clean(job.s, job.s.last)
  BY <1>0, JobAt
<1>3. GoodState(saved)' /\ job.s.last \in 0..Len(node)
  BY <1>0, <1>1, <1>2, StateKept DEF GoodState, GoodErrors, Apart
<1>4. \A g \in 1..job.s.last : Wrong(g)' => g \in Marked(job.s)
  BY <1>1, <1>2, <1>3, CleanKept
<1>5. job'.at = "idle"
  BY <1>0 DEF Idle
<1>6. JobOK' /\ Aligned' /\ Reports'
  BY <1>0, <1>3, <1>4, <1>5 DEF JobOK, Aligned, Reports, Clean, Marked, Busy
<1>7. QED BY <1>1, <1>6 DEF IInv, Kept

\* A run is lost.
LEMMA RunFailsStep == ASSUME IInv, RunFails PROVE IInv'
<1>0. saved' = saved /\ job' = Idle /\ UNCHANGED <<node, db, emptied, reorgs>> /\ node' = node
  BY DEF RunFails, rows
<1>a. CursorOK'
  <2>1. Top \in 0..Len(node) /\ cursor \in 0..Len(node)
    BY TopNow DEF IInv, CursorOK
  <2>2. cursor' = cursor \/ cursor' = Top
    BY DEF RunFails
  <2>3. QED BY <1>0, <2>1, <2>2 DEF CursorOK
<1>1. Kept
  BY <1>0, <1>a, SameRows
<1>2. GoodState(saved)' /\ Clean(saved, saved.last)'
  BY <1>0, <1>1, SavedKept
<1>3. job'.at = "idle"
  BY <1>0 DEF Idle
<1>4. JobOK' /\ Aligned' /\ Reports'
  BY <1>0, <1>2, <1>3 DEF JobOK, Aligned, Reports, Busy
<1>5. QED BY <1>1, <1>4 DEF IInv, Kept

\* The first state.
LEMMA InitInv == Init => IInv
<1> SUFFICES ASSUME Init PROVE IInv
  OBVIOUS
<1>1. PICK n \in 1..MaxHeight : node = [h \in 1..n |-> 0]
  BY DEF Init
<1>2. node \in Seq(Nat) /\ Len(node) = n /\ n \in Nat /\ \A h \in 1..n : node[h] = 0
  BY <1>1, ChainSyncAssumption
<1>3. PICK gap \in 0..(n - 1) : LET blocks == {<<h, 0>> : h \in 1..n \ {gap}}
                               IN  db \in [blocks -> Shapes]
  BY <1>2 DEF Init, Height, Shapes
<1>4. /\ DOMAIN db = {<<h, 0>> : h \in 1..n \ {gap}} /\ db = [r \in DOMAIN db |-> db[r]]
      /\ \A r \in DOMAIN db : db[r] \in Shapes
  BY <1>3
<1>5. \A r \in DOMAIN db : r \in (1..n) \X Nat /\ r[2] = 0 /\ r = <<r[1], 0>>
  BY <1>4
<1>6. reorgs = 0 /\ job = Idle /\ job.at = "idle"
      /\ saved = [last |-> 0, max |-> 0, errors |-> <<>>, forgotten |-> {}]
  BY DEF Init, Idle
<1>7. RowsOK /\ CursorOK
  <2>1. cursor = n /\ emptied = {}
    BY <1>2 DEF Init, Height
  <2>2. QED BY <1>2, <1>4, <1>5, <1>6, <2>1 DEF RowsOK, CursorOK
<1>9. JobOK /\ Aligned
  BY <1>6 DEF JobOK, Aligned
<1>10. Reports
  <2>1. saved \in States /\ saved.last = 0 /\ saved.max = 0 /\ saved.errors = <<>>
    BY <1>6 DEF States
  <2>2. GoodErrors(saved.errors)
    BY <2>1, ChainSyncAssumption DEF GoodErrors
  <2>3. GoodState(saved)
    BY <1>2, <2>1, <2>2 DEF GoodState
  <2>4. QED BY <1>6, <2>1, <2>3 DEF Reports, Clean, Busy
<1>11. QED BY <1>7, <1>9, <1>10 DEF IInv

\* Every step keeps the invariant.
LEMMA StepInv == ASSUME IInv, [Next]_vars PROVE IInv'
<1>1. CASE UNCHANGED vars
  <2>1. UNCHANGED <<node, rows, cursor, reorgs>> /\ UNCHANGED <<saved, job>> /\ db' = db
    BY <1>1 DEF vars, rows
  <2>2. Kept /\ Aligned'
    BY <2>1, SameAll DEF IInv, Aligned, Marked
  <2>3. QED BY <2>1, <2>2, JobWaits
<1>2. CASE Daemon
  BY <1>2, DaemonDeletesStep, DaemonStoresStep DEF Daemon
<1>3. CASE Run
  BY <1>3, StartStep, ProcessNextStep, FoundStep, FillStep, CheckPreviousStep, StoreStep,
     LockBlockStep, AlignTxStep, AlignGoneStep, DoneStep DEF Run
<1>4. QED BY <1>1, <1>2, <1>3, ExtendStep, ReorgStep, BlockFailsStep, AlignFailsStep, RunFailsStep
        DEF Next

-----------------------------------------------------------------------------
(* The theorems.                                                           *)

\* The inductive invariant of the chain sync job holds in every state: among the
\* rest, every height that the walk has passed and that is wrong is reported, in the
\* saved state too, for reorganisations of any depth.
THEOREM Invariance == Spec => []IInv
  BY InitInv, StepInv, PTL DEF Spec

\* The cursor of the chain sync job stays within the heights of the round and of
\* the node, and recordError keeps the list of errors within maxChainSyncErrors,
\* with one entry for an error.
THEOREM TypeCorrect == Spec => []TypeOK
<1>1. IInv => TypeOK
  <2> SUFFICES ASSUME IInv PROVE TypeOK
    OBVIOUS
  <2>1. \A r \in DOMAIN db : r[1] \in 1..Height /\ db[r] \in [1..Txs -> Kinds \cup {"ok"}]
    BY DEF IInv, RowsOK, Height, Shapes
  <2>a. cursor \in 0..Height /\ \A h \in emptied : RowsAt(h) = {}
    BY DEF IInv, RowsOK, CursorOK, Height
  <2>2. GoodState(Walk)
    <3>1. CASE job = Idle
      BY <3>1 DEF IInv, Reports, Walk
    <3>2. CASE job # Idle
      <4>1. GoodState(job.s)
        BY <3>2, JobAt
      <4>2. Walk = job.s
        BY <3>2 DEF Walk
      <4>3. QED BY <4>1, <4>2
    <3>3. QED BY <3>1, <3>2
  <2> DEFINE w == Walk
  <2> HIDE DEF w
  <2>3. GoodState(w)
    BY <2>2 DEF w
  <2>4. w.last \in 0..w.max /\ w.max <= Height
    BY <2>3 DEF GoodState, States, Height
  <2>5. ASSUME NEW i \in DOMAIN w.errors, NEW h \in w.errors[i].heights
        PROVE  Listed(w.errors, w.errors[i].area, h) = {i}
    <3>1. ASSUME NEW j \in Listed(w.errors, w.errors[i].area, h) PROVE j = i
      <4>1. /\ j \in DOMAIN w.errors /\ w.errors[j].area = w.errors[i].area
            /\ w.errors[i].area = "daemon-process-block" => h \in w.errors[j].heights
        BY <3>1 DEF Listed
      <4>2. Apart(w.errors, i, j)
        BY <2>3, <4>1 DEF GoodState, GoodErrors
      <4>3. QED BY <4>1, <4>2 DEF Apart
    <3>2. i \in Listed(w.errors, w.errors[i].area, h)
      BY DEF Listed
    <3>3. QED BY <3>1, <3>2
  <2>6. Len(w.errors) <= MaxErrors
    BY <2>3 DEF GoodState, GoodErrors
  <2>7. QED BY <2>1, <2>4, <2>5, <2>6, <2>a DEF TypeOK, w
<1>2. QED BY <1>1, Invariance, PTL

\* No height that has its rows, or never had any, is left behind with something wrong
\* and nobody the wiser: whatever the daemon and the node do meanwhile, however deep
\* a reorganisation is, whatever query or run fails, it is in the list of errors, or
\* among those that the list lost.
THEOREM ReportedAlways == Spec => []Reported
<1>1. IInv => Reported
  <2> SUFFICES ASSUME IInv, job.at \in {"idle", "loop"}, NEW h \in 1..Walk.last, Wrong(h)
               PROVE  h \in Heights(Walk.errors) \cup Walk.forgotten
    BY DEF Reported
  <2>2. CASE job.at = "idle"
    <3>1. Walk = saved
      BY <2>2, JobAt DEF Walk
    <3>2. QED BY <3>1 DEF IInv, Reports, Clean, Marked
  <2>3. CASE job.at = "loop"
    <3>1. Walk = job.s
      BY <2>3 DEF Walk, Idle
    <3>2. QED BY <2>3, <3>1 DEF IInv, Reports, Clean, Marked
  <2>4. QED BY <2>2, <2>3
<1>2. QED BY <1>1, Invariance, PTL

-----------------------------------------------------------------------------
(* The batches of the value jobs.                                          *)

\* A larger factor has a product that is no smaller.
LEMMA MulMono ==
  ASSUME NEW a \in Nat, NEW b \in Nat, NEW n \in Nat, a <= b
  PROVE  a * n <= b * n /\ a * n \in Nat
<1>1. b * n = a * n + (b - a) * n
  OBVIOUS
<1>2. (b - a) * n >= 0 /\ (b - a) * n \in Int /\ a * n \in Nat
  OBVIOUS
<1>3. QED BY <1>1, <1>2

\* Division with remainder.
LEMMA DivMod ==
  ASSUME NEW a \in Nat, NEW n \in Nat, n > 0
  PROVE  /\ a \div n \in Nat /\ a % n \in 0..(n - 1)
         /\ a = (a \div n) * n + (a % n) /\ (a \div n) * n \in Nat
<1>1. a % n \in 0..(n - 1)
  OBVIOUS
<1>2. a = (a \div n) * n + (a % n)
  BY SMTT(30)
<1>3. a \div n \in Int
  OBVIOUS
<1>4. a \div n >= 0
  BY SMTT(30)
<1>5. (a \div n) * n \in Nat
  <2> DEFINE q == a \div n
  <2> HIDE DEF q
  <2>1. q * n \in Nat
    BY <1>3, <1>4 DEF q
  <2>2. QED BY <2>1 DEF q
<1>6. QED BY <1>1, <1>2, <1>3, <1>4, <1>5

\* A multiple has no remainder.
LEMMA MulMod ==
  ASSUME NEW q \in Nat, NEW n \in Nat, n > 0
  PROVE  (q * n) % n = 0
  BY SMTT(30)

\* The batches of SyncClaimCntInChannel (daemon/jobs/valuesync.go) leave no height
\* out, whatever the latest one and the increment are.
THEOREM ChannelReach ==
  ASSUME NEW latest \in Nat, latest > 0
  PROVE  Reached(ChannelBatches(latest)) = 0..latest
<1> DEFINE n == Increment
           Starts == {i \in 0..(latest - 1) : i % n = 0}
<1>0. n \in Nat /\ n > 0
  BY IncrementAssumption
<1>1. \A x : x \in Reached(ChannelBatches(latest)) <=>
               \E i \in Starts : x \in i..Least(i + n, latest)
  <2> DEFINE B(i) == [from |-> i, to |-> Least(i + n, latest)]
  <2>1. \A i : B(i).from..B(i).to = i..Least(i + n, latest)
    OBVIOUS
  <2>2. ChannelBatches(latest) = {B(i) : i \in Starts}
    BY Zenon DEF ChannelBatches
  <2> HIDE DEF B
  <2>3. QED BY <2>1, <2>2, Zenon DEF Reached
<1> HIDE DEF n
<1>2. ASSUME NEW x, x \in Reached(ChannelBatches(latest)) PROVE x \in 0..latest
  <2>1. PICK i \in Starts : x \in i..Least(i + n, latest)
    BY <1>1, <1>2
  <2>2. Least(i + n, latest) \in Int /\ Least(i + n, latest) <= latest
    BY <1>0 DEF Least
  <2>3. QED BY <1>0, <2>1, <2>2
<1>3. ASSUME NEW x \in 0..latest PROVE x \in Reached(ChannelBatches(latest))
  <2> DEFINE q == x \div n
             i == q * n
             r == x % n
  <2>1. q \in Nat /\ r \in 0..(n - 1) /\ x = i + r /\ i \in Nat /\ i % n = 0
    BY <1>0, DivMod, MulMod
  <2>2. CASE i < latest
    <3> HIDE DEF i, r
    <3>1. i \in Starts
      BY <2>1, <2>2
    <3>2. x \in i..Least(i + n, latest)
      BY <1>0, <2>1 DEF Least
    <3>3. QED BY <1>1, <3>1, <3>2
  <2>3. CASE ~(i < latest)
    <3> DEFINE j == (q - 1) * n
    <3>1. x = latest /\ r = 0 /\ i = latest
      <4> HIDE DEF i, r
      <4>1. QED BY <1>0, <2>1, <2>3
    <3>2. q # 0
      <4>1. q = 0 => i = 0
        BY <1>0
      <4>2. QED BY <3>1, <4>1
    <3>3. q - 1 \in Nat
      BY <2>1, <3>2
    <3>4. j = i - n
      <4> HIDE DEF q
      <4>1. QED BY <1>0, <2>1
    <3>5. j \in Nat /\ j % n = 0
      <4> DEFINE p == q - 1
      <4>1. p \in Nat
        BY <3>3
      <4> HIDE DEF p
      <4>2. p * n \in Nat /\ (p * n) % n = 0
        BY <1>0, <4>1, MulMod
      <4>3. QED BY <4>2 DEF p
    <3> HIDE DEF i, j, r
    <3>6. j \in Starts
      BY <1>0, <3>1, <3>4, <3>5
    <3>7. x \in j..Least(j + n, latest)
      BY <1>0, <3>1, <3>4, <3>5 DEF Least
    <3>8. QED BY <1>1, <3>6, <3>7
  <2>4. QED BY <2>2, <2>3
<1>4. QED BY <1>2, <1>3

\* Whatever chain sync, the daemon and the node did before, a run of
\* SyncClaimCntInChannel reaches every stored height.
THEOREM ChannelsReachedAlways == Spec => []ChannelsReached
<1>1. IInv => ChannelsReached
  <2>1. IInv => Top \in Nat
    BY TopNow DEF IInv, RowsOK
  <2>2. QED BY <2>1, ChannelReach DEF ChannelsReached
<1>2. QED BY <1>1, Invariance, PTL

\* The batches of SyncTransactionValue (daemon/jobs/valuesync.go) reach exactly the
\* heights up to the last multiple of the increment: "the value column of all
\* transactions", as the comment of the function has it, is not what they reach unless
\* the latest height is such a multiple.
THEOREM ValueReach ==
  ASSUME NEW latest \in Nat, latest > 0
  PROVE  Reached(TransactionBatches(latest)) =
           0..(latest - (latest % TransactionIncrement(latest)))
<1> DEFINE n == TransactionIncrement(latest)
           q == latest \div n
           m == q * n
           To(i) == Least((i + 1) * n, latest)
<1>0. n \in Nat /\ n > 0 /\ n <= latest
  BY IncrementAssumption DEF TransactionIncrement, Least
<1>1. \A x : x \in Reached(TransactionBatches(latest)) <=>
               \E i \in 0..(q - 1) : x \in (i * n)..To(i)
  <2> DEFINE B(i) == [from |-> i * n, to |-> To(i)]
  <2>1. \A i : B(i).from..B(i).to = (i * n)..To(i)
    OBVIOUS
  <2>2. TransactionBatches(latest) = {B(i) : i \in 0..(q - 1)}
    BY Zenon DEF TransactionBatches
  <2> HIDE DEF B
  <2>3. QED BY <2>1, <2>2, Zenon DEF Reached
<1> HIDE DEF n
<1>2. q \in Nat /\ latest % n \in 0..(n - 1) /\ latest = m + (latest % n) /\ m \in Nat
  BY <1>0, DivMod
<1>3. m <= latest /\ latest - (latest % n) = m
  <2> HIDE DEF m
  <2>1. QED BY <1>0, <1>2
<1>4. q # 0
  <2>1. q = 0 => m = 0
    BY <1>0
  <2>2. latest % n < latest
    BY <1>0, <1>2
  <2> HIDE DEF m
  <2>3. QED BY <1>0, <1>2, <2>1, <2>2
<1> HIDE DEF q
<1>5. ASSUME NEW i \in 0..(q - 1)
      PROVE  i * n \in Nat /\ (i + 1) * n = i * n + n /\ To(i) = (i + 1) * n /\ To(i) <= m
  <2>1. i \in Nat /\ i + 1 \in Nat /\ i + 1 <= q
    BY <1>2
  <2>2. (i + 1) * n <= m /\ (i + 1) * n \in Nat
    BY <1>0, <1>2, <2>1, MulMono
  <2>3. i * n \in Nat /\ (i + 1) * n = i * n + n
    BY <1>0, <2>1
  <2>4. To(i) = (i + 1) * n
    <3> DEFINE t == (i + 1) * n
    <3>1. t \in Nat /\ t <= latest
      <4> HIDE DEF m, t
      <4>1. QED BY <1>2, <1>3, <2>2 DEF t
    <3> HIDE DEF t
    <3>2. Least(t, latest) = t
      BY <3>1 DEF Least
    <3>3. QED BY <3>2 DEF t
  <2>5. QED BY <2>2, <2>3, <2>4
<1>6. ASSUME NEW x, x \in Reached(TransactionBatches(latest)) PROVE x \in 0..m
  <2>1. PICK i \in 0..(q - 1) : x \in (i * n)..To(i)
    BY <1>1, <1>6
  <2>2. i * n \in Nat /\ To(i) \in Nat /\ To(i) <= m
    BY <1>0, <1>5, <2>1
  <2> DEFINE lo == i * n
             hi == To(i)
  <2>3. x \in lo..hi /\ lo \in Nat /\ hi \in Nat /\ hi <= m
    BY <2>1, <2>2
  <2> HIDE DEF lo, hi, m
  <2>4. QED BY <1>2, <2>3
<1>7. ASSUME NEW x \in 0..m PROVE x \in Reached(TransactionBatches(latest))
  <2>0. x \in Nat /\ x <= m
    <3> HIDE DEF m
    <3>1. QED BY <1>2
  <2>1. CASE x = m
    <3>1. q - 1 \in 0..(q - 1) /\ q - 1 + 1 = q
      BY <1>2, <1>4
    <3>2. (q - 1) * n \in Nat /\ To(q - 1) = m /\ m = (q - 1) * n + n
      BY <1>5, <3>1
    <3> DEFINE lo == (q - 1) * n
    <3>3. m \in lo..m
      <4>1. lo \in Nat /\ m = lo + n
        BY <3>2
      <4> HIDE DEF lo, m
      <4>2. QED BY <1>0, <4>1
    <3>4. x \in ((q - 1) * n)..To(q - 1)
      BY <2>1, <3>2, <3>3
    <3>5. QED BY <1>1, <3>1, <3>4
  <2>2. CASE x < m
    <3> DEFINE i == x \div n
               lo == i * n
               r == x % n
    <3>1. i \in Nat /\ r \in 0..(n - 1) /\ x = lo + r /\ lo \in Nat
      BY <1>0, <2>0, DivMod
    <3> HIDE DEF i
    <3>2. i < q
      <4>1. ~(q <= i)
        <5>1. SUFFICES ASSUME q <= i PROVE FALSE
          OBVIOUS
        <5>2. m <= lo
          BY <1>0, <1>2, <3>1, <5>1, MulMono
        <5> HIDE DEF m, lo, r
        <5>3. QED BY <1>0, <1>2, <2>0, <2>2, <3>1, <5>2
      <4>2. QED BY <1>2, <3>1, <4>1
    <3>3. i \in 0..(q - 1)
      BY <1>2, <3>1, <3>2
    <3>4. To(i) = lo + n
      BY <1>5, <3>3
    <3>5. x \in lo..(lo + n)
      <4> HIDE DEF lo, r
      <4>1. QED BY <1>0, <2>0, <3>1
    <3>6. x \in (i * n)..To(i)
      BY <3>4, <3>5
    <3>7. QED BY <1>1, <3>3, <3>6
  <2>3. QED
    <3> HIDE DEF m
    <3>1. QED BY <1>2, <2>0, <2>1, <2>2
<1>8. QED BY <1>3, <1>6, <1>7 DEF n

=============================================================================
