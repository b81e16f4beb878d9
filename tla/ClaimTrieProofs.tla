--------------------------- MODULE ClaimTrieProofs ---------------------------
(***************************************************************************)
(* Proofs about ClaimTrie, for any claims and all bounds: the types, that  *)
(* the stored versions are those of the node, and who can lose one.        *)
(*                                                                         *)
(* The invariant carries the types along every copy of a row: from the     *)
(* node's claims to the answer that the job keeps, from the table to the   *)
(* snapshots of block processing and of the job, and back.  It says that   *)
(* the three windows of time are nested, the one that starts with the run  *)
(* too, which becomes LastSync when the run ends; that neither the table   *)
(* nor a snapshot is ahead of the node; and that a snapshot of the job is  *)
(* no newer than the table, so that what the job writes back is either the *)
(* version that is there or a loss.                                        *)
(***************************************************************************)
EXTENDS ClaimTrie, TLAPS

Effs     == {0} \cup {Amount[c] : c \in Claims}
Heights  == 0..(MaxHeight + MaxDelay)
RowSet   == [ver : 0..MaxVersion, bid : Bids, validAt : Heights, eff : Effs]
TrieSet  == [ver : 0..MaxVersion, live : BOOLEAN, validAt : Heights]
JsonSet  == [validAt : Heights, eff : Effs, pending : Effs]

\* A function from some of the claims.
Some(S) == UNION {[D -> S] : D \in SUBSET Claims}

NodeOK ==
  /\ height \in Nat /\ trie \in [Claims -> TrieSet]
  /\ \A c \in Claims : trie[c].live => trie[c].ver >= 1

RowsOK == rows \in [Claims -> RowSet]

Nested ==
  /\ spent \subseteq Published
  /\ spentSince \in [Windows -> SUBSET Published]
  /\ spentSince["started"] \subseteq spentSince["last"]
  /\ spentSince["last"] \subseteq spentSince["previous"]

LockOK ==
  /\ lock \in [Claims -> {"nobody", "writer"}]
  /\ \A c \in Claims : lock[c] = "writer" <=> writer.at = "write" /\ writer.claim = c

WriterOK ==
  \/ writer = Idle
  \/ writer \in [at : {"lock"}, claim : Claims]
  \/ writer \in [at : {"write"}, claim : Claims, row : RowSet]

Bidding == job \in [at : {"bids"}, height : Nat, todo : SUBSET Claims, controlling : BOOLEAN,
                    row : Some(RowSet)]

JobOK ==
  \/ job = Idle
  \/ job \in [at : {"spent1", "spent2"}, todo : SUBSET Claims]
  \/ job = [at |-> "start"]
  \/ job \in [at : {"select", "done"}, height : Nat]
  \/ job \in [at : {"sync"}, height : Nat, trie : Some(JsonSet)]
  \/ Bidding /\ job.todo \subseteq DOMAIN job.row

\* A row of the job's snapshot is no newer than the one in the table.
Older == job.at = "bids" => \A c \in job.todo : job.row[c].ver <= rows[c].ver

\* No row, and none of the job's snapshot, is ahead of the node.
Behind ==
  /\ \A c \in Claims : rows[c].ver <= trie[c].ver
  /\ job.at = "bids" => \A c \in job.todo : job.row[c].ver <= trie[c].ver

IInv == NodeOK /\ RowsOK /\ Nested /\ LockOK /\ WriterOK /\ JobOK /\ Older /\ Behind
        /\ Current

-----------------------------------------------------------------------------
(* Lemmas about the state.                                                 *)

\* The bounds as integers.
LEMMA Bounds ==
  /\ MaxHeight \in Nat /\ MaxVersion \in Nat /\ MaxVersion >= 1 /\ MaxDelay \in Nat
  /\ 0 \in Heights /\ 0 \in 0..MaxVersion /\ 1 \in 0..MaxVersion /\ 0 \in Effs
  /\ \A c \in Claims : Amount[c] \in Effs
  BY BoundsAssumption DEF Heights, Effs

\* A step that changes none of what a conjunct is about keeps it: the node.
LEMMA NodeKept == ASSUME NodeOK, UNCHANGED <<height, trie>> PROVE NodeOK'
  BY DEF NodeOK
\* The same: the rows.
LEMMA RowsKept == ASSUME RowsOK, UNCHANGED rows PROVE RowsOK'
  BY DEF RowsOK
\* The same: the windows of time.
LEMMA NestedKept == ASSUME Nested, UNCHANGED <<trie, spent, spentSince>> PROVE Nested'
  BY DEF Nested, Published
\* The same: the locks.
LEMMA LockKept == ASSUME LockOK, UNCHANGED <<lock, writer>> PROVE LockOK'
  BY DEF LockOK
\* The same: block processing.
LEMMA WriterKept == ASSUME WriterOK, UNCHANGED writer PROVE WriterOK'
  BY DEF WriterOK
\* The same: the job.
LEMMA JobKept == ASSUME JobOK, UNCHANGED job PROVE JobOK'
  BY DEF JobOK, Bidding
\* The same: the age of the snapshot.
LEMMA OlderKept == ASSUME Older, UNCHANGED <<rows, job>> PROVE Older'
  BY DEF Older
\* The same: the versions.
LEMMA CurrentKept == ASSUME Current, UNCHANGED <<rows, trie, writer, stale>> PROVE Current'
  BY DEF Current

\* The same: the versions that the node has.
LEMMA BehindKept == ASSUME Behind, UNCHANGED <<rows, job, trie>> PROVE Behind'
  BY DEF Behind

\* The rows keep their versions, and there is no snapshot.
LEMMA BehindSame ==
  ASSUME Behind, UNCHANGED trie, \A c \in Claims : rows'[c].ver = rows[c].ver, job'.at # "bids"
  PROVE  Behind'
  BY DEF Behind

\* A job that is not at the bids has no snapshot.
LEMMA OlderElsewhere == ASSUME job'.at # "bids" PROVE Older'
  BY DEF Older

\* What the job has at each of its places.
LEMMA JobShape ==
  ASSUME JobOK
  PROVE  /\ job.at \in {"idle", "spent1", "spent2", "start", "select", "done", "sync", "bids"}
         /\ job.at \in {"spent1", "spent2"} => job \in [at : {"spent1", "spent2"}, todo : SUBSET Claims]
         /\ job.at \in {"select", "done"} => job \in [at : {"select", "done"}, height : Nat]
         /\ job.at = "sync" => job \in [at : {"sync"}, height : Nat, trie : Some(JsonSet)]
         /\ job.at = "bids" => Bidding /\ job.todo \subseteq DOMAIN job.row
<1>1. CASE job = Idle
  BY <1>1 DEF Idle
<1>2. CASE job \in [at : {"spent1", "spent2"}, todo : SUBSET Claims]
  BY <1>2
<1>3. CASE job = [at |-> "start"]
  BY <1>3
<1>4. CASE job \in [at : {"select", "done"}, height : Nat]
  BY <1>4
<1>5. CASE job \in [at : {"sync"}, height : Nat, trie : Some(JsonSet)]
  BY <1>5
<1>6. CASE Bidding /\ job.todo \subseteq DOMAIN job.row
  BY <1>6 DEF Bidding
<1>7. QED BY <1>1, <1>2, <1>3, <1>4, <1>5, <1>6 DEF JobOK

\* What block processing has at each of its places.
LEMMA WriterShape ==
  ASSUME WriterOK
  PROVE  /\ writer.at \in {"idle", "lock", "write"}
         /\ writer.at = "idle" => writer = Idle
         /\ writer.at = "lock" => writer # Idle /\ writer \in [at : {"lock"}, claim : Claims]
         /\ writer.at = "write" =>
              writer # Idle /\ writer \in [at : {"write"}, claim : Claims, row : RowSet]
<1>1. CASE writer = Idle
  BY <1>1 DEF Idle
<1>2. CASE writer \in [at : {"lock"}, claim : Claims]
  BY <1>2 DEF Idle
<1>3. CASE writer \in [at : {"write"}, claim : Claims, row : RowSet]
  BY <1>3 DEF Idle
<1>4. QED BY <1>1, <1>2, <1>3 DEF WriterOK

\* The values of a function from some of the claims.
LEMMA SomeOf ==
  ASSUME NEW S, NEW f \in Some(S)
  PROVE  /\ DOMAIN f \subseteq Claims /\ \A c \in DOMAIN f : f[c] \in S
         /\ f = [c \in DOMAIN f |-> f[c]]
  BY DEF Some

\* Such a function.
LEMMA SomeIs ==
  ASSUME NEW S, NEW D \in SUBSET Claims, NEW f, f \in [D -> S]
  PROVE  f \in Some(S)
  BY DEF Some

\* Versions only grow.
LEMMA BehindGrows ==
  ASSUME Behind, NodeOK, NodeOK', RowsOK, JobOK, UNCHANGED <<rows, job>>,
         \A c \in Claims : trie[c].ver <= trie'[c].ver
  PROVE  Behind'
<1>1. ASSUME NEW c \in Claims PROVE rows[c].ver <= trie'[c].ver
  <2>1. rows[c].ver \in Int /\ trie[c].ver \in Int /\ trie'[c].ver \in Int
    BY DEF NodeOK, RowsOK, RowSet, TrieSet
  <2>2. QED BY <2>1 DEF Behind
<1>2. ASSUME job.at = "bids", NEW c \in job.todo PROVE job.row[c].ver <= trie'[c].ver
  <2>1. c \in Claims /\ job.row[c] \in RowSet
    BY <1>2, JobShape, SomeOf DEF Bidding
  <2>2. job.row[c].ver \in Int /\ trie[c].ver \in Int /\ trie'[c].ver \in Int
    BY <2>1 DEF NodeOK, RowSet, TrieSet
  <2>3. QED BY <1>2, <2>1, <2>2 DEF Behind
<1>3. QED BY <1>1, <1>2 DEF Behind

-----------------------------------------------------------------------------
(* Writing rows.                                                           *)

\* A row that is written whole.
LEMMA PutClaimTypes ==
  ASSUME RowsOK, NEW c \in Claims, NEW r \in RowSet, PutClaim(c, r)
  PROVE  /\ RowsOK' /\ rows'[c] = r
         /\ \A d \in Claims : d # c => rows'[d] = rows[d]
  BY DEF RowsOK, PutClaim

\* An update of the bid states.
LEMMA SetBidTypes ==
  ASSUME RowsOK, NEW C, NEW b \in Bids, SetBid(C, b)
  PROVE  RowsOK' /\ \A d \in Claims : rows'[d].ver = rows[d].ver
<1>1. ASSUME NEW d \in Claims PROVE rows'[d] \in RowSet /\ rows'[d].ver = rows[d].ver
  <2>1. rows[d] \in RowSet
    BY DEF RowsOK
  <2>2. [rows[d] EXCEPT !.bid = b] \in RowSet /\ [rows[d] EXCEPT !.bid = b].ver = rows[d].ver
    BY <2>1 DEF RowSet
  <2>3. QED BY <2>1, <2>2 DEF SetBid
<1>2. rows' \in [Claims -> RowSet]
  <2>1. rows' = [d \in Claims |-> rows'[d]]
    BY DEF SetBid
  <2>2. QED BY <1>1, <2>1
<1>3. QED BY <1>1, <1>2 DEF RowsOK

\* Rows of the same versions keep what is said of versions.
LEMMA SameVersions ==
  ASSUME Current, \A d \in Claims : rows'[d].ver = rows[d].ver,
         UNCHANGED <<trie, writer, stale>>
  PROVE  Current'
  BY DEF Current

-----------------------------------------------------------------------------
(* The node.                                                               *)

\* What NextBlock says of the height.
LEMMA HeightNext == ASSUME NodeOK, NextBlock PROVE height' \in Nat /\ height \in Nat
  BY DEF NodeOK, NextBlock

\* A block without claims.
LEMMA EmptyStep == ASSUME IInv, Empty PROVE IInv'
<1>1. NodeOK'
  BY HeightNext DEF IInv, NodeOK, Empty
<1>2. UNCHANGED <<trie, rows, spent, spentSince, lock, writer, job, stale>>
  BY DEF Empty, dbVars
<1>3. QED
  BY <1>1, <1>2, RowsKept, NestedKept, LockKept, WriterKept, JobKept, OlderKept, BehindKept,
     CurrentKept
     DEF IInv

\* A new version is one of the trie's.
LEMMA BecomesTypes ==
  ASSUME NodeOK, NEW c \in Claims, NEW v \in 0..MaxVersion, Becomes(c, v)
  PROVE  /\ trie' \in [Claims -> TrieSet] /\ trie'[c].ver = v
         /\ \A d \in Claims : d # c => trie'[d] = trie[d]
<1>1. PICK h \in (height + 1)..(height + 1 + MaxDelay) :
        /\ h <= MaxHeight
        /\ trie' = [trie EXCEPT ![c] = [ver |-> v, live |-> TRUE, validAt |-> h]]
  BY DEF Becomes
<1>2. h \in Heights
  BY <1>1, Bounds DEF Heights, NodeOK
<1>3. [ver |-> v, live |-> TRUE, validAt |-> h] \in TrieSet
  BY <1>2 DEF TrieSet
<1>4. QED BY <1>1, <1>3 DEF NodeOK

\* The transactions of a claim stay.
LEMMA PublishedGrows ==
  ASSUME NodeOK, NodeOK', \A c \in Claims : trie[c].ver <= trie'[c].ver
  PROVE  Published \subseteq Published'
<1>1. ASSUME NEW c \in Claims, NEW v \in 1..MaxVersion, v <= trie[c].ver
      PROVE  v <= trie'[c].ver
  <2>1. trie[c].ver \in Int /\ trie'[c].ver \in Int /\ v \in Int
    BY DEF NodeOK, TrieSet
  <2>2. QED BY <1>1, <2>1
<1>2. QED BY <1>1 DEF Published

\* While versions only grow and nothing is spent, the windows stay.
LEMMA NestedGrows ==
  ASSUME Nested, NodeOK, NodeOK', UNCHANGED <<spent, spentSince>>,
         \A c \in Claims : trie[c].ver <= trie'[c].ver
  PROVE  Nested'
  BY PublishedGrows DEF Nested

\* The transaction of a spent output enters every window.
LEMMA SpendNested ==
  ASSUME Nested, NodeOK, NodeOK', NEW o \in Published, SpendOf(o),
         spent' = spent \/ spent' = spent \cup {o},
         \A c \in Claims : trie[c].ver <= trie'[c].ver
  PROVE  Nested'
<1>1. spentSince' = [w \in Windows |-> spentSince[w] \cup {o}]
  BY DEF SpendOf
<1>2. Published \subseteq Published'
  BY PublishedGrows
<1>3. QED BY <1>1, <1>2 DEF Nested, Windows

\* While the writer is idle and takes claim c, the others are as they were.
LEMMA WriterTakes ==
  ASSUME IInv, NEW c \in Claims, writer = Idle, writer' = [at |-> "lock", claim |-> c],
         UNCHANGED <<rows, lock, stale>>,
         \A d \in Claims : d # c => trie'[d] = trie[d]
  PROVE  WriterOK' /\ LockOK' /\ Current'
<1>1. WriterOK'
  BY DEF WriterOK
<1>2. LockOK'
  BY DEF IInv, LockOK, Idle
<1>3. Current'
  BY DEF IInv, Current, Idle
<1>4. QED BY <1>1, <1>2, <1>3

\* A new claim.
LEMMA CreateStep == ASSUME IInv, NEW c \in Claims, Create(c) PROVE IInv'
<1>1. /\ trie' \in [Claims -> TrieSet] /\ trie'[c].ver = 1
      /\ \A d \in Claims : d # c => trie'[d] = trie[d]
  BY BecomesTypes, Bounds DEF IInv, Create
<1>2. NodeOK'
  BY <1>1, HeightNext DEF IInv, NodeOK, Create
<1>3. /\ UNCHANGED <<rows, spent, spentSince, lock, job, stale>>
      /\ writer = Idle /\ writer' = [at |-> "lock", claim |-> c]
  BY DEF Create, dbVars, NextBlock
<1>4. WriterOK' /\ LockOK' /\ Current'
  BY <1>1, <1>3, WriterTakes
<1>5. \A d \in Claims : trie[d].ver <= trie'[d].ver
  <2>1. trie[c].ver = 0
    BY DEF Create
  <2>2. \A d \in Claims : trie[d].ver \in Int
    BY DEF IInv, NodeOK, TrieSet
  <2>3. QED BY <1>1, <2>1, <2>2
<1>6. Behind' /\ Nested'
  BY <1>2, <1>3, <1>5, BehindGrows, NestedGrows DEF IInv
<1>7. QED BY <1>2, <1>3, <1>4, <1>6, RowsKept, JobKept, OlderKept DEF IInv

\* The transaction of the version that a live claim has.
LEMMA LastPublished ==
  ASSUME NodeOK, NEW c \in Claims, trie[c].live
  PROVE  <<c, trie[c].ver>> \in Published
<1>1. trie[c].ver \in 0..MaxVersion /\ trie[c].ver >= 1
  BY DEF NodeOK, TrieSet
<1>2. trie[c].ver \in 1..MaxVersion /\ trie[c].ver <= trie[c].ver
  BY <1>1, Bounds
<1>3. QED BY <1>2 DEF Published

\* A new version of a claim.
LEMMA UpdateStep == ASSUME IInv, NEW c \in Claims, Update(c) PROVE IInv'
<1>0. trie[c].ver + 1 \in 0..MaxVersion /\ trie[c].ver + 1 >= 1
  <2>1. trie[c].ver \in 0..MaxVersion /\ trie[c].ver < MaxVersion
    BY DEF IInv, NodeOK, TrieSet, Update
  <2>2. QED BY <2>1, Bounds
<1>1. /\ trie' \in [Claims -> TrieSet] /\ trie'[c].ver = trie[c].ver + 1
      /\ \A d \in Claims : d # c => trie'[d] = trie[d]
  BY <1>0, BecomesTypes DEF IInv, Update
<1>2. NodeOK'
  BY <1>0, <1>1, HeightNext DEF IInv, NodeOK, Update
<1>3. /\ UNCHANGED <<rows, lock, job, stale>>
      /\ writer = Idle /\ writer' = [at |-> "lock", claim |-> c]
  BY DEF Update, NextBlock
<1>4. WriterOK' /\ LockOK' /\ Current'
  BY <1>1, <1>3, WriterTakes
<1>5. \A d \in Claims : trie[d].ver <= trie'[d].ver
  <2>1. \A d \in Claims : trie[d].ver \in Int
    BY DEF IInv, NodeOK, TrieSet
  <2>2. QED BY <1>1, <2>1
<1>6. Behind'
  BY <1>2, <1>3, <1>5, BehindGrows DEF IInv
<1>7. Nested'
  <2> DEFINE o == <<c, trie[c].ver>>
  <2>1. o \in Published
    BY LastPublished DEF IInv, Update
  <2>2. spent' = spent \cup {o} /\ SpendOf(o)
    BY DEF Update, Spend
  <2> HIDE DEF o
  <2>3. QED BY <1>2, <1>5, <2>1, <2>2, SpendNested DEF IInv
<1>8. QED BY <1>2, <1>3, <1>4, <1>6, <1>7, RowsKept, JobKept, OlderKept DEF IInv

\* A claim that is abandoned.
LEMMA AbandonStep == ASSUME IInv, NEW c \in Claims, Abandon(c) PROVE IInv'
<1>1. /\ trie' \in [Claims -> TrieSet] /\ trie'[c].ver = trie[c].ver /\ ~trie'[c].live
      /\ \A d \in Claims : d # c => trie'[d] = trie[d]
  BY DEF IInv, NodeOK, TrieSet, Abandon
<1>2. NodeOK'
  BY <1>1, HeightNext DEF IInv, NodeOK, Abandon
<1>3. UNCHANGED <<rows, lock, writer, job, stale>>
  BY DEF Abandon
<1>4. Current'
  BY <1>1, <1>3 DEF IInv, Current
<1>5. \A d \in Claims : trie[d].ver <= trie'[d].ver
  <2>1. \A d \in Claims : trie[d].ver \in Int
    BY DEF IInv, NodeOK, TrieSet
  <2>2. QED BY <1>1, <2>1
<1>6. Behind'
  BY <1>2, <1>3, <1>5, BehindGrows DEF IInv
<1>7. Nested'
  <2> DEFINE o == <<c, trie[c].ver>>
  <2>1. o \in Published
    BY LastPublished DEF IInv, Abandon
  <2>2. spent' = spent \cup {o} /\ SpendOf(o)
    BY DEF Abandon, Spend
  <2> HIDE DEF o
  <2>3. QED BY <1>2, <1>5, <2>1, <2>2, SpendNested DEF IInv
<1>8. QED
  BY <1>2, <1>3, <1>4, <1>6, <1>7, RowsKept, LockKept, WriterKept, JobKept, OlderKept DEF IInv

\* Another output of a claim's transaction is spent.
LEMMA SpendChangeStep == ASSUME IInv, NEW c \in Claims, SpendChange(c) PROVE IInv'
<1>1. UNCHANGED <<trie, rows, spent, lock, writer, job, stale>>
  BY DEF SpendChange
<1>2. NodeOK'
  BY <1>1, HeightNext DEF IInv, NodeOK, SpendChange
<1>3. PICK v \in 1..trie[c].ver : SpendOf(<<c, v>>)
  BY DEF SpendChange
<1>4. <<c, v>> \in Published
  <2>1. trie[c].ver \in 0..MaxVersion
    BY DEF IInv, NodeOK, TrieSet
  <2>2. v \in 1..MaxVersion /\ v <= trie[c].ver
    BY <1>3, <2>1, Bounds
  <2>3. QED BY <2>2 DEF Published
<1>5. \A d \in Claims : trie[d].ver <= trie'[d].ver
  <2>1. \A d \in Claims : trie[d].ver \in Int
    BY DEF IInv, NodeOK, TrieSet
  <2>2. QED BY <1>1, <2>1
<1>6. Nested'
  BY <1>1, <1>2, <1>3, <1>4, <1>5, SpendNested DEF IInv
<1>7. QED
  BY <1>1, <1>2, <1>6, RowsKept, LockKept, WriterKept, JobKept, OlderKept, BehindKept, CurrentKept
     DEF IInv

-----------------------------------------------------------------------------
(* Block processing.                                                       *)

\* The claim is locked and read.
LEMMA WriterReadsStep == ASSUME IInv, WriterReads PROVE IInv'
<1>1. /\ UNCHANGED <<height, trie, rows, spent, spentSince, job, stale>>
      /\ writer.at = "lock"
  BY DEF WriterReads, dbVars
<1>2. writer # Idle /\ writer.claim \in Claims
  BY <1>1, WriterShape DEF IInv
<1> DEFINE c == writer.claim
<1>3. /\ lock' = [lock EXCEPT ![c] = "writer"]
      /\ writer' = [at |-> "write", claim |-> c, row |-> rows[c]]
  BY DEF WriterReads
<1>4. WriterOK'
  BY <1>2, <1>3 DEF IInv, WriterOK, RowsOK
<1>5. LockOK'
  BY <1>1, <1>2, <1>3 DEF IInv, LockOK
<1>6. Current'
  BY <1>1, <1>2, <1>3 DEF IInv, Current, Idle
<1>7. QED
  BY <1>1, <1>4, <1>5, <1>6, NodeKept, RowsKept, NestedKept, JobKept, OlderKept,
     BehindKept DEF IInv

\* The row that block processing writes is of the version that the node has.
LEMMA WrittenRow ==
  ASSUME IInv, WriterWrites
  PROVE  /\ writer # Idle /\ writer.claim \in Claims /\ RowsOK'
         /\ rows'[writer.claim].ver = trie[writer.claim].ver
         /\ \A d \in Claims : d # writer.claim => rows'[d] = rows[d]
<1>1. writer.at = "write"
  BY DEF WriterWrites
<1>2. writer # Idle /\ writer.claim \in Claims /\ writer.row \in RowSet
  BY <1>1, WriterShape DEF IInv
<1> DEFINE c == writer.claim
           r == IF writer.row = NoRow THEN NewRow ELSE writer.row
           n == [r EXCEPT !.ver = trie[c].ver,
                          !.bid = IF @ = "Spent" THEN "Accepted" ELSE @]
<1>3. PutClaim(c, n)
  BY DEF WriterWrites
<1>4. n \in RowSet /\ n.ver = trie[c].ver
  <2>1. NewRow \in RowSet
    BY Bounds DEF RowSet, NewRow, Bids
  <2>2. r \in RowSet
    BY <1>2, <2>1
  <2>3. trie[c].ver \in 0..MaxVersion
    BY <1>2 DEF IInv, NodeOK, TrieSet
  <2> HIDE DEF r
  <2>4. QED BY <2>2, <2>3 DEF RowSet, Bids
<1> HIDE DEF n
<1>5. QED BY <1>2, <1>3, <1>4, PutClaimTypes DEF IInv

\* The row is written and the claim unlocked.
LEMMA WriterWritesStep == ASSUME IInv, WriterWrites PROVE IInv'
<1> DEFINE c == writer.claim
<1>1. /\ UNCHANGED <<height, trie, job, spent, spentSince>> /\ writer.at = "write"
      /\ writer' = Idle /\ stale' = stale \ {c} /\ lock' = [lock EXCEPT ![c] = "nobody"]
  BY DEF WriterWrites, PutClaim
<1>2. /\ writer # Idle /\ c \in Claims /\ RowsOK' /\ rows'[c].ver = trie[c].ver
      /\ \A d \in Claims : d # c => rows'[d] = rows[d]
  BY WrittenRow
<1> HIDE DEF c
<1>3. \A d \in Claims : /\ rows[d].ver \in Int /\ rows'[d].ver \in Int /\ trie[d].ver \in Int
                        /\ rows[d].ver <= trie[d].ver
  BY <1>2 DEF IInv, RowsOK, RowSet, NodeOK, TrieSet, Behind
<1>4. LockOK'
  BY <1>1, <1>2 DEF IInv, LockOK, Idle, c
<1>5. WriterOK'
  BY <1>1 DEF WriterOK
<1>6. Current'
  BY <1>1, <1>2 DEF IInv, Current, c
<1>7. Older'
  <2>1. SUFFICES ASSUME job.at = "bids", NEW d \in job.todo
                 PROVE  job.row[d].ver <= rows'[d].ver
    BY <1>1 DEF Older
  <2>2. d \in Claims /\ job.row[d] \in RowSet
    BY <2>1, JobShape, SomeOf DEF IInv, Bidding
  <2>3. job.row[d].ver <= rows[d].ver /\ job.row[d].ver \in Int
    BY <2>1, <2>2 DEF IInv, Older, RowSet
  <2>4. QED BY <1>2, <1>3, <2>2, <2>3
<1>8. Behind'
  <2>1. \A d \in Claims : rows'[d].ver <= trie'[d].ver
    BY <1>1, <1>2, <1>3
  <2>2. QED BY <1>1, <2>1 DEF IInv, Behind
<1>9. QED
  BY <1>1, <1>2, <1>4, <1>5, <1>6, <1>7, <1>8, NodeKept, NestedKept, JobKept DEF IInv

\* The write fails: the claim is unlocked, and is before block processing again or
\* stale.
LEMMA WriterFailsStep == ASSUME IInv, WriterFails PROVE IInv'
<1>1. UNCHANGED <<height, trie, rows, spent, spentSince, job>> /\ writer.at = "write"
  BY DEF WriterFails, dbVars
<1>2. writer # Idle /\ writer.claim \in Claims
  BY <1>1, WriterShape DEF IInv
<1> DEFINE c == writer.claim
<1>3. /\ lock' = [lock EXCEPT ![c] = "nobody"]
      /\ \/ writer' = [at |-> "lock", claim |-> c] /\ UNCHANGED stale
         \/ writer' = Idle /\ stale' = stale \cup {c}
  BY DEF WriterFails
<1>4. WriterOK'
  BY <1>2, <1>3 DEF WriterOK
<1>5. LockOK'
  BY <1>1, <1>2, <1>3 DEF IInv, LockOK, Idle
<1>6. Current'
  BY <1>1, <1>2, <1>3 DEF IInv, Current, Idle
<1>7. QED
  BY <1>1, <1>4, <1>5, <1>6, NodeKept, RowsKept, NestedKept, JobKept, OlderKept,
     BehindKept DEF IInv

\* The update is kept elsewhere and the claim is stale.
LEMMA WriterSkipsStep == ASSUME IInv, WriterSkips PROVE IInv'
<1>1. /\ UNCHANGED <<height, trie, rows, spent, spentSince, lock, job>> /\ writer.at = "lock"
      /\ writer' = Idle /\ stale' = stale \cup {writer.claim}
  BY DEF WriterSkips, dbVars
<1>2. WriterOK'
  BY <1>1 DEF WriterOK
<1>3. LockOK'
  BY <1>1 DEF IInv, LockOK, Idle
<1>4. Current'
  BY <1>1 DEF IInv, Current
<1>5. QED
  BY <1>1, <1>2, <1>3, <1>4, NodeKept, RowsKept, NestedKept, JobKept, OlderKept,
     BehindKept DEF IInv

-----------------------------------------------------------------------------
(* The claim trie job.                                                     *)

\* A step of the job that writes no row keeps what is said of the others.
LEMMA JobOnly ==
  ASSUME IInv, UNCHANGED <<height, trie, rows, spent, spentSince, lock, writer, stale>>
  PROVE  NodeOK' /\ RowsOK' /\ Nested' /\ LockOK' /\ WriterOK' /\ Current'
<1>1. NodeOK' /\ RowsOK' /\ Nested' /\ LockOK' /\ WriterOK'
  BY NodeKept, RowsKept, NestedKept, LockKept, WriterKept DEF IInv
<1>2. Current'
  BY DEF IInv, Current
<1>3. QED BY <1>1, <1>2

\* A run begins.
LEMMA StartJobStep == ASSUME IInv, StartJob PROVE IInv'
<1>1. UNCHANGED <<height, trie, rows, spent, spentSince, lock, writer, stale>>
  BY DEF StartJob, dbVars
<1>2. JobOK' /\ job'.at = "spent1"
  BY DEF StartJob, JobOK, Stored
<1>3. QED BY <1>1, <1>2, JobOnly, OlderElsewhere, BehindSame DEF IInv

\* A claim is marked as spent.
LEMMA MarkSpentStep == ASSUME IInv, MarkSpent PROVE IInv'
<1>1. UNCHANGED <<height, trie, lock, writer>> /\ job.at = "spent1"
  BY DEF MarkSpent, JobAt
<1>2. PICK c \in job.todo : SetBid({c}, "Spent") /\ job' = [job EXCEPT !.todo = @ \ {c}]
  BY DEF MarkSpent
<1>3. RowsOK' /\ \A d \in Claims : rows'[d].ver = rows[d].ver
  BY <1>2, SetBidTypes DEF IInv, Bids
<1>4. UNCHANGED <<spent, spentSince, stale>>
  BY <1>2 DEF SetBid, MarkSpent
<1>5. JobOK' /\ job'.at = "spent1"
  BY <1>1, <1>2, JobShape DEF IInv, JobOK
<1>6. Current'
  BY <1>1, <1>3, <1>4, SameVersions DEF IInv
<1>7. QED
  BY <1>1, <1>3, <1>4, <1>5, <1>6, NodeKept, NestedKept, LockKept, WriterKept, OlderElsewhere, BehindSame
     DEF IInv

\* The claims for the second loop are read.
LEMMA ReadSpentStep == ASSUME IInv, ReadSpent PROVE IInv'
<1>1. UNCHANGED <<height, trie, rows, spent, spentSince, lock, writer, stale>>
  BY DEF ReadSpent, dbVars
<1>2. JobOK' /\ job'.at = "spent2"
  BY DEF ReadSpent, JobOK, Stored
<1>3. QED BY <1>1, <1>2, JobOnly, OlderElsewhere, BehindSame DEF IInv

\* They are marked.
LEMMA MarkAllSpentStep == ASSUME IInv, MarkAllSpent PROVE IInv'
<1>1. UNCHANGED <<height, trie, lock, writer>> /\ SetBid(job.todo, "Spent")
  BY DEF MarkAllSpent
<1>2. RowsOK' /\ \A d \in Claims : rows'[d].ver = rows[d].ver
  BY <1>1, SetBidTypes DEF IInv, Bids
<1>3. UNCHANGED <<spent, spentSince, stale>>
  BY <1>1 DEF SetBid, MarkAllSpent
<1>4. JobOK' /\ job'.at = "start"
  BY DEF MarkAllSpent, JobOK
<1>5. Current'
  BY <1>1, <1>2, <1>3, SameVersions DEF IInv
<1>6. QED
  BY <1>1, <1>2, <1>3, <1>4, <1>5, NodeKept, NestedKept, LockKept, WriterKept, OlderElsewhere, BehindSame
     DEF IInv

\* The window of the run opens.
LEMMA StartedStep == ASSUME IInv, Started PROVE IInv'
<1>1. UNCHANGED <<height, trie, rows, lock, writer, stale>>
  BY DEF Started
<1>2. Nested'
  BY DEF IInv, Nested, Windows, Published, Started
<1>3. JobOK' /\ job'.at = "select"
  BY DEF IInv, NodeOK, Started, JobOK
<1>4. QED
  BY <1>1, <1>2, <1>3, NodeKept, RowsKept, LockKept, WriterKept, CurrentKept, OlderElsewhere, BehindSame
     DEF IInv

\* The node's answer has the types of its claims.
LEMMA AnswerTypes == ASSUME NodeOK PROVE GetClaimsForName \in Some(JsonSet)
<1> DEFINE D == {d \in Claims : trie[d].live}
           A(c) == [validAt |-> trie[c].validAt,
                    eff     |-> IF Valid(c) THEN Amount[c] ELSE 0,
                    pending |-> IF Valid(c) THEN 0 ELSE Amount[c]]
<1>1. ASSUME NEW c \in D PROVE A(c) \in JsonSet
  <2>1. trie[c].validAt \in Heights
    BY DEF NodeOK, TrieSet
  <2>2. (IF Valid(c) THEN Amount[c] ELSE 0) \in Effs /\ (IF Valid(c) THEN 0 ELSE Amount[c]) \in Effs
    BY Bounds
  <2>3. QED BY <2>1, <2>2 DEF JsonSet
<1>2. GetClaimsForName = [c \in D |-> A(c)]
  BY DEF GetClaimsForName
<1> HIDE DEF A
<1>3. GetClaimsForName \in [D -> JsonSet]
  BY <1>1, <1>2
<1>4. D \in SUBSET Claims
  OBVIOUS
<1> HIDE DEF D
<1>5. QED BY <1>3, <1>4, SomeIs

\* The name is chosen or passed over.
LEMMA SelectStep == ASSUME IInv, Select PROVE IInv'
<1>1. UNCHANGED <<height, trie, rows, spent, spentSince, lock, writer, stale>>
  BY DEF Select, dbVars
<1>3. job.height \in Nat
  BY JobShape DEF IInv, Select, JobAt
<1>4. JobOK' /\ job'.at # "bids"
  <2>1. CASE Selected
    BY <1>3, <2>1, AnswerTypes DEF IInv, Select, JobOK
  <2>2. CASE ~Selected
    BY <1>3, <2>2 DEF Select, JobOK
  <2>3. QED BY <2>1, <2>2
<1>5. QED BY <1>1, <1>4, JobOnly, OlderElsewhere, BehindSame DEF IInv

\* The row that syncClaim makes has the types, and the version it had.
LEMMA syncClaimTypes ==
  ASSUME NEW row \in RowSet, NEW json \in JsonSet
  PROVE  syncClaim(row, json) \in RowSet /\ syncClaim(row, json).ver = row.ver
  BY DEF syncClaim, RowSet, JsonSet

\* A claim of the answer is compared with its row.
LEMMA SyncStep == ASSUME IInv, Sync PROVE IInv'
<1>1. UNCHANGED <<height, trie, spent, spentSince, lock, writer, stale>> /\ job.at = "sync"
  BY DEF Sync, JobAt
<1>2. job \in [at : {"sync"}, height : Nat, trie : Some(JsonSet)]
  BY <1>1, JobShape DEF IInv
<1>3. PICK c \in DOMAIN job.trie :
        /\ job' = [job EXCEPT !.trie = [d \in DOMAIN @ \ {c} |-> @[d]]]
        /\ IF c \in Stored /\ syncClaim(rows[c], job.trie[c]) # rows[c]
           THEN rows' = [rows EXCEPT ![c] = syncClaim(rows[c], job.trie[c])] /\ Touch({c})
           ELSE UNCHANGED <<rows, modified>>
  BY DEF Sync
<1> DEFINE f == job.trie
           g == [d \in DOMAIN f \ {c} |-> f[d]]
           s == syncClaim(rows[c], f[c])
<1>4. DOMAIN f \subseteq Claims /\ \A d \in DOMAIN f : f[d] \in JsonSet
  BY <1>2, SomeOf
<1>5. RowsOK' /\ \A d \in Claims : rows'[d].ver = rows[d].ver
  <2>1. rows[c] \in RowSet /\ f[c] \in JsonSet /\ c \in Claims
    BY <1>4 DEF IInv, RowsOK
  <2>2. s \in RowSet /\ s.ver = rows[c].ver
    BY <2>1, syncClaimTypes
  <2>3. rows' = [rows EXCEPT ![c] = s] \/ rows' = rows
    BY <1>3
  <2> HIDE DEF s
  <2>4. QED BY <2>1, <2>2, <2>3 DEF IInv, RowsOK
<1>6. g \in Some(JsonSet)
  <2>1. g \in [DOMAIN f \ {c} -> JsonSet] /\ DOMAIN f \ {c} \in SUBSET Claims
    BY <1>4
  <2> HIDE DEF f, g
  <2>2. QED BY <2>1, SomeIs
<1>7. JobOK' /\ job'.at = "sync"
  <2>1. job' = [job EXCEPT !.trie = g]
    BY <1>3
  <2> HIDE DEF g
  <2>2. job' \in [at : {"sync"}, height : Nat, trie : Some(JsonSet)]
    BY <1>2, <1>6, <2>1
  <2>3. QED BY <2>2 DEF JobOK
<1>8. Current'
  BY <1>1, <1>5, SameVersions DEF IInv
<1>9. QED
  BY <1>1, <1>5, <1>7, <1>8, NodeKept, NestedKept, LockKept, WriterKept, OlderElsewhere, BehindSame DEF IInv

\* The snapshot of the bids is taken from the rows.
LEMMA ReadBidsStep == ASSUME IInv, ReadBids PROVE IInv'
<1>1. UNCHANGED <<height, trie, rows, spent, spentSince, lock, writer, stale>>
  BY DEF ReadBids, dbVars
<1>2. job.height \in Nat
  BY JobShape DEF IInv, ReadBids, JobAt
<1> DEFINE seen == {c \in Stored : rows[c].validAt <= job.height}
           f == [c \in seen |-> rows[c]]
<1>3. job' = [at |-> "bids", height |-> job.height, todo |-> seen, controlling |-> FALSE,
              row |-> f]
  BY DEF ReadBids
<1>4. seen \in SUBSET Claims /\ f \in [seen -> RowSet] /\ \A c \in seen : f[c] = rows[c]
  BY DEF IInv, RowsOK, Stored
<1> HIDE DEF seen, f
<1>5. f \in Some(RowSet) /\ DOMAIN f = seen
  BY <1>4, SomeIs
<1>6. JobOK'
  BY <1>2, <1>3, <1>4, <1>5 DEF JobOK, Bidding
<1>7. Older'
  <2>1. ASSUME NEW c \in seen PROVE f[c].ver <= rows'[c].ver
    <3>1. rows[c].ver \in Nat
      BY <1>4, Bounds DEF IInv, RowsOK, RowSet
    <3>2. QED BY <1>1, <1>4, <3>1
  <2>2. QED BY <1>3, <2>1 DEF Older
<1>8. Behind'
  BY <1>1, <1>3, <1>4 DEF IInv, Behind
<1>9. QED BY <1>1, <1>6, <1>7, <1>8, JobOnly DEF IInv

\* The bid state of a claim: the row of the snapshot is written back with it.
LEMMA SetBidStateStep == ASSUME IInv, NEW c \in Claims, SetBidState(c) PROVE IInv'
<1> DEFINE status == getClaimStatus(c, job.row[c])
           wins   == ~job.controlling /\ status = "Active"
           bid    == IF wins THEN "Controlling" ELSE status
           n      == [job.row[c] EXCEPT !.bid = bid]
<1>1. /\ UNCHANGED <<height, trie, lock, writer>> /\ job.at = "bids" /\ c \in job.todo
      /\ job' = [job EXCEPT !.todo = @ \ {c}, !.controlling = @ \/ wins]
      /\ \/ UNCHANGED <<rows, spent, spentSince, modified, stale>>
         \/ /\ PutClaim(c, n)
            /\ stale' = IF job.row[c].ver < rows[c].ver THEN stale \cup {c} ELSE stale
  BY DEF SetBidState, JobAt, dbVars
<1>2. Bidding /\ job.todo \subseteq DOMAIN job.row
  BY <1>1, JobShape DEF IInv
<1>3. \A d \in job.todo : d \in Claims /\ job.row[d] \in RowSet
  BY <1>2, SomeOf DEF Bidding
<1>4. bid \in Bids
  BY DEF getClaimStatus, Bids
<1> HIDE DEF bid, wins
<1>5. n \in RowSet /\ n.ver = job.row[c].ver
  BY <1>1, <1>3, <1>4 DEF RowSet
<1> HIDE DEF n
<1>6. /\ RowsOK' /\ UNCHANGED <<spent, spentSince>> /\ stale \subseteq stale'
      /\ \A d \in Claims : d # c => rows'[d] = rows[d]
  BY <1>1, <1>5, PutClaimTypes DEF IInv, RowsOK, PutClaim
<1>7. c \in stale' \/ rows'[c].ver = rows[c].ver
  <2>1. CASE PutClaim(c, n) /\ UNCHANGED stale /\ ~(job.row[c].ver < rows[c].ver)
    <3>1. rows'[c].ver = job.row[c].ver
      BY <1>5, <2>1, PutClaimTypes DEF IInv
    <3>2. job.row[c].ver <= rows[c].ver
      BY <1>1 DEF IInv, Older
    <3>3. job.row[c].ver \in Int /\ rows[c].ver \in Int
      BY <1>1, <1>3 DEF IInv, RowsOK, RowSet
    <3>4. QED BY <2>1, <3>1, <3>2, <3>3
  <2>2. QED BY <1>1, <2>1
<1>8. /\ Bidding' /\ job'.todo = job.todo \ {c} /\ job'.row = job.row
  <2>1. (job.controlling \/ wins) \in BOOLEAN
    BY <1>2 DEF Bidding
  <2>2. QED BY <1>1, <1>2, <2>1 DEF Bidding
<1>9. JobOK'
  BY <1>2, <1>8 DEF JobOK
<1>10. Older'
  BY <1>1, <1>3, <1>6, <1>7, <1>8 DEF IInv, Older
<1>11. Current'
  BY <1>1, <1>6, <1>7 DEF IInv, Current
<1>12. Behind'
  <2>1. ASSUME NEW d \in Claims PROVE rows'[d].ver <= trie'[d].ver
    <3>1. rows'[d] = rows[d] \/ (d = c /\ rows'[d] = n)
      BY <1>1, <1>5, PutClaimTypes DEF IInv
    <3>2. n.ver <= trie[c].ver
      BY <1>1, <1>5 DEF IInv, Behind
    <3>3. QED BY <1>1, <3>1, <3>2 DEF IInv, Behind
  <2>2. QED BY <1>1, <1>8, <2>1 DEF IInv, Behind
<1>13. QED
  BY <1>1, <1>6, <1>9, <1>10, <1>11, <1>12, NodeKept, NestedKept, LockKept, WriterKept DEF IInv

\* The run ends: the windows move on.
LEMMA JobDoneStep == ASSUME IInv, JobDone PROVE IInv'
<1>1. UNCHANGED <<height, trie, rows, lock, writer, stale>> /\ job' = Idle
  BY DEF JobDone
<1>2. Nested'
  BY DEF IInv, Nested, Windows, Published, JobDone
<1>3. JobOK' /\ job'.at = "idle"
  BY <1>1 DEF JobOK, Idle
<1>4. QED
  BY <1>1, <1>2, <1>3, NodeKept, RowsKept, LockKept, WriterKept, CurrentKept, OlderElsewhere, BehindSame
     DEF IInv

\* The run fails.
LEMMA JobFailsStep == ASSUME IInv, JobFails PROVE IInv'
<1>1. UNCHANGED <<height, trie, rows, spent, spentSince, lock, writer, stale>> /\ job' = Idle
  BY DEF JobFails, dbVars
<1>2. JobOK' /\ job'.at = "idle"
  BY <1>1 DEF JobOK, Idle
<1>3. QED BY <1>1, <1>2, JobOnly, OlderElsewhere, BehindSame DEF IInv

\* The name fails.
LEMMA NameFailsStep == ASSUME IInv, NameFails PROVE IInv'
<1>1. UNCHANGED <<height, trie, rows, spent, spentSince, lock, writer, stale>>
  BY DEF NameFails, dbVars
<1>3. JobOK' /\ job'.at # "bids"
  <2>1. CASE job.at = "sync"
    <3>1. job \in [at : {"sync"}, height : Nat, trie : Some(JsonSet)]
      BY <2>1, JobShape DEF IInv
    <3>2. job' = [job EXCEPT !.trie = <<>>]
      BY <2>1 DEF NameFails, JobAt
    <3>3. << >> \in [{} -> JsonSet]
      OBVIOUS
    <3>4. << >> \in Some(JsonSet)
      BY <3>3, SomeIs
    <3>5. job' \in [at : {"sync"}, height : Nat, trie : Some(JsonSet)]
      BY <3>1, <3>2, <3>4
    <3>6. QED BY <3>5 DEF JobOK
  <2>2. CASE job.at = "bids"
    <3>1. job.height \in Nat
      BY <2>2, JobShape DEF IInv, Bidding
    <3>2. job' = [at |-> "done", height |-> job.height]
      BY <2>2 DEF NameFails, JobAt
    <3>3. QED BY <3>1, <3>2 DEF JobOK
  <2>3. QED BY <2>1, <2>2 DEF NameFails
<1>4. QED BY <1>1, <1>3, JobOnly, OlderElsewhere, BehindSame DEF IInv

-----------------------------------------------------------------------------
(* The theorems.                                                           *)

\* The invariant holds at first.
LEMMA InitInv == Init => IInv
<1> SUFFICES ASSUME Init PROVE IInv
  OBVIOUS
<1>1. NodeOK
  BY Bounds DEF Init, NodeOK, TrieSet
<1>2. RowsOK
  BY Bounds DEF Init, RowsOK, RowSet, NoRow, Bids
<1>3. Nested
  BY DEF Init, Nested, Windows
<1>4. LockOK /\ WriterOK
  BY DEF Init, LockOK, WriterOK, Idle
<1>5. JobOK /\ Older
  BY DEF Init, JobOK, Older, Idle
<1>6. Current
  BY DEF Init, Current, NoRow
<1>7. Behind
  BY DEF Init, Behind, NoRow, Idle
<1>8. QED BY <1>1, <1>2, <1>3, <1>4, <1>5, <1>6, <1>7 DEF IInv

\* Every step keeps it.
LEMMA StepInv == ASSUME IInv, [Next]_vars PROVE IInv'
<1>1. CASE Node
  BY <1>1, EmptyStep, CreateStep, UpdateStep, AbandonStep, SpendChangeStep DEF Node
<1>2. CASE Writer
  BY <1>2, WriterReadsStep, WriterWritesStep DEF Writer
<1>3. CASE Job
  BY <1>3, StartJobStep, MarkSpentStep, ReadSpentStep, MarkAllSpentStep, StartedStep, SelectStep,
     SyncStep, ReadBidsStep, JobDoneStep, SetBidStateStep DEF Job
<1>4. CASE JobFails
  BY <1>4, JobFailsStep
<1>5. CASE NameFails
  BY <1>5, NameFailsStep
<1>6. CASE UNCHANGED vars
  <2>1. UNCHANGED <<height, trie, rows, spent, spentSince, lock, writer, job, stale>>
    BY <1>6 DEF vars, dbVars
  <2>2. QED
    BY <2>1, NodeKept, RowsKept, NestedKept, LockKept, WriterKept, JobKept, OlderKept, BehindKept,
     CurrentKept
       DEF IInv
<1>7. CASE WriterFails \/ WriterSkips
  BY <1>7, WriterFailsStep, WriterSkipsStep
<1>8. QED BY <1>1, <1>2, <1>3, <1>4, <1>5, <1>6, <1>7 DEF Next

\* The invariant of block processing and the claim trie job (daemon/processing/
\* claim.go, daemon/jobs/claimtriesync.go).
THEOREM Invariance == Spec => []IInv
BY InitInv, StepInv, PTL DEF Spec

\* The rows keep their types through every copy, the windows of time stay nested, and
\* the lock of a claim is held exactly while block processing is about to write it.
THEOREM TypeCorrect == Spec => []TypeOK
<1>1. IInv => TypeOK
  <2>1. SUFFICES ASSUME IInv PROVE TypeOK
    OBVIOUS
  <2>2. rows \in [Claims -> [ver : 0..MaxVersion, bid : Bids, validAt : 0..(MaxHeight + MaxDelay),
                             eff : {0} \cup {Amount[c] : c \in Claims}]]
    BY <2>1 DEF IInv, RowsOK, RowSet, Heights, Effs
  <2>3. /\ spentSince["last"] \subseteq spentSince["previous"]
        /\ spent \cup spentSince["previous"] \subseteq Published
    BY <2>1 DEF IInv, Nested, Windows
  <2>4. QED BY <2>1, <2>2, <2>3 DEF IInv, LockOK, TypeOK
<1>2. QED BY <1>1, Invariance, PTL

\* The stored version of a claim is the node's (processClaimUpdateScript), but for
\* the claim that is being processed, and claims whose update was not written or was
\* lost and that were not written since.
THEOREM CurrentAlways == Spec => []Current
<1>1. IInv => Current
  BY DEF IInv
<1>2. QED BY <1>1, Invariance, PTL

\* Only setBidStateOfClaimsForName loses a version: whatever block processing and
\* the other steps of the claim trie job write, they never go back to an earlier one.
LosesOnlyBids == [][\A c \in Claims : rows'[c].ver < rows[c].ver => JobAt("bids")]_vars

\* Block processing and the other steps of the job do not go back to an earlier
\* version of a claim.
THEOREM LosesOnlyBidsAlways == Spec => LosesOnlyBids
<1>1. ASSUME IInv, IInv', [Next]_vars
      PROVE  [\A c \in Claims : rows'[c].ver < rows[c].ver => JobAt("bids")]_vars
  <2>0. SUFFICES ASSUME Next, NEW c \in Claims, rows'[c].ver < rows[c].ver
                 PROVE  JobAt("bids")
    BY <1>1
  <2>1. rows'[c].ver # rows[c].ver /\ ~(rows[c].ver <= rows'[c].ver)
    <3>1. rows[c].ver \in Int /\ rows'[c].ver \in Int
      BY <1>1 DEF IInv, RowsOK, RowSet
    <3>2. QED BY <2>0, <3>1
  <2>2. CASE WriterWrites
    <3>1. /\ rows'[writer.claim].ver = trie[writer.claim].ver
          /\ \A d \in Claims : d # writer.claim => rows'[d] = rows[d]
      BY <1>1, <2>2, WrittenRow
    <3>2. rows[c].ver <= trie[c].ver
      BY <1>1 DEF IInv, Behind
    <3>3. QED BY <2>1, <3>1, <3>2
  <2>3. CASE \E d \in Claims : SetBidState(d)
    BY <2>3 DEF SetBidState
  <2>4. CASE MarkSpent
    BY <1>1, <2>1, <2>4, SetBidTypes DEF IInv, MarkSpent, Bids
  <2>5. CASE MarkAllSpent
    BY <1>1, <2>1, <2>5, SetBidTypes DEF IInv, MarkAllSpent, Bids
  <2>6. CASE Sync
    <3>1. job.at = "sync"
      BY <2>6 DEF Sync, JobAt
    <3>2. PICK d \in DOMAIN job.trie :
            rows' = [rows EXCEPT ![d] = syncClaim(rows[d], job.trie[d])] \/ rows' = rows
      BY <2>6 DEF Sync
    <3>3. d \in Claims /\ job.trie[d] \in JsonSet
      BY <1>1, <3>1, <3>2, JobShape, SomeOf DEF IInv
    <3>4. syncClaim(rows[d], job.trie[d]).ver = rows[d].ver
      BY <1>1, <3>3, syncClaimTypes DEF IInv, RowsOK
    <3>5. rows'[c].ver = rows[c].ver
      BY <1>1, <3>2, <3>3, <3>4 DEF IInv, RowsOK
    <3>6. QED BY <2>1, <3>5
  <2>7. CASE UNCHANGED rows
    BY <2>1, <2>7
  <2>8. QED
    BY <2>0, <2>2, <2>3, <2>4, <2>5, <2>6, <2>7
       DEF Next, Node, Writer, Job, Empty, Create, Update, Abandon, SpendChange, WriterReads,
           WriterFails, WriterSkips, StartJob,
           ReadSpent, Started, Select, ReadBids, JobDone, JobFails, NameFails, dbVars
<1>2. QED BY <1>1, Invariance, PTL DEF Spec, LosesOnlyBids

=============================================================================
