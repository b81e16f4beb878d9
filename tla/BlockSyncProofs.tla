--------------------------- MODULE BlockSyncProofs ---------------------------
(***************************************************************************)
(* Proofs about BlockSync, for chains of every length with every number of *)
(* branches, reorganisations and failures: first what holds whoever calls  *)
(* RunBlockProcessing, and then what holds as long as only the daemon does *)
(* and a block that has to be deleted can be deleted.                      *)
(***************************************************************************)
EXTENDS BlockSync, WellFoundedInduction, TLAPS

-----------------------------------------------------------------------------
(* The inductive invariant for any callers.                                *)

Holding == {"insert", "link", "apply", "mark", "remove"}

\* A caller that writes the row of a block, and no other, holds BlockLock.
Locks == \A p \in Callers : call[p].pc \in Holding <=> blockLock = p

RowsOK ==
  \A b \in Stored : /\ b \in Block /\ Len(b) <= Len(chain)
                    /\ rows[b] \in {"processing", "incomplete", "complete"}

DaemonOK ==
  /\ lastHeightProcessed \in 0..Len(chain) /\ blockHeight \in 0..Len(chain)
  /\ step \in {"boot", "resume", "ticker", "genesis", "loop", "wait"}

Heights ==
  /\ chain \in Block
  /\ \A p \in Callers : call[p].height <= Len(chain)

\* What the variables of a call are at each place.
Shape(c) ==
  /\ c.pc \in {"fetch", "check", "delete", "refetch", "link", "remove"} => c.height > 0
  /\ c.pc \in {"check", "delete", "refetch"} => c.prev < c.height /\ Len(c.want) = c.prev
  /\ c.pc \in {"delete", "refetch"} => c.prev > 0
  /\ c.pc = "fetch" => c.depth = 0
  /\ c.pc = "delete" => c.depth < ReorgLimit /\ Len(c.row) = c.prev
  /\ c.pc \in {"check", "delete", "refetch", "lock"} \cup Holding => Len(c.json) = c.height

GoodCalls == {c \in Calls : Shape(c)}

\* The row of the genesis block is not deleted while its transactions are stored,
\* which is why no call returns the height before 0.
GenesisKept ==
  \A p \in Callers : call[p].pc \in {"apply", "mark"} /\ call[p].height = 0 => Genesis \in Stored

Flags ==
  /\ blockLock \in Callers \cup {Nobody}
  /\ stuck \in BOOLEAN
  /\ removeFaults \in Nat

\* Between two blocks the worker of the daemon has nothing to do.
DaemonIdle == step \notin {"genesis", "wait"} => call[Daemon].pc = "idle"

IInv ==
  /\ DaemonIdle
  /\ Locks /\ RowsOK /\ DaemonOK /\ Heights /\ GenesisKept /\ Flags
  /\ call \in [Callers -> GoodCalls]

-----------------------------------------------------------------------------
(* The inductive invariant for the daemon alone.                           *)

\* Only the last block can be unfinished.
Settled == \A b, d \in Stored : Len(d) < Len(b) => rows[d] = "complete"

AllComplete == \A b \in Stored : rows[b] = "complete"

\* The branch S ends at height k.
HeadAt(S, k) ==
  /\ \A b \in S : Len(b) <= k
  /\ k > 0 => \E b \in S : Len(b) = k

\* The daemon stands at height k: at the head of S, or above it when it is stuck.
Stand(S, halted, k) ==
  IF halted THEN k > 0 /\ \A b \in S : Len(b) < k ELSE HeadAt(S, k)

\* What is stored at each place of the daemon's call.
Stage ==
  LET c == call[Daemon]
  IN  /\ c.pc = "fetch" => AllComplete /\ Stand(Stored, stuck, c.height - 1)
      /\ c.pc = "check" =>
           /\ AllComplete /\ Stand(Stored, stuck, c.prev) /\ c.depth + c.prev = c.height - 1
           /\ stuck => c.depth = 0
           /\ c.depth = 0 => c.want = Prev(c.json)
      /\ c.pc = "delete" =>
           /\ AllComplete /\ ~stuck /\ HeadAt(Stored, c.prev) /\ c.depth + c.prev = c.height - 1
           /\ c.row \in Stored
      /\ c.pc = "refetch" =>
           /\ AllComplete /\ ~stuck /\ HeadAt(Stored, c.prev - 1) /\ c.depth + c.prev = c.height
           /\ c.depth > 0
      /\ c.pc \in {"lock", "insert"} =>
           /\ AllComplete /\ ~stuck /\ HeadAt(Stored, rollbackBlockHeight(c.height))
           /\ c.height > 0 => Prev(c.json) \in Stored
      /\ c.pc \in {"link", "apply", "mark", "remove"} =>
           /\ ~stuck /\ c.json \in Stored
           /\ \A b \in Stored : Len(b) <= c.height /\ (b # c.json => rows[b] = "complete")
      /\ c.pc \in {"panicked", "cleanup"} =>
           /\ ~stuck
           /\ \A b \in Stored : Len(b) <= c.height /\ (Len(b) < c.height => rows[b] = "complete")
           /\ c.height > 0 => \E b \in Stored : Len(b) = c.height - 1
      /\ c.pc = "cleanup" => \A b \in Stored : Len(b) = c.height => rows[b] # "complete"
      /\ c.pc = "returned" => AllComplete /\ Stand(Stored, stuck, c.height)

\* What is stored at each place of the daemon.
Place ==
  /\ step = "resume" => AllComplete /\ ~stuck
  /\ step \in {"ticker", "loop"} => AllComplete /\ Stand(Stored, stuck, lastHeightProcessed)

Branch == InOrder /\ OneBranch /\ Settled
Alone == Branch /\ Stage /\ Place

-----------------------------------------------------------------------------
(* Blocks and rows.                                                        *)

\* A block is a sequence, as long as its height.
LEMMA BlockSeq ==
  ASSUME NEW b \in Block
  PROVE  b \in Seq(Variants) /\ Len(b) \in 0..MaxHeight /\ (Len(b) = 0 => b = Genesis)
<1>1. PICK n \in 0..MaxHeight : b \in [1..n -> Variants]
  BY DEF Block
<1>2. n \in Nat
  BY <1>1, BoundsAssumption
<1>3. b \in Seq(Variants) /\ Len(b) = n
  BY <1>1, <1>2
<1>4. QED BY <1>1, <1>3 DEF Genesis

\* A sequence that is not too long is a block.
LEMMA SeqBlock ==
  ASSUME NEW b \in Seq(Variants), Len(b) <= MaxHeight
  PROVE  b \in Block
<1>1. Len(b) \in 0..MaxHeight /\ b \in [1..Len(b) -> Variants]
  BY BoundsAssumption
<1>2. QED BY <1>1 DEF Block

\* The genesis block.
LEMMA GenesisBlock == Genesis \in Block /\ Len(Genesis) = 0
<1>1. <<>> \in Seq(Variants) /\ Len(<<>>) = 0
  OBVIOUS
<1>2. Len(<<>>) <= MaxHeight
  BY <1>1, BoundsAssumption
<1>3. QED BY <1>1, <1>2, SeqBlock DEF Genesis

\* The ancestors of a block.
LEMMA Ancestor ==
  ASSUME NEW b \in Block, NEW h \in 0..Len(b)
  PROVE  At(b, h) \in Block /\ Len(At(b, h)) = h
<1>1. b \in Seq(Variants) /\ Len(b) \in 0..MaxHeight
  BY BlockSeq
<1>2. SubSeq(b, 1, h) \in Seq(Variants) /\ Len(SubSeq(b, 1, h)) = h
  BY <1>1, BoundsAssumption
<1>3. Len(SubSeq(b, 1, h)) <= MaxHeight
  BY <1>1, <1>2, BoundsAssumption
<1>4. QED BY <1>2, <1>3, SeqBlock DEF At

\* The predecessor of a block.
LEMMA Predecessor ==
  ASSUME NEW b \in Block, b # Genesis
  PROVE  Prev(b) \in Block /\ Len(Prev(b)) = Len(b) - 1 /\ Len(b) > 0
<1>1. Len(b) \in Nat /\ Len(b) > 0
  BY BlockSeq, BoundsAssumption
<1>2. QED BY <1>1, Ancestor DEF Prev

\* A row is inserted or updated.
LEMMA PutRow ==
  ASSUME NEW b, NEW s, rows' = Put(b, s)
  PROVE  /\ Stored' = Stored \cup {b} /\ rows'[b] = s
         /\ \A x \in Stored : x # b => rows'[x] = rows[x]
  BY DEF Put, Stored

\* A row is deleted.
LEMMA DeleteRow ==
  ASSUME NEW b, rows' = Without(b)
  PROVE  /\ Stored' = Stored \ {b}
         /\ \A x \in Stored' : rows'[x] = rows[x]
  BY DEF Without, Stored

\* The cleanup deletes the head, or changes nothing.
LEMMA CleanupRows ==
  ASSUME cleanupIncompleteHead
  PROVE  \/ rows' = rows /\ (Stored = {} \/ \E b \in Heads : rows[b] = "complete")
         \/ \E b \in Heads : rows' = Without(b) /\ rows[b] # "complete"
  BY DEF cleanupIncompleteHead

-----------------------------------------------------------------------------
(* Calls.                                                                  *)

\* The records of a call.
LEMMA NoCallGood == NoCall \in GoodCalls /\ NoCall.pc = "idle" /\ NoCall.height = 0
  BY GenesisBlock, BoundsAssumption DEF NoCall, GoodCalls, Calls, Shape, Holding

\* What Return and Started make of a call.
LEMMA FreshCalls ==
  ASSUME NEW h \in 0..MaxHeight
  PROVE  /\ [NoCall EXCEPT !.pc = "returned", !.height = h] \in GoodCalls
         /\ Started(h) \in GoodCalls /\ Started(h).height = h
         /\ Started(h).pc = IF h = 0 THEN "lock" ELSE "fetch"
<1> DEFINE r == [NoCall EXCEPT !.pc = "returned", !.height = h]
           t == [NoCall EXCEPT !.pc = IF h = 0 THEN "lock" ELSE "fetch", !.height = h]
<1>0. NoCall \in Calls /\ NoCall.json = Genesis /\ NoCall.depth = 0
  BY NoCallGood DEF GoodCalls, NoCall
<1>1. r \in Calls /\ r.pc = "returned"
  BY <1>0 DEF Calls
<1>2. t \in Calls /\ t.pc = (IF h = 0 THEN "lock" ELSE "fetch") /\ t.height = h
      /\ t.json = Genesis /\ t.depth = 0
  BY <1>0 DEF Calls
<1> HIDE DEF r, t
<1>3. Shape(r) /\ Shape(t)
  BY <1>1, <1>2, GenesisBlock DEF Shape, Holding
<1>4. r \in GoodCalls /\ t \in GoodCalls
  BY <1>1, <1>2, <1>3 DEF GoodCalls
<1>5. QED BY <1>2, <1>4 DEF Started, r, t

\* A call moves on, and the other ones do not.
LEMMA CallChange ==
  ASSUME IInv, NEW p \in Callers, NEW c \in GoodCalls, Becomes(p, c),
         c.height <= Len(chain), chain' = chain
  PROVE  /\ call' \in [Callers -> GoodCalls] /\ call'[p] = c
         /\ \A q \in Callers : q # p => call'[q] = call[q]
         /\ \A q \in Callers : call'[q].height <= Len(chain)
  BY DEF IInv, Becomes, Heights

\* The lock is kept, taken or released together with the place of the call.
LEMMA LockChange ==
  ASSUME IInv, NEW p \in Callers, \A q \in Callers : q # p => call'[q] = call[q],
         \/ blockLock' = blockLock /\ (call'[p].pc \in Holding <=> call[p].pc \in Holding)
         \/ blockLock = Nobody /\ blockLock' = p /\ call'[p].pc \in Holding
         \/ call[p].pc \in Holding /\ blockLock' = Nobody /\ call'[p].pc \notin Holding
  PROVE  Locks' /\ blockLock' \in Callers \cup {Nobody}
<1>1. Locks /\ blockLock \in Callers \cup {Nobody} /\ Nobody \notin Callers
  BY CallersAssumption DEF IInv, Flags
<1>2. QED BY <1>1 DEF Locks

\* The length of the chain, and the fields of a call.
LEMMA Fields ==
  ASSUME IInv
  PROVE  /\ Len(chain) \in 0..MaxHeight
         /\ \A p \in Callers : call[p] \in Calls /\ Shape(call[p]) /\ call[p].height <= Len(chain)
  BY BlockSeq DEF IInv, Heights, GoodCalls

\* A step of one caller.
LEMMA CallerStep ==
  ASSUME IInv, NEW p \in Callers, NEW c \in GoodCalls, Becomes(p, c),
         c.height <= Len(chain), chain' = chain,
         \/ blockLock' = blockLock /\ (c.pc \in Holding <=> call[p].pc \in Holding)
         \/ blockLock = Nobody /\ blockLock' = p /\ c.pc \in Holding
         \/ call[p].pc \in Holding /\ blockLock' = Nobody /\ c.pc \notin Holding,
         \/ step' = step /\ (call[p].pc # "idle" \/ p # Daemon)
         \/ p = Daemon /\ (step' \in {"genesis", "wait"} \/ c.pc = "idle"),
         RowsOK', DaemonOK', stuck' \in BOOLEAN, removeFaults' \in Nat,
         Genesis \in Stored => Genesis \in Stored' \/ blockLock \in {Nobody, p},
         c.pc \in {"apply", "mark"} /\ c.height = 0 => Genesis \in Stored'
  PROVE  IInv' /\ call'[p] = c /\ \A q \in Callers : q # p => call'[q] = call[q]
<1>1. /\ call' \in [Callers -> GoodCalls] /\ call'[p] = c
      /\ \A q \in Callers : q # p => call'[q] = call[q]
      /\ \A q \in Callers : call'[q].height <= Len(chain)
  BY CallChange
<1>2. Locks' /\ blockLock' \in Callers \cup {Nobody}
  BY <1>1, LockChange
<1>3. Heights' /\ Flags'
  BY <1>1, <1>2 DEF IInv, Heights, Flags
<1>4. GenesisKept'
  <2>1. ASSUME NEW q \in Callers, q # p, call[q].pc \in {"apply", "mark"}, call[q].height = 0
        PROVE  Genesis \in Stored'
    <3>1. Genesis \in Stored /\ blockLock = q
      BY <2>1 DEF IInv, GenesisKept, Locks, Holding
    <3>2. blockLock \notin {Nobody, p}
      BY <2>1, <3>1, CallersAssumption
    <3>3. QED BY <3>1, <3>2
  <2>2. QED BY <1>1, <2>1 DEF GenesisKept
<1>5. DaemonIdle'
  BY <1>1, CallersAssumption DEF IInv, DaemonIdle
<1>6. QED BY <1>1, <1>2, <1>3, <1>4, <1>5 DEF IInv

\* RowsOK depends on the table and on the length of the chain.
LEMMA RowsSame ==
  ASSUME RowsOK, rows' = rows, chain' = chain
  PROVE  RowsOK' /\ Stored' = Stored
  BY DEF RowsOK, Stored

\* DaemonOK depends on the variables of the daemon and on the length of the chain.
LEMMA DaemonSame ==
  ASSUME DaemonOK, UNCHANGED daemonVars, chain' = chain
  PROVE  DaemonOK' /\ step' = step
  BY DEF DaemonOK, daemonVars

\* Rows that are deleted.
LEMMA RowsDeleted ==
  ASSUME RowsOK, NEW b, rows' = Without(b), chain' = chain
  PROVE  RowsOK'
  BY DeleteRow DEF RowsOK

\* A call returns height h, and releases the lock if it has it.
LEMMA ReturnStep ==
  ASSUME IInv, NEW p \in Callers, NEW h \in 0..Len(chain), Return(p, h), chain' = chain,
         \/ blockLock' = blockLock /\ call[p].pc \notin Holding
         \/ blockLock' = Nobody /\ call[p].pc \in Holding,
         call[p].pc # "idle",
         RowsOK', UNCHANGED daemonVars, stuck' \in BOOLEAN, removeFaults' \in Nat,
         Genesis \in Stored => Genesis \in Stored' \/ blockLock \in {Nobody, p}
  PROVE  IInv'
<1> DEFINE c == [NoCall EXCEPT !.pc = "returned", !.height = h]
<1>1. h \in 0..MaxHeight
  BY Fields, BoundsAssumption
<1>2. c \in GoodCalls
  BY <1>1, FreshCalls
<1>3. c.pc = "returned" /\ c.height = h /\ Becomes(p, c)
  BY DEF NoCall, Return
<1> HIDE DEF c
<1>4. c.pc \notin Holding /\ c.height <= Len(chain)
  BY <1>3 DEF Holding
<1>5. DaemonOK' /\ step' = step
  BY DaemonSame DEF IInv
<1>6. QED BY <1>2, <1>3, <1>4, <1>5, CallerStep

\* The search of checkHandleReorg.
LEMMA SearchInv ==
  ASSUME IInv, NEW p \in Callers,
         GetBlock(p) \/ CheckPrev(p) \/ DeletePrev(p) \/ Refetch(p) \/ ReorgFails(p)
  PROVE  IInv'
<1> DEFINE k == call[p]
<1>0. /\ RowsOK /\ DaemonOK /\ stuck \in BOOLEAN /\ removeFaults \in Nat /\ chain \in Block
      /\ Len(chain) \in 0..MaxHeight /\ k \in Calls /\ Shape(k) /\ k.height <= Len(chain)
      /\ MaxHeight \in Nat
  BY Fields, BoundsAssumption DEF IInv, Flags, Heights
<1>1. CASE GetBlock(p)
  <2> DEFINE b == At(chain, k.height)
             c == [k EXCEPT !.pc = "check", !.json = b, !.prev = k.height - 1, !.want = Prev(b)]
  <2>1. /\ k.pc = "fetch" /\ k.height > 0 /\ k.height \in 1..Len(chain) /\ k.pc \notin Holding
        /\ UNCHANGED <<chain, rows, blockLock, daemonVars>> /\ UNCHANGED <<stuck, removeFaults>>
    BY <1>0, <1>1 DEF GetBlock, In, Shape, dbVars, OtherBounds, Calls, Holding
  <2>2. b \in Block /\ Len(b) = k.height /\ Prev(b) \in Block /\ Len(Prev(b)) = k.height - 1
    <3>1. b \in Block /\ Len(b) = k.height
      BY <1>0, <2>1, Ancestor
    <3>2. b # Genesis
      BY <2>1, <3>1, GenesisBlock
    <3>3. QED BY <3>1, <3>2, Predecessor
  <2>3. CASE Becomes(p, c)
    <3>0. k.height - 1 \in 0..MaxHeight
      BY <1>0, <2>1
    <3> HIDE DEF k, b
    <3>1. /\ c \in Calls /\ c.pc = "check" /\ c.json = b /\ c.prev = k.height - 1
          /\ c.want = Prev(b) /\ c.height = k.height
      BY <1>0, <2>2, <3>0 DEF Calls
    <3> HIDE DEF c
    <3> USE DEF k
    <3>2. Shape(c)
      BY <1>0, <2>1, <2>2, <3>1 DEF Shape, Holding
    <3>3. c \in GoodCalls /\ c.pc \notin Holding /\ c.height <= Len(chain)
      BY <1>0, <3>1, <3>2 DEF GoodCalls, Holding
    <3>4. RowsOK' /\ DaemonOK' /\ step' = step /\ Stored' = Stored
      BY <1>0, <2>1, RowsSame, DaemonSame
    <3>5. QED BY <1>0, <2>1, <2>3, <3>1, <3>3, <3>4, CallerStep
  <2>4. CASE Return(p, k.height - 1)
    <3>1. k.height - 1 \in 0..Len(chain) /\ RowsOK' /\ Stored' = Stored
      BY <1>0, <2>1, RowsSame
    <3>2. QED BY <1>0, <2>1, <2>4, <3>1, ReturnStep
  <2>5. QED BY <1>1, <2>3, <2>4 DEF GetBlock
<1>2. ASSUME k.pc \in {"check", "delete", "refetch"}, Return(p, k.height - 1) \/ Return(p, k.prev),
             UNCHANGED <<chain, dbVars, daemonVars, removeFaults>>, stuck' \in BOOLEAN
      PROVE  IInv'
  <2>1. /\ k.pc \notin Holding /\ UNCHANGED <<rows, blockLock>>
        /\ k.height - 1 \in 0..Len(chain) /\ k.prev \in 0..Len(chain)
    BY <1>0, <1>2 DEF Shape, Holding, dbVars, Calls
  <2>2. RowsOK' /\ Stored' = Stored
    BY <1>0, <1>2, <2>1, RowsSame
  <2>3. QED BY <1>0, <1>2, <2>1, <2>2, ReturnStep
<1>3. CASE CheckPrev(p)
  <2>1. /\ k.pc = "check" /\ k.pc \notin Holding
        /\ UNCHANGED <<chain, dbVars, daemonVars, removeFaults>> /\ UNCHANGED <<rows, blockLock>>
    BY <1>3 DEF CheckPrev, In, dbVars, Holding
  <2>2. RowsOK' /\ DaemonOK' /\ step' = step /\ Stored' = Stored
    BY <1>0, <2>1, RowsSame, DaemonSame
  <2>3. CASE Goto(p, "lock") /\ UNCHANGED stuck
    <3> DEFINE c == [k EXCEPT !.pc = "lock"]
    <3>1. c \in Calls /\ c.pc = "lock" /\ c.height = k.height /\ c.json = k.json
      BY <1>0 DEF Calls
    <3>2. Becomes(p, c)
      BY <2>3 DEF Goto
    <3> HIDE DEF c
    <3>3. c \in GoodCalls /\ c.pc \notin Holding /\ c.height <= Len(chain)
      BY <1>0, <2>1, <3>1 DEF GoodCalls, Holding, Shape
    <3>4. QED BY <1>0, <2>1, <2>2, <2>3, <3>1, <3>2, <3>3, CallerStep
  <2>4. ASSUME NEW b \in RowsAt(k.prev), k.depth < ReorgLimit, k.prev > 0,
               Becomes(p, [k EXCEPT !.pc = "delete", !.row = b]), UNCHANGED stuck
        PROVE  IInv'
    <3> DEFINE c == [k EXCEPT !.pc = "delete", !.row = b]
    <3>1. b \in Block /\ Len(b) = k.prev
      BY <1>0 DEF RowsAt, RowsOK
    <3>2. /\ c \in Calls /\ c.pc = "delete" /\ c.height = k.height /\ c.json = k.json
          /\ c.prev = k.prev /\ c.want = k.want /\ c.row = b /\ c.depth = k.depth
      BY <1>0, <3>1 DEF Calls
    <3>3. Becomes(p, c)
      BY <2>4
    <3> HIDE DEF c
    <3>4. c \in GoodCalls /\ c.pc \notin Holding /\ c.height <= Len(chain)
      BY <1>0, <2>1, <2>4, <3>1, <3>2 DEF GoodCalls, Holding, Shape
    <3>5. QED BY <1>0, <2>1, <2>2, <2>4, <3>2, <3>3, <3>4, CallerStep
  <2>5. ASSUME GiveUp(p) PROVE IInv'
    <3>1. Return(p, k.height - 1) /\ stuck' \in BOOLEAN
      BY <1>0, <2>5 DEF GiveUp
    <3>2. QED BY <1>2, <2>1, <3>1
  <2>6. ASSUME Return(p, k.prev), UNCHANGED stuck PROVE IInv'
    BY <1>0, <1>2, <2>1, <2>6
  <2>7. QED BY <1>3, <2>3, <2>4, <2>5, <2>6 DEF CheckPrev
<1>4. CASE DeletePrev(p)
  <2> DEFINE c == [k EXCEPT !.pc = "refetch", !.depth = @ + 1]
  <2>1. /\ k.pc = "delete" /\ k.pc \notin Holding /\ rows' = Without(k.row) /\ Becomes(p, c)
        /\ UNCHANGED <<chain, blockLock, daemonVars>> /\ UNCHANGED <<stuck, removeFaults>>
    BY <1>4 DEF DeletePrev, In, boundVars, Holding
  <2>2. k.prev > 0 /\ Len(k.row) = k.prev /\ k.depth < ReorgLimit
    BY <1>0, <2>1 DEF Shape
  <2>3. /\ c \in Calls /\ c.pc = "refetch" /\ c.height = k.height /\ c.json = k.json
        /\ c.prev = k.prev /\ c.want = k.want
    <3>1. k.depth + 1 \in 0..ReorgLimit
      BY <1>0, <2>2, BoundsAssumption DEF Calls
    <3> HIDE DEF k
    <3>2. QED BY <1>0, <3>1 DEF Calls
  <2> HIDE DEF c
  <2>4. c \in GoodCalls /\ c.pc \notin Holding /\ c.height <= Len(chain)
    BY <1>0, <2>1, <2>2, <2>3 DEF GoodCalls, Holding, Shape
  <2>5. RowsOK' /\ DaemonOK' /\ step' = step /\ Stored' = Stored \ {k.row}
    BY <1>0, <2>1, RowsDeleted, DeleteRow, DaemonSame
  <2>6. Genesis # k.row
    BY <1>0, <2>2, GenesisBlock DEF Calls
  <2>7. QED BY <1>0, <2>1, <2>3, <2>4, <2>5, <2>6, CallerStep
<1>5. CASE Refetch(p)
  <2> DEFINE a == At(chain, k.prev - 1)
             c == [k EXCEPT !.pc = "check", !.prev = k.prev - 1, !.want = a]
  <2>1. /\ k.pc = "refetch" /\ k.pc \notin Holding /\ Becomes(p, c)
        /\ UNCHANGED <<chain, rows, blockLock, daemonVars>> /\ UNCHANGED <<stuck, removeFaults>>
    BY <1>5 DEF Refetch, In, boundVars, dbVars, Holding
  <2>2. k.prev > 0 /\ k.prev < k.height /\ k.prev - 1 \in 0..Len(chain)
    BY <1>0, <2>1 DEF Shape, Calls
  <2>3. a \in Block /\ Len(a) = k.prev - 1
    BY <1>0, <2>2, Ancestor
  <2>4. /\ c \in Calls /\ c.pc = "check" /\ c.height = k.height /\ c.json = k.json
        /\ c.prev = k.prev - 1 /\ c.want = a
    <3>1. k.prev - 1 \in 0..MaxHeight
      BY <1>0, <2>2
    <3> HIDE DEF k, a
    <3>2. QED BY <1>0, <2>3, <3>1 DEF Calls
  <2> HIDE DEF c, a
  <2>5. c \in GoodCalls /\ c.pc \notin Holding /\ c.height <= Len(chain)
    BY <1>0, <2>1, <2>2, <2>3, <2>4 DEF GoodCalls, Holding, Shape, Calls
  <2>6. RowsOK' /\ DaemonOK' /\ step' = step /\ Stored' = Stored
    BY <1>0, <2>1, RowsSame, DaemonSame
  <2>7. QED BY <1>0, <2>1, <2>4, <2>5, <2>6, CallerStep
<1>6. CASE ReorgFails(p)
  <2>1. /\ k.pc \in {"check", "delete", "refetch"} /\ Return(p, k.height - 1)
        /\ stuck' \in BOOLEAN /\ UNCHANGED <<chain, dbVars, daemonVars, removeFaults>>
    BY <1>0, <1>6 DEF ReorgFails, GiveUp
  <2>2. QED BY <1>2, <2>1
<1>7. QED BY <1>1, <1>3, <1>4, <1>5, <1>6

\* The processing of a block under the lock.
LEMMA LockedInv ==
  ASSUME IInv, NEW p \in Callers,
         Lock(p) \/ Insert(p) \/ Link(p) \/ Apply(p) \/ Mark(p) \/ Remove(p)
  PROVE  IInv'
<1> DEFINE k == call[p]
<1>0. /\ RowsOK /\ DaemonOK /\ stuck \in BOOLEAN /\ removeFaults \in Nat /\ chain \in Block
      /\ Len(chain) \in 0..MaxHeight /\ k \in Calls /\ Shape(k) /\ k.height <= Len(chain)
      /\ MaxHeight \in Nat /\ k.height \in Nat
  BY Fields, BoundsAssumption DEF IInv, Flags, Heights, Calls
<1>1. k.pc \in Holding => blockLock = p /\ k.pc # "idle"
  BY DEF IInv, Locks, Holding
<1>2. ASSUME NEW pc \in Holding, Goto(p, pc),
             \/ blockLock' = blockLock /\ k.pc \in Holding
             \/ blockLock = Nobody /\ blockLock' = p /\ k.pc = "lock",
             UNCHANGED <<chain, daemonVars, removeFaults>>, stuck' = stuck, RowsOK',
             Genesis \in Stored => Genesis \in Stored',
             pc \in {"link", "remove"} => k.height > 0,
             pc \in {"apply", "mark"} /\ k.height = 0 => Genesis \in Stored'
      PROVE  IInv'
  <2> DEFINE c == [k EXCEPT !.pc = pc]
  <2>1. c \in Calls /\ c.pc = pc /\ c.height = k.height /\ c.json = k.json
    <3> HIDE DEF k
    <3>1. QED BY <1>0, <1>2 DEF Holding, Calls
  <2>2. Becomes(p, c)
    BY <1>2 DEF Goto
  <2> HIDE DEF c
  <2>3. c \in GoodCalls /\ c.pc \in Holding /\ c.height <= Len(chain)
    BY <1>0, <1>2, <2>1 DEF GoodCalls, Holding, Shape
  <2>4. DaemonOK' /\ step' = step
    BY <1>0, <1>2, DaemonSame
  <2>5. /\ removeFaults' \in Nat /\ stuck' \in BOOLEAN
        /\ c.pc \in {"apply", "mark"} /\ c.height = 0 => Genesis \in Stored'
    BY <1>0, <1>2, <2>1
  <2>6. k.pc # "idle"
    BY <1>1, <1>2
  <2>7. QED BY <1>0, <1>2, <2>1, <2>2, <2>3, <2>4, <2>5, <2>6, CallerStep
<1>3. ASSUME NEW h \in 0..Len(chain), Return(p, h), k.pc \in Holding, blockLock' = Nobody,
             UNCHANGED <<chain, daemonVars>>, stuck' = stuck, removeFaults' \in Nat, RowsOK'
      PROVE  IInv'
  BY <1>0, <1>1, <1>3, ReturnStep
<1>4. CASE Lock(p)
  <2>1. /\ k.pc = "lock" /\ blockLock = Nobody /\ blockLock' = p /\ Goto(p, "insert")
        /\ UNCHANGED <<chain, rows, daemonVars, stuck, removeFaults>>
    BY <1>4 DEF Lock, In, boundVars
  <2>2. RowsOK' /\ Stored' = Stored
    BY <1>0, <2>1, RowsSame
  <2>3. QED BY <1>2, <2>1, <2>2 DEF Holding
<1>5. CASE Insert(p)
  <2>1. k.pc = "insert" /\ k.pc \in Holding /\ UNCHANGED <<chain, daemonVars, stuck, removeFaults>>
    BY <1>5 DEF Insert, In, OtherBounds, Holding
  <2>2. CASE rows' = Put(k.json, "processing") /\ UNCHANGED blockLock
             /\ Goto(p, IF k.height = 0 THEN "apply" ELSE "link")
    <3>1. k.json \in Block /\ Len(k.json) = k.height
      BY <1>0, <2>1 DEF Calls, Shape
    <3>2. /\ Stored' = Stored \cup {k.json} /\ rows'[k.json] = "processing"
          /\ \A x \in Stored : x # k.json => rows'[x] = rows[x]
      BY <2>2, PutRow
    <3>3. RowsOK'
      BY <1>0, <2>1, <3>1, <3>2 DEF RowsOK
    <3>4. k.height = 0 => Genesis \in Stored'
      BY <3>1, <3>2, BlockSeq
    <3>5. CASE k.height = 0
      BY <1>2, <2>1, <2>2, <3>2, <3>3, <3>4, <3>5 DEF Holding
    <3>6. CASE k.height > 0
      BY <1>2, <2>1, <2>2, <3>2, <3>3, <3>6 DEF Holding
    <3>7. QED BY <1>0, <3>5, <3>6
  <2>3. CASE k.height > 0 /\ Return(p, k.height - 1) /\ blockLock' = Nobody /\ UNCHANGED rows
    <3>1. RowsOK' /\ k.height - 1 \in 0..Len(chain)
      BY <1>0, <2>1, <2>3, RowsSame
    <3>2. QED BY <1>0, <1>3, <2>1, <2>3, <3>1
  <2>4. QED BY <1>5, <2>2, <2>3 DEF Insert
<1>6. CASE Link(p)
  <2>1. /\ k.pc = "link" /\ k.pc \in Holding /\ UNCHANGED <<chain, daemonVars, stuck, removeFaults>>
        /\ UNCHANGED <<rows, blockLock>>
    BY <1>6 DEF Link, In, boundVars, dbVars, Holding
  <2>2. RowsOK' /\ Stored' = Stored
    BY <1>0, <2>1, RowsSame
  <2>3. k.height > 0
    BY <1>0, <2>1 DEF Shape
  <2>4. CASE RowsAt(k.height - 1) # {} /\ Goto(p, "apply")
    BY <1>2, <2>1, <2>2, <2>3, <2>4 DEF Holding
  <2>5. CASE RowsAt(k.height - 1) = {} /\ Goto(p, "remove")
    BY <1>2, <2>1, <2>2, <2>3, <2>5 DEF Holding
  <2>6. QED BY <1>6, <2>4, <2>5 DEF Link
<1>7. CASE Apply(p)
  <2>1. /\ k.pc = "apply" /\ k.pc \in Holding /\ UNCHANGED <<chain, daemonVars, stuck, removeFaults>>
        /\ UNCHANGED <<rows, blockLock>>
    BY <1>7 DEF Apply, In, OtherBounds, dbVars, Holding
  <2>2. RowsOK' /\ Stored' = Stored
    BY <1>0, <2>1, RowsSame
  <2>3. k.height = 0 => Genesis \in Stored /\ k.json = Genesis
    <3>1. k.json \in Block /\ Len(k.json) = k.height
      BY <1>0, <2>1 DEF Calls, Shape
    <3>2. QED BY <2>1, <3>1, BlockSeq DEF IInv, GenesisKept
  <2>4. CASE Goto(p, "mark")
    BY <1>2, <2>1, <2>2, <2>3, <2>4 DEF Holding
  <2>5. CASE Goto(p, "remove") /\ (k.json \notin Stored \/ k.height > 0)
    BY <1>0, <1>2, <2>1, <2>2, <2>3, <2>5 DEF Holding
  <2>6. QED BY <1>7, <2>4, <2>5 DEF Apply
<1>8. CASE Mark(p)
  <2>1. /\ k.pc = "mark" /\ k.pc \in Holding /\ UNCHANGED <<chain, daemonVars, stuck, removeFaults>>
        /\ blockLock' = Nobody /\ Return(p, k.height)
        /\ rows' = [b \in Stored |-> IF b = k.json THEN "complete" ELSE rows[b]]
    BY <1>8 DEF Mark, In, boundVars, Holding
  <2>2. RowsOK'
    BY <1>0, <2>1 DEF RowsOK, Stored
  <2>3. QED BY <1>0, <1>3, <2>1, <2>2
<1>9. CASE Remove(p)
  <2>1. /\ k.pc = "remove" /\ k.pc \in Holding /\ UNCHANGED <<chain, daemonVars, stuck>>
        /\ blockLock' = Nobody /\ Return(p, k.height - 1)
        /\ rows' = Without(k.json) \/ rows' = rows
        /\ removeFaults' = removeFaults \/ removeFaults' = removeFaults + 1
    BY <1>9 DEF Remove, In, RemoveFault, Holding
  <2>2. k.height - 1 \in 0..Len(chain)
    BY <1>0, <2>1 DEF Shape
  <2>3. RowsOK' /\ removeFaults' \in Nat
    BY <1>0, <2>1, RowsDeleted, RowsSame
  <2>4. QED BY <1>3, <2>1, <2>2, <2>3
<1>10. QED BY <1>4, <1>5, <1>6, <1>7, <1>8, <1>9

\* The stored chain has a last height.
LEMMA HeadExists ==
  ASSUME RowsOK, chain \in Block
  PROVE  HeadHeight \in 0..Len(chain) /\ HeadAt(Stored, HeadHeight)
<1>0. Len(chain) \in Nat /\ \A b \in Stored : Len(b) \in Nat /\ Len(b) <= Len(chain)
  BY BlockSeq DEF RowsOK
<1>1. CASE Stored = {}
  BY <1>0, <1>1 DEF HeadHeight, HeadAt
<1>2. CASE Stored # {}
  <2> DEFINE T == {Len(chain) - Len(b) : b \in Stored}
  <2>1. T \subseteq Nat /\ T # {}
    BY <1>0, <1>2
  <2>2. PICK m \in T : \A x \in T : ~(<<x, m>> \in OpToRel(<, Nat))
    BY <2>1, NatLessThanWellFounded, WFMin
  <2>3. \A x \in T : ~(x < m)
    BY <2>1, <2>2 DEF OpToRel
  <2>4. PICK b \in Stored : m = Len(chain) - Len(b)
    OBVIOUS
  <2>5. \A d \in Stored : Len(d) <= Len(b)
    <3>1. ASSUME NEW d \in Stored PROVE Len(d) <= Len(b)
      <4>1. ~(Len(chain) - Len(d) < Len(chain) - Len(b))
        BY <2>3, <2>4
      <4>2. QED BY <1>0, <4>1
    <3>2. QED BY <3>1
  <2>6. b \in Heads
    BY <2>5 DEF Heads
  <2> DEFINE e == CHOOSE d \in Heads : TRUE
  <2>7. e \in Heads
    BY <2>6
  <2>8. e \in Stored /\ \A d \in Stored : Len(d) <= Len(e)
    BY <2>7 DEF Heads
  <2>9. HeadHeight = Len(e)
    BY <1>2 DEF HeadHeight
  <2> HIDE DEF e
  <2>10. QED BY <1>0, <2>8, <2>9 DEF HeadAt
<1>3. QED BY <1>1, <1>2

\* A panic, and what is done after it.
LEMMA PanicInv ==
  ASSUME IInv, Panic \/ MarkIncomplete \/ CleanupAfterPanic \/ \E p \in Others : OtherPanic(p)
  PROVE  IInv'
<1> DEFINE k == call[Daemon]
<1>0. /\ RowsOK /\ DaemonOK /\ stuck \in BOOLEAN /\ removeFaults \in Nat /\ chain \in Block
      /\ Len(chain) \in 0..MaxHeight /\ k \in Calls /\ Shape(k) /\ k.height <= Len(chain)
      /\ MaxHeight \in Nat /\ k.height \in Nat /\ Daemon \in Callers
  BY Fields, BoundsAssumption, CallersAssumption DEF IInv, Flags, Heights, Calls
<1>1. ASSUME NEW pc \in {"panicked", "cleanup"}, Goto(Daemon, pc), chain' = chain,
             \/ blockLock' = blockLock /\ k.pc \notin Holding
             \/ blockLock' = Nobody /\ k.pc \in Holding,
             UNCHANGED daemonVars, UNCHANGED <<stuck, removeFaults>>, RowsOK', k.pc # "idle",
             Genesis \in Stored => Genesis \in Stored'
      PROVE  IInv'
  <2> DEFINE c == [k EXCEPT !.pc = pc]
  <2>1. c \in Calls /\ c.pc = pc /\ c.height = k.height
    <3> HIDE DEF k
    <3>1. QED BY <1>0, <1>1 DEF Calls
  <2>2. Becomes(Daemon, c)
    BY <1>1 DEF Goto
  <2> HIDE DEF c
  <2>3. c \in GoodCalls /\ c.pc \notin Holding /\ c.height <= Len(chain)
    BY <1>0, <1>1, <2>1 DEF GoodCalls, Holding, Shape
  <2>4. DaemonOK' /\ step' = step
    BY <1>0, <1>1, DaemonSame
  <2>5. removeFaults' \in Nat /\ stuck' \in BOOLEAN /\ c.pc \notin {"apply", "mark"}
    BY <1>0, <1>1, <2>1
  <2>6. QED BY <1>0, <1>1, <2>1, <2>2, <2>3, <2>4, <2>5, CallerStep
<1>2. CASE Panic
  <2>1. /\ k.pc \in Holding /\ k.pc # "idle" /\ Goto(Daemon, "panicked") /\ blockLock' = Nobody
        /\ UNCHANGED <<chain, rows, daemonVars, stuck, removeFaults>>
    BY <1>2 DEF Panic, Processing, Holding, OtherBounds
  <2>2. RowsOK' /\ Stored' = Stored
    BY <1>0, <2>1, RowsSame
  <2>3. QED BY <1>1, <2>1, <2>2
<1>3. CASE MarkIncomplete
  <2>1. /\ k.pc = "panicked" /\ k.pc \notin Holding /\ Goto(Daemon, "cleanup")
        /\ UNCHANGED <<chain, blockLock, daemonVars, stuck, removeFaults>>
    BY <1>3 DEF MarkIncomplete, In, Holding, boundVars
  <2>2. CASE rows' = rows
    <3>1. RowsOK' /\ Stored' = Stored
      BY <1>0, <2>1, <2>2, RowsSame
    <3>2. QED BY <1>1, <2>1, <3>1
  <2>3. ASSUME NEW b \in RowsAt(k.height), rows' = Put(b, "incomplete") PROVE IInv'
    <3>1. b \in Stored
      BY DEF RowsAt
    <3>2. /\ Stored' = Stored /\ rows'[b] = "incomplete"
          /\ \A x \in Stored : x # b => rows'[x] = rows[x]
      BY <2>3, <3>1, PutRow
    <3>3. RowsOK'
      BY <1>0, <2>1, <3>1, <3>2 DEF RowsOK
    <3>4. QED BY <1>1, <2>1, <3>2, <3>3
  <2>4. QED BY <1>3, <2>2, <2>3 DEF MarkIncomplete
<1>4. CASE CleanupAfterPanic
  <2>1. /\ k.pc = "cleanup" /\ k.pc \notin Holding /\ blockLock = Nobody
        /\ Return(Daemon, rollbackBlockHeight(k.height))
        /\ UNCHANGED <<chain, blockLock, daemonVars, stuck>>
        /\ cleanupIncompleteHead \/ rows' = rows
        /\ removeFaults' = removeFaults \/ removeFaults' = removeFaults + 1
    BY <1>4 DEF CleanupAfterPanic, In, RemoveFault, Holding
  <2>2. RowsOK'
    BY <1>0, <2>1, CleanupRows, RowsDeleted, RowsSame
  <2>3. rollbackBlockHeight(k.height) \in 0..Len(chain) /\ removeFaults' \in Nat
    BY <1>0, <2>1 DEF rollbackBlockHeight
  <2>4. QED BY <1>0, <2>1, <2>2, <2>3, ReturnStep
<1>5. ASSUME NEW p \in Others, OtherPanic(p) PROVE IInv'
  <2>1. /\ p \in Callers /\ call[p].pc \in Holding /\ Becomes(p, NoCall) /\ blockLock' = Nobody
        /\ UNCHANGED <<chain, rows, daemonVars, stuck, removeFaults>>
    BY <1>5 DEF OtherPanic, Processing, Holding, OtherBounds, Others
  <2>2. RowsOK' /\ Stored' = Stored /\ DaemonOK' /\ step' = step /\ p # Daemon
    BY <1>0, <1>5, <2>1, RowsSame, DaemonSame DEF Others
  <2>3. NoCall \in GoodCalls /\ NoCall.pc \notin Holding /\ NoCall.height <= Len(chain)
        /\ NoCall.pc \notin {"apply", "mark"}
    BY <1>0, NoCallGood DEF Holding
  <2>4. QED BY <1>0, <2>1, <2>2, <2>3, CallerStep
<1>6. QED BY <1>2, <1>3, <1>4, <1>5

\* The node's chain gets longer.
LEMMA NodeInv ==
  ASSUME IInv, Extend \/ Reorg
  PROVE  IInv' /\ Len(chain') > Len(chain) /\ UNCHANGED <<dbVars, call, daemonVars>> /\ stuck' = stuck
<1>1. chain \in Block /\ chain \in Seq(Variants) /\ Len(chain) \in 0..MaxHeight /\ MaxHeight \in Nat
  BY BlockSeq, BoundsAssumption DEF IInv, Heights
<1>2. chain' \in Block /\ Len(chain') \in Nat /\ Len(chain') > Len(chain)
  <2>1. CASE Extend
    <3>1. PICK v \in Variants : chain' = Append(chain, v)
      BY <2>1 DEF Extend
    <3>2. chain' \in Seq(Variants) /\ Len(chain') = Len(chain) + 1
      BY <1>1, <3>1
    <3>3. Len(chain') <= MaxHeight
      BY <1>1, <2>1, <3>2 DEF Extend
    <3>4. QED BY <1>1, <3>2, <3>3, SeqBlock
  <2>2. CASE Reorg
    <3>1. chain' \in Block /\ Len(chain') > Len(chain)
      BY <2>2 DEF Reorg
    <3>2. QED BY <1>1, <3>1, BlockSeq
  <2>3. QED BY <2>1, <2>2
<1>3. /\ UNCHANGED <<dbVars, call, daemonVars>> /\ UNCHANGED <<rows, blockLock>>
      /\ UNCHANGED <<step, lastHeightProcessed, blockHeight>> /\ UNCHANGED <<stuck, removeFaults>>
  BY DEF Extend, Reorg, dbVars, daemonVars, boundVars
<1>4. Locks' /\ GenesisKept' /\ DaemonIdle' /\ Flags' /\ Stored' = Stored
  BY <1>3 DEF IInv, Locks, GenesisKept, DaemonIdle, Flags, Stored
<1>5. RowsOK'
  <2>1. \A b \in Stored : Len(b) \in Nat
    BY BlockSeq, BoundsAssumption DEF IInv, RowsOK
  <2>2. QED BY <1>1, <1>2, <1>3, <1>4, <2>1 DEF IInv, RowsOK
<1>6. DaemonOK'
  BY <1>1, <1>2, <1>3 DEF IInv, DaemonOK
<1>7. Heights'
  <2>1. \A p \in Callers : call[p].height \in Nat /\ call[p].height <= Len(chain)
    BY Fields DEF Calls
  <2>2. QED BY <1>1, <1>2, <1>3, <2>1 DEF Heights
<1>8. QED BY <1>2, <1>3, <1>4, <1>5, <1>6, <1>7 DEF IInv

\* A crash ends all calls.
LEMMA CrashInv == IInv /\ Crash => IInv'
<1> SUFFICES ASSUME IInv, Crash PROVE IInv'
  OBVIOUS
<1>0. RowsOK /\ chain \in Block /\ Len(chain) \in Nat
  BY BlockSeq, BoundsAssumption DEF IInv, Heights
<1>1. /\ call' = [p \in Callers |-> NoCall] /\ blockLock' = Nobody /\ step' = "boot"
      /\ lastHeightProcessed' = 0 /\ blockHeight' = 0
      /\ UNCHANGED <<chain, rows>> /\ UNCHANGED <<stuck, removeFaults>>
  BY DEF Crash, OtherBounds
<1>2. /\ call' \in [Callers -> GoodCalls]
      /\ \A p \in Callers : call'[p].pc = "idle" /\ call'[p].height = 0
  BY <1>1, NoCallGood
<1>3. Locks' /\ GenesisKept' /\ DaemonIdle'
  BY <1>1, <1>2, CallersAssumption DEF Locks, GenesisKept, DaemonIdle, Holding
<1>4. Heights' /\ DaemonOK'
  BY <1>0, <1>1, <1>2 DEF Heights, DaemonOK
<1>5. Flags' /\ RowsOK'
  BY <1>0, <1>1, RowsSame DEF IInv, Flags
<1>6. QED BY <1>2, <1>3, <1>4, <1>5 DEF IInv

\* The daemon and the other callers.
LEMMA DaemonInv ==
  ASSUME IInv,
         \/ Boot \/ Resume \/ StartIteration \/ ProcessNext \/ EndIteration \/ BlockProcessed
         \/ \E p \in Others : Request(p) \/ RequestDone(p)
  PROVE  IInv'
<1> DEFINE k == call[Daemon]
<1>0. /\ RowsOK /\ DaemonOK /\ stuck \in BOOLEAN /\ removeFaults \in Nat /\ chain \in Block
      /\ Len(chain) \in 0..MaxHeight /\ k \in Calls /\ k.height <= Len(chain)
      /\ MaxHeight \in Nat /\ k.height \in Nat /\ Daemon \in Callers
  BY Fields, BoundsAssumption, CallersAssumption DEF IInv, Flags, Heights, Calls
<1>1. ASSUME NEW p \in Callers, NEW c \in GoodCalls, Becomes(p, c), c.height <= Len(chain),
             call[p].pc \notin Holding, c.pc \in {"idle", "lock", "fetch"},
             UNCHANGED <<chain, dbVars, boundVars>>, DaemonOK',
             \/ step' = step /\ p # Daemon
             \/ p = Daemon /\ (step' \in {"genesis", "wait"} \/ c.pc = "idle")
      PROVE  IInv'
  <2>1. /\ c.pc \notin Holding /\ c.pc \notin {"apply", "mark"}
        /\ UNCHANGED <<rows, blockLock>> /\ UNCHANGED <<stuck, removeFaults>> /\ chain' = chain
    BY <1>1 DEF Holding, dbVars, boundVars
  <2>2. RowsOK' /\ Stored' = Stored
    BY <1>0, <2>1, RowsSame
  <2>3. QED BY <1>0, <1>1, <2>1, <2>2, CallerStep
<1>2. ASSUME UNCHANGED <<chain, call, blockLock>>, RowsOK', DaemonOK',
             stuck' \in BOOLEAN, removeFaults' = removeFaults, k.pc = "idle",
             Genesis \in Stored => Genesis \in Stored' \/ blockLock = Nobody
      PROVE  IInv'
  <2>1. Heights' /\ Locks' /\ Flags'
    BY <1>2 DEF IInv, Heights, Locks, Flags
  <2>2. GenesisKept'
    BY <1>2, CallersAssumption DEF IInv, GenesisKept, Locks, Holding
  <2>3. DaemonIdle'
    BY <1>2 DEF DaemonIdle
  <2>4. QED BY <1>2, <2>1, <2>2, <2>3 DEF IInv
<1>3. CASE Boot
  <2>1. /\ k.pc = "idle" /\ step' = "resume" /\ cleanupIncompleteHead /\ stuck' = FALSE /\ blockLock = Nobody
        /\ UNCHANGED <<chain, call, blockLock, lastHeightProcessed, blockHeight, removeFaults>>
    BY <1>3 DEF Boot, IInv, DaemonIdle
  <2>2. RowsOK'
    BY <1>0, <2>1, CleanupRows, RowsDeleted, RowsSame
  <2>3. DaemonOK'
    BY <1>0, <2>1 DEF DaemonOK
  <2>4. QED BY <1>2, <2>1, <2>2, <2>3
<1>4. CASE Resume \/ EndIteration
  <2>1. /\ k.pc = "idle" /\ step' = "ticker" /\ blockHeight' = blockHeight
        /\ lastHeightProcessed' \in {lastHeightProcessed, HeadHeight}
        /\ UNCHANGED <<chain, call, blockLock, rows, stuck, removeFaults>>
    BY <1>4 DEF Resume, EndIteration, dbVars, boundVars, IInv, DaemonIdle
  <2>2. DaemonOK'
    BY <1>0, <2>1, HeadExists DEF DaemonOK
  <2>3. RowsOK' /\ Stored' = Stored
    BY <1>0, <2>1, RowsSame
  <2>4. QED BY <1>0, <1>2, <2>1, <2>2, <2>3
<1>5. CASE StartIteration
  <2>1. /\ k.pc = "idle" /\ k.pc \notin Holding /\ blockHeight' = Len(chain)
        /\ lastHeightProcessed' = lastHeightProcessed
        /\ UNCHANGED <<chain, dbVars, boundVars>>
    BY <1>5 DEF StartIteration, IInv, DaemonIdle, Holding
  <2>2. CASE step' = "genesis" /\ Becomes(Daemon, Started(0))
    <3>1. DaemonOK'
      BY <1>0, <2>1, <2>2 DEF DaemonOK
    <3>2. 0 \in 0..MaxHeight /\ 0 <= Len(chain)
      BY <1>0
    <3>3. Started(0) \in GoodCalls /\ Started(0).height = 0 /\ Started(0).pc = "lock"
      BY <3>2, FreshCalls
    <3>4. QED BY <1>0, <1>1, <2>1, <2>2, <3>1, <3>2, <3>3
  <2>3. CASE step' = "loop" /\ UNCHANGED call
    <3>1. UNCHANGED <<rows, blockLock, stuck, removeFaults, chain>>
      BY <2>1 DEF dbVars, boundVars
    <3>2. DaemonOK'
      BY <1>0, <2>1, <2>3 DEF DaemonOK
    <3>3. RowsOK' /\ Stored' = Stored
      BY <1>0, <3>1, RowsSame
    <3>4. QED BY <1>0, <1>2, <2>1, <2>3, <3>1, <3>2, <3>3
  <2>4. QED BY <1>5, <2>2, <2>3 DEF StartIteration
<1>6. CASE ProcessNext
  <2> DEFINE h == lastHeightProcessed + 1
  <2>1. /\ k.pc = "idle" /\ k.pc \notin Holding /\ step' = "wait" /\ Becomes(Daemon, Started(h))
        /\ blockHeight >= h
        /\ UNCHANGED <<chain, dbVars, lastHeightProcessed, blockHeight, boundVars>>
    BY <1>6 DEF ProcessNext, IInv, DaemonIdle, Holding
  <2>2. DaemonOK' /\ h \in 1..Len(chain)
    BY <1>0, <2>1 DEF DaemonOK
  <2>3. h \in 0..MaxHeight /\ h # 0 /\ h <= Len(chain)
    BY <1>0, <2>2
  <2>4. Started(h) \in GoodCalls /\ Started(h).height = h /\ Started(h).pc = "fetch"
    BY <2>3, FreshCalls
  <2>5. QED BY <1>0, <1>1, <2>1, <2>2, <2>3, <2>4
<1>7. CASE BlockProcessed
  <2>1. /\ k.pc = "returned" /\ k.pc \notin Holding /\ lastHeightProcessed' = k.height
        /\ Becomes(Daemon, NoCall) /\ step' \in {"loop", "ticker"} /\ blockHeight' = blockHeight
        /\ UNCHANGED <<chain, dbVars, boundVars>>
    BY <1>7 DEF BlockProcessed, In, Holding
  <2>2. DaemonOK'
    BY <1>0, <2>1 DEF DaemonOK
  <2>3. NoCall \in GoodCalls /\ NoCall.pc = "idle" /\ NoCall.height <= Len(chain)
    BY <1>0, NoCallGood
  <2>4. QED BY <1>0, <1>1, <2>1, <2>2, <2>3
<1>8. ASSUME NEW p \in Others, Request(p) PROVE IInv'
  <2>1. /\ p \in Callers /\ p # Daemon /\ call[p].pc \notin Holding
        /\ UNCHANGED <<chain, dbVars, daemonVars, boundVars>>
    BY <1>8 DEF Request, In, Others, Holding
  <2>2. PICK h \in 0..Len(chain) : Becomes(p, Started(h))
    BY <1>8 DEF Request
  <2>3. h \in 0..MaxHeight /\ h <= Len(chain) /\ DaemonOK' /\ step' = step
    BY <1>0, <2>1, DaemonSame
  <2>4. /\ Started(h) \in GoodCalls /\ Started(h).height = h
        /\ Started(h).pc \in {"idle", "lock", "fetch"}
    BY <2>3, FreshCalls
  <2>5. QED BY <1>1, <2>1, <2>2, <2>3, <2>4
<1>9. ASSUME NEW p \in Others, RequestDone(p) PROVE IInv'
  <2>1. /\ p \in Callers /\ p # Daemon /\ call[p].pc \notin Holding /\ Becomes(p, NoCall)
        /\ UNCHANGED <<chain, dbVars, daemonVars, boundVars>>
    BY <1>9 DEF RequestDone, In, Others, Holding
  <2>2. /\ NoCall \in GoodCalls /\ NoCall.pc = "idle" /\ NoCall.height <= Len(chain)
        /\ DaemonOK' /\ step' = step
    BY <1>0, <2>1, NoCallGood, DaemonSame
  <2>3. QED BY <1>1, <2>1, <2>2
<1>10. QED BY <1>3, <1>4, <1>5, <1>6, <1>7, <1>8, <1>9

\* The initial state.
LEMMA InitInv == Init => IInv
<1> SUFFICES ASSUME Init PROVE IInv
  OBVIOUS
<1>1. /\ chain \in Seq(Variants) /\ Len(chain) = 1
      /\ call = [p \in Callers |-> NoCall] /\ blockLock = Nobody /\ step = "boot"
      /\ lastHeightProcessed = 0 /\ blockHeight = 0 /\ stuck = FALSE /\ removeFaults = 0
      /\ Stored = {}
  <2>1. chain \in [1..1 -> Variants]
    BY DEF Init
  <2>2. ASSUME NEW n \in Nat, NEW f \in [1..n -> Variants] PROVE f \in Seq(Variants) /\ Len(f) = n
    OBVIOUS
  <2>3. 1 \in Nat
    OBVIOUS
  <2>4. chain \in Seq(Variants) /\ Len(chain) = 1
    BY <2>1, <2>2, <2>3
  <2>5. QED BY <2>4 DEF Init, Stored
<1>2. chain \in Block
  <2>1. Len(chain) <= MaxHeight
    BY <1>1, BoundsAssumption
  <2>2. QED BY <1>1, <2>1, SeqBlock
<1>3. /\ call \in [Callers -> GoodCalls]
      /\ \A p \in Callers : call[p].pc = "idle" /\ call[p].height = 0
  BY <1>1, NoCallGood
<1>4. Locks /\ GenesisKept /\ DaemonIdle
  BY <1>1, <1>3, CallersAssumption DEF Locks, GenesisKept, DaemonIdle, Holding
<1>5. RowsOK /\ Flags
  BY <1>1 DEF RowsOK, Flags
<1>6. DaemonOK /\ Heights
  BY <1>1, <1>2, <1>3 DEF DaemonOK, Heights
<1>7. QED BY <1>3, <1>4, <1>5, <1>6 DEF IInv

\* Every step.
LEMMA StepInv == IInv /\ [Next]_vars => IInv'
<1> SUFFICES ASSUME IInv, [Next]_vars PROVE IInv'
  OBVIOUS
<1>1. CASE UNCHANGED vars
  BY <1>1 DEF vars, dbVars, daemonVars, boundVars, IInv, Locks, GenesisKept, DaemonIdle, RowsOK,
              DaemonOK, Heights, Flags, Stored
<1>2. ASSUME NEW p \in Callers, RunBlockProcessing(p) PROVE IInv'
  BY <1>2, SearchInv, LockedInv DEF RunBlockProcessing
<1>3. QED BY <1>1, <1>2, NodeInv, CrashInv, PanicInv, DaemonInv DEF Next, DaemonStep

\* The invariant holds in every state, whoever calls RunBlockProcessing.
THEOREM Invariance == Spec => []IInv
  BY InitInv, StepInv, PTL DEF Spec

\* The variables keep their types and the heights stay within the node's chain,
\* whoever calls RunBlockProcessing: no call returns the height before 0.
THEOREM TypeCorrect == Spec => []TypeOK
<1>1. IInv => TypeOK
  <2> SUFFICES ASSUME IInv PROVE TypeOK
    OBVIOUS
  <2>1. call \in [Callers -> Calls]
    BY DEF IInv, GoodCalls
  <2>2. QED BY <2>1 DEF IInv, TypeOK, Heights, RowsOK, DaemonOK, Flags
<1>2. QED BY <1>1, Invariance, PTL

\* While a caller holds BlockLock, no row but that of its block is inserted or
\* changed, whoever else calls RunBlockProcessing.
THEOREM LockedWritesAlways == Spec => LockedWrites
<1>1. IInv /\ [Next]_vars =>
        [blockLock # Nobody =>
           \A b \in DOMAIN rows' :
             \/ b = call[blockLock].json
             \/ b \in Stored /\ rows'[b] = rows[b]]_vars
  <2> SUFFICES ASSUME IInv, Next, blockLock # Nobody, NEW b \in Stored',
                      b # call[blockLock].json
               PROVE  b \in Stored /\ rows'[b] = rows[b]
    BY DEF Stored
  <2>1. CASE rows' = rows
    BY <2>1 DEF Stored
  <2>2. ASSUME NEW d, rows' = Without(d) PROVE b \in Stored /\ rows'[b] = rows[b]
    BY <2>2, DeleteRow
  <2>3. ASSUME NEW p \in Callers, call[p].pc \in Holding PROVE blockLock = p
    BY <2>3 DEF IInv, Locks
  <2>4. ASSUME NEW p \in Callers, RunBlockProcessing(p) PROVE b \in Stored /\ rows'[b] = rows[b]
    <3>1. CASE Insert(p)
      <4>1. blockLock = p
        BY <2>3, <3>1 DEF Insert, In, Holding
      <4>2. CASE rows' = Put(call[p].json, "processing")
        BY <4>1, <4>2, PutRow
      <4>3. QED BY <2>1, <3>1, <4>2 DEF Insert
    <3>2. CASE Mark(p)
      <4>1. blockLock = p
        BY <2>3, <3>2 DEF Mark, In, Holding
      <4>2. rows' = [x \in Stored |-> IF x = call[p].json THEN "complete" ELSE rows[x]]
        BY <3>2 DEF Mark
      <4>3. QED BY <4>1, <4>2 DEF Stored
    <3>3. CASE DeletePrev(p) \/ Remove(p)
      BY <2>1, <2>2, <3>3 DEF DeletePrev, Remove
    <3>4. CASE GetBlock(p) \/ CheckPrev(p) \/ Refetch(p) \/ ReorgFails(p) \/ Lock(p) \/ Link(p) \/ Apply(p)
      BY <2>1, <3>4 DEF GetBlock, CheckPrev, Refetch, ReorgFails, Lock, Link, Apply, dbVars
    <3>5. QED BY <2>4, <3>1, <3>2, <3>3, <3>4 DEF RunBlockProcessing
  <2>5. CASE DaemonStep
    <3>1. ~Boot /\ ~MarkIncomplete /\ ~CleanupAfterPanic
      BY DEF Boot, MarkIncomplete, CleanupAfterPanic
    <3>2. QED BY <2>1, <2>5, <3>1 DEF DaemonStep, Resume, StartIteration, ProcessNext,
                                        EndIteration, BlockProcessed, dbVars
  <2>6. CASE Extend \/ Reorg \/ Panic \/ Crash
    BY <2>1, <2>6 DEF Extend, Reorg, Panic, Crash, dbVars
  <2>7. ASSUME NEW p \in Others, Request(p) \/ RequestDone(p) \/ OtherPanic(p)
        PROVE  b \in Stored /\ rows'[b] = rows[b]
    BY <2>1, <2>7 DEF Request, RequestDone, OtherPanic, dbVars
  <2>8. QED BY <2>4, <2>5, <2>6, <2>7 DEF Next
<1>2. QED BY <1>1, Invariance, PTL DEF Spec, LockedWrites

-----------------------------------------------------------------------------
(* The daemon alone: the stored branch.                                    *)

\* The lengths of stored blocks are natural numbers.
LEMMA StoredSizes ==
  ASSUME RowsOK
  PROVE  \A b \in Stored : b \in Block /\ Len(b) \in Nat
  BY BlockSeq, BoundsAssumption DEF RowsOK

\* Nothing happens to the table.
LEMMA BranchSame ==
  ASSUME Branch, rows' = rows
  PROVE  Branch' /\ Stored' = Stored /\ (AllComplete => AllComplete')
  BY DEF Branch, InOrder, OneBranch, Settled, AllComplete, Stored

\* When the head is deleted, the block before it is the head, and is complete.
LEMMA DropHead ==
  ASSUME RowsOK, Branch, NEW b \in Stored, \A d \in Stored : Len(d) <= Len(b), rows' = Without(b)
  PROVE  Branch' /\ AllComplete' /\ HeadAt(Stored', rollbackBlockHeight(Len(b)))
<1>0. \A d \in Stored : d \in Block /\ Len(d) \in Nat
  BY StoredSizes
<1>1. Stored' = Stored \ {b} /\ \A x \in Stored' : rows'[x] = rows[x]
  BY DeleteRow
<1>2. \A d \in Stored' : d \in Stored /\ Len(d) < Len(b)
  BY <1>0, <1>1 DEF Branch, OneBranch
<1>3. AllComplete'
  BY <1>1, <1>2 DEF Branch, Settled, AllComplete
<1>4. ASSUME NEW d \in Stored', d # Genesis PROVE Prev(d) \in Stored'
  <2>1. Len(Prev(d)) = Len(d) - 1 /\ Len(d) \in Nat /\ Len(d) < Len(b) /\ Len(b) \in Nat
    BY <1>0, <1>2, <1>4, Predecessor
  <2>2. Prev(d) # b
    BY <2>1
  <2>3. Prev(d) \in Stored
    BY <1>2, <1>4 DEF Branch, InOrder
  <2>4. QED BY <1>1, <2>2, <2>3
<1>5. Branch'
  BY <1>1, <1>2, <1>3, <1>4 DEF Branch, InOrder, OneBranch, Settled, AllComplete
<1>6. HeadAt(Stored', rollbackBlockHeight(Len(b)))
  <2>1. CASE Len(b) = 0
    BY <1>0, <1>2, <2>1 DEF HeadAt, rollbackBlockHeight
  <2>2. CASE Len(b) # 0
    <3>1. b # Genesis
      BY <2>2, GenesisBlock
    <3>2. Prev(b) \in Stored /\ Len(Prev(b)) = Len(b) - 1 /\ Len(b) \in Nat
      BY <1>0, <3>1, Predecessor DEF Branch, InOrder
    <3>3. Prev(b) \in Stored'
      BY <1>1, <3>2
    <3>4. \A d \in Stored' : Len(d) <= Len(b) - 1
      BY <1>0, <1>2, <3>2
    <3>5. QED BY <2>2, <3>2, <3>3, <3>4 DEF HeadAt, rollbackBlockHeight
  <2>3. QED BY <2>1, <2>2
<1>7. QED BY <1>3, <1>5, <1>6

\* A block is put on top of its predecessor.
LEMMA PutHead ==
  ASSUME RowsOK, Branch, AllComplete, NEW j \in Block,
         HeadAt(Stored, rollbackBlockHeight(Len(j))), Len(j) > 0 => Prev(j) \in Stored,
         rows' = Put(j, "processing")
  PROVE  /\ Branch' /\ j \in Stored'
         /\ \A b \in Stored' : Len(b) <= Len(j) /\ (b # j => rows'[b] = "complete")
<1>0. (\A d \in Stored : d \in Block /\ Len(d) \in Nat) /\ Len(j) \in Nat
  BY StoredSizes, BlockSeq, BoundsAssumption
<1>1. /\ Stored' = Stored \cup {j} /\ rows'[j] = "processing"
      /\ \A x \in Stored : x # j => rows'[x] = rows[x]
  BY PutRow
<1>2. \A d \in Stored : d # j => Len(d) < Len(j)
  <2>1. CASE Len(j) = 0
    <3>1. j = Genesis /\ \A d \in Stored : Len(d) = 0
      BY <1>0, <2>1, BlockSeq DEF HeadAt, rollbackBlockHeight
    <3>2. QED BY <1>0, <3>1, BlockSeq
  <2>2. CASE Len(j) # 0
    BY <1>0, <2>2 DEF HeadAt, rollbackBlockHeight
  <2>3. QED BY <2>1, <2>2
<1>3. \A b \in Stored' : Len(b) <= Len(j) /\ (b # j => rows'[b] = "complete")
  BY <1>0, <1>1, <1>2 DEF AllComplete
<1>4. ASSUME NEW d \in Stored', d # Genesis PROVE Prev(d) \in Stored' /\ Prev(d) # j
  <2>1. d \in Block /\ Len(d) \in Nat
    BY <1>0, <1>1
  <2>2. Len(Prev(d)) = Len(d) - 1 /\ Len(d) > 0
    BY <1>4, <2>1, Predecessor
  <2>3. Prev(d) \in Stored
    BY <1>1, <1>4, <2>2 DEF Branch, InOrder
  <2>4. QED BY <1>0, <1>1, <1>3, <2>1, <2>2, <2>3
<1>5. InOrder'
  BY <1>3, <1>4 DEF InOrder
<1>6. OneBranch'
  BY <1>0, <1>1, <1>2 DEF Branch, OneBranch
<1>7. Settled'
  BY <1>0, <1>1, <1>3 DEF Settled
<1>8. QED BY <1>1, <1>3, <1>5, <1>6, <1>7 DEF Branch

\* A row of the greatest height changes its state.
LEMMA HeadState ==
  ASSUME RowsOK, Branch, NEW b \in Stored, \A d \in Stored : Len(d) <= Len(b), Stored' = Stored,
         \A x \in Stored : x # b => rows'[x] = rows[x]
  PROVE  Branch'
<1>0. \A d \in Stored : d \in Block /\ Len(d) \in Nat
  BY StoredSizes
<1>1. ASSUME NEW d \in Stored, d # Genesis PROVE Prev(d) \in Stored /\ rows'[Prev(d)] = "complete"
  <2>1. Len(Prev(d)) = Len(d) - 1 /\ Len(d) \in Nat /\ Len(d) <= Len(b) /\ Len(b) \in Nat
    BY <1>0, <1>1, Predecessor
  <2>2. QED BY <1>1, <2>1 DEF Branch, InOrder
<1>2. InOrder' /\ OneBranch'
  BY <1>1 DEF Branch, InOrder, OneBranch
<1>3. Settled'
  BY <1>0 DEF Branch, Settled
<1>4. QED BY <1>2, <1>3 DEF Branch

\* The height of the head.
LEMMA HeadIs ==
  ASSUME RowsOK, NEW k \in Nat, HeadAt(Stored, k)
  PROVE  HeadHeight = k
<1>0. \A d \in Stored : Len(d) \in Nat
  BY StoredSizes
<1>1. CASE Stored = {}
  BY <1>1 DEF HeadHeight, HeadAt
<1>2. CASE Stored # {}
  <2>1. PICK b \in Stored : Len(b) = k
    BY <1>0, <1>2 DEF HeadAt
  <2>2. b \in Heads
    BY <2>1 DEF Heads, HeadAt
  <2> DEFINE e == CHOOSE d \in Heads : TRUE
  <2>3. e \in Heads
    BY <2>2
  <2>4. e \in Stored /\ Len(e) = k
    BY <1>0, <2>1, <2>3 DEF Heads, HeadAt
  <2>5. QED BY <1>2, <2>4 DEF HeadHeight
<1>3. QED BY <1>1, <1>2

-----------------------------------------------------------------------------
(* The daemon alone: the steps.                                            *)

\* The call of the daemon returns height h.
LEMMA ReturnAlone ==
  ASSUME IInv, NEW h, Return(Daemon, h), Branch', AllComplete', Stand(Stored', stuck', h),
         call[Daemon].pc # "idle", UNCHANGED daemonVars
  PROVE  Alone'
<1>1. call'[Daemon] = [NoCall EXCEPT !.pc = "returned", !.height = h]
  BY CallersAssumption DEF IInv, Return, Becomes
<1>2. call'[Daemon].pc = "returned" /\ call'[Daemon].height = h
  BY <1>1 DEF NoCall
<1>3. Stage'
  BY <1>2 DEF Stage
<1>4. Place'
  BY DEF IInv, DaemonIdle, daemonVars, Place
<1>5. QED BY <1>3, <1>4 DEF Alone

\* The call of the daemon goes on.
LEMMA GoAlone ==
  ASSUME IInv, NEW c, Becomes(Daemon, c), call[Daemon].pc # "idle", UNCHANGED daemonVars
  PROVE  call'[Daemon] = c /\ Place'
<1>1. call'[Daemon] = c
  BY CallersAssumption DEF IInv, Becomes
<1>2. Place'
  BY DEF IInv, DaemonIdle, daemonVars, Place
<1>3. QED BY <1>1, <1>2

\* The search of checkHandleReorg deletes heads, and the daemon stands at the head
\* after it; or it deleted some, gave up, and is stuck.
LEMMA SearchAlone ==
  ASSUME IInv, Alone,
         \/ GetBlock(Daemon) \/ CheckPrev(Daemon) \/ DeletePrev(Daemon) \/ Refetch(Daemon)
         \/ ReorgFails(Daemon)
  PROVE  Alone'
<1> DEFINE k == call[Daemon]
<1>0. /\ RowsOK /\ stuck \in BOOLEAN /\ chain \in Block /\ Len(chain) \in 0..MaxHeight
      /\ k \in Calls /\ Shape(k) /\ k.height <= Len(chain) /\ MaxHeight \in Nat
      /\ k.height \in Nat /\ k.prev \in Nat /\ k.depth \in Nat
      /\ Branch /\ Stage /\ Place
  BY Fields, BoundsAssumption, CallersAssumption DEF IInv, Flags, Heights, Calls, Alone
<1>1. CASE GetBlock(Daemon)
  <2> DEFINE b == At(chain, k.height)
             c == [k EXCEPT !.pc = "check", !.json = b, !.prev = k.height - 1, !.want = Prev(b)]
  <2>1. k.pc = "fetch" /\ UNCHANGED <<chain, rows, blockLock, daemonVars>> /\ stuck' = stuck
    BY <1>1 DEF GetBlock, In, dbVars, OtherBounds
  <2>2. AllComplete /\ Stand(Stored, stuck, k.height - 1) /\ k.height > 0
    BY <1>0, <2>1 DEF Stage, Shape
  <2>3. Branch' /\ Stored' = Stored /\ AllComplete'
    BY <1>0, <2>1, <2>2, BranchSame
  <2>4. CASE Becomes(Daemon, c)
    <3>1. call'[Daemon] = c /\ Place'
      BY <2>1, <2>4, GoAlone
    <3>2. k.depth = 0
      <4>1. k.pc = "fetch" => k.depth = 0
        BY <1>0 DEF Shape
      <4>2. QED BY <2>1, <4>1
    <3>3. /\ c.pc = "check" /\ c.json = b /\ c.prev = k.height - 1 /\ c.depth = 0
          /\ c.want = Prev(b) /\ c.height = k.height
      BY <1>0, <3>2 DEF Calls
    <3> HIDE DEF c, b
    <3>4. Stage'
      BY <1>0, <2>1, <2>2, <2>3, <3>1, <3>3 DEF Stage
    <3>5. QED BY <2>3, <3>1, <3>4 DEF Alone
  <2>5. CASE Return(Daemon, k.height - 1)
    BY <2>1, <2>2, <2>3, <2>5, ReturnAlone
  <2>6. QED BY <1>1, <2>4, <2>5 DEF GetBlock
<1>2. CASE CheckPrev(Daemon)
  <2>1. k.pc = "check" /\ UNCHANGED <<chain, rows, blockLock, daemonVars>>
    BY <1>2 DEF CheckPrev, In, dbVars
  <2>2. /\ AllComplete /\ Stand(Stored, stuck, k.prev) /\ k.depth + k.prev = k.height - 1
        /\ stuck => k.depth = 0
        /\ k.depth = 0 => k.want = Prev(k.json)
        /\ k.height > 0 /\ Len(k.want) = k.prev /\ Len(k.json) = k.height
    BY <1>0, <2>1 DEF Stage, Shape
  <2>3. Branch' /\ Stored' = Stored /\ AllComplete'
    BY <1>0, <2>1, <2>2, BranchSame
  <2>4. CASE Return(Daemon, k.prev) /\ stuck' = stuck
    BY <2>1, <2>2, <2>3, <2>4, ReturnAlone
  <2>5. ASSUME NEW b \in RowsAt(k.prev) PROVE b \in Stored /\ Len(b) = k.prev /\ ~stuck
    BY <1>0, <2>2 DEF RowsAt, Stand
  <2>6. ASSUME NEW b \in RowsAt(k.prev), b = k.want, k.depth = 0, Goto(Daemon, "lock"), stuck' = stuck
        PROVE  Alone'
    <3> DEFINE c == [k EXCEPT !.pc = "lock"]
    <3>1. Becomes(Daemon, c)
      BY <2>6 DEF Goto
    <3>2. call'[Daemon] = c /\ Place'
      BY <2>1, <3>1, GoAlone
    <3>3. c.pc = "lock" /\ c.height = k.height /\ c.json = k.json
      BY <1>0 DEF Calls
    <3> HIDE DEF c
    <3>4. ~stuck /\ Prev(k.json) \in Stored /\ HeadAt(Stored, k.height - 1)
      BY <1>0, <2>2, <2>5, <2>6 DEF Stand
    <3>5. rollbackBlockHeight(k.height) = k.height - 1
      BY <1>0, <2>2 DEF rollbackBlockHeight
    <3>6. Stage'
      BY <2>3, <2>6, <3>2, <3>3, <3>4, <3>5 DEF Stage
    <3>7. QED BY <2>3, <3>2, <3>6 DEF Alone
  <2>7. ASSUME NEW b \in RowsAt(k.prev), Becomes(Daemon, [k EXCEPT !.pc = "delete", !.row = b]),
               stuck' = stuck
        PROVE  Alone'
    <3> DEFINE c == [k EXCEPT !.pc = "delete", !.row = b]
    <3>1. call'[Daemon] = c /\ Place'
      BY <2>1, <2>7, GoAlone
    <3>2. /\ c.pc = "delete" /\ c.height = k.height /\ c.prev = k.prev /\ c.depth = k.depth
          /\ c.row = b
      BY <1>0 DEF Calls
    <3> HIDE DEF c
    <3>3. ~stuck /\ HeadAt(Stored, k.prev) /\ b \in Stored
      BY <2>2, <2>5 DEF Stand
    <3>4. Stage'
      BY <2>2, <2>3, <2>7, <3>1, <3>2, <3>3 DEF Stage
    <3>5. QED BY <2>3, <3>1, <3>4 DEF Alone
  <2>8. ASSUME NEW b \in RowsAt(k.prev), ~(k.depth < ReorgLimit /\ k.prev > 0), b # k.want, GiveUp(Daemon)
        PROVE  Alone'
    <3>1. k.depth > 0
      <4>1. CASE k.prev = 0
        <5>1. b \in Block /\ k.want \in Block /\ Len(b) = 0 /\ Len(k.want) = 0
          BY <1>0, <2>2, <2>5, <4>1, StoredSizes DEF Calls
        <5>2. QED BY <2>8, <5>1, BlockSeq
      <4>2. CASE k.prev # 0
        BY <1>0, <2>8, <4>2, BoundsAssumption
      <4>3. QED BY <4>1, <4>2
    <3>2. stuck' = TRUE /\ Return(Daemon, k.height - 1)
      BY <2>8, <3>1 DEF GiveUp
    <3>3. \A d \in Stored : Len(d) <= k.prev /\ Len(d) \in Nat
      BY <1>0, <2>2, <2>5, <2>8, StoredSizes DEF Stand, HeadAt
    <3>4. k.height - 1 > 0 /\ \A d \in Stored : Len(d) < k.height - 1
      BY <1>0, <2>2, <3>1, <3>3
    <3>5. Stand(Stored', stuck', k.height - 1)
      BY <2>3, <3>2, <3>4 DEF Stand
    <3>6. QED BY <2>1, <2>3, <3>2, <3>5, ReturnAlone
  <2>9. QED BY <1>0, <1>2, <2>4, <2>6, <2>7, <2>8 DEF CheckPrev
<1>3. CASE DeletePrev(Daemon)
  <2> DEFINE c == [k EXCEPT !.pc = "refetch", !.depth = @ + 1]
  <2>1. /\ k.pc = "delete" /\ rows' = Without(k.row) /\ Becomes(Daemon, c)
        /\ UNCHANGED daemonVars /\ stuck' = stuck
    BY <1>3 DEF DeletePrev, In, boundVars
  <2>2. /\ ~stuck /\ HeadAt(Stored, k.prev) /\ k.depth + k.prev = k.height - 1 /\ k.row \in Stored
        /\ Len(k.row) = k.prev /\ k.prev > 0
    BY <1>0, <2>1 DEF Stage, Shape
  <2>3. call'[Daemon] = c /\ Place'
    BY <2>1, GoAlone
  <2>4. c.pc = "refetch" /\ c.height = k.height /\ c.prev = k.prev /\ c.depth = k.depth + 1
    BY <1>0 DEF Calls
  <2> HIDE DEF c
  <2>5. Branch' /\ AllComplete' /\ HeadAt(Stored', rollbackBlockHeight(k.prev))
    BY <1>0, <2>1, <2>2, DropHead DEF HeadAt
  <2>6. HeadAt(Stored', k.prev - 1)
    BY <1>0, <2>2, <2>5 DEF rollbackBlockHeight
  <2>7. Stage'
    <3>1. (k.depth + 1) + k.prev = k.height /\ k.depth + 1 > 0
      <4>1. k.depth \in Nat /\ k.prev \in Nat /\ k.height \in Nat
        BY <1>0
      <4> HIDE DEF k
      <4>2. QED BY <2>2, <4>1
    <3>2. QED BY <2>1, <2>2, <2>3, <2>4, <2>5, <2>6, <3>1 DEF Stage
  <2>8. QED BY <2>3, <2>5, <2>7 DEF Alone
<1>4. CASE Refetch(Daemon)
  <2> DEFINE c == [k EXCEPT !.pc = "check", !.prev = k.prev - 1, !.want = At(chain, k.prev - 1)]
  <2>1. /\ k.pc = "refetch" /\ Becomes(Daemon, c)
        /\ UNCHANGED <<chain, rows, blockLock, daemonVars>> /\ stuck' = stuck
    BY <1>4 DEF Refetch, In, boundVars, dbVars
  <2>2. /\ AllComplete /\ ~stuck /\ HeadAt(Stored, k.prev - 1) /\ k.depth + k.prev = k.height
        /\ k.depth > 0
    BY <1>0, <2>1 DEF Stage
  <2>3. Branch' /\ Stored' = Stored /\ AllComplete'
    BY <1>0, <2>1, <2>2, BranchSame
  <2>4. call'[Daemon] = c /\ Place'
    BY <2>1, GoAlone
  <2>5. c.pc = "check" /\ c.height = k.height /\ c.prev = k.prev - 1 /\ c.depth = k.depth
    BY <1>0 DEF Calls
  <2> HIDE DEF c
  <2>6. Stage'
    <3>1. k.depth + (k.prev - 1) = k.height - 1 /\ k.depth # 0
      BY <1>0, <2>2
    <3>2. Stand(Stored', stuck', k.prev - 1)
      BY <2>1, <2>2, <2>3 DEF Stand
    <3>3. QED BY <2>1, <2>2, <2>3, <2>4, <2>5, <3>1, <3>2 DEF Stage
  <2>7. QED BY <2>3, <2>4, <2>6 DEF Alone
<1>5. CASE ReorgFails(Daemon)
  <2>1. /\ k.pc \in {"check", "delete", "refetch"} /\ Return(Daemon, k.height - 1)
        /\ stuck' = (stuck \/ k.depth > 0)
        /\ UNCHANGED <<chain, rows, blockLock, daemonVars>>
    BY <1>5 DEF ReorgFails, GiveUp, dbVars
  <2>2. AllComplete
    BY <1>0, <2>1 DEF Stage
  <2>3. Branch' /\ Stored' = Stored /\ AllComplete'
    BY <1>0, <2>1, <2>2, BranchSame
  <2>4. CASE k.depth = 0
    <3>1. k.pc # "refetch" /\ k.prev = k.height - 1
      BY <1>0, <2>1, <2>4 DEF Stage
    <3>2. Stand(Stored, stuck, k.height - 1)
      BY <1>0, <2>1, <3>1 DEF Stage, Stand
    <3>3. stuck' = stuck
      BY <1>0, <2>1, <2>4
    <3>4. QED BY <2>1, <2>3, <3>2, <3>3, ReturnAlone
  <2>5. CASE k.depth # 0
    <3>0. k.depth > 0
      BY <1>0, <2>5
    <3>1. k.depth > 0 /\ stuck' = TRUE
      BY <2>1, <3>0
    <3>2. \A d \in Stored : Len(d) \in Nat
      BY <1>0, StoredSizes
    <3>3. k.height - 1 > 0 /\ \A d \in Stored : Len(d) < k.height - 1
      <4>1. CASE k.pc \in {"check", "delete"}
        <5>1. ~stuck /\ HeadAt(Stored, k.prev) /\ k.depth + k.prev = k.height - 1
          BY <1>0, <3>1, <4>1 DEF Stage, Stand
        <5>2. QED BY <1>0, <3>1, <3>2, <5>1 DEF HeadAt
      <4>2. CASE k.pc = "refetch"
        <5>1. HeadAt(Stored, k.prev - 1) /\ k.depth + k.prev = k.height /\ k.prev > 0
          BY <1>0, <4>2 DEF Stage, Shape
        <5>2. QED BY <1>0, <3>1, <3>2, <5>1 DEF HeadAt
      <4>3. QED BY <2>1, <4>1, <4>2
    <3>4. Stand(Stored', stuck', k.height - 1)
      BY <2>3, <3>1, <3>3 DEF Stand
    <3>5. QED BY <2>1, <2>3, <3>4, ReturnAlone
  <2>6. QED BY <2>4, <2>5
<1>6. QED BY <1>1, <1>2, <1>3, <1>4, <1>5

\* The processing of a block, its failure and its removal.
LEMMA LockedAlone ==
  ASSUME IInv, Alone, MaxRemoveFaults = 0,
         \/ Lock(Daemon) \/ Insert(Daemon) \/ Link(Daemon) \/ Apply(Daemon) \/ Mark(Daemon)
         \/ Remove(Daemon) \/ Panic
  PROVE  Alone'
<1> DEFINE k == call[Daemon]
<1>0. /\ RowsOK /\ stuck \in BOOLEAN /\ k \in Calls /\ Shape(k) /\ k.height \in Nat
      /\ k.json \in Block /\ Branch /\ Stage
  BY Fields, BoundsAssumption, CallersAssumption DEF IInv, Flags, Calls, Alone
<1>1. ASSUME NEW pc \in {"insert", "link", "apply", "mark", "remove", "panicked"}, Goto(Daemon, pc),
             UNCHANGED daemonVars, k.pc # "idle"
      PROVE  /\ Place' /\ call'[Daemon].pc = pc /\ call'[Daemon].height = k.height
             /\ call'[Daemon].json = k.json
  <2> DEFINE c == [k EXCEPT !.pc = pc]
  <2>1. call'[Daemon] = c /\ Place'
    BY <1>1, GoAlone DEF Goto
  <2>2. c.pc = pc /\ c.height = k.height /\ c.json = k.json
    <3> HIDE DEF k
    <3>1. QED BY <1>0 DEF Calls
  <2>3. QED BY <2>1, <2>2
<1>2. CASE Lock(Daemon)
  <2>1. k.pc = "lock" /\ Goto(Daemon, "insert") /\ UNCHANGED <<rows, daemonVars, stuck>>
    BY <1>2 DEF Lock, In, boundVars
  <2>2. AllComplete
    BY <1>0, <2>1 DEF Stage
  <2>3. Branch' /\ Stored' = Stored /\ AllComplete'
    BY <1>0, <2>1, <2>2, BranchSame
  <2>4. /\ Place' /\ call'[Daemon].pc = "insert" /\ call'[Daemon].height = k.height
        /\ call'[Daemon].json = k.json
    BY <1>1, <2>1
  <2>5. Stage'
    BY <1>0, <2>1, <2>3, <2>4 DEF Stage
  <2>6. QED BY <2>3, <2>4, <2>5 DEF Alone
<1>3. ASSUME k.pc \in {"insert", "lock"}
      PROVE  /\ AllComplete /\ ~stuck /\ HeadAt(Stored, rollbackBlockHeight(k.height))
             /\ k.height > 0 => Prev(k.json) \in Stored
             /\ Len(k.json) = k.height
  BY <1>0, <1>3 DEF Stage, Shape, Holding
<1>4. CASE Insert(Daemon)
  <2>1. k.pc = "insert" /\ UNCHANGED <<daemonVars, stuck>>
    BY <1>4 DEF Insert, In, OtherBounds
  <2>2. CASE rows' = Put(k.json, "processing")
             /\ Goto(Daemon, IF k.height = 0 THEN "apply" ELSE "link")
    <3>1. /\ Branch' /\ k.json \in Stored'
          /\ \A b \in Stored' : Len(b) <= k.height /\ (b # k.json => rows'[b] = "complete")
      BY <1>0, <1>3, <2>1, <2>2, PutHead
    <3>2. /\ Place' /\ call'[Daemon].pc \in {"apply", "link"} /\ call'[Daemon].height = k.height
          /\ call'[Daemon].json = k.json
      BY <1>1, <2>1, <2>2
    <3>3. Stage'
      BY <1>3, <2>1, <3>1, <3>2 DEF Stage
    <3>4. QED BY <3>1, <3>2, <3>3 DEF Alone
  <2>3. CASE k.height > 0 /\ Return(Daemon, k.height - 1) /\ UNCHANGED rows
    <3>1. Branch' /\ Stored' = Stored /\ AllComplete'
      BY <1>0, <1>3, <2>1, <2>3, BranchSame
    <3>2. Stand(Stored', stuck', k.height - 1)
      BY <1>0, <1>3, <2>1, <2>3, <3>1 DEF Stand, rollbackBlockHeight
    <3>3. QED BY <2>1, <2>3, <3>1, <3>2, ReturnAlone
  <2>4. QED BY <1>4, <2>2, <2>3 DEF Insert
<1>5. ASSUME k.pc \in {"link", "apply", "mark", "remove"}
      PROVE  /\ ~stuck /\ k.json \in Stored
             /\ \A b \in Stored : Len(b) <= k.height /\ (b # k.json => rows[b] = "complete")
             /\ Len(k.json) = k.height
  BY <1>0, <1>5 DEF Stage, Shape, Holding
<1>6. ASSUME k.pc \in {"link", "apply", "mark", "remove"}, NEW pc \in {"apply", "mark", "remove"},
             Goto(Daemon, pc), UNCHANGED <<rows, daemonVars, stuck>>
      PROVE  Alone'
  <2>1. Branch' /\ Stored' = Stored
    BY <1>0, <1>6, BranchSame
  <2>2. /\ Place' /\ call'[Daemon].pc = pc /\ call'[Daemon].height = k.height
        /\ call'[Daemon].json = k.json
    BY <1>1, <1>6
  <2>3. Stage'
    BY <1>5, <1>6, <2>1, <2>2 DEF Stage
  <2>4. QED BY <2>1, <2>2, <2>3 DEF Alone
<1>7. CASE Link(Daemon) \/ Apply(Daemon)
  <2>1. /\ k.pc \in {"link", "apply"} /\ UNCHANGED <<rows, daemonVars, stuck>>
        /\ \E pc \in {"apply", "mark", "remove"} : Goto(Daemon, pc)
    BY <1>7 DEF Link, Apply, In, OtherBounds, boundVars, dbVars
  <2>2. QED BY <1>6, <2>1
<1>8. CASE Mark(Daemon)
  <2>1. /\ k.pc = "mark" /\ UNCHANGED <<daemonVars, stuck>> /\ Return(Daemon, k.height)
        /\ rows' = [b \in Stored |-> IF b = k.json THEN "complete" ELSE rows[b]]
    BY <1>8 DEF Mark, In, boundVars
  <2>2. Stored' = Stored /\ \A x \in Stored : x # k.json => rows'[x] = rows[x]
    BY <2>1 DEF Stored
  <2>3. Branch'
    BY <1>0, <1>5, <2>1, <2>2, HeadState
  <2>4. AllComplete'
    BY <1>5, <2>1, <2>2 DEF AllComplete, Stored
  <2>5. Stand(Stored', stuck', k.height)
    BY <1>5, <2>1, <2>2 DEF Stand, HeadAt
  <2>6. QED BY <2>1, <2>3, <2>4, <2>5, ReturnAlone
<1>9. CASE Remove(Daemon)
  <2>1. /\ k.pc = "remove" /\ UNCHANGED <<daemonVars, stuck>> /\ Return(Daemon, k.height - 1)
        /\ rows' = Without(k.json)
    <3>1. ~RemoveFault
      BY DEF RemoveFault, IInv, Flags
    <3>2. QED BY <1>9, <3>1 DEF Remove, In
  <2>2. Branch' /\ AllComplete' /\ HeadAt(Stored', rollbackBlockHeight(k.height))
    BY <1>0, <1>5, <2>1, DropHead
  <2>3. Stand(Stored', stuck', k.height - 1)
    BY <1>0, <1>5, <2>1, <2>2 DEF Stand, Shape, rollbackBlockHeight
  <2>4. QED BY <2>1, <2>2, <2>3, ReturnAlone
<1>10. CASE Panic
  <2>1. /\ k.pc \in {"insert", "link", "apply", "mark"} /\ Goto(Daemon, "panicked")
        /\ UNCHANGED <<rows, daemonVars, stuck>>
    BY <1>10 DEF Panic, Processing, OtherBounds
  <2>2. Branch' /\ Stored' = Stored
    BY <1>0, <2>1, BranchSame
  <2>3. Place' /\ call'[Daemon].pc = "panicked" /\ call'[Daemon].height = k.height
    BY <1>1, <2>1
  <2>4. \A b \in Stored : b \in Block /\ Len(b) \in Nat
    BY <1>0, StoredSizes
  <2>5. /\ ~stuck
        /\ \A b \in Stored : Len(b) <= k.height /\ (Len(b) < k.height => rows[b] = "complete")
        /\ k.height > 0 => \E b \in Stored : Len(b) = k.height - 1
    <3>1. CASE k.pc = "insert"
      BY <1>0, <1>3, <2>4, <3>1 DEF AllComplete, HeadAt, rollbackBlockHeight, Branch, InOrder
    <3>2. CASE k.pc \in {"link", "apply", "mark"}
      <4>1. /\ ~stuck
            /\ \A b \in Stored : Len(b) <= k.height /\ (Len(b) < k.height => rows[b] = "complete")
        BY <1>0, <1>5, <2>4, <3>2
      <4>2. k.height > 0 => k.json # Genesis /\ k.json \in Stored /\ Len(k.json) = k.height
        BY <1>5, <3>2, GenesisBlock
      <4>3. k.height > 0 => Prev(k.json) \in Stored /\ Len(Prev(k.json)) = k.height - 1
        BY <1>0, <4>2, Predecessor DEF Branch, InOrder
      <4>4. QED BY <4>1, <4>3
    <3>3. QED BY <2>1, <3>1, <3>2
  <2>6. Stage'
    BY <2>1, <2>2, <2>3, <2>5 DEF Stage
  <2>7. QED BY <2>2, <2>3, <2>6 DEF Alone
<1>11. QED BY <1>2, <1>4, <1>7, <1>8, <1>9, <1>10

\* After a panic, the unfinished block is found at the head and deleted.
LEMMA PanicAlone ==
  ASSUME IInv, Alone, MaxRemoveFaults = 0, MarkIncomplete \/ CleanupAfterPanic
  PROVE  Alone'
<1> DEFINE k == call[Daemon]
<1>0. /\ RowsOK /\ k \in Calls /\ k.height \in Nat /\ Branch /\ Stage
      /\ \A b \in Stored : b \in Block /\ Len(b) \in Nat
  BY Fields, StoredSizes, BoundsAssumption, CallersAssumption DEF IInv, Calls, Alone
<1>1. ASSUME k.pc \in {"panicked", "cleanup"}
      PROVE  /\ ~stuck
             /\ \A b \in Stored : Len(b) <= k.height /\ (Len(b) < k.height => rows[b] = "complete")
             /\ k.height > 0 => \E b \in Stored : Len(b) = k.height - 1
  BY <1>0, <1>1 DEF Stage
<1>2. CASE MarkIncomplete
  <2> DEFINE c == [k EXCEPT !.pc = "cleanup"]
  <2>1. k.pc = "panicked" /\ UNCHANGED <<daemonVars, stuck>> /\ Becomes(Daemon, c)
    BY <1>2 DEF MarkIncomplete, In, boundVars, Goto
  <2>2. call'[Daemon] = c /\ Place'
    BY <2>1, GoAlone
  <2>3. c.pc = "cleanup" /\ c.height = k.height
    BY <1>0 DEF Calls
  <2> HIDE DEF c
  <2>4. /\ Branch' /\ Stored' = Stored
        /\ \A b \in Stored : Len(b) < k.height => rows'[b] = rows[b]
        /\ \A b \in Stored : Len(b) = k.height => rows'[b] # "complete"
    <3>1. CASE RowsAt(k.height) = {} /\ rows' = rows
      BY <1>0, <3>1, BranchSame DEF RowsAt
    <3>2. ASSUME NEW b \in RowsAt(k.height), rows' = Put(b, "incomplete")
          PROVE  /\ Branch' /\ Stored' = Stored
                 /\ \A d \in Stored : Len(d) < k.height => rows'[d] = rows[d]
                 /\ \A d \in Stored : Len(d) = k.height => rows'[d] # "complete"
      <4>1. b \in Stored /\ Len(b) = k.height
        BY DEF RowsAt
      <4>2. /\ Stored' = Stored /\ rows'[b] = "incomplete"
            /\ \A x \in Stored : x # b => rows'[x] = rows[x]
        BY <3>2, <4>1, PutRow
      <4>3. Branch'
        BY <1>0, <1>1, <2>1, <4>1, <4>2, HeadState
      <4>4. \A d \in Stored : Len(d) = k.height => d = b
        BY <1>0, <4>1 DEF Branch, OneBranch
      <4>5. QED BY <1>0, <4>1, <4>2, <4>3, <4>4
    <3>3. QED BY <1>2, <3>1, <3>2 DEF MarkIncomplete
  <2>5. Stage'
    BY <1>1, <2>1, <2>2, <2>3, <2>4 DEF Stage
  <2>6. QED BY <2>2, <2>4, <2>5 DEF Alone
<1>3. CASE CleanupAfterPanic
  <2>1. /\ k.pc = "cleanup" /\ UNCHANGED <<daemonVars, stuck>> /\ cleanupIncompleteHead
        /\ Return(Daemon, rollbackBlockHeight(k.height))
    <3>1. ~RemoveFault
      BY DEF RemoveFault, IInv, Flags
    <3>2. QED BY <1>3, <3>1 DEF CleanupAfterPanic, In
  <2>2. \A b \in Stored : Len(b) = k.height => rows[b] # "complete"
    BY <1>0, <2>1 DEF Stage
  <2>3. Branch' /\ AllComplete' /\ HeadAt(Stored', rollbackBlockHeight(k.height))
    <3>1. CASE rows' = rows /\ Stored = {}
      <4>1. Branch' /\ Stored' = {}
        BY <1>0, <3>1, BranchSame
      <4>2. k.height = 0
        BY <1>0, <1>1, <2>1, <3>1
      <4>3. QED BY <4>1, <4>2 DEF AllComplete, HeadAt, rollbackBlockHeight
    <3>2. ASSUME rows' = rows, NEW b \in Heads, rows[b] = "complete"
          PROVE  Branch' /\ AllComplete' /\ HeadAt(Stored', rollbackBlockHeight(k.height))
      <4>1. b \in Stored /\ \A d \in Stored : Len(d) <= Len(b)
        BY DEF Heads
      <4>2. Len(b) # k.height /\ Len(b) <= k.height
        BY <1>1, <2>1, <2>2, <3>2, <4>1
      <4>3. \A d \in Stored : Len(d) < k.height
        BY <1>0, <4>1, <4>2
      <4>4. AllComplete /\ k.height > 0
        BY <1>0, <1>1, <2>1, <4>1, <4>3 DEF AllComplete
      <4>5. Branch' /\ Stored' = Stored /\ AllComplete'
        BY <1>0, <3>2, <4>4, BranchSame
      <4>6. HeadAt(Stored, k.height - 1)
        BY <1>0, <1>1, <2>1, <4>3, <4>4 DEF HeadAt
      <4>7. QED BY <1>0, <4>4, <4>5, <4>6 DEF rollbackBlockHeight
    <3>3. ASSUME NEW b \in Heads, rows' = Without(b), rows[b] # "complete"
          PROVE  Branch' /\ AllComplete' /\ HeadAt(Stored', rollbackBlockHeight(k.height))
      <4>1. b \in Stored /\ \A d \in Stored : Len(d) <= Len(b)
        BY DEF Heads
      <4>2. Len(b) = k.height
        BY <1>0, <1>1, <2>1, <3>3, <4>1
      <4>3. QED BY <1>0, <3>3, <4>1, <4>2, DropHead
    <3>4. QED BY <2>1, <3>1, <3>2, <3>3, CleanupRows
  <2>4. Stand(Stored', stuck', rollbackBlockHeight(k.height))
    BY <1>1, <2>1, <2>3 DEF Stand
  <2>5. QED BY <2>1, <2>3, <2>4, ReturnAlone
<1>4. QED BY <1>2, <1>3

\* The loop of the daemon, and its start.
LEMMA DaemonAlone ==
  ASSUME IInv, Alone,
         \/ Boot \/ Resume \/ StartIteration \/ ProcessNext \/ EndIteration \/ BlockProcessed \/ Crash
  PROVE  Alone'
<1> DEFINE k == call[Daemon]
<1>0. /\ RowsOK /\ k \in Calls /\ k.height \in Nat /\ Branch /\ Stage /\ Place /\ chain \in Block
      /\ Len(chain) \in 0..MaxHeight /\ lastHeightProcessed \in 0..Len(chain)
      /\ blockHeight \in 0..Len(chain) /\ MaxHeight \in Nat
      /\ Daemon \in Callers /\ stuck \in BOOLEAN
  BY Fields, BoundsAssumption, CallersAssumption DEF IInv, Calls, Alone, Heights, DaemonOK, Flags
<1>1. ASSUME call'[Daemon].pc = "idle" PROVE Stage'
  BY <1>1 DEF Stage
<1>2. CASE Boot
  <2>1. /\ k.pc = "idle" /\ step' = "resume" /\ stuck' = FALSE /\ call' = call
        /\ cleanupIncompleteHead
    BY <1>2 DEF Boot, IInv, DaemonIdle
  <2>2. Branch' /\ AllComplete'
    <3>1. CASE rows' = rows /\ Stored = {}
      BY <1>0, <3>1, BranchSame DEF AllComplete
    <3>2. ASSUME rows' = rows, NEW b \in Heads, rows[b] = "complete" PROVE Branch' /\ AllComplete'
      <4>1. b \in Stored /\ \A d \in Stored : Len(d) <= Len(b) /\ Len(d) \in Nat
        BY <1>0, StoredSizes DEF Heads
      <4>2. \A d \in Stored : Len(d) < Len(b) \/ d = b
        BY <1>0, <4>1 DEF Branch, OneBranch
      <4>3. AllComplete
        BY <1>0, <3>2, <4>1, <4>2 DEF Branch, Settled, AllComplete
      <4>4. QED BY <1>0, <3>2, <4>3, BranchSame
    <3>3. ASSUME NEW b \in Heads, rows' = Without(b) PROVE Branch' /\ AllComplete'
      BY <1>0, <3>3, DropHead DEF Heads
    <3>4. QED BY <2>1, <3>1, <3>2, <3>3, CleanupRows
  <2>3. QED BY <1>1, <2>1, <2>2 DEF Alone, Place
<1>3. CASE Crash
  <2>1. call'[Daemon].pc = "idle" /\ rows' = rows /\ step' = "boot"
    BY <1>0, <1>3, NoCallGood DEF Crash
  <2>2. QED BY <1>0, <1>1, <2>1, BranchSame DEF Alone, Place
<1>4. CASE Resume
  <2>1. /\ k.pc = "idle" /\ rows' = rows /\ step' = "ticker" /\ call' = call /\ stuck' = stuck
        /\ lastHeightProcessed' = HeadHeight /\ AllComplete /\ ~stuck
    BY <1>0, <1>4 DEF Resume, dbVars, boundVars, IInv, DaemonIdle, Place
  <2>2. HeadAt(Stored, HeadHeight)
    BY <1>0, HeadExists
  <2>3. Branch' /\ Stored' = Stored /\ AllComplete'
    BY <1>0, <2>1, BranchSame
  <2>4. QED BY <1>1, <2>1, <2>2, <2>3 DEF Alone, Place, Stand
<1>5. CASE StartIteration
  <2>1. /\ k.pc = "idle" /\ rows' = rows /\ stuck' = stuck /\ AllComplete
        /\ Stand(Stored, stuck, lastHeightProcessed) /\ lastHeightProcessed' = lastHeightProcessed
    BY <1>0, <1>5 DEF StartIteration, dbVars, boundVars, IInv, DaemonIdle, Place
  <2>2. Branch' /\ Stored' = Stored /\ AllComplete'
    BY <1>0, <2>1, BranchSame
  <2>3. CASE lastHeightProcessed = 0 /\ step' = "genesis" /\ Becomes(Daemon, Started(0))
    <3>1. call'[Daemon] = Started(0)
      BY <1>0, <2>3 DEF IInv, Becomes
    <3>0. 0 \in 0..MaxHeight
      BY <1>0
    <3>a. Started(0).pc = "lock" /\ Started(0).height = 0
      BY <3>0, FreshCalls
    <3>2. call'[Daemon].pc = "lock" /\ call'[Daemon].height = 0
      BY <3>1, <3>a
    <3>3. ~stuck /\ HeadAt(Stored, 0) /\ rollbackBlockHeight(0) = 0
      BY <1>0, <2>1, <2>3 DEF Stand, rollbackBlockHeight
    <3>4. Stage'
      BY <2>1, <2>2, <3>2, <3>3 DEF Stage
    <3>5. QED BY <2>2, <2>3, <3>4 DEF Alone, Place
  <2>4. CASE step' = "loop" /\ UNCHANGED call
    BY <1>1, <2>1, <2>2, <2>4 DEF Alone, Place
  <2>5. QED BY <1>5, <2>3, <2>4 DEF StartIteration
<1>6. CASE ProcessNext
  <2> DEFINE h == lastHeightProcessed + 1
  <2>1. /\ rows' = rows /\ stuck' = stuck /\ AllComplete /\ step' = "wait"
        /\ Stand(Stored, stuck, lastHeightProcessed) /\ Becomes(Daemon, Started(h)) /\ blockHeight >= h
    BY <1>0, <1>6 DEF ProcessNext, dbVars, boundVars, Place
  <2>2. Branch' /\ Stored' = Stored /\ AllComplete'
    BY <1>0, <2>1, BranchSame
  <2>3. h \in 0..MaxHeight /\ h # 0 /\ h - 1 = lastHeightProcessed
    BY <1>0, <2>1
  <2> HIDE DEF h
  <2>4. call'[Daemon] = Started(h)
    BY <1>0, <2>1 DEF IInv, Becomes
  <2>5. call'[Daemon].pc = "fetch" /\ call'[Daemon].height = h
    BY <2>3, <2>4, FreshCalls
  <2>6. Stand(Stored', stuck', h - 1)
    BY <2>1, <2>2, <2>3
  <2>7. Stage'
    BY <2>2, <2>5, <2>6 DEF Stage
  <2>8. QED BY <2>1, <2>2, <2>7 DEF Alone, Place
<1>7. CASE EndIteration
  <2>1. /\ k.pc = "idle" /\ rows' = rows /\ stuck' = stuck /\ AllComplete /\ call' = call
        /\ step' = "ticker"
        /\ Stand(Stored, stuck, lastHeightProcessed) /\ lastHeightProcessed' = lastHeightProcessed
    BY <1>0, <1>7 DEF EndIteration, dbVars, boundVars, IInv, DaemonIdle, Place
  <2>2. Branch' /\ Stored' = Stored /\ AllComplete'
    BY <1>0, <2>1, BranchSame
  <2>3. QED BY <1>1, <2>1, <2>2 DEF Alone, Place
<1>8. CASE BlockProcessed
  <2>1. /\ k.pc = "returned" /\ rows' = rows /\ stuck' = stuck /\ lastHeightProcessed' = k.height
        /\ Becomes(Daemon, NoCall)
    BY <1>8 DEF BlockProcessed, In, dbVars, boundVars
  <2>2. AllComplete /\ Stand(Stored, stuck, k.height)
    BY <1>0, <2>1 DEF Stage
  <2>3. Branch' /\ Stored' = Stored /\ AllComplete'
    BY <1>0, <2>1, <2>2, BranchSame
  <2>4. call'[Daemon] = NoCall
    BY <1>0, <2>1 DEF IInv, Becomes
  <2>5. call'[Daemon].pc = "idle"
    BY <2>4, NoCallGood
  <2>6. step' \in {"loop", "ticker"}
    BY <1>8 DEF BlockProcessed
  <2>7. Place'
    BY <2>1, <2>2, <2>3, <2>6 DEF Place
  <2>8. QED BY <1>1, <2>3, <2>5, <2>7 DEF Alone
<1>9. QED BY <1>2, <1>3, <1>4, <1>5, <1>6, <1>7, <1>8

\* With one caller the whole invariant holds in every state.
THEOREM AloneInvariance ==
  ASSUME Callers = {Daemon}, MaxRemoveFaults = 0
  PROVE  Spec => [](IInv /\ Alone)
<1>1. Init => IInv /\ Alone
  <2> SUFFICES ASSUME Init PROVE Alone
    BY InitInv
  <2>1. Stored = {} /\ step = "boot" /\ call[Daemon].pc = "idle"
    BY CallersAssumption, NoCallGood DEF Init, Stored
  <2>2. QED BY <2>1 DEF Alone, Branch, InOrder, OneBranch, Settled, Stage, Place
<1>2. IInv /\ Alone /\ [Next]_vars => (IInv /\ Alone)'
  <2> SUFFICES ASSUME IInv, Alone, [Next]_vars PROVE Alone'
    BY StepInv
  <2>1. CASE UNCHANGED vars \/ Extend \/ Reorg
    <3>1. UNCHANGED <<rows, call, step, lastHeightProcessed, stuck>>
      BY <2>1 DEF vars, Extend, Reorg, dbVars, daemonVars, boundVars
    <3>2. Branch' /\ Stored' = Stored
      BY <3>1, BranchSame DEF Alone
    <3>3. AllComplete <=> AllComplete'
      BY <3>1, <3>2 DEF AllComplete
    <3>4. Stage'
      BY <3>1, <3>2, <3>3 DEF Alone, Stage
    <3>5. Place'
      BY <3>1, <3>2, <3>3 DEF Alone, Place
    <3>6. QED BY <3>2, <3>4, <3>5 DEF Alone
  <2>2. ASSUME NEW p \in Callers, RunBlockProcessing(p) PROVE Alone'
    BY <2>2, SearchAlone, LockedAlone DEF RunBlockProcessing
  <2>3. Others = {}
    BY DEF Others
  <2>4. QED BY <2>1, <2>2, <2>3, LockedAlone, PanicAlone, DaemonAlone DEF Next, DaemonStep
<1>3. QED BY <1>1, <1>2, PTL DEF Spec

\* Blocks are stored in order.
THEOREM InOrderAlways ==
  ASSUME Callers = {Daemon}, MaxRemoveFaults = 0
  PROVE  Spec => []InOrder
<1>1. IInv /\ Alone => InOrder
  BY DEF Alone, Branch
<1>2. QED BY <1>1, AloneInvariance, PTL

\* The stored blocks are one branch.
THEOREM OneBranchAlways ==
  ASSUME Callers = {Daemon}, MaxRemoveFaults = 0
  PROVE  Spec => []OneBranch
<1>1. IInv /\ Alone => OneBranch
  BY DEF Alone, Branch
<1>2. QED BY <1>1, AloneInvariance, PTL

\* Between two blocks the daemon stands at the last stored block.
THEOREM AtHeadAlways ==
  ASSUME Callers = {Daemon}, MaxRemoveFaults = 0
  PROVE  Spec => []AtHead
<1>1. IInv /\ Alone => AtHead
  <2> SUFFICES ASSUME IInv, Alone, step \in {"ticker", "loop"}, ~stuck
               PROVE  lastHeightProcessed = HeadHeight /\ \A b \in Stored : rows[b] = "complete"
    BY DEF AtHead
  <2>1. AllComplete /\ HeadAt(Stored, lastHeightProcessed)
    BY DEF Alone, Place, Stand
  <2>2. lastHeightProcessed \in Nat /\ RowsOK
    BY BlockSeq, BoundsAssumption DEF IInv, DaemonOK, Heights
  <2>3. QED BY <2>1, <2>2, HeadIs DEF AllComplete
<1>2. QED BY <1>1, AloneInvariance, PTL

\* The transactions of a block begin to be stored when the block before it, the
\* very one, is complete.  (With the chain sync job as a second caller this is
\* false, as a run shows.)
THEOREM StartsInOrderAlone ==
  ASSUME Callers = {Daemon}, MaxRemoveFaults = 0
  PROVE  Spec => StartsInOrder
<1>1. IInv /\ Alone /\ [Next]_vars =>
        [\A p \in Callers :
           In(p, "link") /\ call'[p].pc = "apply" =>
             LET prev == Prev(call[p].json) IN prev \in Stored /\ rows[prev] = "complete"]_vars
  <2> SUFFICES ASSUME IInv, Alone, In(Daemon, "link")
               PROVE  Prev(call[Daemon].json) \in Stored
                      /\ rows[Prev(call[Daemon].json)] = "complete"
    OBVIOUS
  <2>1. /\ call[Daemon].json \in Stored /\ call[Daemon].height > 0
        /\ Len(call[Daemon].json) = call[Daemon].height
    BY Fields, CallersAssumption DEF In, Alone, Stage, Shape, Holding
  <2>2. call[Daemon].json # Genesis
    BY <2>1, GenesisBlock
  <2>3. QED BY <2>1, <2>2 DEF Alone, Branch, InOrder
<1>2. QED BY <1>1, AloneInvariance, PTL DEF Spec, StartsInOrder

=============================================================================
