----------------------------- MODULE MempoolSync -----------------------------
(***************************************************************************)
(* The rows of transactions, inputs and outputs, and their two writers:    *)
(* the block worker of the daemon and the mempool job                      *)
(* (daemon/jobs/mempoolsync.go), which both call ProcessTx                 *)
(* (daemon/processing/transaction.go and outpoint.go) under BlockLock.     *)
(*                                                                         *)
(* A transaction has one output and spends the outputs of a set of others; *)
(* two transactions that spend one output are rivals, of which the node    *)
(* accepts one.  A block is the set of its transactions and what precedes  *)
(* it.  Deleting a row deletes what refers to it (ON DELETE CASCADE), but  *)
(* not the mark of a spent output, which only holds the id of an input.    *)
(* How a block finds its place in the stored chain, in detail, is the      *)
(* subject of BlockSync, and its parallel workers that of TxScheduler.     *)
(***************************************************************************)
EXTENDS Integers, Sequences, FiniteSets

CONSTANTS
  Tx,           \* the transactions
  Spends,       \* the possible functions from a transaction to its sources
  MaxHeight,    \* bound: blocks on top of the genesis block
  MaxTrouble    \* bound: reorganisations, evictions, failed calls and crashes

ASSUME TxAssumption == IsFiniteSet(Tx) /\ "nobody" \notin Tx /\ "deleted" \notin Tx
ASSUME SpendsAssumption == Spends \subseteq [Tx -> SUBSET Tx]
ASSUME BoundsAssumption == MaxHeight \in Nat /\ MaxTrouble \in Nat

VARIABLES
  sources,      \* the transactions whose outputs a transaction spends
  chain,        \* the node: its blocks on top of the genesis block,
  pool,         \* its mempool,
  entry,        \* and the height at which a transaction entered it
  stored,       \* the block table: the stored branch,
  headState,    \* and the processing_state of its last block
  txBlock,      \* the transaction table: the block of each row
  inputs,       \* the input table: pairs of transaction and source
  outputs,      \* the output table: whose outputs are there,
  spentBy,      \* and which transaction's input marked them as spent
  blockLock,    \* who holds BlockLock
  cur,          \* the call of ProcessTx of the holder
  worker,       \* the block worker
  job,          \* the mempool job
  trouble

nodeVars  == <<chain, pool, entry>>
rowVars   == <<txBlock, inputs, outputs, spentBy>>
blockVars == <<stored, headState>>
vars == <<sources, nodeVars, blockVars, rowVars, blockLock, cur, worker, job, trouble>>

NoRow   == -1
Mempool == 0               \* the row of MempoolBlockHash
NoCall  == [at |-> "none", tx |-> "none"]
Idle    == [at |-> "idle"]

Mined(c)  == UNION {c[h] : h \in DOMAIN c}
Rivals(t) == {u \in Tx \ {t} : sources[u] \cap sources[t] # {}}

\* What a node accepts: sources first, and one of two rivals.
Valid(T) == \A t \in T : sources[t] \subseteq T /\ Rivals(t) \cap T = {}

Init ==
  /\ sources \in Spends
  /\ chain = <<>> /\ pool = {} /\ entry = [t \in Tx |-> 0]
  /\ stored = <<>> /\ headState = "complete"
  /\ txBlock = [t \in Tx |-> NoRow]
  /\ inputs = {} /\ outputs = {} /\ spentBy = [t \in Tx |-> "nobody"]
  /\ blockLock = "nobody"
  /\ cur = NoCall
  /\ worker = Idle
  /\ job = Idle
  /\ trouble = 0

-----------------------------------------------------------------------------
(* The node.                                                               *)

\* What is left of the transactions T when the chain is c.
Kept(T, c) == UNION {K \in SUBSET (T \ Mined(c)) : Valid(K \cup Mined(c))}

Enter(T, h) ==
  entry' = [t \in Tx |-> IF t \notin pool' THEN 0 ELSE IF t \in T THEN h ELSE entry[t]]

Trouble == trouble < MaxTrouble /\ trouble' = trouble + 1

Broadcast(t) ==
  /\ t \notin pool \cup Mined(chain)
  /\ Valid(pool \cup Mined(chain) \cup {t})
  /\ pool' = pool \cup {t}
  /\ Enter({t}, Len(chain))
  /\ UNCHANGED <<sources, chain, blockVars, rowVars, blockLock, cur, worker, job, trouble>>

Evict(t) ==
  /\ t \in pool
  /\ Trouble
  /\ pool' = Kept(pool \ {t}, chain)
  /\ Enter({}, 0)
  /\ UNCHANGED <<sources, chain, blockVars, rowVars, blockLock, cur, worker, job>>

\* A block may hold rivals of the transactions in the mempool.
Mine ==
  /\ Len(chain) < MaxHeight
  /\ \E B \in (SUBSET (pool \cup UNION {Rivals(t) : t \in pool})) \ {{}} :
       /\ Valid(B \cup Mined(chain))
       /\ chain' = Append(chain, B)
       /\ pool' = Kept(pool, chain')
  /\ Enter({}, 0)
  /\ UNCHANGED <<sources, blockVars, rowVars, blockLock, cur, worker, job, trouble>>

\* The last block is replaced by two others.
Reorg ==
  /\ Trouble
  /\ Len(chain) \in 1..(MaxHeight - 1)
  /\ LET below == SubSeq(chain, 1, Len(chain) - 1)
         back  == chain[Len(chain)]
     IN  \E B, C \in SUBSET (Tx \ Mined(below)) :
           /\ B # back /\ B \cap C = {}
           /\ Valid(B \cup Mined(below)) /\ Valid(B \cup C \cup Mined(below))
           /\ chain' = below \o <<B, C>>
           /\ pool' = Kept(pool \cup back, chain')
           /\ Enter(back, Len(below))
  /\ UNCHANGED <<sources, blockVars, rowVars, blockLock, cur, worker, job>>

-----------------------------------------------------------------------------
(* Deleting rows.                                                          *)

\* The transactions T are deleted, with their inputs and outputs.  The mark of
\* an output keeps the id of a deleted input.
Delete(T) ==
  /\ txBlock' = [t \in Tx |-> IF t \in T THEN NoRow ELSE txBlock[t]]
  /\ inputs' = {i \in inputs : i[1] \notin T}
  /\ outputs' = outputs \ T
  /\ spentBy' = [p \in Tx |-> IF p \in T THEN "nobody"
                              ELSE IF spentBy[p] \in T THEN "deleted" ELSE spentBy[p]]

\* block.DeleteG for the last block.
DeleteHead ==
  /\ stored' = SubSeq(stored, 1, Len(stored) - 1)
  /\ headState' = "complete"
  /\ Delete({t \in Tx : txBlock[t] = Len(stored)})

-----------------------------------------------------------------------------
(* ProcessTx for transaction cur.tx, by the holder of BlockLock.           *)

Start(t) == cur' = [at |-> "row", tx |-> t]

In(at)   == cur.at = at
Goto(at) == cur' = [cur EXCEPT !.at = at]

Dest == IF blockLock = "worker" THEN Len(stored) ELSE Mempool

\* saveUpdateTransaction; createUpdateVinAddresses then looks for the sources.
SaveRow ==
  /\ In("row")
  /\ txBlock' = [txBlock EXCEPT ![cur.tx] = Dest]
  /\ Goto(IF sources[cur.tx] \subseteq outputs THEN "vins" ELSE "failed")
  /\ UNCHANGED <<inputs, outputs, spentBy, trouble>>

\* ProcessVin for the sources in saved; those in marked are marked as spent.
PutInputs(saved, marked) ==
  /\ inputs' = inputs \cup ({cur.tx} \X saved)
  /\ spentBy' = [p \in Tx |-> IF p \in marked THEN cur.tx ELSE spentBy[p]]
  /\ UNCHANGED <<txBlock, outputs>>

\* saveUpdateInputs: all inputs are tried, and an error is returned at the end.
SaveInputs ==
  /\ In("vins")
  /\ LET found == sources[cur.tx] \cap outputs
     IN  \/ /\ PutInputs(found, found)
            /\ Goto(IF found = sources[cur.tx] THEN "vouts" ELSE "failed")
            /\ UNCHANGED trouble
         \/ /\ \E saved \in SUBSET found : \E marked \in SUBSET saved : PutInputs(saved, marked)
            /\ Goto("failed")
            /\ Trouble

\* The caller of ProcessTx goes on: the scheduler, or the loop of the job.
TxDone ==
  /\ cur' = NoCall
  /\ IF blockLock = "worker"
     THEN worker' = [worker EXCEPT !.left = @ \ {cur.tx}] /\ UNCHANGED job
     ELSE job' = [job EXCEPT !.queue = Tail(@)] /\ UNCHANGED worker

\* saveUpdateOutputs: a row that is there keeps its mark.
SaveOutputs ==
  /\ In("vouts")
  /\ outputs' = outputs \cup {cur.tx}
  /\ \/ TxDone /\ UNCHANGED trouble
     \/ Goto("failed") /\ Trouble /\ UNCHANGED <<worker, job>>
  /\ UNCHANGED <<txBlock, inputs, spentBy>>

ProcessTx ==
  /\ SaveOutputs \/ ((SaveRow \/ SaveInputs) /\ UNCHANGED <<worker, job>>)
  /\ UNCHANGED <<sources, nodeVars, blockVars, blockLock>>

-----------------------------------------------------------------------------
(* The block worker.                                                       *)

Prefix == stored = SubSeq(chain, 1, Len(stored))

WorkerAt(at) == worker.at = at

\* checkHandleReorg deletes a diverged block; BlockLock is not held.
DropDiverged ==
  /\ WorkerAt("idle")
  /\ stored # <<>> /\ ~Prefix
  /\ DeleteHead
  /\ UNCHANGED <<sources, nodeVars, blockLock, cur, worker, job, trouble>>

FetchBlock ==
  /\ WorkerAt("idle")
  /\ Prefix /\ Len(stored) < Len(chain)
  /\ worker' = [at |-> "lock", left |-> chain[Len(stored) + 1]]
  /\ UNCHANGED <<sources, nodeVars, blockVars, rowVars, blockLock, cur, job, trouble>>

\* BlockLock, and the row of the block.
InsertBlock ==
  /\ WorkerAt("lock")
  /\ blockLock = "nobody"
  /\ blockLock' = "worker"
  /\ stored' = Append(stored, worker.left)
  /\ headState' = "processing"
  /\ worker' = [worker EXCEPT !.at = "apply"]
  /\ UNCHANGED <<sources, nodeVars, rowVars, cur, job, trouble>>

\* Mutated form: a transaction that has a row already is not processed.
ApplyNew(t) ==
  /\ WorkerAt("apply") /\ cur = NoCall
  /\ t \in worker.left
  /\ sources[t] \cap worker.left = {}
  /\ cur' = IF txBlock[t] = NoRow THEN [at |-> "row", tx |-> t] ELSE NoCall
  /\ worker' = IF txBlock[t] = NoRow THEN worker ELSE [worker EXCEPT !.left = @ \ {t}]
  /\ UNCHANGED <<sources, nodeVars, blockVars, rowVars, blockLock, job, trouble>>

\* The scheduler starts a transaction whose sources of the block are done.
Apply(t) ==
  /\ WorkerAt("apply") /\ cur = NoCall
  /\ t \in worker.left
  /\ sources[t] \cap worker.left = {}
  /\ Start(t)
  /\ UNCHANGED <<sources, nodeVars, blockVars, rowVars, blockLock, worker, job, trouble>>

\* A failed transaction is tried again, or the block is given up.
ApplyFailed ==
  /\ WorkerAt("apply") /\ In("failed")
  /\ \/ Start(cur.tx) /\ UNCHANGED worker
     \/ cur' = NoCall /\ worker' = [worker EXCEPT !.at = "cleanup"]
  /\ UNCHANGED <<sources, nodeVars, blockVars, rowVars, blockLock, job, trouble>>

\* A shutdown gives the block up as well.
ApplyStopped ==
  /\ WorkerAt("apply") /\ cur = NoCall
  /\ Trouble
  /\ worker' = [worker EXCEPT !.at = "cleanup"]
  /\ UNCHANGED <<sources, nodeVars, blockVars, rowVars, blockLock, cur, job>>

MarkComplete ==
  /\ WorkerAt("apply") /\ cur = NoCall /\ worker.left = {}
  /\ headState' = "complete"
  /\ blockLock' = "nobody"
  /\ worker' = Idle
  /\ UNCHANGED <<sources, nodeVars, stored, rowVars, cur, job, trouble>>

\* cleanupAbortedBlockTransactions: the marks of the inputs of all transactions
\* of the block are reset, unless a query fails.
Cleanup ==
  /\ WorkerAt("cleanup")
  /\ LET block == stored[Len(stored)]
     IN  \/ /\ spentBy' = [p \in Tx |-> IF spentBy[p] \in block THEN "nobody" ELSE spentBy[p]]
            /\ UNCHANGED trouble
         \/ UNCHANGED spentBy /\ Trouble
  /\ worker' = [worker EXCEPT !.at = "remove"]
  /\ UNCHANGED <<sources, nodeVars, blockVars, txBlock, inputs, outputs, blockLock, cur, job>>

RemoveBlock ==
  /\ WorkerAt("remove")
  /\ DeleteHead
  /\ blockLock' = "nobody"
  /\ worker' = Idle
  /\ UNCHANGED <<sources, nodeVars, cur, job, trouble>>

-----------------------------------------------------------------------------
(* The mempool job.                                                        *)

JobAt(at) == job.at = at

\* Mutated form: the deferred unlock runs also when the lock was not taken.
JobReturnsUnlocking ==
  /\ job' = Idle
  /\ blockLock' = "nobody"
  /\ cur' = IF blockLock = "job" THEN NoCall ELSE cur

\* The job returns: the flag is reset and BlockLock released, if it has it.
JobReturns ==
  /\ job' = Idle
  /\ blockLock' = IF blockLock = "job" THEN "nobody" ELSE blockLock
  /\ cur' = IF blockLock = "job" THEN NoCall ELSE cur

\* GetRawMempool, before BlockLock.
Snapshot ==
  /\ JobAt("idle") /\ ~WorkerAt("boot")
  /\ job' = [at |-> "fetch", set |-> pool, entry |-> entry]
  /\ UNCHANGED <<sources, nodeVars, blockVars, rowVars, blockLock, cur, worker, trouble>>

\* fetchMempoolRawTransactions needs every transaction to be known still.
FetchRaw ==
  /\ JobAt("fetch")
  /\ IF job.set \subseteq pool \cup Mined(chain)
     THEN job' = [job EXCEPT !.at = "lock"] /\ UNCHANGED <<blockLock, cur>>
     ELSE JobReturns
  /\ UNCHANGED <<sources, nodeVars, blockVars, rowVars, worker, trouble>>

\* BlockLock, and then the transactions that are in the mempool block for an
\* hour; todo is what the loop of processTxSet still has to visit.
LockJob(stale) ==
  /\ JobAt("lock")
  /\ blockLock = "nobody"
  /\ stale \subseteq {t \in Tx : txBlock[t] = Mempool}
  /\ blockLock' = "job"
  /\ job' = [at |-> "loop", set |-> job.set, entry |-> job.entry, todo |-> job.set,
             stale |-> stale, head |-> Len(stored), queue |-> <<>>]
  /\ UNCHANGED <<sources, nodeVars, blockVars, rowVars, cur, worker, trouble>>

\* The loop comes to txid: its direct dependencies, and then itself, or the job
\* is not caught up and waits for a minute with the flag set.
Visit(txid) ==
  /\ JobAt("loop") /\ job.queue = <<>> /\ cur = NoCall
  /\ txid \in job.todo
  /\ LET depends == sources[txid] \cap job.set
     IN  IF job.head + 1 >= job.entry[txid]
         THEN /\ \E q \in [1..Cardinality(depends) -> depends] :
                   /\ {q[i] : i \in DOMAIN q} = depends
                   /\ job' = [job EXCEPT !.todo = @ \ {txid}, !.queue = Append(q, txid),
                                         !.stale = @ \ (depends \cup {txid})]
              /\ UNCHANGED blockLock
         ELSE job' = [at |-> "delayed"] /\ blockLock' = "nobody"
  /\ UNCHANGED <<sources, nodeVars, blockVars, rowVars, cur, worker, trouble>>

\* Mutated form: a transaction with a row is processed again.
processMempoolTxAgain ==
  /\ JobAt("loop") /\ cur = NoCall
  /\ job.queue # <<>>
  /\ Start(Head(job.queue))
  /\ UNCHANGED <<sources, nodeVars, blockVars, rowVars, blockLock, worker, job, trouble>>

\* A transaction that has a row, in a block or not, is left alone.
processMempoolTx ==
  /\ JobAt("loop") /\ cur = NoCall
  /\ job.queue # <<>>
  /\ IF txBlock[Head(job.queue)] = NoRow
     THEN Start(Head(job.queue)) /\ UNCHANGED job
     ELSE job' = [job EXCEPT !.queue = Tail(@)] /\ UNCHANGED cur
  /\ UNCHANGED <<sources, nodeVars, blockVars, rowVars, blockLock, worker, trouble>>

\* Mutated form: the error return does not reset the flag.
JobTxFailedRunning ==
  /\ JobAt("loop") /\ In("failed")
  /\ job' = [at |-> "running"] /\ blockLock' = "nobody" /\ cur' = NoCall
  /\ UNCHANGED <<sources, nodeVars, blockVars, rowVars, worker, trouble>>

JobTxFailed ==
  /\ JobAt("loop") /\ In("failed")
  /\ JobReturns
  /\ UNCHANGED <<sources, nodeVars, blockVars, rowVars, worker, trouble>>

\* The old transactions that the snapshot does not know are deleted.
DeleteStale ==
  /\ JobAt("loop") /\ job.todo = {} /\ job.queue = <<>> /\ cur = NoCall
  /\ IF job.stale = {}
     THEN JobReturns /\ UNCHANGED rowVars
     ELSE \E t \in job.stale :
            /\ job' = [job EXCEPT !.stale = @ \ {t}]
            /\ IF txBlock[t] = Mempool THEN Delete({t}) ELSE UNCHANGED rowVars
            /\ UNCHANGED <<blockLock, cur>>
  /\ UNCHANGED <<sources, nodeVars, blockVars, worker, trouble>>

\* Any query of the job fails.
JobFails ==
  /\ ~JobAt("idle") /\ ~JobAt("delayed")
  /\ blockLock = "job" => cur = NoCall
  /\ Trouble
  /\ JobReturns
  /\ UNCHANGED <<sources, nodeVars, blockVars, rowVars, worker>>

delayMempoolSyncReset ==
  /\ JobAt("delayed")
  /\ job' = Idle
  /\ UNCHANGED <<sources, nodeVars, blockVars, rowVars, blockLock, cur, worker, trouble>>

-----------------------------------------------------------------------------
(* A crash, and the start that follows it.                                 *)

Crash ==
  /\ ~WorkerAt("boot")
  /\ Trouble
  /\ worker' = [at |-> "boot"]
  /\ job' = Idle /\ cur' = NoCall /\ blockLock' = "nobody"
  /\ UNCHANGED <<sources, nodeVars, blockVars, rowVars>>

\* blockHasExpectedTransactions counts the rows.
Whole(t, h) ==
  /\ txBlock[t] = h
  /\ {t} \X sources[t] \subseteq inputs
  /\ t \in outputs

cleanupIncompleteHead ==
  IF stored # <<>> /\ \/ headState # "complete"
                      \/ \E t \in stored[Len(stored)] : ~Whole(t, Len(stored))
  THEN DeleteHead
  ELSE UNCHANGED <<blockVars, rowVars>>

\* The jobs are started after the daemon.
Boot ==
  /\ WorkerAt("boot")
  /\ cleanupIncompleteHead
  /\ worker' = Idle
  /\ UNCHANGED <<sources, nodeVars, blockLock, cur, job, trouble>>

-----------------------------------------------------------------------------
Node == Mine \/ Reorg \/ \E t \in Tx : Broadcast(t) \/ Evict(t)

Worker ==
  \/ DropDiverged \/ FetchBlock \/ InsertBlock \/ ApplyFailed \/ MarkComplete
  \/ Cleanup \/ RemoveBlock \/ Boot
  \/ \E t \in Tx : Apply(t)

Job ==
  \/ Snapshot \/ FetchRaw \/ processMempoolTx \/ JobTxFailed
  \/ DeleteStale \/ delayMempoolSyncReset
  \/ \E t \in Tx : Visit(t)

LockJobAny == \E stale \in SUBSET Tx : LockJob(stale)
LockJobOld == LockJob({t \in Tx : txBlock[t] = Mempool})

Next ==
  \/ Node \/ Worker \/ Job \/ LockJobAny \/ ProcessTx
  \/ ApplyStopped \/ JobFails \/ Crash

Spec == Init /\ [][Next]_vars

\* The goroutines run.  Nobody is kept waiting for BlockLock for ever
\* (sync.Mutex), and the time comes when a transaction that stays in the
\* mempool block is there for an hour.
Fairness ==
  /\ WF_vars(Worker) /\ WF_vars(Job) /\ WF_vars(ProcessTx)
  /\ SF_vars(InsertBlock)
  /\ SF_vars(LockJobOld)

FairSpec == Spec /\ Fairness

-----------------------------------------------------------------------------
(* Properties.                                                             *)

\* The variables keep their types.
TypeOK ==
  /\ txBlock \in [Tx -> {NoRow, Mempool} \cup 1..MaxHeight]
  /\ inputs \subseteq Tx \X Tx /\ outputs \subseteq Tx
  /\ spentBy \in [Tx -> Tx \cup {"nobody", "deleted"}]
  /\ Len(stored) <= Len(chain) /\ Len(chain) <= MaxHeight
  /\ headState \in {"processing", "complete"}
  /\ blockLock \in {"nobody", "worker", "job"}
  /\ cur # NoCall => blockLock # "nobody"

Complete == {h \in DOMAIN stored : h < Len(stored) \/ headState = "complete"}

\* Every transaction of a complete block is there with all its rows, whatever
\* the mempool job stored of it before, and its sources are marked as spent: by
\* its own input, or by that of a rival which the job took from a snapshot that
\* was older than the block.
CommittedWhole ==
  \A h \in Complete : \A t \in stored[h] :
    /\ Whole(t, h)
    /\ \A p \in sources[t] : spentBy[p] = t \/ (Rivals(t) # {} /\ spentBy[p] # "nobody")

\* A transaction of a block is never turned back into an unconfirmed one
\* (processMempoolTx works with a snapshot older than BlockLock).
NoDemotion == [][\A t \in Tx : txBlock[t] > Mempool => txBlock'[t] # Mempool]_vars

\* When the node comes to rest, the stored chain becomes its chain and the
\* transactions of the mempool block become those of its mempool, although a
\* job run ends at its first error and nobody controls the order of its work.
Mirrors ==
  <>[]( /\ stored = chain /\ headState = "complete"
        /\ \A t \in Tx : txBlock[t] = Mempool <=> t \in pool )

=============================================================================
