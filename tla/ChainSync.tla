------------------------------ MODULE ChainSync ------------------------------
(***************************************************************************)
(* The chain sync job (daemon/jobs/chainsync.go): it walks over the stored *)
(* heights again and again, and repairs what differs from the node's       *)
(* blocks: a missing block, a missing transaction, missing inputs and      *)
(* outputs, and columns with another value.  It runs beside the daemon,    *)
(* which stores new blocks and removes those of an abandoned branch.       *)
(*                                                                         *)
(* Of the daemon there is what the job meets: its cursor, and the rows it  *)
(* stores and deletes; its own steps are those of BlockSync.               *)
(***************************************************************************)
EXTENDS Integers, Sequences, FiniteSets

CONSTANTS
  MaxHeight,    \* bound: height of the node's chain
  Txs,          \* transactions of a block
  MaxErrors,    \* maxChainSyncErrors
  MaxDepth,     \* depth at which checkHandleReorg gives up (100)
  MaxReorgs,    \* bound: reorganisations of the node's chain
  MaxDamage,    \* bound: damaged transactions at first
  MaxFaults     \* bound: failed queries, and runs that panic or are killed

ASSUME ChainSyncAssumption ==
  /\ MaxHeight \in Nat \ {0} /\ Txs \in Nat \ {0} /\ MaxErrors \in Nat \ {0}
  /\ MaxDepth \in Nat \ {0}
  /\ MaxReorgs \in Nat /\ MaxDamage \in Nat /\ MaxFaults \in Nat

VARIABLES
  node,         \* the node's chain: the branch of the block at each height
  db,           \* the state of the transactions of the stored blocks
  cursor,       \* lastHeightProcessed of the daemon
  saved,        \* the job's state in job_status, and as history the heights of this
                \* round whose error is no longer listed
  job,          \* the run of the job
  emptied,      \* history: heights whose last row was deleted, by a reorganisation or
                \* with a failed block, and that have had none since
  reorgs, faults

rows == <<db, emptied>>
vars == <<node, db, cursor, saved, job, emptied, reorgs, faults>>

\* What can be wrong with a transaction: its row is missing, or some of its
\* inputs or outputs; a column of its row, of an output or of an input differs.
Kinds == {"row", "parts", "tx", "vout", "vin"}
Good  == [t \in 1..Txs |-> "ok"]

Height   == Len(node)
Block(h) == <<h, IF h = 0 THEN 0 ELSE node[h]>>     \* the genesis block is height 0
RowsAt(h) == {r \in DOMAIN db : r[1] = h}
Stored(h) == IF h = 0 THEN {Block(0)} ELSE RowsAt(h)
Top      == CHOOSE h \in 0..MaxHeight :
              /\ h = 0 \/ RowsAt(h) # {}
              /\ \A r \in DOMAIN db : r[1] <= h

Without(r)    == [q \in DOMAIN db \ {r} |-> db[q]]
With(r, txs)  == [q \in DOMAIN db \cup {r} |-> IF q = r THEN txs ELSE db[q]]

\* A row is deleted, if it is there; a row is written with all of its transactions.
Delete(r) ==
  /\ db' = Without(r)
  /\ emptied' = IF RowsAt(r[1]) = {r} THEN emptied \cup {r[1]} ELSE emptied
Put(r) ==
  /\ db' = With(r, Good)
  /\ emptied' = emptied \ {r[1]}

Idle   == [at |-> "idle"]
Locked == job.at = "align"     \* the job holds BlockLock

\* A database in which one block is missing at most, and some transactions of
\* the others are damaged.
Init ==
  /\ \E n \in 1..MaxHeight : node = [h \in 1..n |-> 0]
  /\ \E gap \in 0..(Height - 1) :
       LET blocks == {<<h, 0>> : h \in 1..Height \ {gap}}
       IN  db \in {f \in [blocks -> [1..Txs -> Kinds \cup {"ok"}]] :
                     Cardinality({p \in blocks \X (1..Txs) : f[p[1]][p[2]] # "ok"}) <= MaxDamage}
  /\ cursor = Height /\ emptied = {}
  /\ saved = [last |-> 0, max |-> 0, errors |-> <<>>, forgotten |-> {}]
  /\ job = Idle
  /\ reorgs = 0 /\ faults = 0

-----------------------------------------------------------------------------
(* The node and the daemon.                                                *)

Extend ==
  /\ Height < MaxHeight
  /\ node' = Append(node, node[Height])
  /\ UNCHANGED <<rows, cursor, saved, job, reorgs, faults>>

\* The blocks above height k are replaced by those of a longer branch.
Reorg ==
  /\ Height < MaxHeight /\ reorgs < MaxReorgs
  /\ reorgs' = reorgs + 1
  /\ \E k \in 0..(Height - 1) :
       node' = [h \in 1..(Height + 1) |-> IF h <= k THEN node[h] ELSE reorgs + 1]
  /\ UNCHANGED <<rows, cursor, saved, job, faults>>

\* The row before the next block belongs to another branch and is deleted, before
\* BlockLock is taken.  If there is no row the daemon stays where it is.
DaemonDeletes ==
  /\ cursor \in 1..(Height - 1)
  /\ \E r \in RowsAt(cursor) : r # Block(cursor) /\ Delete(r)
  /\ cursor' = cursor - 1
  /\ UNCHANGED <<node, saved, job, reorgs, faults>>

DaemonStores ==
  /\ cursor < Height /\ ~Locked
  /\ Block(cursor) \in Stored(cursor)
  /\ Put(Block(cursor + 1))
  /\ cursor' = cursor + 1
  /\ UNCHANGED <<node, saved, job, reorgs, faults>>

-----------------------------------------------------------------------------
(* The state of the job.                                                   *)

\* The entries of the list that the error belongs to.  The text of an error of
\* RunBlockProcessing holds the height; the others of an area are taken to be equal.
Listed(errors, area, h) ==
  {i \in DOMAIN errors : /\ errors[i].area = area
                         /\ area = "daemon-process-block" => h \in errors[i].heights}
Heights(errors) == UNION {errors[i].heights : i \in DOMAIN errors}

\* recordError: the height is added to an entry with this error, or an entry is
\* added at the end, and the oldest one is dropped if there are too many.
recordError(errors, area, h) ==
  IF Listed(errors, area, h) # {}
  THEN [i \in DOMAIN errors |-> IF i \in Listed(errors, area, h)
                                THEN [errors[i] EXCEPT !.heights = @ \cup {h}] ELSE errors[i]]
  ELSE LET es == Append(errors, [area |-> area, heights |-> {h}])
       IN  IF Len(es) > MaxErrors THEN Tail(es) ELSE es

\* alignVouts works on a copy of the state: what it adds to the list is lost, and
\* a height that it adds to an error of the list is not.
recordInCopy(errors, area, h) ==
  IF Listed(errors, area, h) # {} THEN recordError(errors, area, h) ELSE errors

\* Mutated form: the walk does not start again at the first block.
updateMaxHeightStoredOnly(s) == [s EXCEPT !.max = Top]

\* At the top the walk starts again; otherwise it goes on to the blocks that were
\* stored meanwhile.
updateMaxHeightStored(s) ==
  IF s.last >= Top
  THEN [s EXCEPT !.last = 0, !.errors = <<>>, !.forgotten = {}]
  ELSE [s EXCEPT !.max = Top]

\* The list becomes errors; lost are heights that were listed in the copy only.
Record(errors, lost) ==
  [job.s EXCEPT !.errors = errors,
                !.forgotten = @ \cup (Heights(job.s.errors) \ Heights(errors)) \cup lost]

\* The block is done.
Leave(s) == job' = [at |-> "loop", ran |-> TRUE, s |-> s]

\* Mutated form: the error is returned, and not recorded.
GiveUpUnrecorded(area) == Leave(job.s)

\* recordAndReturnError: the block is given up.
GiveUp(area) == Leave(Record(recordError(job.s.errors, area, job.b[1]), {}))

-----------------------------------------------------------------------------
(* ChainSync.                                                              *)

\* getChainSyncJobStatus reads the state, whatever is left in memory.
Start ==
  /\ job = Idle
  /\ job' = [at |-> "loop", ran |-> FALSE,
             s |-> IF saved.last >= saved.max THEN updateMaxHeightStored(saved) ELSE saved]
  /\ UNCHANGED <<node, rows, cursor, saved, reorgs, faults>>

\* Mutated form: one height too many.
ProcessNextTooFar ==
  /\ job.at = "loop" /\ job.s.last <= job.s.max /\ job.s.last < Height
  /\ job' = [at |-> "find", s |-> [job.s EXCEPT !.last = @ + 1], b |-> Block(job.s.last + 1)]
  /\ UNCHANGED <<node, rows, cursor, saved, reorgs, faults>>

\* processNextBlock: the cursor is advanced, and the node asked for the block.
ProcessNext ==
  /\ job.at = "loop" /\ job.s.last < job.s.max
  /\ job' = [at |-> "find", s |-> [job.s EXCEPT !.last = @ + 1], b |-> Block(job.s.last + 1)]
  /\ UNCHANGED <<node, rows, cursor, saved, reorgs, faults>>

Found ==
  /\ job.at = "find" /\ job.b \in DOMAIN db
  /\ job' = [job EXCEPT !.at = "lock"]
  /\ UNCHANGED <<node, rows, cursor, saved, reorgs, faults>>

\* The block is missing: RunBlockProcessing asks the node for the block at this
\* height once more, whose previous block is to be stored.
Fill ==
  /\ job.at = "find" /\ job.b \notin DOMAIN db
  /\ LET h == job.b[1]
     IN  job' = [at |-> "check", s |-> job.s, b |-> job.b, json |-> Block(h),
                 prev |-> h - 1, want |-> Block(h - 1)]
  /\ UNCHANGED <<node, rows, cursor, saved, reorgs, faults>>

\* checkHandleReorg, at one height: a row of another branch is deleted, and the
\* search goes on below it.  The block is only stored if nothing was deleted.
CheckPrevious ==
  /\ job.at = "check"
  /\ LET depth == job.b[1] - 1 - job.prev
     IN  \/ /\ job.want \in Stored(job.prev)
            /\ IF depth = 0
               THEN job' = [at |-> "store", s |-> job.s, b |-> job.b, json |-> job.json]
               ELSE GiveUp("daemon-process-block")
            /\ UNCHANGED rows
         \/ \E r \in Stored(job.prev) \ {job.want} :
              IF depth < MaxDepth
              THEN /\ Delete(r)
                   /\ job' = [job EXCEPT !.prev = @ - 1, !.want = Block(job.prev - 1)]
              ELSE GiveUp("daemon-process-block") /\ UNCHANGED rows
         \/ /\ Stored(job.prev) = {}
            /\ GiveUp("daemon-process-block")
            /\ UNCHANGED rows
  /\ UNCHANGED <<node, cursor, saved, reorgs, faults>>

\* ProcessBlock, with BlockLock: without a previous block it fails, and the block is
\* removed.
Store ==
  /\ job.at = "store"
  /\ IF Stored(job.b[1] - 1) # {}
     THEN Put(job.json) /\ job' = [at |-> "lock", s |-> job.s, b |-> job.b]
     ELSE Delete(job.json) /\ GiveUp("daemon-process-block")
  /\ UNCHANGED <<node, cursor, saved, reorgs, faults>>

\* The transactions are fetched, BlockLock is taken, the block is read again and
\* aligned.
LockBlock ==
  /\ job.at = "lock"
  /\ IF job.b \in DOMAIN db
     THEN job' = [at |-> "align", s |-> job.s, b |-> job.b, tx |-> 1]
     ELSE GiveUp("mysql-getblock")
  /\ UNCHANGED <<node, rows, cursor, saved, reorgs, faults>>

\* One of these queries, or a call of the node, fails; in ProcessBlock the block is
\* removed.
BlockFails ==
  /\ faults < MaxFaults /\ faults' = faults + 1
  /\ \/ /\ job.at = "find"
        /\ \E area \in {"lbrycrd-getblockhash", "mysql-getblock"} : GiveUp(area)
        /\ UNCHANGED rows
     \/ job.at = "check" /\ GiveUp("daemon-process-block") /\ UNCHANGED rows
     \/ job.at = "store" /\ GiveUp("daemon-process-block") /\ Delete(job.json)
     \/ /\ job.at = "lock"
        /\ \E area \in {"tx-hash-creation", "mysql-getblock", "block-alignment"} : GiveUp(area)
        /\ UNCHANGED rows
  /\ UNCHANGED <<node, cursor, saved, reorgs>>

\* The next transaction of alignTxs.
NextTx(s) ==
  IF job.tx = Txs THEN Leave(s) ELSE job' = [job EXCEPT !.tx = @ + 1, !.s = s]

AlignTx ==
  /\ job.at = "align"
  /\ job.b \in DOMAIN db
  /\ db' = [db EXCEPT ![job.b][job.tx] = "ok"]
  /\ NextTx(job.s)
  /\ UNCHANGED <<node, cursor, emptied, saved, reorgs, faults>>

\* The block was deleted meanwhile, and its transaction cannot be stored.
AlignGone ==
  /\ job.at = "align"
  /\ job.b \notin DOMAIN db
  /\ NextTx(Record(recordError(job.s.errors, "tx-processing", job.b[1]), {}))
  /\ UNCHANGED <<node, rows, cursor, saved, reorgs, faults>>

\* A query fails.  After an error of ProcessTx for a transaction without a row, of
\* an output or of an input, the job goes on with the next transaction; other
\* errors are recorded by alignTxs and once more by processNextBlock, and end the
\* block.
AlignFails ==
  /\ job.at = "align"
  /\ job.b \in DOMAIN db
  /\ faults < MaxFaults /\ faults' = faults + 1
  /\ LET h    == job.b[1]
         es   == job.s.errors
         kind == db[job.b][job.tx]
         Stop(area) == Leave(Record(recordError(recordError(es, area, h), "tx-alignment", h), {}))
     IN  \/ /\ kind = "row"
            /\ NextTx(Record(recordError(es, "tx-processing", h), {}))
            /\ \E k \in {"row", "parts"} : db' = [db EXCEPT ![job.b][job.tx] = k]
         \/ Stop("mysql-tx") /\ UNCHANGED db
         \/ kind # "row" /\ Stop("tx-part-count") /\ UNCHANGED db
         \/ kind = "parts" /\ Stop("tx-reprocessing") /\ UNCHANGED db
         \/ kind \in {"tx", "ok"} /\ Stop("tx-alignment") /\ UNCHANGED db
         \/ kind = "vin" /\ NextTx(Record(recordError(es, "vin-alignment", h), {})) /\ UNCHANGED db
         \/ kind = "vout" /\ UNCHANGED db /\ LET copy == recordInCopy(es, "vout-alignment", h)
                               IN  NextTx(Record(copy, IF copy = es THEN {h} ELSE {}))
  /\ UNCHANGED <<node, cursor, emptied, saved, reorgs>>

\* The time is up, or the walk is at its end: doneChainSyncJob saves the state.
Done ==
  /\ job.at = "loop" /\ (job.ran \/ job.s.last >= job.s.max)
  /\ saved' = job.s
  /\ job' = Idle
  /\ UNCHANGED <<node, rows, cursor, reorgs, faults>>

\* A panic, from which endChainSync recovers, or the end of the process, after
\* which the daemon goes on from the greatest height: the state is not saved.
RunFails ==
  /\ faults < MaxFaults /\ faults' = faults + 1
  /\ job' = Idle
  /\ \/ job # Idle /\ UNCHANGED cursor
     \/ cursor' = Top
  /\ UNCHANGED <<node, rows, saved, reorgs>>

Daemon == DaemonDeletes \/ DaemonStores
Run ==
  \/ Start \/ ProcessNext \/ Found \/ Fill \/ CheckPrevious \/ Store \/ LockBlock
  \/ AlignTx \/ AlignGone \/ Done
Next == Extend \/ Reorg \/ Daemon \/ Run \/ BlockFails \/ AlignFails \/ RunFails

Spec == Init /\ [][Next]_vars

\* The daemon goes on, and a Go mutex does not starve it; the job is started again
\* by its schedule and has time for a block in every run (ChainSyncRunDuration > 0).
FairSpec == Spec /\ SF_vars(Daemon) /\ WF_vars(Run)

-----------------------------------------------------------------------------
(* Properties.                                                             *)

Walk  == IF job = Idle THEN saved ELSE job.s

\* The variables keep their types: the cursors stay within the heights of the round
\* and of the chain, the list of errors within its length, and no two entries are
\* for the same error.
TypeOK ==
  /\ \A r \in DOMAIN db : r[1] \in 1..Height /\ db[r] \in [1..Txs -> Kinds \cup {"ok"}]
  /\ cursor \in 0..Height
  /\ \A h \in emptied : RowsAt(h) = {}
  /\ Walk.last \in 0..Walk.max /\ Walk.max <= Height
  /\ Len(Walk.errors) <= MaxErrors
  /\ \A i \in DOMAIN Walk.errors : \A h \in Walk.errors[i].heights :
       Listed(Walk.errors, Walk.errors[i].area, h) = {i}

\* The height was never filled, or its block is not as the node has it.
Wrong(h) ==
  \/ RowsAt(h) = {} /\ h \notin emptied
  \/ Block(h) \in DOMAIN db /\ db[Block(h)] # Good

\* A height that the walk left behind with something wrong is in the list of
\* errors, whatever run failed and was repeated; unless its error was dropped
\* from the list, or was recorded in the copy of alignVouts.  A height whose rows
\* were deleted since by a reorganisation is not listed.
Reported ==
  job.at \in {"idle", "loop"} =>
    \A h \in 1..Walk.last : Wrong(h) => h \in Heights(Walk.errors) \cup Walk.forgotten

\* Every stored height gets the node's block with all of its transactions, however
\* often its repair failed before, and the stored chain reaches the node's; unless
\* the daemon waits for a row above all of the stored ones, where no round of the
\* job gets to.
Repairs ==
  <>[](/\ \A h \in 1..Top : Block(h) \in DOMAIN db /\ db[Block(h)] = Good
       /\ Top = Height \/ cursor > Top)

=============================================================================
