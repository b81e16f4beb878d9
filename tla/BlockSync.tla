------------------------------ MODULE BlockSync ------------------------------
(***************************************************************************)
(* How the stored chain follows the chain of the node: the loop of         *)
(* daemon/daemon.go and RunBlockProcessing, checkHandleReorg and the       *)
(* cleanup of an incomplete head of daemon/processing/block.go, with the   *)
(* failures they handle, a crash at any moment, and the other callers of   *)
(* RunBlockProcessing (the chain sync job and the API), which call it      *)
(* outside the daemon's handshake.                                         *)
(*                                                                         *)
(* A block is the sequence of the variants chosen on the way from the      *)
(* genesis block to it, so that the block determines its height (the       *)
(* length), its predecessor and its whole branch, as its hash does.  Rows  *)
(* are keyed by the hash, which is the unique column of the table; several *)
(* rows may have one height.  The row of the mempool pseudo-block is left  *)
(* out: it has height 0 and an id above that of the genesis block, which   *)
(* the queries for height 0 therefore find first.                          *)
(***************************************************************************)
EXTENDS Integers, Sequences, FiniteSets

CONSTANTS
  Callers,          \* who runs RunBlockProcessing: Daemon, and maybe others
  Daemon,           \* the block worker of the daemon
  ChainSync,        \* the chain sync job; any other caller is the API
  Variants,         \* tells apart the blocks with one predecessor
  ReorgLimit,       \* depth at which checkHandleReorg gives up (100)
  MaxHeight,        \* bound: the node's chain grows up to here
  MaxReorgs,        \* bound: how often the node switches branches
  MaxFaults,        \* bound: failed calls, panics and crashes
  MaxReorgFaults,   \* bound: failed calls inside checkHandleReorg
  MaxRemoveFaults   \* bound: blocks that deleteBlockWithRetry cannot delete

Nobody == "nobody"             \* BlockLock is free
Others == Callers \ {Daemon}

ASSUME CallersAssumption  == Daemon \in Callers /\ Nobody \notin Callers
ASSUME VariantsAssumption == Variants # {}
ASSUME BoundsAssumption   ==
  /\ ReorgLimit \in Nat \ {0} /\ MaxHeight \in Nat \ {0} /\ MaxReorgs \in Nat
  /\ MaxFaults \in Nat /\ MaxReorgFaults \in Nat /\ MaxRemoveFaults \in Nat

Block   == UNION {[1..n -> Variants] : n \in 0..MaxHeight}
Genesis == <<>>

At(b, h) == SubSeq(b, 1, h)                 \* the ancestor of b at height h
Prev(b)  == At(b, Len(b) - 1)

VARIABLES
  chain,       \* the last block of the node's active chain
  rows,        \* the block table: processing_state of each stored block
  call,        \* the call of RunBlockProcessing of each caller
  blockLock,   \* who holds BlockLock, or Nobody
  step,        \* where the daemon goroutine is
  lastHeightProcessed,
  blockHeight, \* the node's height at the start of the iteration
  stuck,       \* history: a reorganisation was given up after a deletion
  reorgs, faults, reorgFaults, removeFaults

dbVars     == <<rows, blockLock>>
daemonVars == <<step, lastHeightProcessed, blockHeight>>
boundVars  == <<stuck, reorgs, faults, reorgFaults, removeFaults>>
vars       == <<chain, dbVars, call, daemonVars, boundVars>>

NoCall == [pc |-> "idle", height |-> 0, json |-> Genesis, prev |-> 0,
           want |-> Genesis, row |-> Genesis, depth |-> 0]

Stored  == DOMAIN rows
RowsAt(h) == {b \in Stored : Len(b) = h}
Put(b, s) == [x \in Stored \cup {b} |-> IF x = b THEN s ELSE rows[x]]
Without(b) == [x \in Stored \ {b} |-> rows[x]]

\* The rows that chainHeadBlock may return.
Heads == {b \in Stored : \A d \in Stored : Len(d) <= Len(b)}

-----------------------------------------------------------------------------
Init ==
  /\ chain \in [1..1 -> Variants]
  /\ rows = [b \in {} |-> "complete"]
  /\ call = [p \in Callers |-> NoCall]
  /\ blockLock = Nobody
  /\ step = "boot"
  /\ lastHeightProcessed = 0
  /\ blockHeight = 0
  /\ stuck = FALSE
  /\ reorgs = 0 /\ faults = 0 /\ reorgFaults = 0 /\ removeFaults = 0

-----------------------------------------------------------------------------
(* The node.                                                               *)

Extend ==
  /\ Len(chain) < MaxHeight
  /\ \E v \in Variants : chain' = Append(chain, v)
  /\ UNCHANGED <<dbVars, call, daemonVars, boundVars>>

\* The node switches to a longer branch, none of the two being a part of the
\* other.
Reorg ==
  /\ reorgs < MaxReorgs
  /\ \E b \in Block : /\ Len(b) > Len(chain)
                      /\ At(b, Len(chain)) # chain
                      /\ chain' = b
  /\ reorgs' = reorgs + 1
  /\ UNCHANGED <<dbVars, call, daemonVars, stuck, faults, reorgFaults, removeFaults>>

-----------------------------------------------------------------------------
(* RunBlockProcessing, called by p.                                        *)

In(p, pc) == call[p].pc = pc

Becomes(p, c) == call' = [call EXCEPT ![p] = c]
Goto(p, pc)   == Becomes(p, [call[p] EXCEPT !.pc = pc])

\* The call returns height h.
Return(p, h) == Becomes(p, [NoCall EXCEPT !.pc = "returned", !.height = h])

Started(h) == [NoCall EXCEPT !.pc = IF h = 0 THEN "lock" ELSE "fetch", !.height = h]

Fault       == faults < MaxFaults /\ faults' = faults + 1
NoFault     == UNCHANGED faults
ReorgFault  == reorgFaults < MaxReorgFaults /\ reorgFaults' = reorgFaults + 1
RemoveFault == removeFaults < MaxRemoveFaults /\ removeFaults' = removeFaults + 1
OtherBounds == UNCHANGED <<stuck, reorgs, reorgFaults, removeFaults>>

\* getBlockToProcess; on an error the call returns the height before.
GetBlock(p) ==
  /\ In(p, "fetch")
  /\ LET h == call[p].height
         b == At(chain, h)
     IN  \/ /\ Becomes(p, [call[p] EXCEPT !.pc = "check", !.json = b,
                                          !.prev = h - 1, !.want = Prev(b)])
            /\ NoFault
         \/ Return(p, h - 1) /\ Fault
  /\ UNCHANGED <<chain, dbVars, daemonVars>> /\ OtherBounds

\* Mutated form: the search goes on with the next stored block although the
\* two hashes match only by height.
CheckPrevByHeight(p) ==
  /\ In(p, "check")
  /\ LET c == call[p]
     IN  \/ RowsAt(c.prev) = {} /\ Return(p, c.prev)
         \/ \E b \in RowsAt(c.prev) :
              IF c.depth = 0 THEN Goto(p, "lock") ELSE Return(p, c.prev)
  /\ UNCHANGED <<chain, dbVars, daemonVars, boundVars>>

\* Mutated form: the search has no limit on its depth.
CheckPrevUnlimited(p) ==
  /\ In(p, "check")
  /\ LET c == call[p]
     IN  \/ RowsAt(c.prev) = {} /\ Return(p, c.prev)
         \/ \E b \in RowsAt(c.prev) :
              IF b = c.want
              THEN IF c.depth = 0 THEN Goto(p, "lock") ELSE Return(p, c.prev)
              ELSE Becomes(p, [c EXCEPT !.pc = "delete", !.row = b])
  /\ UNCHANGED <<chain, dbVars, daemonVars, boundVars>>

\* checkHandleReorg gives up and the call returns the height before.  If it has
\* deleted blocks, the daemon now asks for a block on top of a gap.
GiveUp(p) ==
  /\ Return(p, call[p].height - 1)
  /\ stuck' = (stuck \/ (p = Daemon /\ call[p].depth > 0))

\* checkHandleReorg reads a row at height prev and compares it with the
\* predecessor that the node's chain wants there.
CheckPrev(p) ==
  /\ In(p, "check")
  /\ LET c == call[p]
     IN  \/ RowsAt(c.prev) = {} /\ Return(p, c.prev) /\ UNCHANGED stuck
         \/ \E b \in RowsAt(c.prev) :
              IF b = c.want
              THEN /\ IF c.depth = 0 THEN Goto(p, "lock") ELSE Return(p, c.prev)
                   /\ UNCHANGED stuck
              ELSE IF c.depth < ReorgLimit /\ c.prev > 0
              THEN /\ Becomes(p, [c EXCEPT !.pc = "delete", !.row = b])
                   /\ UNCHANGED stuck
              ELSE GiveUp(p)
  /\ UNCHANGED <<chain, dbVars, daemonVars, reorgs, faults, reorgFaults, removeFaults>>

\* The diverged block is deleted; BlockLock is not held.
DeletePrev(p) ==
  /\ In(p, "delete")
  /\ rows' = Without(call[p].row)
  /\ Becomes(p, [call[p] EXCEPT !.pc = "refetch", !.depth = @ + 1])
  /\ UNCHANGED <<chain, blockLock, daemonVars, boundVars>>

\* The node is asked for the predecessor one height below.
Refetch(p) ==
  /\ In(p, "refetch")
  /\ LET prev == call[p].prev
     IN  Becomes(p, [call[p] EXCEPT !.pc = "check", !.prev = prev - 1,
                                    !.want = At(chain, prev - 1)])
  /\ UNCHANGED <<chain, dbVars, daemonVars, boundVars>>

\* A query, a delete or a call of the node fails in checkHandleReorg.
ReorgFails(p) ==
  /\ call[p].pc \in {"check", "delete", "refetch"}
  /\ GiveUp(p)
  /\ ReorgFault
  /\ UNCHANGED <<chain, dbVars, daemonVars, reorgs, faults, removeFaults>>

\* Mutated form: a caller does not wait for BlockLock.
LockAnyway(p) ==
  /\ In(p, "lock")
  /\ blockLock' = p
  /\ Goto(p, "insert")
  /\ UNCHANGED <<chain, rows, daemonVars, boundVars>>

Lock(p) ==
  /\ In(p, "lock")
  /\ blockLock = Nobody
  /\ blockLock' = p
  /\ Goto(p, "insert")
  /\ UNCHANGED <<chain, rows, daemonVars, boundVars>>

\* parseBlockInfo: the row is inserted, or updated if there is one already.
Insert(p) ==
  /\ In(p, "insert")
  /\ LET c == call[p]
     IN  \/ /\ rows' = Put(c.json, "processing")
            /\ Goto(p, IF c.height = 0 THEN "apply" ELSE "link")
            /\ UNCHANGED blockLock /\ NoFault
         \/ /\ c.height > 0
            /\ Return(p, c.height - 1)
            /\ blockLock' = Nobody
            /\ UNCHANGED rows /\ Fault
  /\ UNCHANGED <<chain, daemonVars>> /\ OtherBounds

\* setPreviousBlockInfo needs some row at the height before.
Link(p) ==
  /\ In(p, "link")
  /\ \/ RowsAt(call[p].height - 1) # {} /\ Goto(p, "apply")
     \/ RowsAt(call[p].height - 1) = {} /\ Goto(p, "remove")
  /\ UNCHANGED <<chain, dbVars, daemonVars, boundVars>>

\* syncTransactionsOfBlock; see BlockApply.  The transactions refer to the row
\* of their block, so they cannot be stored once it is gone.
Apply(p) ==
  /\ In(p, "apply")
  /\ \/ call[p].json \in Stored /\ Goto(p, "mark") /\ NoFault
     \/ call[p].json \notin Stored /\ Goto(p, "remove") /\ NoFault
     \/ call[p].height > 0 /\ Goto(p, "remove") /\ Fault
  /\ UNCHANGED <<chain, dbVars, daemonVars>> /\ OtherBounds

\* markBlockProcessingState(complete), an update that may find no row.
Mark(p) ==
  /\ In(p, "mark")
  /\ rows' = [b \in Stored |-> IF b = call[p].json THEN "complete" ELSE rows[b]]
  /\ blockLock' = Nobody
  /\ Return(p, call[p].height)
  /\ UNCHANGED <<chain, daemonVars, boundVars>>

\* Mutated form: the block with bad data is kept.
RemoveNothing(p) ==
  /\ In(p, "remove")
  /\ Return(p, call[p].height - 1)
  /\ blockLock' = Nobody
  /\ UNCHANGED <<chain, rows, daemonVars, boundVars>>

\* deleteBlockWithRetry of the failed block; the call returns the height
\* before also when the block cannot be deleted.
Remove(p) ==
  /\ In(p, "remove")
  /\ \/ rows' = Without(call[p].json) /\ UNCHANGED removeFaults
     \/ UNCHANGED rows /\ RemoveFault
  /\ Return(p, call[p].height - 1)
  /\ blockLock' = Nobody
  /\ UNCHANGED <<chain, daemonVars, stuck, reorgs, faults, reorgFaults>>

RunBlockProcessing(p) ==
  \/ GetBlock(p) \/ CheckPrev(p) \/ DeletePrev(p) \/ Refetch(p) \/ ReorgFails(p)
  \/ Lock(p) \/ Insert(p) \/ Link(p) \/ Apply(p) \/ Mark(p) \/ Remove(p)

-----------------------------------------------------------------------------
(* A panic while a block is processed; the deferred unlock runs.           *)

Processing(p) == call[p].pc \in {"insert", "link", "apply", "mark"}

\* processBlockWithRecover recovers the daemon's worker.
Panic ==
  /\ Processing(Daemon)
  /\ Goto(Daemon, "panicked")
  /\ blockLock' = Nobody
  /\ Fault
  /\ UNCHANGED <<chain, rows, daemonVars>> /\ OtherBounds

\* endChainSync, and the HTTP server, recover from a panic and do no more.
OtherPanic(p) ==
  /\ Processing(p)
  /\ Becomes(p, NoCall)
  /\ blockLock' = Nobody
  /\ Fault
  /\ UNCHANGED <<chain, rows, daemonVars>> /\ OtherBounds

\* MarkIncompleteBlockHeight marks a row at the height of the panic.
MarkIncomplete ==
  /\ In(Daemon, "panicked")
  /\ blockLock = Nobody
  /\ \/ /\ RowsAt(call[Daemon].height) = {}
        /\ UNCHANGED rows
     \/ \E b \in RowsAt(call[Daemon].height) : rows' = Put(b, "incomplete")
  /\ Goto(Daemon, "cleanup")
  /\ UNCHANGED <<chain, blockLock, daemonVars, boundVars>>

\* Mutated form: only a head that was marked as incomplete is deleted.
cleanupIncompleteHeadMarked ==
  \/ Stored = {} /\ UNCHANGED rows
  \/ \E b \in Heads :
       IF rows[b] = "incomplete" THEN rows' = Without(b) ELSE UNCHANGED rows

\* cleanupIncompleteHead: a head whose transactions are not all there, or that
\* is not marked as complete, is deleted.
cleanupIncompleteHead ==
  \/ Stored = {} /\ UNCHANGED rows
  \/ \E b \in Heads :
       IF rows[b] # "complete" THEN rows' = Without(b) ELSE UNCHANGED rows

rollbackBlockHeight(h) == IF h = 0 THEN 0 ELSE h - 1

\* The worker goes on also when the cleanup fails.
CleanupAfterPanic ==
  /\ In(Daemon, "cleanup")
  /\ blockLock = Nobody
  /\ \/ cleanupIncompleteHead /\ UNCHANGED removeFaults
     \/ UNCHANGED rows /\ RemoveFault
  /\ Return(Daemon, rollbackBlockHeight(call[Daemon].height))
  /\ UNCHANGED <<chain, blockLock, daemonVars, stuck, reorgs, faults, reorgFaults>>

-----------------------------------------------------------------------------
(* The daemon and the other callers.                                       *)

HeadHeight == IF Stored = {} THEN 0 ELSE Len(CHOOSE b \in Heads : TRUE)

\* DoYourThing: the head is cleaned up before the daemon starts, which then
\* resumes at the height of the last block.
Boot ==
  /\ step = "boot"
  /\ blockLock = Nobody
  /\ cleanupIncompleteHead
  /\ step' = "resume"
  /\ stuck' = FALSE
  /\ UNCHANGED <<chain, blockLock, call, lastHeightProcessed, blockHeight,
                 reorgs, faults, reorgFaults, removeFaults>>

Resume ==
  /\ step = "resume"
  /\ lastHeightProcessed' = HeadHeight
  /\ step' = "ticker"
  /\ UNCHANGED <<chain, dbVars, call, blockHeight, boundVars>>

\* The head of daemonIteration; at height 0 the genesis block is processed.
StartIteration ==
  /\ step = "ticker"
  /\ blockHeight' = Len(chain)
  /\ IF lastHeightProcessed = 0
     THEN step' = "genesis" /\ Becomes(Daemon, Started(0))
     ELSE step' = "loop" /\ UNCHANGED call
  /\ UNCHANGED <<chain, dbVars, lastHeightProcessed, boundVars>>

\* processBlockHeight hands the next height to the worker.
ProcessNext ==
  /\ step = "loop"
  /\ blockHeight >= lastHeightProcessed + 1
  /\ step' = "wait"
  /\ Becomes(Daemon, Started(lastHeightProcessed + 1))
  /\ UNCHANGED <<chain, dbVars, lastHeightProcessed, blockHeight, boundVars>>

EndIteration ==
  /\ step = "loop"
  /\ blockHeight < lastHeightProcessed + 1
  /\ step' = "ticker"
  /\ UNCHANGED <<chain, dbVars, call, lastHeightProcessed, blockHeight, boundVars>>

\* waitForBlockProcessed: the height that the worker returned becomes the last
\* height processed, and the iteration goes on while there is work to do.
BlockProcessed ==
  /\ step \in {"wait", "genesis"}
  /\ In(Daemon, "returned")
  /\ lastHeightProcessed' = call[Daemon].height
  /\ Becomes(Daemon, NoCall)
  /\ step' = IF \/ step = "genesis"
                \/ call[Daemon].height < blockHeight /\ call[Daemon].height # 0
             THEN "loop" ELSE "ticker"
  /\ UNCHANGED <<chain, dbVars, blockHeight, boundVars>>

\* The chain sync job walks over the stored heights and asks for a block that
\* is not stored; the API asks for any height.
Request(p) ==
  /\ In(p, "idle")
  /\ \E h \in 0..Len(chain) :
       /\ p = ChainSync => h \in 1..HeadHeight /\ At(chain, h) \notin Stored
       /\ Becomes(p, Started(h))
  /\ UNCHANGED <<chain, dbVars, daemonVars, boundVars>>

\* These callers do not use the height that is returned.
RequestDone(p) ==
  /\ In(p, "returned")
  /\ Becomes(p, NoCall)
  /\ UNCHANGED <<chain, dbVars, daemonVars, boundVars>>

\* The process stops at any moment and starts again.
Crash ==
  /\ step # "boot"
  /\ Fault
  /\ call' = [p \in Callers |-> NoCall]
  /\ blockLock' = Nobody
  /\ step' = "boot"
  /\ lastHeightProcessed' = 0
  /\ blockHeight' = 0
  /\ UNCHANGED <<chain, rows>> /\ OtherBounds

DaemonStep ==
  \/ Boot \/ Resume \/ StartIteration \/ ProcessNext \/ EndIteration
  \/ BlockProcessed \/ MarkIncomplete \/ CleanupAfterPanic

Next ==
  \/ Extend \/ Reorg \/ Panic \/ Crash
  \/ DaemonStep
  \/ \E p \in Callers : RunBlockProcessing(p)
  \/ \E p \in Others : Request(p) \/ RequestDone(p) \/ OtherPanic(p)

Spec == Init /\ [][Next]_vars

\* The ticker and the workers keep running.  Nothing is assumed about the node
\* or about failures, of which there are finitely many.
Fairness ==
  /\ WF_vars(DaemonStep)
  /\ \A p \in Callers : WF_vars(RunBlockProcessing(p))

FairSpec == Spec /\ Fairness

-----------------------------------------------------------------------------
(* Properties.                                                             *)

Calls == [pc : {"idle", "fetch", "check", "delete", "refetch", "lock", "insert",
                "link", "apply", "mark", "remove", "panicked", "cleanup", "returned"},
          height : 0..MaxHeight, json : Block, prev : 0..MaxHeight,
          want : Block, row : Block, depth : 0..ReorgLimit]

\* The variables keep their types; heights stay within the node's chain.
TypeOK ==
  /\ chain \in Block
  /\ Stored \subseteq Block
  /\ \A b \in Stored : rows[b] \in {"processing", "incomplete", "complete"}
  /\ call \in [Callers -> Calls]
  /\ blockLock \in Callers \cup {Nobody}
  /\ stuck \in BOOLEAN
  /\ step \in {"boot", "resume", "ticker", "genesis", "loop", "wait"}
  /\ lastHeightProcessed \in 0..Len(chain)
  /\ blockHeight \in 0..Len(chain)

\* Blocks are processed in order: the predecessor of a stored block, the very
\* block and not just one of its height, is stored and complete.
InOrder ==
  \A b \in Stored : b # Genesis => Prev(b) \in Stored /\ rows[Prev(b)] = "complete"

\* A block is started (its transactions begin to be stored) only when the block
\* before it, the very one, is committed; whoever processes it.
StartsInOrder ==
  [][\A p \in Callers :
       In(p, "link") /\ call'[p].pc = "apply" =>
         LET prev == Prev(call[p].json) IN prev \in Stored /\ rows[prev] = "complete"]_vars

\* While a caller holds BlockLock, no row but that of the block it processes is
\* inserted or changes its state, whoever else is running and whatever fails.
\* (The deletion of diverged blocks is the one write outside the lock.)
LockedWrites ==
  [][blockLock # Nobody =>
       \A b \in DOMAIN rows' :
         \/ b = call[blockLock].json
         \/ b \in Stored /\ rows'[b] = rows[b]]_vars

\* The stored blocks are one branch: no two of them have the same height.
OneBranch == \A b, d \in Stored : Len(b) = Len(d) => b = d

\* Between two blocks the daemon stands at the last stored block, so that the
\* block it asks for next is the one that is missing; unless a reorganisation
\* was given up halfway, and until the next start.
AtHead ==
  step \in {"ticker", "loop"} /\ ~stuck =>
    /\ lastHeightProcessed = HeadHeight
    /\ \A b \in Stored : rows[b] = "complete"

\* The whole chain of the node is stored.
Caught ==
  \A h \in 0..Len(chain) : At(chain, h) \in Stored /\ rows[At(chain, h)] = "complete"

\* Once the node's chain no longer changes, every block of it gets stored and
\* stays stored, whatever panicked, failed or crashed before; or the daemon is
\* stuck above a gap because a reorganisation was given up halfway.
CatchesUp == <>[]Caught \/ <>[]stuck

\* README: "Reorgs are handled automatically."
HandlesReorgs == <>[]Caught

=============================================================================
