----------------------------- MODULE TxScheduler -----------------------------
(***************************************************************************)
(* The dependency-aware scheduler that applies the transactions of one     *)
(* block: runBlockTxScheduler of daemon/processing/block_scheduler.go with *)
(* its worker goroutines, its retry goroutines, the stop group and the     *)
(* cleanup of an aborted block.                                            *)
(*                                                                         *)
(* Transaction i is the i-th entry of graph.order.  The channels jobs,     *)
(* results and retryReady are unbuffered, so sending and receiving are one *)
(* joint step of two goroutines.  The Go select picks any ready branch,    *)
(* which is the nondeterministic choice of an action here.                 *)
(***************************************************************************)
EXTENDS Integers, Sequences, FiniteSets

CONSTANTS
  N,                        \* len(graph.order)
  Graphs,                   \* the edge sets buildDependencies may produce
  MaxParallelTxProcessing,  \* configured number of parallel transactions
  MaxFailures               \* configured number of tolerated failures

Tx      == 1..N
Reasons == {"utxo", "claim"}

\* A dependency edge, as blockTxDependency; in a block of a validating node
\* both kinds of edge lead from an earlier to a later transaction.
Edges == [parent : Tx, child : Tx, reason : Reasons]

ASSUME NAssumption           == N \in Nat
ASSUME GraphsAssumption      == Graphs \subseteq SUBSET {e \in Edges : e.parent < e.child}
ASSUME ParallelAssumption    == MaxParallelTxProcessing \in Int
ASSUME MaxFailuresAssumption == MaxFailures \in Nat

WorkerCount ==
  LET wanted == IF N < MaxParallelTxProcessing THEN N ELSE MaxParallelTxProcessing
  IN  IF wanted < 1 THEN 1 ELSE wanted

Workers == 1..WorkerCount

NoTx == 0

VARIABLES
  edgeSet,         \* graph.edgeSet, fixed while the scheduler runs
  unresolved,      \* graph.unresolved
  ready,           \* graph.ready, first in first out
  attempts,        \* graph.attempts
  completed,       \* graph.completed
  nCompleted,      \* the local counter completed
  active,          \* the local counter active (plus dispatched)
  pendingRetries,  \* the local counter pendingRetries
  terminalErr,     \* the local variable terminalErr
  pc,              \* where the scheduler goroutine is
  popped,          \* transaction taken from ready, not yet handed over
  worker,          \* the worker goroutines
  retry,           \* the scheduleTxRetry goroutine of each transaction
  stopped,         \* the daemon's stop group has been stopped
  applied,         \* transactions whose processTx returned nil
  spends           \* transactions with spent outputs marked in the database

graphVars == <<edgeSet, unresolved, ready, attempts, completed>>
loopVars  == <<nCompleted, active, pendingRetries, terminalErr, pc, popped>>
dbVars    == <<applied, spends>>
vars      == <<graphVars, loopVars, worker, retry, stopped, dbVars>>

-----------------------------------------------------------------------------
(* The dependency graph.                                                   *)

Into(c)     == {e \in edgeSet : e.child = c}
ChildrenOf(t, c) == {e \in edgeSet : e.parent = t /\ e.child = c}

Elems(s) == {s[i] : i \in DOMAIN s}

\* The sequences that list the set S of transactions in block order: the
\* order in which sortChildren leaves the children of a transaction.
Listing(S) ==
  {s \in [1..Cardinality(S) -> S] :
     /\ Elems(s) = S
     /\ \A i, j \in DOMAIN s : i < j => s[i] < s[j]}

\* Mutated form: one decrement per child instead of one per edge.
UnblockedPerChild(t, c) ==
  unresolved[c] - (IF ChildrenOf(t, c) = {} THEN 0 ELSE 1)

\* The loop of releaseChildren over the edges out of t: every edge is counted,
\* and a child whose counter reaches zero becomes ready.
Unblocked(t, c) == unresolved[c] - Cardinality(ChildrenOf(t, c))

\* Mutated form: a child becomes ready with its first completed parent.
NewlyReadyFirstParent(t) == {c \in Tx : ChildrenOf(t, c) # {}}

\* Mutated form: every transaction without open dependency is queued again.
NewlyReadyAll(t) == {c \in Tx : Unblocked(t, c) = 0}

NewlyReady(t) ==
  {c \in Tx : ChildrenOf(t, c) # {} /\ Unblocked(t, c) = 0}

releaseChildren(t) ==
  /\ unresolved' = [c \in Tx |-> Unblocked(t, c)]
  /\ \E s \in Listing(NewlyReady(t)) : ready' = ready \o s

-----------------------------------------------------------------------------
(* What the database does with one transaction (processTx, called by the   *)
(* worker).  Any attempt may leave some outputs marked as spent, also a    *)
(* failing one; a source output of the same block is missing exactly when  *)
(* its transaction has not been applied.                                   *)

Outcomes == {"ok", "retryable", "fatal", "missingSameBlock"}

UTXOParents(t) == {e.parent : e \in {d \in Into(t) : d.reason = "utxo"}}

processTx(t, err) ==
  /\ err = "missingSameBlock" => ~(UTXOParents(t) \subseteq applied)
  /\ applied' = IF err = "ok" THEN applied \cup {t} ELSE applied
  /\ \/ spends' = spends \cup {t}
     \/ err # "ok" /\ spends' = spends

Idle == [at |-> "idle", tx |-> NoTx, err |-> "ok"]
Gone == [at |-> "exited", tx |-> NoTx, err |-> "ok"]

-----------------------------------------------------------------------------
Init ==
  /\ edgeSet \in Graphs
  /\ unresolved = [c \in Tx |-> Cardinality(Into(c))]
  /\ ready \in Listing({c \in Tx : Into(c) = {}})
  /\ attempts = [t \in Tx |-> 0]
  /\ completed = {}
  /\ nCompleted = 0
  /\ active = 0
  /\ pendingRetries = 0
  /\ terminalErr = "none"
  /\ pc = IF N = 0 THEN "returned" ELSE "loop"
  /\ popped = NoTx
  /\ worker = [w \in Workers |-> IF N = 0 THEN Gone ELSE Idle]
  /\ retry = [t \in Tx |-> "none"]
  /\ stopped = FALSE
  /\ applied = {}
  /\ spends = {}

-----------------------------------------------------------------------------
(* The scheduler goroutine: the loop head and dispatchReadyTransactions.   *)

InLoop == pc = "loop" /\ nCompleted < N

CanDispatch == active < WorkerCount /\ ready # <<>>

\* Mutated form: the loop ends one transaction early.
LoopDoneEarly ==
  /\ pc = "loop"
  /\ nCompleted >= N - 1
  /\ pc' = "stopRetries"
  /\ UNCHANGED <<graphVars, nCompleted, active, pendingRetries, terminalErr,
                 popped, worker, retry, stopped, dbVars>>

LoopDone ==
  /\ pc = "loop"
  /\ nCompleted >= N
  /\ pc' = "stopRetries"
  /\ UNCHANGED <<graphVars, nCompleted, active, pendingRetries, terminalErr,
                 popped, worker, retry, stopped, dbVars>>

\* The stop check before a transaction is popped.
DispatchStopped ==
  /\ InLoop
  /\ terminalErr = "none"
  /\ CanDispatch
  /\ stopped
  /\ terminalErr' = "shutdown"
  /\ UNCHANGED <<graphVars, nCompleted, active, pendingRetries, pc, popped,
                 worker, retry, stopped, dbVars>>

DispatchPop ==
  /\ InLoop
  /\ terminalErr = "none"
  /\ CanDispatch
  /\ ~stopped
  /\ popped' = Head(ready)
  /\ ready' = Tail(ready)
  /\ pc' = "send"
  /\ UNCHANGED <<edgeSet, unresolved, attempts, completed, nCompleted, active,
                 pendingRetries, terminalErr, worker, retry, stopped, dbVars>>

\* jobs <- job, received by the idle worker w.
SendJob(w) ==
  /\ pc = "send"
  /\ worker[w].at = "idle"
  /\ worker' = [worker EXCEPT ![w] = [at |-> "busy", tx |-> popped, err |-> "ok"]]
  /\ active' = active + 1
  /\ popped' = NoTx
  /\ pc' = "loop"
  /\ UNCHANGED <<graphVars, nCompleted, pendingRetries, terminalErr, retry,
                 stopped, dbVars>>

\* Mutated form: the transaction that was not handed over is uncounted.
SendStoppedUncounts ==
  /\ pc = "send"
  /\ stopped
  /\ terminalErr' = "shutdown"
  /\ active' = active - 1
  /\ popped' = NoTx
  /\ pc' = "loop"
  /\ UNCHANGED <<graphVars, nCompleted, pendingRetries, worker, retry,
                 stopped, dbVars>>

\* The popped transaction is dropped: the block is being abandoned.
SendStopped ==
  /\ pc = "send"
  /\ stopped
  /\ terminalErr' = "shutdown"
  /\ popped' = NoTx
  /\ pc' = "loop"
  /\ UNCHANGED <<graphVars, nCompleted, active, pendingRetries, worker,
                 retry, stopped, dbVars>>

DispatchDone ==
  /\ InLoop
  /\ terminalErr = "none"
  /\ ~CanDispatch
  /\ \/ /\ active = 0 /\ ready = <<>> /\ pendingRetries = 0
        /\ terminalErr' = "stalled"
        /\ pc' = "stopRetries"
     \/ /\ ~(active = 0 /\ ready = <<>> /\ pendingRetries = 0)
        /\ pc' = "select"
        /\ UNCHANGED terminalErr
  /\ UNCHANGED <<graphVars, nCompleted, active, pendingRetries, popped, worker,
                 retry, stopped, dbVars>>

\* After a terminal error the results of the active workers are discarded.
Drain(w) ==
  /\ InLoop
  /\ terminalErr # "none"
  /\ active # 0
  /\ worker[w].at = "result"
  /\ worker' = [worker EXCEPT ![w] = Idle]
  /\ active' = active - 1
  /\ UNCHANGED <<graphVars, nCompleted, pendingRetries, terminalErr, pc, popped,
                 retry, stopped, dbVars>>

\* Mutated form: the loop is left while workers are still active.
DrainedEarly ==
  /\ InLoop
  /\ terminalErr # "none"
  /\ pc' = "stopRetries"
  /\ UNCHANGED <<graphVars, nCompleted, active, pendingRetries, terminalErr,
                 popped, worker, retry, stopped, dbVars>>

\* Mutated form: the cleanup starts while workers are still active.
DrainedByCleanup ==
  /\ InLoop
  /\ terminalErr # "none"
  /\ pc' = "cleanup"
  /\ UNCHANGED <<graphVars, nCompleted, active, pendingRetries, terminalErr,
                 popped, worker, retry, stopped, dbVars>>

Drained ==
  /\ InLoop
  /\ terminalErr # "none"
  /\ active = 0
  /\ pc' = "stopRetries"
  /\ UNCHANGED <<graphVars, nCompleted, active, pendingRetries, terminalErr,
                 popped, worker, retry, stopped, dbVars>>

-----------------------------------------------------------------------------
(* The scheduler goroutine: the select at the bottom of the loop.          *)

\* Mutated form: one failure too many is tolerated.
VerdictLenient(err, failcount) ==
  IF err = "missingSameBlock" THEN "invariant"
  ELSE IF err = "fatal" THEN "fatal"
  ELSE IF failcount > MaxFailures + 1 THEN "tooManyFailures"
  ELSE "none"

\* The terminal error of a failed attempt, "none" if it is to be retried.
Verdict(err, failcount) ==
  IF err = "missingSameBlock" THEN "invariant"
  ELSE IF err = "fatal" THEN "fatal"
  ELSE IF failcount > MaxFailures THEN "tooManyFailures"
  ELSE "none"

\* handleScheduledTxError: attempts is updated, then the failure is terminal
\* or a retry goroutine is started.
handleScheduledTxError(t, err) ==
  /\ attempts' = [attempts EXCEPT ![t] = @ + 1]
  /\ terminalErr' = Verdict(err, attempts[t] + 1)
  /\ \/ /\ terminalErr' = "none"
        /\ pendingRetries' = pendingRetries + 1
        /\ retry' = [retry EXCEPT ![t] = "live"]
     \/ /\ terminalErr' # "none"
        /\ UNCHANGED <<pendingRetries, retry>>
  /\ UNCHANGED <<unresolved, ready, completed, nCompleted>>

completeTx(t) ==
  /\ nCompleted' = nCompleted + 1
  /\ completed' = completed \cup {t}
  /\ releaseChildren(t)
  /\ UNCHANGED <<attempts, terminalErr, pendingRetries, retry>>

\* A stop that is already visible wins over the result, a success included.
ReceiveResult(w) ==
  /\ pc = "select"
  /\ worker[w].at = "result"
  /\ worker' = [worker EXCEPT ![w] = Idle]
  /\ active' = active - 1
  /\ pc' = "loop"
  /\ \/ /\ stopped
        /\ terminalErr' = "shutdown"
        /\ UNCHANGED <<unresolved, ready, attempts, completed, nCompleted,
                       pendingRetries, retry>>
     \/ /\ ~stopped
        /\ worker[w].err # "ok"
        /\ handleScheduledTxError(worker[w].tx, worker[w].err)
     \/ /\ ~stopped
        /\ worker[w].err = "ok"
        /\ completeTx(worker[w].tx)
  /\ UNCHANGED <<edgeSet, popped, stopped, dbVars>>

\* retryReady <- txID, sent by the retry goroutine of t after its backoff.
ReceiveRetry(t) ==
  /\ pc = "select"
  /\ retry[t] = "live"
  /\ retry' = [retry EXCEPT ![t] = "none"]
  /\ pendingRetries' = pendingRetries - 1
  /\ ready' = Append(ready, t)
  /\ pc' = "loop"
  /\ UNCHANGED <<edgeSet, unresolved, attempts, completed, nCompleted, active,
                 terminalErr, popped, worker, stopped, dbVars>>

SelectStopped ==
  /\ pc = "select"
  /\ stopped
  /\ terminalErr' = "shutdown"
  /\ pc' = "loop"
  /\ UNCHANGED <<graphVars, nCompleted, active, pendingRetries, popped, worker,
                 retry, stopped, dbVars>>

-----------------------------------------------------------------------------
(* The scheduler goroutine: stopping the helpers and cleaning up.          *)

\* retryStopper.StopAndWait()
RetriesStopped ==
  /\ pc = "stopRetries"
  /\ \A t \in Tx : retry[t] # "live"
  /\ pc' = "stopWorkers"
  /\ UNCHANGED <<graphVars, nCompleted, active, pendingRetries, terminalErr,
                 popped, worker, retry, stopped, dbVars>>

\* Mutated form: an orderly shutdown returns without the cleanup.
WorkersStoppedNoCleanup ==
  /\ pc = "stopWorkers"
  /\ \A w \in Workers : worker[w].at = "exited"
  /\ pc' = IF terminalErr \in {"none", "shutdown"} THEN "returned" ELSE "cleanup"
  /\ UNCHANGED <<graphVars, nCompleted, active, pendingRetries, terminalErr,
                 popped, worker, retry, stopped, dbVars>>

\* workerStopper.StopAndWait()
WorkersStopped ==
  /\ pc = "stopWorkers"
  /\ \A w \in Workers : worker[w].at = "exited"
  /\ pc' = IF terminalErr = "none" THEN "returned" ELSE "cleanup"
  /\ UNCHANGED <<graphVars, nCompleted, active, pendingRetries, terminalErr,
                 popped, worker, retry, stopped, dbVars>>

\* cleanupAbortedBlockTransactions: reset the outputs spent by the block, or
\* fail on a database error and leave them as they are.
Cleanup ==
  /\ pc = "cleanup"
  /\ \/ spends' = {} /\ pc' = "returned"
     \/ UNCHANGED spends /\ pc' = "dirty"
  /\ UNCHANGED <<graphVars, nCompleted, active, pendingRetries, terminalErr,
                 popped, worker, retry, stopped, applied>>

-----------------------------------------------------------------------------
(* The other goroutines.                                                   *)

\* runScheduledTxWorker: processTx returns and the worker blocks on results.
FinishTx(w) ==
  /\ worker[w].at = "busy"
  /\ \E err \in Outcomes :
       /\ processTx(worker[w].tx, err)
       /\ worker' = [worker EXCEPT ![w] = [at |-> "result", tx |-> worker[w].tx,
                                           err |-> err]]
  /\ UNCHANGED <<graphVars, loopVars, retry, stopped>>

\* A worker waiting for a job sees its stop group closed, by the daemon or by
\* the scheduler (workerStopper is a child of the daemon's group).
WorkerExit(w) ==
  /\ worker[w].at = "idle"
  /\ stopped \/ pc = "stopWorkers"
  /\ worker' = [worker EXCEPT ![w] = Gone]
  /\ UNCHANGED <<graphVars, loopVars, retry, stopped, dbVars>>

\* scheduleTxRetry gives up when its stop group is closed; the scheduler does
\* not learn of it and still counts the retry as pending.
RetryExit(t) ==
  /\ retry[t] = "live"
  /\ stopped \/ pc = "stopRetries"
  /\ retry' = [retry EXCEPT ![t] = "exited"]
  /\ UNCHANGED <<graphVars, loopVars, worker, stopped, dbVars>>

\* The daemon is asked to stop, at any moment.
Stop ==
  /\ ~stopped
  /\ stopped' = TRUE
  /\ UNCHANGED <<graphVars, loopVars, worker, retry, dbVars>>

Returned == pc \in {"returned", "dirty"}

Terminated == Returned /\ UNCHANGED vars

Scheduler ==
  \/ LoopDone \/ DispatchStopped \/ DispatchPop \/ SendStopped \/ DispatchDone
  \/ Drained \/ SelectStopped \/ RetriesStopped \/ WorkersStopped \/ Cleanup
  \/ \E w \in Workers : SendJob(w) \/ Drain(w) \/ ReceiveResult(w)
  \/ \E t \in Tx : ReceiveRetry(t)

Next ==
  \/ Scheduler
  \/ \E w \in Workers : FinishTx(w) \/ WorkerExit(w)
  \/ \E t \in Tx : RetryExit(t)
  \/ Stop
  \/ Terminated

Spec == Init /\ [][Next]_vars

\* Every goroutine keeps running; processTx returns, with or without an error.
Fairness ==
  /\ WF_vars(Scheduler)
  /\ \A w \in Workers : WF_vars(FinishTx(w)) /\ WF_vars(WorkerExit(w))
  /\ \A t \in Tx : WF_vars(RetryExit(t))

FairSpec == Spec /\ Fairness

-----------------------------------------------------------------------------
(* Properties.                                                             *)

WorkerStates == [at : {"idle", "busy", "result", "exited"},
                 tx : Tx \cup {NoTx}, err : Outcomes]

\* The variables keep their types and the counters their ranges: unresolved
\* never goes below zero, and active stays within the pool of workers.
TypeOK ==
  /\ edgeSet \in Graphs
  /\ unresolved \in [Tx -> Nat]
  /\ ready \in Seq(Tx)
  /\ attempts \in [Tx -> Nat]
  /\ completed \subseteq Tx
  /\ nCompleted \in 0..N
  /\ active \in 0..WorkerCount
  /\ pendingRetries \in 0..N
  /\ terminalErr \in {"none", "shutdown", "stalled", "invariant", "fatal",
                      "tooManyFailures"}
  /\ pc \in {"loop", "send", "select", "stopRetries", "stopWorkers", "cleanup",
             "returned", "dirty"}
  /\ popped \in Tx \cup {NoTx}
  /\ worker \in [Workers -> WorkerStates]
  /\ retry \in [Tx -> {"none", "live", "exited"}]
  /\ stopped \in BOOLEAN
  /\ applied \subseteq Tx
  /\ spends \subseteq Tx

WorkingOn(w) == worker[w].at \in {"busy", "result"}

\* A worker only ever processes a transaction whose same-block parents, by
\* spent output or by claim, have been applied completely before.
ParentsFirst ==
  \A w \in Workers : WorkingOn(w) =>
    \A e \in Into(worker[w].tx) : e.parent \in applied

\* No transaction is in the hands of two workers, or queued or waiting for a
\* retry while a worker has it, or handed out again after it was completed.
OneHandler ==
  \A w \in Workers : WorkingOn(w) =>
    LET t == worker[w].tx
    IN  /\ \A v \in Workers \ {w} : WorkingOn(v) => worker[v].tx # t
        /\ t \notin Elems(ready) \cup completed \cup {popped}
        /\ retry[t] = "none"

\* The two errors that report a defect of the scheduler itself never occur on
\* the graph of a valid block: ErrDependencyGraphStalled (work left, nothing to
\* wait for) and ErrSchedulerInvariant (a same-block source output is missing).
NoInternalError == terminalErr \notin {"stalled", "invariant"}

\* The scheduler returns without error only when every transaction has been
\* applied, and returns an error with no spent output left behind unless the
\* cleanup itself failed.
AllOrNothing ==
  pc = "returned" => IF terminalErr = "none" THEN applied = Tx ELSE spends = {}

\* No goroutine of the block survives the call: nothing is written to the
\* database once the cleanup started or the block was reported as processed.
NoLateWrite ==
  [][pc = "cleanup" \/ Returned => applied' = applied /\ spends' \subseteq spends]_vars

\* A transaction is tried at most once more than MaxFailures.
BoundedAttempts == \A t \in Tx : attempts[t] <= MaxFailures + 1

\* The scheduler returns, with or without a stop and whatever fails.
Termination == <>Returned

\* The result of the call as its caller sees it.
Outcome == CASE pc = "dirty"    -> "dirty"
             [] pc = "returned" -> IF terminalErr = "none" THEN "ok" ELSE "failed"
             [] OTHER           -> "running"

BA == INSTANCE BlockApply WITH outcome <- Outcome

\* The scheduler implements the promise of BlockApply: transactions are applied
\* in dependency order, and the call ends with all of them or with an error.
ImplementsBlockApply == BA!Spec

=============================================================================
