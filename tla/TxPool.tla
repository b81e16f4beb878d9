------------------------------- MODULE TxPool --------------------------------
(***************************************************************************)
(* The pools of goroutines of one call: fetchBlockRawTransactions, which   *)
(* asks the node for the transactions of a block (daemon/processing/       *)
(* block_scheduler.go), and saveUpdateInputs and saveUpdateOutputs, which  *)
(* store the parts of a transaction (transaction.go, outpoint.go).  A      *)
(* goroutine queues the items, workers take them over an unbuffered        *)
(* channel and pass their results over another one, and the caller counts  *)
(* the results.  "fetch" stops at the first error and when the daemon is   *)
(* stopped; "inputs" and "outputs" wait for every result, and keep the     *)
(* first error.                                                            *)
(***************************************************************************)
EXTENDS Integers, FiniteSets

CONSTANTS
  MaxItems,     \* bound: items of a call
  MaxParallel   \* MaxParallelTxProcessing, MaxParallelVin/VoutProcessing

\* Without a worker nobody takes the inputs or outputs, and the caller waits
\* forever.
ASSUME PoolAssumption == MaxItems \in Nat /\ MaxParallel \in Nat \ {0}

VARIABLES
  kind,         \* "fetch", "inputs" or "outputs"
  n,            \* number of items
  next,         \* the next item to be queued; 0 when the queueing goroutine ended
  worker,       \* what each worker does
  left,         \* leftToProcess, remaining
  results,      \* the items whose result the caller has seen
  caller,       \* where the caller is
  err,          \* what it returns: "none", "failed", "shutdown"
  stopped,      \* the pool's stopper was stopped
  shutdown,     \* the daemon's stopper was stopped
  good, bad     \* history: the items that were processed, and that failed

poolVars == <<kind, n, next, worker, left, results, caller, err, stopped, shutdown, good, bad>>

Least(a, b) == IF a < b THEN a ELSE b
WorkerIds   == 1..Least(MaxItems, MaxParallel)
Gone        == [at |-> "gone"]
Waiting     == [at |-> "wait"]

PoolInit ==
  /\ kind \in {"fetch", "inputs", "outputs"}
  /\ n \in 0..MaxItems
  /\ left = n /\ results = {} /\ err = "none"
  /\ worker = [w \in WorkerIds |-> IF w <= Least(n, MaxParallel) THEN Waiting ELSE Gone]
  \* A call without items has nothing to wait for but the queueing goroutine.
  /\ next = IF n = 0 /\ kind = "fetch" THEN 0 ELSE 1
  /\ caller = IF n > 0 THEN "loop" ELSE IF kind = "fetch" THEN "returned" ELSE "stop"
  /\ stopped = (n = 0) /\ shutdown = FALSE
  /\ good = {} /\ bad = {}

-----------------------------------------------------------------------------
(* The queueing goroutine and the workers.                                 *)

\* Mutated form: an item is handed out again.
HandAgain(w) ==
  /\ next \in 1..n
  /\ worker[w] = Waiting
  /\ \E i \in {next, next + 1} :
       worker' = [worker EXCEPT ![w] = [at |-> "work", item |-> next]] /\ next' = i
  /\ UNCHANGED <<kind, n, left, results, caller, err, stopped, shutdown, good, bad>>

Hand(w) ==
  /\ next \in 1..n
  /\ worker[w] = Waiting
  /\ worker' = [worker EXCEPT ![w] = [at |-> "work", item |-> next]]
  /\ next' = next + 1
  /\ UNCHANGED <<kind, n, left, results, caller, err, stopped, shutdown, good, bad>>

\* The channel is closed.
QueueEnds ==
  /\ next > n \/ (next > 0 /\ stopped)
  /\ next' = 0
  /\ UNCHANGED <<kind, n, worker, left, results, caller, err, stopped, shutdown, good, bad>>

\* processVin, ProcessVout or fetchRawTransaction.
Work(w, ok) ==
  /\ worker[w].at = "work"
  /\ worker' = [worker EXCEPT ![w] = [at |-> "send", item |-> worker[w].item, ok |-> ok]]
  /\ good' = IF ok THEN good \cup {worker[w].item} ELSE good
  /\ bad'  = IF ok THEN bad ELSE bad \cup {worker[w].item}
  /\ UNCHANGED <<kind, n, next, left, results, caller, err, stopped, shutdown>>

\* Mutated form: a worker waits for the caller to take its result.
WorkerEndsIdle(w) ==
  /\ worker[w].at = "wait" /\ (stopped \/ next = 0)
  /\ worker' = [worker EXCEPT ![w] = Gone]
  /\ UNCHANGED <<kind, n, next, left, results, caller, err, stopped, shutdown, good, bad>>

WorkerEnds(w) ==
  /\ \/ worker[w].at = "wait" /\ (stopped \/ next = 0)
     \/ worker[w].at = "send" /\ stopped
  /\ worker' = [worker EXCEPT ![w] = Gone]
  /\ UNCHANGED <<kind, n, next, left, results, caller, err, stopped, shutdown, good, bad>>

-----------------------------------------------------------------------------
(* The caller.                                                             *)

\* Mutated form: the caller returns at the first error of a part.
ResultEarly(w) ==
  /\ caller = "loop" /\ worker[w].at = "send"
  /\ worker' = [worker EXCEPT ![w] = Waiting]
  /\ results' = results \cup {worker[w].item}
  /\ left' = left - 1
  /\ LET failed == ~worker[w].ok
         ends   == left' = 0 \/ failed
     IN  /\ err' = IF failed THEN "failed" ELSE err
         /\ stopped' = (stopped \/ ends)
         /\ caller' = IF ends THEN "stop" ELSE caller
  /\ UNCHANGED <<kind, n, next, shutdown, good, bad>>

Result(w) ==
  /\ caller = "loop" /\ worker[w].at = "send"
  /\ worker' = [worker EXCEPT ![w] = Waiting]
  /\ results' = results \cup {worker[w].item}
  /\ left' = left - 1
  /\ LET failed == ~worker[w].ok
         ends   == left' = 0 \/ (failed /\ kind = "fetch")
     IN  /\ err' = IF failed THEN "failed" ELSE err
         /\ stopped' = (stopped \/ ends)
         /\ caller' = IF ends THEN "stop" ELSE caller
  /\ UNCHANGED <<kind, n, next, shutdown, good, bad>>

\* The daemon is stopped, and with it the stopper of "fetch", its child.
Shutdown ==
  /\ kind = "fetch" /\ ~shutdown
  /\ shutdown' = TRUE /\ stopped' = TRUE
  /\ UNCHANGED <<kind, n, next, worker, left, results, caller, err, good, bad>>

CallerStopped ==
  /\ caller = "loop" /\ shutdown
  /\ caller' = "stop" /\ err' = "shutdown"
  /\ UNCHANGED <<kind, n, next, worker, left, results, stopped, shutdown, good, bad>>

\* Mutated form: the goroutines are not waited for.
ReturnsAtOnce ==
  /\ caller = "stop"
  /\ caller' = "returned"
  /\ UNCHANGED <<kind, n, next, worker, left, results, err, stopped, shutdown, good, bad>>

\* StopAndWait returns.
Returns ==
  /\ caller = "stop"
  /\ next = 0 /\ \A w \in WorkerIds : worker[w] = Gone
  /\ caller' = "returned"
  /\ UNCHANGED <<kind, n, next, worker, left, results, err, stopped, shutdown, good, bad>>

\* The steps that do not process an item.
PoolSteps ==
  \/ QueueEnds \/ CallerStopped \/ Returns
  \/ \E w \in WorkerIds : Hand(w) \/ WorkerEnds(w) \/ Result(w)

-----------------------------------------------------------------------------
(* Properties.                                                             *)

\* The variables keep their types; no two workers have the same item, and what is
\* left is what the caller has not seen.
PoolTypeOK ==
  /\ next \in 0..(n + 1) /\ left \in 0..n
  /\ results \subseteq good \cup bad /\ good \cap bad = {}
  /\ left = n - Cardinality(results)
  /\ \A v, w \in WorkerIds : v # w /\ "item" \in DOMAIN worker[v] \cap DOMAIN worker[w]
                               => worker[v].item # worker[w].item

\* The call succeeds only if every item was processed, and reports an error only
\* if one failed.  That of a part is reported after every part was processed.
Verdict ==
  caller = "returned" =>
    /\ err = "none" => good = 1..n
    /\ err = "failed" => bad # {}
    /\ err = "shutdown" => shutdown
    /\ kind # "fetch" => good \cup bad = 1..n

\* No item is processed after the call returned: a retry of the transaction and
\* the clean-up of the block do not meet goroutines of the failed attempt.
NoLateWork == [][caller = "returned" => UNCHANGED <<good, bad>>]_poolVars

=============================================================================
