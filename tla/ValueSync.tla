------------------------------ MODULE ValueSync ------------------------------
(***************************************************************************)
(* The jobs that recompute columns in batches of heights (daemon/jobs/     *)
(* valuesync.go): the values of the transactions, and the number of claims *)
(* of each channel.  A batch is one statement; what matters is which       *)
(* heights the batches of a run reach, if the latest stored block is at    *)
(* the given height.                                                       *)
(***************************************************************************)
EXTENDS Integers

CONSTANT Increment    \* updateIncrement

ASSUME IncrementAssumption == Increment \in Nat \ {0}

Least(a, b) == IF a < b THEN a ELSE b

\* SyncTransactionValue
TransactionIncrement(latest) == Least(Increment, latest)
TransactionBatches(latest) ==
  LET inc == TransactionIncrement(latest)
  IN  {[from |-> i * inc, to |-> Least((i + 1) * inc, latest)] : i \in 0..(latest \div inc - 1)}

\* SyncClaimCntInChannel
ChannelBatches(latest) ==
  {[from |-> i, to |-> Least(i + Increment, latest)] :
     i \in {n \in 0..(latest - 1) : n % Increment = 0}}

Reached(batches) == UNION {b.from..b.to : b \in batches}

=============================================================================
