----------------------------- MODULE HeightJobs ------------------------------
(***************************************************************************)
(* The background jobs that walk over the stored heights: chain sync, and  *)
(* the value jobs, which may start in any of its states.                   *)
(***************************************************************************)
EXTENDS ChainSync, ValueSync

\* The batches of SyncClaimCntInChannel (valuesync.go), whose last one is cut at the
\* highest stored block, leave no height out, whatever is stored when the job starts.
ChannelsReached == Top > 0 => Reached(ChannelBatches(Top)) = 0..Top

=============================================================================
