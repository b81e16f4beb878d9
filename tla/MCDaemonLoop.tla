---------------------------- MODULE MCDaemonLoop -----------------------------
(* An instance of DaemonLoop for TLC.                                      *)
EXTENDS DaemonLoop

TwoWorkers    == {"w1", "w2"}
TwoIterations == {"i1", "i2"}
OneTicker     == {"mempool ticker"}
OneRun        == {"mempool run"}

=============================================================================
