----------------------------- MODULE MCBlockSync -----------------------------
(* Instances of BlockSync for TLC.                                         *)
EXTENDS BlockSync

JustDaemon == {"daemon"}
WithJob    == {"daemon", "chainsync"}
WithApi    == {"daemon", "api"}

=============================================================================
