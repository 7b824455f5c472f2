----------------------------- MODULE MCPauseSync ------------------------------
(* A packaged install: the packaged CLI, and the staged copy without identity  *)
(* that the shell adapters run.                                                *)
EXTENDS PauseSync

CONSTANTS packagedCli, stagedCli

MCCli      == {packagedCli, stagedCli}
MCPackaged == {packagedCli, Broker}
===============================================================================
