----------------------------- MODULE MCCmdAdapter -----------------------------
(* Instances of CmdAdapter for TLC.                                          *)
EXTENDS CmdAdapter, TLC

CONSTANTS u1, t1, t2, t3

MCUsers == {u1}
MCTx == {t1, t2, t3}
TxSymmetry == Permutations(MCTx)
===============================================================================
