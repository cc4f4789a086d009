---------------------------- MODULE MCTxMonitor ----------------------------
(* Small instances of TxMonitor for TLC. *)
EXTENDS TxMonitor, TLC

CONSTANTS r1, r2, t1

\* Requests for one transaction; two that share it differ in what is not signed.
OneTx == (r1 :> t1)
SharedTx == [r \in {r1, r2} |-> t1]

\* The first levels of the code's table, a level reached by five checks.
SmallBackoff == [n \in 0..2 |-> EvmBackoff[5 * n]]
=============================================================================
