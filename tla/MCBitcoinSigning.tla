------------------------- MODULE MCBitcoinSigning -------------------------
(* Small instances of BitcoinSigning for TLC. *)
EXTENDS BitcoinSigning, TLC

CONSTANTS r1, r2, t1, i1, i2

\* Both requests ask for the same transaction.
OneTx == (r1 :> t1) @@ (r2 :> t1)
=============================================================================
