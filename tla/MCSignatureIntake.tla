------------------------- MODULE MCSignatureIntake -------------------------
(* Small instances of SignatureIntake for TLC. *)
EXTENDS SignatureIntake

CONSTANTS c1, c2

OneCycle == {c1}
TwoCycles == {c1, c2}
=============================================================================
