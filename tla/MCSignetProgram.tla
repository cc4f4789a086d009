-------------------------- MODULE MCSignetProgram --------------------------
(* A small instance of SignetProgram for TLC. *)
EXTENDS SignetProgram, TLC

CONSTANTS alice, bob

Balances == [w \in {alice, bob} |-> 3]
=============================================================================
