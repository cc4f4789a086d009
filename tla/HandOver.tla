------------------------------- MODULE HandOver -------------------------------
(***************************************************************************)
(* What the intake promises the event handlers it hands transactions to,    *)
(* seen from one boot of the server: a transaction is in one pair of hands  *)
(* at a time, its handling ends with the transaction handled, given up, or  *)
(* open to be handed over again, and one that is handled or given up is     *)
(* never handed over again.  The intake may forget a transaction it has     *)
(* handed over, and then promises nothing of it until the next boot, which  *)
(* opens all of them.  Any number of transactions move in one step.         *)
(***************************************************************************)
EXTENDS Naturals

CONSTANT Txs

VARIABLES
    stage,      \* where each transaction stands
    boots       \* how often the server was started again

vars == <<stage, boots>>

Over == {"handled", "gaveUp"}

Init == stage = [t \in Txs |-> "open"] /\ boots = 0

\* Where a transaction may stand next.
After(now) ==
    CASE now = "open"      -> {"open", "inHand"}
      [] now = "inHand"    -> {"inHand", "open", "forgotten"} \cup Over
      [] now \in Over      -> {now, "forgotten"}
      [] now = "forgotten" -> {"forgotten"}

Move ==
    /\ \A t \in Txs : stage'[t] \in After(stage[t])
    /\ DOMAIN stage' = Txs
    /\ UNCHANGED boots

Boot ==
    /\ stage' = [t \in Txs |-> "open"]
    /\ boots' = boots + 1

Next == Move \/ Boot

Spec == Init /\ [][Next]_vars
=============================================================================
