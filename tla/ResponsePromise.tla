--------------------------- MODULE ResponsePromise ---------------------------
(***************************************************************************)
(* What the signer promises the requester of a bidirectional request, seen  *)
(* from the two chains: transactions take one outcome on the destination    *)
(* chain and keep it; responses appear on the source chain one at a time,   *)
(* are never taken back, and tell the truth about the outcome, except that  *)
(* the signer may excuse itself from a request and then answer it with the  *)
(* error response.  The monitors of the destination chains implement it.    *)
(***************************************************************************)
CONSTANTS Req, Tx, TxOf

VARIABLES
    outcome,    \* what became of each transaction
    answers,    \* the kinds of response that have appeared, per request
    excused     \* requests the signer gave up on

vars == <<outcome, answers, excused>>

Successful == {"ok"}
Unsuccessful == {"reverted", "replaced"}
Undecided == {"unsent", "mempool"}

Init ==
    /\ outcome = [t \in Tx |-> "unsent"]
    /\ answers = [r \in Req |-> {}]
    /\ excused = {}

Execute(t) ==
    /\ outcome[t] \in Undecided
    /\ \E o \in Undecided \cup Successful \cup Unsuccessful :
          outcome' = [outcome EXCEPT ![t] = o]
    /\ UNCHANGED <<answers, excused>>

Excuse(r) ==
    /\ excused' = excused \cup {r}
    /\ UNCHANGED <<outcome, answers>>

AnswerSuccess(r) ==
    /\ outcome[TxOf[r]] \in Successful
    /\ answers' = [answers EXCEPT ![r] = @ \cup {"success"}]
    /\ UNCHANGED <<outcome, excused>>

AnswerError(r) ==
    /\ outcome[TxOf[r]] \in Unsuccessful \/ r \in excused
    /\ answers' = [answers EXCEPT ![r] = @ \cup {"error"}]
    /\ UNCHANGED <<outcome, excused>>

Next ==
    \/ \E t \in Tx : Execute(t)
    \/ \E r \in Req : Excuse(r) \/ AnswerSuccess(r) \/ AnswerError(r)

Spec == Init /\ [][Next]_vars
=============================================================================
