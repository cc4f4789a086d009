--------------------------- MODULE SubstrateMonitor ---------------------------
(* The queue of extrinsics of modules/SubstrateMonitor.ts and the node that   *)
(* takes them.  A call of sendSignatureResponse or sendRespondBidirectional   *)
(* waits for the call before it, sends its extrinsic, and settles with the    *)
(* extrinsic's status; only the second one tries again, on a stale nonce.     *)
EXTENDS Naturals, Sequences, FiniteSets

CONSTANTS MaxRetries,   \* maxRetries of sendRespondBidirectional, 3 in the code
          MaxFaults     \* bound: failures of the node and of its connection

ASSUME QueueAssumption == MaxRetries \in Nat /\ MaxFaults \in Nat

VARIABLES calls,    \* the calls so far, in the order they were made
          txQueue,  \* the call whose result the next one awaits, 0 for none
          faults    \* history: how many of MaxFaults happened

queueVars == <<calls, txQueue, faults>>

Kinds    == {"signature", "response"}
Settled  == {"resolved", "rejected"}
\* The call has its turn: waiting for a status, between two attempts, or
\* waiting for a status that never comes.
Running  == {"watched", "pausing", "silent"}
Stages   == {"queued"} \cup Running \cup Settled

\* pooled and landed count the call's extrinsics in the node's pool and in blocks.
NewCall_AfterItself(req, kind, answer) ==
  [req |-> req, kind |-> kind, answer |-> answer, after |-> Len(calls) + 1,
   stage |-> "queued", tries |-> 0, pooled |-> 0, landed |-> 0]
NewCall(req, kind, answer) ==
  [req |-> req, kind |-> kind, answer |-> answer, after |-> txQueue,
   stage |-> "queued", tries |-> 0, pooled |-> 0, landed |-> 0]

QueueInit == calls = <<>> /\ txQueue = 0 /\ faults = 0

Fault == faults < MaxFaults /\ faults' = faults + 1

\* queueTransaction up to its await: the new call takes the old end of the
\* queue and becomes the end itself.
Enqueue_KeepsEnd(req, kind, answer) ==
  /\ calls' = Append(calls, NewCall(req, kind, answer))
  /\ UNCHANGED txQueue
Enqueue(req, kind, answer) ==
  /\ calls' = Append(calls, NewCall(req, kind, answer))
  /\ txQueue' = Len(calls) + 1

------------------------------------------------------------------------------
\* Promise.resolve(), or the result of the call before: failed or not.
HasTurn_Resolved(i) == calls[i].after # 0 => calls[calls[i].after].stage = "resolved"
HasTurn(i) == calls[i].after # 0 => calls[calls[i].after].stage \in Settled

Sends(i) == \/ calls[i].stage = "queued" /\ HasTurn(i)
            \/ calls[i].stage = "pausing"

\* What an error makes of the call.
Retries_Always(i, stale) == calls[i].tries < MaxRetries
Retries(i, stale) == /\ calls[i].kind = "response"
                     /\ stale /\ calls[i].tries < MaxRetries
AfterError(i, stale, pooled) ==
  [calls EXCEPT ![i] =
     [calls[i] EXCEPT !.stage = IF Retries(i, stale) THEN "pausing" ELSE "rejected",
                      !.tries = IF Retries(i, stale) THEN @ + 1 ELSE @,
                      !.pooled = pooled]]

\* signAndSend: the node takes the extrinsic and will report on it.
Accepted(i) ==
  /\ Sends(i)
  /\ calls' = [calls EXCEPT ![i] = [calls[i] EXCEPT !.stage = "watched", !.pooled = @ + 1]]
  /\ UNCHANGED <<txQueue, faults>>

\* The nonce was used up while the extrinsic was made.
Stale(i) ==
  /\ Sends(i) /\ Fault
  /\ calls' = AfterError(i, TRUE, calls[i].pooled)
  /\ UNCHANGED txQueue

\* Any other error of signAndSend: when the connection broke, the node may have
\* taken the extrinsic.
SendFails(i) ==
  /\ Sends(i) /\ Fault
  /\ \E taken \in {0, 1} : calls' = AfterError(i, FALSE, calls[i].pooled + taken)
  /\ UNCHANGED txQueue

\* status.isInBlock, without and with a dispatchError.
InBlock(i) ==
  /\ calls[i].stage = "watched"
  /\ calls' = [calls EXCEPT ![i] = [calls[i] EXCEPT !.stage = "resolved",
                                                   !.pooled = @ - 1, !.landed = @ + 1]]
  /\ UNCHANGED <<txQueue, faults>>
\* A dispatch error, or dropped, invalid, usurped: the extrinsic has no effect.
Discarded(i) ==
  /\ calls[i].stage = "watched" /\ Fault
  /\ calls' = AfterError(i, FALSE, calls[i].pooled - 1)
  /\ UNCHANGED txQueue

\* The connection is lost while the extrinsic is watched.  The provider connects
\* again by itself but does not renew this subscription: no status, no error.
GoesSilent(i) ==
  /\ calls[i].stage = "watched" /\ Fault
  /\ calls' = [calls EXCEPT ![i].stage = "silent"]
  /\ UNCHANGED txQueue

\* An extrinsic nobody watches any more is included all the same.
LandsUnseen(i) ==
  /\ calls[i].stage # "watched" /\ calls[i].pooled > 0
  /\ calls' = [calls EXCEPT ![i] = [calls[i] EXCEPT !.pooled = @ - 1, !.landed = @ + 1]]
  /\ UNCHANGED <<txQueue, faults>>

\* What the node is relied on for: an extrinsic sent is accepted or refused, one
\* watched is reported on.
Reports(i) == Accepted(i) \/ InBlock(i)
Spoils(i)  == Stale(i) \/ SendFails(i) \/ Discarded(i) \/ GoesSilent(i) \/ LandsUnseen(i)
QueueStep  == \E i \in DOMAIN calls : Reports(i) \/ Spoils(i)

------------------------------------------------------------------------------
Silent == \E i \in DOMAIN calls : calls[i].stage = "silent"
Signed(r) == \E i \in DOMAIN calls :
               calls[i].req = r /\ calls[i].kind = "signature" /\ calls[i].landed > 0

\* SentInOrder: the extrinsics leave one by one in the order of the calls, each
\* only when the one before it is settled: none is sent while the nonce of
\* another is undecided (queueTransaction, 46-76).
SentInOrder ==
  \A i, j \in DOMAIN calls :
    i < j /\ calls[j].stage # "queued" => calls[i].stage \in Settled

\* ReportedOnce: a call that is over put its extrinsic on the chain exactly once
\* if it reports success, and no call puts it there twice, however often it
\* tried (201-294).
ReportedOnce ==
  \A i \in DOMAIN calls : /\ calls[i].pooled + calls[i].landed <= 1
                          /\ calls[i].stage = "resolved" => calls[i].landed = 1
==============================================================================
