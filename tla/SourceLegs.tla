------------------------------ MODULE SourceLegs ------------------------------
(* The legs of the server that share pendingTransactions and its monitor:     *)
(* a Solana transaction with several events (CpiEventParser, 1152-1185), the  *)
(* Substrate events with their queue (SubstrateMonitor), a Midnight request.  *)
(* Deciding a transaction on the destination chain is one step here; its      *)
(* reads, backoff and restarts are TxMonitor's.                               *)
EXTENDS SubstrateMonitor, OutputSerialization

CONSTANTS Solana, Substrate, Midnight, \* the requests of each source
          Plain,         \* those that want a signature only
          Instructions,  \* the inner instructions of the Solana transaction
          SchemasOf(_),  \* the schemas a request may come with
          ResultsOf(_,_), \* what may become of its transaction
          MaxRuns,       \* bound: how often the intake hands the transaction over
          MaxAbandoned,  \* bound: how many requests the server gives up on
          NoReq

Req    == Solana \cup Substrate \cup Midnight
Signs  == Req \ Plain
Source(r) == IF r \in Solana THEN "solana" ELSE IF r \in Substrate THEN "polkadot" ELSE "midnight"
ASSUME RequestsAssumption == NoReq \notin Req /\ Midnight \cap Plain = {}
ASSUME LegsAssumption == MaxRuns \in Nat /\ MaxAbandoned \in Nat
ASSUME InstructionsAssumption == Instructions \in Seq([kind : STRING, req : Req \cup {NoReq}])

VARIABLES schema,   \* respondSerializationSchema of each request
          result,   \* environment: what became of the signed transaction
          tx,       \* the handling of the Solana transaction
          handler,  \* the handler of each Substrate event, with the call it awaits
          pending,  \* the keys of pendingTransactions
          tick,     \* runTransactionMonitorTick: what it visited and waits for
          posted,   \* what is on Solana and Midnight: signatures and answers
          abandoned \* history: requests the server gave up on

legVars == <<schema, result, tx, handler, pending, tick, posted, abandoned>>
vars == <<queueVars, legVars>>

Undecided == [done |-> FALSE, failed |-> FALSE, out |-> <<>>]
Failed    == [done |-> TRUE, failed |-> TRUE, out |-> <<>>]
Yields(out) == [done |-> TRUE, failed |-> FALSE, out |-> out]
AtRest    == [visited |-> {}, req |-> NoReq, word |-> "answer", call |-> 0]
NoAnswer  == Threw

Post(r, kind, answer) == [req |-> r, kind |-> kind, answer |-> answer]
SignatureOf(r) == Post(r, "signature", NoAnswer)

Init ==
  /\ QueueInit
  /\ schema \in {f \in [Signs -> UNION {SchemasOf(r) : r \in Signs}] :
                   \A r \in Signs : f[r] \in SchemasOf(r)}
  /\ result = [r \in Signs |-> Undecided]
  /\ tx = [stage |-> "new", at |-> 0, runs |-> 0]
  /\ handler = [r \in Substrate |-> [stage |-> "none", call |-> 0]]
  /\ pending = Midnight
  /\ tick = AtRest
  /\ posted = {SignatureOf(r) : r \in Midnight}
  /\ abandoned = {}

SignatureOn(r) == SignatureOf(r) \in posted \/ Signed(r)
AnswersOf(r) ==
  {p.answer : p \in {q \in posted : q.req = r /\ q.kind = "response"}}
    \cup {calls[i].answer : i \in {j \in DOMAIN calls :
            calls[j].req = r /\ calls[j].kind = "response" /\ calls[j].landed > 0}}

\* A signed transaction is broadcast and decided.
Decide(r) ==
  /\ r \in Signs /\ ~result[r].done /\ SignatureOn(r)
  /\ \E res \in ResultsOf(r, schema[r]) : result' = [result EXCEPT ![r] = res]
  /\ UNCHANGED <<queueVars, schema, tx, handler, pending, tick, posted, abandoned>>

------------------------------------------------------------------------------
(* The Solana transaction.                                                    *)

\* parseInstruction: the program's own emit_cpi! instructions that decode.
IsEvent(ix) == ix.kind \notin {"foreign", "notEmitCpi", "unknownEvent", "undecodable"}
parseCpiEvents == {k \in DOMAIN Instructions : IsEvent(Instructions[k])}

HasHandler(event) == event.kind \in {"signBidirectionalEvent", "signatureRequestedEvent"}
\* By their place in the transaction.
Events == {k \in parseCpiEvents : HasHandler(Instructions[k])}

\* The loop goes on to the next event with a handler; behind the last one the
\* transaction is done.
GoesOnBehind(at) ==
  LET left == {k \in Events : at < k}
  IN  \/ \E k \in left : /\ \A j \in left : k <= j
                          /\ tx' = [tx EXCEPT !.stage = "handling", !.at = k]
      \/ left = {} /\ tx' = [tx EXCEPT !.stage = "done"]
NextEvent == GoesOnBehind(tx.at)
TxFails == tx' = [tx EXCEPT !.stage = "failed"]

\* The intake hands the transaction over, at first or again after a failure.
TxStart ==
  /\ tx.stage \in {"new", "failed"} /\ tx.runs < MaxRuns
  /\ tx' = [stage |-> "parsing", at |-> 0, runs |-> tx.runs + 1]
  /\ UNCHANGED <<queueVars, schema, result, handler, pending, tick, posted, abandoned>>

TxParsed ==
  /\ tx.stage = "parsing"
  /\ GoesOnBehind(0)
  /\ UNCHANGED <<queueVars, schema, result, handler, pending, tick, posted, abandoned>>
\* No metadata yet, or the call timed out.
TxParseFails ==
  /\ tx.stage = "parsing" /\ Fault /\ TxFails
  /\ UNCHANGED <<calls, txQueue, schema, result, handler, pending, tick, posted, abandoned>>

Handles(r) == tx.stage = "handling" /\ Instructions[tx.at].req = r

\* The handler: sign, post, and follow what was signed if it is a transaction.
EventHandled(r) ==
  /\ Handles(r)
  /\ NextEvent
  /\ posted' = posted \cup {SignatureOf(r)}
  /\ pending' = IF r \in Signs THEN pending \cup {r} ELSE pending
  /\ UNCHANGED <<queueVars, schema, result, handler, tick, abandoned>>

\* The namespace is not supported, or the post fails or times out, landed or
\* not; the events behind wait for the next run, which begins with the first.
EventFails_GoesOn(r) ==
  /\ Handles(r)
  /\ Fault /\ NextEvent
  /\ posted' \in {posted, posted \cup {SignatureOf(r)}}
  /\ UNCHANGED <<calls, txQueue, schema, result, handler, pending, tick, abandoned>>
EventFails(r) ==
  /\ Handles(r)
  /\ Fault /\ TxFails
  /\ posted' \in {posted, posted \cup {SignatureOf(r)}}
  /\ UNCHANGED <<calls, txQueue, schema, result, handler, pending, tick, abandoned>>

SolanaLeg == TxStart \/ TxParsed \/ TxParseFails
  \/ \E r \in Solana : EventHandled(r) \/ EventFails(r)

------------------------------------------------------------------------------
(* Substrate events, each handled as it arrives and only then.                *)

HandlerEnds(r, stage) == handler' = [handler EXCEPT ![r].stage = stage]

Deliver(r) ==
  /\ handler[r].stage = "none"
  /\ handler' = [handler EXCEPT ![r] = [stage |-> "waiting", call |-> Len(calls) + 1]]
  /\ Enqueue(r, "signature", NoAnswer)
  /\ UNCHANGED <<faults, schema, result, tx, pending, tick, posted, abandoned>>
\* The namespace is not supported, or the transaction cannot be signed.
DeliveryFails(r) ==
  /\ handler[r].stage = "none"
  /\ Fault /\ HandlerEnds(r, "failed")
  /\ UNCHANGED <<calls, txQueue, schema, result, tx, pending, tick, posted, abandoned>>

\* The call is settled: a rejection is logged and nobody asks again.
HandlerResumes(r) ==
  /\ handler[r].stage = "waiting"
  /\ \/ /\ calls[handler[r].call].stage = "resolved"
        /\ HandlerEnds(r, "done")
        /\ pending' = IF r \in Signs THEN pending \cup {r} ELSE pending
     \/ /\ calls[handler[r].call].stage = "rejected"
        /\ HandlerEnds(r, "failed")
        /\ UNCHANGED pending
  /\ UNCHANGED <<queueVars, schema, result, tx, tick, posted, abandoned>>

\* Only sendSignatures of the bidirectional context has a timeout, and the
\* time in the queue counts.  The call goes on.
HandlerTimesOut(r) ==
  /\ r \in Signs /\ handler[r].stage = "waiting"
  /\ calls[handler[r].call].stage \notin Settled
  /\ HandlerEnds(r, "failed")
  /\ UNCHANGED <<queueVars, schema, result, tx, pending, tick, posted, abandoned>>

SubstrateLeg == \E r \in Substrate :
  Deliver(r) \/ DeliveryFails(r) \/ HandlerResumes(r) \/ HandlerTimesOut(r)

------------------------------------------------------------------------------
(* The ticks of the monitor over the entries of all sources.                  *)

AnswerTo(r) == Answer(Source(r), schema[r], result[r].failed, result[r].out)
\* handleFailedTransaction as sendErrorResponse calls it, once.
Words == {"answer", "lastWord"}
Wording(r, word) == IF word = "lastWord" THEN ErrorAnswer ELSE AnswerTo(r)

\* A tick is under way while it has visited or posts something; it is over
\* when no entry is left that it has not visited, new ones included.
Due(r) == tick.req = NoReq /\ r \in pending \ tick.visited
NextEntry(r, left) ==
  tick' = IF left \subseteq tick.visited \cup {r} THEN AtRest
          ELSE [AtRest EXCEPT !.visited = (tick.visited \cup {r}) \cap left]

\* The tick calls the source chain, on Substrate through the queue, and waits.
Responds(r, word) ==
  IF r \in Substrate
  THEN /\ Enqueue(r, "response", Wording(r, word))
       /\ tick' = [tick EXCEPT !.req = r, !.word = word, !.call = Len(calls) + 1]
       /\ UNCHANGED faults
  ELSE tick' = [tick EXCEPT !.req = r, !.word = word] /\ UNCHANGED queueVars

\* Undecided, or an answer that cannot be serialised: it stays for a later tick.
VisitLeaves(r) ==
  /\ Due(r)
  /\ ~result[r].done \/ ~AnswerTo(r).ok
  /\ NextEntry(r, pending)
  /\ UNCHANGED <<queueVars, schema, result, tx, handler, pending, posted, abandoned>>
VisitResponds(r) ==
  /\ Due(r)
  /\ result[r].done /\ AnswerTo(r).ok
  /\ Responds(r, "answer")
  /\ UNCHANGED <<schema, result, tx, handler, pending, posted, abandoned>>
GivesUpOn(r) == /\ abandoned' = abandoned \cup {r}
                /\ Cardinality(abandoned') <= MaxAbandoned
\* fatal_error: no provider for the chain, which a Midnight request may name
\* freely, or an output that cannot be had of a transaction that succeeded.
VisitGivesUp(r) ==
  /\ Due(r)
  /\ ~result[r].failed /\ (result[r].done \/ r \in Midnight)
  /\ GivesUpOn(r)
  /\ Responds(r, "lastWord")
  /\ UNCHANGED <<schema, result, tx, handler, pending, posted>>

\* What the tick waits for: on Substrate that the queue settles the call; the
\* other calls return behind their response, or throw or time out at any time.
TheResponse == Post(tick.req, "response", Wording(tick.req, tick.word))
Settles(stages) == tick.req \in Substrate => calls[tick.call].stage \in stages
Appears == posted' = IF tick.req \in Substrate THEN posted ELSE posted \cup {TheResponse}

EntryStays == UNCHANGED pending /\ NextEntry(tick.req, pending)
EntryGoes ==
  LET left == pending \ {tick.req} IN pending' = left /\ NextEntry(tick.req, left)

Responded_Settled ==
  /\ tick.req \in Signs /\ Settles(Settled)
  /\ Appears /\ EntryGoes
  /\ UNCHANGED <<queueVars, schema, result, tx, handler, abandoned>>
Responded ==
  /\ tick.req \in Signs /\ Settles({"resolved"})
  /\ Appears /\ EntryGoes
  /\ UNCHANGED <<queueVars, schema, result, tx, handler, abandoned>>
\* A transient error, or a timeout of a call that may go through: a later tick
\* tries again.
ResponseFails ==
  /\ tick.req \in Signs /\ tick.word = "answer" /\ Settles({"rejected"})
  /\ IF tick.req \in Substrate THEN UNCHANGED faults ELSE Fault
  /\ UNCHANGED posted \/ Appears
  /\ EntryStays
  /\ UNCHANGED <<calls, txQueue, schema, result, tx, handler, abandoned>>
\* isUnrecoverableError: the error response takes the place of a success; the
\* entry of a failure goes without one.
ResponseImpossible ==
  /\ tick.req \in Signs /\ tick.word = "answer" /\ Settles({"rejected"})
  /\ GivesUpOn(tick.req)
  /\ IF result[tick.req].failed
     THEN EntryGoes /\ UNCHANGED queueVars
     ELSE Responds(tick.req, "lastWord") /\ UNCHANGED pending
  /\ UNCHANGED <<schema, result, tx, handler, posted>>
\* sendErrorResponse: its own failure is only logged.
LastWordFails ==
  /\ tick.req \in Signs /\ tick.word = "lastWord" /\ Settles({"rejected"})
  /\ UNCHANGED posted \/ Appears
  /\ EntryGoes
  /\ UNCHANGED <<queueVars, schema, result, tx, handler, abandoned>>

Tick == Responded \/ ResponseFails \/ ResponseImpossible \/ LastWordFails
          \/ \E r \in Signs : VisitLeaves(r) \/ VisitResponds(r) \/ VisitGivesUp(r)

------------------------------------------------------------------------------
Queue == QueueStep /\ UNCHANGED legVars
Next == Queue \/ SolanaLeg \/ SubstrateLeg \/ Tick
          \/ \E r \in Signs : Decide(r)

Spec == Init /\ [][Next]_vars

\* The node reports on what it was sent, handlers go on, ticks go on and are
\* taken up again; all posts but Substrate's are bounded by timeouts.
Fairness == /\ WF_vars((\E i \in DOMAIN calls : Reports(i)) /\ UNCHANGED legVars)
            /\ WF_vars(\E r \in Substrate : HandlerResumes(r))
            /\ WF_vars(Tick)
FairSpec == Spec /\ Fairness

------------------------------------------------------------------------------
LegsTypeOK ==
  /\ \A i \in DOMAIN calls : /\ calls[i].req \in Substrate
                             /\ calls[i].kind \in Kinds /\ calls[i].stage \in Stages
                             /\ calls[i].tries \in 0..MaxRetries
                             /\ calls[i].after < i
  /\ txQueue \in 0..Len(calls) /\ faults \in 0..MaxFaults
  /\ tx.stage \in {"new", "parsing", "handling", "failed", "done"}
  /\ tx.at \in Events \cup {0} /\ tx.runs \in 0..MaxRuns
  /\ tx.stage = "handling" => tx.at \in Events
  /\ \A r \in Substrate : /\ handler[r].stage \in {"none", "waiting", "done", "failed"}
                          /\ handler[r].call \in 0..Len(calls)
  /\ pending \subseteq Signs
  /\ tick.visited \subseteq Signs /\ tick.req \in Signs \cup {NoReq}
  /\ tick.word \in Words /\ tick.call \in 0..Len(calls)
  /\ abandoned \subseteq Signs

\* NoEventSkipped: whatever failed and was run again, the events before the one
\* at hand are signed, and a transaction that is done has them all signed: an
\* event is never passed over (processTransaction 1168-1184, CpiEventParser 69).
NoEventSkipped ==
  \A k \in Events :
    (tx.stage = "handling" /\ k < tx.at) \/ tx.stage = "done"
      => SignatureOf(Instructions[k].req) \in posted

\* What is known of the request's transaction, and nothing else.
IsScalarBool(r) == schema[r] = ScalarSchema("bool")
ReportsTrue(r, a) == IF result[r].failed THEN a.error ELSE Repeats(a, schema[r], result[r].out)
IsLastWord(r, a)  == a.error /\ r \in abandoned

\* AnswersFaithful: what is posted for a request is the error answer, for a
\* transaction that failed or a request that was given up on, or else the
\* returned values, or a transfer's defaults, field by field
\* (serializeBorshOutput 836-909, midnightDefaultOutput 769-804).  Two cases
\* are out: the schema "bool" (see ReturnedValueIsReported), and an output that
\* is told for a transfer's by its field, or a schema that names that field.
AnswersFaithful ==
  \A r \in Signs : \A a \in AnswersOf(r) :
    \/ ReportsTrue(r, a) \/ IsLastWord(r, a)
    \/ ~result[r].failed /\ (IsScalarBool(r) \/ NamedAsOwn(schema[r], result[r].out))

\* ReturnedValueIsReported: "Contract call: Return value serialized per
\* respond_serialization_schema" (lib.rs 699), for the schema "bool" too.
ReturnedValueIsReported ==
  \A r \in Signs : \A a \in AnswersOf(r) :
    \/ ReportsTrue(r, a) \/ IsLastWord(r, a)
    \/ result[r].failed \/ IsTransfer(result[r].out)

\* LeavesAnswered: an entry leaves pendingTransactions only when an answer to it
\* is on the source chain, whatever the queue reported, or when the server gives
\* up on the request (server 590, 603, 607-613, 1334-1352).
LeavesAnswered ==
  [][\A r \in pending : r \notin pending' => AnswersOf(r)' # {} \/ r \in abandoned']_vars

Unserialisable(r) == result[r].done /\ ~AnswerTo(r).ok

\* LegsComeToRest: again and again no Substrate handler waits for its call and
\* no followed transaction that is decided lacks its answer, whichever leg it
\* came from, unless the answer cannot be serialised or an extrinsic is never
\* reported on, which holds up the queue and with it the tick for all legs
\* (queueTransaction 46-76, server 688-701).
AtEase ==
  /\ \A r \in Substrate : handler[r].stage # "waiting"
  /\ \A r \in pending : result[r].done => Unserialisable(r) \/ AnswersOf(r) # {}
LegsComeToRest == []<>(AtEase \/ Silent)

\* The abstract specification: see ResponsePromise.  Each request has a
\* transaction of its own.
OutcomeOf(r) == CASE ~result[r].done -> "unsent"
                  [] result[r].done /\ result[r].failed -> "reverted"
                  [] OTHER -> "ok"
AnswerKind(a) == IF a.error THEN "error" ELSE "success"

Promise == INSTANCE ResponsePromise WITH
  Req <- Signs, Tx <- Signs, TxOf <- [r \in Signs |-> r],
  outcome <- [r \in Signs |-> OutcomeOf(r)],
  answers <- [r \in Signs |-> {AnswerKind(a) : a \in AnswersOf(r)}],
  excused <- abandoned

\* LegsKeepPromise: whatever leg a request came from, a success is reported of
\* a transaction that succeeded, an error of one that failed or of a request
\* that had been given up on, and no response is taken back
\* (handleCompletedTransaction, handleFailedTransaction, 954-1036, 1327-1353).
LegsKeepPromise == Promise!Spec
==============================================================================
