------------------------------ MODULE TxMonitor ------------------------------
(***************************************************************************)
(* The life of a bidirectional EVM request inside the fakenet signer: the   *)
(* handler that signs it and registers the transaction, the transaction     *)
(* monitor of ChainSignatureServer that polls the pending map with backoff, *)
(* the receipt / nonce / receipt reads of EthereumMonitor racing with the   *)
(* chain, and the response posted back, with its cache entry, its timeouts  *)
(* and its error handling.                                                  *)
(*                                                                         *)
(* pendingTransactions is keyed by the signed transaction's hash; TxOf maps *)
(* each request to it, and two requests may share one (requests that differ *)
(* only in algo, dest or params sign the same transaction).                 *)
(***************************************************************************)
EXTENDS Integers, FiniteSets

CONSTANTS
    Req,             \* requests
    Tx,              \* signed transactions
    TxOf,            \* [Req -> Tx]
    NoReq, NoTx,     \* sentinels
    NoProvider,      \* requests whose CAIP-2 chain has no provider (a Midnight request
                     \* may name any chain)
    Backoff,         \* skip factor of a check count, up to MaxChecks
    MaxChecks,       \* bound: checkCount saturates here (Backoff is flat above)
    Period,          \* pollCounter is kept modulo Period, a common multiple of
                     \* the skip factors
    MaxExtractionFailures,  \* MAX_EXTRACTION_FAILURES (5)
    MaxHandlers,     \* bound: times a request's event is handled
    MaxFaults,       \* bound: failed calls
    MaxRestarts      \* bound: restarts of the server process

ASSUME MonitorAssumption ==
    /\ NoReq \notin Req /\ NoTx \notin Tx
    /\ TxOf \in [Req -> Tx]
    /\ NoProvider \subseteq Req
    /\ MaxChecks \in Nat /\ Period \in Nat \ {0}
    /\ Backoff \in [0..MaxChecks -> Nat \ {0}]
    /\ \A n \in 0..MaxChecks : Period % Backoff[n] = 0
    /\ MaxExtractionFailures \in Nat \ {0}
    /\ MaxHandlers \in Nat /\ MaxFaults \in Nat /\ MaxRestarts \in Nat

\* The backoff table of runTransactionMonitorTick for an EVM transaction.
EvmBackoff == [n \in 0..21 |-> CASE n > 20 -> 12
                                 [] n \in 11..20 -> 6
                                 [] n \in 6..10 -> 2
                                 [] OTHER -> 1]

VARIABLES
    outcome,    \* EVM chain, per transaction
    signed,     \* source chain: requests whose signature landed
    answers,    \* source chain: kinds of response that landed, per request
    afloat,     \* posts that timed out here, or that a dead process was awaiting,
                \* and that may still land
    faults, restarts,   \* environment counters
    starts, handlers,   \* event handlers started / awaiting sendSignatures
    pending,    \* pendingTransactions: the request of the entry, or NoReq
    checks,     \* checkCount of the entry
    poll,       \* pollCounter % Period
    visited,    \* entries this tick's iteration has passed
    pc,         \* what the tick is awaiting
    tx, req,    \* the entry it works on: its key and its txInfo object
    info,       \* whether the map still holds that object: "current" or "stale"
    extractFails,   \* EthereumMonitor.extractionFailureCounts
    cache,      \* responseCache
    abandoned,  \* history: requests the server gave up on
    clobbered   \* history: requests whose entry another request's displaced

chain == <<outcome, signed, answers, afloat>>
intake == <<starts, handlers>>
map == <<pending, checks>>
tick == <<poll, visited>>
work == <<pc, tx, req, info>>
vars == <<chain, faults, restarts, intake, map, tick, work, extractFails,
          cache, abandoned, clobbered>>

Final == {"ok", "reverted", "replaced"}
Mined(t) == outcome[t] \in {"ok", "reverted"}
Posts == Req \X {"signature", "success", "error"}

Reading == {"receipt", "nonce", "recheck", "extract"}
Posting == {"postSuccess", "report", "lastWord"}
Working == Reading \cup Posting

Fault == faults < MaxFaults /\ faults' = faults + 1
-----------------------------------------------------------------------------
Init ==
    /\ outcome = [t \in Tx |-> "unsent"]
    /\ signed = {} /\ afloat = {}
    /\ answers = [r \in Req |-> {}]
    /\ faults = 0 /\ restarts = 0
    /\ starts = [r \in Req |-> 0] /\ handlers = [r \in Req |-> 0]
    /\ pending = [t \in Tx |-> NoReq] /\ checks = [t \in Tx |-> 0]
    /\ poll = 0 /\ visited = {}
    /\ pc = "idle" /\ tx = NoTx /\ req = NoReq /\ info = "current"
    /\ extractFails = [t \in Tx |-> 0]
    /\ cache = [r \in Req |-> "none"]
    /\ abandoned = {} /\ clobbered = {}
-----------------------------------------------------------------------------
(* The EVM chain and its users. *)

\* The user combines a delivered signature with the transaction and sends it.
Broadcast(t) ==
    /\ outcome[t] = "unsent"
    /\ \E r \in signed : TxOf[r] = t
    /\ outcome' = [outcome EXCEPT ![t] = "mempool"]
    /\ UNCHANGED <<signed, answers, afloat, faults, restarts, intake, map, tick,
                   work, extractFails, cache, abandoned, clobbered>>

\* It is mined, or another transaction of the sender takes its nonce.
Resolve(t) ==
    /\ \/ outcome[t] = "mempool" /\ \E o \in Final : outcome' = [outcome EXCEPT ![t] = o]
       \/ outcome[t] = "unsent" /\ outcome' = [outcome EXCEPT ![t] = "replaced"]
    /\ UNCHANGED <<signed, answers, afloat, faults, restarts, intake, map, tick,
                   work, extractFails, cache, abandoned, clobbered>>

\* A post that withTimeout had given up on lands after all.
LateLanding(r, kind) ==
    /\ <<r, kind>> \in afloat
    /\ afloat' = afloat \ {<<r, kind>>}
    /\ IF kind = "signature"
       THEN signed' = signed \cup {r} /\ UNCHANGED answers
       ELSE answers' = [answers EXCEPT ![r] = @ \cup {kind}] /\ UNCHANGED signed
    /\ UNCHANGED <<outcome, faults, restarts, intake, map, tick, work,
                   extractFails, cache, abandoned, clobbered>>
-----------------------------------------------------------------------------
(* handleEthereumBidirectional, started for an event or for its retry. *)

\* sendSignatures returned: the entry is set, over any entry of the same hash.
\* Replacing a value keeps its place in the iteration; a new key goes to the end.
Register(r) ==
    LET t == TxOf[r] IN
    /\ pending' = [pending EXCEPT ![t] = r]
    /\ checks' = [checks EXCEPT ![t] = 0]
    /\ visited' = IF pending[t] = NoReq THEN visited \ {t} ELSE visited
    /\ info' = IF pc \in Working /\ tx = t THEN "stale" ELSE info
    /\ clobbered' = clobbered
          \cup ({pending[t]} \ {r, NoReq})
          \cup (IF pc \in Working /\ tx = t /\ req # r THEN {r} ELSE {})

StartHandler(r) ==
    /\ starts[r] < MaxHandlers
    /\ starts' = [starts EXCEPT ![r] = @ + 1]
    /\ handlers' = [handlers EXCEPT ![r] = @ + 1]
    /\ UNCHANGED <<chain, faults, restarts, map, tick, work, extractFails, cache,
                   abandoned, clobbered>>

SignatureSent(r) ==
    /\ handlers[r] > 0
    /\ handlers' = [handlers EXCEPT ![r] = @ - 1]
    /\ signed' = signed \cup {r}
    /\ Register(r)
    /\ UNCHANGED <<outcome, answers, afloat, faults, restarts, starts, poll, pc,
                   tx, req, extractFails, cache, abandoned>>

\* sendSignatures throws: nothing landed, or it timed out and may land later.
SignatureFails(r) ==
    /\ handlers[r] > 0
    /\ Fault
    /\ handlers' = [handlers EXCEPT ![r] = @ - 1]
    /\ afloat' \in {afloat, afloat \cup {<<r, "signature">>}}
    /\ UNCHANGED <<outcome, signed, answers, restarts, starts, map, tick, work,
                   extractFails, cache, abandoned, clobbered>>
-----------------------------------------------------------------------------
(* runTransactionMonitorTick.  The `monitoring` flag keeps ticks apart. *)

TickStart ==
    /\ pc = "idle"
    /\ poll' = (poll + 1) % Period
    /\ visited' = {}
    /\ pc' = IF \A t \in Tx : pending[t] = NoReq THEN "idle" ELSE "next"
    /\ UNCHANGED <<chain, faults, restarts, intake, map, tx, req, info,
                   extractFails, cache, abandoned, clobbered>>

Due_OnlyFirst(t) == checks[t] = 0
Due(t) == checks[t] = 0 \/ poll % Backoff[checks[t]] = 0

\* txInfo.checkCount++, on the object the tick holds.
Counted(t) ==
    checks' = IF info = "stale" THEN checks
              ELSE [checks EXCEPT ![t] = IF @ < MaxChecks THEN @ + 1 ELSE @]

Release == pc' = "next" /\ tx' = NoTx /\ req' = NoReq /\ info' = "current"

\* The error answer is recorded in the cache before it is posted.
TellFailure_NoCache(r, mode) == pc' = mode /\ UNCHANGED cache
TellFailure(r, mode) ==
    /\ cache' = [cache EXCEPT ![r] = "failure"]
    /\ pc' = mode

\* The iteration passes entry t: skipped by the backoff, or checked.
Visit(t) ==
    /\ pc = "next"
    /\ pending[t] # NoReq /\ t \notin visited
    /\ visited' = visited \cup {t}
    /\ IF Due(t)
       THEN tx' = t /\ req' = pending[t] /\ pc' = "receipt"
       ELSE UNCHANGED <<tx, req, pc>>
    /\ UNCHANGED <<chain, faults, restarts, intake, map, poll, info,
                   extractFails, cache, abandoned, clobbered>>

TickEnd ==
    /\ pc = "next"
    /\ \A t \in Tx : pending[t] # NoReq => t \in visited
    /\ pc' = "idle"
    /\ UNCHANGED <<chain, faults, restarts, intake, map, tick, tx, req, info,
                   extractFails, cache, abandoned, clobbered>>
-----------------------------------------------------------------------------
(* EthereumMonitor.waitForTransactionAndGetOutput, one RPC read per action. *)

StillPending == Counted(tx) /\ Release /\ UNCHANGED cache

ReadReceipt ==
    /\ pc = "receipt"
    /\ \/ /\ req \in NoProvider
          /\ TellFailure(req, "lastWord") /\ Counted(tx)
          /\ abandoned' = abandoned \cup {req}
          /\ UNCHANGED <<tx, req, info>>
       \/ /\ req \notin NoProvider
          /\ UNCHANGED abandoned
          /\ \/ /\ outcome[tx] = "reverted"
                /\ TellFailure(req, "report") /\ Counted(tx)
                /\ UNCHANGED <<tx, req, info>>
             \/ /\ outcome[tx] # "reverted"
                /\ pc' = IF outcome[tx] = "ok" THEN "extract" ELSE "nonce"
                /\ UNCHANGED <<tx, req, info, checks, cache>>
    /\ UNCHANGED <<chain, faults, restarts, intake, pending, tick, extractFails,
                   clobbered>>

\* No receipt: has the sender's nonce been used meanwhile?
ReadNonce ==
    /\ pc = "nonce"
    /\ IF outcome[tx] \in Final
       THEN pc' = "recheck" /\ UNCHANGED <<tx, req, info, checks, cache>>
       ELSE StillPending
    /\ UNCHANGED <<chain, faults, restarts, intake, pending, tick, extractFails,
                   abandoned, clobbered>>

\* It has: by this transaction, mined since the first read, or by another one?
Replaced_NoRecheck == outcome[tx] \in Final
Replaced == ~Mined(tx)

RecheckReceipt ==
    /\ pc = "recheck"
    /\ IF Replaced
       THEN /\ TellFailure(req, "report") /\ Counted(tx)
            /\ UNCHANGED <<tx, req, info>>
       ELSE StillPending
    /\ UNCHANGED <<chain, faults, restarts, intake, pending, tick, extractFails,
                   abandoned, clobbered>>

\* A read throws: the check reports "pending".
ReadFails ==
    /\ pc \in Reading
    /\ req \notin NoProvider
    /\ Fault
    /\ StillPending
    /\ UNCHANGED <<chain, restarts, intake, pending, tick, extractFails,
                   abandoned, clobbered>>

\* The output of a mined call is traced; the raw output is cached before the
\* response is posted.
Extracted ==
    /\ pc = "extract"
    /\ extractFails' = [extractFails EXCEPT ![tx] = 0]
    /\ cache' = [cache EXCEPT ![req] = "success"]
    /\ Counted(tx)
    /\ pc' = "postSuccess"
    /\ UNCHANGED <<chain, faults, restarts, intake, pending, tick, tx, req,
                   info, abandoned, clobbered>>

\* The trace fails and is retried at the next check...
GivesUp_OffByOne(failures) == failures > MaxExtractionFailures
GivesUp(failures) == failures >= MaxExtractionFailures

ExtractFails ==
    /\ pc = "extract"
    /\ Fault
    /\ ~GivesUp(extractFails[tx] + 1)
    /\ extractFails' = [extractFails EXCEPT ![tx] = @ + 1]
    /\ StillPending
    /\ UNCHANGED <<chain, restarts, intake, pending, tick, abandoned, clobbered>>

\* ...up to the cap, or until the node says the method does not exist.
ExtractImpossible(unsupported) ==
    /\ pc = "extract"
    /\ Fault
    /\ unsupported \/ GivesUp(extractFails[tx] + 1)
    /\ extractFails' = [extractFails EXCEPT ![tx] = 0]
    /\ TellFailure(req, "lastWord") /\ Counted(tx)
    /\ abandoned' = abandoned \cup {req}
    /\ UNCHANGED <<chain, restarts, intake, pending, tick, tx, req, info,
                   clobbered>>
-----------------------------------------------------------------------------
(* handleCompletedTransaction, handleFailedTransaction, sendErrorResponse and *)
(* executeWithRecovery.                                                      *)

\* pendingTransactions.delete(txHash), whichever object it holds by now.
Delete(t) ==
    /\ pending' = [pending EXCEPT ![t] = NoReq]
    /\ checks' = [checks EXCEPT ![t] = 0]

Kind_LastWordSucceeds == IF pc = "report" THEN "error" ELSE "success"
Kind == IF pc = "postSuccess" THEN "success" ELSE "error"

\* The response lands and the call returns: the entry is removed.
Posted ==
    /\ pc \in Posting
    /\ answers' = [answers EXCEPT ![req] = @ \cup {Kind}]
    /\ Delete(tx)
    /\ Release
    /\ UNCHANGED <<outcome, signed, afloat, faults, restarts, intake, tick,
                   extractFails, cache, abandoned, clobbered>>

\* A transient error, or a timeout whose call may still land: the entry stays
\* for the next check.
KeepsEntry_Never == FALSE
KeepsEntry == pc # "lastWord"

PostFails ==
    /\ pc \in Posting
    /\ Fault
    /\ afloat' \in {afloat, afloat \cup {<<req, Kind>>}}
    /\ IF KeepsEntry THEN UNCHANGED map ELSE Delete(tx)
    /\ Release
    /\ UNCHANGED <<outcome, signed, answers, restarts, intake, tick, extractFails,
                   cache, abandoned, clobbered>>

\* isUnrecoverableError: after a success the error answer is sent instead; after
\* a failed error answer the entry is removed without one.
PostImpossible ==
    /\ pc \in {"postSuccess", "report"}
    /\ Fault
    /\ abandoned' = abandoned \cup {req}
    /\ IF pc = "postSuccess"
       THEN /\ TellFailure(req, "lastWord")
            /\ UNCHANGED <<map, tx, req, info>>
       ELSE Delete(tx) /\ Release /\ UNCHANGED cache
    /\ UNCHANGED <<chain, restarts, intake, tick, extractFails, clobbered>>
-----------------------------------------------------------------------------
\* The process dies and is started again: nothing of its memory is persisted, and
\* each call it was awaiting may have reached the source chain or not.
InFlight ==
    {<<r, "signature">> : r \in {q \in Req : handlers[q] > 0}}
    \cup (IF pc \in Posting THEN {<<req, Kind>>} ELSE {})

Restart ==
    /\ restarts < MaxRestarts
    /\ restarts' = restarts + 1
    /\ \E sent \in SUBSET InFlight : afloat' = afloat \cup sent
    /\ handlers' = [r \in Req |-> 0]
    /\ pending' = [t \in Tx |-> NoReq] /\ checks' = [t \in Tx |-> 0]
    /\ poll' = 0 /\ visited' = {}
    /\ pc' = "idle" /\ tx' = NoTx /\ req' = NoReq /\ info' = "current"
    /\ extractFails' = [t \in Tx |-> 0]
    /\ cache' = [r \in Req |-> "none"]
    /\ UNCHANGED <<outcome, signed, answers, faults, starts, abandoned, clobbered>>

Users == \E t \in Tx : Broadcast(t) \/ Resolve(t)
Late == \E r \in Req, kind \in {"signature", "success", "error"} : LateLanding(r, kind)
Handlers == \E r \in Req : StartHandler(r) \/ SignatureSent(r) \/ SignatureFails(r)
Read ==
    \/ ReadReceipt \/ ReadNonce \/ RecheckReceipt \/ ReadFails
    \/ Extracted \/ ExtractFails
    \/ \E unsupported \in BOOLEAN : ExtractImpossible(unsupported)
Post == Posted \/ PostFails \/ PostImpossible
Monitor == TickStart \/ (\E t \in Tx : Visit(t)) \/ TickEnd \/ Read \/ Post

Next == Users \/ Late \/ Handlers \/ Monitor \/ Restart

Spec == Init /\ [][Next]_vars

\* The server's own steps keep happening: the interval fires, calls return
\* (the reads and posts are bounded by RPC timeouts), a handler whose signature
\* was accepted goes on.  Nothing is assumed of the users, the chain, late
\* landings, failures or restarts.
Fairness == WF_vars(Monitor)

FairSpec == Spec /\ Fairness
-----------------------------------------------------------------------------
(* Properties *)

ChainTypeOK ==
    /\ outcome \in [Tx -> {"unsent", "mempool"} \cup Final]
    /\ signed \subseteq Req
    /\ answers \in [Req -> SUBSET {"success", "error"}]
    /\ afloat \subseteq Posts
    /\ faults \in 0..MaxFaults /\ restarts \in 0..MaxRestarts

IntakeTypeOK ==
    /\ starts \in [Req -> 0..MaxHandlers]
    /\ handlers \in [Req -> 0..MaxHandlers]

TableTypeOK ==
    /\ pending \in [Tx -> Req \cup {NoReq}]
    /\ checks \in [Tx -> 0..MaxChecks]
    /\ extractFails \in [Tx -> 0..(MaxExtractionFailures - 1)]
    /\ cache \in [Req -> {"none", "success", "failure"}]

WorkTypeOK ==
    /\ poll \in 0..(Period - 1) /\ visited \subseteq Tx
    /\ pc \in {"idle", "next"} \cup Working
    /\ IF pc \in Working THEN tx \in Tx /\ req \in Req
                         ELSE tx = NoTx /\ req = NoReq
    /\ info \in {"current", "stale"}
    /\ abandoned \subseteq Req /\ clobbered \subseteq Req

TypeOK == ChainTypeOK /\ IntakeTypeOK /\ TableTypeOK /\ WorkTypeOK

\* What the source chain is told is what happened on the EVM chain, whatever the
\* order in which the chain moved between the monitor's reads and however late
\* a post landed: a success response only for a transaction mined with success,
\* an error response only for one that reverted or was replaced, or for a
\* request the server had to give up on (no provider, no output, no way to post).
Failure(t) == outcome[t] \in {"reverted", "replaced"}

AnswersAreTrue ==
    \A r \in Req :
       /\ "success" \in answers[r] => outcome[TxOf[r]] = "ok"
       /\ "error" \in answers[r] => Failure(TxOf[r]) \/ r \in abandoned

\* What GET /responses/{requestId} serves is true in the same sense, and it is
\* there before the response can be seen on the source chain (unless a restart
\* has emptied it).
CacheIsTrue ==
    \A r \in Req :
       /\ cache[r] = "success" => outcome[TxOf[r]] = "ok"
       /\ cache[r] = "failure" => Failure(TxOf[r]) \/ r \in abandoned
       /\ answers[r] # {} /\ restarts = 0 => cache[r] # "none"

\* A transaction is monitored, under its own hash, only once its signature has
\* reached the requester.
MonitoredIsSigned ==
    \A t \in Tx : pending[t] # NoReq =>
                     pending[t] \in signed /\ TxOf[pending[t]] = t

\* No request leaves the pending map unanswered: when its entry goes, a response
\* to it has landed, or the server gave up on it, or another request for the
\* same transaction displaced it, or the process died.
RemovedIsAnswered ==
    [][ \A t \in Tx :
          pending[t] # NoReq /\ pending'[t] # pending[t] =>
             \/ answers'[pending[t]] # {}
             \/ pending[t] \in abandoned' \cup clobbered'
             \/ restarts' # restarts ]_vars

\* If the server keeps running, there is again and again a moment at which every
\* monitored request whose transaction has an outcome is answered (or given up,
\* or displaced): the backoff, failed posts and a restart only delay it.
AllAnswered ==
    \A t \in Tx : pending[t] # NoReq /\ outcome[t] \in Final =>
       answers[pending[t]] # {} \/ pending[t] \in abandoned \cup clobbered
EventuallyAnswered == []<>AllAnswered

\* The abstract specification: see ResponsePromise.
Promise == INSTANCE ResponsePromise WITH excused <- abandoned

ImplementsPromise == Promise!Spec
=============================================================================
