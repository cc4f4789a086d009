---------------------------- MODULE BitcoinSigning ----------------------------
(***************************************************************************)
(* The Bitcoin leg: handleBitcoinSigningPlan, which signs a transaction's   *)
(* inputs one by one and registers the transaction first, so that the       *)
(* monitor works on it while its inputs are still being signed, and         *)
(* BitcoinMonitor, which tells a confirmation from a conflict.  Handlings   *)
(* of the same transaction, retries of one request or of other requests     *)
(* with other parameters, share the registered set of submitted inputs.     *)
(*                                                                         *)
(* Posts and the monitor's tick are abstracted as far as TxMonitor has      *)
(* them: what remains is when an entry goes and with which answer.          *)
(***************************************************************************)
EXTENDS Integers, Sequences

CONSTANTS
    Req, Tx, Input,     \* requests, transactions, indices of a transaction's inputs
    NoReq, NoTx, NoInput,
    TxOf,               \* the transaction of each request's PSBT
    Networks,           \* what config.bitcoinNetwork may be
    MaxHandlings,       \* bound: handlings of one request
    MaxFaults           \* bound: failed calls

ASSUME BitcoinAssumption ==
    /\ TxOf \in [Req -> Tx]
    /\ Networks \subseteq {"regtest", "testnet"}
    /\ NoReq \notin Req /\ NoTx \notin Tx /\ NoInput \notin Input
    /\ MaxHandlings \in Nat /\ MaxFaults \in Nat

VARIABLES
    network,    \* config.bitcoinNetwork: which adapter the monitor asks
    chain,      \* Bitcoin, per transaction: the transaction of a prevout is "unknown";
                \* "none" of its prevouts is spent; they are by it, in the "mempool" or
                \* "mined", or by another transaction ("rival"), for good ("lost")
    signed,     \* source chain: the inputs of each request whose signature is there
    answers,    \* source chain: the kinds of response each request has got
    faults,     \* environment counter
    entry,      \* pendingTransactions: request and submittedInputs, or Unregistered
    sets,       \* the submittedInputs sets there have been; handlers and entries
                \* refer to them by position
    handler,    \* per request: its handling
    handlings,  \* per request: handlings begun
    mon,        \* the monitor: what it does, on which transaction of which request
    acked,      \* history: inputs of each request whose delivery was confirmed
    forgotten,  \* history: transactions whose entry has been deleted
    dropped,    \* history: those deleted although no response could be posted
    unseen      \* history: transactions checked while a prevout was unknown

world == <<network, chain, signed, answers, faults>>
server == <<entry, sets, handler, handlings>>
history == <<acked, forgotten, dropped, unseen>>
vars == <<world, server, mon, history>>

Unregistered == [req |-> NoReq, set |-> 0]
Idle == [pc |-> "idle", set |-> 0, todo |-> {}, input |-> NoInput]
Resting == [pc |-> "idle", tx |-> NoTx, req |-> NoReq, kind |-> "none"]

Fault == faults < MaxFaults /\ faults' = faults + 1
-----------------------------------------------------------------------------
Init ==
    /\ network \in Networks
    /\ chain = [t \in Tx |-> "unknown"]
    /\ signed = [r \in Req |-> {}]
    /\ answers = [r \in Req |-> {}]
    /\ faults = 0
    /\ entry = [t \in Tx |-> Unregistered]
    /\ sets = <<>>
    /\ handler = [r \in Req |-> Idle]
    /\ handlings = [r \in Req |-> 0]
    /\ mon = Resting
    /\ acked = [r \in Req |-> {}]
    /\ forgotten = {} /\ dropped = {} /\ unseen = {}

(* Bitcoin.  A request may come before the transactions it spends from.  A    *)
(* client that has every signature of its request sends the transaction; its *)
(* inputs may be spent otherwise, those that are known before the others are; *)
(* either may replace the other until one is mined.                          *)

ParentsAppear(t) ==
    /\ chain[t] = "unknown"
    /\ chain' = [chain EXCEPT ![t] = "none"]
    /\ UNCHANGED <<network, signed, answers, faults, server, mon, history>>

Broadcast(t) ==
    /\ \E r \in Req : TxOf[r] = t /\ signed[r] = Input
    /\ chain[t] \in {"none", "rival"}
    /\ chain' = [chain EXCEPT ![t] = "mempool"]
    /\ UNCHANGED <<network, signed, answers, faults, server, mon, history>>

Rival(t) ==
    /\ chain[t] \in {"unknown", "none", "mempool"}
    /\ chain' = [chain EXCEPT ![t] = "rival"]
    /\ UNCHANGED <<network, signed, answers, faults, server, mon, history>>

Mine(t) ==
    /\ chain[t] \in {"mempool", "rival"}
    /\ chain' = [chain EXCEPT ![t] = IF @ = "mempool" THEN "mined" ELSE "lost"]
    /\ UNCHANGED <<network, signed, answers, faults, server, mon, history>>
-----------------------------------------------------------------------------
(* The handler. *)

\* The entry and the set a handling works with: those of the registered
\* transaction, or new ones.
Registered_Anew(r) ==
    /\ sets' = Append(sets, {})
    /\ entry' = [entry EXCEPT ![TxOf[r]] = [req |-> r, set |-> Len(sets) + 1]]
Registered(r) ==
    IF entry[TxOf[r]] # Unregistered
    THEN UNCHANGED <<sets, entry>>
    ELSE /\ sets' = Append(sets, {})
         /\ entry' = [entry EXCEPT ![TxOf[r]] = [req |-> r, set |-> Len(sets) + 1]]

\* A request arrives, or is retried after a failure.
StartHandler(r) ==
    /\ handler[r].pc \in {"idle", "failed"}
    /\ handlings[r] < MaxHandlings
    /\ handlings' = [handlings EXCEPT ![r] = @ + 1]
    /\ Registered(r)
    /\ handler' = [handler EXCEPT ![r] =
                     [pc |-> "loop", set |-> entry'[TxOf[r]].set,
                      todo |-> Input, input |-> NoInput]]
    /\ UNCHANGED <<world, mon, history>>

\* The loop over the shuffled inputs: skip one that has been submitted...
Submitted(r) == sets[handler[r].set]

SkipInput(r) ==
    /\ handler[r].pc = "loop"
    /\ \E i \in handler[r].todo \cap Submitted(r) :
          handler' = [handler EXCEPT ![r].todo = @ \ {i}]
    /\ UNCHANGED <<world, entry, sets, handlings, mon, history>>

\* ...or sign it and send its signature.
Remaining_All(r, i) == handler[r].todo
Remaining(r, i) == handler[r].todo \ {i}

SendInput(r) ==
    /\ handler[r].pc = "loop"
    /\ \E i \in handler[r].todo \ Submitted(r) :
          handler' = [handler EXCEPT ![r] =
                        [@ EXCEPT !.pc = "sending", !.input = i, !.todo = Remaining(r, i)]]
    /\ UNCHANGED <<world, entry, sets, handlings, mon, history>>

Mark(r) == [sets EXCEPT ![handler[r].set] = @ \cup {handler[r].input}]

SendReturns(r) ==
    /\ handler[r].pc = "sending"
    /\ signed' = [signed EXCEPT ![r] = @ \cup {handler[r].input}]
    /\ acked' = [acked EXCEPT ![r] = @ \cup {handler[r].input}]
    /\ sets' = Mark(r)
    /\ handler' = [handler EXCEPT ![r] = [@ EXCEPT !.pc = "loop", !.input = NoInput]]
    /\ UNCHANGED <<network, chain, answers, faults, entry, handlings, mon, forgotten, dropped,
                   unseen>>

\* The call throws or times out, whether or not the signature has landed, and the
\* handling with it.
MarkFailed_Too(r) == Mark(r)
MarkFailed(r) == sets

SendFails(r) ==
    /\ handler[r].pc = "sending"
    /\ Fault
    /\ \/ signed' = [signed EXCEPT ![r] = @ \cup {handler[r].input}]
       \/ UNCHANGED signed
    /\ sets' = MarkFailed(r)
    /\ handler' = [handler EXCEPT ![r] = [Idle EXCEPT !.pc = "failed"]]
    /\ UNCHANGED <<network, chain, answers, entry, handlings, mon, history>>

HandlerDone(r) ==
    /\ handler[r].pc = "loop" /\ handler[r].todo = {}
    /\ handler' = [handler EXCEPT ![r] = [Idle EXCEPT !.pc = "done"]]
    /\ UNCHANGED <<world, entry, sets, handlings, mon, history>>
-----------------------------------------------------------------------------
(* The monitor. *)

Visit(t) ==
    /\ mon.pc = "idle" /\ entry[t] # Unregistered
    /\ mon' = [pc |-> "reading", tx |-> t, req |-> entry[t].req, kind |-> "none"]
    /\ UNCHANGED <<world, server, history>>

\* getTransaction: one confirmation is a success; otherwise, found or not, the
\* prevouts are checked.  An error response of the node may pass for "not found".
Confirmed_InMempool(t) == chain[t] \in {"mempool", "mined"}
Confirmed(t) == chain[t] = "mined"

GetTransaction ==
    /\ mon.pc = "reading"
    /\ IF Confirmed(mon.tx)
       THEN mon' = [mon EXCEPT !.pc = "posting", !.kind = "success"]
       ELSE mon' = [mon EXCEPT !.pc = "checking"]
    /\ UNCHANGED <<world, server, history>>

GetTransactionFails ==
    /\ mon.pc = "reading"
    /\ Fault
    /\ mon' \in {Resting, [mon EXCEPT !.pc = "checking"]}
    /\ UNCHANGED <<network, chain, signed, answers, server, history>>

\* isPrevoutSpent: by any transaction, in the mempool or mined, this one included.
\* Bitcoin Core's gettxout has nothing for an unknown prevout either, and that
\* passes for spent; mempool.space answers 404, which does not.
Spent_NotByRival(t) == chain[t] \in {"mempool", "mined"}
Spent_UnlessUnspent(t) == chain[t] # "none"
Spent(t) == chain[t] # "none" /\ (chain[t] = "unknown" => network = "regtest")

CheckPrevouts ==
    /\ mon.pc = "checking"
    /\ IF Spent(mon.tx)
       THEN mon' = [mon EXCEPT !.pc = "posting", !.kind = "error"]
       ELSE mon' = Resting
    /\ unseen' = IF chain[mon.tx] = "unknown" THEN unseen \cup {mon.tx} ELSE unseen
    /\ UNCHANGED <<world, server, acked, forgotten, dropped>>

\* A check that fails counts as unspent.
OnCheckError_Spent == [mon EXCEPT !.pc = "posting", !.kind = "error"]
OnCheckError == Resting

CheckFails ==
    /\ mon.pc = "checking"
    /\ Fault
    /\ mon' = OnCheckError
    /\ UNCHANGED <<network, chain, signed, answers, server, history>>

Delete == entry' = [entry EXCEPT ![mon.tx] = Unregistered]

\* The response is posted and the entry deleted by its txid.
Posted ==
    /\ mon.pc = "posting"
    /\ answers' = [answers EXCEPT ![mon.req] = @ \cup {mon.kind}]
    /\ Delete
    /\ forgotten' = forgotten \cup {mon.tx}
    /\ mon' = Resting
    /\ UNCHANGED <<network, chain, signed, faults, sets, handler, handlings, acked, dropped, unseen>>

\* executeWithRecovery: a recoverable failure keeps the entry for the next tick,
\* whether or not the response has landed.
AfterPostFails_Drops == Delete /\ forgotten' = forgotten \cup {mon.tx}
AfterPostFails == UNCHANGED <<entry, forgotten>>

PostFails ==
    /\ mon.pc = "posting"
    /\ Fault
    /\ \/ answers' = [answers EXCEPT ![mon.req] = @ \cup {mon.kind}]
       \/ UNCHANGED answers
    /\ AfterPostFails
    /\ mon' = Resting
    /\ UNCHANGED <<network, chain, signed, sets, handler, handlings, acked, dropped, unseen>>

\* An unrecoverable one drops it: instead of a success the error response is
\* tried, whose failure is only logged.
PostImpossible ==
    /\ mon.pc = "posting"
    /\ Fault
    /\ \/ /\ mon.kind = "success"
          /\ answers' = [answers EXCEPT ![mon.req] = @ \cup {"error"}]
          /\ UNCHANGED dropped
       \/ dropped' = dropped \cup {mon.tx} /\ UNCHANGED answers
    /\ Delete
    /\ forgotten' = forgotten \cup {mon.tx}
    /\ mon' = Resting
    /\ UNCHANGED <<network, chain, signed, sets, handler, handlings, acked, unseen>>

Bitcoin == \E t \in Tx : ParentsAppear(t) \/ Broadcast(t) \/ Rival(t) \/ Mine(t)
Handlers == \E r \in Req : \/ StartHandler(r) \/ SkipInput(r) \/ SendInput(r)
                           \/ SendReturns(r) \/ SendFails(r) \/ HandlerDone(r)
Monitor == \/ \E t \in Tx : Visit(t)
           \/ GetTransaction \/ GetTransactionFails \/ CheckPrevouts \/ CheckFails
           \/ Posted \/ PostFails \/ PostImpossible

Next == Bitcoin \/ Handlers \/ Monitor

Spec == Init /\ [][Next]_vars

\* Calls return and every tick goes through the whole map.
Fairness ==
    /\ \A t \in Tx : SF_vars(Visit(t))
    /\ WF_vars(GetTransaction) /\ WF_vars(CheckPrevouts) /\ WF_vars(Posted)

FairSpec == Spec /\ Fairness
-----------------------------------------------------------------------------
(* Properties *)

WorldTypeOK ==
    /\ network \in Networks
    /\ chain \in [Tx -> {"unknown", "none", "mempool", "mined", "rival", "lost"}]
    /\ signed \in [Req -> SUBSET Input] /\ acked \in [Req -> SUBSET Input]
    /\ answers \in [Req -> SUBSET {"success", "error"}]
    /\ faults \in 0..MaxFaults
    /\ forgotten \subseteq Tx /\ dropped \subseteq forgotten /\ unseen \subseteq Tx

Handlings == [pc : {"idle", "loop", "sending", "failed", "done"}, set : Nat,
              todo : SUBSET Input, input : Input \cup {NoInput}]

ServerTypeOK ==
    /\ sets \in Seq(SUBSET Input)
    /\ entry \in [Tx -> [req : Req \cup {NoReq}, set : Nat]]
    /\ \A t \in Tx : entry[t] # Unregistered =>
          /\ entry[t].req \in Req /\ TxOf[entry[t].req] = t
          /\ entry[t].set \in DOMAIN sets
    /\ handlings \in [Req -> 0..MaxHandlings]
    /\ handler \in [Req -> Handlings]
    /\ \A r \in Req :
          /\ handler[r].pc \in {"loop", "sending"} => handler[r].set \in DOMAIN sets
          /\ IF handler[r].pc = "sending" THEN handler[r].input \in Input \ handler[r].todo
                                          ELSE handler[r].input = NoInput

MonTypeOK ==
    /\ mon \in [pc : {"idle", "reading", "checking", "posting"}, tx : Tx \cup {NoTx},
                req : Req \cup {NoReq}, kind : {"none", "success", "error"}]
    /\ mon.pc # "idle" => /\ mon.tx \in Tx /\ entry[mon.tx] # Unregistered
                          /\ mon.req = entry[mon.tx].req
    /\ mon.pc = "posting" <=> mon.kind # "none"

TypeOK == WorldTypeOK /\ ServerTypeOK /\ MonTypeOK

\* A success is reported only of a transaction that is in a block.
SuccessIsTrue ==
    \A r \in Req : "success" \in answers[r] => chain[TxOf[r]] = "mined"

\* A failure is reported only when the transaction's prevouts are no longer
\* unspent, even if nodes fail to answer: an error is never taken for a conflict,
\* and an unknown prevout is only by Bitcoin Core, when it was unknown as the
\* monitor asked (BitcoinMonitor 52-59 and 77-87, MempoolSpaceAdapter 137-142,
\* BitcoinCoreRpcAdapter 132-133).
SeenSpent(t) == \/ chain[t] \notin {"unknown", "none"}
                \/ network = "regtest" /\ t \in unseen
ErrorMeansSpent ==
    \A r \in Req : "error" \in answers[r] => SeenSpent(TxOf[r])

\* "On retry, preserve the existing entry (keeps submittedInputs state)": an input
\* whose signature was delivered for a request is not sent for it again, unless
\* the monitor has finished with the transaction in between.
NotSentAgain ==
    \A r \in Req :
       handler[r].pc = "sending" /\ handler[r].input \in acked[r] => TxOf[r] \in forgotten

\* When a handling completes, through skipped inputs, failures and retries, and
\* whatever other requests for the transaction have done, every input of its
\* transaction has a signature on the source chain.
AllInputsSigned ==
    \A r \in Req : handler[r].pc = "done" =>
       \A i \in Input : \E s \in Req : TxOf[s] = TxOf[r] /\ i \in signed[s]

\* The monitor forgets a transaction only once a request for it has been
\* answered, unless posting was impossible.
ForgottenIsAnswered ==
    \A t \in forgotten \ dropped : \E r \in Req : TxOf[r] = t /\ answers[r] # {}

\* A registered transaction whose fate is sealed is concluded.
EventuallyJudged ==
    \A t \in Tx : entry[t] # Unregistered /\ chain[t] \in {"mined", "lost"}
                     ~> entry[t] = Unregistered

\* "Returns `error` if any prevout is spent elsewhere (double-spend)"
\* (waitForTransactionAndGetOutput): the monitor finds a conflict only while
\* another transaction spends a prevout.
ConflictIsElsewhere ==
    [][mon.pc = "checking" /\ mon'.pc = "posting" => chain[mon.tx] \in {"rival", "lost"}]_vars
=============================================================================
