--------------------------- MODULE MidnightMonitor ---------------------------
(***************************************************************************)
(* The Midnight leg of the signer: the poll of the signet contract's events *)
(* and the handling of each request, the lazily joined contract, and the    *)
(* chain of contract writes shared by two callers that run independently,   *)
(* the poller (which posts signatures) and the transaction monitor (which   *)
(* posts responses for the transactions the poller registered).             *)
(*                                                                         *)
(* The chain advances on a write's own promise, `raw`; its caller is told   *)
(* the earlier of that and a timeout.                                       *)
(***************************************************************************)
EXTENDS Integers, Sequences

CONSTANTS
    Req,            \* requests
    NoReq,          \* sentinel
    MayWedge,       \* whether a callTx may never settle
    MaxFaults,      \* bound: failed and timed-out calls
    MaxRestarts     \* bound: restarts of the server process

ASSUME MidnightAssumption ==
    /\ NoReq \notin Req
    /\ MayWedge \in BOOLEAN
    /\ MaxFaults \in Nat /\ MaxRestarts \in Nat

Caller == {"poller", "monitor"}

VARIABLES
    posted,     \* Midnight: requests the indexer shows
    signed,     \* Midnight: how often a signature of a request has landed
    responded,  \* Midnight: requests a response to which has landed
    faults, restarts,   \* environment counters
    seen,       \* feed: requests it has handed out and not been told to forget
    batch,      \* requests of the current poll that the loop has not reached
    at,         \* per caller: where it is
    req,        \* per caller: the request it works on
    contract,   \* responderContractPromise: "none", "building" or "joined"
    chain,      \* writes whose raw promise has not settled, in order
    pending,    \* pendingTransactions, by request
    failed      \* history since boot: requests whose handling failed

midnight == <<posted, signed, responded>>
environment == <<faults, restarts>>
vars == <<midnight, environment, seen, batch, at, req, contract, chain, pending,
          failed>>

Wedged == chain # <<>> /\ chain[1].raw = "stuck"

Fault == faults < MaxFaults /\ faults' = faults + 1
-----------------------------------------------------------------------------
Init ==
    /\ posted = {} /\ responded = {}
    /\ signed = [r \in Req |-> 0]
    /\ faults = 0 /\ restarts = 0
    /\ seen = {} /\ batch = {}
    /\ at = [p \in Caller |-> "idle"]
    /\ req = [p \in Caller |-> NoReq]
    /\ contract = "none"
    /\ chain = <<>>
    /\ pending = {}
    /\ failed = {}

\* A client contract submits a request and the indexer shows it.
Submit(r) ==
    /\ r \notin posted
    /\ posted' = posted \cup {r}
    /\ UNCHANGED <<signed, responded, environment, seen, batch, at, req, contract,
                   chain, pending, failed>>
-----------------------------------------------------------------------------
(* The poll.  The `polling` flag keeps ticks apart. *)

PollStart ==
    /\ at["poller"] = "idle"
    /\ at' = [at EXCEPT !["poller"] = "polling"]
    /\ UNCHANGED <<midnight, environment, seen, batch, req, contract, chain,
                   pending, failed>>

\* The feed hands a request out once, until it is told to forget it.
Remembered_OnReturn == seen
Remembered == seen \cup posted

PollReturns ==
    /\ at["poller"] = "polling"
    /\ batch' = posted \ seen
    /\ seen' = Remembered
    /\ at' = [at EXCEPT !["poller"] = "next"]
    /\ UNCHANGED <<midnight, environment, req, contract, chain, pending, failed>>

PollFails ==
    /\ at["poller"] = "polling"
    /\ Fault
    /\ at' = [at EXCEPT !["poller"] = "idle"]
    /\ UNCHANGED <<midnight, restarts, seen, batch, req, contract, chain,
                   pending, failed>>

\* A caller starts on r: it awaits the joined contract, building it if it is the
\* first to ask.
Begin(p, r) ==
    /\ req' = [req EXCEPT ![p] = r]
    /\ at' = [at EXCEPT ![p] = "joining"]
    /\ contract' = IF contract = "none" THEN "building" ELSE contract

Rest_Abandoned(r) == {}
Rest(r) == batch \ {r}

NextRequest ==
    /\ at["poller"] = "next"
    /\ \/ /\ batch = {}
          /\ at' = [at EXCEPT !["poller"] = "idle"]
          /\ UNCHANGED <<batch, req, contract>>
       \/ \E r \in batch :
             /\ batch' = Rest(r)
             /\ Begin("poller", r)
    /\ UNCHANGED <<midnight, environment, seen, chain, pending, failed>>

\* Building or signing the transaction of the next request throws.
BuildFails ==
    /\ at["poller"] = "next"
    /\ Fault
    /\ \E r \in batch :
          /\ batch' = Rest(r)
          /\ req' = [req EXCEPT !["poller"] = r]
    /\ at' = [at EXCEPT !["poller"] = "failed"]
    /\ UNCHANGED <<midnight, restarts, seen, contract, chain, pending, failed>>

\* The handler of the poller's request ends.  The callback that connectToMidnight
\* gives to the poller logs an error and returns, so the poller sees a success
\* and never tells the feed to forget the request.
AfterFailure_Forgets(r) == seen \ {r}
AfterFailure(r) == seen

HandlerReturns ==
    /\ at["poller"] \in {"done", "failed"}
    /\ IF at["poller"] = "done"
       THEN pending' = pending \cup {req["poller"]} /\ UNCHANGED <<seen, failed>>
       ELSE /\ seen' = AfterFailure(req["poller"])
            /\ failed' = failed \cup {req["poller"]}
            /\ UNCHANGED pending
    /\ at' = [at EXCEPT !["poller"] = "next"]
    /\ req' = [req EXCEPT !["poller"] = NoReq]
    /\ UNCHANGED <<midnight, environment, batch, contract, chain>>
-----------------------------------------------------------------------------
(* The transaction monitor, as far as it writes: it responds to a registered *)
(* request, at most one at a time, and keeps or drops it after a failure.    *)

Respond(r) ==
    /\ at["monitor"] = "idle"
    /\ r \in pending
    /\ Begin("monitor", r)
    /\ UNCHANGED <<midnight, environment, seen, batch, chain, pending, failed>>

ResponseReturns ==
    /\ at["monitor"] \in {"done", "failed"}
    /\ \/ at["monitor"] = "failed" /\ UNCHANGED pending
       \/ pending' = pending \ {req["monitor"]}
    /\ at' = [at EXCEPT !["monitor"] = "idle"]
    /\ req' = [req EXCEPT !["monitor"] = NoReq]
    /\ UNCHANGED <<midnight, environment, seen, batch, contract, chain, failed>>
-----------------------------------------------------------------------------
(* The contract, built once for both callers and again after a failure. *)

ContractJoined ==
    /\ contract = "building"
    /\ contract' = "joined"
    /\ UNCHANGED <<midnight, environment, seen, batch, at, req, chain, pending,
                   failed>>

ContractFails ==
    /\ contract = "building"
    /\ Fault
    /\ contract' = "none"
    /\ at' = [p \in Caller |-> IF at[p] = "joining" THEN "failed" ELSE at[p]]
    /\ UNCHANGED <<midnight, restarts, seen, batch, req, chain, pending, failed>>
-----------------------------------------------------------------------------
(* serializeWrite and timedPost. *)

Enqueue(p) ==
    /\ at[p] = "joining"
    /\ contract = "joined"
    /\ chain' = Append(chain, [caller |-> p, req |-> req[p],
                               raw |-> "queued", told |-> FALSE])
    /\ at' = [at EXCEPT ![p] = "writing"]
    /\ UNCHANGED <<midnight, environment, seen, batch, req, contract, pending,
                   failed>>

\* A write starts when the raw promise of the one before it has settled.
MayStart_OnResult(i) == \A j \in 1..(i - 1) : chain[j].told
MayStart(i) == i = 1

StartWrite(i) ==
    /\ i \in DOMAIN chain
    /\ chain[i].raw = "queued"
    /\ MayStart(i)
    /\ \/ chain' = [chain EXCEPT ![i].raw = "flying"]
       \/ MayWedge /\ chain' = [chain EXCEPT ![i].raw = "stuck"]
    /\ UNCHANGED <<midnight, environment, seen, batch, at, req, contract, pending,
                   failed>>

\* What a write leaves on Midnight.
Land(w) ==
    IF w.caller = "poller"
    THEN signed' = [signed EXCEPT ![w.req] = @ + 1] /\ UNCHANGED responded
    ELSE responded' = responded \cup {w.req} /\ UNCHANGED signed

\* The chain lives on past a rejection.
Dequeue_DropsWaiters(ok) == IF ok THEN Tail(chain) ELSE <<>>
Dequeue(ok) == Tail(chain)

\* The raw promise of the running write settles; its caller is told, unless it
\* has timed out.  A rejected call may have landed (finalization failed).
Settle(ok) ==
    /\ chain # <<>> /\ Head(chain).raw = "flying"
    /\ IF ok THEN UNCHANGED faults ELSE Fault
    /\ \/ Land(Head(chain))
       \/ ~ok /\ UNCHANGED <<signed, responded>>
    /\ chain' = Dequeue(ok)
    /\ at' = IF Head(chain).told THEN at
             ELSE [at EXCEPT ![Head(chain).caller] = IF ok THEN "done" ELSE "failed"]
    /\ UNCHANGED <<posted, restarts, seen, batch, req, contract, pending, failed>>

\* WRITE_TIMEOUT_MS after its start: the caller is told, the write goes on.
Told_Resolved == "done"
Told == "failed"

TimesOut(i) ==
    /\ i \in DOMAIN chain
    /\ chain[i].raw \in {"flying", "stuck"} /\ ~chain[i].told
    /\ IF chain[i].raw = "stuck" THEN UNCHANGED faults ELSE Fault
    /\ chain' = [chain EXCEPT ![i].told = TRUE]
    /\ at' = [at EXCEPT ![chain[i].caller] = Told]
    /\ UNCHANGED <<midnight, restarts, seen, batch, req, contract, pending, failed>>
-----------------------------------------------------------------------------
\* The process dies, with or without effect on a running write, and starts again
\* with a new feed.
Restart ==
    /\ restarts < MaxRestarts
    /\ restarts' = restarts + 1
    /\ \/ chain # <<>> /\ Head(chain).raw = "flying" /\ Land(Head(chain))
       \/ UNCHANGED <<signed, responded>>
    /\ seen' = {} /\ batch' = {}
    /\ at' = [p \in Caller |-> "idle"]
    /\ req' = [p \in Caller |-> NoReq]
    /\ contract' = "none"
    /\ chain' = <<>>
    /\ pending' = {}
    /\ failed' = {}
    /\ UNCHANGED <<posted, faults>>

Poller == PollStart \/ PollReturns \/ NextRequest \/ HandlerReturns
Troubles == PollFails \/ BuildFails \/ ContractFails \/ Restart

Next ==
    \/ \E r \in Req : Submit(r) \/ Respond(r)
    \/ Poller \/ ResponseReturns \/ ContractJoined \/ Troubles
    \/ \E p \in Caller : Enqueue(p)
    \/ \E i \in DOMAIN chain : StartWrite(i) \/ TimesOut(i)
    \/ \E ok \in BOOLEAN : Settle(ok)

Spec == Init /\ [][Next]_vars

\* The interval fires, callbacks run, and calls return: the poll of the indexer,
\* the wallet's synchronisation, and a write unless it is stuck (then its timer
\* fires).  Clients, the outcomes of transactions and failures are not assumed.
Fairness ==
    /\ WF_vars(Poller)
    /\ WF_vars(ResponseReturns)
    /\ WF_vars(ContractJoined)
    /\ \A p \in Caller : WF_vars(Enqueue(p))
    /\ WF_vars(StartWrite(1))
    /\ WF_vars(Settle(TRUE))
    /\ WF_vars(Wedged /\ TimesOut(1))

FairSpec == Spec /\ Fairness
-----------------------------------------------------------------------------
(* Properties *)

Writes == [caller : Caller, req : Req, raw : {"queued", "flying", "stuck"},
           told : BOOLEAN]

TypeOK ==
    /\ posted \subseteq Req /\ responded \subseteq Req
    /\ signed \in [Req -> Nat]
    /\ faults \in 0..MaxFaults /\ restarts \in 0..MaxRestarts
    /\ seen \subseteq posted /\ batch \subseteq seen
    /\ at \in [Caller -> {"idle", "polling", "next", "joining", "writing", "done", "failed"}]
    /\ req \in [Caller -> Req \cup {NoReq}]
    /\ contract \in {"none", "building", "joined"}
    /\ chain \in Seq(Writes)
    /\ pending \subseteq Req /\ failed \subseteq Req

\* At most one contract call is under way, whoever made it and whatever its
\* caller has been told: two would deadlock the private-state store.
OneWriter ==
    \A i, j \in DOMAIN chain :
       chain[i].raw # "queued" /\ chain[j].raw # "queued" => i = j

\* Retries do not pile up behind a slow write: at most one write that its caller
\* has given up, and one of each caller.
QueueBounded == Len(chain) <= 3

\* However slow its write, a request's signature is posted at most once in the
\* life of the process.
SignedOnce == \A r \in Req : signed[r] <= restarts + 1

\* Only a transaction whose signature has been posted is monitored, and only
\* such a request is answered.
SignedFirst == \A r \in pending \cup responded : signed[r] > 0

\* Every write is concluded for its caller, through failures of the writes
\* before it and timeouts, unless a contract call has hung for good.
CallsReturn ==
    \A p \in Caller : at[p] = "writing" ~> at[p] # "writing" \/ Wedged

\* Every request that the indexer shows and the feed has not handed out yet is
\* signed and monitored, or its handling fails, unless a contract call has hung
\* for good.
EventuallyMonitored ==
    \A r \in Req : r \in posted \ seen ~> r \in pending \cup failed \/ Wedged

\* "Drop the id so the next poll rediscovers and retries the request"
\* (fetchAndProcessRequests), "The caller still gets the bounded promise and can
\* retry" (serializeWrite): a request whose handling failed is handled again,
\* in the end with success, since failures are bounded.
FailedIsRetried == \A r \in Req : r \in failed ~> r \in pending
=============================================================================
