--------------------------- MODULE SignatureIntake ---------------------------
(***************************************************************************)
(* How the fakenet signer learns about program transactions on Solana and   *)
(* decides which of them to process: the onLogs subscription, the backfill  *)
(* poller, the processedSignatures set with its trimming, the retry counter *)
(* and the backfill cursor of ChainSignatureServer.                         *)
(*                                                                         *)
(* The program's transaction signatures are numbered in chain order, so     *)
(* Sig == 1..MaxSigs and "newer" is ">".  JavaScript runs one callback at a *)
(* time: everything between two awaits is one action here.  A handler       *)
(* awaits its RPC calls; it is "running" from its start action to its end   *)
(* action, and any number of other callbacks may run in between.            *)
(***************************************************************************)
EXTENDS Integers, FiniteSets, Sequences, Functions

CONSTANTS
    MaxSigs,        \* bound: program transactions that land on Solana
    Failed,         \* those whose transaction failed (logs.err, sigInfo.err)
    Cycles,         \* bound: backfill cycles that can overlap (setInterval)
    MaxProcessed,   \* MAX_PROCESSED_SIGNATURES (1000)
    MaxRetries,     \* MAX_SIGNATURE_RETRIES (3)
    BatchSize,      \* backfillBatchSize (10)
    MaxBatchSize,   \* backfillMaxBatchSize (100)
    SkipFactor,     \* BACKFILL_SKIP_FACTOR_WHEN_WS_HEALTHY (6)
    MaxDeliveries,  \* bound: log notifications of one signature (a leaked
                    \* subscription delivers it twice)
    MaxFaults,      \* bound: failed RPC calls and handler failures
    MaxRestarts     \* bound: restarts of the server process

Sig == 1..MaxSigs
NoSig == 0
NoCursor == 0

ASSUME IntakeAssumption ==
    /\ MaxSigs \in Nat
    /\ Failed \subseteq Sig
    /\ MaxProcessed \in Nat
    /\ MaxRetries \in Nat \ {0}
    /\ BatchSize \in Nat \ {0}
    /\ MaxBatchSize \in Nat \ {0}
    /\ BatchSize <= MaxBatchSize
    /\ SkipFactor \in Nat \ {0}
    /\ MaxDeliveries \in Nat
    /\ MaxFaults \in Nat
    /\ MaxRestarts \in Nat

VARIABLES
    landed,      \* Solana: signatures 1..landed have landed
    delivered,   \* Solana: log notifications already sent, per signature
    faults,      \* environment: failures so far
    restarts,    \* environment: restarts so far
    processed,   \* processedSignatures, a JS Set: a sequence in insertion order
    retries,     \* failedSignatureRetries, 0 = no entry
    cursor,      \* lastBackfillSignature
    batch,       \* currentBackfillBatchSize
    tick,        \* backfillCycleCounter % SkipFactor
    wsSeen,      \* lastWebSocketEventTime > 0
    wsJobs,      \* onLogs callbacks awaiting processSignatureWithRetry
    phase,       \* per cycle: "idle", "fetching" or "looping"
    asked,       \* per cycle: what its getSignaturesForAddress was given, and
                 \* how far the chain had got by then
    todo,        \* per cycle: listed signatures the loop has not reached
    current,     \* per cycle: the signature its loop is awaiting
    found,       \* per cycle: newCount > 0
    tried,       \* history since boot: signatures some handler started on
    skipped,     \* history since boot: dropped by the limit of a listing
    faulted,     \* history since boot: a handler of it failed
    evicted,     \* history since boot: trimmed out of processedSignatures
    fate         \* history since boot: how a signature was settled

chain == <<landed, delivered, faults, restarts>>
memory == <<processed, retries, cursor, batch, tick, wsSeen>>
jobs == <<wsJobs, phase, asked, todo, current, found>>
history == <<tried, skipped, faulted, evicted, fate>>
vars == <<chain, memory, jobs, history>>

NoCall == [until |-> NoCursor, limit |-> 0, from |-> 0]

Known == Range(processed)

\* A handler of s is running, for a log notification or in a backfill loop.
Running(s) == wsJobs[s] > 0 \/ \E c \in Cycles : current[c] = s
-----------------------------------------------------------------------------
(* The processedSignatures set. *)

Remember(p, s) == IF s \in Range(p) THEN p ELSE Append(p, s)

Forget_Noop(p, s) == p
Forget(p, s) ==
    IF s \in Range(p)
    THEN LET i == CHOOSE j \in DOMAIN p : p[j] = s
         IN  SubSeq(p, 1, i - 1) \o SubSeq(p, i + 1, Len(p))
    ELSE p

\* trimProcessedSignatures: drop the oldest entries above MaxProcessed.
Excess(p) == IF Len(p) > MaxProcessed THEN Len(p) - MaxProcessed ELSE 0
Trimmed(p) == SubSeq(p, Excess(p) + 1, Len(p))
TrimmedOut(p) == {p[i] : i \in 1..Excess(p)}

\* retries >= MAX_SIGNATURE_RETRIES
AtCap_OffByOne(n) == n > MaxRetries
AtCap(n) == n >= MaxRetries

Result_GaveUpForgets(s) ==
    { [ kind |-> "handled",   known |-> processed,            tries |-> 0 ],
      [ kind |-> "transient", known |-> Forget(processed, s), tries |-> retries[s] ],
      IF AtCap(retries[s] + 1)
      THEN [ kind |-> "gaveUp",  known |-> Forget(processed, s), tries |-> 0 ]
      ELSE [ kind |-> "counted", known |-> Forget(processed, s), tries |-> retries[s] + 1 ] }
\* What the end of processSignatureWithRetry(s) can do: success, or one of the
\* three branches of handleSignatureError.
Result(s) ==
    { [ kind |-> "handled",   known |-> processed,            tries |-> 0 ],
      [ kind |-> "transient", known |-> Forget(processed, s), tries |-> retries[s] ],
      IF AtCap(retries[s] + 1)
      THEN [ kind |-> "gaveUp",  known |-> processed,            tries |-> 0 ]
      ELSE [ kind |-> "counted", known |-> Forget(processed, s), tries |-> retries[s] + 1 ] }

Settle(s, r) ==
    /\ r.kind # "handled" => faults < MaxFaults
    /\ faults' = IF r.kind = "handled" THEN faults ELSE faults + 1
    /\ faulted' = IF r.kind = "handled" THEN faulted ELSE faulted \cup {s}
    /\ fate' = IF r.kind \in {"handled", "gaveUp"}
               THEN [fate EXCEPT ![s] = r.kind] ELSE fate
-----------------------------------------------------------------------------
Init ==
    /\ landed = 0
    /\ delivered = [s \in Sig |-> 0]
    /\ faults = 0
    /\ restarts = 0
    /\ processed = <<>>
    /\ retries = [s \in Sig |-> 0]
    /\ cursor = NoCursor
    /\ batch = BatchSize
    /\ tick = 0
    /\ wsSeen = FALSE
    /\ wsJobs = [s \in Sig |-> 0]
    /\ phase = [c \in Cycles |-> "idle"]
    /\ asked = [c \in Cycles |-> NoCall]
    /\ todo = [c \in Cycles |-> {}]
    /\ current = [c \in Cycles |-> NoSig]
    /\ found = [c \in Cycles |-> FALSE]
    /\ tried = {} /\ skipped = {} /\ faulted = {} /\ evicted = {}
    /\ fate = [s \in Sig |-> "open"]

\* A program transaction lands on Solana.
Land ==
    /\ landed < MaxSigs
    /\ landed' = landed + 1
    /\ UNCHANGED <<delivered, faults, restarts, memory, jobs, history>>

\* The early returns of the onLogs callback.
Ignored_NoDedup(s) == s \in Failed
Ignored(s) == s \in Failed \/ s \in Known

\* The onLogs callback runs for s.  Notifications may be lost (the action need
\* not happen), late, out of order, or repeated.
WsEvent(s) ==
    /\ s <= landed
    /\ delivered[s] < MaxDeliveries
    /\ delivered' = [delivered EXCEPT ![s] = @ + 1]
    /\ wsSeen' = TRUE
    /\ IF Ignored(s)
       THEN UNCHANGED <<processed, wsJobs, tried>>
       ELSE /\ processed' = Remember(processed, s)
            /\ wsJobs' = [wsJobs EXCEPT ![s] = @ + 1]
            /\ tried' = tried \cup {s}
    /\ UNCHANGED <<landed, faults, restarts, retries, cursor, batch, tick,
                   phase, asked, todo, current, found, skipped, faulted,
                   evicted, fate>>

\* A handler started by the subscription ends.
WsJobEnds(s) ==
    /\ wsJobs[s] > 0
    /\ wsJobs' = [wsJobs EXCEPT ![s] = @ - 1]
    /\ \E r \in Result(s) :
          /\ Settle(s, r)
          /\ processed' = r.known
          /\ retries' = [retries EXCEPT ![s] = r.tries]
    /\ UNCHANGED <<landed, delivered, restarts, cursor, batch, tick, wsSeen,
                   phase, asked, todo, current, found, tried, skipped, evicted>>

\* setInterval fires.  A healthy subscription skips the cycle unless it is the
\* SkipFactor-th; otherwise getSignaturesForAddress is called with the cursor
\* and the batch size of this moment.
MaySkip_Always(t) == wsSeen
MaySkip(t) == wsSeen /\ t # 0

BackfillTick(c) ==
    /\ phase[c] = "idle"
    /\ tick' = (tick + 1) % SkipFactor
    /\ \/ /\ MaySkip(tick')
          /\ UNCHANGED <<phase, asked>>
       \/ /\ phase' = [phase EXCEPT ![c] = "fetching"]
          /\ asked' = [asked EXCEPT ![c] =
                          [until |-> cursor, limit |-> batch, from |-> landed]]
    /\ UNCHANGED <<chain, processed, retries, cursor, batch, wsSeen, wsJobs, todo,
                   current, found, history>>

\* The call fails or times out: the cycle's catch block logs it.
BackfillFetchFails(c) ==
    /\ phase[c] = "fetching"
    /\ faults < MaxFaults
    /\ faults' = faults + 1
    /\ phase' = [phase EXCEPT ![c] = "idle"]
    /\ asked' = [asked EXCEPT ![c] = NoCall]
    /\ UNCHANGED <<landed, delivered, restarts, memory, wsJobs, todo, current,
                   found, history>>

\* The loop of cycle c goes on over the listing `list`, newest first, to the
\* next signature that is neither processed nor failed...
Eligible_NoDedup(list, known) == {s \in list : s \notin Failed}
Eligible(list, known) == {s \in list : s \notin Range(known) /\ s \notin Failed}

Older_None(list, s) == {}
Older(list, s) == {t \in list : t < s}

LoopTakes(c, list, known, tries) ==
    /\ \E s \in Eligible(list, known) :
          /\ \A t \in Eligible(list, known) : t <= s
          /\ current' = [current EXCEPT ![c] = s]
          /\ todo' = [todo EXCEPT ![c] = Older(list, s)]
          /\ processed' = Remember(known, s)
          /\ tried' = tried \cup {s}
    /\ phase' = [phase EXCEPT ![c] = "looping"]
    /\ found' = [found EXCEPT ![c] = TRUE]
    /\ retries' = tries
    /\ UNCHANGED <<batch, evicted>>

\* ...or ends: the batch size doubles or is reset, and the set is trimmed.
LoopEnds(c, list, known, tries) ==
    /\ Eligible(list, known) = {}
    /\ batch' = IF ~found[c] THEN BatchSize
                ELSE IF batch * 2 < MaxBatchSize THEN batch * 2 ELSE MaxBatchSize
    /\ processed' = Trimmed(known)
    /\ retries' = [s \in Sig |-> IF s \in TrimmedOut(known) THEN 0 ELSE tries[s]]
    /\ evicted' = evicted \cup TrimmedOut(known)
    /\ phase' = [phase EXCEPT ![c] = "idle"]
    /\ todo' = [todo EXCEPT ![c] = {}]
    /\ current' = [current EXCEPT ![c] = NoSig]
    /\ found' = [found EXCEPT ![c] = FALSE]
    /\ UNCHANGED tried

LoopGoesOn(c, list, known, tries) ==
    LoopTakes(c, list, known, tries) \/ LoopEnds(c, list, known, tries)

\* The listing arrives: the node answered with the newest signatures after the
\* cursor, as the chain was at some moment since the call.  The cursor moves to
\* the newest entry at once, before any entry has been processed, and the loop
\* starts.
Listing(call, upto) ==
    {s \in Sig : call.until < s /\ s <= upto /\ upto - call.limit < s}

BackfillListed(c) ==
    /\ phase[c] = "fetching"
    /\ asked' = [asked EXCEPT ![c] = NoCall]
    /\ \E upto \in asked[c].from..landed :
          LET list == Listing(asked[c], upto) IN
          /\ IF list = {}
             THEN UNCHANGED <<cursor, skipped>>
             ELSE /\ cursor' = upto
                  /\ skipped' = skipped \cup
                        {s \in Sig \ list : asked[c].until < s /\ s < upto}
          /\ LoopGoesOn(c, list, processed, retries)
    /\ UNCHANGED <<chain, tick, wsSeen, wsJobs, faulted, fate>>

\* The handler awaited by the loop of cycle c ends and the loop goes on.
BackfillJobEnds(c) ==
    /\ phase[c] = "looping"
    /\ LET s == current[c] IN
       \E r \in Result(s) :
          /\ Settle(s, r)
          /\ LoopGoesOn(c, todo[c], r.known, [retries EXCEPT ![s] = r.tries])
    /\ UNCHANGED <<landed, delivered, restarts, cursor, tick, wsSeen, wsJobs,
                   asked, skipped>>

\* The process dies and is started again.  Nothing is persisted.
Restart ==
    /\ restarts < MaxRestarts
    /\ restarts' = restarts + 1
    /\ processed' = <<>>
    /\ retries' = [s \in Sig |-> 0]
    /\ cursor' = NoCursor
    /\ batch' = BatchSize
    /\ tick' = 0
    /\ wsSeen' = FALSE
    /\ wsJobs' = [s \in Sig |-> 0]
    /\ phase' = [c \in Cycles |-> "idle"]
    /\ asked' = [c \in Cycles |-> NoCall]
    /\ todo' = [c \in Cycles |-> {}]
    /\ current' = [c \in Cycles |-> NoSig]
    /\ found' = [c \in Cycles |-> FALSE]
    /\ tried' = {} /\ skipped' = {} /\ faulted' = {} /\ evicted' = {}
    /\ fate' = [s \in Sig |-> "open"]
    /\ UNCHANGED <<landed, delivered, faults>>

Next ==
    \/ Land
    \/ \E s \in Sig : WsEvent(s) \/ WsJobEnds(s)
    \/ \E c \in Cycles : \/ BackfillTick(c) \/ BackfillFetchFails(c)
                         \/ BackfillListed(c) \/ BackfillJobEnds(c)
    \/ Restart

Spec == Init /\ [][Next]_vars

\* The event loop and the node keep going: timers fire, calls return (each RPC
\* call of a handler is bounded by withTimeout) and, when a cycle ends, the
\* interval fires again.  Landing, notifications, failures and restarts are
\* never assumed.
Fairness ==
    /\ WF_vars(\E c \in Cycles : BackfillTick(c))
    /\ \A c \in Cycles : WF_vars(BackfillListed(c) \/ BackfillJobEnds(c))
    /\ WF_vars(\E s \in Sig : WsJobEnds(s))

FairSpec == Spec /\ Fairness
-----------------------------------------------------------------------------
(* Properties *)

TypeOK ==
    /\ landed \in 0..MaxSigs
    /\ delivered \in [Sig -> 0..MaxDeliveries]
    /\ faults \in 0..MaxFaults
    /\ restarts \in 0..MaxRestarts
    /\ processed \in Seq(Sig)
    /\ retries \in [Sig -> 0..(MaxRetries - 1)]
    /\ cursor \in 0..landed
    /\ batch \in BatchSize..MaxBatchSize
    /\ tick \in 0..(SkipFactor - 1)
    /\ wsSeen \in BOOLEAN
    /\ wsJobs \in [Sig -> 0..MaxDeliveries]
    /\ phase \in [Cycles -> {"idle", "fetching", "looping"}]
    /\ asked \in [Cycles -> [until : 0..landed, limit : 0..MaxBatchSize, from : 0..landed]]
    /\ todo \in [Cycles -> SUBSET (1..landed)]
    /\ current \in [Cycles -> 0..landed]
    /\ found \in [Cycles -> BOOLEAN]
    /\ tried \subseteq Sig /\ skipped \subseteq Sig
    /\ faulted \subseteq Sig /\ evicted \subseteq Sig
    /\ fate \in [Sig -> {"open", "handled", "gaveUp"}]

AtMostOneHandler(s) ==
    /\ wsJobs[s] <= 1
    /\ wsJobs[s] = 1 => \A c \in Cycles : current[c] # s
    /\ \A c, d \in Cycles : current[c] = s /\ current[d] = s => c = d

\* The subscription and any number of overlapping backfill cycles may meet the
\* same signature; two handlers never run for it at the same time, unless it
\* was trimmed from processedSignatures while a handler still ran.
OneHandler == \A s \in Sig \ evicted : AtMostOneHandler(s)

\* A signature handled to the end is not handled again by this process (its
\* responses are not sent twice), unless it was trimmed.
NoRehandling ==
    \A s \in Sig : fate[s] = "handled" /\ s \notin evicted =>
                      s \in Known /\ ~Running(s)

\* processedSignatures never hides unfinished work: a signature in it with no
\* handler running was handled, or given up at the retry cap.  A failure that
\* the log calls "will retry" leaves the signature open to the next notice.
RememberedIsSettled ==
    \A s \in Known : Running(s) \/ fate[s] # "open"

\* The backfill cursor never passes a signature that nobody looked at: behind
\* it, everything was started on, is queued in a loop, or was cut off by the
\* limit of a listing.
CursorCovers ==
    \A s \in Sig \ Failed :
       s <= cursor => \/ s \in tried \cup skipped
                      \/ \E c \in Cycles : phase[c] = "looping" /\ s \in todo[c]

\* Every successful signature that lands is handled, even when the subscription
\* never mentions it, as long as no handler of it fails and no listing cuts it
\* off: again and again all that landed are (a restart starts over).
AllHandled ==
    \A s \in Sig \ Failed :
       s <= landed => fate[s] = "handled" \/ s \in faulted \/ s \in skipped
EventuallyHandled == []<>AllHandled

\* "Always re-throw so caller can retry.  Duplicates are harmless, missing txs
\* are not" (CpiEventParser), "transient error, will retry" and "Backfill must
\* always remain active as an independent safety net for partial WS drops and
\* failed retries" (ChainSignatureServer): every successful signature that
\* lands is handled in the end, or given up at the cap.
BackfillIsSafetyNet ==
    \A s \in Sig \ Failed :
       (s <= landed) ~> (fate[s] \in {"handled", "gaveUp"})

\* Where a signature stands in this boot, as the event handlers see it.
StageOf(s) ==
    CASE s \in evicted -> "forgotten"
      [] s \notin evicted /\ Running(s) ->
           IF AtMostOneHandler(s) THEN "inHand" ELSE "inTwoHands"
      [] s \notin evicted /\ ~Running(s) -> fate[s]

\* The abstract specification: see HandOver.
Handler == INSTANCE HandOver WITH
    Txs <- Sig, stage <- [s \in Sig |-> StageOf(s)], boots <- restarts

\* However notices, overlapping cycles, failures and restarts interleave, the
\* intake hands a transaction over to one handler at a time and to none once
\* it was handled or given up: trimming the set is its only way to start over
\* (processSignatureWithRetry, handleSignatureError, trimProcessedSignatures).
HandsOverOnce == Handler!Spec
=============================================================================
