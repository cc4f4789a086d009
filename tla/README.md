# Verification of the Signet program and the fakenet signer

The Signet program on Solana takes signature requests and a deposit for each. The fakenet
signer watches the program (and Midnight and Substrate contracts with the same purpose), signs
the requests, posts the signatures back, follows the signed transactions on their destination
chains (EVM, Bitcoin) and posts what became of them.

This directory holds TLA+ models of that code, the TLC runs that check them on small instances,
and TLAPS proofs for all values of the constants. File names below are relative to
`src/fakenet-signer/src/` unless they begin with `signet-program/`; `server` is
`server/ChainSignatureServer.ts`. `PROJECT.json` maps every definition to its lines.

- [1. The system](#1-the-system)
- [2. The modules and the code](#2-the-modules-and-the-code)
- [3. The runs](#3-the-runs)
- [4. Fairness](#4-fairness)
- [5. The proofs](#5-the-proofs)
- [6. Where the code and its documentation disagree](#6-where-the-code-and-its-documentation-disagree)
- [7. What is not modelled](#7-what-is-not-modelled)
- [8. Plan](#8-plan)

## 1. The system

| Component | State | Operations | Talks to |
|---|---|---|---|
| Signet program (`signet-program/programs/signet/src/lib.rs`) | the program-state PDA: admin, deposit, lamports | initialize, update_deposit, withdraw_funds, sign, sign_bidirectional, respond, respond_error, respond_bidirectional | emits the events the intake reads |
| Signature intake (`server` 1038-1380) | `processedSignatures`, `failedSignatureRetries`, `lastBackfillSignature`, batch size, cycle counter | onLogs callback, backfill cycle, processSignatureWithRetry, handleSignatureError, trimming | starts the handlers |
| Event parsing and dispatch (`events/CpiEventParser.ts`, `server` 1152-1185) | none that lasts | parseCpiEvents, the loop over a transaction's events | between the intake and the handlers |
| EVM handler and transaction monitor (`server` 493-740, 954-1036, 1294-1352, `modules/ethereum/`) | `pendingTransactions` with check counts, `extractionFailureCounts`, `pollCounter`, the `monitoring` flag | handleEthereumBidirectional, the tick, the reads of EthereumMonitor, the response posts, executeWithRecovery | reads the destination chain, posts to the source chain, fills the response cache |
| Output serialisation (`server` 737-952) | none | serializeBorshOutput, serializeMidnightRespondOutput, their defaults | called by the tick before a post |
| Response cache and helper API (`server/ResponsesApi.ts`) | one response per request id | set, GET /responses/{requestId} | read by clients |
| Midnight (`modules/MidnightMonitor.ts`, `server` 327-430) | the feed's seen ids, the memoised contract join and wallet, the chain of writes | poll, handleMidnightSigningRequest, postSignature, postRespond, stop | shares `pendingTransactions` and the write chain with the monitor |
| Bitcoin (`modules/bitcoin/`, `adapters/`) | pending entries with `submittedInputs` | handleBitcoinSigningPlan, waitForTransactionAndGetOutput | reads a Bitcoin node, posts to the source chain |
| Substrate (`modules/SubstrateMonitor.ts`, `server` 250-325, 688-701) | the transaction queue, the event subscription | queueTransaction, sendSignatureResponse, sendRespondBidirectional, subscribeToEvents | posts to a Substrate node; the tick waits for its queue |
| WebSocket health (`server` 1072-1137) | subscription id, times of the last event and reconnect | health check, reconnectWebSocket | replaces the intake's subscription |
| Start and shutdown (`server` 204-248, 432-491, 1640-1678, `cli/Run.ts`) | the legs, intervals, the API server, the wallet | ensureInitialized, start, shutdown | every other part |
| Cryptography, configuration, providers | none that changes | pure functions and constructors | |

What is hard about it, per component, and what makes it correct:

- **Intake.** Everything is one JavaScript thread, but every `await` lets other callbacks in:
  backfill cycles overlap each other and the subscription, and all share the processed set, the
  retry counts and the cursor. The set is trimmed, the listing is limited, healthy
  subscriptions make cycles be skipped, and a restart forgets all of it. Correct: a signature
  has one handler at a time and is not handled again once settled; what the cursor has passed
  was looked at; the retry cap is reached exactly; what was not delivered is found by backfill.
- **Dispatch.** A transaction carries several events. When one fails, the whole transaction is
  handled again from its first event. Correct: no event is passed over.
- **Monitor.** It reads receipt, nonce and receipt again while the chain moves; posts time out
  here and land there; requests that sign the same transaction share an entry; a failed
  extraction is capped. Correct: no response contradicts the chain, no request leaves the
  pending map unanswered, everything decided is answered.
- **Serialisation.** Schemas come in five shapes, outputs in four, and defaults are filled in
  for transfers. Correct: an answer repeats what was returned, and only a failed transaction
  gets the error answer.
- **Program.** Several instructions move lamports of one PDA; the withdrawal check counts its
  rent. Correct: the books balance, an existing state stays rent exempt, only its admin
  controls it.
- **Midnight.** Two callers share a single-writer store; a write that times out for its caller
  is still running. Correct: one write at a time, bounded queue, one signature per request,
  nothing monitored that is not signed, every caller gets an answer.
- **Bitcoin.** A transaction is registered before its inputs are signed; retries and other
  requests share its set of submitted inputs; a conflict is inferred from spent prevouts.
  Correct: verdicts match the chain, delivered inputs are not sent again, a completed handling
  leaves every input signed.
- **Substrate.** All extrinsics go through a chain of promises; a stale nonce is retried while
  the queue is held; a caller may have given up on a call that still lands; an extrinsic may
  never be reported on. Correct: they leave in order, each lands once if success is reported, a
  failure of one does not stop those behind it.
- **WebSocket health.** A dead subscription looks like a quiet one; the replacement awaits a
  removal that may fail while checks go on. Correct: a dead subscription is replaced in bounded
  time, and one callback at a time is registered.
- **Start and shutdown.** Another process may initialize the program between the read and the
  call; shutdown meets reconnects and wallet builds in flight. Correct: the race is harmless,
  one wallet runs, and after shutdown nothing does.

The hazards, each at its line with the properties that would catch it, are in `PROJECT.json`.

## 2. The modules and the code

One action is one stretch of code between two awaits (one thread runs everything, so nothing
interleaves inside it), one read of a chain, one instruction, or one step of the world outside.
Bounds are constants whose comments say "bound"; variables whose comments say "history" or
"environment" are not in the code and no guard of the code's own actions depends on them except
through those bounds. A definition named `X_Bug` is a plausible bug in `X`, which no
specification uses: it shows that the properties can fail.

**SignatureIntake** (run by MCSignatureIntake). Signatures are numbered in chain order.
`WsEvent` is the onLogs callback up to its first await, `WsJobEnds` the end of the handler it
started. `BackfillTick` is the interval's callback up to `getSignaturesForAddress`,
`BackfillListed` its answer with the cursor's update and the loop up to the first handler,
`BackfillJobEnds` the end of that handler and the loop up to the next one or to the end of the
cycle, its trimming and batch size included. `Result` is the end of processSignatureWithRetry:
success, transient (forget, no count), counted, or given up. The handlers themselves are
abstracted to that result. A listing is the chain at some moment between call and answer.
`Restart` empties the memory.

**TxMonitor** (MCTxMonitor). `StartHandler`, `SignatureSent`, `SignatureFails`: the handler
around its one await, ending in `Register` (the `Map.set` over any entry of the same hash).
`TickStart`, `Visit`, `TickEnd`: runTransactionMonitorTick with its live iteration over the map
and its backoff. `ReadReceipt`, `ReadNonce`, `RecheckReceipt`, `Extracted`, `ExtractFails`,
`ExtractImpossible`, `ReadFails`: waitForTransactionAndGetOutput, one read each. `Posted`,
`PostFails`, `PostImpossible`: handleCompletedTransaction, handleFailedTransaction,
sendErrorResponse and executeWithRecovery, by what the call's failure makes of the entry.
`info` says whether the entry the tick holds is still the one in the map. `afloat` are posts
whose caller gave up (withTimeout) or died and that may land later. `cache` is the response
cache.

**ResponsePromise** is the abstract specification: outcomes are final; answers appear, stay and
are true, except errors for requests the signer has excused itself from. TxMonitor implements
it (`ImplementsPromise`) and SourceLegs does (`LegsKeepPromise`), its answers being what
`Answer` computes; both under `excused <- abandoned`, the requests the server gave up on, which
get the error response whatever their transaction came to. Both are checked and proved. BitcoinSigning does not: finding 3 is an answer that is not true.

**HandOver** is the abstract specification of what the handlers rely on: a transaction is in
one pair of hands at a time, and one that was handled or given up is not handed over again in
this boot, unless the intake has forgotten it. SignatureIntake implements it (`HandsOverOnce`)
with each signature's place read off its handlers, its fate and what was trimmed; `OneHandler`
and `NoRehandling` say the same of single states and are proved, not run; `TxStart` of
SourceLegs, which starts a handling only when the one before it has failed, relies on it.

**OutputSerialization** has no state: the serialisers as operators over schemas (empty, text, a
scalar's name, `struct`, array) and outputs (objects, or the object with the key `""` that an
unnamed return value decodes to). borsh and abi-serde are external, modelled by what they
accept and throw on. A value is its name and its type; encoded bytes are the object they decode
to. `Repeats` is the reference: an answer that holds, field by field, what was returned, or the
defaults of a transfer, or whether an error flag was raised.

**SubstrateMonitor** is the queue with the node behind it. A call records which call it awaits
(`after`), its `stage`, its `tries`, and how many of its extrinsics are in the node's pool or in
blocks. `Enqueue` is queueTransaction up to its await, `Accepted`, `Stale`, `SendFails` what
signAndSend does, `InBlock`, `Discarded` and `GoesSilent` what the status callback gets or does
not get, `LandsUnseen` what the node does with an extrinsic whose submission looked failed.

**SourceLegs** (MCSourceLegs) composes SubstrateMonitor and OutputSerialization with the legs
that share `pendingTransactions` and its tick. `TxStart`, `TxParsed`, `TxParseFails`,
`EventHandled`, `EventFails`: processTransaction's loop over the events that parseCpiEvents
keeps. `Deliver`, `DeliveryFails`, `HandlerResumes`, `HandlerTimesOut`: a Substrate event's
handler around its await of the queue. The tick goes over the entries of all sources: `VisitLeaves`
(nothing to post yet), `VisitResponds` (the answer is posted), `VisitGivesUp` (`fatal_error`:
no provider, no output to be had). Then it waits, for Substrate for the queue and without a
timeout, and executeWithRecovery goes on: `Responded` (the entry goes), `ResponseFails` (a
transient error or a timeout: the entry stays), `ResponseImpossible` (isUnrecoverableError: a
success gets the error response instead, a failure gets none and its entry goes). The error
response of a request given up on is its last word (`tick.word`): it is tried once, and
`LastWordFails` says that the entry goes though it failed. `abandoned` are the requests given up
on; `MaxAbandoned` bounds them. What is posted is computed by `Answer`, from the request's schema
and from what became of its transaction. `Decide` is all of the destination chain; its reads, the
backoff and restarts are in TxMonitor.

**WebSocketHealth** is the subscription and the watch over it, in discrete time: `Pass` is one
unit (5 seconds with the code's values) and does not pass a timer that is due. `HealthCheck` is
the interval's callback up to the await of the removal, `Removed` and `RemovalFails` what
follows it, `LateRemoval` a removal that timed out and works after all. `Drops` is a partial
drop: a subscription that delivers nothing and reports nothing.

**ServerLifecycle** (MCServerLifecycle) extends WebSocketHealth to the server from constructor
to the end of shutdown: `Construct`, `Probe`, `ReadState`, `Initialize`, `ElsewhereInitialized`
(another process), `Connect`, `StartMidnight` with the rest of start, which has no await,
`ApiOpens`, `ApiFails`; the wallet with `BuildWallet`, `FacadeStarts`, `Synced`, `BuildFails`;
shutdown with one action per await and the failures of its calls (`UnsubscribeFails`,
`DisconnectFails`, the swallowed one in `FacadeStopped`). `substrate` is the WsProvider, which
the constructor opens and which reconnects by itself; it is `connected` once `api` is set, and
only then does `Disconnected` close it. `Tolerated` keeps of the match on error texts (`server`
479-485) which error it is meant for: that "0x0" also occurs in other codes is abstracted, and so
is a program state that is removed again later.

**SignetProgram** (MCSignetProgram). One action per instruction that touches the account, and
`Donate` for a plain transfer to the PDA. The runtime's rules the code relies on (rent, removal
of empty accounts) are external.

**MidnightMonitor** (MCMidnightMonitor). `chain` is the promise chain of serializeWrite: a
write is queued, flying or stuck, and its caller has been told of a timeout or not. Two callers
(`poller`, `monitor`) go through joining, writing and their continuation. `seen` and `batch`
are the feed and the loop over what it returned. `contract` is the memoised join. The
registered transactions are a set; what the monitor does with one is in TxMonitor.

**BitcoinSigning** (MCBitcoinSigning). `handler` is a handling of a request in its loop over
the inputs; `sets` are the `submittedInputs` sets by position, since handlings keep references
to a set whose entry may be gone. `mon` is the monitor's visit: read the transaction, check the
prevouts, post. The chain of a transaction: the transaction of a prevout not yet known
(`unknown`, until `ParentsAppear`), none of its prevouts spent, spent by it (in the mempool,
mined) or by a rival (replaceable, for good). `network` chooses the adapter: on regtest, Bitcoin
Core, `Spent` also holds of an unknown prevout; otherwise mempool.space, where it does not.
`unseen` are the transactions whose prevouts were unknown when the monitor asked. Posts are as
coarse as their effects on the entry.

How the modules fit together: SignatureIntake hands a signature to a handler and learns how it
ended; SourceLegs has the inside of such a handling and repeats it, as the intake does, after a
failure; the entries the handlings leave are what TxMonitor, BitcoinSigning and MidnightMonitor
follow in detail. ServerLifecycle starts and stops all of it and owns the subscription whose
notifications are SignatureIntake's `WsEvent`: that module lets notifications be lost or repeated
freely, so it holds for any number of subscriptions.


## 3. The runs

| Run | Module, cfg | Bounds | Shows |
|---|---|---|---|
| intake | MCSignatureIntake, Intake | 2 signatures, 2 overlapping cycles, set of 1, listing limit 2 (no listing is cut off), retry cap 2, skip factor 2, 2 failures, 1 restart | refinement of HandOver (one handler, no second handling), the cursor hides nothing unseen, remembered is settled, backfill alone finds every signature whose handler did not fail |
| intake_safety_net | MCSignatureIntake, IntakeSafetyNet | 1 cycle, 1 failure | finding 1 |
| monitor | MCTxMonitor, Monitor | 2 requests that share a transaction, one without a provider, 2 handlings each, 2 failures, 1 restart, extraction cap 2, the first levels of the backoff, period 2 | answers and cache true, removed is answered, decided is answered, refinement of ResponsePromise |
| midnight_writes | MCMidnightMonitor, MidnightWrites | 2 requests, 3 faults, 1 restart, calls that never settle | one writer, one signature per life, every caller and every request concluded |
| midnight_retry | MCMidnightMonitor, MidnightRetry | 1 request, 1 fault | finding 2 |
| bitcoin_signing | MCBitcoinSigning, BitcoinSigning | 2 requests for one transaction of 2 inputs, 2 handlings each, both adapters, prevouts unknown at first, 1 fault | verdicts match the chain as the adapter tells it, no input sent twice, all inputs signed, forgotten is answered, every conclusive transaction judged |
| bitcoin_conflict | MCBitcoinSigning, BitcoinConflict | mempool.space, no fault | finding 3 |
| legs | MCSourceLegs, SourceLegs | a Solana transaction with 2 events among instructions that are dropped, handled up to twice; 2 Substrate events; 1 Midnight request; schemas of three forms; 1 stale retry, 1 fault, 1 request given up on | order and single success of Substrate calls, no event passed over, faithful answers, forgotten is answered or given up, refinement of ResponsePromise, the tick and the Substrate handlers come to rest |
| legs_bool | MCSourceLegs, SourceLegsBool | as above | finding 4 |
| lifecycle | MCServerLifecycle, ServerLifecycle | 5 configurations (three sound, two mistaken), 2 faults (of connects, disconnects and stops among others), the code's times in units of 5 s (3, 2, 6, 1) | one subscription, a dead one replaced in time, a harmless initialisation race, one wallet, a quiet shutdown |
| program | MCSignetProgram, Program | 2 wallets, amounts 0 to 3, rent 2, 6 transactions | books, admin |
| program_init | MCSignetProgram, ProgramInit | as above | finding 5 |

Why the bounds are enough. Two of anything that can interfere are there at once: two cycles and
a subscription for a signature, two requests for a transaction, two callers of the write chain,
two handlings of two requests for one input set, two Substrate events in the queue with the
tick behind them. Each limit of the code is set so low that runs cross it: the processed set is
trimmed with one entry in it, the retry cap, the extraction cap and the limit of stale retries
are reached, the check counts reach the flat end of the backoff they are given, every timer of
the health check comes due before, with and after the others. The listing's limit is the
exception: the intake run lists both signatures at once, since a batch that starts at 1 and grows
makes its liveness property too slow. Of a listing that is cut off, the theorems
`CursorAlwaysCovers` and `AlwaysHandsOverOnce` speak, for any limit; no property claims that what
it cut off is handled, since it is not. Faults
suffice to fail, to fail in the retry, and for one call to fail while another times out. For the
properties with a theorem the bounds do not matter.

Deadlock is not checked: every model stops when the bounds are used up, and the server itself
may rest when nothing is asked of it.

Every property has a mutant in `PROJECT.json`: a plausible bug in one mapped definition
(usually the definition above it named `X_Bug`) with which TLC finds the property violated.

## 4. Fairness

Fairness is assumed of what the event loop and the nodes do by themselves, never of users,
chains, faults, late landings, restarts or new requests.

- SignatureIntake: some cycle starts when the interval fires, each cycle's listing arrives and
  its handler ends, some notification's handler ends. Each RPC call of a handler is bounded by
  `withTimeout`; the failure of a listing is a bounded fault. `EventuallyHandled` is
  `[]<>AllHandled`: however often notifications are lost and the memory with a restart, every
  signature is in the end handled, but for those whose handler failed in this boot (`faulted`;
  finding 1: nobody may find them again) and those a listing cut off (`skipped`).
- TxMonitor: `WF(Monitor)`: the tick goes on. Its calls are bounded by the RPC client's and the
  posts' own timeouts; interval and flag keep exactly one tick going. `EventuallyAnswered` is
  `[]<>AllAnswered`.
- MidnightMonitor: the poll, the join, the start of the first write of the chain and the
  settling of a call that does not hang are fair. `Settle` is not assumed of a call that is
  stuck, nor is a timeout of one that merely flies; `TimesOut` is assumed of a stuck one
  because `timedPost` sets a timer when the write starts. The properties therefore except a
  `Wedged` chain. `WF(ContractJoined)` is an assumption about the wallet and the indexer: the
  join has no timeout in the code.
- BitcoinSigning: every tick goes over the whole map, so `SF(Visit(t))` for each entry (a visit
  is disabled during another one's); reads and posts return. Handlers are not assumed to
  progress.
- SourceLegs: the node answers some call when it can, a handler whose call settled resumes, the
  tick goes on. Nothing is assumed of an extrinsic the node has gone silent about; the property
  `LegsComeToRest` excepts that queue, which is the hazard at
  `modules/SubstrateMonitor.ts` 157.
- ServerLifecycle: none. That a dead subscription is replaced is a bound on its age, counted
  in `silentFor`, and `Pass` (time) waits for callbacks that are due.

## 5. The proofs

All are checked by TLAPS from the named assumptions on the constants (in the module that
declares them) and from the library's theorems about sequences and finite sets. Each proof
module has one inductive invariant, shown kept action by action, and the theorems follow from
it.

- **SignatureIntakeProofs.** `IntakeInv` is the conjunction of types (the processed set has no
  repeats, a loop knows the job it awaits), `HandlingInv` and `CoverInv`. `HandlingInv` relates
  every running handler, of the subscription or of a cycle's loop, to the processed set, to the
  signature's fate and to what was trimmed; without it "not in the set" would not exclude "being
  handled". `CoverInv` says that everything behind the cursor, and behind the `until` of each
  listing that was asked for, was looked at; the cursor alone is not inductive, because an older
  listing may arrive after it. A step that ends a handler and goes on with the loop is taken
  apart into these two. From it: `TypeCorrect`, `AlwaysOneHandler`, `NeverRehandled`,
  `RememberedAlwaysSettled`, `CursorAlwaysCovers`, for any number of signatures, cycles and
  limits. `AlwaysHandsOverOnce` is the refinement of HandOver: `HandlingInv` says of a
  signature that was handled or given up, and not trimmed, that it is in the processed set and
  in nobody's hands, so that no step can start it again; each step is shown to move every
  signature as `After` allows (`PlacingNext`) or to be the restart.
- **TxMonitorProofs.** `MonitorInv` is inductive. The safety properties alone are not: an
  answer is true when it *lands*, so it must be true when it is *sent*, and that depends on a
  read made some actions before. The strengthening says so: `WorkMatches` (the tick works under
  the hash of its request), `ReadsHold` (at each point of the tick what it has read still
  holds, which rests on `Lasting`, the finality of outcomes), `AfloatIsTrue` (a post that may
  still land would be true), `CachedFirst` (the cache is filled before the post is made),
  `EntryKept` (the entry under check is the one that was read, or was displaced by another
  request's). From it: `TypeCorrect`, `AnswersAlwaysTrue`, `CacheAlwaysTrue`,
  `MonitoredAlwaysSigned`, `RemovedAlwaysAnswered` (an action property) and `Implementation`:
  each step is a step of ResponsePromise or a stutter.
- **SourceLegsProofs.** `ChainedCalls` (a call has had its turn only when the one it awaits has
  settled, whatever became of that one), `SoundCalls` (a call has at most one extrinsic, none
  before it is submitted or while it pauses before a retry, one in a block once it is resolved)
  and `TickAwaits` (the call the tick waits for is the answer of the entry it is visiting). From
  it: `AlwaysSentInOrder`, `AlwaysReportedOnce` and the action property `AlwaysLeavesAnswered`.
  `TxTypes` and `HandlerTypes` (a Substrate handler awaits a call that was made, for its own
  event) give `LegsTypeCorrect`. `NeverSkipsAnEvent` is inductive with `TxTypes`, because the
  loop only ever goes to the least event behind the one it stands at; the events of a
  transaction are a set of positions among its instructions, so no induction over data is
  needed.
  `AnswersStand` says that each answer posted, each in the queue and the one the tick is about
  to send are what `Answer` makes of the request's schema and result, which are decided for
  good, or the error answer to a request the server gave up on, which stays given up on;
  `AnswersFaithful` alone is not inductive, because an answer waits in the queue before it
  lands, and the tick may in the meantime have taken to the last word. From it: `AlwaysAnswersFaithful` and `LegsImplementPromise`, each step a step of
  ResponsePromise or a stutter.
- **OutputSerializationProofs.** `AnswerRepeats`: whatever of a successful transaction's output
  can be serialised is answered as no error and repeats the output, by cases on what the
  output is: a transfer, an unnamed value that is unwrapped, an error flag, named fields, and
  Midnight's. Its two hypotheses are what the code needs: the schema is not the word "bool"
  (finding 4), and the output is not taken for a transfer by a returned field with the name the
  server tells one by, nor is that field named by the schema of a transfer (`NamedAsOwn`). `AlwaysAnswersFaithful` cites it.
- **ServerLifecycleProofs.** `LifecycleInv` relates the subscription to the reconnect in flight:
  while the server listens, a reconnect removes the subscription in use, its age and the time to
  the next check add up to the interval (hence no two overlap, given that a removal times out
  before the next check, `ReconnectAssumption`, 5 against 10 seconds), and what else is live is
  a failed removal, of which there are at most as many as faults (hence new ids never run out).
  From shutdown on one more subscription can come, and only from the reconnect that was in
  flight. `PutAway` says what each step of shutdown has left, `Provider` that a server that
  started has a Substrate provider without an api only after a call failed. From it: `TypeCorrect`,
  `AlwaysOneSubscription`, `AlwaysInitRaceIsHarmless`, `AlwaysOneWallet`,
  `AlwaysShutDownIsQuiet`. A second invariant, `Silence`, says that the ages of the last event
  and of the last reconnect have counted the time nothing could be delivered, and how near the
  next check, then how old the removal must be once that time exceeds the check's patience; it
  gives `AlwaysDeadIsReplaced`, a bound in real time for any values of the timers.
- **SignetProgramProofs.** Types, books and funding are inductive together; `ProgramInv`
  is their conjunction, with one lemma per instruction. `AdminAlwaysControls` follows step by
  step.
- **MidnightMonitorProofs.** `MidnightInv` adds to the checked properties `ChainOrder`
  (only the head of the chain has started, only a started write may have been given up, and a
  caller waits for at most one, the one it holds), `OnePlace` (a request is not yet written, in
  one write, or written) and `SignedBefore` (what is about to be registered or answered is
  signed). `OneWriter` and the bound on the queue follow from the first, `SignedOnce` from the
  second, `AlwaysSignedFirst` from the third.
- **BitcoinSigningProofs.** `BitcoinInv` adds `SetsApart` (a set is shared only within one
  transaction; needed because handlings keep a set after its entry is gone), `MarkedIsSigned`
  and `BehindIsSigned` (what a set marks, and what a handling has passed, is signed for the
  transaction), `SharedUntilForgotten` (until the monitor has finished with a transaction its
  handlings use the registered set, and it marks all that was delivered) and `VerdictHolds`
  (what the monitor is about to post still holds; of an error, that the prevouts are spent or were
  `unseen` by Bitcoin Core, both for good). `AllInputsSigned` rests on the first three,
  `NotSentAgain` on the fourth, the verdicts on the last.

`MonitoredAlwaysSigned`, `AlwaysBounded`, `AlwaysSignedFirst`, `StateAlwaysFunded`,
`AlwaysOneHandler`, `NeverRehandled`, `AnswersAlwaysStand` and `AnswerRepeats` state facts no run checks; they are proved only.

Model-checked only: every liveness property (`EventuallyHandled`, `EventuallyAnswered`,
`CallsReturn`, `EventuallyMonitored`, `EventuallyJudged`, `LegsComeToRest`), which with their
fairness are out of the prover's reach, and the five statements of section 6, which fail. Every
other property of a run is the conclusion of a theorem.

## 6. Where the code and its documentation disagree

Each is a run whose counterexample is the behaviour described.

1. `BackfillIsSafetyNet`. The cursor moves to the newest listed signature before any is
   processed (`server` 1241). A signature whose handler fails transiently afterwards is
   forgotten "will retry", but no listing contains it again. The comments at `server` 1196 and
   `events/CpiEventParser.ts` 69 promise the retry.
2. `FailedIsRetried`. The callback given to the Midnight poller catches every error (`server`
   341), so that the poller's `feed.forget` is unreachable and a failed request is never
   handled again. `modules/MidnightMonitor.ts` 346 and 480 promise the retry.
3. `ConflictIsElsewhere`. The Bitcoin monitor takes a spent prevout of an unconfirmed
   transaction for a double spend, also when the transaction itself spends it, in the mempool.
   `modules/bitcoin/BitcoinMonitor.ts` 35 and the signer's README 467 say "spent elsewhere".
4. `ReturnedValueIsReported`. With the schema "bool" serializeBorshOutput decides before it
   unwraps the output (`server` 854): the object with the key `""` that one unnamed return
   value decodes to has neither `error` nor `success`, and a returned false is answered as
   true. `signet-program/programs/signet/src/lib.rs` 699 calls the output the serialized return
   value.
5. `InitializedOnce`. The admin can withdraw all lamports, rent included; the account is
   removed and `initialize` succeeds again. `lib.rs` 18 says "only once".

Observations from reading, which no run states:

- A successful transaction is answered with the 0xDEADBEEF error when its output could not be
  extracted up to the cap, or posting its response failed with an error that
  isUnrecoverableError lists ("already been processed", which a post that did land may get, is
  one of them). That error is tried once and the entry goes whether it arrived or not; an error
  response that fails so goes without another try (`server` 1339-1346, 607-613). Such requests
  are in `abandoned` of TxMonitor and of SourceLegs, and the properties except them.
- Serialisation: the array form of a Borsh schema documented at `evm.rs` 126 has no `struct`,
  borsh throws on it, and the entry is retried for ever; createBorshData merges the output's
  fields where its comments say it selects them.
- Parsing: an event of an unsupported namespace throws and keeps the later events of its
  transaction from ever being reached; an event that does not decode is dropped silently.
- Midnight: the timeout of a write starts when the write does. Behind a call that never
  settles, later writes of both callers wait for good, and with them the transaction monitor's
  tick, for every chain (the `Wedged` exceptions of `CallsReturn` and `EventuallyMonitored`).
  The contract join has no timeout at all.
- Bitcoin: a second request for the same unsigned transaction finds the inputs marked by the
  first and gets neither signatures nor a response of its own (why `AllInputsSigned` and
  `ForgottenIsAnswered` speak of *some* request for the transaction). An entry deleted while a
  handling goes on is registered again by a retry, with an empty set (the `forgotten` exception
  of `NotSentAgain`).
- Bitcoin: gettxout answers null for a spent output and for one whose transaction the node has
  not seen, and `adapters/BitcoinCoreRpcAdapter.ts` 132-133 takes both for spent. On regtest a
  request that comes before the transactions it spends from is answered with an error although
  nothing is spent; `adapters/MempoolSpaceAdapter.ts` 138-141 treats that case "as not spent yet"
  (the `unseen` exception of `ErrorMeansSpent`, which is for that adapter only).
- Substrate: a transaction that gets no status among in block, dropped, invalid and usurped
  holds the queue for good, and with it the tick for every leg; a handler that gave up on its
  signature call does not monitor what that call still delivers; a failed event is never asked
  for again; the event subscription does not deduplicate.
- Health check: a subscription that is dead before anything was ever received is never
  replaced, because the time of the last event is still 0.
- Substrate's connection: the provider opens it in the constructor
  (`modules/SubstrateMonitor.ts` 43) and reconnects by itself, but `disconnect` (429-433) closes
  it only once `api` is set: after a start that failed, or a connect that did, it stays open
  after shutdown. `ShutDownIsQuiet` excepts that case and no other.
- Start and shutdown: `ApiPromise.create` may keep start, and all legs with it, waiting; a port
  conflict exits the process after start has resolved; the trace probe takes a transient error
  for support; an error of `removeOnLogsListener` or of `api.disconnect()` (`server` 1656, 1661) leaves
  shutdown with the rest running, and the first has no timeout there; an error of stopping the
  wallet's facade is swallowed (`modules/MidnightMonitor.ts` 239) and the facade may run on; a
  reconnect in flight during shutdown leaves one live subscription; a wallet build that fails
  after its facade has started leaks the facade.

## 7. What is not modelled

- The bytes of an instruction, an event or a key; key derivation, RLP, PSBT, ABI and hashing:
  pure functions over external libraries. The models keep what they decide (which transaction
  a request signs, whether an output can be extracted, what a schema makes of an output).
- `subscribeToCpiEvents` of `events/CpiEventParser.ts`, which nothing calls, and
  `stripScalePrefix` of the Substrate monitor, a conversion of bytes.
- A block of Substrate that is replaced after an extrinsic was reported in it: the code has no
  handling for it.
- A restart of the Bitcoin leg (its memory is lost with the process as the EVM leg's, which
  TxMonitor has), and its PSBTs and address formats.
- The helper API's HTTP server: its start, port conflict and close are in ServerLifecycle, its
  answers are reads of the cache that TxMonitor fills.
- The parsing of the environment, types, IDL, CLI output, Midnight's providers and seeds: no
  state that changes. Which legs a configuration enables is in ServerLifecycle.
- `evm.rs` (documentation) and the proxy test program.

## 8. Plan

Done, in this order: SignatureIntake; TxMonitor with ResponsePromise and its proofs;
SignetProgram, MidnightMonitor and BitcoinSigning with theirs; OutputSerialization,
SubstrateMonitor and SourceLegs, which composes them with the legs around the tick;
WebSocketHealth and ServerLifecycle; the liveness of the intake under lost notifications; the
proofs about SignatureIntake, SourceLegs and ServerLifecycle; the serialisers proved, SourceLegs
as a refinement of ResponsePromise, SignatureIntake as one of HandOver.

Next:

1. One abstract serial queue that Substrate's promise chain and Midnight's chain of writes both
   implement: one call at a time, in order, a failed one not stopping those behind it.
2. A restart of the Bitcoin leg between two inputs, whose sets are lost with the process.
