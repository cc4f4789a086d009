--------------------------- MODULE ServerLifecycle ---------------------------
(* ChainSignatureServer from its constructor to the end of shutdown: the legs *)
(* a configuration enables, ensureInitialized against other processes that    *)
(* initialize the program, the subscription of WebSocketHealth, the Midnight  *)
(* responder's wallet, and what shutdown leaves behind.  Work the legs do is  *)
(* in the other modules.                                                      *)
EXTENDS WebSocketHealth

CONSTANT Configs   \* the configurations tried

ASSUME ConfigAssumption ==
  Configs \subseteq [disableSolana : BOOLEAN, credentials : BOOLEAN, substrate : BOOLEAN,
                     indexer : BOOLEAN, contract : BOOLEAN]

VARIABLES config,
          stage,     \* where the constructor and start are
          program,   \* Solana: whether the program state exists
          flying,    \* Solana: an initialize that timed out here may still land
          assumed,   \* history: the RPC refused to say (401)
          traces,    \* EVM RPC: it has debug_traceTransaction
          substrate, \* the Substrate monitor's WsProvider: "opened" by its constructor,
                     \* "connected" once api is set, or "none"
          midnight,  \* midnightMonitor: null, made, or polling
          wallet,    \* responderWalletPromise
          facades,   \* how many wallet facades run
          leaked,    \* history: those of builds, or of stops, that failed
          timers,    \* the intervals of the server, but for the health check
          api,       \* responsesApiServer
          down,      \* where shutdown is
          closing,   \* the subscription shutdown removes
          raced      \* history: a reconnect was in flight during shutdown

startVars == <<config, stage, program, flying, assumed, traces>>
legVars   == <<substrate, midnight, timers, api>>
walletVars == <<wallet, facades, leaked>>
downVars  == <<down, closing, raced>>
vars == <<healthVars, startVars, legVars, walletVars, downVars>>

\* serverConfigSchema: the credentials are required unless Solana is disabled.
Valid(c) == c.disableSolana \/ c.credentials
\* MidnightMonitor.fromServerConfig: half a configuration starts nothing.
HasMidnight(c) == c.indexer /\ c.contract

Init ==
  /\ HealthInit
  /\ config \in Configs
  /\ stage = "new" /\ program \in BOOLEAN /\ flying = FALSE /\ assumed = FALSE
  /\ traces \in BOOLEAN
  /\ substrate = "none" /\ midnight = "null" /\ timers = {} /\ api = "none"
  /\ wallet = "none" /\ facades = 0 /\ leaked = 0
  /\ down = "no" /\ closing = Null /\ raced = FALSE

------------------------------------------------------------------------------
(* The constructor and start.                                                 *)

\* The Substrate monitor's provider connects, and reconnects, from here on.
Construct ==
  /\ stage = "new"
  /\ stage' = IF Valid(config) THEN "probing" ELSE "failed"
  /\ midnight' = IF Valid(config) /\ HasMidnight(config) THEN "made" ELSE "null"
  /\ substrate' = IF Valid(config) /\ config.substrate THEN "opened" ELSE "none"
  /\ UNCHANGED <<healthVars, config, program, flying, assumed, traces, timers, api,
                 walletVars, downVars>>

\* assertDebugTraceSupport: only an answer that the method is missing fails.
Probe ==
  /\ stage = "probing"
  /\ \/ /\ stage' = IF ~traces THEN "failed"
                    ELSE IF config.disableSolana THEN "connecting" ELSE "reading"
        /\ UNCHANGED faults
     \/ /\ ~traces /\ Fault
        /\ stage' = IF config.disableSolana THEN "connecting" ELSE "reading"
  /\ UNCHANGED <<subscription, live, dead, clock, removing, unremoved, config,
                 program, flying, assumed, traces, legVars, walletVars, downVars>>

\* getAccountInfo: an answer, a 401, or an error or timeout.
ReadState ==
  /\ stage = "reading"
  /\ \/ /\ stage' = IF program THEN "connecting" ELSE "initializing"
        /\ UNCHANGED <<assumed, faults>>
     \/ stage' = "connecting" /\ assumed' = TRUE /\ Fault
     \/ stage' = "failed" /\ Fault /\ UNCHANGED assumed
  /\ UNCHANGED <<subscription, live, dead, clock, removing, unremoved, config,
                 program, flying, traces, legVars, walletVars, downVars>>

\* The errors of initialize() that ensureInitialized takes for success.
Tolerated_Timeout(error) == error \in {"already in use", "timeout"}
Tolerated(error) == error = "already in use"
After(error) == IF Tolerated(error) THEN "connecting" ELSE "failed"

\* initialize() is executed, is refused because the account exists, or fails or
\* times out; in the last case it may land later.
Initialize ==
  /\ stage = "initializing"
  /\ \/ /\ stage' = IF program THEN After("already in use") ELSE "connecting"
        /\ program' = TRUE
        /\ UNCHANGED <<flying, faults>>
     \/ /\ Fault /\ stage' = After("timeout") /\ flying' = TRUE /\ UNCHANGED program
     \/ /\ Fault /\ stage' = After("refused") /\ UNCHANGED <<flying, program>>
  /\ UNCHANGED <<subscription, live, dead, clock, removing, unremoved, config,
                 assumed, traces, legVars, walletVars, downVars>>

\* Another process initializes the program, or a call of ours lands late.
ElsewhereInitialized ==
  /\ ~program /\ program' = TRUE /\ flying' = FALSE
  /\ UNCHANGED <<healthVars, config, stage, assumed, traces, legVars, walletVars,
                 downVars>>

\* connectToSubstrate and connectToMidnight: a failure is only logged, one of
\* Substrate's before or after api is set.
Connect ==
  /\ stage = "connecting"
  /\ stage' = "starting"
  /\ \/ /\ substrate' = IF config.substrate THEN "connected" ELSE "none"
        /\ UNCHANGED faults
     \/ config.substrate /\ Fault /\ substrate' \in {"opened", "connected"}
  /\ UNCHANGED <<subscription, live, dead, clock, removing, unremoved, config,
                 program, flying, assumed, traces, midnight, timers, api, walletVars,
                 downVars>>
StartMidnight ==
  /\ stage = "starting"
  /\ stage' = "ready"
  /\ \/ /\ midnight' = IF midnight = "made" THEN "polling" ELSE midnight
        /\ UNCHANGED faults
     \/ midnight = "made" /\ Fault /\ UNCHANGED midnight
  \* The rest of start has no await.
  /\ timers' = {"monitor"} \cup (IF config.disableSolana THEN {} ELSE {"backfill"})
                \cup (IF midnight' = "polling" THEN {"poll"} ELSE {})
  /\ api' = "opening"
  /\ IF config.disableSolana
     THEN UNCHANGED <<subscription, live, dead, silentFor, checkIn>>
     ELSE subscribeToLogs(live) /\ checkIn' = CheckInterval
  /\ UNCHANGED <<sinceEvent, sinceReconnect, heard, removing, unremoved, config,
                 program, flying, assumed, traces, substrate, walletVars, downVars>>

\* startResponsesApi's server listens, or its error handler exits the process.
ApiOpens ==
  /\ api = "opening" /\ api' = "listening"
  /\ UNCHANGED <<healthVars, startVars, substrate, midnight, timers, walletVars,
                 downVars>>
ApiFails ==
  /\ api = "opening" /\ Fault
  /\ stage' = "exited" /\ api' = "none" /\ timers' = {} /\ substrate' = "none"
  /\ midnight' = "null" /\ wallet' = "none" /\ facades' = 0 /\ leaked' = 0
  /\ live' = {} /\ dead' = {} /\ removing' = {} /\ unremoved' = {}
  /\ subscription' = Null /\ checkIn' = Off /\ silentFor' = 0
  /\ sinceEvent' = Never /\ sinceReconnect' = Cooldown /\ heard' = FALSE
  /\ down' = "no" /\ closing' = Null /\ raced' = FALSE
  /\ UNCHANGED <<config, program, flying, assumed, traces>>

Start == Construct \/ Probe \/ ReadState \/ Initialize \/ ElsewhereInitialized
           \/ Connect \/ StartMidnight \/ ApiOpens \/ ApiFails

------------------------------------------------------------------------------
(* The responder's wallet: responderWallet, buildResponderWallet.             *)

\* A request or a response needs the contract, and the contract the wallet.
BuildWallet_Anew ==
  /\ midnight = "polling" /\ down \in {"no", "thrown"}
  /\ wallet' = "building"
  /\ UNCHANGED <<healthVars, startVars, legVars, facades, leaked, downVars>>
BuildWallet ==
  /\ midnight = "polling" /\ wallet = "none"
  /\ wallet' = "building"
  /\ UNCHANGED <<healthVars, startVars, legVars, facades, leaked, downVars>>
FacadeStarts ==
  /\ wallet = "building"
  /\ wallet' = "syncing" /\ facades' = facades + 1
  /\ UNCHANGED <<healthVars, startVars, legVars, leaked, downVars>>
Synced ==
  /\ wallet = "syncing"
  /\ wallet' = "ready"
  /\ UNCHANGED <<healthVars, startVars, legVars, facades, leaked, downVars>>
\* The promise is forgotten, a facade that has started is not stopped.  If stop
\* waits for the promise, it goes on with nothing to stop.
BuildFails ==
  /\ wallet \in {"building", "syncing"} /\ Fault
  /\ wallet' = "none"
  /\ leaked' = IF wallet = "syncing" THEN leaked + 1 ELSE leaked
  /\ IF down = "awaiting wallet" THEN down' = "closing" /\ midnight' = "null"
                                 ELSE UNCHANGED <<down, midnight>>
  /\ UNCHANGED <<subscription, live, dead, clock, removing, unremoved, startVars,
                 substrate, timers, api, facades, closing, raced>>

Wallet == BuildWallet \/ FacadeStarts \/ Synced \/ BuildFails

------------------------------------------------------------------------------
(* shutdown, called once, when start has returned or thrown.                  *)

CheckAfterShutdown_Runs == checkIn
CheckAfterShutdown == Off
Shutdown ==
  /\ stage \in {"ready", "failed"} /\ Valid(config) /\ down = "no"
  /\ timers' = timers \ {"monitor", "backfill"}
  /\ checkIn' = CheckAfterShutdown
  /\ closing' = subscription
  /\ raced' = (removing # {})
  /\ down' = IF subscription # Null THEN "unsubscribing" ELSE "disconnecting"
  /\ UNCHANGED <<subscription, live, dead, sinceEvent, sinceReconnect, heard, silentFor,
                 removing, unremoved, faults, startVars, substrate, midnight, api,
                 walletVars>>

\* removeOnLogsListener without a timeout; an error ends shutdown.
Unsubscribed ==
  /\ down = "unsubscribing"
  /\ live' = live \ {closing} /\ dead' = dead \ {closing}
  /\ unremoved' = unremoved \ {closing}
  /\ subscription' = Null /\ down' = "disconnecting"
  /\ UNCHANGED <<clock, removing, faults, startVars, legVars, walletVars, closing,
                 raced>>
UnsubscribeFails ==
  /\ down = "unsubscribing" /\ Fault
  /\ down' = "thrown"
  /\ UNCHANGED <<subscription, live, dead, clock, removing, unremoved, startVars,
                 legVars, walletVars, closing, raced>>

\* Without an api there is nothing to disconnect, and the provider goes on; an
\* error of api.disconnect() ends shutdown.
Disconnected_NotAtAll ==
  /\ down = "disconnecting" /\ down' = "stopping"
  /\ UNCHANGED <<healthVars, startVars, legVars, walletVars, closing, raced>>
Disconnected ==
  /\ down = "disconnecting"
  /\ substrate' = IF substrate = "connected" THEN "none" ELSE substrate
  /\ down' = "stopping"
  /\ UNCHANGED <<healthVars, startVars, midnight, timers, api, walletVars, closing,
                 raced>>
DisconnectFails ==
  /\ down = "disconnecting" /\ substrate = "connected" /\ Fault
  /\ down' = "thrown"
  /\ UNCHANGED <<subscription, live, dead, clock, removing, unremoved, startVars,
                 legVars, walletVars, closing, raced>>

\* MidnightMonitor.stop up to its first await; without a wallet there is none,
\* and the server forgets the monitor at once.
StopMidnight ==
  /\ down = "stopping"
  /\ timers' = timers \ {"poll"}
  /\ IF midnight # "null" /\ wallet # "none"
     THEN /\ down' = "awaiting wallet" /\ UNCHANGED midnight
     ELSE down' = "closing" /\ midnight' = "null"
  /\ UNCHANGED <<healthVars, startVars, substrate, api, walletVars, closing, raced>>
WalletResolves_Forgets ==
  /\ down = "awaiting wallet" /\ wallet = "ready"
  /\ down' = "stopping facade" /\ wallet' = "none"
  /\ UNCHANGED <<healthVars, startVars, legVars, facades, leaked, closing, raced>>
WalletResolves ==
  /\ down = "awaiting wallet" /\ wallet = "ready"
  /\ down' = "stopping facade"
  /\ UNCHANGED <<healthVars, startVars, legVars, walletVars, closing, raced>>
\* Its promise is forgotten only when stopping the facade has ended, and the
\* monitor with it: nobody can build another wallet in between.  An error of
\* walletFacade.stop() is swallowed: the facade may run on.
FacadeStopped ==
  /\ down = "stopping facade"
  /\ wallet' = "none" /\ midnight' = "null" /\ down' = "closing"
  /\ \/ facades' = facades - 1 /\ UNCHANGED <<leaked, faults>>
     \/ leaked' = leaked + 1 /\ Fault /\ UNCHANGED facades
  /\ UNCHANGED <<subscription, live, dead, clock, removing, unremoved, startVars,
                 substrate, timers, api, closing, raced>>

Closed ==
  /\ down = "closing"
  /\ api' = "none" /\ down' = "done"
  /\ UNCHANGED <<healthVars, startVars, substrate, midnight, timers, walletVars,
                 closing, raced>>

Down == Shutdown \/ Unsubscribed \/ UnsubscribeFails \/ Disconnected \/ DisconnectFails
          \/ StopMidnight \/ WalletResolves \/ FacadeStopped \/ Closed

------------------------------------------------------------------------------
Watch == Health /\ UNCHANGED <<startVars, legVars, walletVars, downVars>>
Next == Start \/ Wallet \/ Down \/ Watch

Spec == Init /\ [][Next]_vars

------------------------------------------------------------------------------
LifecycleTypeOK ==
  /\ subscription \in Ids \cup {Null} /\ dead \subseteq live /\ unremoved \subseteq live
  /\ live \subseteq Ids
  /\ sinceEvent \in 0..Never /\ sinceReconnect \in 0..Cooldown /\ checkIn \in 0..Off
  /\ \A rec \in removing : rec.id \in Ids /\ rec.age \in 0..RemovalTimeout
  /\ Cardinality(removing) <= 1
  /\ stage \in {"new", "probing", "reading", "initializing", "connecting", "starting",
                "ready", "failed", "exited"}
  /\ substrate \in {"none", "opened", "connected"}
  /\ midnight \in {"null", "made", "polling"}
  /\ wallet \in {"none", "building", "syncing", "ready"}
  /\ facades \in 0..(MaxFaults + 1) /\ leaked \in 0..MaxFaults
  /\ api \in {"none", "opening", "listening"}
  /\ down \in {"no", "unsubscribing", "thrown", "disconnecting", "stopping",
               "awaiting wallet", "stopping facade", "closing", "done"}

\* InitRaceIsHarmless: whichever process initializes the program, a server with
\* Solana goes on past ensureInitialized only when it is initialized (or when the
\* RPC refused to say), so that a call that failed or timed out is not taken for
\* the race that was lost; and start gives up only over a configuration, an RPC
\* without traces or a failed call, never because another was faster (432-491).
InitRaceIsHarmless ==
  /\ stage \in {"connecting", "starting", "ready"} /\ ~config.disableSolana
       => program \/ assumed
  /\ stage = "failed" => ~Valid(config) \/ ~traces \/ faults > 0

\* OneWallet: apart from those of failed builds and stops one facade runs, the one
\* stop will find: "memoized.  Torn down by stop" (MidnightMonitor.ts 214-289).
OneWallet == /\ facades - leaked <= 1
             /\ facades > leaked => wallet \in {"syncing", "ready"}

\* ShutDownIsQuiet: after shutdown no callback is registered, no interval set, no
\* wallet running, no connection or port open, but for a subscription whose
\* removal failed, for the one a reconnect made meanwhile, for the facade of a
\* build or a stop that failed, and for the Substrate provider of a server that
\* start gave up on or whose call of connect failed (1640-1677, SubstrateMonitor.ts
\* 42-44 and 429-433, MidnightMonitor.ts 214-247).
ShutDownIsQuiet ==
  down = "done" =>
    /\ live \subseteq unremoved \/ (raced /\ Cardinality(live \ unremoved) = 1)
    /\ timers = {} /\ checkIn = Off /\ api = "none"
    /\ substrate = "none" \/ (substrate = "opened" /\ (stage = "failed" \/ faults > 0))
    /\ facades = leaked /\ wallet = "none"
==============================================================================
