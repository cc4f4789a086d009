--------------------------- MODULE WebSocketHealth ---------------------------
(* The subscription to the program's logs and the watch over it (server       *)
(* 1072-1137).  Time is discrete, 5 seconds a unit in the code's values.      *)
(* Ages stop counting where no guard tells them apart any more, and time does *)
(* not pass a timer that is due: callbacks are short against 5 seconds.       *)
EXTENDS Naturals, FiniteSets

CONSTANTS StaleThreshold,  \* WS_STALE_THRESHOLD_MS, 3 units
          CheckInterval,   \* WS_HEALTH_CHECK_INTERVAL_MS, 2 units
          Cooldown,        \* WS_RECONNECT_COOLDOWN_MS, 6 units
          RemovalTimeout,  \* of removeOnLogsListener in reconnectWebSocket, 1 unit
          MaxFaults        \* bound: failures and timeouts of calls

ASSUME HealthAssumption ==
  /\ {StaleThreshold, CheckInterval, Cooldown, RemovalTimeout} \subseteq Nat \ {0}
  /\ MaxFaults \in Nat
\* A reconnect is over when the next check is due.
ASSUME ReconnectAssumption == RemovalTimeout < CheckInterval

VARIABLES subscription, \* cpiSubscriptionId, Null for null
          live,         \* web3.js: the subscriptions whose callback may run
          dead,         \* environment: those of them nothing is delivered to
          sinceEvent,   \* age of lastWebSocketEventTime, Never while it is 0
          sinceReconnect, \* age of lastWsReconnectTime
          checkIn,      \* time to the next health check, Off when there is none
          removing,     \* the reconnects in flight: what each removes, since when
          unremoved,    \* history: live subscriptions whose removal failed
          heard,        \* history: lastWebSocketEventTime was set once
          silentFor,    \* history: for how long nothing could be delivered
          faults        \* history: how many of MaxFaults happened

clock == <<sinceEvent, sinceReconnect, checkIn, heard, silentFor>>
healthVars == <<subscription, live, dead, clock, removing, unremoved, faults>>

Null  == 0
Ids   == 1..(2 * MaxFaults + 3)
Never == StaleThreshold + 2
Off   == CheckInterval + 1

Fault == faults < MaxFaults /\ faults' = faults + 1
Capped(age, cap) == IF age < cap THEN age + 1 ELSE cap

\* The longest a subscription that delivers nothing may stay: until it counts as
\* stale and out of cooldown, to the next check, and for the removal.
ReplacedWithin ==
  (IF Cooldown > StaleThreshold THEN Cooldown ELSE StaleThreshold + 1)
    + CheckInterval - 1 + RemovalTimeout

HealthInit ==
  /\ subscription = Null /\ live = {} /\ dead = {}
  /\ sinceEvent = Never /\ sinceReconnect = Cooldown
  /\ checkIn = Off /\ removing = {} /\ unremoved = {}
  /\ heard = FALSE /\ silentFor = 0
  /\ faults = 0

Fresh == CHOOSE id \in Ids : id \notin live \cup {subscription} \cup {rec.id : rec \in removing}

\* onLogs answers with the id at once; whether anything is ever delivered is up
\* to the network.
subscribeToLogs(kept) ==
  /\ subscription' = Fresh
  /\ live' = kept \cup {Fresh}
  /\ dead' \in {dead \cap kept, (dead \cap kept) \cup {Fresh}}
  /\ silentFor' = 0

\* The onLogs callback, as far as the health check goes.
Notified ==
  /\ live \ dead # {}
  /\ sinceEvent' = 0 /\ heard' = TRUE
  /\ UNCHANGED <<subscription, live, dead, sinceReconnect, checkIn, removing,
                 unremoved, silentFor, faults>>

\* A partial drop: nothing comes any more, nothing is reported.
Drops ==
  /\ \E id \in live \ dead : dead' = dead \cup {id}
  /\ silentFor' = 0
  /\ UNCHANGED <<subscription, live, sinceEvent, sinceReconnect, checkIn, heard,
                 removing, unremoved, faults>>

OutOfCooldown == sinceReconnect >= Cooldown
IsStale == sinceEvent # Never /\ sinceEvent > StaleThreshold

\* startWebSocketHealthCheck's callback; a reconnect starts with the removal of
\* the subscription, which is never null here.
HealthCheck ==
  /\ checkIn = 0
  /\ checkIn' = CheckInterval
  /\ removing' = IF OutOfCooldown /\ IsStale
                 THEN removing \cup {[id |-> subscription, age |-> 0]}
                 ELSE removing
  /\ UNCHANGED <<subscription, live, dead, sinceEvent, sinceReconnect, unremoved,
                 heard, silentFor, faults>>

\* reconnectWebSocket behind its await, whatever became of the removal.
EventAge_Reset == Never
EventAge == 0
Resubscribe(rec, kept) ==
  /\ rec \in removing /\ removing' = removing \ {rec}
  /\ subscribeToLogs(kept)
  /\ sinceEvent' = EventAge /\ sinceReconnect' = 0 /\ heard' = TRUE
  /\ UNCHANGED checkIn

Removed(rec) ==
  /\ Resubscribe(rec, live \ {rec.id})
  /\ UNCHANGED <<unremoved, faults>>
\* An error, or the timeout: the old subscription stays for now.
RemovalFails(rec) ==
  /\ Resubscribe(rec, live)
  /\ Fault /\ unremoved' = unremoved \cup ({rec.id} \cap live)
LateRemoval ==
  /\ \E id \in unremoved :
        /\ live' = live \ {id} /\ dead' = dead \ {id}
        /\ unremoved' = unremoved \ {id}
  /\ UNCHANGED <<subscription, clock, removing, faults>>

TimedOut_Never(rec) == FALSE
TimedOut(rec) == rec.age >= RemovalTimeout

Pass ==
  /\ checkIn # 0
  /\ \A rec \in removing : ~TimedOut(rec)
  /\ checkIn' = IF checkIn = Off THEN Off ELSE checkIn - 1
  /\ sinceEvent' = IF sinceEvent = Never THEN Never
                   ELSE Capped(sinceEvent, StaleThreshold + 1)
  /\ sinceReconnect' = Capped(sinceReconnect, Cooldown)
  /\ removing' = {[rec EXCEPT !.age = Capped(@, RemovalTimeout)] : rec \in removing}
  /\ silentFor' = IF live \ dead = {} /\ heard /\ checkIn # Off
                  THEN Capped(silentFor, ReplacedWithin + 1) ELSE 0
  /\ UNCHANGED <<subscription, live, dead, heard, unremoved, faults>>

Health == \/ Notified \/ Drops \/ HealthCheck \/ LateRemoval \/ Pass
          \/ \E rec \in removing : Removed(rec) \/ RemovalFails(rec)

------------------------------------------------------------------------------
\* OneSubscription: while the server listens, a notification is delivered to one
\* callback only, but for old subscriptions whose removal failed: no reconnect
\* runs into another one (1117-1137, 1100-1115).
OneSubscription == checkIn # Off => live \ unremoved \subseteq {subscription}

\* DeadIsReplaced: once anything was received, a subscription that delivers
\* nothing any more is replaced within ReplacedWithin, over and over, failed
\* removals included (1100-1137).
DeadIsReplaced == checkIn # Off => silentFor <= ReplacedWithin
==============================================================================
