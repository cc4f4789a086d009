------------------------ MODULE ServerLifecycleProofs ------------------------
(* Proofs about ServerLifecycle for all values of the constants: any ratio of *)
(* the timers that lets a removal end before the next check, any number of    *)
(* faults and any configurations.                                             *)
EXTENDS ServerLifecycle, FiniteSetTheorems, TLAPS

Stages == {"new", "probing", "reading", "initializing", "connecting", "starting",
           "ready", "failed", "exited"}
Downs == {"no", "unsubscribing", "thrown", "disconnecting", "stopping",
          "awaiting wallet", "stopping facade", "closing", "done"}

SubTypes ==
  /\ faults \in 0..MaxFaults
  /\ subscription \in Ids \cup {Null} /\ live \subseteq Ids
  /\ dead \subseteq live /\ unremoved \subseteq live
  /\ sinceEvent \in 0..Never /\ sinceReconnect \in 0..Cooldown /\ checkIn \in 0..Off
  /\ removing \subseteq [id : Ids, age : 0..RemovalTimeout]

LegTypes ==
  /\ config \in Configs
  /\ stage \in Stages /\ down \in Downs
  /\ substrate \in {"none", "opened", "connected"}
  /\ midnight \in {"null", "made", "polling"}
  /\ wallet \in {"none", "building", "syncing", "ready"}
  /\ leaked \in 0..faults /\ facades \in Nat
  /\ api \in {"none", "opening", "listening"}
  /\ timers \subseteq {"monitor", "backfill", "poll"}

\* Every started facade is the wallet's or leaked; a wallet has a monitor.
WalletFacts ==
  /\ facades = leaked + (IF wallet \in {"syncing", "ready"} THEN 1 ELSE 0)
  /\ wallet # "none" => midnight = "polling"
  /\ stage = "new" => midnight = "null"

\* While the server listens: the reconnect in flight, if any, removes the
\* subscription, and ends before the next check.
Listening ==
  /\ stage = "ready" /\ down = "no" /\ subscription \in Ids
  /\ live \ unremoved \subseteq {subscription} /\ subscription \notin unremoved
  /\ \A rec \in removing : rec.id = subscription /\ rec.age + checkIn = CheckInterval

\* Subscriptions shutdown has not removed yet: the one it knows of.
Kept == IF down \in {"unsubscribing", "thrown"} THEN {closing} ELSE {}

\* From shutdown on: one more subscription if a reconnect was in flight, and only
\* when that reconnect is over.
Ended ==
  /\ checkIn = Off /\ stage \in {"ready", "failed"}
  /\ removing # {} => raced
  /\ \A rec \in removing : rec.id = closing /\ closing \notin unremoved
  /\ \E id \in Ids : live \ unremoved \subseteq
       Kept \cup (IF raced /\ removing = {} THEN {id} ELSE {})

Subscriptions ==
  /\ \A rec, other \in removing : rec = other
  /\ Cardinality(unremoved) <= faults
  /\ checkIn # Off => Listening
  /\ down # "no" => Ended
  /\ stage # "ready" =>
       /\ subscription = Null /\ live = {} /\ removing = {} /\ checkIn = Off
  /\ stage = "ready" /\ down = "no" /\ checkIn = Off =>
       subscription = Null /\ live = {} /\ removing = {}

\* What each step of shutdown has put out of the way.
PutAway ==
  /\ stage # "ready" => timers = {}
  /\ down # "no" => timers \subseteq {"poll"}
  /\ down \in {"stopping", "awaiting wallet", "stopping facade", "closing", "done"}
       => substrate # "connected" /\ stage \in {"ready", "failed"}
  /\ down \in {"awaiting wallet", "stopping facade", "closing", "done"} => timers = {}
  /\ down = "awaiting wallet" => wallet # "none"
  /\ down = "stopping facade" => wallet = "ready"
  /\ down \in {"closing", "done"} => midnight = "null"
  /\ down = "done" => api = "none"

\* A server that is up has a provider without an api only after a failed connect.
Provider == substrate = "opened" /\ stage \in {"starting", "ready"} => faults > 0

LifecycleInv == /\ SubTypes /\ LegTypes /\ WalletFacts /\ Subscriptions /\ PutAway
                /\ Provider /\ InitRaceIsHarmless

------------------------------------------------------------------------------
LEMMA Units ==
  /\ StaleThreshold \in Nat \ {0} /\ CheckInterval \in Nat \ {0}
  /\ Cooldown \in Nat \ {0} /\ RemovalTimeout \in Nat \ {0} /\ MaxFaults \in Nat
  /\ RemovalTimeout < CheckInterval
  /\ Never = StaleThreshold + 2 /\ Off = CheckInterval + 1
  /\ Null = 0 /\ Ids = 1..(2 * MaxFaults + 3)
  BY HealthAssumption, ReconnectAssumption DEF Never, Off, Null, Ids

\* There is always a new id: what is in use is what could not be removed, one
\* for each fault, and at most two more.
LEMMA FreshIsFree ==
  ASSUME SubTypes, Cardinality(unremoved) <= faults,
         NEW one, NEW other, live \subseteq unremoved \cup {one},
         subscription \in {one, other}, \A rec \in removing : rec.id = one
  PROVE  Fresh \in Ids /\ Fresh \notin live
  <1> DEFINE used == live \cup {subscription} \cup {rec.id : rec \in removing}
             upper == (unremoved \cup {one}) \cup {other}
  <1>1. IsFiniteSet(Ids) /\ Cardinality(Ids) = 2 * MaxFaults + 3
    BY Units, FS_Interval
  <1>2. IsFiniteSet(unremoved) /\ Cardinality(unremoved) \in Nat
    BY <1>1, FS_Subset, FS_CardinalityType DEF SubTypes
  <1>3. /\ IsFiniteSet(unremoved \cup {one})
        /\ Cardinality(unremoved \cup {one}) \in Nat
        /\ Cardinality(unremoved \cup {one}) <= MaxFaults + 1
    <2>1. /\ IsFiniteSet(unremoved \cup {one})
          /\ \/ Cardinality(unremoved \cup {one}) = Cardinality(unremoved)
             \/ Cardinality(unremoved \cup {one}) = Cardinality(unremoved) + 1
      BY <1>2, FS_AddElement
    <2> QED BY <2>1, <1>2, Units DEF SubTypes
  <1>4. /\ IsFiniteSet(upper) /\ Cardinality(upper) <= MaxFaults + 2
    <2>1. /\ IsFiniteSet((unremoved \cup {one}) \cup {other})
          /\ Cardinality((unremoved \cup {one}) \cup {other})
               \in {Cardinality(unremoved \cup {one}), Cardinality(unremoved \cup {one}) + 1}
      BY <1>3, FS_AddElement
    <2> QED BY <2>1, <1>3, Units
  <1>5. used \subseteq upper
    OBVIOUS
  <1>6. ~(Ids \subseteq used)
    <2>1. SUFFICES ASSUME Ids \subseteq upper PROVE FALSE
      BY <1>5
    <2>2. Cardinality(Ids) <= Cardinality(upper) /\ Cardinality(upper) \in Nat
      BY <2>1, <1>4, FS_Subset, FS_CardinalityType
    <2> QED BY <2>2, <1>1, <1>4, Units
  <1>7. \E id \in Ids : id \notin used
    BY <1>6
  <1> QED BY <1>7 DEF Fresh

LEMMA FaultsCount ==
  ASSUME SubTypes, LegTypes, faults' = faults \/ Fault,
         leaked' = leaked \/ leaked' = 0 \/ (leaked' = leaked + 1 /\ Fault)
  PROVE  /\ faults \in Nat /\ faults' \in 0..MaxFaults
         /\ faults <= faults' /\ leaked' \in 0..faults'
  BY Units DEF SubTypes, LegTypes, Fault

LEMMA FiniteSubscriptions ==
  ASSUME SubTypes
  PROVE  /\ IsFiniteSet(unremoved) /\ Cardinality(unremoved) \in Nat
         /\ IsFiniteSet({}) /\ Cardinality({}) = 0
  <1>1. IsFiniteSet(Ids)
    BY Units, FS_Interval
  <1>2. unremoved \subseteq Ids
    BY DEF SubTypes
  <1> QED BY <1>1, <1>2, FS_Subset, FS_CardinalityType, FS_EmptySet

\* Steps that leave the subscriptions alone.
LEMMA SubscriptionsStay ==
  ASSUME SubTypes, LegTypes, Subscriptions, SubTypes',
         UNCHANGED <<subscription, live, removing, unremoved, checkIn, closing, raced>>,
         faults <= faults',
         \/ UNCHANGED <<stage, down>>
         \/ stage # "ready" /\ stage' # "ready" /\ down = "no" /\ down' = "no"
         \/ /\ stage' = stage /\ down # "no" /\ down' # "no"
            /\ down \in {"unsubscribing", "thrown"} => down' \in {"unsubscribing", "thrown"}
  PROVE  Subscriptions'
  <1>1. Cardinality(unremoved') <= faults'
    BY FiniteSubscriptions DEF SubTypes, Subscriptions
  <1>2. /\ \A rec, other \in removing' : rec = other
        /\ stage' # "ready" =>
             subscription' = Null /\ live' = {} /\ removing' = {} /\ checkIn' = Off
        /\ stage' = "ready" /\ down' = "no" /\ checkIn' = Off =>
             subscription' = Null /\ live' = {} /\ removing' = {}
    BY DEF Subscriptions
  <1>3. checkIn' # Off => Listening'
    BY DEF Subscriptions, Listening
  <1>4. ASSUME down' # "no" PROVE Ended'
    <2>1. Ended /\ down # "no" /\ stage' = stage
      BY <1>4 DEF Subscriptions
    <2>2. Kept \subseteq Kept'
      BY DEF Kept
    <2> QED BY <2>1, <2>2 DEF Ended
  <1> QED BY <1>1, <1>2, <1>3, <1>4 DEF Subscriptions

------------------------------------------------------------------------------
(* Start, the wallet and shutdown: each part of the invariant is kept by each *)
(* action.                                                                    *)

LEMMA SubTypesKept ==
  ASSUME LifecycleInv, Start \/ Wallet \/ Down
  PROVE  SubTypes'
  <1>0. SubTypes /\ LegTypes /\ WalletFacts /\ Subscriptions /\ PutAway
    BY DEF LifecycleInv
  <1>1. CASE Construct
    <2>1. UNCHANGED <<faults, subscription, live, dead, unremoved, sinceEvent,
                      sinceReconnect, checkIn, removing>>
      BY <1>1 DEF Construct, HasMidnight, healthVars, clock, walletVars, downVars
    <2> QED BY <1>0, <2>1 DEF SubTypes
  <1>2. CASE Probe
    <2>1. UNCHANGED <<subscription, live, dead, unremoved, sinceEvent, sinceReconnect,
                      checkIn, removing>>
      BY <1>2 DEF Probe, clock, legVars, walletVars, downVars
    <2>2. (faults' = faults \/ Fault) /\ (leaked' = leaked)
      BY <1>2 DEF Probe, clock, legVars, walletVars, downVars
    <2> QED BY <1>0, <2>1, <2>2, FaultsCount DEF SubTypes
  <1>3. CASE ReadState
    <2>1. UNCHANGED <<subscription, live, dead, unremoved, sinceEvent, sinceReconnect,
                      checkIn, removing>>
      BY <1>3 DEF ReadState, clock, legVars, walletVars, downVars
    <2>2. (faults' = faults \/ Fault) /\ (leaked' = leaked)
      BY <1>3 DEF ReadState, clock, legVars, walletVars, downVars
    <2> QED BY <1>0, <2>1, <2>2, FaultsCount DEF SubTypes
  <1>4. CASE Initialize
    <2>1. UNCHANGED <<subscription, live, dead, unremoved, sinceEvent, sinceReconnect,
                      checkIn, removing>>
      BY <1>4 DEF Initialize, After, Tolerated, clock, legVars, walletVars, downVars
    <2>2. (faults' = faults \/ Fault) /\ (leaked' = leaked)
      BY <1>4 DEF Initialize, After, Tolerated, clock, legVars, walletVars, downVars
    <2> QED BY <1>0, <2>1, <2>2, FaultsCount DEF SubTypes
  <1>5. CASE ElsewhereInitialized
    <2>1. UNCHANGED <<faults, subscription, live, dead, unremoved, sinceEvent,
                      sinceReconnect, checkIn, removing>>
      BY <1>5 DEF ElsewhereInitialized, healthVars, clock, legVars, walletVars, downVars
    <2> QED BY <1>0, <2>1 DEF SubTypes
  <1>6. CASE Connect
    <2>1. UNCHANGED <<subscription, live, dead, unremoved, sinceEvent, sinceReconnect,
                      checkIn, removing>>
      BY <1>6 DEF Connect, clock, walletVars, downVars
    <2>2. (faults' = faults \/ Fault) /\ (leaked' = leaked)
      BY <1>6 DEF Connect, clock, walletVars, downVars
    <2> QED BY <1>0, <2>1, <2>2, FaultsCount DEF SubTypes
  <1>7. CASE StartMidnight
    <2>0. ~config.disableSolana => Fresh \in Ids
      <3>1. live = {} /\ removing = {} /\ subscription = Null /\ unremoved = {}
        BY <1>0, <1>7 DEF StartMidnight, Subscriptions, SubTypes
      <3>2. Cardinality(unremoved) <= faults
        BY <1>0 DEF Subscriptions
      <3> QED BY <1>0, <3>1, <3>2, FreshIsFree
    <2>1. UNCHANGED <<sinceEvent, sinceReconnect, removing, unremoved>>
      BY <1>7 DEF StartMidnight
    <2>2. subscription' \in Ids \cup {Null} /\ live' \subseteq Ids
      BY <1>0, <1>7, <2>0 DEF StartMidnight, subscribeToLogs, SubTypes
    <2>3. dead' \subseteq live' /\ unremoved' \subseteq live'
      BY <1>0, <1>7 DEF StartMidnight, subscribeToLogs, SubTypes
    <2>4. (faults' = faults \/ Fault) /\ leaked' = leaked
      BY <1>7 DEF StartMidnight, walletVars
    <2>5. checkIn' \in 0..Off
      BY <1>0, <1>7, Units DEF StartMidnight, SubTypes
    <2> QED BY <1>0, <2>1, <2>2, <2>3, <2>4, <2>5, FaultsCount DEF SubTypes
  <1>8. CASE ApiOpens
    <2>1. UNCHANGED <<faults, subscription, live, dead, unremoved, sinceEvent,
                      sinceReconnect, checkIn, removing>>
      BY <1>8 DEF ApiOpens, healthVars, clock, startVars, walletVars, downVars
    <2> QED BY <1>0, <2>1 DEF SubTypes
  <1>9. CASE ApiFails
    <2>1. (faults' = faults \/ Fault) /\ leaked' = 0
      BY <1>9 DEF ApiFails
    <2>2. /\ subscription' = Null /\ live' = {} /\ dead' = {} /\ unremoved' = {}
          /\ removing' = {} /\ sinceEvent' = Never /\ sinceReconnect' = Cooldown
          /\ checkIn' = Off
      BY <1>9 DEF ApiFails
    <2>3. Never \in 0..Never /\ Cooldown \in 0..Cooldown /\ Off \in 0..Off
      BY Units
    <2> QED BY <1>0, <2>1, <2>2, <2>3, FaultsCount DEF SubTypes
  <1>10. CASE BuildWallet
    <2>1. UNCHANGED <<faults, subscription, live, dead, unremoved, sinceEvent,
                      sinceReconnect, checkIn, removing>>
      BY <1>10 DEF BuildWallet, healthVars, clock, startVars, legVars, downVars
    <2> QED BY <1>0, <2>1 DEF SubTypes
  <1>11. CASE FacadeStarts
    <2>1. UNCHANGED <<faults, subscription, live, dead, unremoved, sinceEvent,
                      sinceReconnect, checkIn, removing>>
      BY <1>11 DEF FacadeStarts, healthVars, clock, startVars, legVars, downVars
    <2> QED BY <1>0, <2>1 DEF SubTypes
  <1>12. CASE Synced
    <2>1. UNCHANGED <<faults, subscription, live, dead, unremoved, sinceEvent,
                      sinceReconnect, checkIn, removing>>
      BY <1>12 DEF Synced, healthVars, clock, startVars, legVars, downVars
    <2> QED BY <1>0, <2>1 DEF SubTypes
  <1>13. CASE BuildFails
    <2>1. UNCHANGED <<subscription, live, dead, unremoved, sinceEvent, sinceReconnect,
                      checkIn, removing>>
      BY <1>13 DEF BuildFails, clock, startVars
    <2>2. (faults' = faults \/ Fault) /\ (leaked' = leaked \/ (leaked' = leaked + 1 /\ Fault))
      BY <1>13 DEF BuildFails, clock, startVars
    <2> QED BY <1>0, <2>1, <2>2, FaultsCount DEF SubTypes
  <1>14. CASE Shutdown
    <2>1. UNCHANGED <<faults, subscription, live, dead, unremoved, sinceEvent,
                      sinceReconnect, removing>>
      BY <1>14 DEF Shutdown, CheckAfterShutdown, startVars, walletVars
    <2>2. checkIn' \in 0..Off
      BY <1>0, <1>14, Units DEF Shutdown, CheckAfterShutdown, SubTypes
    <2> QED BY <1>0, <2>1, <2>2 DEF SubTypes
  <1>15. CASE Unsubscribed
    <2>1. UNCHANGED <<faults, sinceEvent, sinceReconnect, checkIn, removing>>
      BY <1>15 DEF Unsubscribed, clock, startVars, legVars, walletVars
    <2>2. subscription' \in Ids \cup {Null} /\ live' \subseteq Ids
      BY <1>0, <1>15, Units DEF Unsubscribed, SubTypes
    <2>3. dead' \subseteq live' /\ unremoved' \subseteq live'
      BY <1>0, <1>15, Units DEF Unsubscribed, SubTypes
    <2> QED BY <1>0, <2>1, <2>2, <2>3 DEF SubTypes
  <1>16. CASE UnsubscribeFails
    <2>1. UNCHANGED <<subscription, live, dead, unremoved, sinceEvent, sinceReconnect,
                      checkIn, removing>>
      BY <1>16 DEF UnsubscribeFails, clock, startVars, legVars, walletVars
    <2>2. (faults' = faults \/ Fault) /\ (leaked' = leaked)
      BY <1>16 DEF UnsubscribeFails, clock, startVars, legVars, walletVars
    <2> QED BY <1>0, <2>1, <2>2, FaultsCount DEF SubTypes
  <1>17. CASE Disconnected
    <2>1. UNCHANGED <<faults, subscription, live, dead, unremoved, sinceEvent,
                      sinceReconnect, checkIn, removing>>
      BY <1>17 DEF Disconnected, healthVars, clock, startVars, walletVars
    <2> QED BY <1>0, <2>1 DEF SubTypes
  <1>18. CASE StopMidnight
    <2>1. UNCHANGED <<faults, subscription, live, dead, unremoved, sinceEvent,
                      sinceReconnect, checkIn, removing>>
      BY <1>18 DEF StopMidnight, healthVars, clock, startVars, walletVars
    <2> QED BY <1>0, <2>1 DEF SubTypes
  <1>19. CASE WalletResolves
    <2>1. UNCHANGED <<faults, subscription, live, dead, unremoved, sinceEvent,
                      sinceReconnect, checkIn, removing>>
      BY <1>19 DEF WalletResolves, healthVars, clock, startVars, legVars, walletVars
    <2> QED BY <1>0, <2>1 DEF SubTypes
  <1>20. CASE FacadeStopped
    <2>1. UNCHANGED <<subscription, live, dead, unremoved, sinceEvent, sinceReconnect,
                      checkIn, removing>>
      BY <1>20 DEF FacadeStopped, clock, startVars
    <2>2. (faults' = faults \/ Fault) /\ (leaked' = leaked \/ (leaked' = leaked + 1 /\ Fault))
      BY <1>20 DEF FacadeStopped
    <2> QED BY <1>0, <2>1, <2>2, FaultsCount DEF SubTypes
  <1>21. CASE Closed
    <2>1. UNCHANGED <<faults, subscription, live, dead, unremoved, sinceEvent,
                      sinceReconnect, checkIn, removing>>
      BY <1>21 DEF Closed, healthVars, clock, startVars, walletVars
    <2> QED BY <1>0, <2>1 DEF SubTypes
  <1>22. CASE DisconnectFails
    <2>1. UNCHANGED <<subscription, live, dead, unremoved, sinceEvent, sinceReconnect,
                      checkIn, removing>>
      BY <1>22 DEF DisconnectFails, clock, startVars, legVars, walletVars
    <2>2. (faults' = faults \/ Fault) /\ (leaked' = leaked)
      BY <1>22 DEF DisconnectFails, clock, startVars, legVars, walletVars
    <2> QED BY <1>0, <2>1, <2>2, FaultsCount DEF SubTypes
  <1> QED BY <1>1, <1>2, <1>3, <1>4, <1>5, <1>6, <1>7, <1>8, <1>9, <1>10, <1>11, <1>12,
             <1>13, <1>14, <1>15, <1>16, <1>17, <1>18, <1>19, <1>20, <1>21, <1>22
             DEF Start, Wallet, Down

LEMMA LegTypesKept ==
  ASSUME LifecycleInv, Start \/ Wallet \/ Down
  PROVE  LegTypes'
  <1>0. SubTypes /\ LegTypes /\ WalletFacts /\ Subscriptions /\ PutAway
    BY DEF LifecycleInv
  <1>1. CASE Construct
    <2>1. UNCHANGED <<config, down, wallet, leaked, faults, facades, api, timers>>
      BY <1>1 DEF Construct, HasMidnight, healthVars, clock, walletVars, downVars
    <2>2. stage' \in Stages
      BY <1>0, <1>1 DEF Construct, HasMidnight, LegTypes, Stages
    <2>3. midnight' \in {"null", "made", "polling"}
      BY <1>0, <1>1 DEF Construct, HasMidnight, LegTypes
    <2>4. substrate' \in {"none", "opened", "connected"}
      BY <1>1 DEF Construct
    <2> QED BY <1>0, <2>1, <2>2, <2>3, <2>4 DEF LegTypes
  <1>2. CASE Probe
    <2>1. UNCHANGED <<config, down, substrate, midnight, wallet, leaked, facades, api,
                      timers>>
      BY <1>2 DEF Probe, clock, legVars, walletVars, downVars
    <2>2. stage' \in Stages
      BY <1>0, <1>2 DEF Probe, Fault, LegTypes, Stages
    <2>3. (faults' = faults \/ Fault) /\ (leaked' = leaked)
      BY <1>2 DEF Probe, clock, legVars, walletVars, downVars
    <2> QED BY <1>0, <2>1, <2>2, <2>3, FaultsCount DEF LegTypes
  <1>3. CASE ReadState
    <2>1. UNCHANGED <<config, down, substrate, midnight, wallet, leaked, facades, api,
                      timers>>
      BY <1>3 DEF ReadState, clock, legVars, walletVars, downVars
    <2>2. stage' \in Stages
      BY <1>0, <1>3 DEF ReadState, Fault, LegTypes, Stages
    <2>3. (faults' = faults \/ Fault) /\ (leaked' = leaked)
      BY <1>3 DEF ReadState, clock, legVars, walletVars, downVars
    <2> QED BY <1>0, <2>1, <2>2, <2>3, FaultsCount DEF LegTypes
  <1>4. CASE Initialize
    <2>1. UNCHANGED <<config, down, substrate, midnight, wallet, leaked, facades, api,
                      timers>>
      BY <1>4 DEF Initialize, After, Tolerated, clock, legVars, walletVars, downVars
    <2>2. stage' \in Stages
      BY <1>0, <1>4 DEF Initialize, After, Tolerated, Fault, LegTypes, Stages
    <2>3. (faults' = faults \/ Fault) /\ (leaked' = leaked)
      BY <1>4 DEF Initialize, After, Tolerated, clock, legVars, walletVars, downVars
    <2> QED BY <1>0, <2>1, <2>2, <2>3, FaultsCount DEF LegTypes
  <1>5. CASE ElsewhereInitialized
    <2>1. UNCHANGED <<config, stage, down, substrate, midnight, wallet, leaked, faults,
                      facades, api, timers>>
      BY <1>5 DEF ElsewhereInitialized, healthVars, clock, legVars, walletVars, downVars
    <2> QED BY <1>0, <2>1 DEF LegTypes
  <1>6. CASE Connect
    <2>1. UNCHANGED <<config, down, midnight, wallet, leaked, facades, api, timers>>
      BY <1>6 DEF Connect, clock, walletVars, downVars
    <2>2. stage' \in Stages
      BY <1>0, <1>6 DEF Connect, Fault, LegTypes, Stages
    <2>3. substrate' \in {"none", "opened", "connected"}
      BY <1>0, <1>6 DEF Connect, Fault, LegTypes
    <2>4. (faults' = faults \/ Fault) /\ (leaked' = leaked)
      BY <1>6 DEF Connect, clock, walletVars, downVars
    <2> QED BY <1>0, <2>1, <2>2, <2>3, <2>4, FaultsCount DEF LegTypes
  <1>7. CASE StartMidnight
    <2>1. UNCHANGED <<config, down, substrate, wallet, leaked, facades>>
      BY <1>7 DEF StartMidnight, walletVars, downVars
    <2>2. stage' = "ready" /\ api' = "opening" /\ (faults' = faults \/ Fault)
      BY <1>7 DEF StartMidnight
    <2>3. midnight' \in {"null", "made", "polling"}
      BY <1>0, <1>7 DEF StartMidnight, LegTypes
    <2>4. timers' \subseteq {"monitor", "backfill", "poll"}
      BY <1>7 DEF StartMidnight
    <2> QED BY <1>0, <2>1, <2>2, <2>3, <2>4, FaultsCount DEF LegTypes, Stages
  <1>8. CASE ApiOpens
    <2>1. UNCHANGED <<config, stage, down, substrate, midnight, wallet, leaked, faults,
                      facades, timers>>
      BY <1>8 DEF ApiOpens, healthVars, clock, startVars, walletVars, downVars
    <2>2. api' \in {"none", "opening", "listening"}
      BY <1>0, <1>8 DEF ApiOpens, LegTypes
    <2> QED BY <1>0, <2>1, <2>2 DEF LegTypes
  <1>9. CASE ApiFails
    <2>1. config' = config /\ faults' = faults + 1 /\ Fault /\ leaked' = 0 /\ facades' = 0
      BY <1>9 DEF ApiFails, Fault
    <2>2. /\ stage' = "exited" /\ down' = "no" /\ substrate' = "none" /\ midnight' = "null"
          /\ wallet' = "none" /\ api' = "none" /\ timers' = {}
      BY <1>9 DEF ApiFails
    <2> QED BY <1>0, <2>1, <2>2, FaultsCount DEF LegTypes, Stages, Downs
  <1>10. CASE BuildWallet
    <2>1. UNCHANGED <<config, stage, down, substrate, midnight, leaked, faults, facades,
                      api, timers>>
      BY <1>10 DEF BuildWallet, healthVars, clock, startVars, legVars, downVars
    <2>2. wallet' \in {"none", "building", "syncing", "ready"}
      BY <1>0, <1>10 DEF BuildWallet, LegTypes
    <2> QED BY <1>0, <2>1, <2>2 DEF LegTypes
  <1>11. CASE FacadeStarts
    <2>1. UNCHANGED <<config, stage, down, substrate, midnight, leaked, faults, api,
                      timers>>
      BY <1>11 DEF FacadeStarts, healthVars, startVars, legVars, downVars
    <2>2. wallet' = "syncing" /\ facades' = facades + 1
      BY <1>11 DEF FacadeStarts
    <2> QED BY <1>0, <2>1, <2>2 DEF LegTypes
  <1>12. CASE Synced
    <2>1. UNCHANGED <<config, stage, down, substrate, midnight, leaked, faults, facades,
                      api, timers>>
      BY <1>12 DEF Synced, healthVars, clock, startVars, legVars, downVars
    <2>2. wallet' \in {"none", "building", "syncing", "ready"}
      BY <1>0, <1>12 DEF Synced, LegTypes
    <2> QED BY <1>0, <2>1, <2>2 DEF LegTypes
  <1>13. CASE BuildFails
    <2>1. UNCHANGED <<config, stage, substrate, facades, api, timers>>
      BY <1>13 DEF BuildFails, clock, startVars
    <2>2. down' \in Downs
      BY <1>0, <1>13 DEF BuildFails, Fault, LegTypes, Downs
    <2>3. midnight' \in {"null", "made", "polling"}
      BY <1>0, <1>13 DEF BuildFails, Fault, LegTypes
    <2>4. wallet' \in {"none", "building", "syncing", "ready"}
      BY <1>0, <1>13 DEF BuildFails, Fault, LegTypes
    <2>5. (faults' = faults \/ Fault) /\ (leaked' = leaked \/ (leaked' = leaked + 1 /\ Fault))
      BY <1>13 DEF BuildFails, clock, startVars
    <2> QED BY <1>0, <2>1, <2>2, <2>3, <2>4, <2>5, FaultsCount DEF LegTypes
  <1>14. CASE Shutdown
    <2>1. UNCHANGED <<config, stage, substrate, midnight, wallet, leaked, faults,
                      facades, api>>
      BY <1>14 DEF Shutdown, CheckAfterShutdown, startVars, walletVars
    <2>2. down' \in Downs
      BY <1>0, <1>14 DEF Shutdown, CheckAfterShutdown, LegTypes, Downs
    <2>3. timers' \subseteq {"monitor", "backfill", "poll"}
      BY <1>0, <1>14 DEF Shutdown, CheckAfterShutdown, LegTypes
    <2> QED BY <1>0, <2>1, <2>2, <2>3 DEF LegTypes
  <1>15. CASE Unsubscribed
    <2>1. UNCHANGED <<config, stage, substrate, midnight, wallet, leaked, faults,
                      facades, api, timers>>
      BY <1>15 DEF Unsubscribed, clock, startVars, legVars, walletVars
    <2>2. down' \in Downs
      BY <1>0, <1>15 DEF Unsubscribed, LegTypes, Downs
    <2> QED BY <1>0, <2>1, <2>2 DEF LegTypes
  <1>16. CASE UnsubscribeFails
    <2>1. UNCHANGED <<config, stage, substrate, midnight, wallet, leaked, facades, api,
                      timers>>
      BY <1>16 DEF UnsubscribeFails, clock, startVars, legVars, walletVars
    <2>2. down' \in Downs
      BY <1>0, <1>16 DEF UnsubscribeFails, Fault, LegTypes, Downs
    <2>3. (faults' = faults \/ Fault) /\ (leaked' = leaked)
      BY <1>16 DEF UnsubscribeFails, clock, startVars, legVars, walletVars
    <2> QED BY <1>0, <2>1, <2>2, <2>3, FaultsCount DEF LegTypes
  <1>17. CASE Disconnected
    <2>1. UNCHANGED <<config, stage, midnight, wallet, leaked, faults, facades, api,
                      timers>>
      BY <1>17 DEF Disconnected, healthVars, clock, startVars, walletVars
    <2>2. down' \in Downs
      BY <1>0, <1>17 DEF Disconnected, LegTypes, Downs
    <2>3. substrate' \in {"none", "opened", "connected"}
      BY <1>0, <1>17 DEF Disconnected, LegTypes
    <2> QED BY <1>0, <2>1, <2>2, <2>3 DEF LegTypes
  <1>18. CASE StopMidnight
    <2>1. UNCHANGED <<config, stage, substrate, wallet, leaked, faults, facades, api>>
      BY <1>18 DEF StopMidnight, healthVars, clock, startVars, walletVars
    <2>2. down' \in Downs
      BY <1>0, <1>18 DEF StopMidnight, LegTypes, Downs
    <2>3. midnight' \in {"null", "made", "polling"}
      BY <1>0, <1>18 DEF StopMidnight, LegTypes
    <2>4. timers' \subseteq {"monitor", "backfill", "poll"}
      BY <1>0, <1>18 DEF StopMidnight, LegTypes
    <2> QED BY <1>0, <2>1, <2>2, <2>3, <2>4 DEF LegTypes
  <1>19. CASE WalletResolves
    <2>1. UNCHANGED <<config, stage, substrate, midnight, wallet, leaked, faults,
                      facades, api, timers>>
      BY <1>19 DEF WalletResolves, healthVars, clock, startVars, legVars, walletVars
    <2>2. down' \in Downs
      BY <1>0, <1>19 DEF WalletResolves, LegTypes, Downs
    <2> QED BY <1>0, <2>1, <2>2 DEF LegTypes
  <1>20. CASE FacadeStopped
    <2>1. UNCHANGED <<config, stage, substrate, api, timers>>
      BY <1>20 DEF FacadeStopped, startVars
    <2>2. wallet' = "none" /\ midnight' = "null" /\ down' = "closing"
      BY <1>20 DEF FacadeStopped
    <2>3. (faults' = faults \/ Fault) /\ (leaked' = leaked \/ (leaked' = leaked + 1 /\ Fault))
      BY <1>20 DEF FacadeStopped
    <2>4. facades' \in Nat
      <3>1. (facades' = facades - 1 \/ facades' = facades) /\ wallet = "ready"
        BY <1>0, <1>20 DEF FacadeStopped, PutAway
      <3>2. facades = leaked + 1
        BY <1>0, <3>1 DEF WalletFacts
      <3>3. leaked \in Nat
        BY <1>0, Units DEF LegTypes, SubTypes
      <3> QED BY <3>1, <3>2, <3>3
    <2> QED BY <1>0, <2>1, <2>2, <2>3, <2>4, FaultsCount DEF LegTypes, Downs
  <1>21. CASE Closed
    <2>1. UNCHANGED <<config, stage, substrate, midnight, wallet, leaked, faults,
                      facades, timers>>
      BY <1>21 DEF Closed, healthVars, clock, startVars, walletVars
    <2>2. down' \in Downs
      BY <1>0, <1>21 DEF Closed, LegTypes, Downs
    <2>3. api' \in {"none", "opening", "listening"}
      BY <1>0, <1>21 DEF Closed, LegTypes
    <2> QED BY <1>0, <2>1, <2>2, <2>3 DEF LegTypes
  <1>22. CASE DisconnectFails
    <2>1. UNCHANGED <<config, stage, substrate, midnight, wallet, leaked, facades, api,
                      timers>>
      BY <1>22 DEF DisconnectFails, clock, startVars, legVars, walletVars
    <2>2. down' \in Downs
      BY <1>0, <1>22 DEF DisconnectFails, Fault, LegTypes, Downs
    <2>3. (faults' = faults \/ Fault) /\ (leaked' = leaked)
      BY <1>22 DEF DisconnectFails, clock, startVars, legVars, walletVars
    <2> QED BY <1>0, <2>1, <2>2, <2>3, FaultsCount DEF LegTypes
  <1> QED BY <1>1, <1>2, <1>3, <1>4, <1>5, <1>6, <1>7, <1>8, <1>9, <1>10, <1>11, <1>12,
             <1>13, <1>14, <1>15, <1>16, <1>17, <1>18, <1>19, <1>20, <1>21, <1>22
             DEF Start, Wallet, Down

LEMMA WalletFactsKept ==
  ASSUME LifecycleInv, Start \/ Wallet \/ Down
  PROVE  WalletFacts'
  <1>0. SubTypes /\ LegTypes /\ WalletFacts /\ PutAway
    BY DEF LifecycleInv
  <1>1. CASE Construct
    <2>1. /\ UNCHANGED <<facades, leaked, wallet>> /\ stage = "new" /\ stage' # "new"
      BY <1>1 DEF Construct, walletVars
    <2> QED BY <1>0, <2>1 DEF WalletFacts
  <1>2. CASE Probe
    BY <1>0, <1>2, Units DEF Probe, Fault, clock, legVars, walletVars, downVars,
       SubTypes, LegTypes, Stages, Downs, WalletFacts, PutAway
  <1>3. CASE ReadState
    BY <1>0, <1>3, Units DEF ReadState, Fault, clock, legVars, walletVars, downVars,
       SubTypes, LegTypes, Stages, Downs, WalletFacts, PutAway
  <1>4. CASE Initialize
    BY <1>0, <1>4, Units DEF Initialize, After, Tolerated, Fault, clock, legVars,
       walletVars, downVars, SubTypes, LegTypes, Stages, Downs, WalletFacts, PutAway
  <1>5. CASE ElsewhereInitialized
    BY <1>0, <1>5, Units DEF ElsewhereInitialized, healthVars, clock, legVars,
       walletVars, downVars, SubTypes, LegTypes, Stages, Downs, WalletFacts, PutAway
  <1>6. CASE Connect
    BY <1>0, <1>6, Units DEF Connect, Fault, clock, walletVars, downVars, SubTypes,
       LegTypes, Stages, Downs, WalletFacts, PutAway
  <1>7. CASE StartMidnight
    BY <1>0, <1>7, Units DEF StartMidnight, subscribeToLogs, Fault, walletVars,
       downVars, SubTypes, LegTypes, Stages, Downs, WalletFacts, PutAway
  <1>8. CASE ApiOpens
    BY <1>0, <1>8, Units DEF ApiOpens, healthVars, clock, startVars, walletVars,
       downVars, SubTypes, LegTypes, Stages, Downs, WalletFacts, PutAway
  <1>9. CASE ApiFails
    <2>1. facades' = 0 /\ leaked' = 0 /\ wallet' = "none" /\ midnight' = "null"
      BY <1>9 DEF ApiFails
    <2> QED BY <2>1 DEF WalletFacts
  <1>10. CASE BuildWallet
    BY <1>0, <1>10, Units DEF BuildWallet, healthVars, clock, startVars, legVars,
       downVars, SubTypes, LegTypes, Stages, Downs, WalletFacts, PutAway
  <1>11. CASE FacadeStarts
    <2>1. /\ wallet = "building" /\ wallet' = "syncing" /\ facades' = facades + 1
          /\ UNCHANGED <<leaked, stage, midnight>>
      BY <1>11 DEF FacadeStarts, startVars, legVars
    <2>2. leaked \in Int
      BY <1>0, Units DEF LegTypes, SubTypes
    <2>3. facades = leaked + 0
      BY <1>0, <2>1 DEF WalletFacts
    <2> QED BY <1>0, <2>1, <2>2, <2>3 DEF WalletFacts
  <1>12. CASE Synced
    BY <1>0, <1>12, Units DEF Synced, healthVars, clock, startVars, legVars, downVars,
       SubTypes, LegTypes, Stages, Downs, WalletFacts, PutAway
  <1>13. CASE BuildFails
    <2>1. /\ wallet \in {"building", "syncing"} /\ wallet' = "none"
          /\ UNCHANGED <<facades, stage>>
          /\ leaked' = IF wallet = "syncing" THEN leaked + 1 ELSE leaked
      BY <1>13 DEF BuildFails, startVars
    <2>2. midnight = "polling"
      BY <1>0, <2>1 DEF WalletFacts
    <2>3. facades' = leaked'
      BY <1>0, <2>1 DEF WalletFacts
    <2>4. leaked' \in Int /\ leaked' + 0 = leaked'
      BY <1>0, <2>1, Units DEF LegTypes, SubTypes
    <2>5. stage # "new"
      BY <1>0, <2>2 DEF WalletFacts
    <2> QED BY <2>1, <2>3, <2>4, <2>5 DEF WalletFacts
  <1>14. CASE Shutdown
    BY <1>0, <1>14, Units DEF Shutdown, CheckAfterShutdown, startVars, walletVars,
       SubTypes, LegTypes, Stages, Downs, WalletFacts, PutAway
  <1>15. CASE Unsubscribed
    BY <1>0, <1>15, Units DEF Unsubscribed, clock, startVars, legVars, walletVars,
       SubTypes, LegTypes, Stages, Downs, WalletFacts, PutAway
  <1>16. CASE UnsubscribeFails
    BY <1>0, <1>16, Units DEF UnsubscribeFails, Fault, clock, startVars, legVars,
       walletVars, SubTypes, LegTypes, Stages, Downs, WalletFacts, PutAway
  <1>17. CASE Disconnected
    BY <1>0, <1>17, Units DEF Disconnected, healthVars, clock, startVars, walletVars,
       SubTypes, LegTypes, Stages, Downs, WalletFacts, PutAway
  <1>18. CASE StopMidnight
    BY <1>0, <1>18, Units DEF StopMidnight, healthVars, clock, startVars, walletVars,
       SubTypes, LegTypes, Stages, Downs, WalletFacts, PutAway
  <1>19. CASE WalletResolves
    BY <1>0, <1>19, Units DEF WalletResolves, healthVars, clock, startVars, legVars,
       walletVars, SubTypes, LegTypes, Stages, Downs, WalletFacts, PutAway
  <1>20. CASE FacadeStopped
    <2>1. /\ wallet' = "none" /\ midnight' = "null" /\ down = "stopping facade"
          /\ \/ facades' = facades - 1 /\ leaked' = leaked
             \/ facades' = facades /\ leaked' = leaked + 1
      BY <1>20 DEF FacadeStopped
    <2>2. wallet = "ready"
      BY <1>0, <2>1 DEF PutAway
    <2>3. facades = leaked + 1 /\ leaked \in Int
      BY <1>0, <2>2, Units DEF WalletFacts, LegTypes, SubTypes
    <2>4. facades' = leaked' + 0
      <3>1. CASE facades' = facades - 1 /\ leaked' = leaked
        BY <2>3, <3>1
      <3>2. CASE facades' = facades /\ leaked' = leaked + 1
        BY <2>3, <3>2
      <3> QED BY <2>1, <3>1, <3>2
    <2> QED BY <2>1, <2>4 DEF WalletFacts
  <1>21. CASE Closed
    BY <1>0, <1>21, Units DEF Closed, healthVars, clock, startVars, walletVars,
       SubTypes, LegTypes, Stages, Downs, WalletFacts, PutAway
  <1>22. CASE DisconnectFails
    BY <1>0, <1>22, Units DEF DisconnectFails, Fault, clock, startVars, legVars,
       walletVars, SubTypes, LegTypes, Stages, Downs, WalletFacts, PutAway
  <1> QED BY <1>1, <1>2, <1>3, <1>4, <1>5, <1>6, <1>7, <1>8, <1>9, <1>10, <1>11, <1>12,
             <1>13, <1>14, <1>15, <1>16, <1>17, <1>18, <1>19, <1>20, <1>21, <1>22
             DEF Start, Wallet, Down

LEMMA SubscriptionsKept ==
  ASSUME LifecycleInv, Start \/ Wallet \/ Down
  PROVE  Subscriptions'
  <1>0. SubTypes /\ LegTypes /\ Subscriptions /\ PutAway /\ SubTypes'
    BY SubTypesKept DEF LifecycleInv
  <1>1. CASE Construct
    BY <1>0, <1>1, Units DEF Construct, HasMidnight, healthVars, clock, walletVars,
       downVars, SubTypes, LegTypes, Stages, Downs, Subscriptions, Listening, Ended,
       Kept, PutAway
  <1>2. CASE Probe
    <2>1. /\ UNCHANGED <<subscription, live, removing, unremoved, checkIn, closing, raced>>
          /\ faults' = faults \/ Fault
      BY <1>2 DEF Probe, clock, downVars
    <2>2. stage = "probing" /\ stage' # "ready" /\ down' = down
      BY <1>2 DEF Probe, clock, downVars
    <2>3. faults <= faults'
      BY <1>0, <2>1, Units DEF SubTypes, Fault
    <2> QED BY <1>0, <2>1, <2>2, <2>3, SubscriptionsStay DEF Subscriptions, Ended
  <1>3. CASE ReadState
    <2>1. /\ UNCHANGED <<subscription, live, removing, unremoved, checkIn, closing, raced>>
          /\ faults' = faults \/ Fault
      BY <1>3 DEF ReadState, clock, downVars
    <2>2. stage = "reading" /\ stage' # "ready" /\ down' = down
      BY <1>3 DEF ReadState, clock, downVars
    <2>3. faults <= faults'
      BY <1>0, <2>1, Units DEF SubTypes, Fault
    <2> QED BY <1>0, <2>1, <2>2, <2>3, SubscriptionsStay DEF Subscriptions, Ended
  <1>4. CASE Initialize
    <2>1. /\ UNCHANGED <<subscription, live, removing, unremoved, checkIn, closing, raced>>
          /\ faults' = faults \/ Fault
      BY <1>4 DEF Initialize, clock, downVars, After, Tolerated
    <2>2. stage = "initializing" /\ stage' # "ready" /\ down' = down
      BY <1>4 DEF Initialize, clock, downVars, After, Tolerated
    <2>3. faults <= faults'
      BY <1>0, <2>1, Units DEF SubTypes, Fault
    <2> QED BY <1>0, <2>1, <2>2, <2>3, SubscriptionsStay DEF Subscriptions, Ended
  <1>5. CASE ElsewhereInitialized
    BY <1>0, <1>5, Units DEF ElsewhereInitialized, healthVars, clock, legVars,
       walletVars, downVars, SubTypes, LegTypes, Stages, Downs, Subscriptions,
       Listening, Ended, Kept, PutAway
  <1>6. CASE Connect
    <2>1. /\ UNCHANGED <<subscription, live, removing, unremoved, checkIn, closing, raced>>
          /\ faults' = faults \/ Fault
      BY <1>6 DEF Connect, clock, downVars
    <2>2. stage = "connecting" /\ stage' # "ready" /\ down' = down
      BY <1>6 DEF Connect, clock, downVars
    <2>3. faults <= faults'
      BY <1>0, <2>1, Units DEF SubTypes, Fault
    <2> QED BY <1>0, <2>1, <2>2, <2>3, SubscriptionsStay DEF Subscriptions, Ended
  <1>7. CASE StartMidnight
    <2>1. /\ stage = "starting" /\ stage' = "ready" /\ UNCHANGED <<removing, unremoved,
                                                                   down>>
      BY <1>7 DEF StartMidnight, downVars
    <2>2. /\ live = {} /\ removing = {} /\ subscription = Null /\ checkIn = Off
          /\ down = "no" /\ unremoved = {}
      BY <1>0, <2>1 DEF Subscriptions, Ended, SubTypes
    <2>3. Cardinality(unremoved') <= faults'
      BY <1>0, <2>1, <2>2, FiniteSubscriptions DEF SubTypes
    <2>4. CASE config.disableSolana
      <3>1. UNCHANGED <<subscription, live, checkIn>>
        BY <1>7, <2>4 DEF StartMidnight
      <3> QED BY <2>1, <2>2, <2>3, <3>1 DEF Subscriptions
    <2>5. CASE ~config.disableSolana
      <3>1. subscription' = Fresh /\ live' = {Fresh} /\ checkIn' = CheckInterval
        BY <1>7, <2>2, <2>5 DEF StartMidnight, subscribeToLogs
      <3>2. Fresh \in Ids
        BY <1>0, <2>2, FreshIsFree DEF Subscriptions
      <3>3. checkIn' # Off
        BY <3>1, Units
      <3> QED BY <2>1, <2>2, <2>3, <3>1, <3>2, <3>3 DEF Subscriptions, Listening
    <2> QED BY <2>4, <2>5
  <1>8. CASE ApiOpens
    BY <1>0, <1>8, Units DEF ApiOpens, healthVars, clock, startVars, walletVars,
       downVars, SubTypes, LegTypes, Stages, Downs, Subscriptions, Listening, Ended,
       Kept, PutAway
  <1>9. CASE ApiFails
    <2>1. /\ stage' = "exited" /\ down' = "no" /\ subscription' = Null /\ live' = {}
          /\ removing' = {} /\ unremoved' = {} /\ checkIn' = Off
      BY <1>9 DEF ApiFails
    <2>2. Cardinality(unremoved') <= faults'
      BY <1>0, <2>1, FiniteSubscriptions DEF SubTypes
    <2> QED BY <2>1, <2>2 DEF Subscriptions
  <1>10. CASE BuildWallet
    BY <1>0, <1>10, Units DEF BuildWallet, healthVars, clock, startVars, legVars,
       downVars, SubTypes, LegTypes, Stages, Downs, Subscriptions, Listening, Ended,
       Kept, PutAway
  <1>11. CASE FacadeStarts
    BY <1>0, <1>11, Units DEF FacadeStarts, healthVars, clock, startVars, legVars,
       downVars, SubTypes, LegTypes, Stages, Downs, Subscriptions, Listening, Ended,
       Kept, PutAway
  <1>12. CASE Synced
    BY <1>0, <1>12, Units DEF Synced, healthVars, clock, startVars, legVars, downVars,
       SubTypes, LegTypes, Stages, Downs, Subscriptions, Listening, Ended, Kept, PutAway
  <1>13. CASE BuildFails
    <2>1. /\ UNCHANGED <<subscription, live, removing, unremoved, checkIn, closing, raced>>
          /\ faults' = faults \/ Fault
      BY <1>13 DEF BuildFails, clock, startVars
    <2>2. /\ stage' = stage
          /\ down' = down \/ (down = "awaiting wallet" /\ down' = "closing")
      BY <1>13 DEF BuildFails, clock, startVars
    <2>3. faults <= faults'
      BY <1>0, <2>1, Units DEF SubTypes, Fault
    <2> QED BY <1>0, <2>1, <2>2, <2>3, SubscriptionsStay DEF Subscriptions, Ended
  <1>14. CASE Shutdown
    <2>1. /\ stage \in {"ready", "failed"} /\ down = "no" /\ down' # "no" /\ checkIn' = Off
          /\ closing' = subscription /\ raced' = (removing # {})
          /\ UNCHANGED <<subscription, live, removing, unremoved, faults, stage>>
      BY <1>14 DEF Shutdown, CheckAfterShutdown, startVars
    <2>2. /\ subscription # Null => down' = "unsubscribing"
          /\ subscription = Null => down' = "disconnecting"
      BY <1>14 DEF Shutdown
    <2>3. 1 \in Ids
      BY Units
    <2>4. /\ \A rec \in removing : rec.id = subscription /\ subscription \notin unremoved
          /\ live \ unremoved \subseteq Kept'
      <3>1. CASE checkIn # Off
        <4>1. Listening
          BY <1>0, <3>1 DEF Subscriptions
        <4>2. subscription # Null
          BY <4>1, Units DEF Listening
        <4> QED BY <2>1, <2>2, <4>1, <4>2 DEF Listening, Kept
      <3>2. CASE checkIn = Off
        BY <1>0, <2>1, <3>2 DEF Subscriptions
      <3> QED BY <3>1, <3>2
    <2>5. Ended'
      BY <2>1, <2>3, <2>4 DEF Ended
    <2>6. stage' # "ready" => subscription' = Null /\ live' = {} /\ removing' = {}
      BY <1>0, <2>1 DEF Subscriptions
    <2>7. (\A rec, other \in removing' : rec = other) /\ Cardinality(unremoved') <= faults'
      BY <1>0, <2>1 DEF Subscriptions
    <2> QED BY <2>1, <2>5, <2>6, <2>7 DEF Subscriptions
  <1>15. CASE Unsubscribed
    <2>1. /\ down = "unsubscribing" /\ down' = "disconnecting" /\ subscription' = Null
          /\ live' = live \ {closing} /\ unremoved' = unremoved \ {closing}
          /\ UNCHANGED <<removing, closing, raced, faults, stage, checkIn>>
      BY <1>15 DEF Unsubscribed, startVars, clock
    <2>2. Ended
      BY <1>0, <2>1 DEF Subscriptions
    <2>3. PICK id \in Ids : live \ unremoved \subseteq
                              {closing} \cup (IF raced /\ removing = {} THEN {id} ELSE {})
      BY <2>1, <2>2 DEF Ended, Kept
    <2>4. live' \ unremoved' \subseteq
            Kept' \cup (IF raced' /\ removing' = {} THEN {id} ELSE {})
      BY <2>1, <2>3
    <2>5. Ended'
      BY <2>1, <2>2, <2>4 DEF Ended
    <2>6. Cardinality(unremoved') <= faults'
      <3>1. unremoved' \subseteq unremoved
        BY <2>1
      <3>2. Cardinality(unremoved') <= Cardinality(unremoved) /\ Cardinality(unremoved') \in Nat
        BY <1>0, <3>1, FiniteSubscriptions, FS_Subset, FS_CardinalityType
      <3> QED BY <1>0, <2>1, <3>2, FiniteSubscriptions DEF Subscriptions, SubTypes
    <2> QED BY <1>0, <2>1, <2>2, <2>5, <2>6 DEF Subscriptions, Ended
  <1>16. CASE UnsubscribeFails
    <2>1. /\ UNCHANGED <<subscription, live, removing, unremoved, checkIn, closing, raced>>
          /\ faults' = faults \/ Fault
      BY <1>16 DEF UnsubscribeFails, clock, startVars
    <2>2. stage' = stage /\ down = "unsubscribing" /\ down' = "thrown"
      BY <1>16 DEF UnsubscribeFails, clock, startVars
    <2>3. faults <= faults'
      BY <1>0, <2>1, Units DEF SubTypes, Fault
    <2> QED BY <1>0, <2>1, <2>2, <2>3, SubscriptionsStay DEF Subscriptions, Ended
  <1>17. CASE Disconnected
    BY <1>0, <1>17, Units DEF Disconnected, healthVars, clock, startVars, walletVars,
       SubTypes, LegTypes, Stages, Downs, Subscriptions, Listening, Ended, Kept, PutAway
  <1>18. CASE StopMidnight
    BY <1>0, <1>18, Units DEF StopMidnight, healthVars, clock, startVars, walletVars,
       SubTypes, LegTypes, Stages, Downs, Subscriptions, Listening, Ended, Kept, PutAway
  <1>19. CASE WalletResolves
    BY <1>0, <1>19, Units DEF WalletResolves, healthVars, clock, startVars, legVars,
       walletVars, SubTypes, LegTypes, Stages, Downs, Subscriptions, Listening, Ended,
       Kept, PutAway
  <1>20. CASE FacadeStopped
    <2>1. /\ UNCHANGED <<subscription, live, removing, unremoved, checkIn, closing, raced>>
          /\ faults' = faults \/ Fault
      BY <1>20 DEF FacadeStopped, clock, startVars
    <2>2. stage' = stage /\ down = "stopping facade" /\ down' = "closing"
      BY <1>20 DEF FacadeStopped, startVars
    <2>3. faults <= faults'
      BY <1>0, <2>1, Units DEF SubTypes, Fault
    <2> QED BY <1>0, <2>1, <2>2, <2>3, SubscriptionsStay DEF Subscriptions, Ended
  <1>21. CASE Closed
    BY <1>0, <1>21, Units DEF Closed, healthVars, clock, startVars, walletVars,
       SubTypes, LegTypes, Stages, Downs, Subscriptions, Listening, Ended, Kept, PutAway
  <1>22. CASE DisconnectFails
    <2>1. /\ UNCHANGED <<subscription, live, removing, unremoved, checkIn, closing, raced>>
          /\ faults' = faults \/ Fault
      BY <1>22 DEF DisconnectFails, clock, startVars
    <2>2. stage' = stage /\ down = "disconnecting" /\ down' = "thrown"
      BY <1>22 DEF DisconnectFails, clock, startVars
    <2>3. faults <= faults'
      BY <1>0, <2>1, Units DEF SubTypes, Fault
    <2> QED BY <1>0, <2>1, <2>2, <2>3, SubscriptionsStay DEF Subscriptions, Ended
  <1> QED BY <1>1, <1>2, <1>3, <1>4, <1>5, <1>6, <1>7, <1>8, <1>9, <1>10, <1>11, <1>12,
             <1>13, <1>14, <1>15, <1>16, <1>17, <1>18, <1>19, <1>20, <1>21, <1>22
             DEF Start, Wallet, Down

LEMMA PutAwayKept ==
  ASSUME LifecycleInv, Start \/ Wallet \/ Down
  PROVE  PutAway'
  <1>0. LegTypes /\ WalletFacts /\ Subscriptions /\ PutAway
    BY DEF LifecycleInv
  <1>1. CASE Construct
    BY <1>0, <1>1, Units DEF Construct, HasMidnight, healthVars, clock, walletVars,
       downVars, LegTypes, Stages, Downs, WalletFacts, Subscriptions, Listening, Ended,
       Kept, PutAway
  <1>2. CASE Probe
    BY <1>0, <1>2, Units DEF Probe, Fault, clock, legVars, walletVars, downVars,
       LegTypes, Stages, Downs, WalletFacts, Subscriptions, Listening, Ended, Kept,
       PutAway
  <1>3. CASE ReadState
    BY <1>0, <1>3, Units DEF ReadState, Fault, clock, legVars, walletVars, downVars,
       LegTypes, Stages, Downs, WalletFacts, Subscriptions, Listening, Ended, Kept,
       PutAway
  <1>4. CASE Initialize
    BY <1>0, <1>4, Units DEF Initialize, After, Tolerated, Fault, clock, legVars,
       walletVars, downVars, LegTypes, Stages, Downs, WalletFacts, Subscriptions,
       Listening, Ended, Kept, PutAway
  <1>5. CASE ElsewhereInitialized
    BY <1>0, <1>5, Units DEF ElsewhereInitialized, healthVars, clock, legVars,
       walletVars, downVars, LegTypes, Stages, Downs, WalletFacts, Subscriptions,
       Listening, Ended, Kept, PutAway
  <1>6. CASE Connect
    BY <1>0, <1>6, Units DEF Connect, Fault, clock, walletVars, downVars, LegTypes,
       Stages, Downs, WalletFacts, Subscriptions, Listening, Ended, Kept, PutAway
  <1>7. CASE StartMidnight
    BY <1>0, <1>7, Units DEF StartMidnight, subscribeToLogs, Fault, walletVars,
       downVars, LegTypes, Stages, Downs, WalletFacts, Subscriptions, Listening, Ended,
       Kept, PutAway
  <1>8. CASE ApiOpens
    BY <1>0, <1>8, Units DEF ApiOpens, healthVars, clock, startVars, walletVars,
       downVars, LegTypes, Stages, Downs, WalletFacts, Subscriptions, Listening, Ended,
       Kept, PutAway
  <1>9. CASE ApiFails
    BY <1>0, <1>9, Units DEF ApiFails, Fault, LegTypes, Stages, Downs, WalletFacts,
       Subscriptions, Listening, Ended, Kept, PutAway
  <1>10. CASE BuildWallet
    BY <1>0, <1>10, Units DEF BuildWallet, healthVars, clock, startVars, legVars,
       downVars, LegTypes, Stages, Downs, WalletFacts, Subscriptions, Listening, Ended,
       Kept, PutAway
  <1>11. CASE FacadeStarts
    BY <1>0, <1>11, Units DEF FacadeStarts, healthVars, clock, startVars, legVars,
       downVars, LegTypes, Stages, Downs, WalletFacts, Subscriptions, Listening, Ended,
       Kept, PutAway
  <1>12. CASE Synced
    BY <1>0, <1>12, Units DEF Synced, healthVars, clock, startVars, legVars, downVars,
       LegTypes, Stages, Downs, WalletFacts, Subscriptions, Listening, Ended, Kept,
       PutAway
  <1>13. CASE BuildFails
    BY <1>0, <1>13, Units DEF BuildFails, Fault, clock, startVars, LegTypes, Stages,
       Downs, WalletFacts, Subscriptions, Listening, Ended, Kept, PutAway
  <1>14. CASE Shutdown
    BY <1>0, <1>14, Units DEF Shutdown, CheckAfterShutdown, startVars, walletVars,
       LegTypes, Stages, Downs, WalletFacts, Subscriptions, Listening, Ended, Kept,
       PutAway
  <1>15. CASE Unsubscribed
    BY <1>0, <1>15, Units DEF Unsubscribed, clock, startVars, legVars, walletVars,
       LegTypes, Stages, Downs, WalletFacts, Subscriptions, Listening, Ended, Kept,
       PutAway
  <1>16. CASE UnsubscribeFails
    BY <1>0, <1>16, Units DEF UnsubscribeFails, Fault, clock, startVars, legVars,
       walletVars, LegTypes, Stages, Downs, WalletFacts, Subscriptions, Listening,
       Ended, Kept, PutAway
  <1>17. CASE Disconnected
    BY <1>0, <1>17, Units DEF Disconnected, healthVars, clock, startVars, walletVars,
       LegTypes, Stages, Downs, WalletFacts, Subscriptions, Listening, Ended, Kept,
       PutAway
  <1>18. CASE StopMidnight
    BY <1>0, <1>18, Units DEF StopMidnight, healthVars, clock, startVars, walletVars,
       LegTypes, Stages, Downs, WalletFacts, Subscriptions, Listening, Ended, Kept,
       PutAway
  <1>19. CASE WalletResolves
    BY <1>0, <1>19, Units DEF WalletResolves, healthVars, clock, startVars, legVars,
       walletVars, LegTypes, Stages, Downs, WalletFacts, Subscriptions, Listening,
       Ended, Kept, PutAway
  <1>20. CASE FacadeStopped
    BY <1>0, <1>20, Units DEF FacadeStopped, Fault, clock, startVars, LegTypes,
       Stages, Downs, WalletFacts, Subscriptions, Listening, Ended, Kept, PutAway
  <1>21. CASE Closed
    BY <1>0, <1>21, Units DEF Closed, healthVars, clock, startVars, walletVars,
       LegTypes, Stages, Downs, WalletFacts, Subscriptions, Listening, Ended, Kept,
       PutAway
  <1>22. CASE DisconnectFails
    BY <1>0, <1>22, Units DEF DisconnectFails, Fault, clock, startVars, legVars,
       walletVars, LegTypes, Stages, Downs, WalletFacts, Subscriptions, Listening,
       Ended, Kept, PutAway
  <1> QED BY <1>1, <1>2, <1>3, <1>4, <1>5, <1>6, <1>7, <1>8, <1>9, <1>10, <1>11, <1>12,
             <1>13, <1>14, <1>15, <1>16, <1>17, <1>18, <1>19, <1>20, <1>21, <1>22
             DEF Start, Wallet, Down

\* Only Connect leaves the provider without an api on the way to a server that is
\* up, and then something has failed.
LEMMA ProviderKept ==
  ASSUME LifecycleInv, Start \/ Wallet \/ Down
  PROVE  Provider'
  <1>0. SubTypes /\ LegTypes /\ Provider
    BY DEF LifecycleInv
  <1>1. Fault => faults' > 0
    BY <1>0, Units DEF SubTypes, Fault
  <1>2. CASE UNCHANGED <<substrate, stage>> /\ (faults' = faults \/ Fault)
    BY <1>0, <1>1, <1>2 DEF Provider
  <1>3. CASE Start
    <2>1. CASE Construct
      BY <2>1 DEF Construct, Provider
    <2>2. CASE Probe \/ ReadState
      BY <2>2 DEF Probe, ReadState, Provider
    <2>3. CASE Initialize
      BY <2>3 DEF Initialize, After, Provider
    <2>4. CASE ElsewhereInitialized \/ ApiOpens
      BY <1>2, <2>4 DEF ElsewhereInitialized, ApiOpens, healthVars, startVars, legVars
    <2>5. CASE Connect
      BY <1>1, <2>5 DEF Connect, Provider
    <2>6. CASE StartMidnight
      BY <1>0, <1>1, <2>6 DEF StartMidnight, Provider
    <2>7. CASE ApiFails
      BY <2>7 DEF ApiFails, Provider
    <2> QED BY <1>3, <2>1, <2>2, <2>3, <2>4, <2>5, <2>6, <2>7 DEF Start
  <1>4. CASE Wallet
    <2>1. UNCHANGED <<substrate, stage>> /\ (faults' = faults \/ Fault)
      BY <1>4 DEF Wallet, BuildWallet, FacadeStarts, Synced, BuildFails, healthVars,
         startVars, legVars
    <2> QED BY <1>2, <2>1
  <1>5. CASE Down
    <2>1. CASE Disconnected
      <3>1. /\ UNCHANGED <<stage, faults>>
            /\ substrate' = "opened" => substrate = "opened"
        BY <2>1 DEF Disconnected, healthVars, startVars
      <3> QED BY <1>0, <3>1 DEF Provider
    <2>2. CASE Shutdown \/ Unsubscribed \/ UnsubscribeFails \/ DisconnectFails
      <3>1. UNCHANGED <<substrate, stage>> /\ (faults' = faults \/ Fault)
        BY <2>2 DEF Shutdown, Unsubscribed, UnsubscribeFails, DisconnectFails, startVars,
           legVars
      <3> QED BY <1>2, <3>1
    <2>3. CASE StopMidnight \/ WalletResolves \/ FacadeStopped \/ Closed
      <3>1. UNCHANGED <<substrate, stage>> /\ (faults' = faults \/ Fault)
        <4>1. CASE FacadeStopped
          BY <4>1 DEF FacadeStopped, startVars
        <4>2. CASE StopMidnight \/ WalletResolves \/ Closed
          BY <4>2 DEF StopMidnight, WalletResolves, Closed, healthVars, startVars, legVars
        <4> QED BY <2>3, <4>1, <4>2
      <3> QED BY <1>2, <3>1
    <2> QED BY <1>5, <2>1, <2>2, <2>3 DEF Down
  <1> QED BY <1>3, <1>4, <1>5

LEMMA InitRaceIsHarmlessKept ==
  ASSUME LifecycleInv, Start \/ Wallet \/ Down
  PROVE  InitRaceIsHarmless'
  <1>0. SubTypes /\ LegTypes /\ InitRaceIsHarmless
    BY DEF LifecycleInv
  <1>1. CASE Construct
    BY <1>0, <1>1, Units DEF Construct, HasMidnight, healthVars, clock, walletVars,
       downVars, SubTypes, LegTypes, Stages, Downs, InitRaceIsHarmless
  <1>2. CASE Probe
    BY <1>0, <1>2, Units DEF Probe, Fault, clock, legVars, walletVars, downVars,
       SubTypes, LegTypes, Stages, Downs, InitRaceIsHarmless
  <1>3. CASE ReadState
    <2>1. /\ UNCHANGED <<config, program, traces>>
          /\ \/ stage' = "connecting" /\ program /\ UNCHANGED <<assumed, faults>>
             \/ stage' = "initializing"
             \/ stage' = "connecting" /\ assumed' = TRUE
             \/ stage' = "failed" /\ Fault
      BY <1>3 DEF ReadState
    <2>2. Fault => faults' > 0
      BY <1>0, Units DEF SubTypes, Fault
    <2> QED BY <2>1, <2>2 DEF InitRaceIsHarmless
  <1>4. CASE Initialize
    <2>1. /\ UNCHANGED <<config, traces>>
          /\ \/ stage' = "connecting" /\ program' = TRUE
             \/ stage' = "failed" /\ Fault
      BY <1>4 DEF Initialize, After, Tolerated
    <2>2. Fault => faults' > 0
      BY <1>0, Units DEF SubTypes, Fault
    <2> QED BY <2>1, <2>2 DEF InitRaceIsHarmless
  <1>5. CASE ElsewhereInitialized
    BY <1>0, <1>5, Units DEF ElsewhereInitialized, healthVars, clock, legVars,
       walletVars, downVars, SubTypes, LegTypes, Stages, Downs, InitRaceIsHarmless
  <1>6. CASE Connect
    BY <1>0, <1>6, Units DEF Connect, Fault, clock, walletVars, downVars, SubTypes,
       LegTypes, Stages, Downs, InitRaceIsHarmless
  <1>7. CASE StartMidnight
    BY <1>0, <1>7, Units DEF StartMidnight, subscribeToLogs, Fault, walletVars,
       downVars, SubTypes, LegTypes, Stages, Downs, InitRaceIsHarmless
  <1>8. CASE ApiOpens
    BY <1>0, <1>8, Units DEF ApiOpens, healthVars, clock, startVars, walletVars,
       downVars, SubTypes, LegTypes, Stages, Downs, InitRaceIsHarmless
  <1>9. CASE ApiFails
    BY <1>0, <1>9, Units DEF ApiFails, Fault, SubTypes, LegTypes, Stages, Downs,
       InitRaceIsHarmless
  <1>10. CASE BuildWallet
    BY <1>0, <1>10, Units DEF BuildWallet, healthVars, clock, startVars, legVars,
       downVars, SubTypes, LegTypes, Stages, Downs, InitRaceIsHarmless
  <1>11. CASE FacadeStarts
    BY <1>0, <1>11, Units DEF FacadeStarts, healthVars, clock, startVars, legVars,
       downVars, SubTypes, LegTypes, Stages, Downs, InitRaceIsHarmless
  <1>12. CASE Synced
    BY <1>0, <1>12, Units DEF Synced, healthVars, clock, startVars, legVars, downVars,
       SubTypes, LegTypes, Stages, Downs, InitRaceIsHarmless
  <1>13. CASE BuildFails
    <2>1. UNCHANGED <<config, stage, program, assumed, traces>> /\ Fault
      BY <1>13 DEF BuildFails, startVars
    <2>2. faults' > 0
      BY <1>0, <2>1, Units DEF SubTypes, Fault
    <2> QED BY <1>0, <2>1, <2>2 DEF InitRaceIsHarmless
  <1>14. CASE Shutdown
    BY <1>0, <1>14, Units DEF Shutdown, CheckAfterShutdown, startVars, walletVars,
       SubTypes, LegTypes, Stages, Downs, InitRaceIsHarmless
  <1>15. CASE Unsubscribed
    BY <1>0, <1>15, Units DEF Unsubscribed, clock, startVars, legVars, walletVars,
       SubTypes, LegTypes, Stages, Downs, InitRaceIsHarmless
  <1>16. CASE UnsubscribeFails
    BY <1>0, <1>16, Units DEF UnsubscribeFails, Fault, clock, startVars, legVars,
       walletVars, SubTypes, LegTypes, Stages, Downs, InitRaceIsHarmless
  <1>17. CASE Disconnected
    BY <1>0, <1>17, Units DEF Disconnected, healthVars, clock, startVars, walletVars,
       SubTypes, LegTypes, Stages, Downs, InitRaceIsHarmless
  <1>18. CASE StopMidnight
    BY <1>0, <1>18, Units DEF StopMidnight, healthVars, clock, startVars, walletVars,
       SubTypes, LegTypes, Stages, Downs, InitRaceIsHarmless
  <1>19. CASE WalletResolves
    BY <1>0, <1>19, Units DEF WalletResolves, healthVars, clock, startVars, legVars,
       walletVars, SubTypes, LegTypes, Stages, Downs, InitRaceIsHarmless
  <1>20. CASE FacadeStopped
    <2>1. /\ UNCHANGED <<config, stage, program, assumed, traces>>
          /\ faults' = faults \/ Fault
      BY <1>20 DEF FacadeStopped, startVars
    <2>2. faults > 0 => faults' > 0
      BY <1>0, <2>1, Units DEF SubTypes, Fault
    <2> QED BY <1>0, <2>1, <2>2 DEF InitRaceIsHarmless
  <1>21. CASE Closed
    BY <1>0, <1>21, Units DEF Closed, healthVars, clock, startVars, walletVars,
       SubTypes, LegTypes, Stages, Downs, InitRaceIsHarmless
  <1>22. CASE DisconnectFails
    BY <1>0, <1>22, Units DEF DisconnectFails, Fault, clock, startVars, legVars,
       walletVars, SubTypes, LegTypes, Stages, Downs, InitRaceIsHarmless
  <1> QED BY <1>1, <1>2, <1>3, <1>4, <1>5, <1>6, <1>7, <1>8, <1>9, <1>10, <1>11, <1>12,
             <1>13, <1>14, <1>15, <1>16, <1>17, <1>18, <1>19, <1>20, <1>21, <1>22
             DEF Start, Wallet, Down

------------------------------------------------------------------------------
(* The watch over the subscription: steps of WebSocketHealth.                 *)

\* A reconnect in flight: the removal of the only subscription in use.
LEMMA OneReconnect ==
  ASSUME SubTypes, LegTypes, Subscriptions, NEW rec \in removing
  PROVE  /\ removing = {rec} /\ rec.id \in Ids /\ rec.age \in 0..RemovalTimeout
         /\ stage = "ready" \/ down # "no"
         /\ checkIn # Off => Listening /\ rec.id = subscription
         /\ checkIn = Off => Ended /\ down # "no" /\ rec.id = closing
         /\ live \ unremoved \subseteq {rec.id} /\ rec.id \notin unremoved
  <1>1. removing = {rec} /\ rec.id \in Ids /\ rec.age \in 0..RemovalTimeout
    BY DEF SubTypes, Subscriptions
  <1>2. CASE checkIn # Off
    BY <1>1, <1>2 DEF Subscriptions, Listening
  <1>3. CASE checkIn = Off
    <2>1. down # "no"
      BY <1>1, <1>3 DEF Subscriptions
    <2>2. Ended /\ rec.id = closing /\ closing \notin unremoved
      BY <2>1 DEF Subscriptions, Ended
    <2>3. live \ unremoved \subseteq Kept
      BY <1>1, <2>2 DEF Ended
    <2> QED BY <1>1, <1>3, <2>1, <2>2, <2>3 DEF Kept
  <1> QED BY <1>2, <1>3

LEMMA NewSubscription ==
  ASSUME SubTypes, LegTypes, Subscriptions, NEW rec \in removing
  PROVE  Fresh \in Ids /\ Fresh \notin live
  <1>1. /\ live \subseteq unremoved \cup {rec.id}
        /\ \A other \in removing : other.id = rec.id
    BY OneReconnect
  <1>2. Cardinality(unremoved) <= faults
    BY DEF Subscriptions
  <1> QED BY <1>1, <1>2, FreshIsFree

\* What both ends of a reconnect have in common.
LEMMA Reconnected ==
  ASSUME SubTypes, LegTypes, Subscriptions, NEW rec \in removing,
         Removed(rec) \/ RemovalFails(rec)
  PROVE  /\ subscription' = Fresh /\ removing' = {} /\ checkIn' = checkIn
         /\ sinceEvent' = 0 /\ sinceReconnect' = 0
         /\ live' \subseteq live \cup {Fresh} /\ dead' \subseteq live'
         /\ unremoved' \subseteq live' \ {Fresh}
         /\ live' \ unremoved' \subseteq {Fresh}
         /\ \/ faults' = faults /\ unremoved' = unremoved
            \/ Fault /\ unremoved' \subseteq unremoved \cup {rec.id}
  <1>0. /\ removing = {rec} /\ Fresh \notin live /\ rec.id \notin unremoved
        /\ live \ unremoved \subseteq {rec.id} /\ unremoved \subseteq live
        /\ dead \subseteq live
    BY OneReconnect, NewSubscription DEF SubTypes
  <1>1. CASE Removed(rec)
    <2>1. /\ Resubscribe(rec, live \ {rec.id}) /\ UNCHANGED <<unremoved, faults>>
      BY <1>1 DEF Removed
    <2>2. /\ subscription' = Fresh /\ removing' = removing \ {rec} /\ checkIn' = checkIn
          /\ sinceEvent' = 0 /\ sinceReconnect' = 0
          /\ live' = (live \ {rec.id}) \cup {Fresh} /\ dead' \subseteq live'
      BY <2>1 DEF Resubscribe, subscribeToLogs, EventAge
    <2> QED BY <1>0, <2>1, <2>2
  <1>2. CASE RemovalFails(rec)
    <2>1. /\ Resubscribe(rec, live) /\ Fault
          /\ unremoved' = unremoved \cup ({rec.id} \cap live)
      BY <1>2 DEF RemovalFails
    <2>2. /\ subscription' = Fresh /\ removing' = removing \ {rec} /\ checkIn' = checkIn
          /\ sinceEvent' = 0 /\ sinceReconnect' = 0
          /\ live' = live \cup {Fresh} /\ dead' \subseteq live'
      BY <2>1 DEF Resubscribe, subscribeToLogs, EventAge
    <2> QED BY <1>0, <2>1, <2>2
  <1> QED BY <1>1, <1>2

LEMMA WatchKeepsTypes == ASSUME LifecycleInv, Watch PROVE SubTypes'
  <1>0. SubTypes /\ LegTypes /\ Subscriptions
    BY DEF LifecycleInv
  <1>1. CASE Notified
    <2>1. /\ sinceEvent' = 0
          /\ UNCHANGED <<subscription, live, dead, sinceReconnect, checkIn, removing,
                         unremoved, faults>>
      BY <1>1 DEF Notified
    <2> QED BY <1>0, <2>1, Units DEF SubTypes
  <1>2. CASE Drops
    <2>1. /\ dead' \subseteq live
          /\ UNCHANGED <<subscription, live, sinceEvent, sinceReconnect, checkIn, removing,
                         unremoved, faults>>
      BY <1>0, <1>2 DEF Drops, SubTypes
    <2> QED BY <1>0, <2>1 DEF SubTypes
  <1>3. CASE HealthCheck
    <2>1. /\ checkIn = 0 /\ checkIn' = CheckInterval
          /\ removing' \subseteq removing \cup {[id |-> subscription, age |-> 0]}
          /\ UNCHANGED <<subscription, live, dead, sinceEvent, sinceReconnect, unremoved,
                         faults>>
      BY <1>3 DEF HealthCheck
    <2>2. subscription \in Ids
      BY <1>0, <2>1, Units DEF Subscriptions, Listening
    <2>3. [id |-> subscription, age |-> 0] \in [id : Ids, age : 0..RemovalTimeout]
      BY <2>2, Units
    <2>4. checkIn' \in 0..Off
      BY <2>1, Units
    <2> QED BY <1>0, <2>1, <2>3, <2>4 DEF SubTypes
  <1>4. CASE LateRemoval
    <2>1. /\ live' \subseteq live /\ dead' \subseteq live' /\ unremoved' \subseteq live'
          /\ UNCHANGED <<subscription, sinceEvent, sinceReconnect, checkIn, removing,
                         faults>>
      BY <1>0, <1>4 DEF LateRemoval, clock, SubTypes
    <2> QED BY <1>0, <2>1 DEF SubTypes
  <1>5. CASE Pass
    <2>1. /\ sinceEvent' = (IF sinceEvent = Never THEN Never
                            ELSE Capped(sinceEvent, StaleThreshold + 1))
          /\ sinceReconnect' = Capped(sinceReconnect, Cooldown)
          /\ checkIn # 0 /\ checkIn' = (IF checkIn = Off THEN Off ELSE checkIn - 1)
          /\ removing' = {[rec EXCEPT !.age = Capped(@, RemovalTimeout)] : rec \in removing}
          /\ UNCHANGED <<subscription, live, dead, unremoved, faults>>
      BY <1>5 DEF Pass
    <2>2. sinceEvent' \in 0..Never
      <3>1. sinceEvent \in Nat /\ sinceEvent <= StaleThreshold + 2
        BY <1>0, Units DEF SubTypes
      <3>2. CASE sinceEvent = Never
        BY <1>0, <2>1, <3>2 DEF SubTypes
      <3>3. CASE sinceEvent # Never
        <4>1. sinceEvent' = Capped(sinceEvent, StaleThreshold + 1)
          BY <2>1, <3>3
        <4> QED BY <3>1, <4>1, Units DEF Capped
      <3> QED BY <3>2, <3>3
    <2>3. sinceReconnect' \in 0..Cooldown
      BY <1>0, <2>1, Units DEF SubTypes, Capped
    <2>4. checkIn' \in 0..Off
      BY <1>0, <2>1, Units DEF SubTypes
    <2>5. ASSUME NEW rec \in removing
          PROVE  [rec EXCEPT !.age = Capped(@, RemovalTimeout)]
                   \in [id : Ids, age : 0..RemovalTimeout]
      <3>1. rec \in [id : Ids, age : 0..RemovalTimeout]
        BY <1>0 DEF SubTypes
      <3>2. Capped(rec.age, RemovalTimeout) \in 0..RemovalTimeout
        BY <3>1, Units DEF Capped
      <3> QED BY <3>1, <3>2
    <2>6. removing' \subseteq [id : Ids, age : 0..RemovalTimeout]
      BY <2>1, <2>5
    <2> QED BY <1>0, <2>1, <2>2, <2>3, <2>4, <2>6 DEF SubTypes
  <1>6. ASSUME NEW rec \in removing, Removed(rec) \/ RemovalFails(rec)
        PROVE  SubTypes'
    <2>1. Fresh \in Ids
      BY <1>0, NewSubscription
    <2>2. /\ subscription' = Fresh /\ removing' = {} /\ checkIn' = checkIn
          /\ sinceEvent' = 0 /\ sinceReconnect' = 0
          /\ live' \subseteq live \cup {Fresh} /\ dead' \subseteq live'
          /\ unremoved' \subseteq live'
          /\ faults' = faults \/ Fault
      BY <1>0, <1>6, Reconnected
    <2>3. faults' \in 0..MaxFaults
      BY <1>0, <2>2, Units DEF SubTypes, Fault
    <2> QED BY <1>0, <2>1, <2>2, <2>3, Units DEF SubTypes
  <1> QED BY <1>1, <1>2, <1>3, <1>4, <1>5, <1>6 DEF Watch, Health

LEMMA WatchKeepsSubscriptions == ASSUME LifecycleInv, Watch PROVE Subscriptions'
  <1>0. /\ SubTypes /\ LegTypes /\ Subscriptions /\ SubTypes'
        /\ UNCHANGED <<stage, down, closing, raced>>
    BY WatchKeepsTypes DEF LifecycleInv, Watch, startVars, downVars
  <1>1. CASE Notified \/ Drops
    <2>1. UNCHANGED <<subscription, live, removing, unremoved, checkIn, faults>>
      BY <1>1 DEF Notified, Drops
    <2>2. faults <= faults'
      BY <2>1, <1>0, Units DEF SubTypes
    <2> QED BY <1>0, <2>1, <2>2, SubscriptionsStay
  <1>2. CASE HealthCheck
    <2>1. /\ checkIn = 0 /\ checkIn' = CheckInterval
          /\ removing' \subseteq removing \cup {[id |-> subscription, age |-> 0]}
          /\ UNCHANGED <<subscription, live, unremoved, faults>>
      BY <1>2 DEF HealthCheck
    <2>2. Listening /\ checkIn' # Off
      BY <1>0, <2>1, Units DEF Subscriptions
    <2>3. removing = {}
      <3>1. SUFFICES ASSUME NEW rec \in removing PROVE FALSE
        OBVIOUS
      <3>2. rec.age \in 0..RemovalTimeout /\ rec.age + checkIn = CheckInterval
        BY <1>0, <2>2 DEF Listening, SubTypes
      <3> QED BY <2>1, <3>2, Units
    <2>4. \A rec \in removing' : rec = [id |-> subscription, age |-> 0]
      BY <2>1, <2>3
    <2>5. \A rec \in removing' : rec.id = subscription' /\ rec.age + checkIn' = CheckInterval
      BY <2>1, <2>4, Units
    <2>6. Listening'
      BY <1>0, <2>1, <2>2, <2>5 DEF Listening
    <2> QED BY <1>0, <2>1, <2>2, <2>4, <2>6 DEF Subscriptions, Listening
  <1>3. CASE LateRemoval
    <2>1. PICK id \in unremoved :
             /\ live' = live \ {id} /\ unremoved' = unremoved \ {id}
             /\ UNCHANGED <<subscription, checkIn, removing, faults>>
      BY <1>3 DEF LateRemoval, clock
    <2>2. Cardinality(unremoved') <= faults'
      <3>1. unremoved' \subseteq unremoved
        BY <2>1
      <3>2. Cardinality(unremoved') <= Cardinality(unremoved) /\ Cardinality(unremoved') \in Nat
        BY <1>0, <3>1, FiniteSubscriptions, FS_Subset, FS_CardinalityType
      <3> QED BY <1>0, <2>1, <3>2, FiniteSubscriptions DEF Subscriptions, SubTypes
    <2>3. live' \ unremoved' \subseteq live \ unremoved /\ live' \subseteq live
      BY <2>1
    <2>4. checkIn' # Off => Listening'
      BY <1>0, <2>1, <2>3 DEF Subscriptions, Listening
    <2>5. ASSUME down' # "no" PROVE Ended'
      <3>1. Ended /\ Kept' = Kept
        BY <1>0, <2>5 DEF Subscriptions, Kept
      <3> QED BY <1>0, <2>1, <2>3, <3>1 DEF Ended
    <2> QED BY <1>0, <2>1, <2>2, <2>3, <2>4, <2>5 DEF Subscriptions
  <1>4. CASE Pass
    <2> DEFINE later(rec) == [rec EXCEPT !.age = Capped(@, RemovalTimeout)]
    <2>1. /\ checkIn # 0 /\ checkIn' = (IF checkIn = Off THEN Off ELSE checkIn - 1)
          /\ removing' = {later(rec) : rec \in removing}
          /\ \A rec \in removing : ~TimedOut(rec)
          /\ UNCHANGED <<subscription, live, unremoved, faults>>
      BY <1>4 DEF Pass
    <2>2. \A rec \in removing :
             /\ rec.id \in Ids /\ rec.age \in Nat
             /\ later(rec).id = rec.id /\ later(rec).age = rec.age + 1
      <3>1. SUFFICES ASSUME NEW rec \in removing
                     PROVE  /\ rec.id \in Ids /\ rec.age \in Nat
                            /\ later(rec).id = rec.id /\ later(rec).age = rec.age + 1
        OBVIOUS
      <3>2. rec \in [id : Ids, age : 0..RemovalTimeout]
        BY <1>0 DEF SubTypes
      <3>3. rec.age < RemovalTimeout
        BY <2>1, <3>2, Units DEF TimedOut
      <3>4. Capped(rec.age, RemovalTimeout) = rec.age + 1
        BY <3>3 DEF Capped
      <3> QED BY <3>2, <3>4, Units
    <2> HIDE DEF later
    <2>3. \A rec, other \in removing' : rec = other
      BY <1>0, <2>1 DEF Subscriptions
    <2>4. checkIn' # Off => Listening'
      <3>1. SUFFICES ASSUME checkIn' # Off PROVE Listening'
        OBVIOUS
      <3>2. checkIn # Off /\ checkIn' = checkIn - 1 /\ Listening
        BY <1>0, <2>1, <3>1 DEF Subscriptions
      <3>3. \A rec \in removing : /\ rec.id = subscription
                                  /\ (rec.age + 1) + (checkIn - 1) = CheckInterval
        BY <1>0, <2>2, <3>2, Units DEF Listening, SubTypes
      <3>4. \A rec \in removing' :
               rec.id = subscription' /\ rec.age + checkIn' = CheckInterval
        BY <2>1, <2>2, <3>2, <3>3
      <3> QED BY <1>0, <2>1, <3>2, <3>4 DEF Listening
    <2>5. removing' = {} <=> removing = {}
      BY <2>1
    <2>6. ASSUME down' # "no" PROVE Ended'
      <3>1. Ended /\ Kept' = Kept
        BY <1>0, <2>6 DEF Subscriptions, Kept
      <3>2. checkIn' = Off
        BY <2>1, <3>1 DEF Ended
      <3>3. \A rec \in removing' : rec.id = closing' /\ closing' \notin unremoved'
        BY <1>0, <2>1, <2>2, <3>1 DEF Ended
      <3> QED BY <1>0, <2>1, <2>5, <3>1, <3>2, <3>3 DEF Ended
    <2>7. checkIn = Off => checkIn' = Off
      BY <2>1
    <2>8. checkIn' = Off => checkIn = Off
      BY <1>0, <2>1, Units DEF SubTypes
    <2> QED BY <1>0, <2>1, <2>3, <2>4, <2>5, <2>6, <2>7, <2>8 DEF Subscriptions
  <1>5. ASSUME NEW rec \in removing, Removed(rec) \/ RemovalFails(rec)
        PROVE  Subscriptions'
    <2>1. /\ subscription' = Fresh /\ removing' = {} /\ checkIn' = checkIn
          /\ live' \subseteq live \cup {Fresh}
          /\ unremoved' \subseteq live' \ {Fresh}
          /\ live' \ unremoved' \subseteq {Fresh}
          /\ \/ faults' = faults /\ unremoved' = unremoved
             \/ Fault /\ unremoved' \subseteq unremoved \cup {rec.id}
      BY <1>0, <1>5, Reconnected
    <2>2. Fresh \in Ids
      BY <1>0, NewSubscription
    <2>3. Cardinality(unremoved') <= faults'
      <3>1. CASE faults' = faults /\ unremoved' = unremoved
        BY <1>0, <3>1 DEF Subscriptions
      <3>2. CASE Fault /\ unremoved' \subseteq unremoved \cup {rec.id}
        <4>1. /\ IsFiniteSet(unremoved \cup {rec.id})
              /\ \/ Cardinality(unremoved \cup {rec.id}) = Cardinality(unremoved)
                 \/ Cardinality(unremoved \cup {rec.id}) = Cardinality(unremoved) + 1
          BY <1>0, FiniteSubscriptions, FS_AddElement
        <4>2. /\ Cardinality(unremoved') <= Cardinality(unremoved \cup {rec.id})
              /\ Cardinality(unremoved') \in Nat
          BY <3>2, <4>1, FS_Subset, FS_CardinalityType
        <4>3. faults' = faults + 1 /\ faults \in Nat /\ Cardinality(unremoved) <= faults
          BY <1>0, <3>2, Units DEF Fault, SubTypes, Subscriptions
        <4> QED BY <1>0, <4>1, <4>2, <4>3, FiniteSubscriptions
      <3> QED BY <2>1, <3>1, <3>2
    <2>4. checkIn' # Off => Listening'
      BY <1>0, <2>1, <2>2 DEF Subscriptions, Listening
    <2>5. ASSUME down' # "no" PROVE Ended'
      <3>1. Ended /\ raced
        BY <1>0, <1>5, <2>5 DEF Subscriptions, Ended
      <3>2. live' \ unremoved' \subseteq
              Kept' \cup (IF raced' /\ removing' = {} THEN {Fresh} ELSE {})
        BY <1>0, <2>1, <3>1
      <3> QED BY <1>0, <2>1, <2>2, <3>1, <3>2 DEF Ended
    <2>6. down # "no" \/ checkIn # Off
      BY <1>0, OneReconnect DEF Subscriptions, Listening
    <2>7. stage = "ready"
      BY <1>0, <1>5 DEF Subscriptions
    <2> QED BY <1>0, <2>1, <2>3, <2>4, <2>5, <2>6, <2>7 DEF Subscriptions
  <1> QED BY <1>1, <1>2, <1>3, <1>4, <1>5 DEF Watch, Health

LEMMA WatchKeepsTheRest ==
  ASSUME LifecycleInv, Watch
  PROVE  LegTypes' /\ WalletFacts' /\ PutAway' /\ Provider' /\ InitRaceIsHarmless'
  <1>1. /\ SubTypes /\ LegTypes /\ WalletFacts /\ Subscriptions /\ PutAway /\ Provider
        /\ InitRaceIsHarmless
    BY DEF LifecycleInv
  <1>2. /\ UNCHANGED <<config, stage, program, assumed, traces, substrate, midnight, timers,
                       api, wallet, facades, leaked, down>>
        /\ faults' = faults \/ Fault
    BY <1>1, Reconnected DEF Watch, Health, Notified, Drops, HealthCheck, LateRemoval,
       Pass, startVars,
                legVars, walletVars, downVars
  <1>3. leaked' \in 0..faults'
    BY <1>1, <1>2, FaultsCount
  <1>4. LegTypes'
    BY <1>1, <1>2, <1>3 DEF LegTypes
  <1>5. faults > 0 => faults' > 0
    BY <1>1, <1>2, Units DEF SubTypes, Fault
  <1>6. WalletFacts' /\ PutAway'
    BY <1>1, <1>2 DEF WalletFacts, PutAway
  <1> QED BY <1>1, <1>2, <1>4, <1>5, <1>6 DEF Provider, InitRaceIsHarmless

------------------------------------------------------------------------------
LEMMA InitLifecycleInv == Init => LifecycleInv
  <1> SUFFICES ASSUME Init PROVE LifecycleInv
    OBVIOUS
  <1>1. /\ subscription = Null /\ live = {} /\ dead = {} /\ removing = {} /\ unremoved = {}
        /\ sinceEvent = Never /\ sinceReconnect = Cooldown /\ checkIn = Off /\ faults = 0
    BY DEF Init, HealthInit
  <1>2. /\ config \in Configs /\ stage = "new" /\ substrate = "none" /\ midnight = "null"
        /\ timers = {} /\ api = "none" /\ wallet = "none" /\ facades = 0 /\ leaked = 0
        /\ down = "no"
    BY DEF Init
  <1>3. SubTypes
    BY <1>1, Units DEF SubTypes
  <1>4. LegTypes
    BY <1>1, <1>2 DEF LegTypes, Stages, Downs
  <1>5. WalletFacts /\ PutAway /\ Provider /\ InitRaceIsHarmless
    BY <1>2 DEF WalletFacts, PutAway, Provider, InitRaceIsHarmless
  <1>6. Subscriptions
    BY <1>1, <1>2, <1>3, FiniteSubscriptions DEF Subscriptions
  <1> QED BY <1>3, <1>4, <1>5, <1>6 DEF LifecycleInv

LEMMA LifecycleInductive == LifecycleInv /\ [Next]_vars => LifecycleInv'
  <1> SUFFICES ASSUME LifecycleInv, [Next]_vars PROVE LifecycleInv'
    OBVIOUS
  <1>1. CASE Start \/ Wallet \/ Down
    BY <1>1, SubTypesKept, LegTypesKept, WalletFactsKept, SubscriptionsKept, PutAwayKept,
       ProviderKept, InitRaceIsHarmlessKept DEF LifecycleInv
  <1>2. CASE Watch
    BY <1>2, WatchKeepsTypes, WatchKeepsSubscriptions, WatchKeepsTheRest DEF LifecycleInv
  <1>3. CASE UNCHANGED vars
    <2>1. SubTypes' /\ LegTypes'
      BY <1>3 DEF LifecycleInv, vars, healthVars, clock, startVars, legVars, walletVars,
                  downVars, SubTypes, LegTypes
    <2>2. WalletFacts' /\ PutAway' /\ Provider' /\ InitRaceIsHarmless'
      BY <1>3 DEF LifecycleInv, vars, healthVars, startVars, legVars, walletVars,
         downVars, WalletFacts, PutAway, Provider, InitRaceIsHarmless
    <2>3. Subscriptions'
      <3>1. /\ UNCHANGED <<subscription, live, removing, unremoved, checkIn, closing,
                           raced>>
            /\ UNCHANGED <<stage, down>> /\ faults' = faults
        BY <1>3 DEF vars, healthVars, clock, startVars, downVars
      <3>2. faults <= faults'
        BY <3>1, Units DEF LifecycleInv, SubTypes
      <3> QED BY <2>1, <3>1, <3>2, SubscriptionsStay DEF LifecycleInv
    <2> QED BY <2>1, <2>2, <2>3 DEF LifecycleInv
  <1> QED BY <1>1, <1>2, <1>3 DEF Next

\* The inductive invariant, of which the theorems below are consequences.
THEOREM Invariance == Spec => []LifecycleInv
  BY InitLifecycleInv, LifecycleInductive, PTL DEF Spec

\* Types and limits of the whole server; among them, that no reconnect overlaps
\* another and that failed builds leak no more facades than there were failures.
THEOREM TypeCorrect == Spec => []LifecycleTypeOK
  <1>1. ASSUME LifecycleInv PROVE LifecycleTypeOK
    <2>1. SubTypes /\ LegTypes /\ WalletFacts /\ Subscriptions
      BY <1>1 DEF LifecycleInv
    <2>2. Cardinality(removing) <= 1
      <3>1. CASE removing = {}
        BY <3>1, FS_EmptySet
      <3>2. CASE removing # {}
        <4>1. PICK rec \in removing : removing = {rec}
          BY <2>1, <3>2 DEF Subscriptions
        <4>2. Cardinality({rec}) = 1
          BY FS_Singleton
        <4> QED BY <4>1, <4>2
      <3> QED BY <3>1, <3>2
    <2>3. leaked \in 0..MaxFaults /\ leaked + 0 = leaked
      BY <2>1, Units DEF SubTypes, LegTypes
    <2>4. facades \in 0..(MaxFaults + 1)
      <3>1. facades = leaked \/ facades = leaked + 1
        BY <2>1, <2>3 DEF WalletFacts
      <3> QED BY <2>3, <3>1, Units
    <2>5. \A rec \in removing : rec.id \in Ids /\ rec.age \in 0..RemovalTimeout
      BY <2>1 DEF SubTypes
    <2> QED BY <2>1, <2>2, <2>3, <2>4, <2>5 DEF SubTypes, LegTypes, Stages, Downs,
                                               LifecycleTypeOK
  <1> QED BY <1>1, Invariance, PTL

\* While the server listens a notification is delivered to one callback only, but
\* for old subscriptions whose removal failed, however often it reconnects
\* (startWebSocketHealthCheck, reconnectWebSocket).
THEOREM AlwaysOneSubscription == Spec => []OneSubscription
  <1>1. LifecycleInv => OneSubscription
    BY DEF LifecycleInv, Subscriptions, Listening, OneSubscription
  <1> QED BY <1>1, Invariance, PTL

\* Whoever initializes the program, ensureInitialized lets the server go on only
\* when it is initialized, and never takes the lost race for an error.
THEOREM AlwaysInitRaceIsHarmless == Spec => []InitRaceIsHarmless
  <1>1. LifecycleInv => InitRaceIsHarmless
    BY DEF LifecycleInv
  <1> QED BY <1>1, Invariance, PTL

\* responderWallet's memo: one facade at most, apart from those of failed builds and
\* stops, and it is the one stop finds.
THEOREM AlwaysOneWallet == Spec => []OneWallet
  <1>1. ASSUME LifecycleInv PROVE OneWallet
    <2>1. leaked \in Int /\ leaked + 0 = leaked
      BY <1>1, Units DEF LifecycleInv, SubTypes, LegTypes
    <2>2. facades = leaked + (IF wallet \in {"syncing", "ready"} THEN 1 ELSE 0)
      BY <1>1 DEF LifecycleInv, WalletFacts
    <2>3. CASE wallet \in {"syncing", "ready"}
      <3>1. facades = leaked + 1
        BY <2>2, <2>3
      <3>2. facades - leaked <= 1
        BY <2>1, <3>1
      <3> QED BY <2>3, <3>2 DEF OneWallet
    <2>4. CASE wallet \notin {"syncing", "ready"}
      <3>1. facades = leaked
        BY <2>1, <2>2, <2>4
      <3>2. facades - leaked <= 1 /\ ~(facades > leaked)
        BY <2>1, <3>1
      <3> QED BY <3>2 DEF OneWallet
    <2> QED BY <2>3, <2>4
  <1> QED BY <1>1, Invariance, PTL

\* After shutdown nothing runs, but for what removals, builds and stops that failed
\* and a reconnect in flight leave behind (one subscription for that reconnect), and
\* for the Substrate provider where a failed start or connect left it without an
\* api: disconnect does nothing then.
THEOREM AlwaysShutDownIsQuiet == Spec => []ShutDownIsQuiet
  <1>1. ASSUME LifecycleInv, down = "done" PROVE ShutDownIsQuiet
    <2>1. SubTypes /\ LegTypes /\ WalletFacts /\ Ended /\ PutAway /\ Provider
      BY <1>1 DEF LifecycleInv, Subscriptions
    <2>2. timers = {} /\ checkIn = Off /\ api = "none" /\ midnight = "null"
      BY <1>1, <2>1 DEF PutAway, Ended
    <2>3. wallet = "none"
      BY <2>1, <2>2 DEF WalletFacts
    <2>4. facades = leaked
      <3>1. facades = leaked + 0 /\ leaked \in Int
        BY <2>1, <2>3, Units DEF WalletFacts, SubTypes, LegTypes
      <3> QED BY <3>1
    <2>5. live \subseteq unremoved \/ (raced /\ Cardinality(live \ unremoved) = 1)
      <3>1. PICK id \in Ids : live \ unremoved \subseteq
                                IF raced /\ removing = {} THEN {id} ELSE {}
        BY <1>1, <2>1 DEF Ended, Kept
      <3>2. CASE live \ unremoved = {}
        BY <3>2
      <3>3. CASE live \ unremoved # {}
        <4>1. raced /\ live \ unremoved = {id}
          BY <3>1, <3>3
        <4>2. Cardinality({id}) = 1
          BY FS_Singleton
        <4> QED BY <4>1, <4>2
      <3> QED BY <3>2, <3>3
    <2>6. substrate = "none" \/ (substrate = "opened" /\ (stage = "failed" \/ faults > 0))
      BY <1>1, <2>1 DEF LegTypes, PutAway, Provider
    <2> QED BY <2>2, <2>3, <2>4, <2>5, <2>6 DEF ShutDownIsQuiet
  <1>2. LifecycleInv => ShutDownIsQuiet
    BY <1>1 DEF ShutDownIsQuiet
  <1> QED BY <1>2, Invariance, PTL

------------------------------------------------------------------------------
(* How long a subscription that delivers nothing may stay.                    *)

\* The silence after which a check finds the subscription stale and the last
\* reconnect long enough ago.
Patience == IF Cooldown > StaleThreshold THEN Cooldown ELSE StaleThreshold + 1

\* The ages have counted the silence; once it exceeds the patience, the next
\* check is so near, and once that has come, the removal so old.
Silence ==
  /\ silentFor \in Nat
  /\ heard => sinceEvent # Never
  /\ silentFor > 0 => heard /\ live \ dead = {}
  /\ sinceEvent >= silentFor \/ sinceEvent >= StaleThreshold + 1
  /\ sinceReconnect >= silentFor \/ sinceReconnect = Cooldown
  /\ checkIn # Off =>
       /\ removing = {} =>
            silentFor < Patience \/ silentFor + checkIn < Patience + CheckInterval
       /\ \A rec \in removing : silentFor < Patience + CheckInterval + rec.age

LEMMA PatienceUnits ==
  /\ Patience \in Nat /\ Patience >= Cooldown /\ Patience >= StaleThreshold + 1
  /\ ReplacedWithin = Patience + CheckInterval - 1 + RemovalTimeout
  BY Units DEF Patience, ReplacedWithin

\* Where the subscription is new, or there is none, silence begins anew.
LEMMA NoSilence ==
  ASSUME SubTypes, SubTypes', silentFor' = 0, heard' => sinceEvent' # Never
  PROVE  Silence'
  <1>1. /\ sinceEvent' \in Nat /\ sinceReconnect' \in Nat
        /\ \A rec \in removing' : rec.age \in Nat
    <2>1. sinceEvent' \in Nat /\ sinceReconnect' \in Nat
      BY Units DEF SubTypes
    <2>2. \A rec \in removing' : rec.age \in 0..RemovalTimeout
      BY DEF SubTypes
    <2> QED BY <2>1, <2>2, Units
  <1>2. sinceEvent' >= silentFor' /\ sinceReconnect' >= silentFor' /\ silentFor' < Patience
    BY <1>1, PatienceUnits, Units
  <1>3. \A rec \in removing' : silentFor' < Patience + CheckInterval + rec.age
    BY <1>1, PatienceUnits, Units
  <1> QED BY <1>2, <1>3 DEF Silence

LEMMA InitSilence == Init => Silence
  <1> SUFFICES ASSUME Init PROVE Silence
    OBVIOUS
  <1>1. /\ silentFor = 0 /\ heard = FALSE /\ sinceEvent = Never /\ sinceReconnect = Cooldown
        /\ checkIn = Off
    BY DEF Init, HealthInit
  <1>2. sinceEvent >= silentFor /\ sinceReconnect >= silentFor
    BY <1>1, Units
  <1> QED BY <1>1, <1>2 DEF Silence

LEMMA OneUnitLater ==
  ASSUME NEW silent \in Nat, NEW more \in Nat, more <= silent + 1, NEW patience \in Nat,
         NEW interval \in Nat, NEW left \in Nat, left <= interval, NEW next, next = left - 1,
         silent < patience \/ silent + left < patience + interval
  PROVE  more < patience \/ more + next < patience + interval
  OBVIOUS

LEMMA PassKeepsSilence == ASSUME LifecycleInv, LifecycleInv', Silence, Pass PROVE Silence'
  <1>1. SubTypes /\ Subscriptions /\ SubTypes' /\ Subscriptions'
    BY DEF LifecycleInv
  <1>2. /\ checkIn # 0 /\ checkIn' = (IF checkIn = Off THEN Off ELSE checkIn - 1)
        /\ sinceEvent' = (IF sinceEvent = Never THEN Never
                          ELSE Capped(sinceEvent, StaleThreshold + 1))
        /\ sinceReconnect' = Capped(sinceReconnect, Cooldown)
        /\ silentFor' = (IF live \ dead = {} /\ heard /\ checkIn # Off
                         THEN Capped(silentFor, ReplacedWithin + 1) ELSE 0)
        /\ UNCHANGED <<live, dead, heard>>
    BY DEF Pass
  <1>3. sinceEvent \in Nat /\ sinceReconnect \in Nat /\ silentFor \in Nat
    BY <1>1, Units DEF SubTypes, Silence
  <1>4. heard' => sinceEvent' # Never
    BY <1>2, <1>3, Units DEF Silence, Capped
  <1>5. CASE silentFor' = 0
    BY <1>1, <1>4, <1>5, NoSilence
  <1>6. CASE silentFor' # 0
    <2>1. live \ dead = {} /\ heard /\ checkIn # Off
      BY <1>2, <1>6
    <2>2. silentFor' = Capped(silentFor, ReplacedWithin + 1)
      BY <1>2, <2>1
    <2>3. silentFor' \in Nat /\ silentFor' <= silentFor + 1
      BY <1>3, <2>2, PatienceUnits, Units DEF Capped
    <2>4. sinceEvent' >= silentFor' \/ sinceEvent' >= StaleThreshold + 1
      <3>1. sinceEvent' = Capped(sinceEvent, StaleThreshold + 1)
        BY <1>2, <2>1 DEF Silence
      <3>2. sinceEvent >= silentFor \/ sinceEvent >= StaleThreshold + 1
        BY DEF Silence
      <3> QED BY <1>3, <2>3, <3>1, <3>2, Units DEF Capped
    <2>5. sinceReconnect' >= silentFor' \/ sinceReconnect' = Cooldown
      <3>1. sinceReconnect >= silentFor \/ sinceReconnect = Cooldown
        BY DEF Silence
      <3>2. sinceReconnect <= Cooldown
        BY <1>1, Units DEF SubTypes
      <3> QED BY <1>2, <1>3, <2>3, <3>1, <3>2, Units DEF Capped
    <2>6. checkIn \in 1..CheckInterval /\ checkIn' = checkIn - 1
      BY <1>1, <1>2, <2>1, Units DEF SubTypes
    <2>7. removing' = {[rec EXCEPT !.age = Capped(@, RemovalTimeout)] : rec \in removing}
      BY DEF Pass
    <2>8. removing' = {} =>
            silentFor' < Patience \/ silentFor' + checkIn' < Patience + CheckInterval
      <3>1. SUFFICES ASSUME removing' = {}
            PROVE silentFor' < Patience \/ silentFor' + checkIn' < Patience + CheckInterval
        OBVIOUS
      <3>2. removing = {}
        BY <2>7, <3>1
      <3>3. silentFor < Patience \/ silentFor + checkIn < Patience + CheckInterval
        BY <2>1, <3>2 DEF Silence
      <3>4. Patience \in Nat /\ CheckInterval \in Nat /\ checkIn \in Nat /\ checkIn <= CheckInterval
        BY <2>6, PatienceUnits, Units
      <3>5. checkIn' = checkIn - 1
        BY <2>6
      <3>6. silentFor \in Nat /\ silentFor' \in Nat /\ silentFor' <= silentFor + 1
        BY <1>3, <2>3
      <3> QED BY <3>3, <3>4, <3>5, <3>6, OneUnitLater
    <2>9. ASSUME NEW rec \in removing'
          PROVE  silentFor' < Patience + CheckInterval + rec.age
      <3>1. PICK old \in removing : rec = [old EXCEPT !.age = Capped(@, RemovalTimeout)]
        BY <2>7
      <3>2. old \in [id : Ids, age : 0..RemovalTimeout] /\ ~TimedOut(old)
        BY <1>1 DEF SubTypes, Pass
      <3>3. rec.age = Capped(old.age, RemovalTimeout)
        BY <3>1, <3>2
      <3>4. rec.age = old.age + 1
        BY <3>2, <3>3, Units DEF TimedOut, Capped
      <3>5. silentFor < Patience + CheckInterval + old.age
        BY <2>1 DEF Silence
      <3> QED BY <1>3, <2>3, <3>2, <3>4, <3>5, PatienceUnits, Units
    <2> QED BY <1>2, <1>4, <2>1, <2>3, <2>4, <2>5, <2>8, <2>9 DEF Silence
  <1> QED BY <1>5, <1>6

LEMMA CheckKeepsSilence ==
  ASSUME LifecycleInv, LifecycleInv', Silence, HealthCheck PROVE Silence'
  <1>1. SubTypes /\ Subscriptions
    BY DEF LifecycleInv
  <1>2. /\ checkIn = 0 /\ checkIn' = CheckInterval
        /\ removing' = (IF OutOfCooldown /\ IsStale
                        THEN removing \cup {[id |-> subscription, age |-> 0]} ELSE removing)
        /\ UNCHANGED <<sinceEvent, sinceReconnect, heard, silentFor, live, dead>>
    BY DEF HealthCheck
  <1>3. sinceEvent \in Nat /\ sinceReconnect \in Nat /\ silentFor \in Nat
    BY <1>1, Units DEF SubTypes, Silence
  <1>4. checkIn # Off /\ removing = {}
    <2>1. checkIn # Off
      BY <1>2, Units
    <2>2. ASSUME NEW rec \in removing PROVE FALSE
      <3>1. rec.age \in 0..RemovalTimeout /\ rec.age + checkIn = CheckInterval
        BY <1>1, <2>1, <2>2 DEF Subscriptions, Listening, SubTypes
      <3> QED BY <1>2, <3>1, Units
    <2> QED BY <2>1, <2>2
  <1>5. silentFor < Patience + CheckInterval
    BY <1>2, <1>3, <1>4, PatienceUnits, Units DEF Silence
  <1>6. \A rec \in removing' : silentFor' < Patience + CheckInterval + rec.age
    <2>1. \A rec \in removing' : rec.age = 0
      BY <1>2, <1>4
    <2> QED BY <1>2, <1>3, <1>5, <2>1, PatienceUnits, Units
  <1>7. removing' = {} => silentFor' < Patience
    <2>1. SUFFICES ASSUME removing' = {}, silentFor >= Patience PROVE FALSE
      BY <1>2, <1>3, PatienceUnits
    <2>2. sinceEvent >= StaleThreshold + 1 /\ sinceReconnect >= Cooldown
      BY <1>3, <2>1, PatienceUnits, Units DEF Silence
    <2>3. silentFor > 0
      BY <1>3, <2>1, PatienceUnits, Units
    <2>4. sinceEvent # Never
      BY <2>3 DEF Silence
    <2>5. OutOfCooldown /\ IsStale
      BY <1>3, <2>2, <2>4, Units DEF OutOfCooldown, IsStale
    <2> QED BY <1>2, <2>1, <2>5
  <1> QED BY <1>2, <1>6, <1>7 DEF Silence

LEMMA SilenceInductive == LifecycleInv /\ LifecycleInv' /\ Silence /\ [Next]_vars => Silence'
  <1> SUFFICES ASSUME LifecycleInv, LifecycleInv', Silence, [Next]_vars PROVE Silence'
    OBVIOUS
  <1>0. SubTypes /\ LegTypes /\ Subscriptions /\ SubTypes' /\ Subscriptions'
    BY DEF LifecycleInv
  <1>1. CASE UNCHANGED <<silentFor, heard, sinceEvent, sinceReconnect, live, dead, checkIn,
                         removing>>
    BY <1>1 DEF Silence
  <1>2. CASE StartMidnight
    <2>1. CASE config.disableSolana
      BY <1>1, <1>2, <2>1 DEF StartMidnight
    <2>2. CASE ~config.disableSolana
      <3>1. silentFor' = 0 /\ UNCHANGED <<heard, sinceEvent>>
        BY <1>2, <2>2 DEF StartMidnight, subscribeToLogs
      <3> QED BY <1>0, <3>1, NoSilence DEF Silence
    <2> QED BY <2>1, <2>2
  <1>3. CASE ApiFails
    <2>1. silentFor' = 0 /\ heard' = FALSE
      BY <1>3 DEF ApiFails
    <2> QED BY <1>0, <2>1, NoSilence
  <1>4. CASE Shutdown
    <2>1. /\ checkIn' = Off
          /\ UNCHANGED <<silentFor, heard, sinceEvent, sinceReconnect, live, dead>>
      BY <1>4 DEF Shutdown, CheckAfterShutdown
    <2> QED BY <2>1 DEF Silence
  <1>5. CASE Unsubscribed
    <2>1. /\ live' \ dead' \subseteq live \ dead
          /\ UNCHANGED <<silentFor, heard, sinceEvent, sinceReconnect, checkIn, removing>>
      BY <1>5 DEF Unsubscribed, clock
    <2> QED BY <2>1 DEF Silence
  <1>6. CASE Notified
    <2>1. /\ live \ dead # {} /\ sinceEvent' = 0 /\ silentFor' = silentFor
      BY <1>6 DEF Notified
    <2>2. silentFor' = 0 /\ sinceEvent' # Never
      BY <2>1, Units DEF Silence
    <2> QED BY <1>0, <2>2, NoSilence
  <1>7. CASE Drops
    <2>1. silentFor' = 0 /\ UNCHANGED <<heard, sinceEvent>>
      BY <1>7 DEF Drops
    <2> QED BY <1>0, <2>1, NoSilence DEF Silence
  <1>8. CASE LateRemoval
    <2>1. /\ live' \ dead' \subseteq live \ dead
          /\ UNCHANGED <<silentFor, heard, sinceEvent, sinceReconnect, checkIn, removing>>
      BY <1>8 DEF LateRemoval, clock
    <2> QED BY <2>1 DEF Silence
  <1>9. ASSUME NEW rec \in removing, Removed(rec) \/ RemovalFails(rec) PROVE Silence'
    <2>1. silentFor' = 0 /\ sinceEvent' = 0
      BY <1>9 DEF Removed, RemovalFails, Resubscribe, subscribeToLogs, EventAge
    <2>2. sinceEvent' # Never
      BY <2>1, Units
    <2> QED BY <1>0, <2>1, <2>2, NoSilence
  <1>10. CASE Start
    <2>1. ElsewhereInitialized \/ ApiOpens => UNCHANGED healthVars
      BY DEF ElsewhereInitialized, ApiOpens
    <2>2. Construct => UNCHANGED healthVars
      BY DEF Construct
    <2>3. Probe \/ ReadState \/ Initialize \/ Connect =>
            UNCHANGED <<live, dead, clock, removing>>
      BY DEF Probe, ReadState, Initialize, Connect
    <2> QED BY <1>1, <1>2, <1>3, <1>10, <2>1, <2>2, <2>3 DEF Start, healthVars, clock
  <1>11. CASE Wallet
    <2>1. UNCHANGED <<live, dead, clock, removing>>
      BY <1>11 DEF Wallet, BuildWallet, FacadeStarts, Synced, BuildFails, healthVars
    <2> QED BY <1>1, <2>1 DEF clock
  <1>12. CASE Down
    <2>1. Disconnected \/ StopMidnight \/ WalletResolves \/ Closed => UNCHANGED healthVars
      BY DEF Disconnected, StopMidnight, WalletResolves, Closed
    <2>2. UnsubscribeFails \/ DisconnectFails \/ FacadeStopped =>
            UNCHANGED <<live, dead, clock, removing>>
      BY DEF UnsubscribeFails, DisconnectFails, FacadeStopped
    <2> QED BY <1>1, <1>4, <1>5, <1>12, <2>1, <2>2 DEF Down, healthVars, clock
  <1>13. CASE Watch
    BY <1>6, <1>7, <1>8, <1>9, <1>13, PassKeepsSilence, CheckKeepsSilence DEF Watch,
       Health
  <1>14. CASE UNCHANGED vars
    BY <1>1, <1>14 DEF vars, healthVars, clock
  <1> QED BY <1>10, <1>11, <1>12, <1>13, <1>14 DEF Next

\* A subscription that delivers nothing any more is replaced within the patience,
\* one interval and one removal, for any values of the four times, as long as a
\* removal ends before the next check (startWebSocketHealthCheck).
THEOREM AlwaysDeadIsReplaced == Spec => []DeadIsReplaced
  <1>1. ASSUME LifecycleInv, Silence PROVE DeadIsReplaced
    <2>1. SUFFICES ASSUME checkIn # Off PROVE silentFor <= ReplacedWithin
      BY DEF DeadIsReplaced
    <2>2. /\ silentFor \in Nat /\ checkIn \in Nat
          /\ \A rec \in removing : rec.age \in 0..RemovalTimeout
      BY <1>1, Units DEF LifecycleInv, SubTypes, Silence
    <2>3. CASE removing = {}
      BY <1>1, <2>1, <2>2, <2>3, PatienceUnits, Units DEF Silence
    <2>4. CASE removing # {}
      <3>1. PICK rec \in removing : silentFor < Patience + CheckInterval + rec.age
        BY <1>1, <2>1, <2>4 DEF Silence
      <3> QED BY <2>2, <3>1, PatienceUnits, Units
    <2> QED BY <2>3, <2>4
  <1>2. Spec => []Silence
    BY InitSilence, SilenceInductive, Invariance, PTL DEF Spec
  <1> QED BY <1>1, <1>2, Invariance, PTL
==============================================================================
