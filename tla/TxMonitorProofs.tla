---------------------------- MODULE TxMonitorProofs ----------------------------
(***************************************************************************)
(* Proofs about TxMonitor, for any requests, transactions, backoff table    *)
(* and bounds: its type invariant, its safety invariants, and that it       *)
(* implements ResponsePromise.                                              *)
(***************************************************************************)
EXTENDS TxMonitor, TLAPS

\* An awaiting handler was started.
HandlersCounted == \A r \in Req : handlers[r] <= starts[r]

TypeInv == TypeOK /\ HandlersCounted

\* The tick works under the hash of the request it holds.
WorkMatches == pc \in Working => TxOf[req] = tx

\* What the tick has read still holds when it acts on it: outcomes are final.
ReadsHold ==
    /\ pc \in {"extract", "postSuccess"} => outcome[tx] = "ok"
    /\ pc = "recheck" => outcome[tx] \in Final
    /\ pc = "report" => Failure(tx)
    /\ pc = "lastWord" => req \in abandoned

\* A response that may still land would be true.
AfloatIsTrue ==
    \A r \in Req :
       /\ <<r, "success">> \in afloat => outcome[TxOf[r]] = "ok"
       /\ <<r, "error">> \in afloat => Failure(TxOf[r]) \/ r \in abandoned

\* The cache is filled before a response is on its way.
CachedFirst ==
    /\ pc \in Posting => cache[req] # "none"
    /\ restarts = 0 =>
         \A r \in Req : \A kind \in {"success", "error"} :
            <<r, kind>> \in afloat => cache[r] # "none"

\* The entry the tick works on is the one it read, unless it was displaced.
EntryKept ==
    pc \in Working => pending[tx] = req \/ pending[tx] \in clobbered

MonitorInv ==
    /\ TypeInv
    /\ MonitoredIsSigned /\ WorkMatches
    /\ ReadsHold /\ AfloatIsTrue /\ AnswersAreTrue
    /\ CachedFirst /\ CacheIsTrue
    /\ EntryKept
-----------------------------------------------------------------------------
(* Type correctness. *)

\* A freshly started server is well typed.
LEMMA InitTypeInv == Init => TypeInv
  BY MonitorAssumption
  DEF Init, TypeInv, TypeOK, ChainTypeOK, IntakeTypeOK, TableTypeOK, WorkTypeOK,
     HandlersCounted, Final, Posts, Working, Reading, Posting

\* Remainders are smaller than the modulus.
LEMMA PollBounded ==
    ASSUME NEW n \in Nat
    PROVE  n % Period \in 0..(Period - 1)
  BY MonitorAssumption

\* What a dying process leaves in flight is a set of posts.
LEMMA InFlightIsTyped ==
    ASSUME TypeInv
    PROVE  InFlight \subseteq Posts
  <1>1. pc \in Posting => req \in Req
    BY DEF TypeInv, TypeOK, WorkTypeOK, Working
  <1> QED BY <1>1 DEF InFlight, Posts, Kind

\* Every action keeps the types of what is on the two chains.
LEMMA ChainTypeStep ==
    ASSUME TypeInv, [Next]_vars
    PROVE  ChainTypeOK'
  <1> USE MonitorAssumption
      DEF TypeInv, TypeOK, ChainTypeOK, WorkTypeOK,
          Final, Posts, Working, Reading, Posting,
          chain, intake, map, tick, work
  <1>1. ASSUME NEW t \in Tx, Broadcast(t)
        PROVE  ChainTypeOK'
    BY <1>1 DEF Broadcast
  <1>2. ASSUME NEW t \in Tx, Resolve(t)
        PROVE  ChainTypeOK'
    BY <1>2 DEF Resolve
  <1>3. ASSUME NEW r \in Req,
               NEW kind \in {"signature", "success", "error"}, LateLanding(r, kind)
        PROVE  ChainTypeOK'
    BY <1>3 DEF LateLanding
  <1>4. ASSUME NEW r \in Req, StartHandler(r)
        PROVE  ChainTypeOK'
    BY <1>4 DEF StartHandler
  <1>5. ASSUME NEW r \in Req, SignatureSent(r)
        PROVE  ChainTypeOK'
    BY <1>5 DEF SignatureSent, Register
  <1>6. ASSUME NEW r \in Req, SignatureFails(r)
        PROVE  ChainTypeOK'
    BY <1>6 DEF SignatureFails, Fault
  <1>7. CASE TickStart
    BY <1>7 DEF TickStart
  <1>8. ASSUME NEW t \in Tx, Visit(t)
        PROVE  ChainTypeOK'
    BY <1>8 DEF Visit
  <1>9. CASE TickEnd
    BY <1>9 DEF TickEnd
  <1>10. CASE ReadReceipt
    BY <1>10 DEF ReadReceipt, TellFailure, Counted
  <1>11. CASE ReadNonce
    BY <1>11 DEF ReadNonce, StillPending, Counted, Release
  <1>12. CASE RecheckReceipt
    BY <1>12
    DEF RecheckReceipt, Replaced, Mined, TellFailure, StillPending, Counted, Release
  <1>13. CASE ReadFails
    BY <1>13 DEF ReadFails, Fault, StillPending, Counted, Release
  <1>14. CASE Extracted
    BY <1>14 DEF Extracted, Counted
  <1>15. CASE ExtractFails
    BY <1>15 DEF ExtractFails, Fault, GivesUp, StillPending, Counted, Release
  <1>16. ASSUME NEW u \in BOOLEAN, ExtractImpossible(u)
        PROVE  ChainTypeOK'
    BY <1>16 DEF ExtractImpossible, Fault, TellFailure, Counted
  <1>17. CASE Posted
    BY <1>17 DEF Posted, Kind, Delete, Release
  <1>18. CASE PostFails
    BY <1>18 DEF PostFails, Fault, KeepsEntry, Kind, Delete, Release
  <1>19. CASE PostImpossible
    BY <1>19 DEF PostImpossible, Fault, TellFailure, Delete, Release
  <1>20. CASE Restart
    <2>1. InFlight \subseteq Posts
      BY InFlightIsTyped
    <2> QED BY <1>20, <2>1 DEF Restart
  <1>21. CASE UNCHANGED vars
    BY <1>21 DEF vars
  <1> QED
    BY <1>1, <1>2, <1>3, <1>4, <1>5, <1>6, <1>7, <1>8, <1>9, <1>10, <1>11,
       <1>12, <1>13, <1>14, <1>15, <1>16, <1>17, <1>18, <1>19, <1>20, <1>21
    DEF Next, Users, Late, Handlers, Monitor, Read, Post

\* Every action keeps the types of the handler counters, and the number of
\* handlers awaiting stays within the number started.
LEMMA IntakeTypeStep ==
    ASSUME TypeInv, [Next]_vars
    PROVE  (IntakeTypeOK /\ HandlersCounted)'
  <1> USE MonitorAssumption
      DEF TypeInv, TypeOK, IntakeTypeOK, HandlersCounted, chain, intake, map, tick, work
  <1>1. ASSUME NEW t \in Tx, Broadcast(t)
        PROVE  (IntakeTypeOK /\ HandlersCounted)'
    BY <1>1 DEF Broadcast
  <1>2. ASSUME NEW t \in Tx, Resolve(t)
        PROVE  (IntakeTypeOK /\ HandlersCounted)'
    BY <1>2 DEF Resolve
  <1>3. ASSUME NEW r \in Req,
               NEW kind \in {"signature", "success", "error"}, LateLanding(r, kind)
        PROVE  (IntakeTypeOK /\ HandlersCounted)'
    BY <1>3 DEF LateLanding
  <1>4. ASSUME NEW r \in Req, StartHandler(r)
        PROVE  (IntakeTypeOK /\ HandlersCounted)'
    BY <1>4 DEF StartHandler
  <1>5. ASSUME NEW r \in Req, SignatureSent(r)
        PROVE  (IntakeTypeOK /\ HandlersCounted)'
    BY <1>5 DEF SignatureSent, Register
  <1>6. ASSUME NEW r \in Req, SignatureFails(r)
        PROVE  (IntakeTypeOK /\ HandlersCounted)'
    BY <1>6 DEF SignatureFails, Fault
  <1>7. CASE TickStart
    BY <1>7 DEF TickStart
  <1>8. ASSUME NEW t \in Tx, Visit(t)
        PROVE  (IntakeTypeOK /\ HandlersCounted)'
    BY <1>8 DEF Visit
  <1>9. CASE TickEnd
    BY <1>9 DEF TickEnd
  <1>10. CASE ReadReceipt
    BY <1>10 DEF ReadReceipt, TellFailure, Counted
  <1>11. CASE ReadNonce
    BY <1>11 DEF ReadNonce, StillPending, Counted, Release
  <1>12. CASE RecheckReceipt
    BY <1>12
    DEF RecheckReceipt, Replaced, Mined, TellFailure, StillPending, Counted, Release
  <1>13. CASE ReadFails
    BY <1>13 DEF ReadFails, Fault, StillPending, Counted, Release
  <1>14. CASE Extracted
    BY <1>14 DEF Extracted, Counted
  <1>15. CASE ExtractFails
    BY <1>15 DEF ExtractFails, Fault, GivesUp, StillPending, Counted, Release
  <1>16. ASSUME NEW u \in BOOLEAN, ExtractImpossible(u)
        PROVE  (IntakeTypeOK /\ HandlersCounted)'
    BY <1>16 DEF ExtractImpossible, Fault, TellFailure, Counted
  <1>17. CASE Posted
    BY <1>17 DEF Posted, Kind, Delete, Release
  <1>18. CASE PostFails
    BY <1>18 DEF PostFails, Fault, KeepsEntry, Kind, Delete, Release
  <1>19. CASE PostImpossible
    BY <1>19 DEF PostImpossible, Fault, TellFailure, Delete, Release
  <1>20. CASE Restart
    BY <1>20 DEF Restart
  <1>21. CASE UNCHANGED vars
    BY <1>21 DEF vars
  <1> QED
    BY <1>1, <1>2, <1>3, <1>4, <1>5, <1>6, <1>7, <1>8, <1>9, <1>10, <1>11,
       <1>12, <1>13, <1>14, <1>15, <1>16, <1>17, <1>18, <1>19, <1>20, <1>21
    DEF Next, Users, Late, Handlers, Monitor, Read, Post

\* While a check is under way the tick holds an entry and its request.
LEMMA WorkIsTyped ==
    ASSUME TypeInv,
           pc \in {"receipt", "nonce", "recheck", "extract", "postSuccess",
                  "report", "lastWord"}
    PROVE  tx \in Tx /\ req \in Req
  BY DEF TypeInv, TypeOK, WorkTypeOK, Working, Reading, Posting

\* checkCount++ saturates within its range.
LEMMA CountedIsTyped ==
    ASSUME TableTypeOK, NEW t \in Tx, Counted(t)
    PROVE  checks' \in [Tx -> 0..MaxChecks]
  <1>1. CASE info = "stale"
    BY <1>1 DEF TableTypeOK, Counted
  <1>2. CASE info # "stale"
    <2> DEFINE n == IF checks[t] < MaxChecks THEN checks[t] + 1 ELSE checks[t]
    <2>1. n \in 0..MaxChecks
      BY MonitorAssumption DEF TableTypeOK
    <2>2. checks' = [checks EXCEPT ![t] = n]
      BY <1>2 DEF Counted
    <2> QED BY <2>1, <2>2 DEF TableTypeOK
  <1> QED BY <1>1, <1>2

\* Deleting an entry leaves the map well typed.
LEMMA DeleteIsTyped ==
    ASSUME TableTypeOK, NEW t \in Tx, Delete(t)
    PROVE  /\ pending' \in [Tx -> Req \cup {NoReq}]
           /\ checks' \in [Tx -> 0..MaxChecks]
  BY MonitorAssumption DEF TableTypeOK, Delete

\* Recording a failure leaves the cache well typed.
LEMMA TellFailureIsTyped ==
    ASSUME TableTypeOK, NEW r \in Req, NEW mode, TellFailure(r, mode)
    PROVE  cache' \in [Req -> {"none", "success", "failure"}]
  BY DEF TableTypeOK, TellFailure

\* Setting an entry leaves the map well typed.
LEMMA RegisterIsTyped ==
    ASSUME TableTypeOK, NEW r \in Req, Register(r)
    PROVE  /\ pending' \in [Tx -> Req \cup {NoReq}]
           /\ checks' \in [Tx -> 0..MaxChecks]
  BY MonitorAssumption DEF TableTypeOK, Register

\* A failed extraction below the cap keeps the counter below the cap.
LEMMA ExtractFailsIsTyped ==
    ASSUME TableTypeOK, tx \in Tx,
           \/ extractFails' = [extractFails EXCEPT ![tx] = 0]
           \/ /\ extractFails' = [extractFails EXCEPT ![tx] = @ + 1]
              /\ ~GivesUp(extractFails[tx] + 1)
    PROVE  extractFails' \in [Tx -> 0..(MaxExtractionFailures - 1)]
  <1> DEFINE R == 0..(MaxExtractionFailures - 1)
  <1>1. /\ extractFails \in [Tx -> R] /\ extractFails[tx] \in R
        /\ MaxExtractionFailures \in Nat \ {0}
    BY MonitorAssumption DEF TableTypeOK
  <1>2. 0 \in R
    BY <1>1
  <1>3. ~GivesUp(extractFails[tx] + 1) => extractFails[tx] + 1 \in R
    BY <1>1 DEF GivesUp
  <1> QED BY <1>1, <1>2, <1>3

\* Every action keeps the types of the pending map, the extraction counters
\* and the response cache.
LEMMA TableTypeStep ==
    ASSUME TypeInv, [Next]_vars
    PROVE  TableTypeOK'
  <1> USE MonitorAssumption
      DEF TypeInv, TypeOK, TableTypeOK, map
  <1>1. ASSUME NEW t \in Tx, Broadcast(t)
        PROVE  TableTypeOK'
    BY <1>1 DEF Broadcast
  <1>2. ASSUME NEW t \in Tx, Resolve(t)
        PROVE  TableTypeOK'
    BY <1>2 DEF Resolve
  <1>3. ASSUME NEW r \in Req,
               NEW kind \in {"signature", "success", "error"}, LateLanding(r, kind)
        PROVE  TableTypeOK'
    BY <1>3 DEF LateLanding
  <1>4. ASSUME NEW r \in Req, StartHandler(r)
        PROVE  TableTypeOK'
    BY <1>4 DEF StartHandler
  <1>5. ASSUME NEW r \in Req, SignatureSent(r)
        PROVE  TableTypeOK'
    BY <1>5, RegisterIsTyped DEF SignatureSent
  <1>6. ASSUME NEW r \in Req, SignatureFails(r)
        PROVE  TableTypeOK'
    BY <1>6 DEF SignatureFails, Fault
  <1>7. CASE TickStart
    BY <1>7 DEF TickStart
  <1>8. ASSUME NEW t \in Tx, Visit(t)
        PROVE  TableTypeOK'
    BY <1>8 DEF Visit
  <1>9. CASE TickEnd
    BY <1>9 DEF TickEnd
  <1>10. CASE ReadReceipt
    <2>1. tx \in Tx /\ req \in Req
      BY <1>10, WorkIsTyped DEF ReadReceipt
    <2> QED BY <1>10, <2>1, CountedIsTyped, TellFailureIsTyped DEF ReadReceipt
  <1>11. CASE ReadNonce
    <2>1. tx \in Tx /\ req \in Req
      BY <1>11, WorkIsTyped DEF ReadNonce
    <2> QED BY <1>11, <2>1, CountedIsTyped DEF ReadNonce, StillPending
  <1>12. CASE RecheckReceipt
    <2>1. tx \in Tx /\ req \in Req
      BY <1>12, WorkIsTyped DEF RecheckReceipt
    <2> QED BY <1>12, <2>1, CountedIsTyped, TellFailureIsTyped DEF RecheckReceipt, Replaced, StillPending
  <1>13. CASE ReadFails
    <2>1. tx \in Tx /\ req \in Req
      BY <1>13, WorkIsTyped DEF ReadFails, Reading
    <2> QED BY <1>13, <2>1, CountedIsTyped DEF ReadFails, Fault, StillPending
  <1>14. CASE Extracted
    <2>1. tx \in Tx /\ req \in Req
      BY <1>14, WorkIsTyped DEF Extracted
    <2>2. extractFails' \in [Tx -> 0..(MaxExtractionFailures - 1)]
      BY <1>14, <2>1, ExtractFailsIsTyped DEF Extracted
    <2> QED BY <1>14, <2>1, <2>2, CountedIsTyped DEF Extracted
  <1>15. CASE ExtractFails
    <2>1. tx \in Tx /\ req \in Req
      BY <1>15, WorkIsTyped DEF ExtractFails
    <2>2. extractFails' \in [Tx -> 0..(MaxExtractionFailures - 1)]
      BY <1>15, <2>1, ExtractFailsIsTyped DEF ExtractFails
    <2> QED BY <1>15, <2>1, <2>2, CountedIsTyped DEF ExtractFails, StillPending
  <1>16. ASSUME NEW u \in BOOLEAN, ExtractImpossible(u)
        PROVE  TableTypeOK'
    <2>1. tx \in Tx /\ req \in Req
      BY <1>16, WorkIsTyped DEF ExtractImpossible
    <2>2. extractFails' \in [Tx -> 0..(MaxExtractionFailures - 1)]
      BY <1>16, <2>1, ExtractFailsIsTyped DEF ExtractImpossible
    <2> QED BY <1>16, <2>1, <2>2, CountedIsTyped, TellFailureIsTyped DEF ExtractImpossible
  <1>17. CASE Posted
    <2>1. tx \in Tx /\ req \in Req
      BY <1>17, WorkIsTyped DEF Posted, Posting
    <2> QED BY <1>17, <2>1, DeleteIsTyped DEF Posted, Release
  <1>18. CASE PostFails
    <2>1. tx \in Tx /\ req \in Req
      BY <1>18, WorkIsTyped DEF PostFails, Posting
    <2> QED BY <1>18, <2>1, DeleteIsTyped DEF PostFails, Fault, KeepsEntry, Release
  <1>19. CASE PostImpossible
    <2>1. tx \in Tx /\ req \in Req
      BY <1>19, WorkIsTyped DEF PostImpossible
    <2> QED BY <1>19, <2>1, DeleteIsTyped, TellFailureIsTyped DEF PostImpossible, Fault, Release
  <1>20. CASE Restart
    BY <1>20 DEF Restart
  <1>21. CASE UNCHANGED vars
    BY <1>21 DEF vars
  <1> QED
    BY <1>1, <1>2, <1>3, <1>4, <1>5, <1>6, <1>7, <1>8, <1>9, <1>10, <1>11,
       <1>12, <1>13, <1>14, <1>15, <1>16, <1>17, <1>18, <1>19, <1>20, <1>21
    DEF Next, Users, Late, Handlers, Monitor, Read, Post

\* Every action keeps the types of the tick's own state.
LEMMA WorkTypeStep ==
    ASSUME TypeInv, [Next]_vars
    PROVE  WorkTypeOK'
  <1> USE MonitorAssumption
      DEF TypeInv, TypeOK, TableTypeOK, WorkTypeOK,
          Final, Posts, Working, Reading, Posting,
          chain, intake, map, tick, work
  <1>1. ASSUME NEW t \in Tx, Broadcast(t)
        PROVE  WorkTypeOK'
    BY <1>1 DEF Broadcast
  <1>2. ASSUME NEW t \in Tx, Resolve(t)
        PROVE  WorkTypeOK'
    BY <1>2 DEF Resolve
  <1>3. ASSUME NEW r \in Req,
               NEW kind \in {"signature", "success", "error"}, LateLanding(r, kind)
        PROVE  WorkTypeOK'
    BY <1>3 DEF LateLanding
  <1>4. ASSUME NEW r \in Req, StartHandler(r)
        PROVE  WorkTypeOK'
    BY <1>4 DEF StartHandler
  <1>5. ASSUME NEW r \in Req, SignatureSent(r)
        PROVE  WorkTypeOK'
    BY <1>5 DEF SignatureSent, Register
  <1>6. ASSUME NEW r \in Req, SignatureFails(r)
        PROVE  WorkTypeOK'
    BY <1>6 DEF SignatureFails, Fault
  <1>7. CASE TickStart
    <2>1. poll + 1 \in Nat
      OBVIOUS
    <2>2. (poll + 1) % Period \in 0..(Period - 1)
      BY <2>1, PollBounded
    <2> QED BY <1>7, <2>2 DEF TickStart
  <1>8. ASSUME NEW t \in Tx, Visit(t)
        PROVE  WorkTypeOK'
    BY <1>8 DEF Visit
  <1>9. CASE TickEnd
    BY <1>9 DEF TickEnd
  <1>10. CASE ReadReceipt
    BY <1>10 DEF ReadReceipt, TellFailure, Counted
  <1>11. CASE ReadNonce
    BY <1>11 DEF ReadNonce, StillPending, Counted, Release
  <1>12. CASE RecheckReceipt
    BY <1>12
    DEF RecheckReceipt, Replaced, Mined, TellFailure, StillPending, Counted, Release
  <1>13. CASE ReadFails
    BY <1>13 DEF ReadFails, Fault, StillPending, Counted, Release
  <1>14. CASE Extracted
    BY <1>14 DEF Extracted, Counted
  <1>15. CASE ExtractFails
    BY <1>15 DEF ExtractFails, Fault, GivesUp, StillPending, Counted, Release
  <1>16. ASSUME NEW u \in BOOLEAN, ExtractImpossible(u)
        PROVE  WorkTypeOK'
    BY <1>16 DEF ExtractImpossible, Fault, TellFailure, Counted
  <1>17. CASE Posted
    BY <1>17 DEF Posted, Kind, Delete, Release
  <1>18. CASE PostFails
    BY <1>18 DEF PostFails, Fault, KeepsEntry, Kind, Delete, Release
  <1>19. CASE PostImpossible
    BY <1>19 DEF PostImpossible, Fault, TellFailure, Delete, Release
  <1>20. CASE Restart
    BY <1>20 DEF Restart
  <1>21. CASE UNCHANGED vars
    BY <1>21 DEF vars
  <1> QED
    BY <1>1, <1>2, <1>3, <1>4, <1>5, <1>6, <1>7, <1>8, <1>9, <1>10, <1>11,
       <1>12, <1>13, <1>14, <1>15, <1>16, <1>17, <1>18, <1>19, <1>20, <1>21
    DEF Next, Users, Late, Handlers, Monitor, Read, Post

\* Type correctness is inductive.
LEMMA NextTypeInv == TypeInv /\ [Next]_vars => TypeInv'
  BY ChainTypeStep, IntakeTypeStep, TableTypeStep, WorkTypeStep DEF TypeInv, TypeOK

\* Every variable keeps its type: in particular the extraction failures stay
\* below their cap and the poll counter below its period.
THEOREM TypeCorrect == Spec => []TypeOK
  <1>1. Spec => []TypeInv
    BY InitTypeInv, NextTypeInv, PTL DEF Spec
  <1> QED BY <1>1, PTL DEF TypeInv
-----------------------------------------------------------------------------
(* Safety. *)

\* An outcome is final, and the histories only grow.
Lasting ==
    /\ \A t \in Tx : outcome[t] \in Final => outcome'[t] = outcome[t]
    /\ abandoned \subseteq abandoned'
    /\ clobbered \subseteq clobbered'

\* What has happened stays: outcomes are final, responses are not taken back,
\* and the history only grows.
LEMMA LastingStep ==
    ASSUME TypeInv, [Next]_vars
    PROVE  Lasting
  <1> USE DEF TypeInv, TypeOK, ChainTypeOK, Lasting, Final, chain
  <1>1. ASSUME NEW t \in Tx, Broadcast(t)
        PROVE  Lasting
    BY <1>1 DEF Broadcast
  <1>2. ASSUME NEW t \in Tx, Resolve(t)
        PROVE  Lasting
    BY <1>2 DEF Resolve
  <1>3. ASSUME NEW r \in Req,
               NEW kind \in {"signature", "success", "error"}, LateLanding(r, kind)
        PROVE  Lasting
    BY <1>3 DEF LateLanding
  <1>4. ASSUME NEW r \in Req, StartHandler(r)
        PROVE  Lasting
    BY <1>4 DEF StartHandler
  <1>5. ASSUME NEW r \in Req, SignatureSent(r)
        PROVE  Lasting
    BY <1>5 DEF SignatureSent, Register
  <1>6. ASSUME NEW r \in Req, SignatureFails(r)
        PROVE  Lasting
    BY <1>6 DEF SignatureFails, Fault
  <1>7. CASE TickStart
    BY <1>7 DEF TickStart
  <1>8. ASSUME NEW t \in Tx, Visit(t)
        PROVE  Lasting
    BY <1>8 DEF Visit
  <1>9. CASE TickEnd
    BY <1>9 DEF TickEnd
  <1>10. CASE ReadReceipt
    BY <1>10 DEF ReadReceipt, TellFailure, Counted
  <1>11. CASE ReadNonce
    BY <1>11 DEF ReadNonce, StillPending, Counted, Release
  <1>12. CASE RecheckReceipt
    BY <1>12
    DEF RecheckReceipt, Replaced, Mined, TellFailure, StillPending, Counted, Release
  <1>13. CASE ReadFails
    BY <1>13 DEF ReadFails, Fault, StillPending, Counted, Release
  <1>14. CASE Extracted
    BY <1>14 DEF Extracted, Counted
  <1>15. CASE ExtractFails
    BY <1>15 DEF ExtractFails, Fault, GivesUp, StillPending, Counted, Release
  <1>16. ASSUME NEW u \in BOOLEAN, ExtractImpossible(u)
        PROVE  Lasting
    BY <1>16 DEF ExtractImpossible, Fault, TellFailure, Counted
  <1>17. CASE Posted
    BY <1>17 DEF Posted, Kind, Delete, Release
  <1>18. CASE PostFails
    BY <1>18 DEF PostFails, Fault, KeepsEntry, Kind, Delete, Release
  <1>19. CASE PostImpossible
    BY <1>19 DEF PostImpossible, Fault, TellFailure, Delete, Release
  <1>20. CASE Restart
    BY <1>20 DEF Restart
  <1>21. CASE UNCHANGED vars
    BY <1>21 DEF vars
  <1> QED
    BY <1>1, <1>2, <1>3, <1>4, <1>5, <1>6, <1>7, <1>8, <1>9, <1>10, <1>11,
       <1>12, <1>13, <1>14, <1>15, <1>16, <1>17, <1>18, <1>19, <1>20, <1>21
    DEF Next, Users, Late, Handlers, Monitor, Read, Post

\* Every action keeps the entries under their own hash, with a delivered
\* signature.
LEMMA EntriesStep ==
    ASSUME TypeInv, MonitoredIsSigned, WorkMatches, [Next]_vars
    PROVE  (MonitoredIsSigned /\ WorkMatches)'
  <1> USE MonitorAssumption
      DEF TypeInv, TypeOK, TableTypeOK, WorkTypeOK, MonitoredIsSigned, WorkMatches,
          Working, Reading, Posting, chain, intake, map, tick, work
  <1>1. ASSUME NEW t \in Tx, Broadcast(t)
        PROVE  (MonitoredIsSigned /\ WorkMatches)'
    BY <1>1 DEF Broadcast
  <1>2. ASSUME NEW t \in Tx, Resolve(t)
        PROVE  (MonitoredIsSigned /\ WorkMatches)'
    BY <1>2 DEF Resolve
  <1>3. ASSUME NEW r \in Req,
               NEW kind \in {"signature", "success", "error"}, LateLanding(r, kind)
        PROVE  (MonitoredIsSigned /\ WorkMatches)'
    BY <1>3 DEF LateLanding
  <1>4. ASSUME NEW r \in Req, StartHandler(r)
        PROVE  (MonitoredIsSigned /\ WorkMatches)'
    BY <1>4 DEF StartHandler
  <1>5. ASSUME NEW r \in Req, SignatureSent(r)
        PROVE  (MonitoredIsSigned /\ WorkMatches)'
    BY <1>5 DEF SignatureSent, Register
  <1>6. ASSUME NEW r \in Req, SignatureFails(r)
        PROVE  (MonitoredIsSigned /\ WorkMatches)'
    BY <1>6 DEF SignatureFails, Fault
  <1>7. CASE TickStart
    BY <1>7 DEF TickStart
  <1>8. ASSUME NEW t \in Tx, Visit(t)
        PROVE  (MonitoredIsSigned /\ WorkMatches)'
    BY <1>8 DEF Visit
  <1>9. CASE TickEnd
    BY <1>9 DEF TickEnd
  <1>10. CASE ReadReceipt
    BY <1>10 DEF ReadReceipt, TellFailure, Counted
  <1>11. CASE ReadNonce
    BY <1>11 DEF ReadNonce, StillPending, Counted, Release
  <1>12. CASE RecheckReceipt
    BY <1>12
    DEF RecheckReceipt, Replaced, Mined, TellFailure, StillPending, Counted, Release
  <1>13. CASE ReadFails
    BY <1>13 DEF ReadFails, Fault, StillPending, Counted, Release
  <1>14. CASE Extracted
    BY <1>14 DEF Extracted, Counted
  <1>15. CASE ExtractFails
    BY <1>15 DEF ExtractFails, Fault, GivesUp, StillPending, Counted, Release
  <1>16. ASSUME NEW u \in BOOLEAN, ExtractImpossible(u)
        PROVE  (MonitoredIsSigned /\ WorkMatches)'
    BY <1>16 DEF ExtractImpossible, Fault, TellFailure, Counted
  <1>17. CASE Posted
    BY <1>17 DEF Posted, Kind, Delete, Release
  <1>18. CASE PostFails
    BY <1>18 DEF PostFails, Fault, KeepsEntry, Kind, Delete, Release
  <1>19. CASE PostImpossible
    BY <1>19 DEF PostImpossible, Fault, TellFailure, Delete, Release
  <1>20. CASE Restart
    BY <1>20 DEF Restart
  <1>21. CASE UNCHANGED vars
    BY <1>21 DEF vars
  <1> QED
    BY <1>1, <1>2, <1>3, <1>4, <1>5, <1>6, <1>7, <1>8, <1>9, <1>10, <1>11,
       <1>12, <1>13, <1>14, <1>15, <1>16, <1>17, <1>18, <1>19, <1>20, <1>21
    DEF Next, Users, Late, Handlers, Monitor, Read, Post

\* What the check has read stays true while the chain, the handlers and late
\* posts move on.
LEMMA ReadsHoldStep ==
    ASSUME TypeInv, WorkMatches, ReadsHold, [Next]_vars
    PROVE  ReadsHold'
  <1> USE MonitorAssumption, LastingStep
      DEF TypeInv, TypeOK, ChainTypeOK, WorkTypeOK, Lasting, ReadsHold, Failure, Final,
          Mined, Working, Reading, Posting, chain, intake, map, tick, work
  <1>1. ASSUME NEW t \in Tx, Broadcast(t)
        PROVE  ReadsHold'
    BY <1>1 DEF Broadcast
  <1>2. ASSUME NEW t \in Tx, Resolve(t)
        PROVE  ReadsHold'
    BY <1>2 DEF Resolve
  <1>3. ASSUME NEW r \in Req,
               NEW kind \in {"signature", "success", "error"}, LateLanding(r, kind)
        PROVE  ReadsHold'
    BY <1>3 DEF LateLanding
  <1>4. ASSUME NEW r \in Req, StartHandler(r)
        PROVE  ReadsHold'
    BY <1>4 DEF StartHandler
  <1>5. ASSUME NEW r \in Req, SignatureSent(r)
        PROVE  ReadsHold'
    BY <1>5 DEF SignatureSent, Register
  <1>6. ASSUME NEW r \in Req, SignatureFails(r)
        PROVE  ReadsHold'
    BY <1>6 DEF SignatureFails, Fault
  <1>7. CASE TickStart
    BY <1>7 DEF TickStart
  <1>8. ASSUME NEW t \in Tx, Visit(t)
        PROVE  ReadsHold'
    BY <1>8 DEF Visit
  <1>9. CASE TickEnd
    BY <1>9 DEF TickEnd
  <1>10. CASE ReadReceipt
    BY <1>10 DEF ReadReceipt, TellFailure, Counted
  <1>11. CASE ReadNonce
    BY <1>11 DEF ReadNonce, StillPending, Counted, Release
  <1>12. CASE RecheckReceipt
    BY <1>12
    DEF RecheckReceipt, Replaced, Mined, TellFailure, StillPending, Counted, Release
  <1>13. CASE ReadFails
    BY <1>13 DEF ReadFails, Fault, StillPending, Counted, Release
  <1>14. CASE Extracted
    BY <1>14 DEF Extracted, Counted
  <1>15. CASE ExtractFails
    BY <1>15 DEF ExtractFails, Fault, GivesUp, StillPending, Counted, Release
  <1>16. ASSUME NEW u \in BOOLEAN, ExtractImpossible(u)
        PROVE  ReadsHold'
    BY <1>16 DEF ExtractImpossible, Fault, TellFailure, Counted
  <1>17. CASE Posted
    BY <1>17 DEF Posted, Kind, Delete, Release
  <1>18. CASE PostFails
    BY <1>18 DEF PostFails, Fault, KeepsEntry, Kind, Delete, Release
  <1>19. CASE PostImpossible
    BY <1>19 DEF PostImpossible, Fault, TellFailure, Delete, Release
  <1>20. CASE Restart
    BY <1>20 DEF Restart
  <1>21. CASE UNCHANGED vars
    BY <1>21 DEF vars
  <1> QED
    BY <1>1, <1>2, <1>3, <1>4, <1>5, <1>6, <1>7, <1>8, <1>9, <1>10, <1>11,
       <1>12, <1>13, <1>14, <1>15, <1>16, <1>17, <1>18, <1>19, <1>20, <1>21
    DEF Next, Users, Late, Handlers, Monitor, Read, Post

\* A response of this kind would be true of r.
TrueOf(r, kind) ==
    /\ kind = "success" => outcome[TxOf[r]] = "ok"
    /\ kind = "error" => Failure(TxOf[r]) \/ r \in abandoned

\* The kind of response about to be posted is true of its request.
LEMMA PostIsTrue ==
    ASSUME TypeInv, WorkMatches, ReadsHold, pc \in Posting
    PROVE  req \in Req /\ Kind \in {"success", "error"} /\ TrueOf(req, Kind)
  BY DEF TypeInv, TypeOK, WorkTypeOK, WorkMatches, ReadsHold, TrueOf, Kind, Working,
         Reading, Posting

\* Adding a true answer keeps the answers true.
LEMMA AnswerIsTrue ==
    ASSUME TypeInv, AnswersAreTrue, NEW r \in Req, NEW kind \in {"success", "error"},
           TrueOf(r, kind), answers' = [answers EXCEPT ![r] = @ \cup {kind}],
           outcome' = outcome, abandoned' = abandoned
    PROVE  AnswersAreTrue'
  <1> SUFFICES ASSUME NEW q \in Req
               PROVE  /\ "success" \in answers'[q] => outcome[TxOf[q]] = "ok"
                      /\ "error" \in answers'[q] => Failure(TxOf[q]) \/ q \in abandoned
    BY DEF AnswersAreTrue, Failure
  <1>1. answers'[q] = IF q = r THEN answers[q] \cup {kind} ELSE answers[q]
    BY DEF TypeInv, TypeOK, ChainTypeOK
  <1> QED BY <1>1 DEF AnswersAreTrue, TrueOf

\* A post that timed out was true when it was sent.
LEMMA AfloatPostIsTrue ==
    ASSUME AfloatIsTrue, NEW r \in Req, NEW kind \in {"success", "error"},
           TrueOf(r, kind), afloat' \in {afloat, afloat \cup {<<r, kind>>}},
           outcome' = outcome, abandoned' = abandoned
    PROVE  AfloatIsTrue'
  <1>1. \A q \in Req, k \in {"success", "error"} :
           <<q, k>> \in afloat' => <<q, k>> \in afloat \/ (q = r /\ k = kind)
    OBVIOUS
  <1> QED BY <1>1 DEF AfloatIsTrue, TrueOf, Failure

\* Posting keeps the answers true and the posts afloat unchanged.
LEMMA PostedIsTrue ==
    ASSUME TypeInv, WorkMatches, ReadsHold, AfloatIsTrue, AnswersAreTrue, Posted
    PROVE  (AfloatIsTrue /\ AnswersAreTrue)'
  <1>1. AnswersAreTrue'
    BY PostIsTrue, AnswerIsTrue DEF Posted
  <1>2. AfloatIsTrue'
    BY DEF Posted, AfloatIsTrue, Failure
  <1> QED BY <1>1, <1>2

\* A failed post, whether or not it may still land, keeps the answers true.
LEMMA PostFailsIsTrue ==
    ASSUME TypeInv, WorkMatches, ReadsHold, AfloatIsTrue, AnswersAreTrue, PostFails
    PROVE  (AfloatIsTrue /\ AnswersAreTrue)'
  <1>1. AfloatIsTrue'
    <2>1. abandoned' = abandoned /\ outcome' = outcome
      BY DEF PostFails, chain
    <2> QED BY <2>1, PostIsTrue, AfloatPostIsTrue DEF PostFails
  <1>2. AnswersAreTrue'
    BY DEF PostFails, AnswersAreTrue, Failure
  <1> QED BY <1>1, <1>2

\* Whatever the death of the process leaves in flight is true as well.
LEMMA RestartIsTrue ==
    ASSUME TypeInv, WorkMatches, ReadsHold, AfloatIsTrue, AnswersAreTrue, Restart
    PROVE  (AfloatIsTrue /\ AnswersAreTrue)'
  <1>1. outcome' = outcome /\ answers' = answers /\ abandoned' = abandoned
    BY DEF Restart
  <1>2. AnswersAreTrue'
    BY <1>1 DEF AnswersAreTrue, Failure
  <1>3. ASSUME NEW r \in Req, NEW kind \in {"success", "error"},
               <<r, kind>> \in InFlight
        PROVE  TrueOf(r, kind)
    <2>1. pc \in Posting /\ r = req /\ kind = Kind
      BY <1>3 DEF InFlight
    <2> QED BY <2>1, PostIsTrue
  <1>4. AfloatIsTrue'
    BY <1>1, <1>3 DEF Restart, AfloatIsTrue, TrueOf, Failure
  <1> QED BY <1>2, <1>4

\* Every action keeps the answers, and the posts that may still land, true.
LEMMA TruthStep ==
    ASSUME TypeInv, WorkMatches, ReadsHold, AfloatIsTrue, AnswersAreTrue, [Next]_vars
    PROVE  (AfloatIsTrue /\ AnswersAreTrue)'
  <1>a. Lasting
    BY LastingStep
  <1> USE MonitorAssumption, <1>a
      DEF TypeInv, TypeOK, ChainTypeOK, WorkTypeOK, Lasting, ReadsHold, AfloatIsTrue,
          AnswersAreTrue, Failure, Final, Mined, Working, Reading, Posting,
          chain, intake, map, tick, work
  <1>1. ASSUME NEW t \in Tx, Broadcast(t)
        PROVE  (AfloatIsTrue /\ AnswersAreTrue)'
    BY <1>1 DEF Broadcast
  <1>2. ASSUME NEW t \in Tx, Resolve(t)
        PROVE  (AfloatIsTrue /\ AnswersAreTrue)'
    BY <1>2 DEF Resolve
  <1>3. ASSUME NEW r \in Req,
               NEW kind \in {"signature", "success", "error"}, LateLanding(r, kind)
        PROVE  (AfloatIsTrue /\ AnswersAreTrue)'
    <2>1. /\ afloat' \subseteq afloat /\ <<r, kind>> \in afloat
          /\ outcome' = outcome /\ abandoned' = abandoned
      BY <1>3 DEF LateLanding
    <2>2. AfloatIsTrue'
      BY <2>1 DEF AfloatIsTrue, Failure
    <2>3. CASE kind = "signature"
      BY <1>3, <2>1, <2>2, <2>3 DEF LateLanding, AnswersAreTrue, Failure
    <2>4. CASE kind # "signature"
      <3>1. kind \in {"success", "error"} /\ TrueOf(r, kind)
        BY <1>3, <2>1, <2>4 DEF AfloatIsTrue, TrueOf
      <3>2. AnswersAreTrue'
        BY <1>3, <2>1, <2>4, <3>1, AnswerIsTrue DEF LateLanding
      <3> QED BY <2>2, <3>2
    <2> QED BY <2>3, <2>4
  <1>4. ASSUME NEW r \in Req, StartHandler(r)
        PROVE  (AfloatIsTrue /\ AnswersAreTrue)'
    BY <1>4 DEF StartHandler
  <1>5. ASSUME NEW r \in Req, SignatureSent(r)
        PROVE  (AfloatIsTrue /\ AnswersAreTrue)'
    BY <1>5 DEF SignatureSent, Register
  <1>6. ASSUME NEW r \in Req, SignatureFails(r)
        PROVE  (AfloatIsTrue /\ AnswersAreTrue)'
    BY <1>6 DEF SignatureFails, Fault
  <1>7. CASE TickStart
    BY <1>7 DEF TickStart
  <1>8. ASSUME NEW t \in Tx, Visit(t)
        PROVE  (AfloatIsTrue /\ AnswersAreTrue)'
    BY <1>8 DEF Visit
  <1>9. CASE TickEnd
    BY <1>9 DEF TickEnd
  <1>10. CASE ReadReceipt
    BY <1>10 DEF ReadReceipt, TellFailure, Counted
  <1>11. CASE ReadNonce
    BY <1>11 DEF ReadNonce, StillPending, Counted, Release
  <1>12. CASE RecheckReceipt
    BY <1>12
    DEF RecheckReceipt, Replaced, Mined, TellFailure, StillPending, Counted, Release
  <1>13. CASE ReadFails
    BY <1>13 DEF ReadFails, Fault, StillPending, Counted, Release
  <1>14. CASE Extracted
    BY <1>14 DEF Extracted, Counted
  <1>15. CASE ExtractFails
    BY <1>15 DEF ExtractFails, Fault, GivesUp, StillPending, Counted, Release
  <1>16. ASSUME NEW u \in BOOLEAN, ExtractImpossible(u)
        PROVE  (AfloatIsTrue /\ AnswersAreTrue)'
    BY <1>16 DEF ExtractImpossible, Fault, TellFailure, Counted
  <1>17. CASE Posted
    BY <1>17, PostedIsTrue
  <1>18. CASE PostFails
    BY <1>18, PostFailsIsTrue
  <1>19. CASE PostImpossible
    BY <1>19 DEF PostImpossible, Fault, TellFailure, Delete, Release
  <1>20. CASE Restart
    BY <1>20, RestartIsTrue
  <1>21. CASE UNCHANGED vars
    BY <1>21 DEF vars
  <1> QED
    BY <1>1, <1>2, <1>3, <1>4, <1>5, <1>6, <1>7, <1>8, <1>9, <1>10, <1>11,
       <1>12, <1>13, <1>14, <1>15, <1>16, <1>17, <1>18, <1>19, <1>20, <1>21
    DEF Next, Users, Late, Handlers, Monitor, Read, Post

\* Every action keeps the cache true and ahead of the posts.
LEMMA CacheStep ==
    ASSUME TypeInv, WorkMatches, ReadsHold, CachedFirst, CacheIsTrue, [Next]_vars
    PROVE  (CachedFirst /\ CacheIsTrue)'
  <1>a. Lasting
    BY LastingStep
  <1> USE MonitorAssumption, <1>a
      DEF TypeInv, TypeOK, ChainTypeOK, TableTypeOK, WorkTypeOK, Lasting, ReadsHold,
          WorkMatches, CachedFirst, CacheIsTrue, Failure, Final, Mined,
          Working, Reading, Posting, chain, intake, map, tick, work
  <1>1. ASSUME NEW t \in Tx, Broadcast(t)
        PROVE  (CachedFirst /\ CacheIsTrue)'
    BY <1>1 DEF Broadcast
  <1>2. ASSUME NEW t \in Tx, Resolve(t)
        PROVE  (CachedFirst /\ CacheIsTrue)'
    BY <1>2 DEF Resolve
  <1>3. ASSUME NEW r \in Req,
               NEW kind \in {"signature", "success", "error"}, LateLanding(r, kind)
        PROVE  (CachedFirst /\ CacheIsTrue)'
    BY <1>3 DEF LateLanding
  <1>4. ASSUME NEW r \in Req, StartHandler(r)
        PROVE  (CachedFirst /\ CacheIsTrue)'
    BY <1>4 DEF StartHandler
  <1>5. ASSUME NEW r \in Req, SignatureSent(r)
        PROVE  (CachedFirst /\ CacheIsTrue)'
    BY <1>5 DEF SignatureSent, Register
  <1>6. ASSUME NEW r \in Req, SignatureFails(r)
        PROVE  (CachedFirst /\ CacheIsTrue)'
    BY <1>6 DEF SignatureFails, Fault
  <1>7. CASE TickStart
    BY <1>7 DEF TickStart
  <1>8. ASSUME NEW t \in Tx, Visit(t)
        PROVE  (CachedFirst /\ CacheIsTrue)'
    BY <1>8 DEF Visit
  <1>9. CASE TickEnd
    BY <1>9 DEF TickEnd
  <1>10. CASE ReadReceipt
    BY <1>10 DEF ReadReceipt, TellFailure, Counted
  <1>11. CASE ReadNonce
    BY <1>11 DEF ReadNonce, StillPending, Counted, Release
  <1>12. CASE RecheckReceipt
    BY <1>12
    DEF RecheckReceipt, Replaced, Mined, TellFailure, StillPending, Counted, Release
  <1>13. CASE ReadFails
    BY <1>13 DEF ReadFails, Fault, StillPending, Counted, Release
  <1>14. CASE Extracted
    BY <1>14 DEF Extracted, Counted
  <1>15. CASE ExtractFails
    BY <1>15 DEF ExtractFails, Fault, GivesUp, StillPending, Counted, Release
  <1>16. ASSUME NEW u \in BOOLEAN, ExtractImpossible(u)
        PROVE  (CachedFirst /\ CacheIsTrue)'
    BY <1>16 DEF ExtractImpossible, Fault, TellFailure, Counted
  <1>17. CASE Posted
    BY <1>17 DEF Posted, Kind, Delete, Release
  <1>18. CASE PostFails
    BY <1>18 DEF PostFails, Fault, KeepsEntry, Kind, Delete, Release
  <1>19. CASE PostImpossible
    BY <1>19 DEF PostImpossible, Fault, TellFailure, Delete, Release
  <1>20. CASE Restart
    BY <1>20 DEF Restart
  <1>21. CASE UNCHANGED vars
    BY <1>21 DEF vars
  <1> HIDE <1>a DEF TypeInv, TypeOK, ChainTypeOK, TableTypeOK, WorkTypeOK, Lasting,
          ReadsHold, WorkMatches, CachedFirst, CacheIsTrue, Failure, Final, Mined,
          Working, Reading, Posting, chain, intake, map, tick, work
  <1> QED
    BY <1>1, <1>2, <1>3, <1>4, <1>5, <1>6, <1>7, <1>8, <1>9, <1>10, <1>11,
       <1>12, <1>13, <1>14, <1>15, <1>16, <1>17, <1>18, <1>19, <1>20, <1>21
    DEF Next, Users, Late, Handlers, Monitor, Read, Post

\* The entry under check stays in the map unless another request displaces it.
LEMMA EntryKeptStep ==
    ASSUME TypeInv, EntryKept, [Next]_vars
    PROVE  EntryKept'
  <1> USE MonitorAssumption
      DEF TypeInv, TypeOK, TableTypeOK, WorkTypeOK, EntryKept,
          Working, Reading, Posting, chain, intake, map, tick, work
  <1>1. ASSUME NEW t \in Tx, Broadcast(t)
        PROVE  EntryKept'
    BY <1>1 DEF Broadcast
  <1>2. ASSUME NEW t \in Tx, Resolve(t)
        PROVE  EntryKept'
    BY <1>2 DEF Resolve
  <1>3. ASSUME NEW r \in Req,
               NEW kind \in {"signature", "success", "error"}, LateLanding(r, kind)
        PROVE  EntryKept'
    BY <1>3 DEF LateLanding
  <1>4. ASSUME NEW r \in Req, StartHandler(r)
        PROVE  EntryKept'
    BY <1>4 DEF StartHandler
  <1>5. ASSUME NEW r \in Req, SignatureSent(r)
        PROVE  EntryKept'
    BY <1>5 DEF SignatureSent, Register
  <1>6. ASSUME NEW r \in Req, SignatureFails(r)
        PROVE  EntryKept'
    BY <1>6 DEF SignatureFails, Fault
  <1>7. CASE TickStart
    BY <1>7 DEF TickStart
  <1>8. ASSUME NEW t \in Tx, Visit(t)
        PROVE  EntryKept'
    BY <1>8 DEF Visit
  <1>9. CASE TickEnd
    BY <1>9 DEF TickEnd
  <1>10. CASE ReadReceipt
    BY <1>10 DEF ReadReceipt, TellFailure, Counted
  <1>11. CASE ReadNonce
    BY <1>11 DEF ReadNonce, StillPending, Counted, Release
  <1>12. CASE RecheckReceipt
    BY <1>12
    DEF RecheckReceipt, Replaced, Mined, TellFailure, StillPending, Counted, Release
  <1>13. CASE ReadFails
    BY <1>13 DEF ReadFails, Fault, StillPending, Counted, Release
  <1>14. CASE Extracted
    BY <1>14 DEF Extracted, Counted
  <1>15. CASE ExtractFails
    BY <1>15 DEF ExtractFails, Fault, GivesUp, StillPending, Counted, Release
  <1>16. ASSUME NEW u \in BOOLEAN, ExtractImpossible(u)
        PROVE  EntryKept'
    BY <1>16 DEF ExtractImpossible, Fault, TellFailure, Counted
  <1>17. CASE Posted
    BY <1>17 DEF Posted, Kind, Delete, Release
  <1>18. CASE PostFails
    BY <1>18 DEF PostFails, Fault, KeepsEntry, Kind, Delete, Release
  <1>19. CASE PostImpossible
    BY <1>19 DEF PostImpossible, Fault, TellFailure, Delete, Release
  <1>20. CASE Restart
    BY <1>20 DEF Restart
  <1>21. CASE UNCHANGED vars
    BY <1>21 DEF vars
  <1> QED
    BY <1>1, <1>2, <1>3, <1>4, <1>5, <1>6, <1>7, <1>8, <1>9, <1>10, <1>11,
       <1>12, <1>13, <1>14, <1>15, <1>16, <1>17, <1>18, <1>19, <1>20, <1>21
    DEF Next, Users, Late, Handlers, Monitor, Read, Post

\* The inductive invariant holds of a freshly started server.
LEMMA InitMonitorInv == Init => MonitorInv
  <1> SUFFICES ASSUME Init PROVE MonitorInv
    OBVIOUS
  <1>1. TypeInv
    BY InitTypeInv
  <1>2. MonitoredIsSigned /\ WorkMatches /\ ReadsHold /\ EntryKept
    BY DEF Init, MonitoredIsSigned, WorkMatches, ReadsHold, EntryKept, Working,
           Reading, Posting
  <1>3. AfloatIsTrue /\ AnswersAreTrue /\ CachedFirst /\ CacheIsTrue
    BY DEF Init, AfloatIsTrue, AnswersAreTrue, CachedFirst, CacheIsTrue, Posting
  <1> QED BY <1>1, <1>2, <1>3 DEF MonitorInv

\* Every action preserves the inductive invariant.
LEMMA NextMonitorInv == MonitorInv /\ [Next]_vars => MonitorInv'
  BY NextTypeInv, EntriesStep, ReadsHoldStep, TruthStep, CacheStep, EntryKeptStep
  DEF MonitorInv

\* The inductive invariant of the monitor, from which its safety follows.
THEOREM Invariance == Spec => []MonitorInv
  BY InitMonitorInv, NextMonitorInv, PTL DEF Spec

\* No response on the source chain is a lie about the destination chain.
THEOREM AnswersAlwaysTrue == Spec => []AnswersAreTrue
  BY Invariance, PTL DEF MonitorInv

\* Neither is an answer of the helper API, and it is there before the response.
THEOREM CacheAlwaysTrue == Spec => []CacheIsTrue
  BY Invariance, PTL DEF MonitorInv

\* No transaction is monitored before its signature was delivered, nor under
\* another transaction's hash.
THEOREM MonitoredAlwaysSigned == Spec => []MonitoredIsSigned
  BY Invariance, PTL DEF MonitorInv
-----------------------------------------------------------------------------
(* Steps. *)

\* When an entry goes, its request was answered, given up, displaced, or the
\* process died.
Explained ==
    \A t \in Tx :
       pending[t] # NoReq /\ pending'[t] # pending[t] =>
          \/ answers'[pending[t]] # {}
          \/ pending[t] \in abandoned' \cup clobbered'
          \/ restarts' # restarts

\* One step removes an entry only for one of the reasons RemovedIsAnswered
\* allows.
LEMMA RemovalStep ==
    ASSUME MonitorInv, [Next]_vars
    PROVE  Explained
  <1> USE MonitorAssumption
      DEF MonitorInv, TypeInv, TypeOK, ChainTypeOK, TableTypeOK, WorkTypeOK, EntryKept,
          ReadsHold, Explained, Working, Reading, Posting, chain, intake, map, tick, work
  <1>1. ASSUME NEW t \in Tx, Broadcast(t)
        PROVE  Explained
    BY <1>1 DEF Broadcast
  <1>2. ASSUME NEW t \in Tx, Resolve(t)
        PROVE  Explained
    BY <1>2 DEF Resolve
  <1>3. ASSUME NEW r \in Req,
               NEW kind \in {"signature", "success", "error"}, LateLanding(r, kind)
        PROVE  Explained
    BY <1>3 DEF LateLanding
  <1>4. ASSUME NEW r \in Req, StartHandler(r)
        PROVE  Explained
    BY <1>4 DEF StartHandler
  <1>5. ASSUME NEW r \in Req, SignatureSent(r)
        PROVE  Explained
    BY <1>5 DEF SignatureSent, Register
  <1>6. ASSUME NEW r \in Req, SignatureFails(r)
        PROVE  Explained
    BY <1>6 DEF SignatureFails, Fault
  <1>7. CASE TickStart
    BY <1>7 DEF TickStart
  <1>8. ASSUME NEW t \in Tx, Visit(t)
        PROVE  Explained
    BY <1>8 DEF Visit
  <1>9. CASE TickEnd
    BY <1>9 DEF TickEnd
  <1>10. CASE ReadReceipt
    BY <1>10 DEF ReadReceipt, TellFailure, Counted
  <1>11. CASE ReadNonce
    BY <1>11 DEF ReadNonce, StillPending, Counted, Release
  <1>12. CASE RecheckReceipt
    BY <1>12
    DEF RecheckReceipt, Replaced, Mined, TellFailure, StillPending, Counted, Release
  <1>13. CASE ReadFails
    BY <1>13 DEF ReadFails, Fault, StillPending, Counted, Release
  <1>14. CASE Extracted
    BY <1>14 DEF Extracted, Counted
  <1>15. CASE ExtractFails
    BY <1>15 DEF ExtractFails, Fault, GivesUp, StillPending, Counted, Release
  <1>16. ASSUME NEW u \in BOOLEAN, ExtractImpossible(u)
        PROVE  Explained
    BY <1>16 DEF ExtractImpossible, Fault, TellFailure, Counted
  <1>17. CASE Posted
    BY <1>17 DEF Posted, Kind, Delete, Release
  <1>18. CASE PostFails
    BY <1>18 DEF PostFails, Fault, KeepsEntry, Kind, Delete, Release
  <1>19. CASE PostImpossible
    BY <1>19 DEF PostImpossible, Fault, TellFailure, Delete, Release
  <1>20. CASE Restart
    BY <1>20 DEF Restart
  <1>21. CASE UNCHANGED vars
    BY <1>21 DEF vars
  <1> HIDE DEF MonitorInv, TypeInv, TypeOK, ChainTypeOK, TableTypeOK, WorkTypeOK,
          EntryKept, ReadsHold, Explained, Working, Reading, Posting,
          chain, intake, map, tick, work
  <1> QED
    BY <1>1, <1>2, <1>3, <1>4, <1>5, <1>6, <1>7, <1>8, <1>9, <1>10, <1>11,
       <1>12, <1>13, <1>14, <1>15, <1>16, <1>17, <1>18, <1>19, <1>20, <1>21
    DEF Next, Users, Late, Handlers, Monitor, Read, Post

\* No request leaves the pending map unanswered and unaccounted for.
THEOREM RemovedAlwaysAnswered == Spec => RemovedIsAnswered
  <1>1. MonitorInv /\ [Next]_vars =>
          [ \A t \in Tx :
              pending[t] # NoReq /\ pending'[t] # pending[t] =>
                 \/ answers'[pending[t]] # {}
                 \/ pending[t] \in abandoned' \cup clobbered'
                 \/ restarts' # restarts ]_vars
    BY RemovalStep DEF Explained
  <1> QED BY <1>1, Invariance, PTL DEF Spec, RemovedIsAnswered
-----------------------------------------------------------------------------
(* Refinement. *)

\* A transaction taking an outcome is an abstract step.
LEMMA ExecuteStep ==
    ASSUME NEW t \in Tx, outcome[t] \in {"unsent", "mempool"},
           NEW o \in {"mempool"} \cup Final, outcome' = [outcome EXCEPT ![t] = o],
           answers' = answers, abandoned' = abandoned
    PROVE  Promise!Next
  <1>1. Promise!Execute(t)
    BY DEF Promise!Execute, Promise!Undecided, Promise!Successful,
           Promise!Unsuccessful, Final
  <1> QED BY <1>1 DEF Promise!Next

\* Giving up on one request is an abstract step.
LEMMA ExcuseStep ==
    ASSUME NEW r \in Req, abandoned' = abandoned \cup {r},
           outcome' = outcome, answers' = answers
    PROVE  Promise!Next
  BY DEF Promise!Next, Promise!Excuse

\* A true answer is an abstract step.
LEMMA AnswerStep ==
    ASSUME NEW r \in Req, NEW kind \in {"success", "error"}, TrueOf(r, kind),
           answers' = [answers EXCEPT ![r] = @ \cup {kind}],
           outcome' = outcome, abandoned' = abandoned
    PROVE  Promise!Next
  <1>1. CASE kind = "success"
    BY <1>1 DEF TrueOf, Promise!Next, Promise!AnswerSuccess, Promise!Successful
  <1>2. CASE kind = "error"
    BY <1>2 DEF TrueOf, Failure, Promise!Next, Promise!AnswerError, Promise!Unsuccessful
  <1> QED BY <1>1, <1>2

\* Every step of the monitor is a step of ResponsePromise or leaves it alone.
LEMMA PromiseStep ==
    ASSUME MonitorInv, [Next]_vars
    PROVE  [Promise!Next]_(Promise!vars)
  <1>a. /\ TypeInv /\ WorkMatches /\ ReadsHold /\ AfloatIsTrue
        /\ pc \in Working => req \in Req
    BY DEF MonitorInv, TypeInv, TypeOK, WorkTypeOK
  <1> USE DEF chain, Promise!vars
  <1>1. ASSUME NEW t \in Tx, Broadcast(t)
        PROVE  [Promise!Next]_(Promise!vars)
    BY <1>1, ExecuteStep DEF Broadcast
  <1>2. ASSUME NEW t \in Tx, Resolve(t)
        PROVE  [Promise!Next]_(Promise!vars)
    BY <1>2, ExecuteStep DEF Resolve, Final
  <1>3. ASSUME NEW r \in Req,
               NEW kind \in {"signature", "success", "error"}, LateLanding(r, kind)
        PROVE  [Promise!Next]_(Promise!vars)
    <2>1. CASE kind = "signature"
      BY <1>3, <2>1 DEF LateLanding
    <2>2. CASE kind # "signature"
      <3>1. kind \in {"success", "error"} /\ TrueOf(r, kind)
        BY <1>3, <1>a, <2>2 DEF LateLanding, AfloatIsTrue, TrueOf
      <3> QED BY <1>3, <2>2, <3>1, AnswerStep DEF LateLanding
    <2> QED BY <2>1, <2>2
  <1>4. ASSUME NEW r \in Req, StartHandler(r)
        PROVE  [Promise!Next]_(Promise!vars)
    BY <1>4 DEF StartHandler
  <1>5. ASSUME NEW r \in Req, SignatureSent(r)
        PROVE  [Promise!Next]_(Promise!vars)
    BY <1>5 DEF SignatureSent
  <1>6. ASSUME NEW r \in Req, SignatureFails(r)
        PROVE  [Promise!Next]_(Promise!vars)
    BY <1>6 DEF SignatureFails
  <1>7. CASE TickStart
    BY <1>7 DEF TickStart
  <1>8. ASSUME NEW t \in Tx, Visit(t)
        PROVE  [Promise!Next]_(Promise!vars)
    BY <1>8 DEF Visit
  <1>9. CASE TickEnd
    BY <1>9 DEF TickEnd
  <1>10. CASE ReadReceipt
    <2>1. req \in Req
      BY <1>10, <1>a DEF ReadReceipt, Working, Reading
    <2> QED BY <1>10, <2>1, ExcuseStep DEF ReadReceipt
  <1>11. CASE ReadNonce
    BY <1>11 DEF ReadNonce
  <1>12. CASE RecheckReceipt
    BY <1>12 DEF RecheckReceipt
  <1>13. CASE ReadFails
    BY <1>13 DEF ReadFails
  <1>14. CASE Extracted
    BY <1>14 DEF Extracted
  <1>15. CASE ExtractFails
    BY <1>15 DEF ExtractFails
  <1>16. ASSUME NEW u \in BOOLEAN, ExtractImpossible(u)
        PROVE  [Promise!Next]_(Promise!vars)
    <2>1. req \in Req
      BY <1>16, <1>a DEF ExtractImpossible, Working, Reading
    <2> QED BY <1>16, <2>1, ExcuseStep DEF ExtractImpossible
  <1>17. CASE Posted
    <2>1. req \in Req /\ Kind \in {"success", "error"} /\ TrueOf(req, Kind)
      BY <1>17, <1>a, PostIsTrue DEF Posted
    <2> QED BY <1>17, <2>1, AnswerStep DEF Posted
  <1>18. CASE PostFails
    BY <1>18 DEF PostFails
  <1>19. CASE PostImpossible
    <2>1. req \in Req
      BY <1>19, <1>a DEF PostImpossible, Working, Posting
    <2> QED BY <1>19, <2>1, ExcuseStep DEF PostImpossible
  <1>20. CASE Restart
    BY <1>20 DEF Restart
  <1>21. CASE UNCHANGED vars
    BY <1>21 DEF vars
  <1> HIDE DEF chain, Promise!vars
  <1> QED
    BY <1>1, <1>2, <1>3, <1>4, <1>5, <1>6, <1>7, <1>8, <1>9, <1>10, <1>11,
       <1>12, <1>13, <1>14, <1>15, <1>16, <1>17, <1>18, <1>19, <1>20, <1>21
    DEF Next, Users, Late, Handlers, Monitor, Read, Post

\* The monitor keeps the promise.
THEOREM Implementation == Spec => ImplementsPromise
  <1>1. Init => Promise!Init
    BY DEF Init, Promise!Init
  <1> QED BY <1>1, PromiseStep, Invariance, PTL DEF Spec, ImplementsPromise, Promise!Spec
=============================================================================
