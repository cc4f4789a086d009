------------------------- MODULE MidnightMonitorProofs -------------------------
(***************************************************************************)
(* Proofs about MidnightMonitor, for any set of requests, any bounds, and   *)
(* whether or not contract calls may hang: its type invariant and its       *)
(* safety invariants.                                                       *)
(***************************************************************************)
EXTENDS MidnightMonitor, SequenceTheorems, TLAPS

\* A caller that has taken a request holds one.
Holding == {"joining", "writing", "done", "failed"}

Occupied ==
    /\ \A p \in Caller : at[p] \in Holding => req[p] \in Req
    /\ at["monitor"] \notin {"polling", "next"}

\* Only the first write has started, only a started one may have been given up,
\* and a caller waits for at most one, the one it holds.
ChainOrder ==
    /\ \A i \in DOMAIN chain :
          /\ i # 1 => chain[i].raw = "queued"
          /\ chain[i].raw = "queued" => ~chain[i].told
          /\ ~chain[i].told => /\ at[chain[i].caller] = "writing"
                               /\ req[chain[i].caller] = chain[i].req
    /\ \A i, j \in DOMAIN chain :
          ~chain[i].told /\ ~chain[j].told /\ chain[i].caller = chain[j].caller => i = j

\* A request whose signature write is yet to be queued by this process.
Unsigned(r) ==
    \/ r \notin seen \/ r \in batch
    \/ at["poller"] = "joining" /\ req["poller"] = r

Signing(i, r) == chain[i].caller = "poller" /\ chain[i].req = r

\* A request is in one place: not yet written, in one write, or written.
OnePlace ==
    /\ at["poller"] = "joining" => req["poller"] \in seen \ batch
    /\ \A r \in Req :
          /\ Unsigned(r) => signed[r] <= restarts /\ \A i \in DOMAIN chain : ~Signing(i, r)
          /\ \A i \in DOMAIN chain : Signing(i, r) => signed[r] <= restarts
          /\ \A i, j \in DOMAIN chain : Signing(i, r) /\ Signing(j, r) => i = j

\* A request is answered, or about to be registered, only once it is signed.
SignedBefore ==
    /\ at["poller"] = "done" => signed[req["poller"]] > 0
    /\ at["monitor"] \in Holding => signed[req["monitor"]] > 0
    /\ \A i \in DOMAIN chain : chain[i].caller = "monitor" => signed[chain[i].req] > 0

MidnightInv ==
    /\ TypeOK /\ Occupied
    /\ ChainOrder
    /\ OnePlace /\ SignedOnce
    /\ SignedBefore /\ SignedFirst
-----------------------------------------------------------------------------
(* What the steps of the chain do to it. *)

\* The writes of a well-typed chain are well typed.
LEMMA WriteIsTyped ==
    ASSUME TypeOK, NEW i \in DOMAIN chain
    PROVE  chain[i] \in Writes /\ chain[i].caller \in Caller /\ chain[i].req \in Req
  <1>1. chain[i] \in Writes
    BY ElementOfSeq, LenProperties DEF TypeOK
  <1> QED BY <1>1 DEF Writes

\* The write at the head of the chain.
LEMMA HeadIsFirst ==
    ASSUME TypeOK, chain # <<>>
    PROVE  1 \in DOMAIN chain /\ Head(chain) = chain[1]
  BY EmptySeq, LenProperties DEF TypeOK

\* A caller that has not been told waits.
LEMMA UntoldWaits ==
    ASSUME MidnightInv, NEW i \in DOMAIN chain, ~chain[i].told
    PROVE  /\ at[chain[i].caller] = "writing" /\ req[chain[i].caller] = chain[i].req
           /\ chain[i].caller \in Caller /\ chain[i].req \in Req
  BY WriteIsTyped DEF MidnightInv, ChainOrder

\* serializeWrite puts a write behind all others.
LEMMA ChainGrows ==
    ASSUME TypeOK, NEW p \in Caller, Enqueue(p), req[p] \in Req
    PROVE  /\ chain' \in Seq(Writes)
           /\ DOMAIN chain' = 1..(Len(chain) + 1) /\ DOMAIN chain = 1..Len(chain)
           /\ \A i \in 1..Len(chain) : chain'[i] = chain[i]
           /\ chain'[Len(chain) + 1] = [caller |-> p, req |-> req[p],
                                        raw |-> "queued", told |-> FALSE]
  <1> DEFINE w == [caller |-> p, req |-> req[p], raw |-> "queued", told |-> FALSE]
  <1>1. w \in Writes /\ chain \in Seq(Writes)
    BY DEF TypeOK, Writes
  <1>2. chain' = Append(chain, w)
    BY DEF Enqueue
  <1> HIDE DEF w
  <1>3. /\ chain' \in Seq(Writes) /\ Len(chain') = Len(chain) + 1
        /\ \A i \in 1..Len(chain) : chain'[i] = chain[i]
        /\ chain'[Len(chain) + 1] = w
    BY <1>1, <1>2, AppendProperties
  <1> QED BY <1>1, <1>3, LenProperties DEF w

\* A settled write leaves, and the others move up.
LEMMA ChainPops ==
    ASSUME TypeOK, NEW ok \in BOOLEAN, Settle(ok)
    PROVE  /\ chain' \in Seq(Writes)
           /\ DOMAIN chain = 1..Len(chain) /\ Len(chain) \in Nat \ {0}
           /\ DOMAIN chain' = 1..(Len(chain) - 1)
           /\ \A i \in 1..(Len(chain) - 1) : chain'[i] = chain[i + 1]
           /\ Head(chain) = chain[1] /\ chain[1] \in Writes
  <1>1. chain \in Seq(Writes) /\ chain # <<>> /\ chain' = Tail(chain)
    BY DEF Settle, Dequeue, TypeOK
  <1>2. /\ Len(chain) \in Nat /\ Len(chain) # 0 /\ DOMAIN chain = 1..Len(chain)
        /\ Len(chain') = Len(chain) - 1 /\ chain' \in Seq(Writes)
        /\ \A i \in 1..Len(chain') : chain'[i] = chain[i + 1]
    BY <1>1, HeadTailProperties, EmptySeq, LenProperties
  <1>3. Head(chain) = chain[1] /\ chain[1] \in Writes
    BY <1>1, <1>2, ElementOfSeq
  <1>4. DOMAIN chain' = 1..Len(chain')
    BY <1>2, LenProperties
  <1> QED BY <1>1, <1>2, <1>3, <1>4

\* A write that starts, or that its caller gives up, keeps its place.
LEMMA ChainKeeps ==
    ASSUME TypeOK, NEW i \in DOMAIN chain, StartWrite(i) \/ TimesOut(i)
    PROVE  /\ chain' \in Seq(Writes)
           /\ DOMAIN chain' = DOMAIN chain
           /\ \A j \in DOMAIN chain : j # i => chain'[j] = chain[j]
           /\ \A j \in DOMAIN chain : /\ chain'[j].caller = chain[j].caller
                                      /\ chain'[j].req = chain[j].req
           /\ StartWrite(i) => /\ i = 1 /\ chain'[i].raw \in {"flying", "stuck"}
                               /\ chain'[i].told = chain[i].told
           /\ TimesOut(i) => chain'[i].raw = chain[i].raw /\ chain'[i].told
  <1>1. chain \in Seq(Writes) /\ chain[i] \in Writes
    BY ElementOfSeq, LenProperties DEF TypeOK
  <1>2. PICK w \in Writes :
          /\ chain' = [chain EXCEPT ![i] = w]
          /\ w.caller = chain[i].caller /\ w.req = chain[i].req
          /\ StartWrite(i) => /\ i = 1 /\ w.raw \in {"flying", "stuck"}
                              /\ w.told = chain[i].told
          /\ TimesOut(i) => w.raw = chain[i].raw /\ w.told
    <2>1. CASE StartWrite(i)
      <3>1. PICK raw \in {"flying", "stuck"} : chain' = [chain EXCEPT ![i].raw = raw]
        BY <2>1 DEF StartWrite
      <3>2. i = 1 /\ chain[i].raw = "queued" /\ ~TimesOut(i)
        BY <2>1 DEF StartWrite, MayStart, TimesOut
      <3>3. chain' = [chain EXCEPT ![i] = [chain[i] EXCEPT !.raw = raw]]
        BY <3>1
      <3>4. [chain[i] EXCEPT !.raw = raw] \in Writes
        BY <1>1 DEF Writes
      <3>5. /\ [chain[i] EXCEPT !.raw = raw].caller = chain[i].caller
            /\ [chain[i] EXCEPT !.raw = raw].req = chain[i].req
            /\ [chain[i] EXCEPT !.raw = raw].told = chain[i].told
            /\ [chain[i] EXCEPT !.raw = raw].raw = raw
        BY <1>1 DEF Writes
      <3> QED BY <3>2, <3>3, <3>4, <3>5
    <2>2. CASE TimesOut(i)
      <3>1. chain' = [chain EXCEPT ![i] = [chain[i] EXCEPT !.told = TRUE]]
        BY <2>2 DEF TimesOut
      <3>2. ~StartWrite(i)
        BY <2>2 DEF StartWrite, TimesOut
      <3>3. [chain[i] EXCEPT !.told = TRUE] \in Writes
        BY <1>1 DEF Writes
      <3>4. /\ [chain[i] EXCEPT !.told = TRUE].caller = chain[i].caller
            /\ [chain[i] EXCEPT !.told = TRUE].req = chain[i].req
            /\ [chain[i] EXCEPT !.told = TRUE].told = TRUE
            /\ [chain[i] EXCEPT !.told = TRUE].raw = chain[i].raw
        BY <1>1 DEF Writes
      <3> QED BY <3>1, <3>2, <3>3, <3>4
    <2> QED BY <2>1, <2>2
  <1>3. chain' \in Seq(Writes) /\ DOMAIN chain' = DOMAIN chain
    BY <1>1, <1>2, ExceptSeq
  <1> QED BY <1>1, <1>2, <1>3
-----------------------------------------------------------------------------
(* Each part of the invariant is preserved. *)

\* Types, and a caller that has taken a request holds one.
LEMMA TypeStep ==
    ASSUME MidnightInv, [Next]_vars
    PROVE  (TypeOK /\ Occupied)'
  <1> TypeOK /\ Occupied
    BY DEF MidnightInv
  <1> USE MidnightAssumption DEF TypeOK, Occupied, Caller, Holding, midnight, environment
  <1>1. ASSUME NEW r \in Req, Submit(r)
        PROVE  (TypeOK /\ Occupied)'
    BY <1>1 DEF Submit
  <1>2. CASE PollStart
    BY <1>2 DEF PollStart
  <1>3. CASE PollReturns
    BY <1>3 DEF PollReturns, Remembered
  <1>4. CASE PollFails
    BY <1>4 DEF PollFails, Fault
  <1>5. CASE NextRequest
    BY <1>5 DEF NextRequest, Begin, Rest
  <1>6. CASE BuildFails
    BY <1>6 DEF BuildFails, Fault, Rest
  <1>7. CASE HandlerReturns
    BY <1>7 DEF HandlerReturns, AfterFailure
  <1>8. ASSUME NEW r \in Req, Respond(r)
        PROVE  (TypeOK /\ Occupied)'
    BY <1>8 DEF Respond, Begin
  <1>9. CASE ResponseReturns
    BY <1>9 DEF ResponseReturns
  <1>10. CASE ContractJoined
    BY <1>10 DEF ContractJoined
  <1>11. CASE ContractFails
    BY <1>11 DEF ContractFails, Fault
  <1>12. ASSUME NEW p \in Caller, Enqueue(p)
        PROVE  (TypeOK /\ Occupied)'
    <2>1. req[p] \in Req
      BY <1>12 DEF Enqueue
    <2>2. chain' \in Seq(Writes)
      BY <1>12, <2>1, ChainGrows
    <2> QED BY <1>12, <2>1, <2>2 DEF Enqueue
  <1>13. ASSUME NEW i \in DOMAIN chain, StartWrite(i)
        PROVE  (TypeOK /\ Occupied)'
    BY <1>13, ChainKeeps DEF StartWrite
  <1>14. ASSUME NEW i \in DOMAIN chain, TimesOut(i)
        PROVE  (TypeOK /\ Occupied)'
    <2>1. chain' \in Seq(Writes)
      BY <1>14, ChainKeeps
    <2>2. faults' \in 0..MaxFaults
      BY <1>14 DEF TimesOut, Fault
    <2>3. chain[i].caller \in Caller /\ at[chain[i].caller] = "writing"
      BY <1>14, UntoldWaits DEF TimesOut
    <2> QED BY <1>14, <2>1, <2>2, <2>3 DEF TimesOut, Told
  <1>15. ASSUME NEW ok \in BOOLEAN, Settle(ok)
        PROVE  (TypeOK /\ Occupied)'
    <2>1. chain' \in Seq(Writes) /\ Head(chain) \in Writes
      BY <1>15, ChainPops
    <2>2. Head(chain).caller \in Caller /\ Head(chain).req \in Req
      BY <2>1 DEF Writes
    <2>3. faults' \in 0..MaxFaults
      BY <1>15 DEF Settle, Fault
    <2>4. signed' \in [Req -> Nat] /\ responded' \subseteq Req
      BY <1>15, <2>2 DEF Settle, Land
    <2>5. ~Head(chain).told => at[Head(chain).caller] = "writing"
      BY <1>15, ChainPops, UntoldWaits
    <2> QED BY <1>15, <2>1, <2>2, <2>3, <2>4, <2>5 DEF Settle
  <1>16. CASE Restart
    <2>1. chain # <<>> => Head(chain).req \in Req
      BY HeadIsFirst, WriteIsTyped
    <2>2. signed' \in [Req -> Nat] /\ responded' \subseteq Req
      BY <1>16, <2>1 DEF Restart, Land
    <2>3. chain' \in Seq(Writes)
      BY <1>16, EmptySeq DEF Restart
    <2> QED BY <1>16, <2>2, <2>3 DEF Restart
  <1>17. CASE UNCHANGED vars
    BY <1>17 DEF vars
  <1> QED
    BY <1>1, <1>2, <1>3, <1>4, <1>5, <1>6, <1>7, <1>8, <1>9, <1>10,
       <1>11, <1>12, <1>13, <1>14, <1>15, <1>16, <1>17
    DEF Next, Poller, Troubles

\* The order of the chain, and who waits for it.
LEMMA ChainStep ==
    ASSUME MidnightInv, [Next]_vars
    PROVE  ChainOrder'
  <1>a. TypeOK /\ Occupied /\ ChainOrder
    BY DEF MidnightInv
  <1>b. /\ \A i \in DOMAIN chain : chain[i] \in Writes /\ chain[i].caller \in Caller
        /\ DOMAIN chain = 1..Len(chain) /\ Len(chain) \in Nat
    BY <1>a, WriteIsTyped, LenProperties DEF TypeOK
  <1> USE <1>a, <1>b DEF TypeOK, ChainOrder, Caller, midnight, environment
  <1>1. ASSUME NEW r \in Req, Submit(r)
        PROVE  ChainOrder'
    BY <1>1 DEF Submit
  <1>2. CASE PollStart
    BY <1>2 DEF PollStart
  <1>3. CASE PollReturns
    BY <1>3 DEF PollReturns, Remembered
  <1>4. CASE PollFails
    BY <1>4 DEF PollFails, Fault
  <1>5. CASE NextRequest
    BY <1>5 DEF NextRequest, Begin, Rest
  <1>6. CASE BuildFails
    BY <1>6 DEF BuildFails, Fault, Rest
  <1>7. CASE HandlerReturns
    BY <1>7 DEF HandlerReturns, AfterFailure
  <1>8. ASSUME NEW r \in Req, Respond(r)
        PROVE  ChainOrder'
    BY <1>8 DEF Respond, Begin
  <1>9. CASE ResponseReturns
    BY <1>9 DEF ResponseReturns
  <1>10. CASE ContractJoined
    BY <1>10 DEF ContractJoined
  <1>11. CASE ContractFails
    BY <1>11 DEF ContractFails, Fault
  <1>12. ASSUME NEW p \in Caller, Enqueue(p)
        PROVE  ChainOrder'
    <2>1. req[p] \in Req /\ at[p] = "joining" /\ at' = [at EXCEPT ![p] = "writing"] /\ req' = req
      BY <1>12 DEF Enqueue, Occupied, Holding
    <2>2. \A i \in 1..Len(chain) : chain[i].caller = p => chain[i].told
      BY <2>1
    <2>3. /\ DOMAIN chain' = 1..(Len(chain) + 1)
          /\ \A i \in 1..Len(chain) : chain'[i] = chain[i]
          /\ chain'[Len(chain) + 1] = [caller |-> p, req |-> req[p],
                                       raw |-> "queued", told |-> FALSE]
      BY <1>12, <2>1, ChainGrows DEF TypeOK
    <2>4. ASSUME NEW i \in DOMAIN chain'
          PROVE  /\ i # 1 => chain'[i].raw = "queued"
                 /\ chain'[i].raw = "queued" => ~chain'[i].told
                 /\ ~chain'[i].told => /\ at'[chain'[i].caller] = "writing"
                                       /\ req'[chain'[i].caller] = chain'[i].req
      <3>1. CASE i \in 1..Len(chain)
        BY <2>1, <2>3, <3>1
      <3>2. CASE i = Len(chain) + 1
        BY <2>1, <2>3, <3>2
      <3> QED BY <2>3, <2>4, <3>1, <3>2
    <2>5. ASSUME NEW i \in DOMAIN chain', NEW j \in DOMAIN chain',
                 ~chain'[i].told, ~chain'[j].told, chain'[i].caller = chain'[j].caller
          PROVE  i = j
      <3>1. \A k \in 1..Len(chain) : chain'[k].caller = p => chain'[k].told
        BY <2>2, <2>3
      <3>2. chain'[Len(chain) + 1].caller = p
        BY <2>3
      <3> QED BY <2>3, <2>5, <3>1, <3>2
    <2> QED BY <2>4, <2>5
  <1>13. ASSUME NEW i \in DOMAIN chain, StartWrite(i)
        PROVE  ChainOrder'
    <2>1. at' = at /\ req' = req
      BY <1>13 DEF StartWrite
    <2>2. /\ DOMAIN chain' = DOMAIN chain /\ i = 1
          /\ \A j \in DOMAIN chain : j # 1 => chain'[j] = chain[j]
          /\ chain'[1].caller = chain[1].caller /\ chain'[1].req = chain[1].req
          /\ chain'[1].raw # "queued" /\ chain'[1].told = chain[1].told
      BY <1>13, ChainKeeps DEF TypeOK
    <2>3. \A j \in DOMAIN chain : /\ chain'[j].caller = chain[j].caller
                                  /\ chain'[j].req = chain[j].req
                                  /\ chain'[j].told = chain[j].told
                                  /\ j # 1 => chain'[j].raw = chain[j].raw
      BY <2>2
    <2> QED BY <2>1, <2>2, <2>3
  <1>14. ASSUME NEW i \in DOMAIN chain, TimesOut(i)
        PROVE  ChainOrder'
    <2>1. /\ chain[i].raw # "queued" /\ ~chain[i].told
          /\ at' = [at EXCEPT ![chain[i].caller] = "failed"] /\ req' = req
      BY <1>14 DEF TimesOut, Told
    <2>2. \A j \in DOMAIN chain : j # i /\ ~chain[j].told => chain[j].caller # chain[i].caller
      BY <2>1
    <2>3. /\ DOMAIN chain' = DOMAIN chain
          /\ \A j \in DOMAIN chain : j # i => chain'[j] = chain[j]
          /\ chain'[i].caller = chain[i].caller /\ chain'[i].req = chain[i].req
          /\ chain'[i].raw = chain[i].raw /\ chain'[i].told
      BY <1>14, ChainKeeps DEF TypeOK
    <2>4. ASSUME NEW j \in DOMAIN chain'
          PROVE  /\ j # 1 => chain'[j].raw = "queued"
                 /\ chain'[j].raw = "queued" => ~chain'[j].told
                 /\ ~chain'[j].told => /\ at'[chain'[j].caller] = "writing"
                                       /\ req'[chain'[j].caller] = chain'[j].req
      <3>1. CASE j = i
        BY <2>1, <2>3, <3>1
      <3>2. CASE j # i
        BY <2>1, <2>2, <2>3, <3>2
      <3> QED BY <3>1, <3>2
    <2>5. \A j \in DOMAIN chain : ~chain'[j].told => chain'[j] = chain[j]
      BY <2>3
    <2> QED BY <2>3, <2>4, <2>5
  <1>15. ASSUME NEW ok \in BOOLEAN, Settle(ok)
        PROVE  ChainOrder'
    <2>1. /\ at' = IF chain[1].told THEN at
                   ELSE [at EXCEPT ![chain[1].caller] = IF ok THEN "done" ELSE "failed"]
          /\ req' = req
      BY <1>15, ChainPops DEF Settle
    <2>2. \A j \in DOMAIN chain :
             j # 1 /\ ~chain[j].told /\ ~chain[1].told => chain[j].caller # chain[1].caller
      BY <1>15, ChainPops
    <2>3. \A j \in DOMAIN chain : j # 1 /\ ~chain[j].told => at'[chain[j].caller] = "writing"
      BY <2>1, <2>2
    <2>4. /\ DOMAIN chain' = 1..(Len(chain) - 1)
          /\ \A j \in DOMAIN chain' : /\ chain'[j] = chain[j + 1]
                                      /\ j + 1 \in DOMAIN chain /\ j + 1 # 1
      BY <1>15, ChainPops DEF TypeOK
    <2>5. ASSUME NEW j \in DOMAIN chain'
          PROVE  /\ chain'[j].raw = "queued"
                 /\ ~chain'[j].told /\ at'[chain'[j].caller] = "writing"
                 /\ req'[chain'[j].caller] = chain'[j].req
      BY <2>1, <2>3, <2>4
    <2>6. ASSUME NEW j \in DOMAIN chain', NEW k \in DOMAIN chain',
                 chain'[j].caller = chain'[k].caller
          PROVE  j = k
      <3>1. ~chain[j + 1].told /\ ~chain[k + 1].told
        BY <2>4
      <3>2. j + 1 = k + 1
        BY <2>4, <2>6, <3>1
      <3> QED BY <2>4, <3>2
    <2> QED BY <2>5, <2>6
  <1>16. CASE Restart
    BY <1>16 DEF Restart
  <1>17. CASE UNCHANGED vars
    BY <1>17 DEF vars
  <1> QED
    BY <1>1, <1>2, <1>3, <1>4, <1>5, <1>6, <1>7, <1>8, <1>9,
       <1>10, <1>11, <1>12, <1>13, <1>14, <1>15, <1>16, <1>17
    DEF Next, Poller, Troubles

\* A request is in one place, so that it is signed at most once.
LEMMA OnceStep ==
    ASSUME MidnightInv, [Next]_vars
    PROVE  (OnePlace /\ SignedOnce)'
  <1>a. TypeOK /\ Occupied /\ ChainOrder /\ OnePlace /\ SignedOnce
    BY DEF MidnightInv
  <1>b. /\ \A i \in DOMAIN chain : chain[i] \in Writes /\ chain[i].caller \in Caller
                                   /\ chain[i].req \in Req
        /\ DOMAIN chain = 1..Len(chain) /\ Len(chain) \in Nat
    BY <1>a, WriteIsTyped, LenProperties DEF TypeOK
  <1>c. signed \in [Req -> Nat] /\ restarts \in Nat /\ seen \subseteq Req
    BY <1>a, MidnightAssumption DEF TypeOK
  <1>d. /\ at \in [Caller -> {"idle", "polling", "next", "joining", "writing", "done", "failed"}]
        /\ req \in [Caller -> Req \cup {NoReq}] /\ batch \subseteq seen
    BY <1>a DEF TypeOK
  <1> USE <1>a, <1>b, <1>c, <1>d DEF OnePlace, SignedOnce, Unsigned, Signing, Caller, midnight, environment
  <1>1. ASSUME NEW r \in Req, Submit(r)
        PROVE  (OnePlace /\ SignedOnce)'
    BY <1>1 DEF Submit
  <1>2. CASE PollStart
    BY <1>2 DEF PollStart
  <1>3. CASE PollReturns
    BY <1>3 DEF PollReturns, Remembered
  <1>4. CASE PollFails
    BY <1>4 DEF PollFails, Fault
  <1>5. CASE NextRequest
    BY <1>5 DEF NextRequest, Begin, Rest
  <1>6. CASE BuildFails
    BY <1>6 DEF BuildFails, Fault, Rest
  <1>7. CASE HandlerReturns
    BY <1>7 DEF HandlerReturns, AfterFailure
  <1>8. ASSUME NEW r \in Req, Respond(r)
        PROVE  (OnePlace /\ SignedOnce)'
    BY <1>8 DEF Respond, Begin
  <1>9. CASE ResponseReturns
    BY <1>9 DEF ResponseReturns
  <1>10. CASE ContractJoined
    BY <1>10 DEF ContractJoined
  <1>11. CASE ContractFails
    BY <1>11 DEF ContractFails, Fault
  <1>12. ASSUME NEW p \in Caller, Enqueue(p)
        PROVE  (OnePlace /\ SignedOnce)'
    <2>1. /\ req[p] \in Req /\ at[p] = "joining" /\ at' = [at EXCEPT ![p] = "writing"]
          /\ req' = req /\ UNCHANGED <<signed, restarts, seen, batch>>
      BY <1>12 DEF Enqueue, Occupied, Holding
    <2>2. /\ DOMAIN chain' = 1..(Len(chain) + 1)
          /\ \A i \in 1..Len(chain) : chain'[i] = chain[i]
          /\ chain'[Len(chain) + 1].caller = p /\ chain'[Len(chain) + 1].req = req[p]
      BY <1>12, <2>1, ChainGrows
    <2>3. ASSUME NEW r \in Req, Unsigned(r)'
          PROVE  Unsigned(r) /\ (p = "poller" => r # req[p])
      BY <2>1, <2>3
    <2>4. ASSUME NEW r \in Req, NEW i \in DOMAIN chain', Signing(i, r)'
          PROVE  \/ i \in DOMAIN chain /\ Signing(i, r)
                 \/ i = Len(chain) + 1 /\ p = "poller" /\ r = req[p]
      BY <2>2, <2>4
    <2>5. p = "poller" => Unsigned(req[p])
      BY <2>1
    <2>6. ASSUME NEW r \in Req
          PROVE  /\ Unsigned(r)' => signed'[r] <= restarts' /\ \A i \in DOMAIN chain' : ~Signing(i, r)'
                 /\ \A i \in DOMAIN chain' : Signing(i, r)' => signed'[r] <= restarts'
                 /\ \A i, j \in DOMAIN chain' : Signing(i, r)' /\ Signing(j, r)' => i = j
                 /\ signed'[r] <= restarts' + 1
      <3> HIDE DEF Unsigned, Signing
      <3>1. Unsigned(r)' => signed'[r] <= restarts' /\ \A i \in DOMAIN chain' : ~Signing(i, r)'
        BY <2>1, <2>3, <2>4
      <3>2. \A i \in DOMAIN chain' : Signing(i, r)' => signed'[r] <= restarts'
        BY <2>1, <2>4, <2>5
      <3>3. ASSUME NEW i \in DOMAIN chain', NEW j \in DOMAIN chain', Signing(i, r)', Signing(j, r)'
            PROVE  i = j
        BY <2>4, <2>5, <3>3
      <3>4. signed'[r] <= restarts' + 1
        BY <2>1
      <3> QED BY <3>1, <3>2, <3>3, <3>4
    <2>7. at'["poller"] = "joining" => at["poller"] = "joining"
      BY <2>1
    <2> QED BY <2>1, <2>6, <2>7
  <1>13. ASSUME NEW i \in DOMAIN chain, StartWrite(i)
        PROVE  (OnePlace /\ SignedOnce)'
    <2>1. /\ DOMAIN chain' = DOMAIN chain
          /\ \A j \in DOMAIN chain : chain'[j].caller = chain[j].caller /\ chain'[j].req = chain[j].req
      BY <1>13, ChainKeeps
    <2>2. UNCHANGED <<signed, restarts, seen, batch, at, req>>
      BY <1>13 DEF StartWrite
    <2>3. \A r : Unsigned(r)' <=> Unsigned(r)
      BY <2>2
    <2>4. \A r : \A j \in DOMAIN chain : Signing(j, r)' <=> Signing(j, r)
      BY <2>1
    <2> HIDE DEF Unsigned, Signing
    <2> QED BY <2>1, <2>2, <2>3, <2>4
  <1>14. ASSUME NEW i \in DOMAIN chain, TimesOut(i)
        PROVE  (OnePlace /\ SignedOnce)'
    <2>1. /\ DOMAIN chain' = DOMAIN chain
          /\ \A j \in DOMAIN chain : chain'[j].caller = chain[j].caller /\ chain'[j].req = chain[j].req
      BY <1>14, ChainKeeps
    <2>2. at'["poller"] = "joining" => at["poller"] = "joining"
      BY <1>14 DEF TimesOut, Told
    <2> QED BY <1>14, <2>1, <2>2 DEF TimesOut
  <1>15. ASSUME NEW ok \in BOOLEAN, Settle(ok)
        PROVE  (OnePlace /\ SignedOnce)'
    <2>1. /\ DOMAIN chain' = 1..(Len(chain) - 1) /\ Len(chain) # 0
          /\ \A j \in DOMAIN chain' : /\ chain'[j] = chain[j + 1]
                                      /\ j + 1 \in DOMAIN chain /\ j + 1 # 1
          /\ Head(chain) = chain[1] /\ 1 \in DOMAIN chain
      BY <1>15, ChainPops
    <2>2. at'["poller"] = "joining" => at["poller"] = "joining"
      BY <1>15 DEF Settle
    <2>3. UNCHANGED <<restarts, seen, batch, req>>
      BY <1>15 DEF Settle
    <2>4. \/ signed' = signed
          \/ chain[1].caller = "poller" /\ signed' = [signed EXCEPT ![chain[1].req] = signed[chain[1].req] + 1]
      BY <1>15, <2>1 DEF Settle, Land
    <2>5. ASSUME NEW r \in Req
          PROVE  /\ signed'[r] = signed[r] \/ (Signing(1, r) /\ signed'[r] = signed[r] + 1)
                 /\ signed'[r] \in Nat
      BY <2>4
    <2>6. ASSUME NEW r \in Req, NEW j \in DOMAIN chain', Signing(j, r)'
          PROVE  Signing(j + 1, r) /\ ~Signing(1, r)
      BY <2>1, <2>6
    <2>7. ASSUME NEW r \in Req, Unsigned(r)'
          PROVE  Unsigned(r)
      BY <2>2, <2>3, <2>7
    <2>8. ASSUME NEW r \in Req
          PROVE  /\ Unsigned(r)' => signed'[r] <= restarts' /\ \A i \in DOMAIN chain' : ~Signing(i, r)'
                 /\ \A i \in DOMAIN chain' : Signing(i, r)' => signed'[r] <= restarts'
                 /\ \A i, j \in DOMAIN chain' : Signing(i, r)' /\ Signing(j, r)' => i = j
                 /\ signed'[r] <= restarts' + 1
      <3> HIDE DEF Unsigned, Signing
      <3>1. Unsigned(r)' => signed'[r] <= restarts' /\ \A i \in DOMAIN chain' : ~Signing(i, r)'
        BY <2>1, <2>3, <2>5, <2>6, <2>7
      <3>2. \A i \in DOMAIN chain' : Signing(i, r)' => signed'[r] <= restarts'
        BY <2>1, <2>3, <2>5, <2>6
      <3>3. ASSUME NEW i \in DOMAIN chain', NEW j \in DOMAIN chain', Signing(i, r)', Signing(j, r)'
            PROVE  i = j
        <4>1. i + 1 = j + 1
          BY <2>1, <2>6, <3>3
        <4> QED BY <2>1, <4>1
      <3>4. signed'[r] <= restarts' + 1
        BY <2>1, <2>3, <2>5
      <3> QED BY <3>1, <3>2, <3>3, <3>4
    <2> QED BY <2>2, <2>3, <2>8
  <1>16. CASE Restart
    <2>1. chain # <<>> => Head(chain).req \in Req
      BY HeadIsFirst, WriteIsTyped
    <2>2. \A r \in Req : signed'[r] \in Nat /\ signed'[r] <= restarts + 1
      <3>1. CASE UNCHANGED <<signed, responded>>
        BY <3>1
      <3>2. CASE chain # <<>> /\ Land(Head(chain))
        <4>1. Head(chain) = chain[1] /\ 1 \in DOMAIN chain
          BY <3>2, HeadIsFirst
        <4>2. chain[1].caller = "poller" => signed[chain[1].req] <= restarts
          BY <4>1
        <4> QED BY <3>2, <4>1, <4>2 DEF Land
      <3> QED BY <1>16, <3>1, <3>2 DEF Restart
    <2>3. /\ restarts' = restarts + 1 /\ chain' = <<>> /\ at'["poller"] = "idle"
      BY <1>16 DEF Restart
    <2> QED BY <2>2, <2>3
  <1>17. CASE UNCHANGED vars
    BY <1>17 DEF vars
  <1> QED
    BY <1>1, <1>2, <1>3, <1>4, <1>5, <1>6, <1>7, <1>8, <1>9,
       <1>10, <1>11, <1>12, <1>13, <1>14, <1>15, <1>16, <1>17
    DEF Next, Poller, Troubles

\* Nothing is registered or answered before it is signed.
LEMMA SignedStep ==
    ASSUME MidnightInv, [Next]_vars
    PROVE  (SignedBefore /\ SignedFirst)'
  <1>a. TypeOK /\ Occupied /\ ChainOrder /\ SignedBefore /\ SignedFirst
    BY DEF MidnightInv
  <1>b. /\ \A i \in DOMAIN chain : chain[i] \in Writes /\ chain[i].caller \in Caller
                                   /\ chain[i].req \in Req
        /\ DOMAIN chain = 1..Len(chain) /\ Len(chain) \in Nat
    BY <1>a, WriteIsTyped, LenProperties DEF TypeOK
  <1>c. signed \in [Req -> Nat] /\ pending \subseteq Req /\ responded \subseteq Req
    BY <1>a DEF TypeOK
  <1>d. /\ at \in [Caller -> {"idle", "polling", "next", "joining", "writing", "done", "failed"}]
        /\ req \in [Caller -> Req \cup {NoReq}]
    BY <1>a DEF TypeOK
  <1> USE <1>a, <1>b, <1>c, <1>d
      DEF SignedBefore, SignedFirst, Occupied, Holding, Caller, midnight, environment
  <1>1. ASSUME NEW r \in Req, Submit(r)
        PROVE  (SignedBefore /\ SignedFirst)'
    BY <1>1 DEF Submit
  <1>2. CASE PollStart
    BY <1>2 DEF PollStart
  <1>3. CASE PollReturns
    BY <1>3 DEF PollReturns, Remembered
  <1>4. CASE PollFails
    BY <1>4 DEF PollFails, Fault
  <1>5. CASE NextRequest
    BY <1>5 DEF NextRequest, Begin, Rest
  <1>6. CASE BuildFails
    BY <1>6 DEF BuildFails, Fault, Rest
  <1>7. CASE HandlerReturns
    BY <1>7 DEF HandlerReturns, AfterFailure
  <1>8. ASSUME NEW r \in Req, Respond(r)
        PROVE  (SignedBefore /\ SignedFirst)'
    BY <1>8 DEF Respond, Begin
  <1>9. CASE ResponseReturns
    BY <1>9 DEF ResponseReturns
  <1>10. CASE ContractJoined
    BY <1>10 DEF ContractJoined
  <1>11. CASE ContractFails
    BY <1>11 DEF ContractFails, Fault
  <1>12. ASSUME NEW p \in Caller, Enqueue(p)
        PROVE  (SignedBefore /\ SignedFirst)'
    <2>1. /\ req[p] \in Req /\ at[p] = "joining" /\ at' = [at EXCEPT ![p] = "writing"]
          /\ req' = req /\ UNCHANGED <<signed, pending, responded>>
      BY <1>12 DEF Enqueue
    <2>2. /\ DOMAIN chain' = 1..(Len(chain) + 1)
          /\ \A i \in 1..Len(chain) : chain'[i] = chain[i]
          /\ chain'[Len(chain) + 1].caller = p /\ chain'[Len(chain) + 1].req = req[p]
      BY <1>12, <2>1, ChainGrows
    <2> QED BY <2>1, <2>2
  <1>13. ASSUME NEW i \in DOMAIN chain, StartWrite(i)
        PROVE  (SignedBefore /\ SignedFirst)'
    <2>1. /\ DOMAIN chain' = DOMAIN chain
          /\ \A j \in DOMAIN chain : chain'[j].caller = chain[j].caller /\ chain'[j].req = chain[j].req
      BY <1>13, ChainKeeps
    <2> QED BY <1>13, <2>1 DEF StartWrite
  <1>14. ASSUME NEW i \in DOMAIN chain, TimesOut(i)
        PROVE  (SignedBefore /\ SignedFirst)'
    <2>1. /\ DOMAIN chain' = DOMAIN chain
          /\ \A j \in DOMAIN chain : chain'[j].caller = chain[j].caller /\ chain'[j].req = chain[j].req
      BY <1>14, ChainKeeps
    <2>2. at[chain[i].caller] = "writing"
      BY <1>14, UntoldWaits DEF TimesOut
    <2> QED BY <1>14, <2>1, <2>2 DEF TimesOut, Told
  <1>15. ASSUME NEW ok \in BOOLEAN, Settle(ok)
        PROVE  (SignedBefore /\ SignedFirst)'
    <2>1. /\ DOMAIN chain' = 1..(Len(chain) - 1)
          /\ \A j \in DOMAIN chain' : chain'[j] = chain[j + 1] /\ j + 1 \in DOMAIN chain
          /\ Head(chain) = chain[1] /\ 1 \in DOMAIN chain
      BY <1>15, ChainPops
    <2>2. ~chain[1].told => at[chain[1].caller] = "writing" /\ req[chain[1].caller] = chain[1].req
      BY <2>1, UntoldWaits
    <2>3. \A r \in Req : signed'[r] \in Nat /\ (signed[r] > 0 => signed'[r] > 0)
      BY <1>15, <2>1 DEF Settle, Land
    <2>4. ok /\ chain[1].caller = "poller" => signed'[chain[1].req] > 0
      BY <1>15, <2>1 DEF Settle, Land
    <2>5. \/ responded' = responded
          \/ chain[1].caller = "monitor" /\ responded' = responded \cup {chain[1].req}
      <3>1. chain[1].caller \in {"poller", "monitor"}
        BY <2>1
      <3>2. Land(chain[1]) \/ responded' = responded
        BY <1>15, <2>1 DEF Settle
      <3>3. CASE Land(chain[1])
        BY <3>1, <3>3 DEF Land
      <3> QED BY <3>2, <3>3
    <2>6. /\ UNCHANGED <<req, pending>>
          /\ at' = IF chain[1].told THEN at
                   ELSE [at EXCEPT ![chain[1].caller] = IF ok THEN "done" ELSE "failed"]
      BY <1>15, <2>1 DEF Settle
    <2>7. at'["poller"] = "done" => signed'[req'["poller"]] > 0
      BY <2>1, <2>2, <2>3, <2>4, <2>6
    <2>8. at'["monitor"] \in Holding => signed'[req'["monitor"]] > 0
      BY <2>1, <2>2, <2>3, <2>6
    <2>9. \A i \in DOMAIN chain' : chain'[i].caller = "monitor" => signed'[chain'[i].req] > 0
      BY <2>1, <2>3
    <2>10. \A r \in pending' \cup responded' : signed'[r] > 0
      BY <2>1, <2>3, <2>5, <2>6
    <2> QED BY <2>7, <2>8, <2>9, <2>10
  <1>16. CASE Restart
    <2>1. chain # <<>> => Head(chain) = chain[1] /\ 1 \in DOMAIN chain
      BY HeadIsFirst
    <2>2. \A r \in responded' : signed'[r] > 0
      <3>1. CASE UNCHANGED <<signed, responded>>
        BY <3>1
      <3>2. CASE chain # <<>> /\ Land(Head(chain))
        <4>1. chain[1].caller \in {"poller", "monitor"} /\ chain[1].req \in Req
          BY <2>1, <3>2
        <4>2. chain[1].caller = "monitor" => signed[chain[1].req] > 0
          BY <2>1, <3>2
        <4> QED BY <2>1, <3>2, <4>1, <4>2 DEF Land
      <3> QED BY <1>16, <3>1, <3>2 DEF Restart
    <2> QED BY <1>16, <2>2 DEF Restart
  <1>17. CASE UNCHANGED vars
    BY <1>17 DEF vars
  <1> QED
    BY <1>1, <1>2, <1>3, <1>4, <1>5, <1>6, <1>7, <1>8, <1>9,
       <1>10, <1>11, <1>12, <1>13, <1>14, <1>15, <1>16, <1>17
    DEF Next, Poller, Troubles

-----------------------------------------------------------------------------
(* The theorems. *)

\* The invariant holds of every reachable state.
THEOREM Invariance == Spec => []MidnightInv
  <1>1. Init => MidnightInv
    <2> SUFFICES ASSUME Init PROVE MidnightInv
      OBVIOUS
    <2> USE MidnightAssumption
    <2>1. chain = <<>> /\ chain \in Seq(Writes) /\ DOMAIN chain = {}
      BY EmptySeq, LenProperties DEF Init
    <2>2. TypeOK /\ Occupied
      BY <2>1 DEF Init, TypeOK, Occupied, Caller, Holding
    <2>3. ChainOrder
      BY <2>1 DEF ChainOrder
    <2>4. OnePlace /\ SignedOnce
      BY <2>1 DEF Init, OnePlace, SignedOnce, Unsigned, Caller
    <2>5. SignedBefore /\ SignedFirst
      BY <2>1 DEF Init, SignedBefore, SignedFirst, Holding, Caller
    <2> QED BY <2>2, <2>3, <2>4, <2>5 DEF MidnightInv
  <1>2. MidnightInv /\ [Next]_vars => MidnightInv'
    BY TypeStep, ChainStep, OnceStep, SignedStep DEF MidnightInv
  <1> QED BY <1>1, <1>2, PTL DEF Spec

\* Every variable keeps its type; the feed remembers what the loop has left.
THEOREM TypeCorrect == Spec => []TypeOK
  <1>1. MidnightInv => TypeOK
    BY DEF MidnightInv
  <1> QED BY <1>1, Invariance, PTL

\* Two contract calls never run at once, however many writes their callers have
\* given up.
THEOREM AlwaysOneWriter == Spec => []OneWriter
  <1>1. MidnightInv => OneWriter
    BY DEF MidnightInv, ChainOrder, OneWriter
  <1> QED BY <1>1, Invariance, PTL

\* The chain holds at most the write that runs and one of each caller.
THEOREM AlwaysBounded == Spec => []QueueBounded
  <1>1. ASSUME MidnightInv, ~QueueBounded
        PROVE  FALSE
    <2>1. TypeOK /\ ChainOrder
      BY <1>1 DEF MidnightInv
    <2>2. DOMAIN chain = 1..Len(chain) /\ Len(chain) \in Nat
      BY <2>1, LenProperties DEF TypeOK
    <2>3. 2 \in DOMAIN chain /\ 3 \in DOMAIN chain /\ 4 \in DOMAIN chain
      BY <1>1, <2>2 DEF QueueBounded
    <2>4. ~chain[2].told /\ ~chain[3].told /\ ~chain[4].told
      BY <2>1, <2>3 DEF ChainOrder
    <2>5. /\ chain[2].caller # chain[3].caller /\ chain[2].caller # chain[4].caller
          /\ chain[3].caller # chain[4].caller
      BY <2>1, <2>3, <2>4 DEF ChainOrder
    <2>6. /\ chain[2].caller \in Caller /\ chain[3].caller \in Caller
          /\ chain[4].caller \in Caller
      BY <2>1, <2>3, WriteIsTyped
    <2> QED BY <2>5, <2>6 DEF Caller
  <1>2. MidnightInv => QueueBounded
    BY <1>1
  <1> QED BY <1>2, Invariance, PTL

\* A process posts at most one signature of a request.
THEOREM AlwaysSignedOnce == Spec => []SignedOnce
  <1>1. MidnightInv => SignedOnce
    BY DEF MidnightInv
  <1> QED BY <1>1, Invariance, PTL

\* Nothing is monitored or answered before its signature is posted.
THEOREM AlwaysSignedFirst == Spec => []SignedFirst
  <1>1. MidnightInv => SignedFirst
    BY DEF MidnightInv
  <1> QED BY <1>1, Invariance, PTL
=============================================================================
