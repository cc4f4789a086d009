--------------------------- MODULE SourceLegsProofs ---------------------------
(* Proofs about SourceLegs, for any requests, schemas, results and bounds: the *)
(* queue of Substrate sends in order and reports truly, no event is passed     *)
(* over, the monitor forgets a request of any leg only answered or given up    *)
(* on, every answer is faithful or the error of a request given up on, and the *)
(* legs implement ResponsePromise.                                             *)
EXTENDS SourceLegs, OutputSerializationProofs, SequenceTheorems, TLAPS

------------------------------------------------------------------------------
(* The inductive invariant.                                                   *)

Schemas == UNION {SchemasOf(r) : r \in Signs}
Results == {Undecided} \cup UNION {ResultsOf(r, s) : r \in Signs, s \in Schemas}
Answers == {NoAnswer, ErrorAnswer} \cup
  {Answer(source, s, res.failed, res.out) :
     source \in {"solana", "polkadot", "midnight"}, s \in Schemas, res \in Results}

Calls == [req : Substrate, kind : Kinds, answer : Answers, after : Nat, stage : Stages,
          tries : 0..MaxRetries, pooled : Nat, landed : Nat]

QueueTypes == calls \in Seq(Calls) /\ txQueue = Len(calls)

Ticks == [visited : SUBSET Signs, req : Signs \cup {NoReq}, word : Words, call : Nat]

LegTypes == /\ schema \in [Signs -> Schemas] /\ result \in [Signs -> Results]
            /\ tick \in Ticks
            /\ pending \subseteq Signs /\ abandoned \subseteq Signs

\* Each call awaits the one before it; it leaves the queue when that is settled.
HadTurn(i) == \A j \in 1..(i - 1) : calls[j].stage \in Settled
ChainedCalls ==
  \A i \in DOMAIN calls : /\ calls[i].after = i - 1
                          /\ calls[i].stage # "queued" => HadTurn(i)

\* A call has at most one extrinsic, none while it is queued or pauses, one in
\* the pool while it is watched, and one in a block once it is resolved.
Sound(call) ==
  /\ call.pooled + call.landed <= 1
  /\ call.stage \in {"queued", "pausing"} => call.pooled + call.landed = 0
  /\ call.stage = "watched" => call.pooled = 1
  /\ call.stage = "resolved" => call.landed = 1
SoundCalls == \A i \in DOMAIN calls : Sound(calls[i])

\* The tick waits for the call that it made for the request.
TickAwaits ==
  tick.req \in Substrate =>
    /\ tick.call \in DOMAIN calls
    /\ calls[tick.call].req = tick.req /\ calls[tick.call].kind = "response"

QueueInv == QueueTypes /\ ChainedCalls /\ SoundCalls
LegsInv  == QueueInv /\ LegTypes /\ TickAwaits

------------------------------------------------------------------------------
(* The queue.                                                                 *)

\* One call moves on; what it is for stays.
CallBecomes(i, new) ==
  /\ calls' = [calls EXCEPT ![i] = new] /\ txQueue' = txQueue
  /\ new \in Calls /\ Sound(new)
  /\ new.req = calls[i].req /\ new.kind = calls[i].kind /\ new.after = calls[i].after
  /\ new.answer = calls[i].answer /\ new.landed >= calls[i].landed
  /\ new.stage # "queued" => HadTurn(i)
  /\ calls[i].stage \in Settled => new.stage \in Settled

LEMMA CallKeepsQueue ==
    ASSUME QueueInv, NEW i \in DOMAIN calls, NEW new, CallBecomes(i, new)
    PROVE  /\ QueueInv' /\ DOMAIN calls' = DOMAIN calls
           /\ \A j \in DOMAIN calls : calls'[j].req = calls[j].req /\ calls'[j].kind = calls[j].kind
  <1>1. /\ calls \in Seq(Calls) /\ DOMAIN calls = 1..Len(calls) /\ Len(calls) \in Nat
        /\ new \in Calls /\ calls' = [calls EXCEPT ![i] = new]
    BY DEF QueueInv, QueueTypes, CallBecomes
  <1>2. /\ calls' \in Seq(Calls) /\ Len(calls') = Len(calls) /\ DOMAIN calls' = DOMAIN calls
        /\ calls'[i] = new /\ \A j \in DOMAIN calls : j # i => calls'[j] = calls[j]
    BY <1>1, ExceptSeq
  <1>3. QueueTypes'
    BY <1>2 DEF QueueInv, QueueTypes, CallBecomes
  <1>4. \A j \in DOMAIN calls : calls[j].stage \in Settled => calls'[j].stage \in Settled
    BY <1>2 DEF CallBecomes
  <1>5. \A j \in DOMAIN calls : HadTurn(j) => HadTurn(j)'
    <2>1. \A j \in DOMAIN calls : \A k \in 1..(j - 1) : k \in DOMAIN calls
      BY <1>1
    <2> QED BY <1>4, <2>1 DEF HadTurn
  <1>6. ChainedCalls'
    <2>1. ASSUME NEW j \in DOMAIN calls
          PROVE  /\ calls'[j].after = j - 1
                 /\ calls'[j].stage # "queued" => HadTurn(j)
      <3>1. CASE j = i
        BY <1>2, <3>1 DEF CallBecomes, QueueInv, ChainedCalls
      <3>2. CASE j # i
        BY <1>2, <3>2 DEF QueueInv, ChainedCalls
      <3> QED BY <3>1, <3>2
    <2> QED BY <1>2, <1>5, <2>1 DEF ChainedCalls
  <1>7. SoundCalls'
    BY <1>2 DEF CallBecomes, QueueInv, SoundCalls
  <1>8. \A j \in DOMAIN calls : calls'[j].req = calls[j].req /\ calls'[j].kind = calls[j].kind
    BY <1>2 DEF CallBecomes
  <1> QED BY <1>2, <1>3, <1>6, <1>7, <1>8 DEF QueueInv

LEMMA TurnComes ==
    ASSUME QueueInv, NEW i \in DOMAIN calls, Sends(i)
    PROVE  HadTurn(i) /\ calls[i].pooled = 0 /\ calls[i].landed = 0
  <1>1. /\ DOMAIN calls = 1..Len(calls) /\ Len(calls) \in Nat /\ calls[i] \in Calls
        /\ calls[i].after = i - 1
    BY DEF QueueInv, QueueTypes, ChainedCalls
  <1>2. calls[i].stage \in {"queued", "pausing"} /\ calls[i].pooled \in Nat /\ calls[i].landed \in Nat
    BY <1>1 DEF Sends, Calls
  <1>3. calls[i].pooled + calls[i].landed = 0
    BY <1>2 DEF QueueInv, SoundCalls, Sound
  <1>4. CASE calls[i].stage = "pausing"
    BY <1>2, <1>3, <1>4 DEF QueueInv, ChainedCalls
  <1>5. CASE calls[i].stage = "queued"
    <2>1. i - 1 # 0 => calls[i - 1].stage \in Settled
      BY <1>1, <1>5 DEF Sends, HasTurn
    <2>2. ASSUME NEW j \in 1..(i - 1)
          PROVE  calls[j].stage \in Settled
      <3>1. i - 1 \in DOMAIN calls /\ i - 1 # 0 /\ (j = i - 1 \/ j \in 1..((i - 1) - 1))
        BY <1>1
      <3>2. calls[i - 1].stage # "queued"
        BY <2>1, <3>1 DEF Settled
      <3>3. HadTurn(i - 1)
        BY <3>1, <3>2 DEF QueueInv, ChainedCalls
      <3> QED BY <2>1, <3>1, <3>3 DEF HadTurn
    <2> QED BY <1>2, <1>3, <2>2 DEF HadTurn
  <1> QED BY <1>2, <1>4, <1>5

\* The fields of a call that has moved on.
Updated(c, new, stage, tries, pooled, landed) ==
  /\ new.req = c.req /\ new.kind = c.kind /\ new.after = c.after /\ new.answer = c.answer
  /\ new.stage = stage /\ new.tries = tries /\ new.pooled = pooled /\ new.landed = landed

\* Every step of the queue and its node moves one call on.
LEMMA QueueMovesOn ==
    ASSUME QueueInv, QueueStep
    PROVE  \E i \in DOMAIN calls : \E new \in Calls : CallBecomes(i, new)
  <1>1. PICK i \in DOMAIN calls : Reports(i) \/ Spoils(i)
    BY DEF QueueStep
  <1> DEFINE c == calls[i]
  <1>2. /\ c \in Calls /\ Sound(c)
        /\ c.stage # "queued" => HadTurn(i)
    BY ElementOfSeq DEF QueueInv, QueueTypes, ChainedCalls, SoundCalls
  <1>n. c.pooled \in Nat /\ c.landed \in Nat /\ c.tries \in 0..MaxRetries /\ c.stage \in Stages
    BY <1>2 DEF Calls
  <1>c. c = calls[i]
    OBVIOUS
  <1> HIDE DEF c
  <1>3. CASE Accepted(i)
    <2> DEFINE new == [c EXCEPT !.stage = "watched", !.pooled = @ + 1]
    <2>1. HadTurn(i) /\ c.pooled = 0 /\ c.landed = 0 /\ c.stage \notin Settled
      BY <1>3, <1>c, TurnComes DEF Accepted, Sends, Settled
    <2>n. c.pooled + 1 \in Nat /\ c.landed \in Nat /\ "watched" \in Stages
      BY <1>n, <2>1 DEF Stages, Running, Settled
    <2>2. new \in Calls /\ Updated(c, new, "watched", c.tries, c.pooled + 1, c.landed)
      BY <1>2, <1>n, <2>n DEF Calls, Updated
    <2>3. calls' = [calls EXCEPT ![i] = new] /\ txQueue' = txQueue
      BY <1>3 DEF c, Accepted
    <2> HIDE DEF new
    <2>4. Sound(new)
      BY <1>2, <1>n, <2>1, <2>2 DEF Updated, Sound, Settled
    <2>5. new.landed >= c.landed
      BY <1>n, <2>2 DEF Updated
    <2> QED BY <1>2, <1>c, <2>1, <2>2, <2>3, <2>4, <2>5 DEF CallBecomes, Updated, Settled
  <1>4. ASSUME NEW stale \in BOOLEAN, NEW pooled \in Nat,
               calls' = AfterError(i, stale, pooled), txQueue' = txQueue,
               HadTurn(i), c.stage \notin Settled, pooled + c.landed <= 1,
               stale => pooled + c.landed = 0
        PROVE  \E new \in Calls : CallBecomes(i, new)
    <2> DEFINE retried == Retries(i, stale)
               new == [c EXCEPT !.stage = IF retried THEN "pausing" ELSE "rejected",
                                !.tries = IF retried THEN @ + 1 ELSE @,
                                !.pooled = pooled]
               stage == IF retried THEN "pausing" ELSE "rejected"
               tries == IF retried THEN c.tries + 1 ELSE c.tries
    <2>1. calls' = [calls EXCEPT ![i] = new]
      BY <1>4 DEF c, AfterError
    <2>2. retried => stale /\ c.tries < MaxRetries
      BY <1>c DEF Retries
    <2>3. stage \in Stages /\ tries \in 0..MaxRetries
      <3>1. MaxRetries \in Nat /\ (c.tries < MaxRetries => c.tries + 1 \in 0..MaxRetries)
        BY <1>n, QueueAssumption
      <3> QED BY <1>n, <2>2, <3>1 DEF Stages, Running, Settled
    <2>4. new = [c EXCEPT !.stage = stage, !.tries = tries, !.pooled = pooled]
      OBVIOUS
    <2>5. stage = "pausing" \/ stage = "rejected"
      OBVIOUS
    <2>6. stage = "pausing" => stale
      BY <2>2
    <2> HIDE DEF retried, stage, tries
    <2>7. new \in Calls /\ Updated(c, new, stage, tries, pooled, c.landed)
      BY <1>2, <1>n, <1>4, <2>3, <2>4 DEF Calls, Updated
    <2> HIDE DEF new
    <2>8. Sound(new)
      BY <1>4, <1>n, <2>5, <2>6, <2>7 DEF Updated, Sound
    <2>9. new.landed >= c.landed
      BY <1>n, <2>7 DEF Updated
    <2> QED BY <1>4, <1>c, <2>1, <2>5, <2>7, <2>8, <2>9 DEF CallBecomes, Updated
  <1>5. CASE Stale(i)
    <2>1. HadTurn(i) /\ c.pooled = 0 /\ c.landed = 0 /\ c.stage \notin Settled
      BY <1>5, <1>c, TurnComes DEF Stale, Sends, Settled
    <2>2. calls' = AfterError(i, TRUE, c.pooled) /\ txQueue' = txQueue
      BY <1>5, <1>c DEF Stale
    <2>3. c.pooled \in Nat /\ c.pooled + c.landed <= 1 /\ c.pooled + c.landed = 0
      BY <2>1
    <2> QED BY <1>4, <2>1, <2>2, <2>3
  <1>6. CASE SendFails(i)
    <2>1. HadTurn(i) /\ c.pooled = 0 /\ c.landed = 0 /\ c.stage \notin Settled
      BY <1>6, <1>c, TurnComes DEF SendFails, Sends, Settled
    <2>2. PICK taken \in {0, 1} : calls' = AfterError(i, FALSE, c.pooled + taken)
      BY <1>6, <1>c DEF SendFails
    <2>3. c.pooled + taken \in Nat /\ (c.pooled + taken) + c.landed <= 1
      BY <2>1, <2>2
    <2>4. txQueue' = txQueue
      BY <1>6 DEF SendFails
    <2> QED BY <1>4, <2>1, <2>2, <2>3, <2>4
  <1>7. CASE Discarded(i)
    <2>1. HadTurn(i) /\ c.pooled = 1 /\ c.landed = 0 /\ c.stage \notin Settled
      BY <1>2, <1>n, <1>7, <1>c DEF Discarded, Sound, Settled
    <2>2. c.pooled - 1 \in Nat /\ (c.pooled - 1) + c.landed <= 1
      BY <2>1
    <2>3. calls' = AfterError(i, FALSE, c.pooled - 1) /\ txQueue' = txQueue
      BY <1>7, <1>c DEF Discarded
    <2> QED BY <1>4, <2>1, <2>2, <2>3
  <1>8. CASE InBlock(i)
    <2> DEFINE new == [c EXCEPT !.stage = "resolved", !.pooled = @ - 1, !.landed = @ + 1]
    <2>1. HadTurn(i) /\ c.pooled = 1 /\ c.landed = 0
      BY <1>2, <1>n, <1>8, <1>c DEF InBlock, Sound
    <2>n. c.pooled - 1 \in Nat /\ c.landed + 1 \in Nat /\ "resolved" \in Stages
      BY <1>n, <2>1 DEF Stages, Running, Settled
    <2>2. new \in Calls /\ Updated(c, new, "resolved", c.tries, c.pooled - 1, c.landed + 1)
      BY <1>2, <1>n, <2>n DEF Calls, Updated
    <2>3. calls' = [calls EXCEPT ![i] = new] /\ txQueue' = txQueue
      BY <1>8 DEF c, InBlock
    <2> HIDE DEF new
    <2>4. Sound(new)
      BY <1>2, <1>n, <2>1, <2>2 DEF Updated, Sound, Settled
    <2>5. new.landed >= c.landed
      BY <1>n, <2>2 DEF Updated
    <2> QED BY <1>2, <1>c, <2>1, <2>2, <2>3, <2>4, <2>5 DEF CallBecomes, Updated, Settled
  <1>9. CASE GoesSilent(i)
    <2> DEFINE new == [c EXCEPT !.stage = "silent"]
    <2>1. HadTurn(i) /\ c.stage = "watched"
      BY <1>2, <1>9, <1>c DEF GoesSilent
    <2>n. c.pooled \in Nat /\ c.landed \in Nat /\ "silent" \in Stages
      BY <1>n, <2>1 DEF Stages, Running, Settled
    <2>2. new \in Calls /\ Updated(c, new, "silent", c.tries, c.pooled, c.landed)
      BY <1>2, <1>n, <2>n DEF Calls, Updated
    <2>3. calls' = [calls EXCEPT ![i] = new] /\ txQueue' = txQueue
      BY <1>9 DEF c, GoesSilent
    <2> HIDE DEF new
    <2>4. Sound(new)
      BY <1>2, <1>n, <2>1, <2>2 DEF Updated, Sound, Settled
    <2>5. new.landed >= c.landed
      BY <1>n, <2>2 DEF Updated
    <2> QED BY <1>2, <1>c, <2>1, <2>2, <2>3, <2>4, <2>5 DEF CallBecomes, Updated, Settled
  <1>10. CASE LandsUnseen(i)
    <2> DEFINE new == [c EXCEPT !.pooled = @ - 1, !.landed = @ + 1]
    <2>1. /\ c.pooled = 1 /\ c.landed = 0
          /\ c.stage \notin {"queued", "pausing", "watched", "resolved"}
      BY <1>2, <1>n, <1>10, <1>c DEF LandsUnseen, Sound
    <2>n. c.pooled - 1 \in Nat /\ c.landed + 1 \in Nat /\ c.stage \in Stages
      BY <1>n, <2>1 DEF Stages, Running, Settled
    <2>2. new \in Calls /\ Updated(c, new, c.stage, c.tries, c.pooled - 1, c.landed + 1)
      BY <1>2, <1>n, <2>n DEF Calls, Updated
    <2>3. calls' = [calls EXCEPT ![i] = new] /\ txQueue' = txQueue
      BY <1>10 DEF c, LandsUnseen
    <2> HIDE DEF new
    <2>4. Sound(new)
      BY <1>2, <1>n, <2>1, <2>2 DEF Updated, Sound, Settled
    <2>5. new.landed >= c.landed
      BY <1>n, <2>2 DEF Updated
    <2> QED BY <1>2, <1>c, <2>1, <2>2, <2>3, <2>4, <2>5 DEF CallBecomes, Updated, Settled
  <1> QED BY <1>1, <1>3, <1>5, <1>6, <1>7, <1>8, <1>9, <1>10 DEF Reports, Spoils

LEMMA CallJoinsQueue ==
    ASSUME QueueInv, NEW r \in Substrate, NEW kind \in Kinds, NEW answer \in Answers,
           Enqueue(r, kind, answer)
    PROVE  /\ QueueInv' /\ DOMAIN calls \subseteq DOMAIN calls'
           /\ \A j \in DOMAIN calls : calls'[j] = calls[j]
           /\ Len(calls) + 1 \in DOMAIN calls' /\ Len(calls) \in Nat
           /\ calls'[Len(calls) + 1].req = r /\ calls'[Len(calls) + 1].kind = kind
           /\ Len(calls') = Len(calls) + 1
  <1> DEFINE new == NewCall(r, kind, answer)
             n == Len(calls)
  <1>1. calls \in Seq(Calls) /\ DOMAIN calls = 1..n /\ n \in Nat /\ txQueue = n
    BY DEF QueueInv, QueueTypes
  <1>2. /\ new \in Calls /\ Sound(new) /\ new.req = r /\ new.kind = kind
        /\ new.after = n /\ new.stage = "queued"
    BY <1>1, QueueAssumption DEF NewCall, Calls, Sound, Stages
  <1>3. calls' = Append(calls, new) /\ txQueue' = n + 1
    BY DEF Enqueue
  <1> HIDE DEF new, n
  <1>l. n = Len(calls)
    BY DEF n
  <1>4. /\ calls' \in Seq(Calls) /\ Len(calls') = n + 1 /\ DOMAIN calls' = 1..(n + 1)
        /\ calls'[n + 1] = new /\ \A j \in DOMAIN calls : calls'[j] = calls[j]
    BY <1>1, <1>2, <1>3, <1>l, AppendProperties
  <1>5. \A j \in 1..(n + 1) : j = n + 1 \/ j \in DOMAIN calls
    BY <1>1
  <1>6. ChainedCalls'
    <2>1. ASSUME NEW j \in 1..(n + 1)
          PROVE  calls'[j].after = j - 1 /\ (calls'[j].stage # "queued" => HadTurn(j)')
      <3>1. CASE j = n + 1
        BY <1>1, <1>2, <1>4, <3>1
      <3>2. CASE j \in DOMAIN calls
        <4>1. calls[j].after = j - 1 /\ (calls[j].stage # "queued" => HadTurn(j))
          BY <3>2 DEF QueueInv, ChainedCalls
        <4>2. \A k \in 1..(j - 1) : k \in DOMAIN calls
          BY <1>1, <3>2
        <4> QED BY <1>4, <3>2, <4>1, <4>2 DEF HadTurn
      <3> QED BY <1>5, <3>1, <3>2
    <2> QED BY <1>4, <2>1 DEF ChainedCalls
  <1>7. SoundCalls'
    BY <1>2, <1>4, <1>5 DEF QueueInv, SoundCalls
  <1>8. QueueTypes'
    BY <1>3, <1>4 DEF QueueTypes
  <1>9. DOMAIN calls \subseteq DOMAIN calls' /\ n + 1 \in DOMAIN calls'
    BY <1>1, <1>4
  <1> QED BY <1>1, <1>2, <1>4, <1>6, <1>7, <1>8, <1>9, <1>l DEF QueueInv

------------------------------------------------------------------------------
(* The legs, one step for each action.                                        *)

LEMMA WordingsAreSome ==
    ASSUME LegTypes, NEW r \in Signs, NEW word \in Words
    PROVE  Wording(r, word) \in Answers
  <1>1. schema[r] \in Schemas /\ result[r] \in Results
    BY DEF LegTypes
  <1>2. Source(r) \in {"solana", "polkadot", "midnight"}
    BY DEF Source
  <1> QED BY <1>1, <1>2 DEF Wording, AnswerTo, Answers

LEMMA InitLegsInv == Init => LegsInv
  <1> SUFFICES ASSUME Init
               PROVE  LegsInv
    OBVIOUS
  <1>1. calls = <<>> /\ txQueue = 0
    BY DEF Init, QueueInit
  <1>2. QueueInv
    BY <1>1 DEF QueueInv, QueueTypes, ChainedCalls, SoundCalls
  <1>3. Midnight \subseteq Signs
    BY RequestsAssumption DEF Signs, Req
  <1>4. schema \in [Signs -> Schemas]
    BY DEF Init, Schemas
  <1>5. result \in [Signs -> Results]
    BY DEF Init, Results
  <1>6. tick = AtRest /\ pending = Midnight /\ abandoned = {}
    BY DEF Init
  <1>7. TickAwaits
    BY <1>6, RequestsAssumption DEF TickAwaits, AtRest, Req
  <1> QED BY <1>2, <1>3, <1>4, <1>5, <1>6, <1>7 DEF LegsInv, LegTypes, Ticks, Words, AtRest

\* The queue does what it does to other calls than the one the tick awaits.
LEMMA TickKeepsWaiting ==
    ASSUME TickAwaits, tick' = tick, DOMAIN calls \subseteq DOMAIN calls',
           \A j \in DOMAIN calls : calls'[j].req = calls[j].req /\ calls'[j].kind = calls[j].kind
    PROVE  TickAwaits'
  BY DEF TickAwaits

LEMMA NextEntryRests ==
    ASSUME NEW r \in Signs, NEW left \in SUBSET Signs, LegTypes, NextEntry(r, left)
    PROVE  tick' \in Ticks /\ tick'.req = NoReq /\ tick'.call = 0
  BY DEF NextEntry, AtRest, LegTypes, Ticks, Words

\* The tick calls the source chain: on Substrate it waits for the new call.
LEMMA RespondingStep ==
    ASSUME QueueInv, LegTypes, NEW r \in Signs, NEW word \in Words, Responds(r, word)
    PROVE  /\ QueueInv' /\ TickAwaits' /\ tick' \in Ticks /\ tick'.call \in {tick.call, Len(calls')}
           /\ tick'.req = r /\ tick'.word = word
           /\ IF r \in Substrate THEN Enqueue(r, "response", Wording(r, word))
                               ELSE calls' = calls /\ txQueue' = txQueue
           /\ faults' = faults
  <1>1. CASE r \in Substrate
    <2>1. /\ Enqueue(r, "response", Wording(r, word)) /\ "response" \in Kinds
          /\ tick' = [tick EXCEPT !.req = r, !.word = word, !.call = Len(calls) + 1]
          /\ faults' = faults
      BY <1>1 DEF Responds, Kinds
    <2>2. Wording(r, word) \in Answers
      BY WordingsAreSome
    <2>3. /\ QueueInv' /\ Len(calls) + 1 \in DOMAIN calls' /\ Len(calls) \in Nat
          /\ Len(calls') = Len(calls) + 1
          /\ calls'[Len(calls) + 1].req = r /\ calls'[Len(calls) + 1].kind = "response"
      BY <1>1, <2>1, <2>2, CallJoinsQueue
    <2>4. Len(calls) + 1 \in Nat
      BY <2>3
    <2>5. tick' \in Ticks /\ tick'.req = r /\ tick'.word = word /\ tick'.call = Len(calls) + 1
      BY <2>1, <2>4 DEF LegTypes, Ticks
    <2>6. TickAwaits'
      BY <2>3, <2>5 DEF TickAwaits
    <2> QED BY <1>1, <2>1, <2>3, <2>5, <2>6
  <1>2. CASE r \notin Substrate
    <2>1. /\ calls' = calls /\ txQueue' = txQueue /\ faults' = faults
          /\ tick' = [tick EXCEPT !.req = r, !.word = word]
      BY <1>2 DEF Responds, queueVars
    <2>2. tick' \in Ticks /\ tick'.req = r /\ tick'.word = word /\ tick'.call = tick.call
      BY <2>1 DEF LegTypes, Ticks
    <2>3. TickAwaits'
      BY <1>2, <2>2 DEF TickAwaits
    <2>4. QueueInv'
      BY <2>1 DEF QueueInv, QueueTypes, ChainedCalls, HadTurn, SoundCalls
    <2> QED BY <1>2, <2>1, <2>2, <2>3, <2>4
  <1> QED BY <1>1, <1>2

LEMMA LegsInductive == LegsInv /\ [Next]_vars => LegsInv'
  <1> SUFFICES ASSUME LegsInv, [Next]_vars
               PROVE  LegsInv'
    OBVIOUS
  <1>t. QueueInv /\ LegTypes /\ TickAwaits
    BY DEF LegsInv
  <1>n. NoReq \notin Substrate /\ NoReq \notin Signs /\ Substrate \subseteq Req
    BY RequestsAssumption DEF Req, Signs
  <1>q. ASSUME calls' = calls, txQueue' = txQueue
        PROVE  QueueInv'
    BY <1>t, <1>q DEF QueueInv, QueueTypes, ChainedCalls, HadTurn, SoundCalls
  <1>r. ASSUME tick'.req = NoReq
        PROVE  TickAwaits'
    BY <1>n, <1>r DEF TickAwaits
  <1>k. ASSUME tick' = tick, calls' = calls
        PROVE  TickAwaits'
    BY <1>t, <1>k DEF TickAwaits
  <1>e. ASSUME NEW r \in Substrate, NEW kind \in Kinds, NEW answer \in Answers,
               Enqueue(r, kind, answer), tick' = tick
        PROVE  QueueInv' /\ TickAwaits'
    <2>1. /\ QueueInv' /\ DOMAIN calls \subseteq DOMAIN calls'
          /\ \A j \in DOMAIN calls : calls'[j] = calls[j]
      BY <1>t, <1>e, CallJoinsQueue
    <2> QED BY <1>t, <1>e, <2>1, TickKeepsWaiting
  <1>1. CASE Queue
    <2>1. /\ QueueStep /\ schema' = schema /\ result' = result /\ tick' = tick
          /\ pending' = pending /\ abandoned' = abandoned
      BY <1>1 DEF Queue, legVars
    <2>2. PICK i \in DOMAIN calls, new \in Calls : CallBecomes(i, new)
      BY <1>t, <2>1, QueueMovesOn
    <2>3. /\ QueueInv' /\ DOMAIN calls' = DOMAIN calls
          /\ \A j \in DOMAIN calls : calls'[j].req = calls[j].req /\ calls'[j].kind = calls[j].kind
      BY <1>t, <2>2, CallKeepsQueue
    <2> QED BY <1>t, <2>1, <2>3, TickKeepsWaiting DEF LegsInv, LegTypes
  <1>2. ASSUME NEW r \in Signs, Decide(r)
        PROVE  LegsInv'
    <2>1. /\ calls' = calls /\ txQueue' = txQueue /\ schema' = schema /\ tick' = tick
          /\ pending' = pending /\ abandoned' = abandoned
      BY <1>2 DEF Decide, queueVars
    <2>2. PICK res \in ResultsOf(r, schema[r]) : result' = [result EXCEPT ![r] = res]
      BY <1>2 DEF Decide
    <2>3. res \in Results
      BY <1>t, <2>2 DEF LegTypes, Results
    <2>4. LegTypes'
      BY <1>t, <2>1, <2>2, <2>3 DEF LegTypes
    <2> QED BY <1>q, <1>k, <2>1, <2>4 DEF LegsInv
  <1>3. CASE SolanaLeg
    <2>1. /\ calls' = calls /\ txQueue' = txQueue /\ schema' = schema /\ result' = result
          /\ tick' = tick /\ abandoned' = abandoned
      BY <1>3 DEF SolanaLeg, TxStart, TxParsed, TxParseFails, EventHandled, EventFails, queueVars
    <2>2. pending' \subseteq Signs
      BY <1>3, <1>t DEF SolanaLeg, TxStart, TxParsed, TxParseFails, EventHandled, EventFails, LegTypes
    <2> QED BY <1>t, <1>q, <1>k, <2>1, <2>2 DEF LegsInv, LegTypes
  <1>4. CASE SubstrateLeg
    <2>1. schema' = schema /\ result' = result /\ tick' = tick /\ abandoned' = abandoned
      BY <1>4 DEF SubstrateLeg, Deliver, DeliveryFails, HandlerResumes, HandlerTimesOut
    <2>2. pending' \subseteq Signs
      BY <1>4, <1>t DEF SubstrateLeg, Deliver, DeliveryFails, HandlerResumes, HandlerTimesOut, LegTypes
    <2>3. LegTypes'
      BY <1>t, <2>1, <2>2 DEF LegTypes
    <2>4. CASE calls' = calls /\ txQueue' = txQueue
      BY <1>q, <1>k, <2>1, <2>3, <2>4 DEF LegsInv
    <2>5. ASSUME NEW r \in Substrate, Deliver(r)
          PROVE  LegsInv'
      <3>1. Enqueue(r, "signature", NoAnswer) /\ "signature" \in Kinds /\ NoAnswer \in Answers
        BY <2>5 DEF Deliver, Kinds, Answers
      <3> QED BY <1>e, <2>1, <2>3, <3>1 DEF LegsInv
    <2>6. \/ calls' = calls /\ txQueue' = txQueue
          \/ \E r \in Substrate : Deliver(r)
      BY <1>4 DEF SubstrateLeg, DeliveryFails, HandlerResumes, HandlerTimesOut, queueVars
    <2> QED BY <2>4, <2>5, <2>6
  <1>5. ASSUME NEW r \in Signs, VisitLeaves(r)
        PROVE  LegsInv'
    <2>1. /\ calls' = calls /\ txQueue' = txQueue /\ schema' = schema /\ result' = result
          /\ pending' = pending /\ NextEntry(r, pending) /\ abandoned' = abandoned
      BY <1>5 DEF VisitLeaves, queueVars
    <2>2. pending \in SUBSET Signs
      BY <1>t DEF LegTypes
    <2>3. LegTypes' /\ tick'.req = NoReq
      BY <1>t, <2>1, <2>2, NextEntryRests DEF LegTypes
    <2> QED BY <1>q, <1>r, <2>1, <2>3 DEF LegsInv
  <1>6. ASSUME NEW r \in Signs, NEW word \in Words, Responds(r, word),
               schema' = schema, result' = result, pending' = pending,
               abandoned' \in {abandoned, abandoned \cup {r}}
        PROVE  LegsInv'
    <2>1. QueueInv' /\ TickAwaits' /\ tick' \in Ticks
      BY <1>t, <1>6, RespondingStep
    <2> QED BY <1>t, <1>6, <2>1 DEF LegsInv, LegTypes
  <1>7. ASSUME calls' = calls, txQueue' = txQueue, schema' = schema, result' = result,
               tick.req \in Signs, EntryStays \/ EntryGoes,
               abandoned' \in {abandoned, abandoned \cup {tick.req}}
        PROVE  LegsInv'
    <2>1. \E left \in SUBSET Signs : pending' = left /\ NextEntry(tick.req, left)
      <3>1. pending \in SUBSET Signs /\ pending \ {tick.req} \in SUBSET Signs
        BY <1>t DEF LegTypes
      <3> QED BY <1>7, <3>1 DEF EntryStays, EntryGoes
    <2>2. LegTypes' /\ tick'.req = NoReq
      BY <1>t, <1>7, <2>1, NextEntryRests DEF LegTypes
    <2> QED BY <1>q, <1>r, <1>7, <2>2 DEF LegsInv
  <1>9. ASSUME NEW r \in Signs, VisitResponds(r) \/ VisitGivesUp(r)
        PROVE  LegsInv'
    <2>1. /\ schema' = schema /\ result' = result /\ pending' = pending
          /\ abandoned' \in {abandoned, abandoned \cup {r}}
          /\ \E word \in Words : Responds(r, word)
      BY <1>9 DEF VisitResponds, VisitGivesUp, GivesUpOn, Words
    <2> QED BY <1>6, <2>1
  <1>10. CASE Responded \/ ResponseFails \/ LastWordFails
    <2>1. /\ calls' = calls /\ txQueue' = txQueue /\ schema' = schema /\ result' = result
          /\ tick.req \in Signs /\ (EntryStays \/ EntryGoes) /\ abandoned' = abandoned
      BY <1>10 DEF Responded, ResponseFails, LastWordFails, queueVars
    <2> QED BY <1>7, <2>1
  <1>11. CASE ResponseImpossible
    <2>1. /\ schema' = schema /\ result' = result /\ tick.req \in Signs
          /\ abandoned' \in {abandoned, abandoned \cup {tick.req}}
          /\ \/ calls' = calls /\ txQueue' = txQueue /\ EntryGoes
             \/ pending' = pending /\ Responds(tick.req, "lastWord")
      BY <1>11 DEF ResponseImpossible, GivesUpOn, queueVars
    <2> QED BY <1>6, <1>7, <2>1 DEF Words
  <1>8. CASE UNCHANGED vars
    <2>1. /\ calls' = calls /\ txQueue' = txQueue /\ schema' = schema /\ result' = result
          /\ tick' = tick /\ pending' = pending /\ abandoned' = abandoned
      BY <1>8 DEF vars, queueVars, legVars
    <2> QED BY <1>t, <1>q, <1>k, <2>1 DEF LegsInv, LegTypes
  <1> QED BY <1>1, <1>2, <1>3, <1>4, <1>5, <1>8, <1>9, <1>10, <1>11 DEF Next, Tick

------------------------------------------------------------------------------
(* What a step leaves standing.                                               *)

\* The call is still for the same, and its extrinsic stays in its block.
Keeps(old, new) == /\ new.req = old.req /\ new.kind = old.kind /\ new.answer = old.answer
                   /\ new.landed >= old.landed

CallsKept == /\ DOMAIN calls \subseteq DOMAIN calls' /\ Len(calls) <= Len(calls')
             /\ \A j \in DOMAIN calls : Keeps(calls[j], calls'[j])

LEMMA LandedIsCounted ==
    ASSUME QueueInv, NEW j \in DOMAIN calls
    PROVE  calls[j].landed \in Nat
  <1>1. calls \in Seq(Calls) /\ DOMAIN calls = 1..Len(calls)
    BY DEF QueueInv, QueueTypes
  <1>2. calls[j] \in Calls
    BY <1>1, ElementOfSeq
  <1> QED BY <1>2 DEF Calls

LEMMA MovedCallKeeps ==
    ASSUME QueueInv, NEW i \in DOMAIN calls, NEW new, CallBecomes(i, new)
    PROVE  /\ CallsKept /\ DOMAIN calls' = DOMAIN calls /\ calls'[i] = new
           /\ \A j \in DOMAIN calls : j # i => calls'[j] = calls[j]
  <1>1. calls \in Seq(Calls) /\ new \in Calls /\ calls' = [calls EXCEPT ![i] = new]
    BY DEF QueueInv, QueueTypes, CallBecomes
  <1>2. /\ Len(calls') = Len(calls) /\ DOMAIN calls' = DOMAIN calls /\ Len(calls) \in Nat
        /\ calls'[i] = new /\ \A j \in DOMAIN calls : j # i => calls'[j] = calls[j]
    BY <1>1, ExceptSeq
  <1>3. ASSUME NEW j \in DOMAIN calls
        PROVE  Keeps(calls[j], calls'[j])
    <2>1. calls[j].landed \in Nat
      BY LandedIsCounted
    <2>2. CASE j = i
      BY <1>2, <2>2 DEF Keeps, CallBecomes
    <2>3. CASE j # i
      BY <1>2, <2>1, <2>3 DEF Keeps
    <2> QED BY <2>2, <2>3
  <1> QED BY <1>2, <1>3 DEF CallsKept

LEMMA JoinedCallsKeep ==
    ASSUME QueueInv, NEW r \in Substrate, NEW kind \in Kinds, NEW answer \in Answers,
           Enqueue(r, kind, answer)
    PROVE  /\ CallsKept /\ DOMAIN calls' = DOMAIN calls \cup {Len(calls) + 1}
           /\ calls'[Len(calls) + 1] = NewCall(r, kind, answer)
           /\ \A j \in DOMAIN calls : calls'[j] = calls[j]
           /\ Len(calls') = Len(calls) + 1
  <1> DEFINE new == NewCall(r, kind, answer)
             n == Len(calls)
  <1>1. calls \in Seq(Calls) /\ DOMAIN calls = 1..n /\ n \in Nat /\ txQueue = n
    BY DEF QueueInv, QueueTypes
  <1>2. new \in Calls
    BY <1>1, QueueAssumption DEF NewCall, Calls, Stages
  <1>3. calls' = Append(calls, new)
    BY DEF Enqueue
  <1>4. /\ Len(calls') = n + 1 /\ DOMAIN calls' = 1..(n + 1)
        /\ calls'[n + 1] = new /\ \A j \in DOMAIN calls : calls'[j] = calls[j]
    <2> HIDE DEF new
    <2> QED BY <1>1, <1>2, <1>3, AppendProperties
  <1>5. \A j \in DOMAIN calls : calls[j].landed \in Nat
    BY LandedIsCounted
  <1>6. 1..(n + 1) = (1..n) \cup {n + 1} /\ n <= n + 1
    BY <1>1
  <1> HIDE DEF new, n
  <1>7. \A j \in DOMAIN calls : Keeps(calls[j], calls'[j])
    BY <1>4, <1>5 DEF Keeps
  <1>8. CallsKept
    BY <1>1, <1>4, <1>6, <1>7 DEF CallsKept, n
  <1> QED BY <1>1, <1>4, <1>6, <1>8 DEF new, n

\* The steps of a tick that begin to tell the source chain something.
Responding(r, word) ==
  /\ r \in Signs /\ Responds(r, word)
  /\ \/ word = "answer" /\ VisitResponds(r)
     \/ word = "lastWord" /\ VisitGivesUp(r)
     \/ word = "lastWord" /\ ResponseImpossible /\ tick.req = r /\ pending' = pending

\* Who makes a call: a Substrate event for a signature, a tick for an answer.
Calling(r, kind, answer) ==
  \/ kind = "signature" /\ answer = NoAnswer /\ Deliver(r)
  \/ kind = "response" /\ \E word \in Words : answer = Wording(r, word) /\ Responding(r, word)

\* An entry stays or goes, by a tick that waits for nothing more.
Concluding ==
  /\ tick.req \in Signs /\ (EntryStays \/ EntryGoes)
  /\ calls' = calls /\ txQueue' = txQueue
  /\ schema' = schema /\ result' = result /\ tx' = tx /\ handler' = handler
  /\ faults' = faults \/ Fault

LEMMA TickSteps ==
    ASSUME Tick
    PROVE  \/ \E r \in Signs : VisitLeaves(r)
           \/ \E r \in Signs, word \in Words : Responding(r, word)
           \/ Concluding /\ (Responded \/ ResponseFails \/ LastWordFails)
           \/ Concluding /\ ResponseImpossible
  <1>1. ASSUME NEW r \in Signs, VisitResponds(r) \/ VisitGivesUp(r)
        PROVE  \E word \in Words : Responding(r, word)
    BY <1>1 DEF VisitResponds, VisitGivesUp, Responding, Words
  <1>2. CASE Responded \/ ResponseFails \/ LastWordFails
    BY <1>2 DEF Responded, ResponseFails, LastWordFails, Concluding, queueVars
  <1>3. CASE ResponseImpossible
    BY <1>3 DEF ResponseImpossible, Concluding, Responding, Words, queueVars
  <1> QED BY <1>1, <1>2, <1>3 DEF Tick

\* A step makes one call, moves one on, or leaves the queue alone.
LEMMA QueueSteps ==
    ASSUME LegsInv, [Next]_vars
    PROVE  \/ calls' = calls /\ txQueue' = txQueue
           \/ /\ Queue
              /\ \E i \in DOMAIN calls : \E new \in Calls : CallBecomes(i, new)
           \/ \E r \in Substrate, kind \in Kinds, answer \in Answers :
                Calling(r, kind, answer) /\ Enqueue(r, kind, answer)
  <1>t. QueueInv /\ LegTypes
    BY DEF LegsInv
  <1>1. CASE Queue
    BY <1>t, <1>1, QueueMovesOn DEF Queue
  <1>2. ASSUME NEW r \in Substrate, Deliver(r)
        PROVE  /\ "signature" \in Kinds /\ NoAnswer \in Answers
               /\ Calling(r, "signature", NoAnswer) /\ Enqueue(r, "signature", NoAnswer)
    BY <1>2 DEF Calling, Deliver, Kinds, Answers
  <1>3. ASSUME NEW r \in Signs, NEW word \in Words, r \in Substrate, Responding(r, word)
        PROVE  /\ "response" \in Kinds /\ Wording(r, word) \in Answers
               /\ Calling(r, "response", Wording(r, word)) /\ Enqueue(r, "response", Wording(r, word))
    BY <1>t, <1>3, WordingsAreSome DEF Calling, Responding, Responds, Kinds
  <1>4. CASE SolanaLeg \/ Concluding \/ UNCHANGED vars
             \/ \E r \in Signs : Decide(r) \/ VisitLeaves(r)
    BY <1>4 DEF SolanaLeg, TxStart, TxParsed, TxParseFails, EventHandled, EventFails, Concluding,
       Decide, VisitLeaves, vars, queueVars
  <1>5. CASE \E r \in Substrate : DeliveryFails(r) \/ HandlerResumes(r) \/ HandlerTimesOut(r)
    BY <1>5 DEF DeliveryFails, HandlerResumes, HandlerTimesOut, queueVars
  <1>6. ASSUME NEW r \in Signs, NEW word \in Words, r \notin Substrate, Responding(r, word)
        PROVE  calls' = calls /\ txQueue' = txQueue
    BY <1>6 DEF Responding, Responds, queueVars
  <1>7. CASE Tick
    BY <1>3, <1>4, <1>6, <1>7, TickSteps
  <1> QED BY <1>1, <1>2, <1>4, <1>5, <1>7 DEF Next, SubstrateLeg

LEMMA TickLeaves ==
    ASSUME Tick
    PROVE  /\ schema' = schema /\ result' = result /\ tx' = tx /\ handler' = handler
           /\ faults' = faults \/ Fault
  <1>1. ASSUME NEW r \in Signs, NEW word \in Words, Responding(r, word)
        PROVE  /\ schema' = schema /\ result' = result /\ tx' = tx /\ handler' = handler
               /\ faults' = faults
    BY <1>1 DEF Responding, Responds, VisitResponds, VisitGivesUp, ResponseImpossible, queueVars
  <1>2. ASSUME NEW r \in Signs, VisitLeaves(r)
        PROVE  /\ schema' = schema /\ result' = result /\ tx' = tx /\ handler' = handler
               /\ faults' = faults
    BY <1>2 DEF VisitLeaves, queueVars
  <1> QED BY <1>1, <1>2, TickSteps DEF Concluding

\* What a step puts on Solana and Midnight: a signature or the tick's response.
PostsOnly(r) ==
  \/ posted' = posted
  \/ posted' = posted \cup {SignatureOf(r)}
  \/ /\ tick.req = r /\ r \in Signs /\ Concluding /\ abandoned' = abandoned
     /\ posted' = posted \cup {TheResponse}

LEMMA PostingSteps ==
    ASSUME [Next]_vars
    PROVE  \E r : PostsOnly(r)
  <1>1. CASE Concluding /\ (Responded \/ ResponseFails \/ LastWordFails)
    <2>1. tick.req \in Signs /\ abandoned' = abandoned
      BY <1>1 DEF Responded, ResponseFails, LastWordFails
    <2> QED BY <1>1, <2>1 DEF Responded, ResponseFails, LastWordFails, Appears, PostsOnly
  <1>2. CASE SolanaLeg
    BY <1>2 DEF SolanaLeg, TxStart, TxParsed, TxParseFails, EventHandled, EventFails, PostsOnly
  <1>3. CASE \/ Queue \/ SubstrateLeg \/ ResponseImpossible \/ UNCHANGED vars
             \/ \E r \in Signs : Decide(r) \/ VisitLeaves(r) \/ VisitResponds(r) \/ VisitGivesUp(r)
    BY <1>3 DEF Queue, SubstrateLeg, Deliver, DeliveryFails, HandlerResumes, HandlerTimesOut,
       ResponseImpossible, VisitLeaves, VisitResponds, VisitGivesUp, Decide, vars, legVars, PostsOnly
  <1>4. CASE \E r \in Signs, word \in Words : Responding(r, word)
    BY <1>3, <1>4 DEF Responding
  <1> QED BY <1>1, <1>2, <1>3, <1>4, TickSteps DEF Next

LEMMA CallsStay ==
    ASSUME LegsInv, [Next]_vars
    PROVE  CallsKept
  <1>t. QueueInv
    BY DEF LegsInv
  <1>1. CASE calls' = calls
    <2>1. calls \in Seq(Calls) /\ Len(calls) \in Nat
      BY <1>t DEF QueueInv, QueueTypes
    <2>2. \A j \in DOMAIN calls : calls[j].landed \in Nat
      BY <1>t, LandedIsCounted
    <2> QED BY <1>1, <2>1, <2>2 DEF CallsKept, Keeps
  <1> QED BY <1>t, <1>1, QueueSteps, MovedCallKeeps, JoinedCallsKeep

------------------------------------------------------------------------------
(* Types and places.                                                          *)

TxStages      == {"new", "parsing", "handling", "failed", "done"}
HandlerStages == {"none", "waiting", "done", "failed"}

TxTypes == /\ faults \in 0..MaxFaults
           /\ tx \in [stage : TxStages, at : Events \cup {0}, runs : 0..MaxRuns]
           /\ tx.stage = "handling" => tx.at \in Events
HandlerTypes == /\ handler \in [Substrate -> [stage : HandlerStages, call : Nat]]
                /\ \A r \in Substrate : handler[r].call <= Len(calls)
                /\ tick.call <= Len(calls)

LEMMA FaultIsBounded ==
    ASSUME faults \in 0..MaxFaults, Fault
    PROVE  faults' \in 0..MaxFaults
  BY QueueAssumption DEF Fault

LEMMA GoingOnBehind ==
    ASSUME TxTypes, NEW at, GoesOnBehind(at)
    PROVE  /\ tx' \in [stage : TxStages, at : Events \cup {0}, runs : 0..MaxRuns]
           /\ tx'.stage = "handling" => tx'.at \in Events
  <1>1. \/ \E k \in Events : tx' = [tx EXCEPT !.stage = "handling", !.at = k]
        \/ tx' = [tx EXCEPT !.stage = "done"]
    BY DEF GoesOnBehind
  <1> QED BY <1>1 DEF TxTypes, TxStages

LEMMA TxTypesInductive == LegsInv /\ TxTypes /\ [Next]_vars => TxTypes'
  <1> SUFFICES ASSUME LegsInv, TxTypes, [Next]_vars
               PROVE  TxTypes'
    OBVIOUS
  <1>k. ASSUME tx' = tx, faults' = faults \/ Fault
        PROVE  TxTypes'
    BY <1>k, FaultIsBounded DEF TxTypes
  <1>f. ASSUME TxFails, Fault
        PROVE  TxTypes'
    <2>1. tx' \in [stage : TxStages, at : Events \cup {0}, runs : 0..MaxRuns] /\ tx'.stage = "failed"
      BY <1>f DEF TxFails, TxTypes, TxStages
    <2> QED BY <1>f, <2>1, FaultIsBounded DEF TxTypes
  <1>1. CASE Queue
    BY <1>k, <1>1 DEF Queue, QueueStep, Reports, Spoils, Accepted, InBlock, Stale, SendFails,
       Discarded, GoesSilent, LandsUnseen, legVars
  <1>2. CASE TxStart
    <2>1. tx.runs + 1 \in 0..MaxRuns
      BY <1>2, LegsAssumption DEF TxStart, TxTypes
    <2>2. tx' \in [stage : TxStages, at : Events \cup {0}, runs : 0..MaxRuns] /\ tx'.stage = "parsing"
      BY <1>2, <2>1 DEF TxStart, TxStages
    <2> QED BY <1>2, <2>2 DEF TxStart, queueVars, TxTypes
  <1>3. CASE TxParsed
    BY <1>3, GoingOnBehind DEF TxParsed, queueVars, TxTypes
  <1>4. CASE TxParseFails
    BY <1>4, <1>f DEF TxParseFails
  <1>5. ASSUME NEW r \in Solana, EventHandled(r)
        PROVE  TxTypes'
    BY <1>5, GoingOnBehind DEF EventHandled, NextEvent, queueVars, TxTypes
  <1>6. ASSUME NEW r \in Solana, EventFails(r)
        PROVE  TxTypes'
    BY <1>6, <1>f DEF EventFails
  <1>7. CASE SubstrateLeg
    BY <1>k, <1>7 DEF SubstrateLeg, Deliver, DeliveryFails, HandlerResumes, HandlerTimesOut, queueVars
  <1>8. CASE Tick
    <2>1. tx' = tx /\ (faults' = faults \/ Fault)
      BY <1>8, TickLeaves
    <2> QED BY <1>k, <2>1
  <1>9. CASE UNCHANGED vars \/ \E r \in Signs : Decide(r)
    BY <1>k, <1>9 DEF Decide, vars, queueVars, legVars
  <1> QED BY <1>1, <1>2, <1>3, <1>4, <1>5, <1>6, <1>7, <1>8, <1>9 DEF Next, SolanaLeg

LEMMA HandlerTypesInductive == LegsInv /\ HandlerTypes /\ [Next]_vars => HandlerTypes'
  <1> SUFFICES ASSUME LegsInv, HandlerTypes, [Next]_vars
               PROVE  HandlerTypes'
    OBVIOUS
  <1>t. QueueInv /\ LegTypes /\ LegTypes' /\ QueueInv'
    BY LegsInductive DEF LegsInv
  <1>l. Len(calls) \in Nat /\ Len(calls') \in Nat /\ Len(calls) <= Len(calls')
    BY <1>t, CallsStay DEF CallsKept, QueueInv, QueueTypes
  <1>k. ASSUME handler' = handler, tick'.call <= Len(calls')
        PROVE  HandlerTypes'
    BY <1>l, <1>k DEF HandlerTypes
  <1>s. ASSUME tick' = tick
        PROVE  tick'.call <= Len(calls')
    BY <1>l, <1>s, <1>t DEF HandlerTypes, LegTypes, Ticks
  <1>e. ASSUME NEW r \in Substrate, NEW stage \in HandlerStages, HandlerEnds(r, stage), tick' = tick
        PROVE  HandlerTypes'
    <2>1. /\ handler' \in [Substrate -> [stage : HandlerStages, call : Nat]]
          /\ \A s \in Substrate : handler'[s].call = handler[s].call
      BY <1>e DEF HandlerEnds, HandlerTypes
    <2> QED BY <1>l, <1>s, <1>e, <2>1 DEF HandlerTypes
  <1>1. CASE Queue \/ SolanaLeg \/ UNCHANGED vars \/ \E r \in Signs : Decide(r)
    BY <1>1, <1>k, <1>s DEF Queue, SolanaLeg, TxStart, TxParsed, TxParseFails, EventHandled, EventFails,
       Decide, vars, legVars
  <1>2. ASSUME NEW r \in Substrate, Deliver(r)
        PROVE  HandlerTypes'
    <2>1. /\ handler' = [handler EXCEPT ![r] = [stage |-> "waiting", call |-> Len(calls) + 1]]
          /\ tick' = tick /\ Enqueue(r, "signature", NoAnswer)
          /\ "signature" \in Kinds /\ NoAnswer \in Answers
      BY <1>2 DEF Deliver, Kinds, Answers
    <2>2. Len(calls') = Len(calls) + 1
      BY <1>t, <2>1, JoinedCallsKeep
    <2>3. /\ handler' \in [Substrate -> [stage : HandlerStages, call : Nat]]
          /\ \A s \in Substrate : handler'[s].call \in {handler[s].call, Len(calls')}
      BY <1>l, <2>1, <2>2 DEF HandlerTypes, HandlerStages
    <2> QED BY <1>l, <1>s, <2>1, <2>3 DEF HandlerTypes
  <1>3. ASSUME NEW r \in Substrate, DeliveryFails(r) \/ HandlerResumes(r) \/ HandlerTimesOut(r)
        PROVE  HandlerTypes'
    <2>1. tick' = tick /\ \E stage \in HandlerStages : HandlerEnds(r, stage)
      BY <1>3 DEF DeliveryFails, HandlerResumes, HandlerTimesOut, HandlerStages
    <2> QED BY <1>e, <2>1
  <1>4. CASE Tick
    <2>1. handler' = handler
      BY <1>4, TickLeaves
    <2>2. tick'.call <= Len(calls')
      <3>1. ASSUME NEW r, NEW left, NextEntry(r, left)
            PROVE  tick'.call = 0
        BY <3>1 DEF NextEntry, AtRest
      <3>2. CASE Concluding \/ \E r \in Signs : VisitLeaves(r)
        BY <1>l, <3>1, <3>2 DEF Concluding, EntryStays, EntryGoes, VisitLeaves
      <3>3. ASSUME NEW r \in Signs, NEW word \in Words, Responding(r, word)
            PROVE  tick'.call <= Len(calls')
        <4>1. tick'.call \in {tick.call, Len(calls')}
          BY <1>t, <3>3, RespondingStep DEF Responding
        <4> QED BY <1>l, <1>t, <4>1 DEF HandlerTypes, LegTypes, Ticks
      <3> QED BY <1>4, <3>2, <3>3, TickSteps
    <2> QED BY <1>k, <2>1, <2>2
  <1> QED BY <1>1, <1>2, <1>3, <1>4 DEF Next, SubstrateLeg

------------------------------------------------------------------------------
(* The events of a transaction.                                               *)

LEMMA EventsFollow ==
    ASSUME NEW k \in Events
    PROVE  k \in Nat /\ k > 0
  <1>1. k \in DOMAIN Instructions
    BY DEF Events, parseCpiEvents
  <1> QED BY <1>1, InstructionsAssumption

\* When the loop goes on from an event that is signed, with all before it, no
\* event is passed over.
LEMMA NothingSkipped ==
    ASSUME TxTypes, NEW at \in Nat, GoesOnBehind(at),
           \A k \in Events : k <= at => SignatureOf(Instructions[k].req) \in posted'
    PROVE  NoEventSkipped'
  <1>1. ASSUME NEW k \in Events, (tx'.stage = "handling" /\ k < tx'.at) \/ tx'.stage = "done"
        PROVE  SignatureOf(Instructions[k].req) \in posted'
    <2>1. k \in Nat
      BY EventsFollow
    <2>2. CASE k <= at
      BY <2>2
    <2>3. CASE at < k
      <3>1. PICK next \in Events : /\ \A j \in Events : at < j => next <= j
                                   /\ tx' = [tx EXCEPT !.stage = "handling", !.at = next]
        BY <2>3 DEF GoesOnBehind
      <3>2. tx'.stage = "handling" /\ tx'.at = next
        BY <3>1 DEF TxTypes
      <3>3. next <= k /\ k < next /\ next \in Nat
        BY <1>1, <2>3, <3>1, <3>2, EventsFollow
      <3> QED BY <2>1, <3>3
    <2> QED BY <2>1, <2>2, <2>3
  <1> QED BY <1>1 DEF NoEventSkipped

LEMMA EventsInductive == LegsInv /\ TxTypes /\ NoEventSkipped /\ [Next]_vars => NoEventSkipped'
  <1> SUFFICES ASSUME LegsInv, TxTypes, NoEventSkipped, [Next]_vars
               PROVE  NoEventSkipped'
    OBVIOUS
  <1>k. ASSUME tx' = tx, posted \subseteq posted'
        PROVE  NoEventSkipped'
    BY <1>k DEF NoEventSkipped
  <1>f. ASSUME tx'.stage \in {"parsing", "failed"}
        PROVE  NoEventSkipped'
    BY <1>f DEF NoEventSkipped
  <1>1. CASE TxStart
    BY <1>1, <1>f DEF TxStart
  <1>2. CASE TxParsed
    <2>1. GoesOnBehind(0) /\ \A k \in Events : ~(k <= 0)
      BY <1>2, EventsFollow DEF TxParsed
    <2> QED BY <2>1, NothingSkipped
  <1>3. CASE TxParseFails \/ \E r \in Solana : EventFails(r)
    <2>1. TxFails
      BY <1>3 DEF TxParseFails, EventFails
    <2>2. tx'.stage = "failed"
      BY <2>1 DEF TxFails, TxTypes
    <2> QED BY <1>f, <2>2
  <1>4. ASSUME NEW r \in Solana, EventHandled(r)
        PROVE  NoEventSkipped'
    <2>1. /\ tx.stage = "handling" /\ Instructions[tx.at].req = r /\ GoesOnBehind(tx.at)
          /\ posted' = posted \cup {SignatureOf(r)}
      BY <1>4 DEF EventHandled, Handles, NextEvent
    <2>2. tx.at \in Events /\ tx.at \in Nat
      BY <2>1, EventsFollow DEF TxTypes
    <2>3. ASSUME NEW k \in Events, k <= tx.at
          PROVE  SignatureOf(Instructions[k].req) \in posted'
      <3>1. k = tx.at \/ k < tx.at
        BY <2>2, <2>3, EventsFollow
      <3> QED BY <2>1, <3>1 DEF NoEventSkipped
    <2> QED BY <2>1, <2>2, <2>3, NothingSkipped
  <1>5. CASE Queue \/ SubstrateLeg \/ Tick \/ UNCHANGED vars \/ \E r \in Signs : Decide(r)
    <2>1. tx' = tx
      BY <1>5, TickLeaves DEF Queue, SubstrateLeg, Deliver, DeliveryFails, HandlerResumes,
         HandlerTimesOut, Decide, vars, legVars
    <2>2. PICK r : PostsOnly(r)
      BY PostingSteps
    <2>3. posted \subseteq posted'
      BY <2>2 DEF PostsOnly
    <2> QED BY <1>k, <2>1, <2>3
  <1> QED BY <1>1, <1>2, <1>3, <1>4, <1>5 DEF Next, SolanaLeg

------------------------------------------------------------------------------
(* The answers.                                                               *)

\* The answer to a transaction that is decided and can be told of, or the error
\* answer to a request that was given up on.
Standing(r, word) == IF word = "lastWord" THEN r \in abandoned
                     ELSE result[r].done /\ AnswerTo(r).ok
Stands(r, a) == r \in Signs /\ \E word \in Words : Standing(r, word) /\ a = Wording(r, word)

\* What is posted, on its way or about to be sent.
AnswersStand ==
  /\ tick.req # NoReq => Standing(tick.req, tick.word)
  /\ \A p \in posted : p.kind = "response" => Stands(p.req, p.answer)
  /\ \A i \in DOMAIN calls : calls[i].kind = "response" => Stands(calls[i].req, calls[i].answer)

\* A transaction that is decided stays as it is, a request stays given up on.
LEMMA DecidedStays ==
    ASSUME LegsInv, [Next]_vars, NEW r \in Signs, NEW word \in Words, Standing(r, word)
    PROVE  Standing(r, word)' /\ Wording(r, word)' = Wording(r, word)
  <1>t. LegTypes
    BY DEF LegsInv
  <1>1. abandoned \subseteq abandoned'
    <2>1. Queue \/ SubstrateLeg \/ UNCHANGED vars => abandoned' = abandoned
      BY DEF Queue, SubstrateLeg, Deliver, DeliveryFails, HandlerResumes, HandlerTimesOut,
         vars, legVars
    <2>2. SolanaLeg => abandoned' = abandoned
      BY DEF SolanaLeg, TxStart, TxParsed, TxParseFails, EventHandled, EventFails
    <2>3. (\E q \in Signs : Decide(q)) => abandoned' = abandoned
      BY DEF Decide
    <2>4. Tick => abandoned \subseteq abandoned'
      BY DEF Tick, Responded, ResponseFails, ResponseImpossible, LastWordFails, VisitLeaves,
         VisitResponds, VisitGivesUp, GivesUpOn
    <2> QED BY <2>1, <2>2, <2>3, <2>4 DEF Next
  <1>2. CASE word = "lastWord"
    BY <1>1, <1>2 DEF Standing, Wording
  <1>3. CASE word # "lastWord"
    <2>1. ASSUME NEW q \in Signs, Decide(q)
          PROVE  schema' = schema /\ result'[r] = result[r]
      <3>1. q # r
        BY <1>3, <2>1 DEF Decide, Standing
      <3> QED BY <1>t, <2>1, <3>1 DEF Decide, LegTypes
    <2>2. ASSUME ~\E q \in Signs : Decide(q)
          PROVE  schema' = schema /\ result'[r] = result[r]
      <3>1. Queue \/ UNCHANGED vars => schema' = schema /\ result' = result
        BY DEF Queue, vars, legVars
      <3>2. SolanaLeg => schema' = schema /\ result' = result
        BY DEF SolanaLeg, TxStart, TxParsed, TxParseFails, EventHandled, EventFails
      <3>3. SubstrateLeg => schema' = schema /\ result' = result
        BY DEF SubstrateLeg, Deliver, DeliveryFails, HandlerResumes, HandlerTimesOut
      <3> QED BY <2>2, <3>1, <3>2, <3>3, TickLeaves DEF Next
    <2>3. schema' = schema /\ result'[r] = result[r]
      BY <2>1, <2>2
    <2>4. result'[r].done /\ AnswerTo(r)' = AnswerTo(r)
      BY <1>3, <2>3 DEF AnswerTo, Standing
    <2> QED BY <1>3, <2>4 DEF Standing, Wording
  <1> QED BY <1>2, <1>3

LEMMA StandsOn ==
    ASSUME LegsInv, [Next]_vars, NEW r, NEW a, Stands(r, a)
    PROVE  Stands(r, a)'
  <1>1. PICK word \in Words : r \in Signs /\ Standing(r, word) /\ a = Wording(r, word)
    BY DEF Stands
  <1> QED BY <1>1, DecidedStays DEF Stands

\* What the tick begins to tell stands once it has begun.
LEMMA RespondingStands ==
    ASSUME LegsInv, NEW r \in Signs, NEW word \in Words, Responding(r, word)
    PROVE  Standing(r, word)' /\ Wording(r, word)' = Wording(r, word)
  <1>1. schema' = schema /\ result' = result
    BY DEF Responding, VisitResponds, VisitGivesUp, ResponseImpossible
  <1>2. AnswerTo(r)' = AnswerTo(r)
    BY <1>1 DEF AnswerTo
  <1>3. IF word = "lastWord" THEN r \in abandoned' ELSE result[r].done /\ AnswerTo(r).ok
    BY DEF Responding, VisitResponds, VisitGivesUp, ResponseImpossible, GivesUpOn, Words
  <1> QED BY <1>1, <1>2, <1>3 DEF Standing, Wording

LEMMA AnswersInductive == LegsInv /\ AnswersStand /\ [Next]_vars => AnswersStand'
  <1> SUFFICES ASSUME LegsInv, AnswersStand, [Next]_vars
               PROVE  AnswersStand'
    OBVIOUS
  <1>t. QueueInv /\ LegTypes
    BY DEF LegsInv
  <1>n. NoReq \notin Signs
    BY RequestsAssumption DEF Req, Signs
  <1>w. tick.req # NoReq => /\ tick.req \in Signs /\ tick.word \in Words
                            /\ Standing(tick.req, tick.word)
    BY <1>t DEF LegTypes, Ticks, AnswersStand
  <1>1. ASSUME tick'.req # NoReq
        PROVE  Standing(tick.req, tick.word)'
    <2>1. CASE tick' = tick
      BY <1>1, <1>w, <2>1, DecidedStays
    <2>2. CASE tick' # tick
      <3>1. ASSUME NEW r, NEW left, NextEntry(r, left)
            PROVE  FALSE
        BY <1>1, <3>1 DEF NextEntry, AtRest
      <3>2. PICK r \in Signs, word \in Words : Responding(r, word)
        <4>1. CASE Tick
          <5>1. ~Concluding /\ ~\E r \in Signs : VisitLeaves(r)
            BY <3>1 DEF Concluding, EntryStays, EntryGoes, VisitLeaves
          <5> QED BY <4>1, <5>1, TickSteps
        <4>2. Queue \/ SolanaLeg \/ SubstrateLeg \/ UNCHANGED vars => tick' = tick
          BY DEF Queue, SolanaLeg, TxStart, TxParsed, TxParseFails, EventHandled, EventFails,
             SubstrateLeg, Deliver, DeliveryFails, HandlerResumes, HandlerTimesOut, vars, legVars
        <4>3. (\E r \in Signs : Decide(r)) => tick' = tick
          BY DEF Decide
        <4> QED BY <2>2, <4>1, <4>2, <4>3 DEF Next
      <3>3. tick'.req = r /\ tick'.word = word
        BY <1>t, <3>2, RespondingStep DEF Responding
      <3> QED BY <3>2, <3>3, RespondingStands
    <2> QED BY <2>1, <2>2
  <1>2. ASSUME NEW p \in posted', p.kind = "response"
        PROVE  Stands(p.req, p.answer)'
    <2>1. PICK r : PostsOnly(r)
      BY PostingSteps
    <2>2. CASE p \in posted
      BY <1>2, <2>2, StandsOn DEF AnswersStand
    <2>3. CASE p \notin posted
      <3>1. p # SignatureOf(r)
        BY <1>2 DEF SignatureOf, Post
      <3>2. p = TheResponse /\ tick.req = r /\ r \in Signs
        BY <2>1, <2>3, <3>1 DEF PostsOnly
      <3>3. Stands(r, Wording(r, tick.word))
        BY <1>n, <1>w, <3>2 DEF Stands
      <3>4. p.req = r /\ p.answer = Wording(r, tick.word)
        BY <3>2 DEF TheResponse, Post
      <3> QED BY <3>3, <3>4, StandsOn
    <2> QED BY <2>2, <2>3
  <1>3. ASSUME NEW i \in DOMAIN calls', calls'[i].kind = "response"
        PROVE  Stands(calls[i].req, calls[i].answer)'
    <2>1. CASE i \in DOMAIN calls
      <3>1. Keeps(calls[i], calls'[i])
        BY <2>1, CallsStay DEF CallsKept
      <3>2. Stands(calls[i].req, calls[i].answer)
        BY <1>3, <2>1, <3>1 DEF AnswersStand, Keeps
      <3> QED BY <3>1, <3>2, StandsOn DEF Keeps
    <2>2. CASE i \notin DOMAIN calls
      <3>1. PICK r \in Substrate, kind \in Kinds, answer \in Answers :
              Calling(r, kind, answer) /\ Enqueue(r, kind, answer)
        BY <1>t, <2>2, QueueSteps, MovedCallKeeps
      <3>2. calls'[i] = NewCall(r, kind, answer)
        BY <1>t, <2>2, <3>1, JoinedCallsKeep
      <3>3. kind = "response" /\ calls'[i].req = r /\ calls'[i].answer = answer
        BY <1>3, <3>2 DEF NewCall
      <3>4. PICK word \in Words : answer = Wording(r, word) /\ Responding(r, word)
        BY <3>1, <3>3 DEF Calling
      <3>5. r \in Signs /\ Standing(r, word)' /\ Wording(r, word)' = Wording(r, word)
        BY <3>4, RespondingStands DEF Responding
      <3> QED BY <3>3, <3>4, <3>5 DEF Stands
    <2> QED BY <2>1, <2>2
  <1> QED BY <1>1, <1>2, <1>3 DEF AnswersStand

------------------------------------------------------------------------------
(* The promise: every step is one of ResponsePromise.                         *)

LEMMA AnswerStands ==
    ASSUME AnswersStand, NEW r \in Signs, NEW a \in AnswersOf(r)
    PROVE  Stands(r, a)
  <1>1. CASE \E p \in posted : p.req = r /\ p.kind = "response" /\ p.answer = a
    BY <1>1 DEF AnswersStand
  <1>2. CASE \E i \in DOMAIN calls : /\ calls[i].req = r /\ calls[i].kind = "response"
                                     /\ calls[i].answer = a
    BY <1>2 DEF AnswersStand
  <1> QED BY <1>1, <1>2 DEF AnswersOf

\* The error answer is given to failures alone.
LEMMA ErrorIsFailure ==
    ASSUME NEW r, AnswerTo(r).ok
    PROVE  AnswerTo(r).error <=> result[r].failed
  BY DEF AnswerTo, Answer, ErrorAnswer, serializeMidnightRespondOutput, serializeBorshOutput,
     MidnightLibrary, BorshLibrary, Taken, Encoded, Threw

KindsOf(r) == {AnswerKind(a) : a \in AnswersOf(r)}

LEMMA DecideStep ==
    ASSUME LegsInv, NEW r \in Signs, Decide(r)
    PROVE  Promise!Next
  <1>1. /\ ~result[r].done /\ result \in [Signs -> Results] /\ posted' = posted /\ calls' = calls
        /\ abandoned' = abandoned /\ \E res : result' = [result EXCEPT ![r] = res]
    BY DEF Decide, queueVars, LegsInv, LegTypes
  <1>2. /\ OutcomeOf(r) = "unsent" /\ OutcomeOf(r)' \in {"unsent", "reverted", "ok"}
        /\ \A q \in Signs : q # r => OutcomeOf(q)' = OutcomeOf(q)
    BY <1>1 DEF OutcomeOf
  <1>3. \A q \in Signs : AnswersOf(q)' = AnswersOf(q)
    BY <1>1 DEF AnswersOf
  <1>4. Promise!Execute(r)
    BY <1>1, <1>2, <1>3 DEF Promise!Execute, Promise!Undecided, Promise!Successful, Promise!Unsuccessful
  <1> QED BY <1>4 DEF Promise!Next

LEMMA SilentStep ==
    ASSUME result' = result, abandoned' = abandoned, \A q \in Signs : AnswersOf(q)' = AnswersOf(q)
    PROVE  UNCHANGED Promise!vars
  BY DEF Promise!vars, OutcomeOf

LEMMA ExcuseStep ==
    ASSUME NEW r \in Signs, abandoned' = abandoned \cup {r}, result' = result,
           \A q \in Signs : AnswersOf(q)' = AnswersOf(q)
    PROVE  Promise!Next
  <1>1. Promise!Excuse(r)
    BY DEF Promise!Excuse, OutcomeOf
  <1> QED BY <1>1 DEF Promise!Next

LEMMA AnswerStep ==
    ASSUME NEW r \in Signs, NEW a, Stands(r, a), result' = result, abandoned' = abandoned,
           \A q \in Signs : AnswersOf(q)' = IF q = r THEN AnswersOf(q) \cup {a} ELSE AnswersOf(q)
    PROVE  Promise!Next
  <1>1. \A q \in Signs : OutcomeOf(q)' = OutcomeOf(q)
    BY DEF OutcomeOf
  <1>2. \A q \in Signs : KindsOf(q)' = IF q = r THEN KindsOf(q) \cup {AnswerKind(a)} ELSE KindsOf(q)
    BY DEF KindsOf
  <1>3. PICK word \in Words : Standing(r, word) /\ a = Wording(r, word)
    BY DEF Stands
  <1>4. CASE word = "lastWord"
    <2>1. r \in abandoned /\ AnswerKind(a) = "error"
      BY <1>3, <1>4 DEF Standing, Wording, AnswerKind, ErrorAnswer
    <2>2. Promise!AnswerError(r)
      BY <1>1, <1>2, <2>1 DEF KindsOf, Promise!AnswerError
    <2> QED BY <2>2 DEF Promise!Next
  <1>5. CASE word # "lastWord" /\ result[r].failed
    <2>1. OutcomeOf(r) = "reverted" /\ AnswerKind(a) = "error"
      BY <1>3, <1>5, ErrorIsFailure DEF Standing, Wording, OutcomeOf, AnswerKind
    <2>2. Promise!AnswerError(r)
      BY <1>1, <1>2, <2>1 DEF KindsOf, Promise!AnswerError, Promise!Unsuccessful
    <2> QED BY <2>2 DEF Promise!Next
  <1>6. CASE word # "lastWord" /\ ~result[r].failed
    <2>1. OutcomeOf(r) = "ok" /\ AnswerKind(a) = "success"
      BY <1>3, <1>6, ErrorIsFailure DEF Standing, Wording, OutcomeOf, AnswerKind
    <2>2. Promise!AnswerSuccess(r)
      BY <1>1, <1>2, <2>1 DEF KindsOf, Promise!AnswerSuccess, Promise!Successful
    <2> QED BY <2>2 DEF Promise!Next
  <1> QED BY <1>4, <1>5, <1>6

LEMMA PostingAnswers ==
    ASSUME LegsInv, AnswersStand, NEW r, PostsOnly(r),
           calls' = calls, result' = result, abandoned' = abandoned
    PROVE  [Promise!Next]_(Promise!vars)
  <1>1. CASE \/ posted' = posted
             \/ posted' = posted \cup {SignatureOf(r)}
    <2>1. \A q \in Signs : AnswersOf(q)' = AnswersOf(q)
      BY <1>1 DEF AnswersOf, SignatureOf, Post
    <2> QED BY <2>1, SilentStep
  <1>2. CASE /\ tick.req = r /\ r \in Signs
             /\ posted' = posted \cup {TheResponse}
    <2> DEFINE a == Wording(r, tick.word)
    <2>1. Stands(r, a)
      BY <1>2, RequestsAssumption DEF AnswersStand, Stands, Signs, Req, LegsInv, LegTypes, Ticks
    <2> HIDE DEF a
    <2>2. \A q \in Signs : AnswersOf(q)' = IF q = r THEN AnswersOf(q) \cup {a} ELSE AnswersOf(q)
      <3>1. PICK p : p = TheResponse
        OBVIOUS
      <3>2. p.req = r /\ p.kind = "response" /\ p.answer = a
        BY <1>2, <3>1 DEF TheResponse, Post, a
      <3>3. \A q \in Signs : {o \in posted' : o.req = q /\ o.kind = "response"}
                             = {o \in posted : o.req = q /\ o.kind = "response"}
                               \cup (IF q = r THEN {p} ELSE {})
        BY <1>2, <3>1, <3>2
      <3> QED BY <3>2, <3>3 DEF AnswersOf
    <2> QED BY <1>2, <2>1, <2>2, AnswerStep
  <1> QED BY <1>1, <1>2 DEF PostsOnly

\* A new call has not landed.
LEMMA CallingAnswers ==
    ASSUME LegsInv, NEW r \in Substrate, NEW kind \in Kinds, NEW answer \in Answers,
           Calling(r, kind, answer), Enqueue(r, kind, answer)
    PROVE  [Promise!Next]_(Promise!vars)
  <1>1. posted' = posted /\ result' = result
    BY DEF Calling, Deliver, Responding, VisitResponds, VisitGivesUp, ResponseImpossible
  <1>2. /\ DOMAIN calls' = DOMAIN calls \cup {Len(calls) + 1}
        /\ calls'[Len(calls) + 1] = NewCall(r, kind, answer)
        /\ \A j \in DOMAIN calls : calls'[j] = calls[j]
    BY JoinedCallsKeep DEF LegsInv
  <1>3. calls'[Len(calls) + 1].landed = 0
    BY <1>2 DEF NewCall
  <1>4. \A q \in Signs : AnswersOf(q)' = AnswersOf(q)
    <2>1. \A q \in Signs : {i \in DOMAIN calls' : /\ calls'[i].req = q /\ calls'[i].kind = "response"
                                                  /\ calls'[i].landed > 0}
                           = {i \in DOMAIN calls : /\ calls[i].req = q /\ calls[i].kind = "response"
                                                   /\ calls[i].landed > 0}
      BY <1>2, <1>3, JoinedCallsKeep DEF LegsInv, QueueInv, QueueTypes
    <2> QED BY <1>1, <1>2, <2>1 DEF AnswersOf
  <1>5. \/ abandoned' = abandoned
        \/ r \in Signs /\ abandoned' = abandoned \cup {r}
    BY DEF Calling, Deliver, Responding, VisitResponds, VisitGivesUp, ResponseImpossible, GivesUpOn
  <1> QED BY <1>1, <1>4, <1>5, SilentStep, ExcuseStep

LEMMA QueueAnswers ==
    ASSUME LegsInv, AnswersStand, Queue
    PROVE  [Promise!Next]_(Promise!vars)
  <1>t. QueueInv /\ posted' = posted /\ result' = result /\ abandoned' = abandoned /\ QueueStep
    BY DEF LegsInv, Queue, legVars
  <1>1. PICK i \in DOMAIN calls, new \in Calls : CallBecomes(i, new)
    BY <1>t, QueueMovesOn
  <1>2. /\ DOMAIN calls' = DOMAIN calls
        /\ \A j \in DOMAIN calls : j # i => calls'[j] = calls[j]
        /\ Keeps(calls[i], calls'[i])
    BY <1>t, <1>1, MovedCallKeeps DEF CallsKept
  <1>3. calls[i].landed \in Nat /\ calls'[i].landed \in Nat
    BY <1>t, <1>1, MovedCallKeeps, LandedIsCounted DEF Calls
  <1> DEFINE lands == calls[i].kind = "response" /\ calls[i].landed = 0 /\ calls'[i].landed > 0
  <1>4. CASE ~lands
    <2>1. calls[i].kind = "response" => (calls'[i].landed > 0 <=> calls[i].landed > 0)
      BY <1>2, <1>3, <1>4 DEF Keeps
    <2>2. \A q \in Signs : {j \in DOMAIN calls' : /\ calls'[j].req = q /\ calls'[j].kind = "response"
                                                  /\ calls'[j].landed > 0}
                           = {j \in DOMAIN calls : /\ calls[j].req = q /\ calls[j].kind = "response"
                                                   /\ calls[j].landed > 0}
      BY <1>2, <2>1 DEF Keeps
    <2>3. \A j \in DOMAIN calls : calls'[j].answer = calls[j].answer
      BY <1>2 DEF Keeps
    <2>4. \A q \in Signs : AnswersOf(q)' = AnswersOf(q)
      BY <1>t, <2>2, <2>3 DEF AnswersOf
    <2> QED BY <1>t, <2>4, SilentStep
  <1>5. CASE lands
    <2> DEFINE r == calls[i].req
               a == calls[i].answer
    <2>1. Stands(r, a) /\ r \in Signs
      BY <1>5 DEF AnswersStand, Stands
    <2>2. \A q \in Signs : AnswersOf(q)' = IF q = r THEN AnswersOf(q) \cup {a} ELSE AnswersOf(q)
      <3>1. /\ calls'[i].req = r /\ calls'[i].kind = "response" /\ calls'[i].landed > 0
            /\ calls'[i].answer = a /\ ~(calls[i].landed > 0)
        BY <1>2, <1>3, <1>5, <2>1 DEF Keeps
      <3>2. \A q \in Signs : {j \in DOMAIN calls' : /\ calls'[j].req = q /\ calls'[j].kind = "response"
                                                    /\ calls'[j].landed > 0}
                             = {j \in DOMAIN calls : /\ calls[j].req = q /\ calls[j].kind = "response"
                                                     /\ calls[j].landed > 0}
                               \cup (IF q = r THEN {i} ELSE {})
        BY <1>2, <3>1
      <3>3. \A j \in DOMAIN calls : calls'[j].answer = calls[j].answer
        BY <1>2 DEF Keeps
      <3> HIDE DEF r, a
      <3> QED BY <1>t, <3>1, <3>2, <3>3 DEF AnswersOf
    <2> QED BY <1>t, <2>1, <2>2, AnswerStep
  <1> QED BY <1>4, <1>5

LEMMA PromiseStep ==
    ASSUME LegsInv, AnswersStand, [Next]_vars
    PROVE  [Promise!Next]_(Promise!vars)
  <1>1. CASE Queue
    BY <1>1, QueueAnswers
  <1>2. CASE \E r \in Signs : Decide(r)
    BY <1>2, DecideStep
  <1>3. CASE \E r \in Substrate, kind \in Kinds, answer \in Answers :
               Calling(r, kind, answer) /\ Enqueue(r, kind, answer)
    BY <1>3, CallingAnswers
  <1>4. CASE Tick /\ calls' = calls
    <2>1. result' = result
      BY <1>4, TickLeaves
    <2>2. CASE abandoned' = abandoned
      BY <1>4, <2>1, <2>2, PostingSteps, PostingAnswers
    <2>3. ASSUME NEW r \in Signs, abandoned' = abandoned \cup {r}, posted' = posted
          PROVE  Promise!Next
      <3>1. \A q \in Signs : AnswersOf(q)' = AnswersOf(q)
        BY <1>4, <2>3 DEF AnswersOf
      <3> QED BY <2>1, <2>3, <3>1, ExcuseStep
    <2>4. \/ abandoned' = abandoned
          \/ posted' = posted /\ \E r \in Signs : abandoned' = abandoned \cup {r}
      BY <1>4 DEF Tick, Responded, ResponseFails, ResponseImpossible, LastWordFails, VisitLeaves,
         VisitResponds, VisitGivesUp, GivesUpOn
    <2> QED BY <2>2, <2>3, <2>4
  <1>5. CASE (SolanaLeg \/ SubstrateLeg \/ UNCHANGED vars) /\ calls' = calls
    <2>1. SolanaLeg => result' = result /\ abandoned' = abandoned
      BY DEF SolanaLeg, TxStart, TxParsed, TxParseFails, EventHandled, EventFails
    <2>2. SubstrateLeg \/ UNCHANGED vars => result' = result /\ abandoned' = abandoned
      BY DEF SubstrateLeg, Deliver, DeliveryFails, HandlerResumes, HandlerTimesOut, vars, legVars
    <2> QED BY <1>5, <2>1, <2>2, PostingSteps, PostingAnswers
  <1> QED BY <1>1, <1>2, <1>3, <1>4, <1>5, QueueSteps DEF Next

------------------------------------------------------------------------------
(* The theorems.                                                              *)

\* The inductive invariant holds in every reachable state, for any requests,
\* schemas, results, instructions and bounds.
THEOREM Invariance == Spec => []LegsInv
  <1>1. Init => LegsInv
    BY InitLegsInv
  <1>2. LegsInv /\ [Next]_vars => LegsInv'
    BY LegsInductive
  <1> QED BY <1>1, <1>2, PTL DEF Spec

\* The queue of queueTransaction: an extrinsic is sent only when all calls made
\* before its own are settled.
THEOREM AlwaysSentInOrder == Spec => []SentInOrder
  <1>1. ASSUME LegsInv
        PROVE  SentInOrder
    <2>1. ASSUME NEW i \in DOMAIN calls, NEW j \in DOMAIN calls, i < j, calls[j].stage # "queued"
          PROVE  calls[i].stage \in Settled
      <3>1. DOMAIN calls = 1..Len(calls) /\ Len(calls) \in Nat /\ HadTurn(j)
        BY <1>1, <2>1 DEF LegsInv, QueueInv, QueueTypes, ChainedCalls
      <3>2. i \in 1..(j - 1)
        BY <2>1, <3>1
      <3> QED BY <3>1, <3>2 DEF HadTurn
    <2> QED BY <2>1 DEF SentInOrder
  <1> QED BY <1>1, Invariance, PTL

\* sendRespondBidirectional's retries and both senders' status callbacks: success
\* is reported for exactly one extrinsic in a block, and no call has two.
THEOREM AlwaysReportedOnce == Spec => []ReportedOnce
  <1>1. LegsInv => ReportedOnce
    BY DEF LegsInv, QueueInv, SoundCalls, Sound, ReportedOnce
  <1> QED BY <1>1, Invariance, PTL

\* What is posted, waits in the queue or is about to be sent is the answer to
\* what the request's transaction came to, or the error answer to a request the
\* server gave up on, and stays it.
THEOREM AnswersAlwaysStand == Spec => []AnswersStand
  <1>1. Init => AnswersStand
    BY DEF Init, QueueInit, AnswersStand, AtRest, SignatureOf, Post
  <1> QED BY <1>1, Invariance, AnswersInductive, PTL DEF Spec

\* Whatever leg a request came from and whatever the queue reported, the monitor
\* forgets it only when an answer to it is on the source chain, unless the server
\* gave up on it.
THEOREM AlwaysLeavesAnswered == Spec => LeavesAnswered
  <1>1. ASSUME LegsInv, AnswersStand, [Next]_vars, NEW r \in pending, r \notin pending'
        PROVE  AnswersOf(r)' # {} \/ r \in abandoned'
    <2>t. QueueInv /\ LegTypes /\ TickAwaits
      BY <1>1 DEF LegsInv
    <2>1. (Responded \/ LastWordFails \/ ResponseImpossible) /\ EntryGoes
      <3>1. ASSUME pending \subseteq pending'
            PROVE  FALSE
        BY <1>1, <3>1
      <3>2. Queue \/ ResponseFails \/ UNCHANGED vars => pending \subseteq pending'
        BY DEF Queue, ResponseFails, EntryStays, vars, legVars
      <3>3. (\E s \in Signs : Decide(s) \/ VisitLeaves(s) \/ VisitResponds(s) \/ VisitGivesUp(s))
              => pending \subseteq pending'
        BY DEF Decide, VisitLeaves, VisitResponds, VisitGivesUp
      <3>4. SolanaLeg => pending \subseteq pending'
        BY DEF SolanaLeg, TxStart, TxParsed, TxParseFails, EventHandled, EventFails
      <3>5. SubstrateLeg => pending \subseteq pending'
        BY DEF SubstrateLeg, Deliver, DeliveryFails, HandlerResumes, HandlerTimesOut
      <3>6. ResponseImpossible => pending \subseteq pending' \/ EntryGoes
        BY DEF ResponseImpossible
      <3>7. Responded \/ LastWordFails => EntryGoes
        BY DEF Responded, LastWordFails
      <3> QED BY <1>1, <3>1, <3>2, <3>3, <3>4, <3>5, <3>6, <3>7 DEF Next, Tick
    <2>2. r = tick.req
      BY <1>1, <2>1 DEF EntryGoes
    <2>3. CASE Responded /\ r \notin Substrate
      <3>1. TheResponse \in posted'
        BY <2>2, <2>3 DEF Responded, Appears
      <3>2. PICK p \in posted' : p = TheResponse
        BY <3>1
      <3>3. p.req = r /\ p.kind = "response"
        BY <2>2, <3>2 DEF TheResponse, Post
      <3>4. p.answer \in AnswersOf(r)'
        BY <3>2, <3>3 DEF AnswersOf
      <3> QED BY <3>4
    <2>4. CASE Responded /\ r \in Substrate
      <3>1. calls' = calls /\ calls[tick.call].stage = "resolved"
        BY <2>2, <2>4 DEF Responded, Settles, queueVars
      <3>2. /\ tick.call \in DOMAIN calls
            /\ calls[tick.call].req = r /\ calls[tick.call].kind = "response"
        BY <2>t, <2>2, <2>4 DEF TickAwaits
      <3>3. calls[tick.call].landed > 0
        BY <2>t, <3>1, <3>2 DEF QueueInv, SoundCalls, Sound
      <3>4. calls'[tick.call].answer \in AnswersOf(r)'
        BY <3>1, <3>2, <3>3 DEF AnswersOf
      <3> QED BY <3>4
    <2>5. CASE ResponseImpossible
      BY <2>2, <2>5 DEF ResponseImpossible, GivesUpOn
    <2>6. CASE LastWordFails
      <3>1. r # NoReq /\ tick.word = "lastWord" /\ abandoned' = abandoned
        BY <2>2, <2>6, RequestsAssumption DEF LastWordFails, Signs, Req
      <3> QED BY <1>1, <2>2, <3>1 DEF AnswersStand, Standing
    <2> QED BY <2>1, <2>3, <2>4, <2>5, <2>6
  <1>2. LegsInv /\ AnswersStand /\ [Next]_vars =>
          [\A r \in pending : r \notin pending' => AnswersOf(r)' # {} \/ r \in abandoned']_vars
    BY <1>1
  <1> QED BY <1>2, Invariance, AnswersAlwaysStand, PTL DEF Spec, LeavesAnswered

\* The bounds, stages and positions of every leg, for any instructions,
\* requests and bounds: no handler and no tick waits for a call never made.
THEOREM LegsTypeCorrect == Spec => []LegsTypeOK
  <1>1. Init => TxTypes /\ HandlerTypes
    BY QueueAssumption, RequestsAssumption, LegsAssumption DEF Init, QueueInit, TxTypes, TxStages, HandlerTypes,
       HandlerStages, AtRest
  <1>2. ASSUME LegsInv, TxTypes, HandlerTypes
        PROVE  LegsTypeOK
    <2>1. ASSUME NEW i \in DOMAIN calls
          PROVE  /\ calls[i].req \in Substrate /\ calls[i].kind \in Kinds /\ calls[i].stage \in Stages
                 /\ calls[i].tries \in 0..MaxRetries /\ calls[i].after < i
      <3>1. calls \in Seq(Calls) /\ DOMAIN calls = 1..Len(calls) /\ calls[i].after = i - 1
        BY <1>2 DEF LegsInv, QueueInv, QueueTypes, ChainedCalls
      <3>2. calls[i] \in Calls /\ i \in Nat
        BY <3>1, ElementOfSeq
      <3> QED BY <3>1, <3>2 DEF Calls
    <2>2. txQueue = Len(calls) /\ Len(calls) \in Nat
      BY <1>2 DEF LegsInv, QueueInv, QueueTypes
    <2>3. \A r \in Substrate : handler[r].stage \in HandlerStages /\ handler[r].call \in 0..Len(calls)
      BY <1>2, <2>2 DEF HandlerTypes
    <2>4. /\ tick.visited \subseteq Signs /\ tick.req \in Signs \cup {NoReq}
          /\ tick.word \in Words /\ tick.call \in 0..Len(calls)
          /\ pending \subseteq Signs /\ abandoned \subseteq Signs
      BY <1>2, <2>2 DEF HandlerTypes, LegsInv, LegTypes, Ticks
    <2>5. /\ tx.stage \in TxStages /\ tx.at \in Events \cup {0} /\ tx.runs \in 0..MaxRuns
          /\ faults \in 0..MaxFaults /\ (tx.stage = "handling" => tx.at \in Events)
      BY <1>2 DEF TxTypes
    <2> QED BY <2>1, <2>2, <2>3, <2>4, <2>5 DEF LegsTypeOK, TxStages, HandlerStages
  <1> QED BY <1>1, <1>2, Invariance, TxTypesInductive, HandlerTypesInductive, PTL DEF Spec

\* processTransaction and CpiEventParser 69: whatever failed and was run again,
\* no event of a transaction is passed over, however many it has.
THEOREM NeverSkipsAnEvent == Spec => []NoEventSkipped
  <1>1. Init => TxTypes /\ NoEventSkipped
    BY QueueAssumption, RequestsAssumption, LegsAssumption DEF Init, QueueInit, TxTypes, TxStages, NoEventSkipped
  <1> QED BY <1>1, Invariance, TxTypesInductive, EventsInductive, PTL DEF Spec

\* handleCompletedTransaction and handleFailedTransaction: every answer on a
\* source chain is the error answer of a failure or repeats, field by field,
\* what was returned, for any schema, output and interleaving of the legs, unless
\* it is the error answer to a request the server gave up on.
THEOREM AlwaysAnswersFaithful == Spec => []AnswersFaithful
  <1>1. ASSUME AnswersStand
        PROVE  AnswersFaithful
    <2>1. ASSUME NEW r \in Signs, NEW a \in AnswersOf(r)
          PROVE  \/ ReportsTrue(r, a) \/ IsLastWord(r, a)
                 \/ ~result[r].failed /\ (IsScalarBool(r) \/ NamedAsOwn(schema[r], result[r].out))
      <3>1. PICK word \in Words : Standing(r, word) /\ a = Wording(r, word)
        BY <1>1, <2>1, AnswerStands DEF Stands
      <3>2. CASE word = "lastWord"
        BY <3>1, <3>2 DEF Standing, Wording, ErrorAnswer, IsLastWord
      <3>3. CASE word # "lastWord"
        <4>1. AnswerTo(r).ok /\ a = AnswerTo(r)
          BY <3>1, <3>3 DEF Standing, Wording
        <4>2. CASE result[r].failed
          BY <4>1, <4>2 DEF AnswerTo, Answer, ErrorAnswer, ReportsTrue
        <4>3. CASE ~result[r].failed
          <5>1. AnswerTo(r) = Answer(Source(r), schema[r], FALSE, result[r].out)
            BY <4>3 DEF AnswerTo, Answer
          <5> QED BY <4>1, <4>3, <5>1, AnswerRepeats DEF ReportsTrue, IsScalarBool
        <4> QED BY <4>2, <4>3
      <3> QED BY <3>2, <3>3
    <2> QED BY <2>1 DEF AnswersFaithful
  <1> QED BY <1>1, AnswersAlwaysStand, PTL

\* The legs implement ResponsePromise: whatever chain a request came from, a
\* success is reported only of a transaction that succeeded, an error of one that
\* failed or of a request given up on before, and no answer is taken back.
THEOREM LegsImplementPromise == Spec => LegsKeepPromise
  <1>1. Init => Promise!Init
    BY RequestsAssumption DEF Init, QueueInit, Promise!Init, OutcomeOf, Undecided, AnswersOf, SignatureOf, Post
  <1> QED BY <1>1, PromiseStep, Invariance, AnswersAlwaysStand, PTL DEF Spec, LegsKeepPromise, Promise!Spec
==============================================================================
