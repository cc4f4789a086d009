------------------------- MODULE BitcoinSigningProofs -------------------------
(***************************************************************************)
(* Proofs about BitcoinSigning, for any requests, transactions, inputs and  *)
(* bounds: its type invariant and its safety invariants.                    *)
(***************************************************************************)
EXTENDS BitcoinSigning, SequenceTheorems, TLAPS

Active == {"loop", "sending"}

\* Only handlings and entries of the same transaction share a set.
SetsApart ==
    /\ \A t, u \in Tx :
          /\ entry[t] # Unregistered /\ entry[u] # Unregistered
          /\ entry[t].set = entry[u].set
          => t = u
    /\ \A r \in Req, t \in Tx :
          handler[r].pc \in Active /\ entry[t] # Unregistered
             /\ handler[r].set = entry[t].set
          => TxOf[r] = t
    /\ \A r, s \in Req :
          handler[r].pc \in Active /\ handler[s].pc \in Active
             /\ handler[r].set = handler[s].set
          => TxOf[r] = TxOf[s]

\* By the signatures sg, the inputs S of transaction t are signed.
Backed(sg, S, t) == \A i \in S : \E s \in Req : TxOf[s] = t /\ i \in sg[s]

\* What a set marks is signed.
MarkedIsSigned ==
    /\ \A t \in Tx : entry[t] # Unregistered => Backed(signed, sets[entry[t].set], t)
    /\ \A r \in Req : handler[r].pc \in Active =>
          Backed(signed, sets[handler[r].set], TxOf[r])

\* What a handling has behind it is signed.
BehindIsSigned ==
    \A r \in Req : handler[r].pc \in Active =>
       Backed(signed, Input \ (handler[r].todo \cup {handler[r].input}), TxOf[r])

\* A request's handling works with the registered set, and that set marks all
\* that was delivered...
Shares(r) ==
    /\ handler[r].pc \in Active =>
          entry[TxOf[r]] # Unregistered /\ handler[r].set = entry[TxOf[r]].set
    /\ acked[r] # {} =>
          entry[TxOf[r]] # Unregistered /\ acked[r] \subseteq sets[entry[TxOf[r]].set]

\* ...until the monitor has finished with its transaction.
SharedUntilForgotten == \A r \in Req : TxOf[r] \notin forgotten => Shares(r)

\* What the monitor has read and is about to post still holds.
VerdictHolds ==
    /\ mon.kind = "success" => chain[mon.tx] = "mined"
    /\ mon.kind = "error" => SeenSpent(mon.tx)

BitcoinInv ==
    /\ TypeOK
    /\ SetsApart /\ MarkedIsSigned /\ BehindIsSigned /\ AllInputsSigned
    /\ SharedUntilForgotten /\ NotSentAgain
    /\ VerdictHolds /\ SuccessIsTrue /\ ErrorMeansSpent
    /\ ForgottenIsAnswered
-----------------------------------------------------------------------------
(* Steps, by what they change. *)

\* Nothing of the server's tables, nor of what has been signed.
Quiet == UNCHANGED <<signed, server, acked, forgotten, dropped>>

\* The step of a handling other than its start.
Proceeds(r) == \/ SkipInput(r) \/ SendInput(r) \/ SendReturns(r) \/ SendFails(r)
               \/ HandlerDone(r)

\* The monitor is done with an entry.
Forgets == Posted \/ PostImpossible

\* Every step is of one of these kinds.
LEMMA Kinds ==
    ASSUME [Next]_vars
    PROVE  Quiet \/ (\E r \in Req : StartHandler(r) \/ Proceeds(r)) \/ Forgets
  <1>1. CASE Bitcoin
    BY <1>1 DEF Bitcoin, ParentsAppear, Broadcast, Rival, Mine, Quiet, server, history
  <1>2. CASE Handlers
    BY <1>2 DEF Handlers, Proceeds
  <1>3. CASE Monitor
    BY <1>3 DEF Monitor, Visit, GetTransaction, GetTransactionFails, CheckPrevouts, CheckFails,
                PostFails, AfterPostFails, Forgets, Quiet, world, server, history
  <1>4. CASE UNCHANGED vars
    BY <1>4 DEF vars, world, server, history, Quiet
  <1> QED BY <1>1, <1>2, <1>3, <1>4 DEF Next

\* What starting a handling does to entries, sets and handlings.
Started(r) ==
    /\ sets' \in Seq(SUBSET Input) /\ DOMAIN sets \subseteq DOMAIN sets'
    /\ \A j \in DOMAIN sets : sets'[j] = sets[j]
    /\ entry' \in [Tx -> [req : Req \cup {NoReq}, set : Nat]]
    /\ \A t \in Tx : entry[t] # Unregistered => entry'[t] = entry[t]
    /\ \A t \in Tx : t # TxOf[r] => entry'[t] = entry[t]
    /\ entry'[TxOf[r]] # Unregistered
    /\ entry[TxOf[r]] = Unregistered =>
          /\ entry'[TxOf[r]].req = r
          /\ entry'[TxOf[r]].set \in DOMAIN sets' \ DOMAIN sets
          /\ sets'[entry'[TxOf[r]].set] = {}
    /\ handler'[r] = [pc |-> "loop", set |-> entry'[TxOf[r]].set,
                      todo |-> Input, input |-> NoInput]
    /\ \A s \in Req : s # r => handler'[s] = handler[s]
    /\ DOMAIN handler' = Req
    /\ UNCHANGED <<chain, signed, answers, mon, acked, forgotten, dropped>>

LEMMA Starting ==
    ASSUME TypeOK, NEW r \in Req, StartHandler(r)
    PROVE  Started(r)
  <1> USE DEF TypeOK, ServerTypeOK
  <1>t. TxOf[r] \in Tx /\ r # NoReq
    BY BitcoinAssumption
  <1>h. /\ handler'[r] = [pc |-> "loop", set |-> entry'[TxOf[r]].set,
                          todo |-> Input, input |-> NoInput]
        /\ \A s \in Req : s # r => handler'[s] = handler[s]
        /\ DOMAIN handler' = Req
        /\ UNCHANGED <<chain, signed, answers, mon, acked, forgotten, dropped>>
    BY DEF StartHandler, world, history
  <1>1. CASE entry[TxOf[r]] # Unregistered
    <2>1. sets' = sets /\ entry' = entry
      BY <1>1 DEF StartHandler, Registered
    <2> QED BY <2>1, <1>1, <1>h DEF Started
  <1>2. CASE entry[TxOf[r]] = Unregistered
    <2>1. /\ sets' = Append(sets, {})
          /\ entry' = [entry EXCEPT ![TxOf[r]] = [req |-> r, set |-> Len(sets) + 1]]
      BY <1>2 DEF StartHandler, Registered
    <2>2. /\ sets' \in Seq(SUBSET Input)
          /\ Len(sets) \in Nat /\ DOMAIN sets = 1..Len(sets)
          /\ DOMAIN sets' = 1..(Len(sets) + 1)
          /\ \A j \in DOMAIN sets : sets'[j] = sets[j]
          /\ sets'[Len(sets) + 1] = {}
      BY <2>1, AppendProperties, LenProperties
    <2>3. /\ entry'[TxOf[r]] = [req |-> r, set |-> Len(sets) + 1]
          /\ \A t \in Tx : t # TxOf[r] => entry'[t] = entry[t]
          /\ entry' \in [Tx -> [req : Req \cup {NoReq}, set : Nat]]
      BY <2>1, <2>2, <1>t
    <2>4. entry'[TxOf[r]].req = r /\ entry'[TxOf[r]].set = Len(sets) + 1
      BY <2>3
    <2>5. entry'[TxOf[r]] # Unregistered
      BY <2>4, <1>t DEF Unregistered
    <2>6. /\ DOMAIN sets \subseteq DOMAIN sets'
          /\ Len(sets) + 1 \in DOMAIN sets' \ DOMAIN sets
      BY <2>2
    <2> QED BY <1>2, <1>h, <2>2, <2>3, <2>4, <2>5, <2>6 DEF Started
  <1> QED BY <1>1, <1>2

\* What a returning call does to the sets.
Marked(r) ==
    /\ handler[r].set \in DOMAIN sets /\ handler[r].input \in Input
    /\ sets' \in Seq(SUBSET Input) /\ DOMAIN sets' = DOMAIN sets
    /\ sets'[handler[r].set] = sets[handler[r].set] \cup {handler[r].input}
    /\ \A j \in DOMAIN sets : j # handler[r].set => sets'[j] = sets[j]

LEMMA Marking ==
    ASSUME TypeOK, NEW r \in Req, SendReturns(r)
    PROVE  Marked(r)
  <1> USE DEF TypeOK, ServerTypeOK
  <1>1. /\ handler[r].set \in DOMAIN sets /\ handler[r].input \in Input
        /\ sets' = [sets EXCEPT ![handler[r].set] =
                              sets[handler[r].set] \cup {handler[r].input}]
    BY DEF SendReturns, Mark
  <1>2. sets[handler[r].set] \in SUBSET Input
    BY <1>1, ElementOfSeq, LenProperties
  <1>3. sets' \in Seq(SUBSET Input)
    BY <1>1, <1>2, ExceptSeq
  <1> QED BY <1>1, <1>3 DEF Marked

\* What a handling's step does to the handlings, and what it leaves alone.
Proceeded(r) ==
    /\ handler[r].pc \in Active
    /\ handler'[r].pc \in Active => handler'[r].set = handler[r].set
    /\ \A s \in Req : s # r => handler'[s] = handler[s]
    /\ UNCHANGED <<entry, handlings, chain, mon, forgotten, dropped>>
    /\ SendReturns(r) \/ UNCHANGED <<sets, acked>>

LEMMA Proceeding ==
    ASSUME TypeOK, NEW r \in Req, Proceeds(r)
    PROVE  Proceeded(r)
  <1> USE DEF TypeOK, ServerTypeOK, Active, Proceeded
  <1>1. CASE SkipInput(r)
    BY <1>1 DEF SkipInput, world, history
  <1>2. CASE SendInput(r)
    BY <1>2 DEF SendInput, world, history
  <1>3. CASE SendReturns(r)
    BY <1>3 DEF SendReturns
  <1>4. CASE SendFails(r)
    BY <1>4 DEF SendFails, MarkFailed, Idle, history
  <1>5. CASE HandlerDone(r)
    BY <1>5 DEF HandlerDone, Idle, world, history
  <1> QED BY <1>1, <1>2, <1>3, <1>4, <1>5 DEF Proceeds
-----------------------------------------------------------------------------
(* Type correctness. *)

\* The chains are well typed after every step.
LEMMA WorldTypeStep == TypeOK /\ [Next]_vars => WorldTypeOK'
  <1> SUFFICES ASSUME TypeOK, [Next]_vars PROVE WorldTypeOK'
    OBVIOUS
  <1> USE DEF TypeOK, WorldTypeOK
  <1>1. CASE Bitcoin
    BY <1>1 DEF Bitcoin, ParentsAppear, Broadcast, Rival, Mine, history
  <1>2. ASSUME NEW r \in Req, StartHandler(r) PROVE WorldTypeOK'
    BY <1>2 DEF StartHandler, world, history
  <1>3. ASSUME NEW r \in Req, SkipInput(r) \/ SendInput(r) \/ HandlerDone(r)
        PROVE  WorldTypeOK'
    BY <1>3 DEF SkipInput, SendInput, HandlerDone, world, history
  <1>4. ASSUME NEW r \in Req, SendReturns(r) PROVE WorldTypeOK'
    BY <1>4, Marking DEF SendReturns, Marked
  <1>5. ASSUME NEW r \in Req, SendFails(r) PROVE WorldTypeOK'
    <2>1. handler[r].input \in Input
      BY <1>5 DEF SendFails, ServerTypeOK
    <2> QED BY <1>5, <2>1, BitcoinAssumption DEF SendFails, Fault, history
  <1>6. CASE (\E t \in Tx : Visit(t)) \/ GetTransaction \/ CheckPrevouts
    BY <1>6 DEF Visit, GetTransaction, CheckPrevouts, world, history, MonTypeOK
  <1>7. CASE GetTransactionFails \/ CheckFails
    BY <1>7, BitcoinAssumption DEF GetTransactionFails, CheckFails, Fault, history
  <1>8. CASE Posted \/ PostFails \/ PostImpossible
    <2>1. /\ mon.tx \in Tx /\ mon.kind \in {"success", "error"}
      BY <1>8 DEF MonTypeOK, Posted, PostFails, PostImpossible
    <2>2. CASE Posted
      BY <2>1, <2>2 DEF Posted
    <2>3. CASE PostFails
      BY <2>1, <2>3, BitcoinAssumption DEF PostFails, AfterPostFails, Fault
    <2>4. CASE PostImpossible
      BY <2>1, <2>4, BitcoinAssumption DEF PostImpossible, Fault
    <2> QED BY <1>8, <2>2, <2>3, <2>4
  <1>9. CASE UNCHANGED vars
    BY <1>9 DEF vars, world, history
  <1> QED BY <1>1, <1>2, <1>3, <1>4, <1>5, <1>6, <1>7, <1>8, <1>9
          DEF Next, Handlers, Monitor

\* Deleting an entry leaves the others.
Deleted ==
    /\ mon.tx \in Tx /\ mon.req \in Req /\ TxOf[mon.req] = mon.tx
    /\ entry' \in [Tx -> [req : Req \cup {NoReq}, set : Nat]]
    /\ entry'[mon.tx] = Unregistered
    /\ \A t \in Tx : t # mon.tx => entry'[t] = entry[t]
    /\ mon' = Resting /\ forgotten' = forgotten \cup {mon.tx}
    /\ UNCHANGED <<chain, signed, sets, handler, handlings, acked>>

LEMMA Deleting ==
    ASSUME TypeOK, Forgets
    PROVE  Deleted
  <1> USE DEF TypeOK, ServerTypeOK, MonTypeOK
  <1>1. /\ mon.pc = "posting" /\ Delete
        /\ mon' = Resting /\ forgotten' = forgotten \cup {mon.tx}
        /\ UNCHANGED <<chain, signed, sets, handler, handlings, acked>>
    BY DEF Forgets, Posted, PostImpossible
  <1>2. mon.tx \in Tx /\ mon.req \in Req /\ TxOf[mon.req] = mon.tx
    BY <1>1
  <1>3. Unregistered \in [req : Req \cup {NoReq}, set : Nat]
    BY DEF Unregistered
  <1> QED BY <1>1, <1>2, <1>3 DEF Delete, Deleted

\* The server's tables are well typed after every step.
LEMMA ServerTypeStep == TypeOK /\ [Next]_vars => ServerTypeOK'
  <1> SUFFICES ASSUME TypeOK, [Next]_vars PROVE ServerTypeOK'
    OBVIOUS
  <1>1. CASE Quiet
    BY <1>1 DEF Quiet, server, TypeOK, ServerTypeOK
  <1>2. ASSUME NEW r \in Req, StartHandler(r) PROVE ServerTypeOK'
    <2>s. Started(r)
      BY <1>2, Starting
    <2>a. TxOf[r] \in Tx /\ r # NoReq
      BY BitcoinAssumption
    <2>1. \A t \in Tx : entry'[t] # Unregistered =>
             /\ entry'[t].req \in Req /\ TxOf[entry'[t].req] = t
             /\ entry'[t].set \in DOMAIN sets'
      BY <2>s, <2>a DEF Started, TypeOK, ServerTypeOK
    <2>2. handlings' \in [Req -> 0..MaxHandlings]
      BY <1>2, BitcoinAssumption DEF StartHandler, TypeOK, ServerTypeOK
    <2>3. entry'[TxOf[r]].set \in Nat /\ entry'[TxOf[r]].set \in DOMAIN sets'
      BY <2>s, <2>a, <2>1 DEF Started
    <2>4. handler' \in [Req -> Handlings]
      <3>1. [pc |-> "loop", set |-> entry'[TxOf[r]].set, todo |-> Input, input |-> NoInput]
               \in Handlings
        BY <2>3 DEF Handlings
      <3> QED BY <1>2, <3>1 DEF StartHandler, TypeOK, ServerTypeOK
    <2>5. \A s \in Req :
             /\ handler'[s].pc \in {"loop", "sending"} => handler'[s].set \in DOMAIN sets'
             /\ IF handler'[s].pc = "sending"
                THEN handler'[s].input \in Input \ handler'[s].todo
                ELSE handler'[s].input = NoInput
      <3> TAKE s \in Req
      <3>1. CASE s = r
        <4>1. handler'[s].pc = "loop" /\ handler'[s].input = NoInput
              /\ handler'[s].set = entry'[TxOf[r]].set
          BY <2>s, <3>1 DEF Started
        <4> QED BY <2>3, <4>1
      <3>2. CASE s # r
        <4>1. handler'[s] = handler[s] /\ DOMAIN sets \subseteq DOMAIN sets'
          BY <2>s, <3>2 DEF Started
        <4> QED BY <4>1 DEF TypeOK, ServerTypeOK
      <3> QED BY <3>1, <3>2
    <2> QED BY <2>s, <2>1, <2>2, <2>4, <2>5 DEF Started, ServerTypeOK
  <1>3. ASSUME NEW r \in Req, Proceeds(r) PROVE ServerTypeOK'
    <2>p. Proceeded(r)
      BY <1>3, Proceeding
    <2>a. sets' \in Seq(SUBSET Input) /\ DOMAIN sets' = DOMAIN sets
      BY <2>p, Marking DEF Proceeded, Marked, TypeOK, ServerTypeOK
    <2>b. UNCHANGED <<entry, handlings>>
      BY <2>p DEF Proceeded
    <2>c. /\ handler[r] \in Handlings
          /\ handler[r].pc \in Active => handler[r].set \in DOMAIN sets
          /\ handler[r].pc = "sending" => handler[r].input \in Input \ handler[r].todo
          /\ handler[r].pc # "sending" => handler[r].input = NoInput
      BY DEF TypeOK, ServerTypeOK, Active
    <2>d. /\ handler'[r] \in Handlings /\ handler' = [handler EXCEPT ![r] = handler'[r]]
          /\ handler'[r].pc = "sending" => handler'[r].input \in Input \ handler'[r].todo
          /\ handler'[r].pc # "sending" => handler'[r].input = NoInput
      <3>1. CASE SkipInput(r)
        BY <3>1, <2>c DEF SkipInput, Handlings, TypeOK, ServerTypeOK
      <3>2. CASE SendInput(r)
        <4>1. PICK i \in handler[r].todo :
                 handler' = [handler EXCEPT ![r] =
                    [handler[r] EXCEPT !.pc = "sending", !.input = i,
                                       !.todo = handler[r].todo \ {i}]]
          BY <3>2 DEF SendInput, Remaining
        <4>2. i \in Input
          BY <2>c DEF Handlings
        <4>3. DOMAIN handler = Req
          BY DEF TypeOK, ServerTypeOK
        <4>4. handler'[r] = [handler[r] EXCEPT !.pc = "sending", !.input = i,
                                               !.todo = handler[r].todo \ {i}]
          BY <4>1, <4>3
        <4> QED BY <2>c, <4>1, <4>2, <4>3, <4>4 DEF Handlings
      <3>3. CASE SendReturns(r)
        BY <3>3, <2>c DEF SendReturns, Handlings, TypeOK, ServerTypeOK
      <3>4. CASE SendFails(r)
        BY <3>4 DEF SendFails, Idle, Handlings, TypeOK, ServerTypeOK
      <3>5. CASE HandlerDone(r)
        BY <3>5 DEF HandlerDone, Idle, Handlings, TypeOK, ServerTypeOK
      <3> QED BY <1>3, <3>1, <3>2, <3>3, <3>4, <3>5 DEF Proceeds
    <2>e. handler' \in [Req -> Handlings]
      BY <2>d DEF TypeOK, ServerTypeOK
    <2>f. \A s \in Req :
             /\ handler'[s].pc \in {"loop", "sending"} => handler'[s].set \in DOMAIN sets'
             /\ IF handler'[s].pc = "sending"
                THEN handler'[s].input \in Input \ handler'[s].todo
                ELSE handler'[s].input = NoInput
      <3>1. handler'[r].pc \in {"loop", "sending"} => handler'[r].set \in DOMAIN sets'
        BY <2>p, <2>a, <2>c DEF Proceeded, Active
      <3> QED BY <2>p, <2>a, <2>d, <3>1 DEF Proceeded, TypeOK, ServerTypeOK
    <2> QED BY <2>a, <2>b, <2>e, <2>f DEF TypeOK, ServerTypeOK
  <1>4. CASE Forgets
    BY <1>4, Deleting DEF Deleted, TypeOK, ServerTypeOK
  <1> QED BY <1>1, <1>2, <1>3, <1>4, Kinds

\* The monitor works on a registered entry, after every step.
LEMMA MonTypeStep == TypeOK /\ [Next]_vars => MonTypeOK'
  <1> SUFFICES ASSUME TypeOK, [Next]_vars PROVE MonTypeOK'
    OBVIOUS
  <1> USE DEF TypeOK, MonTypeOK
  <1>1. CASE Bitcoin \/ UNCHANGED vars
    BY <1>1 DEF Bitcoin, ParentsAppear, Broadcast, Rival, Mine, vars, server
  <1>2. ASSUME NEW r \in Req, StartHandler(r) PROVE MonTypeOK'
    <2>1. mon' = mon /\ \A t \in Tx : entry[t] # Unregistered => entry'[t] = entry[t]
      BY <1>2, Starting DEF Started
    <2> QED BY <2>1
  <1>3. ASSUME NEW r \in Req, Proceeds(r) PROVE MonTypeOK'
    <2>1. UNCHANGED <<mon, entry>>
      BY <1>3, Proceeding DEF Proceeded
    <2> QED BY <2>1
  <1>4. ASSUME NEW t \in Tx, Visit(t) PROVE MonTypeOK'
    <2>1. entry[t].req \in Req
      BY <1>4 DEF Visit, ServerTypeOK
    <2> QED BY <1>4, <2>1 DEF Visit, server
  <1>5. Resting \in [pc : {"idle", "reading", "checking", "posting"}, tx : Tx \cup {NoTx},
                     req : Req \cup {NoReq}, kind : {"none", "success", "error"}]
    BY DEF Resting
  <1>6. CASE GetTransaction \/ GetTransactionFails
    BY <1>5, <1>6 DEF GetTransaction, GetTransactionFails, Resting, server
  <1>7. CASE CheckPrevouts \/ CheckFails
    BY <1>5, <1>7 DEF CheckPrevouts, CheckFails, OnCheckError, Resting, server
  <1>8. CASE Posted \/ PostFails \/ PostImpossible
    <2>1. mon' = Resting
      BY <1>8 DEF Posted, PostFails, PostImpossible
    <2> QED BY <1>5, <2>1 DEF Resting
  <1> QED BY <1>1, <1>2, <1>3, <1>4, <1>6, <1>7, <1>8
          DEF Next, Handlers, Monitor, Proceeds

\* Every step keeps every variable's type.
LEMMA NextTypeOK == TypeOK /\ [Next]_vars => TypeOK'
  BY WorldTypeStep, ServerTypeStep, MonTypeStep DEF TypeOK

\* The initial state is well typed.
LEMMA InitTypeOK == Init => TypeOK
  <1> SUFFICES ASSUME Init PROVE TypeOK
    OBVIOUS
  <1> USE BitcoinAssumption DEF Init
  <1>1. WorldTypeOK
    BY DEF WorldTypeOK
  <1>2. ServerTypeOK
    BY DEF ServerTypeOK, Handlings, Unregistered, Idle
  <1>3. MonTypeOK
    BY DEF MonTypeOK, Resting
  <1> QED BY <1>1, <1>2, <1>3 DEF TypeOK

\* Every variable keeps its type: sets that handlings and entries refer to exist,
\* an input is sent once it is taken from those to do, and the monitor works on a
\* registered entry.
THEOREM TypeCorrect == Spec => []TypeOK
  BY InitTypeOK, NextTypeOK, PTL DEF Spec
-----------------------------------------------------------------------------
(* The sets and the signatures. *)

\* A registered entry refers to a set that exists.
LEMMA EntryTyped ==
    ASSUME TypeOK, NEW t \in Tx, entry[t] # Unregistered
    PROVE  entry[t].set \in DOMAIN sets
  BY DEF TypeOK, ServerTypeOK

\* A handling in progress refers to one.
LEMMA ActiveTyped ==
    ASSUME TypeOK, NEW r \in Req, handler[r].pc \in Active
    PROVE  handler[r].set \in DOMAIN sets
  BY DEF TypeOK, ServerTypeOK, Active

\* No entry and no handling comes to refer to another set.
Narrows ==
    /\ \A t \in Tx : entry'[t] # Unregistered => entry'[t] = entry[t]
    /\ \A r \in Req : handler'[r].pc \in Active =>
          handler[r].pc \in Active /\ handler'[r].set = handler[r].set

\* Only the start of a handling makes new references.
LEMMA Narrowing ==
    ASSUME TypeOK, [Next]_vars
    PROVE  \/ Narrows /\ (UNCHANGED sets \/ \E r \in Req : SendReturns(r))
           \/ \E r \in Req : StartHandler(r)
  <1>1. CASE Quiet
    BY <1>1 DEF Quiet, server, Narrows
  <1>2. ASSUME NEW r \in Req, Proceeds(r)
        PROVE  Narrows /\ (UNCHANGED sets \/ SendReturns(r))
    <2>1. Proceeded(r)
      BY <1>2, Proceeding
    <2> QED BY <2>1 DEF Proceeded, Narrows
  <1>3. CASE Forgets
    BY <1>3, Deleting DEF Deleted, Narrows
  <1> QED BY <1>1, <1>2, <1>3, Kinds

\* Sets stay apart.
LEMMA SetsApartStep == TypeOK /\ SetsApart /\ [Next]_vars => SetsApart'
  <1> SUFFICES ASSUME TypeOK, SetsApart, [Next]_vars PROVE SetsApart'
    OBVIOUS
  <1>1. CASE Narrows
    BY <1>1 DEF Narrows, SetsApart
  <1>2. ASSUME NEW r \in Req, StartHandler(r) PROVE SetsApart'
    <2>s. Started(r) /\ TxOf[r] \in Tx
      BY <1>2, Starting, BitcoinAssumption
    <2> DEFINE t0 == TxOf[r]
    <2>r. handler'[r].set = entry'[t0].set /\ handler'[r].pc = "loop"
      BY <2>s DEF Started
    <2>h. \A s \in Req : s # r => handler'[s] = handler[s]
      BY <2>s DEF Started
    <2>1. CASE entry[t0] # Unregistered
      <3>1. \A t \in Tx : entry'[t] = entry[t]
        BY <2>1, <2>s DEF Started
      <3> QED BY <3>1, <2>1, <2>s, <2>r, <2>h DEF SetsApart
    <2>2. CASE entry[t0] = Unregistered
      <3>1. /\ entry'[t0].set \notin DOMAIN sets
            /\ \A t \in Tx : t # t0 => entry'[t] = entry[t]
        BY <2>2, <2>s DEF Started
      <3>2. \A t \in Tx : t # t0 /\ entry'[t] # Unregistered => entry'[t].set # entry'[t0].set
        BY <3>1, EntryTyped
      <3>3. \A s \in Req : s # r /\ handler'[s].pc \in Active => handler'[s].set # entry'[t0].set
        BY <3>1, <2>h, ActiveTyped
      <3>4. \A t, u \in Tx :
               /\ entry'[t] # Unregistered /\ entry'[u] # Unregistered
               /\ entry'[t].set = entry'[u].set
               => t = u
        BY <3>1, <3>2, <2>s DEF SetsApart
      <3>5. \A s \in Req, t \in Tx :
               handler'[s].pc \in Active /\ entry'[t] # Unregistered
                  /\ handler'[s].set = entry'[t].set
               => TxOf[s] = t
        BY <3>1, <3>2, <3>3, <2>r, <2>h, <2>s DEF SetsApart
      <3>6. \A s, u \in Req :
               handler'[s].pc \in Active /\ handler'[u].pc \in Active
                  /\ handler'[s].set = handler'[u].set
               => TxOf[s] = TxOf[u]
        BY <3>3, <2>r, <2>h DEF SetsApart
      <3> QED BY <3>4, <3>5, <3>6 DEF SetsApart
    <2> QED BY <2>1, <2>2
  <1> QED BY <1>1, <1>2, Narrowing

\* Signatures stay.
LEMMA SignedStays ==
    ASSUME TypeOK, [Next]_vars
    PROVE  \A s \in Req : signed[s] \subseteq signed'[s]
  <1> USE DEF TypeOK, WorldTypeOK
  <1>1. CASE Quiet
    BY <1>1 DEF Quiet
  <1>2. ASSUME NEW r \in Req, StartHandler(r) PROVE signed' = signed
    BY <1>2 DEF StartHandler, world
  <1>3. ASSUME NEW r \in Req, Proceeds(r)
        PROVE  \A s \in Req : signed[s] \subseteq signed'[s]
    BY <1>3 DEF Proceeds, SkipInput, SendInput, SendReturns, SendFails, HandlerDone, world
  <1>4. CASE Forgets
    BY <1>4 DEF Forgets, Posted, PostImpossible
  <1> QED BY <1>1, <1>2, <1>3, <1>4, Kinds

\* What is backed stays backed.
LEMMA BackedStays ==
    ASSUME TypeOK, [Next]_vars, NEW S, NEW t, Backed(signed, S, t)
    PROVE  Backed(signed', S, t)
  BY SignedStays DEF Backed

\* What returns is backed from then on.
LEMMA ReturnIsBacked ==
    ASSUME TypeOK, NEW r \in Req, SendReturns(r)
    PROVE  Backed(signed', {handler[r].input}, TxOf[r])
  BY DEF TypeOK, WorldTypeOK, SendReturns, Backed

\* A mark is set only for a signature that was delivered, and stays with its
\* transaction.
LEMMA MarkedIsSignedStep ==
    TypeOK /\ SetsApart /\ MarkedIsSigned /\ [Next]_vars => MarkedIsSigned'
  <1> SUFFICES ASSUME TypeOK, SetsApart, MarkedIsSigned, [Next]_vars PROVE MarkedIsSigned'
    OBVIOUS
  <1>e. \A t \in Tx : entry[t] # Unregistered => Backed(signed', sets[entry[t].set], t)
    BY BackedStays DEF MarkedIsSigned
  <1>h. \A r \in Req : handler[r].pc \in Active =>
           Backed(signed', sets[handler[r].set], TxOf[r])
    BY BackedStays DEF MarkedIsSigned
  <1>1. CASE Narrows /\ UNCHANGED sets
    BY <1>1, <1>e, <1>h DEF Narrows, MarkedIsSigned
  <1>2. ASSUME Narrows, NEW r \in Req, SendReturns(r) PROVE MarkedIsSigned'
    <2> DEFINE j == handler[r].set
    <2>m. /\ sets'[j] = sets[j] \cup {handler[r].input}
          /\ \A k \in DOMAIN sets : k # j => sets'[k] = sets[k]
          /\ handler[r].pc \in Active
      BY <1>2, Marking DEF Marked, SendReturns, Active
    <2>b. Backed(signed', sets'[j], TxOf[r])
      BY <1>2, <1>h, <2>m, ReturnIsBacked DEF Backed
    <2>1. ASSUME NEW t \in Tx, entry'[t] # Unregistered
          PROVE  Backed(signed', sets'[entry'[t].set], t)
      <3>1. entry'[t] = entry[t] /\ entry[t].set \in DOMAIN sets
        BY <1>2, <2>1, EntryTyped DEF Narrows
      <3>2. CASE entry[t].set = j
        <4>1. TxOf[r] = t
          BY <2>1, <2>m, <3>1, <3>2 DEF SetsApart
        <4> QED BY <2>b, <3>1, <3>2, <4>1
      <3>3. CASE entry[t].set # j
        BY <1>e, <2>1, <2>m, <3>1, <3>3
      <3> QED BY <3>2, <3>3
    <2>2. ASSUME NEW s \in Req, handler'[s].pc \in Active
          PROVE  Backed(signed', sets'[handler'[s].set], TxOf[s])
      <3>1. /\ handler[s].pc \in Active /\ handler'[s].set = handler[s].set
            /\ handler[s].set \in DOMAIN sets
        BY <1>2, <2>2, ActiveTyped DEF Narrows
      <3>2. CASE handler[s].set = j
        <4>1. TxOf[r] = TxOf[s]
          BY <2>m, <3>1, <3>2 DEF SetsApart
        <4> QED BY <2>b, <3>1, <3>2, <4>1
      <3>3. CASE handler[s].set # j
        BY <1>h, <2>m, <3>1, <3>3
      <3> QED BY <3>2, <3>3
    <2> QED BY <2>1, <2>2 DEF MarkedIsSigned
  <1>3. ASSUME NEW r \in Req, StartHandler(r) PROVE MarkedIsSigned'
    <2>s. Started(r) /\ TxOf[r] \in Tx
      BY <1>3, Starting, BitcoinAssumption
    <2>k. \A k \in DOMAIN sets : sets'[k] = sets[k]
      BY <2>s DEF Started
    <2>1. ASSUME NEW t \in Tx, entry'[t] # Unregistered
          PROVE  Backed(signed', sets'[entry'[t].set], t)
      <3>1. CASE entry[t] # Unregistered
        <4>1. entry'[t] = entry[t] /\ entry[t].set \in DOMAIN sets
          BY <2>s, <3>1, EntryTyped DEF Started
        <4> QED BY <1>e, <2>k, <3>1, <4>1
      <3>2. CASE entry[t] = Unregistered
        <4>1. t = TxOf[r]
          BY <2>s, <2>1, <3>2 DEF Started
        <4>2. sets'[entry'[t].set] = {}
          BY <2>s, <3>2, <4>1 DEF Started
        <4> QED BY <4>2 DEF Backed
      <3> QED BY <3>1, <3>2
    <2>2. ASSUME NEW s \in Req, handler'[s].pc \in Active
          PROVE  Backed(signed', sets'[handler'[s].set], TxOf[s])
      <3>1. CASE s = r
        <4>1. handler'[s].set = entry'[TxOf[r]].set /\ entry'[TxOf[r]] # Unregistered
          BY <2>s, <3>1 DEF Started
        <4> QED BY <2>s, <2>1, <3>1, <4>1
      <3>2. CASE s # r
        <4>1. handler'[s] = handler[s] /\ handler[s].pc \in Active
          BY <2>s, <2>2, <3>2 DEF Started
        <4>2. handler[s].set \in DOMAIN sets
          BY <4>1, ActiveTyped
        <4> QED BY <1>h, <2>k, <4>1, <4>2
      <3> QED BY <3>1, <3>2
    <2> QED BY <2>1, <2>2 DEF MarkedIsSigned
  <1> QED BY <1>1, <1>2, <1>3, Narrowing

\* A handling leaves an input behind only when it is marked or has been sent.
LEMMA BehindIsSignedStep ==
    TypeOK /\ MarkedIsSigned /\ BehindIsSigned /\ [Next]_vars => BehindIsSigned'
  <1> SUFFICES ASSUME TypeOK, MarkedIsSigned, BehindIsSigned, [Next]_vars,
                      NEW s \in Req, handler'[s].pc \in Active
               PROVE  Backed(signed', Input \ (handler'[s].todo \cup {handler'[s].input}),
                             TxOf[s])
    BY DEF BehindIsSigned
  <1> DEFINE Behind == Input \ (handler[s].todo \cup {handler[s].input})
  <1>b. handler[s].pc \in Active => /\ Backed(signed', Behind, TxOf[s])
                                   /\ Backed(signed', sets[handler[s].set], TxOf[s])
    BY BackedStays DEF BehindIsSigned, MarkedIsSigned
  <1>i. handler[s].pc = "loop" => handler[s].input = NoInput
    BY DEF TypeOK, ServerTypeOK
  <1>r. handler[s].todo \subseteq Input /\ DOMAIN handler = Req
    BY DEF TypeOK, ServerTypeOK, Handlings
  <1>1. CASE handler'[s] = handler[s]
    BY <1>1, <1>b
  <1>2. CASE StartHandler(s)
    <2>s. Started(s)
      BY <1>2, Starting
    <2>1. handler'[s].todo = Input
      BY <2>s DEF Started
    <2> QED BY <2>1 DEF Backed
  <1>3. CASE SkipInput(s)
    <2>1. PICK i \in handler[s].todo \cap sets[handler[s].set] :
             handler' = [handler EXCEPT ![s] =
                            [handler[s] EXCEPT !.todo = handler[s].todo \ {i}]]
      BY <1>3 DEF SkipInput, Submitted
    <2>2. handler'[s].todo = handler[s].todo \ {i} /\ handler'[s].input = handler[s].input
      BY <1>r, <2>1 DEF TypeOK, ServerTypeOK, Handlings
    <2>3. handler[s].pc \in Active
      BY <1>3 DEF SkipInput, Active
    <2> QED BY <1>b, <2>1, <2>2, <2>3 DEF Backed
  <1>4. CASE SendInput(s)
    <2>1. PICK i \in handler[s].todo :
             handler' = [handler EXCEPT ![s] =
                [handler[s] EXCEPT !.pc = "sending", !.input = i,
                                   !.todo = handler[s].todo \ {i}]]
      BY <1>4 DEF SendInput, Remaining
    <2>2. handler'[s].todo = handler[s].todo \ {i} /\ handler'[s].input = i
      BY <1>r, <2>1 DEF TypeOK, ServerTypeOK, Handlings
    <2>3. handler[s].pc = "loop"
      BY <1>4 DEF SendInput
    <2> QED BY <1>b, <1>i, <2>1, <2>2, <2>3, BitcoinAssumption DEF Backed, Active
  <1>5. CASE SendReturns(s)
    <2>1. handler'[s].todo = handler[s].todo /\ handler'[s].input = NoInput
      BY <1>5, <1>r DEF SendReturns, TypeOK, ServerTypeOK, Handlings
    <2>2. handler[s].pc \in Active
      BY <1>5 DEF SendReturns, Active
    <2> QED BY <1>5, <1>b, <2>1, <2>2, ReturnIsBacked DEF Backed
  <1>6. CASE SendFails(s) \/ HandlerDone(s)
    <2>1. handler'[s].pc \in {"failed", "done"}
      BY <1>6, <1>r DEF SendFails, HandlerDone, Idle
    <2> QED BY <2>1 DEF Active
  <1>7. ASSUME NEW r \in Req, r # s, StartHandler(r) \/ Proceeds(r)
        PROVE  handler'[s] = handler[s]
    BY <1>7, Starting, Proceeding DEF Started, Proceeded
  <1>8. CASE Quiet \/ Forgets
    BY <1>8, <1>1, Deleting DEF Quiet, server, Deleted
  <1> QED BY <1>1, <1>2, <1>3, <1>4, <1>5, <1>6, <1>7, <1>8, Kinds DEF Proceeds

\* A handling is done when nothing is left to do.
LEMMA AllInputsSignedStep ==
    TypeOK /\ BehindIsSigned /\ AllInputsSigned /\ [Next]_vars => AllInputsSigned'
  <1> SUFFICES ASSUME TypeOK, BehindIsSigned, AllInputsSigned, [Next]_vars,
                      NEW s \in Req, handler'[s].pc = "done"
               PROVE  Backed(signed', Input, TxOf[s])
    BY DEF AllInputsSigned, Backed
  <1>1. CASE handler'[s] = handler[s]
    <2>1. Backed(signed, Input, TxOf[s])
      BY <1>1 DEF AllInputsSigned, Backed
    <2> QED BY <2>1, BackedStays
  <1>2. CASE HandlerDone(s)
    <2>1. /\ handler[s].todo = {} /\ handler[s].input = NoInput /\ handler[s].pc \in Active
      BY <1>2 DEF HandlerDone, Active, TypeOK, ServerTypeOK
    <2>2. Backed(signed, Input, TxOf[s])
      BY <2>1, BitcoinAssumption DEF BehindIsSigned, Backed
    <2> QED BY <2>2, BackedStays
  <1>3. CASE StartHandler(s) \/ SkipInput(s) \/ SendInput(s) \/ SendReturns(s) \/ SendFails(s)
    <2>1. handler'[s].pc # "done"
      <3>1. handler \in [Req -> Handlings]
        BY DEF TypeOK, ServerTypeOK
      <3>2. CASE StartHandler(s)
        <4>1. Started(s)
          BY <3>2, Starting
        <4> QED BY <4>1 DEF Started
      <3>3. CASE SkipInput(s)
        BY <3>1, <3>3 DEF SkipInput, Handlings
      <3>4. CASE SendInput(s)
        BY <3>1, <3>4 DEF SendInput, Handlings
      <3>5. CASE SendReturns(s) \/ SendFails(s)
        BY <3>1, <3>5 DEF SendReturns, SendFails, Handlings, Idle
      <3> QED BY <1>3, <3>2, <3>3, <3>4, <3>5
    <2> QED BY <2>1
  <1>4. ASSUME NEW r \in Req, r # s, StartHandler(r) \/ Proceeds(r)
        PROVE  handler'[s] = handler[s]
    BY <1>4, Starting, Proceeding DEF Started, Proceeded
  <1>5. CASE Quiet \/ Forgets
    BY <1>5, <1>1, Deleting DEF Quiet, server, Deleted
  <1> QED BY <1>1, <1>2, <1>3, <1>4, <1>5, Kinds DEF Proceeds
\* Until the monitor has finished with a transaction, all that was delivered for
\* it is marked in the set that its handlings share.
LEMMA SharedStep ==
    TypeOK /\ SharedUntilForgotten /\ [Next]_vars => SharedUntilForgotten'
  <1> SUFFICES ASSUME TypeOK, SharedUntilForgotten, [Next]_vars,
                      NEW s \in Req, TxOf[s] \notin forgotten'
               PROVE  Shares(s)'
    BY DEF SharedUntilForgotten
  <1> DEFINE t == TxOf[s]
  <1>t. t \in Tx
    BY BitcoinAssumption
  <1>s. t \notin forgotten => Shares(s)
    BY DEF SharedUntilForgotten
  <1>1. CASE Quiet
    BY <1>1, <1>s DEF Quiet, server, Shares
  <1>2. ASSUME NEW r \in Req, StartHandler(r) PROVE Shares(s)'
    <2>s. Started(r)
      BY <1>2, Starting
    <2>1. t \notin forgotten /\ acked' = acked /\ Shares(s)
      BY <2>s, <1>s DEF Started
    <2>2. entry[t] # Unregistered => /\ entry'[t] = entry[t]
                                     /\ sets'[entry[t].set] = sets[entry[t].set]
      BY <1>t, <2>s, EntryTyped DEF Started
    <2>3. handler'[s].pc \in Active =>
             entry'[t] # Unregistered /\ handler'[s].set = entry'[t].set
      <3>1. CASE s = r
        BY <2>s, <3>1 DEF Started
      <3>2. CASE s # r
        <4>1. handler'[s] = handler[s]
          BY <2>s, <3>2 DEF Started
        <4> QED BY <2>1, <2>2, <4>1 DEF Shares
      <3> QED BY <3>1, <3>2
    <2>4. acked'[s] # {} => entry'[t] # Unregistered /\ acked'[s] \subseteq sets'[entry'[t].set]
      BY <2>1, <2>2 DEF Shares
    <2> QED BY <2>3, <2>4 DEF Shares
  <1>3. ASSUME NEW r \in Req, Proceeds(r) PROVE Shares(s)'
    <2>p. Proceeded(r)
      BY <1>3, Proceeding
    <2>1. t \notin forgotten /\ entry' = entry /\ Shares(s)
      BY <2>p, <1>s DEF Proceeded
    <2>2. handler'[s].pc \in Active =>
             handler[s].pc \in Active /\ handler'[s].set = handler[s].set
      BY <2>p DEF Proceeded
    <2>3. CASE UNCHANGED <<sets, acked>>
      BY <2>1, <2>2, <2>3 DEF Shares
    <2>4. CASE SendReturns(r)
      <3>m. /\ sets'[handler[r].set] = sets[handler[r].set] \cup {handler[r].input}
            /\ \A j \in DOMAIN sets : j # handler[r].set => sets'[j] = sets[j]
            /\ handler[r].set \in DOMAIN sets
        BY <2>4, Marking DEF Marked
      <3>1. \A j \in DOMAIN sets : sets[j] \subseteq sets'[j]
        BY <3>m
      <3>2. acked'[s] # {} => entry[t] # Unregistered /\ acked'[s] \subseteq sets'[entry[t].set]
        <4>1. CASE s = r
          <5>1. handler[s].pc \in Active
            BY <2>4, <4>1 DEF SendReturns, Active
          <5>2. entry[t] # Unregistered /\ handler[s].set = entry[t].set
            BY <2>1, <5>1 DEF Shares
          <5>3. acked'[s] = acked[s] \cup {handler[s].input}
            BY <2>4, <4>1 DEF SendReturns, TypeOK, WorldTypeOK
          <5>4. acked[s] \subseteq sets[entry[t].set]
            BY <2>1 DEF Shares
          <5> QED BY <3>m, <4>1, <5>2, <5>3, <5>4
        <4>2. CASE s # r
          <5>1. acked'[s] = acked[s]
            BY <2>4, <4>2 DEF SendReturns, TypeOK, WorldTypeOK
          <5> QED BY <1>t, <2>1, <3>1, <5>1, EntryTyped DEF Shares
        <4> QED BY <4>1, <4>2
      <3> QED BY <2>1, <2>2, <3>2 DEF Shares
    <2> QED BY <2>p, <2>3, <2>4 DEF Proceeded
  <1>4. CASE Forgets
    <2>1. /\ t # mon.tx /\ t \notin forgotten
          /\ entry'[t] = entry[t] /\ UNCHANGED <<sets, handler, acked>>
      BY <1>4, <1>t, Deleting DEF Deleted
    <2> QED BY <1>s, <2>1 DEF Shares
  <1> QED BY <1>1, <1>2, <1>3, <1>4, Kinds

\* What is sent is not marked, so it has not been delivered, unless the set is
\* another one since the monitor finished.
LEMMA NotSentAgainStep ==
    TypeOK /\ SharedUntilForgotten /\ NotSentAgain /\ [Next]_vars => NotSentAgain'
  <1> SUFFICES ASSUME TypeOK, SharedUntilForgotten, NotSentAgain, [Next]_vars,
                      NEW s \in Req,
                      handler'[s].pc = "sending", handler'[s].input \in acked'[s]
               PROVE  TxOf[s] \in forgotten'
    BY DEF NotSentAgain
  <1>f. forgotten \subseteq forgotten'
    <2>1. CASE Quiet \/ Forgets
      BY <2>1, Deleting DEF Quiet, Deleted
    <2>2. ASSUME NEW r \in Req, StartHandler(r) PROVE forgotten' = forgotten
      BY <2>2 DEF StartHandler, history
    <2>3. ASSUME NEW r \in Req, Proceeds(r) PROVE forgotten' = forgotten
      <3>1. Proceeded(r)
        BY <2>3, Proceeding
      <3> QED BY <3>1 DEF Proceeded
    <2> QED BY <2>1, <2>2, <2>3, Kinds
  <1>1. CASE handler'[s] = handler[s] /\ acked'[s] = acked[s]
    BY <1>1, <1>f DEF NotSentAgain
  <1>2. CASE SendInput(s)
    <2>1. PICK i \in handler[s].todo \ sets[handler[s].set] :
             handler' = [handler EXCEPT ![s] =
                [handler[s] EXCEPT !.pc = "sending", !.input = i,
                                   !.todo = handler[s].todo \ {i}]]
      BY <1>2 DEF SendInput, Submitted, Remaining
    <2>2. handler'[s].input = i
      BY <2>1 DEF TypeOK, ServerTypeOK, Handlings
    <2>3. i \in acked[s] /\ handler[s].pc \in Active
      BY <1>2, <2>2 DEF SendInput, history, Active
    <2>4. TxOf[s] \notin forgotten => acked[s] \subseteq sets[handler[s].set]
      BY <2>3 DEF SharedUntilForgotten, Shares
    <2> QED BY <1>f, <2>1, <2>3, <2>4
  <1>3. CASE StartHandler(s) \/ SkipInput(s) \/ SendReturns(s) \/ SendFails(s) \/ HandlerDone(s)
    <2>1. handler'[s].pc # "sending"
      <3>1. handler \in [Req -> Handlings]
        BY DEF TypeOK, ServerTypeOK
      <3>2. CASE StartHandler(s)
        <4>1. Started(s)
          BY <3>2, Starting
        <4> QED BY <4>1 DEF Started
      <3>3. CASE SkipInput(s)
        BY <3>1, <3>3 DEF SkipInput, Handlings
      <3>4. CASE SendReturns(s)
        BY <3>1, <3>4 DEF SendReturns, Handlings
      <3>5. CASE SendFails(s) \/ HandlerDone(s)
        BY <3>1, <3>5 DEF SendFails, HandlerDone, Handlings, Idle
      <3> QED BY <1>3, <3>2, <3>3, <3>4, <3>5
    <2> QED BY <2>1
  <1>4. ASSUME NEW r \in Req, r # s, StartHandler(r)
        PROVE  handler'[s] = handler[s] /\ acked'[s] = acked[s]
    <2>1. Started(r)
      BY <1>4, Starting
    <2> QED BY <1>4, <2>1 DEF Started
  <1>5. ASSUME NEW r \in Req, r # s, Proceeds(r)
        PROVE  handler'[s] = handler[s] /\ acked'[s] = acked[s]
    <2>1. Proceeded(r)
      BY <1>5, Proceeding
    <2>2. CASE SendReturns(r)
      BY <1>5, <2>1, <2>2 DEF Proceeded, SendReturns, TypeOK, WorldTypeOK
    <2> QED BY <1>5, <2>1, <2>2 DEF Proceeded
  <1>6. CASE Quiet \/ Forgets
    BY <1>6, <1>1, Deleting DEF Quiet, server, Deleted
  <1> QED BY <1>1, <1>2, <1>3, <1>4, <1>5, <1>6, Kinds DEF Proceeds
-----------------------------------------------------------------------------
(* The monitor's verdicts. *)

\* A mined transaction stays mined, and prevouts that were seen spent stay so.
ChainLasts ==
    \A t \in Tx : /\ chain[t] = "mined" => chain'[t] = "mined"
                  /\ SeenSpent(t) => SeenSpent(t)'

\* Bitcoin goes on that way.
LEMMA ChainLasting == TypeOK /\ [Next]_vars => ChainLasts
  <1> SUFFICES ASSUME TypeOK, [Next]_vars PROVE ChainLasts
    OBVIOUS
  <1>1. CASE Bitcoin
    BY <1>1 DEF Bitcoin, ParentsAppear, Broadcast, Rival, Mine, ChainLasts, SeenSpent, history,
                TypeOK, WorldTypeOK
  <1>2. CASE UNCHANGED <<chain, network>> /\ unseen \subseteq unseen'
    BY <1>2 DEF ChainLasts, SeenSpent
  <1>3. ASSUME NEW r \in Req, StartHandler(r) \/ Proceeds(r)
        PROVE  UNCHANGED <<chain, network, unseen>>
    BY <1>3 DEF StartHandler, Proceeds, SkipInput, SendInput, SendReturns, SendFails,
                HandlerDone, world, history
  <1>4. CASE Monitor
    BY <1>4, <1>2 DEF Monitor, Visit, GetTransaction, GetTransactionFails, CheckPrevouts,
                      CheckFails, Posted, PostFails, PostImpossible, world, history
  <1>5. CASE UNCHANGED vars
    BY <1>5, <1>2 DEF vars, world, history
  <1> QED BY <1>1, <1>2, <1>3, <1>4, <1>5 DEF Next, Handlers, Proceeds

\* What the monitor concludes holds when it reads it, and after.
LEMMA VerdictStep == TypeOK /\ VerdictHolds /\ [Next]_vars => VerdictHolds'
  <1> SUFFICES ASSUME TypeOK, VerdictHolds, [Next]_vars PROVE VerdictHolds'
    OBVIOUS
  <1>c. ChainLasts
    BY ChainLasting
  <1>1. CASE UNCHANGED mon
    <2>1. mon.kind # "none" => mon.tx \in Tx
      BY DEF TypeOK, MonTypeOK
    <2> QED BY <1>1, <1>c, <2>1 DEF VerdictHolds, ChainLasts
  <1>2. CASE mon'.kind = "none"
    BY <1>2 DEF VerdictHolds
  <1>3. CASE GetTransaction \/ CheckPrevouts
    <2>1. mon.kind = "none" /\ mon.tx \in Tx /\ chain' = chain
      BY <1>3 DEF GetTransaction, CheckPrevouts, world, TypeOK, MonTypeOK
    <2>2. CASE GetTransaction
      <3>1. CASE chain[mon.tx] = "mined"
        <4>1. mon' = [mon EXCEPT !.pc = "posting", !.kind = "success"]
          BY <2>2, <3>1 DEF GetTransaction, Confirmed
        <4>2. mon'.kind = "success" /\ mon'.tx = mon.tx
          BY <4>1 DEF TypeOK, MonTypeOK
        <4> QED BY <2>1, <3>1, <4>2 DEF VerdictHolds
      <3>2. CASE chain[mon.tx] # "mined"
        <4>1. mon'.kind = mon.kind
          BY <2>2, <3>2 DEF GetTransaction, Confirmed, TypeOK, MonTypeOK
        <4> QED BY <1>2, <2>1, <4>1
      <3> QED BY <3>1, <3>2
    <2>3. CASE CheckPrevouts
      <3>1. CASE Spent(mon.tx)
        <4>1. mon' = [mon EXCEPT !.pc = "posting", !.kind = "error"]
          BY <2>3, <3>1 DEF CheckPrevouts
        <4>2. mon'.kind = "error" /\ mon'.tx = mon.tx
          BY <4>1 DEF TypeOK, MonTypeOK
        <4>3. SeenSpent(mon.tx)'
          BY <2>1, <2>3, <3>1, <4>2 DEF CheckPrevouts, Spent, SeenSpent, world
        <4> QED BY <4>2, <4>3 DEF VerdictHolds
      <3>2. CASE ~Spent(mon.tx)
        <4>1. mon'.kind = "none"
          BY <2>3, <3>2 DEF CheckPrevouts, Resting
        <4> QED BY <1>2, <4>1
      <3> QED BY <3>1, <3>2
    <2> QED BY <1>3, <2>2, <2>3
  <1>4. ASSUME NEW t \in Tx, Visit(t) PROVE mon'.kind = "none"
    BY <1>4 DEF Visit
  <1>5. CASE GetTransactionFails \/ CheckFails \/ Posted \/ PostFails \/ PostImpossible
    <2>1. mon'.kind = "none"
      BY <1>5 DEF GetTransactionFails, CheckFails, OnCheckError, Posted, PostFails,
                  PostImpossible, Resting, TypeOK, MonTypeOK
    <2> QED BY <1>2, <2>1
  <1>6. CASE Bitcoin \/ UNCHANGED vars
    BY <1>1, <1>6 DEF Bitcoin, ParentsAppear, Broadcast, Rival, Mine, vars
  <1>7. ASSUME NEW r \in Req, StartHandler(r) \/ Proceeds(r) PROVE UNCHANGED mon
    BY <1>7 DEF StartHandler, Proceeds, SkipInput, SendInput, SendReturns, SendFails,
                HandlerDone
  <1> QED BY <1>1, <1>2, <1>3, <1>4, <1>5, <1>6, <1>7 DEF Next, Handlers, Monitor, Proceeds

\* The answers that a step adds.
Answers(r, kind) == kind \in answers'[r] \ answers[r]

\* An answer comes from the monitor, about its transaction.
LEMMA Answering ==
    ASSUME TypeOK, [Next]_vars, NEW r \in Req, NEW kind, Answers(r, kind)
    PROVE  /\ mon.pc = "posting" /\ TxOf[r] = mon.tx /\ mon.tx \in Tx
           /\ kind = mon.kind \/ (mon.kind = "success" /\ kind = "error")
  <1>1. CASE Bitcoin \/ UNCHANGED vars
    BY <1>1 DEF Answers, Bitcoin, ParentsAppear, Broadcast, Rival, Mine, vars, world
  <1>2. ASSUME NEW s \in Req, StartHandler(s) \/ Proceeds(s) PROVE UNCHANGED answers
    BY <1>2 DEF StartHandler, Proceeds, SkipInput, SendInput, SendReturns, SendFails,
                HandlerDone, world
  <1>3. CASE (\E t \in Tx : Visit(t)) \/ GetTransaction \/ GetTransactionFails
                \/ CheckPrevouts \/ CheckFails
    BY <1>3 DEF Answers, Visit, GetTransaction, GetTransactionFails, CheckPrevouts, CheckFails,
                world
  <1>4. CASE Posted \/ PostFails \/ PostImpossible
    <2>1. /\ mon.pc = "posting" /\ mon.tx \in Tx /\ mon.req \in Req
          /\ TxOf[mon.req] = mon.tx
      BY <1>4 DEF Posted, PostFails, PostImpossible, TypeOK, MonTypeOK, ServerTypeOK
    <2>2. r = mon.req /\ (kind = mon.kind \/ (mon.kind = "success" /\ kind = "error"))
      BY <1>4, <2>1 DEF Posted, PostFails, PostImpossible, Answers, TypeOK, WorldTypeOK
    <2> QED BY <2>1, <2>2
  <1> QED BY <1>1, <1>2, <1>3, <1>4 DEF Answers, Next, Handlers, Monitor, Proceeds

\* Answers match what the monitor has found, and that lasts.
LEMMA TruthStep ==
    TypeOK /\ VerdictHolds /\ SuccessIsTrue /\ ErrorMeansSpent /\ [Next]_vars
       => SuccessIsTrue' /\ ErrorMeansSpent'
  <1> SUFFICES ASSUME TypeOK, VerdictHolds, SuccessIsTrue, ErrorMeansSpent, [Next]_vars,
                      NEW r \in Req
               PROVE  /\ "success" \in answers'[r] => chain'[TxOf[r]] = "mined"
                      /\ "error" \in answers'[r] => SeenSpent(TxOf[r])'
    BY DEF SuccessIsTrue, ErrorMeansSpent
  <1>c. ChainLasts /\ TxOf[r] \in Tx
    BY ChainLasting, BitcoinAssumption
  <1>1. "success" \in answers'[r] => chain'[TxOf[r]] = "mined"
    <2>1. CASE "success" \in answers[r]
      BY <2>1, <1>c DEF SuccessIsTrue, ChainLasts
    <2>2. CASE Answers(r, "success")
      <3>1. mon.kind = "success" /\ TxOf[r] = mon.tx
        BY <2>2, Answering
      <3> QED BY <1>c, <3>1 DEF VerdictHolds, ChainLasts
    <2> QED BY <2>1, <2>2 DEF Answers
  <1>2. "error" \in answers'[r] => SeenSpent(TxOf[r])'
    <2>1. CASE "error" \in answers[r]
      BY <2>1, <1>c DEF ErrorMeansSpent, ChainLasts
    <2>2. CASE Answers(r, "error")
      <3>1. mon.kind \in {"success", "error"} /\ TxOf[r] = mon.tx
        BY <2>2, Answering
      <3>2. SeenSpent(TxOf[r])
        BY <3>1 DEF VerdictHolds, SeenSpent
      <3> QED BY <1>c, <3>2 DEF ChainLasts
    <2> QED BY <2>1, <2>2 DEF Answers
  <1> QED BY <1>1, <1>2

\* Answers stay.
LEMMA AnswersStay ==
    ASSUME TypeOK, [Next]_vars
    PROVE  \A r \in Req : answers[r] \subseteq answers'[r]
  <1> USE DEF TypeOK, WorldTypeOK
  <1>1. CASE Bitcoin \/ UNCHANGED vars
    BY <1>1 DEF Bitcoin, ParentsAppear, Broadcast, Rival, Mine, vars, world
  <1>2. ASSUME NEW s \in Req, StartHandler(s) \/ Proceeds(s) PROVE UNCHANGED answers
    BY <1>2 DEF StartHandler, Proceeds, SkipInput, SendInput, SendReturns, SendFails,
                HandlerDone, world
  <1>3. CASE Monitor
    BY <1>3 DEF Monitor, Visit, GetTransaction, GetTransactionFails, CheckPrevouts,
                CheckFails, Posted, PostFails, PostImpossible, world
  <1> QED BY <1>1, <1>2, <1>3 DEF Next, Handlers, Proceeds

\* An entry goes with an answer, or is counted as dropped.
LEMMA ForgottenIsAnsweredStep ==
    TypeOK /\ ForgottenIsAnswered /\ [Next]_vars => ForgottenIsAnswered'
  <1> SUFFICES ASSUME TypeOK, ForgottenIsAnswered, [Next]_vars,
                      NEW t \in Tx, t \in forgotten' \ dropped'
               PROVE  \E r \in Req : TxOf[r] = t /\ answers'[r] # {}
    BY NextTypeOK DEF ForgottenIsAnswered, TypeOK, WorldTypeOK
  <1>1. CASE t \in forgotten \ dropped
    BY <1>1, AnswersStay DEF ForgottenIsAnswered
  <1>2. CASE Quiet
    BY <1>1, <1>2 DEF Quiet
  <1>3. ASSUME NEW r \in Req, StartHandler(r) PROVE UNCHANGED <<forgotten, dropped>>
    BY <1>3 DEF StartHandler, history
  <1>4. ASSUME NEW r \in Req, Proceeds(r) PROVE UNCHANGED <<forgotten, dropped>>
    <2>1. Proceeded(r)
      BY <1>4, Proceeding
    <2> QED BY <2>1 DEF Proceeded
  <1>5. CASE Forgets
    <2>1. Deleted
      BY <1>5, Deleting
    <2>2. CASE t \in forgotten
      <3>1. dropped \subseteq dropped'
        BY <1>5 DEF Forgets, Posted, PostImpossible
      <3> QED BY <1>1, <2>2, <3>1
    <2>3. CASE t = mon.tx
      <3>1. mon.tx \notin dropped' => answers'[mon.req] # {}
        <4>a. mon.req \in Req /\ DOMAIN answers = Req
          BY <2>1 DEF Deleted, TypeOK, WorldTypeOK
        <4>1. CASE \E kind : answers' = [answers EXCEPT ![mon.req] =
                                           answers[mon.req] \cup {kind}]
          BY <4>a, <4>1
        <4>2. CASE dropped' = dropped \cup {mon.tx}
          BY <4>2
        <4> QED BY <1>5, <4>1, <4>2 DEF Forgets, Posted, PostImpossible
      <3> QED BY <2>1, <2>3, <3>1 DEF Deleted
    <2> QED BY <2>1, <2>2, <2>3 DEF Deleted
  <1> QED BY <1>1, <1>2, <1>3, <1>4, <1>5, Kinds
-----------------------------------------------------------------------------
(* The theorems. *)

\* A fresh server satisfies the invariant.
LEMMA InitBitcoinInv == Init => BitcoinInv
  <1> SUFFICES ASSUME Init PROVE BitcoinInv
    OBVIOUS
  <1>1. TypeOK
    BY InitTypeOK
  <1>2. /\ \A t \in Tx : entry[t] = Unregistered
        /\ \A r \in Req : /\ handler[r].pc = "idle" /\ answers[r] = {} /\ acked[r] = {}
                          /\ TxOf[r] \in Tx
        /\ mon.kind = "none" /\ forgotten = {}
    BY BitcoinAssumption DEF Init, Idle, Resting
  <1> QED BY <1>1, <1>2 DEF BitcoinInv, SetsApart, MarkedIsSigned, BehindIsSigned,
             AllInputsSigned, SharedUntilForgotten, Shares, NotSentAgain, VerdictHolds,
             SuccessIsTrue, ErrorMeansSpent, ForgottenIsAnswered, Active

\* Every step preserves it.
LEMMA NextBitcoinInv == BitcoinInv /\ [Next]_vars => BitcoinInv'
  BY NextTypeOK, SetsApartStep, MarkedIsSignedStep, BehindIsSignedStep, AllInputsSignedStep,
     SharedStep, NotSentAgainStep, VerdictStep, TruthStep, ForgottenIsAnsweredStep
  DEF BitcoinInv

\* The inductive invariant of the Bitcoin leg, from which its safety follows.
THEOREM Invariance == Spec => []BitcoinInv
  BY InitBitcoinInv, NextBitcoinInv, PTL DEF Spec

\* A success is reported only of a mined transaction.
THEOREM SuccessAlwaysTrue == Spec => []SuccessIsTrue
  BY Invariance, PTL DEF BitcoinInv

\* A failure is reported only when the prevouts are spent, or were unknown to
\* Bitcoin Core as the monitor asked, whatever fails.
THEOREM ErrorAlwaysMeansSpent == Spec => []ErrorMeansSpent
  BY Invariance, PTL DEF BitcoinInv

\* Retries never repeat a delivered signature while the transaction is followed.
THEOREM NeverSentAgain == Spec => []NotSentAgain
  BY Invariance, PTL DEF BitcoinInv

\* A handling that completes leaves every input of its transaction signed.
THEOREM AlwaysAllInputsSigned == Spec => []AllInputsSigned
  BY Invariance, PTL DEF BitcoinInv

\* A transaction is forgotten only with an answer, or when posting is impossible.
THEOREM ForgottenAlwaysAnswered == Spec => []ForgottenIsAnswered
  BY Invariance, PTL DEF BitcoinInv
=============================================================================
