------------------------ MODULE SignatureIntakeProofs ------------------------
(***************************************************************************)
(* Proofs about SignatureIntake, for any number of signatures and cycles,   *)
(* any limits and any bounds: its type invariant and its safety invariants. *)
(* A step that ends a handler and goes on in its loop is taken apart: the   *)
(* handler ends, then the loop takes the next signature or trims the set.   *)
(***************************************************************************)
EXTENDS SignatureIntake, SequenceTheorems, TLAPS

-----------------------------------------------------------------------------
(* The processed set as a sequence. *)

NoRepeats(p) == \A i, j \in DOMAIN p : p[i] = p[j] => i = j

\* A set of signatures in some order of insertion.
IsJsSet(p) == p \in Seq(Sig) /\ NoRepeats(p)

LEMMA Remembering ==
    ASSUME NEW p, IsJsSet(p), NEW s \in Sig
    PROVE  IsJsSet(Remember(p, s)) /\ Range(Remember(p, s)) = Range(p) \cup {s}
  <1>1. CASE s \in Range(p)
    BY <1>1 DEF Remember
  <1>2. CASE s \notin Range(p)
    <2> DEFINE q == Append(p, s)
    <2>1. /\ q \in Seq(Sig) /\ DOMAIN q = 1..(Len(p) + 1) /\ DOMAIN p = 1..Len(p)
          /\ \A i \in DOMAIN p : q[i] = p[i]
          /\ q[Len(p) + 1] = s /\ Len(p) \in Nat
      BY DEF IsJsSet
    <2>2. \A i \in DOMAIN q : i = Len(p) + 1 \/ i \in DOMAIN p
      BY <2>1
    <2>3. \A i \in DOMAIN p : p[i] # s
      BY <1>2 DEF Range
    <2> HIDE DEF q
    <2>4. NoRepeats(q)
      BY <2>1, <2>2, <2>3 DEF NoRepeats, IsJsSet
    <2>5. Range(q) = Range(p) \cup {s}
      BY <2>1, <2>2 DEF Range
    <2> QED BY <1>2, <2>1, <2>4, <2>5 DEF Remember, IsJsSet, q
  <1> QED BY <1>1, <1>2

LEMMA Forgetting ==
    ASSUME NEW p, IsJsSet(p), NEW s \in Sig
    PROVE  IsJsSet(Forget(p, s)) /\ Range(Forget(p, s)) = Range(p) \ {s}
  <1>1. CASE s \notin Range(p)
    BY <1>1 DEF Forget
  <1>2. CASE s \in Range(p)
    <2>1. PICK k \in DOMAIN p : /\ k = CHOOSE j \in DOMAIN p : p[j] = s
                                /\ p[k] = s
      BY <1>2 DEF Range
    <2> DEFINE q == SubSeq(p, 1, k - 1) \o SubSeq(p, k + 1, Len(p))
    <2>2. Forget(p, s) = q
      BY <1>2, <2>1 DEF Forget
    <2>3. DOMAIN p = 1..Len(p) /\ Len(p) \in Nat /\ k \in 1..Len(p) /\ p \in Seq(Sig)
      BY <2>1 DEF IsJsSet
    <2> DEFINE u == SubSeq(p, 1, k - 1)
               v == SubSeq(p, k + 1, Len(p))
    <2>e. \A i \in 1..Len(p) : p[i] \in Sig
      BY <2>3, ElementOfSeq
    <2>4. /\ u \in Seq(Sig) /\ Len(u) = k - 1
          /\ \A i \in 1..(k - 1) : u[i] = p[i]
      <3>1. \A i \in 1..(k - 1) : p[i] \in Sig
        BY <2>3, <2>e
      <3>2. /\ u \in Seq(Sig) /\ Len(u) = IF 1 <= k - 1 THEN (k - 1) - 1 + 1 ELSE 0
            /\ \A i \in 1..((k - 1) - 1 + 1) : u[i] = p[1 + i - 1]
        <4>1. \A i \in 1..(k - 1) : p[i] \in Sig /\ k - 1 \in Int
          BY <2>3, <3>1
        <4>2. k - 1 \in Int
          BY <2>3
        <4> QED BY <4>1, <4>2, SubSeqProperties
      <3> HIDE DEF u
      <3> QED BY <2>3, <3>2
    <2>v. /\ v \in Seq(Sig) /\ Len(v) = Len(p) - k
          /\ \A i \in 1..(Len(p) - k) : v[i] = p[k + i]
      <3>1. \A i \in (k + 1)..Len(p) : p[i] \in Sig
        BY <2>3, <2>e
      <3>2. /\ v \in Seq(Sig)
            /\ Len(v) = IF k + 1 <= Len(p) THEN Len(p) - (k + 1) + 1 ELSE 0
            /\ \A i \in 1..(Len(p) - (k + 1) + 1) : v[i] = p[(k + 1) + i - 1]
        BY <2>3, <3>1, SubSeqProperties
      <3> HIDE DEF v
      <3>3. ASSUME NEW i \in 1..(Len(p) - k)
            PROVE  v[i] = p[k + i]
        <4>1. i \in 1..(Len(p) - (k + 1) + 1) /\ (k + 1) + i - 1 = k + i
          BY <2>3
        <4> QED BY <3>2, <4>1
      <3>4. Len(v) = Len(p) - k
        <4>1. CASE k + 1 <= Len(p)
          BY <2>3, <3>2, <4>1
        <4>2. CASE k = Len(p)
          BY <2>3, <3>2, <4>2
        <4> QED BY <2>3, <4>1, <4>2
      <3> QED BY <3>2, <3>3, <3>4
    <2>c. q = u \o v
      OBVIOUS
    <2> HIDE DEF q, u, v
    <2>5. /\ q \in Seq(Sig) /\ DOMAIN q = 1..(Len(p) - 1)
          /\ \A i \in 1..(Len(p) - 1) : q[i] = IF i < k THEN p[i] ELSE p[i + 1]
      <3>1. /\ q \in Seq(Sig) /\ Len(q) = Len(u) + Len(v)
            /\ \A i \in 1..(Len(u) + Len(v)) :
                 q[i] = IF i <= Len(u) THEN u[i] ELSE v[i - Len(u)]
        BY <2>4, <2>v, <2>c, ConcatProperties
      <3>2. DOMAIN q = 1..Len(q)
        BY <3>1
      <3>3. ASSUME NEW i \in 1..(Len(p) - 1)
            PROVE  q[i] = IF i < k THEN p[i] ELSE p[i + 1]
        <4>1. CASE i < k
          BY <2>3, <2>4, <2>v, <3>1, <4>1
        <4>2. CASE i >= k
          <5>1. i - Len(u) \in 1..(Len(p) - k) /\ q[i] = v[i - Len(u)]
            BY <2>3, <2>4, <2>v, <3>1, <4>2
          <5>2. k + (i - Len(u)) = i + 1
            BY <2>3, <2>4
          <5> QED BY <2>3, <2>v, <4>2, <5>1, <5>2
        <4> QED BY <2>3, <4>1, <4>2
      <3> QED BY <2>3, <2>4, <2>v, <3>1, <3>2, <3>3
    <2>6. NoRepeats(q)
      <3>1. ASSUME NEW i \in DOMAIN q, NEW j \in DOMAIN q, q[i] = q[j]
            PROVE  i = j
        <4> DEFINE at(n) == IF n < k THEN n ELSE n + 1
        <4>1. at(i) \in DOMAIN p /\ at(j) \in DOMAIN p /\ p[at(i)] = p[at(j)]
          BY <2>3, <2>5, <3>1
        <4>2. at(i) = at(j)
          BY <4>1 DEF NoRepeats, IsJsSet
        <4> QED BY <2>3, <2>5, <4>2
      <3> QED BY <3>1 DEF NoRepeats
    <2>7. \A i \in DOMAIN p \ {k} : p[i] # s
      BY <2>1 DEF NoRepeats, IsJsSet
    <2>8. Range(q) \subseteq Range(p) \ {s}
      <3>1. \A i \in DOMAIN q : q[i] \in Range(p) /\ q[i] # s
        BY <2>3, <2>5, <2>7 DEF Range
      <3> QED BY <3>1 DEF Range
    <2>9. Range(p) \ {s} \subseteq Range(q)
      <3>1. ASSUME NEW i \in DOMAIN p, i # k
            PROVE  p[i] \in Range(q)
        <4>1. CASE i < k
          <5>1. i \in DOMAIN q /\ q[i] = p[i]
            BY <2>3, <2>5, <4>1
          <5> QED BY <5>1 DEF Range
        <4>2. CASE i > k
          <5>1. i - 1 \in DOMAIN q /\ q[i - 1] = p[i]
            BY <2>3, <2>5, <4>2
          <5> QED BY <5>1 DEF Range
        <4> QED BY <2>3, <3>1, <4>1, <4>2
      <3> QED BY <2>1, <3>1 DEF Range
    <2> QED BY <2>2, <2>5, <2>6, <2>8, <2>9 DEF IsJsSet
  <1> QED BY <1>1, <1>2

LEMMA Trimming ==
    ASSUME NEW p, IsJsSet(p)
    PROVE  /\ IsJsSet(Trimmed(p)) /\ TrimmedOut(p) \subseteq Range(p)
           /\ Range(Trimmed(p)) = Range(p) \ TrimmedOut(p)
  <1> DEFINE x == Excess(p)
             q == SubSeq(p, x + 1, Len(p))
  <1>n. Len(p) \in Nat /\ x \in Nat /\ x <= Len(p)
    BY IntakeAssumption DEF IsJsSet, Excess
  <1>1. DOMAIN p = 1..Len(p) /\ p \in Seq(Sig) /\ x \in Nat /\ x <= Len(p) /\ Len(p) \in Nat
    BY <1>n DEF IsJsSet
  <1> HIDE DEF x
  <1>2. /\ q \in Seq(Sig) /\ DOMAIN q = 1..(Len(p) - x)
        /\ \A i \in 1..(Len(p) - x) : q[i] = p[i + x]
    <2>1. \A i \in (x + 1)..Len(p) : p[i] \in Sig
      BY <1>1, ElementOfSeq
    <2>2. /\ q \in Seq(Sig)
          /\ Len(q) = IF x + 1 <= Len(p) THEN Len(p) - (x + 1) + 1 ELSE 0
          /\ \A i \in 1..(Len(p) - (x + 1) + 1) : q[i] = p[(x + 1) + i - 1]
      BY <1>1, <2>1, SubSeqProperties
    <2> HIDE DEF q
    <2>3. DOMAIN q = 1..Len(q)
      BY <2>2
    <2>4. ASSUME NEW i \in 1..(Len(p) - x)
          PROVE  q[i] = p[i + x]
      <3>1. i \in 1..(Len(p) - (x + 1) + 1) /\ (x + 1) + i - 1 = i + x
        BY <1>1
      <3> QED BY <2>2, <3>1
    <2>5. Len(q) = Len(p) - x
      <3>1. CASE x + 1 <= Len(p)
        BY <1>n, <2>2, <3>1
      <3>2. CASE x >= Len(p)
        <4>1. Len(p) - x = 0 /\ ~(x + 1 <= Len(p))
          BY <1>n, <3>2
        <4> QED BY <2>2, <4>1
      <3> QED BY <1>n, <3>1, <3>2
    <2> QED BY <2>2, <2>3, <2>4, <2>5
  <1>3. Trimmed(p) = q /\ TrimmedOut(p) = {p[i] : i \in 1..x}
    BY DEF Trimmed, TrimmedOut, x
  <1> HIDE DEF q
  <1>4. NoRepeats(q)
    <2>1. ASSUME NEW i \in DOMAIN q, NEW j \in DOMAIN q, q[i] = q[j]
          PROVE  i = j
      <3>1. i + x \in DOMAIN p /\ j + x \in DOMAIN p /\ p[i + x] = p[j + x]
        BY <1>1, <1>2, <2>1
      <3>2. i + x = j + x
        BY <3>1 DEF NoRepeats, IsJsSet
      <3> QED BY <1>1, <1>2, <3>2
    <2> QED BY <2>1 DEF NoRepeats
  <1>5. TrimmedOut(p) \subseteq Range(p)
    BY <1>1, <1>3 DEF Range
  <1>6. ASSUME NEW i \in DOMAIN q
        PROVE  q[i] \in Range(p) /\ q[i] \notin TrimmedOut(p)
    <2>1. i + x \in DOMAIN p /\ q[i] = p[i + x] /\ \A j \in 1..x : j \in DOMAIN p /\ j # i + x
      BY <1>1, <1>2
    <2> QED BY <1>3, <2>1 DEF Range, NoRepeats, IsJsSet
  <1>7. ASSUME NEW i \in DOMAIN p, p[i] \notin TrimmedOut(p)
        PROVE  p[i] \in Range(q)
    <2>1. i > x
      <3>1. i \notin 1..x
        BY <1>3, <1>7
      <3> QED BY <1>1, <3>1
    <2>2. i - x \in 1..(Len(p) - x) /\ (i - x) + x = i
      BY <1>1, <2>1
    <2>3. q[i - x] = p[i]
      BY <1>2, <2>2
    <2> QED BY <1>2, <2>2, <2>3 DEF Range
  <1>8. Range(q) = Range(p) \ TrimmedOut(p)
    BY <1>6, <1>7 DEF Range
  <1> QED BY <1>2, <1>3, <1>4, <1>5, <1>8 DEF IsJsSet
-----------------------------------------------------------------------------
(* The handlers, over the set K of the processed signatures. *)

Fates == {"open", "handled", "gaveUp"}
RunsIn(w, cur, s) == w[s] > 0 \/ \E c \in Cycles : cur[c] = s
OneIn(w, cur, s) ==
    /\ w[s] <= 1
    /\ w[s] = 1 => \A c \in Cycles : cur[c] # s
    /\ \A c, d \in Cycles : cur[c] = s /\ cur[d] = s => c = d

\* A signature that was not trimmed has one handler at most, is remembered as
\* long as it runs, and remembered and at rest for good when it was settled;
\* whatever is remembered runs or is settled.
Handling(K, f, w, cur, ev) ==
    /\ K \subseteq Sig /\ f \in [Sig -> Fates] /\ w \in [Sig -> Nat]
    /\ cur \in [Cycles -> Sig \cup {NoSig}] /\ ev \subseteq Sig
    /\ \A s \in Sig \ ev : OneIn(w, cur, s)
    /\ \A s \in Sig \ ev : RunsIn(w, cur, s) => s \in K
    /\ \A s \in Sig \ ev : f[s] # "open" => s \in K /\ ~RunsIn(w, cur, s)
    /\ \A s \in K : RunsIn(w, cur, s) \/ f[s] # "open"

\* How a handler of s may leave the set and the fates.
Leaves(s, K, f, L, g) ==
    \/ L = K /\ g = [f EXCEPT ![s] = "handled"]
    \/ L = K /\ g = [f EXCEPT ![s] = "gaveUp"]
    \/ L = K \ {s} /\ g = f

\* What of it the proofs below need.
Left(s, K, f, L, g) ==
    /\ g \in [Sig -> Fates] /\ L \subseteq K
    /\ \A t \in Sig : t # s => g[t] = f[t] /\ (t \in K => t \in L)
    /\ s \in L => g[s] # "open"
    /\ s \in K /\ g[s] # "open" => s \in L \/ f[s] # "open"

LEMMA Leaving ==
    ASSUME NEW K, K \subseteq Sig, NEW f \in [Sig -> Fates], NEW s \in Sig,
           NEW L, NEW g, Leaves(s, K, f, L, g)
    PROVE  Left(s, K, f, L, g)
  <1>1. CASE L = K /\ g = [f EXCEPT ![s] = "handled"]
    <2>1. /\ g \in [Sig -> Fates] /\ g[s] = "handled"
          /\ \A t \in Sig : t # s => g[t] = f[t]
      BY <1>1 DEF Fates
    <2>2. L \subseteq K /\ \A t \in Sig : t \in K => t \in L
      BY <1>1
    <2>3. s \in L => g[s] # "open"
      BY <2>1
    <2>4. s \in K /\ g[s] # "open" => s \in L \/ f[s] # "open"
      BY <1>1, <2>1
    <2> QED BY <2>1, <2>2, <2>3, <2>4 DEF Left
  <1>2. CASE L = K /\ g = [f EXCEPT ![s] = "gaveUp"]
    <2>1. /\ g \in [Sig -> Fates] /\ g[s] = "gaveUp"
          /\ \A t \in Sig : t # s => g[t] = f[t]
      BY <1>2 DEF Fates
    <2>2. L \subseteq K /\ \A t \in Sig : t \in K => t \in L
      BY <1>2
    <2>3. s \in L => g[s] # "open"
      BY <2>1
    <2>4. s \in K /\ g[s] # "open" => s \in L \/ f[s] # "open"
      BY <1>2, <2>1
    <2> QED BY <2>1, <2>2, <2>3, <2>4 DEF Left
  <1>3. CASE L = K \ {s} /\ g = f
    BY <1>3 DEF Left
  <1> QED BY <1>1, <1>2, <1>3 DEF Leaves

LEMMA NoSigApart == NoSig \notin Sig
  BY IntakeAssumption DEF Sig, NoSig

\* The subscription starts a handler.
LEMMA WsStarts ==
    ASSUME NEW K, NEW f, NEW w, NEW cur, NEW ev, Handling(K, f, w, cur, ev),
           NEW s \in Sig, s \notin K
    PROVE  Handling(K \cup {s}, f, [w EXCEPT ![s] = @ + 1], cur, ev)
  <1> DEFINE v == [w EXCEPT ![s] = @ + 1]
  <1>1. /\ v \in [Sig -> Nat] /\ v[s] = w[s] + 1 /\ w[s] \in Nat
        /\ \A t \in Sig : t # s => v[t] = w[t]
    BY DEF Handling
  <1> HIDE DEF v
  <1>2. \A t \in Sig : t # s => (RunsIn(v, cur, t) <=> RunsIn(w, cur, t))
    BY <1>1 DEF RunsIn
  <1>3. \A t \in Sig : t # s => (OneIn(v, cur, t) <=> OneIn(w, cur, t))
    BY <1>1 DEF OneIn
  <1>4. RunsIn(v, cur, s)
    BY <1>1 DEF RunsIn
  <1>5. s \notin ev => ~RunsIn(w, cur, s) /\ f[s] = "open"
    BY DEF Handling
  <1>6. s \notin ev => OneIn(v, cur, s)
    <2>1. ASSUME s \notin ev
          PROVE  w[s] = 0 /\ \A c \in Cycles : cur[c] # s
      BY <1>1, <1>5, <2>1 DEF RunsIn
    <2> QED BY <1>1, <2>1 DEF OneIn
  <1> QED BY <1>1, <1>2, <1>3, <1>4, <1>5, <1>6 DEF Handling, v

\* A handler of the subscription ends.
LEMMA WsEnds ==
    ASSUME NEW K, NEW f, NEW w, NEW cur, NEW ev, Handling(K, f, w, cur, ev),
           NEW s \in Sig, w[s] > 0, NEW L, NEW g, Leaves(s, K, f, L, g)
    PROVE  Handling(L, g, [w EXCEPT ![s] = @ - 1], cur, ev)
  <1> DEFINE v == [w EXCEPT ![s] = @ - 1]
  <1>1. /\ v \in [Sig -> Nat] /\ v[s] = w[s] - 1 /\ w[s] \in Nat
        /\ \A t \in Sig : t # s => v[t] = w[t]
    BY DEF Handling
  <1> HIDE DEF v
  <1>2. \A t \in Sig : t # s => (RunsIn(v, cur, t) <=> RunsIn(w, cur, t))
    BY <1>1 DEF RunsIn
  <1>3. \A t \in Sig : t # s => (OneIn(v, cur, t) <=> OneIn(w, cur, t))
    BY <1>1 DEF OneIn
  <1>4. Left(s, K, f, L, g)
    BY Leaving DEF Handling
  <1>5. s \notin ev => OneIn(v, cur, s) /\ ~RunsIn(v, cur, s) /\ s \in K /\ f[s] = "open"
    <2>1. ASSUME s \notin ev
          PROVE  w[s] = 1 /\ \A c \in Cycles : cur[c] # s
      BY <1>1, <2>1 DEF Handling, OneIn
    <2>2. s \notin ev => s \in K /\ f[s] = "open"
      BY DEF Handling, RunsIn
    <2> QED BY <1>1, <2>1, <2>2 DEF OneIn, RunsIn
  <1>6. /\ L \subseteq Sig /\ g \in [Sig -> Fates]
        /\ v \in [Sig -> Nat] /\ cur \in [Cycles -> Sig \cup {NoSig}] /\ ev \subseteq Sig
    BY <1>1, <1>4 DEF Left, Handling
  <1>7. \A t \in Sig \ ev : OneIn(v, cur, t)
    BY <1>1, <1>3, <1>5 DEF Handling
  <1>8. \A t \in Sig \ ev : RunsIn(v, cur, t) => t \in L
    <2>1. ASSUME NEW t \in Sig \ ev, t # s, RunsIn(v, cur, t)
          PROVE  t \in L
      <3>1. RunsIn(w, cur, t)
        BY <1>2, <2>1
      <3>2. t \in K
        BY <3>1 DEF Handling
      <3> QED BY <2>1, <3>2, <1>4 DEF Left
    <2> QED BY <1>5, <2>1
  <1>9. \A t \in Sig \ ev : g[t] # "open" => t \in L /\ ~RunsIn(v, cur, t)
    <2>1. ASSUME NEW t \in Sig \ ev, t # s, g[t] # "open"
          PROVE  t \in L /\ ~RunsIn(v, cur, t)
      <3>1. f[t] # "open"
        BY <1>4, <2>1 DEF Left
      <3>2. t \in K /\ ~RunsIn(w, cur, t)
        BY <3>1 DEF Handling
      <3> QED BY <1>2, <1>4, <2>1, <3>2 DEF Left
    <2>2. s \notin ev /\ g[s] # "open" => s \in L /\ ~RunsIn(v, cur, s)
      BY <1>4, <1>5 DEF Left
    <2> QED BY <2>1, <2>2
  <1>10. \A t \in L : RunsIn(v, cur, t) \/ g[t] # "open"
    <2>1. ASSUME NEW t \in L, t # s
          PROVE  RunsIn(v, cur, t) \/ g[t] # "open"
      <3>1. t \in K /\ t \in Sig
        BY <1>4 DEF Left, Handling
      <3>2. RunsIn(w, cur, t) \/ f[t] # "open"
        BY <3>1 DEF Handling
      <3> QED BY <1>2, <1>4, <2>1, <3>1, <3>2 DEF Left
    <2> QED BY <1>4, <2>1 DEF Left
  <1> QED BY <1>6, <1>7, <1>8, <1>9, <1>10 DEF Handling, v

\* The handler that loop c awaits ends.
LEMMA LoopHandlerEnds ==
    ASSUME NEW K, NEW f, NEW w, NEW cur, NEW ev, Handling(K, f, w, cur, ev),
           NEW c \in Cycles, cur[c] \in Sig,
           NEW L, NEW g, Leaves(cur[c], K, f, L, g)
    PROVE  Handling(L, g, w, [cur EXCEPT ![c] = NoSig], ev)
  <1> DEFINE s == cur[c]
             cu == [cur EXCEPT ![c] = NoSig]
  <1>1. /\ cu \in [Cycles -> Sig \cup {NoSig}] /\ cu[c] = NoSig
        /\ \A d \in Cycles : d # c => cu[d] = cur[d]
        /\ s \in Sig
    BY DEF Handling
  <1>s. cur[c] = s
    OBVIOUS
  <1>l. Leaves(s, K, f, L, g)
    OBVIOUS
  <1> HIDE DEF cu, s
  <1>2. \A t \in Sig : t # s => (RunsIn(w, cu, t) <=> RunsIn(w, cur, t))
    BY <1>1, <1>s, NoSigApart DEF RunsIn
  <1>3. \A t \in Sig : t # s => (OneIn(w, cu, t) <=> OneIn(w, cur, t))
    <2>1. \A t \in Sig : t # s => \A d \in Cycles : cu[d] = t <=> cur[d] = t
      BY <1>1, <1>s, NoSigApart
    <2> QED BY <2>1 DEF OneIn
  <1>4. Left(s, K, f, L, g)
    BY <1>1, <1>l, Leaving DEF Handling
  <1>5. s \notin ev => OneIn(w, cu, s) /\ ~RunsIn(w, cu, s) /\ s \in K /\ f[s] = "open"
    <2>1. ASSUME s \notin ev
          PROVE  w[s] = 0 /\ \A d \in Cycles : d # c => cur[d] # s
      <3>1. OneIn(w, cur, s) /\ w[s] \in Nat
        BY <1>1, <2>1 DEF Handling
      <3>2. w[s] # 1 /\ w[s] <= 1 /\ \A d \in Cycles : d # c => cur[d] # s
        BY <1>s, <3>1 DEF OneIn
      <3> QED BY <3>1, <3>2
    <2>2. s \notin ev => s \in K /\ f[s] = "open"
      BY <1>1, <1>s DEF Handling, RunsIn
    <2>3. s # NoSig
      BY <1>1, NoSigApart
    <2> QED BY <1>1, <2>1, <2>2, <2>3 DEF OneIn, RunsIn
  <1>6. /\ L \subseteq Sig /\ g \in [Sig -> Fates]
        /\ w \in [Sig -> Nat] /\ cu \in [Cycles -> Sig \cup {NoSig}] /\ ev \subseteq Sig
    BY <1>1, <1>4 DEF Left, Handling
  <1>7. \A t \in Sig \ ev : OneIn(w, cu, t)
    BY <1>1, <1>3, <1>5 DEF Handling
  <1>8. \A t \in Sig \ ev : RunsIn(w, cu, t) => t \in L
    <2>1. ASSUME NEW t \in Sig \ ev, t # s, RunsIn(w, cu, t)
          PROVE  t \in L
      <3>1. RunsIn(w, cur, t)
        BY <1>2, <2>1
      <3>2. t \in K
        BY <3>1 DEF Handling
      <3> QED BY <2>1, <3>2, <1>4 DEF Left
    <2> QED BY <1>5, <2>1
  <1>9. \A t \in Sig \ ev : g[t] # "open" => t \in L /\ ~RunsIn(w, cu, t)
    <2>1. ASSUME NEW t \in Sig \ ev, t # s, g[t] # "open"
          PROVE  t \in L /\ ~RunsIn(w, cu, t)
      <3>1. f[t] # "open"
        BY <1>4, <2>1 DEF Left
      <3>2. t \in K /\ ~RunsIn(w, cur, t)
        BY <3>1 DEF Handling
      <3> QED BY <1>2, <1>4, <2>1, <3>2 DEF Left
    <2>2. s \notin ev /\ g[s] # "open" => s \in L /\ ~RunsIn(w, cu, s)
      BY <1>4, <1>5 DEF Left
    <2> QED BY <2>1, <2>2
  <1>10. \A t \in L : RunsIn(w, cu, t) \/ g[t] # "open"
    <2>1. ASSUME NEW t \in L, t # s
          PROVE  RunsIn(w, cu, t) \/ g[t] # "open"
      <3>1. t \in K /\ t \in Sig
        BY <1>4 DEF Left, Handling
      <3>2. RunsIn(w, cur, t) \/ f[t] # "open"
        BY <3>1 DEF Handling
      <3> QED BY <1>2, <1>4, <2>1, <3>1, <3>2 DEF Left
    <2> QED BY <1>4, <2>1 DEF Left
  <1> QED BY <1>6, <1>7, <1>8, <1>9, <1>10 DEF Handling, cu, s

\* Loop c starts a handler.
LEMMA LoopStarts ==
    ASSUME NEW K, NEW f, NEW w, NEW cur, NEW ev, Handling(K, f, w, cur, ev),
           NEW c \in Cycles, cur[c] = NoSig, NEW s \in Sig, s \notin K
    PROVE  Handling(K \cup {s}, f, w, [cur EXCEPT ![c] = s], ev)
  <1> DEFINE cu == [cur EXCEPT ![c] = s]
  <1>1. /\ cu \in [Cycles -> Sig \cup {NoSig}] /\ cu[c] = s
        /\ \A d \in Cycles : d # c => cu[d] = cur[d]
    BY DEF Handling
  <1> HIDE DEF cu
  <1>2. \A t \in Sig : t # s => (RunsIn(w, cu, t) <=> RunsIn(w, cur, t))
    BY <1>1, NoSigApart DEF RunsIn
  <1>3. \A t \in Sig : t # s => (OneIn(w, cu, t) <=> OneIn(w, cur, t))
    <2>1. \A t \in Sig : t # s => \A d \in Cycles : cu[d] = t <=> cur[d] = t
      BY <1>1, NoSigApart
    <2> QED BY <2>1 DEF OneIn
  <1>4. RunsIn(w, cu, s)
    BY <1>1 DEF RunsIn
  <1>5. s \notin ev => ~RunsIn(w, cur, s) /\ f[s] = "open"
    BY DEF Handling
  <1>6. s \notin ev => OneIn(w, cu, s)
    <2>1. ASSUME s \notin ev
          PROVE  w[s] = 0 /\ \A d \in Cycles : cur[d] # s
      <3>1. w[s] \in Nat
        BY DEF Handling
      <3>2. ~(w[s] > 0) /\ \A d \in Cycles : cur[d] # s
        BY <1>5, <2>1 DEF RunsIn
      <3> QED BY <3>1, <3>2
    <2> QED BY <1>1, <2>1 DEF OneIn
  <1> QED BY <1>1, <1>2, <1>3, <1>4, <1>5, <1>6 DEF Handling, cu

\* The set is trimmed.
LEMMA SetTrimmed ==
    ASSUME NEW K, NEW f, NEW w, NEW cur, NEW ev, Handling(K, f, w, cur, ev),
           NEW X \in SUBSET K
    PROVE  Handling(K \ X, f, w, cur, ev \cup X)
  BY DEF Handling
-----------------------------------------------------------------------------
(* The inductive invariant. *)

LoopAware == \A c \in Cycles : phase[c] = "looping" <=> current[c] # NoSig
OncePerNotice == \A s \in Sig : wsJobs[s] <= delivered[s]

TypeInv == TypeOK /\ IsJsSet(processed) /\ LoopAware /\ OncePerNotice

HandlingInv == Handling(Known, fate, wsJobs, current, evicted)

\* Everything up to signature n was looked at: CursorCovers is LookedAt(cursor).
LookedAt(n) ==
    \A s \in Sig \ Failed :
       s <= n => \/ s \in tried \cup skipped
                 \/ \E c \in Cycles : phase[c] = "looping" /\ s \in todo[c]

\* A cycle that still waits for its listing will move the cursor on from where
\* it stood when the cycle asked.
CoverInv ==
    /\ Known \subseteq tried
    /\ LookedAt(cursor)
    /\ \A c \in Cycles : LookedAt(asked[c].until)

IntakeInv == TypeInv /\ HandlingInv /\ CoverInv

Tries == [Sig -> 0..(MaxRetries - 1)]

-----------------------------------------------------------------------------
(* What the parts of the actions do to it. *)

\* The end of a handler, whichever way it ends.
LEMMA HandlerResult ==
    ASSUME TypeInv, NEW s \in Sig, NEW r \in Result(s), Settle(s, r)
    PROVE  /\ IsJsSet(r.known) /\ Range(r.known) \subseteq Known
           /\ [retries EXCEPT ![s] = r.tries] \in Tries
           /\ faults' \in 0..MaxFaults /\ faulted' \subseteq Sig /\ fate' \in [Sig -> Fates]
           /\ Leaves(s, Known, fate, Range(r.known), fate')
  <1> USE IntakeAssumption
  <1>t. /\ IsJsSet(processed) /\ retries \in Tries /\ faults \in 0..MaxFaults
        /\ faulted \subseteq Sig /\ fate \in [Sig -> Fates]
    BY DEF TypeInv, TypeOK, Tries, Fates
  <1>f. IsJsSet(Forget(processed, s)) /\ Range(Forget(processed, s)) = Known \ {s}
    BY <1>t, Forgetting DEF Known
  <1>1. CASE r = [ kind |-> "handled", known |-> processed, tries |-> 0 ]
    <2>1. r.kind = "handled" /\ r.known = processed /\ r.tries = 0
      BY <1>1
    <2>2. faults' = faults /\ faulted' = faulted /\ fate' = [fate EXCEPT ![s] = "handled"]
      BY <2>1 DEF Settle
    <2>3. [retries EXCEPT ![s] = r.tries] \in Tries
      BY <1>t, <2>1 DEF Tries
    <2>4. fate' \in [Sig -> Fates]
      BY <1>t, <2>2 DEF Fates
    <2> QED BY <1>t, <2>1, <2>2, <2>3, <2>4 DEF Leaves, Known
  <1>2. CASE r = [ kind |-> "transient", known |-> Forget(processed, s), tries |-> retries[s] ]
    <2>1. r.kind = "transient" /\ r.known = Forget(processed, s) /\ r.tries = retries[s]
      BY <1>2
    <2>2. faults' = faults + 1 /\ faulted' = faulted \cup {s} /\ fate' = fate /\ faults < MaxFaults
      BY <2>1 DEF Settle
    <2>3. [retries EXCEPT ![s] = r.tries] \in Tries
      BY <1>t, <2>1 DEF Tries
    <2> QED BY <1>t, <1>f, <2>1, <2>2, <2>3 DEF Leaves, Known
  <1>3. CASE AtCap(retries[s] + 1)
             /\ r = [ kind |-> "gaveUp", known |-> processed, tries |-> 0 ]
    <2>1. r.kind = "gaveUp" /\ r.known = processed /\ r.tries = 0
      BY <1>3
    <2>2. /\ faults' = faults + 1 /\ faulted' = faulted \cup {s} /\ faults < MaxFaults
          /\ fate' = [fate EXCEPT ![s] = "gaveUp"]
      BY <2>1 DEF Settle
    <2>3. [retries EXCEPT ![s] = r.tries] \in Tries
      BY <1>t, <2>1 DEF Tries
    <2>4. fate' \in [Sig -> Fates]
      BY <1>t, <2>2 DEF Fates
    <2> QED BY <1>t, <2>1, <2>2, <2>3, <2>4 DEF Leaves, Known
  <1>4. CASE ~AtCap(retries[s] + 1)
             /\ r = [ kind |-> "counted", known |-> Forget(processed, s), tries |-> retries[s] + 1 ]
    <2>1. r.kind = "counted" /\ r.known = Forget(processed, s) /\ r.tries = retries[s] + 1
      BY <1>4
    <2>2. faults' = faults + 1 /\ faulted' = faulted \cup {s} /\ fate' = fate /\ faults < MaxFaults
      BY <2>1 DEF Settle
    <2>3. [retries EXCEPT ![s] = r.tries] \in Tries
      <3>1. retries[s] + 1 \in 0..(MaxRetries - 1)
        BY <1>t, <1>4 DEF Tries, AtCap
      <3> QED BY <1>t, <2>1, <3>1 DEF Tries
    <2> QED BY <1>t, <1>f, <2>1, <2>2, <2>3 DEF Leaves, Known
  <1> QED BY <1>1, <1>2, <1>3, <1>4 DEF Result

LEMMA GoesOnTypes ==
    ASSUME TypeInv, NEW c \in Cycles, NEW list \in SUBSET (1..landed), NEW known, IsJsSet(known),
           NEW tries \in Tries, LoopGoesOn(c, list, known, tries)
    PROVE  /\ IsJsSet(processed') /\ retries' \in Tries /\ batch' \in BatchSize..MaxBatchSize
           /\ phase' \in [Cycles -> {"idle", "fetching", "looping"}]
           /\ todo' \in [Cycles -> SUBSET (1..landed)] /\ current' \in [Cycles -> 0..landed]
           /\ found' \in [Cycles -> BOOLEAN]
           /\ tried' \subseteq Sig /\ evicted' \subseteq Sig /\ LoopAware'
  <1> USE IntakeAssumption
  <1>t. /\ landed \in 0..MaxSigs /\ batch \in BatchSize..MaxBatchSize
        /\ phase \in [Cycles -> {"idle", "fetching", "looping"}]
        /\ todo \in [Cycles -> SUBSET (1..landed)] /\ current \in [Cycles -> 0..landed]
        /\ found \in [Cycles -> BOOLEAN] /\ tried \subseteq Sig /\ evicted \subseteq Sig
        /\ LoopAware
    BY DEF TypeInv, TypeOK
  <1>1. CASE LoopTakes(c, list, known, tries)
    <2>1. PICK s \in Eligible(list, known) :
             /\ current' = [current EXCEPT ![c] = s]
             /\ todo' = [todo EXCEPT ![c] = Older(list, s)]
             /\ processed' = Remember(known, s)
             /\ tried' = tried \cup {s}
      BY <1>1 DEF LoopTakes
    <2>2. s \in 1..landed /\ s \in Sig /\ s # NoSig /\ Older(list, s) \in SUBSET (1..landed)
      <3>1. s \in 1..landed /\ Older(list, s) \in SUBSET (1..landed)
        BY DEF Eligible, Older
      <3>2. landed \in Nat /\ landed <= MaxSigs
        BY <1>t
      <3> QED BY <3>1, <3>2 DEF Sig, NoSig
    <2>3. /\ phase' = [phase EXCEPT ![c] = "looping"] /\ found' = [found EXCEPT ![c] = TRUE]
          /\ retries' = tries /\ batch' = batch /\ evicted' = evicted
      BY <1>1 DEF LoopTakes
    <2>4. IsJsSet(processed')
      BY <2>1, <2>2, Remembering
    <2>5. LoopAware'
      BY <1>t, <2>1, <2>2, <2>3 DEF LoopAware
    <2>6. current' \in [Cycles -> 0..landed]
      BY <1>t, <2>1, <2>2
    <2>7. todo' \in [Cycles -> SUBSET (1..landed)]
      BY <1>t, <2>1, <2>2
    <2> QED BY <1>t, <2>1, <2>2, <2>3, <2>4, <2>5, <2>6, <2>7
  <1>2. CASE LoopEnds(c, list, known, tries)
    <2>1. /\ processed' = Trimmed(known)
          /\ retries' = [s \in Sig |-> IF s \in TrimmedOut(known) THEN 0 ELSE tries[s]]
          /\ evicted' = evicted \cup TrimmedOut(known)
          /\ phase' = [phase EXCEPT ![c] = "idle"] /\ todo' = [todo EXCEPT ![c] = {}]
          /\ current' = [current EXCEPT ![c] = NoSig] /\ found' = [found EXCEPT ![c] = FALSE]
          /\ tried' = tried
      BY <1>2 DEF LoopEnds
    <2>2. batch' \in BatchSize..MaxBatchSize
      BY <1>2, <1>t DEF LoopEnds
    <2>3. IsJsSet(processed') /\ TrimmedOut(known) \subseteq Sig
      BY <2>1, Trimming DEF IsJsSet, Range
    <2>4. retries' \in Tries
      BY <2>1 DEF Tries
    <2>5. LoopAware'
      BY <1>t, <2>1 DEF LoopAware
    <2>6. current' \in [Cycles -> 0..landed]
      BY <1>t, <2>1 DEF NoSig
    <2> QED BY <1>t, <2>1, <2>2, <2>3, <2>4, <2>5, <2>6
  <1> QED BY <1>1, <1>2 DEF LoopGoesOn

LEMMA GoesOnHandling ==
    ASSUME TypeInv, NEW c \in Cycles, NEW list \in SUBSET Sig, NEW known, IsJsSet(known),
           NEW tries, NEW g,
           Handling(Range(known), g, wsJobs, [current EXCEPT ![c] = NoSig], evicted),
           LoopGoesOn(c, list, known, tries)
    PROVE  Handling(Known', g, wsJobs, current', evicted')
  <1> DEFINE cu == [current EXCEPT ![c] = NoSig]
  <1>t. DOMAIN current = Cycles
    BY DEF TypeInv, TypeOK
  <1>1. CASE LoopTakes(c, list, known, tries)
    <2>1. PICK s \in Eligible(list, known) :
             /\ current' = [current EXCEPT ![c] = s]
             /\ processed' = Remember(known, s)
      BY <1>1 DEF LoopTakes
    <2>2. s \in Sig /\ s \notin Range(known) /\ evicted' = evicted
      BY <1>1 DEF Eligible, LoopTakes
    <2>3. Known' = Range(known) \cup {s}
      BY <2>1, <2>2, Remembering DEF Known
    <2>4. current' = [cu EXCEPT ![c] = s] /\ cu[c] = NoSig
      BY <1>t, <2>1
    <2> HIDE DEF cu
    <2>5. Handling(Range(known) \cup {s}, g, wsJobs, [cu EXCEPT ![c] = s], evicted)
      BY <2>2, <2>4, LoopStarts DEF cu
    <2> QED BY <2>2, <2>3, <2>4, <2>5
  <1>2. CASE LoopEnds(c, list, known, tries)
    <2>1. /\ processed' = Trimmed(known) /\ evicted' = evicted \cup TrimmedOut(known)
          /\ current' = cu
      BY <1>2 DEF LoopEnds
    <2>2. Known' = Range(known) \ TrimmedOut(known) /\ TrimmedOut(known) \in SUBSET Range(known)
      BY <2>1, Trimming DEF Known
    <2> HIDE DEF cu
    <2>3. Handling(Range(known) \ TrimmedOut(known), g, wsJobs, cu, evicted \cup TrimmedOut(known))
      BY <2>2, SetTrimmed DEF cu
    <2> QED BY <2>1, <2>2, <2>3
  <1> QED BY <1>1, <1>2 DEF LoopGoesOn

\* Whatever of its listing the loop leaves behind was started on before.
LEMMA GoesOnCovers ==
    ASSUME TypeInv, NEW c \in Cycles, NEW list \in SUBSET Sig, NEW known, IsJsSet(known),
           Range(known) \subseteq tried, NEW tries, LoopGoesOn(c, list, known, tries)
    PROVE  /\ tried \subseteq tried' /\ Known' \subseteq tried'
           /\ \A s \in list \ Failed : s \in tried' \/ (phase'[c] = "looping" /\ s \in todo'[c])
           /\ \A d \in Cycles : d # c => phase'[d] = phase[d] /\ todo'[d] = todo[d]
  <1>t. DOMAIN phase = Cycles /\ DOMAIN todo = Cycles
    BY DEF TypeInv, TypeOK
  <1>1. CASE LoopTakes(c, list, known, tries)
    <2>1. PICK s \in Eligible(list, known) :
             /\ \A t \in Eligible(list, known) : t <= s
             /\ todo' = [todo EXCEPT ![c] = Older(list, s)]
             /\ processed' = Remember(known, s)
             /\ tried' = tried \cup {s}
      BY <1>1 DEF LoopTakes
    <2>2. phase' = [phase EXCEPT ![c] = "looping"] /\ s \in Sig
      BY <1>1 DEF LoopTakes, Eligible
    <2>3. Known' = Range(known) \cup {s}
      BY <2>1, <2>2, Remembering DEF Known
    <2>4. ASSUME NEW t \in list \ Failed, t \notin tried'
          PROVE  t \in todo'[c]
      <3>1. t \in Eligible(list, known) /\ t # s
        BY <2>1, <2>4 DEF Eligible
      <3>2. t <= s /\ t \in Sig
        BY <2>1, <3>1
      <3>3. t < s
        BY <2>2, <3>1, <3>2 DEF Sig
      <3>4. t \in Older(list, s)
        BY <3>3 DEF Older
      <3> QED BY <1>t, <2>1, <3>4
    <2> QED BY <1>t, <2>1, <2>2, <2>3, <2>4
  <1>2. CASE LoopEnds(c, list, known, tries)
    <2>1. /\ Eligible(list, known) = {} /\ processed' = Trimmed(known) /\ tried' = tried
          /\ phase' = [phase EXCEPT ![c] = "idle"] /\ todo' = [todo EXCEPT ![c] = {}]
      BY <1>2 DEF LoopEnds
    <2>2. Known' \subseteq Range(known)
      BY <2>1, Trimming DEF Known
    <2>3. \A s \in list \ Failed : s \in Range(known)
      BY <2>1 DEF Eligible
    <2> QED BY <1>t, <2>1, <2>2, <2>3
  <1> QED BY <1>1, <1>2 DEF LoopGoesOn
-----------------------------------------------------------------------------
(* One lemma for each part of the invariant, one step for each action. *)

LEMMA Limits == BatchSize \in BatchSize..MaxBatchSize /\ 0 \in 0..(SkipFactor - 1)
  <1>1. BatchSize \in Int /\ MaxBatchSize \in Int /\ BatchSize <= MaxBatchSize
    BY IntakeAssumption
  <1>2. SkipFactor \in Nat /\ SkipFactor > 0
    BY IntakeAssumption
  <1> QED BY <1>1, <1>2

LEMMA InitIntakeInv == Init => IntakeInv
  <1> SUFFICES ASSUME Init
               PROVE  IntakeInv
    OBVIOUS
  <1> USE IntakeAssumption
  <1>1. IsJsSet(processed) /\ Known = {}
    BY DEF Init, IsJsSet, NoRepeats, Known, Range
  <1>2. TypeOK
    <2>a. landed \in 0..MaxSigs /\ faults \in 0..MaxFaults /\ restarts \in 0..MaxRestarts
      BY DEF Init
    <2>b. cursor \in 0..landed
      BY DEF Init, NoCursor
    <2>d. wsSeen \in BOOLEAN
      BY Zenon DEF Init
    <2>c. batch \in BatchSize..MaxBatchSize /\ tick \in 0..(SkipFactor - 1)
      BY Limits DEF Init
    <2>2. /\ delivered \in [Sig -> 0..MaxDeliveries] /\ wsJobs \in [Sig -> 0..MaxDeliveries]
          /\ retries \in [Sig -> 0..(MaxRetries - 1)]
      BY DEF Init
    <2>3. asked \in [Cycles -> [until : 0..landed, limit : 0..MaxBatchSize, from : 0..landed]]
      BY DEF Init, NoCall, NoCursor
    <2>4. /\ phase \in [Cycles -> {"idle", "fetching", "looping"}]
          /\ todo \in [Cycles -> SUBSET (1..landed)] /\ current \in [Cycles -> 0..landed]
          /\ found \in [Cycles -> BOOLEAN]
      BY DEF Init, NoSig
    <2>5. /\ tried \subseteq Sig /\ skipped \subseteq Sig /\ faulted \subseteq Sig
          /\ evicted \subseteq Sig /\ fate \in [Sig -> {"open", "handled", "gaveUp"}]
      BY DEF Init
    <2> QED BY <1>1, <2>a, <2>b, <2>c, <2>d, <2>2, <2>3, <2>4, <2>5 DEF TypeOK, IsJsSet
  <1>3. LoopAware /\ OncePerNotice
    BY DEF Init, LoopAware, OncePerNotice
  <1>4. HandlingInv
    BY <1>1, NoSigApart DEF Init, HandlingInv, Handling, OneIn, RunsIn, Fates
  <1>5. CoverInv
    BY <1>1 DEF Init, CoverInv, LookedAt, NoCursor, NoCall, Sig
  <1> QED BY <1>1, <1>2, <1>3, <1>4, <1>5 DEF IntakeInv, TypeInv

LEMMA TypeInductive == TypeInv /\ [Next]_vars => TypeInv'
  <1> SUFFICES ASSUME TypeInv, [Next]_vars
               PROVE  TypeInv'
    OBVIOUS
  <1> USE IntakeAssumption
  <1>t. TypeOK /\ IsJsSet(processed) /\ LoopAware /\ OncePerNotice
    BY DEF TypeInv
  <1>1. CASE Land
    <2>1. landed' \in 0..MaxSigs /\ landed' = landed + 1 /\ landed \in Nat
      BY <1>t, <1>1 DEF Land, TypeOK
    <2>2. 0..landed \subseteq 0..landed' /\ 1..landed \subseteq 1..landed'
      BY <2>1
    <2>3. /\ cursor' \in 0..landed' /\ todo' \in [Cycles -> SUBSET (1..landed')]
          /\ current' \in [Cycles -> 0..landed']
      BY <1>t, <1>1, <2>2 DEF Land, TypeOK, memory, jobs
    <2>4. asked' \in [Cycles -> [until : 0..landed', limit : 0..MaxBatchSize, from : 0..landed']]
      BY <1>t, <1>1, <2>2 DEF Land, TypeOK, jobs
    <2>5. /\ UNCHANGED <<delivered, faults, restarts, processed, retries, batch, tick, wsSeen>>
          /\ UNCHANGED <<wsJobs, phase, current, found, tried, skipped, faulted, evicted, fate>>
      BY <1>1 DEF Land, memory, jobs, history
    <2>6. TypeOK'
      BY <1>t, <2>1, <2>3, <2>4, <2>5 DEF TypeOK
    <2> QED BY <1>t, <2>5, <2>6 DEF TypeInv, LoopAware, OncePerNotice
  <1>2. ASSUME NEW s \in Sig, WsEvent(s)
        PROVE  TypeInv'
    <2>1. /\ delivered' = [delivered EXCEPT ![s] = @ + 1] /\ delivered[s] < MaxDeliveries
          /\ wsSeen' = TRUE
          /\ UNCHANGED <<landed, faults, restarts, retries, cursor, batch, tick>>
          /\ UNCHANGED <<phase, asked, todo, current, found, skipped, faulted, evicted, fate>>
      BY <1>2 DEF WsEvent
    <2>2. \/ UNCHANGED <<processed, wsJobs, tried>>
          \/ /\ processed' = Remember(processed, s) /\ wsJobs' = [wsJobs EXCEPT ![s] = @ + 1]
             /\ tried' = tried \cup {s}
      BY <1>2 DEF WsEvent
    <2>3. IsJsSet(processed') /\ tried' \subseteq Sig
      BY <1>t, <2>2, Remembering DEF TypeOK
    <2>4. delivered' \in [Sig -> 0..MaxDeliveries]
      BY <1>t, <2>1 DEF TypeOK
    <2>5. OncePerNotice' /\ wsJobs' \in [Sig -> 0..MaxDeliveries]
      <3>1. /\ wsJobs \in [Sig -> 0..MaxDeliveries] /\ delivered \in [Sig -> 0..MaxDeliveries]
            /\ \A t \in Sig : wsJobs[t] <= delivered[t]
        BY <1>t DEF TypeOK, OncePerNotice
      <3>2. CASE UNCHANGED wsJobs
        BY <2>1, <3>1, <3>2 DEF OncePerNotice
      <3>3. CASE wsJobs' = [wsJobs EXCEPT ![s] = @ + 1]
        <4>1. wsJobs[s] + 1 \in 0..MaxDeliveries /\ wsJobs[s] + 1 <= delivered[s] + 1
          BY <2>1, <3>1
        <4> QED BY <2>1, <3>1, <3>3, <4>1 DEF OncePerNotice
      <3> QED BY <2>2, <3>2, <3>3
    <2>6. TypeOK'
      BY <1>t, <2>1, <2>3, <2>4, <2>5 DEF TypeOK, IsJsSet
    <2> QED BY <1>t, <2>1, <2>3, <2>5, <2>6 DEF TypeInv, LoopAware
  <1>3. ASSUME NEW s \in Sig, WsJobEnds(s)
        PROVE  TypeInv'
    <2>1. PICK r \in Result(s) : Settle(s, r) /\ processed' = r.known
                                 /\ retries' = [retries EXCEPT ![s] = r.tries]
      BY <1>3 DEF WsJobEnds
    <2>2. /\ wsJobs' = [wsJobs EXCEPT ![s] = @ - 1] /\ wsJobs[s] > 0
          /\ UNCHANGED <<landed, delivered, restarts, cursor, batch, tick, wsSeen>>
          /\ UNCHANGED <<phase, asked, todo, current, found, tried, skipped, evicted>>
      BY <1>3 DEF WsJobEnds
    <2>3. /\ IsJsSet(processed') /\ retries' \in Tries /\ faults' \in 0..MaxFaults
          /\ faulted' \subseteq Sig /\ fate' \in [Sig -> Fates]
      BY <2>1, HandlerResult
    <2>4. OncePerNotice' /\ wsJobs' \in [Sig -> 0..MaxDeliveries]
      <3>1. /\ wsJobs \in [Sig -> 0..MaxDeliveries] /\ delivered \in [Sig -> 0..MaxDeliveries]
            /\ \A t \in Sig : wsJobs[t] <= delivered[t]
        BY <1>t DEF TypeOK, OncePerNotice
      <3>2. wsJobs[s] - 1 \in 0..MaxDeliveries /\ wsJobs[s] - 1 <= delivered[s]
        BY <2>2, <3>1
      <3> QED BY <2>2, <3>1, <3>2 DEF OncePerNotice
    <2>5. TypeOK'
      BY <1>t, <2>2, <2>3, <2>4 DEF TypeOK, IsJsSet, Tries, Fates
    <2> QED BY <1>t, <2>2, <2>3, <2>4, <2>5 DEF TypeInv, LoopAware
  <1>4. ASSUME NEW c \in Cycles, BackfillTick(c)
        PROVE  TypeInv'
    <2>1. /\ UNCHANGED <<landed, delivered, faults, restarts, processed, retries, cursor, batch>>
          /\ UNCHANGED <<wsSeen, wsJobs, todo, current, found>>
          /\ UNCHANGED <<tried, skipped, faulted, evicted, fate>>
          /\ phase[c] = "idle" /\ tick' = (tick + 1) % SkipFactor
      BY <1>4 DEF BackfillTick, chain, history
    <2>2. tick' \in 0..(SkipFactor - 1)
      <3>1. tick + 1 \in Nat /\ SkipFactor \in Nat /\ SkipFactor > 0
        BY <1>t DEF TypeOK
      <3> QED BY <2>1, <3>1
    <2>3. \/ UNCHANGED <<phase, asked>>
          \/ /\ phase' = [phase EXCEPT ![c] = "fetching"]
             /\ asked' = [asked EXCEPT ![c] = [until |-> cursor, limit |-> batch, from |-> landed]]
      BY <1>4 DEF BackfillTick
    <2>4. /\ phase' \in [Cycles -> {"idle", "fetching", "looping"}]
          /\ asked' \in [Cycles -> [until : 0..landed, limit : 0..MaxBatchSize, from : 0..landed]]
      <3>1. cursor \in 0..landed /\ batch \in 0..MaxBatchSize /\ landed \in 0..landed
        BY <1>t DEF TypeOK
      <3>2. /\ phase \in [Cycles -> {"idle", "fetching", "looping"}]
            /\ asked \in [Cycles -> [until : 0..landed, limit : 0..MaxBatchSize, from : 0..landed]]
        BY <1>t DEF TypeOK
      <3>3. [until |-> cursor, limit |-> batch, from |-> landed]
              \in [until : 0..landed, limit : 0..MaxBatchSize, from : 0..landed]
        BY <3>1
      <3> QED BY <2>3, <3>2, <3>3
    <2>5. LoopAware'
      BY <1>t, <2>1, <2>3 DEF LoopAware, TypeOK
    <2>6. TypeOK'
      BY <1>t, <2>1, <2>2, <2>4 DEF TypeOK
    <2> QED BY <1>t, <2>1, <2>5, <2>6 DEF TypeInv, OncePerNotice
  <1>5. ASSUME NEW c \in Cycles, BackfillFetchFails(c)
        PROVE  TypeInv'
    <2>1. /\ UNCHANGED <<landed, delivered, restarts, processed, retries, cursor, batch, tick>>
          /\ UNCHANGED <<wsSeen, wsJobs, todo, current, found>>
          /\ UNCHANGED <<tried, skipped, faulted, evicted, fate>>
          /\ phase[c] = "fetching" /\ phase' = [phase EXCEPT ![c] = "idle"]
          /\ asked' = [asked EXCEPT ![c] = NoCall]
          /\ faults < MaxFaults /\ faults' = faults + 1
      BY <1>5 DEF BackfillFetchFails, memory, history
    <2>2. /\ faults' \in 0..MaxFaults
          /\ asked' \in [Cycles -> [until : 0..landed, limit : 0..MaxBatchSize, from : 0..landed]]
      BY <1>t, <2>1 DEF TypeOK, NoCall, NoCursor
    <2>3. LoopAware'
      BY <1>t, <2>1 DEF LoopAware, TypeOK
    <2>4. TypeOK'
      BY <1>t, <2>1, <2>2 DEF TypeOK
    <2> QED BY <1>t, <2>1, <2>3, <2>4 DEF TypeInv, OncePerNotice
  <1>6. ASSUME NEW c \in Cycles, BackfillListed(c)
        PROVE  TypeInv'
    <2> DEFINE list(upto) == Listing(asked[c], upto)
    <2>1. PICK upto \in asked[c].from..landed :
             /\ IF list(upto) = {}
                THEN UNCHANGED <<cursor, skipped>>
                ELSE /\ cursor' = upto
                     /\ skipped' = skipped \cup
                           {s \in Sig \ list(upto) : asked[c].until < s /\ s < upto}
             /\ LoopGoesOn(c, list(upto), processed, retries)
      BY <1>6 DEF BackfillListed
    <2>2. /\ UNCHANGED <<landed, delivered, faults, restarts, tick, wsSeen, wsJobs, faulted, fate>>
          /\ asked' = [asked EXCEPT ![c] = NoCall]
      BY <1>6 DEF BackfillListed, chain
    <2>3. upto \in 0..landed /\ landed \in Nat
      <3>1. asked[c].from \in Nat /\ landed \in Nat
        BY <1>t DEF TypeOK
      <3> QED BY <3>1
    <2>4. list(upto) \in SUBSET (1..landed)
      BY <2>3 DEF Listing, Sig
    <2>5. retries \in Tries
      BY <1>t DEF TypeOK, Tries
    <2> HIDE DEF list
    <2>6. /\ IsJsSet(processed') /\ retries' \in Tries /\ batch' \in BatchSize..MaxBatchSize
          /\ phase' \in [Cycles -> {"idle", "fetching", "looping"}]
          /\ todo' \in [Cycles -> SUBSET (1..landed)] /\ current' \in [Cycles -> 0..landed]
          /\ found' \in [Cycles -> BOOLEAN]
          /\ tried' \subseteq Sig /\ evicted' \subseteq Sig /\ LoopAware'
      BY <1>t, <2>1, <2>4, <2>5, GoesOnTypes
    <2>7. /\ cursor' \in 0..landed /\ skipped' \subseteq Sig
          /\ asked' \in [Cycles -> [until : 0..landed, limit : 0..MaxBatchSize, from : 0..landed]]
      BY <1>t, <2>1, <2>2, <2>3 DEF TypeOK, NoCall, NoCursor
    <2>8. TypeOK'
      BY <1>t, <2>2, <2>6, <2>7 DEF TypeOK, IsJsSet, Tries
    <2> QED BY <1>t, <2>2, <2>6, <2>8 DEF TypeInv, OncePerNotice
  <1>7. ASSUME NEW c \in Cycles, BackfillJobEnds(c)
        PROVE  TypeInv'
    <2>1. PICK r \in Result(current[c]) :
             /\ Settle(current[c], r)
             /\ LoopGoesOn(c, todo[c], r.known, [retries EXCEPT ![current[c]] = r.tries])
      BY <1>7 DEF BackfillJobEnds
    <2>2. /\ UNCHANGED <<landed, delivered, restarts, cursor, tick, wsSeen, wsJobs, asked, skipped>>
          /\ phase[c] = "looping"
      BY <1>7 DEF BackfillJobEnds
    <2>3. current[c] \in Sig
      <3>1. current[c] \in 0..landed /\ current[c] # NoSig /\ landed \in 0..MaxSigs
        BY <1>t, <2>2 DEF TypeOK, LoopAware
      <3> QED BY <3>1 DEF Sig, NoSig
    <2>4. /\ IsJsSet(r.known) /\ [retries EXCEPT ![current[c]] = r.tries] \in Tries
          /\ faults' \in 0..MaxFaults /\ faulted' \subseteq Sig /\ fate' \in [Sig -> Fates]
      BY <2>1, <2>3, HandlerResult
    <2>5. todo[c] \in SUBSET (1..landed)
      BY <1>t DEF TypeOK
    <2>6. /\ IsJsSet(processed') /\ retries' \in Tries /\ batch' \in BatchSize..MaxBatchSize
          /\ phase' \in [Cycles -> {"idle", "fetching", "looping"}]
          /\ todo' \in [Cycles -> SUBSET (1..landed)] /\ current' \in [Cycles -> 0..landed]
          /\ found' \in [Cycles -> BOOLEAN]
          /\ tried' \subseteq Sig /\ evicted' \subseteq Sig /\ LoopAware'
      BY <2>1, <2>4, <2>5, GoesOnTypes
    <2>7. TypeOK'
      BY <1>t, <2>2, <2>4, <2>6 DEF TypeOK, IsJsSet, Tries, Fates
    <2> QED BY <1>t, <2>2, <2>6, <2>7 DEF TypeInv, OncePerNotice
  <1>8. CASE Restart
    <2>1. restarts' \in 0..MaxRestarts /\ UNCHANGED <<landed, delivered, faults>>
      BY <1>t, <1>8 DEF Restart, TypeOK
    <2>2. /\ processed' = <<>> /\ retries' = [s \in Sig |-> 0] /\ cursor' = NoCursor
          /\ batch' = BatchSize /\ tick' = 0 /\ wsSeen' = FALSE /\ wsJobs' = [s \in Sig |-> 0]
          /\ phase' = [d \in Cycles |-> "idle"] /\ asked' = [d \in Cycles |-> NoCall]
          /\ todo' = [d \in Cycles |-> {}] /\ current' = [d \in Cycles |-> NoSig]
          /\ found' = [d \in Cycles |-> FALSE]
          /\ tried' = {} /\ skipped' = {} /\ faulted' = {} /\ evicted' = {}
          /\ fate' = [s \in Sig |-> "open"]
      BY <1>8 DEF Restart
    <2>3. IsJsSet(processed')
      BY <2>2 DEF IsJsSet, NoRepeats
    <2>4. LoopAware' /\ OncePerNotice'
      <3>1. \A s \in Sig : delivered[s] \in Nat
        BY <1>t DEF TypeOK
      <3> QED BY <2>1, <2>2, <3>1 DEF LoopAware, OncePerNotice
    <2>5. TypeOK'
      <3>1. /\ landed' \in 0..MaxSigs /\ faults' \in 0..MaxFaults
            /\ delivered' \in [Sig -> 0..MaxDeliveries]
        BY <1>t, <2>1 DEF TypeOK
      <3>a. cursor' \in 0..landed'
        BY <2>2, <3>1 DEF NoCursor
      <3>c. wsSeen' \in BOOLEAN
        BY <2>2, Zenon
      <3>b. batch' \in BatchSize..MaxBatchSize /\ tick' \in 0..(SkipFactor - 1)
        BY <2>2, Limits
      <3>3. wsJobs' \in [Sig -> 0..MaxDeliveries] /\ retries' \in [Sig -> 0..(MaxRetries - 1)]
        BY <2>2
      <3>4. asked' \in [Cycles -> [until : 0..landed', limit : 0..MaxBatchSize, from : 0..landed']]
        <4>1. NoCall \in [until : 0..landed', limit : 0..MaxBatchSize, from : 0..landed']
          BY <3>1 DEF NoCall, NoCursor
        <4> QED BY <2>2, <4>1
      <3>5. /\ phase' \in [Cycles -> {"idle", "fetching", "looping"}]
            /\ todo' \in [Cycles -> SUBSET (1..landed')] /\ found' \in [Cycles -> BOOLEAN]
        BY <2>2
      <3>6. current' \in [Cycles -> 0..landed']
        BY <2>2, <3>1 DEF NoSig
      <3>7. /\ tried' \subseteq Sig /\ skipped' \subseteq Sig /\ faulted' \subseteq Sig
            /\ evicted' \subseteq Sig /\ fate' \in [Sig -> {"open", "handled", "gaveUp"}]
        BY <2>2
      <3> QED BY <2>1, <2>3, <3>1, <3>a, <3>b, <3>c, <3>3, <3>4, <3>5, <3>6, <3>7 DEF TypeOK, IsJsSet
    <2> QED BY <2>3, <2>4, <2>5 DEF TypeInv
  <1>9. CASE UNCHANGED vars
    BY <1>t, <1>9 DEF TypeInv, TypeOK, LoopAware, OncePerNotice, vars, chain, memory, jobs, history
  <1> QED BY <1>1, <1>2, <1>3, <1>4, <1>5, <1>6, <1>7, <1>8, <1>9 DEF Next

LEMMA HandlingInductive == TypeInv /\ HandlingInv /\ [Next]_vars => HandlingInv'
  <1> SUFFICES ASSUME TypeInv, HandlingInv, [Next]_vars
               PROVE  HandlingInv'
    OBVIOUS
  <1>t. TypeOK /\ IsJsSet(processed) /\ LoopAware
    BY DEF TypeInv
  <1>h. Handling(Known, fate, wsJobs, current, evicted)
    BY DEF HandlingInv
  <1>1. ASSUME UNCHANGED <<processed, fate, wsJobs, current, evicted>>
        PROVE  HandlingInv'
    BY <1>1 DEF HandlingInv, Known
  <1>2. ASSUME NEW s \in Sig, WsEvent(s)
        PROVE  HandlingInv'
    <2>1. UNCHANGED <<current, evicted, fate>>
      BY <1>2 DEF WsEvent
    <2>2. CASE Ignored(s)
      BY <1>1, <1>2, <2>1, <2>2 DEF WsEvent
    <2>3. CASE ~Ignored(s)
      <3>1. /\ processed' = Remember(processed, s) /\ wsJobs' = [wsJobs EXCEPT ![s] = @ + 1]
            /\ s \notin Known
        BY <1>2, <2>3 DEF WsEvent, Ignored
      <3>2. Known' = Known \cup {s}
        BY <1>t, <3>1, Remembering DEF Known
      <3>3. Handling(Known \cup {s}, fate, [wsJobs EXCEPT ![s] = @ + 1], current, evicted)
        BY <1>h, <3>1, WsStarts
      <3> QED BY <2>1, <3>1, <3>2, <3>3 DEF HandlingInv
    <2> QED BY <2>2, <2>3
  <1>3. ASSUME NEW s \in Sig, WsJobEnds(s)
        PROVE  HandlingInv'
    <2>1. PICK r \in Result(s) : Settle(s, r) /\ processed' = r.known
      BY <1>3 DEF WsJobEnds
    <2>2. /\ wsJobs' = [wsJobs EXCEPT ![s] = @ - 1] /\ wsJobs[s] > 0
          /\ UNCHANGED <<current, evicted>>
      BY <1>3 DEF WsJobEnds
    <2>3. Leaves(s, Known, fate, Known', fate')
      BY <2>1, HandlerResult DEF Known
    <2>4. Handling(Known', fate', [wsJobs EXCEPT ![s] = @ - 1], current, evicted)
      BY <1>h, <2>2, <2>3, WsEnds
    <2> QED BY <2>2, <2>4 DEF HandlingInv
  <1>4. ASSUME NEW c \in Cycles, BackfillListed(c)
        PROVE  HandlingInv'
    <2>1. PICK upto \in asked[c].from..landed :
             LoopGoesOn(c, Listing(asked[c], upto), processed, retries)
      BY <1>4 DEF BackfillListed
    <2>2. Listing(asked[c], upto) \in SUBSET Sig
      BY DEF Listing
    <2>3. current[c] = NoSig /\ [current EXCEPT ![c] = NoSig] = current
      BY <1>4, <1>t DEF BackfillListed, LoopAware, TypeOK
    <2>4. Handling(Known', fate, wsJobs, current', evicted')
      BY <1>t, <1>h, <2>1, <2>2, <2>3, GoesOnHandling DEF Known
    <2> QED BY <1>4, <2>4 DEF BackfillListed, HandlingInv
  <1>5. ASSUME NEW c \in Cycles, BackfillJobEnds(c)
        PROVE  HandlingInv'
    <2>1. PICK r \in Result(current[c]) :
             /\ Settle(current[c], r)
             /\ LoopGoesOn(c, todo[c], r.known, [retries EXCEPT ![current[c]] = r.tries])
      BY <1>5 DEF BackfillJobEnds
    <2>2. phase[c] = "looping" /\ UNCHANGED wsJobs
      BY <1>5 DEF BackfillJobEnds
    <2>3. current[c] \in Sig /\ todo[c] \in SUBSET Sig
      <3>1. /\ current[c] \in 0..landed /\ current[c] # NoSig /\ landed \in 0..MaxSigs
            /\ todo[c] \in SUBSET (1..landed)
        BY <1>t, <2>2 DEF TypeOK, LoopAware
      <3>2. landed \in Nat /\ landed <= MaxSigs /\ MaxSigs \in Nat
        BY <3>1, IntakeAssumption
      <3> QED BY <3>1, <3>2 DEF Sig, NoSig
    <2>4. /\ IsJsSet(r.known)
          /\ Leaves(current[c], Known, fate, Range(r.known), fate')
      BY <2>1, <2>3, HandlerResult
    <2>5. Handling(Range(r.known), fate', wsJobs, [current EXCEPT ![c] = NoSig], evicted)
      BY <1>h, <2>3, <2>4, LoopHandlerEnds
    <2>6. Handling(Known', fate', wsJobs, current', evicted')
      BY <2>1, <2>3, <2>4, <2>5, GoesOnHandling
    <2> QED BY <2>2, <2>6 DEF HandlingInv
  <1>6. CASE Restart
    <2>1. /\ Known' = {} /\ fate' = [s \in Sig |-> "open"] /\ wsJobs' = [s \in Sig |-> 0]
          /\ current' = [c \in Cycles |-> NoSig] /\ evicted' = {}
      BY <1>6 DEF Restart, Known, Range
    <2> QED BY <2>1, NoSigApart DEF HandlingInv, Handling, OneIn, RunsIn, Fates
  <1>7. ASSUME NEW c \in Cycles, BackfillTick(c) \/ BackfillFetchFails(c)
        PROVE  HandlingInv'
    BY <1>1, <1>7 DEF BackfillTick, BackfillFetchFails, memory, history
  <1>8. CASE Land \/ UNCHANGED vars
    BY <1>1, <1>8 DEF Land, vars, memory, jobs, history
  <1> QED BY <1>2, <1>3, <1>4, <1>5, <1>6, <1>7, <1>8 DEF Next

\* What was looked at stays so as long as handlers and loops only go forward.
WillBeLookedAt(n) ==
    \A s \in Sig \ Failed :
       s <= n => \/ s \in tried' \cup skipped'
                 \/ \E c \in Cycles : phase'[c] = "looping" /\ s \in todo'[c]
GoesForward ==
    /\ tried \subseteq tried' /\ skipped \subseteq skipped'
    /\ \A c \in Cycles : phase[c] = "looping" =>
          \A s \in todo[c] \ Failed : s \in tried' \/ (phase'[c] = "looping" /\ s \in todo'[c])

LEMMA LookingGoesForward ==
    ASSUME GoesForward, NEW n, LookedAt(n)
    PROVE  WillBeLookedAt(n)
  BY DEF GoesForward, LookedAt, WillBeLookedAt

LEMMA NothingIsLookedAt == LookedAt(NoCall.until) /\ WillBeLookedAt(NoCall.until)
  BY IntakeAssumption DEF LookedAt, WillBeLookedAt, NoCall, NoCursor, Sig

LEMMA CoverInductive == TypeInv /\ CoverInv /\ [Next]_vars => CoverInv'
  <1> SUFFICES ASSUME TypeInv, CoverInv, [Next]_vars
               PROVE  CoverInv'
    OBVIOUS
  <1>t. TypeOK /\ IsJsSet(processed) /\ LoopAware
    BY DEF TypeInv
  <1>c. /\ Known \subseteq tried /\ LookedAt(cursor)
        /\ \A c \in Cycles : LookedAt(asked[c].until)
    BY DEF CoverInv
  <1>a. DOMAIN asked = Cycles /\ DOMAIN phase = Cycles
    BY <1>t DEF TypeOK
  <1>q. ASSUME Known' \subseteq tried', WillBeLookedAt(cursor'),
               \A c \in Cycles : WillBeLookedAt(asked'[c].until)
        PROVE  CoverInv'
    BY <1>q DEF CoverInv, LookedAt, WillBeLookedAt
  <1>1. ASSUME GoesForward, Known' \subseteq tried', UNCHANGED <<cursor, asked>>
        PROVE  CoverInv'
    <2>1. WillBeLookedAt(cursor) /\ \A c \in Cycles : WillBeLookedAt(asked[c].until)
      BY <1>1, <1>c, LookingGoesForward
    <2> QED BY <1>1, <2>1 DEF CoverInv, LookedAt, WillBeLookedAt
  <1>2. CASE Land \/ UNCHANGED vars
    <2>1. UNCHANGED <<processed, cursor, asked, tried, skipped, phase, todo>>
      BY <1>2 DEF Land, vars, memory, jobs, history
    <2> QED BY <1>1, <1>c, <2>1 DEF GoesForward, Known
  <1>3. ASSUME NEW s \in Sig, WsEvent(s)
        PROVE  CoverInv'
    <2>1. UNCHANGED <<cursor, asked, skipped, phase, todo>>
      BY <1>3 DEF WsEvent
    <2>2. tried \subseteq tried' /\ Known' \subseteq tried'
      <3>1. CASE UNCHANGED <<processed, tried>>
        BY <1>c, <3>1 DEF Known
      <3>2. CASE processed' = Remember(processed, s) /\ tried' = tried \cup {s}
        BY <1>c, <1>t, <3>2, Remembering DEF Known
      <3> QED BY <1>3, <3>1, <3>2 DEF WsEvent
    <2> QED BY <1>1, <2>1, <2>2 DEF GoesForward
  <1>4. ASSUME NEW s \in Sig, WsJobEnds(s)
        PROVE  CoverInv'
    <2>1. PICK r \in Result(s) : Settle(s, r) /\ processed' = r.known
      BY <1>4 DEF WsJobEnds
    <2>2. UNCHANGED <<cursor, asked, tried, skipped, phase, todo>>
      BY <1>4 DEF WsJobEnds
    <2>3. Known' \subseteq Known
      BY <2>1, HandlerResult DEF Known
    <2> QED BY <1>1, <1>c, <2>2, <2>3 DEF GoesForward
  <1>5. ASSUME NEW c \in Cycles, BackfillTick(c)
        PROVE  CoverInv'
    <2>1. phase[c] = "idle" /\ UNCHANGED <<processed, cursor, tried, skipped, todo>>
      BY <1>5 DEF BackfillTick, history
    <2>2. \/ UNCHANGED <<phase, asked>>
          \/ /\ phase' = [phase EXCEPT ![c] = "fetching"]
             /\ asked' = [asked EXCEPT ![c] = [until |-> cursor, limit |-> batch, from |-> landed]]
      BY <1>5 DEF BackfillTick
    <2>3. GoesForward
      BY <1>a, <2>1, <2>2 DEF GoesForward
    <2>4. \A d \in Cycles : asked'[d].until \in {cursor, asked[d].until}
      BY <1>a, <2>2
    <2>5. WillBeLookedAt(cursor) /\ \A d \in Cycles : WillBeLookedAt(asked[d].until)
      BY <1>c, <2>3, LookingGoesForward
    <2>6. \A d \in Cycles : WillBeLookedAt(asked'[d].until)
      BY <2>4, <2>5
    <2> QED BY <1>c, <1>q, <2>1, <2>5, <2>6 DEF Known
  <1>6. ASSUME NEW c \in Cycles, BackfillFetchFails(c)
        PROVE  CoverInv'
    <2>1. /\ phase[c] = "fetching" /\ UNCHANGED <<processed, cursor, tried, skipped, todo>>
          /\ phase' = [phase EXCEPT ![c] = "idle"] /\ asked' = [asked EXCEPT ![c] = NoCall]
      BY <1>6 DEF BackfillFetchFails, memory, history
    <2>2. GoesForward
      BY <1>a, <2>1 DEF GoesForward
    <2>3. WillBeLookedAt(cursor) /\ \A d \in Cycles : WillBeLookedAt(asked[d].until)
      BY <1>c, <2>2, LookingGoesForward
    <2>4. \A d \in Cycles : asked'[d] = asked[d] \/ asked'[d] = NoCall
      BY <1>a, <2>1
    <2>5. \A d \in Cycles : WillBeLookedAt(asked'[d].until)
      BY <2>3, <2>4, NothingIsLookedAt
    <2> QED BY <1>c, <1>q, <2>1, <2>3, <2>5 DEF Known
  <1>7. ASSUME NEW c \in Cycles, BackfillListed(c)
        PROVE  CoverInv'
    <2> DEFINE call == asked[c]
    <2>1. PICK upto \in asked[c].from..landed :
             /\ IF Listing(call, upto) = {}
                THEN UNCHANGED <<cursor, skipped>>
                ELSE /\ cursor' = upto
                     /\ skipped' = skipped \cup
                           {s \in Sig \ Listing(call, upto) : call.until < s /\ s < upto}
             /\ LoopGoesOn(c, Listing(call, upto), processed, retries)
      BY <1>7 DEF BackfillListed
    <2>2. phase[c] = "fetching" /\ asked' = [asked EXCEPT ![c] = NoCall]
      BY <1>7 DEF BackfillListed
    <2>i. /\ call.until \in Int /\ call.limit \in Int /\ upto \in Int
      <3>1. call.from \in Int /\ landed \in Int /\ call.until \in Int /\ call.limit \in Int
        BY <1>t DEF TypeOK
      <3> QED BY <3>1
    <2> DEFINE list == Listing(call, upto)
    <2>3. list \in SUBSET Sig
      BY DEF Listing
    <2>4. /\ tried \subseteq tried' /\ Known' \subseteq tried'
          /\ \A s \in list \ Failed : s \in tried' \/ (phase'[c] = "looping" /\ s \in todo'[c])
          /\ \A d \in Cycles : d # c => phase'[d] = phase[d] /\ todo'[d] = todo[d]
      BY <1>t, <1>c, <2>1, <2>3, GoesOnCovers DEF Known
    <2>5. GoesForward
      BY <2>1, <2>2, <2>4 DEF GoesForward
    <2>6. WillBeLookedAt(cursor) /\ \A d \in Cycles : WillBeLookedAt(asked[d].until)
      BY <1>c, <2>5, LookingGoesForward
    <2>7. WillBeLookedAt(cursor')
      <3>1. CASE list = {}
        BY <2>1, <2>6, <3>1
      <3>2. CASE list # {}
        <4>1. /\ cursor' = upto
              /\ \A s \in Sig \ list : call.until < s /\ s < upto => s \in skipped'
          BY <2>1, <3>2
        <4>2. call.limit > 0
          <5>1. PICK s \in Sig : s <= upto /\ upto - call.limit < s
            BY <3>2 DEF Listing
          <5> QED BY <2>i, <5>1 DEF Sig
        <4>3. ASSUME NEW s \in Sig \ Failed, s <= upto, s \notin tried' \cup skipped'
              PROVE  \E d \in Cycles : phase'[d] = "looping" /\ s \in todo'[d]
          <5>1. s \in Int
            BY DEF Sig
          <5>2. CASE s <= call.until
            BY <2>6, <4>3, <5>2 DEF WillBeLookedAt
          <5>3. CASE s \in list
            BY <2>4, <4>3, <5>3
          <5>4. CASE s > call.until /\ s \notin list
            <6>1. s >= upto
              BY <2>i, <4>1, <4>3, <5>1, <5>4
            <6>2. upto - call.limit < s
              BY <2>i, <4>2, <5>1, <6>1
            <6> QED BY <2>i, <4>3, <5>1, <5>4, <6>2 DEF Listing
          <5> QED BY <2>i, <5>1, <5>2, <5>3, <5>4
        <4> QED BY <4>1, <4>3 DEF WillBeLookedAt
      <3> QED BY <3>1, <3>2
    <2>8. \A d \in Cycles : asked'[d] = asked[d] \/ asked'[d] = NoCall
      BY <1>a, <2>2
    <2>9. \A d \in Cycles : WillBeLookedAt(asked'[d].until)
      BY <2>6, <2>8, NothingIsLookedAt
    <2> QED BY <1>q, <2>4, <2>7, <2>9
  <1>8. ASSUME NEW c \in Cycles, BackfillJobEnds(c)
        PROVE  CoverInv'
    <2>1. PICK r \in Result(current[c]) :
             /\ Settle(current[c], r)
             /\ LoopGoesOn(c, todo[c], r.known, [retries EXCEPT ![current[c]] = r.tries])
      BY <1>8 DEF BackfillJobEnds
    <2>2. phase[c] = "looping" /\ UNCHANGED <<cursor, asked, skipped>>
      BY <1>8 DEF BackfillJobEnds
    <2>3. current[c] \in Sig /\ todo[c] \in SUBSET Sig
      <3>1. /\ current[c] \in 0..landed /\ current[c] # NoSig /\ landed \in 0..MaxSigs
            /\ todo[c] \in SUBSET (1..landed)
        BY <1>t, <2>2 DEF TypeOK, LoopAware
      <3>2. landed \in Nat /\ landed <= MaxSigs /\ MaxSigs \in Nat
        BY <3>1, IntakeAssumption
      <3> QED BY <3>1, <3>2 DEF Sig, NoSig
    <2>4. IsJsSet(r.known) /\ Range(r.known) \subseteq tried
      BY <1>c, <2>1, <2>3, HandlerResult
    <2>5. /\ tried \subseteq tried' /\ Known' \subseteq tried'
          /\ \A s \in todo[c] \ Failed : s \in tried' \/ (phase'[c] = "looping" /\ s \in todo'[c])
          /\ \A d \in Cycles : d # c => phase'[d] = phase[d] /\ todo'[d] = todo[d]
      BY <2>1, <2>3, <2>4, GoesOnCovers
    <2>6. GoesForward
      BY <2>2, <2>5 DEF GoesForward
    <2> QED BY <1>1, <2>2, <2>5, <2>6
  <1>9. CASE Restart
    <2>1. /\ Known' = {} /\ cursor' = NoCall.until /\ asked' = [d \in Cycles |-> NoCall]
      BY <1>9 DEF Restart, Known, Range, NoCall
    <2> QED BY <1>q, <2>1, NothingIsLookedAt
  <1> QED BY <1>2, <1>3, <1>4, <1>5, <1>6, <1>7, <1>8, <1>9 DEF Next

-----------------------------------------------------------------------------
(* Handing over: every step is one of HandOver. *)

LEMMA Settling ==
    ASSUME fate \in [Sig -> Fates], NEW s \in Sig, NEW r, Settle(s, r)
    PROVE  \A t \in Sig : t # s => fate'[t] = fate[t]
  <1>1. fate' = fate \/ fate' = [fate EXCEPT ![s] = r.kind]
    BY DEF Settle
  <1> QED BY <1>1

\* While the process lives, only the handler of a signature settles it, and the
\* set is trimmed of remembered signatures alone.
LEMMA Living ==
    ASSUME TypeInv, HandlingInv, Next, ~Restart
    PROVE  /\ restarts' = restarts
           /\ \A s \in Sig : fate'[s] = fate[s] \/ Running(s)
           /\ evicted \subseteq evicted' /\ evicted' \subseteq evicted \cup Known
  <1>t. TypeOK /\ IsJsSet(processed) /\ LoopAware /\ fate \in [Sig -> Fates]
    BY DEF TypeInv, HandlingInv, Handling
  <1>k. ASSUME UNCHANGED <<restarts, fate, evicted>>
        PROVE  /\ restarts' = restarts
               /\ \A s \in Sig : fate'[s] = fate[s] \/ Running(s)
               /\ evicted \subseteq evicted' /\ evicted' \subseteq evicted \cup Known
    BY <1>k
  <1>g. ASSUME NEW c, NEW list, NEW known, NEW tries, LoopGoesOn(c, list, known, tries),
               IsJsSet(known), Range(known) \subseteq Known
        PROVE  evicted \subseteq evicted' /\ evicted' \subseteq evicted \cup Known
    <2>1. evicted' = evicted \/ evicted' = evicted \cup TrimmedOut(known)
      BY <1>g DEF LoopGoesOn, LoopTakes, LoopEnds
    <2>2. TrimmedOut(known) \subseteq Range(known)
      BY <1>g, Trimming
    <2> QED BY <1>g, <2>1, <2>2
  <1>1. CASE Land \/ \E c \in Cycles : BackfillTick(c) \/ BackfillFetchFails(c)
    BY <1>k, <1>1 DEF Land, BackfillTick, BackfillFetchFails, chain, history
  <1>2. CASE \E s \in Sig : WsEvent(s)
    BY <1>k, <1>2 DEF WsEvent
  <1>3. ASSUME NEW s \in Sig, WsJobEnds(s)
        PROVE  /\ restarts' = restarts
               /\ \A q \in Sig : fate'[q] = fate[q] \/ Running(q)
               /\ evicted \subseteq evicted' /\ evicted' \subseteq evicted \cup Known
    <2>1. PICK r : Settle(s, r)
      BY <1>3 DEF WsJobEnds
    <2>2. Running(s) /\ UNCHANGED <<restarts, evicted>>
      BY <1>3 DEF WsJobEnds, Running
    <2> QED BY <1>t, <2>1, <2>2, Settling
  <1>4. ASSUME NEW c \in Cycles, BackfillListed(c)
        PROVE  /\ restarts' = restarts
               /\ \A q \in Sig : fate'[q] = fate[q] \/ Running(q)
               /\ evicted \subseteq evicted' /\ evicted' \subseteq evicted \cup Known
    <2>1. PICK upto : LoopGoesOn(c, Listing(asked[c], upto), processed, retries)
      BY <1>4 DEF BackfillListed
    <2>2. UNCHANGED <<restarts, fate>>
      BY <1>4 DEF BackfillListed, chain
    <2> QED BY <1>g, <1>t, <2>1, <2>2 DEF Known
  <1>5. ASSUME NEW c \in Cycles, BackfillJobEnds(c)
        PROVE  /\ restarts' = restarts
               /\ \A q \in Sig : fate'[q] = fate[q] \/ Running(q)
               /\ evicted \subseteq evicted' /\ evicted' \subseteq evicted \cup Known
    <2>1. PICK r \in Result(current[c]) :
             /\ Settle(current[c], r)
             /\ LoopGoesOn(c, todo[c], r.known, [retries EXCEPT ![current[c]] = r.tries])
      BY <1>5 DEF BackfillJobEnds
    <2>2. phase[c] = "looping" /\ restarts' = restarts
      BY <1>5 DEF BackfillJobEnds
    <2>3. current[c] \in Sig
      BY <1>t, <2>2 DEF HandlingInv, Handling, LoopAware
    <2>4. IsJsSet(r.known) /\ Range(r.known) \subseteq Known
      <3>1. /\ IsJsSet(r.known)
            /\ Leaves(current[c], Known, fate, Range(r.known), fate')
        BY <2>1, <2>3, HandlerResult
      <3> QED BY <3>1 DEF Leaves
    <2>5. Running(current[c])
      BY DEF Running
    <2> QED BY <1>g, <1>t, <2>1, <2>2, <2>3, <2>4, <2>5, Settling
  <1> QED BY <1>1, <1>2, <1>3, <1>4, <1>5 DEF Next

\* The stages HandOver knows, and what they mean: in hand is in one hand.
Placed(s) ==
    \/ s \in evicted /\ StageOf(s) = "forgotten"
    \/ s \notin evicted /\ Running(s) /\ fate[s] = "open" /\ StageOf(s) = "inHand"
    \/ /\ s \notin evicted /\ ~Running(s) /\ fate[s] \in Fates /\ StageOf(s) = fate[s]
       /\ s \in Known => fate[s] # "open"
AllPlaced == \A s \in Sig : Placed(s)

LEMMA Placing == HandlingInv => AllPlaced
  <1>1. ASSUME HandlingInv, NEW s \in Sig
        PROVE  Placed(s)
    <2>1. ASSUME s \notin evicted
          PROVE  AtMostOneHandler(s) /\ (Running(s) => fate[s] = "open")
      BY <1>1, <2>1 DEF HandlingInv, Handling, RunsIn, OneIn, Running, AtMostOneHandler
    <2>2. fate[s] \in Fates /\ (s \in Known => Running(s) \/ fate[s] # "open")
      BY <1>1 DEF HandlingInv, Handling, RunsIn, Running
    <2> QED BY <2>1, <2>2 DEF StageOf, Placed
  <1> QED BY <1>1 DEF AllPlaced

LEMMA PlacingNext == HandlingInv' => AllPlaced'
  BY Placing, PTL

LEMMA LivingMoves ==
    ASSUME TypeInv, HandlingInv, HandlingInv', Next, ~Restart, NEW s \in Sig
    PROVE  StageOf(s)' \in Handler!After(StageOf(s))
  <1>p. Placed(s)
    BY Placing DEF AllPlaced
  <1>1. /\ fate'[s] = fate[s] \/ Running(s)
        /\ s \in evicted => s \in evicted'
        /\ s \in evicted' => s \in evicted \cup Known
    BY Living
  <1>2. \/ s \in evicted' /\ StageOf(s)' = "forgotten"
        \/ s \notin evicted' /\ Running(s)' /\ fate'[s] = "open" /\ StageOf(s)' = "inHand"
        \/ s \notin evicted' /\ ~Running(s)' /\ fate'[s] \in Fates /\ StageOf(s)' = fate'[s]
    BY PlacingNext DEF AllPlaced, Placed
  <1>3. CASE s \in evicted
    BY <1>p, <1>1, <1>2, <1>3 DEF Placed, Handler!After, Handler!Over
  <1>4. CASE s \notin evicted /\ Running(s)
    BY <1>p, <1>2, <1>4 DEF Placed, Handler!After, Handler!Over, Fates
  <1>5. CASE s \notin evicted /\ ~Running(s)
    <2>1. fate'[s] = fate[s] /\ fate[s] \in Fates /\ StageOf(s) = fate[s]
      BY <1>p, <1>1, <1>5 DEF Placed
    <2>2. CASE fate[s] = "open"
      BY <1>p, <1>1, <1>2, <1>5, <2>1, <2>2 DEF Placed, Handler!After, Handler!Over
    <2>3. CASE fate[s] # "open"
      BY <1>2, <2>1, <2>3 DEF Handler!After, Handler!Over, Fates
    <2> QED BY <2>2, <2>3
  <1> QED BY <1>3, <1>4, <1>5

LEMMA HandOverStep ==
    ASSUME TypeInv, HandlingInv, HandlingInv', [Next]_vars
    PROVE  [Handler!Next]_(Handler!vars)
  <1>1. CASE Next /\ ~Restart
    <2>1. Handler!Move
      BY <1>1, Living, LivingMoves DEF Handler!Move
    <2> QED BY <2>1 DEF Handler!Next
  <1>2. CASE Restart
    <2>1. \A s \in Sig : StageOf(s)' = "open"
      <3>1. /\ evicted' = {} /\ fate' = [s \in Sig |-> "open"] /\ wsJobs' = [s \in Sig |-> 0]
            /\ current' = [c \in Cycles |-> NoSig]
        BY <1>2 DEF Restart
      <3> QED BY <3>1, NoSigApart DEF StageOf, Running
    <2>2. Handler!Boot
      BY <1>2, <2>1 DEF Handler!Boot, Restart
    <2> QED BY <2>2 DEF Handler!Next
  <1>3. CASE UNCHANGED vars
    BY <1>3 DEF vars, chain, jobs, history, Handler!vars, StageOf, Running, AtMostOneHandler
  <1> QED BY <1>1, <1>2, <1>3

-----------------------------------------------------------------------------
(* The theorems. *)

\* The inductive invariant holds in every reachable state, for any number of
\* signatures, cycles and notifications and any limits.
THEOREM Invariance == Spec => []IntakeInv
  <1>1. Init => IntakeInv
    BY InitIntakeInv
  <1>2. IntakeInv /\ [Next]_vars => IntakeInv'
    BY TypeInductive, HandlingInductive, CoverInductive DEF IntakeInv
  <1> QED BY <1>1, <1>2, PTL DEF Spec

\* Type correctness.  Among others: the retry count of a signature stays below
\* the cap (handleSignatureError deletes it there), the batch size within its
\* limits.
THEOREM TypeCorrect == Spec => []TypeOK
  <1>1. IntakeInv => TypeOK
    BY DEF IntakeInv, TypeInv
  <1> QED BY <1>1, Invariance, PTL

\* However many backfill cycles overlap each other and the subscription, a
\* signature that was not trimmed has one handler at a time.
THEOREM AlwaysOneHandler == Spec => []OneHandler
  <1>1. IntakeInv => OneHandler
    BY DEF IntakeInv, HandlingInv, Handling, OneIn, OneHandler, AtMostOneHandler
  <1> QED BY <1>1, Invariance, PTL

\* A signature that was handled and not trimmed is remembered, and no handler
\* runs for it again.
THEOREM NeverRehandled == Spec => []NoRehandling
  <1>1. IntakeInv => NoRehandling
    BY DEF IntakeInv, HandlingInv, Handling, RunsIn, Running, NoRehandling
  <1> QED BY <1>1, Invariance, PTL

\* A remembered signature is being handled, was handled, or was given up.
THEOREM RememberedAlwaysSettled == Spec => []RememberedIsSettled
  <1>1. IntakeInv => RememberedIsSettled
    BY DEF IntakeInv, HandlingInv, Handling, RunsIn, Running, RememberedIsSettled
  <1> QED BY <1>1, Invariance, PTL

\* The cursor never passes a signature that was neither started on, queued in a
\* loop, nor cut off by the limit of a listing.
THEOREM CursorAlwaysCovers == Spec => []CursorCovers
  <1>1. IntakeInv => CursorCovers
    BY DEF IntakeInv, CoverInv, LookedAt, CursorCovers
  <1> QED BY <1>1, Invariance, PTL

\* The intake implements HandOver, for any number of signatures, overlapping
\* cycles, notices, failures and restarts: one handler at a time, and none
\* after the transaction was handled or given up, unless it was trimmed.
THEOREM AlwaysHandsOverOnce == Spec => HandsOverOnce
  <1>1. Init => Handler!Init
    BY NoSigApart DEF Init, Handler!Init, StageOf, Running
  <1>2. IntakeInv => TypeInv /\ HandlingInv
    BY DEF IntakeInv
  <1> QED BY <1>1, <1>2, HandOverStep, Invariance, PTL DEF Spec, HandsOverOnce, Handler!Spec
=============================================================================
