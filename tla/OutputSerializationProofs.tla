----------------------- MODULE OutputSerializationProofs -----------------------
(* Proofs about OutputSerialization, for every schema and every output: what  *)
(* the serialisers accept says what happened on the destination chain, field  *)
(* by field, whichever default or coercion they went through on the way.      *)
EXTENDS OutputSerialization, TLAPS

\* A value as the encoders take it.
Holds(d, scalar, f) == d = [scalar |-> scalar, fields |-> f]

\* The fields of the schema and no other, as the value has them.
Takes(a, s, f) == /\ DOMAIN a.data.fields = DOMAIN s.fields
                  /\ \A k \in DOMAIN s.fields : a.data.fields[k] = f[k]

\* What the Borsh library takes, it takes field by field, each of its type.
LEMMA BorshTakes ==
    ASSUME NEW s, NEW scalar \in BOOLEAN, NEW f, NEW d, NEW a, Holds(d, scalar, f),
           a = BorshLibrary(s, d), a.ok
    PROVE  /\ s.form # "array" /\ (scalar <=> s.form = "scalar")
           /\ DOMAIN s.fields \subseteq DOMAIN f
           /\ \A k \in DOMAIN s.fields : TypeOf(f[k]) = s.fields[k]
           /\ ~a.error /\ Takes(a, s, f)
  BY DEF Takes, Holds, BorshLibrary, Fits, Taken, Encoded, Threw, Obj

LEMMA TransferRecognised ==
    ASSUME NEW s, NEW out, IsTransfer(out), ~NamedAsOwn(s, out)
    PROVE  /\ DOMAIN out = {"success", "isFunctionCall"} /\ out["success"] = "true"
           /\ "isFunctionCall" \notin DOMAIN s.fields
  BY DEF NamedAsOwn, Transfer

\* A value with one key "" is unwrapped, any other is left.
LEMMA Unwrapping ==
    ASSUME NEW f
    PROVE  IF DOMAIN f = {""} THEN Holds(Unwrapped(Obj(f)), TRUE, [k \in {""} |-> f[""]])
           ELSE Holds(Unwrapped(Obj(f)), FALSE, f)
  BY DEF Holds, Unwrapped, Obj, Scalar

\* A lone flag "error" is made a boolean.
LEMMA ErrorFlag ==
    ASSUME NEW s, NEW scalar \in BOOLEAN, NEW f, NEW d, Holds(d, scalar, f)
    PROVE  IF IsErrorFlag(s) /\ ~scalar /\ "error" \in DOMAIN f
           THEN Holds(ErrorField(s, d), FALSE,
                      [k \in {"error"} |-> IF f[k] = "false" THEN "false" ELSE "true"])
           ELSE Holds(ErrorField(s, d), scalar, f)
  BY DEF Holds, ErrorField, Obj

LEMMA TransferRepeated ==
    ASSUME NEW s, NEW out, IsTransfer(out), ~NamedAsOwn(s, out), s # ScalarSchema("bool"),
           serializeBorshOutput(out, s).ok
    PROVE  Repeats(serializeBorshOutput(out, s), s, out)
  <1> DEFINE made == createBorshData(s, out)
             d == ErrorField(s, Unwrapped(made.data))
             a == serializeBorshOutput(out, s)
  <1>1. a = BorshLibrary(s, d) /\ made.ok /\ a.ok
    BY DEF serializeBorshOutput, Threw
  <1>2. \A k \in DOMAIN s.fields : k \in DOMAIN out => k = "success" /\ out[k] = "true"
    BY TransferRecognised
  <1>3. TypeOf("true") = "bool" /\ DefaultOf("bool") = "true"
    BY DEF TypeOf, DefaultOf
  <1>4. CASE s.form # "struct"
    <2> DEFINE f == [k \in {"success"} |-> "true"]
    <2>1. made.data = Obj(f) /\ DOMAIN f # {""} /\ ~IsErrorFlag(s)
      BY <1>4 DEF createBorshData, Encoded, IsErrorFlag
    <2> HIDE DEF f, made, a
    <2>2. Holds(d, FALSE, f)
      BY <2>1, Unwrapping, ErrorFlag
    <2> HIDE DEF d
    <2>3. /\ ~a.error /\ DOMAIN s.fields \subseteq DOMAIN f
          /\ \A k \in DOMAIN s.fields : TypeOf(f[k]) = s.fields[k]
          /\ Takes(a, s, f)
      BY <1>1, <2>2, BorshTakes
    <2>4. \A k \in DOMAIN a.data.fields : a.data.fields[k] = DefaultOf(s.fields[k])
      <3>1. \A k \in DOMAIN s.fields : f[k] = "true"
        BY <2>3 DEF f
      <3> QED BY <1>3, <2>3, <3>1 DEF Takes
    <2> QED BY <2>3, <2>4 DEF Repeats, Says, Takes, a
  <1>5. CASE s.form = "struct"
    <2> DEFINE f == [k \in DOMAIN s.fields |-> IF k \in DOMAIN out THEN out[k]
                                               ELSE DefaultOf(s.fields[k])]
    <2>1. made.data = Obj(f)
      BY <1>1, <1>5 DEF createBorshData, Encoded, Threw
    <2> HIDE DEF made, a
    <2>2. DOMAIN f # {""}
      <3>1. SUFFICES ASSUME DOMAIN f = {""} PROVE FALSE
        OBVIOUS
      <3>2. Holds(d, TRUE, [k \in {""} |-> f[""]])
        <4> HIDE DEF f
        <4> QED BY <2>1, <3>1, Unwrapping, ErrorFlag
      <3> HIDE DEF d
      <3>3. s.form = "scalar"
        BY <1>1, <3>2, BorshTakes
      <3> QED BY <1>5, <3>3
    <2>3. Holds(d, FALSE, f)
      <3>1. Holds(Unwrapped(made.data), FALSE, f)
        <4> HIDE DEF f
        <4> QED BY <2>1, <2>2, Unwrapping
      <3>2. IsErrorFlag(s) => f = [k \in {"error"} |-> IF f[k] = "false" THEN "false" ELSE "true"]
        BY <1>2, <1>3 DEF IsErrorFlag
      <3> HIDE DEF f
      <3> QED BY <3>1, <3>2, ErrorFlag
    <2> HIDE DEF d
    <2>4. /\ ~a.error /\ DOMAIN s.fields \subseteq DOMAIN f
          /\ \A k \in DOMAIN s.fields : TypeOf(f[k]) = s.fields[k]
          /\ Takes(a, s, f)
      <3> HIDE DEF f
      <3> QED BY <1>1, <2>3, BorshTakes
    <2>5. \A k \in DOMAIN a.data.fields : a.data.fields[k] = DefaultOf(s.fields[k])
      <3>1. \A k \in DOMAIN s.fields : f[k] = DefaultOf(s.fields[k])
        BY <1>2, <1>3, <2>4 DEF f
      <3> QED BY <2>4, <3>1 DEF Takes
    <2> QED BY <2>4, <2>5 DEF Repeats, Says, Takes, a
  <1> QED BY <1>4, <1>5

LEMMA ReturnRepeated ==
    ASSUME NEW s, NEW out, ~IsTransfer(out), s # ScalarSchema("bool"),
           serializeBorshOutput(out, s).ok
    PROVE  Repeats(serializeBorshOutput(out, s), s, out)
  <1> DEFINE u == Unwrapped(Obj(out))
             d == ErrorField(s, u)
             a == serializeBorshOutput(out, s)
  <1>1. a = BorshLibrary(s, d) /\ a.ok
    BY DEF serializeBorshOutput, Threw, Encoded
  <1> HIDE DEF a
  <1>2. CASE DOMAIN out = {""}
    <2> DEFINE f == [k \in {""} |-> out[""]]
    <2>1. Holds(u, TRUE, f)
      BY <1>2, Unwrapping
    <2> HIDE DEF f, u
    <2>2. Holds(d, TRUE, f)
      BY <2>1, ErrorFlag
    <2> HIDE DEF d
    <2>3. /\ ~a.error /\ DOMAIN s.fields \subseteq DOMAIN f /\ s.form = "scalar"
          /\ Takes(a, s, f)
      BY <1>1, <2>2, BorshTakes
    <2>4. ~IsErrorFlag(s)
      BY <2>3 DEF IsErrorFlag
    <2>5. \A k \in DOMAIN a.data.fields : a.data.fields[k] = out[k]
      BY <2>3 DEF f, Takes
    <2> QED BY <2>3, <2>4, <2>5 DEF Repeats, Says, Takes, a
  <1>3. CASE DOMAIN out # {""} /\ IsErrorFlag(s) /\ "error" \in DOMAIN out
    <2> DEFINE f == [k \in {"error"} |-> IF out[k] = "false" THEN "false" ELSE "true"]
    <2>1. Holds(u, FALSE, out)
      BY <1>3, Unwrapping
    <2> HIDE DEF u
    <2>2. Holds(d, FALSE, f)
      BY <1>3, <2>1, ErrorFlag
    <2> HIDE DEF f, d
    <2>3. /\ ~a.error /\ DOMAIN s.fields \subseteq DOMAIN f
          /\ Takes(a, s, f)
      BY <1>1, <2>2, BorshTakes
    <2>4. \A k \in DOMAIN a.data.fields :
             a.data.fields[k] = IF out[k] = "false" THEN "false" ELSE "true"
      BY <2>3 DEF f, Takes
    <2> QED BY <1>3, <2>3, <2>4 DEF Repeats, Says, Takes, a
  <1>4. CASE DOMAIN out # {""} /\ ~(IsErrorFlag(s) /\ "error" \in DOMAIN out)
    <2>1. Holds(u, FALSE, out)
      BY <1>4, Unwrapping
    <2> HIDE DEF u
    <2>2. Holds(d, FALSE, out)
      BY <1>4, <2>1, ErrorFlag
    <2> HIDE DEF d
    <2>3. /\ ~a.error /\ DOMAIN s.fields \subseteq DOMAIN out
          /\ Takes(a, s, out)
      BY <1>1, <2>2, BorshTakes
    <2>4. ~IsErrorFlag(s)
      BY <1>4, <2>3 DEF IsErrorFlag
    <2>5. \A k \in DOMAIN a.data.fields : a.data.fields[k] = out[k]
      BY <2>3 DEF Takes
    <2> QED BY <2>3, <2>4, <2>5 DEF Repeats, Says, Takes, a
  <1> QED BY <1>2, <1>3, <1>4

LEMMA MidnightRepeated ==
    ASSUME NEW s, NEW out, ~NamedAsOwn(s, out),
           serializeMidnightRespondOutput(out, s).ok
    PROVE  Repeats(serializeMidnightRespondOutput(out, s), s, out)
  <1> DEFINE f == IF IsTransfer(out) THEN [k \in DOMAIN s.fields |-> DefaultOf(s.fields[k])] ELSE out
             a == MidnightLibrary(s, Obj(f))
  <1>1. serializeMidnightRespondOutput(out, s) = a /\ a.ok
    BY DEF serializeMidnightRespondOutput, midnightDefaultOutput, Threw, Encoded
  <1>2. /\ ~a.error /\ s.form = "array"
        /\ a.data.fields = [k \in DOMAIN s.fields |-> f[k]]
    <2> HIDE DEF f
    <2> QED BY <1>1 DEF MidnightLibrary, Taken, Encoded, Threw, Obj
  <1>3. ~IsErrorFlag(s)
    BY <1>2 DEF IsErrorFlag
  <1> HIDE DEF a
  <1>4. \A k \in DOMAIN a.data.fields :
           a.data.fields[k] = IF IsTransfer(out) THEN DefaultOf(s.fields[k]) ELSE out[k]
    BY <1>2
  <1> QED BY <1>1, <1>2, <1>3, <1>4 DEF Repeats, Says

------------------------------------------------------------------------------
(* The theorem.                                                               *)

\* serializeBorshOutput 836-909 and serializeMidnightRespondOutput 737-804: the
\* answer to a transaction that did not fail, if it can be serialised at all,
\* repeats what the transaction returned or a transfer's defaults, for any
\* schema but "bool" and unless a field has the name that tells a transfer.
THEOREM AnswerRepeats ==
    ASSUME NEW source, NEW s, NEW out,
           ~NamedAsOwn(s, out), s # ScalarSchema("bool"),
           Answer(source, s, FALSE, out).ok
    PROVE  Repeats(Answer(source, s, FALSE, out), s, out)
  <1>1. CASE source = "midnight"
    BY <1>1, MidnightRepeated DEF Answer
  <1>2. CASE source # "midnight"
    BY <1>2, TransferRepeated, ReturnRepeated DEF Answer
  <1> QED BY <1>1, <1>2
================================================================================
