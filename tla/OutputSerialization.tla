------------------------- MODULE OutputSerialization -------------------------
(* What the server reports of a transaction on the source chain: the value    *)
(* read on the destination chain, encoded with the schema the request came    *)
(* with (server 737-952) or the error answer (server 985-999).                *)
(*                                                                            *)
(* A JavaScript value is a string naming it, an object a function from field  *)
(* names to values, and encoded bytes are the object they decode to.          *)
EXTENDS FiniteSets

Obj(fields)    == [scalar |-> FALSE, fields |-> fields]
Scalar(v)      == [scalar |-> TRUE, fields |-> [k \in {""} |-> v]]
Encoded(data)  == [ok |-> TRUE, error |-> FALSE, data |-> data]
Threw          == [ok |-> FALSE, error |-> FALSE, data |-> Obj(<<>>)]

\* The 0xDEADBEEF answer, which no schema takes part in.
ErrorAnswer    == [ok |-> TRUE, error |-> TRUE, data |-> Obj(<<>>)]

\* A request's schema after borshSchemaString: nothing before the first NUL,
\* text that is no JSON, a JSON string (a scalar type), an object with
\* "struct", or the array of {name, type} that output schemas are written in.
SchemaForms    == {"empty", "text", "scalar", "struct", "array"}
Schema(form, fields) == [form |-> form, fields |-> fields]
ScalarSchema(type)   == Schema("scalar", [k \in {""} |-> type])
Parses(schema)       == schema.form \notin {"empty", "text"}

TypeOf(v) == CASE v \in {"true", "false"} -> "bool"
               [] v = "number"            -> "number"
               [] OTHER                   -> "string"

\* What EthereumMonitor makes of a mined transaction: a plain transfer returns
\* nothing, a contract call what its output schema decodes.
Transfer        == [success |-> "true", isFunctionCall |-> "false"]
IsTransfer(out) == "isFunctionCall" \in DOMAIN out /\ out["isFunctionCall"] = "false"

\* The libraries: every field of the schema must be there with its type;
\* borsh takes no array for a schema.
Fits(data, fields) == /\ DOMAIN fields \subseteq DOMAIN data.fields
                      /\ \A k \in DOMAIN fields : TypeOf(data.fields[k]) = fields[k]
Taken(data, fields) ==
  Encoded([data EXCEPT !.fields = [k \in DOMAIN fields |-> data.fields[k]]])
BorshLibrary(schema, data) ==
  IF /\ schema.form # "array"
     /\ data.scalar <=> schema.form = "scalar"
     /\ Fits(data, schema.fields)
  THEN Taken(data, schema.fields)
  ELSE Threw
MidnightLibrary(schema, data) ==
  IF schema.form = "array" /\ Fits(data, schema.fields)
  THEN Taken(data, schema.fields)
  ELSE Threw

\* The defaults a transfer's answer is filled with; other types have none.
HasDefault(type) == type \in {"bool", "string"}
DefaultOf(type)  == IF type = "bool" THEN "true" ELSE "non_function_call_success"

------------------------------------------------------------------------------
(* Solana and Substrate: Borsh.                                               *)

\* Only a schema with "struct" lists fields; a field the output happens to
\* have is taken from it.
createBorshData(schema, out) ==
  LET wanted == DOMAIN schema.fields
      ownValue(k) == k \in DOMAIN out
  IN  IF schema.form # "struct" THEN Encoded(Obj([k \in {"success"} |-> "true"]))
      ELSE IF \E k \in wanted : ~ownValue(k) /\ ~HasDefault(schema.fields[k]) THEN Threw
      ELSE Encoded(Obj([k \in wanted |-> IF ownValue(k) THEN out[k]
                                         ELSE DefaultOf(schema.fields[k])]))

\* A schema that is the word "bool": a field named error decides, then one
\* named success, and otherwise the answer is true.
ScalarBool(out) ==
  LET decides == IF "error" \in DOMAIN out THEN "error" ELSE "success"
  IN  IF decides \in DOMAIN out
      THEN IF out[decides] = "false" THEN "false" ELSE "true"
      ELSE "true"

\* An object whose only key is "" stands for its value.
Unwrapped(data) ==
  IF DOMAIN data.fields = {""} THEN Scalar(data.fields[""]) ELSE data

\* {struct: {error: bool}}: whatever error is, it is made a boolean.
ErrorField_Present(schema, data) ==
  IF ~data.scalar /\ "error" \in DOMAIN data.fields
  THEN Obj([k \in {"error"} |-> "true"])
  ELSE data
IsErrorFlag(schema) ==
  /\ schema.form = "struct" /\ DOMAIN schema.fields = {"error"}
  /\ schema.fields["error"] = "bool"
ErrorField(schema, data) ==
  IF /\ IsErrorFlag(schema)
     /\ ~data.scalar /\ "error" \in DOMAIN data.fields
  THEN Obj([k \in {"error"} |-> IF data.fields[k] = "false" THEN "false" ELSE "true"])
  ELSE data

serializeBorshOutput(out, schema) ==
  IF ~Parses(schema) THEN Threw
  ELSE IF schema = ScalarSchema("bool") THEN Encoded(Scalar(ScalarBool(out)))
  ELSE LET made == IF IsTransfer(out) THEN createBorshData(schema, out)
                                      ELSE Encoded(Obj(out))
       IN  IF made.ok THEN BorshLibrary(schema, ErrorField(schema, Unwrapped(made.data)))
           ELSE Threw

------------------------------------------------------------------------------
(* Midnight: the packed encoding of an array schema.                          *)

midnightDefaultOutput(schema) ==
  IF schema.form = "array" /\ \A k \in DOMAIN schema.fields : HasDefault(schema.fields[k])
  THEN Encoded(Obj([k \in DOMAIN schema.fields |-> DefaultOf(schema.fields[k])]))
  ELSE Threw

serializeMidnightRespondOutput(out, schema) ==
  LET made == IF IsTransfer(out) THEN midnightDefaultOutput(schema)
                                 ELSE Encoded(Obj(out))
  IN  IF made.ok THEN MidnightLibrary(schema, made.data) ELSE Threw

------------------------------------------------------------------------------
\* The answer to a request of that source: handleFailedTransaction needs no
\* schema, handleCompletedTransaction serialises or throws.
Answer_ErrorIfThrown(source, schema, failed, out) ==
  LET made == IF source = "midnight" THEN serializeMidnightRespondOutput(out, schema)
                                     ELSE serializeBorshOutput(out, schema)
  IN  IF failed \/ ~made.ok THEN ErrorAnswer ELSE made
Answer(source, schema, failed, out) ==
  IF failed THEN ErrorAnswer
  ELSE IF source = "midnight" THEN serializeMidnightRespondOutput(out, schema)
  ELSE serializeBorshOutput(out, schema)

------------------------------------------------------------------------------
(* What an answer should say, without the encoders.                           *)

\* Every field of the schema and no other, and in it what was returned; a
\* transfer has the defaults of default_output_for_non_contract_call, and a
\* lone flag "error" is true unless what was returned is false.
Says(s, out, k) ==
  CASE IsTransfer(out) -> DefaultOf(s.fields[k])
    [] IsErrorFlag(s) /\ ~IsTransfer(out) -> IF out[k] = "false" THEN "false" ELSE "true"
    [] OTHER -> out[k]
Repeats(a, s, out) ==
  /\ ~a.error /\ DOMAIN a.data.fields = DOMAIN s.fields
  /\ \A k \in DOMAIN s.fields : a.data.fields[k] = Says(s, out, k)

\* The output of a transfer is told by a field of the server's own, so that a
\* returned value that has it is taken for one, and a schema that names it gets
\* it instead of the default.
NamedAsOwn(s, out) ==
  IsTransfer(out) /\ (out # Transfer \/ "isFunctionCall" \in DOMAIN s.fields)
==============================================================================
