---------------------------- MODULE MCSourceLegs ----------------------------
EXTENDS SourceLegs, TLC

\* A Solana transaction with a signature request, a bidirectional request and
\* what the parser drops or has no handler for.
MCInstructions == <<[kind |-> "foreign", req |-> NoReq],
                    [kind |-> "signBidirectionalEvent", req |-> "s1"],
                    [kind |-> "signatureRespondedEvent", req |-> NoReq],
                    [kind |-> "undecodable", req |-> NoReq],
                    [kind |-> "signatureRequestedEvent", req |-> "s2"]>>

Flag     == [k \in {"error"} |-> "bool"]
Named    == [ok |-> "bool", text |-> "string"]
MCSchemasOf(r) ==
  CASE r = "s1" -> {Schema("struct", Named)}
    [] r = "p1" -> {Schema("struct", Flag)}
    [] OTHER    -> {Schema("array", Named)}

\* A transaction that fails or whose output does not fit the schema, a contract
\* call that returns false, a transfer.
MCResultsOf(r, s) ==
  CASE r = "s1" -> {Failed, Yields([k \in {"ok"} |-> "true"])}
    [] r = "p1" -> {Yields([k \in {"error"} |-> "false"])}
    [] OTHER    -> {Yields(Transfer)}

\* The schema "bool" and a call that returns false.
BoolSchemasOf(r) == IF r = "s1" THEN {ScalarSchema("bool")} ELSE MCSchemasOf(r)
BoolResultsOf(r, s) ==
  IF r = "s1" THEN {Failed, Yields([k \in {""} |-> "false"])} ELSE MCResultsOf(r, s)
=============================================================================
