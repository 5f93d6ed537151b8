----------------------------- MODULE MCPipeline -----------------------------
(***************************************************************************)
(* An instance of Pipeline for TLC: one consumer and one worker over a     *)
(* short partition.                                                        *)
(***************************************************************************)
EXTENDS Pipeline, TLC

CONSTANTS c1, w1, p1, u1, u2, d1

MCUUIDOf == [e1 |-> u1, E1 |-> u1, e2 |-> u2, doc |-> d1]

Processed(e, caller, ref, data, error) ==
    [value |-> [schemaVersion |-> "1", eventID |-> e, eventType |-> "document.processed",
                occurredAt |-> "now", documentID |-> "doc", externalRef |-> ref,
                callerID |-> caller, idempotencyKey |-> "key", producer |-> "ocr",
                data |-> data, error |-> error],
     eventID |-> Missing, traceID |-> Missing]

Text   == [body |-> "text", form |-> "source"]
Failed == [body |-> "failed", form |-> "source"]

\* An event with a result, one no caller waits for, and one with an error.
MixedLog == (p1 :> <<Processed("e1", "expense", "ref1", Text, Absent),
                     Processed("e2", "nobody", "ref2", Text, Absent),
                     Processed("e2", "travel", "ref1", Null, Failed)>>)

NoArrivals == {}

\* Everything but the worker's history variables, which no guard and no property
\* of the pipeline reads.
View == <<consumerVars, wpc, batch, hand, routed, outbox>>
=============================================================================
