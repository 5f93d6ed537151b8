--------------------------- MODULE MCOutboxWorker ---------------------------
(***************************************************************************)
(* Instances of OutboxWorker for TLC: a table that receives two rows of    *)
(* one requester, drained by one worker or by several.                     *)
(***************************************************************************)
EXTENDS OutboxWorker, TLC

CONSTANTS w1, w2, u1, u2, d1

MCUUIDOf == [e1 |-> u1, e2 |-> u2, doc |-> d1]

Processed(e) ==
    [schemaVersion |-> "1", eventID |-> e, eventType |-> "document.processed",
     occurredAt |-> "now", documentID |-> "doc", externalRef |-> "ref",
     callerID |-> "expense", idempotencyKey |-> "key", producer |-> "ocr",
     data |-> [body |-> "text", form |-> "source"], error |-> Absent]

OneArrival  == {Processed("e1")}
TwoArrivals == {Processed("e1"), Processed("e2")}

TwoWorkers == Permutations({w1, w2})
=============================================================================
