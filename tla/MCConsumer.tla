----------------------------- MODULE MCConsumer -----------------------------
(***************************************************************************)
(* Instances of Consumer for TLC.  The records stand for the cases the     *)
(* code tells apart; the cfg files choose which of them each partition     *)
(* holds.                                                                  *)
(***************************************************************************)
EXTENDS Consumer, TLC

CONSTANTS c1, c2, p1, p2, u1, u2, d1

MCTimestamps == {"2026-01-01T00:00:00Z"}

\* Two spellings of the UUID u1, one of u2, one of the document's d1.
MCUUIDOf == [e1 |-> u1, E1 |-> u1, e2 |-> u2, doc |-> d1]

\* Before a rollout and after it: the caller travel is new.
MCRegistries == {{"expense"}, {"expense", "travel"}}

MCNULBodies == {"nul"}

Result(body) == [body |-> body, form |-> "source"]

\* A well-formed envelope of the caller, with the event_id e and the data d.
Processed(e, caller, d) ==
    [schemaVersion |-> "1", eventID |-> e, eventType |-> "document.processed",
     occurredAt |-> "2026-01-01T00:00:00Z", documentID |-> "doc",
     externalRef |-> "ref", callerID |-> caller, idempotencyKey |-> "key",
     producer |-> "ocr", data |-> d, error |-> Absent]

Record(value) == [value |-> value, eventID |-> Missing, traceID |-> Missing]

Good      == Record(Processed("e1", "expense", Result("text")))
Respelled == [Record(Processed("E1", "expense", Result("other")))
                EXCEPT !.eventID = "E1"]
Garbage   == Record(NotJSON)
Mismatch  == [Good EXCEPT !.eventID = "e2"]
Newcomer  == Record(Processed("e2", "travel", Result("text")))
Malformed == Record(Processed("e2", "expense", Null))
NUL       == Record(Processed("e2", "expense", Result("nul")))

\* An event, its redelivery under another spelling with other content, and
\* between them an event of the caller only one registry lists.
OneLog == (p1 :> <<Good, Newcomer, Respelled>>)

TwoReplicas == Permutations({c1, c2})

\* Two partitions with every kind of record that ends in the dead-letter topic, a
\* good one among them, and one of the caller only one registry lists.
AllKinds == (p1 :> <<Garbage, Good, Mismatch>>)
                @@ (p2 :> <<Newcomer, Malformed>>)

\* A record Postgres will never store, with a good one behind it.
StuckLog == (p1 :> <<NUL, Good>>)
=============================================================================
