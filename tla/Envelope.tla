------------------------------ MODULE Envelope ------------------------------
(***************************************************************************)
(* The wire shape of one OCR document event (internal/envelope) and the    *)
(* router's rewriting of it (internal/service/router, internal/constant).  *)
(*                                                                         *)
(* A record's value is either NotJSON (json.Unmarshal fails) or an         *)
(* envelope: a record of texts, where Missing is the empty string, and of  *)
(* the two raw JSON members data and error.  A raw member has a body (what *)
(* the JSON says) and a form (which bytes say it): the producer's own,     *)
(* compacted by encoding/json, or reprinted by Postgres from JSONB.        *)
(***************************************************************************)

CONSTANTS
    NotJSON,        \* a record value encoding/json cannot decode
    Timestamps,     \* the occurred_at texts time.Parse(RFC3339) accepts
    UUIDOf,         \* texts uuid.Parse accepts |-> the UUID they denote
    NULBodies       \* raw bodies that hold \u0000, which JSONB refuses

Missing == ""

Absent == [body |-> "absent", form |-> "none"]
Null   == [body |-> "null",   form |-> "none"]

\* A raw member carries a value.
Present(raw) == raw.body \notin {"absent", "null"}

Required == {"schemaVersion", "eventID", "documentID", "externalRef",
             "callerID", "idempotencyKey"}

\* The members of the struct; JSON that names others decodes all the same.
Fields == Required \cup {"eventType", "occurredAt", "producer", "data", "error"}

\* What json.Unmarshal makes of a record value it can decode.
IsEnvelope(value) ==
    /\ DOMAIN value = Fields
    /\ \A f \in {"data", "error"} : DOMAIN value[f] = {"body", "form"}

\* Parse returns no error.
Parses(value) ==
    /\ value # NotJSON
    /\ value.eventType = "document.processed"
    /\ \A f \in Required : value[f] # Missing
    /\ value.occurredAt \in Timestamps
    /\ Present(value.data) # Present(value.error)

\* The checks Handle makes before it touches Redis; failing one is a
\* PermanentError.  callers are the caller_ids of the registry Handle asks.
Routable(env, callers) ==
    /\ env.callerID \in callers
    /\ env.documentID \in DOMAIN UUIDOf
    /\ env.eventID \in DOMAIN UUIDOf

\* uuid.NewSHA1 over the namespace and the parsed event_id: a function of the
\* UUID, not of its spelling, taken to be injective and never a source id.
RoutedID(uuid) == <<"routed", uuid>>

\* fmt.Sprintf of the validated template, which has exactly one %s.
RoutedTopic(callerID) == <<"ocr.document.routed", callerID>>

\* json.Marshal of a RawMessage: nil becomes null, white space is dropped.
Compact(raw) ==
    IF raw = Absent THEN Null
    ELSE IF Present(raw) THEN [raw EXCEPT !.form = "compact"] ELSE raw

\* The three rewritten fields; the rest of the envelope is copied.
Rewrite(env) ==
    [env EXCEPT !.eventType = "document.routed",
                !.producer  = "ocr-gateway",
                !.eventID   = RoutedID(UUIDOf[env.eventID])]

\* Envelope.Marshal: the known fields only, raw members compacted.
Marshal(env) ==
    [env EXCEPT !.data = Compact(@), !.error = Compact(@)]

\* Storing JSON text in a JSONB column and reading it back: object members are
\* reordered and the text is printed anew, so the producer's bytes are gone.
Reprint(raw) == IF Present(raw) THEN [raw EXCEPT !.form = "jsonb"] ELSE raw

Jsonb(env) == [env EXCEPT !.data = Reprint(@), !.error = Reprint(@)]

\* JSONB refuses a value that holds the escape \u0000.
Storable(env) == {env.data.body, env.error.body} \cap NULBodies = {}

\* The columns CreateOutboxEvent is given, as the table then holds them.
Columns(env, traceID) ==
    [topic       |-> RoutedTopic(env.callerID),
     aggregateID |-> UUIDOf[env.documentID],
     payload     |-> Jsonb(Marshal(Rewrite(env))),
     traceID     |-> traceID]

\* Mutant of RoutedRecord: keyed by the document.
RoutedRecordByDocument(id, columns) ==
    [topic |-> columns.topic, key |-> columns.aggregateID, value |-> columns.payload,
     eventID |-> id, aggID |-> columns.aggregateID, traceID |-> columns.traceID]

\* The Kafka record publishEvent builds from a row: the key is the caller's
\* external_ref, read back from the stored payload.
RoutedRecord(id, columns) ==
    [topic |-> columns.topic,
     key   |-> IF columns.payload.externalRef # Missing
                 THEN columns.payload.externalRef
                 ELSE columns.aggregateID,
     value   |-> columns.payload,
     eventID |-> id,
     aggID   |-> columns.aggregateID,
     traceID |-> columns.traceID]
=============================================================================
