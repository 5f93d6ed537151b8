----------------------------- MODULE GatewayApi -----------------------------
(***************************************************************************)
(* Kontrak A end to end: callers submit documents through the gRPC         *)
(* replicas to ocr and poll for them, and the consumer hands the results   *)
(* back to the caller ocr names.  Every process has the registry of the    *)
(* environment it booted with, and environments are rolled out one process *)
(* at a time, so at any moment the processes may disagree.                 *)
(*                                                                         *)
(* An intent is a document a caller wants read: one idempotency key and    *)
(* one external_ref, both the intent itself here (Kontrak A asks callers   *)
(* for a UUID).  Its calls may overlap: a caller retries what it gave up   *)
(* on while the first call is still on its way.                            *)
(*                                                                         *)
(* ocr is external.  A document_id stands one to one for the idempotency   *)
(* key it was created under (documents.idempotency_key UNIQUE).  Whether   *)
(* the limiter denies is left open here; RateLimiter says when it does.    *)
(* Dedupe, outbox and delivery of results are in Consumer and Pipeline.    *)
(***************************************************************************)
EXTENDS Registry, TLC

CONSTANTS
    Replica,      \* the gRPC processes
    Consumer,     \* the consumer process
    Environments, \* the texts GATEWAY_CALLERS takes, one rollout after the other
    Intent,       \* the documents the callers want read
    Request,      \* Request[i]: the caller's true name, its key, and the fields it fills in
    Slot,         \* one for each call of SubmitDocument that may be open at a time
    Outcomes,     \* Outcomes[i]: the answers ocr may come to for i: status, result, error
    Nil           \* an empty key or id, an unset message field, no answer yet

Process == Replica \cup {Consumer}

Epochs == 1..Len(Environments)

ASSUME GatewayAssumption ==
    /\ Consumer \notin Replica
    /\ Len(Environments) \in Nat \ {0}
    /\ \A e \in Epochs :
          \/ Environments[e] = NotJSON
          \/ Len(Environments[e]) \in Nat /\ DOMAIN Environments[e] = 1..Len(Environments[e])
    /\ \A i \in Intent : DOMAIN Request[i] = {"name", "key", "docType", "source", "fields"}
    /\ Intent \subseteq DOMAIN Outcomes
    /\ Nil \notin Keys \cup Intent

\* The messages of Kontrak B an answer is made of; bbox, result and error are optional.
IsBox(b) == b = [x1 |-> b.x1, y1 |-> b.y1, x2 |-> b.x2, y2 |-> b.y2]

IsField(f) ==
    /\ f = [name |-> f.name, value |-> f.value, amount |-> f.amount, currency |-> f.currency,
            confidence |-> f.confidence, status |-> f.status, page |-> f.page, bbox |-> f.bbox]
    /\ f.status \in {"UNSPECIFIED", "EXTRACTED", "LOW_CONFIDENCE", "MISSING", "INVALID"}
    /\ f.bbox = Nil \/ IsBox(f.bbox)

IsIssue(x) == x = [code |-> x.code, field |-> x.field, detail |-> x.detail]

IsResult(r) ==
    /\ r = [schemaVersion |-> r.schemaVersion, avgConfidence |-> r.avgConfidence,
            fields |-> [j \in DOMAIN r.fields |-> r.fields[j]],
            issues |-> [j \in DOMAIN r.issues |-> r.issues[j]]]
    /\ \A j \in DOMAIN r.fields : IsField(r.fields[j])
    /\ \A j \in DOMAIN r.issues : IsIssue(r.issues[j])

IsError(e) == e = [code |-> e.code, message |-> e.message]

\* The codes other than NOT_FOUND ocr, or the connection to it, fails a poll with.
EngineFault == {"UNAVAILABLE", "DEADLINE_EXCEEDED", "RESOURCE_EXHAUSTED", "CANCELED", "INTERNAL"}

ASSUME FaultAssumption == Nil \notin EngineFault

\* ocr answers in the shapes of Kontrak B.
ASSUME OutcomeAssumption ==
    \A i \in Intent : \A o \in Outcomes[i] :
        /\ o # Nil
        /\ DOMAIN o = {"status", "result", "error"}
        /\ o.status \in {"PROCESSING", "COMPLETED", "NEEDS_REVIEW", "FAILED"}
        /\ o.result = Nil \/ IsResult(o.result)
        /\ o.error = Nil \/ IsError(o.error)

VARIABLES
    env,        \* the environment a process is given when it boots
    loaded,     \* loaded[p]: the environment process p booted with, 0 if it is down
    rpc,        \* rpc[a]: where the call in slot a is
    wire,       \* submits on their way to ocr whose callers no longer wait
    docs,       \* the documents of ocr
    learned,    \* learned[i]: the document_ids the caller was given for i
    refused,    \* refused[i]: final refusals of i, with the environment they came from
    routed,     \* events handed on: document_id and the caller whose topic they went to
    dead        \* events dead-lettered: document_id and the consumer's environment

apiVars == <<env, loaded, rpc, wire, docs, learned, refused, routed, dead>>

Idle == [pc |-> "idle"]

\* What Load, NewGRPC and RunConsumer make of each environment.
LoadedCallers == [e \in Epochs |-> Load(Environments[e])]

Bootable == {e \in Epochs : LoadedCallers[e] # Refused}

Registries == [e \in Bootable |-> NewCallerRegistry(LoadedCallers[e])]

RateLimits == [e \in Bootable |-> Limits(LoadedCallers[e])]

\* Lookup's nil is not a caller.
ASSUME NoCallerAssumption ==
    \A e \in Bootable : \A h \in DOMAIN Registries[e] : Registries[e][h] # NoCaller

Up(p) == loaded[p] # 0

(***************************************************************************)
(* Errors and statuses.                                                    *)
(***************************************************************************)

ServiceError(httpStatus) == [from |-> "service", status |-> httpStatus]

EngineError(code) == [from |-> "ocr", status |-> code]

FromHTTPStatus(s) ==
    CASE s = 400 -> "INVALID_ARGUMENT"    [] s = 401 -> "UNAUTHENTICATED"
      [] s = 403 -> "PERMISSION_DENIED"   [] s = 404 -> "NOT_FOUND"
      [] s = 409 -> "ALREADY_EXISTS"      [] s = 408 -> "DEADLINE_EXCEEDED"
      [] s = 429 -> "RESOURCE_EXHAUSTED"  [] s = 501 -> "UNIMPLEMENTED"
      [] s = 503 -> "UNAVAILABLE"         [] s = 504 -> "DEADLINE_EXCEEDED"
      [] OTHER -> "UNKNOWN"

\* Mutant of ToStatus: an error that is not the service's own has no code.
ToStatusOwn(err) == IF err.from = "service" THEN FromHTTPStatus(err.status) ELSE "UNKNOWN"

\* toStatus: errors of ocr pass unchanged.
ToStatus(err) == IF err.from = "service" THEN FromHTTPStatus(err.status) ELSE err.status

\* What a caller repeats: the retryable codes of the contract.
Retryable == {"UNAVAILABLE", "DEADLINE_EXCEEDED", "RESOURCE_EXHAUSTED"}

\* What the caller makes of the answer that ends a call for i at r, about the document
\* k if it names one: an error that names the original document is as good as OK, a
\* retryable code is an invitation, and every other code a refusal.
Reply(i, r, code, k) ==
    /\ learned' = IF code \in {"OK", "ALREADY_EXISTS"} THEN [learned EXCEPT ![i] = @ \cup {k}] ELSE learned
    /\ refused' = IF code \in {"OK", "ALREADY_EXISTS"} \cup Retryable THEN refused
                  ELSE [refused EXCEPT ![i] = @ \cup {[code |-> code, epoch |-> loaded[r]]}]

\* The call in slot a ends with this answer of the gateway's.
End(a, code) ==
    /\ rpc' = [rpc EXCEPT ![a] = Idle]
    /\ Reply(rpc[a].intent, rpc[a].at, code, IF rpc[a].pc = "ocr" THEN rpc[a].msg.key ELSE Nil)

(***************************************************************************)
(* SubmitDocument.                                                         *)
(***************************************************************************)

\* authenticate up to the limiter: the caller of a key, or the status it dies with.
Authenticate(r, key) ==
    LET caller == Lookup(Registries[loaded[r]], key)
    IN  IF key = Nil \/ caller = NoCaller
          THEN [rejected |-> TRUE, code |-> "UNAUTHENTICATED"]
          ELSE IF caller.name \notin DOMAIN RateLimits[loaded[r]]
                 THEN [rejected |-> TRUE, code |-> "INTERNAL"]
                 ELSE [rejected |-> FALSE, caller |-> caller]

\* A caller calls while it has neither a document nor a refusal.
Calls(i, r) ==
    /\ Up(r)
    /\ learned[i] = {} /\ refused[i] = {}

Reject(i, r) ==
    LET auth == Authenticate(r, Request[i].key)
    IN  /\ Calls(i, r)
        /\ auth.rejected
        /\ Reply(i, r, auth.code, Nil)
        /\ UNCHANGED <<env, loaded, rpc, wire, docs, routed, dead>>

\* Allow says no: the caller waits as long as retry-after says and calls again.
Limited(i, r) ==
    /\ Calls(i, r)
    /\ ~Authenticate(r, Request[i].key).rejected
    /\ Reply(i, r, "RESOURCE_EXHAUSTED", Nil)
    /\ UNCHANGED <<env, loaded, rpc, wire, docs, routed, dead>>

\* Allow says yes: WithCaller puts the caller in the context of this call.
Admit(i, r, a) ==
    LET auth == Authenticate(r, Request[i].key)
    IN  /\ Calls(i, r)
        /\ ~auth.rejected
        /\ rpc[a] = Idle
        /\ rpc' = [rpc EXCEPT ![a] = [pc |-> "handler", intent |-> i, at |-> r, caller |-> auth.caller]]
        /\ UNCHANGED <<env, loaded, wire, docs, learned, refused, routed, dead>>

\* Mutant of CallerFromContext: the replica keeps the caller, not the call.
CallerOfReplica(a) ==
    LET others == {b \in Slot \ {a} : rpc[b].pc \in {"handler", "ocr"} /\ rpc[b].at = rpc[a].at}
    IN  IF others = {} THEN rpc[a].caller ELSE rpc[CHOOSE b \in others : TRUE].caller

CallerFromContext(a) == rpc[a].caller

\* The errors of SubmitDocument and Submit before ocr is called.
Invalid(a) ==
    LET q == Request[rpc[a].intent]
    IN  \/ ~q.source
        \/ ~q.fields
        \/ q.docType \notin DOMAIN CallerFromContext(a).docTypes

Decline(a) ==
    /\ rpc[a].pc = "handler"
    /\ Invalid(a)
    /\ End(a, ToStatus(ServiceError(400)))
    /\ UNCHANGED <<env, loaded, wire, docs, routed, dead>>

\* Mutant of KontrakB: each call has a key of its own.
KontrakBFreshKey(a) ==
    [key |-> a, ref |-> rpc[a].intent, caller |-> CallerFromContext(a).name,
     schema |-> CallerFromContext(a).docTypes[Request[rpc[a].intent].docType]]

\* Mutant of KontrakB: the business name goes to ocr.
KontrakBDocType(a) ==
    [key |-> rpc[a].intent, ref |-> rpc[a].intent, caller |-> CallerFromContext(a).name,
     schema |-> Request[rpc[a].intent].docType]

\* The request to ocr: the caller's own key and reference, the verified caller,
\* and the schema its registry maps the doc_type to.
KontrakB(a) ==
    [key |-> rpc[a].intent, ref |-> rpc[a].intent, caller |-> CallerFromContext(a).name,
     schema |-> CallerFromContext(a).docTypes[Request[rpc[a].intent].docType]]

Forward(a) ==
    /\ rpc[a].pc = "handler"
    /\ ~Invalid(a)
    /\ rpc' = [rpc EXCEPT ![a] = [pc |-> "ocr", intent |-> @.intent, at |-> @.at,
                                  caller |-> @.caller, msg |-> KontrakB(a)]]
    /\ UNCHANGED <<env, loaded, wire, docs, learned, refused, routed, dead>>

\* ocr takes a submit: the first of a key makes the document.
Create(m) ==
    docs' = IF \E d \in docs : d.key = m.key
              THEN docs
              ELSE docs \cup {[key |-> m.key, ref |-> m.ref, caller |-> m.caller,
                               schema |-> m.schema, answer |-> Nil]}

\* ocr's answer comes back: QUEUED, or ALREADY_EXISTS with the first document's id.
Answered(a) ==
    /\ rpc[a].pc = "ocr"
    /\ Create(rpc[a].msg)
    /\ End(a, IF docs' = docs THEN ToStatus(EngineError("ALREADY_EXISTS")) ELSE "OK")
    /\ UNCHANGED <<env, loaded, wire, routed, dead>>

\* ocr is full, or cannot be reached.  What it refuses for good is left out.
EngineRefuses(a) ==
    /\ rpc[a].pc = "ocr"
    /\ \E code \in {"RESOURCE_EXHAUSTED", "UNAVAILABLE"} : End(a, ToStatus(EngineError(code)))
    /\ UNCHANGED <<env, loaded, wire, docs, routed, dead>>

\* The submits of these slots that may reach ocr without anyone waiting.
Stray(slots) == {rpc[a].msg : a \in {b \in slots : rpc[b].pc = "ocr"}}

\* The deadline of the caller or of the client towards ocr passes.
TimeOut(a) ==
    /\ rpc[a] # Idle
    /\ rpc' = [rpc EXCEPT ![a] = Idle]
    /\ wire' = wire \cup Stray({a})
    /\ UNCHANGED <<env, loaded, docs, learned, refused, routed, dead>>

\* ocr takes a submit nobody waits for.
TakenLate(m) ==
    /\ m \in wire
    /\ Create(m)
    /\ wire' = wire \ {m}
    /\ UNCHANGED <<env, loaded, rpc, learned, refused, routed, dead>>

(***************************************************************************)
(* GetDocument.  An answer is a status with an optional result and an      *)
(* optional error, copied message by message from Kontrak B to Kontrak A.  *)
(***************************************************************************)

\* The enumerators of Kontrak B and of Kontrak A, in the order of their numbers.
OcrStatus == <<"UNSPECIFIED", "QUEUED", "PROCESSING", "COMPLETED", "NEEDS_REVIEW", "FAILED">>

GatewayStatus == <<"UNSPECIFIED", "QUEUED", "PROCESSING", "COMPLETED", "NEEDS_REVIEW", "FAILED">>

OcrFieldStatus == <<"UNSPECIFIED", "EXTRACTED", "LOW_CONFIDENCE", "MISSING", "INVALID">>

GatewayFieldStatus == <<"UNSPECIFIED", "EXTRACTED", "LOW_CONFIDENCE", "MISSING", "INVALID">>

\* A cast keeps the number, whatever each side calls it.
ConvertSubmitStatus(in) == GatewayStatus[CHOOSE n \in DOMAIN OcrStatus : OcrStatus[n] = in]

ConvertFieldStatus(in) ==
    GatewayFieldStatus[CHOOSE n \in DOMAIN OcrFieldStatus : OcrFieldStatus[n] = in]

\* ocr's answer: nothing but the status until the document is read.
OcrAnswer(d) ==
    IF d.answer = Nil THEN [id |-> d.key, status |-> "QUEUED", result |-> Nil, error |-> Nil]
                      ELSE [id |-> d.key, status |-> d.answer.status,
                            result |-> d.answer.result, error |-> d.answer.error]

ConvertBox(b) == [x1 |-> b.x1, y1 |-> b.y1, x2 |-> b.x2, y2 |-> b.y2]

\* Mutant of ConvertField: the box is copied unasked, from the getters of nil.
ConvertFieldWithBox(f) ==
    [name |-> f.name, value |-> f.value, amount |-> f.amount, currency |-> f.currency,
     confidence |-> f.confidence, status |-> ConvertFieldStatus(f.status), page |-> f.page,
     bbox |-> IF f.bbox # Nil THEN ConvertBox(f.bbox) ELSE [x1 |-> 0, y1 |-> 0, x2 |-> 0, y2 |-> 0]]

ConvertField(f) ==
    [name |-> f.name, value |-> f.value, amount |-> f.amount, currency |-> f.currency,
     confidence |-> f.confidence, status |-> ConvertFieldStatus(f.status), page |-> f.page,
     bbox |-> IF f.bbox # Nil THEN ConvertBox(f.bbox) ELSE Nil]

ConvertIssue(x) == [code |-> x.code, field |-> x.field, detail |-> x.detail]

ConvertResult(r) ==
    [schemaVersion |-> r.schemaVersion, avgConfidence |-> r.avgConfidence,
     fields |-> [j \in DOMAIN r.fields |-> ConvertField(r.fields[j])],
     issues |-> [j \in DOMAIN r.issues |-> ConvertIssue(r.issues[j])]]

ConvertError(e) == [code |-> e.code, message |-> e.message]

ConvertGetDocumentResponse(in) ==
    [id     |-> in.id,
     status |-> ConvertSubmitStatus(in.status),
     result |-> IF in.result # Nil THEN ConvertResult(in.result) ELSE Nil,
     error  |-> IF in.error # Nil THEN ConvertError(in.error) ELSE Nil]

\* GetDocument and Get behind the gate, for the id a caller asks for: ocr fails, with
\* this fault, or looks the id up.
GetDocument(id, fault) ==
    LET found == {d \in docs : d.key = id}
    IN  CASE id = Nil -> [code |-> ToStatus(ServiceError(400))]
          [] id # Nil /\ fault # Nil -> [code |-> ToStatus(EngineError(fault))]
          [] id # Nil /\ fault = Nil /\ found = {} -> [code |-> ToStatus(EngineError("NOT_FOUND"))]
          [] OTHER -> [code |-> "OK",
                       body |-> ConvertGetDocumentResponse(OcrAnswer(CHOOSE d \in found : TRUE))]

\* What the caller of i is answered when it polls replica r for id, and ocr answers
\* (fault is Nil) or fails.  A poll passes the gate without the limiter and changes
\* nothing.
Poll(i, r, id, fault) ==
    LET auth == Authenticate(r, Request[i].key)
    IN  IF auth.rejected THEN [code |-> auth.code] ELSE GetDocument(id, fault)

(***************************************************************************)
(* Results.                                                                *)
(***************************************************************************)

\* ocr comes to an answer and publishes document.processed.
Read(d, o) ==
    /\ d \in docs /\ d.answer = Nil
    /\ docs' = (docs \ {d}) \cup {[d EXCEPT !.answer = o]}
    /\ UNCHANGED <<env, loaded, rpc, wire, learned, refused, routed, dead>>

\* The consumer handles the event of a document that is read: once, or again after a
\* commit that failed or a crash, and then perhaps with another registry.
Pending(d) == d \in docs /\ d.answer # Nil /\ Up(Consumer)

Route(d) ==
    /\ Pending(d)
    /\ KnownCaller(Registries[loaded[Consumer]], d.caller)
    /\ routed' = routed \cup {[key |-> d.key, topic |-> d.caller]}
    /\ UNCHANGED <<env, loaded, rpc, wire, docs, learned, refused, dead>>

DeadLetter(d) ==
    /\ Pending(d)
    /\ ~KnownCaller(Registries[loaded[Consumer]], d.caller)
    /\ dead' = dead \cup {[key |-> d.key, epoch |-> loaded[Consumer]]}
    /\ UNCHANGED <<env, loaded, rpc, wire, docs, learned, refused, routed>>

(***************************************************************************)
(* Processes and environments.                                             *)
(***************************************************************************)

\* A process ends, crashed or replaced, and with it the calls it was serving; it
\* comes back with the present environment, or stays down if Load refuses that.
Restart(p) ==
    LET here == {a \in Slot : rpc[a] # Idle /\ rpc[a].at = p}
    IN  /\ Up(p)
        /\ loaded' = [loaded EXCEPT ![p] = IF env \in Bootable THEN env ELSE 0]
        /\ rpc' = [a \in Slot |-> IF a \in here THEN Idle ELSE rpc[a]]
        /\ wire' = wire \cup Stray(here)
        /\ UNCHANGED <<env, docs, learned, refused, routed, dead>>

\* A process that could not boot tries again.
Boot(p) ==
    /\ ~Up(p)
    /\ env \in Bootable
    /\ loaded' = [loaded EXCEPT ![p] = env]
    /\ UNCHANGED <<env, rpc, wire, docs, learned, refused, routed, dead>>

\* The operator changes GATEWAY_CALLERS.
Rollout ==
    /\ env < Len(Environments)
    /\ env' = env + 1
    /\ UNCHANGED <<loaded, rpc, wire, docs, learned, refused, routed, dead>>

ApiInit ==
    /\ env = 1
    /\ loaded = [p \in Process |-> IF 1 \in Bootable THEN 1 ELSE 0]
    /\ rpc = [a \in Slot |-> Idle]
    /\ wire = {} /\ docs = {} /\ routed = {} /\ dead = {}
    /\ learned = [i \in Intent |-> {}]
    /\ refused = [i \in Intent |-> {}]

ApiNext ==
    \/ \E i \in Intent, r \in Replica :
          Reject(i, r) \/ Limited(i, r) \/ \E a \in Slot : Admit(i, r, a)
    \/ \E a \in Slot : Decline(a) \/ Forward(a) \/ Answered(a) \/ EngineRefuses(a) \/ TimeOut(a)
    \/ \E m \in wire : TakenLate(m)
    \/ \E d \in docs : (\E o \in Outcomes[d.ref] : Read(d, o)) \/ Route(d) \/ DeadLetter(d)
    \/ \E p \in Process : Restart(p) \/ Boot(p)
    \/ Rollout

ApiSpec == ApiInit /\ [][ApiNext]_apiVars

(***************************************************************************)
(* Properties.                                                             *)
(***************************************************************************)

\* The callers environment e lists under this name.
Listed(e, name) ==
    IF e \notin Bootable THEN {}
    ELSE {c \in {LoadedCallers[e][j] : j \in DOMAIN LoadedCallers[e]} : c.name = name}

\* Every variable has its type: a call is served by a replica that is up, and what
\* is on its way to ocr names an intent and a caller some environment lists.
ApiTypeOK ==
    /\ env \in Epochs
    /\ loaded \in [Process -> {0} \cup Bootable]
    /\ \A a \in Slot :
          \/ rpc[a] = Idle
          \/ rpc[a].pc \in {"handler", "ocr"} /\ rpc[a].at \in Replica /\ Up(rpc[a].at)
    /\ \A m \in wire \cup Stray(Slot) :
          /\ {m.key, m.ref} \subseteq Intent
          /\ \E e \in Epochs : Listed(e, m.caller) # {}
    /\ \A i \in Intent : learned[i] \subseteq Intent

\* "A resubmit returns ALREADY_EXISTS with the original document_id"
\* (contract.SubmitInput): whatever times out, is retried, overlaps or is taken late,
\* at whichever replicas, ocr has one document for what a caller wants read.
OneDocumentPerIntent == \A d, e \in docs : d.ref = e.ref => d = e

\* A document_id a caller was given, on the first answer or on a retry at another
\* replica, is of its own document, submitted under its own name with a schema its
\* doc_type had in some environment (Submit, toStatus).
LearnedIsOwn ==
    \A i \in Intent : \A k \in learned[i] :
        \E d \in docs :
            /\ d.key = k /\ d.ref = i /\ d.caller = Request[i].name
            /\ \E e \in 1..env : \E c \in Listed(e, d.caller) :
                  <<Request[i].docType, d.schema>> \in {<<t, c.docTypes[t]>> : t \in DOMAIN c.docTypes}

\* A result goes to the topic of the caller that asked for it and to nobody else's,
\* although many callers' calls are served at once and the consumer and the replicas
\* may have different registries (WithCaller, Submit, KnownCaller).
RoutedToSubmitter ==
    \A e \in routed : \E d \in docs : d.key = e.key /\ e.topic = Request[d.ref].name

\* A final refusal has a cause a caller can act on: the replica's environment does
\* not list the caller with its key, or the request is one it may not make.  A full
\* or absent ocr, a known document and the limiter never end in one (authenticate,
\* toStatus).
RefusedForCause ==
    \A i \in Intent : \A f \in refused[i] :
        LET q   == Request[i]
            own == {c \in Listed(f.epoch, q.name) : c.hash = HashAPIKey(q.key)}
        IN  \/ f.code = "UNAUTHENTICATED" /\ own = {}
            \/ /\ f.code = "INVALID_ARGUMENT"
               /\ q.source /\ q.fields => \A c \in own : q.docType \notin DOMAIN c.docTypes

\* A result ocr has for a caller ends in the dead-letter topic only if the consumer
\* booted with an environment that does not list that caller, as happens when the
\* replica that took the document was given a newer one (KnownCaller, NewCallerRegistry).
DeadLetteredForCause ==
    \A e \in dead : \E d \in docs : d.key = e.key /\ Listed(e.epoch, Request[d.ref].name) = {}

\* "The reconciliation sweep and the client both read the same answer ocr would
\* give" (GetDocument): whenever and at whichever replica a caller polls for an id it
\* was given, it reads what ocr answers about its own document, every field of it, or
\* the very code ocr fails with, never NOT_FOUND; unless the replica's environment
\* does not list it.
PolledIsOcrs ==
    \A i \in Intent, r \in Replica : \A k \in learned[i] :
        Up(r) =>
            \/ /\ \E d \in docs : d.ref = i /\ Poll(i, r, k, Nil) = [code |-> "OK", body |-> OcrAnswer(d)]
               /\ \A fault \in EngineFault : Poll(i, r, k, fault) = [code |-> fault]
            \/ /\ \A fault \in EngineFault \cup {Nil} : Poll(i, r, k, fault) = [code |-> "UNAUTHENTICATED"]
               /\ \A c \in Listed(loaded[r], Request[i].name) : c.hash # HashAPIKey(Request[i].key)
=============================================================================
