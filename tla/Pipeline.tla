------------------------------ MODULE Pipeline ------------------------------
(***************************************************************************)
(* The routing pipeline: consumers and outbox workers, separate processes  *)
(* that share nothing but the table outbox_events.                         *)
(***************************************************************************)
EXTENDS Consumer, OutboxWorker

pipelineVars == <<consumerVars, workerVars, outbox>>

PipelineInit == ConsumerInit /\ WorkerInit

PipelineNext ==
    \/ ConsumerNext /\ UNCHANGED workerVars
    \/ WorkerNext /\ UNCHANGED consumerVars

PipelineSpec == PipelineInit /\ [][PipelineNext]_pipelineVars

(***************************************************************************)
(* The courier the pipeline implements: an event is accepted when its row  *)
(* is in the table and recorded when published_at is set.                  *)
(***************************************************************************)
CourierOf == INSTANCE Courier WITH
    Partitions <- Partition,
    End        <- [p \in Partition |-> Len(Log[p])],
    NoEvent    <- <<>>,
    EventOf    <- [p \in Partition |-> [o \in 1..Len(Log[p]) |->
                      IF Deliverable(Rec(p, o)) THEN RowID(Rec(p, o)) ELSE <<>>]],
    Refusable  <- [p \in Partition |-> {o \in 1..Len(Log[p]) : Rejectable(Rec(p, o))}],
    accepted   <- DOMAIN outbox,
    rejected   <- dlq,
    acked      <- committed,
    delivered  <- Delivered,
    recorded   <- {id \in DOMAIN outbox : outbox[id].published}

\* The pipeline's steps are the courier's: whatever fails in between, nothing is
\* acknowledged before it is durable, delivered before it is accepted, or
\* recorded before it is delivered.
ImplementsCourier == CourierOf!CourierSafety

\* The fields the router rewrites.
Deltas == {"eventType", "producer", "eventID"}

SameJSON(raw, source) ==
    IF Present(source) THEN raw.body = source.body ELSE ~Present(raw)

\* Every routed record answers a processed one: it is in the topic of that
\* record's caller, keyed by its external_ref, and says the same but for the
\* three rewritten fields, however many stores it went through.
DeliveredFaithfully ==
    \A i \in DOMAIN routed :
        \E p \in Partition : \E o \in 1..Len(Log[p]) :
            LET src == Rec(p, o).value
                out == routed[i].value
            IN  /\ Deliverable(Rec(p, o))
                /\ routed[i].eventID = RowID(Rec(p, o))
                /\ out.eventID = routed[i].eventID
                /\ routed[i].topic = RoutedTopic(src.callerID)
                /\ routed[i].key = src.externalRef
                /\ \A f \in DOMAIN src \ (Deltas \cup {"data", "error"}) : out[f] = src[f]
                /\ SameJSON(out.data, src.data) /\ SameJSON(out.error, src.error)
=============================================================================
