---------------------------- MODULE OutboxWorker ----------------------------
(***************************************************************************)
(* The outbox worker (internal/app/worker.go and internal/service/outbox): *)
(* on each tick of its timer a worker claims a batch of pending rows and,  *)
(* row by row, publishes to Kafka and records the outcome in the table.    *)
(*                                                                         *)
(* A worker may stop between any two steps for longer than the lock lasts. *)
(* A publish or a statement that reports an error may have taken effect.   *)
(***************************************************************************)
EXTENDS Envelope, OutboxEvents, Sequences

CONSTANT Arrivals   \* envelopes the router may still route, see Arrive

VARIABLES
    wpc,        \* where each worker is: down, idle, loop, sent or unsent
    batch,      \* the rows it has claimed and not yet tried, as RETURNING gave them
    hand,       \* the row it is publishing, or NoRow
    routed,     \* the routed topics: first deliveries, in order
    repeated,   \* the rows delivered more than once
    overrun,    \* history: rows whose lock ran out while a worker was at them
    ambiguous   \* history: rows whose delivery reported an error or was not recorded

workerVars == <<wpc, batch, hand, routed, repeated, overrun, ambiguous>>

NoRow == [id |-> <<>>, attempts |-> 0]

\* The rows a worker believes it holds.
Held(w) == {r.id : r \in batch[w]} \cup ({hand[w].id} \ {NoRow.id})

Delivered == {routed[i].eventID : i \in DOMAIN routed}

WGoto(w, state) == wpc' = [wpc EXCEPT ![w] = state]

\* Kafka appends the record of row id to its topic.
Produce(id) ==
    IF id \in Delivered
      THEN repeated' = repeated \cup {id} /\ UNCHANGED routed
      ELSE /\ routed' = routed \o <<RoutedRecord(id, outbox[id].columns)>>
           /\ UNCHANGED repeated

\* The loop moves on to the next row of the batch, or back to the timer.
Advance(w) ==
    /\ WGoto(w, IF batch[w] = {} THEN "idle" ELSE "loop")
    /\ hand' = [hand EXCEPT ![w] = NoRow]

WorkerStart(w) ==
    /\ wpc[w] = "down"
    /\ WGoto(w, "idle")
    /\ UNCHANGED <<batch, hand, routed, repeated, overrun, ambiguous, outbox>>

\* Rows another worker's statement may have locked at this instant, which
\* SKIP LOCKED passes over.
InFlight(w) ==
    {hand[v].id : v \in {v \in Worker \ {w} : wpc[v] \in {"sent", "unsent"}}}

\* ClaimPendingOutboxEvents.  The rows come back in no particular order.
Claim(w) ==
    /\ wpc[w] = "idle"
    /\ \E skipped \in SUBSET (InFlight(w) \cap Claimable) :
          LET ids == Oldest(Claimable \ skipped) IN
          /\ ids # {}
          /\ Lock(w, ids)
          /\ batch' = [batch EXCEPT ![w] = {[id |-> i, attempts |-> outbox[i].attempts] : i \in ids}]
    /\ WGoto(w, "loop")
    /\ UNCHANGED <<hand, routed, repeated, overrun, ambiguous>>

\* The claim commits but its answer is lost: the tick is over, the rows stay
\* locked until the lock is too old.
ClaimLost(w) ==
    /\ wpc[w] = "idle"
    /\ Claimable # {}
    /\ Lock(w, Oldest(Claimable))
    /\ UNCHANGED workerVars

\* producer.Publish of the next row returns nil.
Publish(w) ==
    /\ wpc[w] = "loop"
    /\ \E r \in batch[w] :
          /\ batch' = [batch EXCEPT ![w] = @ \ {r}]
          /\ hand' = [hand EXCEPT ![w] = r]
          /\ Produce(r.id)
    /\ WGoto(w, "sent")
    /\ UNCHANGED <<overrun, ambiguous, outbox>>

\* Mutant of PublishFails: the error is overlooked.
PublishFailsOverlooked(w) ==
    /\ wpc[w] = "loop"
    /\ \E r \in batch[w] :
          /\ batch' = [batch EXCEPT ![w] = @ \ {r}]
          /\ hand' = [hand EXCEPT ![w] = r]
    /\ WGoto(w, "sent")
    /\ UNCHANGED <<routed, repeated, overrun, ambiguous, outbox>>

\* producer.Publish returns an error; the record may be in the topic all the same.
PublishFails(w) ==
    /\ wpc[w] = "loop"
    /\ \E r \in batch[w] :
          /\ batch' = [batch EXCEPT ![w] = @ \ {r}]
          /\ hand' = [hand EXCEPT ![w] = r]
          /\ \/ UNCHANGED <<routed, repeated, ambiguous>>
             \/ Produce(r.id) /\ ambiguous' = ambiguous \cup {r.id}
    /\ WGoto(w, "unsent")
    /\ UNCHANGED <<overrun, outbox>>

MarkPublished(w) ==
    /\ wpc[w] = "sent"
    /\ MarkOutboxEventPublished(hand[w].id)
    /\ Advance(w)
    /\ UNCHANGED <<batch, routed, repeated, overrun, ambiguous>>

\* The error is logged; the row stays locked.
MarkPublishedFails(w) ==
    /\ wpc[w] = "sent"
    /\ \/ UNCHANGED outbox
       \/ MarkOutboxEventPublished(hand[w].id)
    /\ ambiguous' = ambiguous \cup {hand[w].id}
    /\ Advance(w)
    /\ UNCHANGED <<batch, routed, repeated, overrun>>

\* The backoff is computed from the attempt_count the claim returned.
MarkFailed(w) ==
    /\ wpc[w] = "unsent"
    /\ MarkOutboxEventFailed(hand[w].id, Backoff(hand[w].attempts))
    /\ Advance(w)
    /\ UNCHANGED <<batch, routed, repeated, overrun, ambiguous>>

MarkFailedFails(w) ==
    /\ wpc[w] = "unsent"
    /\ \/ UNCHANGED outbox
       \/ MarkOutboxEventFailed(hand[w].id, Backoff(hand[w].attempts))
    /\ Advance(w)
    /\ UNCHANGED <<batch, routed, repeated, overrun, ambiguous>>

\* The process ends: killed, or SIGTERM cancels the context and every call left
\* in the batch fails.  Nothing unlocks the rows.
WorkerStop(w) ==
    /\ wpc[w] # "down"
    /\ WGoto(w, "down")
    /\ batch' = [batch EXCEPT ![w] = {}]
    /\ hand' = [hand EXCEPT ![w] = NoRow]
    /\ ambiguous' = IF wpc[w] = "sent" THEN ambiguous \cup {hand[w].id} ELSE ambiguous
    /\ UNCHANGED <<routed, repeated, overrun, outbox>>

Tick ==
    /\ Elapse
    /\ overrun' = overrun \cup
          {id \in UNION {Held(w) : w \in Worker} : outbox[id].lease = 1}
    /\ UNCHANGED <<wpc, batch, hand, routed, repeated, ambiguous>>

WorkerInit ==
    /\ wpc = [w \in Worker |-> "down"]
    /\ batch = [w \in Worker |-> {}]
    /\ hand = [w \in Worker |-> NoRow]
    /\ routed = <<>>
    /\ repeated = {}
    /\ overrun = {}
    /\ ambiguous = {}

WorkerStep(w) ==
    \/ WorkerStart(w) \/ Claim(w) \/ ClaimLost(w)
    \/ Publish(w) \/ PublishFails(w)
    \/ MarkPublished(w) \/ MarkPublishedFails(w)
    \/ MarkFailed(w) \/ MarkFailedFails(w)
    \/ WorkerStop(w)

WorkerNext == (\E w \in Worker : WorkerStep(w)) \/ Tick

\* The router's transaction, for a table without a consumer next to it.
Arrive ==
    /\ \E env \in Arrivals :
          /\ RoutedID(UUIDOf[env.eventID]) \notin DOMAIN outbox
          /\ CreateOutboxEvent(RoutedID(UUIDOf[env.eventID]), Columns(env, Missing))
    /\ UNCHANGED workerVars

WorkerAloneInit == WorkerInit /\ outbox = <<>>

WorkerSpec ==
    /\ WorkerAloneInit
    /\ [][WorkerNext \/ Arrive]_<<workerVars, outbox>>

(***************************************************************************)
(* Fairness.  The process is restarted, its loop steps, time passes; a     *)
(* claim, a publish and a mark that are tried forever succeed at some try. *)
(***************************************************************************)
WorkerFairness ==
    /\ WF_<<workerVars, outbox>>(Tick)
    /\ \A w \in Worker :
          /\ WF_<<workerVars, outbox>>(WorkerStart(w) \/ MarkFailed(w) \/ MarkFailedFails(w))
          /\ SF_<<workerVars, outbox>>(Claim(w))
          /\ SF_<<workerVars, outbox>>(Publish(w))
          /\ SF_<<workerVars, outbox>>(MarkPublished(w))

WorkerFairSpec == WorkerSpec /\ WorkerFairness

(***************************************************************************)
(* Properties.                                                             *)
(***************************************************************************)

\* Every variable has its type and holds rows of the table only.
WorkerTypeOK ==
    /\ wpc \in [Worker -> {"down", "idle", "loop", "sent", "unsent"}]
    /\ \A w \in Worker :
          /\ Held(w) \subseteq DOMAIN outbox
          /\ batch[w] # {} => wpc[w] \in {"loop", "sent", "unsent"}
          /\ (hand[w] # NoRow) <=> (wpc[w] \in {"sent", "unsent"})
    /\ Delivered \cup repeated \cup overrun \cup ambiguous \subseteq DOMAIN outbox
    /\ \A id \in DOMAIN outbox :
          /\ outbox[id].attempts \in 0..RetryCap
          /\ outbox[id].wait \in 0..RetryCap * RetryDelay
          /\ outbox[id].lease \in 0..LockTTL
          /\ outbox[id].lockedBy \in Worker \cup {NoWorker}

\* A row the table says was published is in its topic: published_at is never set
\* ahead of, or without, a delivery, so no routed event is lost.
PublishedIsDelivered ==
    \A id \in DOMAIN outbox : outbox[id].published => id \in Delivered

\* published_at is final: no late MarkOutboxEventFailed, and no claim, of a worker
\* that lost its lock to another puts a published row back in line.
PublishedIsFinal ==
    [][\A id \in DOMAIN outbox :
          outbox[id].published => outbox'[id] = outbox[id]]_outbox

\* The claim is a mutual exclusion for as long as it lasts: two workers are at
\* the same row only after its lock once ran out under a worker still at it.
OneHolder ==
    \A v, w \in Worker : v # w => Held(v) \cap Held(w) \subseteq overrun

\* A consumer sees a routed event twice only when the worker could not know that
\* the first delivery worked, or when its lock ran out before it was done.
NoNeedlessRepeat == repeated \subseteq overrun \cup ambiguous

\* Routed events of one requester (one key of one topic) reach the topic in the
\* order in which they were routed ("per requester ordering", publishEvent).
PerRequesterOrder ==
    \A i, j \in DOMAIN routed :
        /\ i < j
        /\ routed[i].topic = routed[j].topic
        /\ routed[i].key = routed[j].key
        => outbox[routed[i].eventID].seq < outbox[routed[j].eventID].seq

\* Every row is published in the end: "the outbox keeps its rows, the lock
\* expires, and the next tick drains again" (RunWorker).
EveryRowPublished ==
    \A id \in {RoutedID(u) : u \in {UUIDOf[t] : t \in DOMAIN UUIDOf}} :
        (id \in DOMAIN outbox) ~> (id \in DOMAIN outbox /\ outbox[id].published)
=============================================================================
