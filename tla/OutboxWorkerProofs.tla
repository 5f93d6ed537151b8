------------------------- MODULE OutboxWorkerProofs -------------------------
(***************************************************************************)
(* Theorems about OutboxWorker, for every number of workers, every batch   *)
(* size and every length of lock and backoff.                              *)
(***************************************************************************)
EXTENDS OutboxWorker, OutboxEventsProofs, TLAPS

wvars == <<workerVars, outbox>>

(***************************************************************************)
(* The inductive invariant, in four parts.                                 *)
(***************************************************************************)

\* What ClaimPendingOutboxEvents returns of a row.
Claims == [id : DOMAIN outbox, attempts : 0..RetryCap]

\* The records the topics can hold: those of the rows in the table.
RoutedRecords == {RoutedRecord(id, outbox[id].columns) : id \in DOMAIN outbox}

\* Types: the table's rows, and what the workers and the topics hold of them.
StateInv ==
    /\ NoRow.id \notin DOMAIN outbox
    /\ TableOK
    /\ wpc \in [Worker -> {"down", "idle", "loop", "sent", "unsent"}]
    /\ batch \in [Worker -> SUBSET Claims]
    /\ hand \in [Worker -> Claims \cup {NoRow}]
    /\ \A w \in Worker :
          /\ batch[w] # {} => wpc[w] \in {"loop", "sent", "unsent"}
          /\ (hand[w] # NoRow) <=> (wpc[w] \in {"sent", "unsent"})
    /\ routed \in Seq(RoutedRecords)
    /\ repeated \cup overrun \cup ambiguous \subseteq DOMAIN outbox

\* A worker has each row once: in its batch or in its hand.
BatchInv ==
    \A w \in Worker :
        /\ \A r, s \in batch[w] : r.id = s.id => r = s
        /\ \A r \in batch[w] : r.id # hand[w].id

\* As long as no lock ran out under its holder, a row a worker has is locked by
\* that worker, for some more time, and unpublished.
LockInv ==
    \A w \in Worker : \A id \in Held(w) \ overrun :
        /\ outbox[id].lockedBy = w
        /\ outbox[id].lease > 0
        /\ ~outbox[id].published

\* A delivered row is known to be so: it is marked, or about to be.
KnownInv ==
    /\ \A w \in Worker : wpc[w] = "sent" => hand[w].id \in Delivered
    /\ \A id \in Delivered :
          \/ id \in overrun \cup ambiguous
          \/ outbox[id].published
          \/ \E w \in Worker : wpc[w] = "sent" /\ hand[w].id = id

WorkerInv ==
    /\ StateInv
    /\ BatchInv
    /\ LockInv
    /\ KnownInv
    /\ PublishedIsDelivered
    /\ NoNeedlessRepeat

(***************************************************************************)
(* Lemmas about the operators.                                             *)
(***************************************************************************)

\* A worker holds rows of the table only, and NoRow is none of them.
LEMMA HeldRows ==
    ASSUME StateInv, NEW w \in Worker
    PROVE  /\ Held(w) \subseteq DOMAIN outbox
           /\ \A r \in batch[w] : r.id \in DOMAIN outbox /\ r.id \in Held(w)
           /\ hand[w] # NoRow => hand[w].id \in DOMAIN outbox /\ hand[w].id \in Held(w)
           /\ hand[w] = NoRow => Held(w) = {r.id : r \in batch[w]}
<1>1. batch[w] \subseteq Claims /\ hand[w] \in Claims \cup {NoRow}
  BY DEF StateInv
<1>2. \A r \in Claims : r.id \in DOMAIN outbox /\ r.id # NoRow.id
  BY DEF Claims, StateInv
<1> QED BY <1>1, <1>2 DEF Held

\* Each record in the topics is that of a row in the table.
LEMMA DeliveredRows ==
    ASSUME StateInv
    PROVE  /\ Delivered \subseteq DOMAIN outbox
           /\ \A i \in DOMAIN routed :
                 routed[i] = RoutedRecord(routed[i].eventID, outbox[routed[i].eventID].columns)
<1>1. \A i \in DOMAIN routed : routed[i] \in RoutedRecords
  BY DEF StateInv
<1>2. \A id \in DOMAIN outbox : RoutedRecord(id, outbox[id].columns).eventID = id
  BY DEF RoutedRecord
<1>3. \A rec \in RoutedRecords :
         rec.eventID \in DOMAIN outbox /\ rec = RoutedRecord(rec.eventID, outbox[rec.eventID].columns)
  BY <1>2 DEF RoutedRecords
<1> QED BY <1>1, <1>3 DEF Delivered

\* Rows stay and keep their columns, so the topics hold records of rows still.
LEMMA RoutedStays ==
    ASSUME StateInv, DOMAIN outbox \subseteq DOMAIN outbox',
           \A id \in DOMAIN outbox : outbox'[id].columns = outbox[id].columns,
           UNCHANGED routed
    PROVE  routed' \in Seq(RoutedRecords') /\ Delivered' = Delivered
<1>1. RoutedRecords \subseteq RoutedRecords'
  BY DEF RoutedRecords
<1>2. routed \in Seq(RoutedRecords)
  BY DEF StateInv
<1>3. routed \in Seq(RoutedRecords')
  BY <1>1, <1>2
<1> QED BY <1>3 DEF Delivered

\* A delivery adds its row to those delivered, and counts as a repeat when the
\* row was among them.
LEMMA ProduceRow ==
    ASSUME StateInv, NEW id \in DOMAIN outbox, Produce(id), UNCHANGED outbox
    PROVE  /\ routed' \in Seq(RoutedRecords')
           /\ Delivered' = Delivered \cup {id}
           /\ repeated' = IF id \in Delivered THEN repeated \cup {id} ELSE repeated
<1> DEFINE rec == RoutedRecord(id, outbox[id].columns)
<1>1. RoutedRecords' = RoutedRecords /\ rec \in RoutedRecords /\ rec.eventID = id
  BY DEF RoutedRecords, RoutedRecord
<1>2. CASE id \in Delivered
  BY <1>1, <1>2 DEF Produce, StateInv, Delivered
<1>3. CASE id \notin Delivered
  <2>1. routed' = routed \o <<rec>> /\ UNCHANGED repeated
    BY <1>3 DEF Produce
  <2> HIDE DEF rec
  <2>2. routed \in Seq(RoutedRecords) /\ <<rec>> \in Seq(RoutedRecords)
    BY <1>1 DEF StateInv
  <2>3. /\ routed' \in Seq(RoutedRecords)
        /\ Len(routed') = Len(routed) + 1
        /\ \A i \in 1..Len(routed) : routed'[i] = routed[i]
        /\ routed'[Len(routed) + 1] = rec
    BY <2>1, <2>2
  <2>4. DOMAIN routed = 1..Len(routed) /\ DOMAIN routed' = 1..(Len(routed) + 1)
    BY <2>2, <2>3
  <2>5. Len(routed) \in Nat
    BY <2>2
  <2>6. Delivered' = Delivered \cup {rec.eventID}
    BY <2>3, <2>4, <2>5 DEF Delivered
  <2> QED BY <1>1, <1>3, <2>1, <2>3, <2>6
<1> QED BY <1>2, <1>3

\* LIMIT and SKIP LOCKED only leave rows out.
LEMMA OldestAmong == \A ids : Oldest(ids) \subseteq ids
BY DEF Oldest

\* A row that can be claimed is held by nobody, or its lock ran out once.
LEMMA ClaimableIsFree ==
    ASSUME StateInv, LockInv, NEW id \in Claimable
    PROVE  /\ id \in DOMAIN outbox
           /\ ~outbox[id].published
           /\ \A w \in Worker : id \in Held(w) => id \in overrun
BY DEF Claimable, LockInv

(***************************************************************************)
(* Steps.                                                                  *)
(***************************************************************************)

LEMMA WorkerInvInit == WorkerInit /\ outbox = <<>> => WorkerInv
<1> SUFFICES ASSUME WorkerInit, outbox = <<>> PROVE WorkerInv
  OBVIOUS
<1>1. DOMAIN outbox = {} /\ DOMAIN routed = {}
  BY DEF WorkerInit
<1>2. Delivered = {}
  BY <1>1 DEF Delivered
<1>3. StateInv
  <2>1. routed \in Seq(RoutedRecords)
    BY DEF WorkerInit
  <2> QED BY <1>1, <2>1 DEF StateInv, WorkerInit, TableOK
<1>4. BatchInv
  BY DEF BatchInv, WorkerInit
<1>5. LockInv
  BY DEF LockInv, WorkerInit, Held, NoRow
<1>6. KnownInv /\ PublishedIsDelivered /\ NoNeedlessRepeat
  BY <1>1, <1>2 DEF KnownInv, PublishedIsDelivered, NoNeedlessRepeat, WorkerInit
<1> QED BY <1>3, <1>4, <1>5, <1>6 DEF WorkerInv

\* The worker is done with the row in its hand.
LEMMA AdvanceHeld ==
    ASSUME StateInv, BatchInv, NEW w \in Worker, wpc[w] \in {"sent", "unsent"},
           Advance(w), UNCHANGED batch
    PROVE  /\ hand[w].id \in DOMAIN outbox /\ hand[w].id \in Held(w)
           /\ Held(w)' = Held(w) \ {hand[w].id}
           /\ \A v \in Worker \ {w} : /\ Held(v)' = Held(v)
                                      /\ hand'[v] = hand[v]
                                      /\ wpc'[v] = wpc[v]
           /\ wpc'[w] \in {"idle", "loop"} /\ hand'[w] = NoRow
<1>1. /\ \A v \in Worker \ {w} : hand'[v] = hand[v] /\ wpc'[v] = wpc[v]
      /\ wpc'[w] \in {"idle", "loop"} /\ hand'[w] = NoRow
  BY DEF StateInv, Advance, WGoto
<1>2. hand[w].id \in DOMAIN outbox /\ hand[w].id \in Held(w)
  BY HeldRows DEF StateInv
<1>3. \A v \in Worker \ {w} : Held(v)' = Held(v)
  BY <1>1 DEF Held
<1>4. Held(w)' = {r.id : r \in batch[w]}
  BY <1>1, HeldRows DEF Held
<1>5. Held(w) = {r.id : r \in batch[w]} \cup {hand[w].id}
  BY <1>2 DEF Held, StateInv
<1>6. hand[w].id \notin {r.id : r \in batch[w]}
  BY DEF BatchInv
<1> QED BY <1>1, <1>2, <1>3, <1>4, <1>5, <1>6

\* Recording the outcome of a publish, however the statement ended: only the row
\* in hand changes, and a row that was sent is marked or remembered as ambiguous.
LEMMA RecordStep ==
    ASSUME WorkerInv, NEW w \in Worker, wpc[w] \in {"sent", "unsent"}, Advance(w),
           UNCHANGED <<batch, routed, repeated, overrun>>,
           TableOK', TableKept,
           \A x \in DOMAIN outbox : x # hand[w].id => outbox'[x] = outbox[x],
           outbox'[hand[w].id].published => hand[w].id \in Delivered,
           ambiguous \subseteq ambiguous', ambiguous' \subseteq DOMAIN outbox,
           \/ wpc[w] = "unsent"
           \/ outbox'[hand[w].id].published
           \/ hand[w].id \in ambiguous'
    PROVE  WorkerInv'
<1> USE DEF WorkerInv
<1>1. /\ hand[w].id \in DOMAIN outbox /\ hand[w].id \in Held(w)
      /\ Held(w)' = Held(w) \ {hand[w].id}
      /\ \A v \in Worker \ {w} : /\ Held(v)' = Held(v)
                                 /\ hand'[v] = hand[v]
                                 /\ wpc'[v] = wpc[v]
      /\ wpc'[w] \in {"idle", "loop"} /\ hand'[w] = NoRow
  BY AdvanceHeld
<1>2. DOMAIN outbox' = DOMAIN outbox /\ Claims' = Claims
  BY DEF TableKept, Claims
<1>3. routed' \in Seq(RoutedRecords') /\ Delivered' = Delivered
  BY RoutedStays DEF TableKept
<1>4. StateInv'
  <2>1. /\ wpc' \in [Worker -> {"down", "idle", "loop", "sent", "unsent"}]
        /\ hand' \in [Worker -> Claims' \cup {NoRow}]
    BY <1>2 DEF StateInv, Advance, WGoto
  <2>2. \A v \in Worker :
           /\ batch'[v] # {} => wpc'[v] \in {"loop", "sent", "unsent"}
           /\ (hand'[v] # NoRow) <=> (wpc'[v] \in {"sent", "unsent"})
    <3>1. wpc'[w] = IF batch[w] = {} THEN "idle" ELSE "loop"
      BY DEF StateInv, Advance, WGoto
    <3> QED BY <1>1, <3>1 DEF StateInv
  <2> QED BY <1>2, <1>3, <2>1, <2>2 DEF StateInv
<1>5. BatchInv'
  <2>1. \A r \in batch[w] : r.id # NoRow.id
    BY HeldRows DEF StateInv
  <2> QED BY <1>1, <2>1 DEF BatchInv
<1>6. LockInv'
  <2> SUFFICES ASSUME NEW v \in Worker, NEW id \in Held(v)', id \notin overrun
               PROVE  outbox'[id].lockedBy = v /\ outbox'[id].lease > 0 /\ ~outbox'[id].published
    BY DEF LockInv
  <2>1. id \in Held(v) /\ id \in DOMAIN outbox
    BY <1>1, HeldRows
  <2>2. outbox[id].lockedBy = v /\ outbox[id].lease > 0 /\ ~outbox[id].published
    BY <2>1 DEF LockInv
  <2>3. id # hand[w].id
    BY <1>1, <2>2 DEF LockInv
  <2> QED BY <2>1, <2>2, <2>3
<1>7. KnownInv'
  <2>1. ASSUME NEW id \in Delivered
        PROVE  \/ id \in overrun \cup ambiguous'
               \/ outbox'[id].published
               \/ \E v \in Worker : wpc'[v] = "sent" /\ hand'[v].id = id
    <3>1. CASE id \in overrun \cup ambiguous
      BY <3>1
    <3>2. CASE outbox[id].published
      BY <2>1, <3>2, DeliveredRows DEF TableKept
    <3>3. ASSUME NEW v \in Worker, wpc[v] = "sent", hand[v].id = id
          PROVE  \/ id \in ambiguous'
                 \/ outbox'[id].published
                 \/ \E u \in Worker : wpc'[u] = "sent" /\ hand'[u].id = id
      BY <1>1, <3>3
    <3> QED BY <2>1, <3>1, <3>2, <3>3 DEF KnownInv
  <2>2. \A v \in Worker : wpc'[v] = "sent" => hand'[v].id \in Delivered
    BY <1>1 DEF KnownInv
  <2> QED BY <1>3, <2>1, <2>2 DEF KnownInv
<1>8. PublishedIsDelivered'
  BY <1>2, <1>3 DEF PublishedIsDelivered
<1>9. NoNeedlessRepeat'
  BY DEF NoNeedlessRepeat
<1> QED BY <1>4, <1>5, <1>6, <1>7, <1>8, <1>9

\* The statement after a publish that worked, and the one after a failed publish.
LEMMA MarkStep ==
    ASSUME WorkerInv, NEW w \in Worker,
           \/ MarkPublished(w) \/ MarkPublishedFails(w)
           \/ MarkFailed(w) \/ MarkFailedFails(w)
    PROVE  WorkerInv' /\ TableKept
<1> USE DEF WorkerInv
<1>1. hand[w].id \in DOMAIN outbox
  BY HeldRows DEF MarkPublished, MarkPublishedFails, MarkFailed, MarkFailedFails, StateInv
<1>2. hand[w].attempts \in 0..RetryCap
  BY OutboxAssumption DEF StateInv, Claims, NoRow
<1>3. TableOK
  BY DEF StateInv
<1>4. UNCHANGED outbox => /\ TableOK'
                          /\ TableKept
                          /\ \A x \in DOMAIN outbox : outbox'[x] = outbox[x]
  BY <1>3 DEF TableOK, RowsOf, TableKept
<1>5. ASSUME MarkPublished(w) \/ MarkPublishedFails(w) PROVE WorkerInv' /\ TableKept
  <2>1. hand[w].id \in Delivered
    BY <1>5 DEF MarkPublished, MarkPublishedFails, KnownInv
  <2>2. /\ TableOK'
        /\ TableKept
        /\ \A x \in DOMAIN outbox : x # hand[w].id => outbox'[x] = outbox[x]
    BY <1>1, <1>3, <1>4, <1>5, PublishRow DEF MarkPublished, MarkPublishedFails
  <2>3. outbox'[hand[w].id].published \/ hand[w].id \in ambiguous'
    BY <1>1, <1>3, <1>5, PublishRow DEF MarkPublished, MarkPublishedFails
  <2>4. ambiguous \subseteq ambiguous' /\ ambiguous' \subseteq DOMAIN outbox
    BY <1>1, <1>5 DEF MarkPublished, MarkPublishedFails, StateInv
  <2>5. /\ wpc[w] \in {"sent", "unsent"} /\ Advance(w)
        /\ UNCHANGED <<batch, routed, repeated, overrun>>
    BY <1>5 DEF MarkPublished, MarkPublishedFails
  <2> QED BY <2>1, <2>2, <2>3, <2>4, <2>5, RecordStep
<1>6. ASSUME MarkFailed(w) \/ MarkFailedFails(w) PROVE WorkerInv' /\ TableKept
  <2>1. \/ UNCHANGED outbox
        \/ MarkOutboxEventFailed(hand[w].id, Backoff(hand[w].attempts))
    BY <1>6 DEF MarkFailed, MarkFailedFails
  <2>2. /\ TableOK'
        /\ TableKept
        /\ \A x \in DOMAIN outbox : x # hand[w].id => outbox'[x] = outbox[x]
        /\ outbox'[hand[w].id].published = outbox[hand[w].id].published
    BY <1>1, <1>2, <1>3, <1>4, <2>1, FailRow, BackoffBound
  <2>3. outbox'[hand[w].id].published => hand[w].id \in Delivered
    BY <1>1, <2>2 DEF PublishedIsDelivered
  <2>4. ambiguous \subseteq ambiguous' /\ ambiguous' \subseteq DOMAIN outbox
    BY <1>6 DEF MarkFailed, MarkFailedFails, StateInv
  <2>5. /\ wpc[w] \in {"sent", "unsent"} /\ Advance(w) /\ wpc[w] = "unsent"
        /\ UNCHANGED <<batch, routed, repeated, overrun>>
    BY <1>6 DEF MarkFailed, MarkFailedFails
  <2> QED BY <2>2, <2>3, <2>4, <2>5, RecordStep
<1> QED BY <1>5, <1>6

\* A row moves from the batch to the hand; nobody holds more or less for it.
LEMMA TakeHeld ==
    ASSUME StateInv, BatchInv, NEW w \in Worker, wpc[w] = "loop", NEW r \in batch[w],
           batch' = [batch EXCEPT ![w] = @ \ {r}], hand' = [hand EXCEPT ![w] = r],
           NEW state \in {"sent", "unsent"}, WGoto(w, state), UNCHANGED outbox
    PROVE  /\ r.id \in DOMAIN outbox /\ r.id \in Held(w)
           /\ \A v \in Worker : Held(v)' = Held(v)
           /\ \A v \in Worker \ {w} : hand'[v] = hand[v] /\ wpc'[v] = wpc[v]
           /\ hand'[w] = r /\ wpc'[w] = state
           /\ wpc' \in [Worker -> {"down", "idle", "loop", "sent", "unsent"}]
           /\ batch' \in [Worker -> SUBSET Claims'] /\ hand' \in [Worker -> Claims' \cup {NoRow}]
           /\ \A v \in Worker :
                 /\ batch'[v] # {} => wpc'[v] \in {"loop", "sent", "unsent"}
                 /\ (hand'[v] # NoRow) <=> (wpc'[v] \in {"sent", "unsent"})
           /\ BatchInv'
<1>1. r.id \in DOMAIN outbox /\ r.id \in Held(w) /\ r.id # NoRow.id /\ r \in Claims
  BY HeldRows DEF StateInv
<1>2. /\ \A v \in Worker \ {w} : hand'[v] = hand[v] /\ wpc'[v] = wpc[v] /\ batch'[v] = batch[v]
      /\ hand'[w] = r /\ wpc'[w] = state /\ batch'[w] = batch[w] \ {r}
  BY DEF StateInv, WGoto
<1>3. Claims' = Claims
  BY DEF Claims
<1>4. /\ wpc' \in [Worker -> {"down", "idle", "loop", "sent", "unsent"}]
      /\ batch' \in [Worker -> SUBSET Claims'] /\ hand' \in [Worker -> Claims' \cup {NoRow}]
  BY <1>1, <1>3 DEF StateInv, WGoto
<1>5. r # NoRow
  BY <1>1
<1>6. \A v \in Worker :
         /\ batch'[v] # {} => wpc'[v] \in {"loop", "sent", "unsent"}
         /\ (hand'[v] # NoRow) <=> (wpc'[v] \in {"sent", "unsent"})
  BY <1>2, <1>5 DEF StateInv
<1>7. BatchInv'
  BY <1>2 DEF BatchInv
<1>8. Held(w)' = Held(w)
  <2>1. hand[w] = NoRow
    BY DEF StateInv
  <2>2. Held(w) = {s.id : s \in batch[w]}
    BY <2>1, HeldRows
  <2>3. Held(w)' = {s.id : s \in batch[w] \ {r}} \cup {r.id}
    BY <1>1, <1>2 DEF Held
  <2> QED BY <2>2, <2>3
<1>9. \A v \in Worker \ {w} : Held(v)' = Held(v)
  BY <1>2 DEF Held
<1> QED BY <1>1, <1>2, <1>4, <1>6, <1>7, <1>8, <1>9

\* A row that has been delivered, and about which nothing is uncertain, is not in
\* any batch any more: the lock keeps it from every worker but the one about to
\* mark it, and the mark from all.
LEMMA BatchIsUndelivered ==
    ASSUME WorkerInv, NEW w \in Worker, wpc[w] = "loop", NEW r \in batch[w],
           r.id \in Delivered
    PROVE  r.id \in overrun \cup ambiguous
<1> USE DEF WorkerInv
<1>1. SUFFICES ASSUME r.id \notin overrun \cup ambiguous PROVE FALSE
  OBVIOUS
<1>2. r.id \in Held(w)
  BY HeldRows
<1>3. outbox[r.id].lockedBy = w /\ ~outbox[r.id].published
  BY <1>1, <1>2 DEF LockInv
<1>4. PICK v \in Worker : wpc[v] = "sent" /\ hand[v].id = r.id
  BY <1>1, <1>3 DEF KnownInv
<1>5. hand[v].id \in Held(v)
  BY <1>4, HeldRows DEF StateInv
<1>6. outbox[r.id].lockedBy = v
  BY <1>1, <1>4, <1>5 DEF LockInv
<1> QED BY <1>3, <1>4, <1>6

\* producer.Publish, whatever it returns and whatever it did.
LEMMA PublishStep ==
    ASSUME WorkerInv, NEW w \in Worker, Publish(w) \/ PublishFails(w)
    PROVE  WorkerInv' /\ UNCHANGED outbox
<1> USE DEF WorkerInv
<1>1. /\ wpc[w] = "loop" /\ UNCHANGED <<overrun, outbox>>
  BY DEF Publish, PublishFails
<1>2. PICK r \in batch[w], state \in {"sent", "unsent"} :
         /\ batch' = [batch EXCEPT ![w] = @ \ {r}]
         /\ hand' = [hand EXCEPT ![w] = r]
         /\ WGoto(w, state)
         /\ \/ Produce(r.id) /\ state = "sent" /\ UNCHANGED ambiguous
            \/ Produce(r.id) /\ state = "unsent" /\ ambiguous' = ambiguous \cup {r.id}
            \/ state = "unsent" /\ UNCHANGED <<routed, repeated, ambiguous>>
  BY DEF Publish, PublishFails
<1>3. /\ r.id \in DOMAIN outbox /\ r.id \in Held(w)
      /\ \A v \in Worker : Held(v)' = Held(v)
      /\ \A v \in Worker \ {w} : hand'[v] = hand[v] /\ wpc'[v] = wpc[v]
      /\ hand'[w] = r /\ wpc'[w] = state
      /\ wpc' \in [Worker -> {"down", "idle", "loop", "sent", "unsent"}]
      /\ batch' \in [Worker -> SUBSET Claims'] /\ hand' \in [Worker -> Claims' \cup {NoRow}]
      /\ \A v \in Worker :
            /\ batch'[v] # {} => wpc'[v] \in {"loop", "sent", "unsent"}
            /\ (hand'[v] # NoRow) <=> (wpc'[v] \in {"sent", "unsent"})
      /\ BatchInv'
  BY <1>1, <1>2, TakeHeld
<1>4. \/ /\ routed' \in Seq(RoutedRecords') /\ Delivered' = Delivered \cup {r.id}
         /\ repeated' = IF r.id \in Delivered THEN repeated \cup {r.id} ELSE repeated
         /\ \/ state = "sent" /\ UNCHANGED ambiguous
            \/ ambiguous' = ambiguous \cup {r.id}
      \/ /\ routed' \in Seq(RoutedRecords') /\ Delivered' = Delivered
         /\ state = "unsent" /\ UNCHANGED <<repeated, ambiguous>>
  <2>1. ASSUME Produce(r.id)
        PROVE  /\ routed' \in Seq(RoutedRecords') /\ Delivered' = Delivered \cup {r.id}
               /\ repeated' = IF r.id \in Delivered THEN repeated \cup {r.id} ELSE repeated
    BY <1>1, <1>3, <2>1, ProduceRow
  <2>2. CASE state = "unsent" /\ UNCHANGED <<routed, repeated, ambiguous>>
    BY <1>1, <2>2, RoutedStays
  <2> QED BY <1>2, <2>1, <2>2
<1>5. TableOK'
  BY <1>1 DEF StateInv, TableOK, RowsOf
<1>6. StateInv'
  BY <1>1, <1>3, <1>4, <1>5 DEF StateInv
<1>7. LockInv'
  BY <1>1, <1>3 DEF LockInv
<1>8. KnownInv'
  <2>1. \A v \in Worker : wpc'[v] = "sent" => hand'[v].id \in Delivered'
    BY <1>3, <1>4 DEF KnownInv
  <2>2. ASSUME NEW id \in Delivered'
        PROVE  \/ id \in overrun' \cup ambiguous'
               \/ outbox'[id].published
               \/ \E v \in Worker : wpc'[v] = "sent" /\ hand'[v].id = id
    <3>1. CASE id \in Delivered
      <4>1. CASE id \in overrun \cup ambiguous \/ outbox[id].published
        BY <1>1, <1>4, <4>1
      <4>2. ASSUME NEW v \in Worker, wpc[v] = "sent", hand[v].id = id
            PROVE  wpc'[v] = "sent" /\ hand'[v].id = id
        BY <1>1, <1>3, <4>2
      <4> QED BY <3>1, <4>1, <4>2 DEF KnownInv
    <3>2. CASE id \notin Delivered
      BY <1>3, <1>4, <2>2, <3>2
    <3> QED BY <3>1, <3>2
  <2> QED BY <2>1, <2>2 DEF KnownInv
<1>9. PublishedIsDelivered'
  BY <1>1, <1>4 DEF PublishedIsDelivered
<1>10. NoNeedlessRepeat'
  BY <1>1, <1>4, BatchIsUndelivered DEF NoNeedlessRepeat
<1> QED BY <1>1, <1>6, <1>7, <1>8, <1>9, <1>10, <1>3

\* A claim, whether or not its answer arrives, takes only rows that are free, and
\* the lock it sets is the worker's own.
LEMMA ClaimStep ==
    ASSUME WorkerInv, NEW w \in Worker, Claim(w) \/ ClaimLost(w)
    PROVE  WorkerInv' /\ TableKept
<1> USE DEF WorkerInv
<1>1. wpc[w] = "idle" /\ UNCHANGED <<hand, routed, repeated, overrun, ambiguous>>
  BY DEF Claim, ClaimLost, workerVars
<1>2. PICK ids :
         /\ ids \subseteq Claimable
         /\ Lock(w, ids)
         /\ \/ /\ batch' = [batch EXCEPT ![w] = {[id |-> i, attempts |-> outbox[i].attempts] : i \in ids}]
               /\ WGoto(w, "loop")
            \/ UNCHANGED <<batch, wpc>>
  <2>1. CASE Claim(w)
    BY <2>1, OldestAmong DEF Claim
  <2>2. CASE ClaimLost(w)
    BY <2>2, OldestAmong DEF ClaimLost, workerVars
  <2> QED BY <2>1, <2>2
<1>3. \A id \in ids : /\ id \in DOMAIN outbox /\ ~outbox[id].published
                      /\ \A v \in Worker : id \in Held(v) => id \in overrun
  BY <1>2, ClaimableIsFree
<1>4. /\ TableOK'
      /\ TableKept
      /\ \A id \in DOMAIN outbox :
            /\ outbox'[id].published = outbox[id].published
            /\ id \in ids => outbox'[id].lockedBy = w /\ outbox'[id].lease = LockTTL
            /\ id \notin ids => outbox'[id] = outbox[id]
  BY <1>2, <1>3, LockRows DEF StateInv
<1>5. DOMAIN outbox' = DOMAIN outbox /\ Claims' = Claims
  BY <1>4 DEF TableKept, Claims
<1>6. routed' \in Seq(RoutedRecords') /\ Delivered' = Delivered
  BY <1>1, <1>4, RoutedStays DEF TableKept
<1>7. batch[w] = {} /\ hand[w] = NoRow
  BY <1>1 DEF StateInv
<1>8. /\ \A v \in Worker \ {w} : batch'[v] = batch[v] /\ wpc'[v] = wpc[v]
      /\ \/ batch'[w] = {[id |-> i, attempts |-> outbox[i].attempts] : i \in ids} /\ wpc'[w] = "loop"
         \/ batch'[w] = {} /\ wpc'[w] = "idle"
  BY <1>1, <1>2, <1>7 DEF StateInv, WGoto
<1>9. \A i \in ids : [id |-> i, attempts |-> outbox[i].attempts] \in Claims
  BY <1>3 DEF Claims, StateInv, TableOK, RowsOf
<1>10. StateInv'
  <2>1. wpc' \in [Worker -> {"down", "idle", "loop", "sent", "unsent"}]
    BY <1>2 DEF StateInv, WGoto
  <2>2. batch' \in [Worker -> SUBSET Claims]
    BY <1>2, <1>9 DEF StateInv
  <2>3. \A v \in Worker :
           /\ batch'[v] # {} => wpc'[v] \in {"loop", "sent", "unsent"}
           /\ (hand'[v] # NoRow) <=> (wpc'[v] \in {"sent", "unsent"})
    BY <1>1, <1>7, <1>8 DEF StateInv
  <2> QED BY <1>1, <1>4, <1>5, <1>6, <2>1, <2>2, <2>3 DEF StateInv
<1>11. BatchInv'
  <2>1. /\ \A r, s \in batch'[w] : r.id = s.id => r = s
        /\ \A r \in batch'[w] : r.id # NoRow.id
    BY <1>3, <1>8 DEF StateInv
  <2> QED BY <1>1, <1>7, <1>8, <2>1 DEF BatchInv
<1>12. /\ \A v \in Worker \ {w} : Held(v)' = Held(v)
       /\ Held(w)' \subseteq ids
  <2>1. \A r \in batch'[w] : r.id \in ids
    BY <1>8
  <2> QED BY <1>1, <1>7, <1>8, <2>1 DEF Held
<1>13. LockInv'
  <2> SUFFICES ASSUME NEW v \in Worker, NEW id \in Held(v)', id \notin overrun
               PROVE  outbox'[id].lockedBy = v /\ outbox'[id].lease > 0 /\ ~outbox'[id].published
    BY <1>1 DEF LockInv
  <2>1. CASE v = w
    BY <1>3, <1>4, <1>12, <2>1, OutboxAssumption
  <2>2. CASE v # w
    <3>1. id \in Held(v) /\ id \in DOMAIN outbox
      BY <1>12, <2>2, HeldRows
    <3>2. id \notin ids
      BY <1>3, <3>1
    <3> QED BY <1>4, <3>1, <3>2 DEF LockInv
  <2> QED BY <2>1, <2>2
<1>14. KnownInv'
  <2>1. \A v \in Worker : wpc'[v] = "sent" <=> wpc[v] = "sent"
    BY <1>1, <1>8
  <2>2. \A id \in Delivered : outbox'[id].published = outbox[id].published
    BY <1>4, DeliveredRows
  <2> QED BY <1>1, <1>6, <2>1, <2>2 DEF KnownInv
<1>15. PublishedIsDelivered' /\ NoNeedlessRepeat'
  BY <1>1, <1>4, <1>5, <1>6 DEF PublishedIsDelivered, NoNeedlessRepeat
<1> QED BY <1>4, <1>10, <1>11, <1>13, <1>14, <1>15

\* Starting, and stopping at any point: the rows stay locked, and a row that was
\* sent and is not marked is one nobody can be sure of.
LEMMA StartStopStep ==
    ASSUME WorkerInv, NEW w \in Worker, WorkerStart(w) \/ WorkerStop(w)
    PROVE  WorkerInv' /\ UNCHANGED outbox
<1> USE DEF WorkerInv
<1>1. UNCHANGED <<routed, repeated, overrun, outbox>>
  BY DEF WorkerStart, WorkerStop
<1>2. /\ \A v \in Worker \ {w} : batch'[v] = batch[v] /\ hand'[v] = hand[v] /\ wpc'[v] = wpc[v]
      /\ batch'[w] = {} /\ hand'[w] = NoRow /\ wpc'[w] \in {"down", "idle"}
      /\ wpc' \in [Worker -> {"down", "idle", "loop", "sent", "unsent"}]
      /\ batch' \in [Worker -> SUBSET Claims] /\ hand' \in [Worker -> Claims \cup {NoRow}]
  BY DEF WorkerStart, WorkerStop, WGoto, StateInv
<1>3. /\ ambiguous \subseteq ambiguous'
      /\ wpc[w] = "sent" => hand[w].id \in ambiguous'
      /\ ambiguous' \subseteq DOMAIN outbox
  BY HeldRows DEF WorkerStart, WorkerStop, StateInv
<1>4. routed' \in Seq(RoutedRecords') /\ Delivered' = Delivered
  BY <1>1, RoutedStays
<1>5. StateInv'
  <2>1. TableOK' /\ Claims' = Claims
    BY <1>1 DEF StateInv, TableOK, RowsOf, Claims
  <2> QED BY <1>1, <1>2, <1>3, <1>4, <2>1 DEF StateInv
<1>6. BatchInv'
  BY <1>2 DEF BatchInv
<1>7. \A v \in Worker : Held(v)' \subseteq Held(v)
  BY <1>2 DEF Held
<1>8. LockInv'
  BY <1>1, <1>7 DEF LockInv
<1>9. KnownInv'
  BY <1>1, <1>2, <1>3, <1>4 DEF KnownInv
<1>10. PublishedIsDelivered' /\ NoNeedlessRepeat'
  BY <1>1, <1>3, <1>4 DEF PublishedIsDelivered, NoNeedlessRepeat
<1> QED BY <1>1, <1>5, <1>6, <1>8, <1>9, <1>10

\* A lock that runs out under a worker still at the row is remembered as such.
LEMMA TickStep ==
    ASSUME WorkerInv, Tick
    PROVE  WorkerInv' /\ TableKept
<1> USE DEF WorkerInv
<1>1. UNCHANGED <<wpc, batch, hand, routed, repeated, ambiguous>>
  BY DEF Tick
<1>2. /\ TableOK'
      /\ TableKept
      /\ \A id \in DOMAIN outbox :
            /\ outbox'[id].published = outbox[id].published
            /\ outbox'[id].lockedBy = outbox[id].lockedBy
            /\ ~outbox[id].published => outbox'[id].lease = Less1(outbox[id].lease)
  BY ElapseRows DEF Tick, StateInv
<1>3. DOMAIN outbox' = DOMAIN outbox /\ Claims' = Claims
  BY <1>2 DEF TableKept, Claims
<1>4. routed' \in Seq(RoutedRecords') /\ Delivered' = Delivered
  BY <1>1, <1>2, RoutedStays DEF TableKept
<1>5. \A w \in Worker : Held(w)' = Held(w) /\ Held(w) \subseteq DOMAIN outbox
  BY <1>1, HeldRows DEF Held
<1>6. /\ overrun \subseteq overrun'
      /\ overrun' \subseteq DOMAIN outbox
      /\ \A w \in Worker : \A id \in Held(w) : outbox[id].lease = 1 => id \in overrun'
  BY <1>5 DEF Tick, StateInv
<1>7. StateInv'
  BY <1>1, <1>2, <1>3, <1>4, <1>6 DEF StateInv
<1>8. BatchInv'
  BY <1>1 DEF BatchInv
<1>9. LockInv'
  <2> SUFFICES ASSUME NEW w \in Worker, NEW id \in Held(w), id \notin overrun'
               PROVE  outbox'[id].lockedBy = w /\ outbox'[id].lease > 0 /\ ~outbox'[id].published
    BY <1>5 DEF LockInv
  <2>1. /\ id \in DOMAIN outbox /\ id \notin overrun /\ outbox[id].lease # 1
        /\ outbox[id].lockedBy = w /\ outbox[id].lease > 0 /\ ~outbox[id].published
    BY <1>5, <1>6 DEF LockInv
  <2>2. outbox[id].lease \in 0..LockTTL
    BY <2>1 DEF StateInv, TableOK, RowsOf
  <2>3. Less1(outbox[id].lease) > 0
    BY <2>1, <2>2, OutboxAssumption DEF Less1
  <2> QED BY <1>2, <2>1, <2>3
<1>10. KnownInv'
  <2>1. \A id \in Delivered : outbox'[id].published = outbox[id].published
    BY <1>2, DeliveredRows
  <2> QED BY <1>1, <1>4, <1>6, <2>1 DEF KnownInv
<1>11. PublishedIsDelivered' /\ NoNeedlessRepeat'
  BY <1>1, <1>2, <1>3, <1>4, <1>6 DEF PublishedIsDelivered, NoNeedlessRepeat
<1> QED BY <1>2, <1>7, <1>8, <1>9, <1>10, <1>11

\* Whatever the workers do, the invariant holds on and the rows are kept.
LEMMA WorkerInvStep ==
    ASSUME WorkerInv, WorkerNext
    PROVE  WorkerInv' /\ TableKept
<1>1. UNCHANGED outbox => TableKept
  BY DEF TableKept
<1> QED
  BY <1>1, MarkStep, PublishStep, ClaimStep, StartStopStep, TickStep
     DEF WorkerNext, WorkerStep

\* The router's transaction next to the workers: a new row, or a void INSERT.
LEMMA CreateStep ==
    ASSUME WorkerInv, NEW id, id # NoRow.id, NEW columns,
           CreateOutboxEvent(id, columns), UNCHANGED workerVars
    PROVE  WorkerInv'
<1> USE DEF WorkerInv
<1>1. UNCHANGED <<wpc, batch, hand, routed, repeated, overrun, ambiguous>>
  BY DEF workerVars
<1>2. /\ TableOK'
      /\ DOMAIN outbox' = DOMAIN outbox \cup {id}
      /\ \A x \in DOMAIN outbox : outbox'[x] = outbox[x]
      /\ id \notin DOMAIN outbox => ~outbox'[id].published
  BY CreateRow, CreateDomain DEF StateInv
<1>3. Claims \subseteq Claims'
  BY <1>2 DEF Claims
<1>4. routed' \in Seq(RoutedRecords') /\ Delivered' = Delivered
  BY <1>1, <1>2, RoutedStays
<1>5. StateInv'
  <2>1. batch' \in [Worker -> SUBSET Claims'] /\ hand' \in [Worker -> Claims' \cup {NoRow}]
    BY <1>1, <1>3 DEF StateInv
  <2> QED BY <1>1, <1>2, <1>4, <2>1 DEF StateInv
<1>6. BatchInv'
  BY <1>1 DEF BatchInv
<1>7. LockInv'
  <2>1. \A w \in Worker : Held(w)' = Held(w) /\ Held(w) \subseteq DOMAIN outbox
    BY <1>1, HeldRows DEF Held
  <2> QED BY <1>1, <1>2, <2>1 DEF LockInv
<1>8. KnownInv'
  <2>1. \A x \in Delivered : outbox'[x] = outbox[x]
    BY <1>2, DeliveredRows
  <2> QED BY <1>1, <1>4, <2>1 DEF KnownInv
<1>9. PublishedIsDelivered' /\ NoNeedlessRepeat'
  BY <1>1, <1>2, <1>4 DEF PublishedIsDelivered, NoNeedlessRepeat
<1> QED BY <1>5, <1>6, <1>7, <1>8, <1>9

LEMMA WorkerInvSame ==
    ASSUME WorkerInv, UNCHANGED wvars
    PROVE  WorkerInv'
BY DEF WorkerInv, wvars, workerVars, StateInv, BatchInv, LockInv, KnownInv,
   PublishedIsDelivered, NoNeedlessRepeat, TableOK, RowsOf, Claims, RoutedRecords,
   Delivered, Held

\* A routed id is a pair, never the empty id.
LEMMA RoutedIDIsReal == \A uuid : RoutedID(uuid) # NoRow.id
BY DEF RoutedID, NoRow

LEMMA WorkerAlways == WorkerSpec => []WorkerInv
<1>1. WorkerAloneInit => WorkerInv
  BY WorkerInvInit DEF WorkerAloneInit
<1>2. WorkerInv /\ [WorkerNext \/ Arrive]_wvars => WorkerInv'
  <2>1. ASSUME WorkerInv, Arrive PROVE WorkerInv'
    BY <2>1, CreateStep, RoutedIDIsReal DEF Arrive
  <2> QED BY <2>1, WorkerInvStep, WorkerInvSame
<1> QED BY <1>1, <1>2, PTL DEF WorkerSpec, wvars

\* Type correctness of the workers: they hold, deliver and count rows of the
\* table only, and no timer or attempt count leaves its range.
THEOREM WorkerTypeCorrect == WorkerSpec => []WorkerTypeOK
<1>1. ASSUME WorkerInv PROVE WorkerTypeOK
  <2>1. \A w \in Worker : Held(w) \subseteq DOMAIN outbox
    BY <1>1, HeldRows DEF WorkerInv
  <2>2. Delivered \subseteq DOMAIN outbox
    BY <1>1, DeliveredRows DEF WorkerInv
  <2>3. \A id \in DOMAIN outbox :
          /\ outbox[id].attempts \in 0..RetryCap
          /\ outbox[id].wait \in 0..RetryCap * RetryDelay
          /\ outbox[id].lease \in 0..LockTTL
          /\ outbox[id].lockedBy \in Worker \cup {NoWorker}
    BY <1>1 DEF WorkerInv, StateInv, TableOK, RowsOf
  <2> QED BY <1>1, <2>1, <2>2, <2>3 DEF WorkerInv, StateInv, WorkerTypeOK
<1> QED BY <1>1, WorkerAlways, PTL

\* published_at is set only for a row that is in its topic, for any number of
\* workers and whatever publishes and statements report or fail to report.
THEOREM PublishedMeansDelivered == WorkerSpec => []PublishedIsDelivered
<1>1. WorkerInv => PublishedIsDelivered
  BY DEF WorkerInv
<1> QED BY <1>1, WorkerAlways, PTL

\* published_at is final: no statement of a worker that lost its lock, and no
\* redelivered event, touches a published row.
THEOREM PublishedStays == WorkerSpec => PublishedIsFinal
<1> DEFINE Final == \A id \in DOMAIN outbox :
                       outbox[id].published => outbox'[id] = outbox[id]
<1>1. WorkerInv /\ [WorkerNext \/ Arrive]_wvars => [Final]_outbox
  <2>1. ASSUME WorkerInv, WorkerNext PROVE Final
    BY <2>1, WorkerInvStep DEF TableKept
  <2>2. ASSUME Arrive PROVE Final
    BY <2>2 DEF Arrive, CreateOutboxEvent
  <2> QED BY <2>1, <2>2 DEF wvars
<1> QED BY <1>1, WorkerAlways, PTL DEF WorkerSpec, PublishedIsFinal, wvars

\* The claim excludes: two workers are at one row only if its lock ran out under
\* one of them, however many workers there are and however their statements,
\* crashes and restarts interleave.
THEOREM ClaimsExclude == WorkerSpec => []OneHolder
<1>1. WorkerInv => OneHolder
  BY DEF WorkerInv, LockInv, OneHolder
<1> QED BY <1>1, WorkerAlways, PTL

\* A routed event is delivered again only when the first delivery was not
\* confirmed, was not recorded, or took longer than the lock.
THEOREM RepeatsHaveACause == WorkerSpec => []NoNeedlessRepeat
<1>1. WorkerInv => NoNeedlessRepeat
  BY DEF WorkerInv
<1> QED BY <1>1, WorkerAlways, PTL
=============================================================================
