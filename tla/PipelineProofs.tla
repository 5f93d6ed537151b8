--------------------------- MODULE PipelineProofs ---------------------------
(***************************************************************************)
(* Theorems about Pipeline: the invariants of its two halves carry over to *)
(* the composition, what reaches a caller's topic is faithful, and the     *)
(* pipeline implements the courier.                                        *)
(***************************************************************************)
EXTENDS Pipeline, ConsumerProofs, OutboxWorkerProofs, TLAPS

(***************************************************************************)
(* The halves meet in the table only: to the worker, a consumer's step is  *)
(* an INSERT or nothing; to the consumer, a worker's step changes no key   *)
(* and no immutable column.                                                *)
(***************************************************************************)

\* A consumer writes the table in its transaction only.
LEMMA ConsumerOnTable ==
    ASSUME [ConsumerNext]_vars
    PROVE  \/ UNCHANGED outbox
           \/ \E c \in Consumer : pc[c] = "insert" /\ InsertRow(c) /\ UNCHANGED <<dlq, committed>>
BY DEF ConsumerNext, Replica, vars, Start, Poll, PollFails, PollCancelled,
   RejectContract, RejectPermanent, DedupeHit, DedupeMiss, DedupeError, Assign,
   Insert, InsertFails, MarkDedupe, MarkDedupeFails, DeadLetter, DeadLetterFails,
   Commit, CommitFails, Flush, Crash, MarkExpires

LEMMA ConsumerKeepsWorkerInv ==
    ASSUME WorkerInv, [ConsumerNext]_vars, UNCHANGED workerVars
    PROVE  WorkerInv'
<1>1. CASE UNCHANGED outbox
  BY <1>1, WorkerInvSame DEF wvars
<1>2. ASSUME NEW c \in Consumer, InsertRow(c) PROVE WorkerInv'
  BY <1>2, CreateStep, RoutedIDIsReal DEF InsertRow, RowID
<1> QED BY <1>1, <1>2, ConsumerOnTable

\* Keys and columns are all that the consumer's invariants read of the table.
LEMMA WorkerKeepsControlInv ==
    ASSUME ControlInv, UNCHANGED consumerVars, TableKept
    PROVE  ControlInv'
<1> USE DEF ControlInv, TableKept, consumerVars, replicaVars
<1>1. ConsumerTypeOK'
  BY DEF ConsumerTypeOK
<1>2. InHand'
  BY DEF InHand, InHandOf, Current, NextRec
<1>3. MarkedIsDurable'
  BY DEF MarkedIsDurable
<1> QED BY <1>1, <1>2, <1>3

LEMMA WorkerKeepsRouted ==
    ASSUME SplitOnlyByRollout, UNCHANGED consumerVars, TableKept
    PROVE  SplitOnlyByRollout'
BY DEF SplitOnlyByRollout, consumerVars, TableKept

LEMMA WorkerKeepsDurableInv ==
    ASSUME DurableInv, UNCHANGED consumerVars, TableKept
    PROVE  DurableInv'
<1>1. \A p, o : Settled(p, o) => Settled(p, o)'
  BY DEF Settled, consumerVars, TableKept
<1> QED
  BY <1>1 DEF DurableInv, HandledIsSettled, PositionIsSettled, CommittedIsDurable,
     consumerVars, replicaVars

\* What holds whatever CommitUncommitted commits.
PipelineInv == ControlInv /\ SplitOnlyByRollout /\ WorkerInv

LEMMA PipelineInvInit == PipelineInit => PipelineInv
<1> SUFFICES ASSUME PipelineInit PROVE PipelineInv
  OBVIOUS
<1>1. ControlInv
  BY ControlInit DEF PipelineInit
<1>2. SplitOnlyByRollout
  BY DEF PipelineInit, ConsumerInit, SplitOnlyByRollout
<1>3. WorkerInv
  BY WorkerInvInit DEF PipelineInit, ConsumerInit
<1> QED BY <1>1, <1>2, <1>3 DEF PipelineInv

LEMMA PipelineInvStep == PipelineInv /\ [PipelineNext]_pipelineVars => PipelineInv'
<1> SUFFICES ASSUME PipelineInv, [PipelineNext]_pipelineVars PROVE PipelineInv'
  OBVIOUS
<1> USE DEF PipelineInv
<1>1. CASE [ConsumerNext]_vars /\ UNCHANGED workerVars
  BY <1>1, ControlStep, RoutedStep, ConsumerKeepsWorkerInv
<1>2. CASE WorkerNext /\ UNCHANGED consumerVars
  BY <1>2, WorkerInvStep, WorkerKeepsControlInv, WorkerKeepsRouted
<1>3. UNCHANGED pipelineVars => UNCHANGED vars /\ UNCHANGED workerVars
  BY DEF pipelineVars, vars
<1> QED BY <1>1, <1>2, <1>3 DEF PipelineNext

LEMMA PipelineAlways == PipelineSpec => []PipelineInv
BY PipelineInvInit, PipelineInvStep, PTL DEF PipelineSpec

\* The halves do not disturb each other: run together, consumers put a
\* record in both places only by a rollout and mark only what is durable, and
\* workers exclude each other and repeat a delivery only for a cause.
THEOREM HalvesCompose ==
    PipelineSpec => [](/\ SplitOnlyByRollout /\ MarkedIsDurable
                       /\ PublishedIsDelivered /\ OneHolder /\ NoNeedlessRepeat)
<1>1. PipelineInv => /\ SplitOnlyByRollout /\ MarkedIsDurable
                     /\ PublishedIsDelivered /\ OneHolder /\ NoNeedlessRepeat
  BY DEF PipelineInv, ControlInv, WorkerInv, LockInv, OneHolder
<1> QED BY <1>1, PipelineAlways, PTL

\* The consumers' argument about committed offsets survives the workers.
LEMMA DurableAlways ==
    ASSUME CommitScope = "processed"
    PROVE  PipelineSpec => []DurableInv
<1>1. PipelineInit => DurableInv
  BY DurableInit DEF PipelineInit
<1>2. PipelineInv /\ DurableInv /\ [PipelineNext]_pipelineVars => DurableInv'
  <2> SUFFICES ASSUME PipelineInv, DurableInv, [PipelineNext]_pipelineVars
               PROVE  DurableInv'
    OBVIOUS
  <2> USE DEF PipelineInv
  <2>1. CASE [ConsumerNext]_vars /\ UNCHANGED workerVars
    BY <2>1, DurableStep
  <2>2. CASE WorkerNext /\ UNCHANGED consumerVars
    BY <2>2, WorkerInvStep, WorkerKeepsDurableInv
  <2>3. UNCHANGED pipelineVars => UNCHANGED vars /\ UNCHANGED workerVars
    BY DEF pipelineVars, vars
  <2> QED BY <2>1, <2>2, <2>3 DEF PipelineNext
<1> QED BY <1>1, <1>2, PipelineAlways, PTL DEF PipelineSpec

\* No event is dropped between Kafka and the table while workers claim, mark and
\* fail its rows: a record below a committed offset has its row or is in the
\* dead-letter topic, if CommitUncommitted commits processed offsets only.
THEOREM PipelineDropsNothing ==
    ASSUME CommitScope = "processed"
    PROVE  PipelineSpec => []CommittedIsDurable
<1>1. DurableInv => CommittedIsDurable
  BY DEF DurableInv
<1> QED BY <1>1, DurableAlways, PTL

\* A row outlives everything the two processes do to the table: no statement of
\* either removes it or rewrites what the caller will get, and none touches it
\* once published_at is set.
THEOREM RowsSurvive == PipelineSpec => RowsAreKept /\ PublishedIsFinal
<1> DEFINE Kept  == \A id \in DOMAIN outbox :
                       id \in DOMAIN outbox' /\ outbox'[id].columns = outbox[id].columns
           Final == \A id \in DOMAIN outbox :
                       outbox[id].published => outbox'[id] = outbox[id]
<1>1. PipelineInv /\ [PipelineNext]_pipelineVars => [Kept /\ Final]_outbox
  <2> SUFFICES ASSUME PipelineInv, PipelineNext PROVE [Kept /\ Final]_outbox
    BY DEF pipelineVars
  <2>1. CASE WorkerNext
    BY <2>1, WorkerInvStep DEF PipelineInv, TableKept
  <2>2. ASSUME NEW c \in Consumer, InsertRow(c) PROVE Kept /\ Final
    BY <2>2 DEF InsertRow, CreateOutboxEvent
  <2> QED BY <2>1, <2>2, ConsumerOnTable DEF PipelineNext
<1> QED
  BY <1>1, PipelineAlways, PTL DEF PipelineSpec, RowsAreKept, PublishedIsFinal

(***************************************************************************)
(* What a caller receives.                                                 *)
(***************************************************************************)

\* The stored payload: Rewrite sets three fields, Marshal and the JSONB column
\* touch the two raw members, and everything else is copied.
LEMMA PayloadFields ==
    ASSUME NEW env, IsEnvelope(env)
    PROVE  LET out == Jsonb(Marshal(Rewrite(env))) IN
           /\ out.eventID = RoutedID(UUIDOf[env.eventID])
           /\ out.eventType = "document.routed"
           /\ out.data = Reprint(Compact(env.data))
           /\ out.error = Reprint(Compact(env.error))
           /\ \A f \in DOMAIN env \ (Deltas \cup {"data", "error"}) : out[f] = env[f]
<1> DEFINE a == Rewrite(env)
           b == Marshal(a)
           out == Jsonb(b)
<1>1. /\ DOMAIN a = Fields
      /\ a.eventID = RoutedID(UUIDOf[env.eventID])
      /\ a.eventType = "document.routed"
      /\ \A f \in Fields \ Deltas : a[f] = env[f]
  BY DEF Rewrite, IsEnvelope, Fields, Required, Deltas
<1> HIDE DEF a
<1>2. /\ DOMAIN b = Fields
      /\ b.data = Compact(a.data) /\ b.error = Compact(a.error)
      /\ \A f \in Fields \ {"data", "error"} : b[f] = a[f]
  BY <1>1 DEF Marshal, Fields
<1> HIDE DEF b
<1>3. /\ out.data = Reprint(b.data) /\ out.error = Reprint(b.error)
      /\ \A f \in Fields \ {"data", "error"} : out[f] = b[f]
  BY <1>2 DEF Jsonb, Fields
<1> HIDE DEF out
<1>4. {"eventID", "eventType", "data", "error"} \subseteq Fields
  BY DEF Fields, Required
<1>5. /\ out.eventID = RoutedID(UUIDOf[env.eventID])
      /\ out.eventType = "document.routed"
  BY <1>1, <1>2, <1>3, <1>4
<1>6. a.data = env.data /\ a.error = env.error
  BY <1>1, <1>4 DEF Deltas
<1>7. \A f \in DOMAIN env \ (Deltas \cup {"data", "error"}) : out[f] = env[f]
  BY <1>1, <1>2, <1>3 DEF IsEnvelope
<1> QED BY <1>2, <1>3, <1>5, <1>6, <1>7 DEF out, b, a

\* Compacting and reprinting change the bytes of a raw member, never what it says.
LEMMA RawKeepsBody ==
    ASSUME NEW raw, DOMAIN raw = {"body", "form"}
    PROVE  SameJSON(Reprint(Compact(raw)), raw)
<1>1. CASE Present(raw)
  <2>1. raw # Absent
    BY <1>1 DEF Present, Absent
  <2>2. Compact(raw) = [raw EXCEPT !.form = "compact"]
    BY <1>1, <2>1 DEF Compact
  <2>3. Compact(raw).body = raw.body /\ DOMAIN Compact(raw) = {"body", "form"}
    BY <2>2
  <2>4. Present(Compact(raw))
    BY <1>1, <2>3 DEF Present
  <2>5. Reprint(Compact(raw)).body = raw.body
    BY <2>3, <2>4 DEF Reprint
  <2> QED BY <1>1, <2>5 DEF SameJSON
<1>2. CASE ~Present(raw)
  BY <1>2 DEF Compact, Reprint, SameJSON, Present, Null
<1> QED BY <1>1, <1>2

\* The record in a topic is that of its row, and the row that of a source record.
LEMMA RoutedHasSource ==
    ASSUME PipelineInv, NEW i \in DOMAIN routed
    PROVE  \E p \in Partition : \E o \in 1..Len(Log[p]) :
              /\ Deliverable(Rec(p, o))
              /\ IsEnvelope(Rec(p, o).value)
              /\ routed[i] = RoutedRecord(RowID(Rec(p, o)),
                                          Columns(Rec(p, o).value, Rec(p, o).traceID))
<1>1. routed[i].eventID \in DOMAIN outbox
  BY DeliveredRows DEF PipelineInv, WorkerInv, Delivered
<1>2. routed[i] = RoutedRecord(routed[i].eventID, outbox[routed[i].eventID].columns)
  BY DeliveredRows DEF PipelineInv, WorkerInv
<1>3. PICK p \in Partition : \E o \in 1..Len(Log[p]) :
         /\ Deliverable(Rec(p, o))
         /\ RowID(Rec(p, o)) = routed[i].eventID
         /\ outbox[routed[i].eventID].columns = Columns(Rec(p, o).value, Rec(p, o).traceID)
  BY <1>1 DEF PipelineInv, SplitOnlyByRollout
<1>4. PICK o \in 1..Len(Log[p]) :
         /\ Deliverable(Rec(p, o))
         /\ RowID(Rec(p, o)) = routed[i].eventID
         /\ outbox[routed[i].eventID].columns = Columns(Rec(p, o).value, Rec(p, o).traceID)
  BY <1>3
<1>5. IsEnvelope(Rec(p, o).value)
  BY <1>4, LogAssumption DEF Deliverable, Passes, Contract, Parses, Rec
<1> QED BY <1>2, <1>4, <1>5

\* What a caller's topic receives is faithful.  For every log, every number of
\* consumers and workers and every failure, a routed record is in the topic of the
\* caller of some processed record, keyed by its external_ref, and differs from it
\* in event_type, producer and event_id only.
THEOREM RoutedFaithfully == PipelineSpec => []DeliveredFaithfully
<1>1. ASSUME PipelineInv PROVE DeliveredFaithfully
  <2> SUFFICES ASSUME NEW i \in DOMAIN routed
               PROVE  \E p \in Partition : \E o \in 1..Len(Log[p]) :
                         /\ Deliverable(Rec(p, o))
                         /\ routed[i].eventID = RowID(Rec(p, o))
                         /\ routed[i].value.eventID = routed[i].eventID
                         /\ routed[i].topic = RoutedTopic(Rec(p, o).value.callerID)
                         /\ routed[i].key = Rec(p, o).value.externalRef
                         /\ \A f \in DOMAIN Rec(p, o).value \ (Deltas \cup {"data", "error"}) :
                               routed[i].value[f] = Rec(p, o).value[f]
                         /\ SameJSON(routed[i].value.data, Rec(p, o).value.data)
                         /\ SameJSON(routed[i].value.error, Rec(p, o).value.error)
    BY DEF DeliveredFaithfully
  <2>0. PICK p \in Partition : \E o \in 1..Len(Log[p]) :
           /\ Deliverable(Rec(p, o))
           /\ IsEnvelope(Rec(p, o).value)
           /\ routed[i] = RoutedRecord(RowID(Rec(p, o)),
                                       Columns(Rec(p, o).value, Rec(p, o).traceID))
    BY <1>1, RoutedHasSource
  <2>1. PICK o \in 1..Len(Log[p]) :
           /\ Deliverable(Rec(p, o))
           /\ IsEnvelope(Rec(p, o).value)
           /\ routed[i] = RoutedRecord(RowID(Rec(p, o)),
                                       Columns(Rec(p, o).value, Rec(p, o).traceID))
    BY <2>0
  <2> DEFINE src == Rec(p, o).value
             out == Jsonb(Marshal(Rewrite(src)))
  <2>2. /\ out.eventID = RowID(Rec(p, o))
        /\ out.data = Reprint(Compact(src.data))
        /\ out.error = Reprint(Compact(src.error))
        /\ \A f \in DOMAIN src \ (Deltas \cup {"data", "error"}) : out[f] = src[f]
    BY <2>1, PayloadFields DEF RowID
  <2>3. "externalRef" \in DOMAIN src \ (Deltas \cup {"data", "error"})
    BY <2>1 DEF IsEnvelope, Fields, Required, Deltas
  <2>4. src.externalRef # Missing
    BY <2>1 DEF Deliverable, Passes, Contract, Parses, Required
  <2>5. SameJSON(out.data, src.data) /\ SameJSON(out.error, src.error)
    BY <2>1, <2>2, RawKeepsBody DEF IsEnvelope
  <2> HIDE DEF out
  <2>6. /\ Columns(src, Rec(p, o).traceID).payload = out
        /\ Columns(src, Rec(p, o).traceID).topic = RoutedTopic(src.callerID)
    BY DEF Columns, out
  <2>7. /\ routed[i].eventID = RowID(Rec(p, o))
        /\ routed[i].value = out
        /\ routed[i].topic = RoutedTopic(src.callerID)
        /\ routed[i].key = IF out.externalRef # Missing THEN out.externalRef
                             ELSE Columns(src, Rec(p, o).traceID).aggregateID
    BY <2>1, <2>6 DEF RoutedRecord
  <2>8. routed[i].key = src.externalRef
    BY <2>2, <2>3, <2>4, <2>7
  <2> QED BY <2>1, <2>2, <2>5, <2>7, <2>8
<1> QED BY <1>1, PipelineAlways, PTL

(***************************************************************************)
(* The pipeline implements the courier.                                    *)
(***************************************************************************)

Published == {id \in DOMAIN outbox : outbox[id].published}

\* A step that leaves the courier's state alone.
LEMMA Stutters ==
    ASSUME DOMAIN outbox' = DOMAIN outbox, UNCHANGED <<dlq, committed>>,
           Delivered' = Delivered, Published' = Published
    PROVE  UNCHANGED CourierOf!courierVars
BY DEF CourierOf!courierVars, Published

\* The courier's notion of a handled record is the consumer's of a settled one.
LEMMA HandledMeansSettled ==
    ASSUME NEW p \in Partition, NEW o \in 1..Len(Log[p])
    PROVE  CourierOf!Handled(p, o) <=> Settled(p, o)
<1>1. RowID(Rec(p, o)) # <<>>
  BY RoutedIDIsReal DEF RowID, NoRow
<1> QED BY <1>1 DEF CourierOf!Handled, Settled

\* A row that is written accepts the event of the record in hand.
LEMMA InsertAccepts ==
    ASSUME PipelineInv, NEW c \in Consumer, pc[c] = "insert", InsertRow(c),
           UNCHANGED <<dlq, committed>>, UNCHANGED workerVars
    PROVE  CourierOf!CourierNext
<1> USE DEF PipelineInv, ControlInv
<1>1. PICK p \in Partition : p = cur[c]
  BY DEF ConsumerTypeOK
<1>2. PICK o \in 1..Len(Log[p]) : o = done[c][p] + 1
  BY <1>1, RecordInHand
<1>3. Current(c) = Rec(p, o) /\ Deliverable(Rec(p, o))
  BY <1>1, <1>2, InHandFate DEF Current, NextRec, InHand, InHandOf
<1>4. CreateOutboxEvent(RowID(Rec(p, o)), Columns(Rec(p, o).value, Rec(p, o).traceID))
  BY <1>3 DEF InsertRow
<1>5. /\ DOMAIN outbox' = DOMAIN outbox \cup {RowID(Rec(p, o))}
      /\ \A x \in DOMAIN outbox : outbox'[x] = outbox[x]
      /\ RowID(Rec(p, o)) \notin DOMAIN outbox => ~outbox'[RowID(Rec(p, o))].published
  BY <1>4, CreateRow, CreateDomain DEF WorkerInv, StateInv
<1>6. Published' = Published
  BY <1>5 DEF Published
<1>7. Delivered' = Delivered
  BY DEF Delivered, workerVars
<1>8. RowID(Rec(p, o)) # <<>>
  BY RoutedIDIsReal DEF RowID, NoRow
<1>9. CourierOf!Accept(p, o)
  BY <1>3, <1>5, <1>6, <1>7, <1>8 DEF CourierOf!Accept, Published
<1>10. o \in 1..[q \in Partition |-> Len(Log[q])][p]
  OBVIOUS
<1> QED BY <1>9, <1>10 DEF CourierOf!CourierNext

\* A record that is dead-lettered is rejected.
LEMMA DeadLetterRejects ==
    ASSUME PipelineInv, NEW c \in Consumer, pc[c] = "dlq",
           dlq' = dlq \cup {<<cur[c], done[c][cur[c]] + 1>>},
           UNCHANGED <<outbox, committed>>, UNCHANGED workerVars
    PROVE  CourierOf!CourierNext
<1> USE DEF PipelineInv, ControlInv
<1>1. PICK p \in Partition : p = cur[c]
  BY DEF ConsumerTypeOK
<1>2. PICK o \in 1..Len(Log[p]) : o = done[c][p] + 1
  BY <1>1, RecordInHand
<1>3. Rejectable(Rec(p, o)) /\ dlq' = dlq \cup {<<p, o>>}
  BY <1>1, <1>2, InHandFate DEF Current, NextRec, InHand, InHandOf
<1>4. Delivered' = Delivered
  BY DEF Delivered, workerVars
<1>5. CourierOf!Reject(p, o)
  BY <1>3, <1>4 DEF CourierOf!Reject
<1>6. o \in 1..[q \in Partition |-> Len(Log[q])][p]
  OBVIOUS
<1> QED BY <1>5, <1>6 DEF CourierOf!CourierNext

\* An offset that is committed acknowledges records that are all handled.
LEMMA CommitAcknowledges ==
    ASSUME PipelineInv, DurableInv, NEW c \in Consumer,
           committed' = [committed EXCEPT ![cur[c]] = done[c][cur[c]]],
           UNCHANGED <<outbox, dlq>>, UNCHANGED workerVars
    PROVE  CourierOf!CourierNext
<1> USE DEF PipelineInv, ControlInv
<1>1. PICK p \in Partition : p = cur[c]
  BY DEF ConsumerTypeOK
<1>2. done[c][p] \in 0..Len(Log[p])
  BY ConsumerAssumption DEF ConsumerTypeOK
<1>3. ASSUME NEW o \in 1..done[c][p] PROVE CourierOf!Handled(p, o)
  <2>1. Settled(p, o)
    BY DEF DurableInv, HandledIsSettled
  <2>2. o \in 1..Len(Log[p])
    BY <1>2, ConsumerAssumption
  <2> QED BY <2>1, <2>2, HandledMeansSettled
<1>4. Delivered' = Delivered
  BY DEF Delivered, workerVars
<1>5. done[c][p] \in 0..[q \in Partition |-> Len(Log[q])][p]
  BY <1>2
<1>6. CourierOf!Acknowledge(p)
  BY <1>1, <1>3, <1>4, <1>5 DEF CourierOf!Acknowledge
<1> QED BY <1>6 DEF CourierOf!CourierNext

\* A consumer's step accepts, rejects, acknowledges or changes nothing.
LEMMA ConsumerImplements ==
    ASSUME CommitScope = "processed", PipelineInv, DurableInv,
           ConsumerNext, UNCHANGED workerVars
    PROVE  [CourierOf!CourierNext]_(CourierOf!courierVars)
<1>1. ASSUME UNCHANGED <<outbox, dlq, committed>>
      PROVE  UNCHANGED CourierOf!courierVars
  BY <1>1, Stutters DEF Delivered, Published, workerVars
<1>2. ASSUME NEW c \in Consumer, Insert(c) \/ InsertFails(c)
      PROVE  [CourierOf!CourierNext]_(CourierOf!courierVars)
  BY <1>1, <1>2, InsertAccepts DEF Insert, InsertFails
<1>3. ASSUME NEW c \in Consumer, DeadLetter(c) \/ DeadLetterFails(c)
      PROVE  [CourierOf!CourierNext]_(CourierOf!courierVars)
  BY <1>1, <1>3, DeadLetterRejects DEF DeadLetter, DeadLetterFails
<1>4. ASSUME NEW c \in Consumer, Commit(c) \/ CommitFails(c)
      PROVE  [CourierOf!CourierNext]_(CourierOf!courierVars)
  BY <1>1, <1>4, CommitAcknowledges DEF Commit, CommitFails
<1>5. ASSUME NEW c \in Consumer, Flush(c)
      PROVE  [CourierOf!CourierNext]_(CourierOf!courierVars)
  <2>1. committed \in [Partition -> Nat] /\ cur[c] \in Partition
    BY DEF PipelineInv, ControlInv, ConsumerTypeOK
  <2>2. Flushed(c) \in {committed, [committed EXCEPT ![cur[c]] = done[c][cur[c]]]}
    <3>1. CASE pc[c] = "flushrec"
      BY <2>1, <3>1 DEF Flushed
    <3>2. CASE pc[c] # "flushrec"
      BY <2>1, <3>2 DEF Flushed
    <3> QED BY <3>1, <3>2
  <2>3. committed' \in {committed, [committed EXCEPT ![cur[c]] = done[c][cur[c]]]}
    BY <1>5, <2>2 DEF Flush
  <2> QED BY <1>1, <1>5, <2>3, CommitAcknowledges DEF Flush
<1>6. CASE UNCHANGED <<outbox, dlq, committed>>
  BY <1>1, <1>6
<1> QED
  BY <1>2, <1>3, <1>4, <1>5, <1>6 DEF ConsumerNext, Replica, Start, Poll, PollFails,
     PollCancelled, RejectContract, RejectPermanent, DedupeHit, DedupeMiss,
     DedupeError, Assign, MarkDedupe, MarkDedupeFails, Crash, MarkExpires

\* A worker's step delivers, records a delivery, or changes nothing.
LEMMA WorkerImplements ==
    ASSUME WorkerInv, WorkerNext, UNCHANGED consumerVars
    PROVE  [CourierOf!CourierNext]_(CourierOf!courierVars)
<1> USE DEF WorkerInv
<1>1. TableKept /\ UNCHANGED <<dlq, committed>>
  BY WorkerInvStep DEF consumerVars
<1>2. DOMAIN outbox' = DOMAIN outbox /\ TableOK
  BY <1>1 DEF TableKept, StateInv
<1>3. ASSUME \A x \in DOMAIN outbox : outbox'[x].published = outbox[x].published
      PROVE  Published' = Published
  BY <1>2, <1>3 DEF Published
<1>4. UNCHANGED routed => Delivered' = Delivered
  BY DEF Delivered
<1>5. ASSUME NEW w \in Worker, Publish(w) \/ PublishFails(w)
      PROVE  [CourierOf!CourierNext]_(CourierOf!courierVars)
  <2>1. UNCHANGED outbox /\ Published' = Published
    BY <1>3, <1>5 DEF Publish, PublishFails
  <2>2. CASE UNCHANGED routed
    BY <1>1, <1>2, <1>4, <2>1, <2>2, Stutters
  <2>3. ASSUME NEW r \in batch[w], Produce(r.id) PROVE CourierOf!CourierNext
    <3>1. r.id \in DOMAIN outbox
      BY HeldRows
    <3>2. Delivered' = Delivered \cup {r.id}
      BY <2>1, <2>3, <3>1, ProduceRow
    <3>3. CourierOf!Deliver
      BY <1>1, <2>1, <3>1, <3>2 DEF CourierOf!Deliver, Published
    <3> QED BY <3>3 DEF CourierOf!CourierNext
  <2> QED BY <1>5, <2>2, <2>3 DEF Publish, PublishFails
<1>6. ASSUME NEW w \in Worker, MarkPublished(w) \/ MarkPublishedFails(w)
      PROVE  [CourierOf!CourierNext]_(CourierOf!courierVars)
  <2>1. hand[w].id \in Delivered /\ hand[w].id \in DOMAIN outbox /\ Delivered' = Delivered
    BY <1>4, <1>6, DeliveredRows DEF MarkPublished, MarkPublishedFails, KnownInv
  <2>2. CASE UNCHANGED outbox
    BY <1>1, <1>2, <1>3, <2>1, <2>2, Stutters
  <2>3. CASE MarkOutboxEventPublished(hand[w].id)
    <3>1. /\ outbox'[hand[w].id].published
          /\ \A x \in DOMAIN outbox : x # hand[w].id => outbox'[x] = outbox[x]
      BY <1>2, <2>1, <2>3, PublishRow
    <3>2. Published' = Published \cup {hand[w].id}
      BY <1>2, <2>1, <3>1 DEF Published
    <3>3. CourierOf!RecordDelivery
      BY <1>1, <1>2, <2>1, <3>2 DEF CourierOf!RecordDelivery, Published
    <3> QED BY <3>3 DEF CourierOf!CourierNext
  <2> QED BY <1>6, <2>2, <2>3 DEF MarkPublished, MarkPublishedFails
<1>7. ASSUME NEW w \in Worker, MarkFailed(w) \/ MarkFailedFails(w)
      PROVE  UNCHANGED CourierOf!courierVars
  <2>1. hand[w].id \in DOMAIN outbox /\ hand[w].attempts \in 0..RetryCap
    BY <1>7, HeldRows, OutboxAssumption
       DEF MarkFailed, MarkFailedFails, StateInv, Claims, NoRow
  <2>2. \A x \in DOMAIN outbox : outbox'[x].published = outbox[x].published
    BY <1>2, <1>7, <2>1, FailRow, BackoffBound DEF MarkFailed, MarkFailedFails
  <2> QED BY <1>1, <1>2, <1>3, <1>4, <1>7, <2>2, Stutters DEF MarkFailed, MarkFailedFails
<1>8. ASSUME NEW w \in Worker, Claim(w) \/ ClaimLost(w)
      PROVE  UNCHANGED CourierOf!courierVars
  <2>1. PICK ids : ids \subseteq Claimable /\ Lock(w, ids)
    BY <1>8, OldestAmong DEF Claim, ClaimLost
  <2>2. \A x \in DOMAIN outbox : outbox'[x].published = outbox[x].published
    BY <1>2, <2>1, LockRows, ClaimableIsFree
  <2> QED BY <1>1, <1>2, <1>3, <1>4, <1>8, <2>2, Stutters DEF Claim, ClaimLost, workerVars
<1>9. ASSUME NEW w \in Worker, WorkerStart(w) \/ WorkerStop(w)
      PROVE  UNCHANGED CourierOf!courierVars
  BY <1>1, <1>2, <1>3, <1>4, <1>9, Stutters DEF WorkerStart, WorkerStop
<1>10. ASSUME Tick PROVE UNCHANGED CourierOf!courierVars
  BY <1>1, <1>2, <1>3, <1>4, <1>10, ElapseRows, Stutters DEF Tick
<1> QED BY <1>5, <1>6, <1>7, <1>8, <1>9, <1>10 DEF WorkerNext, WorkerStep

\* The pipeline keeps the courier's promise, if CommitUncommitted commits no more
\* than the offsets of processed records: for any number of consumers, workers,
\* partitions and records, and whatever fails or crashes, every step accepts,
\* rejects, acknowledges handled records, delivers what was accepted, records what
\* was delivered, or is invisible.
THEOREM PipelineImplementsCourier ==
    ASSUME CommitScope = "processed"
    PROVE  PipelineSpec => ImplementsCourier
<1>1. ASSUME PipelineInit PROVE CourierOf!CourierInit
  BY <1>1 DEF PipelineInit, ConsumerInit, WorkerInit, CourierOf!CourierInit, Zero, Delivered
<1>2. PipelineInv /\ DurableInv /\ [PipelineNext]_pipelineVars
         => [CourierOf!CourierNext]_(CourierOf!courierVars)
  <2> SUFFICES ASSUME PipelineInv, DurableInv, [PipelineNext]_pipelineVars
               PROVE  [CourierOf!CourierNext]_(CourierOf!courierVars)
    OBVIOUS
  <2>1. CASE ConsumerNext /\ UNCHANGED workerVars
    BY <2>1, ConsumerImplements
  <2>2. CASE WorkerNext /\ UNCHANGED consumerVars
    BY <2>2, WorkerImplements DEF PipelineInv
  <2>3. CASE UNCHANGED pipelineVars
    BY <2>3, Stutters DEF pipelineVars, consumerVars, workerVars, Delivered, Published
  <2> QED BY <2>1, <2>2, <2>3 DEF PipelineNext
<1> QED
  BY <1>1, <1>2, PipelineAlways, DurableAlways, PTL
     DEF PipelineSpec, ImplementsCourier, CourierOf!CourierSafety
=============================================================================
