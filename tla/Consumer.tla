------------------------------ MODULE Consumer ------------------------------
(***************************************************************************)
(* The document.processed consumer (internal/app/consumer.go) and the      *)
(* router service it calls (internal/service/router): each replica polls a *)
(* batch of records from the partitions it owns, routes or dead-letters    *)
(* them one after the other, and commits the offset of each.               *)
(*                                                                         *)
(* Kafka, Redis and the group coordinator are external: they are modelled  *)
(* from the calls the code makes.  Any call may fail, and a call that      *)
(* changes state may fail after it took effect; a cancelled context        *)
(* (SIGTERM) is one of the ways a call fails.                              *)
(***************************************************************************)
EXTENDS Envelope, OutboxEvents, Sequences

CONSTANTS
    Consumer,     \* the consumer replicas
    NoConsumer,   \* a partition nobody is assigned
    Partition,    \* the partitions of the consumed topic
    Log,          \* the records of each partition
    Registries,   \* the sets of caller_ids GATEWAY_CALLERS lists over time
    MaxPoll,      \* most records of one partition in one Poll
    CommitScope   \* what CommitUncommitted commits, see Flush

ASSUME ConsumerAssumption ==
    /\ NoConsumer \notin Consumer
    /\ Partition # {}
    /\ \A p \in Partition : Len(Log[p]) \in Nat
    /\ Registries # {}
    /\ MaxPoll \in Nat \ {0}
    /\ CommitScope \in {"processed", "polled"}

\* A record's value is an envelope, or nothing encoding/json can decode.
ASSUME LogAssumption ==
    \A p \in Partition : \A o \in 1..Len(Log[p]) :
        Log[p][o].value = NotJSON \/ IsEnvelope(Log[p][o].value)

VARIABLES
    pc,         \* where each replica is, see States
    cur,        \* the partition of the record it is working on
    done,       \* done[c][p]: offset below which c has handled its batch
    polled,     \* polled[c][p]: the offset its batch ends at
    pos,        \* pos[c][p]: the Kafka client's fetch position
    known,      \* known[c]: the caller_ids of the registry c booted with
    owner,      \* the group's assignment of partitions
    committed,  \* the group's committed offsets
    marks,      \* the event_id texts with a dedupe mark in Redis
    dlq         \* the records <<p, o>> in the dead-letter topic

replicaVars  == <<pc, cur, done, polled, pos, known>>
consumerVars == <<replicaVars, owner, committed, marks, dlq>>

States == {"down", "run", "insert", "mark", "dlq", "commit", "flush", "flushrec"}

(***************************************************************************)
(* Records.  The record at offset o, counted from 1, of partition p.       *)
(***************************************************************************)
Rec(p, o) == Log[p][o]

\* handleProcessedRecord up to the call of Handle: the envelope parses and the
\* event-id header, when there is one, agrees with it.
Contract(rec) ==
    /\ Parses(rec.value)
    /\ rec.eventID \in {Missing, rec.value.eventID}

\* The record gets past every check that ends in the dead-letter topic, at a
\* replica whose registry lists these callers.
Passes(rec, callers) == Contract(rec) /\ Routable(rec.value, callers)

\* Some registry routes the record; some registry refuses it.  A record whose
\* caller only some of the registries list is both.
Deliverable(rec) == \E callers \in Registries : Passes(rec, callers)

Rejectable(rec) == \E callers \in Registries : ~Passes(rec, callers)

RowID(rec) == RoutedID(UUIDOf[rec.value.eventID])

\* The record has a fate some registry gives it: a routed row, or a place in
\* the DLQ.
Settled(p, o) ==
    \/ Deliverable(Rec(p, o)) /\ RowID(Rec(p, o)) \in DOMAIN outbox
    \/ Rejectable(Rec(p, o)) /\ <<p, o>> \in dlq

(***************************************************************************)
(* The loop of RunConsumer.                                                *)
(***************************************************************************)
Zero == [p \in Partition |-> 0]

SomePartition == CHOOSE p \in Partition : TRUE   \* cur of a replica at rest

\* The batch is used up, so the loop is at consumer.Poll.
AtPoll(c) == pc[c] = "run" /\ done[c] = polled[c]

Goto(c, state) == pc' = [pc EXCEPT ![c] = state]

\* The replica is inside handleProcessedRecord, about to work on the next
\* record of partition p.
AtRecord(c, p) == pc[c] = "run" /\ done[c][p] < polled[c][p]

NextRec(c, p) == Rec(p, done[c][p] + 1)

Current(c) == NextRec(c, cur[c])

\* The process exits: the client leaves the group, in-memory state is lost.
Exit(c) ==
    /\ Goto(c, "down")
    /\ done'   = [done EXCEPT ![c] = Zero]
    /\ polled' = [polled EXCEPT ![c] = Zero]
    /\ pos'    = [pos EXCEPT ![c] = Zero]
    /\ known'  = [known EXCEPT ![c] = {}]
    /\ cur'    = [cur EXCEPT ![c] = SomePartition]
    /\ owner'  = [p \in Partition |-> IF owner[p] = c THEN NoConsumer ELSE owner[p]]

\* The record of cur is finished: its offset is next to be committed.
Finish(c) ==
    /\ Goto(c, "commit")
    /\ done' = [done EXCEPT ![c][cur[c]] = @ + 1]

\* The process boots and reads its registry from the environment it is started
\* with, for as long as it lives: in a rollout, or a rollback, replicas of
\* different registries work side by side and take over from one another.
Start(c) ==
    /\ pc[c] = "down"
    /\ Goto(c, "run")
    /\ \E callers \in Registries : known' = [known EXCEPT ![c] = callers]
    /\ UNCHANGED <<cur, done, polled, pos, owner, committed, marks, dlq, outbox>>

\* Poll returns records of some owned partitions and moves the position on.
Poll(c) ==
    /\ AtPoll(c)
    /\ \E take \in [Partition -> 0..MaxPoll] :
          /\ \A p \in Partition : take[p] > 0 =>
                owner[p] = c /\ pos[c][p] + take[p] <= Len(Log[p])
          /\ \E p \in Partition : take[p] > 0
          /\ pos'    = [pos EXCEPT ![c] = [p \in Partition |-> @[p] + take[p]]]
          /\ polled' = [polled EXCEPT ![c] = [p \in Partition |-> pos[c][p] + take[p]]]
    /\ done' = [done EXCEPT ![c] = pos[c]]
    /\ UNCHANGED <<pc, cur, known, owner, committed, marks, dlq, outbox>>

\* Poll fails.  With the context cancelled the pending offsets are flushed,
\* otherwise RunConsumer returns at once.
PollFails(c) ==
    /\ AtPoll(c)
    /\ Exit(c)
    /\ UNCHANGED <<committed, marks, dlq, outbox>>

PollCancelled(c) ==
    /\ AtPoll(c)
    /\ Goto(c, "flush")
    /\ UNCHANGED <<cur, done, polled, pos, known, owner, committed, marks, dlq, outbox>>

\* Mutant of RejectContract: the error is returned instead of dead-lettered.
RejectContractReturns(c, p) ==
    /\ AtRecord(c, p)
    /\ ~Contract(NextRec(c, p))
    /\ cur' = [cur EXCEPT ![c] = p]
    /\ Goto(c, "flush")
    /\ UNCHANGED <<done, polled, pos, known, owner, committed, marks, dlq, outbox>>

\* A record that breaks the contract goes to deadLetter.
RejectContract(c, p) ==
    /\ AtRecord(c, p)
    /\ ~Contract(NextRec(c, p))
    /\ cur' = [cur EXCEPT ![c] = p]
    /\ Goto(c, "dlq")
    /\ UNCHANGED <<done, polled, pos, known, owner, committed, marks, dlq, outbox>>

\* Handle returns a PermanentError: dead-lettered too, unless the context was
\* cancelled meanwhile, in which case the error is returned as it is.
RejectPermanent(c, p) ==
    /\ AtRecord(c, p)
    /\ Contract(NextRec(c, p))
    /\ ~Routable(NextRec(c, p).value, known[c])
    /\ cur' = [cur EXCEPT ![c] = p]
    /\ \/ Goto(c, "dlq")
       \/ Goto(c, "flush")
    /\ UNCHANGED <<done, polled, pos, known, owner, committed, marks, dlq, outbox>>

\* Redis EXISTS finds the mark of the event_id's text: Handle returns nil.
DedupeHit(c, p) ==
    /\ AtRecord(c, p)
    /\ Passes(NextRec(c, p), known[c])
    /\ NextRec(c, p).value.eventID \in marks
    /\ cur' = [cur EXCEPT ![c] = p]
    /\ done' = [done EXCEPT ![c][p] = @ + 1]
    /\ Goto(c, "commit")
    /\ UNCHANGED <<polled, pos, known, owner, committed, marks, dlq, outbox>>

\* Mutant of DedupeMiss: one SETNX both checks and marks, before the insert.
DedupeMissMarks(c, p) ==
    /\ AtRecord(c, p)
    /\ Passes(NextRec(c, p), known[c])
    /\ NextRec(c, p).value.eventID \notin marks
    /\ marks' = marks \cup {NextRec(c, p).value.eventID}
    /\ cur' = [cur EXCEPT ![c] = p]
    /\ Goto(c, "insert")
    /\ UNCHANGED <<done, polled, pos, known, owner, committed, dlq, outbox>>

\* Mutant of DedupeMiss: the dedupe check comes first, and a record it lets pass
\* is not looked up in the registry.
DedupeMissUnlisted(c, p) ==
    /\ AtRecord(c, p)
    /\ Contract(NextRec(c, p))
    /\ NextRec(c, p).value.eventID \in DOMAIN UUIDOf \ marks
    /\ cur' = [cur EXCEPT ![c] = p]
    /\ Goto(c, "insert")
    /\ UNCHANGED <<done, polled, pos, known, owner, committed, marks, dlq, outbox>>

DedupeMiss(c, p) ==
    /\ AtRecord(c, p)
    /\ Passes(NextRec(c, p), known[c])
    /\ NextRec(c, p).value.eventID \notin marks
    /\ cur' = [cur EXCEPT ![c] = p]
    /\ Goto(c, "insert")
    /\ UNCHANGED <<done, polled, pos, known, owner, committed, marks, dlq, outbox>>

DedupeError(c, p) ==
    /\ AtRecord(c, p)
    /\ Passes(NextRec(c, p), known[c])
    /\ cur' = [cur EXCEPT ![c] = p]
    /\ Goto(c, "flush")
    /\ UNCHANGED <<done, polled, pos, known, owner, committed, marks, dlq, outbox>>

\* The transaction that writes the routed row.
InsertRow(c) ==
    CreateOutboxEvent(RowID(Current(c)), Columns(Current(c).value, Current(c).traceID))

Insert(c) ==
    /\ pc[c] = "insert"
    /\ Storable(Current(c).value)
    /\ InsertRow(c)
    /\ Goto(c, "mark")
    /\ UNCHANGED <<cur, done, polled, pos, known, owner, committed, marks, dlq>>

\* Mutants of InsertFails: the error is swallowed; or it is dead-lettered.
InsertFailsSwallowed(c) ==
    /\ pc[c] = "insert"
    /\ Finish(c)
    /\ UNCHANGED <<cur, polled, pos, known, owner, committed, marks, dlq, outbox>>

InsertFailsDeadLettered(c) ==
    /\ pc[c] = "insert"
    /\ Goto(c, "dlq")
    /\ UNCHANGED <<cur, done, polled, pos, known, owner, committed, marks, dlq, outbox>>

\* ExecTx returns an error: the row was not written, or it was and the answer
\* to COMMIT got lost.
InsertFails(c) ==
    /\ pc[c] = "insert"
    /\ \/ UNCHANGED outbox
       \/ Storable(Current(c).value) /\ InsertRow(c)
    /\ Goto(c, "flush")
    /\ UNCHANGED <<cur, done, polled, pos, known, owner, committed, marks, dlq>>

\* SETNX after the row is durable; its failure is logged and ignored.
MarkDedupe(c) ==
    /\ pc[c] = "mark"
    /\ marks' = marks \cup {Current(c).value.eventID}
    /\ Finish(c)
    /\ UNCHANGED <<cur, polled, pos, known, owner, committed, dlq, outbox>>

MarkDedupeFails(c) ==
    /\ pc[c] = "mark"
    /\ Finish(c)
    /\ UNCHANGED <<cur, polled, pos, known, owner, committed, marks, dlq, outbox>>

DeadLetter(c) ==
    /\ pc[c] = "dlq"
    /\ dlq' = dlq \cup {<<cur[c], done[c][cur[c]] + 1>>}
    /\ Finish(c)
    /\ UNCHANGED <<cur, polled, pos, known, owner, committed, marks, outbox>>

\* Mutant of DeadLetterFails: the error is logged and forgotten.
DeadLetterFailsForgotten(c) ==
    /\ pc[c] = "dlq"
    /\ Finish(c)
    /\ UNCHANGED <<cur, polled, pos, known, owner, committed, marks, dlq, outbox>>

\* The publish to the DLQ reports an error, which may hide a written record.
DeadLetterFails(c) ==
    /\ pc[c] = "dlq"
    /\ dlq' \in {dlq, dlq \cup {<<cur[c], done[c][cur[c]] + 1>>}}
    /\ Goto(c, "flush")
    /\ UNCHANGED <<cur, done, polled, pos, known, owner, committed, marks, outbox>>

\* Mutant of Commit: one past the offset after the record.
CommitPastNext(c) ==
    /\ pc[c] = "commit"
    /\ committed' = [committed EXCEPT ![cur[c]] = done[c][cur[c]] + 1]
    /\ Goto(c, "run")
    /\ UNCHANGED <<cur, done, polled, pos, known, owner, marks, dlq, outbox>>

\* CommitRecords sets the group's offset to just past this record.  The broker
\* takes it from any live member, owner of the partition or not, and it may
\* set the offset back.
Commit(c) ==
    /\ pc[c] = "commit"
    /\ committed' = [committed EXCEPT ![cur[c]] = done[c][cur[c]]]
    /\ Goto(c, "run")
    /\ UNCHANGED <<cur, done, polled, pos, known, owner, marks, dlq, outbox>>

CommitFails(c) ==
    /\ pc[c] = "commit"
    /\ committed' \in {committed, [committed EXCEPT ![cur[c]] = done[c][cur[c]]]}
    /\ Goto(c, "flushrec")
    /\ UNCHANGED <<cur, done, polled, pos, known, owner, marks, dlq, outbox>>

\* What CommitUncommitted commits.  "processed" is what commitPending's comment
\* says: the offset of a record that was handled and whose commit failed.
\* "polled" is what the Kafka client underneath (franz-go) takes for
\* uncommitted: all that Poll has returned of the partitions still owned.
Flushed(c) ==
    [p \in Partition |->
        CASE CommitScope = "polled" /\ owner[p] = c -> pos[c][p]
          [] CommitScope = "processed" /\ pc[c] = "flushrec" /\ p = cur[c] -> done[c][p]
          [] OTHER -> committed[p]]

\* commitPending, whose own failure is only logged, and the return after it.
Flush(c) ==
    /\ pc[c] \in {"flush", "flushrec"}
    /\ committed' \in {committed, Flushed(c)}
    /\ Exit(c)
    /\ UNCHANGED <<marks, dlq, outbox>>

(***************************************************************************)
(* The environment.                                                        *)
(***************************************************************************)
Crash(c) ==
    /\ pc[c] # "down"
    /\ Exit(c)
    /\ UNCHANGED <<committed, marks, dlq, outbox>>

\* The coordinator gives p to a live member, who starts at the committed offset.
\* A former owner keeps what it has polled and learns nothing of it.
Assign(c, p) ==
    /\ pc[c] # "down"
    /\ owner[p] # c
    /\ owner' = [owner EXCEPT ![p] = c]
    /\ pos' = [pos EXCEPT ![c][p] = committed[p]]
    /\ UNCHANGED <<pc, cur, done, polled, known, committed, marks, dlq, outbox>>

\* DedupeTTL passes, or Redis loses its data.
MarkExpires ==
    /\ \E e \in marks : marks' = marks \ {e}
    /\ UNCHANGED <<pc, cur, done, polled, pos, known, owner, committed, dlq, outbox>>

ConsumerInit ==
    /\ pc = [c \in Consumer |-> "down"]
    /\ cur = [c \in Consumer |-> SomePartition]
    /\ done = [c \in Consumer |-> Zero]
    /\ polled = [c \in Consumer |-> Zero]
    /\ pos = [c \in Consumer |-> Zero]
    /\ known = [c \in Consumer |-> {}]
    /\ owner = [p \in Partition |-> NoConsumer]
    /\ committed = Zero
    /\ marks = {}
    /\ dlq = {}
    /\ outbox = <<>>

Replica(c) ==
    \/ Start(c) \/ Poll(c) \/ PollFails(c) \/ PollCancelled(c)
    \/ \E p \in Partition :
          \/ RejectContract(c, p) \/ RejectPermanent(c, p)
          \/ DedupeHit(c, p) \/ DedupeMiss(c, p) \/ DedupeError(c, p)
          \/ Assign(c, p)
    \/ Insert(c) \/ InsertFails(c) \/ MarkDedupe(c) \/ MarkDedupeFails(c)
    \/ DeadLetter(c) \/ DeadLetterFails(c)
    \/ Commit(c) \/ CommitFails(c) \/ Flush(c) \/ Crash(c)

ConsumerNext == (\E c \in Consumer : Replica(c)) \/ MarkExpires

ConsumerSpec == ConsumerInit /\ [][ConsumerNext]_<<consumerVars, outbox>>

(***************************************************************************)
(* Fairness.  Replicas are restarted by their orchestrator, a running      *)
(* process takes its next step, and one that waits in Poll is given the    *)
(* partitions nobody owns.  Calls to Kafka, Redis and Postgres, and the    *)
(* process itself, may fail again and again, but not each time: an         *)
(* operation tried forever succeeds at some try.                           *)
(***************************************************************************)
\* The record is taken on, without an error from Redis or a cancelled context.
TakeOn(c, p) ==
    \/ RejectContract(c, p)
    \/ RejectPermanent(c, p) /\ pc'[c] = "dlq"
    \/ DedupeHit(c, p)
    \/ DedupeMiss(c, p)

ConsumerFairness ==
    /\ \A c \in Consumer :
          /\ WF_<<consumerVars, outbox>>(Start(c) \/ Flush(c))
          /\ SF_<<consumerVars, outbox>>(Poll(c))
          /\ SF_<<consumerVars, outbox>>(Insert(c))
          /\ SF_<<consumerVars, outbox>>(MarkDedupe(c) \/ MarkDedupeFails(c))
          /\ SF_<<consumerVars, outbox>>(DeadLetter(c))
          /\ SF_<<consumerVars, outbox>>(Commit(c))
          /\ \A p \in Partition : SF_<<consumerVars, outbox>>(TakeOn(c, p))
    /\ \A p \in Partition :
          SF_<<consumerVars, outbox>>(
              owner[p] = NoConsumer /\ \E c \in Consumer : AtPoll(c) /\ Assign(c, p))

ConsumerFairSpec == ConsumerSpec /\ ConsumerFairness

(***************************************************************************)
(* Properties.                                                             *)
(***************************************************************************)
\* Every variable has its type; a replica's batch, and the committed offsets,
\* stay inside their partitions.
ConsumerTypeOK ==
    /\ pc \in [Consumer -> States]
    /\ cur \in [Consumer -> Partition]
    /\ done \in [Consumer -> [Partition -> Nat]]
    /\ polled \in [Consumer -> [Partition -> Nat]]
    /\ pos \in [Consumer -> [Partition -> Nat]]
    /\ known \in [Consumer -> Registries \cup {{}}]
    /\ \A c \in Consumer : pc[c] # "down" => known[c] \in Registries
    /\ owner \in [Partition -> Consumer \cup {NoConsumer}]
    /\ committed \in [Partition -> Nat]
    /\ marks \subseteq DOMAIN UUIDOf
    /\ \A r \in dlq : \E p \in Partition : r \in {p} \X (1..Len(Log[p]))
    /\ \A p \in Partition :
          /\ committed[p] <= Len(Log[p])
          /\ \A c \in Consumer :
                /\ done[c][p] <= polled[c][p]
                /\ polled[c][p] <= Len(Log[p])
                /\ pos[c][p] <= Len(Log[p])

\* No event is dropped: every record below a committed offset is settled, so
\* that a crash, a rebalance or a failed call never skips one ("the offset is
\* NOT committed, so Kafka redelivers", RunConsumer).
CommittedIsDurable ==
    \A p \in Partition : \A o \in 1..committed[p] : Settled(p, o)

\* A dedupe mark, by which redeliveries are skipped, is only ever there when
\* the routed row is (dedupeKeyPrefix: "marks written only after the routed
\* outbox row is durable").
MarkedIsDurable == \A e \in marks : RoutedID(UUIDOf[e]) \in DOMAIN outbox

\* A record that can be routed is dead-lettered only where the registries that
\* replicas boot with disagree on its caller, and a row exists only for a record
\* one of them routes, with that record's content.  A record refused by an old
\* replica that could not commit, and redelivered to a new one, is in both places;
\* a failing call, a crash or a rebalance alone never puts one there.
SplitOnlyByRollout ==
    /\ \A r \in dlq :
          LET rec == Rec(r[1], r[2])
          IN  Deliverable(rec) =>
                 \E old, new \in Registries : rec.value.callerID \in new \ old
    /\ \A id \in DOMAIN outbox :
          \E p \in Partition : \E o \in 1..Len(Log[p]) :
              /\ Deliverable(Rec(p, o))
              /\ RowID(Rec(p, o)) = id
              /\ outbox[id].columns = Columns(Rec(p, o).value, Rec(p, o).traceID)

\* Each dead letter and each row is the work of a replica that has the record in
\* hand and whose own registry refuses it, or lets it pass: nothing another
\* replica decided, or the same one before its restart, is carried over, so that
\* a caller every running replica knows loses no record to the DLQ any more.
RegistryDecides ==
    [][/\ \A r \in dlq' \ dlq : \E c \in Consumer :
             /\ pc[c] = "dlq" /\ r = <<cur[c], done[c][cur[c]] + 1>>
             /\ ~Passes(Current(c), known[c])
       /\ \A id \in DOMAIN outbox' \ DOMAIN outbox : \E c \in Consumer :
             /\ pc[c] = "insert" /\ id = RowID(Current(c))
             /\ Passes(Current(c), known[c])]_<<dlq, outbox>>

\* A row, once written, is neither lost nor overwritten by the redelivery of
\* its event or by another record that carries the same event_id.
RowsAreKept ==
    [][\A id \in DOMAIN outbox :
          id \in DOMAIN outbox' /\ outbox'[id].columns = outbox[id].columns]_outbox

\* Every record is settled in the end and the group's offset reaches the end of
\* each partition and stays there: "one poison payload does not stall the
\* partition".
LogIsDrained ==
    <>[](\A p \in Partition : committed[p] = Len(Log[p]))

(***************************************************************************)
(* The parts of the inductive invariant behind CommittedIsDurable and      *)
(* MarkedIsDurable.                                                        *)
(***************************************************************************)

\* A replica in the middle of a record has one in its batch, and of the kind
\* its registry sends to the branch it is in; past the insert, the row is there.
InHandOf(c) ==
    /\ pc[c] \in {"insert", "mark", "dlq"} => done[c][cur[c]] < polled[c][cur[c]]
    /\ pc[c] \in {"insert", "mark"} => Passes(Current(c), known[c])
    /\ pc[c] = "dlq" => ~Passes(Current(c), known[c])
    /\ pc[c] = "mark" => RowID(Current(c)) \in DOMAIN outbox

InHand == \A c \in Consumer : InHandOf(c)

\* What a replica has handled of its batch, and all before it, is settled, even
\* if the partition has long been given to another.
HandledIsSettled ==
    \A c \in Consumer, p \in Partition : \A o \in 1..done[c][p] : Settled(p, o)

\* The client's position is the end of the batch in hand, or it was set by a
\* new assignment and everything before it is settled.
PositionIsSettled ==
    \A c \in Consumer, p \in Partition :
        \/ pos[c][p] = polled[c][p]
        \/ \A o \in 1..pos[c][p] : Settled(p, o)
=============================================================================
