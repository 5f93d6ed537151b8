# ocr-gateway: a TLA+ verification of the gateway

ocr-gateway stands between callers (expense and others) and the OCR engine.
Documents go in over gRPC ("Kontrak A"): the gateway authenticates the caller,
limits its rate, maps doc_type to schema_id and forwards to ocr. Results come
back by event: ocr publishes `document.processed`, the gateway routes each event
to the topic of the caller it belongs to as `document.routed`. The second half is
where most of the state, the concurrency and the failures are; the first is stateless, and
what is hard about it is that several replicas, each with the registry it booted with,
serve calls that overlap, time out and are repeated.

## Inventory

| component | state | operations | what makes it correct | module |
|---|---|---|---|---|
| envelope (`internal/envelope`, the rewrite in `service/router`) | none | Parse, Marshal, rewrite three fields, derive the routed id, topic and key | the caller gets what ocr said, in its own topic | Envelope |
| outbox table (`internal/repository`, `db/`) | one row per routed event: columns, published_at, attempt_count, next_attempt_at, locked_at, locked_by | insert-or-ignore, claim, mark published, mark failed | rows are kept, published_at is final | OutboxEvents, OutboxEventsProofs |
| consumer and router (`internal/app/consumer.go`, `service/router`) | batch, position and the registry it booted with in memory; committed offsets in Kafka; dedupe marks in Redis; rows in Postgres; dead letters in Kafka | poll, check, dedupe, insert, mark, dead-letter, commit, flush | nothing committed is dropped; a record is routed or rejected as the registry of the replica at it decides, and both only if a rollout comes between; no record stalls the rest | Consumer, ConsumerProofs |
| outbox worker (`internal/app/worker.go`, `service/outbox`) | claimed batch in memory | claim, publish, record the outcome, back off | what is recorded was delivered; repeats have a cause; every row goes out | OutboxWorker, OutboxWorkerProofs |
| routing pipeline | the table the two processes share | consumers and workers side by side | implements the courier below | Pipeline, Courier, PipelineProofs |
| caller gate (`internal/server/auth.go`) | a counter per caller and window in Redis | authenticate, Allow | the budget holds over all replicas, denials have a cause, retry-after works | RateLimiter, RateLimiterProofs, GatewayApi |
| Kontrak A API (`handler/grpc`, `service/gateway`, `contract`) | none but the calls it is serving | SubmitDocument, GetDocument | one document for each intent, attributed and handed back to its submitter; refusals have a cause; polls show ocr's answer | GatewayApi, GatewayApiProofs |
| gRPC process (`app/grpc.go`, `server`, `handler/health`) | draining flag, Redis client or nil, three listeners, RPCs in flight | boot, probes, drain, shutdown | readiness fails before listeners close; RPCs get the time promised; shutdown ends; a healthy process is ready | GrpcLifecycle, GrpcLifecycleProofs |
| configuration and registry (`internal/config`, `CallerRegistry`) | a map in each process, fixed at boot | parse, validate, index, look up | what is accepted is represented | Registry (callers only) |
| `cmd/` | none | load the configuration, run or exit | a refused configuration does not start | GatewayApi (Boot, Restart) |
| metrics, version, generated code | none | | | not modelled: observability or generated |

How they meet: consumer and worker never call each other. They share the table
`outbox_events`; the consumer inserts, the worker claims and marks. Redis holds
dedupe marks for the consumer and counters for the gate. Kafka holds the consumed
log, the group's offsets, the routed topics and the dead-letter topic. The gRPC process
and the consumer meet through ocr, which echoes the caller_id of a submit in the
event, and through GATEWAY_CALLERS, which each reads when it boots.

What is hard: a record's handling is five calls to three stores, any of which can
fail, or succeed and report failure; replicas are restarted and partitions move in
the middle; workers can outlive their lock; counters expire by a clock the
replicas do not share.

## Modules

* **Envelope** - pure operators. A record value is `NotJSON` or an envelope of
  texts; raw JSON members are a body (what the JSON says) and a form (whose bytes
  say it), so that encoding/json's compaction and JSONB's reprinting are
  visible. `Parses` is Parse, `Routable` the checks of Handle that end in a
  PermanentError, for the callers a replica's registry lists, `Columns` the row that is inserted, `RoutedRecord` the record the
  worker builds from it. `UUIDOf` maps texts to UUIDs: two spellings of an id have
  two dedupe marks and one row. Everything uuid.Parse rejects is outside its domain.
* **OutboxEvents** - the table as a function from id to row, one operator per SQL
  statement. Time is relative: `wait` and `lease` count down, so no clock is kept.
* **Consumer** - `pc[c]` is the place of replica c in RunConsumer:
  `run` (at Poll or at the next record), `insert`, `mark`, `dlq`, `commit`,
  `flush`/`flushrec` (in commitPending after a failed record / after a failed
  commit) and `down`. `known[c]` is the registry of the process: `Start` gives it any of
  `Registries`, the sets of callers GATEWAY_CALLERS lists over time, so that a rollout or a
  rollback may fall between a record's delivery and its redelivery, and replicas of
  different registries may share the work. `done`, `polled` and `pos` are the handled part of the batch,
  its end, and the Kafka client's position. One action per outcome of each call;
  a call that changes state can fail after taking effect. SIGTERM is not an action:
  a cancelled context shows only in calls that fail, which every call may.
  The records of a Poll are handled per partition in order and between partitions
  in any order. `Assign` gives a partition to a live replica at any time;
  the former owner goes on with what it polled, as the code has no revoke callback.
* **OutboxWorker** - `wpc[w]`: `down`, `idle` (waiting for the timer), `loop` (the next
  row of the batch), `sent` / `unsent` (Publish returned, outcome not recorded).
  A batch is a set, because the claim's RETURNING has no order.
  `overrun` and `ambiguous` are history: rows whose lock ran out under a worker,
  rows whose delivery was reported failed or not recorded. `Arrive` puts rows in
  the table when there is no consumer.
* **Pipeline** - EXTENDS both; a step is a step of one. `CourierOf` instantiates
  **Courier**, the abstract promise: accept or reject (or both, a record whose caller the
  registries disagree on), acknowledge only what is handled, deliver only what is accepted, record only what is delivered.
* **RateLimiter** - per request: clock reading, INCR, EXPIRE, decision. One caller,
  because keys of different callers differ. `Offset` is the lead of the replica's clock.
* **GrpcLifecycle** - `pc` is the place in RunGRPC: `down`, the boot steps (`postgres`, `redis`,
  `servers`), `serve` (waiting on runCtx), `sleep` (the drain delay) and the server being
  stopped (`pprof`, `http`, `grpc`, in this order). `left` is what remains of the delay or of
  shutdownCtx, which the three servers share. A Shutdown that times out returns from RunGRPC
  at once (`TimedOut`), so the servers after it are never stopped gracefully. `probe = "ping"` is
  a Readiness call past its draining check: its answer may come after the drain began.
  `rdb` FALSE is the nil client of optional mode. The balancer is external: it probes
  `ProbePeriod` after each answer and acts on a refusal within `RemovalLag`. A second SIGTERM
  after `stop()` is a `Kill`. The two BeginDrains are one step, two stores with nothing between.
  The pings of a probe are sampled when it answers; the drain flag, when it starts.
* **Registry** - pure operators from the text of GATEWAY_CALLERS to a process's map: `ParseCallers`,
  `ValidCallers`, `Load`, `NewCallerRegistry` (the last caller of a hash wins), `Lookup`, `KnownCaller`
  and the limits by name. A hash is a digest and whether it is in capitals, which
  parseCallers removes; a digest is named by its key, as SHA-256 is taken to be injective.
* **GatewayApi** - EXTENDS Registry. `rpc[a]` is an open call: `handler` (past the gate, its caller in
  its context) or `ocr` (waiting for the engine). `wire` holds submits whose caller or replica
  gave up, which ocr may take at any later time, or never. `loaded[p]` is the environment
  process p booted with; `Rollout` changes what the next boot reads, so the replicas and
  the consumer may all differ, and one that reads a refused text stays down. `docs`
  is ocr, external: one document for each idempotency key, an answer when it is read, an event
  for the consumer, which knows the caller or does not, and which may be handed the event
  again, after a commit that failed or a crash, when it has another registry. `learned` and `refused` are what callers
  were told. An intent is what a caller wants read; its calls overlap and
  are repeated until one answer is final. GetDocument changes nothing, so it is an operator,
  `Poll`, that `PolledIsOcrs` evaluates in every state, with ocr answering and with each
  code ocr or the connection to it may fail with. The conversion of an answer goes message by message and
  member by member, with the enumerators of status cast by number. When the limiter denies is left open here
  and decided in RateLimiter; how an event survives the way to its topic is in Consumer,
  OutboxWorker and Pipeline.
* **ConsumerProofs**, **OutboxWorkerProofs**, **PipelineProofs**, **RateLimiterProofs**,
  **GrpcLifecycleProofs**, **GatewayApiProofs** - the theorems of the module each is named after, with
  the inductive invariants; **OutboxEventsProofs** - lemmas about the table's statements that the
  proofs of the worker and the pipeline share.
* **MC\*** - constants for TLC.

External, modelled from their use: Kafka (log, offsets, group coordinator, producer),
Redis expiry, JSONB output, the clock, process death, ocr, the callers, the balancer and
whoever sets GATEWAY_CALLERS.

Operators introduced by a comment `Mutant of X` are plausible bugs: put in place of
X they make a property fail (PROJECT.json, "mutants").

## Runs

| run | instance | shows |
|---|---|---|
| consumer | 2 replicas, 2 registries, 1 partition of 3 records, polls of up to 2 | `CommittedIsDurable`, `SplitOnlyByRollout`, `RegistryDecides`, `MarkedIsDurable`, `RowsAreKept`, types |
| consumer_live | 1 replica, 2 registries, 2 partitions with 5 records of all kinds | `LogIsDrained` |
| consumer_stuck | a record JSONB refuses, one behind it | `LogIsDrained` fails (finding 1) |
| worker | 2 workers, 2 rows, batch of 2, lock of 1 unit, backoff capped at 2 | `PublishedIsDelivered`, `PublishedIsFinal`, `OneHolder`, `NoNeedlessRepeat`, types |
| worker_live | 1 worker, 2 rows, batch of 1 | `EveryRowPublished` |
| worker_order | 1 worker, 2 rows of one key | `PerRequesterOrder` fails (finding 2) |
| pipeline | 1 consumer, 2 registries, 1 worker, 3 records | `ImplementsCourier`, `DeliveredFaithfully` |
| rate_limiter | 3 submits at 2 replicas and a poll, window 3, clocks 2 apart, delay 1 | `WithinBudget`, `NoSpuriousDenial`, `HintReachesNextWindow`, types |
| lifecycle | 1 client, drain delay 4, other times 1, Redis required or optional | `NobodyIsTurnedAway`, `InFlightGetsTheTime`, `ShutdownEnds`, `ReadyOnceHealthy`, types |
| lifecycle_optional | Redis optional, drain delay 1 | `DegradesOnlyWhileDown` fails (finding 3) |
| gateway | 2 replicas, a consumer, 2 callers with an intent each, 2 open calls, 3 environments | `OneDocumentPerIntent`, `LearnedIsOwn`, `RoutedToSubmitter`, `RefusedForCause`, `DeadLetteredForCause`, `PolledIsOcrs`, types |
| gateway_copied_key | 1 replica, 1 intent, a second caller with the first one's key | `RoutedToSubmitter` fails (finding 4) |

Bounds. Two replicas are the least for a rebalance with a zombie and its
successor, and polls of two records the least in which a record fails with
another behind it; three records hold one of a new caller, which the old
registry refuses, between an event and its redelivery. Two registries, one a subset of the
other, are the least that disagree; the instance reaches a record that is in the DLQ and in the table. Two replicas over several partitions are left to the proofs. `marks`, rows and offsets are bounded by the log. Two workers are the
least for a lock to be taken over; a lock of one unit runs out in one Tick, and as
workers may pause anywhere a longer lock adds no order of steps. `RetryCap`
stands for the 6 of the code: attempts above it change nothing. In pipeline the
worker's history variables are left out of the view: no guard and no property there reads
them. In rate_limiter
offset plus delay equals the window, the most for which `WithinBudget` holds; with
one unit more it fails, which is how far "Window*2 comfortably covers clock skew"
goes. `MaxTime` covers a key's life of two windows. Deadlock is not checked there:
requests and time are finite. In lifecycle the
drain delay is one unit more than ping, period and lag together; with one unit less
`NobodyIsTurnedAway` fails, so the bound `DelayCoversRemoval` is tight: with `SERVER_DRAIN_DELAY`
at its 5 seconds and pings of up to 3, less than 2 are left for the balancer. One client
sends RPC after RPC, so that one finishes and the next is cut. In gateway two replicas are
the least that disagree and two open calls the least that overlap; submits left behind are
not bounded by that, `wire` keeps them. The environments are a caller alone, a text that does not
parse, and one with a second caller in which the first has another doc_type and its
hash in capitals: so a retry can be refused where the first call was taken, a caller can be known
to a replica and not to the consumer, and a process can fail to boot. Symmetry is over
replicas, workers, open calls and the submits of one replica, in runs without liveness.

Fairness. Processes are restarted by their orchestrator and take their next step
(weak). A replica waiting in Poll gets the partitions nobody owns. Calls, and the
process, may fail infinitely often but not always: success of a step tried for
ever is strongly fair, per step and not per record. Time passes. The code has no
give-up anywhere on these paths (each failure ends in a restart, a redelivery
or a later claim), which is what makes the assumption enough. In the gRPC process boot
steps succeed in the end if tried for ever, goroutines get to listen, the balancer
probes and time passes; RPCs, profiles and signals have no fairness and may hang.
The gateway run has no fairness: the code retries nothing on this path and the callers,
ocr and the operator, who would have to make progress, are outside the repository.
Progress is checked of consumer and worker apart (`LogIsDrained`, `EveryRowPublished`); all the
worker needs of the consumer is the row.

## Findings

1. *A record Postgres refuses* (`consumer_stuck`). `\u0000` in data or error passes all checks,
   the JSONB insert fails for ever, the error counts as transient, the partition
   stalls. A routed topic name beyond VARCHAR(255) would do the same.
2. *Per-requester order* (`worker_order`). The claim's RETURNING has no order
   (outbox.sql.go:32-52), so two rows of a key in one batch may go out in either order, which is the
   shortest way to it; and a failed publish backs off while later rows of the key go out.
3. *Optional Redis* (`lifecycle_optional`). grpc.go:196 says the process degrades for as long as the
   connection is down; a Redis that is down at boot leaves a nil client, and a failing
   readiness, until the process is restarted.
4. *Two callers of one key* (`gateway_copied_key`). config.go:202 says validate rejects what the app would
   silently misinterpret; it compares names and not hashes, and the registry keeps the last
   caller of a hash, whose name the other's documents then carry and to whose topic their
   results go. Events of the other, taken under an earlier environment, are dead-lettered.

An assumption, not a finding: consumer.go:127 says the offset of a failed record is not
committed, and the next call is `CommitUncommitted` of a wrapper in another repository.
franz-go, which it wraps, takes what Poll returned for uncommitted; if that were passed through,
the failed record would be dropped. `CommitScope` names the two meanings: with "polled"
`CommittedIsDurable` fails in a few steps, and everything here is shown under "processed".

During a rollout a record may end in the DLQ and in its caller's topic: a replica with the old registry
dead-letters it and fails to commit, and one with the new registry is handed it again (or the reverse,
after a rollback). Both steps are what the code means to do and no document excludes it; replayed from
the DLQ, the record would meet the row it already has. `SplitOnlyByRollout` says that
only a disagreement of registries brings it about, `RegistryDecides` that each of the two is decided by the
replica that does it.

The JSON values of data and error survive (`DeliveredFaithfully`), their bytes do not, although
envelope.go:16 says so: json.Marshal compacts, JSONB prints anew (`Compact`, `Reprint`).

A caller may be refused and still get a result: the first call times out, ocr takes it late, and the
retry meets a replica that no longer lists the caller or its doc_type. `RefusedForCause` says
what a refusal means and not that nothing was submitted.

Readiness does not wait for the gRPC listener: a client can be sent to a port not yet
bound (reachable in lifecycle, admitted by `NobodyIsTurnedAway`).

Read, not modelled: `.env.example` and constant.go name `KAFKA_ROUTED_TOPIC_TEMPLATE`, the
key read is `GATEWAY_ROUTED_TOPIC_TEMPLATE`; the comments at consumer.go:48 and
config.go:59 that Redis is what keeps redeliveries from double-routing predate the
deterministic primary key; requests the limiter denies are counted under the label "" although
their caller is known; validate compares pprof.port and grpc.server_port with server.port but not
with each other, and a routed topic template with `%%s` passes its check.

## Proofs

Every invariant and every action property that a passing run checks is also a theorem, for every
value of the constants that meets the modules' named ASSUMEs, and so is the refinement. The
ASSUMEs say that constants are well-formed: counts and times are numbers, limits are not zero, the
sentinels (`NoConsumer`, `NoWorker`, `NoCaller`, `Nil`) are none of the things they stand
beside, a record's value is an envelope or `NotJSON` (`LogAssumption`), and an answer of ocr has the
members of its message and enumerators of its enums (`OutcomeAssumption`, `FaultAssumption`: a fault is
no answer), and there is a registry to boot with. What a theorem needs beyond that is in its statement:

| hypothesis | of | why it is there |
|---|---|---|
| `CommitScope = "processed"` | `NothingIsDropped`, `PipelineDropsNothing`, `PipelineImplementsCourier` | false of "polled", see Findings |
| `SkewCovered`: clock lead plus delay to INCR at most a window | `BudgetIsShared` | one unit more and `WithinBudget` fails |
| `DelayCoversRemoval` (inside `NobodyIsTurnedAway`) | `NobodyTurnedAway` | one unit less and it fails |
| `KeysAreOwn`: a hash listed with a caller's key has that caller's name | `RoutedHome`, `LearnedOwn`, `RefusalsHaveACause`, `DeadLettersHaveACause` | finding 4: validate does not ask for it |
| `HashesDistinct`: no environment lists a hash twice | `DeadLettersHaveACause` | the registry keeps one of them, and the name of the other is unknown |

The instances of the runs consumer, pipeline, rate_limiter, lifecycle and gateway meet the hypotheses.

### Consumer

`ConsumerTypeCorrect`, `MarksAreDurable`, `SplitsHaveACause`, `DecidedByRegistry`, `RowsKept`, `NothingIsDropped`,
for any set of registries. The first five rest on `ControlInv`: types, marks, and `InHand` - a replica inside a record
has one in its batch, of the kind its own registry sends to the branch it is in, and after the insert the
row is there. Without `InHand` neither SETNX nor the end of a batch could be
justified, nor that what is dead-lettered fails a check of the replica that does it. `known[c]` changes
only in `Start` and `Exit`, when no record is in hand, which is why the registry that let a record in is
the one at its insert. `SplitByCaller` then says that a record one registry passes and another
refuses has its caller in the one and not in the other, as no other check depends on the registry. The last adds `DurableInv`: what each
replica has handled is settled (`HandledIsSettled`), and its position is the end of its batch or a
settled prefix (`PositionIsSettled`). The latter is needed because Poll starts a new batch at the
position: it is settled either because the old batch was used up or because
`Assign` set it to a committed offset. A zombie's commit, which may set the offset
back, is covered by `HandledIsSettled` alone. `StoresGrow` (rows and dead letters are
never removed) carries all of it over every step.

### Outbox worker

`WorkerTypeCorrect`, `PublishedMeansDelivered`, `PublishedStays`, `ClaimsExclude`,
`RepeatsHaveACause`, all from `WorkerInv`. Its core is `LockInv`: as long as no lock ran out under
its holder, a row in a worker's batch or hand is locked by that worker, for some more time, and
unpublished. `OneHolder` follows at once, since a row has one lockedBy, but is not inductive without
it: a claim has to find the rows of others locked. `BatchInv` (a worker has each row once)
is what lets a publish take a row out of `Held`. `KnownInv` is for `NoNeedlessRepeat`: a
delivered row is marked, in the hand of a worker about to mark it, or has a cause recorded. A
statement changes a table through `TableKept` of OutboxEventsProofs: keys, columns and
published rows stay.

### Pipeline

`HalvesCompose`: the invariants of consumers and workers hold of the two together (`PipelineInv` is
their conjunction). A step of one half changes the other's state in one place only, the table, and
there a consumer only adds rows and a worker keeps keys and columns, which is all the two
invariants need of each other; so `PipelineDropsNothing` and `RowsSurvive` carry the promises about
offsets and rows over to the two processes together. `RoutedFaithfully` joins them: every
routed record is that of a row (worker), and every row is the rewrite of a record that passes the
checks (consumer). `PipelineImplementsCourier` maps every action to a step of Courier or to a
stutter; the commits need `DurableInv`, publishing needs that a held row is in the table, and marking
needs `KnownInv`.

### Rate limiter

`LimiterTypeCorrect` and `DenialsAreDue` rest on `CountInv`: every number up to the counter, and up to
any number INCR has answered, went to a request of that window (`Covered`). It survives an expiry,
which only lowers the counter; a request denied with n therefore has the whole budget before it.
No assumption on clocks is needed. `BudgetIsShared` also needs that no two requests of a
window get one number (`Distinct`), which fails if a key vanishes while requests still count in its
window. `InTime` says it does not: a request reaches INCR within `MaxDelay` of a
reading inside its window, and EXPIRE, whenever it is sent, lasts beyond that. `Kept` says that until
then the counter has not lost what it answered. The cardinalities come from the finite set
of requests and the numbers 1..Requests. `HintIsRight` is arithmetic on the division in `authenticate`.

### gRPC process

`LifeTypeCorrect`, `RPCsGetTheTime`, `NobodyTurnedAway`, from `LifeInv`. `DrainTime` relates the time
since the drain began to what is left of the wait at hand: the sleep and what follows it
add up to the delay and the timeout, because shutdownCtx is made after the sleep. `ReactionTime`
bounds how late in the drain a probe may be answered, the process be in rotation, and the balancer be
about to act; a probe past its draining check when the drain begins is what
makes the bounds `PingTimeout`, plus `ProbePeriod`, plus `RemovalLag`. `ClosedLate` compares the
two.

### Gateway API

`ApiTypeCorrect`, `OneDocumentEach`, `PollsReadOcr` with no hypothesis; `RoutedHome`,
`LearnedOwn`, `RefusalsHaveACause`, `DeadLettersHaveACause` with the ones above. `ApiInv` says where
everything comes from: an open call is the one that its replica's registry makes of its intent's
request (`CallInv`), a submit on the wire and a document of ocr's are what some environment up to
now makes of it (`DocInv`), an id a caller was told is its own intent's (`LearnedInv`), a refusal has its
cause in the registry of the replica that gave it (`RefusedInv`), a result in the document it is
of (`ResultInv`). The invariant speaks of registries and needs no hypothesis; the
hypotheses turn registries into environments, through `EntryListed`, `ListedAdmitted`,
`ListedOnce` and `EntryIsOwn`, which say how `NewCallerRegistry` treats the callers an environment lists.
`PollsReadOcr` rests on `LearnedInv` and, for the answer, on `FieldStatusKept`, `FieldKept`, `ResultKept` and
`AnswerKept`: each conversion, member by member, loses nothing of a message of Kontrak B's shape.

### Only model-checked

Liveness: `LogIsDrained`, `EveryRowPublished`, `ShutdownEnds` and `ReadyOnceHealthy`. They rest on
fairness and ENABLED, which the prover does not handle. The four violations are counterexamples and
have nothing to prove.

## Not modelled

* Settings other than GATEWAY_CALLERS (`config.go`): range checks with no state. Where a module depends
  on one, the range is in its ASSUME.
* What ocr refuses for good (an unknown schema, an unreadable file at submit): toStatus passes it on
  like any other code of ocr's, and what it means is Kontrak B's.
* Two intents with one idempotency key: the key is forwarded unscoped (service.go:81), and ocr would
  take the second for a repeat of the first; Kontrak A asks callers for a UUID.
* An error of a server's Shutdown other than the timeout (grpc.go:178-184): it returns like the timeout does.
* Metrics, traces, logs, exit codes, /healthz, TLS set-up, generated code.

## Plan

1. done: Envelope, OutboxEvents, Consumer, OutboxWorker, Pipeline/Courier,
   RateLimiter, GrpcLifecycle, Registry, GatewayApi, first theorems.
2. done: the theorems above.
3. left: shorter proofs where one action's step repeats another's.
