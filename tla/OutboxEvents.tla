---------------------------- MODULE OutboxEvents ----------------------------
(***************************************************************************)
(* The gateway's only table, outbox_events, and the statements the code    *)
(* runs on it (internal/repository/outbox.sql.go).  Each statement is one  *)
(* step: Postgres makes it atomic.                                         *)
(*                                                                         *)
(* Time is relative.  wait is the time left until next_attempt_at and      *)
(* lease the time left until locked_at is older than the lock's lifetime;  *)
(* Tick takes one unit off both.  Nothing else of the clock is observable. *)
(***************************************************************************)
EXTENDS Naturals, FiniteSets

CONSTANTS
    Worker,      \* the outbox workers, the values of locked_by
    NoWorker,    \* locked_by IS NULL
    LockTTL,     \* INTERVAL '5 minutes' in units of time
    RetryDelay,  \* defaultRetryDelay in units of time
    RetryCap,    \* the 6 of min(AttemptCount + 1, 6)
    BatchSize    \* LIMIT $1

ASSUME OutboxAssumption ==
    /\ NoWorker \notin Worker
    /\ LockTTL \in Nat \ {0}
    /\ RetryDelay \in Nat \ {0}
    /\ RetryCap \in Nat \ {0}
    /\ BatchSize \in Nat \ {0}

\* id |-> row; the primary key is the domain.
VARIABLE outbox

(***************************************************************************)
(* A row holds its immutable columns, published_at IS NOT NULL, its place  *)
(* in the order of created_at, and the delivery state.  attempts counts up *)
(* to RetryCap, beyond which it no longer changes the backoff.             *)
(***************************************************************************)
NewRow(columns) ==
    [columns   |-> columns,
     seq       |-> Cardinality(DOMAIN outbox) + 1,
     published |-> FALSE,
     attempts  |-> 0,
     wait      |-> 0,
     lockedBy  |-> NoWorker,
     lease     |-> 0]

\* Mutant of CreateOutboxEvent: ON CONFLICT (id) DO UPDATE.
UpsertOutboxEvent(id, columns) ==
    outbox' = [x \in DOMAIN outbox \cup {id} |->
                  CASE x \notin DOMAIN outbox -> NewRow(columns)
                    [] x = id /\ x \in DOMAIN outbox -> [outbox[x] EXCEPT !.columns = columns]
                    [] OTHER -> outbox[x]]

\* INSERT ... ON CONFLICT (id) DO NOTHING.
CreateOutboxEvent(id, columns) ==
    outbox' = [x \in DOMAIN outbox \cup {id} |->
                  IF x \in DOMAIN outbox THEN outbox[x] ELSE NewRow(columns)]

\* Mutants of Claimable: locks are not looked at; or never grow too old.
ClaimableLocked ==
    {id \in DOMAIN outbox : ~outbox[id].published /\ outbox[id].wait = 0}

ClaimableUnlocked ==
    {id \in DOMAIN outbox : /\ ~outbox[id].published
                            /\ outbox[id].wait = 0
                            /\ outbox[id].lockedBy = NoWorker}

\* The WHERE clause of ClaimPendingOutboxEvents.
Claimable ==
    {id \in DOMAIN outbox : /\ ~outbox[id].published
                            /\ outbox[id].wait = 0
                            /\ outbox[id].lease = 0}

\* ORDER BY created_at, id LIMIT BatchSize.
Oldest(ids) ==
    {id \in ids : Cardinality({x \in ids : outbox[x].seq < outbox[id].seq}) < BatchSize}

\* SET locked_at = NOW(), locked_by = w on the claimed rows.
Lock(w, ids) ==
    outbox' = [id \in DOMAIN outbox |->
                  IF id \in ids
                    THEN [outbox[id] EXCEPT !.lockedBy = w, !.lease = LockTTL]
                    ELSE outbox[id]]

\* Mutant of MarkOutboxEventPublished: published_at is left out of the SET.
UnlockOnly(id) ==
    outbox' = [outbox EXCEPT ![id].lockedBy = NoWorker, ![id].lease = 0]

\* The guard published_at IS NULL is all that protects a row: locked_by is
\* not compared with the worker that runs the statement.
MarkOutboxEventPublished(id) ==
    outbox' = IF outbox[id].published
                THEN outbox
                ELSE [outbox EXCEPT ![id].published = TRUE,
                                    ![id].lockedBy = NoWorker,
                                    ![id].lease = 0]

\* Mutant of Backoff: no cap.
BackoffUncapped(attempts) == RetryDelay * (attempts + 1)

\* min(AttemptCount + 1, 6) * defaultRetryDelay.
Backoff(attempts) ==
    RetryDelay * (IF attempts + 1 < RetryCap THEN attempts + 1 ELSE RetryCap)

\* Mutant of MarkOutboxEventFailed: without AND published_at IS NULL.
MarkFailedUnguarded(id, delay) ==
    outbox' = [outbox EXCEPT ![id].attempts = IF @ < RetryCap THEN @ + 1 ELSE @,
                             ![id].wait = delay,
                             ![id].lockedBy = NoWorker,
                             ![id].lease = 0]

MarkOutboxEventFailed(id, delay) ==
    outbox' = IF outbox[id].published
                THEN outbox
                ELSE [outbox EXCEPT
                        ![id].attempts = IF @ < RetryCap THEN @ + 1 ELSE @,
                        ![id].wait = delay,
                        ![id].lockedBy = NoWorker,
                        ![id].lease = 0]

Less1(n) == IF n > 0 THEN n - 1 ELSE 0

\* One unit of time passes.  A published row's timers are never read again.
Elapse ==
    /\ \E id \in DOMAIN outbox :
          ~outbox[id].published /\ outbox[id].wait + outbox[id].lease > 0
    /\ outbox' = [id \in DOMAIN outbox |->
                     IF outbox[id].published
                       THEN outbox[id]
                       ELSE [outbox[id] EXCEPT !.wait = Less1(@), !.lease = Less1(@)]]

=============================================================================
