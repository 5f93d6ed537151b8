------------------------- MODULE OutboxEventsProofs -------------------------
(***************************************************************************)
(* What the statements on outbox_events do to a well-formed table: lemmas  *)
(* for the proofs about the components that run them.                      *)
(***************************************************************************)
EXTENDS OutboxEvents, TLAPS

\* The rows with these immutable columns and this place in the order.
RowsOf(columns, seq) ==
    [columns   : {columns},
     seq       : {seq},
     published : BOOLEAN,
     attempts  : 0..RetryCap,
     wait      : 0..RetryCap * RetryDelay,
     lockedBy  : Worker \cup {NoWorker},
     lease     : 0..LockTTL]

TableOK ==
    \A id \in DOMAIN outbox :
        outbox[id] \in RowsOf(outbox[id].columns, outbox[id].seq)

\* What every statement of the worker leaves alone: the keys, the immutable
\* columns, the order, and all of a row that is published.
TableKept ==
    /\ DOMAIN outbox' = DOMAIN outbox
    /\ \A id \in DOMAIN outbox :
          /\ outbox'[id].columns = outbox[id].columns
          /\ outbox'[id].seq = outbox[id].seq
          /\ outbox[id].published => outbox'[id] = outbox[id]

\* Writing a row keeps all rows and adds at most the one written.
LEMMA CreateDomain ==
    ASSUME NEW id, NEW columns, CreateOutboxEvent(id, columns)
    PROVE  DOMAIN outbox' = DOMAIN outbox \cup {id}
BY DEF CreateOutboxEvent

\* The added row is new and unlocked; a row in its place makes the INSERT void.
LEMMA CreateRow ==
    ASSUME NEW id, NEW columns, CreateOutboxEvent(id, columns), TableOK
    PROVE  /\ TableOK'
           /\ \A x \in DOMAIN outbox : outbox'[x] = outbox[x]
           /\ id \notin DOMAIN outbox => ~outbox'[id].published
<1>1. \A x \in DOMAIN outbox : outbox'[x] = outbox[x]
  BY DEF CreateOutboxEvent
<1>2. id \notin DOMAIN outbox => outbox'[id] = NewRow(columns)
  BY DEF CreateOutboxEvent
<1>3. NewRow(columns) \in RowsOf(columns, NewRow(columns).seq)
  <2>1. 0 \in 0..RetryCap * RetryDelay
    BY OutboxAssumption
  <2> QED BY <2>1, OutboxAssumption DEF NewRow, RowsOf
<1>4. NewRow(columns).columns = columns /\ ~NewRow(columns).published
  BY DEF NewRow
<1>5. ASSUME NEW x \in DOMAIN outbox'
      PROVE  outbox'[x] \in RowsOf(outbox'[x].columns, outbox'[x].seq)
  <2>1. CASE x \in DOMAIN outbox
    BY <1>1, <2>1 DEF TableOK
  <2>2. CASE x \notin DOMAIN outbox
    BY <1>2, <1>3, <1>4, <1>5, <2>2, CreateDomain
  <2> QED BY <2>1, <2>2
<1>6. TableOK'
  BY <1>5 DEF TableOK, RowsOf
<1> QED BY <1>1, <1>2, <1>4, <1>6

\* A claim locks the rows it takes, which must be unpublished, and no other.
LEMMA LockRows ==
    ASSUME TableOK, NEW w \in Worker, NEW ids, Lock(w, ids),
           \A id \in ids : id \in DOMAIN outbox /\ ~outbox[id].published
    PROVE  /\ TableOK'
           /\ TableKept
           /\ \A id \in DOMAIN outbox :
                 /\ outbox'[id].published = outbox[id].published
                 /\ id \in ids => outbox'[id].lockedBy = w /\ outbox'[id].lease = LockTTL
                 /\ id \notin ids => outbox'[id] = outbox[id]
<1>1. DOMAIN outbox' = DOMAIN outbox
  BY DEF Lock
<1>2. ASSUME NEW id \in DOMAIN outbox, id \notin ids
      PROVE  outbox'[id] = outbox[id]
  BY <1>2 DEF Lock
<1>3. ASSUME NEW id \in DOMAIN outbox, id \in ids
      PROVE  /\ outbox'[id] \in RowsOf(outbox[id].columns, outbox[id].seq)
             /\ outbox'[id].published = outbox[id].published
             /\ outbox'[id].lockedBy = w
             /\ outbox'[id].lease = LockTTL
  <2>1. outbox'[id] = [outbox[id] EXCEPT !.lockedBy = w, !.lease = LockTTL]
    BY <1>3 DEF Lock
  <2>2. outbox[id] \in RowsOf(outbox[id].columns, outbox[id].seq)
    BY DEF TableOK
  <2>3. LockTTL \in 0..LockTTL
    BY OutboxAssumption
  <2> QED BY <2>1, <2>2, <2>3 DEF RowsOf
<1>4. \A id \in DOMAIN outbox :
         outbox'[id] \in RowsOf(outbox[id].columns, outbox[id].seq)
  BY <1>2, <1>3 DEF TableOK
<1>5. \A id \in DOMAIN outbox :
         outbox'[id].columns = outbox[id].columns /\ outbox'[id].seq = outbox[id].seq
  BY <1>4 DEF RowsOf
<1>6. TableOK'
  BY <1>1, <1>4, <1>5 DEF TableOK, RowsOf
<1> QED BY <1>1, <1>2, <1>3, <1>5, <1>6 DEF TableKept

\* MarkOutboxEventPublished publishes its row and touches no other.
LEMMA PublishRow ==
    ASSUME TableOK, NEW id \in DOMAIN outbox, MarkOutboxEventPublished(id)
    PROVE  /\ TableOK'
           /\ TableKept
           /\ outbox'[id].published
           /\ \A x \in DOMAIN outbox : x # id => outbox'[x] = outbox[x]
<1>1. CASE outbox[id].published
  <2>1. outbox' = outbox
    BY <1>1 DEF MarkOutboxEventPublished
  <2> QED BY <1>1, <2>1 DEF TableOK, RowsOf, TableKept
<1>2. CASE ~outbox[id].published
  <2>1. outbox' = [outbox EXCEPT ![id].published = TRUE,
                                 ![id].lockedBy = NoWorker, ![id].lease = 0]
    BY <1>2 DEF MarkOutboxEventPublished
  <2>2. DOMAIN outbox' = DOMAIN outbox /\ \A x \in DOMAIN outbox : x # id => outbox'[x] = outbox[x]
    BY <2>1
  <2>3. outbox'[id] = [outbox[id] EXCEPT !.published = TRUE, !.lockedBy = NoWorker, !.lease = 0]
    BY <2>1
  <2>4. outbox[id] \in RowsOf(outbox[id].columns, outbox[id].seq)
    BY DEF TableOK
  <2>5. 0 \in 0..LockTTL
    BY OutboxAssumption
  <2>6. /\ outbox'[id] \in RowsOf(outbox[id].columns, outbox[id].seq)
        /\ outbox'[id].published
    BY <2>3, <2>4, <2>5 DEF RowsOf
  <2>7. outbox'[id].columns = outbox[id].columns /\ outbox'[id].seq = outbox[id].seq
    BY <2>6 DEF RowsOf
  <2>8. TableOK'
    BY <2>2, <2>6, <2>7 DEF TableOK, RowsOf
  <2> QED BY <1>2, <2>2, <2>6, <2>7, <2>8 DEF TableKept
<1> QED BY <1>1, <1>2

\* min(AttemptCount + 1, 6) * defaultRetryDelay is at most 6 delays.
LEMMA BackoffBound ==
    ASSUME NEW n \in 0..RetryCap
    PROVE  Backoff(n) \in 0..RetryCap * RetryDelay
<1> DEFINE k == IF n + 1 < RetryCap THEN n + 1 ELSE RetryCap
<1>1. RetryCap \in Nat /\ RetryDelay \in Nat
  BY OutboxAssumption
<1>2. k \in Nat /\ k <= RetryCap
  BY <1>1
<1> HIDE DEF k
<1>3. RetryDelay * k \in Nat /\ RetryDelay * k <= RetryDelay * RetryCap
  BY <1>1, <1>2
<1>4. RetryDelay * RetryCap = RetryCap * RetryDelay /\ RetryCap * RetryDelay \in Nat
  BY <1>1
<1>5. RetryDelay * k \in 0..RetryCap * RetryDelay
  BY <1>3, <1>4
<1> QED BY <1>5 DEF Backoff, k

\* MarkOutboxEventFailed never publishes a row and touches no other.
LEMMA FailRow ==
    ASSUME TableOK, NEW id \in DOMAIN outbox, NEW delay \in 0..RetryCap * RetryDelay,
           MarkOutboxEventFailed(id, delay)
    PROVE  /\ TableOK'
           /\ TableKept
           /\ outbox'[id].published = outbox[id].published
           /\ \A x \in DOMAIN outbox : x # id => outbox'[x] = outbox[x]
<1>1. CASE outbox[id].published
  <2>1. outbox' = outbox
    BY <1>1 DEF MarkOutboxEventFailed
  <2> QED BY <2>1 DEF TableOK, RowsOf, TableKept
<1>2. CASE ~outbox[id].published
  <2> DEFINE n == IF outbox[id].attempts < RetryCap
                    THEN outbox[id].attempts + 1 ELSE outbox[id].attempts
  <2>1. outbox' = [outbox EXCEPT
                     ![id].attempts = IF @ < RetryCap THEN @ + 1 ELSE @,
                     ![id].wait = delay,
                     ![id].lockedBy = NoWorker, ![id].lease = 0]
    BY <1>2 DEF MarkOutboxEventFailed
  <2>2. DOMAIN outbox' = DOMAIN outbox /\ \A x \in DOMAIN outbox : x # id => outbox'[x] = outbox[x]
    BY <2>1
  <2>3. outbox'[id] = [outbox[id] EXCEPT !.attempts = n, !.wait = delay,
                                         !.lockedBy = NoWorker, !.lease = 0]
    BY <2>1
  <2>4. outbox[id] \in RowsOf(outbox[id].columns, outbox[id].seq)
    BY DEF TableOK
  <2>5. 0 \in 0..LockTTL /\ n \in 0..RetryCap
    BY <2>4, OutboxAssumption DEF RowsOf
  <2> HIDE DEF n
  <2>6. /\ outbox'[id] \in RowsOf(outbox[id].columns, outbox[id].seq)
        /\ outbox'[id].published = outbox[id].published
    BY <2>3, <2>4, <2>5 DEF RowsOf
  <2>7. outbox'[id].columns = outbox[id].columns /\ outbox'[id].seq = outbox[id].seq
    BY <2>6 DEF RowsOf
  <2>8. TableOK'
    BY <2>2, <2>6, <2>7 DEF TableOK, RowsOf
  <2> QED BY <1>2, <2>2, <2>6, <2>7, <2>8 DEF TableKept
<1> QED BY <1>1, <1>2

\* The passing of time only lowers the timers of unpublished rows.
LEMMA ElapseRows ==
    ASSUME TableOK, Elapse
    PROVE  /\ TableOK'
           /\ TableKept
           /\ \A id \in DOMAIN outbox :
                 /\ outbox'[id].published = outbox[id].published
                 /\ outbox'[id].lockedBy = outbox[id].lockedBy
                 /\ ~outbox[id].published => outbox'[id].lease = Less1(outbox[id].lease)
<1>1. DOMAIN outbox' = DOMAIN outbox
  BY DEF Elapse
<1>2. ASSUME NEW id \in DOMAIN outbox, outbox[id].published
      PROVE  outbox'[id] = outbox[id]
  BY <1>2 DEF Elapse
<1>3. ASSUME NEW id \in DOMAIN outbox, ~outbox[id].published
      PROVE  /\ outbox'[id] \in RowsOf(outbox[id].columns, outbox[id].seq)
             /\ outbox'[id].published = outbox[id].published
             /\ outbox'[id].lockedBy = outbox[id].lockedBy
             /\ outbox'[id].lease = Less1(outbox[id].lease)
  <2>1. outbox'[id] = [outbox[id] EXCEPT !.wait = Less1(outbox[id].wait),
                                         !.lease = Less1(outbox[id].lease)]
    BY <1>3 DEF Elapse
  <2>2. outbox[id] \in RowsOf(outbox[id].columns, outbox[id].seq)
    BY DEF TableOK
  <2>3. RetryCap * RetryDelay \in Nat /\ LockTTL \in Nat
    BY OutboxAssumption
  <2>4. \A n \in Nat : \A m \in 0..n : Less1(m) \in 0..n
    BY DEF Less1
  <2>5. /\ Less1(outbox[id].wait) \in 0..RetryCap * RetryDelay
        /\ Less1(outbox[id].lease) \in 0..LockTTL
    BY <2>2, <2>3, <2>4 DEF RowsOf
  <2> QED BY <2>1, <2>2, <2>5 DEF RowsOf
<1>4. \A id \in DOMAIN outbox :
         outbox'[id] \in RowsOf(outbox[id].columns, outbox[id].seq)
  BY <1>2, <1>3 DEF TableOK
<1>5. \A id \in DOMAIN outbox :
         outbox'[id].columns = outbox[id].columns /\ outbox'[id].seq = outbox[id].seq
  BY <1>4 DEF RowsOf
<1>6. TableOK'
  BY <1>1, <1>4, <1>5 DEF TableOK, RowsOf
<1> QED BY <1>1, <1>2, <1>3, <1>5, <1>6 DEF TableKept
=============================================================================
