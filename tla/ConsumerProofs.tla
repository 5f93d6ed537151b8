--------------------------- MODULE ConsumerProofs ---------------------------
(***************************************************************************)
(* Theorems about Consumer, for every number of replicas and partitions    *)
(* and every log.                                                          *)
(***************************************************************************)
EXTENDS Consumer, OutboxEventsProofs, TLAPS

vars == <<consumerVars, outbox>>

\* What holds whatever CommitUncommitted commits.
ControlInv == ConsumerTypeOK /\ InHand /\ MarkedIsDurable

\* A choice function's value is a partition, because there is one.
LEMMA SomePartitionType == SomePartition \in Partition
BY ConsumerAssumption DEF SomePartition

\* The initial state has nobody running and nothing stored.
LEMMA ControlInit == ConsumerInit => ControlInv
<1> SUFFICES ASSUME ConsumerInit PROVE ControlInv
  OBVIOUS
<1>1. ConsumerTypeOK
  BY SomePartitionType, ConsumerAssumption DEF ConsumerInit, ConsumerTypeOK, States, Zero
<1>2. InHand
  BY DEF ConsumerInit, InHand, InHandOf
<1>3. MarkedIsDurable
  BY DEF ConsumerInit, MarkedIsDurable
<1> QED BY <1>1, <1>2, <1>3 DEF ControlInv

\* A replica that exits forgets its batch and its partitions, which disturbs
\* nothing of what the others rely on.
LEMMA ExitControl ==
    ASSUME ControlInv, NEW c \in Consumer, Exit(c),
           UNCHANGED <<marks, dlq, outbox>>,
           committed' \in [Partition -> Nat],
           \A p \in Partition : committed'[p] <= Len(Log[p])
    PROVE  ControlInv'
<1> USE DEF ControlInv
<1>1. ConsumerTypeOK'
  <2>1. pc' \in [Consumer -> States] /\ cur' \in [Consumer -> Partition]
    BY SomePartitionType DEF ConsumerTypeOK, Exit, Goto, States
  <2>2. /\ done' \in [Consumer -> [Partition -> Nat]]
        /\ polled' \in [Consumer -> [Partition -> Nat]]
        /\ pos' \in [Consumer -> [Partition -> Nat]]
        /\ owner' \in [Partition -> Consumer \cup {NoConsumer}]
    BY DEF ConsumerTypeOK, Exit, Zero
  <2>3. ASSUME NEW p \in Partition, NEW d \in Consumer
        PROVE  /\ done'[d][p] <= polled'[d][p]
               /\ polled'[d][p] <= Len(Log[p])
               /\ pos'[d][p] <= Len(Log[p])
    <3>1. Len(Log[p]) \in Nat
      BY ConsumerAssumption
    <3>2. CASE d = c
      <4>1. done'[d][p] = 0 /\ polled'[d][p] = 0 /\ pos'[d][p] = 0
        BY <3>2 DEF ConsumerTypeOK, Exit, Zero
      <4> QED BY <3>1, <4>1
    <3>3. CASE d # c
      BY <3>3 DEF ConsumerTypeOK, Exit
    <3> QED BY <3>2, <3>3
  <2>4. /\ known' \in [Consumer -> Registries \cup {{}}]
        /\ \A d \in Consumer : pc'[d] # "down" => known'[d] \in Registries
    BY DEF ConsumerTypeOK, Exit, Goto
  <2> QED BY <2>1, <2>2, <2>3, <2>4 DEF ConsumerTypeOK
<1>2. InHand'
  BY DEF InHand, InHandOf, ConsumerTypeOK, Exit, Goto, Current, NextRec
<1>3. MarkedIsDurable'
  BY DEF MarkedIsDurable
<1> QED BY <1>1, <1>2, <1>3

\* A step on which only pc and cur move, and marks or outbox grow, keeps the
\* types of everything else.
LEMMA MoveTypeOK ==
    ASSUME ConsumerTypeOK, NEW c \in Consumer, pc[c] # "down",
           NEW state \in States, Goto(c, state),
           cur' \in [Consumer -> Partition],
           marks' \subseteq DOMAIN UUIDOf,
           UNCHANGED <<done, polled, pos, known, owner, committed, dlq>>
    PROVE  ConsumerTypeOK'
<1>1. pc' \in [Consumer -> States]
  BY DEF ConsumerTypeOK, Goto
<1>2. \A d \in Consumer : pc'[d] # "down" => known'[d] \in Registries
  BY DEF ConsumerTypeOK, Goto
<1> QED BY <1>1, <1>2 DEF ConsumerTypeOK

\* The record of cur is finished: one more of the batch is done.
LEMMA FinishTypeOK ==
    ASSUME ConsumerTypeOK, NEW c \in Consumer, pc[c] # "down", Finish(c),
           done[c][cur[c]] < polled[c][cur[c]],
           marks' \subseteq DOMAIN UUIDOf,
           \A r \in dlq' : \E p \in Partition : r \in {p} \X (1..Len(Log[p])),
           UNCHANGED <<cur, polled, pos, known, owner, committed>>
    PROVE  ConsumerTypeOK'
<1>1. /\ pc' \in [Consumer -> States]
      /\ \A d \in Consumer : pc'[d] # "down" => known'[d] \in Registries
  BY DEF ConsumerTypeOK, Finish, Goto, States
<1>2. done' \in [Consumer -> [Partition -> Nat]]
  BY DEF ConsumerTypeOK, Finish
<1>3. ASSUME NEW p \in Partition, NEW d \in Consumer
      PROVE  done'[d][p] <= polled'[d][p]
  <2>1. CASE d = c /\ p = cur[c]
    <3>1. done'[d][p] = done[c][cur[c]] + 1
      BY <2>1 DEF ConsumerTypeOK, Finish
    <3> QED BY <2>1, <3>1 DEF ConsumerTypeOK
  <2>2. CASE ~(d = c /\ p = cur[c])
    <3>1. done'[d][p] = done[d][p]
      BY <2>2 DEF ConsumerTypeOK, Finish
    <3> QED BY <3>1 DEF ConsumerTypeOK
  <2> QED BY <2>1, <2>2
<1> QED BY <1>1, <1>2, <1>3 DEF ConsumerTypeOK

\* Poll's batch lies inside the log.
LEMMA PollTypeOK ==
    ASSUME ConsumerTypeOK, NEW c \in Consumer, Poll(c)
    PROVE  ConsumerTypeOK'
<1>1. PICK take \in [Partition -> 0..MaxPoll] :
        /\ \A p \in Partition : take[p] > 0 =>
              owner[p] = c /\ pos[c][p] + take[p] <= Len(Log[p])
        /\ pos'    = [pos EXCEPT ![c] = [p \in Partition |-> pos[c][p] + take[p]]]
        /\ polled' = [polled EXCEPT ![c] = [p \in Partition |-> pos[c][p] + take[p]]]
  BY DEF Poll
<1>2. \A p \in Partition : take[p] \in Nat
  BY ConsumerAssumption
<1>3. /\ done' \in [Consumer -> [Partition -> Nat]]
      /\ polled' \in [Consumer -> [Partition -> Nat]]
      /\ pos' \in [Consumer -> [Partition -> Nat]]
  <2>1. [p \in Partition |-> pos[c][p] + take[p]] \in [Partition -> Nat]
    BY <1>2 DEF ConsumerTypeOK
  <2>2. pos[c] \in [Partition -> Nat]
    BY DEF ConsumerTypeOK
  <2> QED BY <1>1, <2>1, <2>2 DEF ConsumerTypeOK, Poll
<1>4. ASSUME NEW p \in Partition, NEW d \in Consumer
      PROVE  /\ done'[d][p] <= polled'[d][p]
             /\ polled'[d][p] <= Len(Log[p])
             /\ pos'[d][p] <= Len(Log[p])
  <2>1. pos[d][p] \in Nat /\ pos[d][p] <= Len(Log[p]) /\ Len(Log[p]) \in Nat
    BY ConsumerAssumption DEF ConsumerTypeOK
  <2>2. CASE d = c
    <3>1. /\ done'[d][p] = pos[d][p]
          /\ polled'[d][p] = pos[d][p] + take[p]
          /\ pos'[d][p] = pos[d][p] + take[p]
      BY <1>1, <2>2 DEF ConsumerTypeOK, Poll
    <3> QED BY <1>1, <1>2, <2>1, <2>2, <3>1
  <2>3. CASE d # c
    BY <1>1, <2>3 DEF ConsumerTypeOK, Poll
  <2> QED BY <2>2, <2>3
<1> QED BY <1>3, <1>4 DEF ConsumerTypeOK, Poll


\* A step of one replica disturbs no other's record: rows are only added.
LEMMA OthersInHand ==
    ASSUME InHand, NEW c \in Consumer,
           \A d \in Consumer \ {c} :
              /\ pc'[d] = pc[d] /\ cur'[d] = cur[d]
              /\ done'[d] = done[d] /\ polled'[d] = polled[d]
              /\ known'[d] = known[d],
           DOMAIN outbox \subseteq DOMAIN outbox',
           InHandOf(c)'
    PROVE  InHand'
<1> SUFFICES ASSUME NEW d \in Consumer \ {c} PROVE InHandOf(d)'
  BY DEF InHand
<1> QED BY DEF InHand, InHandOf, Current, NextRec

\* A replica's registry is one of those deployed: what passes there can be routed,
\* and what is refused there can be refused.
LEMMA InHandFate ==
    ASSUME ConsumerTypeOK, NEW c \in Consumer, pc[c] # "down", NEW rec
    PROVE  /\ Passes(rec, known[c]) => Deliverable(rec)
           /\ ~Passes(rec, known[c]) => Rejectable(rec)
<1>1. known[c] \in Registries
  BY DEF ConsumerTypeOK
<1> QED BY <1>1 DEF Deliverable, Rejectable

\* Every step keeps ControlInv.
LEMMA ControlStep == ControlInv /\ [ConsumerNext]_vars => ControlInv'
<1> SUFFICES ASSUME ControlInv, [ConsumerNext]_vars PROVE ControlInv'
  OBVIOUS
<1> USE DEF ControlInv
<1>1. ASSUME NEW c \in Consumer, Start(c) PROVE ControlInv'
  <2>1. ConsumerTypeOK'
    <3>1. pc' \in [Consumer -> States]
      BY <1>1 DEF ConsumerTypeOK, Start, Goto, States
    <3>2. /\ known' \in [Consumer -> Registries \cup {{}}]
          /\ \A d \in Consumer : pc'[d] # "down" => known'[d] \in Registries
      BY <1>1 DEF ConsumerTypeOK, Start, Goto
    <3> QED BY <1>1, <3>1, <3>2 DEF ConsumerTypeOK, Start
  <2>2. InHandOf(c)'
    BY <1>1 DEF ConsumerTypeOK, Start, Goto, InHandOf
  <2>3. InHand'
    BY <1>1, <2>2, OthersInHand DEF ConsumerTypeOK, Start, Goto
  <2> QED BY <1>1, <2>1, <2>3 DEF Start, MarkedIsDurable
<1>2. ASSUME NEW c \in Consumer, Poll(c) PROVE ControlInv'
  <2>1. ConsumerTypeOK'
    BY <1>2, PollTypeOK
  <2>2. InHandOf(c)'
    BY <1>2 DEF ConsumerTypeOK, Poll, AtPoll, InHandOf
  <2>3. InHand'
    BY <1>2, <2>2, OthersInHand DEF ConsumerTypeOK, Poll
  <2> QED BY <1>2, <2>1, <2>3 DEF Poll, MarkedIsDurable
<1>3. ASSUME NEW c \in Consumer, PollFails(c) \/ Crash(c) PROVE ControlInv'
  BY <1>3, ExitControl DEF ConsumerTypeOK, PollFails, Crash
<1>4. ASSUME NEW c \in Consumer, PollCancelled(c) PROVE ControlInv'
  <2>1. ConsumerTypeOK'
    BY <1>4, MoveTypeOK DEF ConsumerTypeOK, PollCancelled, AtPoll, States
  <2>2. InHandOf(c)'
    BY <1>4 DEF ConsumerTypeOK, PollCancelled, Goto, InHandOf
  <2>3. InHand'
    BY <1>4, <2>2, OthersInHand DEF ConsumerTypeOK, PollCancelled, Goto
  <2> QED BY <1>4, <2>1, <2>3 DEF PollCancelled, MarkedIsDurable
<1>5. ASSUME NEW c \in Consumer, NEW p \in Partition,
             RejectContract(c, p) \/ RejectPermanent(c, p)
      PROVE  ControlInv'
  <2>1. Goto(c, "dlq") \/ Goto(c, "flush")
    BY <1>5 DEF RejectContract, RejectPermanent
  <2>2. /\ cur' = [cur EXCEPT ![c] = p]
        /\ UNCHANGED <<done, polled, pos, known, owner, committed, marks, dlq, outbox>>
    BY <1>5 DEF RejectContract, RejectPermanent
  <2>3. ConsumerTypeOK'
    BY <1>5, <2>1, <2>2, MoveTypeOK
       DEF ConsumerTypeOK, States, RejectContract, RejectPermanent, AtRecord
  <2>4. InHandOf(c)'
    <3>1. AtRecord(c, p) /\ ~Passes(NextRec(c, p), known[c])
      BY <1>5 DEF RejectContract, RejectPermanent, Passes
    <3>2. pc'[c] \in {"dlq", "flush"} /\ cur'[c] = p
      BY <2>1, <2>2 DEF ConsumerTypeOK, Goto
    <3> QED BY <2>2, <3>1, <3>2 DEF AtRecord, InHandOf, Current, NextRec
  <2>5. InHand'
    BY <2>1, <2>2, <2>4, OthersInHand DEF ConsumerTypeOK, Goto
  <2> QED BY <2>2, <2>3, <2>5 DEF MarkedIsDurable
<1>6. ASSUME NEW c \in Consumer, NEW p \in Partition,
             DedupeMiss(c, p) \/ DedupeError(c, p)
      PROVE  ControlInv'
  <2>1. Goto(c, "insert") \/ Goto(c, "flush")
    BY <1>6 DEF DedupeMiss, DedupeError
  <2>2. /\ cur' = [cur EXCEPT ![c] = p]
        /\ UNCHANGED <<done, polled, pos, known, owner, committed, marks, dlq, outbox>>
    BY <1>6 DEF DedupeMiss, DedupeError
  <2>3. ConsumerTypeOK'
    BY <1>6, <2>1, <2>2, MoveTypeOK
       DEF ConsumerTypeOK, States, DedupeMiss, DedupeError, AtRecord
  <2>4. InHandOf(c)'
    <3>1. AtRecord(c, p) /\ Passes(NextRec(c, p), known[c])
      BY <1>6 DEF DedupeMiss, DedupeError
    <3>2. pc'[c] \in {"insert", "flush"} /\ cur'[c] = p
      BY <2>1, <2>2 DEF ConsumerTypeOK, Goto
    <3> QED BY <2>2, <3>1, <3>2 DEF AtRecord, InHandOf, Current, NextRec
  <2>5. InHand'
    BY <2>1, <2>2, <2>4, OthersInHand DEF ConsumerTypeOK, Goto
  <2> QED BY <2>2, <2>3, <2>5 DEF MarkedIsDurable
<1>7. ASSUME NEW c \in Consumer, NEW p \in Partition, DedupeHit(c, p) PROVE ControlInv'
  <2>1. ConsumerTypeOK'
    <3>1. /\ pc' \in [Consumer -> States] /\ cur' \in [Consumer -> Partition]
          /\ \A d \in Consumer : pc'[d] # "down" => known'[d] \in Registries
      BY <1>7 DEF ConsumerTypeOK, DedupeHit, AtRecord, Goto, States
    <3>2. done' \in [Consumer -> [Partition -> Nat]]
      BY <1>7 DEF ConsumerTypeOK, DedupeHit
    <3>3. ASSUME NEW q \in Partition, NEW d \in Consumer
          PROVE  done'[d][q] <= polled'[d][q]
      <4>1. CASE d = c /\ q = p
        <5>1. done'[d][q] = done[c][p] + 1
          BY <1>7, <4>1 DEF ConsumerTypeOK, DedupeHit
        <5> QED BY <1>7, <4>1, <5>1 DEF ConsumerTypeOK, DedupeHit, AtRecord
      <4>2. CASE ~(d = c /\ q = p)
        <5>1. done'[d][q] = done[d][q]
          BY <1>7, <4>2 DEF ConsumerTypeOK, DedupeHit
        <5> QED BY <1>7, <5>1 DEF ConsumerTypeOK, DedupeHit
      <4> QED BY <4>1, <4>2
    <3> QED BY <1>7, <3>1, <3>2, <3>3 DEF ConsumerTypeOK, DedupeHit
  <2>2. InHandOf(c)'
    BY <1>7 DEF ConsumerTypeOK, DedupeHit, Goto, InHandOf
  <2>3. InHand'
    BY <1>7, <2>2, OthersInHand DEF ConsumerTypeOK, DedupeHit, Goto
  <2> QED BY <1>7, <2>1, <2>3 DEF DedupeHit, MarkedIsDurable
<1>8. ASSUME NEW c \in Consumer, Insert(c) PROVE ControlInv'
  <2>1. DOMAIN outbox' = DOMAIN outbox \cup {RowID(Current(c))}
    BY <1>8, CreateDomain DEF Insert, InsertRow
  <2>2. ConsumerTypeOK'
    BY <1>8, MoveTypeOK DEF ConsumerTypeOK, Insert, States
  <2>3. InHandOf(c)'
    <3>1. pc'[c] = "mark" /\ UNCHANGED <<cur, done, polled, known>>
      BY <1>8 DEF ConsumerTypeOK, Insert, Goto
    <3>2. Current(c)' = Current(c)
      BY <3>1 DEF Current, NextRec
    <3>3. /\ done[c][cur[c]] < polled[c][cur[c]]
          /\ Passes(Current(c), known[c])
      BY <1>8 DEF InHand, InHandOf, Insert
    <3>4. RowID(Current(c))' = RowID(Current(c))
      BY <3>2 DEF RowID
    <3> QED BY <2>1, <3>1, <3>2, <3>3, <3>4 DEF InHandOf
  <2>4. InHand'
    BY <1>8, <2>1, <2>3, OthersInHand DEF ConsumerTypeOK, Insert, Goto
  <2> QED BY <1>8, <2>1, <2>2, <2>4 DEF Insert, MarkedIsDurable
<1>9. ASSUME NEW c \in Consumer, InsertFails(c) PROVE ControlInv'
  <2>1. DOMAIN outbox \subseteq DOMAIN outbox'
    BY <1>9, CreateDomain DEF InsertFails, InsertRow
  <2>2. ConsumerTypeOK'
    BY <1>9, MoveTypeOK DEF ConsumerTypeOK, InsertFails, States
  <2>3. InHandOf(c)'
    BY <1>9 DEF ConsumerTypeOK, InsertFails, Goto, InHandOf
  <2>4. InHand'
    BY <1>9, <2>1, <2>3, OthersInHand DEF ConsumerTypeOK, InsertFails, Goto
  <2> QED BY <1>9, <2>1, <2>2, <2>4 DEF InsertFails, MarkedIsDurable
<1>10. ASSUME NEW c \in Consumer, MarkDedupe(c) \/ MarkDedupeFails(c) PROVE ControlInv'
  <2>1. /\ pc[c] = "mark" /\ Finish(c)
        /\ UNCHANGED <<cur, polled, pos, known, owner, committed, dlq, outbox>>
        /\ marks' \subseteq marks \cup {Current(c).value.eventID}
    BY <1>10 DEF MarkDedupe, MarkDedupeFails
  <2>2. /\ done[c][cur[c]] < polled[c][cur[c]]
        /\ Current(c).value.eventID \in DOMAIN UUIDOf
        /\ RoutedID(UUIDOf[Current(c).value.eventID]) \in DOMAIN outbox
    BY <2>1 DEF InHand, InHandOf, Passes, Routable, RowID
  <2>3. marks' \subseteq DOMAIN UUIDOf
    BY <2>1, <2>2 DEF ConsumerTypeOK
  <2>4. ConsumerTypeOK'
    BY <2>1, <2>2, <2>3, FinishTypeOK DEF ConsumerTypeOK
  <2>5. InHandOf(c)'
    BY <2>1 DEF ConsumerTypeOK, Finish, Goto, InHandOf
  <2>6. InHand'
    BY <2>1, <2>5, OthersInHand DEF ConsumerTypeOK, Finish, Goto
  <2>7. MarkedIsDurable'
    BY <2>1, <2>2 DEF MarkedIsDurable
  <2> QED BY <2>4, <2>6, <2>7
<1>11. ASSUME NEW c \in Consumer, DeadLetter(c) PROVE ControlInv'
  <2>1. done[c][cur[c]] < polled[c][cur[c]]
    BY <1>11 DEF InHand, InHandOf, DeadLetter
  <2>2. <<cur[c], done[c][cur[c]] + 1>> \in {cur[c]} \X (1..Len(Log[cur[c]]))
    BY <2>1, ConsumerAssumption DEF ConsumerTypeOK
  <2>3. cur[c] \in Partition
    BY DEF ConsumerTypeOK
  <2>4. \A r \in dlq' : \E p \in Partition : r \in {p} \X (1..Len(Log[p]))
    BY <1>11, <2>2, <2>3 DEF ConsumerTypeOK, DeadLetter
  <2>5. ConsumerTypeOK'
    BY <1>11, <2>1, <2>4, FinishTypeOK DEF ConsumerTypeOK, DeadLetter
  <2>6. InHandOf(c)'
    BY <1>11 DEF ConsumerTypeOK, DeadLetter, Finish, Goto, InHandOf
  <2>7. InHand'
    BY <1>11, <2>6, OthersInHand DEF ConsumerTypeOK, DeadLetter, Finish, Goto
  <2> QED BY <1>11, <2>5, <2>7 DEF DeadLetter, MarkedIsDurable
<1>12. ASSUME NEW c \in Consumer, DeadLetterFails(c) PROVE ControlInv'
  <2>1. done[c][cur[c]] < polled[c][cur[c]]
    BY <1>12 DEF InHand, InHandOf, DeadLetterFails
  <2>2. <<cur[c], done[c][cur[c]] + 1>> \in {cur[c]} \X (1..Len(Log[cur[c]]))
    BY <2>1, ConsumerAssumption DEF ConsumerTypeOK
  <2>3. cur[c] \in Partition
    BY DEF ConsumerTypeOK
  <2>4. \A r \in dlq' : \E p \in Partition : r \in {p} \X (1..Len(Log[p]))
    BY <1>12, <2>2, <2>3 DEF ConsumerTypeOK, DeadLetterFails
  <2>5. /\ pc' \in [Consumer -> States]
        /\ \A d \in Consumer : pc'[d] # "down" => known'[d] \in Registries
    BY <1>12 DEF ConsumerTypeOK, DeadLetterFails, Goto, States
  <2>6. ConsumerTypeOK'
    BY <1>12, <2>4, <2>5 DEF ConsumerTypeOK, DeadLetterFails
  <2>7. InHandOf(c)'
    BY <1>12 DEF ConsumerTypeOK, DeadLetterFails, Goto, InHandOf
  <2>8. InHand'
    BY <1>12, <2>7, OthersInHand DEF ConsumerTypeOK, DeadLetterFails, Goto
  <2> QED BY <1>12, <2>6, <2>8 DEF DeadLetterFails, MarkedIsDurable
<1>13. ASSUME NEW c \in Consumer, Commit(c) \/ CommitFails(c) PROVE ControlInv'
  <2>1. /\ pc[c] = "commit"
        /\ Goto(c, "run") \/ Goto(c, "flushrec")
        /\ committed' \in {committed, [committed EXCEPT ![cur[c]] = done[c][cur[c]]]}
        /\ UNCHANGED <<cur, done, polled, pos, known, owner, marks, dlq, outbox>>
    BY <1>13 DEF Commit, CommitFails
  <2>2. /\ done[c][cur[c]] \in Nat
        /\ done[c][cur[c]] <= Len(Log[cur[c]])
    BY ConsumerAssumption DEF ConsumerTypeOK
  <2>3. /\ committed' \in [Partition -> Nat]
        /\ \A p \in Partition : committed'[p] <= Len(Log[p])
    BY <2>1, <2>2 DEF ConsumerTypeOK
  <2>4. /\ pc' \in [Consumer -> States] /\ pc'[c] \in {"run", "flushrec"}
        /\ \A d \in Consumer : pc'[d] # "down" => known'[d] \in Registries
    BY <2>1 DEF ConsumerTypeOK, Goto, States
  <2>5. ConsumerTypeOK'
    BY <2>1, <2>3, <2>4 DEF ConsumerTypeOK
  <2>6. InHandOf(c)'
    BY <2>4 DEF InHandOf
  <2>7. InHand'
    BY <2>1, <2>6, OthersInHand DEF ConsumerTypeOK, Goto
  <2> QED BY <2>1, <2>5, <2>7 DEF MarkedIsDurable
<1>14. ASSUME NEW c \in Consumer, Flush(c) PROVE ControlInv'
  <2>1. /\ Flushed(c) \in [Partition -> Nat]
        /\ \A p \in Partition : Flushed(c)[p] <= Len(Log[p])
    BY ConsumerAssumption DEF ConsumerTypeOK, Flushed
  <2> QED BY <1>14, <2>1, ExitControl DEF ConsumerTypeOK, Flush
<1>15. ASSUME NEW c \in Consumer, NEW p \in Partition, Assign(c, p) PROVE ControlInv'
  <2>1. /\ pos' \in [Consumer -> [Partition -> Nat]]
        /\ owner' \in [Partition -> Consumer \cup {NoConsumer}]
    BY <1>15 DEF ConsumerTypeOK, Assign
  <2>2. \A d \in Consumer, q \in Partition : pos'[d][q] <= Len(Log[q])
    BY <1>15 DEF ConsumerTypeOK, Assign
  <2>3. ConsumerTypeOK'
    BY <1>15, <2>1, <2>2 DEF ConsumerTypeOK, Assign
  <2>4. InHand'
    BY <1>15 DEF InHand, InHandOf, Current, NextRec, Assign
  <2> QED BY <1>15, <2>3, <2>4 DEF Assign, MarkedIsDurable
<1>16. ASSUME MarkExpires PROVE ControlInv'
  <2>1. ConsumerTypeOK'
    BY <1>16 DEF ConsumerTypeOK, MarkExpires
  <2>2. InHand'
    BY <1>16 DEF InHand, InHandOf, Current, NextRec, MarkExpires
  <2> QED BY <1>16, <2>1, <2>2 DEF MarkExpires, MarkedIsDurable
<1>17. ASSUME UNCHANGED vars PROVE ControlInv'
  <2>1. ConsumerTypeOK'
    BY <1>17 DEF ConsumerTypeOK, vars, consumerVars, replicaVars
  <2>2. InHand'
    BY <1>17 DEF InHand, InHandOf, Current, NextRec, vars, consumerVars, replicaVars
  <2> QED BY <1>17, <2>1, <2>2 DEF MarkedIsDurable, vars, consumerVars
<1> QED
  BY <1>1, <1>2, <1>3, <1>4, <1>5, <1>6, <1>7, <1>8, <1>9, <1>10, <1>11, <1>12,
     <1>13, <1>14, <1>15, <1>16, <1>17 DEF ConsumerNext, Replica

LEMMA ControlAlways == ConsumerSpec => []ControlInv
<1>1. ConsumerInit => ControlInv
  BY ControlInit
<1>2. ControlInv /\ [ConsumerNext]_vars => ControlInv'
  BY ControlStep
<1> QED BY <1>1, <1>2, PTL DEF ConsumerSpec, vars

\* Type correctness of the consumer, whatever CommitUncommitted commits: no
\* replica ever reads, counts or commits past the end of a partition.
THEOREM ConsumerTypeCorrect == ConsumerSpec => []ConsumerTypeOK
<1>1. ControlInv => ConsumerTypeOK
  BY DEF ControlInv
<1> QED BY <1>1, ControlAlways, PTL

\* A dedupe mark is never there without its row, so that skipping a redelivery
\* on its account drops nothing.
THEOREM MarksAreDurable == ConsumerSpec => []MarkedIsDurable
<1>1. ControlInv => MarkedIsDurable
  BY DEF ControlInv
<1> QED BY <1>1, ControlAlways, PTL


(***************************************************************************)
(* Nothing is dropped.                                                     *)
(***************************************************************************)

\* The inductive invariant of CommittedIsDurable: what has been handled, what a
\* new assignment starts from and what is committed is all settled.
DurableInv == HandledIsSettled /\ PositionIsSettled /\ CommittedIsDurable

\* Rows and dead letters are never removed, so what is settled stays settled.
LEMMA StoresGrow ==
    ASSUME [ConsumerNext]_vars
    PROVE  DOMAIN outbox \subseteq DOMAIN outbox' /\ dlq \subseteq dlq'
<1>1. ASSUME NEW c \in Consumer, InsertRow(c)
      PROVE  DOMAIN outbox \subseteq DOMAIN outbox'
  BY <1>1, CreateDomain DEF InsertRow
<1>2. DOMAIN outbox \subseteq DOMAIN outbox'
  BY <1>1 DEF ConsumerNext, Replica, vars, Start, Poll, PollFails, PollCancelled,
     RejectContract, RejectPermanent, DedupeHit, DedupeMiss, DedupeError, Assign,
     Insert, InsertFails, MarkDedupe, MarkDedupeFails, DeadLetter, DeadLetterFails,
     Commit, CommitFails, Flush, Crash, MarkExpires
<1>3. dlq \subseteq dlq'
  BY DEF ConsumerNext, Replica, vars, consumerVars, Start, Poll, PollFails,
     PollCancelled, RejectContract, RejectPermanent, DedupeHit, DedupeMiss,
     DedupeError, Assign, Insert, InsertFails, MarkDedupe, MarkDedupeFails,
     DeadLetter, DeadLetterFails, Commit, CommitFails, Flush, Crash, MarkExpires
<1> QED BY <1>2, <1>3

LEMMA SettledStays ==
    ASSUME [ConsumerNext]_vars, NEW p, NEW o, Settled(p, o)
    PROVE  Settled(p, o)'
BY StoresGrow DEF Settled

\* Handling one more record of cur, and settling it, extends the settled prefix.
LEMMA AdvanceHandled ==
    ASSUME ConsumerTypeOK, HandledIsSettled, [ConsumerNext]_vars,
           NEW c \in Consumer, NEW p \in Partition,
           done' = [done EXCEPT ![c][p] = @ + 1],
           NEW n, n = done[c][p] + 1, Settled(p, n)'
    PROVE  HandledIsSettled'
<1> SUFFICES ASSUME NEW d \in Consumer, NEW q \in Partition, NEW o \in 1..done'[d][q]
             PROVE  Settled(q, o)'
  BY DEF HandledIsSettled
<1>1. CASE o \in 1..done[d][q]
  BY <1>1, SettledStays DEF HandledIsSettled
<1>2. CASE o \notin 1..done[d][q]
  <2>1. d = c /\ q = p /\ done'[d][q] = done[d][q] + 1 /\ done[d][q] \in Nat
    BY <1>2 DEF ConsumerTypeOK
  <2>2. o = n
    BY <1>2, <2>1
  <2> QED BY <2>1, <2>2
<1> QED BY <1>1, <1>2

\* A step that leaves the batches alone keeps what is handled settled.
LEMMA SameHandled ==
    ASSUME HandledIsSettled, [ConsumerNext]_vars, UNCHANGED done
    PROVE  HandledIsSettled'
BY SettledStays DEF HandledIsSettled

LEMMA SamePosition ==
    ASSUME PositionIsSettled, [ConsumerNext]_vars, UNCHANGED <<polled, pos>>
    PROVE  PositionIsSettled'
BY SettledStays DEF PositionIsSettled

LEMMA SameCommitted ==
    ASSUME CommittedIsDurable, [ConsumerNext]_vars, UNCHANGED committed
    PROVE  CommittedIsDurable'
BY SettledStays DEF CommittedIsDurable


LEMMA DurableInit == ConsumerInit => DurableInv
<1> SUFFICES ASSUME ConsumerInit PROVE DurableInv
  OBVIOUS
<1>1. HandledIsSettled
  BY DEF ConsumerInit, HandledIsSettled, Zero
<1>2. PositionIsSettled
  BY DEF ConsumerInit, PositionIsSettled, Zero
<1>3. CommittedIsDurable
  BY DEF ConsumerInit, CommittedIsDurable, Zero
<1> QED BY <1>1, <1>2, <1>3 DEF DurableInv

\* A replica that exits forgets its batch and its position.
LEMMA ExitDurable ==
    ASSUME ConsumerTypeOK, HandledIsSettled, PositionIsSettled,
           [ConsumerNext]_vars, NEW c \in Consumer, Exit(c)
    PROVE  HandledIsSettled' /\ PositionIsSettled'
<1>1. ASSUME NEW d \in Consumer, NEW p \in Partition
      PROVE  \/ /\ done'[d][p] = 0 /\ pos'[d][p] = 0 /\ polled'[d][p] = 0
             \/ /\ done'[d][p] = done[d][p]
                /\ pos'[d][p] = pos[d][p]
                /\ polled'[d][p] = polled[d][p]
  BY DEF ConsumerTypeOK, Exit, Zero
<1>2. HandledIsSettled'
  <2> SUFFICES ASSUME NEW d \in Consumer, NEW p \in Partition, NEW o \in 1..done'[d][p]
               PROVE  Settled(p, o)'
    BY DEF HandledIsSettled
  <2>1. o \in 1..done[d][p]
    BY <1>1
  <2> QED BY <2>1, SettledStays DEF HandledIsSettled
<1>3. PositionIsSettled'
  <2> SUFFICES ASSUME NEW d \in Consumer, NEW p \in Partition,
                      pos'[d][p] # polled'[d][p], NEW o \in 1..pos'[d][p]
               PROVE  Settled(p, o)'
    BY DEF PositionIsSettled
  <2>1. pos[d][p] # polled[d][p] /\ o \in 1..pos[d][p]
    BY <1>1
  <2> QED BY <2>1, SettledStays DEF PositionIsSettled
<1> QED BY <1>2, <1>3

\* A committed offset that comes from a replica's handled prefix is durable.
LEMMA CommitDurable ==
    ASSUME ConsumerTypeOK, HandledIsSettled, CommittedIsDurable,
           [ConsumerNext]_vars, NEW c \in Consumer,
           \A p \in Partition : committed'[p] \in {committed[p], done[c][p]}
    PROVE  CommittedIsDurable'
<1> SUFFICES ASSUME NEW p \in Partition, NEW o \in 1..committed'[p]
             PROVE  Settled(p, o)'
  BY DEF CommittedIsDurable
<1>1. Settled(p, o)
  BY DEF HandledIsSettled, CommittedIsDurable
<1> QED BY <1>1, SettledStays

\* With an assignment, or a batch used up, a position is a settled prefix.
LEMMA PollDurable ==
    ASSUME ConsumerTypeOK, HandledIsSettled, PositionIsSettled,
           [ConsumerNext]_vars, NEW c \in Consumer, Poll(c)
    PROVE  HandledIsSettled' /\ PositionIsSettled'
<1>1. ASSUME NEW p \in Partition, NEW o \in 1..pos[c][p] PROVE Settled(p, o)
  <2>1. done[c][p] = polled[c][p]
    BY DEF Poll, AtPoll
  <2> QED BY <2>1 DEF HandledIsSettled, PositionIsSettled
<1>2. HandledIsSettled'
  <2> SUFFICES ASSUME NEW d \in Consumer, NEW p \in Partition, NEW o \in 1..done'[d][p]
               PROVE  Settled(p, o)'
    BY DEF HandledIsSettled
  <2>1. CASE d = c
    <3>1. o \in 1..pos[c][p]
      BY <2>1 DEF ConsumerTypeOK, Poll
    <3> QED BY <1>1, <3>1, SettledStays
  <2>2. CASE d # c
    <3>1. o \in 1..done[d][p]
      BY <2>2 DEF ConsumerTypeOK, Poll
    <3> QED BY <3>1, SettledStays DEF HandledIsSettled
  <2> QED BY <2>1, <2>2
<1>3. PositionIsSettled'
  <2> SUFFICES ASSUME NEW d \in Consumer, NEW p \in Partition,
                      pos'[d][p] # polled'[d][p], NEW o \in 1..pos'[d][p]
               PROVE  Settled(p, o)'
    BY DEF PositionIsSettled
  <2>1. d # c
    BY DEF ConsumerTypeOK, Poll
  <2>2. pos'[d] = pos[d] /\ polled'[d] = polled[d]
    BY <2>1 DEF ConsumerTypeOK, Poll
  <2> QED BY <2>2, SettledStays DEF PositionIsSettled
<1> QED BY <1>2, <1>3


\* Every step keeps DurableInv, if a flush commits no more than was processed.
LEMMA DurableStep ==
    ASSUME CommitScope = "processed"
    PROVE  ControlInv /\ DurableInv /\ [ConsumerNext]_vars => DurableInv'
<1> SUFFICES ASSUME ControlInv, DurableInv, [ConsumerNext]_vars PROVE DurableInv'
  OBVIOUS
<1> USE DEF ControlInv, DurableInv
<1>1. ASSUME UNCHANGED <<done, polled, pos, committed>> PROVE DurableInv'
  BY <1>1, SameHandled, SamePosition, SameCommitted
<1>2. ASSUME NEW c \in Consumer,
             \/ Start(c) \/ PollCancelled(c) \/ Insert(c) \/ InsertFails(c)
             \/ DeadLetterFails(c)
      PROVE  DurableInv'
  BY <1>1, <1>2 DEF Start, PollCancelled, Insert, InsertFails, DeadLetterFails
<1>3. ASSUME NEW c \in Consumer, NEW p \in Partition,
             \/ RejectContract(c, p) \/ RejectPermanent(c, p)
             \/ DedupeMiss(c, p) \/ DedupeError(c, p)
      PROVE  DurableInv'
  BY <1>1, <1>3 DEF RejectContract, RejectPermanent, DedupeMiss, DedupeError
<1>4. ASSUME MarkExpires \/ UNCHANGED vars PROVE DurableInv'
  BY <1>1, <1>4 DEF MarkExpires, vars, consumerVars, replicaVars
<1>5. ASSUME NEW c \in Consumer, Poll(c) PROVE DurableInv'
  BY <1>5, PollDurable, SameCommitted DEF Poll
<1>6. ASSUME NEW c \in Consumer, PollFails(c) \/ Crash(c) PROVE DurableInv'
  BY <1>6, ExitDurable, SameCommitted DEF PollFails, Crash
<1>7. ASSUME NEW c \in Consumer, NEW p \in Partition, DedupeHit(c, p) PROVE DurableInv'
  <2>1. PICK n : n = done[c][p] + 1
    OBVIOUS
  <2>2. Settled(p, n)
    <3>1. RoutedID(UUIDOf[NextRec(c, p).value.eventID]) \in DOMAIN outbox
      BY <1>7 DEF DedupeHit, MarkedIsDurable
    <3>2. Deliverable(NextRec(c, p))
      BY <1>7, InHandFate DEF DedupeHit, AtRecord
    <3> QED BY <2>1, <3>1, <3>2 DEF Settled, NextRec, RowID
  <2>3. Settled(p, n)'
    BY <2>2, SettledStays
  <2>4. done' = [done EXCEPT ![c][p] = @ + 1] /\ UNCHANGED <<polled, pos, committed>>
    BY <1>7 DEF DedupeHit
  <2>5. HandledIsSettled'
    BY <2>1, <2>3, <2>4, AdvanceHandled
  <2> QED BY <2>4, <2>5, SamePosition, SameCommitted
<1>8. ASSUME NEW c \in Consumer,
             MarkDedupe(c) \/ MarkDedupeFails(c) \/ DeadLetter(c)
      PROVE  DurableInv'
  <2>1. PICK n : n = done[c][cur[c]] + 1
    OBVIOUS
  <2>2. PICK p \in Partition : p = cur[c]
    BY DEF ConsumerTypeOK
  <2>3. Current(c) = Rec(p, n)
    BY <2>1, <2>2 DEF Current, NextRec
  <2>4. Settled(p, n)'
    <3>1. CASE MarkDedupe(c) \/ MarkDedupeFails(c)
      <4>1. Deliverable(Rec(p, n)) /\ RowID(Rec(p, n)) \in DOMAIN outbox
        BY <2>3, <3>1, InHandFate DEF MarkDedupe, MarkDedupeFails, InHand, InHandOf
      <4>2. Settled(p, n)
        BY <4>1 DEF Settled
      <4> QED BY <4>2, SettledStays
    <3>2. CASE DeadLetter(c)
      <4>1. Rejectable(Rec(p, n))
        BY <2>3, <3>2, InHandFate DEF DeadLetter, InHand, InHandOf
      <4>2. <<p, n>> \in dlq'
        BY <2>1, <2>2, <3>2 DEF DeadLetter
      <4> QED BY <4>1, <4>2 DEF Settled
    <3> QED BY <1>8, <3>1, <3>2
  <2>5. /\ done' = [done EXCEPT ![c][p] = @ + 1]
        /\ UNCHANGED <<polled, pos, committed>>
    BY <1>8, <2>2 DEF MarkDedupe, MarkDedupeFails, DeadLetter, Finish
  <2>6. HandledIsSettled'
    BY <2>1, <2>2, <2>4, <2>5, AdvanceHandled
  <2> QED BY <2>5, <2>6, SamePosition, SameCommitted
<1>9. ASSUME NEW c \in Consumer, Commit(c) \/ CommitFails(c) PROVE DurableInv'
  <2>1. /\ UNCHANGED <<done, polled, pos>>
        /\ committed' \in {committed, [committed EXCEPT ![cur[c]] = done[c][cur[c]]]}
    BY <1>9 DEF Commit, CommitFails
  <2>2. \A p \in Partition : committed'[p] \in {committed[p], done[c][p]}
    BY <2>1 DEF ConsumerTypeOK
  <2>3. CommittedIsDurable'
    BY <2>2, CommitDurable
  <2> QED BY <2>1, <2>3, SameHandled, SamePosition
<1>10. ASSUME NEW c \in Consumer, Flush(c) PROVE DurableInv'
  <2>1. \A p \in Partition : Flushed(c)[p] \in {committed[p], done[c][p]}
    BY DEF Flushed
  <2>2. \A p \in Partition : committed'[p] \in {committed[p], done[c][p]}
    BY <1>10, <2>1 DEF Flush
  <2>3. CommittedIsDurable'
    BY <2>2, CommitDurable
  <2> QED BY <1>10, <2>3, ExitDurable DEF Flush
<1>11. ASSUME NEW c \in Consumer, NEW p \in Partition, Assign(c, p) PROVE DurableInv'
  <2>1. PositionIsSettled'
    <3> SUFFICES ASSUME NEW d \in Consumer, NEW q \in Partition,
                        pos'[d][q] # polled'[d][q], NEW o \in 1..pos'[d][q]
                 PROVE  Settled(q, o)'
      BY DEF PositionIsSettled
    <3>1. CASE d = c /\ q = p
      <4>1. o \in 1..committed[p]
        BY <1>11, <3>1 DEF ConsumerTypeOK, Assign
      <4> QED BY <3>1, <4>1, SettledStays DEF CommittedIsDurable
    <3>2. CASE ~(d = c /\ q = p)
      <4>1. pos'[d][q] = pos[d][q] /\ polled'[d][q] = polled[d][q]
        BY <1>11, <3>2 DEF ConsumerTypeOK, Assign
      <4> QED BY <4>1, SettledStays DEF PositionIsSettled
    <3> QED BY <3>1, <3>2
  <2> QED BY <1>11, <2>1, SameHandled, SameCommitted DEF Assign
<1> QED
  BY <1>2, <1>3, <1>4, <1>5, <1>6, <1>7, <1>8, <1>9, <1>10, <1>11
     DEF ConsumerNext, Replica

\* No event is dropped.  For any number of replicas and any interleaving of
\* their steps with crashes, failed calls, zombie commits, rebalances and
\* expired marks, a record below a committed offset has its routed row, or is
\* in the dead-letter topic, provided CommitUncommitted commits no more than
\* the offsets of processed records.
THEOREM NothingIsDropped ==
    ASSUME CommitScope = "processed"
    PROVE  ConsumerSpec => []CommittedIsDurable
<1>1. ConsumerInit => DurableInv
  BY DurableInit
<1>2. ControlInv /\ DurableInv /\ [ConsumerNext]_vars => DurableInv'
  BY DurableStep
<1>3. DurableInv => CommittedIsDurable
  BY DEF DurableInv
<1> QED BY <1>1, <1>2, <1>3, ControlAlways, PTL DEF ConsumerSpec, vars

\* A row is neither lost nor rewritten by any step of the consumers: the
\* redelivery of an event, under whatever spelling of its id, changes nothing.
THEOREM RowsKept == ConsumerSpec => RowsAreKept
<1> DEFINE Kept == \A id \in DOMAIN outbox :
                      id \in DOMAIN outbox' /\ outbox'[id].columns = outbox[id].columns
<1>1. ASSUME NEW c \in Consumer, InsertRow(c) PROVE Kept
  BY <1>1 DEF InsertRow, CreateOutboxEvent
<1>2. [ConsumerNext]_vars => [Kept]_outbox
  BY <1>1 DEF ConsumerNext, Replica, vars, Start, Poll, PollFails, PollCancelled,
     RejectContract, RejectPermanent, DedupeHit, DedupeMiss, DedupeError, Assign,
     Insert, InsertFails, MarkDedupe, MarkDedupeFails, DeadLetter, DeadLetterFails,
     Commit, CommitFails, Flush, Crash, MarkExpires
<1> QED BY <1>2, PTL DEF ConsumerSpec, RowsAreKept, vars

(***************************************************************************)
(* Which records are in both places.                                       *)
(***************************************************************************)

\* A replica in the middle of a record is at one of the log's.
LEMMA RecordInHand ==
    ASSUME ControlInv, NEW c \in Consumer, pc[c] \in {"insert", "mark", "dlq"}
    PROVE  done[c][cur[c]] + 1 \in 1..Len(Log[cur[c]])
<1>1. cur[c] \in Partition
  BY DEF ControlInv, ConsumerTypeOK
<1>2. /\ done[c][cur[c]] \in Nat /\ polled[c][cur[c]] \in Nat /\ Len(Log[cur[c]]) \in Nat
      /\ done[c][cur[c]] < polled[c][cur[c]] /\ polled[c][cur[c]] <= Len(Log[cur[c]])
  BY <1>1, ConsumerAssumption DEF ControlInv, ConsumerTypeOK, InHand, InHandOf
<1> QED BY <1>2

\* The row a transaction adds is the routed form of the record in hand, and the
\* rows already there are as they were.
LEMMA InsertRouted ==
    ASSUME ControlInv, SplitOnlyByRollout, NEW c \in Consumer, pc[c] = "insert",
           InsertRow(c), UNCHANGED dlq
    PROVE  SplitOnlyByRollout'
<1> USE DEF ControlInv
<1>1. PICK p \in Partition : p = cur[c]
  BY DEF ConsumerTypeOK
<1>2. PICK o \in 1..Len(Log[p]) : o = done[c][p] + 1
  BY <1>1, RecordInHand
<1>3. Current(c) = Rec(p, o) /\ Deliverable(Rec(p, o))
  BY <1>1, <1>2, InHandFate DEF Current, NextRec, InHand, InHandOf
<1>4. CreateOutboxEvent(RowID(Rec(p, o)), Columns(Rec(p, o).value, Rec(p, o).traceID))
  BY <1>3 DEF InsertRow
<1>5. ASSUME NEW id \in DOMAIN outbox'
      PROVE  \E q \in Partition : \E n \in 1..Len(Log[q]) :
                /\ Deliverable(Rec(q, n))
                /\ RowID(Rec(q, n)) = id
                /\ outbox'[id].columns = Columns(Rec(q, n).value, Rec(q, n).traceID)
  <2>1. CASE id \in DOMAIN outbox
    <3>1. outbox'[id] = outbox[id]
      BY <1>4, <2>1 DEF CreateOutboxEvent
    <3> QED BY <2>1, <3>1 DEF SplitOnlyByRollout
  <2>2. CASE id \notin DOMAIN outbox
    <3>1. id = RowID(Rec(p, o))
      BY <1>4, <1>5, <2>2, CreateDomain
    <3>2. outbox'[id] = NewRow(Columns(Rec(p, o).value, Rec(p, o).traceID))
      BY <1>4, <1>5, <2>2 DEF CreateOutboxEvent
    <3>3. outbox'[id].columns = Columns(Rec(p, o).value, Rec(p, o).traceID)
      BY <3>2 DEF NewRow
    <3> QED BY <1>3, <3>1, <3>3
  <2> QED BY <2>1, <2>2
<1> QED BY <1>5 DEF SplitOnlyByRollout, Deliverable, Passes, RowID, Rec

\* Registries give a record different fates only by its caller.
LEMMA SplitByCaller ==
    ASSUME NEW rec, Deliverable(rec), Rejectable(rec)
    PROVE  \E old, new \in Registries : rec.value.callerID \in new \ old
<1>1. PICK new \in Registries : Passes(rec, new)
  BY DEF Deliverable
<1>2. PICK old \in Registries : ~Passes(rec, old)
  BY DEF Rejectable
<1>3. rec.value.callerID \in new \ old
  BY <1>1, <1>2 DEF Passes, Routable
<1> QED BY <1>3

\* Only deadLetter writes to the dead-letter topic, and it is reached with a
\* record that failed a check.
LEMMA DeadLetterRejected ==
    ASSUME ControlInv, SplitOnlyByRollout, NEW c \in Consumer, pc[c] = "dlq",
           dlq' \subseteq dlq \cup {<<cur[c], done[c][cur[c]] + 1>>}, UNCHANGED outbox
    PROVE  SplitOnlyByRollout'
<1>1. Rejectable(Rec(cur[c], done[c][cur[c]] + 1))
  BY InHandFate DEF ControlInv, InHand, InHandOf, Current, NextRec
<1>2. ASSUME NEW r \in dlq', Deliverable(Rec(r[1], r[2]))
      PROVE  \E old, new \in Registries : Rec(r[1], r[2]).value.callerID \in new \ old
  BY <1>1, <1>2, SplitByCaller DEF SplitOnlyByRollout
<1> QED BY <1>2 DEF SplitOnlyByRollout

LEMMA RoutedStep ==
    ControlInv /\ SplitOnlyByRollout /\ [ConsumerNext]_vars => SplitOnlyByRollout'
<1> SUFFICES ASSUME ControlInv, SplitOnlyByRollout, [ConsumerNext]_vars
             PROVE  SplitOnlyByRollout'
  OBVIOUS
<1>1. ASSUME UNCHANGED <<dlq, outbox>> PROVE SplitOnlyByRollout'
  BY <1>1 DEF SplitOnlyByRollout
<1>2. ASSUME NEW c \in Consumer, Insert(c) \/ InsertFails(c) PROVE SplitOnlyByRollout'
  BY <1>1, <1>2, InsertRouted DEF Insert, InsertFails
<1>3. ASSUME NEW c \in Consumer, DeadLetter(c) \/ DeadLetterFails(c)
      PROVE  SplitOnlyByRollout'
  BY <1>3, DeadLetterRejected DEF DeadLetter, DeadLetterFails
<1>4. CASE UNCHANGED <<dlq, outbox>>
  BY <1>1, <1>4
<1> QED
  BY <1>2, <1>3, <1>4 DEF ConsumerNext, Replica, vars, consumerVars, Start, Poll,
     PollFails, PollCancelled, RejectContract, RejectPermanent, DedupeHit, DedupeMiss,
     DedupeError, Assign, MarkDedupe, MarkDedupeFails, Commit, CommitFails, Flush,
     Crash, MarkExpires

\* A record ends in both places only by a rollout.  Whoever handles it, however
\* often it is redelivered and whatever CommitUncommitted commits, a record in the
\* dead-letter topic is one no registry routes, or one whose caller some registry
\* lists and another does not; and every row is the rewritten form of a record that
\* passes all checks of handleProcessedRecord and Handle under some registry.
THEOREM SplitsHaveACause == ConsumerSpec => []SplitOnlyByRollout
<1>1. ConsumerInit => SplitOnlyByRollout
  BY DEF ConsumerInit, SplitOnlyByRollout
<1>2. ControlInv /\ SplitOnlyByRollout /\ [ConsumerNext]_vars => SplitOnlyByRollout'
  BY RoutedStep
<1> QED BY <1>1, <1>2, ControlAlways, PTL DEF ConsumerSpec, vars

\* Every dead letter and every row is decided by the registry of the replica that
\* writes it, for any number of replicas and any sequence of rollouts and rollbacks.
THEOREM DecidedByRegistry == ConsumerSpec => RegistryDecides
<1> DEFINE Refused(r) == \E c \in Consumer :
                            /\ pc[c] = "dlq" /\ r = <<cur[c], done[c][cur[c]] + 1>>
                            /\ ~Passes(Current(c), known[c])
           Passed(id) == \E c \in Consumer :
                            /\ pc[c] = "insert" /\ id = RowID(Current(c))
                            /\ Passes(Current(c), known[c])
           Decided == /\ \A r \in dlq' \ dlq : Refused(r)
                      /\ \A id \in DOMAIN outbox' \ DOMAIN outbox : Passed(id)
<1>1. ASSUME ControlInv, [ConsumerNext]_vars PROVE [Decided]_<<dlq, outbox>>
  <2>1. ASSUME NEW c \in Consumer, Insert(c) \/ InsertFails(c) PROVE Decided
    <3>1. pc[c] = "insert" /\ Passes(Current(c), known[c]) /\ UNCHANGED dlq
      BY <1>1, <2>1 DEF Insert, InsertFails, ControlInv, InHand, InHandOf
    <3>2. DOMAIN outbox' \subseteq DOMAIN outbox \cup {RowID(Current(c))}
      BY <2>1, CreateDomain DEF Insert, InsertFails, InsertRow
    <3> QED BY <3>1, <3>2
  <2>2. ASSUME NEW c \in Consumer, DeadLetter(c) \/ DeadLetterFails(c) PROVE Decided
    <3>1. pc[c] = "dlq" /\ ~Passes(Current(c), known[c]) /\ UNCHANGED outbox
      BY <1>1, <2>2 DEF DeadLetter, DeadLetterFails, ControlInv, InHand, InHandOf
    <3>2. dlq' \subseteq dlq \cup {<<cur[c], done[c][cur[c]] + 1>>}
      BY <2>2 DEF DeadLetter, DeadLetterFails
    <3> QED BY <3>1, <3>2
  <2> HIDE DEF Decided
  <2> QED
    BY <1>1, <2>1, <2>2 DEF ConsumerNext, Replica, vars, consumerVars, Start, Poll,
       PollFails, PollCancelled, RejectContract, RejectPermanent, DedupeHit, DedupeMiss,
       DedupeError, Assign, MarkDedupe, MarkDedupeFails, Commit, CommitFails, Flush,
       Crash, MarkExpires
<1>2. ControlInv /\ [ConsumerNext]_vars => [Decided]_<<dlq, outbox>>
  BY <1>1
<1> QED BY <1>2, ControlAlways, PTL DEF ConsumerSpec, RegistryDecides, vars
=============================================================================
