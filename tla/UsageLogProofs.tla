--------------------------- MODULE UsageLogProofs ---------------------------
(***************************************************************************)
(* Proofs about UsageLog, for every batch size, number of entries and      *)
(* number of failed inserts.  The inductive invariant is IInv: the types,  *)
(* the order of what is pending, and what the collection holds of it.      *)
(***************************************************************************)
EXTENDS UsageLog, SequenceTheorems, TLAPS

IInv == TypeOK /\ PendingInOrder /\ NothingLost /\ CopiesBounded

(* What is pending is a sequence of entries; Durable counts the rest.      *)
LEMMA PendingFacts ==
    ASSUME TypeOK
    PROVE  /\ Pending \in Seq(Entries)
           /\ Len(Pending) = Len(batch) + Len(queue)
           /\ Durable = sent - Len(Pending)
           /\ \A i \in 1..Len(batch) : Pending[i] = batch[i]
           /\ \A i \in 1..Len(queue) : Pending[Len(batch) + i] = queue[i]
           /\ Len(batch) \in Nat /\ Len(queue) \in Nat
           /\ Durable \in Int /\ sent \in Int
<1>1. batch \in Seq(Entries) /\ queue \in Seq(Entries)
  BY DEF TypeOK
<1>2. /\ batch \o queue \in Seq(Entries)
      /\ Len(batch \o queue) = Len(batch) + Len(queue)
      /\ \A i \in 1..(Len(batch) + Len(queue)) : (batch \o queue)[i] =
             IF i <= Len(batch) THEN batch[i] ELSE queue[i - Len(batch)]
  BY <1>1, ConcatProperties
<1>3. Len(batch) \in Nat /\ Len(queue) \in Nat
  BY <1>1, LenProperties
<1>4. sent \in Int
  BY UsageLogAssumption DEF TypeOK
<1>. QED
  BY <1>2, <1>3, <1>4 DEF Pending, Durable

(* FlushQueue only moves the boundary between the batch and the queue.     *)
LEMMA FlushQueueSplits ==
    ASSUME TypeOK, NEW q \in Seq(Entries), FlushQueue(q)
    PROVE  /\ queue' \in Seq(Entries)
           /\ batch' \in Seq(Entries)
           /\ flushing' \in BOOLEAN
           /\ flushing' <=> batch' # <<>>
           /\ batch' \o queue' = batch \o q
           /\ Len(batch') + Len(queue') = Len(batch) + Len(q)
<1>1. CASE flushing \/ q = <<>>
  <2>1. CASE queue' = q /\ batch' = batch /\ flushing' = flushing
    BY <2>1 DEF TypeOK
  <2>2. CASE ~flushing /\ q # <<>>
    BY <1>1, <2>2
  <2>. QED
    BY <2>1, <2>2 DEF FlushQueue
<1>2. CASE ~flushing /\ q # <<>>
  <2>. DEFINE n == Smaller(BatchLimit, Len(q))
  <2>1. Len(q) \in Nat \ {0}
    BY <1>2, EmptySeq
  <2>2. n \in 0..Len(q)
    BY <2>1, UsageLogAssumption DEF Smaller
  <2>3. /\ batch' = SubSeq(q, 1, n)
        /\ queue' = SubSeq(q, n + 1, Len(q))
        /\ flushing' = (n > 0)
    BY <1>2 DEF FlushQueue
  <2>4. \A i \in 1..Len(q) : q[i] \in Entries
    BY ElementOfSeq
  <2>5. batch' \in Seq(Entries) /\ Len(batch') = n
    <3>. HIDE DEF n
    <3>1. n \in Int /\ \A i \in 1..n : q[i] \in Entries
      BY <2>1, <2>2, <2>4
    <3>2. /\ SubSeq(q, 1, n) \in Seq(Entries)
          /\ Len(SubSeq(q, 1, n)) = IF 1 <= n THEN n - 1 + 1 ELSE 0
      BY <3>1, SubSeqProperties
    <3>. QED
      BY <3>2, <2>2, <2>3
  <2>6. queue' \in Seq(Entries) /\ Len(queue') = Len(q) - n
    <3>. HIDE DEF n
    <3>1. n + 1 \in Int /\ Len(q) \in Int /\ \A i \in (n + 1)..Len(q) : q[i] \in Entries
      BY <2>1, <2>2, <2>4
    <3>2. /\ SubSeq(q, n + 1, Len(q)) \in Seq(Entries)
          /\ Len(SubSeq(q, n + 1, Len(q))) =
                IF n + 1 <= Len(q) THEN Len(q) - (n + 1) + 1 ELSE 0
      BY <3>1, SubSeqProperties
    <3>. QED
      BY <3>2, <2>1, <2>2, <2>3
  <2>7. batch' \o queue' = q
    <3>. HIDE DEF n
    <3>1. SubSeq(q, 1, n) \o SubSeq(q, n + 1, Len(q)) = SubSeq(q, 1, Len(q))
      <4>1. /\ 1 \in 1..(Len(q) + 1) /\ n \in (1 - 1)..Len(q) /\ Len(q) \in n..Len(q)
        BY <2>1, <2>2
      <4>. QED
        BY <4>1, ConcatAdjacentSubSeq
    <3>. QED
      BY <3>1, <2>3, SubSeqFull
  <2>8. batch = <<>>
    BY <1>2 DEF TypeOK
  <2>9. batch \o q = q /\ Len(batch) = 0
    BY <2>8, ConcatEmptySeq, EmptySeq
  <2>10. flushing' <=> batch' # <<>>
    <3>1. batch' = <<>> <=> n = 0
      BY <2>5, EmptySeq
    <3>. HIDE DEF n
    <3>2. (n > 0) <=> n # 0
      BY <2>1, <2>2
    <3>. QED
      BY <3>1, <3>2, <2>3
  <2>11. Len(batch') + Len(queue') = Len(batch) + Len(q)
    <3>. HIDE DEF n
    <3>. QED
      BY <2>1, <2>2, <2>5, <2>6, <2>9
  <2>12. flushing' \in BOOLEAN
    BY <2>3
  <2>13. batch' \o queue' = batch \o q
    BY <2>7, <2>9
  <2>. QED
    BY <2>5, <2>6, <2>10, <2>11, <2>12, <2>13
<1>. QED
  BY <1>1, <1>2

(* A new arrival goes behind everything pending; nothing becomes durable.  *)
LEMMA EnqueueEffect ==
    ASSUME TypeOK, Enqueue
    PROVE  /\ TypeOK'
           /\ Pending' = Append(Pending, sent + 1)
           /\ Durable' = Durable
<1>. DEFINE q == Append(queue, sent + 1)
<1>1. /\ batch \in Seq(Entries) /\ queue \in Seq(Entries)
      /\ sent + 1 \in Entries
      /\ sent' = sent + 1 /\ sent' \in 0..MaxEntries
      /\ stored' = stored /\ failures' = failures
  BY UsageLogAssumption DEF TypeOK, Enqueue, Entries
<1>2. q \in Seq(Entries) /\ Len(q) = Len(queue) + 1
  BY <1>1, AppendProperties
<1>3. batch \o q = Append(Pending, sent + 1)
  <2>1. <<sent + 1>> \in Seq(Entries)
    BY <1>1
  <2>2. q = queue \o <<sent + 1>>
    BY <1>1, AppendIsConcat
  <2>3. batch \o (queue \o <<sent + 1>>) = (batch \o queue) \o <<sent + 1>>
    BY <1>1, <2>1, ConcatAssociative
  <2>4. Append(batch \o queue, sent + 1) = (batch \o queue) \o <<sent + 1>>
    <3>1. batch \o queue \in Seq(Entries)
      BY <1>1, ConcatProperties
    <3>. QED
      BY <3>1, <1>1, AppendIsConcat
  <2>. QED
    BY <2>2, <2>3, <2>4 DEF Pending
<1>4. /\ queue' \in Seq(Entries) /\ batch' \in Seq(Entries)
      /\ flushing' \in BOOLEAN /\ flushTimer' \in BOOLEAN
      /\ flushing' <=> batch' # <<>>
      /\ batch' \o queue' = batch \o q
      /\ Len(batch') + Len(queue') = Len(batch) + Len(q)
  <2>1. CASE FlushQueue(q) /\ flushTimer' = flushTimer
    <3>. HIDE DEF q
    <3>1. flushTimer' \in BOOLEAN
      BY <2>1 DEF TypeOK
    <3>. QED
      BY <2>1, <1>2, <3>1, FlushQueueSplits
  <2>2. CASE queue' = q /\ flushTimer' = TRUE /\ batch' = batch /\ flushing' = flushing
    <3>. HIDE DEF q
    <3>. QED
      BY <2>2, <1>1, <1>2 DEF TypeOK
  <2>. QED
    BY <2>1, <2>2 DEF Enqueue
<1>5. TypeOK'
  <2>1. stored' \in [Entries -> Nat] /\ failures' \in 0..MaxFailures
    BY <1>1 DEF TypeOK
  <2>. QED
    BY <1>1, <1>4, <2>1 DEF TypeOK, Entries
<1>6. Durable' = Durable
  <2>1. /\ Len(batch) \in Nat /\ Len(queue) \in Nat
        /\ Len(batch') \in Nat /\ Len(queue') \in Nat /\ sent \in Int
    BY <1>1, <1>4, LenProperties DEF TypeOK
  <2>2. /\ Len(batch') + Len(queue') = Len(batch) + Len(q)
        /\ Len(q) = Len(queue) + 1
        /\ sent' = sent + 1
    BY <1>1, <1>2, <1>4
  <2>. HIDE DEF q
  <2>. QED
    BY <2>1, <2>2 DEF Durable
<1>. QED
  BY <1>3, <1>4, <1>5, <1>6 DEF Pending

(* Starting a flush, at a tick or at a shutdown, changes nothing that      *)
(* counts.                                                                 *)
LEMMA FlushEffect ==
    ASSUME TypeOK, FlushQueue(queue), UNCHANGED <<flushTimer, sent, stored, failures>>
    PROVE  /\ TypeOK'
           /\ Pending' = Pending
           /\ Durable' = Durable
<1>1. queue \in Seq(Entries) /\ batch \in Seq(Entries)
  BY DEF TypeOK
<1>2. /\ queue' \in Seq(Entries) /\ batch' \in Seq(Entries)
      /\ flushing' \in BOOLEAN
      /\ flushing' <=> batch' # <<>>
      /\ batch' \o queue' = batch \o queue
      /\ Len(batch') + Len(queue') = Len(batch) + Len(queue)
  BY <1>1, FlushQueueSplits
<1>3. TypeOK'
  BY <1>2 DEF TypeOK, Entries
<1>4. Durable' = Durable
  <2>1. /\ Len(batch) \in Nat /\ Len(queue) \in Nat
        /\ Len(batch') \in Nat /\ Len(queue') \in Nat /\ sent \in Int
    BY <1>1, <1>2, LenProperties DEF TypeOK
  <2>2. Len(batch') + Len(queue') = Len(batch) + Len(queue) /\ sent' = sent
    BY <1>2
  <2>. QED
    BY <2>1, <2>2 DEF Durable
<1>. QED
  BY <1>2, <1>3, <1>4 DEF Pending

(* A successful insert makes the batch durable.                            *)
LEMMA SuccessEffect ==
    ASSUME TypeOK, InsertSucceeds
    PROVE  /\ TypeOK'
           /\ Pending' = queue
           /\ Durable' = Durable + Len(batch)
           /\ Len(batch) > 0
           /\ stored' = Store(InFlight)
           /\ UNCHANGED <<sent, failures>>
<1>1. /\ queue \in Seq(Entries) /\ batch \in Seq(Entries)
      /\ batch # <<>>
      /\ Len(queue) \in Nat /\ Len(batch) \in Nat /\ sent \in Int
  BY LenProperties DEF TypeOK, InsertSucceeds
<1>2. /\ queue' = queue /\ batch' = <<>> /\ flushing' = FALSE
      /\ flushTimer' \in BOOLEAN
      /\ stored' = Store(InFlight)
      /\ UNCHANGED <<sent, failures>>
  BY DEF TypeOK, InsertSucceeds, EndFlush
<1>3. <<>> \in Seq(Entries) /\ Len(<<>>) = 0 /\ <<>> \o queue = queue
  BY <1>1, ConcatEmptySeq, EmptySeq
<1>4. Store(InFlight) \in [Entries -> Nat]
  BY DEF TypeOK, Store
<1>5. TypeOK'
  BY <1>1, <1>2, <1>3, <1>4 DEF TypeOK, Entries
<1>6. Pending' = queue
  BY <1>2, <1>3 DEF Pending
<1>7. Durable' = Durable + Len(batch)
  BY <1>1, <1>2, <1>3 DEF Durable
<1>8. Len(batch) > 0
  BY <1>1, EmptySeq
<1>. QED
  BY <1>2, <1>5, <1>6, <1>7, <1>8

(* A failed insert puts the batch back and may leave copies behind.        *)
LEMMA FailureEffect ==
    ASSUME TypeOK, InsertFails
    PROVE  /\ TypeOK'
           /\ Pending' = Pending
           /\ Durable' = Durable
           /\ failures' = failures + 1
           /\ \E written \in SUBSET InFlight : stored' = Store(written)
           /\ UNCHANGED sent
<1>1. /\ queue \in Seq(Entries) /\ batch \in Seq(Entries)
      /\ Len(queue) \in Nat /\ Len(batch) \in Nat /\ sent \in Int
  BY LenProperties DEF TypeOK
<1>2. /\ queue' = batch \o queue /\ batch' = <<>> /\ flushing' = FALSE
      /\ flushTimer' \in BOOLEAN
      /\ failures' = failures + 1 /\ failures' \in 0..MaxFailures
      /\ sent' = sent
  BY UsageLogAssumption DEF TypeOK, InsertFails, EndFlush, Requeue
<1>3. PICK written \in SUBSET InFlight : stored' = Store(written)
  BY DEF InsertFails
<1>4. /\ batch \o queue \in Seq(Entries)
      /\ Len(batch \o queue) = Len(batch) + Len(queue)
  BY <1>1, ConcatProperties
<1>5. /\ <<>> \in Seq(Entries) /\ Len(<<>>) = 0
      /\ <<>> \o (batch \o queue) = batch \o queue
  BY <1>4, ConcatEmptySeq, EmptySeq
<1>6. stored' \in [Entries -> Nat]
  BY <1>3 DEF TypeOK, Store
<1>7. TypeOK'
  BY <1>2, <1>4, <1>5, <1>6 DEF TypeOK, Entries
<1>8. Pending' = Pending
  BY <1>2, <1>5 DEF Pending
<1>9. Durable' = Durable
  BY <1>1, <1>2, <1>4, <1>5 DEF Durable
<1>. QED
  BY <1>2, <1>3, <1>7, <1>8, <1>9

(* The batch in flight is the stretch of entries just after the durable    *)
(* prefix.                                                                 *)
LEMMA BatchIsNext ==
    ASSUME TypeOK, PendingInOrder, NEW e \in Entries
    PROVE  e \in InFlight <=> e \in (Durable + 1)..(Durable + Len(batch))
<1>1. \A i \in 1..Len(batch) : batch[i] = Durable + i
  BY PendingFacts DEF PendingInOrder
<1>2. Durable \in Int /\ Len(batch) \in Nat /\ e \in Int
  BY PendingFacts, UsageLogAssumption DEF Entries
<1>3. CASE e \in (Durable + 1)..(Durable + Len(batch))
  <2>. DEFINE i == e - Durable
  <2>1. i \in 1..Len(batch) /\ e = Durable + i
    BY <1>2, <1>3
  <2>. HIDE DEF i
  <2>. QED
    BY <1>1, <1>3, <2>1 DEF InFlight
<1>4. CASE e \in InFlight
  BY <1>1, <1>2, <1>4 DEF InFlight
<1>. QED
  BY <1>3, <1>4

LEMMA InitDurable == Init => Durable = 0
<1>1. Init => Durable = 0 - Len(<<>>) - Len(<<>>)
  BY DEF Init, Durable
<1>. QED
  BY <1>1, EmptySeq

LEMMA InitIInv == Init => IInv
<1>. SUFFICES ASSUME Init PROVE IInv
  OBVIOUS
<1>1. <<>> \in Seq(Entries) /\ Len(<<>>) = 0 /\ <<>> \o <<>> = <<>>
  BY EmptySeq, ConcatEmptySeq
<1>2. TypeOK
  <2>1. sent \in 0..MaxEntries /\ failures \in 0..MaxFailures
    BY UsageLogAssumption DEF Init
  <2>2. stored \in [Entries -> Nat]
    BY DEF Init
  <2>. QED
    BY <1>1, <2>1, <2>2 DEF Init, TypeOK
<1>3. Len(Pending) = 0 /\ Durable = 0
  <2>1. Pending = <<>>
    BY <1>1 DEF Init, Pending
  <2>. QED
    BY <1>1, <2>1, InitDurable
<1>4. PendingInOrder /\ NothingLost
  BY <1>3 DEF PendingInOrder, NothingLost
<1>5. CopiesBounded
  BY <1>3 DEF CopiesBounded, Init
<1>. QED
  BY <1>2, <1>4, <1>5 DEF IInv

LEMMA EnqueueIInv == IInv /\ Enqueue => IInv'
<1>. SUFFICES ASSUME IInv, Enqueue PROVE IInv'
  OBVIOUS
<1>1. /\ TypeOK'
      /\ Pending' = Append(Pending, sent + 1)
      /\ Durable' = Durable
      /\ UNCHANGED <<stored, failures>>
  BY EnqueueEffect DEF IInv, Enqueue
<1>2. PendingInOrder'
  <2>1. /\ Pending \in Seq(Entries)
        /\ Len(Pending) \in Nat
        /\ Durable = sent - Len(Pending) /\ sent \in Int
    BY PendingFacts, LenProperties DEF IInv
  <2>2. /\ Len(Append(Pending, sent + 1)) = Len(Pending) + 1
        /\ \A i \in 1..Len(Pending) : Append(Pending, sent + 1)[i] = Pending[i]
        /\ Append(Pending, sent + 1)[Len(Pending) + 1] = sent + 1
    <3>1. sent + 1 \in Entries
      BY UsageLogAssumption DEF IInv, TypeOK, Enqueue, Entries
    <3>. QED
      BY <2>1, <3>1, AppendProperties
  <2>3. \A i \in 1..(Len(Pending) + 1) :
            Append(Pending, sent + 1)[i] = Durable + i
    <3>1. TAKE i \in 1..(Len(Pending) + 1)
    <3>2. CASE i \in 1..Len(Pending)
      BY <2>2, <3>2 DEF IInv, PendingInOrder
    <3>3. CASE i = Len(Pending) + 1
      BY <2>1, <2>2, <3>3
    <3>. QED
      BY <2>1, <3>1, <3>2, <3>3
  <2>. QED
    BY <1>1, <2>2, <2>3 DEF PendingInOrder
<1>3. NothingLost' /\ CopiesBounded'
  BY <1>1 DEF IInv, NothingLost, CopiesBounded, Entries
<1>. QED
  BY <1>1, <1>2, <1>3 DEF IInv

LEMMA FlushIInv ==
    IInv /\ FlushQueue(queue) /\ UNCHANGED <<flushTimer, sent, stored, failures>> => IInv'
<1>. SUFFICES ASSUME IInv, FlushQueue(queue), UNCHANGED <<flushTimer, sent, stored, failures>>
              PROVE  IInv'
  OBVIOUS
<1>1. TypeOK' /\ Pending' = Pending /\ Durable' = Durable
  BY FlushEffect DEF IInv
<1>2. PendingInOrder'
  BY <1>1 DEF IInv, PendingInOrder
<1>3. NothingLost' /\ CopiesBounded'
  BY <1>1 DEF IInv, NothingLost, CopiesBounded, Entries
<1>. QED
  BY <1>1, <1>2, <1>3 DEF IInv

LEMMA SuccessIInv == IInv /\ InsertSucceeds => IInv'
<1>. SUFFICES ASSUME IInv, InsertSucceeds PROVE IInv'
  OBVIOUS
<1>1. /\ TypeOK' /\ Pending' = queue
      /\ Durable' = Durable + Len(batch)
      /\ stored' = Store(InFlight)
      /\ UNCHANGED <<sent, failures>>
  BY SuccessEffect DEF IInv
<1>2. /\ Durable \in Int /\ Len(batch) \in Nat /\ Len(queue) \in Nat
      /\ sent \in 0..MaxEntries /\ failures \in Nat
      /\ Durable = sent - Len(batch) - Len(queue)
      /\ MaxEntries \in Nat
  BY PendingFacts, UsageLogAssumption DEF IInv, TypeOK, Durable
<1>3. \A e \in Entries : stored[e] \in Nat
  BY DEF IInv, TypeOK
<1>4. \A e \in Entries :
          e \in InFlight <=> e \in (Durable + 1)..(Durable + Len(batch))
  BY BatchIsNext DEF IInv
<1>5. PendingInOrder'
  <2>1. \A i \in 1..Len(queue) : queue[i] = Durable + Len(batch) + i
    <3>1. TAKE i \in 1..Len(queue)
    <3>2. /\ Pending[Len(batch) + i] = queue[i]
          /\ Len(batch) + i \in 1..Len(Pending)
      BY <1>2, <3>1, PendingFacts DEF IInv
    <3>3. Pending[Len(batch) + i] = Durable + (Len(batch) + i)
      BY <3>2 DEF IInv, PendingInOrder
    <3>. QED
      BY <1>2, <3>1, <3>2, <3>3
  <2>. QED
    BY <1>1, <2>1 DEF PendingInOrder
<1>6. NothingLost'
  <2>1. SUFFICES ASSUME NEW e \in 1..(Durable + Len(batch))
                 PROVE  stored'[e] >= 1
    BY <1>1 DEF NothingLost
  <2>2. e \in Entries /\ e \in Int
    BY <1>2 DEF Entries
  <2>3. CASE e \in 1..Durable
    <3>1. stored[e] >= 1
      BY <2>3 DEF IInv, NothingLost
    <3>. QED
      BY <1>1, <1>3, <2>2, <3>1 DEF Store
  <2>4. CASE e \in (Durable + 1)..(Durable + Len(batch))
    BY <1>1, <1>3, <1>4, <2>2, <2>4 DEF Store
  <2>. QED
    BY <1>2, <2>1, <2>2, <2>3, <2>4
<1>7. CopiesBounded'
  <2>1. SUFFICES ASSUME NEW e \in Entries
                 PROVE  stored'[e] <= failures
                          + (IF e \in 1..(Durable + Len(batch)) THEN 1 ELSE 0)
    BY <1>1 DEF CopiesBounded, Entries
  <2>2. stored[e] <= failures + (IF e \in 1..Durable THEN 1 ELSE 0)
    BY DEF IInv, CopiesBounded
  <2>3. e \in Nat \ {0}
    BY <1>2 DEF Entries
  <2>4. CASE e \in InFlight
    <3>1. stored'[e] = stored[e] + 1
      BY <1>1, <2>4 DEF Store
    <3>2. e \in (Durable + 1)..(Durable + Len(batch))
      BY <1>4, <2>4
    <3>. QED
      BY <1>2, <1>3, <2>2, <2>3, <3>1, <3>2
  <2>5. CASE e \notin InFlight
    <3>1. stored'[e] = stored[e]
      BY <1>1, <2>5 DEF Store
    <3>. QED
      BY <1>2, <1>3, <2>2, <2>3, <3>1
  <2>. QED
    BY <2>4, <2>5
<1>. QED
  BY <1>1, <1>5, <1>6, <1>7 DEF IInv

LEMMA FailureIInv == IInv /\ InsertFails => IInv'
<1>. SUFFICES ASSUME IInv, InsertFails PROVE IInv'
  OBVIOUS
<1>1. /\ TypeOK' /\ Pending' = Pending /\ Durable' = Durable
      /\ failures' = failures + 1
  BY FailureEffect DEF IInv
<1>2. PICK written \in SUBSET InFlight : stored' = Store(written)
  BY FailureEffect DEF IInv
<1>3. /\ failures \in Nat /\ Durable \in Int
      /\ \A e \in Entries : stored[e] \in Nat
  BY PendingFacts, UsageLogAssumption DEF IInv, TypeOK
<1>4. PendingInOrder'
  BY <1>1 DEF IInv, PendingInOrder
<1>5. \A e \in Entries : stored'[e] \in {stored[e], stored[e] + 1}
  BY <1>2 DEF Store
<1>6. NothingLost'
  <2>1. SUFFICES ASSUME NEW e \in 1..Durable PROVE stored'[e] >= 1
    BY <1>1 DEF NothingLost
  <2>2. e \in Entries
    BY PendingFacts, UsageLogAssumption DEF IInv, TypeOK, Durable, Entries
  <2>3. stored[e] >= 1
    BY DEF IInv, NothingLost
  <2>. QED
    BY <1>3, <1>5, <2>2, <2>3
<1>7. CopiesBounded'
  <2>1. SUFFICES ASSUME NEW e \in Entries
                 PROVE  stored'[e] <= failures + 1
                          + (IF e \in 1..Durable THEN 1 ELSE 0)
    BY <1>1 DEF CopiesBounded, Entries
  <2>2. stored[e] <= failures + (IF e \in 1..Durable THEN 1 ELSE 0)
    BY DEF IInv, CopiesBounded
  <2>. QED
    BY <1>3, <1>5, <2>2
<1>. QED
  BY <1>1, <1>4, <1>6, <1>7 DEF IInv

LEMMA StutterIInv == IInv /\ UNCHANGED vars => IInv'
<1>. SUFFICES ASSUME IInv, UNCHANGED vars PROVE IInv'
  OBVIOUS
<1>1. TypeOK'
  BY DEF IInv, TypeOK, vars, Entries
<1>2. Pending' = Pending /\ Durable' = Durable /\ UNCHANGED <<stored, failures>>
  BY DEF vars, Pending, Durable
<1>3. PendingInOrder' /\ NothingLost' /\ CopiesBounded'
  BY <1>2 DEF IInv, PendingInOrder, NothingLost, CopiesBounded, Entries
<1>. QED
  BY <1>1, <1>3 DEF IInv

(* IInv holds in every reachable state.                                    *)
THEOREM Invariance == Spec => []IInv
<1>1. IInv /\ [Next]_vars => IInv'
  BY EnqueueIInv, FlushIInv, SuccessIInv, FailureIInv, StutterIInv
     DEF Tick, Next, InsertSettles
<1>. QED
  BY <1>1, InitIInv, PTL DEF Spec

(* Every variable keeps its type, and a batch is in flight exactly while   *)
(* `flushing` is set.                                                      *)
THEOREM TypeCorrect == Spec => []TypeOK
<1>1. IInv => TypeOK
  BY DEF IInv
<1>. QED
  BY <1>1, Invariance, PTL

(* Arrival order survives every interleaving of enqueues, timer ticks and  *)
(* failing inserts: what is pending is the latest stretch of arrivals.     *)
THEOREM OrderKept == Spec => []PendingInOrder
<1>1. IInv => PendingInOrder
  BY DEF IInv
<1>. QED
  BY <1>1, Invariance, PTL

(* An entry that is no longer pending has been inserted.                   *)
THEOREM NoLoss == Spec => []NothingLost
<1>1. IInv => NothingLost
  BY DEF IInv
<1>. QED
  BY <1>1, Invariance, PTL

(* An entry has at most one copy per failed insert beyond its own.         *)
THEOREM FewCopies == Spec => []CopiesBounded
<1>1. IInv => CopiesBounded
  BY DEF IInv
<1>. QED
  BY <1>1, Invariance, PTL

(* With batches of two and more the interval is armed behind everything    *)
(* pending.                                                                *)
THEOREM TimerBehindPending == Spec => []TimerArmed
<1>1. Init => TimerArmed
  <2>1. <<>> \o <<>> = <<>>
    BY ConcatEmptySeq
  <2>. QED
    BY <2>1 DEF Init, TimerArmed, Pending
<1>2. TypeOK /\ TimerArmed /\ [Next]_vars => TimerArmed'
  <2>. SUFFICES ASSUME TypeOK, TimerArmed, [Next]_vars, FlushAt > 1, Pending' # <<>>
                PROVE  flushTimer'
    BY DEF TimerArmed
  <2>1. queue \in Seq(Entries) /\ batch \in Seq(Entries) /\ Len(queue) \in Nat
    BY LenProperties DEF TypeOK
  <2>2. queue # <<>> \/ batch # <<>> => flushTimer
    BY <2>1, ConcatEqualIffEmpty DEF TimerArmed, Pending
  <2>3. CASE Enqueue
    <3>1. CASE Len(Append(queue, sent + 1)) >= FlushAt /\ UNCHANGED flushTimer
      <4>1. Len(Append(queue, sent + 1)) = Len(queue) + 1
        <5>1. sent + 1 \in Entries
          BY <2>3, UsageLogAssumption DEF TypeOK, Enqueue, Entries
        <5>. QED
          BY <2>1, <5>1, AppendProperties
      <4>2. Len(queue) # 0
        BY <2>1, <3>1, <4>1, UsageLogAssumption
      <4>3. queue # <<>>
        BY <4>2, EmptySeq
      <4>. QED
        BY <2>2, <3>1, <4>3
    <3>2. CASE flushTimer' = TRUE
      BY <3>2
    <3>. QED
      BY <2>3, <3>1, <3>2 DEF Enqueue
  <2>4. CASE Tick
    BY <2>4 DEF Tick
  <2>5. CASE InsertSucceeds
    <3>1. Pending' = queue
      BY <2>5, SuccessEffect
    <3>2. flushTimer' = (flushTimer /\ queue # <<>>)
      BY <2>5 DEF InsertSucceeds, EndFlush
    <3>. QED
      BY <2>2, <3>1, <3>2
  <2>6. CASE InsertFails
    <3>1. Pending' = Pending
      BY <2>6, FailureEffect
    <3>2. flushTimer' = (flushTimer /\ Pending # <<>>)
      BY <2>6 DEF InsertFails, EndFlush, Requeue, Pending
    <3>. QED
      BY <3>1, <3>2 DEF TimerArmed
  <2>7. CASE UNCHANGED vars
    BY <2>7 DEF vars, Pending, TimerArmed
  <2>. QED
    BY <2>3, <2>4, <2>5, <2>6, <2>7 DEF Next, InsertSettles
<1>. QED
  BY <1>1, <1>2, TypeCorrect, PTL DEF Spec

(* The buffer implements the safety part of DurablePrefix: every step      *)
(* accepts one entry, makes the oldest pending ones durable, or stutters.  *)
THEOREM Refinement == Spec => Abstract!Safety
<1>1. Init => Abstract!Init
  BY InitDurable DEF Init, Abstract!Init
<1>2. TypeOK /\ [Next]_vars => [Abstract!Next]_<<sent, Durable>>
  <2>. SUFFICES ASSUME TypeOK, [Next]_vars
                PROVE  [Abstract!Next]_<<sent, Durable>>
    OBVIOUS
  <2>1. CASE Enqueue
    BY <2>1, EnqueueEffect DEF Enqueue, Abstract!Next, Abstract!Accept
  <2>2. CASE Tick
    BY <2>2, FlushEffect DEF Tick
  <2>3. CASE InsertSucceeds
    <3>1. /\ Durable' = Durable + Len(batch) /\ Len(batch) > 0
          /\ sent' = sent
      BY <2>3, SuccessEffect
    <3>2. /\ Durable \in Int /\ Len(batch) \in Nat /\ Len(queue) \in Nat
          /\ sent \in Int /\ Durable = sent - Len(batch) - Len(queue)
      BY PendingFacts DEF Durable
    <3>3. Durable' \in (Durable + 1)..sent
      BY <3>1, <3>2
    <3>. QED
      BY <3>1, <3>3 DEF Abstract!Next, Abstract!Persist
  <2>4. CASE InsertFails
    BY <2>4, FailureEffect
  <2>5. CASE UNCHANGED vars
    BY <2>5 DEF vars, Durable
  <2>. QED
    BY <2>1, <2>2, <2>3, <2>4, <2>5 DEF Next, InsertSettles
<1>. QED
  BY <1>1, <1>2, TypeCorrect, PTL DEF Spec, Abstract!Safety
=============================================================================
