---------------------------- MODULE QueueProofs ----------------------------
(***************************************************************************)
(* Proofs about SPSCQueue for every capacity, every set of items and every *)
(* number of pushes: the queue's invariant, freedom from data races, that  *)
(* refusals are justified, and that the queue implements FifoChannel.      *)
(* Then the hand-off of run_threaded, for every replay: the queue's         *)
(* invariant is reused, as each step of the two threads is a step of the    *)
(* queue, leaves it alone, or lets the consumer see more of it.            *)
(***************************************************************************)
EXTENDS ThreadedPipeline, NumberLemmas

-----------------------------------------------------------------------------
(* The ring's positions, as the rest of the proof uses them.  Slot and next *)
(* stay unexpanded below these lemmas.                                     *)

LEMMA StorageSizeType == Capacity \in Nat \ {0} /\ StorageSize \in Nat \ {0}
  BY QueueAssumption DEF StorageSize

(* Every count has a slot. *)
LEMMA SlotType == \A k \in Nat : Slot(k) \in Slots
  <1>1. \A k \in Nat : k % StorageSize \in 0 .. (StorageSize - 1)
    BY StorageSizeType
  <1> QED BY <1>1, StorageSizeType DEF Slot, Slots, StorageSize

(* next(index) moves an index to the slot of the next count. *)
LEMMA SlotNext == \A k \in Nat : next(Slot(k)) = Slot(k + 1)
  BY StorageSizeType, ModNext DEF Slot, next

LEMMA SlotZero == Slot(0) = 0
  <1>1. (StorageSize * 0 + 0) % StorageSize = 0
    BY StorageSizeType, ModUnique
  <1> QED BY <1>1, StorageSizeType DEF Slot

(* Two counts at most Capacity apart share no slot. *)
LEMMA SlotDistinct ==
    ASSUME NEW a \in Nat, NEW b \in Nat, a <= b, b <= a + Capacity, Slot(a) = Slot(b)
    PROVE  a = b
  BY StorageSizeType, ModWindow DEF Slot, StorageSize

(* The test of push and full(): the next slot is head exactly when Capacity *)
(* items separate the two counts.                                          *)
LEMMA FullTest ==
    ASSUME NEW n \in Nat, NEW t \in Nat, n <= t, t <= n + Capacity
    PROVE  next(Slot(t)) = Slot(n) <=> t = n + Capacity
  <1>1. next(Slot(t)) = Slot(t + 1)
    BY SlotNext
  <1>2. CASE t = n + Capacity
    <2>1. t + 1 = n + StorageSize
      BY <1>2, StorageSizeType DEF StorageSize
    <2> QED BY <2>1, <1>1, <1>2, StorageSizeType, ModPeriod DEF Slot
  <1>3. CASE t < n + Capacity
    <2>1. t + 1 \in Nat /\ n <= t + 1 /\ t + 1 <= n + Capacity /\ n # t + 1
      BY <1>3, StorageSizeType
    <2>2. Slot(n) # Slot(t + 1)
      BY <2>1, SlotDistinct
    <2> QED BY <2>2, <1>1, <1>3, StorageSizeType
  <1> QED BY <1>2, <1>3, StorageSizeType

(* size_approx is exact for the two index values it was given. *)
LEMMA SizeTest ==
    ASSUME NEW n \in Nat, NEW t \in Nat, n <= t, t <= n + Capacity
    PROVE  size_approx(Slot(n), Slot(t)) = t - n
  <1>1. t < n + StorageSize
    BY StorageSizeType DEF StorageSize
  <1>2. t - n = IF t % StorageSize >= n % StorageSize
                THEN (t % StorageSize) - (n % StorageSize)
                ELSE StorageSize - (n % StorageSize) + (t % StorageSize)
    BY <1>1, StorageSizeType, ModDistance
  <1> QED BY <1>2 DEF size_approx, Slot

-----------------------------------------------------------------------------
IInv == QueueTypeOK /\ QueueInv

LEMMA InitIInv == QueueInit => IInv
  <1> SUFFICES ASSUME QueueInit PROVE IInv
    OBVIOUS
  <1>1. QueueTypeOK
    BY StorageSizeType DEF QueueInit, QueueTypeOK, Slots
  <1>2. Len(pushed) = 0 /\ Len(popped) = 0 /\ Len(head) = 1 /\ Len(tail) = 1
    BY DEF QueueInit
  <1>3. Indices
    BY <1>2, SlotZero DEF QueueInit, Indices
  <1>4. Views /\ ProducerOK /\ ConsumerOK /\ Contents /\ Delivered /\ Hints
    BY <1>2, StorageSizeType DEF QueueInit, Views, ProducerOK, ConsumerOK, Contents, Delivered, Hints
  <1> QED BY <1>1, <1>3, <1>4 DEF IInv, QueueInv

(* What a thread's view of the other index means for the index it loads. *)
LEMMA LoadedHead ==
    ASSUME IInv, NEW n \in headAcq .. Len(popped)
    PROVE  /\ n \in Nat /\ n <= Len(pushed) /\ Len(pushed) <= n + Capacity
           /\ head[n + 1] = Slot(n) /\ Current(tail) = Slot(Len(pushed))
           /\ Len(pushed) \in Nat /\ Len(popped) \in Nat
  BY StorageSizeType DEF IInv, QueueTypeOK, QueueInv, Views, Indices, Current

LEMMA LoadedTail ==
    ASSUME IInv, NEW n \in tailAcq .. Len(pushed)
    PROVE  /\ n \in Nat /\ Len(popped) <= n /\ n <= Len(popped) + Capacity
           /\ tail[n + 1] = Slot(n) /\ Current(head) = Slot(Len(popped))
           /\ Len(pushed) \in Nat /\ Len(popped) \in Nat
  BY StorageSizeType DEF IInv, QueueTypeOK, QueueInv, Views, Indices, Current

-----------------------------------------------------------------------------
(* One lemma per action.  Each conjunct of the invariant the action can     *)
(* disturb has a step of its own.                                          *)

LEMMA PushCallPreserves ==
    ASSUME IInv, NEW v \in Values, PushCall(v) PROVE IInv'
  <1> USE DEF PushCall, consumerVars
  <1>1. Current(tail) = Slot(Len(pushed)) /\ Current(tail) \in Slots
    BY SlotType DEF IInv, QueueTypeOK, QueueInv, Indices, Current
  <1>2. QueueTypeOK'
    BY <1>1 DEF IInv, QueueTypeOK
  <1>3. ProducerOK'
    BY <1>1 DEF IInv, QueueInv, ProducerOK
  <1>4. Indices' /\ Views' /\ Contents' /\ Delivered' /\ Hints'
    BY DEF IInv, QueueInv, Indices, Views, Contents, Delivered, Hints
  <1>5. ConsumerOK'
    BY DEF IInv, QueueInv, ConsumerOK
  <1> QED BY <1>2, <1>3, <1>4, <1>5 DEF IInv, QueueInv

LEMMA PushFullPreserves ==
    ASSUME IInv, NEW n \in headAcq .. Len(popped), PushFull(n) PROVE IInv'
  <1> USE DEF PushFull, LoadHeadAcquire, consumerVars
  <1>1. n \in Nat /\ n >= headAcq /\ n <= Len(popped) /\ Len(pushed) <= n + Capacity
    BY LoadedHead DEF IInv, QueueTypeOK
  <1>2. QueueTypeOK'
    BY <1>1 DEF IInv, QueueTypeOK
  <1>3. Views'
    BY <1>1 DEF IInv, QueueTypeOK, QueueInv, Views
  <1>4. Hints' /\ ProducerOK'
    BY DEF IInv, QueueInv, Hints, ProducerOK
  <1>5. Indices' /\ Contents' /\ Delivered' /\ ConsumerOK'
    BY DEF IInv, QueueInv, Indices, Contents, Delivered, ConsumerOK
  <1> QED BY <1>2, <1>3, <1>4, <1>5 DEF IInv, QueueInv

LEMMA PushRoomPreserves ==
    ASSUME IInv, NEW n \in headAcq .. Len(popped), PushRoom(n) PROVE IInv'
  <1> USE DEF PushRoom, LoadHeadAcquire, consumerVars
  <1>1. /\ n \in Nat /\ n >= headAcq /\ n <= Len(popped)
        /\ n <= Len(pushed) /\ Len(pushed) <= n + Capacity /\ head[n + 1] = Slot(n)
    BY LoadedHead DEF IInv, QueueTypeOK
  <1>2. QueueTypeOK'
    BY <1>1 DEF IInv, QueueTypeOK
  <1>3. Views'
    BY <1>1 DEF IInv, QueueTypeOK, QueueInv, Views
  <1>4. ptail = Slot(Len(pushed)) /\ item \in Values
    BY DEF IInv, QueueInv, ProducerOK
  <1>5. Len(pushed) # n + Capacity
    BY <1>1, <1>4, FullTest DEF PushSeesFull, IInv, QueueTypeOK
  <1>6. ProducerOK'
    BY <1>1, <1>4, <1>5, StorageSizeType DEF ProducerOK, IInv, QueueTypeOK
  <1>7. Indices' /\ Contents' /\ Delivered' /\ ConsumerOK' /\ Hints'
    BY DEF IInv, QueueInv, Indices, Contents, Delivered, ConsumerOK, Hints
  <1> QED BY <1>2, <1>3, <1>6, <1>7 DEF IInv, QueueInv

(* The slot written is none of the slots that hold items. *)
LEMMA PushWritePreserves ==
    ASSUME IInv, PushWrite PROVE IInv'
  <1> USE DEF PushWrite, consumerVars
  <1>1. /\ ptail = Slot(Len(pushed)) /\ item \in Values /\ ptail \in Slots
        /\ Len(pushed) \in Nat /\ Len(popped) \in Nat
        /\ Len(pushed) < Len(popped) + Capacity /\ buffer' = [buffer EXCEPT ![ptail] = item]
    BY StorageSizeType DEF IInv, QueueTypeOK, QueueInv, ProducerOK, Views
  <1>2. QueueTypeOK'
    BY <1>1 DEF IInv, QueueTypeOK
  <1>3. ProducerOK'
    BY <1>1 DEF IInv, QueueTypeOK, QueueInv, ProducerOK
  <1>4. Contents'
    <2> SUFFICES ASSUME NEW k \in Len(popped) .. Len(pushed) - 1,
                        cpc = "release" => k # Len(popped)
                 PROVE  buffer'[Slot(k)] = pushed[k + 1]
      BY DEF Contents
    <2>1. k \in Nat /\ k <= Len(pushed) /\ Len(pushed) <= k + Capacity /\ k # Len(pushed)
      BY <1>1, StorageSizeType
    <2>2. Slot(k) # ptail /\ Slot(k) \in Slots
      BY <2>1, <1>1, SlotDistinct, SlotType
    <2>3. buffer[Slot(k)] = pushed[k + 1]
      BY DEF IInv, QueueInv, Contents
    <2> QED BY <2>2, <2>3, <1>1 DEF IInv, QueueTypeOK
  <1>5. Indices' /\ Views' /\ Delivered' /\ Hints' /\ ConsumerOK'
    BY DEF IInv, QueueInv, Indices, Views, Delivered, Hints, ConsumerOK
  <1> QED BY <1>2, <1>3, <1>4, <1>5 DEF IInv, QueueInv

LEMMA PushPublishPreserves ==
    ASSUME IInv, PushPublish PROVE IInv'
  <1>1. /\ ptail = Slot(Len(pushed)) /\ item \in Values /\ buffer[ptail] = item
        /\ Len(pushed) \in Nat /\ Len(popped) \in Nat /\ Len(pushed) < headAcq + Capacity
        /\ Len(popped) <= tailAcq /\ tailAcq <= Len(pushed) /\ tailAcq \in Nat
        /\ pushed \in Seq(Values) /\ tail \in Seq(Slots) /\ Len(tail) = Len(pushed) + 1
    BY DEF PushPublish, IInv, QueueTypeOK, QueueInv, ProducerOK, Views, Indices
  <1>2. next(ptail) = Slot(Len(pushed) + 1) /\ next(ptail) \in Slots
    BY <1>1, SlotNext, SlotType
  <1>3. /\ Len(pushed') = Len(pushed) + 1 /\ Len(tail') = Len(tail) + 1
        /\ pushed'[Len(pushed) + 1] = item /\ tail'[Len(tail) + 1] = next(ptail)
        /\ \A k \in 1 .. Len(pushed) : pushed'[k] = pushed[k]
        /\ \A k \in 1 .. Len(tail) : tail'[k] = tail[k]
    BY <1>1, <1>2 DEF PushPublish
  <1> USE DEF consumerVars
  <1>4. QueueTypeOK'
    BY <1>1, <1>2 DEF PushPublish, IInv, QueueTypeOK
  <1>5. Indices'
    <2>1. \A k \in 0 .. Len(pushed') : tail'[k + 1] = Slot(k)
      <3> TAKE k \in 0 .. Len(pushed')
      <3>1. CASE k = Len(pushed) + 1
        BY <3>1, <1>1, <1>2, <1>3
      <3>2. CASE k \in 0 .. Len(pushed)
        <4>1. k + 1 \in 1 .. Len(tail) /\ tail[k + 1] = Slot(k)
          BY <3>2, <1>1 DEF IInv, QueueInv, Indices
        <4> QED BY <4>1, <1>3
      <3> QED BY <3>1, <3>2, <1>1, <1>3
    <2> QED BY <2>1, <1>1, <1>3 DEF PushPublish, IInv, QueueInv, Indices
  <1>6. Views' /\ ProducerOK'
    BY <1>1, <1>3, StorageSizeType DEF PushPublish, IInv, QueueTypeOK, QueueInv, Views, ProducerOK
  <1>7. ConsumerOK'
    <2>1. cpc = "release" => Len(popped) + 1 \in 1 .. Len(pushed)
      BY <1>1 DEF IInv, QueueInv, ConsumerOK
    <2> QED BY <2>1, <1>3 DEF PushPublish, IInv, QueueInv, ConsumerOK
  <1>8. Delivered'
    <2>1. \A k \in 1 .. Len(popped) : k \in 1 .. Len(pushed) /\ popped[k] = pushed[k]
      BY <1>1 DEF IInv, QueueInv, Delivered
    <2> QED BY <2>1, <1>3 DEF PushPublish, Delivered
  <1>9. Contents'
    <2> SUFFICES ASSUME NEW k \in Len(popped) .. Len(pushed') - 1,
                        cpc = "release" => k # Len(popped)
                 PROVE  buffer[Slot(k)] = pushed'[k + 1]
      BY DEF PushPublish, Contents
    <2>1. CASE k = Len(pushed)
      BY <2>1, <1>1, <1>3
    <2>2. CASE k \in Len(popped) .. Len(pushed) - 1
      <3>1. k + 1 \in 1 .. Len(pushed)
        BY <2>2, <1>1
      <3>2. buffer[Slot(k)] = pushed[k + 1]
        BY <2>2 DEF IInv, QueueInv, Contents
      <3> QED BY <3>1, <3>2, <1>3
    <2> QED BY <2>1, <2>2, <1>1, <1>3
  <1>10. Hints'
    BY DEF PushPublish, IInv, QueueInv, Hints
  <1> QED BY <1>4, <1>5, <1>6, <1>7, <1>8, <1>9, <1>10 DEF IInv, QueueInv

LEMMA PopCallPreserves ==
    ASSUME IInv, PopCall PROVE IInv'
  <1> USE DEF PopCall, producerVars
  <1>1. Current(head) = Slot(Len(popped)) /\ Current(head) \in Slots
    BY SlotType DEF IInv, QueueTypeOK, QueueInv, Indices, Current
  <1>2. QueueTypeOK'
    BY <1>1 DEF IInv, QueueTypeOK
  <1>3. ConsumerOK'
    BY <1>1 DEF IInv, QueueInv, ConsumerOK
  <1>4. Indices' /\ Views' /\ Contents' /\ Delivered' /\ Hints'
    BY DEF IInv, QueueInv, Indices, Views, Contents, Delivered, Hints
  <1>5. ProducerOK'
    BY DEF IInv, QueueInv, ProducerOK
  <1> QED BY <1>2, <1>3, <1>4, <1>5 DEF IInv, QueueInv

LEMMA PopEmptyPreserves ==
    ASSUME IInv, NEW n \in tailAcq .. Len(pushed), PopEmpty(n) PROVE IInv'
  <1> USE DEF PopEmpty, LoadTailAcquire, producerVars
  <1>1. n \in Nat /\ n >= tailAcq /\ n <= Len(pushed) /\ Len(popped) <= n
    BY LoadedTail DEF IInv, QueueTypeOK
  <1>2. QueueTypeOK'
    BY <1>1 DEF IInv, QueueTypeOK
  <1>3. Views'
    BY <1>1 DEF IInv, QueueTypeOK, QueueInv, Views
  <1>4. Hints' /\ ConsumerOK' /\ Contents'
    BY DEF IInv, QueueInv, Hints, ConsumerOK, Contents
  <1>5. Indices' /\ Delivered' /\ ProducerOK'
    BY DEF IInv, QueueInv, Indices, Delivered, ProducerOK
  <1> QED BY <1>2, <1>3, <1>4, <1>5 DEF IInv, QueueInv

LEMMA PopItemPreserves ==
    ASSUME IInv, NEW n \in tailAcq .. Len(pushed), PopItem(n) PROVE IInv'
  <1> USE DEF PopItem, LoadTailAcquire, producerVars
  <1>1. /\ n \in Nat /\ n >= tailAcq /\ n <= Len(pushed)
        /\ Len(popped) <= n /\ tail[n + 1] = Slot(n)
    BY LoadedTail DEF IInv, QueueTypeOK
  <1>2. QueueTypeOK'
    BY <1>1 DEF IInv, QueueTypeOK
  <1>3. Views'
    BY <1>1 DEF IInv, QueueTypeOK, QueueInv, Views
  <1>4. chead = Slot(Len(popped)) /\ n # Len(popped)
    BY <1>1 DEF IInv, QueueInv, ConsumerOK, PopSeesEmpty
  <1>5. ConsumerOK'
    BY <1>1, <1>4 DEF ConsumerOK, IInv, QueueTypeOK
  <1>6. Indices' /\ Contents' /\ Delivered' /\ ProducerOK' /\ Hints'
    BY DEF IInv, QueueInv, Indices, Contents, Delivered, ProducerOK, Hints
  <1> QED BY <1>2, <1>3, <1>5, <1>6 DEF IInv, QueueInv

(* The read is ordered and hits no slot under write, so it is not a race    *)
(* and delivers the oldest item.                                           *)
LEMMA PopReadOrdered ==
    ASSUME IInv, cpc = "read"
    PROVE  ~ReadRaces /\ buffer[chead] = pushed[Len(popped) + 1]
  <1>1. /\ chead = Slot(Len(popped)) /\ Len(popped) \in Nat /\ Len(pushed) \in Nat
        /\ Len(popped) < tailAcq /\ tailAcq <= Len(pushed) /\ tailAcq \in Nat
        /\ headAcq <= Len(popped) /\ headAcq \in Nat
    BY DEF IInv, QueueTypeOK, QueueInv, ConsumerOK, Views
  <1>2. ASSUME ppc = "write", ptail = chead PROVE FALSE
    <2>1. ptail = Slot(Len(pushed)) /\ Len(pushed) < headAcq + Capacity
      BY <1>2 DEF IInv, QueueInv, ProducerOK
    <2>2. Len(popped) <= Len(pushed) /\ Len(pushed) <= Len(popped) + Capacity
      BY <1>1, <2>1, StorageSizeType
    <2>3. Len(popped) = Len(pushed)
      BY <1>1, <1>2, <2>1, <2>2, SlotDistinct
    <2> QED BY <1>1, <2>3
  <1>3. buffer[Slot(Len(popped))] = pushed[Len(popped) + 1]
    <2>1. Len(popped) \in Len(popped) .. Len(pushed) - 1
      BY <1>1
    <2> QED BY <2>1 DEF IInv, QueueInv, Contents
  <1> QED BY <1>1, <1>2, <1>3 DEF ReadRaces, ReadIsOrdered

LEMMA PopReadPreserves ==
    ASSUME IInv, PopRead PROVE IInv'
  <1>1. /\ chead = Slot(Len(popped)) /\ chead \in Slots
        /\ Len(popped) \in Nat /\ Len(pushed) \in Nat
        /\ Len(popped) < Len(pushed) /\ Len(pushed) <= Len(popped) + Capacity
    BY StorageSizeType DEF PopRead, IInv, QueueTypeOK, QueueInv, ConsumerOK, Views
  <1>2. ~ReadRaces /\ buffer[chead] = pushed[Len(popped) + 1]
    BY PopReadOrdered DEF PopRead
  <1>3. PICK left \in {buffer[chead], NoValue} :
                buffer' = [buffer EXCEPT ![chead] = left]
    BY DEF PopRead
  <1>4. out' = buffer[chead] /\ cpc = "read" /\ cpc' = "release"
    BY <1>2 DEF PopRead
  <1>5. UNCHANGED <<head, tail, chead, tailAcq, cHint, ppc, item, ptail, headAcq,
                    pHint, pushed, popped>>
    BY DEF PopRead, producerVars
  <1>6. QueueTypeOK'
    BY <1>1, <1>3, <1>4, <1>5 DEF IInv, QueueTypeOK
  <1>7. ConsumerOK'
    BY <1>2, <1>4, <1>5 DEF IInv, QueueInv, ConsumerOK
  <1>8. ProducerOK'
    <2>1. ASSUME ppc = "publish" PROVE ptail # chead /\ ptail \in Slots
      <3>1. ptail = Slot(Len(pushed))
        BY <2>1 DEF IInv, QueueInv, ProducerOK
      <3>2. Len(popped) <= Len(pushed) /\ Len(popped) # Len(pushed)
        BY <1>1
      <3> QED BY <3>1, <3>2, <1>1, SlotDistinct, SlotType
    <2> QED BY <2>1, <1>1, <1>3, <1>5 DEF IInv, QueueTypeOK, QueueInv, ProducerOK
  <1>9. Contents'
    <2> SUFFICES ASSUME NEW k \in Len(popped) .. Len(pushed) - 1, k # Len(popped)
                 PROVE  buffer'[Slot(k)] = pushed[k + 1]
      BY <1>4, <1>5 DEF Contents
    <2>1. k \in Nat /\ Len(popped) <= k /\ k <= Len(popped) + Capacity
      BY <1>1, StorageSizeType
    <2>2. Slot(k) # chead /\ Slot(k) \in Slots
      BY <2>1, <1>1, SlotDistinct, SlotType
    <2>3. buffer[Slot(k)] = pushed[k + 1]
      BY DEF IInv, QueueInv, Contents
    <2> QED BY <2>2, <2>3, <1>1, <1>3 DEF IInv, QueueTypeOK
  <1>10. Indices' /\ Views' /\ Delivered'
    BY <1>5 DEF IInv, QueueInv, Indices, Views, Delivered
  <1>11. Hints'
    BY <1>4, <1>5 DEF IInv, QueueInv, Hints
  <1> QED BY <1>6, <1>7, <1>8, <1>9, <1>10, <1>11 DEF IInv, QueueInv

LEMMA PopReleasePreserves ==
    ASSUME IInv, PopRelease PROVE IInv'
  <1>1. /\ chead = Slot(Len(popped)) /\ out = pushed[Len(popped) + 1]
        /\ Len(pushed) \in Nat /\ Len(popped) \in Nat
        /\ Len(popped) < tailAcq /\ tailAcq <= Len(pushed) /\ tailAcq \in Nat
        /\ popped \in Seq(Values \cup {NoValue}) /\ out \in Values \cup {NoValue}
        /\ head \in Seq(Slots) /\ Len(head) = Len(popped) + 1
    BY DEF PopRelease, IInv, QueueTypeOK, QueueInv, ConsumerOK, Views, Indices
  <1>2. next(chead) = Slot(Len(popped) + 1) /\ next(chead) \in Slots
    BY <1>1, SlotNext, SlotType
  <1>3. /\ Len(popped') = Len(popped) + 1 /\ Len(head') = Len(head) + 1
        /\ popped'[Len(popped) + 1] = out /\ head'[Len(head) + 1] = next(chead)
        /\ \A k \in 1 .. Len(popped) : popped'[k] = popped[k]
        /\ \A k \in 1 .. Len(head) : head'[k] = head[k]
    BY <1>1, <1>2 DEF PopRelease
  <1>4. /\ cpc = "release" /\ cpc' = "idle"
        /\ UNCHANGED <<buffer, tail, out, chead, tailAcq, cHint, ppc, item, ptail,
                       headAcq, pHint, pushed>>
    BY DEF PopRelease, producerVars
  <1>5. QueueTypeOK'
    BY <1>1, <1>2, <1>4 DEF PopRelease, IInv, QueueTypeOK
  <1>6. Indices'
    <2>1. \A k \in 0 .. Len(popped') : head'[k + 1] = Slot(k)
      <3> TAKE k \in 0 .. Len(popped')
      <3>1. CASE k = Len(popped) + 1
        BY <3>1, <1>1, <1>2, <1>3
      <3>2. CASE k \in 0 .. Len(popped)
        <4>1. k + 1 \in 1 .. Len(head) /\ head[k + 1] = Slot(k)
          BY <3>2, <1>1 DEF IInv, QueueInv, Indices
        <4> QED BY <4>1, <1>3
      <3> QED BY <3>1, <3>2, <1>1, <1>3
    <2> QED BY <2>1, <1>1, <1>3, <1>4 DEF IInv, QueueInv, Indices
  <1>7. Views' /\ ConsumerOK'
    BY <1>1, <1>3, <1>4 DEF IInv, QueueTypeOK, QueueInv, Views, ConsumerOK
  <1>8. ProducerOK' /\ Hints'
    BY <1>4 DEF IInv, QueueInv, ProducerOK, Hints
  <1>9. Delivered'
    <2> SUFFICES ASSUME NEW k \in 1 .. Len(popped') PROVE popped'[k] = pushed[k]
      BY <1>4 DEF Delivered
    <2>1. CASE k = Len(popped) + 1
      BY <2>1, <1>1, <1>3
    <2>2. CASE k \in 1 .. Len(popped)
      BY <2>2, <1>3 DEF IInv, QueueInv, Delivered
    <2> QED BY <2>1, <2>2, <1>1, <1>3
  <1>10. Contents'
    <2> SUFFICES ASSUME NEW k \in Len(popped') .. Len(pushed) - 1
                 PROVE  buffer[Slot(k)] = pushed[k + 1]
      BY <1>4 DEF Contents
    <2>1. k \in Len(popped) .. Len(pushed) - 1 /\ k # Len(popped)
      BY <1>1, <1>3
    <2> QED BY <2>1 DEF IInv, QueueInv, Contents
  <1> QED BY <1>5, <1>6, <1>7, <1>8, <1>9, <1>10 DEF IInv, QueueInv

LEMMA ProducerAsksPreserves ==
    ASSUME IInv, NEW n \in headAcq .. Len(popped), ProducerAsks(n) PROVE IInv'
  <1>1. /\ n \in Nat /\ n >= headAcq /\ n <= Len(popped) /\ n <= Len(pushed)
        /\ Len(pushed) <= n + Capacity /\ head[n + 1] = Slot(n)
        /\ Current(tail) = Slot(Len(pushed)) /\ Len(pushed) \in Nat
    BY LoadedHead DEF IInv, QueueTypeOK
  <1>2. /\ next(Slot(Len(pushed))) = Slot(n) <=> Len(pushed) = n + Capacity
        /\ size_approx(Slot(n), Slot(Len(pushed))) = Len(pushed) - n
    BY <1>1, FullTest, SizeTest
  <1>3. /\ headAcq' = n /\ ppc = "idle" /\ ppc' = "idle"
        /\ pHint' \in {"room", "full"}
        /\ UNCHANGED <<buffer, head, tail, item, ptail, cpc, out, chead, tailAcq,
                       cHint, pushed, popped>>
    BY DEF ProducerAsks, LoadHeadAcquire, consumerVars
  <1>4. pHint' = "room" => Len(pushed) < n + Capacity
    <2>1. PICK room \in {next(Slot(Len(pushed))) # Slot(n),
                         size_approx(Slot(n), Slot(Len(pushed))) < Capacity} :
                  pHint' = IF room THEN "room" ELSE "full"
      BY <1>1 DEF ProducerAsks
    <2>2. pHint' = "room" => \/ next(Slot(Len(pushed))) # Slot(n)
                             \/ size_approx(Slot(n), Slot(Len(pushed))) < Capacity
      BY <2>1, Zenon
    <2> QED BY <2>2, <1>1, <1>2, StorageSizeType
  <1>5. QueueTypeOK'
    BY <1>1, <1>3 DEF IInv, QueueTypeOK
  <1>6. Views' /\ Hints'
    BY <1>1, <1>3, <1>4 DEF IInv, QueueTypeOK, QueueInv, Views, Hints
  <1>7. Indices' /\ ProducerOK' /\ ConsumerOK' /\ Contents' /\ Delivered'
    BY <1>3 DEF IInv, QueueInv, Indices, ProducerOK, ConsumerOK, Contents, Delivered
  <1> QED BY <1>5, <1>6, <1>7 DEF IInv, QueueInv

LEMMA ConsumerAsksPreserves ==
    ASSUME IInv, NEW n \in tailAcq .. Len(pushed), ConsumerAsks(n) PROVE IInv'
  <1>1. /\ n \in Nat /\ n >= tailAcq /\ n <= Len(pushed) /\ Len(popped) <= n
        /\ n <= Len(popped) + Capacity /\ tail[n + 1] = Slot(n)
        /\ Current(head) = Slot(Len(popped)) /\ Len(popped) \in Nat
    BY LoadedTail DEF IInv, QueueTypeOK
  <1>2. size_approx(Slot(Len(popped)), Slot(n)) = n - Len(popped)
    BY <1>1, SizeTest
  <1>3. /\ tailAcq' = n /\ cpc = "idle" /\ cpc' = "idle"
        /\ cHint' \in {"item", "empty"}
        /\ UNCHANGED <<buffer, head, tail, out, chead, ppc, item, ptail, headAcq,
                       pHint, pushed, popped>>
    BY DEF ConsumerAsks, LoadTailAcquire, producerVars
  <1>4. cHint' = "item" => Len(popped) < n
    <2>1. PICK some \in {Slot(Len(popped)) # Slot(n),
                         size_approx(Slot(Len(popped)), Slot(n)) > 0} :
                  cHint' = IF some THEN "item" ELSE "empty"
      BY <1>1 DEF ConsumerAsks
    <2>2. cHint' = "item" => \/ Slot(Len(popped)) # Slot(n)
                             \/ size_approx(Slot(Len(popped)), Slot(n)) > 0
      BY <2>1, Zenon
    <2> QED BY <2>2, <1>1, <1>2
  <1>5. QueueTypeOK'
    BY <1>1, <1>3 DEF IInv, QueueTypeOK
  <1>6. Views' /\ Hints'
    BY <1>1, <1>3, <1>4 DEF IInv, QueueTypeOK, QueueInv, Views, Hints
  <1>7. Indices' /\ ProducerOK' /\ ConsumerOK' /\ Contents' /\ Delivered'
    BY <1>3 DEF IInv, QueueInv, Indices, ProducerOK, ConsumerOK, Contents, Delivered
  <1> QED BY <1>5, <1>6, <1>7 DEF IInv, QueueInv

LEMMA StepPreserves == IInv /\ [QueueNext]_queueVars => IInv'
  <1> SUFFICES ASSUME IInv, [QueueNext]_queueVars PROVE IInv'
    OBVIOUS
  <1>1. CASE \E v \in Values : PushCall(v)
    BY <1>1, PushCallPreserves
  <1>2. CASE PushStep
    BY <1>2, PushFullPreserves, PushRoomPreserves, PushWritePreserves,
       PushPublishPreserves DEF PushStep
  <1>3. CASE PopCall
    BY <1>3, PopCallPreserves
  <1>4. CASE PopStep
    BY <1>4, PopEmptyPreserves, PopItemPreserves, PopReadPreserves,
       PopReleasePreserves DEF PopStep
  <1>5. CASE \E n \in headAcq .. Len(popped) : ProducerAsks(n)
    BY <1>5, ProducerAsksPreserves
  <1>6. CASE \E n \in tailAcq .. Len(pushed) : ConsumerAsks(n)
    BY <1>6, ConsumerAsksPreserves
  <1>7. CASE UNCHANGED queueVars
    BY <1>7 DEF queueVars, producerVars, consumerVars, IInv, QueueTypeOK, QueueInv,
       Indices, Views, ProducerOK, ConsumerOK, Contents, Delivered, Hints
  <1> QED BY <1>1, <1>2, <1>3, <1>4, <1>5, <1>6, <1>7 DEF QueueNext

-----------------------------------------------------------------------------
(* Type correctness of the queue: in particular push and pop never leave    *)
(* the storage array (indices of buffer_ stay within StorageSize).         *)
THEOREM QueueTypeCorrect == QueueSpec => []QueueTypeOK
  <1>1. IInv => QueueTypeOK
    BY DEF IInv
  <1> QED BY <1>1, InitIInv, StepPreserves, PTL DEF QueueSpec

(* The slots between head and tail always hold the published items in       *)
(* order, and what pop delivered is what push published.                   *)
THEOREM QueueInvariant == QueueSpec => []QueueInv
  <1>1. IInv => QueueInv
    BY DEF IInv
  <1> QED BY <1>1, InitIInv, StepPreserves, PTL DEF QueueSpec

(* push and pop never race on a slot: the acquire loads order every write   *)
(* after the pop that freed the slot, every read after the push that        *)
(* filled it.                                                              *)
THEOREM QueueRaceFree == QueueSpec => []NoDataRace
  <1>1. IInv => NoDataRace
    <2> SUFFICES ASSUME IInv PROVE NoDataRace
      OBVIOUS
    <2>1. cpc = "read" => ReadIsOrdered
      BY DEF IInv, QueueInv, ConsumerOK, ReadIsOrdered
    <2>2. ppc = "write" => WriteIsOrdered
      BY StorageSizeType
         DEF IInv, QueueTypeOK, QueueInv, ProducerOK, WriteIsOrdered, StorageSize
    <2> QED BY <2>1, <2>2 DEF NoDataRace
  <1> QED BY <1>1, InitIInv, StepPreserves, PTL DEF QueueSpec

(* push refuses only what fills the capacity in its view, pop only when its *)
(* view is drained, and neither after a query promised otherwise.          *)
THEOREM QueueRefusals == QueueSpec => RefusalsJustified
  <1> DEFINE Refusal == /\ ppc = "check" /\ ppc' = "idle" =>
                              pHint # "room" /\ Len(pushed) = headAcq' + Capacity
                        /\ cpc = "check" /\ cpc' = "idle" =>
                              cHint # "item" /\ Len(popped) = tailAcq'
  <1>1. IInv /\ [QueueNext]_queueVars => [Refusal]_queueVars
    <2> SUFFICES ASSUME IInv, QueueNext PROVE Refusal
      OBVIOUS
    <2>1. ASSUME NEW n \in headAcq .. Len(popped), PushFull(n) PROVE Refusal
      <3>1. /\ n \in Nat /\ n >= headAcq /\ n <= Len(pushed) /\ Len(pushed) \in Nat
            /\ Len(pushed) <= n + Capacity /\ head[n + 1] = Slot(n) /\ headAcq \in Nat
        BY LoadedHead DEF IInv, QueueTypeOK
      <3>2. ptail = Slot(Len(pushed))
        BY <2>1 DEF PushFull, IInv, QueueInv, ProducerOK
      <3>3. Len(pushed) = n + Capacity
        BY <2>1, <3>1, <3>2, FullTest DEF PushFull, PushSeesFull
      <3>4. pHint # "room"
        BY <3>1, <3>3, StorageSizeType DEF IInv, QueueInv, Hints
      <3>5. headAcq' = n /\ UNCHANGED cpc
        BY <2>1 DEF PushFull, LoadHeadAcquire, consumerVars
      <3> QED BY <3>3, <3>4, <3>5
    <2>2. ASSUME NEW n \in tailAcq .. Len(pushed), PopEmpty(n) PROVE Refusal
      <3>1. /\ n \in Nat /\ n >= tailAcq /\ Len(popped) <= n /\ tailAcq \in Nat
            /\ n <= Len(popped) + Capacity /\ tail[n + 1] = Slot(n)
            /\ Len(popped) \in Nat
        BY LoadedTail DEF IInv, QueueTypeOK
      <3>2. chead = Slot(Len(popped))
        BY <2>2 DEF PopEmpty, IInv, QueueInv, ConsumerOK
      <3>3. Len(popped) = n
        BY <2>2, <3>1, <3>2, SlotDistinct DEF PopEmpty, PopSeesEmpty
      <3>4. cHint # "item"
        BY <3>1, <3>3 DEF IInv, QueueInv, Hints
      <3>5. tailAcq' = n /\ UNCHANGED ppc
        BY <2>2 DEF PopEmpty, LoadTailAcquire, producerVars
      <3> QED BY <3>3, <3>4, <3>5
    <2>3. CASE \E v \in Values : PushCall(v)
      BY <2>3 DEF PushCall, consumerVars
    <2>4. CASE PushStep
      BY <2>1, <2>4 DEF PushStep, PushRoom, PushWrite, PushPublish, consumerVars
    <2>5. CASE PopCall
      BY <2>5 DEF PopCall, producerVars
    <2>6. CASE PopStep
      BY <2>2, <2>6 DEF PopStep, PopItem, PopRead, PopRelease, producerVars
    <2>7. CASE \E n \in headAcq .. Len(popped) : ProducerAsks(n)
      BY <2>7 DEF ProducerAsks, consumerVars
    <2>8. CASE \E n \in tailAcq .. Len(pushed) : ConsumerAsks(n)
      BY <2>8 DEF ConsumerAsks, producerVars
    <2> QED BY <2>3, <2>4, <2>5, <2>6, <2>7, <2>8 DEF QueueNext
  <1> QED BY <1>1, InitIInv, StepPreserves, PTL DEF QueueSpec, RefusalsJustified

(* The queue implements the bounded channel: the store to tail_ is Send,    *)
(* the store to head_ is Receive, every other step is invisible.           *)
THEOREM QueueImplementsChannel == QueueSpec => ImplementsChannel
  <1>1. QueueInit => Channel!ChanInit
    BY DEF QueueInit, Channel!ChanInit
  <1>2. IInv /\ [QueueNext]_queueVars => [Channel!ChanNext]_Channel!chanVars
    <2> SUFFICES ASSUME IInv, [QueueNext]_queueVars
                 PROVE  Channel!ChanNext \/ UNCHANGED <<pushed, popped>>
      BY DEF Channel!chanVars
    <2>1. CASE PushPublish
      <3>1. item \in Values /\ Len(pushed) < Len(popped) + Capacity
        BY <2>1, StorageSizeType
           DEF PushPublish, IInv, QueueTypeOK, QueueInv, ProducerOK, Views
      <3>2. Channel!Send(item)
        BY <2>1, <3>1 DEF PushPublish, Channel!Send
      <3> QED BY <3>1, <3>2 DEF Channel!ChanNext
    <2>2. CASE PopRelease
      <3>1. Len(popped) < Len(pushed) /\ out = pushed[Len(popped) + 1]
        BY <2>2 DEF PopRelease, IInv, QueueTypeOK, QueueInv, ConsumerOK, Views
      <3>2. Channel!Receive
        BY <2>2, <3>1 DEF PopRelease, Channel!Receive
      <3> QED BY <3>2 DEF Channel!ChanNext
    <2>3. CASE \E v \in Values : PushCall(v)
      BY <2>3 DEF PushCall
    <2>4. CASE PushStep
      BY <2>1, <2>4 DEF PushStep, PushFull, PushRoom, PushWrite
    <2>5. CASE PopCall
      BY <2>5 DEF PopCall
    <2>6. CASE PopStep
      BY <2>2, <2>6 DEF PopStep, PopEmpty, PopItem, PopRead
    <2>7. CASE \E n \in headAcq .. Len(popped) : ProducerAsks(n)
      BY <2>7 DEF ProducerAsks
    <2>8. CASE \E n \in tailAcq .. Len(pushed) : ConsumerAsks(n)
      BY <2>8 DEF ConsumerAsks
    <2>9. CASE UNCHANGED queueVars
      BY <2>9 DEF queueVars
    <2> QED BY <2>3, <2>4, <2>5, <2>6, <2>7, <2>8, <2>9 DEF QueueNext
  <1> QED BY <1>1, <1>2, InitIInv, StepPreserves, PTL
          DEF QueueSpec, ImplementsChannel, Channel!ChanSpec

-----------------------------------------------------------------------------
(* run_threaded. *)

(* How far each thread is in the stream. *)
ProducerProgress ==
    /\ Len(pushed) <= Len(Stream)
    /\ \A k \in 1 .. Len(pushed) : pushed[k] = Stream[k]
    /\ ppc # "idle" => Len(pushed) < Len(Stream) /\ item = Stream[Len(pushed) + 1]
    /\ producer_done => Len(pushed) = Len(Stream)

ConsumerProgress ==
    /\ loc # "pop" => cpc = "idle"
    /\ loc \in {"pop", "failed", "asking"} => Len(popped) = Len(consumed)
    /\ loc \in {"got", "exited"} => Len(popped) = Len(consumed) + 1
    /\ loc = "got" => out = popped[Len(popped)]
    /\ loc = "exited" => popped[Len(popped)] = Sentinel
    /\ loc = "asking" => producer_done /\ tailAcq = Len(pushed)
    /\ Len(consumed) <= Len(Events)
    /\ \A k \in 1 .. Len(consumed) : consumed[k] = Events[k]

PipeInv == PipeTypeOK /\ IInv /\ ProducerProgress /\ ConsumerProgress

-----------------------------------------------------------------------------
LEMMA StreamFacts ==
    /\ Len(Events) \in Nat /\ Len(Stream) = Len(Events) + 1 /\ Stream \in Seq(Values)
    /\ Stream[Len(Events) + 1] = Sentinel
    /\ \A k \in 1 .. Len(Events) : Stream[k] = Events[k]
    /\ \A k \in 1 .. Len(Stream) : Stream[k] \in Values
  BY PipelineAssumption DEF Stream

LEMMA InitPipeInv == PipeInit => PipeInv
  <1> SUFFICES ASSUME PipeInit PROVE PipeInv
    OBVIOUS
  <1>1. IInv
    BY InitIInv DEF PipeInit
  <1>2. PipeTypeOK
    <2>1. <<>> \in Seq(Values)
      OBVIOUS
    <2> QED BY <1>1, <2>1, Zenon DEF PipeInit, PipeTypeOK, IInv
  <1>3. ProducerProgress /\ ConsumerProgress
    BY StreamFacts DEF PipeInit, QueueInit, ProducerProgress, ConsumerProgress
  <1> QED BY <1>1, <1>2, <1>3 DEF PipeInv

(* The queue's invariant survives every step of the two threads. *)
LEMMA QueueUnderPipeline == PipeInv /\ [PipeNext]_pipeVars => IInv'
  <1> SUFFICES ASSUME PipeInv, [PipeNext]_pipeVars PROVE IInv'
    OBVIOUS
  <1>0. IInv
    BY DEF PipeInv
  <1>1. CASE ProducerPush
    <2>1. Stream[Len(pushed) + 1] \in Values
      <3>1. Len(pushed) + 1 \in 1 .. Len(Stream)
        BY <1>1, <1>0, StreamFacts DEF ProducerPush, IInv, QueueTypeOK
      <3> QED BY <3>1, StreamFacts
    <2> QED BY <1>0, <1>1, <2>1, PushCallPreserves DEF ProducerPush
  <1>2. CASE ProducerInPush
    BY <1>0, <1>2, PushFullPreserves, PushRoomPreserves, PushWritePreserves,
       PushPublishPreserves DEF ProducerInPush, PushStep
  <1>3. CASE ConsumerPop
    BY <1>0, <1>3, PopCallPreserves DEF ConsumerPop
  <1>4. CASE ConsumerInPop
    BY <1>0, <1>4, PopEmptyPreserves, PopItemPreserves, PopReadPreserves,
       PopReleasePreserves DEF ConsumerInPop, PopStep
  <1>5. CASE ConsumerAsksEmpty
    BY <1>0, <1>5, ConsumerAsksPreserves DEF ConsumerAsksEmpty
  <1>6. CASE ConsumerSeesDone
    <2> USE DEF ConsumerSeesDone, SyncWithProducer, producerVars
    <2>1. QueueTypeOK'
      BY <1>0, <1>6 DEF IInv, QueueTypeOK
    <2>2. Views' /\ ConsumerOK' /\ Hints'
      BY <1>0, <1>6 DEF IInv, QueueTypeOK, QueueInv, Views, ConsumerOK, Hints
    <2>3. Indices' /\ ProducerOK' /\ Contents' /\ Delivered'
      BY <1>0, <1>6 DEF IInv, QueueInv, Indices, ProducerOK, Contents, Delivered
    <2> QED BY <2>1, <2>2, <2>3 DEF IInv, QueueInv
  <1>7. CASE UNCHANGED queueVars
    BY <1>0, <1>7, StepPreserves
  <1> QED
    BY <1>1, <1>2, <1>3, <1>4, <1>5, <1>6, <1>7
       DEF PipeNext, Producer, Consumer, ProducerDone, ConsumerSeesRunning,
           ConsumerHandles, pipeVars

(* What the queue's steps do to the histories and the threads' positions. *)
LEMMA PushStepEffect ==
    ASSUME PushStep
    PROVE  /\ UNCHANGED <<popped, cpc, out, tailAcq, item>> /\ ppc # "idle"
           /\ \/ UNCHANGED pushed
              \/ ppc' = "idle" /\ pushed' = Append(pushed, item)
  BY DEF PushStep, PushFull, PushRoom, PushWrite, PushPublish, consumerVars

LEMMA PopStepEffect ==
    ASSUME PopStep
    PROVE  /\ UNCHANGED <<pushed, ppc, item>> /\ cpc # "idle"
           /\ \/ UNCHANGED popped /\ cpc # "release"
              \/ /\ cpc = "release" /\ cpc' = "idle"
                 /\ popped' = Append(popped, out) /\ UNCHANGED out
  BY DEF PopStep, PopEmpty, PopItem, PopRead, PopRelease, producerVars

LEMMA StepProducerProgress ==
    ASSUME PipeInv, [PipeNext]_pipeVars PROVE ProducerProgress'
  <1>1. /\ Len(pushed) \in Nat /\ pushed \in Seq(Values) /\ ProducerProgress
        /\ Len(Stream) \in Nat
    BY StreamFacts DEF PipeInv, IInv, QueueTypeOK
  <1>2. CASE ProducerPush
    BY <1>1, <1>2 DEF ProducerPush, PushCall, engineVars, ProducerProgress
  <1>3. CASE ProducerInPush
    <2>1. CASE UNCHANGED pushed
      BY <1>1, <1>3, <2>1, PushStepEffect
         DEF ProducerInPush, engineVars, ProducerProgress
    <2>2. CASE ppc' = "idle" /\ pushed' = Append(pushed, item)
      <3>1. /\ Len(pushed) < Len(Stream) /\ item = Stream[Len(pushed) + 1]
            /\ item \in Values
        BY <1>1, <1>3, PushStepEffect
           DEF ProducerInPush, ProducerProgress, PipeInv, IInv, QueueInv, ProducerOK
      <3>2. /\ Len(pushed') = Len(pushed) + 1 /\ pushed'[Len(pushed) + 1] = item
            /\ \A k \in 1 .. Len(pushed) : pushed'[k] = pushed[k]
        BY <1>1, <2>2, <3>1
      <3>3. \A k \in 1 .. Len(pushed') : pushed'[k] = Stream[k]
        BY <1>1, <3>1, <3>2 DEF ProducerProgress
      <3> QED BY <1>1, <1>3, <2>2, <3>1, <3>2, <3>3
              DEF ProducerInPush, engineVars, ProducerProgress
    <2> QED BY <1>3, <2>1, <2>2, PushStepEffect DEF ProducerInPush
  <1>4. CASE ProducerDone
    BY <1>1, <1>4 DEF ProducerDone, queueVars, producerVars, ProducerProgress
  <1>5. CASE Consumer
    <2>1. UNCHANGED <<pushed, ppc, item, producer_done>>
      BY <1>5, PopStepEffect
         DEF Consumer, ConsumerPop, ConsumerInPop, ConsumerSeesRunning,
             ConsumerSeesDone, ConsumerAsksEmpty, ConsumerHandles, PopCall,
             ConsumerAsks, engineVars, queueVars, producerVars
    <2> QED BY <1>1, <2>1 DEF ProducerProgress
  <1>6. CASE UNCHANGED pipeVars
    BY <1>1, <1>6 DEF pipeVars, queueVars, producerVars, engineVars, ProducerProgress
  <1> QED BY <1>2, <1>3, <1>4, <1>5, <1>6 DEF PipeNext, Producer

LEMMA StepConsumerProgress ==
    ASSUME PipeInv, [PipeNext]_pipeVars PROVE ConsumerProgress'
  <1>1. /\ Len(popped) \in Nat /\ popped \in Seq(Values \cup {NoValue})
        /\ Len(pushed) \in Nat /\ pushed \in Seq(Values) /\ Len(popped) <= Len(pushed)
        /\ out \in Values \cup {NoValue} /\ tailAcq \in Nat
        /\ consumed \in Seq(Values) /\ Len(consumed) \in Nat /\ ConsumerProgress
    BY DEF PipeInv, PipeTypeOK, IInv, QueueTypeOK, QueueInv, Views
  <1>2. CASE ProducerPush
    BY <1>1, <1>2 DEF ProducerPush, PushCall, consumerVars, engineVars, ConsumerProgress
  <1>3. CASE ProducerInPush
    <2>1. UNCHANGED <<popped, cpc, out, tailAcq, engineVars>> /\ ppc # "idle"
      BY <1>3, PushStepEffect DEF ProducerInPush
    <2>2. loc # "asking"
      BY <2>1, StreamFacts DEF PipeInv, ProducerProgress, ConsumerProgress
    <2> QED BY <1>1, <2>1, <2>2 DEF engineVars, ConsumerProgress
  <1>4. CASE ProducerDone
    BY <1>1, <1>4 DEF ProducerDone, queueVars, consumerVars, ConsumerProgress
  <1>5. CASE ConsumerPop
    BY <1>1, <1>5 DEF ConsumerPop, PopCall, engineVars, ConsumerProgress
  <1>6. CASE ConsumerInPop
    <2>1. loc = "pop" /\ UNCHANGED <<pushed, producer_done, consumed>>
      BY <1>1, <1>6, PopStepEffect DEF ConsumerInPop, ConsumerProgress
    <2>2. CASE UNCHANGED popped /\ cpc # "release"
      BY <1>1, <1>6, <2>1, <2>2 DEF ConsumerInPop, ConsumerProgress
    <2>3. CASE /\ cpc = "release" /\ cpc' = "idle"
               /\ popped' = Append(popped, out) /\ UNCHANGED out
      <3>1. /\ loc' = "got" /\ Len(popped') = Len(popped) + 1
            /\ popped'[Len(popped')] = out
        BY <1>1, <1>6, <2>3 DEF ConsumerInPop
      <3> QED BY <1>1, <2>1, <2>3, <3>1 DEF ConsumerProgress
    <2> QED BY <1>6, <2>2, <2>3, PopStepEffect DEF ConsumerInPop
  <1>7. CASE ConsumerSeesRunning
    BY <1>1, <1>7 DEF ConsumerSeesRunning, queueVars, consumerVars, ConsumerProgress
  <1>8. CASE ConsumerSeesDone
    BY <1>1, <1>8 DEF ConsumerSeesDone, SyncWithProducer, ConsumerProgress
  <1>9. CASE ConsumerAsksEmpty
    BY <1>1, <1>9 DEF ConsumerAsksEmpty, ConsumerAsks, ConsumerProgress
  <1>10. CASE ConsumerHandles
    <2>1. /\ loc = "got" /\ Len(popped) = Len(consumed) + 1 /\ out = popped[Len(popped)]
          /\ cpc = "idle" /\ UNCHANGED <<popped, cpc, out, tailAcq, pushed>>
      BY <1>1, <1>10 DEF ConsumerHandles, ConsumerProgress, queueVars, consumerVars
    <2>2. CASE is_sentinel(out)
      BY <1>1, <1>10, <2>1, <2>2 DEF ConsumerHandles, is_sentinel, ConsumerProgress
    <2>3. CASE ~is_sentinel(out)
      <3>1. out = pushed[Len(popped)] /\ out = Stream[Len(popped)]
        BY <1>1, <2>1
           DEF PipeInv, IInv, QueueInv, Delivered, ProducerProgress
      <3>2. Len(popped) # Len(Stream)
        BY <3>1, <2>3, StreamFacts DEF is_sentinel
      <3>3. Len(popped) <= Len(Events)
        BY <1>1, <3>2, StreamFacts DEF PipeInv, ProducerProgress
      <3>4. out = Events[Len(popped)] /\ out \in Values
        BY <1>1, <2>1, <3>1, <3>3, StreamFacts
      <3>5. /\ consumed' = Append(consumed, out) /\ loc' = "pop"
        BY <1>10, <2>3 DEF ConsumerHandles, Handle
      <3>6. /\ Len(consumed') = Len(consumed) + 1
            /\ consumed'[Len(consumed) + 1] = out
            /\ \A k \in 1 .. Len(consumed) : consumed'[k] = consumed[k]
        BY <1>1, <3>4, <3>5
      <3>7. \A k \in 1 .. Len(consumed') : consumed'[k] = Events[k]
        BY <1>1, <2>1, <3>4, <3>6 DEF ConsumerProgress
      <3> QED BY <1>1, <2>1, <3>3, <3>5, <3>6, <3>7 DEF ConsumerProgress
    <2> QED BY <2>2, <2>3
  <1>11. CASE UNCHANGED pipeVars
    BY <1>1, <1>11 DEF pipeVars, queueVars, consumerVars, engineVars, ConsumerProgress
  <1> QED BY <1>2, <1>3, <1>4, <1>5, <1>6, <1>7, <1>8, <1>9, <1>10, <1>11
          DEF PipeNext, Producer, Consumer

LEMMA StepPipeType ==
    ASSUME PipeInv, [PipeNext]_pipeVars PROVE PipeTypeOK'
  <1>1. PipeTypeOK /\ QueueTypeOK'
    BY QueueUnderPipeline DEF PipeInv, IInv
  <1>2. CASE Producer
    BY <1>1, <1>2, Zenon
       DEF PipeTypeOK, Producer, ProducerPush, ProducerInPush, ProducerDone, engineVars
  <1>3. CASE ConsumerHandles
    <2>1. out \in Values
      <3>1. Len(popped) \in 1 .. Len(pushed) /\ out = popped[Len(popped)]
        BY <1>3 DEF ConsumerHandles, PipeInv, PipeTypeOK, ConsumerProgress, IInv,
                    QueueTypeOK, QueueInv, Views
      <3>2. out = pushed[Len(popped)]
        BY <3>1 DEF PipeInv, IInv, QueueInv, QueueTypeOK, Delivered
      <3> QED BY <3>1, <3>2 DEF PipeInv, IInv, QueueTypeOK
    <2>2. Append(consumed, out) \in Seq(Values)
      BY <1>1, <2>1 DEF PipeTypeOK
    <2>3. loc' \in {"pop", "exited"} /\ consumed' \in Seq(Values) /\ UNCHANGED producer_done
      BY <1>1, <1>3, <2>2, Zenon DEF ConsumerHandles, Handle, PipeTypeOK
    <2> QED BY <1>1, <2>3, Zenon DEF PipeTypeOK
  <1>4. CASE Consumer /\ ~ConsumerHandles
    <2>1. UNCHANGED <<producer_done, consumed>>
      BY <1>4, Zenon DEF Consumer, ConsumerPop, ConsumerInPop, ConsumerSeesRunning,
                         ConsumerSeesDone, ConsumerAsksEmpty, engineVars
    <2>2. loc' \in {"pop", "failed", "asking", "got", loc}
      BY <1>4, Zenon DEF Consumer, ConsumerPop, ConsumerInPop, ConsumerSeesRunning,
                         ConsumerSeesDone, ConsumerAsksEmpty, engineVars
    <2> QED BY <1>1, <2>1, <2>2, Zenon DEF PipeTypeOK
  <1>5. CASE UNCHANGED pipeVars
    BY <1>1, <1>5, Zenon DEF PipeTypeOK, pipeVars, engineVars
  <1> QED BY <1>2, <1>3, <1>4, <1>5 DEF PipeNext

LEMMA StepPipeInv == PipeInv /\ [PipeNext]_pipeVars => PipeInv'
  BY QueueUnderPipeline, StepPipeType, StepProducerProgress, StepConsumerProgress
     DEF PipeInv

-----------------------------------------------------------------------------
(* Type correctness of run_threaded: what the engine handles are replayed   *)
(* events, never the content of an empty slot.                             *)
THEOREM PipelineTypeCorrect == PipeSpec => []PipeTypeOK
  <1>1. PipeInv => PipeTypeOK
    BY DEF PipeInv
  <1> QED BY <1>1, InitPipeInv, StepPipeInv, PTL DEF PipeSpec

(* No event is lost, repeated or reordered on the way to the engine, and    *)
(* the engine leaves its loop only after the last one, provided no event of *)
(* the replay carries the sentinel's sequence number.                      *)
THEOREM PipelineHandoff ==
    ASSUME \A k \in 1 .. Len(Events) : Events[k] # Sentinel
    PROVE  PipeSpec => []HandoffExact
  <1>1. PipeInv => HandoffExact
    <2> SUFFICES ASSUME PipeInv PROVE HandoffExact
      OBVIOUS
    <2>1. Len(consumed) <= Len(Events) /\ \A k \in 1 .. Len(consumed) : consumed[k] = Events[k]
      BY DEF PipeInv, ConsumerProgress
    <2>2. ASSUME loc = "exited" PROVE consumed = Events
      <3>1. /\ Len(popped) = Len(consumed) + 1 /\ popped[Len(popped)] = Sentinel
            /\ Len(consumed) \in Nat /\ Len(popped) <= Len(pushed) /\ Len(pushed) \in Nat
        BY <2>2 DEF PipeInv, PipeTypeOK, ConsumerProgress, IInv, QueueTypeOK,
                    QueueInv, Views
      <3>2. pushed[Len(popped)] = Sentinel
        BY <3>1 DEF PipeInv, IInv, QueueInv, Delivered
      <3>3. Stream[Len(popped)] = Sentinel
        BY <3>1, <3>2 DEF PipeInv, ProducerProgress
      <3>4. Len(popped) \notin 1 .. Len(Events)
        BY <3>3, StreamFacts
      <3>5. Len(consumed) = Len(Events)
        BY <2>1, <3>1, <3>4, StreamFacts
      <3> QED BY <2>1, <3>5, PipelineAssumption DEF PipeInv, PipeTypeOK
    <2> QED BY <2>1, <2>2 DEF HandoffExact
  <1> QED BY <1>1, InitPipeInv, StepPipeInv, PTL DEF PipeSpec

(* Once the consumer has read producer_done as true the sentinel is queued  *)
(* and visible, so its next pop succeeds.                                  *)
THEOREM PipelineSentinel == PipeSpec => []SentinelStillQueued
  <1>1. PipeInv => SentinelStillQueued
    BY StreamFacts DEF PipeInv, PipeTypeOK, ProducerProgress, ConsumerProgress,
       IInv, QueueTypeOK, SentinelStillQueued
  <1> QED BY <1>1, InitPipeInv, StepPipeInv, PTL DEF PipeSpec

=============================================================================
