----------------------------- MODULE SPSCQueue -----------------------------
(***************************************************************************)
(* SPSCQueue<T, Capacity> (include/trading/utils/spsc_queue.hpp): the lock *)
(* free ring between one producer and one consumer thread.                 *)
(*                                                                         *)
(* The threads interleave between the atomic accesses of push and pop.     *)
(* Each atomic index is kept as its modification order, the sequence of    *)
(* values stored so far: an acquire load may return any store not older    *)
(* than the one the thread saw before, so stale loads are covered, and it  *)
(* makes every earlier action of the storing thread visible.  headAcq and  *)
(* tailAcq count the stores of the other thread that the producer and the  *)
(* consumer have synchronised with.  A slot access not ordered by them is  *)
(* a data race, and a racing read may return anything.                     *)
(***************************************************************************)
EXTENDS Naturals, Sequences

CONSTANTS Capacity,   \* template parameter Capacity
          Values,     \* items of type T that clients push
          NoValue,    \* the content of a default-constructed or moved-from slot
          PushLimit   \* bound: how many pushes may succeed

ASSUME QueueAssumption ==
    /\ Capacity \in Nat \ {0}
    /\ PushLimit \in Nat
    /\ NoValue \notin Values

VARIABLES
    buffer,    \* buffer_
    head,      \* modification order of head_, written by the consumer only
    tail,      \* modification order of tail_, written by the producer only
    ppc, item, ptail,   \* push: where it is, its argument, the local tail
    cpc, out, chead,    \* pop: where it is, its out parameter, the local head
    headAcq,   \* how many stores to head_ the producer has acquired
    tailAcq,   \* how many stores to tail_ the consumer has acquired
    pHint,     \* what full()/size_approx() last told the producer
    cHint,     \* what empty()/size_approx() last told the consumer
    pushed,    \* history: the items published by successful pushes
    popped     \* history: the items delivered by successful pops

producerVars == <<ppc, item, ptail, headAcq, pHint>>
consumerVars == <<cpc, out, chead, tailAcq, cHint>>
queueVars == <<buffer, head, tail, producerVars, consumerVars, pushed, popped>>

StorageSize == Capacity + 1
Slots == 0 .. Capacity

\* Mutant: wrapping one slot early.
nextWrapsEarly(index) == (index + 1) % Capacity

\* Mutant: not wrapping at the end of the storage.
nextUnwrapped(index) == index + 1

next(index) == (index + 1) % StorageSize

Current(order) == order[Len(order)]

QueueTypeOK ==
    /\ buffer \in [Slots -> Values \cup {NoValue}]
    /\ head \in Seq(Slots) /\ tail \in Seq(Slots)
    /\ pushed \in Seq(Values) /\ popped \in Seq(Values \cup {NoValue})
    /\ ppc \in {"idle", "check", "write", "publish"}
    /\ cpc \in {"idle", "check", "read", "release"}
    /\ item \in Values \cup {NoValue} /\ out \in Values \cup {NoValue}
    /\ ptail \in Slots /\ chead \in Slots
    /\ headAcq \in Nat /\ tailAcq \in Nat
    /\ pHint \in {"none", "room", "full"}
    /\ cHint \in {"none", "item", "empty"}

QueueInit ==
    /\ buffer = [s \in Slots |-> NoValue]
    /\ head = <<0>> /\ tail = <<0>>
    /\ ppc = "idle" /\ item = NoValue /\ ptail = 0
    /\ cpc = "idle" /\ out = NoValue /\ chead = 0
    /\ headAcq = 0 /\ tailAcq = 0
    /\ pHint = "none" /\ cHint = "none"
    /\ pushed = <<>> /\ popped = <<>>

-----------------------------------------------------------------------------
(* Loads of the other thread's index.  n counts the stores seen, so the    *)
(* value loaded is entry n + 1 of the modification order.                  *)

\* Mutant: a relaxed load reads the same values but acquires nothing.
LoadHeadRelaxed(n) == n \in headAcq .. Len(popped) /\ UNCHANGED headAcq

LoadHeadAcquire(n) == n \in headAcq .. Len(popped) /\ headAcq' = n

LoadTailRelaxed(n) == n \in tailAcq .. Len(pushed) /\ UNCHANGED tailAcq

LoadTailAcquire(n) == n \in tailAcq .. Len(pushed) /\ tailAcq' = n

(* push(item): load the own tail, load head, write the slot, store tail. *)

PushCall(v) ==
    /\ ppc = "idle" /\ Len(pushed) < PushLimit
    /\ ppc' = "check" /\ item' = v /\ ptail' = Current(tail)
    /\ UNCHANGED <<buffer, head, tail, headAcq, pHint, consumerVars, pushed, popped>>

\* Mutant: the full test compares tail itself, so the last slot is overrun.
PushSeesFullLate(n) == ptail = head[n + 1] /\ Len(pushed) > n

PushSeesFull(n) == next(ptail) = head[n + 1]

PushFull(n) ==
    /\ ppc = "check"
    /\ LoadHeadAcquire(n) /\ PushSeesFull(n)
    /\ ppc' = "idle" /\ pHint' = "none"
    /\ UNCHANGED <<buffer, head, tail, item, ptail, consumerVars, pushed, popped>>

PushRoom(n) ==
    /\ ppc = "check"
    /\ LoadHeadAcquire(n) /\ ~PushSeesFull(n)
    /\ ppc' = "write" /\ pHint' = "none"
    /\ UNCHANGED <<buffer, head, tail, item, ptail, consumerVars, pushed, popped>>

PushWrite ==
    /\ ppc = "write"
    /\ buffer' = [buffer EXCEPT ![ptail] = item]
    /\ ppc' = "publish"
    /\ UNCHANGED <<head, tail, item, ptail, headAcq, pHint, consumerVars, pushed, popped>>

PushPublish ==
    /\ ppc = "publish"
    /\ tail' = Append(tail, next(ptail))
    /\ pushed' = Append(pushed, item)
    /\ ppc' = "idle"
    /\ UNCHANGED <<buffer, head, item, ptail, headAcq, pHint, consumerVars, popped>>

(* pop(out): load the own head, load tail, move the slot out, store head. *)

PopCall ==
    /\ cpc = "idle"
    /\ cpc' = "check" /\ chead' = Current(head)
    /\ UNCHANGED <<buffer, head, tail, out, tailAcq, cHint, producerVars, pushed, popped>>

PopSeesEmpty(n) == chead = tail[n + 1]

PopEmpty(n) ==
    /\ cpc = "check"
    /\ LoadTailAcquire(n) /\ PopSeesEmpty(n)
    /\ cpc' = "idle" /\ cHint' = "none"
    /\ UNCHANGED <<buffer, head, tail, out, chead, producerVars, pushed, popped>>

PopItem(n) ==
    /\ cpc = "check"
    /\ LoadTailAcquire(n) /\ ~PopSeesEmpty(n)
    /\ cpc' = "read" /\ cHint' = "none"
    /\ UNCHANGED <<buffer, head, tail, out, chead, producerVars, pushed, popped>>

\* The slot read at cpc = "read" was published by a store the consumer acquired.
ReadIsOrdered == Len(popped) < tailAcq

\* The pop that freed the slot written at ppc = "write" is one the producer acquired.
WriteIsOrdered == Len(pushed) < headAcq + StorageSize

\* Some accesses of the slot are concurrent: the value read is undefined.
ReadRaces == ~ReadIsOrdered \/ (ppc = "write" /\ ptail = chead)

PopRead ==
    /\ cpc = "read"
    /\ out' \in IF ReadRaces THEN Values \cup {NoValue} ELSE {buffer[chead]}
    /\ \E left \in {buffer[chead], NoValue} :   \* what std::move leaves behind
          buffer' = [buffer EXCEPT ![chead] = left]
    /\ cpc' = "release"
    /\ UNCHANGED <<head, tail, chead, tailAcq, cHint, producerVars, pushed, popped>>

PopRelease ==
    /\ cpc = "release"
    /\ head' = Append(head, next(chead))
    /\ popped' = Append(popped, out)
    /\ cpc' = "idle"
    /\ UNCHANGED <<buffer, tail, out, chead, tailAcq, cHint, producerVars, pushed>>

(* Queries by the two threads themselves.  A thread's own index does not   *)
(* move while it asks, so each query is its one load of the other index.   *)

\* Mutant: the wrapped branch counts from Capacity instead of StorageSize.
sizeApproxShort(h, t) == IF t >= h THEN t - h ELSE Capacity - h + t

size_approx(h, t) == IF t >= h THEN t - h ELSE StorageSize - h + t

ProducerAsks(n) ==
    /\ ppc = "idle"
    /\ LoadHeadAcquire(n)
    /\ LET h == head[n + 1]  t == Current(tail)
       IN \E room \in {next(t) # h, size_approx(h, t) < Capacity} :
             pHint' = IF room THEN "room" ELSE "full"
    /\ UNCHANGED <<buffer, head, tail, ppc, item, ptail, consumerVars, pushed, popped>>

ConsumerAsks(n) ==
    /\ cpc = "idle"
    /\ LoadTailAcquire(n)
    /\ LET h == Current(head)  t == tail[n + 1]
       IN \E some \in {h # t, size_approx(h, t) > 0} :
             cHint' = IF some THEN "item" ELSE "empty"
    /\ UNCHANGED <<buffer, head, tail, cpc, out, chead, producerVars, pushed, popped>>

PushStep ==
    \/ \E n \in headAcq .. Len(popped) : PushFull(n) \/ PushRoom(n)
    \/ PushWrite
    \/ PushPublish

PopStep ==
    \/ \E n \in tailAcq .. Len(pushed) : PopEmpty(n) \/ PopItem(n)
    \/ PopRead
    \/ PopRelease

QueueNext ==
    \/ \E v \in Values : PushCall(v)
    \/ PushStep
    \/ PopCall
    \/ PopStep
    \/ \E n \in headAcq .. Len(popped) : ProducerAsks(n)
    \/ \E n \in tailAcq .. Len(pushed) : ConsumerAsks(n)

QueueSpec == QueueInit /\ [][QueueNext]_queueVars

-----------------------------------------------------------------------------
(* The inductive invariant.  Index values are counted instead of wrapped:   *)
(* the k-th store leaves an index at Slot(k).                              *)

Slot(k) == k % StorageSize

Indices ==
    /\ Len(head) = Len(popped) + 1 /\ Len(tail) = Len(pushed) + 1
    /\ \A k \in 0 .. Len(popped) : head[k + 1] = Slot(k)
    /\ \A k \in 0 .. Len(pushed) : tail[k + 1] = Slot(k)

\* What each thread has seen brackets what the other has done.
Views ==
    /\ headAcq <= Len(popped) /\ Len(popped) <= tailAcq
    /\ tailAcq <= Len(pushed) /\ Len(pushed) <= headAcq + Capacity

ProducerOK ==
    /\ ppc # "idle" => ptail = Slot(Len(pushed)) /\ item \in Values
    /\ ppc \in {"write", "publish"} => Len(pushed) < headAcq + Capacity
    /\ ppc = "publish" => buffer[ptail] = item

ConsumerOK ==
    /\ cpc # "idle" => chead = Slot(Len(popped))
    /\ cpc \in {"read", "release"} => Len(popped) < tailAcq
    /\ cpc = "release" => out = pushed[Len(popped) + 1]

Contents ==
    \A k \in Len(popped) .. Len(pushed) - 1 :
        (cpc = "release" => k # Len(popped)) => buffer[Slot(k)] = pushed[k + 1]

Delivered == \A k \in 1 .. Len(popped) : popped[k] = pushed[k]

Hints ==
    /\ pHint = "room" => ppc \in {"idle", "check"} /\ Len(pushed) < headAcq + Capacity
    /\ cHint = "item" => cpc \in {"idle", "check"} /\ Len(popped) < tailAcq

(* What the ring holds, for every interleaving and every stale load: the    *)
(* slots between head and tail hold the published items in order, each      *)
(* thread's view of the other index is behind it by less than the ring,     *)
(* and what was delivered is what was published.                            *)
QueueInv ==
    /\ Indices /\ Views /\ ProducerOK /\ ConsumerOK
    /\ Contents /\ Delivered /\ Hints

-----------------------------------------------------------------------------
(* No data race on a slot: whenever push is about to write its slot, the   *)
(* pop that emptied it happened before, and whenever pop is about to read  *)
(* its slot, the push that filled it happened before (the release/acquire  *)
(* pairs of spsc_queue.hpp order every conflicting access).                *)
NoDataRace ==
    /\ cpc = "read" => ReadIsOrdered
    /\ ppc = "write" => WriteIsOrdered

(* A refused call is justified.  push returns false only when Capacity     *)
(* items were under way in the producer's view (the spare slot costs no    *)
(* capacity), and never after full() or size_approx() told the producer of *)
(* room; pop returns false only when the consumer has popped everything it *)
(* has seen published, and never after empty() or size_approx() told it of *)
(* an item.                                                                *)
RefusalsJustified ==
    [][ /\ ppc = "check" /\ ppc' = "idle" =>
              pHint # "room" /\ Len(pushed) = headAcq' + Capacity
        /\ cpc = "check" /\ cpc' = "idle" =>
              cHint # "item" /\ Len(popped) = tailAcq'
      ]_queueVars

Channel == INSTANCE FifoChannel WITH sent <- pushed, received <- popped

(* push and pop implement the abstract bounded channel: nothing is lost,   *)
(* duplicated, reordered or overwritten, and at most Capacity items are    *)
(* ever under way, however the two threads interleave.                     *)
ImplementsChannel == Channel!ChanSpec

=============================================================================
