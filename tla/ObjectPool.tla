----------------------------- MODULE ObjectPool -----------------------------
(***************************************************************************)
(* ObjectPool (include/trading/utils/object_pool.hpp): a fixed number of    *)
(* slots, the unoccupied ones linked into a list through the slots.        *)
(*                                                                         *)
(* Callers are arbitrary: any pointer may be given back at any time, of     *)
(* this pool or not, twice, or after its slot went to another owner.  A     *)
(* constructor may throw, and a destructor may itself allocate and give     *)
(* back other objects.  Left out, as the code has no answer to them: a      *)
(* constructor that calls the pool, which would be given its own slot, a    *)
(* destructor that gives back an object whose destructor is running, and    *)
(* one that calls the pool while the pool itself is destroyed.             *)
(***************************************************************************)
EXTENDS Integers, Sequences, FiniteSets

CONSTANT Capacity

ASSUME PoolAssumption == Capacity \in Nat \ {0}

VARIABLES next_free, occupied,  \* of each slot
          free_head,            \* free_head_
          used,                 \* used_
          building,             \* the slot whose constructor runs, or npos
          dying,                \* the slots whose destructors run, innermost first
          teardown,             \* slots destroy_live_objects has done; npos: pool in use
          result,               \* what the latest allocate returned; npos is nullptr
          chain                 \* history: the free list from its head

linkVars == <<next_free, occupied, free_head, used, chain>>
poolVars == <<linkVars, building, dying, teardown, result>>

npos == -1
Slots == 0 .. Capacity - 1

\* reset_free_list
PoolInit ==
    /\ next_free = [i \in Slots |-> IF i = Capacity - 1 THEN npos ELSE i + 1]
    /\ occupied = [i \in Slots |-> FALSE]
    /\ free_head = 0 /\ used = 0
    /\ building = npos /\ dying = <<>> /\ teardown = npos /\ result = npos
    /\ chain = [k \in 1 .. Capacity |-> k - 1]

available == Capacity - used

\* No constructor is running and the pool is not being destroyed.
Callable == building = npos /\ teardown = npos

-----------------------------------------------------------------------------
(* allocate. *)

AllocateNull ==
    /\ Callable /\ free_head = npos
    /\ result' = npos
    /\ UNCHANGED <<linkVars, building, dying, teardown>>

\* Mutant: the slot leaves the free list before its object is constructed.
AllocateBeginEager ==
    /\ Callable /\ free_head # npos
    /\ building' = free_head
    /\ free_head' = next_free[free_head]
    /\ UNCHANGED <<next_free, occupied, used, chain, dying, teardown, result>>

\* The slot is chosen and the constructor starts.
AllocateBegin ==
    /\ Callable /\ free_head # npos
    /\ building' = free_head
    /\ UNCHANGED <<linkVars, dying, teardown, result>>

ConstructorThrows ==
    /\ building # npos
    /\ building' = npos
    /\ UNCHANGED <<linkVars, dying, teardown, result>>

ConstructorReturns ==
    /\ building # npos
    /\ free_head' = next_free[building]
    /\ occupied' = [occupied EXCEPT ![building] = TRUE]
    /\ used' = used + 1
    /\ result' = building /\ building' = npos
    /\ chain' = Tail(chain)
    /\ UNCHANGED <<next_free, dying, teardown>>

-----------------------------------------------------------------------------
(* deallocate.  Null and foreign pointers have no index. *)

Pointers == Slots \cup {npos}

index_of(object) == IF object \in Slots THEN object ELSE npos

\* Mutant: an unoccupied slot is given back again.
OwnedAnyway(index) == index # npos

\* The condition under which deallocate does not return at once.
Owned(index) == index # npos /\ occupied[index]

InDestructor(index) == \E k \in 1 .. Len(dying) : dying[k] = index

DeallocateBegin(object) ==
    LET index == index_of(object)
    IN /\ Callable /\ Owned(index) /\ ~InDestructor(index)
       /\ dying' = <<index>> \o dying
       /\ UNCHANGED <<linkVars, building, teardown, result>>

\* Mutant: the slot keeps the link it had when it was taken.
LinkKept(index) == next_free

\* slots_[index].next_free = free_head_
Link(index) == [next_free EXCEPT ![index] = free_head]

\* The destructor called last has returned.
DeallocateEnd ==
    LET index == Head(dying)
    IN /\ Callable /\ dying # <<>>
       /\ occupied' = [occupied EXCEPT ![index] = FALSE]
       /\ next_free' = Link(index)
       /\ free_head' = index
       /\ used' = used - 1
       /\ dying' = Tail(dying)
       /\ chain' = <<index>> \o chain
       /\ UNCHANGED <<building, teardown, result>>

-----------------------------------------------------------------------------
(* ~ObjectPool. *)

DestroyBegin ==
    /\ Callable /\ dying = <<>>
    /\ teardown' = 0
    /\ UNCHANGED <<linkVars, building, dying, result>>

\* One turn of destroy_live_objects; the free list is not kept up any more.
DestroySlot ==
    /\ teardown \in Slots
    /\ occupied' = [occupied EXCEPT ![teardown] = FALSE]
    /\ teardown' = teardown + 1
    /\ UNCHANGED <<next_free, free_head, used, chain, building, dying, result>>

PoolNext ==
    \/ AllocateNull
    \/ AllocateBegin
    \/ ConstructorThrows
    \/ ConstructorReturns
    \/ \E object \in Pointers : DeallocateBegin(object)
    \/ DeallocateEnd
    \/ DestroyBegin
    \/ DestroySlot

PoolSpec == PoolInit /\ [][PoolNext]_poolVars

-----------------------------------------------------------------------------
PoolTypeOK ==
    /\ next_free \in [Slots -> Slots \cup {npos}]
    /\ occupied \in [Slots -> BOOLEAN]
    /\ free_head \in Slots \cup {npos} /\ used \in 0 .. Capacity
    /\ building \in Slots \cup {npos} /\ result \in Slots \cup {npos}
    /\ dying \in Seq(Slots)
    /\ teardown \in 0 .. Capacity \cup {npos}
    /\ chain \in Seq(Slots)

Occupied == {i \in Slots : occupied[i]}

HeadIsFirst == free_head = IF chain = <<>> THEN npos ELSE chain[1]

LinksFollow ==
    \A k \in 1 .. Len(chain) :
        next_free[chain[k]] = IF k = Len(chain) THEN npos ELSE chain[k + 1]

VisitsUnoccupied ==
    \A i \in Slots : i \notin Occupied <=> \E k \in 1 .. Len(chain) : chain[k] = i

VisitsOnce == \A j, k \in 1 .. Len(chain) : chain[j] = chain[k] => j = k

UsedCounts == used + Len(chain) = Capacity /\ used = Cardinality(Occupied)

(* The free list is exact after any sequence of calls, stale and repeated     *)
(* deallocations, throwing constructors and re-entrant destructors included:  *)
(* from free_head the links visit every unoccupied slot once and no other,    *)
(* and used counts the rest.  A pool that is destroyed leaves no object.     *)
FreeListExact ==
    /\ teardown = npos =>
          HeadIsFirst /\ LinksFollow /\ VisitsUnoccupied /\ VisitsOnce /\ UsedCounts
    /\ teardown = Capacity => Occupied = {}

Allocator == INSTANCE SlotAllocator
    WITH live <- Occupied, answer <- result, NoSlot <- npos

(* The pool is an allocator: no object is built in a slot that holds one,     *)
(* allocate returns null only when all slots are taken, and deallocate ends   *)
(* the life of no other object.                                            *)
ImplementsAllocator == Allocator!AllocatorSpec

=============================================================================
