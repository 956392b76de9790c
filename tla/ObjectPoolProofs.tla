-------------------------- MODULE ObjectPoolProofs --------------------------
(***************************************************************************)
(* The object pool, for every capacity: its types, its free list, and that  *)
(* it implements the abstract allocator.                                   *)
(***************************************************************************)
EXTENDS ObjectPool, FiniteSetTheorems, TLAPS

(* While an object is built its slot is still the head of the free list.     *)
BuildsAtHead == building # npos => teardown = npos /\ building = free_head

(* A slot stays occupied until its destructor has returned, and no           *)
(* destructor runs twice.                                                  *)
DyingOccupied ==
    /\ \A k \in 1 .. Len(dying) : dying[k] \in Occupied
    /\ \A j, k \in 1 .. Len(dying) : dying[j] = dying[k] => j = k

(* ~ObjectPool runs when nothing else does, and empties one slot at a time.  *)
TeardownQuiet ==
    teardown # npos =>
        /\ building = npos /\ dying = <<>>
        /\ \A i \in Occupied : i >= teardown

ListInv == HeadIsFirst /\ LinksFollow /\ VisitsUnoccupied /\ VisitsOnce /\ UsedCounts

PoolInv == PoolTypeOK /\ FreeListExact /\ BuildsAtHead /\ DyingOccupied /\ TeardownQuiet

-----------------------------------------------------------------------------
(* Facts about sequences and sets of slots. *)

(* What Tail does to a sequence that is not empty. *)
LEMMA TailFacts ==
    ASSUME NEW S, NEW s \in Seq(S), s # <<>>
    PROVE  /\ Tail(s) \in Seq(S) /\ Len(Tail(s)) = Len(s) - 1
           /\ Head(s) = s[1] /\ s[1] \in S /\ Len(s) \in Nat \ {0}
           /\ \A k \in 1 .. Len(s) - 1 : Tail(s)[k] = s[k + 1]
OBVIOUS

(* What putting an element in front does to a sequence. *)
LEMMA ConsFacts ==
    ASSUME NEW S, NEW s \in Seq(S), NEW e \in S
    PROVE  /\ <<e>> \o s \in Seq(S) /\ Len(<<e>> \o s) = Len(s) + 1
           /\ <<e>> \o s # <<>> /\ Len(s) \in Nat
           /\ (<<e>> \o s)[1] = e
           /\ \A k \in 2 .. Len(s) + 1 : (<<e>> \o s)[k] = s[k - 1]
OBVIOUS

(* The occupied slots are finitely many. *)
LEMMA OccupiedFinite ==
    /\ IsFiniteSet(Occupied)
    /\ Cardinality(Occupied) \in Nat
<1>1. IsFiniteSet(Slots)
  BY PoolAssumption, FS_Interval DEF Slots
<1>2. Occupied \subseteq Slots
  BY DEF Occupied
<1>3. IsFiniteSet(Occupied)
  BY <1>1, <1>2, FS_Subset
<1> QED
  BY <1>3, FS_CardinalityType

(* Constructing an object in a free slot and destroying one, seen as sets. *)
LEMMA OccupiedChanges ==
    ASSUME NEW i \in Slots, occupied \in [Slots -> BOOLEAN]
    PROVE  /\ occupied' = [occupied EXCEPT ![i] = TRUE] => Occupied' = Occupied \cup {i}
           /\ occupied' = [occupied EXCEPT ![i] = FALSE] => Occupied' = Occupied \ {i}
<1>1. ASSUME occupied' = [occupied EXCEPT ![i] = TRUE] PROVE Occupied' = Occupied \cup {i}
  BY <1>1 DEF Occupied
<1>2. ASSUME occupied' = [occupied EXCEPT ![i] = FALSE] PROVE Occupied' = Occupied \ {i}
  BY <1>2 DEF Occupied
<1> QED
  BY <1>1, <1>2

-----------------------------------------------------------------------------
(* While the pool is in use its free list is exact. *)
LEMMA InUse == PoolInv /\ teardown = npos => ListInv
  BY DEF PoolInv, FreeListExact, ListInv

(* reset_free_list establishes the invariant. *)
LEMMA PoolInitInv == PoolInit => PoolInv
<1> SUFFICES ASSUME PoolInit PROVE PoolInv
  OBVIOUS
<1> USE PoolAssumption
<1>1. chain \in Seq(Slots) /\ Len(chain) = Capacity /\ dying \in Seq(Slots)
  BY DEF PoolInit, Slots
<1>2. PoolTypeOK
  BY <1>1 DEF PoolInit, PoolTypeOK, Slots, npos
<1>3. Occupied = {}
  BY DEF PoolInit, Occupied
<1>4. Cardinality(Occupied) = 0
  BY <1>3, FS_EmptySet
<1>5. VisitsUnoccupied
  <2> SUFFICES ASSUME NEW i \in Slots PROVE \E k \in 1 .. Len(chain) : chain[k] = i
    BY <1>3 DEF VisitsUnoccupied
  <2>1. i + 1 \in 1 .. Len(chain) /\ chain[i + 1] = i
    BY <1>1 DEF PoolInit, Slots
  <2> QED
    BY <2>1
<1>6. HeadIsFirst
  <2>1. chain # <<>>
    BY <1>1
  <2>2. chain[1] = 0
    BY DEF PoolInit
  <2> QED
    BY <2>1, <2>2 DEF PoolInit, HeadIsFirst
<1>7. LinksFollow /\ VisitsOnce
  BY <1>1 DEF PoolInit, LinksFollow, VisitsOnce, Slots
<1>8. UsedCounts
  BY <1>1, <1>4 DEF PoolInit, UsedCounts
<1>9. FreeListExact
  BY <1>3, <1>5, <1>6, <1>7, <1>8 DEF FreeListExact
<1>10. BuildsAtHead /\ DyingOccupied /\ TeardownQuiet
  BY <1>1 DEF PoolInit, BuildsAtHead, DyingOccupied, TeardownQuiet
<1> QED
  BY <1>2, <1>9, <1>10 DEF PoolInv

(* A step that leaves slots and list alone leaves the free list exact. *)
LEMMA LinksUnchanged ==
    ASSUME UNCHANGED linkVars
    PROVE  /\ ListInv => ListInv'
           /\ Occupied' = Occupied
<1>1. Occupied' = Occupied
  BY DEF linkVars, Occupied
<1> QED
  BY <1>1 DEF linkVars, ListInv, HeadIsFirst, LinksFollow, VisitsUnoccupied, VisitsOnce, UsedCounts

(* allocate takes the first slot off the list. *)
LEMMA ConstructorReturnsInv ==
    ASSUME PoolInv, ConstructorReturns
    PROVE  PoolInv'
<1> USE PoolAssumption
<1>0. npos \notin Slots /\ npos # Capacity /\ Capacity \in Nat
  BY DEF Slots, npos
<1>1. /\ building \in Slots /\ teardown = npos /\ building = free_head
      /\ chain \in Seq(Slots) /\ dying \in Seq(Slots) /\ occupied \in [Slots -> BOOLEAN]
      /\ used \in 0 .. Capacity
  BY <1>0 DEF ConstructorReturns, PoolInv, PoolTypeOK, BuildsAtHead
<1>2. ListInv
  BY <1>1, InUse
<1>3. chain # <<>> /\ building = chain[1]
  BY <1>0, <1>1, <1>2 DEF ListInv, HeadIsFirst
<1>4. /\ Tail(chain) \in Seq(Slots) /\ Len(Tail(chain)) = Len(chain) - 1
      /\ Len(chain) \in Nat \ {0}
      /\ \A k \in 1 .. Len(chain) - 1 : Tail(chain)[k] = chain[k + 1]
  BY <1>1, <1>3, TailFacts
<1>5. building \notin Occupied
  BY <1>1, <1>2, <1>3, <1>4 DEF ListInv, VisitsUnoccupied
<1>6. Occupied' = Occupied \cup {building}
  BY <1>1, OccupiedChanges DEF ConstructorReturns
<1>7. Cardinality(Occupied') = Cardinality(Occupied) + 1
  BY <1>5, <1>6, OccupiedFinite, FS_AddElement
<1>a. chain' = Tail(chain) /\ next_free' = next_free /\ free_head' = next_free[building]
      /\ used' = used + 1 /\ building' = npos /\ result' = building
      /\ dying' = dying /\ teardown' = teardown
      /\ occupied' = [occupied EXCEPT ![building] = TRUE]
  BY DEF ConstructorReturns
<1>8. UsedCounts' /\ used' \in 0 .. Capacity
  <2>1. used + Len(chain) = Capacity /\ used = Cardinality(Occupied)
    BY <1>2 DEF ListInv, UsedCounts
  <2>2. used' = used + 1 /\ Len(chain') = Len(chain) - 1 /\ Len(chain) \in Nat \ {0}
    BY <1>a, <1>4
  <2>3. used' + Len(chain') = Capacity /\ used' \in 0 .. Capacity
    BY <2>1, <2>2, <1>0, <1>1
  <2>4. used' = Cardinality(Occupied')
    BY <2>1, <2>2, <1>7
  <2> QED
    BY <2>3, <2>4 DEF UsedCounts
<1>9. PoolTypeOK'
  <2>1. next_free' \in [Slots -> Slots \cup {npos}] /\ free_head' \in Slots \cup {npos}
    BY <1>a, <1>1 DEF PoolInv, PoolTypeOK
  <2>2. occupied' \in [Slots -> BOOLEAN]
    BY <1>a, <1>1
  <2> QED
    BY <2>1, <2>2, <1>a, <1>1, <1>4, <1>8 DEF PoolInv, PoolTypeOK
<1>10. HeadIsFirst' /\ LinksFollow'
  <2>0. next_free[chain[1]] = IF 1 = Len(chain) THEN npos ELSE chain[1 + 1]
    <3>1. 1 \in 1 .. Len(chain)
      BY <1>4
    <3> QED
      BY <3>1, <1>2 DEF ListInv, LinksFollow
  <2>1. next_free[building] = IF 1 = Len(chain) THEN npos ELSE chain[2]
    BY <2>0, <1>3
  <2>2. Tail(chain) = <<>> <=> Len(chain) = 1
    BY <1>4
  <2>3. HeadIsFirst'
    BY <1>a, <1>4, <2>1, <2>2 DEF HeadIsFirst
  <2>4. LinksFollow'
    <3> SUFFICES ASSUME NEW k \in 1 .. Len(chain')
                 PROVE  next_free[chain'[k]] =
                            IF k = Len(chain') THEN npos ELSE chain'[k + 1]
      BY <1>a DEF LinksFollow
    <3>1. k + 1 \in 1 .. Len(chain) /\ chain'[k] = chain[k + 1]
      BY <1>a, <1>4
    <3>2. next_free[chain[k + 1]] = IF k + 1 = Len(chain) THEN npos ELSE chain[(k + 1) + 1]
      BY <3>1, <1>2 DEF ListInv, LinksFollow
    <3>3. k # Len(chain') => chain'[k + 1] = chain[(k + 1) + 1]
      <4>1. Len(chain') = Len(chain) - 1 /\ Len(chain) \in Nat
        BY <1>a, <1>4
      <4>2. k # Len(chain') => k + 1 \in 1 .. Len(chain) - 1
        BY <4>1
      <4> QED
        BY <4>2, <1>a, <1>4
    <3>4. k = Len(chain') <=> k + 1 = Len(chain)
      BY <1>a, <1>4
    <3> QED
      BY <3>1, <3>2, <3>3, <3>4
  <2> QED
    BY <2>3, <2>4
<1>11. VisitsOnce'
  BY <1>a, <1>2, <1>4 DEF ListInv, VisitsOnce
<1>12. VisitsUnoccupied'
  <2> SUFFICES ASSUME NEW i \in Slots
               PROVE  i \notin Occupied' <=> \E k \in 1 .. Len(chain') : chain'[k] = i
    BY DEF VisitsUnoccupied
  <2>1. (\E k \in 1 .. Len(chain') : chain'[k] = i)
           <=> (\E k \in 1 .. Len(chain) : chain[k] = i) /\ i # building
    <3>1. ASSUME NEW k \in 1 .. Len(chain), chain[k] = i, i # building
          PROVE  k - 1 \in 1 .. Len(chain') /\ chain'[k - 1] = i
      BY <3>1, <1>a, <1>3, <1>4
    <3>2. ASSUME NEW k \in 1 .. Len(chain'), chain'[k] = i
          PROVE  k + 1 \in 1 .. Len(chain) /\ chain[k + 1] = i /\ i # building
      BY <3>2, <1>a, <1>2, <1>3, <1>4 DEF ListInv, VisitsOnce
    <3> QED
      BY <3>1, <3>2
  <2>2. i \notin Occupied <=> \E k \in 1 .. Len(chain) : chain[k] = i
    BY <1>2 DEF ListInv, VisitsUnoccupied
  <2> QED
    BY <2>1, <2>2, <1>6
<1>13. FreeListExact'
  BY <1>a, <1>0, <1>1, <1>8, <1>10, <1>11, <1>12 DEF FreeListExact
<1>14. (BuildsAtHead /\ TeardownQuiet)'
  BY <1>a, <1>1 DEF BuildsAtHead, TeardownQuiet
<1>15. DyingOccupied'
  BY <1>a, <1>6 DEF DyingOccupied, PoolInv
<1> QED
  BY <1>9, <1>13, <1>14, <1>15 DEF PoolInv

(* deallocate puts the slot in front of the list as it is by then. *)
LEMMA DeallocateEndInv ==
    ASSUME PoolInv, DeallocateEnd
    PROVE  PoolInv'
<1> USE PoolAssumption
<1> DEFINE index == Head(dying)
<1>0. npos \notin Slots /\ npos # Capacity /\ Capacity \in Nat
  BY DEF Slots, npos
<1>1. /\ dying # <<>> /\ dying \in Seq(Slots) /\ chain \in Seq(Slots)
      /\ teardown = npos /\ building = npos /\ occupied \in [Slots -> BOOLEAN]
      /\ used \in 0 .. Capacity
  BY DEF DeallocateEnd, Callable, PoolInv, PoolTypeOK
<1>2. ListInv
  BY <1>1, InUse
<1>3. /\ Tail(dying) \in Seq(Slots) /\ Len(Tail(dying)) = Len(dying) - 1
      /\ index = dying[1] /\ index \in Slots /\ Len(dying) \in Nat \ {0}
      /\ \A k \in 1 .. Len(dying) - 1 : Tail(dying)[k] = dying[k + 1]
  BY <1>1, TailFacts
<1>a. /\ occupied' = [occupied EXCEPT ![index] = FALSE]
      /\ next_free' = [next_free EXCEPT ![index] = free_head]
      /\ free_head' = index /\ used' = used - 1 /\ dying' = Tail(dying)
      /\ chain' = <<index>> \o chain
      /\ building' = building /\ teardown' = teardown /\ result' = result
  BY DEF DeallocateEnd, Link
<1> HIDE DEF index
<1>4. index \in Occupied
  BY <1>3 DEF PoolInv, DyingOccupied
<1>5. /\ chain' \in Seq(Slots) /\ Len(chain') = Len(chain) + 1 /\ chain' # <<>>
      /\ Len(chain) \in Nat /\ chain'[1] = index
      /\ \A k \in 2 .. Len(chain) + 1 : chain'[k] = chain[k - 1]
  BY <1>a, <1>1, <1>3, ConsFacts
<1>6. \A k \in 1 .. Len(chain) : chain[k] # index /\ chain[k] \in Slots
  BY <1>1, <1>2, <1>3, <1>4 DEF ListInv, VisitsUnoccupied
<1>7. Occupied' = Occupied \ {index}
  BY <1>a, <1>1, <1>3, OccupiedChanges
<1>8. Cardinality(Occupied') = Cardinality(Occupied) - 1 /\ Cardinality(Occupied) # 0
  <2>1. Cardinality(Occupied') = Cardinality(Occupied) - 1
    BY <1>4, <1>7, OccupiedFinite, FS_RemoveElement
  <2>2. Cardinality(Occupied) # 0
    BY <1>4, OccupiedFinite, FS_EmptySet
  <2> QED
    BY <2>1, <2>2
<1>9. UsedCounts' /\ used' \in 0 .. Capacity
  <2>1. used + Len(chain) = Capacity /\ used = Cardinality(Occupied)
    BY <1>2 DEF ListInv, UsedCounts
  <2>2. used' = used - 1 /\ Len(chain') = Len(chain) + 1 /\ Len(chain) \in Nat
    BY <1>a, <1>5
  <2>3. used' + Len(chain') = Capacity /\ used' \in 0 .. Capacity
    BY <2>1, <2>2, <1>0, <1>1, <1>8
  <2>4. used' = Cardinality(Occupied')
    BY <2>1, <2>2, <1>8
  <2> QED
    BY <2>3, <2>4 DEF UsedCounts
<1>10. PoolTypeOK'
  <2>1. next_free' \in [Slots -> Slots \cup {npos}] /\ free_head' \in Slots \cup {npos}
    BY <1>a, <1>3 DEF PoolInv, PoolTypeOK
  <2>2. occupied' \in [Slots -> BOOLEAN]
    BY <1>a, <1>1, <1>3
  <2> QED
    BY <2>1, <2>2, <1>a, <1>1, <1>3, <1>5, <1>9 DEF PoolInv, PoolTypeOK
<1>11. HeadIsFirst'
  BY <1>a, <1>5 DEF HeadIsFirst
<1>12. LinksFollow'
  <2> SUFFICES ASSUME NEW k \in 1 .. Len(chain')
               PROVE  next_free'[chain'[k]] =
                          IF k = Len(chain') THEN npos ELSE chain'[k + 1]
    BY DEF LinksFollow
  <2>0. next_free \in [Slots -> Slots \cup {npos}]
    BY DEF PoolInv, PoolTypeOK
  <2>1. CASE k = 1
    <3>1. next_free'[chain'[k]] = free_head
      BY <2>0, <2>1, <1>a, <1>3, <1>5
    <3>2. free_head = IF Len(chain) = 0 THEN npos ELSE chain[1]
      BY <1>1, <1>2 DEF ListInv, HeadIsFirst
    <3>3. Len(chain) # 0 => chain'[k + 1] = chain[1]
      BY <2>1, <1>5
    <3> QED
      BY <2>1, <3>1, <3>2, <3>3, <1>5
  <2>2. CASE k # 1
    <3>1. k - 1 \in 1 .. Len(chain) /\ chain'[k] = chain[k - 1]
      BY <2>2, <1>5
    <3>2. next_free'[chain'[k]] = next_free[chain[k - 1]]
      BY <3>1, <2>0, <1>6, <1>a
    <3>3. next_free[chain[k - 1]] = IF k - 1 = Len(chain) THEN npos ELSE chain[(k - 1) + 1]
      BY <3>1, <1>2 DEF ListInv, LinksFollow
    <3>4. k # Len(chain') => chain'[k + 1] = chain[(k - 1) + 1]
      BY <3>1, <1>5
    <3>5. k = Len(chain') <=> k - 1 = Len(chain)
      BY <1>5
    <3> QED
      BY <3>1, <3>2, <3>3, <3>4, <3>5
  <2> QED
    BY <2>1, <2>2
<1>13. VisitsOnce'
  BY <1>2, <1>5, <1>6 DEF ListInv, VisitsOnce
<1>14. VisitsUnoccupied'
  <2> SUFFICES ASSUME NEW i \in Slots
               PROVE  i \notin Occupied' <=> \E k \in 1 .. Len(chain') : chain'[k] = i
    BY DEF VisitsUnoccupied
  <2>1. (\E k \in 1 .. Len(chain') : chain'[k] = i)
           <=> (\E k \in 1 .. Len(chain) : chain[k] = i) \/ i = index
    <3>1. ASSUME NEW k \in 1 .. Len(chain), chain[k] = i
          PROVE  k + 1 \in 1 .. Len(chain') /\ chain'[k + 1] = i
      BY <3>1, <1>5
    <3>2. ASSUME NEW k \in 1 .. Len(chain'), chain'[k] = i, i # index
          PROVE  k - 1 \in 1 .. Len(chain) /\ chain[k - 1] = i
      BY <3>2, <1>5
    <3>3. i = index => 1 \in 1 .. Len(chain') /\ chain'[1] = i
      BY <1>5
    <3> QED
      BY <3>1, <3>2, <3>3
  <2>2. i \notin Occupied <=> \E k \in 1 .. Len(chain) : chain[k] = i
    BY <1>2 DEF ListInv, VisitsUnoccupied
  <2> QED
    BY <2>1, <2>2, <1>7
<1>15. FreeListExact'
  BY <1>a, <1>0, <1>1, <1>9, <1>11, <1>12, <1>13, <1>14 DEF FreeListExact
<1>16. (BuildsAtHead /\ TeardownQuiet)'
  BY <1>a, <1>1 DEF BuildsAtHead, TeardownQuiet
<1>17. DyingOccupied'
  <2>1. \A k \in 1 .. Len(dying') :
           k + 1 \in 1 .. Len(dying) /\ dying'[k] = dying[k + 1] /\ dying[k + 1] # index
    BY <1>a, <1>3 DEF PoolInv, DyingOccupied
  <2>2. \A k \in 1 .. Len(dying') : dying'[k] \in Occupied'
    BY <2>1, <1>7 DEF PoolInv, DyingOccupied
  <2>3. Len(dying') \in Nat
    BY <1>a, <1>3
  <2>4. \A j, k \in 1 .. Len(dying') : dying'[j] = dying'[k] => j = k
    BY <2>1, <2>3 DEF PoolInv, DyingOccupied
  <2> QED
    BY <2>2, <2>4 DEF DyingOccupied
<1> QED
  BY <1>10, <1>15, <1>16, <1>17 DEF PoolInv

(* A destructor starts on an object whose destructor is not running. *)
LEMMA DeallocateBeginInv ==
    ASSUME PoolInv, NEW object \in Pointers, DeallocateBegin(object)
    PROVE  PoolInv'
<1> DEFINE index == index_of(object)
<1>1. /\ index \in Slots /\ index \in Occupied /\ ~InDestructor(index)
      /\ teardown = npos /\ building = npos /\ dying' = <<index>> \o dying
      /\ UNCHANGED <<linkVars, building, teardown, result>>
  BY DEF DeallocateBegin, Callable, Owned, index_of, Occupied
<1> HIDE DEF index
<1>2. dying \in Seq(Slots) /\ ListInv
  BY <1>1, InUse DEF PoolInv, PoolTypeOK
<1>3. /\ dying' \in Seq(Slots) /\ Len(dying') = Len(dying) + 1
      /\ Len(dying) \in Nat /\ dying'[1] = index
      /\ \A k \in 2 .. Len(dying) + 1 : dying'[k] = dying[k - 1]
  BY <1>1, <1>2, ConsFacts
<1>4. ListInv' /\ Occupied' = Occupied
  BY <1>1, <1>2, LinksUnchanged
<1>5. PoolTypeOK'
  BY <1>1, <1>3 DEF linkVars, PoolInv, PoolTypeOK
<1>6. FreeListExact' /\ BuildsAtHead' /\ TeardownQuiet'
  BY <1>1, <1>4, PoolAssumption
  DEF ListInv, FreeListExact, BuildsAtHead, TeardownQuiet, npos
<1>7. \A k \in 1 .. Len(dying') : dying'[k] \in Occupied'
  BY <1>1, <1>3, <1>4 DEF PoolInv, DyingOccupied
<1>8. \A j, k \in 1 .. Len(dying') : dying'[j] = dying'[k] => j = k
  BY <1>1, <1>3 DEF InDestructor, PoolInv, DyingOccupied
<1> QED
  BY <1>5, <1>6, <1>7, <1>8 DEF PoolInv, DyingOccupied

(* One turn of destroy_live_objects. *)
LEMMA DestroySlotInv ==
    ASSUME PoolInv, DestroySlot
    PROVE  PoolInv'
<1> USE PoolAssumption
<1>1. /\ teardown \in Slots /\ teardown # npos /\ building = npos /\ dying = <<>>
      /\ teardown' = teardown + 1 /\ teardown + 1 \in 0 .. Capacity /\ teardown + 1 # npos
      /\ occupied \in [Slots -> BOOLEAN]
  BY DEF DestroySlot, PoolInv, PoolTypeOK, TeardownQuiet, Slots, npos
<1>2. Occupied' = Occupied \ {teardown}
  BY <1>1, OccupiedChanges DEF DestroySlot
<1>3. PoolTypeOK'
  <2>1. occupied' \in [Slots -> BOOLEAN]
    BY <1>1 DEF DestroySlot
  <2> QED
    BY <2>1, <1>1 DEF DestroySlot, PoolInv, PoolTypeOK
<1>4. Occupied \subseteq Slots
  BY DEF Occupied
<1>5. \A i \in Occupied' : i >= teardown + 1
  BY <1>1, <1>2, <1>4 DEF PoolInv, TeardownQuiet, Slots
<1>6. FreeListExact'
  <2>1. teardown' = Capacity => Occupied' = {}
    BY <1>1, <1>2, <1>4, <1>5 DEF Slots
  <2> QED
    BY <2>1, <1>1 DEF FreeListExact
<1>7. (BuildsAtHead /\ TeardownQuiet /\ DyingOccupied)'
  BY <1>1, <1>5 DEF DestroySlot, BuildsAtHead, TeardownQuiet, DyingOccupied
<1> QED
  BY <1>3, <1>6, <1>7 DEF PoolInv

(* Every step of the pool preserves the invariant. *)
LEMMA PoolNextInv == PoolInv /\ [PoolNext]_poolVars => PoolInv'
<1> SUFFICES ASSUME PoolInv, [PoolNext]_poolVars PROVE PoolInv'
  OBVIOUS
<1> USE PoolAssumption
<1>0. npos \notin Slots /\ npos \notin 0 .. Capacity /\ 0 \in 0 .. Capacity /\ 0 # Capacity
  BY DEF Slots, npos
<1>a. UNCHANGED linkVars =>
        /\ Occupied' = Occupied
        /\ teardown = npos => ListInv'
  BY InUse, LinksUnchanged
<1>1. CASE AllocateNull \/ AllocateBegin \/ ConstructorThrows \/ UNCHANGED poolVars
  <2>1. UNCHANGED <<linkVars, dying, teardown>>
    BY <1>1 DEF AllocateNull, AllocateBegin, ConstructorThrows, poolVars
  <2>2. PoolTypeOK'
    BY <1>1 DEF AllocateNull, AllocateBegin, ConstructorThrows, poolVars, linkVars,
                PoolInv, PoolTypeOK
  <2>3. FreeListExact' /\ DyingOccupied'
    BY <2>1, <1>a DEF ListInv, PoolInv, FreeListExact, DyingOccupied
  <2>4. building' # npos => teardown = npos /\ building' = free_head
    BY <1>1 DEF AllocateNull, AllocateBegin, ConstructorThrows, Callable, poolVars,
                PoolInv, BuildsAtHead
  <2>5. BuildsAtHead'
    BY <2>1, <2>4 DEF BuildsAtHead, linkVars
  <2>6. TeardownQuiet'
    BY <2>1, <2>4, <1>a DEF PoolInv, TeardownQuiet
  <2> QED
    BY <2>2, <2>3, <2>5, <2>6 DEF PoolInv
<1>2. CASE ConstructorReturns
  BY <1>2, ConstructorReturnsInv
<1>3. CASE \E object \in Pointers : DeallocateBegin(object)
  BY <1>3, DeallocateBeginInv
<1>4. CASE DeallocateEnd
  BY <1>4, DeallocateEndInv
<1>5. CASE DestroyBegin
  <2>1. UNCHANGED <<linkVars, building, dying, result>> /\ teardown' = 0
        /\ building = npos /\ dying = <<>>
    BY <1>5 DEF DestroyBegin, Callable
  <2>2. PoolTypeOK'
    BY <2>1, <1>0 DEF linkVars, PoolInv, PoolTypeOK
  <2>3. FreeListExact'
    BY <2>1, <1>0 DEF FreeListExact
  <2>4. DyingOccupied' /\ BuildsAtHead'
    BY <2>1, <1>a DEF PoolInv, DyingOccupied, BuildsAtHead
  <2>5. \A i \in Occupied' : i >= 0
    BY <2>1, <1>a DEF Occupied, Slots
  <2>6. TeardownQuiet'
    BY <2>1, <2>5 DEF TeardownQuiet
  <2> QED
    BY <2>2, <2>3, <2>4, <2>6 DEF PoolInv
<1>6. CASE DestroySlot
  BY <1>6, DestroySlotInv
<1> QED
  BY <1>1, <1>2, <1>3, <1>4, <1>5, <1>6 DEF PoolNext

(* The invariant of the pool. *)
THEOREM PoolInvariant == PoolSpec => []PoolInv
<1> QED
  BY PoolInitInv, PoolNextInv, PTL DEF PoolSpec

(* The links and counters of the pool have their types: in particular used_   *)
(* never falls below zero, whatever is given back.                          *)
THEOREM PoolTypes == PoolSpec => []PoolTypeOK
<1>1. PoolInv => PoolTypeOK
  BY DEF PoolInv
<1> QED
  BY <1>1, PoolInvariant, PTL

(* The free list visits exactly the unoccupied slots, for every capacity.     *)
THEOREM PoolFreeList == PoolSpec => []FreeListExact
<1>1. PoolInv => FreeListExact
  BY DEF PoolInv
<1> QED
  BY <1>1, PoolInvariant, PTL

-----------------------------------------------------------------------------
(* Every step of the pool is a step of the allocator or leaves it alone. *)
LEMMA PoolStepAllocates ==
    PoolInv /\ [PoolNext]_poolVars =>
        [Allocator!AllocatorNext]_(Allocator!allocatorVars)
<1> SUFFICES ASSUME PoolInv, [PoolNext]_poolVars
             PROVE  [Allocator!AllocatorNext]_(Allocator!allocatorVars)
  OBVIOUS
<1> USE PoolAssumption
<1>1. CASE AllocateNull
  <2>1. ListInv /\ free_head = npos /\ chain \in Seq(Slots)
    BY <1>1, InUse DEF AllocateNull, Callable, PoolInv, PoolTypeOK
  <2>2. chain = <<>> /\ Len(chain) = 0
    <3>1. ASSUME chain # <<>> PROVE FALSE
      <4>1. chain[1] \in Slots /\ chain[1] = npos
        BY <2>1, <3>1, TailFacts DEF ListInv, HeadIsFirst
      <4> QED
        BY <4>1 DEF Slots, npos
    <3> QED
      BY <3>1
  <2>3. Occupied = Slots
    <3>1. Occupied \subseteq Slots
      BY DEF Occupied
    <3>2. \A i \in Slots : i \in Occupied
      BY <2>1, <2>2 DEF ListInv, VisitsUnoccupied
    <3> QED
      BY <3>1, <3>2
  <2>4. Allocator!Refuse
    BY <1>1, <2>3, LinksUnchanged DEF AllocateNull, Allocator!Refuse
  <2> QED
    BY <2>4 DEF Allocator!AllocatorNext
<1>2. CASE ConstructorReturns
  <2>1. /\ building \in Slots /\ teardown = npos /\ building = free_head
        /\ chain \in Seq(Slots) /\ occupied \in [Slots -> BOOLEAN] /\ building # npos
    BY <1>2 DEF ConstructorReturns, PoolInv, PoolTypeOK, BuildsAtHead
  <2>2. ListInv
    BY <2>1, InUse
  <2>3. chain # <<>> /\ building = chain[1]
    BY <2>1, <2>2 DEF ListInv, HeadIsFirst
  <2>4. 1 \in 1 .. Len(chain)
    BY <2>1, <2>3, TailFacts
  <2>5. building \notin Occupied
    BY <2>1, <2>2, <2>3, <2>4 DEF ListInv, VisitsUnoccupied
  <2>6. Occupied' = Occupied \cup {building} /\ result' = building
    BY <1>2, <2>1, OccupiedChanges DEF ConstructorReturns
  <2>7. Allocator!Take(building)
    BY <2>5, <2>6 DEF Allocator!Take
  <2> QED
    BY <2>1, <2>7 DEF Allocator!AllocatorNext
<1>3. CASE DeallocateEnd
  <2> DEFINE index == Head(dying)
  <2>1. index \in Slots /\ index = dying[1] /\ 1 \in 1 .. Len(dying)
    BY <1>3, TailFacts DEF DeallocateEnd, PoolInv, PoolTypeOK
  <2>2. index \in Occupied /\ occupied \in [Slots -> BOOLEAN]
    BY <2>1 DEF PoolInv, PoolTypeOK, DyingOccupied
  <2>3. occupied' = [occupied EXCEPT ![index] = FALSE] /\ result' = result
    BY <1>3 DEF DeallocateEnd
  <2> HIDE DEF index
  <2>4. Occupied' = Occupied \ {index}
    BY <2>1, <2>2, <2>3, OccupiedChanges
  <2>5. Allocator!Give(index)
    BY <2>2, <2>3, <2>4 DEF Allocator!Give
  <2> QED
    BY <2>1, <2>5 DEF Allocator!AllocatorNext
<1>4. CASE DestroySlot
  <2>1. teardown \in Slots /\ Occupied' = Occupied \ {teardown} /\ result' = result
    BY <1>4, OccupiedChanges DEF DestroySlot, PoolInv, PoolTypeOK
  <2>2. CASE teardown \in Occupied
    <3>1. Allocator!Give(teardown)
      BY <2>1, <2>2 DEF Allocator!Give
    <3> QED
      BY <2>1, <3>1 DEF Allocator!AllocatorNext
  <2>3. CASE teardown \notin Occupied
    <3>1. Occupied' = Occupied
      BY <2>1, <2>3
    <3> QED
      BY <2>1, <3>1 DEF Allocator!allocatorVars
  <2> QED
    BY <2>2, <2>3
<1>5. ASSUME UNCHANGED <<occupied, result>>
      PROVE  [Allocator!AllocatorNext]_(Allocator!allocatorVars)
  BY <1>5 DEF Allocator!allocatorVars, Occupied
<1>6. CASE AllocateBegin \/ ConstructorThrows \/ DestroyBegin \/ UNCHANGED poolVars
  BY <1>5, <1>6 DEF AllocateBegin, ConstructorThrows, DestroyBegin, poolVars, linkVars
<1>7. CASE \E object \in Pointers : DeallocateBegin(object)
  BY <1>5, <1>7 DEF DeallocateBegin, linkVars
<1> QED
  BY <1>1, <1>2, <1>3, <1>4, <1>6, <1>7 DEF PoolNext

(* The pool implements the allocator: no object is built over another, null   *)
(* is returned only when every slot is taken, and one deallocate ends one     *)
(* life, for every capacity.                                                *)
THEOREM PoolImplementsAllocator == PoolSpec => ImplementsAllocator
<1>1. PoolInit => Allocator!AllocatorInit
  BY DEF PoolInit, Allocator!AllocatorInit, Occupied
<1> QED
  BY <1>1, PoolInvariant, PoolStepAllocates, PTL
  DEF PoolSpec, ImplementsAllocator, Allocator!AllocatorSpec

=============================================================================
