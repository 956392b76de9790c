---------------------------- MODULE MarketProofs ----------------------------
(***************************************************************************)
(* Proofs about the two components that look at the market before an order  *)
(* exists: OrderBook, for any set of order ids, prices and quantities and   *)
(* any sequence of events, and PreTradeRiskEngine's order rate limit, for   *)
(* every limit, window length and width of the clock.                      *)
(***************************************************************************)
EXTENDS OrderBook, PreTradeRiskEngine, NumberLemmas, TLAPS

(* std::map's erase. *)
LEMMA ErasedFacts ==
    ASSUME NEW map, NEW key
    PROVE  LET rest == Erased(map, key)
           IN /\ DOMAIN rest = DOMAIN map \ {key}
              /\ rest = [x \in DOMAIN rest |-> rest[x]]
              /\ \A x \in DOMAIN rest : rest[x] = map[x]
BY DEF Erased, Restrict

-----------------------------------------------------------------------------
(* A BookOrder with a price and a quantity above 0. *)
MdOrder == [side : MdSides, price : Nat \ {0}, quantity : Nat \ {0}]

(* A map of orders: finite, and every order of it with a price and a size. *)
OrderMap(O) ==
    /\ IsFiniteSet(DOMAIN O)
    /\ O = [id \in DOMAIN O |-> O[id]]
    /\ \A id \in DOMAIN O : O[id] \in MdOrder

(* The orders of O at one price of a side, and their quantities together. *)
AtPrice(O, d, p) == {id \in DOMAIN O : O[id].side = d /\ O[id].price = p}
MdAmounts(O) == [id \in DOMAIN O |-> O[id].quantity]
Shown(O, d, p) == SumFunctionOnSet(MdAmounts(O), AtPrice(O, d, p))

(* The levels ls are those of the orders O, said price by price. *)
SideExact(O, d, level) ==
    /\ level = [p \in DOMAIN level |-> level[p]]
    /\ \A p : p \in DOMAIN level <=> AtPrice(O, d, p) # {}
    /\ \A p \in DOMAIN level : level[p] = Shown(O, d, p)

Exact(O, ls) ==
    /\ ls = [d \in MdSides |-> ls[d]]
    /\ \A d \in MdSides : SideExact(O, d, ls[d])

(* The orders at a price are finitely many and each has a quantity. *)
LEMMA AtPriceFinite ==
    ASSUME NEW O, OrderMap(O), NEW d, NEW p
    PROVE  /\ IsFiniteSet(AtPrice(O, d, p))
           /\ AtPrice(O, d, p) \subseteq DOMAIN O
           /\ \A id \in AtPrice(O, d, p) : MdAmounts(O)[id] = O[id].quantity
           /\ \A id \in AtPrice(O, d, p) : MdAmounts(O)[id] \in Nat \ {0}
<1>1. AtPrice(O, d, p) \subseteq DOMAIN O
  BY DEF AtPrice
<1>2. IsFiniteSet(AtPrice(O, d, p))
  BY <1>1, FS_Subset DEF OrderMap
<1>3. \A id \in DOMAIN O : MdAmounts(O)[id] = O[id].quantity /\ O[id].quantity \in Nat \ {0}
  BY DEF OrderMap, MdOrder, MdAmounts
<1> QED
  BY <1>1, <1>2, <1>3

(* A level that has an order shows a quantity, at least that order's. *)
LEMMA ShownPositive ==
    ASSUME NEW O, OrderMap(O), NEW d, NEW p
    PROVE  /\ Shown(O, d, p) \in Nat
           /\ \A id \in AtPrice(O, d, p) : O[id].quantity <= Shown(O, d, p)
           /\ AtPrice(O, d, p) # {} => Shown(O, d, p) > 0
<1>1. /\ Shown(O, d, p) \in Nat
      /\ \A id \in AtPrice(O, d, p) : MdAmounts(O)[id] <= Shown(O, d, p)
  BY AtPriceFinite, SumNat DEF Shown
<1>2. \A id \in AtPrice(O, d, p) :
          MdAmounts(O)[id] = O[id].quantity /\ O[id].quantity \in Nat \ {0}
  BY AtPriceFinite
<1> QED
  BY <1>1, <1>2

(* Where the same orders are, the same quantity is shown. *)
LEMMA ShownSame ==
    ASSUME NEW O, OrderMap(O), NEW P, OrderMap(P), NEW d, NEW p,
           AtPrice(P, d, p) = AtPrice(O, d, p),
           \A id \in AtPrice(O, d, p) : P[id] = O[id]
    PROVE  Shown(P, d, p) = Shown(O, d, p)
<1>1. \A id \in AtPrice(O, d, p) : MdAmounts(O)[id] = MdAmounts(P)[id]
  BY AtPriceFinite
<1> QED
  BY <1>1, AtPriceFinite, SumAgree DEF Shown

(* With one order fewer at a price, its quantity is no longer shown. *)
LEMMA ShownWithout ==
    ASSUME NEW O, OrderMap(O), NEW P, OrderMap(P), NEW d, NEW p,
           NEW id \in AtPrice(O, d, p),
           AtPrice(P, d, p) = AtPrice(O, d, p) \ {id},
           \A i \in AtPrice(P, d, p) : P[i] = O[i]
    PROVE  Shown(O, d, p) = O[id].quantity + Shown(P, d, p)
<1> DEFINE S == AtPrice(O, d, p)
           T == AtPrice(P, d, p)
<1>1. /\ IsFiniteSet(S) /\ \A i \in S : MdAmounts(O)[i] \in Int
      /\ MdAmounts(O)[id] = O[id].quantity
  BY AtPriceFinite
<1>2. IsFiniteSet(T) /\ \A i \in T : MdAmounts(P)[i] = MdAmounts(O)[i]
  <2>1. \A i \in T : MdAmounts(P)[i] = P[i].quantity
    BY AtPriceFinite
  <2>2. \A i \in S : MdAmounts(O)[i] = O[i].quantity
    BY AtPriceFinite
  <2>3. T \subseteq S
    OBVIOUS
  <2> QED
    BY <2>1, <2>2, <2>3, AtPriceFinite
<1>3. SumFunctionOnSet(MdAmounts(O), S)
        = MdAmounts(O)[id] + SumFunctionOnSet(MdAmounts(O), S \ {id})
  BY <1>1, SumRemove
<1>4. SumFunctionOnSet(MdAmounts(P), T) = SumFunctionOnSet(MdAmounts(O), T)
  BY <1>2, SumAgree
<1> QED
  BY <1>1, <1>3, <1>4 DEF Shown

-----------------------------------------------------------------------------
(* P is O without the order id. *)
LessOne(O, P, id) ==
    /\ DOMAIN P = DOMAIN O \ {id}
    /\ \A i \in DOMAIN P : P[i] = O[i]

(* Without one order, its level shows its quantity less, and every other     *)
(* level the same.                                                           *)
LEMMA LessOneAt ==
    ASSUME NEW O, OrderMap(O), NEW P, OrderMap(P), NEW id \in DOMAIN O, LessOne(O, P, id),
           NEW d, NEW p
    PROVE  /\ AtPrice(P, d, p) = AtPrice(O, d, p) \ {id}
           /\ \A i \in AtPrice(P, d, p) : P[i] = O[i]
           /\ id \in AtPrice(O, d, p) <=> (d = O[id].side /\ p = O[id].price)
           /\ id \in AtPrice(O, d, p) => Shown(O, d, p) = O[id].quantity + Shown(P, d, p)
           /\ id \notin AtPrice(O, d, p) => Shown(P, d, p) = Shown(O, d, p)
<1>1. AtPrice(P, d, p) = AtPrice(O, d, p) \ {id} /\ \A i \in AtPrice(P, d, p) : P[i] = O[i]
  BY DEF AtPrice, LessOne
<1>2. id \in AtPrice(O, d, p) <=> (d = O[id].side /\ p = O[id].price)
  BY DEF AtPrice
<1>3. id \in AtPrice(O, d, p) => Shown(O, d, p) = O[id].quantity + Shown(P, d, p)
  BY <1>1, ShownWithout
<1>4. id \notin AtPrice(O, d, p) => Shown(P, d, p) = Shown(O, d, p)
  <2> SUFFICES ASSUME id \notin AtPrice(O, d, p) PROVE Shown(P, d, p) = Shown(O, d, p)
    OBVIOUS
  <2>1. AtPrice(P, d, p) = AtPrice(O, d, p) /\ \A i \in AtPrice(O, d, p) : P[i] = O[i]
    BY <1>1
  <2> QED
    BY <2>1, ShownSame
<1> QED
  BY <1>1, <1>2, <1>3, <1>4

(* Erasing an order is a map without it. *)
LEMMA ErasedOrder ==
    ASSUME NEW O, OrderMap(O), NEW id \in DOMAIN O
    PROVE  OrderMap(Erased(O, id)) /\ LessOne(O, Erased(O, id), id)
<1> DEFINE P == Erased(O, id)
<1>1. /\ DOMAIN P = DOMAIN O \ {id} /\ P = [x \in DOMAIN P |-> P[x]]
      /\ \A x \in DOMAIN P : P[x] = O[x]
  BY ErasedFacts
<1>2. IsFiniteSet(DOMAIN P)
  BY <1>1, FS_Subset DEF OrderMap
<1> QED
  BY <1>1, <1>2 DEF OrderMap, LessOne

(* Storing an order under an id that is free. *)
LEMMA AddedOrder ==
    ASSUME NEW O, OrderMap(O), NEW id, id \notin DOMAIN O, NEW order \in MdOrder
    PROVE  /\ OrderMap(WithEntry(O, id, order))
           /\ LessOne(WithEntry(O, id, order), O, id)
           /\ id \in DOMAIN WithEntry(O, id, order)
           /\ WithEntry(O, id, order)[id] = order
<1> DEFINE P == WithEntry(O, id, order)
<1>1. /\ DOMAIN P = DOMAIN O \cup {id} /\ P = [x \in DOMAIN P |-> P[x]]
      /\ P[id] = order
      /\ \A x \in DOMAIN O \ {id} : P[x] = O[x]
  BY DEF WithEntry
<1>2. IsFiniteSet(DOMAIN P)
  BY <1>1, FS_AddElement DEF OrderMap
<1>3. \A i \in DOMAIN P : P[i] \in MdOrder
  BY <1>1 DEF OrderMap
<1>4. DOMAIN O = DOMAIN P \ {id} /\ \A i \in DOMAIN O : O[i] = P[i]
  BY <1>1
<1> QED
  BY <1>1, <1>2, <1>3, <1>4 DEF OrderMap, LessOne

-----------------------------------------------------------------------------
(* A side none of whose orders changed keeps its levels. *)
LEMMA SideKept ==
    ASSUME NEW O, NEW P, NEW d, NEW level, SideExact(O, d, level),
           \A p : AtPrice(P, d, p) = AtPrice(O, d, p) /\ Shown(P, d, p) = Shown(O, d, p)
    PROVE  SideExact(P, d, level)
BY DEF SideExact

(* Both sides are exact when one is replaced by its new levels and the other *)
(* has the orders it had.                                                   *)
LEMMA OneSide ==
    ASSUME NEW O, NEW P, NEW ls, Exact(O, ls), NEW d \in MdSides, NEW level,
           SideExact(P, d, level),
           \A e \in MdSides \ {d} : \A p :
               AtPrice(P, e, p) = AtPrice(O, e, p) /\ Shown(P, e, p) = Shown(O, e, p)
    PROVE  Exact(P, [ls EXCEPT ![d] = level])
<1> DEFINE new == [ls EXCEPT ![d] = level]
<1>1. new = [e \in MdSides |-> new[e]] /\ new[d] = level /\ \A e \in MdSides \ {d} : new[e] = ls[e]
  BY DEF Exact
<1>2. \A e \in MdSides \ {d} : SideExact(P, e, ls[e])
  <2> TAKE e \in MdSides \ {d}
  <2>1. SideExact(O, e, ls[e])
    BY DEF Exact
  <2> QED
    BY <2>1, SideKept
<1>3. \A e \in MdSides : SideExact(P, e, new[e])
  BY <1>1, <1>2
<1> HIDE DEF new
<1>4. Exact(P, new)
  BY <1>1, <1>3 DEF Exact
<1> QED
  BY <1>4 DEF new

(* The level an order leaves has that order's quantity and that of the      *)
(* others, which is 0 only when there are none.                             *)
LEMMA LevelLeft ==
    ASSUME NEW O, OrderMap(O), NEW P, OrderMap(P), NEW id \in DOMAIN O, LessOne(O, P, id),
           NEW level, SideExact(O, O[id].side, level)
    PROVE  LET d == O[id].side
               p == O[id].price
               q == O[id].quantity
           IN /\ p \in DOMAIN level
              /\ q \in Nat \ {0} /\ level[p] = q + Shown(P, d, p) /\ Shown(P, d, p) \in Nat
              /\ Shown(P, d, p) = 0 <=> AtPrice(P, d, p) = {}
              /\ \A x : x # p =>
                    AtPrice(P, d, x) = AtPrice(O, d, x) /\ Shown(P, d, x) = Shown(O, d, x)
<1> DEFINE d == O[id].side
           p == O[id].price
           q == O[id].quantity
<1>1. id \in AtPrice(O, d, p) /\ q \in Nat \ {0}
  BY DEF AtPrice, OrderMap, MdOrder
<1>2. p \in DOMAIN level /\ level[p] = Shown(O, d, p)
  BY <1>1 DEF SideExact
<1>3. Shown(O, d, p) = q + Shown(P, d, p)
  BY <1>1, LessOneAt
<1>4. Shown(P, d, p) \in Nat /\ (AtPrice(P, d, p) # {} => Shown(P, d, p) > 0)
  BY ShownPositive
<1>5. AtPrice(P, d, p) = {} => Shown(P, d, p) = 0
  BY SumEmpty DEF Shown
<1>6. ASSUME NEW x, x # p
      PROVE  AtPrice(P, d, x) = AtPrice(O, d, x) /\ Shown(P, d, x) = Shown(O, d, x)
  <2>1. id \notin AtPrice(O, d, x)
    BY <1>6 DEF AtPrice
  <2> QED
    BY <2>1, LessOneAt
<1> QED
  BY <1>1, <1>2, <1>3, <1>4, <1>5, <1>6

(* remove_quantity on the order's own side: the level goes with its last     *)
(* order, and else shows what the others have.                               *)
LEMMA SideLess ==
    ASSUME NEW O, OrderMap(O), NEW P, OrderMap(P), NEW id \in DOMAIN O, LessOne(O, P, id),
           NEW level, SideExact(O, O[id].side, level)
    PROVE  LET d == O[id].side
               p == O[id].price
               q == O[id].quantity
           IN /\ level[p] - q <= 0 => SideExact(P, d, Erased(level, p))
              /\ level[p] - q > 0 => SideExact(P, d, [level EXCEPT ![p] = level[p] - q])
<1> DEFINE d == O[id].side
           p == O[id].price
           q == O[id].quantity
<1>1. /\ p \in DOMAIN level
      /\ q \in Nat \ {0} /\ level[p] = q + Shown(P, d, p) /\ Shown(P, d, p) \in Nat
  BY LevelLeft
<1>0. Shown(P, d, p) = 0 <=> AtPrice(P, d, p) = {}
  BY LevelLeft
<1>2. \A x : x # p => AtPrice(P, d, x) = AtPrice(O, d, x) /\ Shown(P, d, x) = Shown(O, d, x)
  BY LevelLeft
<1> HIDE DEF d, p, q
<1>3. SideExact(O, d, level)
  BY DEF d
<1>4. ASSUME level[p] - q <= 0 PROVE SideExact(P, d, Erased(level, p))
  <2> DEFINE new == Erased(level, p)
  <2>1. /\ DOMAIN new = DOMAIN level \ {p} /\ new = [x \in DOMAIN new |-> new[x]]
        /\ \A x \in DOMAIN new : new[x] = level[x]
    BY ErasedFacts
  <2>2. AtPrice(P, d, p) = {}
    BY <1>0, <1>1, <1>4
  <2> HIDE DEF new
  <2>3. SideExact(P, d, new)
    BY <1>2, <1>3, <2>1, <2>2 DEF SideExact
  <2> QED
    BY <2>3 DEF new
<1>5. ASSUME level[p] - q > 0 PROVE SideExact(P, d, [level EXCEPT ![p] = level[p] - q])
  <2> DEFINE new == [level EXCEPT ![p] = level[p] - q]
  <2>1. /\ DOMAIN new = DOMAIN level /\ new = [x \in DOMAIN new |-> new[x]]
        /\ \A x \in DOMAIN new \ {p} : new[x] = level[x]
        /\ new[p] = Shown(P, d, p)
    BY <1>1
  <2>2. AtPrice(P, d, p) # {}
    BY <1>0, <1>1, <1>5
  <2> HIDE DEF new
  <2>3. SideExact(P, d, new)
    BY <1>1, <1>2, <1>3, <2>1, <2>2 DEF SideExact
  <2> QED
    BY <2>3 DEF new
<1> QED
  BY <1>4, <1>5 DEF d, p, q

(* remove_quantity with all of an order's quantity leaves the levels of the  *)
(* other orders: the level is there, has at least that quantity, and goes    *)
(* with its last order.                                                     *)
LEMMA RemoveExact ==
    ASSUME NEW O, OrderMap(O), NEW P, OrderMap(P), NEW id \in DOMAIN O, LessOne(O, P, id),
           NEW ls, Exact(O, ls)
    PROVE  Exact(P, remove_quantity(ls, O[id].side, O[id].price, O[id].quantity))
<1> DEFINE d == O[id].side
           p == O[id].price
           q == O[id].quantity
<1>1. d \in MdSides /\ SideExact(O, d, ls[d])
  BY DEF OrderMap, MdOrder, Exact
<1>2. p \in DOMAIN ls[d] /\ q \in Nat \ {0} /\ ls[d][p] \in Nat
  <2>1. /\ p \in DOMAIN ls[d]
        /\ q \in Nat \ {0} /\ ls[d][p] = q + Shown(P, d, p) /\ Shown(P, d, p) \in Nat
    BY <1>1, LevelLeft
  <2> QED
    BY <2>1
<1>3. \A e \in MdSides \ {d} : \A x :
          AtPrice(P, e, x) = AtPrice(O, e, x) /\ Shown(P, e, x) = Shown(O, e, x)
  <2> TAKE e \in MdSides \ {d}
  <2> TAKE x
  <2>1. id \notin AtPrice(O, e, x)
    BY DEF AtPrice
  <2> QED
    BY <2>1, LessOneAt
<1>4. /\ ls[d][p] - q <= 0 => SideExact(P, d, Erased(ls[d], p))
      /\ ls[d][p] - q > 0 => SideExact(P, d, [ls[d] EXCEPT ![p] = ls[d][p] - q])
  BY <1>1, SideLess
<1> HIDE DEF d, p, q
<1>5. CASE ls[d][p] - q <= 0
  <2>1. remove_quantity(ls, d, p, q) = [ls EXCEPT ![d] = Erased(ls[d], p)]
    BY <1>1, <1>2, <1>5 DEF remove_quantity
  <2>2. Exact(P, [ls EXCEPT ![d] = Erased(ls[d], p)])
    BY <1>1, <1>3, <1>4, <1>5, OneSide
  <2> QED
    BY <2>1, <2>2 DEF d, p, q
<1>6. CASE ls[d][p] - q > 0
  <2>1. remove_quantity(ls, d, p, q) = [ls EXCEPT ![d] = [ls[d] EXCEPT ![p] = ls[d][p] - q]]
    BY <1>1, <1>2, <1>6 DEF remove_quantity
  <2> DEFINE new == [ls[d] EXCEPT ![p] = ls[d][p] - q]
  <2>2. SideExact(P, d, new)
    BY <1>4, <1>6
  <2> HIDE DEF new
  <2>3. Exact(P, [ls EXCEPT ![d] = new])
    BY <1>1, <1>3, <2>2, OneSide
  <2> QED
    BY <2>1, <2>3 DEF d, p, q, new
<1> QED
  BY <1>2, <1>5, <1>6

(* add_quantity with an order's quantity shows the orders with it. *)
LEMMA AddExact ==
    ASSUME NEW O, OrderMap(O), NEW P, OrderMap(P), NEW id \in DOMAIN P, LessOne(P, O, id),
           NEW ls, Exact(O, ls)
    PROVE  Exact(P, add_quantity(ls, P[id].side, P[id].price, P[id].quantity))
<1> DEFINE d == P[id].side
           p == P[id].price
           q == P[id].quantity
           had == IF p \in DOMAIN ls[d] THEN ls[d][p] ELSE 0
           new == WithEntry(ls[d], p, q + had)
<1>1. d \in MdSides /\ SideExact(O, d, ls[d]) /\ q \in Nat \ {0}
  BY DEF OrderMap, MdOrder, Exact
<1>2. id \in AtPrice(P, d, p) /\ Shown(P, d, p) = q + Shown(O, d, p)
  <2>1. id \in AtPrice(P, d, p)
    BY DEF AtPrice
  <2> QED
    BY <2>1, LessOneAt
<1>3. had = Shown(O, d, p)
  <2>1. CASE p \in DOMAIN ls[d]
    BY <1>1, <2>1 DEF SideExact
  <2>2. CASE p \notin DOMAIN ls[d]
    <3>1. AtPrice(O, d, p) = {}
      BY <1>1, <2>2 DEF SideExact
    <3> QED
      BY <2>2, <3>1, SumEmpty DEF Shown
  <2> QED
    BY <2>1, <2>2
<1>4. \A e, x : (e # d \/ x # p) =>
          AtPrice(P, e, x) = AtPrice(O, e, x) /\ Shown(P, e, x) = Shown(O, e, x)
  <2> SUFFICES ASSUME NEW e, NEW x, e # d \/ x # p
               PROVE  AtPrice(P, e, x) = AtPrice(O, e, x) /\ Shown(P, e, x) = Shown(O, e, x)
    OBVIOUS
  <2>1. id \notin AtPrice(P, e, x)
    BY DEF AtPrice
  <2>2. AtPrice(O, e, x) = AtPrice(P, e, x) \ {id} /\ Shown(O, e, x) = Shown(P, e, x)
    BY <2>1, LessOneAt
  <2> QED
    BY <2>1, <2>2
<1>5. /\ DOMAIN new = DOMAIN ls[d] \cup {p} /\ new = [x \in DOMAIN new |-> new[x]]
      /\ new[p] = q + had
      /\ \A x \in DOMAIN ls[d] \ {p} : new[x] = ls[d][x]
  BY DEF WithEntry
<1>6. add_quantity(ls, d, p, q) = [ls EXCEPT ![d] = new]
  BY <1>1 DEF add_quantity, Exact
<1> HIDE DEF d, p, q, had, new
<1>7. SideExact(P, d, new)
  <2>1. \A x : x \in DOMAIN new <=> AtPrice(P, d, x) # {}
    BY <1>1, <1>2, <1>4, <1>5 DEF SideExact
  <2>2. \A x \in DOMAIN new : new[x] = Shown(P, d, x)
    BY <1>1, <1>2, <1>3, <1>4, <1>5 DEF SideExact
  <2> QED
    BY <1>5, <2>1, <2>2 DEF SideExact
<1>8. Exact(P, [ls EXCEPT ![d] = new])
  BY <1>1, <1>4, <1>7, OneSide
<1> QED
  BY <1>6, <1>8 DEF d, p, q

(* The order id with quantity left of what it had. *)
Left(O, id, left) == [O EXCEPT ![id].quantity = left]

(* Changing an order's quantity changes nothing else of it and no other      *)
(* order.                                                                    *)
LEMMA LeftFacts ==
    ASSUME NEW O, OrderMap(O), NEW id \in DOMAIN O, NEW left \in Nat \ {0}
    PROVE  /\ OrderMap(Left(O, id, left)) /\ DOMAIN Left(O, id, left) = DOMAIN O
           /\ \A i \in DOMAIN O \ {id} : Left(O, id, left)[i] = O[i]
           /\ Left(O, id, left)[id].side = O[id].side
           /\ Left(O, id, left)[id].price = O[id].price
           /\ Left(O, id, left)[id].quantity = left
<1> DEFINE P == Left(O, id, left)
<1>1. O[id] \in MdOrder /\ O = [i \in DOMAIN O |-> O[i]]
  BY DEF OrderMap
<1>2. DOMAIN P = DOMAIN O /\ P = [i \in DOMAIN P |-> P[i]]
  BY <1>1 DEF Left
<1>3. \A i \in DOMAIN O \ {id} : P[i] = O[i]
  BY <1>1 DEF Left
<1>4. P[id] = [O[id] EXCEPT !.quantity = left]
  BY <1>1 DEF Left
<1>5. /\ P[id] \in MdOrder /\ P[id].side = O[id].side /\ P[id].price = O[id].price
      /\ P[id].quantity = left
  BY <1>1, <1>4 DEF MdOrder
<1> HIDE DEF P
<1>6. OrderMap(P)
  BY <1>2, <1>3, <1>5 DEF OrderMap
<1> QED
  BY <1>2, <1>3, <1>5, <1>6 DEF P

(* remove_quantity with part of an order's quantity. *)
LEMMA ReduceExact ==
    ASSUME NEW O, OrderMap(O), NEW id \in DOMAIN O, NEW ls, Exact(O, ls),
           NEW part \in Nat, part < O[id].quantity
    PROVE  Exact(Left(O, id, O[id].quantity - part),
                 remove_quantity(ls, O[id].side, O[id].price, part))
<1> DEFINE d == O[id].side
           p == O[id].price
           q == O[id].quantity
           P == Left(O, id, q - part)
<1>1. d \in MdSides /\ SideExact(O, d, ls[d]) /\ q \in Nat \ {0} /\ q - part \in Nat \ {0}
  BY DEF OrderMap, MdOrder, Exact
<1>2. /\ OrderMap(P) /\ DOMAIN P = DOMAIN O
      /\ \A i \in DOMAIN O \ {id} : P[i] = O[i]
      /\ P[id].side = d /\ P[id].price = p /\ P[id].quantity = q - part
  BY <1>1, LeftFacts
<1> HIDE DEF P
<1>3. \A e, x : AtPrice(P, e, x) = AtPrice(O, e, x)
  BY <1>2 DEF AtPrice
<1>4. \A e, x : (e # d \/ x # p) => Shown(P, e, x) = Shown(O, e, x)
  <2> SUFFICES ASSUME NEW e, NEW x, e # d \/ x # p PROVE Shown(P, e, x) = Shown(O, e, x)
    OBVIOUS
  <2>1. \A i \in AtPrice(O, e, x) : P[i] = O[i]
    BY <1>2 DEF AtPrice
  <2> QED
    BY <1>2, <1>3, <2>1, ShownSame
<1>5. id \in AtPrice(O, d, p)
  BY DEF AtPrice
<1>6. Shown(P, d, p) = Shown(O, d, p) - part
  <2> DEFINE S == AtPrice(O, d, p)
             f == MdAmounts(O)
             g == MdAmounts(P)
  <2>1. /\ IsFiniteSet(S)
        /\ \A i \in S : f[i] = O[i].quantity
        /\ \A i \in S : f[i] \in Nat \ {0}
    BY AtPriceFinite
  <2>2. /\ \A i \in S : g[i] = P[i].quantity
        /\ \A i \in S : g[i] \in Nat \ {0}
    BY <1>2, <1>3, AtPriceFinite
  <2>3. \A i \in S \ {id} : g[i] = f[i]
    BY <1>2, <2>1, <2>2 DEF AtPrice
  <2>4. f[id] = q /\ g[id] = q - part
    BY <1>2, <1>5, <2>1, <2>2
  <2>5. \A i \in S : f[i] \in Int /\ g[i] \in Int
    BY <2>1, <2>2
  <2> HIDE DEF f, g, S
  <2>6. SumFunctionOnSet(g, S) = (SumFunctionOnSet(f, S) - f[id]) + g[id]
    BY <1>5, <2>1, <2>3, <2>5, SumChange DEF S
  <2>7. Shown(O, d, p) = SumFunctionOnSet(f, S) /\ Shown(P, d, p) = SumFunctionOnSet(g, S)
    BY <1>3 DEF Shown, f, g, S
  <2>8. SumFunctionOnSet(f, S) \in Nat
    BY <2>7, ShownPositive
  <2> QED
    BY <1>1, <2>4, <2>6, <2>7, <2>8
<1>7. /\ p \in DOMAIN ls[d] /\ ls[d][p] = Shown(O, d, p) /\ Shown(O, d, p) \in Nat
      /\ q <= Shown(O, d, p)
  <2>1. p \in DOMAIN ls[d] /\ ls[d][p] = Shown(O, d, p)
    BY <1>1, <1>5 DEF SideExact
  <2> QED
    BY <1>5, <2>1, ShownPositive
<1> DEFINE new == [ls[d] EXCEPT ![p] = ls[d][p] - part]
<1>8. remove_quantity(ls, d, p, part) = [ls EXCEPT ![d] = new]
  <2>1. ls[d][p] - part > 0
    BY <1>1, <1>7
  <2> QED
    BY <1>1, <1>7, <2>1 DEF remove_quantity
<1>9. /\ DOMAIN new = DOMAIN ls[d] /\ new = [x \in DOMAIN new |-> new[x]]
      /\ \A x \in DOMAIN new \ {p} : new[x] = ls[d][x]
      /\ new[p] = Shown(P, d, p)
  BY <1>6, <1>7
<1> HIDE DEF d, p, q, new
<1>10. SideExact(P, d, new)
  BY <1>1, <1>3, <1>4, <1>9 DEF SideExact
<1>11. Exact(P, [ls EXCEPT ![d] = new])
  BY <1>1, <1>3, <1>4, <1>10, OneSide
<1> QED
  BY <1>8, <1>11 DEF d, p, q, P

-----------------------------------------------------------------------------
(* The inductive invariant: the orders are typed and finitely many, and      *)
(* the levels are exact for them.                                            *)
BookInv ==
    /\ OrderMap(md_orders)
    /\ Exact(md_orders, levels)
    /\ DOMAIN md_orders \subseteq MdIds \ {0}
    /\ \A id \in DOMAIN md_orders : md_orders[id].price \in MdPrices

(* Orders of the ids and prices of the events. *)
Listed(O) == DOMAIN O \subseteq MdIds \ {0} /\ \A id \in DOMAIN O : O[id].price \in MdPrices

(* The empty book, at the start and after clear. *)
LEMMA EmptyBook ==
    /\ OrderMap(NoEntries)
    /\ Exact(NoEntries, [d \in MdSides |-> NoEntries])
    /\ Listed(NoEntries)
<1>1. DOMAIN NoEntries = {} /\ NoEntries = [x \in DOMAIN NoEntries |-> NoEntries[x]]
  BY DEF NoEntries
<1>2. OrderMap(NoEntries) /\ Listed(NoEntries)
  BY <1>1, FS_EmptySet DEF OrderMap, Listed
<1>3. \A d, p : AtPrice(NoEntries, d, p) = {}
  BY <1>1 DEF AtPrice
<1>4. \A d : SideExact(NoEntries, d, NoEntries)
  BY <1>1, <1>3 DEF SideExact
<1> QED
  BY <1>2, <1>4 DEF Exact

(* To replace an order is to erase it and to store the new one: so           *)
(* modify_order is a cancel and an add.                                      *)
LEMMA ReplacedOrder ==
    ASSUME NEW O, OrderMap(O), NEW id \in DOMAIN O, NEW order
    PROVE  [O EXCEPT ![id] = order] = WithEntry(Erased(O, id), id, order)
BY DEF OrderMap, WithEntry, Erased, Restrict

(* Every event keeps the invariant. *)
LEMMA StepBookInv == BookInv /\ [BookNext]_bookVars => BookInv'
<1> SUFFICES ASSUME BookInv, [BookNext]_bookVars PROVE BookInv'
  OBVIOUS
<1> USE DEF has_order
<1>0. OrderMap(md_orders) /\ Exact(md_orders, levels) /\ Listed(md_orders)
  BY DEF BookInv, Listed
<1>s. SUFFICES OrderMap(md_orders') /\ Exact(md_orders', levels') /\ Listed(md_orders')
  BY DEF BookInv, Listed
<1>1. ASSUME NEW id \in MdIds, NEW d \in MdSides, NEW p \in MdPrices, NEW q \in MdQuantities,
             add_order(id, d, p, q)
      PROVE  OrderMap(md_orders') /\ Exact(md_orders', levels') /\ Listed(md_orders')
  <2> DEFINE order == [side |-> d, price |-> p, quantity |-> q]
             P == WithEntry(md_orders, id, order)
  <2>1. order \in MdOrder /\ order.side = d /\ order.price = p /\ order.quantity = q
    BY <1>1, BookAssumption DEF add_order, MdOrder
  <2>2. /\ id # 0 /\ id \notin DOMAIN md_orders
        /\ md_orders' = P /\ levels' = add_quantity(levels, d, p, q)
    BY <1>1 DEF add_order
  <2> HIDE DEF order
  <2>3. OrderMap(P) /\ LessOne(P, md_orders, id) /\ id \in DOMAIN P /\ P[id] = order
    BY <1>0, <2>1, <2>2, AddedOrder
  <2> HIDE DEF P
  <2>4. Exact(P, add_quantity(levels, d, p, q))
    BY <1>0, <2>1, <2>3, AddExact
  <2>5. Listed(P)
    BY <1>0, <2>1, <2>2, <2>3 DEF Listed, LessOne
  <2> QED
    BY <2>2, <2>3, <2>4, <2>5
<1>2. ASSUME NEW id \in MdIds, NEW d \in MdSides, NEW p \in MdPrices, NEW q \in MdQuantities,
             modify_order(id, d, p, q)
      PROVE  OrderMap(md_orders') /\ Exact(md_orders', levels') /\ Listed(md_orders')
  <2> DEFINE old == md_orders[id]
             order == [side |-> d, price |-> p, quantity |-> q]
             E == Erased(md_orders, id)
             P == WithEntry(E, id, order)
             without == remove_quantity(levels, old.side, old.price, old.quantity)
  <2>1. order \in MdOrder /\ order.side = d /\ order.price = p /\ order.quantity = q
    BY <1>2, BookAssumption DEF modify_order, MdOrder
  <2>2. /\ id \in DOMAIN md_orders /\ md_orders' = [md_orders EXCEPT ![id] = order]
        /\ levels' = add_quantity(without, d, p, q)
    BY <1>2 DEF modify_order
  <2> HIDE DEF order
  <2>3. md_orders' = P
    BY <1>0, <2>2, ReplacedOrder
  <2>4. OrderMap(E) /\ LessOne(md_orders, E, id) /\ id \notin DOMAIN E
    BY <1>0, <2>2, ErasedOrder DEF LessOne
  <2>5. Exact(E, without)
    BY <1>0, <2>2, <2>4, RemoveExact
  <2> HIDE DEF E, without
  <2>6. OrderMap(P) /\ LessOne(P, E, id) /\ id \in DOMAIN P /\ P[id] = order
    BY <2>1, <2>4, AddedOrder
  <2> HIDE DEF P
  <2>7. Exact(P, add_quantity(without, d, p, q))
    BY <2>1, <2>4, <2>5, <2>6, AddExact
  <2>8. Listed(P)
    BY <1>0, <2>1, <2>2, <2>4, <2>6 DEF Listed, LessOne
  <2> QED
    BY <2>2, <2>3, <2>6, <2>7, <2>8
<1>3. ASSUME NEW id \in DOMAIN md_orders
      PROVE  LET old == md_orders[id] IN
             /\ OrderMap(Erased(md_orders, id)) /\ Listed(Erased(md_orders, id))
             /\ Exact(Erased(md_orders, id),
                      remove_quantity(levels, old.side, old.price, old.quantity))
  <2>1. OrderMap(Erased(md_orders, id)) /\ LessOne(md_orders, Erased(md_orders, id), id)
    BY <1>0, ErasedOrder
  <2>2. Listed(Erased(md_orders, id))
    BY <1>0, <2>1 DEF Listed, LessOne
  <2>3. Exact(Erased(md_orders, id),
              remove_quantity(levels, md_orders[id].side, md_orders[id].price,
                              md_orders[id].quantity))
    BY <1>0, <2>1, RemoveExact
  <2> QED
    BY <2>1, <2>2, <2>3
<1>4. ASSUME NEW id \in MdIds, cancel_order(id)
      PROVE  OrderMap(md_orders') /\ Exact(md_orders', levels') /\ Listed(md_orders')
  BY <1>3, <1>4 DEF cancel_order
<1>5. ASSUME NEW id \in MdIds, NEW q \in MdQuantities, trade_order(id, q)
      PROVE  OrderMap(md_orders') /\ Exact(md_orders', levels') /\ Listed(md_orders')
  <2> DEFINE old == md_orders[id]
             traded == Traded(old, q)
  <2>1. /\ id \in DOMAIN md_orders
        /\ levels' = remove_quantity(levels, old.side, old.price, traded)
        /\ md_orders' = IF old.quantity = traded THEN Erased(md_orders, id)
                        ELSE [md_orders EXCEPT ![id].quantity = @ - traded]
    BY <1>5 DEF trade_order
  <2>2. old.quantity \in Nat \ {0} /\ q \in Nat /\ traded \in Nat /\ traded <= old.quantity
    BY <1>0, <2>1, BookAssumption DEF OrderMap, MdOrder, Traded
  <2> HIDE DEF traded
  <2>3. CASE old.quantity = traded
    BY <1>3, <2>1, <2>3
  <2>4. CASE old.quantity # traded
    <3> DEFINE P == Left(md_orders, id, old.quantity - traded)
    <3>1. md_orders' = P
      BY <2>1, <2>4 DEF Left
    <3>2. old.quantity - traded \in Nat \ {0} /\ traded < old.quantity
      BY <2>2, <2>4
    <3>3. Exact(P, levels')
      BY <1>0, <2>1, <2>2, <3>2, ReduceExact
    <3>4. /\ OrderMap(P) /\ DOMAIN P = DOMAIN md_orders
          /\ \A i \in DOMAIN md_orders \ {id} : P[i] = md_orders[i]
          /\ P[id].price = md_orders[id].price
      BY <1>0, <2>1, <3>2, LeftFacts
    <3> HIDE DEF P
    <3>5. Listed(P)
      BY <1>0, <2>1, <3>4 DEF Listed
    <3> QED
      BY <3>1, <3>3, <3>4, <3>5
  <2> QED
    BY <2>3, <2>4
<1>6. CASE clear
  BY <1>6, EmptyBook DEF clear
<1>7. CASE UNCHANGED bookVars
  BY <1>0, <1>7 DEF bookVars
<1> QED
  BY <1>1, <1>2, <1>4, <1>5, <1>6, <1>7 DEF BookNext

(* It holds always. *)
LEMMA BookInvariant == BookSpec => []BookInv
<1>1. BookInit => BookInv
  BY EmptyBook DEF BookInit, BookInv, Listed
<1> QED
  BY <1>1, StepBookInv, PTL DEF BookSpec

(* The prices shown on a side are those of its orders: positive and          *)
(* finitely many.                                                            *)
LEMMA PricesOfOrders ==
    ASSUME NEW O, OrderMap(O), NEW d, NEW level, SideExact(O, d, level)
    PROVE  /\ DOMAIN level = {O[id].price : id \in {i \in DOMAIN O : O[i].side = d}}
           /\ DOMAIN level \subseteq Nat \ {0}
           /\ IsFiniteSet(DOMAIN level)
<1> DEFINE ids == {i \in DOMAIN O : O[i].side = d}
           f == [id \in ids |-> O[id].price]
<1>1. DOMAIN level = {O[id].price : id \in ids}
  <2>1. \A p : p \in DOMAIN level <=> \E id \in ids : O[id].price = p
    BY DEF SideExact, AtPrice
  <2> QED
    BY <2>1
<1>2. DOMAIN level \subseteq Nat \ {0}
  BY <1>1 DEF OrderMap, MdOrder
<1>3. IsFiniteSet(ids)
  BY FS_Subset DEF OrderMap
<1>4. f \in Surjection(ids, DOMAIN level)
  BY <1>1 DEF Surjection
<1> HIDE DEF f
<1>5. IsFiniteSet(DOMAIN level)
  BY <1>3, <1>4, FS_Surjection
<1> QED
  BY <1>1, <1>2, <1>5

(* For any ids, prices and quantities and any sequence of events, the        *)
(* levels that add_quantity and remove_quantity maintain are the sums of     *)
(* the orders.                                                               *)
THEOREM BookLevelsExact == BookSpec => []LevelsExact
<1>1. BookInv => LevelsExact
  <2> SUFFICES ASSUME BookInv, NEW d \in MdSides
               PROVE  levels[d] =
                        [p \in {md_orders[id].price : id \in {i \in DOMAIN md_orders :
                                                            md_orders[i].side = d}} |->
                            SumFunctionOnSet([id \in DOMAIN md_orders |-> md_orders[id].quantity],
                             OrdersAt(d, p))]
    BY DEF LevelsExact
  <2>1. OrderMap(md_orders) /\ SideExact(md_orders, d, levels[d])
    BY DEF BookInv, Exact
  <2>2. DOMAIN levels[d] = {md_orders[id].price : id \in {i \in DOMAIN md_orders :
                                                            md_orders[i].side = d}}
    BY <2>1, PricesOfOrders
  <2>3. levels[d] = [p \in DOMAIN levels[d] |-> levels[d][p]]
    BY <2>1 DEF SideExact
  <2>4. \A p \in DOMAIN levels[d] : levels[d][p] =
            SumFunctionOnSet([id \in DOMAIN md_orders |-> md_orders[id].quantity], OrdersAt(d, p))
    BY <2>1 DEF SideExact, Shown, MdAmounts, AtPrice, OrdersAt
  <2>5. levels[d] = [p \in DOMAIN levels[d] |->
            SumFunctionOnSet([id \in DOMAIN md_orders |-> md_orders[id].quantity], OrdersAt(d, p))]
    BY <2>3, <2>4, Zenon
  <2> QED
    BY <2>2, <2>5, Zenon
<1> QED
  BY <1>1, BookInvariant, PTL

(* The invariant types the book. *)
LEMMA BookTyped == BookInv => BookTypeOK
<1> SUFFICES ASSUME BookInv PROVE BookTypeOK
  OBVIOUS
<1>0. OrderMap(md_orders) /\ \A d \in MdSides : SideExact(md_orders, d, levels[d])
  BY DEF BookInv, Exact
<1>1. \A id \in DOMAIN md_orders :
        md_orders[id] \in [side : MdSides, price : MdPrices \ {0}, quantity : Nat \ {0}]
  BY DEF BookInv, OrderMap, MdOrder
<1>2. ASSUME NEW d \in MdSides
      PROVE  /\ DOMAIN levels[d] \subseteq MdPrices \ {0}
             /\ \A p \in DOMAIN levels[d] : levels[d][p] \in Nat
  <2>1. DOMAIN levels[d] = {md_orders[id].price : id \in {i \in DOMAIN md_orders :
                                                          md_orders[i].side = d}}
    BY <1>0, PricesOfOrders
  <2>2. DOMAIN levels[d] \subseteq MdPrices \ {0}
    BY <1>1, <2>1
  <2>3. \A p \in DOMAIN levels[d] : levels[d][p] = Shown(md_orders, d, p)
    BY <1>0 DEF SideExact
  <2>4. \A p : Shown(md_orders, d, p) \in Nat
    BY <1>0, ShownPositive
  <2> QED
    BY <2>2, <2>3, <2>4
<1> QED
  BY <1>1, <1>2 DEF BookInv, BookTypeOK

(* The book's types: no order and no level ever has a price or an order a    *)
(* quantity of 0.                                                            *)
THEOREM BookTypes == BookSpec => []BookTypeOK
BY BookInvariant, BookTyped, PTL

-----------------------------------------------------------------------------
(* s lists the prices S of a side in the order of its map. *)
RanksAll(side, S, s) ==
    /\ s \in [1 .. Cardinality(S) -> S]
    /\ \A k, l \in DOMAIN s : k < l => Ranks(side, s[k], s[l])

(* A side that is not empty has a price that comes last. *)
LEMMA WorstPrice ==
    ASSUME NEW side, NEW S, S \subseteq Nat, IsFiniteSet(S), S # {}
    PROVE  \E w \in S : \A p \in S \ {w} : Ranks(side, p, w)
<1>1. CASE side = "Buy"
  <2>1. PICK w \in S : \A p \in S : w <= p
    BY LeastNatural
  <2>2. \A p \in S \ {w} : p > w
    BY <2>1
  <2> QED
    BY <1>1, <2>2 DEF Ranks
<1>2. CASE side # "Buy"
  <2>1. S \subseteq Int
    OBVIOUS
  <2>2. PICK w \in S : \A p \in S : p <= w
    BY <2>1, FiniteMax
  <2>3. \A p \in S \ {w} : p < w
    BY <2>2
  <2> QED
    BY <1>2, <2>3 DEF Ranks
<1> QED
  BY <1>1, <1>2

(* Finitely many prices can be listed in the order of the map, by            *)
(* induction over their number.                                              *)
LEMMA RankingExists ==
    ASSUME NEW side, NEW S, S \subseteq Nat, IsFiniteSet(S)
    PROVE  \E s : RanksAll(side, S, s)
<1> DEFINE CanRank(R) == \E s : RanksAll(side, R, s)
           T == {n \in Nat : \A R \in SUBSET S : Cardinality(R) = n => CanRank(R)}
<1>0. \A R \in SUBSET S : IsFiniteSet(R) /\ Cardinality(R) \in Nat
  BY FS_Subset, FS_CardinalityType
<1>1. 0 \in T
  <2> SUFFICES ASSUME NEW R \in SUBSET S, Cardinality(R) = 0 PROVE CanRank(R)
    OBVIOUS
  <2> DEFINE s == [k \in 1 .. 0 |-> CHOOSE x \in R : TRUE]
  <2>1. RanksAll(side, R, s)
    BY DEF RanksAll
  <2> QED
    BY <2>1
<1>2. ASSUME NEW n \in Nat, n \in T PROVE n + 1 \in T
  <2> SUFFICES ASSUME NEW R \in SUBSET S, Cardinality(R) = n + 1 PROVE CanRank(R)
    OBVIOUS
  <2>1. R # {} /\ R \subseteq Nat /\ IsFiniteSet(R)
    BY <1>0, FS_EmptySet
  <2>2. PICK w \in R : \A p \in R \ {w} : Ranks(side, p, w)
    BY <2>1, WorstPrice
  <2>3. R \ {w} \in SUBSET S /\ Cardinality(R \ {w}) = n
    <3>1. R \in SUBSET R /\ w \in R
      OBVIOUS
    <3>2. Cardinality(R \ {w}) = Cardinality(R) - 1
      BY <2>1, <3>1, SmallerBy
    <3> QED
      BY <3>2
  <2>4. PICK s : RanksAll(side, R \ {w}, s)
    BY <1>2, <2>3
  <2>5. s \in [1 .. n -> R \ {w}] /\ \A k, l \in 1 .. n : k < l => Ranks(side, s[k], s[l])
    BY <2>3, <2>4 DEF RanksAll
  <2> DEFINE t == [k \in 1 .. n + 1 |-> IF k = n + 1 THEN w ELSE s[k]]
  <2>6. t \in [1 .. n + 1 -> R]
    BY <2>5
  <2>7. ASSUME NEW k \in 1 .. n + 1, NEW l \in 1 .. n + 1, k < l
        PROVE  Ranks(side, t[k], t[l])
    <3>1. k \in 1 .. n /\ t[k] = s[k] /\ s[k] \in R \ {w}
      BY <2>5, <2>7
    <3>2. CASE l = n + 1
      BY <2>2, <3>1, <3>2
    <3>3. CASE l # n + 1
      <4>1. l \in 1 .. n /\ t[l] = s[l]
        BY <3>3
      <4> QED
        BY <2>5, <2>7, <3>1, <4>1
    <3> QED
      BY <3>2, <3>3
  <2> HIDE DEF t
  <2>8. RanksAll(side, R, t)
    BY <2>6, <2>7 DEF RanksAll
  <2> QED
    BY <2>8
<1>3. Cardinality(S) \in T
  <2> HIDE DEF T
  <2> QED
    BY <1>0, <1>1, <1>2, NatSetInduction
<1>4. CanRank(S)
  BY <1>3
<1> QED
  BY <1>4

(* Every price of S is in one place of s. *)
MeetsAll(S, s) ==
    /\ \A k, l \in DOMAIN s : s[k] = s[l] => k = l
    /\ \A p \in S : \E k \in DOMAIN s : s[k] = p

(* The prices of S that come before p. *)
Before(side, S, p) == {x \in S : Ranks(side, x, p)}

(* A ranking meets every price once. *)
LEMMA RankingBijects ==
    ASSUME NEW side, NEW S, S \subseteq Nat, IsFiniteSet(S), NEW s, RanksAll(side, S, s)
    PROVE  MeetsAll(S, s)
<1> DEFINE n == Cardinality(S)
<1>0. n \in Nat
  BY FS_CardinalityType
<1>1. s \in [1 .. n -> S] /\ \A k, l \in 1 .. n : k < l => Ranks(side, s[k], s[l])
  BY DEF RanksAll
<1> HIDE DEF n
<1>2. ASSUME NEW k \in 1 .. n, NEW l \in 1 .. n, k < l PROVE s[k] # s[l]
  <2>1. s[k] \in Nat /\ s[l] \in Nat /\ Ranks(side, s[k], s[l])
    BY <1>0, <1>1, <1>2
  <2> QED
    BY <2>1 DEF Ranks
<1>3. \A k, l \in 1 .. n : s[k] = s[l] => k = l
  <2> SUFFICES ASSUME NEW k \in 1 .. n, NEW l \in 1 .. n, s[k] = s[l] PROVE k = l
    OBVIOUS
  <2>1. ~(k < l) /\ ~(l < k) /\ k \in Int /\ l \in Int
    BY <1>0, <1>2
  <2> QED
    BY <2>1
<1>4. s \in Injection(1 .. n, S)
  BY <1>1, <1>3 DEF Injection, IsInjective
<1>5. Cardinality(1 .. n) = Cardinality(S)
  BY <1>0, FS_Interval DEF n
<1>6. s \in Surjection(1 .. n, S)
  BY <1>4, <1>5, FS_Injection
<1> QED
  BY <1>1, <1>3, <1>6 DEF Surjection, MeetsAll

(* The price in place k has k - 1 better ones. *)
LEMMA BetterPrices ==
    ASSUME NEW side, NEW S, S \subseteq Nat, IsFiniteSet(S), NEW s, RanksAll(side, S, s),
           NEW k \in DOMAIN s
    PROVE  Cardinality(Before(side, S, s[k])) = k - 1
<1> DEFINE n == Cardinality(S)
           B == Before(side, S, s[k])
           f == [j \in 1 .. k - 1 |-> s[j]]
<1>0. n \in Nat
  BY FS_CardinalityType
<1>1. s \in [1 .. n -> S] /\ \A i, j \in 1 .. n : i < j => Ranks(side, s[i], s[j])
  BY DEF RanksAll
<1>2. /\ \A i, j \in 1 .. n : s[i] = s[j] => i = j
      /\ \A p \in S : \E j \in 1 .. n : s[j] = p
  <2>1. MeetsAll(S, s)
    BY RankingBijects
  <2>2. DOMAIN s = 1 .. n
    BY <1>1
  <2> QED
    BY <2>1, <2>2, Zenon DEF MeetsAll
<1> HIDE DEF n
<1>3. k \in 1 .. n /\ k - 1 \in Nat
  BY <1>0, <1>1
<1>4. \A j \in 1 .. k - 1 : j \in 1 .. n /\ s[j] \in B
  BY <1>0, <1>1, <1>3 DEF Before
<1>5. ASSUME NEW p \in B PROVE \E j \in 1 .. k - 1 : s[j] = p
  <2>1. PICK j \in 1 .. n : s[j] = p
    BY <1>2 DEF Before
  <2>2. ~(k <= j)
    <3> SUFFICES ASSUME k <= j PROVE FALSE
      OBVIOUS
    <3>1. s[k] \in Nat /\ s[j] \in Nat /\ Ranks(side, s[j], s[k])
      BY <1>1, <1>3, <2>1 DEF Before
    <3>2. s[k] # s[j]
      BY <3>1 DEF Ranks
    <3>3. k < j
      BY <1>0, <1>3, <3>2
    <3>4. Ranks(side, s[k], s[j])
      BY <1>1, <1>3, <3>3
    <3> QED
      BY <3>1, <3>4 DEF Ranks
  <2>3. j \in 1 .. k - 1
    BY <1>0, <1>3, <2>2
  <2> QED
    BY <2>1, <2>3
<1>6. f \in Surjection(1 .. k - 1, B)
  BY <1>4, <1>5 DEF Surjection
<1>7. f \in Injection(1 .. k - 1, B)
  BY <1>2, <1>4 DEF Injection, IsInjective
<1>8. ExistsBijection(1 .. k - 1, B)
  BY <1>6, <1>7 DEF ExistsBijection, Bijection
<1> HIDE DEF B
<1>9. Cardinality(B) = k - 1
  BY <1>3, <1>8, FS_CountingElements
<1> QED
  BY <1>9 DEF B

(* What Ranked returns. *)
LEMMA RankedFacts ==
    ASSUME BookInv, NEW d \in MdSides
    PROVE  /\ DOMAIN levels[d] \subseteq Nat \ {0} /\ IsFiniteSet(DOMAIN levels[d])
           /\ RanksAll(d, DOMAIN levels[d], Ranked(d))
<1> DEFINE S == DOMAIN levels[d]
<1>1. S \subseteq Nat \ {0} /\ IsFiniteSet(S)
  BY PricesOfOrders DEF BookInv, Exact
<1>2. PICK s : RanksAll(d, S, s)
  BY <1>1, RankingExists
<1>3. \E t \in [1 .. Cardinality(S) -> S] : \A k, l \in DOMAIN t : k < l => Ranks(d, t[k], t[l])
  BY <1>2 DEF RanksAll
<1>4. RanksAll(d, S, Ranked(d))
  BY <1>3, Zenon DEF RanksAll, Ranked
<1> QED
  BY <1>1, <1>4

(* best_bid, best_ask and top_levels show the top of the book as the         *)
(* orders have it, whatever events led there.                                *)
THEOREM BookViewsAgree == BookSpec => []ViewsAgree
<1>1. BookInv => ViewsAgree
  <2> SUFFICES ASSUME BookInv, NEW d \in MdSides
               PROVE  LET prices == {md_orders[id].price : id \in {i \in DOMAIN md_orders :
                                                        md_orders[i].side = d}}
        IN /\ IF prices = {} THEN best(d) = 0
              ELSE /\ best(d) \in prices
                   /\ \A p \in prices : IF d = "Buy" THEN p <= best(d) ELSE p >= best(d)
           /\ \A depth \in 0 .. 2 :
                 LET top == top_levels(d, depth)
                 IN /\ Len(top) <= depth
                    /\ \A k \in DOMAIN top :
                          /\ top[k].quantity = quantity_at(d, top[k].price)
                          /\ Cardinality({p \in prices : IF d = "Buy" THEN p > top[k].price
                                                         ELSE p < top[k].price}) = k - 1
    BY DEF ViewsAgree
  <2> DEFINE prices == {md_orders[id].price : id \in {i \in DOMAIN md_orders :
                                                        md_orders[i].side = d}}
             s == Ranked(d)
             n == Cardinality(prices)
  <2>1. DOMAIN levels[d] = prices
    BY PricesOfOrders DEF BookInv, Exact
  <2>2. prices \subseteq Nat \ {0} /\ IsFiniteSet(prices) /\ RanksAll(d, prices, s)
    BY <2>1, RankedFacts
  <2> HIDE DEF prices, s
  <2>3. n \in Nat /\ s \in [1 .. n -> prices] /\ \A k, l \in 1 .. n : k < l => Ranks(d, s[k], s[l])
    BY <2>2, FS_CardinalityType DEF RanksAll
  <2>4. \A k \in 1 .. n : Cardinality(Before(d, prices, s[k])) = k - 1
    <3>1. prices \subseteq Nat /\ DOMAIN s = 1 .. n
      BY <2>2, <2>3
    <3>2. \A k \in DOMAIN s : Cardinality(Before(d, prices, s[k])) = k - 1
      BY <2>2, <3>1, BetterPrices
    <3> QED
      BY <3>1, <3>2
  <2>5. \A p \in prices : \E k \in 1 .. n : s[k] = p
    <3>1. prices \subseteq Nat /\ DOMAIN s = 1 .. n
      BY <2>2, <2>3
    <3>2. MeetsAll(prices, s)
      BY <2>2, <3>1, RankingBijects
    <3> QED
      BY <3>1, <3>2 DEF MeetsAll
  <2> HIDE DEF n
  <2>6. Len(s) = n
    BY <2>3
  <2>7. ASSUME prices = {} PROVE best(d) = 0
    BY <2>1, <2>7 DEF best, has_level
  <2>8. ASSUME prices # {}
        PROVE  /\ best(d) \in prices
               /\ \A p \in prices : IF d = "Buy" THEN p <= best(d) ELSE p >= best(d)
    <3>1. n > 0 /\ 1 \in 1 .. n
      BY <2>3, <2>5, <2>8
    <3>2. best(d) = s[1] /\ s[1] \in prices
      BY <2>1, <2>3, <2>8, <3>1 DEF best, has_level, s
    <3>3. ASSUME NEW p \in prices PROVE IF d = "Buy" THEN p <= s[1] ELSE p >= s[1]
      <4>1. PICK k \in 1 .. n : s[k] = p
        BY <2>5
      <4>2. p \in Nat /\ s[1] \in Nat
        BY <2>2, <3>2
      <4>3. CASE k = 1
        BY <4>1, <4>2, <4>3
      <4>4. CASE k # 1
        <5>1. Ranks(d, s[1], s[k])
          BY <2>3, <3>1, <4>4
        <5> QED
          BY <4>1, <4>2, <5>1 DEF Ranks
      <4> QED
        BY <4>3, <4>4
    <3> QED
      BY <3>2, <3>3
  <2>9. ASSUME NEW depth \in 0 .. 2
        PROVE  /\ Len(top_levels(d, depth)) <= depth
               /\ \A k \in DOMAIN top_levels(d, depth) :
                    /\ top_levels(d, depth)[k].quantity
                         = quantity_at(d, top_levels(d, depth)[k].price)
                    /\ Cardinality({p \in prices : IF d = "Buy"
                                                   THEN p > top_levels(d, depth)[k].price
                                                   ELSE p < top_levels(d, depth)[k].price})
                         = k - 1
    <3> DEFINE m == IF depth < n THEN depth ELSE n
               top == top_levels(d, depth)
    <3>1. m \in Nat /\ m <= depth /\ m <= n
      BY <2>3
    <3>2. top = [k \in 1 .. m |-> [price |-> s[k], quantity |-> levels[d][s[k]]]]
      BY <2>6 DEF top_levels, s
    <3> HIDE DEF top, m
    <3>3. Len(top) = m /\ DOMAIN top = 1 .. m
      BY <3>1, <3>2
    <3>4. ASSUME NEW k \in 1 .. m
          PROVE  /\ top[k].quantity = quantity_at(d, top[k].price)
                 /\ Cardinality({p \in prices : IF d = "Buy" THEN p > top[k].price
                                              ELSE p < top[k].price}) = k - 1
      <4>1. /\ k \in 1 .. n /\ s[k] \in prices
            /\ top[k].price = s[k] /\ top[k].quantity = levels[d][s[k]]
        BY <2>3, <3>1, <3>2
      <4>2. top[k].quantity = quantity_at(d, top[k].price)
        BY <2>1, <4>1 DEF quantity_at
      <4>3. {p \in prices : IF d = "Buy" THEN p > top[k].price ELSE p < top[k].price}
              = Before(d, prices, s[k])
        BY <4>1 DEF Ranks, Before
      <4> QED
        BY <2>4, <4>1, <4>2, <4>3
    <3> QED
      BY <3>1, <3>3, <3>4 DEF top
  <2>10. IF prices = {} THEN best(d) = 0
         ELSE /\ best(d) \in prices
              /\ \A p \in prices : IF d = "Buy" THEN p <= best(d) ELSE p >= best(d)
    BY <2>7, <2>8
  <2> QED
    BY <2>9, <2>10, Zenon DEF prices
<1> QED
  BY <1>1, BookInvariant, PTL

-----------------------------------------------------------------------------
(* The orders that opened a window. *)
Openers == {k \in 1 .. Len(passed) : passed[k].opens}

(* The place in passed of the order that opened the current window. *)
OpenedBy == (Len(passed) - orders_in_window) + 1

TimesAscend ==
    /\ \A k \in 1 .. Len(passed) : passed[k].time # 0 /\ passed[k].time <= latest
    /\ \A j, k \in 1 .. Len(passed) : j <= k => passed[j].time <= passed[k].time

(* The window variables describe the latest orders of passed. *)
WindowIsLatest ==
    IF window_start_ns = 0 THEN Len(passed) = 0
    ELSE /\ orders_in_window \in 1 .. MaxOrdersPerWindow
         /\ OpenedBy \in Openers /\ passed[OpenedBy].time = window_start_ns
         /\ \A k \in Openers : k <= OpenedBy

OpenersApart ==
    \A j, k \in Openers : j < k => passed[k].time - passed[j].time >= OrderRateWindow

(* Every order is among the first MaxOrdersPerWindow of a window. *)
EachInWindow ==
    \A k \in 1 .. Len(passed) :
        \E o \in Openers : o <= k /\ k - o < MaxOrdersPerWindow

RateInv == TimesAscend /\ WindowIsLatest /\ OpenersApart /\ EachInWindow

RiskInv == RiskTypeOK /\ (sane /\ ~RateUnlimited => RateInv)

-----------------------------------------------------------------------------
(* What the assumptions on the configuration come to. *)
LEMMA RiskConstants ==
    /\ TimestampModulus \in Nat \ {0} /\ 0 \in Timestamps /\ Timestamps \subseteq Nat
    /\ MaxOrdersPerWindow \in Nat /\ OrderRateWindow \in Nat
    /\ ~RateUnlimited => MaxOrdersPerWindow >= 1 /\ OrderRateWindow >= 1
  BY RiskAssumption DEF Timestamps, RateUnlimited

(* The orders that passed, one by one. *)
LEMMA PassedTypes ==
    ASSUME RiskTypeOK
    PROVE  /\ Len(passed) \in Nat /\ DOMAIN passed = 1 .. Len(passed)
           /\ \A k \in 1 .. Len(passed) : passed[k].time \in Nat
<1> DEFINE Entries == [time : Timestamps, opens : BOOLEAN]
<1>0. \A e \in Entries : e.time \in Timestamps
  OBVIOUS
<1>1. passed \in Seq(Entries)
  BY DEF RiskTypeOK
<1> HIDE DEF Entries
<1>2. Len(passed) \in Nat /\ DOMAIN passed = 1 .. Len(passed)
  BY <1>1
<1>3. ASSUME NEW k \in 1 .. Len(passed) PROVE passed[k].time \in Nat
  <2>1. passed[k] \in Entries
    BY <1>1
  <2>2. passed[k].time \in Timestamps
    BY <1>0, <2>1
  <2> QED
    BY <2>2, RiskConstants
<1> QED
  BY <1>2, <1>3

(* While time does not go back the unsigned difference is the difference. *)
LEMMA NoWrap ==
    ASSUME NEW start \in Timestamps, NEW time \in Timestamps, start <= time
    PROVE  (time - start) % TimestampModulus = time - start
<1>1. time - start \in 0 .. TimestampModulus - 1
  BY RiskConstants DEF Timestamps
<1>2. TimestampModulus * 0 + (time - start) = time - start
  BY <1>1, RiskConstants
<1>3. (TimestampModulus * 0 + (time - start)) % TimestampModulus = time - start
  BY <1>1, RiskConstants, ModUnique
<1> QED
  BY <1>2, <1>3

(* After the check, the recording opens no second window, unless at time 0. *)
LEMMA CountedOnce ==
    ASSUME NEW time \in Timestamps, time # 0, ~RateUnlimited, RiskTypeOK
    PROVE  CountedAt(time) = CountAt(window_start_ns, orders_in_window, time)
<1>1. CASE WindowOver(window_start_ns, time)
  <2>1. (time - time) % TimestampModulus = time - time
    BY NoWrap, RiskConstants
  <2>2. time - time = 0 /\ 0 < OrderRateWindow
    BY RiskConstants
  <2>3. ~WindowOver(time, time)
    BY <2>1, <2>2, RiskConstants DEF WindowOver
  <2> QED
    BY <1>1, <2>3 DEF CountedAt, CountAt, StartAt
<1>2. CASE ~WindowOver(window_start_ns, time)
  BY <1>2 DEF CountedAt, CountAt, StartAt
<1> QED
  BY <1>1, <1>2

(* An order is refused only in a running window that is full. *)
LEMMA RefusedInWindow ==
    ASSUME NEW time \in Timestamps, ~order_rate_available(time)
    PROVE  ~WindowOver(window_start_ns, time) /\ ~RateUnlimited
<1>1. ~RateUnlimited
  BY DEF order_rate_available
<1>2. CASE WindowOver(window_start_ns, time)
  BY <1>1, <1>2, RiskConstants DEF order_rate_available, CountAt
<1> QED
  BY <1>1, <1>2

(* Types are preserved. *)
LEMMA RiskTypeStep == RiskTypeOK /\ [RiskNext]_riskVars => RiskTypeOK'
<1> SUFFICES ASSUME RiskTypeOK, [RiskNext]_riskVars PROVE RiskTypeOK'
  OBVIOUS
<1>1. CASE UNCHANGED riskVars
  BY <1>1 DEF riskVars, RiskTypeOK
<1>2. ASSUME NEW inside \in BOOLEAN, NEW time \in Timestamps, Validate(inside, time)
      PROVE  RiskTypeOK'
  <2>1. CASE Accepted(time)
    <3>1. StartAt(window_start_ns, time) \in Timestamps
      BY DEF StartAt, RiskTypeOK
    <3>2. CountedAt(time) \in Nat
      BY DEF CountedAt, CountAt, RiskTypeOK
    <3>3. window_start_ns' \in Timestamps /\ orders_in_window' \in Nat
      BY <2>1, <3>1, <3>2 DEF Accepted, RiskTypeOK
    <3> DEFINE entry == [time |-> time, opens |-> CountedAt(time) = 0]
    <3>4. entry \in [time : Timestamps, opens : BOOLEAN]
      OBVIOUS
    <3>5. passed' = Append(passed, entry)
      BY <2>1 DEF Accepted
    <3> HIDE DEF entry
    <3>6. passed' \in Seq([time : Timestamps, opens : BOOLEAN])
      BY <3>4, <3>5 DEF RiskTypeOK
    <3>7. latest' \in Timestamps /\ sane' \in BOOLEAN
      BY <2>1 DEF Accepted, ClockSeen
    <3> QED
      BY <3>3, <3>6, <3>7 DEF RiskTypeOK
  <2>2. CASE RateExceeded(time)
    BY <2>2 DEF RateExceeded, ClockSeen, StartAt, CountAt, RiskTypeOK
  <2>3. CASE UNCHANGED riskVars
    BY <1>1, <2>3
  <2> QED
    BY <1>2, <2>1, <2>2, <2>3 DEF Validate
<1> QED
  BY <1>1, <1>2 DEF RiskNext

-----------------------------------------------------------------------------
(* An order that passes at a time that does not go back. *)
LEMMA AcceptedRate ==
    ASSUME RiskTypeOK, RateInv, ~RateUnlimited, NEW time \in Timestamps,
           Accepted(time), time # 0, time >= latest
    PROVE  RateInv'
<1> DEFINE n == Len(passed)
           over == WindowOver(window_start_ns, time)
<1>1. /\ n \in Nat /\ time \in Nat /\ latest \in Nat /\ window_start_ns \in Timestamps
      /\ window_start_ns \in Nat /\ orders_in_window \in Nat
      /\ passed \in Seq([time : Timestamps, opens : BOOLEAN])
      /\ \A k \in 1 .. n : passed[k].time \in Nat
  <2>1. time \in Nat /\ latest \in Nat /\ window_start_ns \in Nat
    BY RiskConstants DEF RiskTypeOK
  <2> QED
    BY <2>1, PassedTypes DEF RiskTypeOK
<1>2. CountedAt(time) = IF over THEN 0 ELSE orders_in_window
  BY CountedOnce DEF CountAt
<1>3. /\ window_start_ns' = IF over THEN time ELSE window_start_ns
      /\ orders_in_window' = (IF over THEN 0 ELSE orders_in_window) + 1
      /\ passed' = Append(passed, [time |-> time, opens |-> CountedAt(time) = 0])
      /\ latest' = time
  BY <1>2 DEF Accepted, StartAt, ClockSeen
<1>4. /\ Len(passed') = n + 1
      /\ \A k \in 1 .. n : passed'[k] = passed[k]
      /\ passed'[n + 1].time = time
      /\ passed'[n + 1].opens <=> CountedAt(time) = 0
  <2> DEFINE entry == [time |-> time, opens |-> CountedAt(time) = 0]
  <2>1. entry.time = time /\ (entry.opens <=> CountedAt(time) = 0)
    OBVIOUS
  <2>2. entry \in [time : Timestamps, opens : BOOLEAN]
    OBVIOUS
  <2>3. passed' = Append(passed, entry)
    BY <1>3
  <2> HIDE DEF entry
  <2>4. /\ Len(passed') = n + 1 /\ passed'[n + 1] = entry
        /\ \A k \in 1 .. n : passed'[k] = passed[k]
    BY <1>1, <2>2, <2>3
  <2> QED
    BY <2>1, <2>4
<1>5. ~over => /\ window_start_ns # 0 /\ orders_in_window \in 1 .. MaxOrdersPerWindow - 1
               /\ OpenedBy \in Openers /\ passed[OpenedBy].time = window_start_ns
               /\ \A k \in Openers : k <= OpenedBy
  <2>1. orders_in_window < MaxOrdersPerWindow \/ over
    BY <1>1 DEF Accepted, order_rate_available, CountAt
  <2>2. ~over => window_start_ns # 0
    BY DEF WindowOver
  <2> QED
    BY <1>1, <2>1, <2>2, RiskConstants DEF RateInv, WindowIsLatest
<1>6. passed'[n + 1].opens <=> over
  BY <1>1, <1>2, <1>4, <1>5
<1>7. Openers' = IF over THEN Openers \cup {n + 1} ELSE Openers
  <2>1. \A k \in 1 .. n : k \in Openers' <=> k \in Openers
    BY <1>1, <1>4 DEF Openers
  <2>2. n + 1 \in Openers' <=> over
    BY <1>1, <1>4, <1>6 DEF Openers
  <2>3. Openers' \subseteq 1 .. n + 1 /\ Openers \subseteq 1 .. n
    BY <1>4 DEF Openers
  <2>4. \A k \in 1 .. n + 1 : k \in 1 .. n \/ k = n + 1
    BY <1>1
  <2> HIDE DEF n, over
  <2>6. \A k \in Openers' : k \in Openers \/ (k = n + 1 /\ over)
    BY <2>1, <2>2, <2>3, <2>4
  <2>7. \A k \in Openers : k \in Openers'
    BY <2>1, <2>3
  <2> QED
    BY <2>2, <2>6, <2>7
<1>8. Openers \subseteq 1 .. n
  BY DEF Openers
<1> HIDE DEF n, over
<1>n. Len(passed) = n
  BY DEF n
<1>o. over <=> WindowOver(window_start_ns, time)
  BY DEF over
<1>9. TimesAscend'
  <2>1. \A k \in 1 .. n : passed[k].time # 0 /\ passed[k].time <= time
    BY <1>1, <1>n DEF RateInv, TimesAscend
  <2>2. \A k \in 1 .. n + 1 : k \in 1 .. n \/ k = n + 1
    BY <1>1
  <2>3. \A k \in 1 .. n + 1 : passed'[k].time # 0 /\ passed'[k].time <= time
    BY <1>1, <1>4, <2>1, <2>2
  <2>4. ASSUME NEW j \in 1 .. n + 1, NEW k \in 1 .. n + 1, j <= k
        PROVE  passed'[j].time <= passed'[k].time
    <3>1. CASE k = n + 1
      BY <3>1, <1>4, <2>3
    <3>2. CASE k # n + 1
      <4>1. j \in 1 .. n /\ k \in 1 .. n
        BY <3>2, <2>4, <1>1
      <4>2. passed[j].time <= passed[k].time
        BY <4>1, <2>4, <1>n DEF RateInv, TimesAscend
      <4> QED
        BY <4>1, <4>2, <1>4
    <3> QED
      BY <3>1, <3>2
  <2> QED
    BY <1>3, <1>4, <2>3, <2>4 DEF TimesAscend
<1>10. WindowIsLatest'
  <2>1. window_start_ns' # 0
    BY <1>3, <1>5
  <2>2. CASE over
    <3>1. orders_in_window' = 1 /\ OpenedBy' = n + 1 /\ window_start_ns' = time
      BY <2>2, <1>1, <1>3, <1>4 DEF OpenedBy
    <3>2. n + 1 \in Openers' /\ \A k \in Openers' : k <= n + 1
      BY <2>2, <1>1, <1>7, <1>8
    <3> QED
      BY <2>1, <3>1, <3>2, <1>4, RiskConstants DEF WindowIsLatest
  <2>3. CASE ~over
    <3>1. OpenedBy' = OpenedBy /\ orders_in_window' = orders_in_window + 1
      <4>1. orders_in_window' = orders_in_window + 1 /\ Len(passed') = n + 1
        BY <2>3, <1>3, <1>4
      <4>2. ((n + 1) - (orders_in_window + 1)) + 1 = (n - orders_in_window) + 1
        BY <1>1
      <4> QED
        BY <4>1, <4>2, <1>n DEF OpenedBy
    <3>2. Openers' = Openers
      BY <2>3, <1>7
    <3>3. passed'[OpenedBy] = passed[OpenedBy]
      BY <2>3, <1>4, <1>5, <1>8
    <3>4. orders_in_window' \in 1 .. MaxOrdersPerWindow
      BY <2>3, <3>1, <1>5, RiskConstants
    <3>5. OpenedBy' \in Openers' /\ \A k \in Openers' : k <= OpenedBy'
      BY <2>3, <3>1, <3>2, <1>5
    <3>6. passed'[OpenedBy'].time = window_start_ns'
      BY <2>3, <3>1, <3>3, <1>3, <1>5
    <3> QED
      BY <2>1, <3>4, <3>5, <3>6 DEF WindowIsLatest
  <2> QED
    BY <2>2, <2>3
<1>11. OpenersApart'
  <2>1. CASE ~over
    <3>1. Openers' = Openers /\ \A k \in Openers : passed'[k] = passed[k]
      BY <2>1, <1>4, <1>7, <1>8
    <3> QED
      BY <3>1 DEF RateInv, OpenersApart
  <2>2. CASE over
    <3>1. ASSUME NEW j \in Openers PROVE time - passed[j].time >= OrderRateWindow
      <4>1. n # 0 /\ j \in 1 .. n
        BY <3>1, <1>1, <1>8
      <4>2. window_start_ns # 0
        BY <4>1, <1>n DEF RateInv, WindowIsLatest
      <4>3. OpenedBy \in 1 .. n /\ j <= OpenedBy /\ passed[OpenedBy].time = window_start_ns
        BY <4>2, <3>1, <1>8 DEF RateInv, WindowIsLatest
      <4>4. passed[j].time <= window_start_ns
        BY <4>1, <4>3, <1>n DEF RateInv, TimesAscend
      <4>5. window_start_ns <= time
        <5>1. passed[OpenedBy].time <= latest
          BY <4>3, <1>n DEF RateInv, TimesAscend
        <5> QED
          BY <5>1, <4>3, <1>1
      <4>6. (time - window_start_ns) % TimestampModulus = time - window_start_ns
        BY <4>5, <1>1, NoWrap
      <4>7. time - window_start_ns >= OrderRateWindow
        BY <2>2, <1>o, <4>2, <4>6 DEF WindowOver
      <4> QED
        BY <4>1, <4>4, <4>7, <1>1, RiskConstants
    <3>2. ASSUME NEW j \in Openers', NEW k \in Openers', j < k
          PROVE  passed'[k].time - passed'[j].time >= OrderRateWindow
      <4>1. j \in Openers /\ j \in 1 .. n
        BY <2>2, <3>2, <1>1, <1>7, <1>8
      <4>2. CASE k = n + 1
        BY <4>1, <4>2, <3>1, <1>4
      <4>3. CASE k # n + 1
        <5>1. k \in Openers /\ k \in 1 .. n
          BY <4>3, <2>2, <1>7, <1>8
        <5>2. passed[k].time - passed[j].time >= OrderRateWindow
          BY <5>1, <4>1, <3>2 DEF RateInv, OpenersApart
        <5> QED
          BY <5>1, <5>2, <4>1, <1>4
      <4> QED
        BY <4>2, <4>3
    <3> QED
      BY <3>2 DEF OpenersApart
  <2> QED
    BY <2>1, <2>2
<1>12. EachInWindow'
  <2> SUFFICES ASSUME NEW k \in 1 .. n + 1
               PROVE  \E o \in Openers' : o <= k /\ k - o < MaxOrdersPerWindow
    BY <1>4 DEF EachInWindow
  <2>1. CASE k \in 1 .. n
    <3>1. PICK o \in Openers : o <= k /\ k - o < MaxOrdersPerWindow
      BY <2>1, <1>n DEF RateInv, EachInWindow
    <3>2. o \in Openers'
      BY <1>7
    <3> QED
      BY <3>1, <3>2
  <2>2. CASE k = n + 1 /\ over
    <3>1. k \in Openers' /\ k <= k /\ k - k < MaxOrdersPerWindow
      BY <2>2, <1>1, <1>7, RiskConstants
    <3> QED
      BY <3>1
  <2>3. CASE k = n + 1 /\ ~over
    <3>1. OpenedBy \in Openers' /\ OpenedBy \in 1 .. n
      BY <2>3, <1>5, <1>7, <1>8
    <3>2. k - OpenedBy = orders_in_window
      BY <2>3, <1>1, <1>n DEF OpenedBy
    <3>3. OpenedBy <= k /\ k - OpenedBy < MaxOrdersPerWindow
      BY <2>3, <3>1, <3>2, <1>1, <1>5, RiskConstants
    <3> QED
      BY <3>1, <3>3
  <2> QED
    BY <2>1, <2>2, <2>3, <1>1
<1> QED
  BY <1>9, <1>10, <1>11, <1>12 DEF RateInv

(* A refused order changes only the time of the latest check. *)
LEMMA ExceededRate ==
    ASSUME RiskTypeOK, RateInv, NEW time \in Timestamps, RateExceeded(time), time >= latest
    PROVE  RateInv'
<1>1. ~WindowOver(window_start_ns, time)
  BY RefusedInWindow DEF RateExceeded
<1>2. UNCHANGED <<window_start_ns, orders_in_window, passed>> /\ latest' = time
  BY <1>1 DEF RateExceeded, StartAt, CountAt, ClockSeen
<1>3. Openers' = Openers /\ OpenedBy' = OpenedBy
  BY <1>2 DEF Openers, OpenedBy
<1>4. \A k \in 1 .. Len(passed) : passed[k].time <= time
  <2>1. latest \in Nat /\ time \in Nat
    BY RiskConstants DEF RiskTypeOK
  <2>2. \A k \in 1 .. Len(passed) : passed[k].time \in Nat /\ passed[k].time <= latest
    BY PassedTypes DEF RateInv, TimesAscend
  <2> QED
    BY <2>1, <2>2
<1> QED
  BY <1>2, <1>3, <1>4
  DEF RateInv, TimesAscend, WindowIsLatest, OpenersApart, EachInWindow

(* Every call of validate preserves the invariant. *)
LEMMA RiskStep == RiskInv /\ [RiskNext]_riskVars => RiskInv'
<1> SUFFICES ASSUME RiskInv, [RiskNext]_riskVars PROVE RiskInv'
  OBVIOUS
<1>1. RiskTypeOK /\ RiskTypeOK'
  BY RiskTypeStep DEF RiskInv
<1> SUFFICES ASSUME sane', ~RateUnlimited PROVE RateInv'
  BY <1>1 DEF RiskInv, RateUnlimited
<1>2. CASE UNCHANGED riskVars
  BY <1>2 DEF riskVars, RiskInv, RateInv, TimesAscend, WindowIsLatest, OpenersApart,
              EachInWindow, Openers, OpenedBy
<1>3. ASSUME NEW inside \in BOOLEAN, NEW time \in Timestamps, Validate(inside, time)
      PROVE  RateInv'
  <2>1. ASSUME ClockSeen(time) PROVE RateInv /\ time # 0 /\ time >= latest
    BY <2>1 DEF ClockSeen, RiskInv
  <2>2. CASE Accepted(time)
    <3>1. RateInv /\ time # 0 /\ time >= latest
      BY <2>1, <2>2 DEF Accepted
    <3> QED
      BY <1>1, <2>2, <3>1, AcceptedRate
  <2>3. CASE RateExceeded(time)
    <3>1. RateInv /\ time >= latest
      BY <2>1, <2>3 DEF RateExceeded
    <3> QED
      BY <1>1, <2>3, <3>1, ExceededRate
  <2>4. CASE UNCHANGED riskVars
    BY <1>2, <2>4
  <2> QED
    BY <1>3, <2>2, <2>3, <2>4 DEF Validate
<1> QED
  BY <1>2, <1>3 DEF RiskNext

(* A new risk engine satisfies the invariant. *)
LEMMA RiskStart == RiskInit => RiskInv
<1> SUFFICES ASSUME RiskInit PROVE RiskInv
  OBVIOUS
<1>1. RiskTypeOK
  BY RiskConstants DEF RiskInit, RiskTypeOK
<1>2. Len(passed) = 0 /\ Openers = {}
  BY DEF RiskInit, Openers
<1>3. RateInv
  BY <1>2 DEF RiskInit, RateInv, TimesAscend, WindowIsLatest, OpenersApart, EachInWindow
<1> QED
  BY <1>1, <1>3 DEF RiskInv

(* Any 2 * MaxOrdersPerWindow successive orders hold two that open a window. *)
LEMMA TwoOpeners ==
    ASSUME RiskTypeOK, RateInv, ~RateUnlimited
    PROVE  RateLimited
<1> SUFFICES ASSUME NEW i \in DOMAIN passed,
                    i + (2 * MaxOrdersPerWindow - 1) \in DOMAIN passed
             PROVE  passed[i + (2 * MaxOrdersPerWindow - 1)].time - passed[i].time
                        >= OrderRateWindow
  BY DEF RateLimited
<1> DEFINE j == i + (2 * MaxOrdersPerWindow - 1)
           m == MaxOrdersPerWindow
<1>1. /\ i \in 1 .. Len(passed) /\ j \in 1 .. Len(passed) /\ Len(passed) \in Nat
      /\ m \in Nat /\ m >= 1 /\ j = i + (2 * m - 1)
      /\ \A k \in 1 .. Len(passed) : passed[k].time \in Nat
  BY RiskConstants, PassedTypes
<1>2. Openers \subseteq 1 .. Len(passed)
  BY DEF Openers
<1>3. \A k \in 1 .. Len(passed) : \E o \in Openers : o <= k /\ k - o < m
  BY DEF RateInv, EachInWindow
<1> HIDE DEF j, m
<1>4. PICK b \in Openers : b <= j /\ j - b < m
  BY <1>1, <1>3
<1>5. b \in 1 .. Len(passed) /\ b - 1 \in 1 .. Len(passed) /\ b >= i + m
  BY <1>1, <1>2, <1>4
<1>6. PICK a \in Openers : a <= b - 1 /\ (b - 1) - a < m
  BY <1>3, <1>5
<1>7. a \in 1 .. Len(passed) /\ i <= a /\ a < b
  BY <1>1, <1>2, <1>5, <1>6
<1>8. passed[b].time - passed[a].time >= OrderRateWindow
  BY <1>4, <1>6, <1>7 DEF RateInv, OpenersApart
<1>9. passed[i].time <= passed[a].time /\ passed[b].time <= passed[j].time
  BY <1>1, <1>4, <1>5, <1>7 DEF RateInv, TimesAscend
<1>10. passed[j].time - passed[i].time >= OrderRateWindow
  <2>1. /\ passed[i].time \in Nat /\ passed[j].time \in Nat
        /\ passed[a].time \in Nat /\ passed[b].time \in Nat
    BY <1>1, <1>5, <1>7
  <2> QED
    BY <2>1, <1>8, <1>9, RiskConstants
<1> QED
  BY <1>10 DEF j

(* The state of the rate check has its types after any calls. *)
THEOREM RiskTypes == RiskSpec => []RiskTypeOK
<1>1. RiskInit => RiskTypeOK
  BY RiskConstants DEF RiskInit, RiskTypeOK
<1> QED
  BY <1>1, RiskTypeStep, PTL DEF RiskSpec

(* What the order rate limit promises, for every limit and window: while the  *)
(* clock neither reads zero nor goes back, at most                           *)
(* 2 * MaxOrdersPerWindow - 1 orders pass in any span shorter than a window. *)
THEOREM RiskRateLimit == RiskSpec => []RateLimited
<1>1. RiskInv => RateLimited
  BY TwoOpeners DEF RiskInv, RateLimited
<1> QED
  BY <1>1, RiskStart, RiskStep, PTL DEF RiskSpec

=============================================================================
