--------------------------- MODULE ExchangeProofs ---------------------------
(***************************************************************************)
(* Proofs about ExchangeSimulator for any set of requests and any number   *)
(* of orders: the index, price-time priority, and that every share is      *)
(* reported exactly once when a batch is large enough.                     *)
(***************************************************************************)
EXTENDS ExchangeSimulator, NumberLemmas, TLAPS

(* The prices and the symbols an accepted order can have. *)
RequestPrices == {p \in {r.price : r \in Requests} : p > 0}
RequestSymbols == {r.symbol : r \in Requests}

(* The shape of one map of levels. *)
SideShape(levels) ==
    /\ levels = [p \in DOMAIN levels |-> levels[p]]
    /\ IsFiniteSet(DOMAIN levels) /\ DOMAIN levels \subseteq RequestPrices
    /\ \A p \in DOMAIN levels : levels[p] \in Seq(RestingOrder) /\ levels[p] # <<>>

(* A book has two such sides. *)
BookShape(b) ==
    /\ b = [d \in BookSides |-> b[d]]
    /\ \A d \in BookSides : SideShape(b[d])

(* Storing a level that is not empty keeps a side's shape. *)
LEMMA PutSide ==
    ASSUME NEW m, SideShape(m), NEW p \in RequestPrices,
           NEW level \in Seq(RestingOrder), level # <<>>
    PROVE  /\ SideShape(MapPut(m, p, level))
           /\ DOMAIN MapPut(m, p, level) = DOMAIN m \cup {p}
           /\ MapPut(m, p, level)[p] = level
           /\ \A q \in DOMAIN m : q # p => MapPut(m, p, level)[q] = m[q]
<1> DEFINE n == MapPut(m, p, level)
<1>1. /\ DOMAIN n = DOMAIN m \cup {p} 
      /\ n[p] = level
      /\ \A q \in DOMAIN m : q # p => n[q] = m[q]
      /\ n = [q \in DOMAIN n |-> n[q]]
  BY DEF MapPut
<1>2. IsFiniteSet(DOMAIN m)
  BY DEF SideShape
<1>3. IsFiniteSet(DOMAIN m \cup {p})
  BY <1>2, FS_AddElement
<1> HIDE DEF n
<1>4. \A q \in DOMAIN n : n[q] \in Seq(RestingOrder) /\ n[q] # <<>>
  BY <1>1 DEF SideShape
<1>5. DOMAIN n \subseteq RequestPrices
  BY <1>1 DEF SideShape
<1>6. SideShape(n)
  BY <1>1, <1>3, <1>4, <1>5 DEF SideShape
<1> QED
  BY <1>1, <1>6 DEF n

(* So does erasing one. *)
LEMMA EraseSide ==
    ASSUME NEW m, SideShape(m), NEW p
    PROVE  /\ SideShape(MapErase(m, p))
           /\ DOMAIN MapErase(m, p) = DOMAIN m \ {p}
           /\ \A q \in DOMAIN m \ {p} : MapErase(m, p)[q] = m[q]
<1> DEFINE n == MapErase(m, p)
<1>1. /\ DOMAIN n = DOMAIN m \ {p} 
      /\ \A q \in DOMAIN m \ {p} : n[q] = m[q]
      /\ n = [q \in DOMAIN n |-> n[q]]
  BY DEF MapErase
<1>2. IsFiniteSet(DOMAIN m)
  BY DEF SideShape
<1>3. IsFiniteSet(DOMAIN m \ {p})
  BY <1>2, FS_RemoveElement
<1> HIDE DEF n
<1>6. SideShape(n)
  BY <1>1, <1>3 DEF SideShape
<1> QED
  BY <1>1, <1>6 DEF n

(* The book b with another level at one price. *)
ChangeLevel(b, d, p, level) == [b EXCEPT ![d] = WithLevel(b[d], p, level)]

(* A level of a book, changed or gone. *)
LEMMA SetLevel ==
    ASSUME NEW b, BookShape(b), NEW d \in BookSides, NEW p \in RequestPrices,
           NEW level \in Seq(RestingOrder),
           NEW c, c = ChangeLevel(b, d, p, level)
    PROVE  /\ BookShape(c)
           /\ level = <<>> => DOMAIN c[d] = DOMAIN b[d] \ {p}
           /\ level # <<>> => DOMAIN c[d] = DOMAIN b[d] \cup {p} /\ c[d][p] = level
           /\ \A q \in DOMAIN b[d] : q # p => c[d][q] = b[d][q]
           /\ \A e \in BookSides : e # d => c[e] = b[e]
<1> DEFINE m == WithLevel(b[d], p, level)
<1>1. SideShape(b[d])
  BY DEF BookShape
<1>2. /\ SideShape(m)
      /\ level = <<>> => DOMAIN m = DOMAIN b[d] \ {p}
      /\ level # <<>> => DOMAIN m = DOMAIN b[d] \cup {p} /\ m[p] = level
      /\ \A q \in DOMAIN b[d] : q # p => m[q] = b[d][q]
  <2>1. CASE level = <<>>
    <3>1. m = MapErase(b[d], p)
      BY <2>1 DEF WithLevel
    <3> HIDE DEF m
    <3>2. /\ SideShape(MapErase(b[d], p))
          /\ DOMAIN MapErase(b[d], p) = DOMAIN b[d] \ {p}
          /\ \A q \in DOMAIN b[d] \ {p} : MapErase(b[d], p)[q] = b[d][q]
      BY <1>1, EraseSide
    <3> QED
      BY <2>1, <3>1, <3>2
  <2>2. CASE level # <<>>
    <3>1. m = MapPut(b[d], p, level)
      BY <2>2 DEF WithLevel
    <3> HIDE DEF m
    <3>2. /\ SideShape(MapPut(b[d], p, level))
          /\ DOMAIN MapPut(b[d], p, level) = DOMAIN b[d] \cup {p}
          /\ MapPut(b[d], p, level)[p] = level
          /\ \A q \in DOMAIN b[d] : q # p => MapPut(b[d], p, level)[q] = b[d][q]
      BY <2>2, <1>1, PutSide
    <3> QED
      BY <2>2, <3>1, <3>2
  <2> QED
    BY <2>1, <2>2
<1>0. c = [b EXCEPT ![d] = m]
  BY DEF ChangeLevel
<1> HIDE DEF m
<1>3. BookShape(c) /\ c[d] = m /\ \A e \in BookSides : e # d => c[e] = b[e]
  <2>1. c = [e \in BookSides |-> IF e = d THEN m ELSE b[e]]
    BY <1>0 DEF BookShape
  <2> QED
    BY <2>1, <1>2 DEF BookShape
<1> QED
  BY <1>2, <1>3

-----------------------------------------------------------------------------
(* Prices are positive integers and therefore comparable. *)
LEMMA PricesAreNat ==
    /\ RequestPrices \subseteq Nat
    /\ \A b : BookShape(b) => \A d \in BookSides : DOMAIN b[d] \subseteq Nat
<1>1. RequestPrices \subseteq Nat
  BY RequestAssumption DEF RequestPrices
<1>2. ASSUME NEW b, BookShape(b), NEW d \in BookSides
      PROVE  DOMAIN b[d] \subseteq RequestPrices
  BY <1>2 DEF BookShape, SideShape
<1> QED
  BY <1>1, <1>2

(* A side that is not empty has a best price: the CHOOSE of BestPrice has    *)
(* a value.                                                                  *)
LEMMA BestPriceFacts ==
    ASSUME BookShape(book), NEW d \in BookSides, DOMAIN book[d] # {}
    PROVE  /\ BestPrice(d) \in DOMAIN book[d]
           /\ \A q \in DOMAIN book[d] : ~Better(d, q, BestPrice(d))
<1> DEFINE P == DOMAIN book[d]
<1>1. IsFiniteSet(P) /\ P \subseteq RequestPrices
  BY DEF BookShape, SideShape
<1>2. P \subseteq Nat
  BY PricesAreNat
<1>3. \E p \in P : \A q \in P : ~Better(d, q, p)
  <2>1. CASE d = "Buy"
    <3>1. PICK p \in P : \A q \in P : q <= p
      BY <1>1, <1>2, FiniteMax
    <3> QED
      BY <3>1, <2>1, <1>2 DEF Better
  <2>2. CASE d = "Sell"
    <3>1. PICK p \in P : \A q \in P : p <= q
      BY <1>2, LeastNatural
    <3> QED
      BY <3>1, <2>2, <1>2 DEF Better
  <2> QED
    BY <2>1, <2>2 DEF BookSides
<1> QED
  BY <1>3 DEF BestPrice

-----------------------------------------------------------------------------
(* The index has an entry for every resting order and no other. *)
Indexed(b, ix) ==
    /\ ix = [c \in DOMAIN ix |-> ix[c]]
    /\ \A d \in BookSides : \A p \in DOMAIN b[d] : \A k \in 1 .. Len(b[d][p]) :
          /\ b[d][p][k].client \in DOMAIN ix
          /\ ix[b[d][p][k].client] = [side |-> d, price |-> p, node |-> b[d][p][k].exch]
    /\ \A c \in DOMAIN ix : \E d \in BookSides : \E p \in DOMAIN b[d] :
          \E k \in 1 .. Len(b[d][p]) : b[d][p][k].client = c

(* Resting orders are orders the exchange accepted, of that client and side,  *)
(* and in each level they stand in the order of their arrival.              *)
Arrived(b, led) ==
    /\ \A d \in BookSides : \A p \in DOMAIN b[d] : \A k \in 1 .. Len(b[d][p]) :
          /\ b[d][p][k].exch \in 1 .. Len(led)
          /\ led[b[d][p][k].exch].client = b[d][p][k].client
          /\ led[b[d][p][k].exch].side = d
    /\ \A d \in BookSides : \A p \in DOMAIN b[d] : \A j, k \in 1 .. Len(b[d][p]) :
          j < k => b[d][p][j].exch < b[d][p][k].exch

(* What a level of a book is. *)
LEMMA LevelFacts ==
    ASSUME NEW b, BookShape(b), NEW d \in BookSides, NEW p \in DOMAIN b[d]
    PROVE  /\ b[d][p] \in Seq(RestingOrder) /\ Len(b[d][p]) \in Nat \ {0}
           /\ p \in RequestPrices
           /\ \A k \in 1 .. Len(b[d][p]) :
                 /\ b[d][p][k] \in RestingOrder
                 /\ b[d][p][k].client \in Clients
                 /\ b[d][p][k].exch \in Nat \ {0} /\ b[d][p][k].filled \in Nat
                 /\ b[d][p][k].remaining \in Nat \ {0}
<1> DEFINE level == b[d][p]
<1>1. level \in Seq(RestingOrder) /\ level # <<>> /\ p \in RequestPrices
  BY DEF BookShape, SideShape
<1> HIDE DEF level
<1>2. Len(level) \in Nat \ {0} /\ \A k \in 1 .. Len(level) : level[k] \in RestingOrder
  BY <1>1
<1>3. \A o \in RestingOrder : /\ o.client \in Clients
                              /\ o.exch \in Nat \ {0} /\ o.filled \in Nat
                              /\ o.remaining \in Nat \ {0}
  BY DEF RestingOrder
<1> QED
  BY <1>1, <1>2, <1>3 DEF level

(* An order has one place. *)
LEMMA OnePlace ==
    ASSUME NEW b, NEW ix, NEW led, BookShape(b), Indexed(b, ix), Arrived(b, led),
           NEW d \in BookSides, NEW p \in DOMAIN b[d], NEW k \in 1 .. Len(b[d][p]),
           NEW e \in BookSides, NEW q \in DOMAIN b[e], NEW j \in 1 .. Len(b[e][q]),
           \/ b[d][p][k].client = b[e][q][j].client
           \/ b[d][p][k].exch = b[e][q][j].exch
    PROVE  d = e /\ p = q /\ k = j
<1>1. b[d][p][k].client = b[e][q][j].client
  <2>1. led[b[d][p][k].exch].client = b[d][p][k].client
    BY DEF Arrived
  <2>2. led[b[e][q][j].exch].client = b[e][q][j].client
    BY DEF Arrived
  <2> QED
    BY <2>1, <2>2
<1>2. [side |-> d, price |-> p, node |-> b[d][p][k].exch]
        = [side |-> e, price |-> q, node |-> b[e][q][j].exch]
  BY <1>1 DEF Indexed
<1>3. d = e /\ p = q /\ b[d][p][k].exch = b[e][q][j].exch
  BY <1>2
<1>5. b[d][p][k].exch \in Nat /\ Len(b[d][p]) \in Nat
  BY LevelFacts
<1>6. ~(k < j) /\ ~(j < k)
  BY <1>3, <1>5 DEF Arrived
<1> QED
  BY <1>3, <1>5, <1>6

(* What concatenation does. *)
LEMMA ConcatFacts ==
    ASSUME NEW S, NEW s \in Seq(S), NEW t \in Seq(S)
    PROVE  s \o t \in Seq(S) /\ Len(s \o t) = Len(s) + Len(t)
OBVIOUS

(* A sequence without its i-th element. *)
Without(level, i) == SubSeq(level, 1, i - 1) \o SubSeq(level, i + 1, Len(level))

(* What is left of a level when the order in place i goes. *)
LEMMA WithoutFacts ==
    ASSUME NEW S, NEW level \in Seq(S), NEW i \in 1 .. Len(level)
    PROVE  /\ Without(level, i) \in Seq(S)
           /\ Len(Without(level, i)) = Len(level) - 1
           /\ \A k \in 1 .. Len(level) - 1 :
                 Without(level, i)[k] = IF k < i THEN level[k] ELSE level[k + 1]
           /\ i = 1 => Without(level, i) = Tail(level)
<1>1. Len(level) \in Nat /\ i \in Nat /\ i >= 1 /\ i <= Len(level)
  OBVIOUS
<1> DEFINE l == SubSeq(level, 1, i - 1)  r == SubSeq(level, i + 1, Len(level))
<1>2. l \in Seq(S) /\ Len(l) = i - 1 /\ \A k \in 1 .. i - 1 : l[k] = level[k]
  BY <1>1
<1>3. r \in Seq(S) /\ Len(r) = Len(level) - i 
      /\ \A k \in 1 .. Len(level) - i : r[k] = level[k + i]
  BY <1>1
<1> HIDE DEF l, r
<1>4. /\ l \o r \in Seq(S) /\ Len(l \o r) = Len(level) - 1
      /\ \A k \in 1 .. Len(level) - 1 : 
            (l \o r)[k] = IF k < i THEN level[k] ELSE level[k + 1]
  <2>1. l \o r \in Seq(S) /\ Len(l \o r) = Len(l) + Len(r)
    BY <1>2, <1>3, ConcatFacts
  <2>2. Len(l \o r) = Len(level) - 1
    BY <2>1, <1>1, <1>2, <1>3
  <2>3. ASSUME NEW k \in 1 .. Len(level) - 1
        PROVE  (l \o r)[k] = IF k < i THEN level[k] ELSE level[k + 1]
    <3>1. CASE k < i
      <4>1. k \in 1 .. Len(l) /\ l[k] = level[k]
        BY <3>1, <1>1, <1>2
      <4>2. (l \o r)[k] = l[k]
        BY <4>1, <1>2, <1>3
      <4> QED
        BY <3>1, <4>1, <4>2
    <3>2. CASE ~(k < i)
      <4>1. k - (i - 1) \in 1 .. Len(level) - i
        BY <3>2, <1>1
      <4>2. r[k - (i - 1)] = level[(k - (i - 1)) + i]
        BY <4>1, <1>3
      <4>3. (k - (i - 1)) + i = k + 1
        BY <1>1
      <4>4. (l \o r)[k] = r[k - Len(l)]
        BY <3>2, <1>1, <1>2, <1>3
      <4> QED
        BY <3>2, <4>2, <4>3, <4>4, <1>2
    <3> QED
      BY <3>1, <3>2
  <2> QED
    BY <2>1, <2>2, <2>3
<1>5. i = 1 => l \o r = Tail(level)
  BY <1>1, <1>4
<1> QED
  BY <1>4, <1>5 DEF Without, l, r

(* The rows of the ledger name the same orders. *)
SameOrders(led, new) ==
    /\ Len(new) = Len(led)
    /\ \A x \in 1 .. Len(led) : new[x].client = led[x].client /\ new[x].side = led[x].side

(* The orders of all clients but one are in the same levels of both books. *)
Keeps(b, c, client) ==
    \A d \in BookSides : \A p \in DOMAIN b[d] : \A k \in 1 .. Len(b[d][p]) :
        b[d][p][k].client # client =>
            p \in DOMAIN c[d] /\ \E j \in 1 .. Len(c[d][p]) : c[d][p][j] = b[d][p][k]
(* The two books hold the same orders, but for those of one client. *)
SameBut(b, c, client) == Keeps(b, c, client) /\ Keeps(c, b, client)

(* An order leaves its level: the first when it is filled, any when it is     *)
(* canceled.                                                               *)
LEMMA OrderLeaves ==
    ASSUME NEW b, NEW ix, NEW led, NEW new,
           BookShape(b), Indexed(b, ix), Arrived(b, led), SameOrders(led, new),
           NEW d \in BookSides, NEW p \in DOMAIN b[d], NEW i \in 1 .. Len(b[d][p]),
           NEW c, c = ChangeLevel(b, d, p, Without(b[d][p], i))
    PROVE  /\ BookShape(c) /\ Arrived(c, new)
           /\ Indexed(c, MapErase(ix, b[d][p][i].client))
           /\ \A e \in BookSides : DOMAIN c[e] \subseteq DOMAIN b[e]
           /\ SameBut(b, c, b[d][p][i].client)
<1> DEFINE w == Without(b[d][p], i)
           gone == b[d][p][i].client
           nx == MapErase(ix, gone)
<1>1. b[d][p] \in Seq(RestingOrder) /\ Len(b[d][p]) \in Nat \ {0} /\ p \in RequestPrices
  BY LevelFacts
<1>2. /\ w \in Seq(RestingOrder) /\ Len(w) = Len(b[d][p]) - 1
      /\ \A k \in 1 .. Len(b[d][p]) - 1 : w[k] = IF k < i THEN b[d][p][k] ELSE b[d][p][k + 1]
  BY <1>1, WithoutFacts
<1>c. c = ChangeLevel(b, d, p, w)
  OBVIOUS
<1> HIDE DEF w
<1>3. /\ BookShape(c)
      /\ w = <<>> => DOMAIN c[d] = DOMAIN b[d] \ {p}
      /\ w # <<>> => DOMAIN c[d] = DOMAIN b[d] \cup {p} /\ c[d][p] = w
      /\ \A q \in DOMAIN b[d] : q # p => c[d][q] = b[d][q]
      /\ \A e \in BookSides : e # d => c[e] = b[e]
  BY <1>1, <1>2, <1>c, SetLevel
\* Where an order of the new book was before.
<1> DEFINE Was(e, q, k) == IF e = d /\ q = p /\ k >= i THEN k + 1 ELSE k
<1>4. ASSUME NEW e \in BookSides, NEW q \in DOMAIN c[e], NEW k \in 1 .. Len(c[e][q])
      PROVE  /\ q \in DOMAIN b[e] /\ Was(e, q, k) \in 1 .. Len(b[e][q])
             /\ c[e][q][k] = b[e][q][Was(e, q, k)] /\ c[e][q][k].client # gone
  <2>1. CASE e = d /\ q = p
    <3>1. w # <<>> /\ c[d][p] = w
      BY <2>1, <1>3
    <3>2. k \in 1 .. Len(b[d][p]) - 1 
      BY <2>1, <3>1, <1>2
    <3>3. w[k] = b[d][p][Was(e, q, k)] /\ Was(e, q, k) \in 1 .. Len(b[d][p]) 
          /\ Was(e, q, k) # i
      BY <2>1, <3>2, <1>1, <1>2
    <3>4. b[d][p][Was(e, q, k)].client # gone
      <4> HIDE DEF Was
      <4> QED
        BY <3>3, OnePlace
    <3> QED
      BY <2>1, <3>1, <3>3, <3>4
  <2>2. CASE ~(e = d /\ q = p)
    <3>1. q \in DOMAIN b[e] /\ c[e][q] = b[e][q] /\ Was(e, q, k) = k
      BY <2>2, <1>3
    <3>2. b[e][q][k].client # gone
      BY <2>2, <3>1, OnePlace
    <3> QED
      BY <3>1, <3>2
  <2> QED
    BY <2>1, <2>2
<1>5. ASSUME NEW e \in BookSides, NEW q \in DOMAIN b[e], NEW k \in 1 .. Len(b[e][q]),
             b[e][q][k].client # gone
      PROVE  q \in DOMAIN c[e] /\ \E j \in 1 .. Len(c[e][q]) : c[e][q][j] = b[e][q][k]
  <2>1. CASE e = d /\ q = p
    <3> DEFINE j == IF k < i THEN k ELSE k - 1
    <3>1. k # i
      BY <2>1, <1>5
    <3>2. j \in 1 .. Len(b[d][p]) - 1 /\ w[j] = b[d][p][k]
      <4>1. CASE k < i
        BY <2>1, <4>1, <1>1, <1>2
      <4>2. CASE k > i
        <5>1. k - 1 \in 1 .. Len(b[d][p]) - 1 /\ ~(k - 1 < i) /\ (k - 1) + 1 = k /\ j = k - 1
          BY <2>1, <4>2, <1>1
        <5> HIDE DEF j
        <5> QED
          BY <5>1, <1>2
      <4> QED
        BY <2>1, <3>1, <4>1, <4>2, <1>1
    <3>3. w # <<>>
      BY <3>2, <1>2
    <3>4. c[d][p] = w /\ p \in DOMAIN c[d]
      BY <3>3, <1>3
    <3> QED
      BY <2>1, <3>2, <3>4, <1>2
  <2>2. CASE ~(e = d /\ q = p)
    BY <2>2, <1>3
  <2> QED
    BY <2>1, <2>2
<1>6. Arrived(c, new)
  <2>1. ASSUME NEW e \in BookSides, NEW q \in DOMAIN c[e], NEW k \in 1 .. Len(c[e][q])
        PROVE  /\ c[e][q][k].exch \in 1 .. Len(new)
               /\ new[c[e][q][k].exch].client = c[e][q][k].client
               /\ new[c[e][q][k].exch].side = e
    <3>1. PICK j \in 1 .. Len(b[e][q]) : q \in DOMAIN b[e] /\ c[e][q][k] = b[e][q][j]
      <4> HIDE DEF Was
      <4> QED
        BY <1>4
    <3>2. /\ b[e][q][j].exch \in 1 .. Len(led)
          /\ led[b[e][q][j].exch].client = b[e][q][j].client
          /\ led[b[e][q][j].exch].side = e
      BY <3>1 DEF Arrived
    <3> QED
      BY <3>1, <3>2 DEF SameOrders
  <2>2. ASSUME NEW e \in BookSides, NEW q \in DOMAIN c[e],
               NEW j \in 1 .. Len(c[e][q]), NEW k \in 1 .. Len(c[e][q]), j < k
        PROVE  c[e][q][j].exch < c[e][q][k].exch
    <3>1. Was(e, q, j) < Was(e, q, k)
      BY <2>2, <1>1
    <3>2. PICK u, v \in 1 .. Len(b[e][q]) :
                 q \in DOMAIN b[e] /\ u < v /\ c[e][q][j] = b[e][q][u] /\ c[e][q][k] = b[e][q][v]
      <4> HIDE DEF Was
      <4> QED
        BY <3>1, <1>4
    <3> QED
      BY <3>2 DEF Arrived
  <2> QED
    BY <2>1, <2>2 DEF Arrived
<1>7. Indexed(c, nx)
  <2>1. /\ DOMAIN nx = DOMAIN ix \ {gone}
        /\ \A x \in DOMAIN ix \ {gone} : nx[x] = ix[x]
        /\ nx = [x \in DOMAIN nx |-> nx[x]]
    BY DEF MapErase
  <2> HIDE DEF nx
  <2>2. ASSUME NEW e \in BookSides, NEW q \in DOMAIN c[e], NEW k \in 1 .. Len(c[e][q])
        PROVE  /\ c[e][q][k].client \in DOMAIN nx
               /\ nx[c[e][q][k].client] = [side |-> e, price |-> q, node |-> c[e][q][k].exch]
    <3>1. PICK j \in 1 .. Len(b[e][q]) :
              q \in DOMAIN b[e] /\ c[e][q][k] = b[e][q][j] /\ c[e][q][k].client # gone
      <4> HIDE DEF Was, gone
      <4> QED
        BY <1>4
    <3> HIDE DEF gone
    <3>2. /\ b[e][q][j].client \in DOMAIN ix
          /\ ix[b[e][q][j].client] = [side |-> e, price |-> q, node |-> b[e][q][j].exch]
      BY <3>1 DEF Indexed
    <3>3. b[e][q][j].client \in DOMAIN ix \ {gone}
      BY <3>1, <3>2
    <3> QED
      BY <2>1, <3>1, <3>2, <3>3
  <2>3. ASSUME NEW x \in DOMAIN nx
        PROVE  \E e \in BookSides : \E q \in DOMAIN c[e] : \E k \in 1 .. Len(c[e][q]) :
                  c[e][q][k].client = x
    <3>1. PICK e \in BookSides : \E q \in DOMAIN b[e] : \E k \in 1 .. Len(b[e][q]) : 
                  b[e][q][k].client = x
      BY <2>1 DEF Indexed
    <3>2. PICK q \in DOMAIN b[e] : \E k \in 1 .. Len(b[e][q]) : b[e][q][k].client = x
      BY <3>1
    <3>3. PICK k \in 1 .. Len(b[e][q]) : b[e][q][k].client = x
      BY <3>2
    <3>4. x # gone
      BY <2>1
    <3> QED
      BY <3>3, <3>4, <1>5
  <2>4. nx = [x \in DOMAIN nx |-> nx[x]]
    BY <2>1
  <2> QED
    BY <2>2, <2>3, <2>4 DEF Indexed
<1>8. \A e \in BookSides : DOMAIN c[e] \subseteq DOMAIN b[e]
  BY <1>3
<1>9. SameBut(b, c, gone)
  <2>1. Keeps(b, c, gone)
    <3> HIDE DEF gone
    <3> QED
      BY <1>5 DEF Keeps
  <2>2. ASSUME NEW e \in BookSides, NEW q \in DOMAIN c[e], NEW k \in 1 .. Len(c[e][q])
        PROVE  q \in DOMAIN b[e] /\ \E j \in 1 .. Len(b[e][q]) : b[e][q][j] = c[e][q][k]
    <3> HIDE DEF Was
    <3> QED
      BY <1>4
  <2>3. Keeps(c, b, gone)
    BY <2>2 DEF Keeps
  <2> QED
    BY <2>1, <2>3 DEF SameBut
<1> QED
  BY <1>3, <1>6, <1>7, <1>8, <1>9

(* An order is filled in part and keeps its place at the front of its level.  *)
LEMMA OrderShrinks ==
    ASSUME NEW b, NEW ix, NEW led, NEW new,
           BookShape(b), Indexed(b, ix), Arrived(b, led), SameOrders(led, new),
           NEW d \in BookSides, NEW p \in DOMAIN b[d], NEW order \in RestingOrder,
           order.client = b[d][p][1].client, order.exch = b[d][p][1].exch,
           NEW c, c = ChangeLevel(b, d, p, <<order>> \o Tail(b[d][p]))
    PROVE  /\ BookShape(c) /\ Arrived(c, new) /\ Indexed(c, ix)
           /\ \A e \in BookSides : DOMAIN c[e] = DOMAIN b[e] 
           /\ c[d][p][1] = order /\ 1 \in 1 .. Len(c[d][p])
           /\ SameBut(b, c, order.client)
<1> DEFINE w == <<order>> \o Tail(b[d][p])
<1>1. b[d][p] \in Seq(RestingOrder) /\ Len(b[d][p]) \in Nat \ {0} /\ p \in RequestPrices
  BY LevelFacts
<1>2. /\ w \in Seq(RestingOrder) /\ w # <<>> /\ Len(w) = Len(b[d][p])
      /\ w[1] = order /\ \A k \in 2 .. Len(b[d][p]) : w[k] = b[d][p][k]
  <2> DEFINE level == b[d][p]
  <2>1. Tail(level) \in Seq(RestingOrder) /\ Len(Tail(level)) = Len(level) - 1
        /\ \A k \in 1 .. Len(level) - 1 : Tail(level)[k] = level[k + 1]
    BY <1>1
  <2> HIDE DEF level
  <2>2. <<order>> \in Seq(RestingOrder) /\ Len(<<order>>) = 1 /\ <<order>>[1] = order
    OBVIOUS
  <2> DEFINE t == Tail(level)
  <2>3. /\ <<order>> \o t \in Seq(RestingOrder) /\ Len(<<order>> \o t) = 1 + Len(t)
        /\ (<<order>> \o t)[1] = order
        /\ \A k \in 2 .. 1 + Len(t) : (<<order>> \o t)[k] = t[k - 1]
    <3> HIDE DEF t
    <3>1. t \in Seq(RestingOrder)
      BY <2>1 DEF t
    <3> QED
      BY <2>2, <3>1
  <2>4. \A k \in 2 .. Len(level) : t[k - 1] = level[k]
    BY <2>1, <1>1 DEF level
  <2> QED
    BY <1>1, <2>1, <2>3, <2>4 DEF level
<1>c. c = ChangeLevel(b, d, p, w)
  OBVIOUS
<1> HIDE DEF w
<1>3. /\ BookShape(c)
      /\ DOMAIN c[d] = DOMAIN b[d] /\ c[d][p] = w
      /\ \A q \in DOMAIN b[d] : q # p => c[d][q] = b[d][q]
      /\ \A e \in BookSides : e # d => c[e] = b[e]
  <2>1. /\ BookShape(c)
        /\ w # <<>> => DOMAIN c[d] = DOMAIN b[d] \cup {p} /\ c[d][p] = w
        /\ \A q \in DOMAIN b[d] : q # p => c[d][q] = b[d][q]
        /\ \A e \in BookSides : e # d => c[e] = b[e]
    BY <1>1, <1>2, <1>c, SetLevel
  <2> QED
    BY <2>1, <1>2
<1>4. ASSUME NEW e \in BookSides
      PROVE  DOMAIN c[e] = DOMAIN b[e] 
  BY <1>3
<1>5. ASSUME NEW e \in BookSides, NEW q \in DOMAIN b[e]
      PROVE  /\ Len(c[e][q]) = Len(b[e][q])
             /\ \A k \in 1 .. Len(b[e][q]) :
                   /\ c[e][q][k].client = b[e][q][k].client
                   /\ c[e][q][k].exch = b[e][q][k].exch
                   /\ c[e][q][k] = IF e = d /\ q = p /\ k = 1 THEN order ELSE b[e][q][k]
  <2>1. CASE e = d /\ q = p
    <3>1. c[e][q] = w /\ Len(w) = Len(b[e][q])
      BY <2>1, <1>2, <1>3
    <3>2. \A k \in 1 .. Len(b[e][q]) : k = 1 \/ k \in 2 .. Len(b[e][q])
      BY <2>1, <1>1
    <3>3. \A k \in 1 .. Len(b[e][q]) : w[k] = IF k = 1 THEN order ELSE b[e][q][k]
      BY <2>1, <3>2, <1>2
    <3> QED
      BY <2>1, <3>1, <3>3
  <2>2. CASE ~(e = d /\ q = p)
    <3>1. c[e][q] = b[e][q]
      BY <2>2, <1>3
    <3> QED
      BY <2>2, <3>1
  <2> QED
    BY <2>1, <2>2
<1>6. Arrived(c, new)
  <2>1. ASSUME NEW e \in BookSides, NEW q \in DOMAIN c[e], NEW k \in 1 .. Len(c[e][q])
        PROVE  /\ c[e][q][k].exch \in 1 .. Len(new)
               /\ new[c[e][q][k].exch].client = c[e][q][k].client
               /\ new[c[e][q][k].exch].side = e
    <3>1. q \in DOMAIN b[e] /\ k \in 1 .. Len(b[e][q])
      BY <1>4, <1>5
    <3>2. c[e][q][k].client = b[e][q][k].client /\ c[e][q][k].exch = b[e][q][k].exch
      BY <3>1, <1>5
    <3>3. /\ b[e][q][k].exch \in 1 .. Len(led)
          /\ led[b[e][q][k].exch].client = b[e][q][k].client
          /\ led[b[e][q][k].exch].side = e
      BY <3>1 DEF Arrived
    <3> QED
      BY <3>2, <3>3 DEF SameOrders
  <2>2. ASSUME NEW e \in BookSides, NEW q \in DOMAIN c[e],
               NEW j \in 1 .. Len(c[e][q]), NEW k \in 1 .. Len(c[e][q]), j < k
        PROVE  c[e][q][j].exch < c[e][q][k].exch
    <3>1. q \in DOMAIN b[e] /\ j \in 1 .. Len(b[e][q]) /\ k \in 1 .. Len(b[e][q])
      BY <1>4, <1>5
    <3>2. c[e][q][j].exch = b[e][q][j].exch /\ c[e][q][k].exch = b[e][q][k].exch
      BY <3>1, <1>5
    <3>3. b[e][q][j].exch < b[e][q][k].exch
      BY <2>2, <3>1 DEF Arrived
    <3> QED
      BY <3>2, <3>3
  <2> QED
    BY <2>1, <2>2 DEF Arrived
<1>7. Indexed(c, ix)
  <2>1. ASSUME NEW e \in BookSides, NEW q \in DOMAIN c[e], NEW k \in 1 .. Len(c[e][q])
        PROVE  /\ c[e][q][k].client \in DOMAIN ix
               /\ ix[c[e][q][k].client] = [side |-> e, price |-> q, node |-> c[e][q][k].exch]
    <3>1. q \in DOMAIN b[e] /\ k \in 1 .. Len(b[e][q])
      BY <1>4, <1>5
    <3>2. c[e][q][k].client = b[e][q][k].client /\ c[e][q][k].exch = b[e][q][k].exch
      BY <3>1, <1>5
    <3>3. /\ b[e][q][k].client \in DOMAIN ix
          /\ ix[b[e][q][k].client] = [side |-> e, price |-> q, node |-> b[e][q][k].exch]
      BY <3>1 DEF Indexed
    <3> QED
      BY <3>2, <3>3
  <2>2. ASSUME NEW x \in DOMAIN ix
        PROVE  \E e \in BookSides : \E q \in DOMAIN c[e] : \E k \in 1 .. Len(c[e][q]) :
                  c[e][q][k].client = x
    <3>1. PICK e \in BookSides : \E q \in DOMAIN b[e] : \E k \in 1 .. Len(b[e][q]) :
                  b[e][q][k].client = x
      BY DEF Indexed
    <3>2. PICK q \in DOMAIN b[e] : \E k \in 1 .. Len(b[e][q]) : b[e][q][k].client = x
      BY <3>1
    <3>3. PICK k \in 1 .. Len(b[e][q]) : b[e][q][k].client = x
      BY <3>2
    <3>4. q \in DOMAIN c[e] /\ k \in 1 .. Len(c[e][q]) /\ c[e][q][k].client = x
      BY <3>3, <1>4, <1>5
    <3> QED
      BY <3>4
  <2>3. ix = [x \in DOMAIN ix |-> ix[x]]
    BY DEF Indexed
  <2> QED
    BY <2>1, <2>2, <2>3 DEF Indexed
<1>8. c[d][p][1] = order /\ 1 \in 1 .. Len(c[d][p])
  BY <1>1, <1>2, <1>3
<1>9. ASSUME NEW e \in BookSides, NEW q \in DOMAIN b[e], NEW k \in 1 .. Len(b[e][q]),
             b[e][q][k].client # order.client
      PROVE  c[e][q][k] = b[e][q][k]
  BY <1>5, <1>9
<1>10. Keeps(b, c, order.client)
  <2>1. ASSUME NEW e \in BookSides, NEW q \in DOMAIN b[e], NEW k \in 1 .. Len(b[e][q]),
               b[e][q][k].client # order.client
        PROVE  q \in DOMAIN c[e] /\ \E j \in 1 .. Len(c[e][q]) : c[e][q][j] = b[e][q][k]
    <3>1. q \in DOMAIN c[e] /\ k \in 1 .. Len(c[e][q]) /\ c[e][q][k] = b[e][q][k]
      BY <2>1, <1>4, <1>5, <1>9
    <3> QED
      BY <3>1
  <2> QED
    BY <2>1 DEF Keeps
<1>11. Keeps(c, b, order.client)
  <2>1. ASSUME NEW e \in BookSides, NEW q \in DOMAIN c[e], NEW k \in 1 .. Len(c[e][q]),
               c[e][q][k].client # order.client
        PROVE  q \in DOMAIN b[e] /\ \E j \in 1 .. Len(b[e][q]) : b[e][q][j] = c[e][q][k]
    <3>1. q \in DOMAIN b[e] /\ k \in 1 .. Len(b[e][q])
      BY <1>4, <1>5
    <3>2. b[e][q][k].client # order.client
      BY <2>1, <3>1, <1>5
    <3>3. b[e][q][k] = c[e][q][k]
      BY <3>1, <3>2, <1>9
    <3> QED
      BY <3>1, <3>3
  <2> QED
    BY <2>1 DEF Keeps
<1> QED
  BY <1>3, <1>4, <1>6, <1>7, <1>8, <1>10, <1>11 DEF SameBut

(* An order that came last comes to rest at the back of a level. *)
LEMMA OrderRests ==
    ASSUME NEW b, NEW ix, NEW led, Len(led) \in Nat \ {0},
           BookShape(b), Indexed(b, ix), Arrived(b, led),
           NEW d \in BookSides, NEW p \in RequestPrices, NEW order \in RestingOrder,
           order.client \notin DOMAIN ix, order.exch = Len(led),
           led[order.exch].client = order.client, led[order.exch].side = d,
           NEW old, old = IF p \in DOMAIN b[d] THEN b[d][p] ELSE <<>>,
           NEW c, c = ChangeLevel(b, d, p, Append(old, order))
    PROVE  /\ BookShape(c) /\ Arrived(c, led)
           /\ Indexed(c, MapPut(ix, order.client, [side |-> d, price |-> p, node |-> order.exch]))
           /\ DOMAIN c[d] = DOMAIN b[d] \cup {p}
           /\ \A e \in BookSides : e # d => c[e] = b[e]
           /\ SameBut(b, c, order.client) /\ \E k \in 1 .. Len(c[d][p]) : c[d][p][k] = order
<1> DEFINE w == Append(old, order)
           entry == [side |-> d, price |-> p, node |-> order.exch]
           nx == MapPut(ix, order.client, entry)
<1>1. old \in Seq(RestingOrder) /\ Len(old) \in Nat
  <2>1. CASE p \in DOMAIN b[d]
    BY <2>1, LevelFacts
  <2>2. CASE p \notin DOMAIN b[d]
    BY <2>2
  <2> QED
    BY <2>1, <2>2
<1>2. /\ w \in Seq(RestingOrder) /\ w # <<>> /\ Len(w) = Len(old) + 1
      /\ w[Len(old) + 1] = order /\ \A k \in 1 .. Len(old) : w[k] = old[k]
  <2> DEFINE S == RestingOrder
  <2> HIDE DEF S
  <2>1. old \in Seq(S) /\ order \in S
    BY <1>1 DEF S
  <2>2. w \in Seq(S) /\ Len(w) = Len(old) + 1
    BY <2>1
  <2>3. w[Len(old) + 1] = order
    BY <2>1
  <2>4. \A k \in 1 .. Len(old) : w[k] = old[k]
    BY <2>1
  <2>5. w # <<>>
    BY <2>1
  <2> QED
    BY <2>2, <2>3, <2>4, <2>5 DEF S
<1>c. c = ChangeLevel(b, d, p, w)
  OBVIOUS
<1> HIDE DEF w
<1>3. /\ BookShape(c)
      /\ DOMAIN c[d] = DOMAIN b[d] \cup {p} /\ c[d][p] = w
      /\ \A q \in DOMAIN b[d] : q # p => c[d][q] = b[d][q]
      /\ \A e \in BookSides : e # d => c[e] = b[e]
  <2>1. /\ BookShape(c)
        /\ w # <<>> => DOMAIN c[d] = DOMAIN b[d] \cup {p} /\ c[d][p] = w
        /\ \A q \in DOMAIN b[d] : q # p => c[d][q] = b[d][q]
        /\ \A e \in BookSides : e # d => c[e] = b[e]
    BY <1>2, <1>c, SetLevel
  <2> QED
    BY <2>1, <1>2
<1>4. ASSUME NEW e \in BookSides, NEW q \in DOMAIN c[e], NEW k \in 1 .. Len(c[e][q])
      PROVE  \/ e = d /\ q = p /\ k = Len(old) + 1 /\ c[e][q][k] = order
             \/ q \in DOMAIN b[e] /\ k \in 1 .. Len(b[e][q]) /\ c[e][q][k] = b[e][q][k]
  <2>1. CASE e = d /\ q = p
    <3>1. c[e][q] = w
      BY <2>1, <1>3
    <3>2. k \in 1 .. Len(old) + 1
      BY <3>1, <1>2
    <3>4. k = Len(old) + 1 \/ k \in 1 .. Len(old)
      BY <3>2, <1>1
    <3>3. k \in 1 .. Len(old) => p \in DOMAIN b[d] /\ old = b[d][p]
      OBVIOUS
    <3> QED
      BY <2>1, <3>1, <3>3, <3>4, <1>2
  <2>2. CASE ~(e = d /\ q = p)
    BY <2>2, <1>3
  <2> QED
    BY <2>1, <2>2
<1>5. ASSUME NEW e \in BookSides, NEW q \in DOMAIN b[e], NEW k \in 1 .. Len(b[e][q])
      PROVE  /\ q \in DOMAIN c[e] /\ k \in 1 .. Len(c[e][q]) /\ c[e][q][k] = b[e][q][k]
             /\ b[e][q][k].client # order.client /\ b[e][q][k].exch < order.exch
  <2>1. q \in DOMAIN c[e] /\ k \in 1 .. Len(c[e][q]) /\ c[e][q][k] = b[e][q][k]
    <3>1. CASE e = d /\ q = p
      <4>1. old = b[e][q] /\ c[e][q] = w
        BY <3>1, <1>3
      <4> QED
        BY <3>1, <4>1, <1>1, <1>2, <1>3
    <3>2. CASE ~(e = d /\ q = p)
      BY <3>2, <1>3
    <3> QED
      BY <3>1, <3>2
  <2>2. b[e][q][k].client # order.client
    <3>1. b[e][q][k].client \in DOMAIN ix
      BY DEF Indexed
    <3> QED
      BY <3>1
  <2>3. /\ b[e][q][k].exch \in 1 .. Len(led)
        /\ led[b[e][q][k].exch].client = b[e][q][k].client
    BY DEF Arrived
  <2>4. b[e][q][k].exch # Len(led) /\ Len(led) \in Nat
    BY <2>2, <2>3
  <2> QED
    BY <2>1, <2>2, <2>3, <2>4
<1>6. Arrived(c, led)
  <2>1. ASSUME NEW e \in BookSides, NEW q \in DOMAIN c[e], NEW k \in 1 .. Len(c[e][q])
        PROVE  /\ c[e][q][k].exch \in 1 .. Len(led)
               /\ led[c[e][q][k].exch].client = c[e][q][k].client
               /\ led[c[e][q][k].exch].side = e
    <3>0. \/ e = d /\ q = p /\ k = Len(old) + 1 /\ c[e][q][k] = order
          \/ q \in DOMAIN b[e] /\ k \in 1 .. Len(b[e][q]) /\ c[e][q][k] = b[e][q][k]
      BY <1>4
    <3>1. CASE e = d /\ c[e][q][k] = order
      <4>1. Len(led) \in 1 .. Len(led)
        OBVIOUS
      <4>2. order.exch \in 1 .. Len(led) /\ led[order.exch].client = order.client
            /\ led[order.exch].side = d
        BY <4>1
      <4> QED
        BY <3>1, <4>2
    <3>2. CASE q \in DOMAIN b[e] /\ k \in 1 .. Len(b[e][q]) /\ c[e][q][k] = b[e][q][k]
      <4>1. /\ b[e][q][k].exch \in 1 .. Len(led)
            /\ led[b[e][q][k].exch].client = b[e][q][k].client
            /\ led[b[e][q][k].exch].side = e
        BY <3>2 DEF Arrived
      <4> QED
        BY <3>2, <4>1
    <3> QED
      BY <3>0, <3>1, <3>2
  <2>2. ASSUME NEW e \in BookSides, NEW q \in DOMAIN c[e],
               NEW j \in 1 .. Len(c[e][q]), NEW k \in 1 .. Len(c[e][q]), j < k
        PROVE  c[e][q][j].exch < c[e][q][k].exch
    <3>0. \/ e = d /\ q = p /\ k = Len(old) + 1 /\ c[e][q][k] = order
          \/ q \in DOMAIN b[e] /\ k \in 1 .. Len(b[e][q]) /\ c[e][q][k] = b[e][q][k]
      BY <1>4
    <3>1. CASE q \in DOMAIN b[e] /\ k \in 1 .. Len(b[e][q])
      <4>0. Len(b[e][q]) \in Nat
        BY <3>1, LevelFacts
      <4>1. j \in 1 .. Len(b[e][q])
        BY <3>1, <2>2, <4>0
      <4>2. c[e][q][j] = b[e][q][j]
        BY <3>1, <4>1, <1>5
      <4>3. c[e][q][k] = b[e][q][k]
        BY <3>1, <1>5
      <4> QED
        BY <2>2, <3>1, <4>1, <4>2, <4>3 DEF Arrived
    <3>2. CASE e = d /\ q = p /\ k = Len(old) + 1 /\ c[e][q][k] = order
      <4>1. j \in 1 .. Len(old) 
        BY <3>2, <2>2, <1>1
      <4>2. p \in DOMAIN b[d] /\ old = b[d][p]
        BY <4>1
      <4>3. c[e][q][j] = b[e][q][j] /\ b[e][q][j].exch < order.exch
        BY <3>2, <4>1, <4>2, <1>5
      <4> QED
        BY <3>2, <4>3
    <3> QED
      BY <3>0, <3>1, <3>2
  <2> QED
    BY <2>1, <2>2 DEF Arrived
<1>7. Indexed(c, nx)
  <2>1. /\ DOMAIN nx = DOMAIN ix \cup {order.client} /\ nx[order.client] = entry
        /\ \A x \in DOMAIN ix : x # order.client => nx[x] = ix[x]
        /\ nx = [x \in DOMAIN nx |-> nx[x]]
    BY DEF MapPut
  <2> HIDE DEF nx
  <2>2. ASSUME NEW e \in BookSides, NEW q \in DOMAIN c[e], NEW k \in 1 .. Len(c[e][q])
        PROVE  /\ c[e][q][k].client \in DOMAIN nx
               /\ nx[c[e][q][k].client] = [side |-> e, price |-> q, node |-> c[e][q][k].exch]
    <3>0. \/ e = d /\ q = p /\ k = Len(old) + 1 /\ c[e][q][k] = order
          \/ q \in DOMAIN b[e] /\ k \in 1 .. Len(b[e][q]) /\ c[e][q][k] = b[e][q][k]
      BY <1>4
    <3>1. CASE e = d /\ q = p /\ k = Len(old) + 1 /\ c[e][q][k] = order
      BY <3>1, <2>1
    <3>2. CASE q \in DOMAIN b[e] /\ k \in 1 .. Len(b[e][q]) /\ c[e][q][k] = b[e][q][k]
      <4>1. b[e][q][k].client # order.client
        BY <3>2, <1>5
      <4>2. /\ b[e][q][k].client \in DOMAIN ix
            /\ ix[b[e][q][k].client] = [side |-> e, price |-> q, node |-> b[e][q][k].exch]
        BY <3>2 DEF Indexed
      <4> HIDE DEF entry
      <4>3. /\ b[e][q][k].client \in DOMAIN nx
            /\ nx[b[e][q][k].client] = ix[b[e][q][k].client]
        BY <4>1, <4>2, <2>1
      <4> QED
        BY <3>2, <4>2, <4>3
    <3> QED
      BY <3>0, <3>1, <3>2
  <2>3. ASSUME NEW x \in DOMAIN nx
        PROVE  \E e \in BookSides : \E q \in DOMAIN c[e] : \E k \in 1 .. Len(c[e][q]) :
                  c[e][q][k].client = x
    <3>0. x = order.client \/ x \in DOMAIN ix
      BY <2>1
    <3>1. CASE x = order.client
      <4>1. p \in DOMAIN c[d] /\ Len(c[d][p]) = Len(old) + 1 /\ c[d][p][Len(old) + 1] = order
        BY <1>2, <1>3
      <4>2. Len(old) + 1 \in 1 .. Len(c[d][p])
        BY <1>1, <4>1
      <4> DEFINE z == Len(old) + 1
      <4>3. /\ d \in BookSides /\ p \in DOMAIN c[d] /\ z \in 1 .. Len(c[d][p])
            /\ c[d][p][z].client = x
        BY <3>1, <4>1, <4>2
      <4> HIDE DEF z
      <4> QED
        BY <4>3
    <3>2. CASE x \in DOMAIN ix
      <4>1. PICK e \in BookSides : \E q \in DOMAIN b[e] : \E k \in 1 .. Len(b[e][q]) : 
                  b[e][q][k].client = x
        BY <3>2 DEF Indexed
      <4>2. PICK q \in DOMAIN b[e] : \E k \in 1 .. Len(b[e][q]) : b[e][q][k].client = x
        BY <4>1
      <4>3. PICK k \in 1 .. Len(b[e][q]) : b[e][q][k].client = x
        BY <4>2
      <4>4. q \in DOMAIN c[e] /\ k \in 1 .. Len(c[e][q]) /\ c[e][q][k] = b[e][q][k]
        BY <1>5
      <4> QED
        BY <4>3, <4>4
    <3> QED
      BY <3>0, <3>1, <3>2
  <2>4. nx = [x \in DOMAIN nx |-> nx[x]]
    BY <2>1
  <2> QED
    BY <2>2, <2>3, <2>4 DEF Indexed
<1>8. Keeps(b, c, order.client)
  <2>1. ASSUME NEW e \in BookSides, NEW q \in DOMAIN b[e], NEW k \in 1 .. Len(b[e][q])
        PROVE  q \in DOMAIN c[e] /\ \E j \in 1 .. Len(c[e][q]) : c[e][q][j] = b[e][q][k]
    BY <1>5
  <2> QED
    BY <2>1 DEF Keeps
<1>9. Keeps(c, b, order.client)
  <2>1. ASSUME NEW e \in BookSides, NEW q \in DOMAIN c[e], NEW k \in 1 .. Len(c[e][q]),
               c[e][q][k].client # order.client
        PROVE  q \in DOMAIN b[e] /\ \E j \in 1 .. Len(b[e][q]) : b[e][q][j] = c[e][q][k]
    <3>1. \/ e = d /\ q = p /\ k = Len(old) + 1 /\ c[e][q][k] = order
          \/ q \in DOMAIN b[e] /\ k \in 1 .. Len(b[e][q]) /\ c[e][q][k] = b[e][q][k]
      BY <1>4
    <3> QED
      BY <2>1, <3>1
  <2> QED
    BY <2>1 DEF Keeps
<1>10. \E k \in 1 .. Len(c[d][p]) : c[d][p][k] = order
  <2>1. Len(c[d][p]) = Len(old) + 1 /\ c[d][p][Len(old) + 1] = order
    BY <1>2, <1>3
  <2>2. Len(old) + 1 \in 1 .. Len(c[d][p])
    BY <1>1, <2>1
  <2> QED
    BY <2>1, <2>2
<1> QED
  BY <1>3, <1>6, <1>7, <1>8, <1>9, <1>10 DEF SameBut

-----------------------------------------------------------------------------
(* A row of the ledger. *)
Row == [client : Clients, side : BookSides, quantity : Nat \ {0}, reported : Nat, canceled : Nat]

(* The new order in process_new_order. *)
Incoming == [client : Clients, exch : Nat \ {0}, symbol : RequestSymbols, side : BookSides,
             price : RequestPrices, cumulative : Nat, remaining : Nat]

(* The order in work is the last one accepted, and does not rest. *)
WorkInv ==
    \/ work = Idle
    \/ /\ work \in Incoming /\ work.exch = Len(ledger)
       /\ ledger[work.exch].client = work.client /\ ledger[work.exch].side = work.side
       /\ work.client \notin DOMAIN resting_index

(* The inductive invariant: the shape of the books, the index and the        *)
(* arrival order, the ledger, the order in work, the uncrossed book and      *)
(* the batch.                                                                *)
ExchangeInv ==
    /\ BookShape(book) /\ Indexed(book, resting_index) /\ Arrived(book, ledger)
    /\ ledger \in Seq(Row) /\ next_exchange_order_id = Len(ledger) + 1
    /\ WorkInv /\ NeverCrossed
    /\ batch \in Seq(Range(batch)) /\ Len(batch) <= MaxReports

(* push adds a report or leaves the batch as it is, within its capacity. *)
LEMMA PushFacts ==
    ASSUME NEW s, s \in Seq(Range(s)), Len(s) <= MaxReports, NEW r
    PROVE  /\ push(s, r) \in Seq(Range(push(s, r))) /\ Len(push(s, r)) <= MaxReports
           /\ Len(push(s, r)) <= Len(s) + 1
           /\ Len(s) < MaxReports => push(s, r) # s /\ Len(push(s, r)) = Len(s) + 1
<1>0. Len(s) \in Nat /\ MaxReports \in Nat
  BY ExchangeAssumption
<1>1. CASE Len(s) = MaxReports
  BY <1>0, <1>1 DEF push
<1>2. CASE Len(s) # MaxReports
  <2> DEFINE S == Range(s) \cup {r}
             t == Append(s, r)
  <2>1. push(s, r) = t
    BY <1>2 DEF push
  <2>2. s \in Seq(S) /\ r \in S
    <3>1. Range(s) \subseteq S /\ r \in S
      OBVIOUS
    <3>2. \A k \in 1 .. Len(s) : s[k] \in S
      BY <3>1
    <3> HIDE DEF S
    <3> QED
      BY <3>1, <3>2
  <2> HIDE DEF S
  <2>3. t \in Seq(S) /\ Len(t) = Len(s) + 1
    BY <2>2
  <2> HIDE DEF t
  <2>4. t \in Seq(Range(t))
    <3>1. \A k \in 1 .. Len(t) : t[k] \in Range(t)
      BY <2>3 DEF Range
    <3> QED
      BY <2>3, <3>1
  <2>5. t # s
    BY <2>3, <1>0
  <2> QED
    BY <2>1, <2>3, <2>4, <2>5, <1>0, <1>2
<1> QED
  BY <1>1, <1>2

(* The batch at the start of a call. *)
LEMMA EmptyBatch ==
    /\ <<>> \in Seq(Range(<<>>)) /\ Len(<<>>) = 0 /\ 0 <= MaxReports
BY ExchangeAssumption

-----------------------------------------------------------------------------
(* The exchange starts with it. *)
LEMMA InitInv == ExchangeInit => ExchangeInv
<1> SUFFICES ASSUME ExchangeInit PROVE ExchangeInv
  OBVIOUS
<1>1. /\ book = [d \in BookSides |-> book[d]]
      /\ \A d \in BookSides : DOMAIN book[d] = {} /\ book[d] = [p \in {} |-> book[d][p]]
  BY DEF ExchangeInit, EmptyMap
<1>2. BookShape(book)
  BY <1>1, FS_EmptySet DEF BookShape, SideShape
<1>3. resting_index = [c \in DOMAIN resting_index |-> resting_index[c]] /\ DOMAIN resting_index = {}
  BY DEF ExchangeInit, EmptyMap
<1>4. Indexed(book, resting_index) /\ Arrived(book, ledger)
  BY <1>1, <1>3 DEF Indexed, Arrived
<1>5. NeverCrossed
  BY <1>1 DEF NeverCrossed, BookSides
<1>6. ledger \in Seq(Row) /\ next_exchange_order_id = Len(ledger) + 1 /\ WorkInv
  BY DEF ExchangeInit, WorkInv
<1>7. batch \in Seq(Range(batch)) /\ Len(batch) <= MaxReports
  BY EmptyBatch DEF ExchangeInit
<1> QED
  BY <1>2, <1>4, <1>5, <1>6, <1>7 DEF ExchangeInv

(* Accepting an order keeps it: the new row has the next exchange order      *)
(* id.                                                                       *)
LEMMA AcceptInv ==
    ASSUME ExchangeInv, NEW r \in Requests, Accept(r)
    PROVE  ExchangeInv'
<1> USE DEF ExchangeInv
<1> DEFINE row == [client |-> r.client, side |-> r.side, quantity |-> r.quantity,
                   reported |-> 0, canceled |-> 0]
           n == Len(ledger) + 1
<1>1. /\ r.client \in Clients /\ r.side \in BookSides /\ r.quantity \in Nat \ {0}
      /\ r.symbol \in RequestSymbols /\ r.price \in RequestPrices
      /\ r.client \notin DOMAIN resting_index
  <2>1. r.price > 0 /\ r.quantity > 0 /\ r.client \notin DOMAIN resting_index
    BY DEF Accept, valid_new_order, has_resting_order
  <2>2. r.price \in {x.price : x \in Requests}
    OBVIOUS
  <2> QED
    BY <2>1, <2>2, RequestAssumption DEF Clients, RequestSymbols, RequestPrices, BookSides
<1>2. row \in Row
  BY <1>1 DEF Row
<1>3. /\ ledger' = Append(ledger, row) /\ next_exchange_order_id' = next_exchange_order_id + 1
      /\ work' = [client |-> r.client, exch |-> next_exchange_order_id,
                  symbol |-> r.symbol, side |-> r.side, price |-> r.price,
                  cumulative |-> 0, remaining |-> r.quantity]
      /\ book' = book /\ resting_index' = resting_index
      /\ batch' = push(<<>>, add_ack(r, next_exchange_order_id))
  BY DEF Accept
<1> HIDE DEF row
<1>4. /\ ledger' \in Seq(Row) /\ Len(ledger') = n /\ ledger'[n] = row /\ Len(ledger) \in Nat
      /\ \A x \in 1 .. Len(ledger) : ledger'[x] = ledger[x]
  <2> DEFINE R == Row
  <2> HIDE DEF R
  <2>1. ledger \in Seq(R) /\ row \in R /\ ledger' = Append(ledger, row)
    BY <1>2, <1>3 DEF R
  <2>2. ledger' \in Seq(R) /\ Len(ledger') = n /\ ledger'[n] = row /\ Len(ledger) \in Nat
    BY <2>1
  <2>3. \A x \in 1 .. Len(ledger) : ledger'[x] = ledger[x]
    BY <2>1
  <2> QED
    BY <2>2, <2>3 DEF R
<1>5. Arrived(book, ledger')
  <2>1. 1 .. Len(ledger) \subseteq 1 .. Len(ledger')
    BY <1>4
  <2>2. ASSUME NEW d \in BookSides, NEW p \in DOMAIN book[d], NEW k \in 1 .. Len(book[d][p])
        PROVE  /\ book[d][p][k].exch \in 1 .. Len(ledger')
               /\ ledger'[book[d][p][k].exch].client = book[d][p][k].client
               /\ ledger'[book[d][p][k].exch].side = d
    <3>1. /\ book[d][p][k].exch \in 1 .. Len(ledger)
          /\ ledger[book[d][p][k].exch].client = book[d][p][k].client
          /\ ledger[book[d][p][k].exch].side = d
      BY DEF Arrived
    <3> QED
      BY <3>1, <2>1, <1>4
  <2> QED
    BY <2>2 DEF Arrived
<1>6. /\ work' \in Incoming /\ work'.exch = Len(ledger')
      /\ ledger'[work'.exch].client = work'.client /\ ledger'[work'.exch].side = work'.side
      /\ work'.client \notin DOMAIN resting_index'
  <2>1. work' \in Incoming
    BY <1>1, <1>3, <1>4 DEF Incoming
  <2>2. work'.exch = n /\ work'.client = r.client /\ work'.side = r.side
    BY <1>3
  <2>3. row.client = r.client /\ row.side = r.side
    BY DEF row
  <2> QED
    BY <1>1, <1>3, <1>4, <2>1, <2>2, <2>3
<1>7. batch' \in Seq(Range(batch')) /\ Len(batch') <= MaxReports
  BY <1>3, EmptyBatch, PushFacts
<1> QED
  BY <1>3, <1>4, <1>5, <1>6, <1>7 DEF WorkInv, NeverCrossed

(* A refused request changes the batch only. *)
LEMMA RefusedInv ==
    ASSUME ExchangeInv,
           \/ \E r \in Requests : Reject(r)
           \/ \E r : CancelUnknown(r)
    PROVE  ExchangeInv'
<1>1. PICK report : batch' = push(<<>>, report)
  BY DEF Reject, CancelUnknown
<1>2. UNCHANGED <<book, resting_index, next_exchange_order_id, work, ledger>>
  BY DEF Reject, CancelUnknown
<1>3. batch' \in Seq(Range(batch')) /\ Len(batch') <= MaxReports
  BY <1>1, EmptyBatch, PushFacts
<1> QED
  BY <1>2, <1>3 DEF ExchangeInv, WorkInv, NeverCrossed

(* Each side is the other's opposite. *)
LEMMA OppositeFacts ==
    ASSUME NEW d \in BookSides
    PROVE  Opposite(d) \in BookSides /\ Opposite(d) # d /\ Opposite(Opposite(d)) = d
BY DEF Opposite, BookSides

(* What rest_order does: the incoming order as it rests. *)
Rested == [client |-> work.client, exch |-> work.exch, symbol |-> work.symbol,
           filled |-> work.cumulative, remaining |-> work.remaining]

(* rest_order at the end of the loop: the order is the latest of its level   *)
(* and no opposite price crosses it.                                         *)
LEMMA FinishRests ==
    ASSUME ExchangeInv, Finish, work.remaining > 0
    PROVE  /\ Rested.client = work.client /\ Rested.exch = work.exch
           /\ Rested.filled = work.cumulative /\ Rested.remaining = work.remaining
           /\ BookShape(book') /\ Arrived(book', ledger') /\ Indexed(book', resting_index')
           /\ DOMAIN book'[work.side] = DOMAIN book[work.side] \cup {work.price}
           /\ \A e \in BookSides : e # work.side => book'[e] = book[e]
           /\ SameBut(book, book', work.client)
           /\ \E k \in 1 .. Len(book'[work.side][work.price]) :
                 book'[work.side][work.price][k] = Rested
<1>1. /\ work # Idle /\ work' = Idle /\ UNCHANGED <<next_exchange_order_id, batch, ledger>>
  BY DEF Finish
<1>2. /\ work \in Incoming /\ work.exch = Len(ledger)
      /\ ledger[work.exch].client = work.client /\ ledger[work.exch].side = work.side
      /\ work.client \notin DOMAIN resting_index
  BY <1>1 DEF ExchangeInv, WorkInv
<1> DEFINE d == work.side
           p == work.price
           old == IF p \in DOMAIN book[d] THEN book[d][p] ELSE <<>>
           order == Rested
           entry == [side |-> d, price |-> p, node |-> order.exch]
           c == book'
<1>3. /\ book' = [book EXCEPT ![d] = MapPut(book[d], p, Append(old, order))]
      /\ resting_index' = MapPut(resting_index, order.client, entry)
  BY DEF Finish, rest_order, Rested
<1>4. /\ d \in BookSides /\ p \in RequestPrices /\ order \in RestingOrder
      /\ order.client = work.client /\ order.exch = work.exch
      /\ order.filled = work.cumulative /\ order.remaining = work.remaining
  BY <1>2 DEF Incoming, RestingOrder, RequestSymbols, Rested
<1>5. Len(ledger) \in Nat \ {0}
  BY <1>2 DEF Incoming
<1>6. BookShape(book) /\ Indexed(book, resting_index) /\ Arrived(book, ledger)
  BY DEF ExchangeInv
<1> HIDE DEF order
<1>7. Append(old, order) # <<>>
  <2>1. old \in Seq(RestingOrder)
    <3>1. CASE p \in DOMAIN book[d]
      BY <3>1, <1>4, <1>6, LevelFacts
    <3>2. CASE p \notin DOMAIN book[d]
      BY <3>2
    <3> QED
      BY <3>1, <3>2
  <2> HIDE DEF old
  <2> QED
    BY <2>1, <1>4
<1>8. c = ChangeLevel(book, d, p, Append(old, order))
  <2> HIDE DEF old
  <2> QED
    BY <1>3, <1>7 DEF ChangeLevel, WithLevel
<1>9. /\ order.client \notin DOMAIN resting_index /\ order.exch = Len(ledger)
      /\ ledger[order.exch].client = order.client /\ ledger[order.exch].side = d
  BY <1>2, <1>4
<1>10. old = IF p \in DOMAIN book[d] THEN book[d][p] ELSE <<>>
  OBVIOUS
<1>11. /\ BookShape(c) /\ Arrived(c, ledger)
       /\ Indexed(c, MapPut(resting_index, order.client, entry))
       /\ DOMAIN c[d] = DOMAIN book[d] \cup {p}
       /\ \A e \in BookSides : e # d => c[e] = book[e]
       /\ SameBut(book, c, order.client) /\ \E k \in 1 .. Len(c[d][p]) : c[d][p][k] = order
  <2> HIDE DEF c, d, p, old
  <2> QED
    BY <1>4, <1>5, <1>6, <1>8, <1>9, <1>10, OrderRests
<1> QED
  BY <1>1, <1>3, <1>4, <1>11 DEF order

(* The call is over. *)
LEMMA FinishInv ==
    ASSUME ExchangeInv, Finish
    PROVE  ExchangeInv'
<1>1. /\ work # Idle /\ ~Crosses(work) /\ work' = Idle
      /\ UNCHANGED <<next_exchange_order_id, batch, ledger>>
  BY DEF Finish
<1>2. work \in Incoming
  BY <1>1 DEF ExchangeInv, WorkInv
<1>3. CASE ~(work.remaining > 0)
  <2>1. UNCHANGED <<book, resting_index>>
    BY <1>3 DEF Finish
  <2> QED
    BY <1>1, <2>1 DEF ExchangeInv, WorkInv, NeverCrossed
<1>4. CASE work.remaining > 0
  <2> DEFINE d == work.side
             p == work.price
             c == book'
  <2>2. d \in BookSides /\ p \in RequestPrices
    BY <1>2 DEF Incoming
  <2>6. /\ BookShape(c) /\ Arrived(c, ledger') /\ Indexed(c, resting_index')
        /\ DOMAIN c[d] = DOMAIN book[d] \cup {p}
        /\ \A e \in BookSides : e # d => c[e] = book[e]
    BY <1>4, FinishRests
  <2>7. \A bid \in DOMAIN c["Buy"], ask \in DOMAIN c["Sell"] : bid < ask
    <3> DEFINE o == Opposite(d)
    <3>1. o \in BookSides /\ o # d /\ c[o] = book[o]
      BY <2>2, <2>6, OppositeFacts
    <3>2. \A q \in DOMAIN book[o] : Better(o, p, q)
      <4>1. SUFFICES ASSUME DOMAIN book[o] # {} PROVE \A q \in DOMAIN book[o] : Better(o, p, q)
        OBVIOUS
      <4>2. Better(o, p, BestPrice(o))
        BY <1>1, <1>4, <4>1 DEF Crosses
      <4>3. /\ BestPrice(o) \in DOMAIN book[o]
            /\ \A q \in DOMAIN book[o] : ~Better(o, q, BestPrice(o))
        BY <3>1, <4>1, BestPriceFacts DEF ExchangeInv
      <4>4. DOMAIN book[o] \subseteq Nat /\ p \in Nat
        BY <2>2, <3>1, PricesAreNat DEF ExchangeInv
      <4> HIDE DEF o, p
      <4> QED
        BY <4>2, <4>3, <4>4 DEF Better
    <3>3. CASE d = "Buy"
      <4>1. o = "Sell" /\ \A q \in DOMAIN book["Sell"] : p < q
        BY <3>2, <3>3 DEF Opposite, Better
      <4>2. c["Sell"] = book["Sell"] /\ DOMAIN c["Buy"] = DOMAIN book["Buy"] \cup {p}
        BY <3>1, <3>3, <4>1, <2>6
      <4> HIDE DEF c
      <4> QED
        BY <4>1, <4>2 DEF ExchangeInv, NeverCrossed
    <3>4. CASE d = "Sell"
      <4>1. o = "Buy" /\ \A q \in DOMAIN book["Buy"] : p > q
        BY <3>2, <3>4 DEF Opposite, Better
      <4>2. c["Buy"] = book["Buy"] /\ DOMAIN c["Sell"] = DOMAIN book["Sell"] \cup {p}
        BY <3>1, <3>4, <4>1, <2>6
      <4>3. \A q \in DOMAIN book["Buy"] : q < p
        <5>1. DOMAIN book["Buy"] \subseteq Nat /\ p \in Nat
          BY <2>2, PricesAreNat DEF ExchangeInv, BookSides
        <5> QED
          BY <4>1, <5>1
      <4> HIDE DEF c
      <4> QED
        BY <4>2, <4>3 DEF ExchangeInv, NeverCrossed
    <3> QED
      BY <3>3, <3>4, <2>2 DEF BookSides
  <2> QED
    BY <1>1, <2>6, <2>7 DEF ExchangeInv, WorkInv, NeverCrossed
<1> QED
  BY <1>3, <1>4

(* The ledger with another row for one order. *)
WithRow(led, x, row) == [led EXCEPT ![x] = row]

(* A row that keeps client and side keeps the ledger's orders. *)
LEMMA RowChange ==
    ASSUME NEW led \in Seq(Row), NEW x \in 1 .. Len(led), NEW row \in Row,
           row.client = led[x].client, row.side = led[x].side,
           NEW new, new = WithRow(led, x, row)
    PROVE  /\ new \in Seq(Row) /\ SameOrders(led, new)
           /\ new[x] = row /\ \A y \in 1 .. Len(led) : y # x => new[y] = led[y]
<1> DEFINE R == Row
<1> HIDE DEF R
<1>1. led \in Seq(R) /\ row \in R
  BY DEF R
<1>2. new \in Seq(R) /\ Len(new) = Len(led)
  BY <1>1 DEF WithRow
<1>3. new[x] = row /\ \A y \in 1 .. Len(led) : y # x => new[y] = led[y]
  BY <1>1 DEF WithRow
<1>4. SameOrders(led, new)
  BY <1>2, <1>3 DEF SameOrders
<1> QED
  BY <1>2, <1>3, <1>4 DEF R

(* An entry of the index leads to the client's order. *)
LEMMA EntryLeads ==
    ASSUME ExchangeInv, NEW client \in DOMAIN resting_index, 
           NEW entry, entry = resting_index[client],
           NEW level, level = book[entry.side][entry.price]
    PROVE  /\ entry.side \in BookSides /\ entry.price \in DOMAIN book[entry.side]
           /\ \E i \in 1 .. Len(level) :
                 /\ level[i].client = client /\ Deref(entry) = level[i]
                 /\ ErasedFrom(level, entry) = Without(level, i)
<1>1. PICK d \in BookSides : \E p \in DOMAIN book[d] : \E k \in 1 .. Len(book[d][p]) :
           book[d][p][k].client = client
  BY DEF ExchangeInv, Indexed
<1>2. PICK p \in DOMAIN book[d] : \E k \in 1 .. Len(book[d][p]) : book[d][p][k].client = client
  BY <1>1
<1>3. PICK k \in 1 .. Len(book[d][p]) : book[d][p][k].client = client
  BY <1>2
<1>4. entry = [side |-> d, price |-> p, node |-> book[d][p][k].exch]
  BY <1>3 DEF ExchangeInv, Indexed
<1>5. entry.side = d /\ entry.price = p /\ entry.node = book[d][p][k].exch /\ level = book[d][p]
  BY <1>4
<1>6. \A j \in 1 .. Len(level) : level[j].exch = entry.node => j = k
  <2>1. BookShape(book) /\ Indexed(book, resting_index) /\ Arrived(book, ledger)
    BY DEF ExchangeInv
  <2>2. ASSUME NEW j \in 1 .. Len(book[d][p]), book[d][p][j].exch = book[d][p][k].exch
        PROVE  j = k
    BY <2>1, <2>2, OnePlace
  <2> QED
    BY <2>2, <1>5
<1>7. DOMAIN level = 1 .. Len(level)
  <2>1. level \in Seq(RestingOrder)
    BY <1>5, LevelFacts DEF ExchangeInv
  <2> QED
    BY <2>1
<1>8. NodeAt(level, entry) = k
  BY <1>5, <1>6, <1>7 DEF NodeAt
<1>9. Deref(entry) = level[k] /\ ErasedFrom(level, entry) = Without(level, k)
  BY <1>8 DEF Deref, ErasedFrom, Without
<1> QED
  BY <1>3, <1>5, <1>9

(* The row of an order whose rest was canceled. *)
CanceledRow(row, remaining) == [row EXCEPT !.canceled = remaining]

(* It differs in the canceled quantity only. *)
LEMMA CanceledRowFacts ==
    ASSUME NEW row \in Row, NEW n \in Nat
    PROVE  /\ CanceledRow(row, n) \in Row /\ CanceledRow(row, n).client = row.client
           /\ CanceledRow(row, n).side = row.side /\ CanceledRow(row, n).quantity = row.quantity
           /\ CanceledRow(row, n).reported = row.reported /\ CanceledRow(row, n).canceled = n
BY DEF CanceledRow, Row

(* What a cancel of a resting order does. *)
LEMMA CancelSays ==
    ASSUME ExchangeInv, NEW client, CancelResting(client)
    PROVE  \E d, p, i :
              /\ d \in BookSides /\ p \in DOMAIN book[d] /\ i \in 1 .. Len(book[d][p])
              /\ book[d][p][i].client = client /\ book[d][p][i].exch \in 1 .. Len(ledger)
              /\ book' = ChangeLevel(book, d, p, Without(book[d][p], i))
              /\ ledger' = WithRow(ledger, book[d][p][i].exch,
                               CanceledRow(ledger[book[d][p][i].exch], book[d][p][i].remaining))
              /\ batch' = push(<<>>, add_cancel_ack(book[d][p][i], d))
<1> DEFINE entry == resting_index[client]
           d == entry.side
           p == entry.price
           level == book[d][p]
<1>1. client \in DOMAIN resting_index
  BY DEF CancelResting, has_resting_order
<1>2. d \in BookSides /\ p \in DOMAIN book[d]
  <2> HIDE DEF entry
  <2> QED
    BY <1>1, EntryLeads DEF entry
<1>3. PICK i \in 1 .. Len(level) : /\ level[i].client = client /\ Deref(entry) = level[i]
                                  /\ ErasedFrom(level, entry) = Without(level, i)
  BY <1>1, EntryLeads
<1>4. /\ book' = ChangeLevel(book, d, p, Without(level, i))
      /\ ledger' = WithRow(ledger, level[i].exch,
                            CanceledRow(ledger[level[i].exch], level[i].remaining))
      /\ batch' = push(<<>>, add_cancel_ack(level[i], d))
  BY <1>3 DEF CancelResting, erase_resting_order, ChangeLevel, WithRow, CanceledRow
<1>5. level[i].exch \in 1 .. Len(ledger)
  BY <1>2 DEF ExchangeInv, Arrived
<1> HIDE DEF d, p
<1> QED
  BY <1>2, <1>3, <1>4, <1>5

(* What follows for the ledger. *)
LEMMA CancelLedger ==
    ASSUME NEW led \in Seq(Row), NEW o \in RestingOrder, o.exch \in 1 .. Len(led),
           NEW new, new = WithRow(led, o.exch, CanceledRow(led[o.exch], o.remaining))
    PROVE  /\ new \in Seq(Row) /\ SameOrders(led, new)
           /\ new[o.exch] = CanceledRow(led[o.exch], o.remaining)
           /\ \A x \in 1 .. Len(led) : x # o.exch => new[x] = led[x]
<1>1. o.remaining \in Nat
  BY DEF RestingOrder
<1>2. led[o.exch] \in Row
  OBVIOUS
<1> DEFINE row == CanceledRow(led[o.exch], o.remaining)
           x == o.exch
<1>3. row \in Row /\ row.client = led[x].client /\ row.side = led[x].side
  BY <1>1, <1>2, CanceledRowFacts
<1>4. x \in 1 .. Len(led) /\ new = WithRow(led, x, row)
  OBVIOUS
<1> HIDE DEF x, row
<1>5. new \in Seq(Row) /\ SameOrders(led, new)
  BY <1>3, <1>4, RowChange
<1>6. new[x] = row
  BY <1>3, <1>4, RowChange
<1>7. \A y \in 1 .. Len(led) : y # x => new[y] = led[y]
  BY <1>3, <1>4, RowChange
<1> QED
  BY <1>5, <1>6, <1>7 DEF x, row

(* A resting order is canceled. *)
LEMMA CancelInv ==
    ASSUME ExchangeInv, NEW client, CancelResting(client)
    PROVE  ExchangeInv'
<1>1. PICK d, p, i :
          /\ d \in BookSides /\ p \in DOMAIN book[d] /\ i \in 1 .. Len(book[d][p])
          /\ book[d][p][i].client = client /\ book[d][p][i].exch \in 1 .. Len(ledger)
          /\ book' = ChangeLevel(book, d, p, Without(book[d][p], i))
          /\ ledger' = WithRow(ledger, book[d][p][i].exch,
                           CanceledRow(ledger[book[d][p][i].exch], book[d][p][i].remaining))
  BY CancelSays
<1>2. /\ resting_index' = MapErase(resting_index, client) /\ work = Idle
      /\ UNCHANGED <<next_exchange_order_id, work>>
      /\ \E report : batch' = push(<<>>, report)
  BY DEF CancelResting, erase_resting_order
<1>3. BookShape(book) /\ Indexed(book, resting_index) /\ Arrived(book, ledger)
  BY DEF ExchangeInv
<1>4. book[d][p][i] \in RestingOrder
  BY <1>1, <1>3, LevelFacts
<1>5. ledger' \in Seq(Row) /\ SameOrders(ledger, ledger')
  BY <1>1, <1>4, CancelLedger DEF ExchangeInv
<1>6. /\ BookShape(book') /\ Arrived(book', ledger') /\ Indexed(book', resting_index')
      /\ \A e \in BookSides : DOMAIN book'[e] \subseteq DOMAIN book[e]
  <2>1. /\ d \in BookSides /\ p \in DOMAIN book[d] /\ i \in 1 .. Len(book[d][p])
        /\ book' = ChangeLevel(book, d, p, Without(book[d][p], i))
    BY <1>1
  <2>2. BookShape(book') /\ Arrived(book', ledger')
    BY <1>3, <1>5, <2>1, OrderLeaves
  <2>3. Indexed(book', MapErase(resting_index, book[d][p][i].client))
    BY <1>3, <1>5, <2>1, OrderLeaves
  <2>4. \A e \in BookSides : DOMAIN book'[e] \subseteq DOMAIN book[e]
    BY <1>3, <1>5, <2>1, OrderLeaves
  <2> QED
    BY <1>1, <1>2, <2>2, <2>3, <2>4
<1>7. \A bid \in DOMAIN book'["Buy"], ask \in DOMAIN book'["Sell"] : bid < ask
  BY <1>6 DEF ExchangeInv, NeverCrossed, BookSides
<1>8. batch' \in Seq(Range(batch')) /\ Len(batch') <= MaxReports
  BY <1>2, EmptyBatch, PushFacts
<1>9. next_exchange_order_id' = Len(ledger') + 1
  BY <1>2, <1>5 DEF ExchangeInv, SameOrders
<1> QED
  BY <1>2, <1>5, <1>6, <1>7, <1>8, <1>9 DEF ExchangeInv, WorkInv, NeverCrossed

-----------------------------------------------------------------------------
(* The trade a turn of the matching loop makes. *)
TradeSide == Opposite(work.side)
TradePrice == BestPrice(TradeSide)
TradeLevel == book[TradeSide][TradePrice]
Front == TradeLevel[1]
TradeQuantity == Smaller(work.remaining, Front.remaining)
FrontAfter == [Front EXCEPT !.filled = @ + TradeQuantity, !.remaining = @ - TradeQuantity]
Told(row, was, is) == IF is = was THEN row ELSE [row EXCEPT !.reported = @ + TradeQuantity]

(* The order traded with: the first of the best level, another order than    *)
(* the one in work, with something left on both sides.                       *)
LEMMA TradeFacts ==
    ASSUME ExchangeInv, work # Idle, Crosses(work)
    PROVE  /\ work \in Incoming /\ work.remaining # 0
           /\ TradeSide \in BookSides /\ TradeSide # work.side
           /\ TradePrice \in DOMAIN book[TradeSide]
           /\ TradeLevel \in Seq(RestingOrder) /\ 1 \in 1 .. Len(TradeLevel)
           /\ Front \in RestingOrder
           /\ TradeQuantity \in Nat \ {0}
           /\ TradeQuantity <= work.remaining /\ TradeQuantity <= Front.remaining
           /\ Front.exch \in 1 .. Len(ledger) /\ work.exch \in 1 .. Len(ledger)
           /\ Front.exch # work.exch /\ work.client # Front.client
           /\ ledger[Front.exch].side = TradeSide
<1>1. /\ work \in Incoming /\ work.exch = Len(ledger)
      /\ ledger[work.exch].client = work.client /\ ledger[work.exch].side = work.side
      /\ work.client \notin DOMAIN resting_index
  BY DEF ExchangeInv, WorkInv
<1>2. /\ work.remaining \in Nat /\ work.remaining > 0
      /\ work.side \in BookSides /\ work.exch \in Nat \ {0}
  BY <1>1 DEF Incoming, Crosses
<1>3. TradeSide \in BookSides /\ TradeSide # work.side
  BY <1>2, OppositeFacts DEF TradeSide
<1>4. DOMAIN book[TradeSide] # {}
  BY DEF Crosses, TradeSide
<1>5. TradePrice \in DOMAIN book[TradeSide]
  BY <1>3, <1>4, BestPriceFacts DEF ExchangeInv, TradePrice
<1>6. /\ TradeLevel \in Seq(RestingOrder) /\ Len(TradeLevel) \in Nat \ {0}
      /\ \A k \in 1 .. Len(TradeLevel) : TradeLevel[k] \in RestingOrder
  BY <1>3, <1>5, LevelFacts DEF ExchangeInv, TradeLevel
<1>7. 1 \in 1 .. Len(TradeLevel) /\ Front \in RestingOrder
  BY <1>6 DEF Front
<1>8. Front.remaining \in Nat \ {0}
  BY <1>7 DEF RestingOrder
<1>9. /\ TradeQuantity \in Nat \ {0}
      /\ TradeQuantity <= work.remaining /\ TradeQuantity <= Front.remaining
  BY <1>2, <1>8 DEF TradeQuantity, Smaller
<1>10. /\ Front.exch \in 1 .. Len(ledger) /\ ledger[Front.exch].client = Front.client
       /\ ledger[Front.exch].side = TradeSide
  BY <1>3, <1>5, <1>7 DEF ExchangeInv, Arrived, Front, TradeLevel
<1>11. Front.client \in DOMAIN resting_index
  BY <1>3, <1>5, <1>7 DEF ExchangeInv, Indexed, Front, TradeLevel
<1>12. work.exch \in 1 .. Len(ledger)
  BY <1>1, <1>2
<1> QED
  BY <1>1, <1>2, <1>3, <1>5, <1>6, <1>7, <1>9, <1>10, <1>11, <1>12

(* That order after the trade. *)
LEMMA FrontAfterFacts ==
    ASSUME ExchangeInv, work # Idle, Crosses(work)
    PROVE  /\ FrontAfter.client = Front.client /\ FrontAfter.exch = Front.exch
           /\ FrontAfter.filled = Front.filled + TradeQuantity
           /\ FrontAfter.remaining = Front.remaining - TradeQuantity
           /\ FrontAfter.remaining \in Nat
           /\ FrontAfter.remaining # 0 => FrontAfter \in RestingOrder
<1> DEFINE f == Front
           q == TradeQuantity
           g == [f EXCEPT !.filled = @ + q, !.remaining = @ - q]
<1>1. f \in RestingOrder /\ q \in Nat /\ q <= f.remaining
  BY TradeFacts
<1> HIDE DEF f, q
<1>2. /\ g.client = f.client /\ g.exch = f.exch
      /\ g.filled = f.filled + q /\ g.remaining = f.remaining - q
      /\ g.remaining \in Nat
      /\ g.remaining # 0 => g \in RestingOrder
  <2> DEFINE x == f.filled + q
             y == f.remaining - q
  <2>1. x \in Nat /\ y \in Nat
    BY <1>1 DEF RestingOrder
  <2>2. g = [f EXCEPT !.filled = x, !.remaining = y]
    OBVIOUS
  <2> HIDE DEF x, y, g
  <2>3. g.client = f.client /\ g.exch = f.exch /\ g.filled = x /\ g.remaining = y
    BY <2>2, <1>1 DEF RestingOrder
  <2>4. y # 0 => g \in RestingOrder
    BY <2>1, <2>2, <1>1 DEF RestingOrder
  <2> QED
    BY <2>1, <2>3, <2>4 DEF x, y
<1> QED
  BY <1>2 DEF f, q, FrontAfter

(* A row is credited at most the traded quantity. *)
LEMMA ToldFacts ==
    ASSUME NEW row \in Row, NEW was, NEW is, TradeQuantity \in Nat
    PROVE  /\ Told(row, was, is) \in Row
           /\ Told(row, was, is).client = row.client /\ Told(row, was, is).side = row.side
           /\ Told(row, was, is).quantity = row.quantity
           /\ Told(row, was, is).canceled = row.canceled
           /\ is # was => Told(row, was, is).reported = row.reported + TradeQuantity
<1> DEFINE q == TradeQuantity
           new == [row EXCEPT !.reported = @ + q]
<1>1. q \in Nat
  OBVIOUS
<1> HIDE DEF q
<1>2. /\ new \in Row /\ new.client = row.client /\ new.side = row.side
      /\ new.quantity = row.quantity /\ new.canceled = row.canceled
      /\ new.reported = row.reported + q
  BY <1>1 DEF Row
<1>3. Told(row, was, is) = IF is = was THEN row ELSE new
  BY DEF Told, q
<1> HIDE DEF new
<1>4. CASE is = was
  BY <1>3, <1>4
<1>5. CASE is # was
  BY <1>2, <1>3, <1>5 DEF q
<1> QED
  BY <1>4, <1>5

(* Match in these terms. *)
LEMMA MatchSays ==
    ASSUME Match
    PROVE  /\ work # Idle /\ Crosses(work)
           /\ work' = [work EXCEPT !.cumulative = @ + TradeQuantity,
                                   !.remaining = @ - TradeQuantity]
           /\ book' = ChangeLevel(book, TradeSide, TradePrice, AfterTrade(TradeLevel, FrontAfter))
           /\ resting_index' = IndexAfterTrade(FrontAfter)
           /\ next_exchange_order_id' = next_exchange_order_id
           /\ \E r, t, mine :
                 /\ mine = push(batch, r) /\ batch' = push(mine, t)
                 /\ ledger' = [ledger EXCEPT ![FrontAfter.exch] = Told(@, batch, mine),
                                             ![work.exch] = Told(@, mine, batch')]
<1> DEFINE r == add_fill_report(FrontAfter.client, FrontAfter.exch, FrontAfter.symbol, TradeSide,
                                TradePrice, TradeQuantity, FrontAfter.filled, FrontAfter.remaining)
           inc == [work EXCEPT !.cumulative = @ + TradeQuantity,
                               !.remaining = @ - TradeQuantity]
           mine == push(batch, r)
           t == add_fill_report(work.client, work.exch, work.symbol, work.side,
                                TradePrice, TradeQuantity, inc.cumulative, inc.remaining)
<1>1. /\ work # Idle /\ Crosses(work) /\ work' = inc
      /\ book' = [book EXCEPT ![TradeSide] =
                      WithLevel(book[TradeSide], TradePrice, AfterTrade(TradeLevel, FrontAfter))]
      /\ resting_index' = IndexAfterTrade(FrontAfter)
      /\ next_exchange_order_id' = next_exchange_order_id
      /\ batch' = push(mine, t)
      /\ ledger' = [ledger EXCEPT ![FrontAfter.exch] = Told(@, batch, mine),
                                  ![work.exch] = Told(@, mine, push(mine, t))]
  BY DEF Match, TradeSide, TradePrice, TradeLevel, Front, TradeQuantity, FrontAfter, Told
<1> HIDE DEF r, t, inc
<1>2. book' = ChangeLevel(book, TradeSide, TradePrice, AfterTrade(TradeLevel, FrontAfter))
  BY <1>1 DEF ChangeLevel
<1> QED
  BY <1>1, <1>2 DEF inc

(* What a trade writes in the ledger. *)
LEMMA MatchLedger ==
    ASSUME ExchangeInv, Match
    PROVE  /\ ledger' \in Seq(Row) /\ SameOrders(ledger, ledger')
           /\ \A x \in 1 .. Len(ledger) :
                 /\ ledger'[x].quantity = ledger[x].quantity
                 /\ ledger'[x].canceled = ledger[x].canceled
                 /\ x \notin {Front.exch, work.exch} => ledger'[x] = ledger[x]
           /\ batch' \in Seq(Range(batch')) /\ Len(batch') <= MaxReports
           /\ Len(batch') <= Len(batch) + 2
           /\ Len(batch) + 2 <= MaxReports =>
                 /\ Len(batch') = Len(batch) + 2
                 /\ \A x \in {Front.exch, work.exch} :
                       ledger'[x].reported = ledger[x].reported + TradeQuantity
<1> DEFINE a == Front.exch
           b == work.exch
<1>1. PICK r, t, mine : /\ mine = push(batch, r) /\ batch' = push(mine, t)
                        /\ ledger' = [ledger EXCEPT ![FrontAfter.exch] = Told(@, batch, mine),
                                                    ![work.exch] = Told(@, mine, batch')]
  BY MatchSays
<1>2. /\ a \in 1 .. Len(ledger) /\ b \in 1 .. Len(ledger) /\ a # b
      /\ TradeQuantity \in Nat /\ FrontAfter.exch = a
  BY MatchSays, TradeFacts, FrontAfterFacts
<1>3. ledger \in Seq(Row) /\ ledger[a] \in Row /\ ledger[b] \in Row
  BY <1>2 DEF ExchangeInv
<1> DEFINE ra == Told(ledger[a], batch, mine)
           rb == Told(ledger[b], mine, batch')
           half == [ledger EXCEPT ![a] = ra]
<1>4. /\ ra \in Row /\ ra.client = ledger[a].client /\ ra.side = ledger[a].side
      /\ ra.quantity = ledger[a].quantity /\ ra.canceled = ledger[a].canceled
      /\ mine # batch => ra.reported = ledger[a].reported + TradeQuantity
  BY <1>2, <1>3, ToldFacts
<1>5. /\ rb \in Row /\ rb.client = ledger[b].client /\ rb.side = ledger[b].side
      /\ rb.quantity = ledger[b].quantity /\ rb.canceled = ledger[b].canceled
      /\ batch' # mine => rb.reported = ledger[b].reported + TradeQuantity
  BY <1>2, <1>3, ToldFacts
<1>6. ledger' = WithRow(half, b, rb)
  BY <1>1, <1>2, <1>3 DEF WithRow
<1>7. half = WithRow(ledger, a, ra)
  BY DEF WithRow
<1> HIDE DEF ra, rb, half, a, b
<1>8. /\ half \in Seq(Row) /\ SameOrders(ledger, half)
      /\ half[a] = ra /\ \A y \in 1 .. Len(ledger) : y # a => half[y] = ledger[y]
  BY <1>2, <1>3, <1>4, <1>7, RowChange
<1>9. b \in 1 .. Len(half) /\ half[b] = ledger[b] /\ Len(half) = Len(ledger)
  BY <1>2, <1>8 DEF SameOrders
<1>10. /\ ledger' \in Seq(Row) /\ SameOrders(half, ledger')
       /\ ledger'[b] = rb /\ \A y \in 1 .. Len(half) : y # b => ledger'[y] = half[y]
  BY <1>5, <1>6, <1>8, <1>9, RowChange
<1>11. /\ SameOrders(ledger, ledger') /\ ledger'[a] = ra /\ ledger'[b] = rb
       /\ \A y \in 1 .. Len(ledger) : y # a /\ y # b => ledger'[y] = ledger[y]
  BY <1>2, <1>8, <1>9, <1>10 DEF SameOrders
<1>12. \A x \in 1 .. Len(ledger) : /\ ledger'[x].quantity = ledger[x].quantity
                                   /\ ledger'[x].canceled = ledger[x].canceled
  <2>1. ASSUME NEW x \in 1 .. Len(ledger)
        PROVE  ledger'[x].quantity = ledger[x].quantity /\ ledger'[x].canceled = ledger[x].canceled
    <3>1. CASE x = a
      BY <3>1, <1>4, <1>11
    <3>2. CASE x = b
      BY <3>2, <1>5, <1>11
    <3>3. CASE x # a /\ x # b
      BY <3>3, <1>11
    <3> QED
      BY <3>1, <3>2, <3>3
  <2> QED
    BY <2>1
<1>13. /\ mine \in Seq(Range(mine)) /\ Len(mine) <= MaxReports /\ Len(mine) <= Len(batch) + 1
       /\ Len(batch) < MaxReports => mine # batch /\ Len(mine) = Len(batch) + 1
  BY <1>1, PushFacts DEF ExchangeInv
<1>14. /\ batch' \in Seq(Range(batch')) /\ Len(batch') <= MaxReports /\ Len(batch') <= Len(mine) + 1
       /\ Len(mine) < MaxReports => batch' # mine /\ Len(batch') = Len(mine) + 1
  BY <1>1, <1>13, PushFacts
<1>15. Len(batch) \in Nat /\ MaxReports \in Nat
  BY ExchangeAssumption DEF ExchangeInv
<1>16. Len(batch) + 2 <= MaxReports =>
          Len(batch') = Len(batch) + 2 /\ mine # batch /\ batch' # mine
  BY <1>13, <1>14, <1>15
<1>17. Len(batch') <= Len(batch) + 2
  BY <1>13, <1>14, <1>15
<1> QED
  BY <1>4, <1>5, <1>10, <1>11, <1>12, <1>14, <1>16, <1>17 DEF a, b

(* One turn of the matching loop. *)
LEMMA MatchInv ==
    ASSUME ExchangeInv, Match
    PROVE  ExchangeInv'
<1>1. BookShape(book) /\ Indexed(book, resting_index) /\ Arrived(book, ledger)
  BY DEF ExchangeInv
<1>2. ledger' \in Seq(Row) /\ SameOrders(ledger, ledger')
      /\ batch' \in Seq(Range(batch')) /\ Len(batch') <= MaxReports
  BY MatchLedger
<1>3. /\ work # Idle /\ Crosses(work) /\ work \in Incoming
      /\ TradeSide \in BookSides /\ TradePrice \in DOMAIN book[TradeSide]
      /\ TradeLevel \in Seq(RestingOrder) /\ 1 \in 1 .. Len(TradeLevel)
      /\ TradeLevel = book[TradeSide][TradePrice] /\ Front = TradeLevel[1]
      /\ TradeQuantity \in Nat /\ TradeQuantity <= work.remaining
  BY MatchSays, TradeFacts DEF TradeLevel, Front
<1>4. /\ FrontAfter.client = Front.client /\ FrontAfter.exch = Front.exch
      /\ FrontAfter.remaining # 0 => FrontAfter \in RestingOrder
  BY <1>3, FrontAfterFacts
<1>5. /\ BookShape(book') /\ Arrived(book', ledger') /\ Indexed(book', resting_index')
      /\ \A e \in BookSides : DOMAIN book'[e] \subseteq DOMAIN book[e]
      /\ DOMAIN resting_index' \subseteq DOMAIN resting_index
  <2>1. CASE FrontAfter.remaining = 0
    <3>1. Without(TradeLevel, 1) = Tail(TradeLevel)
      BY <1>3, WithoutFacts
    <3>2. book' = ChangeLevel(book, TradeSide, TradePrice, Without(TradeLevel, 1))
      BY <2>1, <3>1, MatchSays DEF AfterTrade
    <3>3. resting_index' = MapErase(resting_index, Front.client)
      BY <2>1, <1>4, MatchSays DEF IndexAfterTrade
    <3>4. /\ BookShape(book') /\ Arrived(book', ledger')
          /\ Indexed(book', MapErase(resting_index, Front.client))
          /\ \A e \in BookSides : DOMAIN book'[e] \subseteq DOMAIN book[e]
      BY <1>1, <1>2, <1>3, <3>2, OrderLeaves
    <3>5. DOMAIN resting_index' \subseteq DOMAIN resting_index
      BY <3>3 DEF MapErase
    <3> QED
      BY <3>3, <3>4, <3>5
  <2>2. CASE FrontAfter.remaining # 0
    <3>1. book' = ChangeLevel(book, TradeSide, TradePrice, <<FrontAfter>> \o Tail(TradeLevel))
      BY <2>2, MatchSays DEF AfterTrade
    <3>2. resting_index' = resting_index
      BY <2>2, MatchSays DEF IndexAfterTrade
    <3>3. /\ BookShape(book') /\ Arrived(book', ledger') /\ Indexed(book', resting_index)
          /\ \A e \in BookSides : DOMAIN book'[e] = DOMAIN book[e]
      BY <1>1, <1>2, <1>3, <1>4, <2>2, <3>1, OrderShrinks
    <3> QED
      BY <3>2, <3>3
  <2> QED
    BY <2>1, <2>2
<1>6. \A bid \in DOMAIN book'["Buy"], ask \in DOMAIN book'["Sell"] : bid < ask
  BY <1>5 DEF ExchangeInv, NeverCrossed, BookSides
<1>7. next_exchange_order_id' = Len(ledger') + 1
  BY <1>2, MatchSays DEF ExchangeInv, SameOrders
<1>8. /\ work' \in Incoming /\ work'.exch = Len(ledger')
      /\ ledger'[work'.exch].client = work'.client /\ ledger'[work'.exch].side = work'.side
      /\ work'.client \notin DOMAIN resting_index'
  <2> DEFINE q == TradeQuantity
             w == [work EXCEPT !.cumulative = @ + q, !.remaining = @ - q]
  <2>1. q \in Nat /\ q <= work.remaining
    BY <1>3
  <2>2. work' = w
    BY MatchSays
  <2> HIDE DEF q
  <2>3. w \in Incoming /\ w.exch = work.exch /\ w.client = work.client /\ w.side = work.side
    <3> DEFINE x == work.cumulative + q
               y == work.remaining - q
    <3>1. x \in Nat /\ y \in Nat
      BY <2>1, <1>3 DEF Incoming
    <3>2. w = [work EXCEPT !.cumulative = x, !.remaining = y]
      OBVIOUS
    <3> HIDE DEF x, y, w
    <3> QED
      BY <3>1, <3>2, <1>3 DEF Incoming
  <2> HIDE DEF w
  <2>4. /\ work.exch = Len(ledger) /\ work.exch \in 1 .. Len(ledger)
        /\ ledger[work.exch].client = work.client /\ ledger[work.exch].side = work.side
        /\ work.client \notin DOMAIN resting_index
    BY <1>3, TradeFacts DEF ExchangeInv, WorkInv
  <2> QED
    BY <2>2, <2>3, <2>4, <1>2, <1>5 DEF SameOrders
<1> QED
  BY <1>2, <1>5, <1>6, <1>7, <1>8 DEF ExchangeInv, WorkInv, NeverCrossed

(* A step of the exchange, whatever cancel request it is given. *)
ExchangeStep ==
    \/ \E r \in Requests : process_new_order(r)
    \/ \E r : process_cancel_order(r)
    \/ Match
    \/ Finish

(* The steps of the specification are such steps. *)
LEMMA NextIsStep == [ExchangeNext]_exchangeVars => [ExchangeStep]_exchangeVars
BY DEF ExchangeNext, ExchangeStep

(* Every step keeps the invariant. *)
LEMMA StepInv == ExchangeInv /\ [ExchangeStep]_exchangeVars => ExchangeInv'
<1> SUFFICES ASSUME ExchangeInv, [ExchangeStep]_exchangeVars
             PROVE  ExchangeInv'
  OBVIOUS
<1>1. CASE \E r \in Requests : process_new_order(r)
  BY <1>1, AcceptInv, RefusedInv DEF process_new_order
<1>2. CASE \E r : process_cancel_order(r)
  BY <1>2, CancelInv, RefusedInv DEF process_cancel_order
<1>3. CASE Match
  BY <1>3, MatchInv
<1>4. CASE Finish
  BY <1>4, FinishInv
<1>5. CASE UNCHANGED exchangeVars
  BY <1>5 DEF exchangeVars, ExchangeInv, WorkInv, NeverCrossed
<1> QED
  BY <1>1, <1>2, <1>3, <1>4, <1>5 DEF ExchangeStep

(* It holds always. *)
LEMMA ExchangeInvariant == ExchangeSpec => []ExchangeInv
BY InitInv, StepInv, NextIsStep, PTL DEF ExchangeSpec

(* NeverCrossed *)
THEOREM ExchangeNeverCrossed == ExchangeSpec => []NeverCrossed
<1>1. ExchangeInv => NeverCrossed
  BY DEF ExchangeInv
<1> QED
  BY <1>1, ExchangeInvariant, PTL

(* The invariant implies the types. *)
LEMMA InvTypes == ExchangeInv => ExchangeTypeOK
<1> SUFFICES ASSUME ExchangeInv PROVE ExchangeTypeOK
  OBVIOUS
<1>1. DOMAIN book = BookSides
  BY DEF ExchangeInv, BookShape
<1>2. ASSUME NEW d \in BookSides
      PROVE  /\ DOMAIN book[d] \subseteq {r.price : r \in Requests}
             /\ \A level \in LevelsOf(d) : level \in Seq(RestingOrder)
  <2>1. DOMAIN book[d] \subseteq {r.price : r \in Requests}
    BY DEF ExchangeInv, BookShape, SideShape, RequestPrices
  <2>2. \A p \in DOMAIN book[d] : book[d][p] \in Seq(RestingOrder)
    BY DEF ExchangeInv, BookShape, SideShape
  <2> QED
    BY <2>1, <2>2 DEF LevelsOf
<1>3. DOMAIN resting_index \subseteq Clients
  <2>1. ASSUME NEW c \in DOMAIN resting_index PROVE c \in Clients
    <3>1. PICK d \in BookSides : \E p \in DOMAIN book[d] : \E k \in 1 .. Len(book[d][p]) :
               book[d][p][k].client = c
      BY DEF ExchangeInv, Indexed
    <3>2. PICK p \in DOMAIN book[d] : \E k \in 1 .. Len(book[d][p]) : book[d][p][k].client = c
      BY <3>1
    <3>3. PICK k \in 1 .. Len(book[d][p]) : book[d][p][k].client = c
      BY <3>2
    <3> QED
      BY <3>3, LevelFacts DEF ExchangeInv
  <2> QED
    BY <2>1
<1>4. next_exchange_order_id \in Nat /\ Len(batch) <= MaxReports
  BY DEF ExchangeInv
<1>5. work # Idle => work.remaining \in Nat /\ work.cumulative \in Nat
  BY DEF ExchangeInv, WorkInv, Incoming
<1> QED
  BY <1>1, <1>2, <1>3, <1>4, <1>5 DEF ExchangeTypeOK

(* The exchange's types, for any set of requests: levels only at positive    *)
(* prices of requests, batches within their capacity, and nothing left or    *)
(* filled below 0.                                                           *)
THEOREM ExchangeTypes == ExchangeSpec => []ExchangeTypeOK
BY InvTypes, ExchangeInvariant, PTL

-----------------------------------------------------------------------------
(* The order in place k of a level, as Resting describes it. *)
Place(b, d, p, k) == [side |-> d, price |-> p, order |-> b[d][p][k]]

(* The orders of one side of a book, and of both. *)
SideOf(b, d) ==
    UNION {{[side |-> d, price |-> p, order |-> b[d][p][k]] : k \in DOMAIN b[d][p]} :
               p \in DOMAIN b[d]}
(* The resting orders of a book. *)
OrdersOf(b) == SideOf(b, "Buy") \cup SideOf(b, "Sell")

(* The orders of a book are the orders in its levels. *)
LEMMA OrdersAre ==
    ASSUME NEW b, BookShape(b)
    PROVE  /\ \A d \in BookSides : \A p \in DOMAIN b[d] : \A k \in 1 .. Len(b[d][p]) :
                 Place(b, d, p, k) \in OrdersOf(b) /\ Place(b, d, p, k) \in SideOf(b, d)
           /\ \A d \in BookSides : \A r \in SideOf(b, d) :
                 \E p \in DOMAIN b[d] : \E k \in 1 .. Len(b[d][p]) : r = Place(b, d, p, k)
           /\ \A r \in OrdersOf(b) : \E d \in BookSides : \E p \in DOMAIN b[d] :
                 \E k \in 1 .. Len(b[d][p]) : r = Place(b, d, p, k)
<1>0. ASSUME NEW d \in BookSides, NEW p \in DOMAIN b[d]
      PROVE  DOMAIN b[d][p] = 1 .. Len(b[d][p])
  <2> DEFINE level == b[d][p]
  <2>1. level \in Seq(RestingOrder)
    BY LevelFacts
  <2> HIDE DEF level
  <2>2. DOMAIN level = 1 .. Len(level)
    BY <2>1
  <2> QED
    BY <2>2 DEF level
<1>1. ASSUME NEW d \in BookSides, NEW p \in DOMAIN b[d], NEW k \in 1 .. Len(b[d][p])
      PROVE  Place(b, d, p, k) \in SideOf(b, d)
  <2>1. k \in DOMAIN b[d][p]
    BY <1>0
  <2> QED
    BY <2>1 DEF SideOf, Place
<1>2. ASSUME NEW d \in BookSides, NEW r \in SideOf(b, d)
      PROVE  \E p \in DOMAIN b[d] : \E k \in 1 .. Len(b[d][p]) : r = Place(b, d, p, k)
  <2>1. PICK p \in DOMAIN b[d] : \E k \in DOMAIN b[d][p] : r = Place(b, d, p, k)
    BY DEF SideOf, Place
  <2> QED
    BY <2>1, <1>0
<1>3. OrdersOf(b) = UNION {SideOf(b, d) : d \in BookSides}
  BY DEF OrdersOf, BookSides
<1> QED
  BY <1>1, <1>2, <1>3

(* Resting are those of the current book. *)
LEMMA RestingOrders ==
    /\ Resting = OrdersOf(book) /\ Resting' = OrdersOf(book')
    /\ \A d : RestingOn(d) = SideOf(book, d)
BY DEF Resting, RestingOn, OrdersOf, SideOf

(* The fields of a place. *)
LEMMA PlaceFields ==
    ASSUME NEW b, NEW d, NEW p, NEW k
    PROVE  /\ Place(b, d, p, k).side = d /\ Place(b, d, p, k).price = p
           /\ Place(b, d, p, k).order = b[d][p][k]
BY DEF Place

(* Every resting order has a place. *)
LEMMA PickOrder ==
    ASSUME NEW b, BookShape(b), NEW r \in OrdersOf(b)
    PROVE  \E d, p, k : 
              /\ d \in BookSides /\ p \in DOMAIN b[d] /\ k \in 1 .. Len(b[d][p])
              /\ r.side = d /\ r.price = p /\ r.order = b[d][p][k] /\ r = Place(b, d, p, k)
<1>1. PICK d \in BookSides : \E p \in DOMAIN b[d] : \E k \in 1 .. Len(b[d][p]) :
          r = Place(b, d, p, k)
  BY OrdersAre
<1>2. PICK p \in DOMAIN b[d] : \E k \in 1 .. Len(b[d][p]) : r = Place(b, d, p, k)
  BY <1>1
<1>3. PICK k \in 1 .. Len(b[d][p]) : r = Place(b, d, p, k)
  BY <1>2
<1>4. r.side = d /\ r.price = p /\ r.order = b[d][p][k]
  BY <1>3, PlaceFields
<1> QED
  BY <1>3, <1>4

(* What the index and the ledger say of a resting order. *)
LEMMA OrderFacts ==
    ASSUME NEW b, NEW ix, NEW led, BookShape(b), Indexed(b, ix), Arrived(b, led),
           NEW r \in OrdersOf(b)
    PROVE  /\ r.side \in BookSides /\ r.price \in DOMAIN b[r.side] /\ r.order \in RestingOrder
           /\ r.order.client \in DOMAIN ix
           /\ ix[r.order.client] = [side |-> r.side, price |-> r.price, node |-> r.order.exch]
           /\ r.order.exch \in 1 .. Len(led) /\ led[r.order.exch].client = r.order.client
           /\ led[r.order.exch].side = r.side
<1>1. PICK d, p, k :
          /\ d \in BookSides /\ p \in DOMAIN b[d] /\ k \in 1 .. Len(b[d][p])
          /\ r.side = d /\ r.price = p /\ r.order = b[d][p][k]
  BY PickOrder
<1>2. /\ b[d][p][k].client \in DOMAIN ix
      /\ ix[b[d][p][k].client] = [side |-> d, price |-> p, node |-> b[d][p][k].exch]
  BY <1>1 DEF Indexed
<1>3. /\ b[d][p][k].exch \in 1 .. Len(led)
      /\ led[b[d][p][k].exch].client = b[d][p][k].client
      /\ led[b[d][p][k].exch].side = d
  BY <1>1 DEF Arrived
<1>4. b[d][p][k] \in RestingOrder
  BY <1>1, LevelFacts
<1> QED
  BY <1>1, <1>2, <1>3, <1>4

(* An order rests once. *)
LEMMA RestsOnce ==
    ASSUME NEW b, NEW ix, NEW led, BookShape(b), Indexed(b, ix), Arrived(b, led),
           NEW r \in OrdersOf(b), NEW t \in OrdersOf(b),
           r.order.client = t.order.client \/ r.order.exch = t.order.exch
    PROVE  r = t
<1>1. PICK d, p, k :
          /\ d \in BookSides /\ p \in DOMAIN b[d] /\ k \in 1 .. Len(b[d][p])
          /\ r.order = b[d][p][k] /\ r = Place(b, d, p, k)
  BY PickOrder
<1>2. PICK e, q, j :
          /\ e \in BookSides /\ q \in DOMAIN b[e] /\ j \in 1 .. Len(b[e][q])
          /\ t.order = b[e][q][j] /\ t = Place(b, e, q, j)
  BY PickOrder
<1>3. d = e /\ p = q /\ k = j
  BY <1>1, <1>2, OnePlace
<1> QED
  BY <1>1, <1>2, <1>3

(* The invariant implies that the index is exact. *)
LEMMA InvIndexExact == ExchangeInv => IndexExact
<1> SUFFICES ASSUME ExchangeInv PROVE IndexExact
  OBVIOUS
<1> DEFINE C == {r.order.client : r \in Resting}
           The(c) == CHOOSE x \in Resting : x.order.client = c
           Is(c) == [side |-> The(c).side, price |-> The(c).price, node |-> The(c).order.exch]
<1>0. BookShape(book) /\ Indexed(book, resting_index) /\ Arrived(book, ledger)
  BY DEF ExchangeInv
<1>1. \A d \in BookSides : <<>> \notin LevelsOf(d)
  BY <1>0 DEF BookShape, SideShape, LevelsOf
<1>2. \A r, t \in Resting : r.order.client = t.order.client => r = t
  BY <1>0, RestsOnce, RestingOrders
<1>3. ASSUME NEW r \in Resting
      PROVE  /\ r.order.client \in DOMAIN resting_index
             /\ resting_index[r.order.client] =
                   [side |-> r.side, price |-> r.price, node |-> r.order.exch]
  <2>4. PICK d, p, k :
            /\ d \in BookSides /\ p \in DOMAIN book[d] /\ k \in 1 .. Len(book[d][p])
            /\ r.side = d /\ r.price = p /\ r.order = book[d][p][k]
    BY <1>0, PickOrder, RestingOrders
  <2>5. /\ book[d][p][k].client \in DOMAIN resting_index
        /\ resting_index[book[d][p][k].client] =
              [side |-> d, price |-> p, node |-> book[d][p][k].exch]
    BY <1>0, <2>4 DEF Indexed
  <2> QED
    BY <2>4, <2>5
<1>4. C = DOMAIN resting_index
  <2>1. ASSUME NEW c \in DOMAIN resting_index PROVE c \in C
    <3>1. PICK d \in BookSides : \E p \in DOMAIN book[d] : \E k \in 1 .. Len(book[d][p]) :
              book[d][p][k].client = c
      BY <1>0 DEF Indexed
    <3>2. PICK p \in DOMAIN book[d] : \E k \in 1 .. Len(book[d][p]) : book[d][p][k].client = c
      BY <3>1
    <3>3. PICK k \in 1 .. Len(book[d][p]) : book[d][p][k].client = c
      BY <3>2
    <3>4. Place(book, d, p, k) \in Resting /\ Place(book, d, p, k).order.client = c
      BY <1>0, <3>3, RestingOrders, OrdersAre, PlaceFields
    <3> QED
      BY <3>4
  <2> QED
    BY <2>1, <1>3
<1>5. ASSUME NEW c \in C PROVE resting_index[c] = Is(c)
  <2>1. PICK r \in Resting : r.order.client = c
    OBVIOUS
  <2>2. The(c) \in Resting /\ The(c).order.client = c
    BY <2>1
  <2> HIDE DEF The
  <2> QED
    BY <2>2, <1>3
<1>6. resting_index = [c \in C |-> resting_index[c]]
  BY <1>0, <1>4 DEF Indexed
<1>7. resting_index = [c \in C |-> Is(c)]
  <2> HIDE DEF C, Is
  <2> QED
    BY <1>5, <1>6
<1> QED
  BY <1>1, <1>2, <1>7 DEF IndexExact

(* resting_index_ and the books never disagree, whatever requests come:      *)
(* every stored iterator is valid when it is dereferenced.                   *)
THEOREM ExchangeIndexExact == ExchangeSpec => []IndexExact
BY InvIndexExact, ExchangeInvariant, PTL

-----------------------------------------------------------------------------
(* The places of Keeps as resting orders. *)
LEMMA KeepsOrders ==
    ASSUME NEW b, NEW c, BookShape(b), BookShape(c), NEW x, Keeps(b, c, x),
           NEW r \in OrdersOf(b), r.order.client # x
    PROVE  r \in OrdersOf(c)
<1>1. PICK d, p, k :
          /\ d \in BookSides /\ p \in DOMAIN b[d] /\ k \in 1 .. Len(b[d][p])
          /\ r.order = b[d][p][k] /\ r = Place(b, d, p, k)
  BY PickOrder
<1>2. PICK j \in 1 .. Len(c[d][p]) : p \in DOMAIN c[d] /\ c[d][p][j] = b[d][p][k]
  BY <1>1 DEF Keeps
<1>3. Place(c, d, p, j) \in OrdersOf(c)
  BY <1>1, <1>2, OrdersAre
<1> QED
  BY <1>1, <1>2, <1>3 DEF Place

(* A turn of the loop changes the order it trades with and no other. *)
LEMMA MatchOrders ==
    ASSUME ExchangeInv, Match
    PROVE  /\ Place(book, TradeSide, TradePrice, 1) \in Resting
           /\ \A r \in Resting : r.order.client # Front.client => r \in Resting'
           /\ \A r \in Resting' : \/ r.order.client # Front.client /\ r \in Resting
                                  \/ /\ r.side = TradeSide /\ r.price = TradePrice
                                     /\ r.order = FrontAfter /\ FrontAfter.remaining # 0
           /\ \A r \in Resting : r.order.client = Front.client \/ r.order.exch = Front.exch
                                    => r = Place(book, TradeSide, TradePrice, 1)
           /\ FrontAfter.remaining # 0 => \E r \in Resting' : r.order = FrontAfter
<1>1. BookShape(book) /\ Indexed(book, resting_index) /\ Arrived(book, ledger)
  BY DEF ExchangeInv
<1>2. BookShape(book') /\ Indexed(book', resting_index') /\ Arrived(book', ledger')
  BY MatchInv DEF ExchangeInv
<1>3. /\ work # Idle /\ Crosses(work)
      /\ TradeSide \in BookSides /\ TradePrice \in DOMAIN book[TradeSide]
      /\ TradeLevel \in Seq(RestingOrder) /\ 1 \in 1 .. Len(TradeLevel)
      /\ TradeLevel = book[TradeSide][TradePrice] /\ Front = TradeLevel[1]
  BY MatchSays, TradeFacts DEF TradeLevel, Front
<1>4. /\ FrontAfter.client = Front.client /\ FrontAfter.exch = Front.exch
      /\ FrontAfter.remaining # 0 => FrontAfter \in RestingOrder
  BY <1>3, FrontAfterFacts
<1>5. SameOrders(ledger, ledger')
  BY MatchLedger
<1> DEFINE here == Place(book, TradeSide, TradePrice, 1)
<1>6. here \in OrdersOf(book) /\ here.order = Front
  BY <1>1, <1>3, OrdersAre, PlaceFields
<1>7. /\ Keeps(book, book', Front.client) /\ Keeps(book', book, Front.client)
      /\ \A r \in OrdersOf(book') : r.order.client = Front.client =>
             /\ r.side = TradeSide /\ r.price = TradePrice
             /\ r.order = FrontAfter /\ FrontAfter.remaining # 0
      /\ FrontAfter.remaining # 0 => \E r \in OrdersOf(book') : r.order = FrontAfter
  <2>1. CASE FrontAfter.remaining = 0
    <3>1. Without(TradeLevel, 1) = Tail(TradeLevel)
      BY <1>3, WithoutFacts
    <3>2. book' = ChangeLevel(book, TradeSide, TradePrice, Without(TradeLevel, 1))
      BY <2>1, <3>1, MatchSays DEF AfterTrade
    <3>3. SameBut(book, book', Front.client)
      BY <1>1, <1>3, <1>5, <3>2, OrderLeaves
    <3>4. resting_index' = MapErase(resting_index, Front.client)
      BY <2>1, <1>4, MatchSays DEF IndexAfterTrade
    <3>5. Front.client \notin DOMAIN resting_index'
      BY <3>4 DEF MapErase
    <3>6. ASSUME NEW r \in OrdersOf(book') PROVE r.order.client \in DOMAIN resting_index'
      BY <1>2, OrderFacts
    <3> QED
      BY <2>1, <3>3, <3>5, <3>6 DEF SameBut
  <2>2. CASE FrontAfter.remaining # 0
    <3>1. book' = ChangeLevel(book, TradeSide, TradePrice, <<FrontAfter>> \o Tail(TradeLevel))
      BY <2>2, MatchSays DEF AfterTrade
    <3>2. /\ \A e \in BookSides : DOMAIN book'[e] = DOMAIN book[e]
          /\ book'[TradeSide][TradePrice][1] = FrontAfter
          /\ 1 \in 1 .. Len(book'[TradeSide][TradePrice])
          /\ SameBut(book, book', FrontAfter.client)
      BY <1>1, <1>3, <1>4, <1>5, <2>2, <3>1, OrderShrinks
    <3> DEFINE there == Place(book', TradeSide, TradePrice, 1)
    <3>3. /\ there \in OrdersOf(book') /\ there.order = FrontAfter
          /\ there.side = TradeSide /\ there.price = TradePrice
      BY <1>2, <1>3, <3>2, OrdersAre, PlaceFields
    <3> HIDE DEF there
    <3>4. ASSUME NEW r \in OrdersOf(book'), r.order.client = Front.client PROVE r = there
      <4>1. r.order.client = there.order.client
        BY <1>4, <3>3, <3>4
      <4> QED
        BY <1>2, <3>3, <4>1, RestsOnce
    <3> QED
      BY <1>4, <2>2, <3>2, <3>3, <3>4 DEF SameBut
  <2> QED
    BY <2>1, <2>2
<1>8. \A r \in OrdersOf(book) :
          r.order.client = Front.client \/ r.order.exch = Front.exch => r = here
  <2> HIDE DEF here
  <2> QED
    BY <1>1, <1>6, RestsOnce
<1>9. \A r \in OrdersOf(book) : r.order.client # Front.client => r \in OrdersOf(book')
  BY <1>1, <1>2, <1>7, KeepsOrders
<1>10. \A r \in OrdersOf(book') : r.order.client # Front.client => r \in OrdersOf(book)
  BY <1>1, <1>2, <1>7, KeepsOrders
<1> QED
  BY <1>6, <1>7, <1>8, <1>9, <1>10, RestingOrders

(* When the loop is over the orders that rested still do, and the incoming    *)
(* order rests beside them when something remains of it.                    *)
LEMMA FinishOrders ==
    ASSUME ExchangeInv, Finish
    PROVE  /\ Resting \subseteq Resting'
           /\ \A r \in Resting' : \/ r \in Resting
                                  \/ /\ work.remaining > 0
                                     /\ r.side = work.side /\ r.price = work.price
                                     /\ r.order = Rested
           /\ work.remaining > 0 => \E r \in Resting' : r.order.exch = work.exch
<1>1. /\ work # Idle /\ UNCHANGED <<next_exchange_order_id, batch, ledger>>
  BY DEF Finish
<1>2. /\ work \in Incoming /\ work.exch = Len(ledger)
      /\ ledger[work.exch].client = work.client /\ ledger[work.exch].side = work.side
      /\ work.client \notin DOMAIN resting_index
  BY <1>1 DEF ExchangeInv, WorkInv
<1>3. BookShape(book) /\ Indexed(book, resting_index) /\ Arrived(book, ledger)
  BY DEF ExchangeInv
<1>4. BookShape(book') /\ Indexed(book', resting_index') /\ Arrived(book', ledger')
  BY FinishInv DEF ExchangeInv
<1>5. CASE ~(work.remaining > 0)
  <2>1. book' = book
    BY <1>5 DEF Finish
  <2> QED
    BY <1>5, <2>1, RestingOrders
<1>6. CASE work.remaining > 0
  <2> DEFINE d == work.side
             p == work.price
  <2>1. /\ Rested.client = work.client /\ Rested.exch = work.exch
        /\ Rested.filled = work.cumulative /\ Rested.remaining = work.remaining
        /\ DOMAIN book'[d] = DOMAIN book[d] \cup {p} /\ SameBut(book, book', work.client)
        /\ \E k \in 1 .. Len(book'[d][p]) : book'[d][p][k] = Rested
    BY <1>6, FinishRests
  <2>2. d \in BookSides
    BY <1>2 DEF Incoming
  <2>3. PICK k \in 1 .. Len(book'[d][p]) : book'[d][p][k] = Rested
    BY <2>1
  <2> DEFINE new == Place(book', d, p, k)
  <2>4. new \in OrdersOf(book') /\ new.order = Rested /\ new.side = d /\ new.price = p
    BY <1>4, <2>1, <2>2, <2>3, OrdersAre, PlaceFields
  <2> HIDE DEF new
  <2>5. \A r \in OrdersOf(book) : r.order.client # work.client
    BY <1>2, <1>3, OrderFacts
  <2>6. \A r \in OrdersOf(book) : r \in OrdersOf(book')
    BY <1>3, <1>4, <2>1, <2>5, KeepsOrders DEF SameBut
  <2>7. \A r \in OrdersOf(book') : r.order.client # work.client => r \in OrdersOf(book)
    BY <1>3, <1>4, <2>1, KeepsOrders DEF SameBut
  <2>8. \A r \in OrdersOf(book') : r.order.client = work.client => r = new
    BY <1>4, <2>1, <2>4, RestsOnce
  <2> QED
    BY <1>6, <2>1, <2>4, <2>6, <2>7, <2>8, RestingOrders
<1> QED
  BY <1>5, <1>6

(* The step that PriceTimePriority allows. *)
Priority ==
    work # Idle =>
        \A r \in Resting : r \notin Resting' =>
            /\ \A t \in RestingOn(r.side) :
                  ~Better(r.side, t.price, r.price)
                  /\ (t.price = r.price => t.order.exch >= r.order.exch)
            /\ \A n \in Resting' : n.order.exch = r.order.exch =>
                  n.price = r.price /\ n.order.client = r.order.client

(* A trade takes or changes only the first order of the best level. *)
LEMMA MatchPriority ==
    ASSUME ExchangeInv, Match, NEW r \in Resting, r \notin Resting'
    PROVE  /\ \A t \in RestingOn(r.side) :
                 ~Better(r.side, t.price, r.price)
                 /\ (t.price = r.price => t.order.exch >= r.order.exch)
           /\ \A n \in Resting' : n.order.exch = r.order.exch =>
                 n.price = r.price /\ n.order.client = r.order.client
<1>1. BookShape(book) /\ Indexed(book, resting_index) /\ Arrived(book, ledger)
  BY DEF ExchangeInv
<1>2. /\ work # Idle /\ Crosses(work)
      /\ TradeSide \in BookSides /\ TradePrice \in DOMAIN book[TradeSide]
      /\ 1 \in 1 .. Len(TradeLevel)
      /\ TradeLevel = book[TradeSide][TradePrice] /\ Front = TradeLevel[1]
  BY MatchSays, TradeFacts DEF TradeLevel, Front
<1>3. r = Place(book, TradeSide, TradePrice, 1)
  BY MatchOrders
<1>4. r.side = TradeSide /\ r.price = TradePrice /\ r.order = Front
  BY <1>2, <1>3, PlaceFields
<1>5. ASSUME NEW t \in RestingOn(r.side)
      PROVE  /\ ~Better(r.side, t.price, r.price)
             /\ (t.price = r.price => t.order.exch >= r.order.exch)
  <2>1. PICK p \in DOMAIN book[TradeSide] : \E k \in 1 .. Len(book[TradeSide][p]) :
             t = Place(book, TradeSide, p, k)
    BY <1>1, <1>2, <1>4, RestingOrders, OrdersAre
  <2>2. PICK k \in 1 .. Len(book[TradeSide][p]) : t = Place(book, TradeSide, p, k)
    BY <2>1
  <2>3. t.price = p /\ t.order = book[TradeSide][p][k]
    BY <2>2, PlaceFields
  <2>4. ~Better(TradeSide, p, TradePrice)
    BY <1>1, <1>2, BestPriceFacts DEF TradePrice
  <2>5. ASSUME p = TradePrice PROVE t.order.exch >= Front.exch
    <3>1. Front.exch \in Nat /\ TradeLevel[k].exch \in Nat
      BY <1>1, <1>2, <2>5, LevelFacts
    <3>2. k = 1 \/ 1 < k
      OBVIOUS
    <3>3. 1 < k => Front.exch < TradeLevel[k].exch
      BY <1>1, <1>2, <2>5 DEF Arrived
    <3> QED
      BY <1>2, <2>3, <2>5, <3>1, <3>2, <3>3
  <2> QED
    BY <1>4, <2>3, <2>4, <2>5
<1>6. ASSUME NEW n \in Resting', n.order.exch = r.order.exch
      PROVE  n.price = r.price /\ n.order.client = r.order.client
  <2>1. CASE n.order.client # Front.client /\ n \in Resting
    <3>1. n = Place(book, TradeSide, TradePrice, 1)
      BY <1>4, <1>6, <2>1, MatchOrders
    <3> QED
      BY <1>3, <3>1
  <2>2. CASE n.price = TradePrice /\ n.order = FrontAfter
    BY <1>2, <1>4, <2>2, FrontAfterFacts
  <2> QED
    BY <2>1, <2>2, MatchOrders
<1> QED
  BY <1>5, <1>6

(* No step breaks priority. *)
LEMMA StepPriority == ExchangeInv /\ [ExchangeStep]_exchangeVars => [Priority]_exchangeVars
<1> SUFFICES ASSUME ExchangeInv, ExchangeStep, work # Idle
             PROVE  \A r \in Resting : r \notin Resting' =>
                       /\ \A t \in RestingOn(r.side) :
                             ~Better(r.side, t.price, r.price)
                             /\ (t.price = r.price => t.order.exch >= r.order.exch)
                       /\ \A n \in Resting' : n.order.exch = r.order.exch =>
                             n.price = r.price /\ n.order.client = r.order.client
  BY DEF Priority
<1>1. CASE Match
  BY <1>1, MatchPriority
<1>2. CASE Finish
  BY <1>2, FinishOrders
<1>3. CASE \E r \in Requests : process_new_order(r)
  BY <1>3 DEF process_new_order, Accept, Reject
<1>4. CASE \E r : process_cancel_order(r)
  BY <1>4 DEF process_cancel_order, CancelResting, CancelUnknown
<1> QED
  BY <1>1, <1>2, <1>3, <1>4 DEF ExchangeStep

(* Price-time priority, for any requests and any number of orders. *)
THEOREM ExchangePriority == ExchangeSpec => PriceTimePriority
<1>1. ExchangeSpec => [][Priority]_exchangeVars
  BY ExchangeInvariant, NextIsStep, StepPriority, PTL DEF ExchangeSpec
<1> QED
  BY <1>1 DEF PriceTimePriority, Priority

-----------------------------------------------------------------------------
(* Accounting: what a batch must hold, and what the ledger says. *)
Room ==
    /\ IsFiniteSet(DOMAIN resting_index) /\ Len(ledger) <= MaxAccepted
    /\ work = Idle => Cardinality(DOMAIN resting_index) <= Len(ledger)
    /\ work # Idle => Cardinality(DOMAIN resting_index) <= Len(ledger) - 1
    /\ work # Idle /\ work.remaining > 0 =>
          Len(batch) + 2 * Cardinality(DOMAIN resting_index) <= 2 * Len(ledger) - 1

(* The ledger row of an order that has filled so much and has so much left. *)
Accounted(row, filled, remaining) ==
    row.reported = filled /\ row.quantity = filled + remaining /\ row.canceled = 0

(* What one side was reported in all. *)
Total(led, d) ==
    SumFunctionOnSet([x \in DOMAIN led |-> led[x].reported], {x \in DOMAIN led : led[x].side = d})

(* The inductive invariant of the reports: every order is accounted for,     *)
(* and the two sides were reported the same.                                 *)
Accounts ==
    /\ \A r \in Resting : Accounted(ledger[r.order.exch], r.order.filled, r.order.remaining)
    /\ work # Idle => Accounted(ledger[work.exch], work.cumulative, work.remaining)
    /\ \A x \in 1 .. Len(ledger) :
          (\A r \in Resting : r.order.exch # x) /\ x # work.exch =>
              ledger[x].reported + ledger[x].canceled = ledger[x].quantity
    /\ Total(ledger, "Buy") = Total(ledger, "Sell")

(* The exchange starts with room. *)
LEMMA InitRoom == ExchangeInit => Room
<1> SUFFICES ASSUME ExchangeInit PROVE Room
  OBVIOUS
<1>1. DOMAIN resting_index = {} /\ Len(ledger) = 0 /\ work = Idle
  BY DEF ExchangeInit, EmptyMap
<1>2. IsFiniteSet(DOMAIN resting_index) /\ Cardinality(DOMAIN resting_index) = 0
  BY <1>1, FS_EmptySet
<1> QED
  BY <1>1, <1>2, ExchangeAssumption DEF Room

(* Fewer or as many orders rest as were accepted, and while an order is in    *)
(* work the batch has room for what the resting orders can still add to it.  *)
LEMMA StepRoom == ExchangeInv /\ Room /\ [ExchangeStep]_exchangeVars => Room'
<1> SUFFICES ASSUME ExchangeInv, Room, [ExchangeStep]_exchangeVars
             PROVE  Room'
  OBVIOUS
<1> DEFINE N == Cardinality(DOMAIN resting_index)
<1>0. /\ IsFiniteSet(DOMAIN resting_index) /\ N \in Nat
      /\ Len(ledger) \in Nat /\ Len(batch) \in Nat /\ MaxAccepted \in Nat
  BY FS_CardinalityType, ExchangeAssumption DEF Room, ExchangeInv
<1>1. ASSUME NEW r \in Requests, Accept(r) PROVE Room'
  <2>1. /\ work = Idle /\ Len(ledger') = Len(ledger) + 1 /\ resting_index' = resting_index
        /\ Len(ledger') <= MaxAccepted
    <3>1. /\ work = Idle /\ resting_index' = resting_index /\ next_exchange_order_id <= MaxAccepted
          /\ next_exchange_order_id' = next_exchange_order_id + 1
      BY <1>1 DEF Accept
    <3>2. next_exchange_order_id = Len(ledger) + 1 /\ next_exchange_order_id' = Len(ledger') + 1
          /\ Len(ledger') \in Nat
      BY <1>1, AcceptInv DEF ExchangeInv
    <3> QED
      BY <3>1, <3>2, <1>0
  <2>2. Len(batch') <= 1
    <3>1. PICK report : batch' = push(<<>>, report)
      BY <1>1 DEF Accept
    <3>2. Len(push(<<>>, report)) <= Len(<<>>) + 1
      BY EmptyBatch, PushFacts
    <3> QED
      BY <3>1, <3>2, EmptyBatch
  <2>3. Len(batch') \in Nat
    BY <1>1, AcceptInv DEF ExchangeInv
  <2>4. N <= Len(ledger)
    BY <2>1 DEF Room
  <2>5. Len(batch') + 2 * N <= 2 * Len(ledger') - 1 /\ N <= Len(ledger')  /\ N <= Len(ledger') - 1
    <3> HIDE DEF N
    <3> QED
      BY <1>0, <2>1, <2>2, <2>3, <2>4
  <2> QED
    BY <1>0, <2>1, <2>5 DEF Room
<1>2. ASSUME UNCHANGED <<resting_index, work, ledger>>, work = Idle PROVE Room'
  BY <1>2 DEF Room
<1>3. ASSUME NEW client, CancelResting(client) PROVE Room'
  <2>1. /\ work = Idle /\ work' = work /\ resting_index' = MapErase(resting_index, client)
        /\ client \in DOMAIN resting_index
    BY <1>3 DEF CancelResting, erase_resting_order, has_resting_order
  <2>2. Len(ledger') = Len(ledger)
    <3>1. next_exchange_order_id' = next_exchange_order_id
      BY <1>3 DEF CancelResting
    <3>2. next_exchange_order_id = Len(ledger) + 1 /\ next_exchange_order_id' = Len(ledger') + 1
          /\ Len(ledger') \in Nat
      BY <1>3, CancelInv DEF ExchangeInv
    <3> QED
      BY <1>0, <3>1, <3>2
  <2>3. DOMAIN resting_index' = DOMAIN resting_index \ {client}
    BY <2>1 DEF MapErase
  <2>4. IsFiniteSet(DOMAIN resting_index') /\ Cardinality(DOMAIN resting_index') = N - 1
    BY <1>0, <2>1, <2>3, FS_RemoveElement, SMTT(40)
  <2> QED
    BY <1>0, <2>1, <2>2, <2>4 DEF Room
<1>4. ASSUME Match PROVE Room'
  <2>1. /\ work # Idle /\ Crosses(work) /\ work \in Incoming /\ work.remaining # 0
        /\ TradeQuantity \in Nat /\ TradeQuantity = Smaller(work.remaining, Front.remaining)
        /\ TradeQuantity <= work.remaining /\ Front \in RestingOrder
    BY <1>4, MatchSays, TradeFacts DEF TradeQuantity
  <2>2. FrontAfter.client = Front.client /\ FrontAfter.remaining = Front.remaining - TradeQuantity
    BY <2>1, FrontAfterFacts
  <2>3. work.remaining \in Nat \ {0} /\ Front.remaining \in Nat
    BY <2>1 DEF Incoming, RestingOrder
  <2>4. Len(batch') <= Len(batch) + 2 /\ Len(ledger') = Len(ledger) /\ Len(batch') \in Nat
    BY <1>4, MatchLedger DEF SameOrders
  <2>5. work' # Idle
    <3>1. work' = [work EXCEPT !.cumulative = @ + TradeQuantity, !.remaining = @ - TradeQuantity]
      BY <1>4, MatchSays
    <3>2. work'.exch = work.exch
      BY <2>1, <3>1 DEF Incoming
    <3>3. Idle.exch = 0 /\ work.exch # 0
      BY <2>1 DEF Idle, Incoming
    <3> QED
      BY <3>2, <3>3
  <2>6. N <= Len(ledger) - 1 /\ Len(batch) + 2 * N <= 2 * Len(ledger) - 1
    BY <2>1, <2>3 DEF Room
  <2>7. CASE FrontAfter.remaining = 0
    <3>1. resting_index' = MapErase(resting_index, Front.client)
      BY <1>4, <2>2, <2>7, MatchSays DEF IndexAfterTrade
    <3>2. DOMAIN resting_index' = DOMAIN resting_index \ {Front.client}
      BY <3>1 DEF MapErase
    <3>3. Front.client \in DOMAIN resting_index
      <4>1. /\ TradeSide \in BookSides /\ TradePrice \in DOMAIN book[TradeSide]
            /\ 1 \in 1 .. Len(book[TradeSide][TradePrice]) /\ Front = book[TradeSide][TradePrice][1]
        BY <2>1, TradeFacts DEF TradeLevel, Front
      <4> QED
        BY <4>1 DEF ExchangeInv, Indexed
    <3>4. IsFiniteSet(DOMAIN resting_index') /\ Cardinality(DOMAIN resting_index') = N - 1
      BY <1>0, <3>2, <3>3, FS_RemoveElement
    <3>5. Len(batch') + 2 * (N - 1) <= 2 * Len(ledger) - 1 /\ N - 1 <= Len(ledger) - 1
      <4> HIDE DEF N
      <4> QED
        BY <1>0, <2>4, <2>6
    <3> QED
      BY <2>4, <2>5, <3>4, <3>5 DEF Room
  <2>8. CASE FrontAfter.remaining # 0
    <3>1. resting_index' = resting_index
      BY <1>4, <2>8, MatchSays DEF IndexAfterTrade
    <3>2. TradeQuantity = work.remaining
      BY <2>1, <2>2, <2>3, <2>8 DEF Smaller
    <3>3. work'.remaining = work.remaining - TradeQuantity
      <4>1. work' = [work EXCEPT !.cumulative = @ + TradeQuantity, !.remaining = @ - TradeQuantity]
        BY <1>4, MatchSays
      <4> QED
        BY <2>1, <4>1 DEF Incoming
    <3>4. ~(work'.remaining > 0)
      BY <2>3, <3>2, <3>3
    <3> QED
      BY <2>4, <2>5, <2>6, <3>1, <3>4 DEF Room
  <2> QED
    BY <2>7, <2>8
<1>5. ASSUME Finish PROVE Room'
  <2>1. work # Idle /\ work' = Idle /\ ledger' = ledger
    BY <1>5 DEF Finish
  <2>2. N <= Len(ledger) - 1
    BY <2>1 DEF Room
  <2>3. CASE work.remaining > 0
    <3>1. DOMAIN resting_index' = DOMAIN resting_index \cup {work.client}
      BY <1>5, <2>3 DEF Finish, rest_order, MapPut
    <3>2. IsFiniteSet(DOMAIN resting_index') /\ Cardinality(DOMAIN resting_index') <= N + 1
      <4>1. work.client \notin DOMAIN resting_index
        BY <2>1 DEF ExchangeInv, WorkInv
      <4>2. /\ IsFiniteSet(DOMAIN resting_index \cup {work.client})
            /\ Cardinality(DOMAIN resting_index \cup {work.client}) = N + 1
        BY <1>0, <4>1, FS_AddElement
      <4> QED
        BY <1>0, <3>1, <4>2
    <3>3. Cardinality(DOMAIN resting_index') \in Nat
      BY <3>2, FS_CardinalityType
    <3>4. Cardinality(DOMAIN resting_index') <= Len(ledger)
      <4> HIDE DEF N
      <4> QED
        BY <1>0, <2>2, <3>2, <3>3
    <3> QED
      BY <2>1, <3>2, <3>4 DEF Room
  <2>4. CASE ~(work.remaining > 0)
    <3>1. resting_index' = resting_index
      BY <1>5, <2>4 DEF Finish
    <3>2. N <= Len(ledger)
      BY <1>0, <2>2
    <3> QED
      BY <2>1, <3>1, <3>2 DEF Room
  <2> QED
    BY <2>3, <2>4
<1>6. CASE UNCHANGED exchangeVars
  BY <1>6 DEF exchangeVars, Room
<1>7. CASE \E r \in Requests : process_new_order(r)
  BY <1>1, <1>2, <1>7 DEF process_new_order, Reject
<1>8. CASE \E r : process_cancel_order(r)
  BY <1>2, <1>3, <1>8 DEF process_cancel_order, CancelUnknown
<1> QED
  BY <1>4, <1>5, <1>6, <1>7, <1>8 DEF ExchangeStep

(* The reports of the next trade fit into the batch, and an acknowledgement   *)
(* fits into an empty one.                                                 *)
BatchFits ==
    /\ MaxAccepted # 0 => MaxReports # 0
    /\ work # Idle /\ Crosses(work) => Len(batch) + 2 <= MaxReports

(* While the loop runs there is room for two more reports: the book holds    *)
(* fewer orders than were accepted, and each earlier turn of the loop        *)
(* removed one.                                                              *)
LEMMA RoomForTrade ==
    ASSUME 2 * MaxAccepted - 1 <= MaxReports, ExchangeInv, Room
    PROVE  BatchFits
<1> SUFFICES ASSUME work # Idle, Crosses(work) PROVE Len(batch) + 2 <= MaxReports
  BY ExchangeAssumption DEF BatchFits
<1> DEFINE N == Cardinality(DOMAIN resting_index)
<1>0. /\ IsFiniteSet(DOMAIN resting_index) /\ N \in Nat
      /\ Len(ledger) \in Nat /\ Len(batch) \in Nat /\ MaxAccepted \in Nat /\ MaxReports \in Nat
      /\ Len(ledger) <= MaxAccepted
  BY FS_CardinalityType, ExchangeAssumption DEF Room, ExchangeInv
<1>1. work # Idle /\ Crosses(work) /\ work \in Incoming /\ work.remaining # 0
  BY TradeFacts
<1>2. work.remaining > 0
  BY <1>1 DEF Incoming
<1>3. Len(batch) + 2 * N <= 2 * Len(ledger) - 1
  BY <1>1, <1>2 DEF Room
<1>4. /\ TradeSide \in BookSides /\ TradePrice \in DOMAIN book[TradeSide]
      /\ 1 \in 1 .. Len(book[TradeSide][TradePrice]) /\ Front = book[TradeSide][TradePrice][1]
  BY <1>1, TradeFacts DEF TradeLevel, Front
<1>5. Front.client \in DOMAIN resting_index
  BY <1>4 DEF ExchangeInv, Indexed
<1>6. N # 0
  BY <1>0, <1>5, FS_EmptySet
<1> HIDE DEF N
<1> QED
  BY <1>0, <1>3, <1>6

-----------------------------------------------------------------------------
(* The total of one side of the ledger. *)

(* The rows of a side and what they were reported. *)
Rows(led, d) == {x \in DOMAIN led : led[x].side = d}
Amounts(led) == [x \in DOMAIN led |-> led[x].reported]

(* Total is a sum of naturals over finitely many rows. *)
LEMMA TotalFacts ==
    ASSUME NEW led \in Seq(Row), NEW d
    PROVE  /\ DOMAIN led = 1 .. Len(led) /\ Len(led) \in Nat
           /\ IsFiniteSet(Rows(led, d)) /\ Rows(led, d) \subseteq 1 .. Len(led)
           /\ \A x \in 1 .. Len(led) : /\ Amounts(led)[x] = led[x].reported
                                        /\ Amounts(led)[x] \in Nat
           /\ Total(led, d) = SumFunctionOnSet(Amounts(led), Rows(led, d))
           /\ Total(led, d) \in Nat
<1>1. DOMAIN led = 1 .. Len(led) /\ Len(led) \in Nat /\ \A x \in 1 .. Len(led) : led[x] \in Row
  OBVIOUS
<1>2. \A row \in Row : row.reported \in Nat
  BY DEF Row
<1>3. IsFiniteSet(1 .. Len(led)) /\ Rows(led, d) \subseteq 1 .. Len(led)
  BY <1>1, FS_Interval DEF Rows
<1>4. IsFiniteSet(Rows(led, d))
  BY <1>3, FS_Subset
<1>5. \A x \in 1 .. Len(led) : Amounts(led)[x] = led[x].reported /\ Amounts(led)[x] \in Nat
  BY <1>1, <1>2 DEF Amounts
<1>6. Total(led, d) = SumFunctionOnSet(Amounts(led), Rows(led, d))
  BY DEF Total, Amounts, Rows
<1>7. SumFunctionOnSet(Amounts(led), Rows(led, d)) \in Nat
  BY <1>3, <1>4, <1>5, SumNat
<1> QED
  BY <1>1, <1>3, <1>4, <1>5, <1>6, <1>7

(* A ledger of the same orders has the same rows on each side. *)
LEMMA SameRows ==
    ASSUME NEW led \in Seq(Row), NEW new \in Seq(Row), SameOrders(led, new), NEW d
    PROVE  Rows(new, d) = Rows(led, d)
<1>1. DOMAIN led = 1 .. Len(led) /\ DOMAIN new = 1 .. Len(new)
  BY TotalFacts
<1> QED
  BY <1>1 DEF Rows, SameOrders

(* A ledger that reports the same has the same totals. *)
LEMMA TotalSame ==
    ASSUME NEW led \in Seq(Row), NEW new \in Seq(Row), SameOrders(led, new), NEW d,
           \A x \in Rows(led, d) : new[x].reported = led[x].reported
    PROVE  Total(new, d) = Total(led, d)
<1>1. Rows(new, d) = Rows(led, d) /\ Len(new) = Len(led)
  BY SameRows DEF SameOrders
<1>2. \A x \in Rows(led, d) : Amounts(new)[x] = Amounts(led)[x]
  BY <1>1, TotalFacts
<1>3. SumFunctionOnSet(Amounts(new), Rows(led, d)) = SumFunctionOnSet(Amounts(led), Rows(led, d))
  BY <1>2, TotalFacts, SumAgree
<1> QED
  BY <1>1, <1>3, TotalFacts

(* Reporting more to one order adds to its side's total. *)
LEMMA TotalGrows ==
    ASSUME NEW led \in Seq(Row), NEW new \in Seq(Row), SameOrders(led, new), NEW d,
           NEW a \in Rows(led, d), NEW q \in Nat, new[a].reported = led[a].reported + q,
           \A x \in Rows(led, d) \ {a} : new[x].reported = led[x].reported
    PROVE  Total(new, d) = Total(led, d) + q
<1> DEFINE f == Amounts(led)
           g == Amounts(new)
           S == Rows(led, d)
<1>1. Rows(new, d) = Rows(led, d) /\ Len(new) = Len(led)
  BY SameRows DEF SameOrders
<1>2. \A x \in S : /\ f[x] \in Nat /\ g[x] \in Nat
                    /\ f[x] = led[x].reported /\ g[x] = new[x].reported
  BY <1>1, TotalFacts
<1>3. IsFiniteSet(S) /\ Total(led, d) = SumFunctionOnSet(f, S) /\ Total(led, d) \in Nat
      /\ Total(new, d) = SumFunctionOnSet(g, S)
  BY <1>1, TotalFacts
<1>4. \A x \in S \ {a} : g[x] = f[x]
  BY <1>2
<1>5. a \in S /\ g[a] = f[a] + q
  BY <1>2
<1> HIDE DEF f, g, S
<1>6. SumFunctionOnSet(g, S) = (SumFunctionOnSet(f, S) - f[a]) + g[a]
  <2>1. \A x \in S : f[x] \in Int /\ g[x] \in Int
    BY <1>2
  <2> QED
    BY <1>3, <1>4, <1>5, <2>1, SumChange, SMTT(40)
<1>7. f[a] \in Nat /\ g[a] \in Nat
  BY <1>2, <1>5
<1> QED
  BY <1>3, <1>5, <1>6, <1>7

(* A new order has no reports yet. *)
LEMMA TotalAppend ==
    ASSUME NEW led \in Seq(Row), NEW row \in Row, row.reported = 0, NEW d,
           NEW new \in Seq(Row), Len(new) = Len(led) + 1, new[Len(led) + 1] = row,
           \A x \in 1 .. Len(led) : new[x] = led[x]
    PROVE  Total(new, d) = Total(led, d)
<1> DEFINE f == Amounts(led)
           g == Amounts(new)
           S == Rows(led, d)
           n == Len(led) + 1
<1>1. /\ IsFiniteSet(S) /\ S \subseteq 1 .. Len(led) /\ Len(led) \in Nat
      /\ DOMAIN led = 1 .. Len(led) /\ DOMAIN new = 1 .. n
      /\ Total(led, d) = SumFunctionOnSet(f, S) /\ Total(led, d) \in Nat
      /\ Total(new, d) = SumFunctionOnSet(g, Rows(new, d))
  BY TotalFacts
<1>2. \A x \in 1 .. Len(led) : x \in 1 .. n /\ x # n
  BY <1>1
<1>3. \A x \in 1 .. n : g[x] = new[x].reported /\ g[x] \in Nat
  BY TotalFacts
<1>4. \A x \in S : g[x] = f[x] /\ g[x] \in Nat
  BY <1>1, <1>2, <1>3, TotalFacts
<1>5. SumFunctionOnSet(g, S) = SumFunctionOnSet(f, S)
  BY <1>1, <1>4, SumAgree
<1>6. \A x \in 1 .. n : x \in 1 .. Len(led) \/ x = n
  BY <1>1
<1>7. n \in 1 .. n /\ n \notin S
  BY <1>1, <1>2
<1>8. CASE row.side = d
  <2>1. Rows(new, d) = S \cup {n}
    BY <1>1, <1>2, <1>6, <1>7, <1>8 DEF Rows
  <2>2. g[n] = 0
    BY <1>3, <1>7
  <2> HIDE DEF n, g, f, S
  <2>3. SumFunctionOnSet(g, S \cup {n}) = g[n] + SumFunctionOnSet(g, S)
    BY <1>1, <1>4, <1>7, <2>2, SumAdd
  <2> QED
    BY <1>1, <1>5, <2>1, <2>2, <2>3
<1>9. CASE row.side # d
  <2>1. Rows(new, d) = S
    BY <1>1, <1>2, <1>6, <1>7, <1>9 DEF Rows
  <2> QED
    BY <1>1, <1>5, <2>1
<1> QED
  BY <1>8, <1>9

-----------------------------------------------------------------------------
(* What a cancel does to the orders and to the ledger. *)
LEMMA CancelOrders ==
    ASSUME ExchangeInv, NEW client, CancelResting(client)
    PROVE  \E r \in Resting :
              /\ Resting' \subseteq Resting /\ r \notin Resting'
              /\ \A t \in Resting : t # r => t \in Resting'
              /\ ledger'[r.order.exch] = CanceledRow(ledger[r.order.exch], r.order.remaining)
              /\ ledger' \in Seq(Row) /\ SameOrders(ledger, ledger')
              /\ \A x \in 1 .. Len(ledger) : x # r.order.exch => ledger'[x] = ledger[x]
              /\ r.order.client = client /\ batch' = push(<<>>, add_cancel_ack(r.order, r.side))
<1>1. PICK d, p, i :
          /\ d \in BookSides /\ p \in DOMAIN book[d] /\ i \in 1 .. Len(book[d][p])
          /\ book[d][p][i].client = client /\ book[d][p][i].exch \in 1 .. Len(ledger)
          /\ book' = ChangeLevel(book, d, p, Without(book[d][p], i))
          /\ ledger' = WithRow(ledger, book[d][p][i].exch,
                           CanceledRow(ledger[book[d][p][i].exch], book[d][p][i].remaining))
          /\ batch' = push(<<>>, add_cancel_ack(book[d][p][i], d))
  BY CancelSays
<1>2. resting_index' = MapErase(resting_index, client)
  BY DEF CancelResting, erase_resting_order
<1>3. BookShape(book) /\ Indexed(book, resting_index) /\ Arrived(book, ledger)
  BY DEF ExchangeInv
<1>4. book[d][p][i] \in RestingOrder
  BY <1>1, <1>3, LevelFacts
<1> DEFINE r == Place(book, d, p, i)
<1>5. r \in OrdersOf(book) /\ r.order = book[d][p][i] /\ r.order.client = client /\ r.side = d
  BY <1>1, <1>3, OrdersAre, PlaceFields
<1> HIDE DEF r
<1>6. /\ ledger' \in Seq(Row) /\ SameOrders(ledger, ledger')
      /\ ledger'[r.order.exch] = CanceledRow(ledger[r.order.exch], r.order.remaining)
      /\ \A x \in 1 .. Len(ledger) : x # r.order.exch => ledger'[x] = ledger[x]
  <2> DEFINE o == book[d][p][i]
  <2>1. /\ ledger \in Seq(Row) /\ o \in RestingOrder /\ o.exch \in 1 .. Len(ledger)
        /\ ledger' = WithRow(ledger, o.exch, CanceledRow(ledger[o.exch], o.remaining))
        /\ r.order = o
    BY <1>1, <1>4, <1>5 DEF ExchangeInv
  <2> HIDE DEF o
  <2>2. ledger' \in Seq(Row) /\ SameOrders(ledger, ledger')
    BY <2>1, CancelLedger
  <2>3. ledger'[o.exch] = CanceledRow(ledger[o.exch], o.remaining)
    BY <2>1, CancelLedger
  <2>4. \A x \in 1 .. Len(ledger) : x # o.exch => ledger'[x] = ledger[x]
    BY <2>1, CancelLedger
  <2> QED
    BY <2>1, <2>2, <2>3, <2>4
<1>7. SameBut(book, book', client)
  <2>1. d \in BookSides /\ p \in DOMAIN book[d] /\ i \in 1 .. Len(book[d][p])
    BY <1>1
  <2>2. SameOrders(ledger, ledger') /\ book' = ChangeLevel(book, d, p, Without(book[d][p], i))
    BY <1>1, <1>6
  <2>3. SameBut(book, book', book[d][p][i].client)
    BY <1>3, <2>1, <2>2, OrderLeaves
  <2> QED
    BY <1>1, <2>3
<1>8. BookShape(book') /\ Indexed(book', resting_index') /\ Arrived(book', ledger')
  BY CancelInv DEF ExchangeInv
<1>9. client \notin DOMAIN resting_index'
  BY <1>2 DEF MapErase
<1>10. \A t \in OrdersOf(book') : t.order.client # client
  BY <1>8, <1>9, OrderFacts
<1>11. \A t \in OrdersOf(book') : t \in OrdersOf(book)
  BY <1>3, <1>7, <1>8, <1>10, KeepsOrders DEF SameBut
<1>12. \A t \in OrdersOf(book) : t # r => t.order.client # client
  BY <1>3, <1>5, RestsOnce
<1>13. \A t \in OrdersOf(book) : t # r => t \in OrdersOf(book')
  BY <1>3, <1>7, <1>8, <1>12, KeepsOrders DEF SameBut
<1>14. batch' = push(<<>>, add_cancel_ack(r.order, r.side))
  BY <1>1, <1>5
<1> QED
  BY <1>5, <1>6, <1>10, <1>11, <1>13, <1>14, RestingOrders

(* Resting orders are accepted orders, and the order in work is not one. *)
LEMMA RestingIds ==
    ASSUME ExchangeInv, NEW r \in Resting
    PROVE  /\ r.order.exch \in 1 .. Len(ledger) /\ r.order \in RestingOrder
           /\ r.order.exch # work.exch /\ r.side \in BookSides
           /\ r.order.client \in DOMAIN resting_index
           /\ ledger[r.order.exch].client = r.order.client
<1>1. BookShape(book) /\ Indexed(book, resting_index) /\ Arrived(book, ledger)
  BY DEF ExchangeInv
<1>2. /\ r.order \in RestingOrder /\ r.order.client \in DOMAIN resting_index
      /\ r.order.exch \in 1 .. Len(ledger) /\ ledger[r.order.exch].client = r.order.client
      /\ r.side \in BookSides
  <2>1. r \in OrdersOf(book)
    BY RestingOrders
  <2>2. r.order \in RestingOrder
    BY <1>1, <2>1, OrderFacts
  <2>3. r.order.client \in DOMAIN resting_index
    BY <1>1, <2>1, OrderFacts
  <2>4. r.order.exch \in 1 .. Len(ledger)
    BY <1>1, <2>1, OrderFacts
  <2>5. ledger[r.order.exch].client = r.order.client
    <3>1. PICK d, p, k :
              /\ d \in BookSides /\ p \in DOMAIN book[d] /\ k \in 1 .. Len(book[d][p])
              /\ r.order = book[d][p][k]
      BY <1>1, <2>1, PickOrder
    <3>2. ledger[book[d][p][k].exch].client = book[d][p][k].client
      BY <1>1, <3>1 DEF Arrived
    <3> QED
      BY <3>1, <3>2
  <2>6. r.side \in BookSides
    BY <1>1, <2>1, OrderFacts
  <2> QED
    BY <2>2, <2>3, <2>4, <2>5, <2>6
<1>3. CASE work = Idle
  BY <1>2, <1>3 DEF Idle
<1>4. CASE work # Idle
  <2>1. ledger[work.exch].client = work.client /\ work.client \notin DOMAIN resting_index
    BY <1>4 DEF ExchangeInv, WorkInv
  <2> QED
    BY <1>2, <2>1
<1> QED
  BY <1>2, <1>3, <1>4

(* The fields of a row. *)
LEMMA RowFacts ==
    ASSUME ExchangeInv, NEW x \in 1 .. Len(ledger)
    PROVE  /\ ledger[x] \in Row /\ ledger[x].quantity \in Nat /\ ledger[x].reported \in Nat
           /\ ledger[x].canceled \in Nat /\ ledger[x].side \in BookSides
<1>1. ledger[x] \in Row
  BY DEF ExchangeInv
<1> QED
  BY <1>1 DEF Row

(* The accounts at the start. *)
LEMMA InitAccounts == ExchangeInit => Accounts
<1> SUFFICES ASSUME ExchangeInit PROVE Accounts
  OBVIOUS
<1>1. BookShape(book) /\ \A d \in BookSides : DOMAIN book[d] = {}
  BY InitInv DEF ExchangeInv, ExchangeInit, EmptyMap
<1>2. \A r \in Resting : FALSE
  BY <1>1, RestingOrders, OrdersAre
<1>3. ledger = <<>> /\ work = Idle
  BY DEF ExchangeInit
<1>4. ASSUME NEW d PROVE Total(ledger, d) = 0
  <2>1. Rows(ledger, d) = {}
    BY <1>3 DEF Rows
  <2> QED
    BY <2>1, SumEmpty DEF Total, Rows
<1> QED
  BY <1>2, <1>3, <1>4 DEF Accounts

(* A new order is accounted for by the order in work. *)
LEMMA AcceptAccounts ==
    ASSUME ExchangeInv, Accounts, NEW q \in Requests, Accept(q)
    PROVE  Accounts'
<1> DEFINE row == [client |-> q.client, side |-> q.side, quantity |-> q.quantity,
                   reported |-> 0, canceled |-> 0]
           n == Len(ledger) + 1
<1>1. /\ ledger' = Append(ledger, row) /\ work = Idle
      /\ work' = [client |-> q.client, exch |-> n,
                  symbol |-> q.symbol, side |-> q.side, price |-> q.price,
                  cumulative |-> 0, remaining |-> q.quantity]
      /\ book' = book
  BY DEF Accept, ExchangeInv
<1>2. q.quantity \in Int
  BY RequestAssumption
<1>3. ledger \in Seq(Row) /\ Len(ledger) \in Nat /\ ledger' \in Seq(Row)
  BY AcceptInv DEF ExchangeInv
<1>4. Len(ledger') = n /\ ledger'[n] = row /\ \A x \in 1 .. Len(ledger) : ledger'[x] = ledger[x]
  <2> DEFINE R == Row \cup {row}
  <2>1. ledger \in Seq(R) /\ row \in R
    <3>1. Row \subseteq R /\ row \in R
      OBVIOUS
    <3> HIDE DEF R, row
    <3> QED
      BY <1>3, <3>1
  <2> HIDE DEF R, row
  <2>2. Len(ledger') = n /\ ledger'[n] = row
    BY <1>1, <2>1
  <2>3. \A x \in 1 .. Len(ledger) : ledger'[x] = ledger[x]
    BY <1>1, <2>1
  <2> QED
    BY <2>2, <2>3
<1>5. Resting' = Resting
  BY <1>1, RestingOrders
<1>6. \A r \in Resting' : Accounted(ledger'[r.order.exch], r.order.filled, r.order.remaining)
  BY <1>4, <1>5, RestingIds DEF Accounts
<1>7. Accounted(ledger'[work'.exch], work'.cumulative, work'.remaining)
  BY <1>1, <1>2, <1>4 DEF Accounted
<1>8. ASSUME NEW x \in 1 .. Len(ledger'), \A r \in Resting' : r.order.exch # x, x # work'.exch
      PROVE  ledger'[x].reported + ledger'[x].canceled = ledger'[x].quantity
  <2>1. x # n
    BY <1>1, <1>8
  <2>2. x \in 1 .. Len(ledger) /\ x # work.exch
    BY <1>1, <1>3, <1>4, <2>1 DEF Idle
  <2>3. ledger[x].reported + ledger[x].canceled = ledger[x].quantity
    BY <1>5, <1>8, <2>2 DEF Accounts
  <2> QED
    BY <1>4, <2>2, <2>3
<1>9. row \in Row /\ row.reported = 0
  <2>1. ledger'[n] \in Row
    BY <1>3, <1>4
  <2> QED
    BY <1>4, <2>1
<1> HIDE DEF row
<1>10. \A d : Total(ledger', d) = Total(ledger, d)
  BY <1>3, <1>4, <1>9, TotalAppend
<1> QED
  BY <1>6, <1>7, <1>8, <1>10 DEF Accounts

(* At the end of the loop by the order that rests, or by its reports. *)
LEMMA FinishAccounts ==
    ASSUME ExchangeInv, Accounts, Finish
    PROVE  Accounts'
<1>1. work # Idle /\ work' = Idle /\ ledger' = ledger
  BY DEF Finish
<1>2. /\ Resting \subseteq Resting'
      /\ \A r \in Resting' : \/ r \in Resting
                             \/ /\ work.remaining > 0
                                /\ r.order.exch = work.exch
                                /\ r.order.filled = work.cumulative
                                /\ r.order.remaining = work.remaining
      /\ work.remaining > 0 => \E r \in Resting' : r.order.exch = work.exch
  BY FinishOrders DEF Rested
<1>3. Accounted(ledger[work.exch], work.cumulative, work.remaining)
  BY <1>1 DEF Accounts
<1>4. work \in Incoming /\ work.cumulative \in Nat /\ work.remaining \in Nat
  BY <1>1 DEF ExchangeInv, WorkInv, Incoming
<1>5. \A r \in Resting' : Accounted(ledger'[r.order.exch], r.order.filled, r.order.remaining)
  BY <1>1, <1>2, <1>3 DEF Accounts
<1>6. ASSUME NEW x \in 1 .. Len(ledger'), \A r \in Resting' : r.order.exch # x, x # work'.exch
      PROVE  ledger'[x].reported + ledger'[x].canceled = ledger'[x].quantity
  <2>1. CASE x = work.exch
    <3>1. ~(work.remaining > 0)
      BY <1>2, <1>6, <2>1
    <3>2. work.remaining = 0
      BY <1>4, <3>1
    <3> QED
      BY <1>1, <1>3, <1>4, <2>1, <3>2 DEF Accounted
  <2>2. CASE x # work.exch
    BY <1>1, <1>2, <1>6, <2>2 DEF Accounts
  <2> QED
    BY <2>1, <2>2
<1> QED
  BY <1>1, <1>5, <1>6 DEF Accounts

(* A canceled order by its reports and the canceled rest. *)
LEMMA CancelAccounts ==
    ASSUME ExchangeInv, Accounts, NEW client, CancelResting(client)
    PROVE  Accounts'
<1>1. PICK g \in Resting :
          /\ Resting' \subseteq Resting /\ g \notin Resting'
          /\ \A t \in Resting : t # g => t \in Resting'
          /\ ledger'[g.order.exch] = CanceledRow(ledger[g.order.exch], g.order.remaining)
          /\ ledger' \in Seq(Row) /\ SameOrders(ledger, ledger')
          /\ \A x \in 1 .. Len(ledger) : x # g.order.exch => ledger'[x] = ledger[x]
  BY CancelOrders
<1>2. work = Idle /\ work' = work
  BY DEF CancelResting
<1>3. BookShape(book) /\ Indexed(book, resting_index) /\ Arrived(book, ledger)
  BY DEF ExchangeInv
<1> DEFINE e == g.order.exch
<1>4. /\ e \in 1 .. Len(ledger) /\ g.order.remaining \in Nat \ {0} /\ g.order.filled \in Nat
      /\ Accounted(ledger[e], g.order.filled, g.order.remaining)
  BY RestingIds DEF RestingOrder, Accounts
<1>5. /\ ledger'[e].reported = ledger[e].reported /\ ledger'[e].quantity = ledger[e].quantity
      /\ ledger'[e].canceled = g.order.remaining
  <2> DEFINE row == ledger[e]
             k == g.order.remaining
  <2>1. row \in Row /\ k \in Nat /\ ledger'[e] = CanceledRow(row, k)
    BY <1>1, <1>4, RowFacts
  <2> HIDE DEF row, k, e
  <2>2. /\ ledger'[e].reported = row.reported /\ ledger'[e].quantity = row.quantity
        /\ ledger'[e].canceled = k
    BY <2>1, CanceledRowFacts
  <2> QED
    BY <2>2 DEF row, k, e
<1>6. ASSUME NEW r \in Resting'
      PROVE  Accounted(ledger'[r.order.exch], r.order.filled, r.order.remaining)
  <2>1. r \in Resting /\ r # g
    BY <1>1
  <2>2. r.order.exch # e
    BY <1>3, <2>1, RestsOnce, RestingOrders
  <2>3. r.order.exch \in 1 .. Len(ledger)
    BY <2>1, RestingIds
  <2> QED
    BY <1>1, <2>1, <2>2, <2>3 DEF Accounts
<1>7. ASSUME NEW x \in 1 .. Len(ledger'), \A r \in Resting' : r.order.exch # x, x # work'.exch
      PROVE  ledger'[x].reported + ledger'[x].canceled = ledger'[x].quantity
  <2>1. x \in 1 .. Len(ledger)
    BY <1>1 DEF SameOrders
  <2>2. CASE x = e
    BY <1>4, <1>5, <2>2 DEF Accounted
  <2>3. CASE x # e
    <3>1. \A r \in Resting : r.order.exch # x
      BY <1>1, <1>7, <2>3
    <3>2. ledger[x].reported + ledger[x].canceled = ledger[x].quantity
      BY <1>2, <1>7, <2>1, <3>1 DEF Accounts
    <3> QED
      BY <1>1, <2>1, <2>3, <3>2
  <2> QED
    BY <2>2, <2>3
<1>8. ASSUME NEW d PROVE Total(ledger', d) = Total(ledger, d)
  <2>1. ledger \in Seq(Row)
    BY DEF ExchangeInv
  <2>2. \A x \in 1 .. Len(ledger) : ledger'[x].reported = ledger[x].reported
    BY <1>1, <1>5
  <2>3. \A x \in Rows(ledger, d) : ledger'[x].reported = ledger[x].reported
    BY <2>1, <2>2, TotalFacts
  <2> QED
    BY <1>1, <2>1, <2>3, TotalSame
<1> QED
  BY <1>2, <1>6, <1>7, <1>8 DEF Accounts

(* A trade is reported to both sides. *)
LEMMA MatchAccounts ==
    ASSUME BatchFits, ExchangeInv, Accounts, Match
    PROVE  Accounts'
<1> DEFINE a == Front.exch
           b == work.exch
           q == TradeQuantity
<1>1. Len(batch) + 2 <= MaxReports
  BY MatchSays DEF BatchFits
<1>2. /\ ledger' \in Seq(Row) /\ SameOrders(ledger, ledger') /\ ledger \in Seq(Row)
      /\ \A x \in 1 .. Len(ledger) :
            /\ ledger'[x].quantity = ledger[x].quantity /\ ledger'[x].canceled = ledger[x].canceled
            /\ x # a /\ x # b => ledger'[x] = ledger[x]
      /\ ledger'[a].reported = ledger[a].reported + q
      /\ ledger'[b].reported = ledger[b].reported + q
  BY <1>1, MatchLedger DEF ExchangeInv
<1>3. /\ work # Idle /\ Crosses(work) /\ work \in Incoming
      /\ TradeSide \in BookSides /\ TradeSide # work.side
      /\ q \in Nat \ {0} /\ q <= work.remaining /\ q <= Front.remaining
      /\ a \in 1 .. Len(ledger) /\ b \in 1 .. Len(ledger) /\ a # b
      /\ ledger[a].side = TradeSide /\ Front \in RestingOrder
  BY MatchSays, TradeFacts
<1>4. /\ Place(book, TradeSide, TradePrice, 1) \in Resting
      /\ Place(book, TradeSide, TradePrice, 1).order = Front
  BY MatchOrders, PlaceFields DEF Front, TradeLevel
<1>5. /\ Accounted(ledger[a], Front.filled, Front.remaining)
      /\ Accounted(ledger[b], work.cumulative, work.remaining)
  BY <1>3, <1>4 DEF Accounts
<1>6. /\ Front.filled \in Nat /\ Front.remaining \in Nat
      /\ work.cumulative \in Nat /\ work.remaining \in Nat
  BY <1>3 DEF RestingOrder, Incoming
<1>3q. q \in Nat
  BY <1>3
<1>7. /\ FrontAfter.exch = a /\ FrontAfter.filled = Front.filled + q
      /\ FrontAfter.remaining = Front.remaining - q
  BY <1>3, FrontAfterFacts
<1>8. /\ work'.exch = b /\ work'.cumulative = work.cumulative + q
      /\ work'.remaining = work.remaining - q
  <2>1. work' = [work EXCEPT !.cumulative = @ + q, !.remaining = @ - q]
    BY MatchSays
  <2> QED
    BY <1>3, <2>1 DEF Incoming
<1> HIDE DEF a, b, q
<1>9. Accounted(ledger'[a], FrontAfter.filled, FrontAfter.remaining)
  <2>1. ledger'[a].quantity = ledger[a].quantity /\ ledger'[a].canceled = ledger[a].canceled
    BY <1>2, <1>3
  <2>2. (Front.filled + q) + (Front.remaining - q) = Front.filled + Front.remaining
    BY <1>3q, <1>6
  <2> QED
    BY <1>2, <1>5, <1>7, <2>1, <2>2 DEF Accounted
<1>10. Accounted(ledger'[b], work'.cumulative, work'.remaining)
  <2>1. ledger'[b].quantity = ledger[b].quantity /\ ledger'[b].canceled = ledger[b].canceled
    BY <1>2, <1>3
  <2>2. (work.cumulative + q) + (work.remaining - q) = work.cumulative + work.remaining
    BY <1>3q, <1>6
  <2> QED
    BY <1>2, <1>5, <1>8, <2>1, <2>2 DEF Accounted
<1>11. \A r \in Resting : r.order.exch = a => r.order.client = Front.client
  BY <1>4, MatchOrders DEF a
<1>12. \A r \in Resting : r.order.client = Front.client => r.order.exch = a
  BY <1>4, MatchOrders DEF a
<1>13. ASSUME NEW r \in Resting'
       PROVE  Accounted(ledger'[r.order.exch], r.order.filled, r.order.remaining)
  <2>1. CASE r.order.client # Front.client /\ r \in Resting
    <3>1. r.order.exch \in 1 .. Len(ledger) /\ r.order.exch # a /\ r.order.exch # b
      BY <1>11, <2>1, RestingIds DEF b
    <3> QED
      BY <1>2, <2>1, <3>1 DEF Accounts
  <2>2. CASE r.order = FrontAfter
    BY <1>7, <1>9, <2>2
  <2> QED
    BY <2>1, <2>2, MatchOrders
<1>14. ASSUME NEW x \in 1 .. Len(ledger'), \A r \in Resting' : r.order.exch # x, x # work'.exch
       PROVE  ledger'[x].reported + ledger'[x].canceled = ledger'[x].quantity
  <2>1. x \in 1 .. Len(ledger) /\ x # b
    BY <1>2, <1>8, <1>14 DEF SameOrders
  <2>2. CASE x = a
    <3>1. FrontAfter.remaining = 0
      BY <1>7, <1>14, <2>2, MatchOrders
    <3> QED
      BY <1>3, <1>6, <1>7, <1>9, <2>2, <3>1 DEF Accounted
  <2>3. CASE x # a
    <3>1. \A r \in Resting : r.order.exch # x
      BY <1>12, <1>14, <2>3, MatchOrders
    <3>2. ledger[x].reported + ledger[x].canceled = ledger[x].quantity
      BY <2>1, <3>1 DEF Accounts, b
    <3> QED
      BY <1>2, <2>1, <2>3, <3>2
  <2> QED
    BY <2>2, <2>3
<1>15. ledger[b].side = work.side /\ work.side \in BookSides
  BY <1>3 DEF ExchangeInv, WorkInv, Incoming, b
<1>16. Total(ledger', TradeSide) = Total(ledger, TradeSide) + q
  <2>1. a \in Rows(ledger, TradeSide)
    BY <1>2, <1>3, TotalFacts DEF Rows
  <2>2. b \notin Rows(ledger, TradeSide)
    BY <1>3, <1>15 DEF Rows
  <2>3. \A x \in Rows(ledger, TradeSide) \ {a} : ledger'[x].reported = ledger[x].reported
    <3>1. \A x \in Rows(ledger, TradeSide) : x \in 1 .. Len(ledger)
      BY <1>2, TotalFacts
    <3> QED
      BY <1>2, <2>2, <3>1
  <2> QED
    BY <1>2, <1>3, <2>1, <2>3, TotalGrows
<1>17. Total(ledger', work.side) = Total(ledger, work.side) + q
  <2>1. b \in Rows(ledger, work.side)
    BY <1>2, <1>3, <1>15, TotalFacts DEF Rows
  <2>2. a \notin Rows(ledger, work.side)
    BY <1>3 DEF Rows
  <2>3. \A x \in Rows(ledger, work.side) \ {b} : ledger'[x].reported = ledger[x].reported
    <3>1. \A x \in Rows(ledger, work.side) : x \in 1 .. Len(ledger)
      BY <1>2, TotalFacts
    <3> QED
      BY <1>2, <2>2, <3>1
  <2> QED
    BY <1>2, <1>3, <2>1, <2>3, TotalGrows
<1>18. Total(ledger', "Buy") = Total(ledger', "Sell")
  BY <1>3, <1>15, <1>16, <1>17 DEF Accounts, BookSides
<1> QED
  BY <1>8, <1>10, <1>13, <1>14, <1>18 DEF Accounts

(* Every step keeps the accounts. *)
LEMMA StepAccounts ==
    ASSUME BatchFits, ExchangeInv, Accounts, [ExchangeStep]_exchangeVars
    PROVE  Accounts'
<1>1. ASSUME UNCHANGED <<book, work, ledger>> PROVE Accounts'
  <2>1. Resting' = Resting
    BY <1>1, RestingOrders
  <2> QED
    BY <1>1, <2>1 DEF Accounts
<1>2. CASE \E r \in Requests : process_new_order(r)
  BY <1>1, <1>2, AcceptAccounts DEF process_new_order, Reject
<1>3. CASE \E r : process_cancel_order(r)
  BY <1>1, <1>3, CancelAccounts DEF process_cancel_order, CancelUnknown
<1>4. CASE Match
  BY <1>4, MatchAccounts
<1>5. CASE Finish
  BY <1>5, FinishAccounts
<1>6. CASE UNCHANGED exchangeVars
  BY <1>1, <1>6 DEF exchangeVars
<1> QED
  BY <1>2, <1>3, <1>4, <1>5, <1>6 DEF ExchangeStep

(* They imply the property. *)
LEMMA AccountsReport == ExchangeInv /\ Accounts => ReportsAccount
<1> SUFFICES ASSUME ExchangeInv, Accounts PROVE ReportsAccount
  OBVIOUS
<1>1. \A r \in Resting :
          /\ ledger[r.order.exch].reported = r.order.filled
          /\ ledger[r.order.exch].quantity = r.order.filled + r.order.remaining
  BY DEF Accounts, Accounted
<1>2. work # Idle =>
          /\ ledger[work.exch].reported = work.cumulative
          /\ ledger[work.exch].quantity = work.cumulative + work.remaining
  BY DEF Accounts, Accounted
<1>3. DOMAIN ledger = 1 .. Len(ledger)
  BY TotalFacts DEF ExchangeInv
<1>4. ASSUME NEW x \in DOMAIN ledger, x \notin {r.order.exch : r \in Resting} \cup {work.exch}
      PROVE  ledger[x].reported + ledger[x].canceled = ledger[x].quantity
  BY <1>3, <1>4 DEF Accounts
<1>5. TotalReported("Buy") = TotalReported("Sell")
  BY DEF Accounts, Total, TotalReported
<1> QED
  BY <1>1, <1>2, <1>4, <1>5 DEF ReportsAccount

(* Every share is reported exactly once, for any requests, when a batch      *)
(* holds the reports of the longest sweep: an acknowledgement and two for    *)
(* each order that can rest before.  The bound is the least: with one less   *)
(* a report is dropped.                                                      *)
THEOREM ExchangeReportsAccount ==
    ASSUME 2 * MaxAccepted - 1 <= MaxReports
    PROVE  ExchangeSpec => []ReportsAccount
<1>1. ExchangeSpec => []ExchangeInv
  BY ExchangeInvariant
<1>2. ExchangeSpec => []Room
  BY <1>1, InitRoom, StepRoom, NextIsStep, PTL DEF ExchangeSpec
<1>3. ExchangeSpec => []Accounts
  <2>1. ExchangeInv /\ Room => BatchFits
    BY RoomForTrade
  <2>2. BatchFits /\ ExchangeInv /\ Accounts /\ [ExchangeStep]_exchangeVars => Accounts'
    BY StepAccounts
  <2> QED
    BY <1>1, <1>2, <2>1, <2>2, InitAccounts, NextIsStep, PTL DEF ExchangeSpec
<1> QED
  BY <1>1, <1>3, AccountsReport, PTL

=============================================================================
