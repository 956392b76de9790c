---------------------------- MODULE NumberLemmas ----------------------------
(***************************************************************************)
(* The arithmetic that the proofs share: counting modulo the size of a ring *)
(* (the indices of the SPSC queue are such counters), least numbers and    *)
(* induction, and sums over finite sets of any size.                       *)
(***************************************************************************)
EXTENDS Integers, Functions, FiniteSets, FiniteSetTheorems, WellFoundedInduction, TLAPS

-----------------------------------------------------------------------------
(* Counting modulo the size of a ring. *)

(* Division with remainder. *)
LEMMA ModDiv ==
    ASSUME NEW s \in Nat \ {0}, NEW a \in Nat
    PROVE  \E q \in Nat : a = s * q + (a % s) /\ a % s \in 0 .. (s - 1)
  <1>1. a = s * (a \div s) + (a % s) /\ a \div s \in Nat /\ a % s \in 0 .. (s - 1)
    OBVIOUS
  <1> QED BY <1>1

(* The remainder is the only one. *)
LEMMA ModUnique ==
    ASSUME NEW s \in Nat \ {0}, NEW q \in Nat, NEW r \in 0 .. (s - 1)
    PROVE  (s * q + r) % s = r
  <1> DEFINE a == s * q + r
  <1>1. a \in Nat
    OBVIOUS
  <1>2. a = s * q + r
    OBVIOUS
  <1> HIDE DEF a
  <1>3. a % s = r
    BY <1>1, <1>2
  <1> QED BY <1>3 DEF a

(* Multiples of s less than s apart are equal, less than 2s apart at most   *)
(* one s apart.                                                            *)
LEMMA NearMultiples ==
    ASSUME NEW s \in Nat \ {0}, NEW p \in Nat, NEW q \in Nat,
           s * q < s * p + 2 * s, s * p < s * q + s
    PROVE  s * q = s * p \/ s * q = s * p + s
  <1>1. CASE q >= p + 2
    <2>1. s * q = s * (p + 2) + s * (q - (p + 2))
      OBVIOUS
    <2>2. s * (q - (p + 2)) >= 0
      BY <1>1
    <2>3. s * (p + 2) = s * p + 2 * s
      OBVIOUS
    <2> QED BY <2>1, <2>2, <2>3
  <1>2. CASE q < p
    <2>1. s * p = s * (q + 1) + s * (p - (q + 1))
      OBVIOUS
    <2>2. s * (p - (q + 1)) >= 0
      BY <1>2
    <2>3. s * (q + 1) = s * q + s
      OBVIOUS
    <2> QED BY <2>1, <2>2, <2>3
  <1>3. CASE q = p + 1
    BY <1>3
  <1> QED BY <1>1, <1>2, <1>3

(* Counts less than a ring apart: their distance, read off the positions    *)
(* the way size_approx does.                                               *)
LEMMA ModDistance ==
    ASSUME NEW s \in Nat \ {0}, NEW a \in Nat, NEW b \in Nat, a <= b, b < a + s
    PROVE  b - a = IF b % s >= a % s THEN (b % s) - (a % s)
                                     ELSE s - (a % s) + (b % s)
  <1>1. PICK p \in Nat : a = s * p + (a % s) /\ a % s \in 0 .. (s - 1)
    BY ModDiv
  <1>2. PICK q \in Nat : b = s * q + (b % s) /\ b % s \in 0 .. (s - 1)
    BY ModDiv
  <1>3. s * q < s * p + 2 * s /\ s * p < s * q + s
    BY <1>1, <1>2
  <1>4. s * q = s * p \/ s * q = s * p + s
    BY <1>3, NearMultiples
  <1> QED BY <1>1, <1>2, <1>4

(* Counts less than a ring apart at the same position are equal. *)
LEMMA ModWindow ==
    ASSUME NEW s \in Nat \ {0}, NEW a \in Nat, NEW b \in Nat,
           a <= b, b < a + s, a % s = b % s
    PROVE  a = b
  <1>1. a % s \in 0 .. (s - 1)
    OBVIOUS
  <1>2. b - a = IF b % s >= a % s THEN (b % s) - (a % s)
                                  ELSE s - (a % s) + (b % s)
    BY ModDistance
  <1> QED BY <1>1, <1>2

(* One ring further is the same position. *)
LEMMA ModPeriod ==
    ASSUME NEW s \in Nat \ {0}, NEW a \in Nat
    PROVE  (a + s) % s = a % s
  <1>1. PICK q \in Nat : a = s * q + (a % s) /\ a % s \in 0 .. (s - 1)
    BY ModDiv
  <1>2. PICK r \in 0 .. (s - 1) : r = a % s
    BY <1>1
  <1>3. a + s = s * (q + 1) + r /\ q + 1 \in Nat
    BY <1>1, <1>2
  <1>4. (s * (q + 1) + r) % s = r
    BY <1>3, ModUnique
  <1> QED BY <1>2, <1>3, <1>4

(* Advancing the position is advancing the count. *)
LEMMA ModNext ==
    ASSUME NEW s \in Nat \ {0}, NEW a \in Nat
    PROVE  (a + 1) % s = ((a % s) + 1) % s
  <1>1. PICK q \in Nat : a = s * q + (a % s) /\ a % s \in 0 .. (s - 1)
    BY ModDiv
  <1>2. PICK r \in 0 .. (s - 1) : r = a % s
    BY <1>1
  <1>3. CASE r + 1 < s
    <2>1. /\ a + 1 = s * q + (r + 1) /\ r + 1 = s * 0 + (r + 1)
          /\ r + 1 \in 0 .. (s - 1)
      BY <1>1, <1>2, <1>3
    <2>2. (s * q + (r + 1)) % s = r + 1 /\ (s * 0 + (r + 1)) % s = r + 1
      BY <2>1, ModUnique
    <2> QED BY <2>1, <2>2, <1>2
  <1>4. CASE r + 1 = s
    <2>1. /\ a + 1 = s * (q + 1) + 0 /\ r + 1 = s * 1 + 0
          /\ 0 \in 0 .. (s - 1) /\ q + 1 \in Nat
      BY <1>1, <1>2, <1>4
    <2>2. (s * (q + 1) + 0) % s = 0 /\ (s * 1 + 0) % s = 0
      BY <2>1, ModUnique
    <2> QED BY <2>1, <2>2, <1>2
  <1> QED BY <1>2, <1>3, <1>4

-----------------------------------------------------------------------------
(* Least numbers and sums: what SumFunctionOnSet is for no element, for one   *)
(* more, for one fewer and for one changed.  Induction is a search for a      *)
(* least counterexample (LeastNatural), which needs no theorem with an        *)
(* operator for a parameter.                                                *)

(* The order of the natural numbers as a relation. *)
LessThan == {p \in Nat \X Nat : p[1] < p[2]}

(* It has no infinite descent: the library's theorem, with the operator <    *)
(* replaced by a set.                                                        *)
LEMMA LessThanWellFounded == IsWellFoundedOn(LessThan, Nat)
<1>1. OpToRel(<, Nat) = LessThan
  BY DEF OpToRel, LessThan
<1> QED
  BY <1>1, NatLessThanWellFounded, Zenon

(* A set of natural numbers that is not empty has a least element: with it,   *)
(* induction is a search for a least counterexample.                        *)
LEMMA LeastNatural ==
    ASSUME NEW T, T \subseteq Nat, T # {}
    PROVE  \E n \in T : \A m \in T : n <= m
<1>1. PICK n \in T : \A m \in T : ~ (<<m, n>> \in LessThan)
  BY WFMin, LessThanWellFounded, Zenon
<1>2. ASSUME NEW m \in T PROVE n <= m
  <2>1. <<m, n>> \in Nat \X Nat /\ <<m, n>>[1] = m /\ <<m, n>>[2] = n
    OBVIOUS
  <2>2. ~(m < n)
    BY <1>1, <2>1 DEF LessThan
  <2> QED
    BY <2>2
<1> QED
  BY <1>2

(* A set of natural numbers that holds 0, and with n also n + 1, is Nat. *)
LEMMA NatSetInduction ==
    ASSUME NEW T, 0 \in T, \A n \in Nat : n \in T => n + 1 \in T
    PROVE  \A n \in Nat : n \in T
<1> DEFINE Bad == {n \in Nat : n \notin T}
<1> SUFFICES ASSUME Bad # {} PROVE FALSE
  OBVIOUS
<1>1. PICK n \in Bad : \A m \in Bad : n <= m
  BY LeastNatural
<1>2. n # 0 /\ n - 1 \in Nat /\ n - 1 \notin Bad
  BY <1>1
<1> QED
  BY <1>2

-----------------------------------------------------------------------------
(* One step of the library's fold: a chosen element, and the sum of the      *)
(* others.                                                                   *)
Step(f, g, s) == IF s = {} THEN 0 ELSE LET x == CHOOSE y \in s : TRUE IN f[x] + g[s \ {x}]

(* The function that the library's fold chooses, on the subsets of S. *)
Iter(f, S) == CHOOSE g : g = [s \in SUBSET S |-> Step(f, g, s)]

(* SumFunctionOnSet is that function's value at S. *)
LEMMA SumIsIter == 
  ASSUME NEW f, NEW S 
  PROVE SumFunctionOnSet(f, S) = Iter(f, S)[S]
BY DEF SumFunctionOnSet, FoldFunctionOnSet, MapThenFoldSet, Iter, Step

(* A step depends only on the values at the smaller sets. *)
LEMMA StepLocal ==
    ASSUME NEW f, NEW g, NEW h, NEW s, 
           \A x \in s : g[s \ {x}] = h[s \ {x}]
    PROVE  Step(f, g, s) = Step(f, h, s)
<1>1. s # {} => (CHOOSE y \in s : TRUE) \in s
  OBVIOUS
<1> QED
  BY <1>1 DEF Step

(* A finite set has one element more than it has without one of its own. *)
LEMMA SmallerBy ==
    ASSUME NEW S, IsFiniteSet(S), NEW s \in SUBSET S, NEW x \in s
    PROVE /\ IsFiniteSet(s) /\ s \ {x} \in SUBSET S /\ IsFiniteSet(s \ {x})
          /\ Cardinality(s) \in Nat \ {0} /\ Cardinality(s \ {x}) \in Nat
          /\ Cardinality(s \ {x}) = Cardinality(s) - 1
<1>1. IsFiniteSet(s) 
  BY FS_Subset
<1>2. IsFiniteSet(s \ {x}) /\ Cardinality(s \ {x}) = Cardinality(s) - 1
  BY <1>1, FS_RemoveElement
<1>3. Cardinality(s) \in Nat /\ Cardinality(s \ {x}) \in Nat
  BY <1>1, <1>2, FS_CardinalityType
<1> QED
  BY <1>1, <1>2, <1>3

(* The recursive function exists: the step from cardinality n to n + 1. *)
LEMMA IterExists ==
    ASSUME NEW f, NEW S, IsFiniteSet(S)
    PROVE  \E g : g = [s \in SUBSET S |-> Step(f, g, s)]
<1> DEFINE Up(n) == {s \in SUBSET S : Cardinality(s) <= n}
           Known(n) == \E g : g = [s \in Up(n) |-> Step(f, g, s)]
           T == {n \in Nat : Known(n)}
<1>0. \A s \in SUBSET S :
          IsFiniteSet(s) /\ Cardinality(s) \in Nat /\ Cardinality(s) <= Cardinality(S)
  BY FS_Subset, FS_CardinalityType
<1>1. 0 \in T
  <2> DEFINE g == [s \in Up(0) |-> 0]
  <2>1. \A s \in Up(0) : s = {}
    BY <1>0, FS_EmptySet
  <2>2. \A s \in Up(0) : Step(f, g, s) = 0
    BY <2>1 DEF Step
  <2>3. g = [s \in Up(0) |-> Step(f, g, s)]
    BY <2>2
  <2> QED
    BY <2>3
<1>2. ASSUME NEW n \in Nat, n \in T PROVE n + 1 \in T
  <2>1. PICK g : g = [s \in Up(n) |-> Step(f, g, s)]
    BY <1>2
  <2> DEFINE h == [s \in Up(n + 1) |-> Step(f, g, s)]
  <2>2. \A s \in Up(n) : s \in Up(n + 1) /\ h[s] = g[s]
    <3>1. \A s \in Up(n) : s \in Up(n + 1)
      BY <1>0
    <3>2. \A s \in Up(n) : g[s] = Step(f, g, s)
      BY <2>1
    <3> QED
      BY <3>1, <3>2
  <2>3. \A s \in Up(n + 1) : \A x \in s : s \ {x} \in Up(n)
    <3>1. ASSUME NEW s \in Up(n + 1), NEW x \in s PROVE s \ {x} \in Up(n)
      <4>1. s \ {x} \in SUBSET S /\ Cardinality(s \ {x}) = Cardinality(s) - 1
        BY SmallerBy
      <4>2. Cardinality(s) \in Nat /\ Cardinality(s) <= n + 1
        BY <1>0
      <4>3. Cardinality(s \ {x}) <= n
        BY <4>1, <4>2
      <4> QED
        BY <4>1, <4>3
    <3> QED
      BY <3>1
  <2>4. ASSUME NEW s \in Up(n + 1) PROVE Step(f, h, s) = Step(f, g, s)
    <3>1. \A x \in s : g[s \ {x}] = h[s \ {x}]
      BY <2>2, <2>3
    <3> QED
      BY <3>1, StepLocal
  <2>5. h = [s \in Up(n + 1) |-> Step(f, h, s)]
    BY <2>4
  <2>6. Known(n + 1)
    <3> HIDE DEF h
    <3> QED
      BY <2>5
  <2> HIDE DEF Known
  <2> QED
    BY <2>6
<1>3. Cardinality(S) \in T
  <2> HIDE DEF T
  <2>1. Cardinality(S) \in Nat
    BY FS_CardinalityType
  <2> QED
    BY <1>1, <1>2, <2>1, NatSetInduction
<1>4. Up(Cardinality(S)) = SUBSET S
  BY <1>0
<1> QED
  BY <1>3, <1>4

(* So its value at a subset is a step. *)
LEMMA IterUnfolds ==
    ASSUME NEW f, NEW S, IsFiniteSet(S), NEW s \in SUBSET S
    PROVE  Iter(f, S)[s] = Step(f, Iter(f, S), s)
<1>1. Iter(f, S) = [t \in SUBSET S |-> Step(f, Iter(f, S), t)]
  BY IterExists DEF Iter
<1> QED
  BY <1>1

(* Only the values on the set itself matter. *)
LEMMA IterLocal ==
    ASSUME NEW f, NEW S, IsFiniteSet(S), NEW g, NEW R, IsFiniteSet(R), 
           NEW u \in SUBSET (S \cap R), \A x \in u : f[x] = g[x]
    PROVE  Iter(f, S)[u] = Iter(g, R)[u]
<1> DEFINE T == {n \in Nat : \A s \in SUBSET u : Cardinality(s) = n =>
                                Iter(f, S)[s] = Iter(g, R)[s]}
<1>0. IsFiniteSet(u) /\ Cardinality(u) \in Nat 
  BY FS_Subset, FS_CardinalityType
<1>1. 0 \in T
  <2>1. ASSUME NEW s \in SUBSET u, Cardinality(s) = 0 PROVE Iter(f, S)[s] = Iter(g, R)[s]
    <3>1. s = {}
      BY <2>1, <1>0, FS_Subset, FS_EmptySet
    <3>2. Iter(f, S)[s] = Step(f, Iter(f, S), s) /\ Iter(g, R)[s] = Step(g, Iter(g, R), s)
      BY IterUnfolds
    <3> QED
      BY <3>1, <3>2 DEF Step
  <2> QED
    BY <2>1
<1>2. ASSUME NEW n \in Nat, n \in T PROVE n + 1 \in T
  <2>1. ASSUME NEW s \in SUBSET u, Cardinality(s) = n + 1 PROVE Iter(f, S)[s] = Iter(g, R)[s]
    <3>1. \A x \in s : Iter(f, S)[s \ {x}] = Iter(g, R)[s \ {x}]
      <4>1. ASSUME NEW x \in s PROVE Iter(f, S)[s \ {x}] = Iter(g, R)[s \ {x}]
        <5>1. s \ {x} \in SUBSET u /\ Cardinality(s \ {x}) = Cardinality(s) - 1
          BY <1>0, SmallerBy
        <5>2. Cardinality(s \ {x}) = n
          BY <5>1, <2>1
        <5> QED
          BY <5>1, <5>2, <1>2
      <4> QED
        BY <4>1
    <3>2. Iter(f, S)[s] = Step(f, Iter(f, S), s) /\ Iter(g, R)[s] = Step(g, Iter(g, R), s)
      BY IterUnfolds
    <3>3. Step(f, Iter(f, S), s) = Step(f, Iter(g, R), s)
      BY <3>1, StepLocal
    <3>4. Step(f, Iter(g, R), s) = Step(g, Iter(g, R), s)
      <4>1. s # {} => (CHOOSE y \in s : TRUE) \in s
        OBVIOUS
      <4> QED
        BY <4>1 DEF Step
    <3> QED
      BY <3>2, <3>3, <3>4
  <2> QED
    BY <2>1
<1>3. Cardinality(u) \in T
  <2> HIDE DEF T
  <2> QED
    BY <1>0, <1>1, <1>2, NatSetInduction
<1> QED
  BY <1>3

-----------------------------------------------------------------------------
(* The sum over no elements. *)
LEMMA SumEmpty ==
    ASSUME NEW f
    PROVE  SumFunctionOnSet(f, {}) = 0
<1>1. Iter(f, {})[{}] = Step(f, Iter(f, {}), {})
  BY IterUnfolds, FS_EmptySet
<1> QED
  BY <1>1, SumIsIter DEF Step

(* The sum depends only on the values on the set. *)
LEMMA SumAgree ==
    ASSUME NEW f, NEW g, NEW S, IsFiniteSet(S), \A x \in S : f[x] = g[x]
    PROVE  SumFunctionOnSet(f, S) = SumFunctionOnSet(g, S)
<1>1. Iter(f, S)[S] = Iter(g, S)[S]
  BY IterLocal
<1> QED
  BY <1>1, SumIsIter

(* The sum over a set is one of its values, whichever the fold chooses,      *)
(* and the sum over the others.                                              *)
LEMMA SumChoose ==
    ASSUME NEW f, NEW S, IsFiniteSet(S), S # {}
    PROVE  LET c == CHOOSE y \in S : TRUE
           IN c \in S /\ SumFunctionOnSet(f, S) = f[c] + SumFunctionOnSet(f, S \ {c})
<1> DEFINE c == CHOOSE y \in S : TRUE
<1>1. c \in S
  OBVIOUS
<1>2. Iter(f, S)[S] = f[c] + Iter(f, S)[S \ {c}]
  <2>1. Iter(f, S)[S] = Step(f, Iter(f, S), S)
    BY IterUnfolds
  <2> QED
    BY <2>1 DEF Step
<1>3. IsFiniteSet(S \ {c})
  BY FS_RemoveElement
<1>4. Iter(f, S)[S \ {c}] = Iter(f, S \ {c})[S \ {c}]
  <2> HIDE DEF c
  <2> QED
    BY <1>3, IterLocal
<1> QED
  BY <1>1, <1>2, <1>4, SumIsIter

(* Sums of integers are integers. *)
LEMMA SumInt ==
    ASSUME NEW f, NEW S, IsFiniteSet(S), \A x \in S : f[x] \in Int
    PROVE  SumFunctionOnSet(f, S) \in Int
<1> DEFINE T == {n \in Nat : \A s \in SUBSET S : Cardinality(s) = n => 
                                SumFunctionOnSet(f, s) \in Int}
<1>0. \A s \in SUBSET S : IsFiniteSet(s) /\ Cardinality(s) \in Nat
  BY FS_Subset, FS_CardinalityType
<1>1. 0 \in T
  BY <1>0, SumEmpty, FS_EmptySet
<1>2. ASSUME NEW n \in Nat, n \in T PROVE n + 1 \in T
  <2>1. ASSUME NEW s \in SUBSET S, Cardinality(s) = n + 1 
        PROVE  SumFunctionOnSet(f, s) \in Int
    <3>1. s # {}
      BY <2>1, FS_EmptySet
    <3>2. PICK c \in s : SumFunctionOnSet(f, s) = f[c] + SumFunctionOnSet(f, s \ {c})
      BY <3>1, <1>0, SumChoose
    <3>3. SumFunctionOnSet(f, s \ {c}) \in Int
      BY <1>2, <2>1, SmallerBy
    <3> QED
      BY <3>2, <3>3
  <2> QED
    BY <2>1
<1>3. Cardinality(S) \in T
  <2> HIDE DEF T
  <2> QED
    BY <1>0, <1>1, <1>2, NatSetInduction
<1> QED
  BY <1>3

(* Any element may be taken out of a sum: the fold's choice does not         *)
(* matter.                                                                   *)
LEMMA SumRemove ==
    ASSUME NEW f, NEW S, IsFiniteSet(S), \A x \in S : f[x] \in Int, NEW a \in S
    PROVE  SumFunctionOnSet(f, S) = f[a] + SumFunctionOnSet(f, S \ {a})
<1> DEFINE T == {n \in Nat : \A s \in SUBSET S : Cardinality(s) = n => \A x \in s :
                    SumFunctionOnSet(f, s) = f[x] + SumFunctionOnSet(f, s \ {x})}
<1>0. \A s \in SUBSET S : IsFiniteSet(s) /\ Cardinality(s) \in Nat
  BY FS_Subset, FS_CardinalityType
<1>1. 0 \in T
  BY <1>0, FS_EmptySet
<1>2. ASSUME NEW n \in Nat, n \in T PROVE n + 1 \in T
  <2>1. ASSUME NEW s \in SUBSET S, Cardinality(s) = n + 1, NEW x \in s
        PROVE  SumFunctionOnSet(f, s) = f[x] + SumFunctionOnSet(f, s \ {x})
    <3>2. PICK c \in s : SumFunctionOnSet(f, s) = f[c] + SumFunctionOnSet(f, s \ {c})
      BY <1>0, SumChoose
    <3>3. CASE c = x
      BY <3>2, <3>3
    <3>4. CASE c # x
      <4>1. Cardinality(s \ {c}) = n /\ Cardinality(s \ {x}) = n
        <5>1. /\ Cardinality(s \ {c}) = Cardinality(s) - 1
              /\ Cardinality(s \ {x}) = Cardinality(s) - 1
          BY SmallerBy
        <5> QED
          BY <5>1, <2>1
      <4>2. SumFunctionOnSet(f, s \ {c}) = f[x] + SumFunctionOnSet(f, (s \ {c}) \ {x})
        BY <1>2, <4>1, <3>4
      <4>3. SumFunctionOnSet(f, s \ {x}) = f[c] + SumFunctionOnSet(f, (s \ {x}) \ {c})
        BY <1>2, <4>1, <3>4
      <4>4. (s \ {c}) \ {x} = (s \ {x}) \ {c}
        OBVIOUS
      <4>5. SumFunctionOnSet(f, (s \ {x}) \ {c}) \in Int
        BY <1>0, SumInt
      <4> DEFINE r == SumFunctionOnSet(f, (s \ {x}) \ {c})
      <4>6. f[x] \in Int /\ f[c] \in Int /\ r \in Int
        BY <4>5
      <4>7. SumFunctionOnSet(f, s) = f[c] + (f[x] + r) 
        BY <4>2, <4>4, <3>2
      <4>8. SumFunctionOnSet(f, s \ {x}) = f[c] + r
        BY <4>3
      <4> HIDE DEF r
      <4> QED
        BY <4>6, <4>7, <4>8
    <3> QED
      BY <3>3, <3>4
  <2> QED
    BY <2>1
<1>3. Cardinality(S) \in T
  <2> HIDE DEF T
  <2> QED
    BY <1>0, <1>1, <1>2, NatSetInduction
<1> QED
  BY <1>3

(* A sum over a set with one more element. *)
LEMMA SumAdd ==
    ASSUME NEW f, NEW S, IsFiniteSet(S), NEW a, a \notin S, \A x \in S \cup {a} : f[x] \in Int
    PROVE  SumFunctionOnSet(f, S \cup {a}) = f[a] + SumFunctionOnSet(f, S)
<1>1. IsFiniteSet(S \cup {a}) /\ (S \cup {a}) \ {a} = S
  BY FS_AddElement
<1> QED
  BY <1>1, SumRemove

(* One term of a sum changes: the sum changes by as much. *)
LEMMA SumChange ==
    ASSUME NEW f, NEW g, NEW S, IsFiniteSet(S), NEW a \in S,
           \A x \in S : f[x] \in Int /\ g[x] \in Int,
           \A x \in S \ {a} : g[x] = f[x]
    PROVE  SumFunctionOnSet(g, S) = (SumFunctionOnSet(f, S) - f[a]) + g[a]
<1> DEFINE R == S \ {a}
<1>1. IsFiniteSet(R)
  BY FS_RemoveElement
<1>2. SumFunctionOnSet(f, S) = f[a] + SumFunctionOnSet(f, R)
  BY SumRemove
<1>3. SumFunctionOnSet(g, S) = g[a] + SumFunctionOnSet(g, R)
  BY SumRemove
<1>4. SumFunctionOnSet(g, R) = SumFunctionOnSet(f, R)
  BY <1>1, SumAgree
<1>5. SumFunctionOnSet(f, R) \in Int
  BY <1>1, SumInt
<1> HIDE DEF R
<1> QED
  BY <1>2, <1>3, <1>4, <1>5

(* A sum of natural numbers is one, and no term exceeds it. *)
LEMMA SumNat ==
    ASSUME NEW f, NEW S, IsFiniteSet(S), \A x \in S : f[x] \in Nat
    PROVE  /\ SumFunctionOnSet(f, S) \in Nat
           /\ \A x \in S : f[x] <= SumFunctionOnSet(f, S)
<1> DEFINE T == {n \in Nat : \A s \in SUBSET S : Cardinality(s) = n =>
                                SumFunctionOnSet(f, s) \in Nat}
<1>0. \A s \in SUBSET S : IsFiniteSet(s) /\ Cardinality(s) \in Nat
  BY FS_Subset, FS_CardinalityType
<1>1. 0 \in T
  BY <1>0, SumEmpty, FS_EmptySet
<1>2. ASSUME NEW n \in Nat, n \in T PROVE n + 1 \in T
  <2>1. ASSUME NEW s \in SUBSET S, Cardinality(s) = n + 1
        PROVE  SumFunctionOnSet(f, s) \in Nat
    <3>1. s # {}
      BY <2>1, FS_EmptySet
    <3>2. PICK c \in s : SumFunctionOnSet(f, s) = f[c] + SumFunctionOnSet(f, s \ {c})
      BY <3>1, <1>0, SumChoose
    <3>3. SumFunctionOnSet(f, s \ {c}) \in Nat
      <4>1. s \ {c} \in SUBSET S /\ Cardinality(s \ {c}) = Cardinality(s) - 1
        BY SmallerBy
      <4>2. Cardinality(s \ {c}) = n
        BY <2>1, <4>1
      <4> QED
        BY <1>2, <4>1, <4>2
    <3> QED
      BY <3>2, <3>3
  <2> QED
    BY <2>1
<1>3. \A n \in Nat : n \in T
  <2> HIDE DEF T
  <2> QED
    BY <1>1, <1>2, NatSetInduction
<1>4. \A s \in SUBSET S : SumFunctionOnSet(f, s) \in Nat
  BY <1>0, <1>3
<1>5. ASSUME NEW x \in S PROVE f[x] <= SumFunctionOnSet(f, S)
  <2>1. SumFunctionOnSet(f, S) = f[x] + SumFunctionOnSet(f, S \ {x})
    BY SumRemove
  <2>2. SumFunctionOnSet(f, S \ {x}) \in Nat
    BY <1>4
  <2> QED
    BY <2>1, <2>2
<1> QED
  BY <1>4, <1>5

(* A finite set of integers that is not empty has a greatest element. *)
LEMMA FiniteMax ==
    ASSUME NEW S, S \subseteq Int, IsFiniteSet(S), S # {}
    PROVE  \E x \in S : \A y \in S : y <= x
<1> DEFINE HasMax(s) == s # {} => \E x \in s : \A y \in s : y <= x
           T == {n \in Nat : \A s \in SUBSET S : Cardinality(s) = n => HasMax(s)}
<1>0. \A s \in SUBSET S : IsFiniteSet(s) /\ Cardinality(s) \in Nat
  BY FS_Subset, FS_CardinalityType
<1>1. 0 \in T
  BY <1>0, FS_EmptySet
<1>2. ASSUME NEW n \in Nat, n \in T PROVE n + 1 \in T
  <2>1. ASSUME NEW s \in SUBSET S, Cardinality(s) = n + 1, s # {} 
        PROVE \E x \in s : \A y \in s : y <= x
    <3>1. PICK z \in s : TRUE
      BY <2>1
    <3>2. s \ {z} \in SUBSET S /\ Cardinality(s \ {z}) = Cardinality(s) - 1
      BY SmallerBy
    <3>3. Cardinality(s \ {z}) = n
      BY <3>2, <2>1
    <3>4. HasMax(s \ {z})
      BY <3>2, <3>3, <1>2
    <3>5. CASE s \ {z} = {}
      <4>1. \A y \in s : y <= z
        BY <3>5
      <4> QED
        BY <4>1
    <3>6. CASE s \ {z} # {}
      <4>1. PICK x \in s \ {z} : \A y \in s \ {z} : y <= x
        BY <3>4, <3>6
      <4>2. CASE z <= x
        BY <4>1, <4>2
      <4>3. CASE x <= z
        <5>1. \A y \in s : y <= z
          BY <4>1, <4>3
        <5> QED
          BY <5>1
      <4> QED
        BY <4>2, <4>3
    <3> QED
      BY <3>5, <3>6
  <2> QED
    BY <2>1
<1>3. Cardinality(S) \in T
  <2> HIDE DEF T
  <2> QED
    BY <1>0, <1>1, <1>2, NatSetInduction
<1>4. HasMax(S)
  BY <1>3
<1> QED
  BY <1>4

=============================================================================
