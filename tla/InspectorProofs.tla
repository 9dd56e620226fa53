---------------------------- MODULE InspectorProofs ----------------------------
(***************************************************************************)
(* What the three inspectors make of a database at rest, for every         *)
(* database: the order of their rows, the rows of one index or foreign key *)
(* and each call.                                                          *)
(***************************************************************************)
EXTENDS CatalogueRows, Inspector, FiniteSetTheorems, TLAPS

-------------------------------------------------------------------------------
(*                         Lists and their orders                          *)

(* A strict order of S, and a list of all its members in that order.       *)
Orders(before, S) ==
    /\ \A x \in S : <<x, x>> \notin before
    /\ \A x, y \in S : x # y => <<x, y>> \in before \/ <<y, x>> \in before
    /\ \A x, y, z \in S : <<x, y>> \in before /\ <<y, z>> \in before => <<x, z>> \in before

Lists(f, n, before, S) ==
    /\ f = [k \in 1 .. n |-> f[k]]
    /\ \A k \in 1 .. n : f[k] \in S
    /\ \A x \in S : \E k \in 1 .. n : f[k] = x
    /\ \A j, k \in 1 .. n : j < k => <<f[j], f[k]>> \in before

LEMMA MadeList ==
  ASSUME NEW n \in Nat, NEW s, s = [i \in 1 .. n |-> s[i]]
  PROVE  IsList(s) /\ Len(s) = n /\ DOMAIN s = 1 .. n
<1> DEFINE T == {s[i] : i \in 1 .. n}
<1>1. s \in [1 .. n -> T]
  <2>1. \A i \in 1 .. n : s[i] \in T
    OBVIOUS
  <2> QED
    BY <2>1
<1>2. s \in Seq(T)
  BY <1>1
<1>3. Len(s) = n
  BY <1>1, <1>2
<1> QED
  BY <1>1, <1>3 DEF IsList

LEMMA ListDomain ==
  ASSUME NEW s, IsList(s)
  PROVE  DOMAIN s = 1 .. Len(s) /\ Len(s) \in Nat
BY DEF IsList

LEMMA SameLists ==
  ASSUME NEW s, NEW r, IsList(s), IsList(r), Len(s) = Len(r),
         \A i \in 1 .. Len(s) : s[i] = r[i]
  PROVE  s = r
BY DEF IsList

(* How many come before x.                                                 *)
Below(S, before, x) == {y \in S : <<y, x>> \in before}

LEMMA BelowIsLess ==
  ASSUME NEW S, IsFiniteSet(S), NEW before, Orders(before, S), NEW x \in S
  PROVE  /\ IsFiniteSet(Below(S, before, x))
         /\ Cardinality(Below(S, before, x)) \in 0 .. Cardinality(S) - 1
<1>1. Below(S, before, x) \in SUBSET S /\ x \notin Below(S, before, x)
  BY DEF Below, Orders
<1>2. Below(S, before, x) # S
  BY <1>1
<1> HIDE DEF Below
<1>3. /\ IsFiniteSet(Below(S, before, x))
      /\ Cardinality(Below(S, before, x)) <= Cardinality(S)
      /\ Cardinality(S) # Cardinality(Below(S, before, x))
  BY <1>1, <1>2, FS_Subset
<1>4. Cardinality(S) \in Nat /\ Cardinality(Below(S, before, x)) \in Nat
  BY <1>3, FS_CardinalityType
<1> QED
  BY <1>3, <1>4

LEMMA BelowGrows ==
  ASSUME NEW S, IsFiniteSet(S), NEW before, Orders(before, S),
         NEW x \in S, NEW y \in S, <<x, y>> \in before
  PROVE  Cardinality(Below(S, before, x)) < Cardinality(Below(S, before, y))
<1> DEFINE X == Below(S, before, x)
           Y == Below(S, before, y)
<1>1. X \in SUBSET Y
  BY DEF Below, Orders
<1>2. x \in Y /\ x \notin X
  BY DEF Below, Orders
<1>3. IsFiniteSet(X) /\ IsFiniteSet(Y)
  BY BelowIsLess
<1>4. Cardinality(X) \in Nat /\ Cardinality(Y) \in Nat
  BY <1>3, FS_CardinalityType
<1> HIDE DEF X, Y
<1>5. Cardinality(X) <= Cardinality(Y) /\ Cardinality(X) # Cardinality(Y)
  BY <1>1, <1>2, <1>3, FS_Subset
<1> QED
  BY <1>4, <1>5 DEF X, Y

(* Every place in the order is taken by exactly one member.                *)
LEMMA EveryPlace ==
  ASSUME NEW S, IsFiniteSet(S), NEW before, Orders(before, S),
         NEW k \in 0 .. Cardinality(S) - 1
  PROVE  \E x \in S : Cardinality(Below(S, before, x)) = k
<1> DEFINE n == Cardinality(S)
           T == 0 .. n - 1
           c == [x \in S |-> Cardinality(Below(S, before, x))]
<1>1. n \in Nat
  BY FS_CardinalityType
<1>2. c \in [S -> T]
  BY BelowIsLess
<1>3. ASSUME NEW x \in S, NEW y \in S, c[x] = c[y] PROVE x = y
  <2>1. CASE <<x, y>> \in before
    <3>1. c[x] < c[y]
      BY <2>1, BelowGrows
    <3>2. c[x] \in Int /\ c[y] \in Int
      BY <1>1, <1>2
    <3> QED
      BY <1>3, <3>1, <3>2
  <2>2. CASE <<y, x>> \in before
    <3>1. c[y] < c[x]
      BY <2>2, BelowGrows
    <3>2. c[x] \in Int /\ c[y] \in Int
      BY <1>1, <1>2
    <3> QED
      BY <1>3, <3>1, <3>2
  <2>3. x # y => <<x, y>> \in before \/ <<y, x>> \in before
    BY DEF Orders
  <2> HIDE DEF c
  <2> QED
    BY <2>1, <2>2, <2>3
<1>4. c \in Injection(S, T)
  BY <1>2, <1>3 DEF Injection, IsInjective
<1>5. IsFiniteSet(T) /\ Cardinality(T) = n
  BY <1>1, FS_Interval
<1> HIDE DEF c, T
<1>6. c \in Surjection(S, T)
  BY <1>4, <1>5, FS_Injection
<1>7. PICK x \in S : c[x] = k
  <2>1. k \in T
    BY DEF T, n
  <2> QED
    BY <1>6, <2>1 DEF Surjection
<1> QED
  BY <1>7 DEF c

(* InOrder() lists a finite set in its order, ...                          *)
LEMMA InOrderLists ==
  ASSUME NEW S, IsFiniteSet(S), NEW before, Orders(before, S)
  PROVE  /\ Cardinality(S) \in Nat
         /\ Lists(InOrder(S, before), Cardinality(S), before, S)
         /\ \A k \in 1 .. Cardinality(S) :
               Cardinality(Below(S, before, InOrder(S, before)[k])) = k - 1
<1> DEFINE n == Cardinality(S)
           f == InOrder(S, before)
           c(x) == Cardinality(Below(S, before, x))
<1>1. n \in Nat
  BY FS_CardinalityType
<1>2. f = [k \in 1 .. n |-> CHOOSE x \in S : c(x) = k - 1]
  BY DEF InOrder, Below
<1>3. ASSUME NEW k \in 1 .. n
      PROVE  f[k] \in S /\ c(f[k]) = k - 1
  <2>1. k - 1 \in 0 .. n - 1
    BY <1>1
  <2>2. \E x \in S : c(x) = k - 1
    BY <2>1, EveryPlace
  <2>3. f[k] = CHOOSE x \in S : c(x) = k - 1
    BY <1>2
  <2> HIDE DEF f, c
  <2> QED
    BY <2>2, <2>3
<1>4. ASSUME NEW x \in S PROVE \E k \in 1 .. n : f[k] = x
  <2>1. c(x) \in 0 .. n - 1
    BY BelowIsLess
  <2>2. c(x) + 1 \in 1 .. n
    BY <1>1, <2>1
  <2>3. f[c(x) + 1] \in S /\ c(f[c(x) + 1]) = c(x)
    <3>1. c(f[c(x) + 1]) = (c(x) + 1) - 1
      BY <1>3, <2>2
    <3> HIDE DEF c, f
    <3> QED
      BY <1>3, <2>1, <2>2, <3>1
  <2>4. f[c(x) + 1] = x
    <3> DEFINE y == f[c(x) + 1]
    <3>1. y \in S /\ c(y) = c(x)
      BY <2>3
    <3>2. c(x) \in Int /\ ~ (c(x) < c(x))
      BY <2>1
    <3> HIDE DEF y
    <3>3. <<x, y>> \notin before /\ <<y, x>> \notin before
      BY <3>1, <3>2, BelowGrows
    <3>4. x = y
      BY <3>1, <3>3 DEF Orders
    <3> QED
      BY <3>4 DEF y
  <2> QED
    BY <2>2, <2>4
<1>5. ASSUME NEW j \in 1 .. n, NEW k \in 1 .. n, j < k PROVE <<f[j], f[k]>> \in before
  <2> DEFINE x == f[j]
             y == f[k]
  <2>1. x \in S /\ y \in S /\ c(x) = j - 1 /\ c(y) = k - 1
    BY <1>3
  <2> HIDE DEF x, y, f
  <2>2. x # y
    BY <1>5, <2>1
  <2>3. CASE <<y, x>> \in before
    <3>1. c(y) < c(x)
      BY <2>1, <2>3, BelowGrows
    <3> HIDE DEF c
    <3> QED
      BY <1>5, <2>1, <3>1
  <2> QED
    BY <2>1, <2>2, <2>3 DEF Orders, x, y
<1> QED
  <2>1. f = [k \in 1 .. n |-> f[k]]
    BY <1>2
  <2> HIDE DEF f
  <2> QED
    BY <1>1, <1>3, <1>4, <1>5, <2>1 DEF Lists, f

(* ... and a list in that order is the one it gives.                       *)
LEMMA OnlyOrder ==
  ASSUME NEW S, NEW before, Orders(before, S), NEW n \in Nat, NEW f, Lists(f, n, before, S)
  PROVE  IsFiniteSet(S) /\ Cardinality(S) = n /\ InOrder(S, before) = f
<1>1. f \in [1 .. n -> S]
  BY DEF Lists
<1>2. ASSUME NEW j \in 1 .. n, NEW k \in 1 .. n, f[j] = f[k] PROVE j = k
  <2>1. CASE j < k
    <3>1. <<f[j], f[k]>> \in before
      BY <2>1 DEF Lists
    <3> QED
      BY <1>1, <1>2, <3>1 DEF Orders
  <2>2. CASE k < j
    <3>1. <<f[k], f[j]>> \in before
      BY <2>2 DEF Lists
    <3> QED
      BY <1>1, <1>2, <3>1 DEF Orders
  <2> QED
    BY <2>1, <2>2
<1>3. f \in Bijection(1 .. n, S)
  BY <1>1, <1>2 DEF Bijection, Injection, IsInjective, Surjection, Lists
<1>4. IsFiniteSet(1 .. n) /\ Cardinality(1 .. n) = n
  BY FS_Interval
<1>5. IsFiniteSet(S) /\ Cardinality(S) = n
  BY <1>3, <1>4, FS_Bijection DEF ExistsBijection
<1>6. ASSUME NEW k \in 1 .. n
      PROVE  Cardinality(Below(S, before, f[k])) = k - 1
  <2> DEFINE B == Below(S, before, f[k])
             g == [j \in 1 .. k - 1 |-> f[j]]
  <2>1. \A j \in 1 .. n : <<f[j], f[k]>> \in before => j < k
    <3>1. ASSUME NEW j \in 1 .. n, <<f[j], f[k]>> \in before, ~ (j < k) PROVE FALSE
      <4>1. j = k \/ k < j
        BY <3>1
      <4>2. f[j] \in S /\ f[k] \in S
        BY <1>1
      <4>3. <<f[k], f[j]>> \in before \/ f[j] = f[k]
        BY <4>1 DEF Lists
      <4> QED
        BY <3>1, <4>2, <4>3 DEF Orders
    <3> QED
      BY <3>1
  <2>2. \A j \in 1 .. k - 1 : j \in 1 .. n /\ j < k
    OBVIOUS
  <2>3. \A j \in 1 .. k - 1 : f[j] \in B
    BY <1>1, <2>2 DEF Lists, Below
  <2>4. \A y \in B : \E j \in 1 .. k - 1 : f[j] = y
    <3>1. ASSUME NEW y \in B PROVE \E j \in 1 .. k - 1 : f[j] = y
      <4>1. y \in S /\ <<y, f[k]>> \in before
        BY DEF Below
      <4>2. PICK j \in 1 .. n : f[j] = y
        BY <4>1 DEF Lists
      <4>3. j < k
        BY <2>1, <4>1, <4>2
      <4> QED
        BY <4>2, <4>3
    <3> QED
      BY <3>1
  <2> HIDE DEF B
  <2>5. g \in Bijection(1 .. k - 1, B)
    <3>1. g \in [1 .. k - 1 -> B]
      BY <2>3
    <3>2. \A i, j \in 1 .. k - 1 : g[i] = g[j] => i = j
      BY <1>2, <2>2
    <3>3. \A y \in B : \E j \in 1 .. k - 1 : g[j] = y
      BY <2>4
    <3> HIDE DEF g
    <3> QED
      BY <3>1, <3>2, <3>3 DEF Bijection, Injection, IsInjective, Surjection
  <2>6. IsFiniteSet(1 .. k - 1) /\ Cardinality(1 .. k - 1) = k - 1
    BY FS_Interval
  <2> HIDE DEF g
  <2>7. Cardinality(B) = k - 1
    BY <2>5, <2>6, FS_Bijection DEF ExistsBijection
  <2> QED
    BY <2>7 DEF B
<1>7. ASSUME NEW k \in 1 .. n
      PROVE  InOrder(S, before)[k] = f[k]
  <2> DEFINE g == InOrder(S, before)
  <2>1. g[k] \in S /\ Cardinality(Below(S, before, g[k])) = k - 1
    BY <1>5, InOrderLists DEF Lists
  <2> HIDE DEF g
  <2>2. f[k] \in S /\ Cardinality(Below(S, before, f[k])) = k - 1
    BY <1>1, <1>6
  <2>3. ~ (k - 1 < k - 1)
    OBVIOUS
  <2>4. <<g[k], f[k]>> \notin before /\ <<f[k], g[k]>> \notin before
    BY <1>5, <2>1, <2>2, <2>3, BelowGrows
  <2>5. g[k] = f[k]
    BY <2>1, <2>2, <2>4 DEF Orders
  <2> QED
    BY <2>5 DEF g
<1>8. InOrder(S, before) = [k \in 1 .. n |-> InOrder(S, before)[k]]
  BY <1>5, InOrderLists DEF Lists
<1> QED
  BY <1>5, <1>7, <1>8 DEF Lists

-------------------------------------------------------------------------------
(*                     Thinned out, sorted and cut                         *)

LEMMA NumbersAreOrdered ==
  ASSUME NEW n \in Nat, NEW at \in SUBSET (1 .. n)
  PROVE  /\ Orders(Ascending(at), at) /\ IsFiniteSet(at)
         /\ \A i, j \in at : <<i, j>> \in Ascending(at) <=> i < j
<1>1. \A i, j \in at : <<i, j>> \in Ascending(at) <=> i < j
  BY DEF Ascending
<1>2. \A i \in at : i \in Int
  OBVIOUS
<1>3. Orders(Ascending(at), at)
  BY <1>1, <1>2 DEF Orders
<1>4. IsFiniteSet(at)
  <2>1. IsFiniteSet(1 .. n)
    BY FS_Interval
  <2> QED
    BY <2>1, FS_Subset
<1> QED
  BY <1>1, <1>3, <1>4

(* What is had at the positions that g lists in ascending order.           *)
Ascends(g, m, at) ==
    /\ \A k \in 1 .. m : g[k] \in at
    /\ \A i \in at : \E k \in 1 .. m : g[k] = i
    /\ \A j, k \in 1 .. m : j < k => g[j] < g[k]

LEMMA HavingAt ==
  ASSUME NEW s, IsList(s), NEW at \in SUBSET DOMAIN s, NEW m \in Nat,
         NEW g, Ascends(g, m, at)
  PROVE  /\ IsList(Having(s, at)) /\ Len(Having(s, at)) = m
         /\ \A k \in 1 .. m : Having(s, at)[k] = s[g[k]]
<1> DEFINE f == [k \in 1 .. m |-> g[k]]
<1>1. /\ Orders(Ascending(at), at)
      /\ \A i, j \in at : <<i, j>> \in Ascending(at) <=> i < j
  BY ListDomain, NumbersAreOrdered
<1>2. \A j, k \in 1 .. m : j < k => <<f[j], f[k]>> \in Ascending(at)
  BY <1>1 DEF Ascends
<1>3. Lists(f, m, Ascending(at), at)
  BY <1>2 DEF Lists, Ascends
<1> HIDE DEF f
<1>4. InOrder(at, Ascending(at)) = f
  BY <1>1, <1>3, OnlyOrder
<1>5. Having(s, at) = [k \in 1 .. m |-> s[g[k]]]
  BY <1>4 DEF Having, f
<1>6. Having(s, at) = [k \in 1 .. m |-> Having(s, at)[k]]
  BY <1>5
<1> QED
  BY <1>5, <1>6, MadeList

LEMMA HavingAll ==
  ASSUME NEW s, IsList(s)
  PROVE  Having(s, DOMAIN s) = s
<1> DEFINE n == Len(s)
           at == DOMAIN s
           g == [k \in 1 .. n |-> k]
<1>1. n \in Nat /\ at = 1 .. n
  BY ListDomain
<1>2. Ascends(g, n, at)
  BY <1>1 DEF Ascends
<1>3. \A k \in 1 .. n : g[k] = k
  OBVIOUS
<1> HIDE DEF g
<1>4. /\ IsList(Having(s, at)) /\ Len(Having(s, at)) = n
      /\ \A k \in 1 .. n : Having(s, at)[k] = s[g[k]]
  BY <1>1, <1>2, HavingAt
<1>5. \A k \in 1 .. n : Having(s, at)[k] = s[k]
  BY <1>3, <1>4
<1> QED
  BY <1>1, <1>4, <1>5, SameLists DEF n

(* In general: a list of what is at those positions, in their order.       *)
LEMMA HavingSome ==
  ASSUME NEW s, IsList(s), NEW at \in SUBSET DOMAIN s
  PROVE  LET g == InOrder(at, Ascending(at))
             m == Cardinality(at)
         IN  /\ IsFiniteSet(at) /\ m \in Nat
             /\ IsList(Having(s, at)) /\ Len(Having(s, at)) = m
             /\ \A k \in 1 .. m : g[k] \in at /\ Having(s, at)[k] = s[g[k]]
             /\ \A i \in at : \E k \in 1 .. m : g[k] = i
             /\ \A j, k \in 1 .. m : j < k => g[j] < g[k]
             /\ \A k \in 1 .. m : Cardinality({i \in at : i < g[k]}) = k - 1
<1> DEFINE g == InOrder(at, Ascending(at))
           m == Cardinality(at)
<1>1. at \in SUBSET (1 .. Len(s)) /\ Len(s) \in Nat
  BY ListDomain
<1>2. /\ Orders(Ascending(at), at) /\ IsFiniteSet(at)
      /\ \A i, j \in at : <<i, j>> \in Ascending(at) <=> i < j
  BY <1>1, NumbersAreOrdered
<1>3. /\ m \in Nat
      /\ Lists(g, m, Ascending(at), at)
      /\ \A k \in 1 .. m : Cardinality(Below(at, Ascending(at), g[k])) = k - 1
  BY <1>2, InOrderLists
<1>4. Having(s, at) = [k \in 1 .. m |-> s[g[k]]]
  <2>1. DOMAIN g = 1 .. m
    BY <1>3 DEF Lists
  <2> QED
    BY <2>1 DEF Having
<1>5. IsList(Having(s, at)) /\ Len(Having(s, at)) = m
  <2>1. Having(s, at) = [k \in 1 .. m |-> Having(s, at)[k]]
    BY <1>4
  <2> HIDE DEF m
  <2> QED
    BY <1>3, <2>1, MadeList
<1>6. \A k \in 1 .. m : g[k] \in at /\ Having(s, at)[k] = s[g[k]]
  BY <1>3, <1>4 DEF Lists
<1>7. \A j, k \in 1 .. m : j < k => g[j] < g[k]
  BY <1>2, <1>3, <1>6 DEF Lists
<1>8. \A i \in at : \E k \in 1 .. m : g[k] = i
  BY <1>3 DEF Lists
<1>9. \A k \in 1 .. m : Cardinality({i \in at : i < g[k]}) = k - 1
  <2>1. ASSUME NEW k \in 1 .. m
        PROVE  {i \in at : i < g[k]} = Below(at, Ascending(at), g[k])
    BY <1>2, <1>6 DEF Below
  <2> QED
    BY <1>3, <2>1
<1> HIDE DEF g, m
<1> QED
  BY <1>2, <1>3, <1>5, <1>6, <1>7, <1>8, <1>9 DEF g, m

-------------------------------------------------------------------------------
(*                     The elements of several lists                       *)

AreLists(lists) == IsList(lists) /\ \A i \in 1 .. Len(lists) : IsList(lists[i])

LEMMA IsPlace ==
  ASSUME NEW lists, AreLists(lists)
  PROVE  /\ \A p \in PlacesOf(lists) :
               /\ p = <<p[1], p[2]>>
               /\ p[1] \in 1 .. Len(lists) /\ p[2] \in 1 .. Len(lists[p[1]])
               /\ p[1] \in Int /\ p[2] \in Int
         /\ \A i \in 1 .. Len(lists) : \A j \in 1 .. Len(lists[i]) : <<i, j>> \in PlacesOf(lists)
<1>1. DOMAIN lists = 1 .. Len(lists)
  BY ListDomain DEF AreLists
<1>2. \A i \in 1 .. Len(lists) : DOMAIN lists[i] = 1 .. Len(lists[i])
  BY ListDomain DEF AreLists
<1>3. \A p \in PlacesOf(lists) :
         /\ p = <<p[1], p[2]>>
         /\ p[1] \in 1 .. Len(lists) /\ p[2] \in 1 .. Len(lists[p[1]])
  BY <1>1, <1>2 DEF PlacesOf
<1>4. \A i \in 1 .. Len(lists) : \A j \in 1 .. Len(lists[i]) : <<i, j>> \in PlacesOf(lists)
  BY <1>1, <1>2 DEF PlacesOf
<1> QED
  BY <1>3, <1>4

LEMMA PlacesAreFinite ==
  ASSUME NEW lists, AreLists(lists)
  PROVE  IsFiniteSet(PlacesOf(lists))
<1> DEFINE n == Len(lists)
           D == 1 .. n
           F(i) == {i} \X DOMAIN lists[i]
           T == {F(i) : i \in D}
           f == [i \in D |-> F(i)]
<1>1. DOMAIN lists = D /\ n \in Nat
  BY ListDomain DEF AreLists
<1>2. ASSUME NEW i \in D PROVE IsFiniteSet(F(i))
  <2>1. DOMAIN lists[i] = 1 .. Len(lists[i]) /\ Len(lists[i]) \in Nat
    BY ListDomain DEF AreLists
  <2>2. IsFiniteSet(1 .. Len(lists[i]))
    BY <2>1, FS_Interval
  <2>3. IsFiniteSet({i})
    BY FS_Singleton
  <2> QED
    BY <2>1, <2>2, <2>3, FS_Product
<1>3. f \in Surjection(D, T)
  BY DEF Surjection
<1>4. IsFiniteSet(D)
  BY <1>1, FS_Interval
<1>5. \A X \in T : IsFiniteSet(X)
  BY <1>2
<1>6. PlacesOf(lists) = UNION T
  BY <1>1 DEF PlacesOf
<1> HIDE DEF f, T
<1>7. IsFiniteSet(T)
  BY <1>3, <1>4, FS_Surjection
<1> QED
  BY <1>5, <1>6, <1>7, FS_UNION

ArePlaces(at, lists) ==
    /\ IsList(at)
    /\ Lists(at, Len(at), ListByList(PlacesOf(lists)), PlacesOf(lists))

LEMMA PlacesOrdered ==
  ASSUME NEW lists, AreLists(lists)
  PROVE  Orders(ListByList(PlacesOf(lists)), PlacesOf(lists))
<1> DEFINE P == PlacesOf(lists)
           R == ListByList(P)
<1>1. \A p, q \in P : <<p, q>> \in R <=> \/ p[1] < q[1]
                                         \/ p[1] = q[1] /\ p[2] < q[2]
  BY DEF ListByList
<1>2. \A p \in P : p = <<p[1], p[2]>> /\ p[1] \in Int /\ p[2] \in Int
  BY IsPlace
<1> HIDE DEF P, R
<1>3. \A x \in P : <<x, x>> \notin R
  BY <1>1, <1>2
<1>4. \A x, y \in P : x # y => <<x, y>> \in R \/ <<y, x>> \in R
  <2>1. ASSUME NEW x \in P, NEW y \in P, x # y PROVE <<x, y>> \in R \/ <<y, x>> \in R
    <3>1. x[1] # y[1] \/ x[2] # y[2]
      BY <1>2, <2>1
    <3> QED
      BY <1>1, <1>2, <3>1
  <2> QED
    BY <2>1
<1>5. \A x, y, z \in P : <<x, y>> \in R /\ <<y, z>> \in R => <<x, z>> \in R
  BY <1>1, <1>2
<1> QED
  BY <1>3, <1>4, <1>5 DEF Orders, P, R

LEMMA PlacesListed ==
  ASSUME NEW lists, AreLists(lists)
  PROVE  ArePlaces(Places(lists), lists)
<1> DEFINE P == PlacesOf(lists)
           R == ListByList(P)
           n == Cardinality(P)
           f == Places(lists)
<1>1. IsFiniteSet(P) /\ Orders(R, P)
  BY PlacesAreFinite, PlacesOrdered
<1>2. f = InOrder(P, R)
  BY DEF Places
<1> HIDE DEF P, R
<1>3. n \in Nat /\ Lists(f, n, R, P)
  BY <1>1, <1>2, InOrderLists
<1> HIDE DEF f, n
<1>4. f = [k \in 1 .. n |-> f[k]]
  BY <1>3 DEF Lists
<1>5. IsList(f) /\ Len(f) = n
  BY <1>3, <1>4, MadeList
<1> QED
  BY <1>3, <1>5 DEF ArePlaces, P, R, f

LEMMA ListsArePlaces ==
  ASSUME NEW lists, AreLists(lists), NEW at, ArePlaces(at, lists)
  PROVE  at = Places(lists)
<1> DEFINE P == PlacesOf(lists)
           R == ListByList(P)
<1>1. Orders(R, P)
  BY PlacesOrdered
<1>2. Len(at) \in Nat /\ Lists(at, Len(at), R, P)
  BY ListDomain DEF ArePlaces
<1> HIDE DEF P, R
<1>3. InOrder(P, R) = at
  BY <1>1, <1>2, OnlyOrder
<1> QED
  BY <1>3 DEF Places, P, R

(* Where the places are.                                                   *)
LEMMA PlaceOrder ==
  ASSUME NEW lists, AreLists(lists), NEW at, ArePlaces(at, lists)
  PROVE  /\ Len(at) \in Nat
         /\ \A k \in 1 .. Len(at) :
               /\ at[k] = <<at[k][1], at[k][2]>>
               /\ at[k][1] \in 1 .. Len(lists) /\ at[k][2] \in 1 .. Len(lists[at[k][1]])
               /\ at[k][1] \in Int /\ at[k][2] \in Int
         /\ \A i \in 1 .. Len(lists) : \A j \in 1 .. Len(lists[i]) :
               \E k \in 1 .. Len(at) : at[k] = <<i, j>>
         /\ \A k, l \in 1 .. Len(at) :
               k < l <=> \/ at[k][1] < at[l][1]
                         \/ at[k][1] = at[l][1] /\ at[k][2] < at[l][2]
<1> DEFINE P == PlacesOf(lists)
           R == ListByList(P)
           n == Len(at)
<1>1. n \in Nat /\ Lists(at, n, R, P)
  BY ListDomain DEF ArePlaces
<1>2. \A k \in 1 .. n : at[k] \in P
  BY <1>1 DEF Lists
<1>3. \A k \in 1 .. n :
         /\ at[k] = <<at[k][1], at[k][2]>>
         /\ at[k][1] \in 1 .. Len(lists) /\ at[k][2] \in 1 .. Len(lists[at[k][1]])
         /\ at[k][1] \in Int /\ at[k][2] \in Int
  BY <1>2, IsPlace
<1>4. \A i \in 1 .. Len(lists) : \A j \in 1 .. Len(lists[i]) :
         \E k \in 1 .. n : at[k] = <<i, j>>
  BY <1>1, IsPlace DEF Lists
<1>5. ASSUME NEW k \in 1 .. n, NEW l \in 1 .. n, k < l
      PROVE  \/ at[k][1] < at[l][1]
             \/ at[k][1] = at[l][1] /\ at[k][2] < at[l][2]
  BY <1>1, <1>5 DEF Lists, ListByList
<1>6. ASSUME NEW k \in 1 .. n, NEW l \in 1 .. n,
             \/ at[k][1] < at[l][1]
             \/ at[k][1] = at[l][1] /\ at[k][2] < at[l][2]
      PROVE  k < l
  <2>1. k # l
    BY <1>3, <1>6
  <2>2. CASE l < k
    <3>1. \/ at[l][1] < at[k][1]
          \/ at[l][1] = at[k][1] /\ at[l][2] < at[k][2]
      BY <1>5, <2>2
    <3>2. /\ at[k][1] \in Int /\ at[k][2] \in Int
          /\ at[l][1] \in Int /\ at[l][2] \in Int
      BY <1>3
    <3> QED
      BY <1>6, <3>1, <3>2
  <2> QED
    BY <2>1, <2>2
<1> HIDE DEF n
<1> QED
  BY <1>1, <1>3, <1>4, <1>5, <1>6 DEF n

LEMMA AscendsCounts ==
  ASSUME NEW n \in Nat, NEW at \in SUBSET (1 .. n), NEW m \in Nat,
         NEW g, Ascends(g, m, at)
  PROVE  IsFiniteSet(at) /\ Cardinality(at) = m
<1> DEFINE f == [k \in 1 .. m |-> g[k]]
<1>1. /\ Orders(Ascending(at), at)
      /\ \A i, j \in at : <<i, j>> \in Ascending(at) <=> i < j
  BY NumbersAreOrdered
<1>2. \A j, k \in 1 .. m : j < k => <<f[j], f[k]>> \in Ascending(at)
  BY <1>1 DEF Ascends
<1>3. Lists(f, m, Ascending(at), at)
  BY <1>2 DEF Lists, Ascends
<1> HIDE DEF f
<1> QED
  BY <1>1, <1>3, OnlyOrder

(* The place that comes next to another one.                               *)
LEMMA PlaceIsOne ==
  ASSUME NEW lists, AreLists(lists), NEW at, ArePlaces(at, lists),
         NEW k \in 1 .. Len(at), NEW l \in 1 .. Len(at), at[k] = at[l]
  PROVE  k = l
<1>1. k \in Int /\ l \in Int
  BY PlaceOrder
<1>2. ~ (k < l) /\ ~ (l < k)
  <2>1. /\ at[k][1] \in Int /\ at[k][2] \in Int
        /\ ~ (at[k][1] < at[l][1] \/ (at[k][1] = at[l][1] /\ at[k][2] < at[l][2]))
        /\ ~ (at[l][1] < at[k][1] \/ (at[l][1] = at[k][1] /\ at[l][2] < at[k][2]))
    <3>1. at[k][1] \in Int /\ at[k][2] \in Int
      BY PlaceOrder
    <3> QED
      BY <3>1
  <2> QED
    BY <2>1, PlaceOrder
<1> QED
  BY <1>1, <1>2

(* Rows that follow the elements of the lists, and tell of which list each *)
(* is: every run is the rows of one list.                                  *)
NoneIsEmpty(lists) == \A i \in 1 .. Len(lists) : Len(lists[i]) \in Nat \ {0}

Tells(rows, col, at) ==
    \A k, l \in 1 .. Len(at) : rows[k][col] = rows[l][col] <=> at[k][1] = at[l][1]

RunByRun(runs, rows, at, lists) ==
    /\ IsList(runs) /\ Len(runs) = Len(lists)
    /\ \A i \in 1 .. Len(lists) :
          /\ IsList(runs[i]) /\ Len(runs[i]) = Len(lists[i])
          /\ \A j \in 1 .. Len(lists[i]) :
                \E k \in 1 .. Len(at) : at[k] = <<i, j>> /\ runs[i][j] = rows[k]

LEMMA StartsOfPlaces ==
  ASSUME NEW lists, AreLists(lists), NoneIsEmpty(lists), NEW at, ArePlaces(at, lists),
         NEW rows, IsList(rows), Len(rows) = Len(at), NEW col, Tells(rows, col, at)
  PROVE  Starts(rows, col) = {k \in 1 .. Len(at) : at[k][2] = 1}
<1> DEFINE N == Len(at)
<1>0. N \in Nat /\ DOMAIN rows = 1 .. N
  BY ListDomain
<1>1. /\ \A k \in 1 .. N :
            /\ at[k] = <<at[k][1], at[k][2]>>
            /\ at[k][1] \in 1 .. Len(lists) /\ at[k][2] \in 1 .. Len(lists[at[k][1]])
            /\ at[k][1] \in Int /\ at[k][2] \in Int
      /\ \A i \in 1 .. Len(lists) : \A j \in 1 .. Len(lists[i]) :
            \E k \in 1 .. N : at[k] = <<i, j>>
      /\ \A k, l \in 1 .. N :
            k < l <=> \/ at[k][1] < at[l][1]
                      \/ at[k][1] = at[l][1] /\ at[k][2] < at[l][2]
  <2>1. \A k \in 1 .. N :
            /\ at[k] = <<at[k][1], at[k][2]>>
            /\ at[k][1] \in 1 .. Len(lists) /\ at[k][2] \in 1 .. Len(lists[at[k][1]])
            /\ at[k][1] \in Int /\ at[k][2] \in Int
    BY PlaceOrder
  <2>2. \A i \in 1 .. Len(lists) : \A j \in 1 .. Len(lists[i]) :
            \E k \in 1 .. N : at[k] = <<i, j>>
    BY IsPlace DEF ArePlaces, Lists
  <2>3. \A k, l \in 1 .. N :
            k < l <=> \/ at[k][1] < at[l][1]
                      \/ at[k][1] = at[l][1] /\ at[k][2] < at[l][2]
    BY PlaceOrder
  <2> QED
    BY <2>1, <2>2, <2>3
<1>2. \A k \in 1 .. N : k \in Starts(rows, col) <=> (k = 1 \/ rows[k][col] # rows[k - 1][col])
  BY <1>0 DEF Starts
<1>3. \A x \in Starts(rows, col) : x \in 1 .. N
  BY <1>0 DEF Starts
<1> HIDE DEF N
<1>4. ASSUME NEW k \in 1 .. N, at[k][2] = 1 PROVE k \in Starts(rows, col)
  <2>1. CASE k # 1
    <3>1. k - 1 \in 1 .. N /\ k - 1 < k
      BY <1>0, <2>1
    <3>2. at[k - 1][1] < at[k][1] \/ (at[k - 1][1] = at[k][1] /\ at[k - 1][2] < at[k][2])
      BY <1>1, <3>1
    <3>3. /\ at[k - 1][2] \in Int /\ at[k - 1][2] >= 1
          /\ at[k][1] \in Int /\ at[k - 1][1] \in Int
      <4>1. at[k - 1][2] \in 1 .. Len(lists[at[k - 1][1]])
        BY <1>1, <3>1
      <4> QED
        BY <1>1, <3>1, <4>1
    <3>4. at[k - 1][1] # at[k][1]
      BY <1>4, <3>2, <3>3
    <3>5. rows[k][col] # rows[k - 1][col]
      BY <3>1, <3>4 DEF Tells, N
    <3> QED
      BY <1>2, <3>5
  <2>2. CASE k = 1
    BY <1>2, <2>2
  <2> QED
    BY <2>1, <2>2
<1>5. ASSUME NEW k \in 1 .. N, k \in Starts(rows, col) PROVE at[k][2] = 1
  <2> SUFFICES ASSUME at[k][2] # 1 PROVE FALSE
    OBVIOUS
  <2> DEFINE i == at[k][1]
             j == at[k][2]
  <2>1. i \in 1 .. Len(lists) /\ i \in Int
    BY <1>1
  <2>2. j \in 1 .. Len(lists[i]) /\ j \in Int
    BY <1>1
  <2>3. Len(lists[i]) \in Nat
    BY <2>1, ListDomain DEF AreLists
  <2> HIDE DEF i, j
  <2>4. j - 1 \in 1 .. Len(lists[i])
    BY <2>2, <2>3 DEF j
  <2>5. PICK l \in 1 .. N : at[l] = <<i, j - 1>>
    BY <1>1, <2>1, <2>4
  <2>6. l < k
    <3>1. at[l][1] = at[k][1] /\ at[l][2] < at[k][2]
      BY <2>2, <2>5 DEF i, j
    <3> QED
      BY <1>1, <3>1
  <2>7. k - 1 \in 1 .. N /\ k - 1 < k /\ (l < k - 1 \/ l = k - 1) /\ k # 1
    BY <1>0, <2>6
  <2>8. rows[k][col] # rows[k - 1][col]
    BY <1>2, <1>5, <2>7
  <2>9. at[k - 1][1] # i
    BY <2>7, <2>8 DEF Tells, N, i
  <2>10. at[k - 1][1] \in Int /\ at[k - 1][1] <= i
    <3>1. at[k - 1][1] < at[k][1] \/ (at[k - 1][1] = at[k][1] /\ at[k - 1][2] < at[k][2])
      BY <1>1, <2>7
    <3>2. at[k - 1][1] \in Int
      BY <1>1, <2>7
    <3> QED
      BY <2>1, <3>1, <3>2 DEF i
  <2>11. at[l][1] = i
    BY <2>5
  <2>12. at[l][1] <= at[k - 1][1]
    <3>1. CASE l < k - 1
      <4>1. at[l][1] < at[k - 1][1] \/ (at[l][1] = at[k - 1][1] /\ at[l][2] < at[k - 1][2])
        BY <1>1, <2>7, <3>1
      <4> QED
        BY <2>1, <2>10, <2>11, <4>1
    <3>2. CASE l = k - 1
      BY <2>10, <3>2
    <3> QED
      BY <2>7, <3>1, <3>2
  <2> QED
    BY <2>1, <2>9, <2>10, <2>11, <2>12
<1> QED
  BY <1>3, <1>4, <1>5 DEF N

LEMMA RunsOfPlaces ==
  ASSUME NEW lists, AreLists(lists), NoneIsEmpty(lists), NEW at, ArePlaces(at, lists),
         NEW rows, IsList(rows), Len(rows) = Len(at), NEW col, Tells(rows, col, at)
  PROVE  RunByRun(Runs(rows, col), rows, at, lists)
<1> DEFINE N == Len(at)
           n == Len(lists)
           starts == Starts(rows, col)
           pos(i, j) == CHOOSE k \in 1 .. N : at[k] = <<i, j>>
           of(k) == {l \in 1 .. N : at[l][1] = k}
           runs == Runs(rows, col)
<1>0. N \in Nat /\ DOMAIN rows = 1 .. N /\ n \in Nat
  BY ListDomain DEF AreLists
<1>1. /\ \A k \in 1 .. N :
            /\ at[k] = <<at[k][1], at[k][2]>>
            /\ at[k][1] \in 1 .. n /\ at[k][2] \in 1 .. Len(lists[at[k][1]])
            /\ at[k][1] \in Int /\ at[k][2] \in Int
      /\ \A i \in 1 .. n : \A j \in 1 .. Len(lists[i]) :
            \E k \in 1 .. N : at[k] = <<i, j>>
      /\ \A k, l \in 1 .. N :
            k < l <=> \/ at[k][1] < at[l][1]
                      \/ at[k][1] = at[l][1] /\ at[k][2] < at[l][2]
  <2>1. \A k \in 1 .. N :
            /\ at[k] = <<at[k][1], at[k][2]>>
            /\ at[k][1] \in 1 .. n /\ at[k][2] \in 1 .. Len(lists[at[k][1]])
            /\ at[k][1] \in Int /\ at[k][2] \in Int
    BY PlaceOrder
  <2>2. \A i \in 1 .. n : \A j \in 1 .. Len(lists[i]) :
            \E k \in 1 .. N : at[k] = <<i, j>>
    BY IsPlace DEF ArePlaces, Lists
  <2>3. \A k, l \in 1 .. N :
            k < l <=> \/ at[k][1] < at[l][1]
                      \/ at[k][1] = at[l][1] /\ at[k][2] < at[l][2]
    BY PlaceOrder
  <2> QED
    BY <2>1, <2>2, <2>3
<1>2. \A i \in 1 .. n : Len(lists[i]) \in Nat /\ 1 \in 1 .. Len(lists[i])
  BY DEF NoneIsEmpty
<1>3. \A i \in 1 .. n : \A j \in 1 .. Len(lists[i]) :
         pos(i, j) \in 1 .. N /\ at[pos(i, j)] = <<i, j>>
  BY <1>1
<1>4. \A k \in 1 .. N : pos(at[k][1], at[k][2]) = k
  <2>1. ASSUME NEW k \in 1 .. N PROVE pos(at[k][1], at[k][2]) = k
    <3>1. pos(at[k][1], at[k][2]) \in 1 .. N /\ at[pos(at[k][1], at[k][2])] = at[k]
      BY <1>1, <1>3
    <3> HIDE DEF pos
    <3> QED
      BY <3>1, PlaceIsOne DEF N
  <2> QED
    BY <2>1
<1>5. starts = {k \in 1 .. N : at[k][2] = 1}
  BY StartsOfPlaces
<1> HIDE DEF N, n, starts, pos
<1>6. \A i, k \in 1 .. n : i < k => pos(i, 1) < pos(k, 1)
  BY <1>1, <1>2, <1>3
<1>7. \A i \in 1 .. n : \A k \in 1 .. N : pos(i, 1) <= k <=> i <= at[k][1]
  <2>1. ASSUME NEW i \in 1 .. n, NEW k \in 1 .. N PROVE pos(i, 1) <= k <=> i <= at[k][1]
    <3> DEFINE p == pos(i, 1)
    <3>1. p \in 1 .. N /\ at[p] = <<i, 1>>
      BY <1>2, <1>3
    <3> HIDE DEF p
    <3>2. k < p <=> (at[k][1] < i \/ (at[k][1] = i /\ at[k][2] < 1))
      <4>1. at[p][1] = i /\ at[p][2] = 1
        BY <3>1
      <4> QED
        BY <1>1, <3>1, <4>1
    <3>3. at[k][1] \in Int /\ at[k][2] \in Int /\ ~ (at[k][2] < 1)
      <4>1. at[k][2] \in 1 .. Len(lists[at[k][1]]) /\ at[k][1] \in 1 .. n
        BY <1>1
      <4> QED
        BY <1>1, <1>2, <4>1
    <3>4. p \in Int /\ k \in Int /\ i \in Int
      BY <3>1
    <3> QED
      BY <3>2, <3>3, <3>4 DEF p
  <2> QED
    BY <2>1
<1> DEFINE f == [i \in 1 .. n |-> pos(i, 1)]
<1>8. \A i \in 1 .. n : f[i] \in starts /\ f[i] \in 1 .. N
  BY <1>2, <1>3, <1>5
<1>9. \A k \in starts : k \in 1 .. N /\ at[k][1] \in 1 .. n /\ f[at[k][1]] = k
  BY <1>1, <1>4, <1>5
<1>10. \A i, k \in 1 .. n : i < k => f[i] < f[k]
  BY <1>6
<1>11. \A i \in 1 .. n : \A k \in 1 .. N : f[i] <= k <=> i <= at[k][1]
  BY <1>7
<1> HIDE DEF f
<1>12. Cardinality(starts) = n
  <2>1. Ascends(f, n, starts)
    BY <1>8, <1>9, <1>10 DEF Ascends
  <2>2. starts \in SUBSET (1 .. N)
    BY <1>9
  <2> QED
    BY <1>0, <2>1, <2>2, AscendsCounts
<1>13. ASSUME NEW k \in 1 .. N
       PROVE  Cardinality({j \in starts : j <= k}) = at[k][1]
  <2> DEFINE m == at[k][1]
             S == {j \in starts : j <= k}
  <2>1. m \in 1 .. n
    BY <1>1
  <2>2. m \in Nat /\ \A i \in 1 .. m : i \in 1 .. n /\ i <= m
    BY <1>0, <2>1
  <2>3. \A i \in 1 .. m : f[i] \in S
    BY <1>8, <1>11, <2>2
  <2>4. \A j \in S : at[j][1] \in 1 .. m /\ f[at[j][1]] = j
    <3>1. ASSUME NEW j \in S PROVE at[j][1] \in 1 .. m /\ f[at[j][1]] = j
      <4>1. j \in 1 .. N /\ at[j][1] \in 1 .. n /\ f[at[j][1]] = j /\ j <= k
        BY <1>9
      <4>2. at[j][1] <= m
        BY <1>11, <4>1
      <4> QED
        BY <4>1, <4>2, <2>2
    <3> QED
      BY <3>1
  <2>5. \A i, j \in 1 .. m : i < j => f[i] < f[j]
    BY <1>10, <2>2
  <2>6. S \in SUBSET (1 .. N)
    BY <1>9
  <2> HIDE DEF S, m
  <2>7. Ascends(f, m, S)
    BY <2>3, <2>4, <2>5 DEF Ascends
  <2>8. Cardinality(S) = m
    BY <1>0, <2>2, <2>6, <2>7, AscendsCounts
  <2> QED
    BY <2>8 DEF S, m
<1>14. runs = [k \in 1 .. n |-> Having(rows, of(k))]
  <2>1. \A k \in 1 .. n :
           {i \in DOMAIN rows : Cardinality({j \in starts : j <= i}) = k} = of(k)
    BY <1>0, <1>13
  <2> QED
    BY <1>12, <2>1 DEF Runs, starts
<1>15. IsList(runs) /\ Len(runs) = n
  <2>1. runs = [k \in 1 .. n |-> runs[k]]
    BY <1>14
  <2> HIDE DEF runs
  <2> QED
    BY <1>0, <2>1, MadeList
<1>16. ASSUME NEW i \in 1 .. n
       PROVE  /\ IsList(runs[i]) /\ Len(runs[i]) = Len(lists[i])
              /\ \A j \in 1 .. Len(lists[i]) : runs[i][j] = rows[pos(i, j)]
  <2> DEFINE m == Len(lists[i])
             g == [j \in 1 .. m |-> pos(i, j)]
  <2>1. m \in Nat
    BY <1>2
  <2>2. \A j \in 1 .. m : g[j] \in of(i)
    BY <1>3
  <2>3. \A l \in of(i) : at[l][2] \in 1 .. m /\ g[at[l][2]] = l
    BY <1>1, <1>4
  <2>4. \A j, k \in 1 .. m : j < k => g[j] < g[k]
    <3>1. ASSUME NEW j \in 1 .. m, NEW k \in 1 .. m, j < k PROVE g[j] < g[k]
      <4>1. /\ pos(i, j) \in 1 .. N /\ at[pos(i, j)] = <<i, j>>
            /\ pos(i, k) \in 1 .. N /\ at[pos(i, k)] = <<i, k>>
        BY <1>3
      <4>2. pos(i, j) < pos(i, k)
        BY <1>1, <3>1, <4>1
      <4> QED
        BY <4>2
    <3> QED
      BY <3>1
  <2>5. \A j \in 1 .. m : g[j] = pos(i, j)
    OBVIOUS
  <2>6. of(i) \in SUBSET DOMAIN rows
    BY <1>0
  <2>7. runs[i] = Having(rows, of(i))
    BY <1>14
  <2> HIDE DEF g, m, of, runs
  <2>8. Ascends(g, m, of(i))
    BY <2>2, <2>3, <2>4 DEF Ascends
  <2>9. /\ IsList(runs[i]) /\ Len(runs[i]) = m
        /\ \A j \in 1 .. m : runs[i][j] = rows[g[j]]
    BY <2>1, <2>6, <2>7, <2>8, HavingAt
  <2> QED
    BY <2>5, <2>9 DEF m
<1> HIDE DEF runs
<1>17. \A i \in 1 .. n : \A j \in 1 .. Len(lists[i]) :
          \E k \in 1 .. N : at[k] = <<i, j>> /\ runs[i][j] = rows[k]
  BY <1>3, <1>16
<1> QED
  BY <1>15, <1>16, <1>17 DEF RunByRun, runs, n, N

-------------------------------------------------------------------------------
(*                        The members of a set                             *)

(* A list of the members of S, each of them once.                          *)
Enumerates(s, S) ==
    /\ IsList(s) /\ IsFiniteSet(S) /\ Len(s) = Cardinality(S)
    /\ \A k \in 1 .. Len(s) : s[k] \in S
    /\ \A x \in S : \E k \in 1 .. Len(s) : s[k] = x
    /\ \A j, k \in 1 .. Len(s) : s[j] = s[k] => j = k

LEMMA Enumerated ==
  ASSUME NEW s, NEW S, Enumerates(s, S)
  PROVE  /\ Len(s) \in Nat /\ DOMAIN s = 1 .. Len(s)
         /\ RangeOf(s) = S
<1>1. Len(s) \in Nat /\ DOMAIN s = 1 .. Len(s)
  BY ListDomain DEF Enumerates
<1> QED
  BY <1>1 DEF Enumerates, RangeOf

LEMMA AnyOrderEnumerates ==
  ASSUME NEW rows, IsFiniteSet(rows), NEW s \in AnyOrder(rows)
  PROVE  Enumerates(s, rows)
<1> DEFINE n == Cardinality(rows)
<1>1. n \in Nat
  BY FS_CardinalityType
<1>2. PICK p \in [1 .. n -> rows] : RangeOf(p) = rows /\ s = [i \in 1 .. n |-> p[i]]
  BY DEF AnyOrder
<1>3. p \in Surjection(1 .. n, rows)
  BY <1>2 DEF Surjection, RangeOf
<1>4. IsFiniteSet(1 .. n) /\ Cardinality(1 .. n) = n
  BY <1>1, FS_Interval
<1>5. p \in Injection(1 .. n, rows)
  BY <1>3, <1>4, FS_SurjSameCardinalityImpliesInj
<1>6. s = p
  BY <1>2
<1>7. IsList(s) /\ Len(s) = n
  <2>1. s = [i \in 1 .. n |-> s[i]]
    BY <1>2
  <2> HIDE DEF n
  <2> QED
    BY <1>1, <2>1, MadeList
<1> HIDE DEF n
<1>8. \A x \in rows : \E k \in 1 .. n : s[k] = x
  BY <1>3, <1>6 DEF Surjection
<1>9. \A j, k \in 1 .. n : s[j] = s[k] => j = k
  BY <1>5, <1>6 DEF Injection, IsInjective
<1>10. \A k \in 1 .. n : s[k] \in rows
  BY <1>2, <1>6
<1> QED
  BY <1>7, <1>8, <1>9, <1>10 DEF Enumerates, n

LEMMA RankIsOne ==
  ASSUME NEW x, IsName(x)
  PROVE  Rank(x) \in Nat /\ Alphabet[Rank(x)] = x
<1>1. DOMAIN Alphabet = 1 .. Len(Alphabet) /\ Len(Alphabet) \in Nat
  BY AlphabetAssumption, ListDomain
<1>2. \E i \in DOMAIN Alphabet : Alphabet[i] = x
  BY DEF IsName, RangeOf
<1> QED
  BY <1>1, <1>2 DEF Rank

(* What ORDER BY name makes of things with different names.                *)
HaveNames(S) ==
    /\ \A x \in S : IsName(x.name)
    /\ \A x, y \in S : x.name = y.name => x = y

LEMMA SortedEnumerates ==
  ASSUME NEW S, IsFiniteSet(S), HaveNames(S)
  PROVE  Enumerates(Sorted(S), S)
<1> DEFINE R == {p \in S \X S : Rank(p[1].name) < Rank(p[2].name)}
           n == Cardinality(S)
           s == Sorted(S)
<1>1. \A x, y \in S : <<x, y>> \in R <=> Rank(x.name) < Rank(y.name)
  OBVIOUS
<1>2. \A x \in S : Rank(x.name) \in Nat
  BY RankIsOne DEF HaveNames
<1>3. \A x, y \in S : Rank(x.name) = Rank(y.name) => x = y
  BY RankIsOne DEF HaveNames
<1>4. s = InOrder(S, R)
  BY DEF Sorted
<1> HIDE DEF R
<1>5. Orders(R, S)
  BY <1>1, <1>2, <1>3 DEF Orders
<1>6. n \in Nat /\ Lists(s, n, R, S)
  BY <1>4, <1>5, InOrderLists
<1> HIDE DEF s, n
<1>7. IsList(s) /\ Len(s) = n
  <2>1. s = [k \in 1 .. n |-> s[k]]
    BY <1>6 DEF Lists
  <2> QED
    BY <1>6, <2>1, MadeList
<1>8. ASSUME NEW j \in 1 .. n, NEW k \in 1 .. n, s[j] = s[k] PROVE j = k
  <2>1. s[j] \in S /\ <<s[j], s[j]>> \notin R /\ <<s[j], s[k]>> \notin R /\ <<s[k], s[j]>> \notin R
    BY <1>5, <1>6, <1>8 DEF Lists, Orders
  <2>2. ~ (j < k) /\ ~ (k < j)
    BY <1>6, <2>1 DEF Lists
  <2> QED
    BY <2>2
<1> QED
  BY <1>6, <1>7, <1>8 DEF Enumerates, Lists, s, n

(* A list without repetitions is an enumeration of what is in it.          *)
LEMMA ListEnumerates ==
  ASSUME NEW s, IsList(s), \A j, k \in 1 .. Len(s) : s[j] = s[k] => j = k
  PROVE  Enumerates(s, RangeOf(s))
<1> DEFINE n == Len(s)
           S == RangeOf(s)
           f == [i \in 1 .. n |-> s[i]]
<1>1. n \in Nat /\ DOMAIN s = 1 .. n
  BY ListDomain
<1>2. f \in [1 .. n -> S] /\ \A x \in S : \E k \in 1 .. n : f[k] = x
  BY <1>1 DEF RangeOf
<1>3. \A j, k \in 1 .. n : f[j] = f[k] => j = k
  OBVIOUS
<1>4. \A k \in 1 .. n : f[k] = s[k]
  OBVIOUS
<1> HIDE DEF f, S, n
<1>5. f \in Bijection(1 .. n, S)
  BY <1>2, <1>3 DEF Bijection, Injection, IsInjective, Surjection
<1>6. IsFiniteSet(1 .. n) /\ Cardinality(1 .. n) = n
  BY <1>1, FS_Interval
<1>7. IsFiniteSet(S) /\ Cardinality(S) = n
  BY <1>5, <1>6, FS_Bijection DEF ExistsBijection
<1> QED
  BY <1>2, <1>4, <1>7 DEF Enumerates, S, n

-------------------------------------------------------------------------------
(*                     list_relations and its like                         *)

Kinds(base) == {[name |-> u, kind |-> base[u].kind] : u \in DOMAIN base}

TellsRelations(infos, base) == IsList(infos) /\ RangeOf(infos) = Kinds(base)

(* A list that follows another one, and what is made of its elements.      *)
LEMMA RangeFollows ==
  ASSUME NEW s, IsList(s), NEW r, DOMAIN r = DOMAIN s, \A i \in DOMAIN s : r[i] = s[i]
  PROVE  RangeOf(r) = RangeOf(s)
BY DEF RangeOf

LEMMA RelationsListed ==
  ASSUME NEW e, NEW base, IsDatabase(e, base)
  PROVE  /\ IsList(Relations(base)) /\ RangeOf(Relations(base)) = Kinds(base)
         /\ \A i \in DOMAIN Relations(base) :
               /\ Relations(base)[i] = [name |-> Relations(base)[i].name,
                                        kind |-> Relations(base)[i].kind]
               /\ Relations(base)[i].name # None
               /\ Relations(base)[i].kind \in {"table", "view"}
<1>1. \A x \in Kinds(base) :
         /\ x = [name |-> x.name, kind |-> x.kind]
         /\ x.name \in DOMAIN base /\ x.kind = base[x.name].kind
  BY DEF Kinds
<1>2. IsFiniteSet(Kinds(base))
  <2> DEFINE f == [u \in DOMAIN base |-> [name |-> u, kind |-> base[u].kind]]
  <2>1. f \in Surjection(DOMAIN base, Kinds(base))
    BY DEF Surjection, Kinds
  <2>2. IsFiniteSet(DOMAIN base)
    BY DEF IsDatabase
  <2> HIDE DEF f
  <2> QED
    BY <2>1, <2>2, FS_Surjection
<1>3. \A t \in DOMAIN base : IsName(t) /\ base[t].kind \in {"table", "view"}
  BY DEF IsDatabase, IsRelation
<1>4. HaveNames(Kinds(base))
  BY <1>1, <1>3 DEF HaveNames
<1>5. Enumerates(Relations(base), Kinds(base))
  <2>1. Relations(base) = Sorted(Kinds(base))
    BY DEF Relations, Kinds
  <2> QED
    BY <1>2, <1>4, <2>1, SortedEnumerates
<1>6. /\ IsList(Relations(base)) /\ RangeOf(Relations(base)) = Kinds(base)
      /\ \A i \in DOMAIN Relations(base) : Relations(base)[i] \in Kinds(base)
  BY <1>5, Enumerated DEF Enumerates
<1>7. \A x \in RangeOf(Alphabet) : x # None
  BY AlphabetAssumption
<1> QED
  BY <1>1, <1>3, <1>6, <1>7 DEF IsName

LEMMA SqliteRelationsTold ==
  ASSUME NEW base, IsDatabase("sqlite", base),
         NEW rows \in SqliteAnswers(base, Query("relations", None))
  PROVE  TellsRelations(SqliteListRelations(rows), base)
<1> DEFINE all == Relations(base)
           infos == SqliteListRelations(rows)
<1>1. /\ IsList(all) /\ RangeOf(all) = Kinds(base)
      /\ \A i \in DOMAIN all :
            /\ all[i] = [name |-> all[i].name, kind |-> all[i].kind]
            /\ all[i].name # None /\ all[i].kind \in {"table", "view"}
  BY RelationsListed
<1> HIDE DEF all
<1>2. rows = [i \in DOMAIN all |-> [name |-> Text(all[i].name), type |-> Text(all[i].kind)]]
  BY DEF SqliteAnswers, Query, Rows, all
<1>3. DOMAIN rows = DOMAIN all /\ \A i \in DOMAIN all :
         /\ SqliteRowString(rows[i], "name") = all[i].name
         /\ SqliteRowString(rows[i], "type") = all[i].kind
  BY <1>2 DEF SqliteRowString, Text
<1>4. SqliteHas(rows, "name") = rows
  <2>1. IsList(rows)
    BY <1>1, <1>2, ListDomain, MadeList
  <2>2. {i \in DOMAIN rows : SqliteRowString(rows[i], "name") # None} = DOMAIN rows
    BY <1>1, <1>3
  <2> QED
    BY <2>1, <2>2, HavingAll DEF SqliteHas
<1>5. infos = [i \in DOMAIN all |->
                  TableInfo(SqliteRowString(rows[i], "name"),
                            IF SqliteRowString(rows[i], "type") = "view" THEN "view" ELSE "table")]
  BY <1>3, <1>4 DEF SqliteListRelations
<1>6. \A i \in DOMAIN all : infos[i] = all[i]
  BY <1>1, <1>3, <1>5 DEF TableInfo
<1>7. DOMAIN infos = DOMAIN all
  BY <1>5
<1>8. IsList(infos)
  BY <1>1, <1>5, ListDomain, MadeList
<1> HIDE DEF infos
<1> QED
  BY <1>1, <1>6, <1>7, <1>8, RangeFollows DEF TellsRelations, infos

LEMMA PostgresRelationsTold ==
  ASSUME NEW base, IsDatabase("postgres", base), NEW rows,
         rows = PostgresAnswers(base, Query("relations", None))
  PROVE  TellsRelations(PostgresListRelations(rows), base)
<1> DEFINE all == Relations(base)
           infos == PostgresListRelations(rows)
<1>1. /\ IsList(all) /\ RangeOf(all) = Kinds(base)
      /\ \A i \in DOMAIN all :
            /\ all[i] = [name |-> all[i].name, kind |-> all[i].kind]
            /\ all[i].name # None /\ all[i].kind \in {"table", "view"}
  BY RelationsListed
<1> HIDE DEF all
<1>2. rows = [i \in DOMAIN all |->
                 [relation_name |-> Text(all[i].name),
                  relation_kind |-> Text(IF all[i].kind = "view" THEN "v" ELSE "r")]]
  BY DEF PostgresAnswers, Query, Rows, all
<1>3. DOMAIN rows = DOMAIN all /\ \A i \in DOMAIN all :
         /\ PostgresText(rows[i], "relation_name") = all[i].name
         /\ PostgresText(rows[i], "relation_kind") = IF all[i].kind = "view" THEN "v" ELSE "r"
  BY <1>2 DEF PostgresText, Text
<1>4. PostgresHas(rows, "relation_name") = rows
  <2>1. IsList(rows)
    BY <1>1, <1>2, ListDomain, MadeList
  <2>2. {i \in DOMAIN rows : PostgresText(rows[i], "relation_name") # None} = DOMAIN rows
    BY <1>1, <1>3
  <2> QED
    BY <2>1, <2>2, HavingAll DEF PostgresHas
<1>5. infos = [i \in DOMAIN all |->
                  TableInfo(PostgresText(rows[i], "relation_name"),
                            IF PostgresText(rows[i], "relation_kind") \in {"v", "m"}
                            THEN "view" ELSE "table")]
  BY <1>3, <1>4 DEF PostgresListRelations
<1>6. \A i \in DOMAIN all : infos[i] = all[i]
  BY <1>1, <1>3, <1>5 DEF TableInfo
<1>7. DOMAIN infos = DOMAIN all
  BY <1>5
<1>8. IsList(infos)
  BY <1>1, <1>5, ListDomain, MadeList
<1> HIDE DEF infos
<1> QED
  BY <1>1, <1>6, <1>7, <1>8, RangeFollows DEF TellsRelations, infos

LEMMA MySqlRelationsTold ==
  ASSUME NEW base, IsDatabase("mysql", base), NEW rows,
         rows = MySqlAnswers(base, Query("tables", None))
  PROVE  TellsRelations(MySqlListRelations(rows), base)
<1> DEFINE all == Relations(base)
           infos == MySqlListRelations(rows)
<1>1. /\ IsList(all) /\ RangeOf(all) = Kinds(base)
      /\ \A i \in DOMAIN all :
            /\ all[i] = [name |-> all[i].name, kind |-> all[i].kind]
            /\ all[i].name # None /\ all[i].kind \in {"table", "view"}
  BY RelationsListed
<1> HIDE DEF all
<1>2. rows = [i \in DOMAIN all |->
                 [TABLE_NAME |-> Text(all[i].name),
                  TABLE_TYPE |-> Text(IF all[i].kind = "view" THEN "VIEW" ELSE "BASE_TABLE")]]
  BY DEF MySqlAnswers, Query, Rows, all
<1>3. DOMAIN rows = DOMAIN all /\ \A i \in DOMAIN all :
         /\ MySqlRowText(rows[i], "TABLE_NAME") = all[i].name
         /\ MySqlRowText(rows[i], "TABLE_TYPE") =
               IF all[i].kind = "view" THEN "VIEW" ELSE "BASE_TABLE"
  BY <1>2 DEF MySqlRowText, Text
<1>4. MySqlHas(rows, "TABLE_NAME") = rows
  <2>1. IsList(rows)
    BY <1>1, <1>2, ListDomain, MadeList
  <2>2. {i \in DOMAIN rows : MySqlRowText(rows[i], "TABLE_NAME") # None} = DOMAIN rows
    BY <1>1, <1>3
  <2> QED
    BY <2>1, <2>2, HavingAll DEF MySqlHas
<1>5. infos = [i \in DOMAIN all |->
                  TableInfo(MySqlRowText(rows[i], "TABLE_NAME"),
                            MySqlRelationKind(MySqlRowText(rows[i], "TABLE_TYPE")))]
  BY <1>3, <1>4 DEF MySqlListRelations
<1>6. \A i \in DOMAIN all : infos[i] = all[i]
  <2>1. \A i \in DOMAIN all : MySqlRelationKind(MySqlRowText(rows[i], "TABLE_TYPE")) = all[i].kind
    BY <1>1, <1>3 DEF MySqlRelationKind
  <2> QED
    BY <1>1, <1>3, <1>5, <2>1 DEF TableInfo
<1>7. DOMAIN infos = DOMAIN all
  BY <1>5
<1>8. IsList(infos)
  BY <1>1, <1>5, ListDomain, MadeList
<1> HIDE DEF infos
<1> QED
  BY <1>1, <1>6, <1>7, <1>8, RangeFollows DEF TellsRelations, infos

(* list_tables, list_views and has_table pick from them.                   *)
LEMMA KindsPicked ==
  ASSUME NEW base, NEW infos, TellsRelations(infos, base), NEW kind
  PROVE  RangeOf(ListOfKind(infos, kind)) = {u \in DOMAIN base : base[u].kind = kind}
<1> DEFINE at == {i \in DOMAIN infos : infos[i].kind = kind}
           some == Having(infos, at)
           g == InOrder(at, Ascending(at))
           m == Cardinality(at)
<1>1. IsList(infos) /\ at \in SUBSET DOMAIN infos
  BY DEF TellsRelations
<1>2. \A i \in DOMAIN infos : infos[i] \in Kinds(base)
  BY DEF TellsRelations, RangeOf
<1>3. \A x \in Kinds(base) : \E i \in DOMAIN infos : infos[i] = x
  BY DEF TellsRelations, RangeOf
<1>4. \A i \in DOMAIN infos : infos[i].name \in DOMAIN base /\ infos[i].kind = base[infos[i].name].kind
  BY <1>2 DEF Kinds
<1>5. \A u \in DOMAIN base : \E i \in DOMAIN infos : infos[i].name = u /\ infos[i].kind = base[u].kind
  <2>1. ASSUME NEW u \in DOMAIN base
        PROVE  \E i \in DOMAIN infos : infos[i].name = u /\ infos[i].kind = base[u].kind
    <3>1. PICK i \in DOMAIN infos : infos[i] = [name |-> u, kind |-> base[u].kind]
      BY <1>3 DEF Kinds
    <3> QED
      BY <3>1
  <2> QED
    BY <2>1
<1>6. \A i \in at : i \in DOMAIN infos /\ infos[i].kind = kind
  OBVIOUS
<1>7. \A i \in DOMAIN infos : infos[i].kind = kind => i \in at
  OBVIOUS
<1>8. ListOfKind(infos, kind) = [k \in DOMAIN some |-> some[k].name]
  BY DEF ListOfKind, NamesOf
<1> HIDE DEF at
<1>9. /\ IsList(some) /\ Len(some) = m
      /\ \A k \in 1 .. m : g[k] \in at /\ some[k] = infos[g[k]]
      /\ \A i \in at : \E k \in 1 .. m : g[k] = i
  BY <1>1, HavingSome
<1>10. DOMAIN some = 1 .. m
  BY <1>9, ListDomain
<1> HIDE DEF some, g, m
<1>11. \A x \in RangeOf(ListOfKind(infos, kind)) : x \in DOMAIN base /\ base[x].kind = kind
  BY <1>4, <1>6, <1>8, <1>9, <1>10 DEF RangeOf
<1>12. \A u \in DOMAIN base : base[u].kind = kind => u \in RangeOf(ListOfKind(infos, kind))
  <2>1. ASSUME NEW u \in DOMAIN base, base[u].kind = kind
        PROVE  u \in RangeOf(ListOfKind(infos, kind))
    <3>1. PICK i \in DOMAIN infos : infos[i].name = u /\ infos[i].kind = kind
      BY <1>5, <2>1
    <3>2. PICK k \in 1 .. m : g[k] = i
      BY <1>7, <1>9, <3>1
    <3>3. some[k].name = u
      BY <1>9, <3>1, <3>2
    <3> QED
      BY <1>8, <1>10, <3>3 DEF RangeOf
  <2> QED
    BY <2>1
<1> QED
  BY <1>11, <1>12

LEMMA NamesFound ==
  ASSUME NEW base, NEW infos, TellsRelations(infos, base), NEW t
  PROVE  HasTable(infos, t) = (t \in DOMAIN base)
<1>1. ASSUME HasTable(infos, t) PROVE t \in DOMAIN base
  <2>1. PICK i \in DOMAIN infos : infos[i].name = t
    BY <1>1 DEF HasTable
  <2>2. infos[i] \in Kinds(base)
    BY DEF TellsRelations, RangeOf
  <2> QED
    BY <2>1, <2>2 DEF Kinds
<1>2. ASSUME t \in DOMAIN base PROVE HasTable(infos, t)
  <2>1. [name |-> t, kind |-> base[t].kind] \in RangeOf(infos)
    BY <1>2 DEF TellsRelations, Kinds
  <2>2. PICK i \in DOMAIN infos : infos[i] = [name |-> t, kind |-> base[t].kind]
    BY <2>1 DEF RangeOf
  <2> QED
    BY <2>2 DEF HasTable
<1>3. HasTable(infos, t) \in BOOLEAN
  BY DEF HasTable
<1> QED
  BY <1>1, <1>2, <1>3

-------------------------------------------------------------------------------
(*             get_primary_key and get_columns, on the servers             *)

LEMMA NothingHad ==
  ASSUME NEW at, at \subseteq DOMAIN <<>>
  PROVE  Having(<<>>, at) = <<>>
<1>1. IsList(<<>>) /\ DOMAIN <<>> = {}
  BY DEF IsList
<1>2. at = DOMAIN <<>>
  BY <1>1
<1> QED
  BY <1>1, <1>2, HavingAll

LEMMA InTheAlphabet ==
  ASSUME NEW x, IsName(x)
  PROVE  x # None
BY AlphabetAssumption DEF IsName

LEMMA ColumnsAreColumns ==
  ASSUME NEW e, NEW r, IsRelation(e, r)
  PROVE  /\ IsList(r.cols) /\ DOMAIN r.cols = 1 .. Len(r.cols) /\ Len(r.cols) \in Nat
         /\ \A i \in DOMAIN r.cols :
               /\ r.cols[i].name # None /\ r.cols[i].type # None /\ r.cols[i].type # ""
               /\ r.cols[i].notNull \in BOOLEAN /\ r.cols[i].auto \in BOOLEAN
               /\ r.cols[i].auto /\ e = "sqlite" =>
                     r.cols[i].type = "INTEGER" /\ r.key # <<>> /\ r.key[1] = r.cols[i].name
               /\ r.cols[i].auto /\ e = "postgres" => r.cols[i].default = "nextval"
         /\ \A i, j \in DOMAIN r.cols : r.cols[i].name = r.cols[j].name => i = j
<1>1. IsList(r.cols)
  BY DEF IsRelation
<1>2. \A i \in DOMAIN r.cols : IsColumn(e, r, r.cols[i])
  BY DEF IsRelation, RangeOf
<1>3. \A i, j \in DOMAIN r.cols : r.cols[i].name = r.cols[j].name => i = j
  BY DEF IsRelation, Unlike
<1>4. \A i \in DOMAIN r.cols :
         /\ r.cols[i].name # None /\ r.cols[i].type # None /\ r.cols[i].type # ""
         /\ r.cols[i].notNull \in BOOLEAN /\ r.cols[i].auto \in BOOLEAN
         /\ r.cols[i].auto /\ e = "sqlite" =>
               r.cols[i].type = "INTEGER" /\ r.key # <<>> /\ r.key[1] = r.cols[i].name
         /\ r.cols[i].auto /\ e = "postgres" => r.cols[i].default = "nextval"
  BY <1>2 DEF IsColumn
<1> QED
  BY <1>1, <1>3, <1>4, ListDomain

LEMMA KeysOfRelations ==
  ASSUME NEW e, NEW r, IsRelation(e, r)
  PROVE  /\ IsList(r.key) /\ DOMAIN r.key = 1 .. Len(r.key) /\ Len(r.key) \in Nat
         /\ \A i \in DOMAIN r.key :
               r.key[i] # None /\ \E j \in DOMAIN r.cols : r.cols[j].name = r.key[i]
         /\ \A i, j \in DOMAIN r.key : r.key[i] = r.key[j] => i = j
<1>1. IsKey(r)
  BY DEF IsRelation
<1>2. \A i \in DOMAIN r.key : \E j \in DOMAIN r.cols : r.cols[j].name = r.key[i]
  BY <1>1 DEF IsKey, RangeOf, Columns
<1>3. \A j \in DOMAIN r.cols : r.cols[j].name # None
  BY ColumnsAreColumns
<1> QED
  BY <1>1, <1>2, <1>3, ListDomain DEF IsKey

KeyOfTable(base, t) == IF t \in DOMAIN base THEN base[t].key ELSE <<>>

LEMMA PostgresKeyTold ==
  ASSUME NEW base, IsDatabase("postgres", base), NEW t, NEW rows,
         rows = PostgresAnswers(base, Query("key", t))
  PROVE  PostgresGetPrimaryKey(rows) = KeyOfTable(base, t)
<1>1. CASE t \in DOMAIN base
  <2> DEFINE key == base[t].key
  <2>1. /\ IsList(key) /\ DOMAIN key = 1 .. Len(key) /\ Len(key) \in Nat
        /\ \A i \in DOMAIN key : key[i] # None
    BY <1>1, KeysOfRelations DEF IsDatabase
  <2>2. rows = [i \in DOMAIN key |-> [column_name |-> Text(key[i])]]
    BY <1>1 DEF PostgresAnswers, Query, PostgresOfRelation, Rows
  <2> HIDE DEF key
  <2>3. DOMAIN rows = DOMAIN key /\ \A i \in DOMAIN key : PostgresText(rows[i], "column_name") = key[i]
    BY <2>2 DEF PostgresText, Text
  <2>4. PostgresHas(rows, "column_name") = rows
    <3>1. IsList(rows)
      BY <2>1, <2>2, MadeList
    <3>2. {i \in DOMAIN rows : PostgresText(rows[i], "column_name") # None} = DOMAIN rows
      BY <2>1, <2>3
    <3> QED
      BY <3>1, <3>2, HavingAll DEF PostgresHas
  <2>5. PostgresGetPrimaryKey(rows) = [i \in DOMAIN key |-> PostgresText(rows[i], "column_name")]
    BY <2>3, <2>4 DEF PostgresGetPrimaryKey, Cells
  <2>6. PostgresGetPrimaryKey(rows) = [i \in 1 .. Len(key) |-> key[i]]
    BY <2>1, <2>3, <2>5
  <2> QED
    BY <1>1, <2>1, <2>6 DEF KeyOfTable, key, IsList
<1>2. CASE t \notin DOMAIN base
  <2>1. rows = <<>>
    BY <1>2 DEF PostgresAnswers, Query
  <2>2. PostgresHas(rows, "column_name") = <<>>
    BY <2>1, NothingHad DEF PostgresHas
  <2> QED
    BY <1>2, <2>2 DEF PostgresGetPrimaryKey, Cells, KeyOfTable
<1> QED
  BY <1>1, <1>2

LEMMA MySqlKeyTold ==
  ASSUME NEW base, IsDatabase("mysql", base), NEW t, NEW rows,
         rows = MySqlAnswers(base, Query("key", t))
  PROVE  MySqlGetPrimaryKey(rows) = KeyOfTable(base, t)
<1>1. CASE t \in DOMAIN base
  <2> DEFINE key == base[t].key
  <2>1. /\ IsList(key) /\ DOMAIN key = 1 .. Len(key) /\ Len(key) \in Nat
        /\ \A i \in DOMAIN key : key[i] # None
    BY <1>1, KeysOfRelations DEF IsDatabase
  <2>2. rows = [i \in DOMAIN key |-> [COLUMN_NAME |-> Text(key[i])]]
    BY <1>1 DEF MySqlAnswers, Query, MySqlOfRelation, Rows
  <2> HIDE DEF key
  <2>3. DOMAIN rows = DOMAIN key /\ \A i \in DOMAIN key : MySqlRowText(rows[i], "COLUMN_NAME") = key[i]
    BY <2>2 DEF MySqlRowText, Text
  <2>4. MySqlHas(rows, "COLUMN_NAME") = rows
    <3>1. IsList(rows)
      BY <2>1, <2>2, MadeList
    <3>2. {i \in DOMAIN rows : MySqlRowText(rows[i], "COLUMN_NAME") # None} = DOMAIN rows
      BY <2>1, <2>3
    <3> QED
      BY <3>1, <3>2, HavingAll DEF MySqlHas
  <2>5. MySqlGetPrimaryKey(rows) = [i \in DOMAIN key |-> MySqlRowText(rows[i], "COLUMN_NAME")]
    BY <2>3, <2>4 DEF MySqlGetPrimaryKey, Cells
  <2>6. MySqlGetPrimaryKey(rows) = [i \in 1 .. Len(key) |-> key[i]]
    BY <2>1, <2>3, <2>5
  <2> QED
    BY <1>1, <2>1, <2>6 DEF KeyOfTable, key, IsList
<1>2. CASE t \notin DOMAIN base
  <2>1. rows = <<>>
    BY <1>2 DEF MySqlAnswers, Query
  <2>2. MySqlHas(rows, "COLUMN_NAME") = <<>>
    BY <2>1, NothingHad DEF MySqlHas
  <2> QED
    BY <1>2, <2>2 DEF MySqlGetPrimaryKey, Cells, KeyOfTable
<1> QED
  BY <1>1, <1>2

(* What get_columns is to tell of a relation.                              *)
Misread(e, t, r, i) ==
    /\ e = "sqlite" /\ SqliteWords(t, r) \cap Autoincrements # {}
    /\ r.cols[i].type = "INTEGER" /\ r.key # <<>> /\ r.key[1] = r.cols[i].name

TellsColumn(e, info, t, r, i) ==
    /\ info.name = r.cols[i].name
    /\ info.valueType = ValueTypeOf(e, r.cols[i].type)
    /\ info.nullable = ~r.cols[i].notNull
    /\ info.default = r.cols[i].default
    /\ info.pk = (r.cols[i].name \in (IF e = "mysql" THEN MySqlKeyColumns(r) ELSE RangeOf(r.key)))
    /\ info.auto = (\/ r.cols[i].auto \/ Misread(e, t, r, i)
                    \/ e = "postgres" /\ r.cols[i].default = "nextval")
    /\ info.ordinal = i - 1

TellsColumns(e, infos, base, t) ==
    /\ t \notin DOMAIN base => infos = <<>>
    /\ t \in DOMAIN base =>
          /\ DOMAIN infos = DOMAIN base[t].cols
          /\ \A i \in DOMAIN base[t].cols : TellsColumn(e, infos[i], t, base[t], i)

LEMMA PostgresColumnsTold ==
  ASSUME NEW base, IsDatabase("postgres", base), NEW t,
         NEW key, key = PostgresAnswers(base, Query("key", t)),
         NEW rows, rows = PostgresAnswers(base, Query("columns", t))
  PROVE  TellsColumns("postgres", PostgresGetColumns(key, rows), base, t)
<1> DEFINE r == base[t]
           infos == PostgresGetColumns(key, rows)
<1>1. CASE t \in DOMAIN base
  <2>1. IsRelation("postgres", r)
    BY <1>1 DEF IsDatabase
  <2>2. rows = PostgresColumns(r)
    BY <1>1 DEF PostgresAnswers, Query, PostgresOfRelation
  <2>3. PostgresGetPrimaryKey(key) = r.key
    BY <1>1, PostgresKeyTold DEF KeyOfTable
  <2> HIDE DEF r
  <2>4. /\ IsList(r.cols) /\ DOMAIN r.cols = 1 .. Len(r.cols) /\ Len(r.cols) \in Nat
        /\ \A i \in DOMAIN r.cols :
              /\ r.cols[i].name # None /\ r.cols[i].type # None
              /\ r.cols[i].notNull \in BOOLEAN /\ r.cols[i].auto \in BOOLEAN
              /\ r.cols[i].auto => r.cols[i].default = "nextval"
    BY <2>1, ColumnsAreColumns
  <2>5. rows = [i \in DOMAIN r.cols |->
                 [column_name |-> Text(r.cols[i].name), ordinal_position |-> Num(i),
                  data_type |-> Text(r.cols[i].type), type_name |-> Text(r.cols[i].type),
                  is_nullable |-> Text(IF r.cols[i].notNull THEN "NO" ELSE "YES"),
                  column_default |-> TextOrNull(r.cols[i].default), is_identity |-> Text("NO")]]
    BY <2>2 DEF PostgresColumns, Rows
  <2>6. DOMAIN rows = DOMAIN r.cols /\ \A i \in DOMAIN r.cols :
           /\ PostgresText(rows[i], "column_name") = r.cols[i].name
           /\ PostgresText(rows[i], "data_type") = r.cols[i].type
           /\ PostgresInt64(rows[i], "ordinal_position", 0) = i
           /\ PostgresText(rows[i], "is_nullable") = IF r.cols[i].notNull THEN "NO" ELSE "YES"
           /\ PostgresText(rows[i], "column_default") = r.cols[i].default
           /\ PostgresText(rows[i], "is_identity") = "NO"
    BY <2>5 DEF PostgresText, PostgresInt64, Text, TextOrNull, Null, Num
  <2>7. PostgresHas(rows, "column_name") = rows
    <3>1. IsList(rows)
      BY <2>4, <2>5, MadeList
    <3>2. \A i \in DOMAIN rows : PostgresText(rows[i], "column_name") # None
      BY <2>4, <2>6
    <3>3. {i \in DOMAIN rows : PostgresText(rows[i], "column_name") # None} = DOMAIN rows
      BY <3>2
    <3> QED
      BY <3>1, <3>3, HavingAll DEF PostgresHas
  <2>8. DOMAIN infos = DOMAIN r.cols /\ \A i \in DOMAIN r.cols :
           /\ infos[i].name = PostgresText(rows[i], "column_name")
           /\ infos[i].valueType = PostgresValueType(PostgresText(rows[i], "data_type"))
           /\ infos[i].nullable = (PostgresText(rows[i], "is_nullable") = "YES")
           /\ infos[i].default = PostgresText(rows[i], "column_default")
           /\ infos[i].pk = (PostgresText(rows[i], "column_name") \in RangeOf(r.key))
           /\ infos[i].auto = PostgresAutoincrement(rows[i])
           /\ infos[i].ordinal = PostgresInt64(rows[i], "ordinal_position", 0) - 1
    BY <2>3, <2>6, <2>7 DEF PostgresGetColumns, ColumnInfo
  <2> HIDE DEF infos
  <2>9. \A i \in DOMAIN r.cols : TellsColumn("postgres", infos[i], t, r, i)
    <3>1. ASSUME NEW i \in DOMAIN r.cols PROVE TellsColumn("postgres", infos[i], t, r, i)
      <4>1. PostgresAutoincrement(rows[i]) = (r.cols[i].default = "nextval")
        BY <2>6 DEF PostgresAutoincrement
      <4>2. infos[i].auto = (r.cols[i].auto \/ ("postgres" = "postgres" /\ r.cols[i].default = "nextval"))
        BY <2>4, <2>8, <4>1
      <4>3. infos[i].nullable = ~ r.cols[i].notNull
        BY <2>4, <2>6, <2>8
      <4>4. infos[i].valueType = ValueTypeOf("postgres", r.cols[i].type)
        BY <2>6, <2>8 DEF ValueTypeOf
      <4> QED
        <5>1. infos[i].auto = (\/ r.cols[i].auto \/ Misread("postgres", t, r, i)
                               \/ "postgres" = "postgres" /\ r.cols[i].default = "nextval")
          BY <4>2 DEF Misread
        <5> QED
          BY <2>6, <2>8, <4>3, <4>4, <5>1 DEF TellsColumn
    <3> QED
      BY <3>1
  <2> QED
    BY <1>1, <2>8, <2>9 DEF TellsColumns, r, infos
<1>2. CASE t \notin DOMAIN base
  <2>1. rows = <<>>
    BY <1>2 DEF PostgresAnswers, Query
  <2>2. PostgresHas(rows, "column_name") = <<>>
    BY <2>1, NothingHad DEF PostgresHas
  <2> QED
    BY <1>2, <2>2 DEF PostgresGetColumns, TellsColumns
<1> QED
  BY <1>1, <1>2

LEMMA MySqlColumnsTold ==
  ASSUME NEW base, IsDatabase("mysql", base), NEW t,
         NEW rows, rows = MySqlAnswers(base, Query("columns", t))
  PROVE  TellsColumns("mysql", MySqlGetColumns(rows), base, t)
<1> DEFINE r == base[t]
           infos == MySqlGetColumns(rows)
<1>1. CASE t \in DOMAIN base
  <2>1. IsRelation("mysql", r)
    BY <1>1 DEF IsDatabase
  <2>2. rows = MySqlColumns(r)
    BY <1>1 DEF MySqlAnswers, Query, MySqlOfRelation
  <2> HIDE DEF r
  <2>4. /\ IsList(r.cols) /\ DOMAIN r.cols = 1 .. Len(r.cols) /\ Len(r.cols) \in Nat
        /\ \A i \in DOMAIN r.cols :
              /\ r.cols[i].name # None /\ r.cols[i].type # None
              /\ r.cols[i].notNull \in BOOLEAN /\ r.cols[i].auto \in BOOLEAN
    BY <2>1, ColumnsAreColumns
  <2>5. rows = [i \in DOMAIN r.cols |->
        [COLUMN_NAME |-> Text(r.cols[i].name), ORDINAL_POSITION |-> Num(i),
         DATA_TYPE |-> Clob(r.cols[i].type), COLUMN_TYPE |-> Clob(r.cols[i].type),
         IS_NULLABLE |-> Text(IF r.cols[i].notNull THEN "NO" ELSE "YES"),
         COLUMN_DEFAULT |-> ClobOrNull(r.cols[i].default),
         COLUMN_KEY |-> Text(IF r.cols[i].name \in MySqlKeyColumns(r) THEN "PRI" ELSE ""),
         EXTRA |-> Text(IF r.cols[i].auto THEN "auto_increment" ELSE "")]]
    BY <2>2 DEF MySqlColumns, Rows
  <2>6. DOMAIN rows = DOMAIN r.cols
    BY <2>5
  <2>7. ASSUME NEW i \in DOMAIN r.cols
        PROVE  /\ MySqlRowText(rows[i], "COLUMN_NAME") = r.cols[i].name
               /\ MySqlRowText(rows[i], "DATA_TYPE") = r.cols[i].type
               /\ MySqlPosition(rows[i]) = i
               /\ (MySqlRowText(rows[i], "IS_NULLABLE") = "YES") = ~r.cols[i].notNull
               /\ MySqlRowText(rows[i], "COLUMN_DEFAULT") = r.cols[i].default
               /\ (MySqlRowText(rows[i], "COLUMN_KEY") = "PRI") =
                     (r.cols[i].name \in MySqlKeyColumns(r))
               /\ (MySqlRowText(rows[i], "EXTRA") = "auto_increment") = r.cols[i].auto
    <3> DEFINE row == rows[i]
    <3>1. row = [COLUMN_NAME |-> Text(r.cols[i].name), ORDINAL_POSITION |-> Num(i),
         DATA_TYPE |-> Clob(r.cols[i].type), COLUMN_TYPE |-> Clob(r.cols[i].type),
         IS_NULLABLE |-> Text(IF r.cols[i].notNull THEN "NO" ELSE "YES"),
         COLUMN_DEFAULT |-> ClobOrNull(r.cols[i].default),
         COLUMN_KEY |-> Text(IF r.cols[i].name \in MySqlKeyColumns(r) THEN "PRI" ELSE ""),
         EXTRA |-> Text(IF r.cols[i].auto THEN "auto_increment" ELSE "")]
      BY <2>5
    <3> HIDE DEF row
    <3>2. /\ MySqlRowText(row, "COLUMN_NAME") = r.cols[i].name
          /\ MySqlRowText(row, "DATA_TYPE") = r.cols[i].type
      BY <3>1 DEF MySqlRowText, Text, Clob
    <3>3. MySqlPosition(row) = i
      <4>1. MySqlRowInt(row, "ORDINAL_POSITION", 1) = i
        BY <3>1 DEF MySqlRowInt, Num
      <4>2. i \in Int /\ ~ (i < 1)
        BY <2>4
      <4> QED
        BY <4>1, <4>2 DEF MySqlPosition
    <3>4. (MySqlRowText(row, "IS_NULLABLE") = "YES") = ~r.cols[i].notNull
      BY <2>4, <3>1 DEF MySqlRowText, Text
    <3>5. MySqlRowText(row, "COLUMN_DEFAULT") = r.cols[i].default
      BY <3>1 DEF MySqlRowText, ClobOrNull, Null, Clob
    <3>6. (MySqlRowText(row, "COLUMN_KEY") = "PRI") = (r.cols[i].name \in MySqlKeyColumns(r))
      <4>1. MySqlRowText(row, "COLUMN_KEY") =
               IF r.cols[i].name \in MySqlKeyColumns(r) THEN "PRI" ELSE ""
        BY <3>1 DEF MySqlRowText, Text
      <4>2. MySqlRowText(row, "COLUMN_KEY") = "PRI" <=> r.cols[i].name \in MySqlKeyColumns(r)
        BY <4>1
      <4> QED
        BY <4>2
    <3>7. (MySqlRowText(row, "EXTRA") = "auto_increment") = r.cols[i].auto
      BY <2>4, <3>1 DEF MySqlRowText, Text
    <3> QED
      BY <3>2, <3>3, <3>4, <3>5, <3>6, <3>7 DEF row
  <2>10. MySqlHas(rows, "COLUMN_NAME") = rows
    <3>1. IsList(rows)
      BY <2>4, <2>5, MadeList
    <3>2. \A i \in DOMAIN rows : MySqlRowText(rows[i], "COLUMN_NAME") # None
      BY <2>4, <2>6, <2>7
    <3>3. {i \in DOMAIN rows : MySqlRowText(rows[i], "COLUMN_NAME") # None} = DOMAIN rows
      BY <3>2
    <3> QED
      BY <3>1, <3>3, HavingAll DEF MySqlHas
  <2>8. DOMAIN infos = DOMAIN r.cols /\ \A i \in DOMAIN r.cols :
           /\ infos[i].name = MySqlRowText(rows[i], "COLUMN_NAME")
           /\ infos[i].valueType = MySqlValueType(MySqlRowText(rows[i], "DATA_TYPE"))
           /\ infos[i].nullable = (MySqlRowText(rows[i], "IS_NULLABLE") = "YES")
           /\ infos[i].default = MySqlRowText(rows[i], "COLUMN_DEFAULT")
           /\ infos[i].pk = (MySqlRowText(rows[i], "COLUMN_KEY") = "PRI")
           /\ infos[i].auto = (MySqlRowText(rows[i], "EXTRA") = "auto_increment")
           /\ infos[i].ordinal = MySqlPosition(rows[i]) - 1
    BY <2>6, <2>10 DEF MySqlGetColumns, ColumnInfo, MySqlIsAutoincrement
  <2> HIDE DEF infos
  <2>9. \A i \in DOMAIN r.cols : TellsColumn("mysql", infos[i], t, r, i)
    <3>1. ASSUME NEW i \in DOMAIN r.cols PROVE TellsColumn("mysql", infos[i], t, r, i)
      <4>1. infos[i].auto = (r.cols[i].auto \/ ("mysql" = "postgres" /\ r.cols[i].default = "nextval"))
        BY <2>4, <2>7, <2>8
      <4>2. infos[i].valueType = ValueTypeOf("mysql", r.cols[i].type)
        BY <2>7, <2>8 DEF ValueTypeOf
      <4> QED
        BY <2>7, <2>8, <4>1, <4>2 DEF TellsColumn, Misread
    <3> QED
      BY <3>1
  <2> QED
    BY <1>1, <2>8, <2>9 DEF TellsColumns, r, infos
<1>2. CASE t \notin DOMAIN base
  <2>1. rows = <<>>
    BY <1>2 DEF MySqlAnswers, Query
  <2>2. MySqlHas(rows, "COLUMN_NAME") = <<>>
    BY <2>1, NothingHad DEF MySqlHas
  <2> QED
    BY <1>2, <2>2 DEF MySqlGetColumns, TellsColumns
<1> QED
  BY <1>1, <1>2

-------------------------------------------------------------------------------
(*                        estimate_row_count                               *)

TellsCount(result, base, t) ==
    result.ok => /\ t \in DOMAIN base
                 /\ result.value.count = IF result.value.estimate THEN base[t].counted
                                         ELSE base[t].rows

LEMMA SqliteCountTold ==
  ASSUME NEW base, NEW t \in DOMAIN base, NEW rows, rows = Counted("sqlite", base, Query("count", t))
  PROVE  TellsCount(SqliteEstimateRowCount(rows), base, t)
<1>1. rows # <<>> /\ rows[1]["count"] = Num(base[t].rows)
  BY DEF Counted, Query
<1>2. /\ rows[1]["count"].type = "integer"
      /\ rows[1]["count"].v = base[t].rows
  BY <1>1 DEF Num
<1>3. SqliteEstimateRowCount(rows) = Returned(Count(base[t].rows, FALSE))
  BY <1>1, <1>2 DEF SqliteEstimateRowCount
<1> QED
  BY <1>3 DEF TellsCount, Returned, Count

LEMMA PostgresCountTold ==
  ASSUME NEW base, NEW t, IsDatabase("postgres", base), NEW answers,
         answers[1] = PostgresAnswers(base, Query("class", t)),
         PostgresMustCount(answers[1]) =>
             t \in DOMAIN base /\ answers[2] = Counted("postgres", base, Query("count", t))
  PROVE  TellsCount(PostgresEstimateRowCount(answers), base, t)
<1>1. CASE t \in DOMAIN base
  <2>1. answers[1] = <<[row_estimate |-> Num(base[t].counted)]>>
    BY <1>1 DEF PostgresAnswers, Query, PostgresOfRelation
  <2>2. answers[1] # <<>> /\ PostgresEstimate(answers[1]) = base[t].counted
    BY <2>1 DEF PostgresEstimate, PostgresInt64, Num
  <2>3. CASE PostgresMustCount(answers[1])
    <3>1. answers[2] # <<>> /\ answers[2][1]["row_count"] = Num(base[t].rows)
      BY <2>3 DEF Counted, Query
    <3>2. PostgresExactRowCount(answers[2]) = Returned(Count(base[t].rows, FALSE))
      BY <3>1 DEF PostgresExactRowCount, Num
    <3>3. PostgresEstimateRowCount(answers) = PostgresExactRowCount(answers[2])
      BY <2>2, <2>3 DEF PostgresEstimateRowCount
    <3> QED
      BY <1>1, <3>2, <3>3 DEF TellsCount, Returned, Count
  <2>4. CASE ~PostgresMustCount(answers[1])
    <3>1. PostgresEstimateRowCount(answers) = Returned(Count(base[t].counted, TRUE))
      BY <2>2, <2>4 DEF PostgresEstimateRowCount
    <3> QED
      BY <1>1, <3>1 DEF TellsCount, Returned, Count
  <2> QED
    BY <2>3, <2>4
<1>2. CASE t \notin DOMAIN base
  <2>1. answers[1] = <<>>
    BY <1>2 DEF PostgresAnswers, Query
  <2>2. ~PostgresMustCount(answers[1])
    BY <2>1 DEF PostgresMustCount
  <2> QED
    BY <2>1, <2>2 DEF PostgresEstimateRowCount, TellsCount, Failed
<1> QED
  BY <1>1, <1>2

LEMMA MySqlCountTold ==
  ASSUME NEW base, NEW t, IsDatabase("mysql", base), NEW answers,
         answers[1] = MySqlAnswers(base, Query("rows", t)),
         MySqlMustCount(answers[1]) =>
             t \in DOMAIN base /\ answers[2] = Counted("mysql", base, Query("count", t))
  PROVE  TellsCount(MySqlEstimateRowCount(answers), base, t)
<1>1. CASE t \in DOMAIN base
  <2>1. answers[1] = <<[TABLE_ROWS |-> IF base[t].kind = "view" THEN Null
                                       ELSE Num(base[t].counted)]>>
    BY <1>1 DEF MySqlAnswers, Query, MySqlOfRelation
  <2>2. /\ answers[1] # <<>>
        /\ answers[1][1]["TABLE_ROWS"] = IF base[t].kind = "view" THEN Null
                                         ELSE Num(base[t].counted)
    BY <2>1
  <2>3. CASE MySqlMustCount(answers[1])
    <3>1. answers[2] # <<>> /\ answers[2][1]["row_count"] = Num(base[t].rows)
      BY <2>3 DEF Counted, Query
    <3>2. MySqlCountRows(answers[2]) = Returned(Count(base[t].rows, FALSE))
      BY <3>1 DEF MySqlCountRows, MySqlRowInt, Num
    <3>3. MySqlEstimateRowCount(answers) = MySqlCountRows(answers[2])
      BY <2>2, <2>3 DEF MySqlEstimateRowCount
    <3> QED
      BY <1>1, <3>2, <3>3 DEF TellsCount, Returned, Count
  <2>4. CASE ~MySqlMustCount(answers[1])
    <3>1. MySqlRowInt(answers[1][1], "TABLE_ROWS", 0) = base[t].counted
      BY <2>2, <2>4 DEF MySqlMustCount, MySqlRowIsNull, MySqlRowInt, Null, Num
    <3>2. MySqlEstimateRowCount(answers) = Returned(Count(base[t].counted, TRUE))
      BY <2>2, <2>4, <3>1 DEF MySqlEstimateRowCount
    <3> QED
      BY <1>1, <3>2 DEF TellsCount, Returned, Count
  <2> QED
    BY <2>3, <2>4
<1>2. CASE t \notin DOMAIN base
  <2>1. answers[1] = <<>>
    BY <1>2 DEF MySqlAnswers, Query
  <2>2. ~MySqlMustCount(answers[1])
    BY <2>1 DEF MySqlMustCount
  <2> QED
    BY <2>1, <2>2 DEF MySqlEstimateRowCount, TellsCount, Failed
<1> QED
  BY <1>1, <1>2

-------------------------------------------------------------------------------
(*                      get_indexes, on the servers                        *)

(* The columns of the entries of a list, entry after entry.                *)
ColumnLists(seq) == [i \in DOMAIN seq |-> seq[i].cols]

HaveColumns(seq) ==
    /\ IsList(seq)
    /\ \A i \in 1 .. Len(seq) : IsList(seq[i].cols) /\ Len(seq[i].cols) # 0

LEMMA SpreadOut ==
  ASSUME NEW seq, HaveColumns(seq)
  PROVE  /\ AreLists(ColumnLists(seq)) /\ NoneIsEmpty(ColumnLists(seq))
         /\ Len(ColumnLists(seq)) = Len(seq)
         /\ \A i \in 1 .. Len(seq) : ColumnLists(seq)[i] = seq[i].cols
         /\ ArePlaces(Places(ColumnLists(seq)), ColumnLists(seq))
<1> DEFINE lists == ColumnLists(seq)
<1>1. DOMAIN seq = 1 .. Len(seq) /\ Len(seq) \in Nat
  BY ListDomain DEF HaveColumns
<1>2. lists = [i \in 1 .. Len(seq) |-> seq[i].cols]
  BY <1>1 DEF ColumnLists
<1>3. IsList(lists) /\ Len(lists) = Len(seq)
  <2>1. lists = [i \in 1 .. Len(seq) |-> lists[i]]
    BY <1>2
  <2> HIDE DEF lists
  <2> QED
    BY <1>1, <2>1, MadeList
<1>4. \A i \in 1 .. Len(seq) : lists[i] = seq[i].cols
  BY <1>2
<1> HIDE DEF lists
<1>5. AreLists(lists)
  BY <1>3, <1>4 DEF AreLists, HaveColumns
<1>6. NoneIsEmpty(lists)
  <2>1. \A i \in 1 .. Len(seq) : Len(seq[i].cols) \in Nat /\ Len(seq[i].cols) # 0
    BY ListDomain DEF HaveColumns
  <2> QED
    BY <1>3, <1>4, <2>1 DEF NoneIsEmpty
<1>7. ArePlaces(Places(lists), lists)
  BY <1>5, PlacesListed
<1> QED
  BY <1>3, <1>4, <1>5, <1>6, <1>7 DEF lists

LEMMA IndexesAreIndexes ==
  ASSUME NEW e, NEW r, IsRelation(e, r)
  PROVE  /\ Enumerates(Sorted(r.indexes), r.indexes)
         /\ HaveColumns(Sorted(r.indexes))
         /\ \A ix \in r.indexes :
               /\ IsName(ix.name) /\ ix.name # None /\ ix.unique \in BOOLEAN
               /\ IsList(ix.cols) /\ Len(ix.cols) # 0
               /\ \A j \in 1 .. Len(ix.cols) : ix.cols[j] # None
         /\ \A ix, iy \in r.indexes : ix.name = iy.name => ix = iy
<1> DEFINE S == r.indexes
<1>1. /\ IsFiniteSet(S) /\ \A ix \in S : IsIndex(ix)
      /\ \A ix, iy \in S : ix.name = iy.name => ix = iy
  BY DEF IsRelation
<1> HIDE DEF S
<1>2. ASSUME NEW ix \in S
      PROVE  /\ IsName(ix.name) /\ ix.name # None /\ ix.unique \in BOOLEAN
             /\ IsList(ix.cols) /\ Len(ix.cols) # 0
             /\ \A j \in 1 .. Len(ix.cols) : ix.cols[j] # None
  <2>1. IsIndex(ix)
    BY <1>1
  <2>2. IsName(ix.name) /\ ix.name # None /\ ix.unique \in BOOLEAN
    BY <2>1, InTheAlphabet DEF IsIndex
  <2>3. IsList(ix.cols) /\ ix.cols # <<>> /\ DOMAIN ix.cols = 1 .. Len(ix.cols)
    BY <2>1, ListDomain DEF IsIndex
  <2>4. Len(ix.cols) # 0
    <3>1. IsList(<<>>) /\ Len(<<>>) = 0
      BY DEF IsList
    <3> QED
      BY <2>3, <3>1, SameLists
  <2>5. \A j \in 1 .. Len(ix.cols) : ix.cols[j] # None
    BY <2>1, <2>3 DEF IsIndex, RangeOf
  <2> QED
    BY <2>2, <2>3, <2>4, <2>5
<1>3. HaveNames(S)
  BY <1>1, <1>2 DEF HaveNames
<1>4. Enumerates(Sorted(S), S)
  BY <1>1, <1>3, SortedEnumerates
<1>5. HaveColumns(Sorted(S))
  BY <1>2, <1>4 DEF Enumerates, HaveColumns
<1> QED
  BY <1>1, <1>2, <1>4, <1>5 DEF S

TellsIndexes(infos, base, t) ==
    /\ t \notin DOMAIN base => infos = <<>>
    /\ t \in DOMAIN base =>
          /\ IsList(infos) /\ Len(infos) = Cardinality(base[t].indexes)
          /\ RangeOf(infos) = {IndexInfo(ix.name, ix.unique, ix.cols) : ix \in base[t].indexes}

LEMMA IndexesTold ==
  ASSUME NEW base, NEW t \in DOMAIN base, NEW sorted, Enumerates(sorted, base[t].indexes),
         NEW infos, infos = [i \in 1 .. Len(sorted) |-> infos[i]],
         \A i \in 1 .. Len(sorted) :
             infos[i] = IndexInfo(sorted[i].name, sorted[i].unique, sorted[i].cols)
  PROVE  TellsIndexes(infos, base, t)
<1> DEFINE S == base[t].indexes
           T == {IndexInfo(ix.name, ix.unique, ix.cols) : ix \in S}
<1>1. Len(sorted) \in Nat /\ Len(sorted) = Cardinality(S)
  BY Enumerated DEF Enumerates
<1>2. IsList(infos) /\ Len(infos) = Len(sorted) /\ DOMAIN infos = 1 .. Len(sorted)
  BY <1>1, MadeList
<1>3. /\ \A k \in 1 .. Len(sorted) : sorted[k] \in S
      /\ \A x \in S : \E k \in 1 .. Len(sorted) : sorted[k] = x
  BY DEF Enumerates
<1> HIDE DEF S
<1>4. \A x \in RangeOf(infos) : x \in T
  BY <1>2, <1>3 DEF RangeOf
<1>5. \A x \in T : x \in RangeOf(infos)
  BY <1>2, <1>3 DEF RangeOf
<1>6. RangeOf(infos) = T
  BY <1>4, <1>5
<1> QED
  BY <1>1, <1>2, <1>6 DEF TellsIndexes, S

LEMMA MadeOfNothing ==
  ASSUME NEW f, f = [i \in DOMAIN <<>> |-> f[i]]
  PROVE  f = <<>>
<1>1. DOMAIN <<>> = 1 .. 0
  OBVIOUS
<1>2. f = [i \in 1 .. 0 |-> f[i]]
  BY <1>1
<1>3. IsList(f) /\ Len(f) = 0 /\ IsList(<<>>) /\ Len(<<>>) = 0
  BY <1>2, MadeList DEF IsList
<1> QED
  BY <1>3, SameLists

LEMMA NoRuns ==
  ASSUME NEW col
  PROVE  Runs(<<>>, col) = <<>>
<1>1. Starts(<<>>, col) = {}
  BY DEF Starts
<1>2. Cardinality(Starts(<<>>, col)) = 0
  BY <1>1, FS_EmptySet
<1> QED
  BY <1>2 DEF Runs

(* The row of a column of an index.                                        *)
PostgresIndexRow(row, ix, j) ==
    /\ row["index_name"] = Text(ix.name) /\ row["index_oid"] = Num(Rank(ix.name))
    /\ row["is_unique"] = Bool(ix.unique) /\ row["column_name"] = Text(ix.cols[j])

LEMMA ReadPostgresIndex ==
  ASSUME NEW row, NEW ix, NEW j, PostgresIndexRow(row, ix, j), ix.unique \in BOOLEAN
  PROVE  /\ PostgresText(row, "index_name") = ix.name
         /\ PostgresBool(row, "is_unique") = ix.unique
         /\ PostgresText(row, "column_name") = ix.cols[j]
         /\ row["index_oid"] = Num(Rank(ix.name))
BY DEF PostgresIndexRow, PostgresText, PostgresBool, Text, Bool

LEMMA PostgresIndexesTold ==
  ASSUME NEW base, IsDatabase("postgres", base), NEW t,
         NEW rows, rows = PostgresAnswers(base, Query("indexes", t))
  PROVE  TellsIndexes(PostgresGetIndexes(rows), base, t)
<1> DEFINE r == base[t]
           infos == PostgresGetIndexes(rows)
<1>1. CASE t \in DOMAIN base
  <2> DEFINE sorted == Sorted(r.indexes)
             lists == ColumnLists(sorted)
             at == Places(lists)
             runs == Runs(rows, "index_oid")
             row(i, j) ==
                [index_name |-> Text(sorted[i].name), index_oid |-> Num(Rank(sorted[i].name)),
                 is_unique |-> Bool(sorted[i].unique), column_name |-> Text(sorted[i].cols[j])]
  <2>1. IsRelation("postgres", r)
    BY <1>1 DEF IsDatabase
  <2>2. rows = PostgresIndexes(r)
    BY <1>1 DEF PostgresAnswers, Query, PostgresOfRelation
  <2>3. rows = [k \in DOMAIN at |-> row(at[k][1], at[k][2])]
    BY <2>2 DEF PostgresIndexes, Spread, ColumnLists
  <2>4. /\ Enumerates(sorted, r.indexes) /\ HaveColumns(sorted)
        /\ \A ix \in r.indexes :
              /\ IsName(ix.name) /\ ix.name # None /\ ix.unique \in BOOLEAN
              /\ IsList(ix.cols) /\ Len(ix.cols) # 0
              /\ \A j \in 1 .. Len(ix.cols) : ix.cols[j] # None
        /\ \A ix, iy \in r.indexes : ix.name = iy.name => ix = iy
    BY <2>1, IndexesAreIndexes
  <2> HIDE DEF sorted
  <2>5. ASSUME NEW i \in 1 .. Len(sorted)
        PROVE  /\ IsName(sorted[i].name) /\ sorted[i].name # None /\ sorted[i].unique \in BOOLEAN
               /\ IsList(sorted[i].cols) /\ 1 \in 1 .. Len(sorted[i].cols)
               /\ \A j \in 1 .. Len(sorted[i].cols) : sorted[i].cols[j] # None
    <3>1. sorted[i] \in r.indexes
      BY <2>4 DEF Enumerates
    <3>2. IsList(sorted[i].cols) /\ Len(sorted[i].cols) # 0
      BY <2>4, <3>1
    <3>3. 1 \in 1 .. Len(sorted[i].cols)
      BY <3>2, ListDomain
    <3> QED
      BY <2>4, <3>1, <3>2, <3>3
  <2>6. \A i, j \in 1 .. Len(sorted) : sorted[i].name = sorted[j].name => i = j
    BY <2>4 DEF Enumerates
  <2>7. /\ AreLists(lists) /\ NoneIsEmpty(lists) /\ Len(lists) = Len(sorted)
        /\ \A i \in 1 .. Len(sorted) : lists[i] = sorted[i].cols
        /\ ArePlaces(at, lists)
    BY <2>4, SpreadOut
  <2> HIDE DEF lists, at
  <2>8. DOMAIN at = 1 .. Len(at) /\ Len(at) \in Nat
    BY <2>7, ListDomain DEF ArePlaces
  <2>9. IsList(rows) /\ Len(rows) = Len(at) /\ DOMAIN rows = 1 .. Len(at)
    BY <2>3, <2>8, MadeList
  <2>10. ASSUME NEW k \in 1 .. Len(at)
         PROVE  /\ at[k][1] \in 1 .. Len(sorted)
                /\ PostgresIndexRow(rows[k], sorted[at[k][1]], at[k][2])
    <3>1. rows[k] = row(at[k][1], at[k][2])
      BY <2>3, <2>8
    <3>2. at[k][1] \in 1 .. Len(sorted)
      BY <2>7, PlaceOrder
    <3> QED
      BY <3>1, <3>2 DEF PostgresIndexRow
  <2> HIDE DEF row
  <2>11. PostgresHas(rows, "index_name") = rows
    <3>1. \A k \in DOMAIN rows : PostgresText(rows[k], "index_name") # None
      <4>1. ASSUME NEW k \in 1 .. Len(at) PROVE PostgresText(rows[k], "index_name") # None
        BY <2>5, <2>10, ReadPostgresIndex
      <4> QED
        BY <2>9, <4>1
    <3>2. {k \in DOMAIN rows : PostgresText(rows[k], "index_name") # None} = DOMAIN rows
      BY <3>1
    <3> QED
      BY <2>9, <3>2, HavingAll DEF PostgresHas
  <2>12. Tells(rows, "index_oid", at)
    <3>1. ASSUME NEW i \in 1 .. Len(sorted), NEW j \in 1 .. Len(sorted),
                 Num(Rank(sorted[i].name)) = Num(Rank(sorted[j].name))
          PROVE  i = j
      <4>1. Rank(sorted[i].name) = Rank(sorted[j].name)
        BY <3>1 DEF Num
      <4>2. sorted[i].name = sorted[j].name
        BY <2>5, <4>1, RankIsOne
      <4> QED
        BY <2>6, <4>2
    <3>2. ASSUME NEW k \in 1 .. Len(at)
          PROVE  rows[k]["index_oid"] = Num(Rank(sorted[at[k][1]].name))
      BY <2>10 DEF PostgresIndexRow
    <3>3. ASSUME NEW k \in 1 .. Len(at), NEW l \in 1 .. Len(at)
          PROVE  rows[k]["index_oid"] = rows[l]["index_oid"] <=> at[k][1] = at[l][1]
      <4>1. at[k][1] \in 1 .. Len(sorted) /\ at[l][1] \in 1 .. Len(sorted)
        BY <2>10
      <4> QED
        BY <3>1, <3>2, <4>1
    <3> QED
      BY <3>3 DEF Tells
  <2>13. RunByRun(runs, rows, at, lists)
    BY <2>7, <2>9, <2>12, RunsOfPlaces
  <2>14. infos = [i \in DOMAIN runs |->
            IndexInfo(PostgresText(runs[i][1], "index_name"),
                      PostgresBool(runs[i][1], "is_unique"),
                      Cells(PostgresHas(runs[i], "column_name"), PostgresText, "column_name"))]
    BY <2>11 DEF PostgresGetIndexes
  <2> HIDE DEF runs, infos
  <2>15. DOMAIN runs = 1 .. Len(sorted)
    BY <2>7, <2>13, ListDomain DEF RunByRun
  <2>16. ASSUME NEW i \in 1 .. Len(sorted)
         PROVE  infos[i] = IndexInfo(sorted[i].name, sorted[i].unique, sorted[i].cols)
    <3> DEFINE run == runs[i]
               cols == sorted[i].cols
    <3>1. IsList(run) /\ Len(run) = Len(cols) /\ DOMAIN run = 1 .. Len(cols)
      BY <2>7, <2>13, ListDomain DEF RunByRun
    <3>2. ASSUME NEW j \in 1 .. Len(cols) PROVE PostgresIndexRow(run[j], sorted[i], j)
      <4>1. \A l \in 1 .. Len(lists[i]) :
               \E k \in 1 .. Len(at) : at[k] = <<i, l>> /\ run[l] = rows[k]
        BY <2>7, <2>13 DEF RunByRun
      <4>2. PICK k \in 1 .. Len(at) : at[k] = <<i, j>> /\ run[j] = rows[k]
        BY <2>7, <4>1
      <4>3. at[k][1] = i /\ at[k][2] = j
        BY <4>2
      <4> QED
        BY <2>10, <4>2, <4>3
    <3>3. ASSUME NEW j \in 1 .. Len(cols)
          PROVE  PostgresText(run[j], "column_name") = cols[j]
      BY <2>5, <3>2, ReadPostgresIndex
    <3>4. /\ PostgresText(run[1], "index_name") = sorted[i].name
          /\ PostgresBool(run[1], "is_unique") = sorted[i].unique
      BY <2>5, <3>2, ReadPostgresIndex
    <3>5. IsList(cols) /\ \A j \in 1 .. Len(cols) : cols[j] # None
      BY <2>5
    <3>6. infos[i] = IndexInfo(PostgresText(run[1], "index_name"), PostgresBool(run[1], "is_unique"),
                               Cells(PostgresHas(run, "column_name"), PostgresText, "column_name"))
      BY <2>14, <2>15
    <3> HIDE DEF run, cols
    <3>7. PostgresHas(run, "column_name") = run
      <4>1. {j \in DOMAIN run : PostgresText(run[j], "column_name") # None} = DOMAIN run
        BY <3>1, <3>3, <3>5
      <4> QED
        BY <3>1, <4>1, HavingAll DEF PostgresHas
    <3>8. Cells(run, PostgresText, "column_name") = [j \in 1 .. Len(cols) |-> cols[j]]
      BY <3>1, <3>3 DEF Cells
    <3> QED
      BY <3>4, <3>5, <3>6, <3>7, <3>8 DEF IsList, cols
  <2>17. infos = [i \in 1 .. Len(sorted) |-> infos[i]]
    BY <2>14, <2>15
  <2> QED
    BY <1>1, <2>4, <2>16, <2>17, IndexesTold DEF infos
<1>2. CASE t \notin DOMAIN base
  <2>1. rows = <<>>
    BY <1>2 DEF PostgresAnswers, Query
  <2>2. PostgresHas(rows, "index_name") = <<>>
    BY <2>1, NothingHad DEF PostgresHas
  <2>3. infos = <<>>
    <3>1. Runs(PostgresHas(rows, "index_name"), "index_oid") = <<>>
      BY <2>2, NoRuns
    <3>2. infos = [i \in DOMAIN <<>> |-> infos[i]]
      BY <3>1 DEF PostgresGetIndexes
    <3> HIDE DEF infos
    <3> QED
      BY <3>2, MadeOfNothing
  <2> QED
    BY <1>2, <2>3 DEF TellsIndexes
<1> QED
  BY <1>1, <1>2

MySqlIndexRow(row, ix, j) ==
    /\ row["INDEX_NAME"] = Text(ix.name)
    /\ row["NON_UNIQUE"] = Flag(~ix.unique) /\ row["COLUMN_NAME"] = Text(ix.cols[j])

LEMMA ReadMySqlIndex ==
  ASSUME NEW row, NEW ix, NEW j, MySqlIndexRow(row, ix, j), ix.unique \in BOOLEAN
  PROVE  /\ MySqlRowText(row, "INDEX_NAME") = ix.name
         /\ (MySqlRowInt(row, "NON_UNIQUE", 1) = 0) = ix.unique
         /\ MySqlRowText(row, "COLUMN_NAME") = ix.cols[j]
BY DEF MySqlIndexRow, MySqlRowText, MySqlRowInt, Text, Flag, Num

LEMMA MySqlIndexesTold ==
  ASSUME NEW base, IsDatabase("mysql", base), NEW t,
         NEW rows, rows = MySqlAnswers(base, Query("statistics", t))
  PROVE  TellsIndexes(MySqlGetIndexes(rows), base, t)
<1> DEFINE r == base[t]
           infos == MySqlGetIndexes(rows)
<1>1. CASE t \in DOMAIN base
  <2> DEFINE sorted == Sorted(r.indexes)
             lists == ColumnLists(sorted)
             at == Places(lists)
             runs == Runs(rows, "INDEX_NAME")
             row(i, j) ==
                [INDEX_NAME |-> Text(sorted[i].name), NON_UNIQUE |-> Flag(~sorted[i].unique),
                 COLUMN_NAME |-> Text(sorted[i].cols[j])]
  <2>1. IsRelation("mysql", r)
    BY <1>1 DEF IsDatabase
  <2>2. rows = MySqlStatistics(r)
    BY <1>1 DEF MySqlAnswers, Query, MySqlOfRelation
  <2>3. rows = [k \in DOMAIN at |-> row(at[k][1], at[k][2])]
    BY <2>2 DEF MySqlStatistics, Spread, ColumnLists
  <2>4. /\ Enumerates(sorted, r.indexes) /\ HaveColumns(sorted)
        /\ \A ix \in r.indexes :
              /\ IsName(ix.name) /\ ix.name # None /\ ix.unique \in BOOLEAN
              /\ IsList(ix.cols) /\ Len(ix.cols) # 0
              /\ \A j \in 1 .. Len(ix.cols) : ix.cols[j] # None
        /\ \A ix, iy \in r.indexes : ix.name = iy.name => ix = iy
    BY <2>1, IndexesAreIndexes
  <2> HIDE DEF sorted
  <2>5. ASSUME NEW i \in 1 .. Len(sorted)
        PROVE  /\ IsName(sorted[i].name) /\ sorted[i].name # None /\ sorted[i].unique \in BOOLEAN
               /\ IsList(sorted[i].cols) /\ 1 \in 1 .. Len(sorted[i].cols)
               /\ \A j \in 1 .. Len(sorted[i].cols) : sorted[i].cols[j] # None
    <3>1. sorted[i] \in r.indexes
      BY <2>4 DEF Enumerates
    <3>2. IsList(sorted[i].cols) /\ Len(sorted[i].cols) # 0
      BY <2>4, <3>1
    <3>3. 1 \in 1 .. Len(sorted[i].cols)
      BY <3>2, ListDomain
    <3> QED
      BY <2>4, <3>1, <3>2, <3>3
  <2>6. \A i, j \in 1 .. Len(sorted) : sorted[i].name = sorted[j].name => i = j
    BY <2>4 DEF Enumerates
  <2>7. /\ AreLists(lists) /\ NoneIsEmpty(lists) /\ Len(lists) = Len(sorted)
        /\ \A i \in 1 .. Len(sorted) : lists[i] = sorted[i].cols
        /\ ArePlaces(at, lists)
    BY <2>4, SpreadOut
  <2> HIDE DEF lists, at
  <2>8. DOMAIN at = 1 .. Len(at) /\ Len(at) \in Nat
    BY <2>7, ListDomain DEF ArePlaces
  <2>9. IsList(rows) /\ Len(rows) = Len(at) /\ DOMAIN rows = 1 .. Len(at)
    BY <2>3, <2>8, MadeList
  <2>10. ASSUME NEW k \in 1 .. Len(at)
         PROVE  /\ at[k][1] \in 1 .. Len(sorted)
                /\ MySqlIndexRow(rows[k], sorted[at[k][1]], at[k][2])
    <3>1. rows[k] = row(at[k][1], at[k][2])
      BY <2>3, <2>8
    <3>2. at[k][1] \in 1 .. Len(sorted)
      BY <2>7, PlaceOrder
    <3> QED
      BY <3>1, <3>2 DEF MySqlIndexRow
  <2> HIDE DEF row
  <2>11. MySqlHas(rows, "INDEX_NAME") = rows
    <3>1. \A k \in DOMAIN rows : MySqlRowText(rows[k], "INDEX_NAME") # None
      <4>1. ASSUME NEW k \in 1 .. Len(at) PROVE MySqlRowText(rows[k], "INDEX_NAME") # None
        BY <2>5, <2>10, ReadMySqlIndex
      <4> QED
        BY <2>9, <4>1
    <3>2. {k \in DOMAIN rows : MySqlRowText(rows[k], "INDEX_NAME") # None} = DOMAIN rows
      BY <3>1
    <3> QED
      BY <2>9, <3>2, HavingAll DEF MySqlHas
  <2>12. Tells(rows, "INDEX_NAME", at)
    <3>1. ASSUME NEW i \in 1 .. Len(sorted), NEW j \in 1 .. Len(sorted),
                 Text(sorted[i].name) = Text(sorted[j].name)
          PROVE  i = j
      <4>1. sorted[i].name = sorted[j].name
        BY <3>1 DEF Text
      <4> QED
        BY <2>6, <4>1
    <3>2. ASSUME NEW k \in 1 .. Len(at)
          PROVE  rows[k]["INDEX_NAME"] = Text(sorted[at[k][1]].name)
      BY <2>10 DEF MySqlIndexRow
    <3>3. ASSUME NEW k \in 1 .. Len(at), NEW l \in 1 .. Len(at)
          PROVE  rows[k]["INDEX_NAME"] = rows[l]["INDEX_NAME"] <=> at[k][1] = at[l][1]
      <4>1. at[k][1] \in 1 .. Len(sorted) /\ at[l][1] \in 1 .. Len(sorted)
        BY <2>10
      <4> QED
        BY <3>1, <3>2, <4>1
    <3> QED
      BY <3>3 DEF Tells
  <2>13. RunByRun(runs, rows, at, lists)
    BY <2>7, <2>9, <2>12, RunsOfPlaces
  <2>14. infos = [i \in DOMAIN runs |->
            IndexInfo(MySqlRowText(runs[i][1], "INDEX_NAME"),
                      MySqlRowInt(runs[i][1], "NON_UNIQUE", 1) = 0,
                      Cells(MySqlHas(runs[i], "COLUMN_NAME"), MySqlRowText, "COLUMN_NAME"))]
    BY <2>11 DEF MySqlGetIndexes
  <2> HIDE DEF runs, infos
  <2>15. DOMAIN runs = 1 .. Len(sorted)
    BY <2>7, <2>13, ListDomain DEF RunByRun
  <2>16. ASSUME NEW i \in 1 .. Len(sorted)
         PROVE  infos[i] = IndexInfo(sorted[i].name, sorted[i].unique, sorted[i].cols)
    <3> DEFINE run == runs[i]
               cols == sorted[i].cols
    <3>1. IsList(run) /\ Len(run) = Len(cols) /\ DOMAIN run = 1 .. Len(cols)
      BY <2>7, <2>13, ListDomain DEF RunByRun
    <3>2. ASSUME NEW j \in 1 .. Len(cols) PROVE MySqlIndexRow(run[j], sorted[i], j)
      <4>1. \A l \in 1 .. Len(lists[i]) :
               \E k \in 1 .. Len(at) : at[k] = <<i, l>> /\ run[l] = rows[k]
        BY <2>7, <2>13 DEF RunByRun
      <4>2. PICK k \in 1 .. Len(at) : at[k] = <<i, j>> /\ run[j] = rows[k]
        BY <2>7, <4>1
      <4>3. at[k][1] = i /\ at[k][2] = j
        BY <4>2
      <4> QED
        BY <2>10, <4>2, <4>3
    <3>3. ASSUME NEW j \in 1 .. Len(cols)
          PROVE  MySqlRowText(run[j], "COLUMN_NAME") = cols[j]
      BY <2>5, <3>2, ReadMySqlIndex
    <3>4. /\ MySqlRowText(run[1], "INDEX_NAME") = sorted[i].name
          /\ (MySqlRowInt(run[1], "NON_UNIQUE", 1) = 0) = sorted[i].unique
      BY <2>5, <3>2, ReadMySqlIndex
    <3>5. IsList(cols) /\ \A j \in 1 .. Len(cols) : cols[j] # None
      BY <2>5
    <3>6. infos[i] = IndexInfo(MySqlRowText(run[1], "INDEX_NAME"), MySqlRowInt(run[1], "NON_UNIQUE", 1) = 0,
                               Cells(MySqlHas(run, "COLUMN_NAME"), MySqlRowText, "COLUMN_NAME"))
      BY <2>14, <2>15
    <3> HIDE DEF run, cols
    <3>7. MySqlHas(run, "COLUMN_NAME") = run
      <4>1. {j \in DOMAIN run : MySqlRowText(run[j], "COLUMN_NAME") # None} = DOMAIN run
        BY <3>1, <3>3, <3>5
      <4> QED
        BY <3>1, <4>1, HavingAll DEF MySqlHas
    <3>8. Cells(run, MySqlRowText, "COLUMN_NAME") = [j \in 1 .. Len(cols) |-> cols[j]]
      BY <3>1, <3>3 DEF Cells
    <3> QED
      BY <3>4, <3>5, <3>6, <3>7, <3>8 DEF IsList, cols
  <2>17. infos = [i \in 1 .. Len(sorted) |-> infos[i]]
    BY <2>14, <2>15
  <2> QED
    BY <1>1, <2>4, <2>16, <2>17, IndexesTold DEF infos
<1>2. CASE t \notin DOMAIN base
  <2>1. rows = <<>>
    BY <1>2 DEF MySqlAnswers, Query
  <2>2. MySqlHas(rows, "INDEX_NAME") = <<>>
    BY <2>1, NothingHad DEF MySqlHas
  <2>3. infos = <<>>
    <3>1. Runs(MySqlHas(rows, "INDEX_NAME"), "INDEX_NAME") = <<>>
      BY <2>2, NoRuns
    <3>2. infos = [i \in DOMAIN <<>> |-> infos[i]]
      BY <3>1 DEF MySqlGetIndexes
    <3> HIDE DEF infos
    <3> QED
      BY <3>2, MadeOfNothing
  <2> QED
    BY <1>2, <2>3 DEF TellsIndexes
<1> QED
  BY <1>1, <1>2

-------------------------------------------------------------------------------
(*                   get_foreign_keys, on the servers                      *)

TrueKey(e, base, fk) ==
    ForeignKeyInfo(IF e = "sqlite" THEN None ELSE fk.name, fk.cols, fk.refTable,
                   IF fk.refCols[1] = None THEN KeyOfTable(base, fk.refTable) ELSE fk.refCols,
                   fk.onDelete, fk.onUpdate)

TellsForeignKeys(e, infos, base, t) ==
    /\ t \notin DOMAIN base => infos = <<>>
    /\ t \in DOMAIN base =>
          /\ IsList(infos) /\ Len(infos) = Len(base[t].fks)
          /\ RangeOf(infos) = {TrueKey(e, base, fk) : fk \in RangeOf(base[t].fks)}

(* A foreign key of a server.                                              *)
IsServerKey(fk) ==
    /\ IsName(fk.name) /\ fk.name # None /\ fk.refTable # None
    /\ IsList(fk.cols) /\ 1 \in 1 .. Len(fk.cols) /\ \A j \in 1 .. Len(fk.cols) : fk.cols[j] # None
    /\ IsList(fk.refCols) /\ Len(fk.refCols) = Len(fk.cols)
    /\ \A j \in 1 .. Len(fk.cols) : fk.refCols[j] # None
    /\ fk.onDelete \in FkActions /\ fk.onUpdate \in FkActions

LEMMA ColumnsOfKeys ==
  ASSUME NEW e, NEW fk, IsForeignKey(e, fk)
  PROVE  /\ IsList(fk.cols) /\ 1 \in 1 .. Len(fk.cols) /\ DOMAIN fk.cols = 1 .. Len(fk.cols)
         /\ \A j \in 1 .. Len(fk.cols) : fk.cols[j] # None
         /\ IsList(fk.refCols) /\ Len(fk.refCols) = Len(fk.cols)
         /\ DOMAIN fk.refCols = 1 .. Len(fk.cols)
<1>1. /\ IsList(fk.cols) /\ fk.cols # <<>> /\ DOMAIN fk.cols = 1 .. Len(fk.cols)
      /\ Len(fk.cols) \in Nat
  BY ListDomain DEF IsForeignKey, IsReference
<1>2. Len(fk.cols) # 0
  <2>1. IsList(<<>>) /\ Len(<<>>) = 0
    BY DEF IsList
  <2> QED
    BY <1>1, <2>1, SameLists
<1>3. \A j \in 1 .. Len(fk.cols) : fk.cols[j] # None
  BY <1>1 DEF IsForeignKey, IsReference, RangeOf
<1>4. IsList(fk.refCols) /\ Len(fk.refCols) = Len(fk.cols) /\ DOMAIN fk.refCols = 1 .. Len(fk.cols)
  BY ListDomain DEF IsForeignKey, IsReference
<1> QED
  BY <1>1, <1>2, <1>3, <1>4

LEMMA ServerKeys ==
  ASSUME NEW e, e # "sqlite", NEW r, IsRelation(e, r)
  PROVE  /\ Enumerates(Sorted(RangeOf(r.fks)), RangeOf(r.fks))
         /\ HaveColumns(Sorted(RangeOf(r.fks)))
         /\ Cardinality(RangeOf(r.fks)) = Len(r.fks)
         /\ \A fk \in RangeOf(r.fks) : IsServerKey(fk)
         /\ \A fk, fl \in RangeOf(r.fks) : fk.name = fl.name => fk = fl
<1> DEFINE S == RangeOf(r.fks)
<1>1. IsList(r.fks) /\ DOMAIN r.fks = 1 .. Len(r.fks)
  BY ListDomain DEF IsRelation
<1>2. \A fk \in S : IsForeignKey(e, fk)
  BY DEF IsRelation
<1>3. \A i, j \in 1 .. Len(r.fks) : r.fks[i].name = r.fks[j].name => i = j
  BY <1>1 DEF IsRelation, Unlike
<1>4. Enumerates(r.fks, S)
  BY <1>1, <1>3, ListEnumerates
<1>5. \A fk, fl \in S : fk.name = fl.name => fk = fl
  BY <1>1, <1>3 DEF RangeOf
<1> HIDE DEF S
<1>6. ASSUME NEW fk \in S PROVE IsServerKey(fk)
  <2>1. IsForeignKey(e, fk)
    BY <1>2
  <2>2. IsName(fk.name) /\ fk.name # None
    BY <2>1, InTheAlphabet DEF IsForeignKey, IsReference
  <2>3. \A j \in 1 .. Len(fk.cols) : fk.refCols[j] # None
    BY <2>1, ColumnsOfKeys DEF IsForeignKey, IsReference, RangeOf
  <2>4. fk.refTable # None /\ fk.onDelete \in FkActions /\ fk.onUpdate \in FkActions
    BY <2>1 DEF IsForeignKey, IsReference
  <2> QED
    BY <2>1, <2>2, <2>3, <2>4, ColumnsOfKeys DEF IsServerKey
<1>7. HaveNames(S)
  BY <1>5, <1>6 DEF HaveNames, IsServerKey
<1>8. IsFiniteSet(S) /\ Cardinality(S) = Len(r.fks)
  BY <1>4 DEF Enumerates
<1>9. Enumerates(Sorted(S), S)
  BY <1>7, <1>8, SortedEnumerates
<1>10. HaveColumns(Sorted(S))
  BY <1>6, <1>9 DEF HaveColumns, IsServerKey, Enumerates
<1> QED
  BY <1>5, <1>6, <1>8, <1>9, <1>10 DEF S

LEMMA ServerKeysTold ==
  ASSUME NEW e, e # "sqlite", NEW base, NEW t \in DOMAIN base,
         NEW sorted, Enumerates(sorted, RangeOf(base[t].fks)),
         Cardinality(RangeOf(base[t].fks)) = Len(base[t].fks),
         \A fk \in RangeOf(base[t].fks) : IsServerKey(fk),
         NEW infos, infos = [i \in 1 .. Len(sorted) |-> infos[i]],
         \A i \in 1 .. Len(sorted) :
             infos[i] = ForeignKeyInfo(sorted[i].name, sorted[i].cols, sorted[i].refTable,
                                       sorted[i].refCols, sorted[i].onDelete, sorted[i].onUpdate)
  PROVE  TellsForeignKeys(e, infos, base, t)
<1> DEFINE S == RangeOf(base[t].fks)
           T == {TrueKey(e, base, fk) : fk \in S}
<1>1. Len(sorted) \in Nat /\ Len(sorted) = Cardinality(S)
  BY Enumerated DEF Enumerates
<1>2. IsList(infos) /\ Len(infos) = Len(sorted) /\ DOMAIN infos = 1 .. Len(sorted)
  BY <1>1, MadeList
<1>3. /\ \A k \in 1 .. Len(sorted) : sorted[k] \in S
      /\ \A x \in S : \E k \in 1 .. Len(sorted) : sorted[k] = x
  BY DEF Enumerates
<1>4. \A fk \in S : IsServerKey(fk)
  OBVIOUS
<1> HIDE DEF S
<1>5. ASSUME NEW k \in 1 .. Len(sorted) PROVE infos[k] = TrueKey(e, base, sorted[k])
  <2>1. sorted[k].refCols[1] # None
    BY <1>3, <1>4 DEF IsServerKey
  <2> QED
    BY <2>1 DEF TrueKey
<1>6. \A x \in RangeOf(infos) : x \in T
  BY <1>2, <1>3, <1>5 DEF RangeOf
<1>7. \A x \in T : x \in RangeOf(infos)
  BY <1>2, <1>3, <1>5 DEF RangeOf
<1>8. RangeOf(infos) = T
  BY <1>6, <1>7
<1> QED
  BY <1>1, <1>2, <1>8 DEF TellsForeignKeys, S

(* The row of a column of a foreign key.                                   *)
PostgresKeyRow(row, fk, j) ==
    /\ row["constraint_oid"] = Num(Rank(fk.name)) /\ row["constraint_name"] = Text(fk.name)
    /\ row["column_name"] = Text(fk.cols[j]) /\ row["ref_column_name"] = Text(fk.refCols[j])
    /\ row["ref_table"] = Text(fk.refTable)
    /\ row["on_delete_code"] = Text(ActionCode(fk.onDelete))
    /\ row["on_update_code"] = Text(ActionCode(fk.onUpdate))

LEMMA ReadPostgresKey ==
  ASSUME NEW row, NEW fk, NEW j, PostgresKeyRow(row, fk, j),
         fk.onDelete \in FkActions, fk.onUpdate \in FkActions
  PROVE  /\ PostgresText(row, "constraint_name") = fk.name
         /\ PostgresText(row, "column_name") = fk.cols[j]
         /\ PostgresText(row, "ref_column_name") = fk.refCols[j]
         /\ PostgresText(row, "ref_table") = fk.refTable
         /\ PostgresFkAction(PostgresText(row, "on_delete_code")) = fk.onDelete
         /\ PostgresFkAction(PostgresText(row, "on_update_code")) = fk.onUpdate
<1>1. \A a \in FkActions : PostgresFkAction(ActionCode(a)) = a
  BY DEF FkActions, PostgresFkAction, ActionCode
<1>2. \A x : Text(x).type = "string" /\ Text(x).v = x
  BY DEF Text
<1> QED
  BY <1>1, <1>2 DEF PostgresKeyRow, PostgresText

LEMMA PostgresForeignKeysTold ==
  ASSUME NEW base, IsDatabase("postgres", base), NEW t,
         NEW rows, rows = PostgresAnswers(base, Query("constraints", t))
  PROVE  TellsForeignKeys("postgres", PostgresGetForeignKeys(rows), base, t)
<1> DEFINE r == base[t]
           infos == PostgresGetForeignKeys(rows)
<1>1. CASE t \in DOMAIN base
  <2> DEFINE sorted == Sorted(RangeOf(r.fks))
             lists == ColumnLists(sorted)
             at == Places(lists)
             runs == Runs(rows, "constraint_oid")
             row(i, j) ==
                [constraint_oid |-> Num(Rank(sorted[i].name)),
                 constraint_name |-> Text(sorted[i].name),
                 column_name |-> Text(sorted[i].cols[j]),
                 ref_column_name |-> Text(sorted[i].refCols[j]),
                 ref_table |-> Text(sorted[i].refTable),
                 on_delete_code |-> Text(ActionCode(sorted[i].onDelete)),
                 on_update_code |-> Text(ActionCode(sorted[i].onUpdate))]
             pairs(run) == PostgresHas(PostgresHas(run, "column_name"), "ref_column_name")
  <2>1. IsRelation("postgres", r)
    BY <1>1 DEF IsDatabase
  <2>2. rows = PostgresConstraints(r)
    BY <1>1 DEF PostgresAnswers, Query, PostgresOfRelation
  <2>3. rows = [k \in DOMAIN at |-> row(at[k][1], at[k][2])]
    BY <2>2 DEF PostgresConstraints, Spread, ColumnLists
  <2>4. /\ Enumerates(sorted, RangeOf(r.fks)) /\ HaveColumns(sorted)
        /\ Cardinality(RangeOf(r.fks)) = Len(r.fks)
        /\ \A fk \in RangeOf(r.fks) : IsServerKey(fk)
        /\ \A fk, fl \in RangeOf(r.fks) : fk.name = fl.name => fk = fl
    BY <2>1, ServerKeys
  <2> HIDE DEF sorted
  <2>5. ASSUME NEW i \in 1 .. Len(sorted)
        PROVE  IsServerKey(sorted[i])
    BY <2>4 DEF Enumerates
  <2>6. \A i, j \in 1 .. Len(sorted) : sorted[i].name = sorted[j].name => i = j
    BY <2>4 DEF Enumerates
  <2>7. /\ AreLists(lists) /\ NoneIsEmpty(lists) /\ Len(lists) = Len(sorted)
        /\ \A i \in 1 .. Len(sorted) : lists[i] = sorted[i].cols
        /\ ArePlaces(at, lists)
    BY <2>4, SpreadOut
  <2> HIDE DEF lists, at
  <2>8. DOMAIN at = 1 .. Len(at) /\ Len(at) \in Nat
    BY <2>7, ListDomain DEF ArePlaces
  <2>9. IsList(rows) /\ Len(rows) = Len(at) /\ DOMAIN rows = 1 .. Len(at)
    BY <2>3, <2>8, MadeList
  <2>10. ASSUME NEW k \in 1 .. Len(at)
         PROVE  /\ at[k][1] \in 1 .. Len(sorted)
                /\ PostgresKeyRow(rows[k], sorted[at[k][1]], at[k][2])
    <3>1. rows[k] = row(at[k][1], at[k][2])
      BY <2>3, <2>8
    <3>2. at[k][1] \in 1 .. Len(sorted)
      BY <2>7, PlaceOrder
    <3> QED
      BY <3>1, <3>2 DEF PostgresKeyRow
  <2> HIDE DEF row
  <2>11. Tells(rows, "constraint_oid", at)
    <3>1. ASSUME NEW i \in 1 .. Len(sorted), NEW j \in 1 .. Len(sorted),
                 Num(Rank(sorted[i].name)) = Num(Rank(sorted[j].name))
          PROVE  i = j
      <4>1. Rank(sorted[i].name) = Rank(sorted[j].name)
        BY <3>1 DEF Num
      <4>2. sorted[i].name = sorted[j].name
        BY <2>5, <4>1, RankIsOne DEF IsServerKey
      <4> QED
        BY <2>6, <4>2
    <3>2. ASSUME NEW k \in 1 .. Len(at)
          PROVE  rows[k]["constraint_oid"] = Num(Rank(sorted[at[k][1]].name))
      BY <2>10 DEF PostgresKeyRow
    <3>3. ASSUME NEW k \in 1 .. Len(at), NEW l \in 1 .. Len(at)
          PROVE  rows[k]["constraint_oid"] = rows[l]["constraint_oid"] <=> at[k][1] = at[l][1]
      <4>1. at[k][1] \in 1 .. Len(sorted) /\ at[l][1] \in 1 .. Len(sorted)
        BY <2>10
      <4> QED
        BY <3>1, <3>2, <4>1
    <3> QED
      BY <3>3 DEF Tells
  <2>12. RunByRun(runs, rows, at, lists)
    BY <2>7, <2>9, <2>11, RunsOfPlaces
  <2> HIDE DEF runs
  <2>13. IsList(runs) /\ DOMAIN runs = 1 .. Len(sorted)
    BY <2>7, <2>12, ListDomain DEF RunByRun
  <2>14. ASSUME NEW i \in 1 .. Len(sorted)
         PROVE  LET fk == sorted[i] IN
                /\ PostgresText(runs[i][1], "constraint_name") = fk.name
                /\ PostgresText(runs[i][1], "ref_table") = fk.refTable
                /\ PostgresFkAction(PostgresText(runs[i][1], "on_delete_code")) = fk.onDelete
                /\ PostgresFkAction(PostgresText(runs[i][1], "on_update_code")) = fk.onUpdate
                /\ Cells(pairs(runs[i]), PostgresText, "column_name") = fk.cols
                /\ Cells(pairs(runs[i]), PostgresText, "ref_column_name") = fk.refCols
    <3> DEFINE run == runs[i]
               fk == sorted[i]
    <3>0. /\ fk.refTable # None /\ fk.onDelete \in FkActions /\ fk.onUpdate \in FkActions
          /\ IsList(fk.cols) /\ 1 \in 1 .. Len(fk.cols)
          /\ \A j \in 1 .. Len(fk.cols) : fk.cols[j] # None
          /\ IsList(fk.refCols) /\ Len(fk.refCols) = Len(fk.cols)
          /\ \A j \in 1 .. Len(fk.cols) : fk.refCols[j] # None
      BY <2>5 DEF IsServerKey
    <3>1. IsList(run) /\ Len(run) = Len(fk.cols) /\ DOMAIN run = 1 .. Len(fk.cols)
      BY <2>7, <2>12, ListDomain DEF RunByRun
    <3>2. ASSUME NEW j \in 1 .. Len(fk.cols) PROVE PostgresKeyRow(run[j], fk, j)
      <4>1. \A l \in 1 .. Len(lists[i]) :
               \E k \in 1 .. Len(at) : at[k] = <<i, l>> /\ run[l] = rows[k]
        BY <2>7, <2>12 DEF RunByRun
      <4>2. PICK k \in 1 .. Len(at) : at[k] = <<i, j>> /\ run[j] = rows[k]
        BY <2>7, <4>1
      <4>3. at[k][1] = i /\ at[k][2] = j
        BY <4>2
      <4> QED
        BY <2>10, <4>2, <4>3
    <3> HIDE DEF run, fk
    <3>3. ASSUME NEW j \in 1 .. Len(fk.cols)
          PROVE  /\ PostgresText(run[j], "column_name") = fk.cols[j]
                 /\ PostgresText(run[j], "ref_column_name") = fk.refCols[j]
      BY <3>0, <3>2, ReadPostgresKey
    <3>4. /\ PostgresText(run[1], "constraint_name") = fk.name
          /\ PostgresText(run[1], "ref_table") = fk.refTable
          /\ PostgresFkAction(PostgresText(run[1], "on_delete_code")) = fk.onDelete
          /\ PostgresFkAction(PostgresText(run[1], "on_update_code")) = fk.onUpdate
      BY <3>0, <3>2, ReadPostgresKey
    <3>5. PostgresHas(run, "column_name") = run
      <4>1. {j \in DOMAIN run : PostgresText(run[j], "column_name") # None} = DOMAIN run
        BY <3>0, <3>1, <3>3
      <4> QED
        BY <3>1, <4>1, HavingAll DEF PostgresHas
    <3>6. PostgresHas(run, "ref_column_name") = run
      <4>1. {j \in DOMAIN run : PostgresText(run[j], "ref_column_name") # None} = DOMAIN run
        BY <3>0, <3>1, <3>3
      <4> QED
        BY <3>1, <4>1, HavingAll DEF PostgresHas
    <3>7. Cells(run, PostgresText, "column_name") = fk.cols
      <4>1. Cells(run, PostgresText, "column_name") = [j \in 1 .. Len(fk.cols) |-> fk.cols[j]]
        BY <3>1, <3>3 DEF Cells
      <4> QED
        BY <3>0, <4>1 DEF IsList
    <3>8. Cells(run, PostgresText, "ref_column_name") = fk.refCols
      <4>1. Cells(run, PostgresText, "ref_column_name") =
               [j \in 1 .. Len(fk.refCols) |-> fk.refCols[j]]
        BY <3>0, <3>1, <3>3 DEF Cells
      <4> QED
        BY <3>0, <4>1 DEF IsList
    <3> QED
      BY <3>4, <3>5, <3>6, <3>7, <3>8 DEF run, fk
  <2>15. Having(runs, {i \in DOMAIN runs : PostgresText(runs[i][1], "ref_table") # None}) = runs
    <3>1. ASSUME NEW i \in 1 .. Len(sorted) PROVE PostgresText(runs[i][1], "ref_table") # None
      BY <2>5, <2>14 DEF IsServerKey
    <3>2. {i \in DOMAIN runs : PostgresText(runs[i][1], "ref_table") # None} = DOMAIN runs
      BY <2>13, <3>1
    <3> QED
      BY <2>13, <3>2, HavingAll
  <2>16. infos = [i \in DOMAIN runs |->
            ForeignKeyInfo(PostgresText(runs[i][1], "constraint_name"),
                           Cells(pairs(runs[i]), PostgresText, "column_name"),
                           PostgresText(runs[i][1], "ref_table"),
                           Cells(pairs(runs[i]), PostgresText, "ref_column_name"),
                           PostgresFkAction(PostgresText(runs[i][1], "on_delete_code")),
                           PostgresFkAction(PostgresText(runs[i][1], "on_update_code")))]
    BY <2>15 DEF PostgresGetForeignKeys, runs
  <2> HIDE DEF infos, pairs
  <2>17. ASSUME NEW i \in 1 .. Len(sorted)
         PROVE  infos[i] = ForeignKeyInfo(sorted[i].name, sorted[i].cols, sorted[i].refTable,
                                sorted[i].refCols, sorted[i].onDelete, sorted[i].onUpdate)
    BY <2>13, <2>14, <2>16
  <2>18. infos = [i \in 1 .. Len(sorted) |-> infos[i]]
    BY <2>13, <2>16
  <2> QED
    BY <1>1, <2>4, <2>17, <2>18, ServerKeysTold DEF infos
<1>2. CASE t \notin DOMAIN base
  <2>1. rows = <<>>
    BY <1>2 DEF PostgresAnswers, Query
  <2>2. Runs(rows, "constraint_oid") = <<>>
    BY <2>1, NoRuns
  <2>3. Having(<<>>, {i \in DOMAIN <<>> : PostgresText(<<>>[i][1], "ref_table") # None}) = <<>>
    BY NothingHad
  <2>4. infos = [i \in DOMAIN <<>> |-> infos[i]]
    BY <2>2, <2>3 DEF PostgresGetForeignKeys
  <2> HIDE DEF infos
  <2>5. infos = <<>>
    BY <2>4, MadeOfNothing
  <2> QED
    BY <1>2, <2>5 DEF TellsForeignKeys, infos
<1> QED
  BY <1>1, <1>2

MySqlKeyRow(row, fk, j) ==
    /\ row["CONSTRAINT_NAME"] = Text(fk.name)
    /\ row["COLUMN_NAME"] = Text(fk.cols[j]) /\ row["REFERENCED_COLUMN_NAME"] = Text(fk.refCols[j])
    /\ row["REFERENCED_TABLE_NAME"] = Text(fk.refTable)
    /\ row["DELETE_RULE"] = Text(fk.onDelete) /\ row["UPDATE_RULE"] = Text(fk.onUpdate)

LEMMA ReadMySqlKey ==
  ASSUME NEW row, NEW fk, NEW j, MySqlKeyRow(row, fk, j),
         fk.onDelete \in FkActions, fk.onUpdate \in FkActions
  PROVE  /\ MySqlRowText(row, "CONSTRAINT_NAME") = fk.name
         /\ MySqlRowText(row, "COLUMN_NAME") = fk.cols[j]
         /\ MySqlRowText(row, "REFERENCED_COLUMN_NAME") = fk.refCols[j]
         /\ MySqlRowText(row, "REFERENCED_TABLE_NAME") = fk.refTable
         /\ MySqlForeignKeyAction(MySqlRowText(row, "DELETE_RULE")) = fk.onDelete
         /\ MySqlForeignKeyAction(MySqlRowText(row, "UPDATE_RULE")) = fk.onUpdate
<1>1. \A a \in FkActions : MySqlForeignKeyAction(a) = a
  BY DEF FkActions, MySqlForeignKeyAction
<1>2. \A x : Text(x).v = x
  BY DEF Text
<1> QED
  BY <1>1, <1>2 DEF MySqlKeyRow, MySqlRowText

LEMMA MySqlForeignKeysTold ==
  ASSUME NEW base, IsDatabase("mysql", base), NEW t,
         NEW rows, rows = MySqlAnswers(base, Query("usage", t))
  PROVE  TellsForeignKeys("mysql", MySqlGetForeignKeys(rows), base, t)
<1> DEFINE r == base[t]
           infos == MySqlGetForeignKeys(rows)
<1>1. CASE t \in DOMAIN base
  <2> DEFINE sorted == Sorted(RangeOf(r.fks))
             lists == ColumnLists(sorted)
             at == Places(lists)
             runs == Runs(rows, "CONSTRAINT_NAME")
             row(i, j) ==
                [CONSTRAINT_NAME |-> Text(sorted[i].name),
                 COLUMN_NAME |-> Text(sorted[i].cols[j]),
                 REFERENCED_TABLE_NAME |-> Text(sorted[i].refTable),
                 REFERENCED_COLUMN_NAME |-> Text(sorted[i].refCols[j]),
                 DELETE_RULE |-> Text(sorted[i].onDelete),
                 UPDATE_RULE |-> Text(sorted[i].onUpdate)]
             pairs(run) == MySqlHas(MySqlHas(run, "COLUMN_NAME"), "REFERENCED_COLUMN_NAME")
  <2>1. IsRelation("mysql", r)
    BY <1>1 DEF IsDatabase
  <2>2. rows = MySqlUsage(r)
    BY <1>1 DEF MySqlAnswers, Query, MySqlOfRelation
  <2>3. rows = [k \in DOMAIN at |-> row(at[k][1], at[k][2])]
    BY <2>2 DEF MySqlUsage, Spread, ColumnLists
  <2>4. /\ Enumerates(sorted, RangeOf(r.fks)) /\ HaveColumns(sorted)
        /\ Cardinality(RangeOf(r.fks)) = Len(r.fks)
        /\ \A fk \in RangeOf(r.fks) : IsServerKey(fk)
        /\ \A fk, fl \in RangeOf(r.fks) : fk.name = fl.name => fk = fl
    BY <2>1, ServerKeys
  <2> HIDE DEF sorted
  <2>5. ASSUME NEW i \in 1 .. Len(sorted)
        PROVE  IsServerKey(sorted[i])
    BY <2>4 DEF Enumerates
  <2>6. \A i, j \in 1 .. Len(sorted) : sorted[i].name = sorted[j].name => i = j
    BY <2>4 DEF Enumerates
  <2>7. /\ AreLists(lists) /\ NoneIsEmpty(lists) /\ Len(lists) = Len(sorted)
        /\ \A i \in 1 .. Len(sorted) : lists[i] = sorted[i].cols
        /\ ArePlaces(at, lists)
    BY <2>4, SpreadOut
  <2> HIDE DEF lists, at
  <2>8. DOMAIN at = 1 .. Len(at) /\ Len(at) \in Nat
    BY <2>7, ListDomain DEF ArePlaces
  <2>9. IsList(rows) /\ Len(rows) = Len(at) /\ DOMAIN rows = 1 .. Len(at)
    BY <2>3, <2>8, MadeList
  <2>10. ASSUME NEW k \in 1 .. Len(at)
         PROVE  /\ at[k][1] \in 1 .. Len(sorted)
                /\ MySqlKeyRow(rows[k], sorted[at[k][1]], at[k][2])
    <3>1. rows[k] = row(at[k][1], at[k][2])
      BY <2>3, <2>8
    <3>2. at[k][1] \in 1 .. Len(sorted)
      BY <2>7, PlaceOrder
    <3> QED
      BY <3>1, <3>2 DEF MySqlKeyRow
  <2> HIDE DEF row
  <2>0. MySqlHas(rows, "CONSTRAINT_NAME") = rows
    <3>1. ASSUME NEW k \in 1 .. Len(at) PROVE MySqlRowText(rows[k], "CONSTRAINT_NAME") # None
      <4>1. IsServerKey(sorted[at[k][1]])
        BY <2>5, <2>10
      <4>2. MySqlRowText(rows[k], "CONSTRAINT_NAME") = sorted[at[k][1]].name
        <5>1. \A x : Text(x).v = x
          BY DEF Text
        <5>2. rows[k]["CONSTRAINT_NAME"] = Text(sorted[at[k][1]].name)
          BY <2>10 DEF MySqlKeyRow
        <5> QED
          BY <5>1, <5>2 DEF MySqlRowText
      <4> QED
        BY <4>1, <4>2 DEF IsServerKey
    <3>2. {k \in DOMAIN rows : MySqlRowText(rows[k], "CONSTRAINT_NAME") # None} = DOMAIN rows
      BY <2>9, <3>1
    <3> QED
      BY <2>9, <3>2, HavingAll DEF MySqlHas
  <2>11. Tells(rows, "CONSTRAINT_NAME", at)
    <3>1. ASSUME NEW i \in 1 .. Len(sorted), NEW j \in 1 .. Len(sorted),
                 Text(sorted[i].name) = Text(sorted[j].name)
          PROVE  i = j
      <4>1. sorted[i].name = sorted[j].name
        BY <3>1 DEF Text
      <4> QED
        BY <2>6, <4>1
    <3>2. ASSUME NEW k \in 1 .. Len(at)
          PROVE  rows[k]["CONSTRAINT_NAME"] = Text(sorted[at[k][1]].name)
      BY <2>10 DEF MySqlKeyRow
    <3>3. ASSUME NEW k \in 1 .. Len(at), NEW l \in 1 .. Len(at)
          PROVE  rows[k]["CONSTRAINT_NAME"] = rows[l]["CONSTRAINT_NAME"] <=> at[k][1] = at[l][1]
      <4>1. at[k][1] \in 1 .. Len(sorted) /\ at[l][1] \in 1 .. Len(sorted)
        BY <2>10
      <4> QED
        BY <3>1, <3>2, <4>1
    <3> QED
      BY <3>3 DEF Tells
  <2>12. RunByRun(runs, rows, at, lists)
    BY <2>7, <2>9, <2>11, RunsOfPlaces
  <2> HIDE DEF runs
  <2>13. IsList(runs) /\ DOMAIN runs = 1 .. Len(sorted)
    BY <2>7, <2>12, ListDomain DEF RunByRun
  <2>14. ASSUME NEW i \in 1 .. Len(sorted)
         PROVE  LET fk == sorted[i] IN
                /\ MySqlRowText(runs[i][1], "CONSTRAINT_NAME") = fk.name
                /\ MySqlRowText(runs[i][1], "REFERENCED_TABLE_NAME") = fk.refTable
                /\ MySqlForeignKeyAction(MySqlRowText(runs[i][1], "DELETE_RULE")) = fk.onDelete
                /\ MySqlForeignKeyAction(MySqlRowText(runs[i][1], "UPDATE_RULE")) = fk.onUpdate
                /\ Cells(pairs(runs[i]), MySqlRowText, "COLUMN_NAME") = fk.cols
                /\ Cells(pairs(runs[i]), MySqlRowText, "REFERENCED_COLUMN_NAME") = fk.refCols
    <3> DEFINE run == runs[i]
               fk == sorted[i]
    <3>0. /\ fk.refTable # None /\ fk.onDelete \in FkActions /\ fk.onUpdate \in FkActions
          /\ IsList(fk.cols) /\ 1 \in 1 .. Len(fk.cols)
          /\ \A j \in 1 .. Len(fk.cols) : fk.cols[j] # None
          /\ IsList(fk.refCols) /\ Len(fk.refCols) = Len(fk.cols)
          /\ \A j \in 1 .. Len(fk.cols) : fk.refCols[j] # None
      BY <2>5 DEF IsServerKey
    <3>1. IsList(run) /\ Len(run) = Len(fk.cols) /\ DOMAIN run = 1 .. Len(fk.cols)
      BY <2>7, <2>12, ListDomain DEF RunByRun
    <3>2. ASSUME NEW j \in 1 .. Len(fk.cols) PROVE MySqlKeyRow(run[j], fk, j)
      <4>1. \A l \in 1 .. Len(lists[i]) :
               \E k \in 1 .. Len(at) : at[k] = <<i, l>> /\ run[l] = rows[k]
        BY <2>7, <2>12 DEF RunByRun
      <4>2. PICK k \in 1 .. Len(at) : at[k] = <<i, j>> /\ run[j] = rows[k]
        BY <2>7, <4>1
      <4>3. at[k][1] = i /\ at[k][2] = j
        BY <4>2
      <4> QED
        BY <2>10, <4>2, <4>3
    <3> HIDE DEF run, fk
    <3>3. ASSUME NEW j \in 1 .. Len(fk.cols)
          PROVE  /\ MySqlRowText(run[j], "COLUMN_NAME") = fk.cols[j]
                 /\ MySqlRowText(run[j], "REFERENCED_COLUMN_NAME") = fk.refCols[j]
      BY <3>0, <3>2, ReadMySqlKey
    <3>4. /\ MySqlRowText(run[1], "CONSTRAINT_NAME") = fk.name
          /\ MySqlRowText(run[1], "REFERENCED_TABLE_NAME") = fk.refTable
          /\ MySqlForeignKeyAction(MySqlRowText(run[1], "DELETE_RULE")) = fk.onDelete
          /\ MySqlForeignKeyAction(MySqlRowText(run[1], "UPDATE_RULE")) = fk.onUpdate
      BY <3>0, <3>2, ReadMySqlKey
    <3>5. MySqlHas(run, "COLUMN_NAME") = run
      <4>1. {j \in DOMAIN run : MySqlRowText(run[j], "COLUMN_NAME") # None} = DOMAIN run
        BY <3>0, <3>1, <3>3
      <4> QED
        BY <3>1, <4>1, HavingAll DEF MySqlHas
    <3>6. MySqlHas(run, "REFERENCED_COLUMN_NAME") = run
      <4>1. {j \in DOMAIN run : MySqlRowText(run[j], "REFERENCED_COLUMN_NAME") # None} = DOMAIN run
        BY <3>0, <3>1, <3>3
      <4> QED
        BY <3>1, <4>1, HavingAll DEF MySqlHas
    <3>7. Cells(run, MySqlRowText, "COLUMN_NAME") = fk.cols
      <4>1. Cells(run, MySqlRowText, "COLUMN_NAME") = [j \in 1 .. Len(fk.cols) |-> fk.cols[j]]
        BY <3>1, <3>3 DEF Cells
      <4> QED
        BY <3>0, <4>1 DEF IsList
    <3>8. Cells(run, MySqlRowText, "REFERENCED_COLUMN_NAME") = fk.refCols
      <4>1. Cells(run, MySqlRowText, "REFERENCED_COLUMN_NAME") =
               [j \in 1 .. Len(fk.refCols) |-> fk.refCols[j]]
        BY <3>0, <3>1, <3>3 DEF Cells
      <4> QED
        BY <3>0, <4>1 DEF IsList
    <3> QED
      BY <3>4, <3>5, <3>6, <3>7, <3>8 DEF run, fk
  <2>15. Having(runs, {i \in DOMAIN runs : MySqlRowText(runs[i][1], "REFERENCED_TABLE_NAME") # None}) = runs
    <3>1. ASSUME NEW i \in 1 .. Len(sorted) PROVE MySqlRowText(runs[i][1], "REFERENCED_TABLE_NAME") # None
      BY <2>5, <2>14 DEF IsServerKey
    <3>2. {i \in DOMAIN runs : MySqlRowText(runs[i][1], "REFERENCED_TABLE_NAME") # None} = DOMAIN runs
      BY <2>13, <3>1
    <3> QED
      BY <2>13, <3>2, HavingAll
  <2>16. infos = [i \in DOMAIN runs |->
            ForeignKeyInfo(MySqlRowText(runs[i][1], "CONSTRAINT_NAME"),
                           Cells(pairs(runs[i]), MySqlRowText, "COLUMN_NAME"),
                           MySqlRowText(runs[i][1], "REFERENCED_TABLE_NAME"),
                           Cells(pairs(runs[i]), MySqlRowText, "REFERENCED_COLUMN_NAME"),
                           MySqlForeignKeyAction(MySqlRowText(runs[i][1], "DELETE_RULE")),
                           MySqlForeignKeyAction(MySqlRowText(runs[i][1], "UPDATE_RULE")))]
    BY <2>0, <2>15 DEF MySqlGetForeignKeys, runs
  <2> HIDE DEF infos, pairs
  <2>17. ASSUME NEW i \in 1 .. Len(sorted)
         PROVE  infos[i] = ForeignKeyInfo(sorted[i].name, sorted[i].cols, sorted[i].refTable,
                                sorted[i].refCols, sorted[i].onDelete, sorted[i].onUpdate)
    BY <2>13, <2>14, <2>16
  <2>18. infos = [i \in 1 .. Len(sorted) |-> infos[i]]
    BY <2>13, <2>16
  <2> QED
    BY <1>1, <2>4, <2>17, <2>18, ServerKeysTold DEF infos
<1>2. CASE t \notin DOMAIN base
  <2>1. rows = <<>>
    BY <1>2 DEF MySqlAnswers, Query
  <2>0. MySqlHas(rows, "CONSTRAINT_NAME") = <<>>
    BY <2>1, NothingHad DEF MySqlHas
  <2>2. Runs(MySqlHas(rows, "CONSTRAINT_NAME"), "CONSTRAINT_NAME") = <<>>
    BY <2>0, NoRuns
  <2>3. Having(<<>>, {i \in DOMAIN <<>> : MySqlRowText(<<>>[i][1], "REFERENCED_TABLE_NAME") # None}) = <<>>
    BY NothingHad
  <2>4. infos = [i \in DOMAIN <<>> |-> infos[i]]
    BY <2>2, <2>3 DEF MySqlGetForeignKeys
  <2> HIDE DEF infos
  <2>5. infos = <<>>
    BY <2>4, MadeOfNothing
  <2> QED
    BY <1>2, <2>5 DEF TellsForeignKeys, infos
<1> QED
  BY <1>1, <1>2

-------------------------------------------------------------------------------
(*                   table_info: get_primary_key, get_columns              *)

SqliteInfoRow(row, r, i) ==
    /\ SqliteRowString(row, "name") = r.cols[i].name
    /\ SqliteRowString(row, "type") = r.cols[i].type
    /\ SqliteRowInteger(row, "notnull", 0) = IF r.cols[i].notNull THEN 1 ELSE 0
    /\ SqliteRowSqlText(row, "dflt_value") = r.cols[i].default
    /\ SqliteRowInteger(row, "cid", 0) = i - 1
    /\ SqliteRowInteger(row, "pk", 0) =
          IF InKey(r, r.cols[i].name) THEN Place(r.key, r.cols[i].name) ELSE 0

LEMMA SqliteInfoRows ==
  ASSUME NEW r, IsRelation("sqlite", r), NEW rows, rows = SqliteTableInfo(r)
  PROVE  /\ IsList(rows) /\ Len(rows) = Len(r.cols) /\ DOMAIN rows = 1 .. Len(r.cols)
         /\ \A i \in 1 .. Len(r.cols) : SqliteInfoRow(rows[i], r, i)
         /\ SqliteHas(rows, "name") = rows
<1>1. /\ DOMAIN r.cols = 1 .. Len(r.cols) /\ Len(r.cols) \in Nat
      /\ \A i \in DOMAIN r.cols : r.cols[i].name # None
  BY ColumnsAreColumns
<1>2. rows = [i \in DOMAIN r.cols |->
        [cid |-> Num(i - 1), name |-> Text(r.cols[i].name), type |-> Text(r.cols[i].type),
         notnull |-> Flag(r.cols[i].notNull), dflt_value |-> TextOrNull(r.cols[i].default),
         pk |-> Num(IF InKey(r, r.cols[i].name) THEN Place(r.key, r.cols[i].name) ELSE 0)]]
  BY DEF SqliteTableInfo, Rows
<1>3. IsList(rows) /\ Len(rows) = Len(r.cols) /\ DOMAIN rows = 1 .. Len(r.cols)
  BY <1>1, <1>2, MadeList
<1>4. ASSUME NEW i \in 1 .. Len(r.cols) PROVE SqliteInfoRow(rows[i], r, i)
  <2> DEFINE row == rows[i]
             pk == IF InKey(r, r.cols[i].name) THEN Place(r.key, r.cols[i].name) ELSE 0
             word == IF r.cols[i].notNull THEN 1 ELSE 0
  <2>1. /\ row["cid"] = Num(i - 1) /\ row["name"] = Text(r.cols[i].name)
        /\ row["type"] = Text(r.cols[i].type) /\ row["notnull"] = Num(word)
        /\ row["dflt_value"] = TextOrNull(r.cols[i].default) /\ row["pk"] = Num(pk)
    BY <1>1, <1>2 DEF Flag
  <2> HIDE DEF row, pk, word
  <2>2. /\ \A x : Text(x).type = "string" /\ Text(x).v = x
        /\ \A x : Num(x).type = "integer" /\ Num(x).v = x
        /\ Null.type = "null"
    BY DEF Text, Num, Null
  <2>3. /\ SqliteRowString(row, "name") = r.cols[i].name
        /\ SqliteRowString(row, "type") = r.cols[i].type
    BY <2>1, <2>2 DEF SqliteRowString
  <2>4. /\ SqliteRowInteger(row, "notnull", 0) = word
        /\ SqliteRowInteger(row, "cid", 0) = i - 1
        /\ SqliteRowInteger(row, "pk", 0) = pk
    BY <2>1, <2>2 DEF SqliteRowInteger
  <2>5. SqliteRowSqlText(row, "dflt_value") = r.cols[i].default
    BY <2>1, <2>2 DEF SqliteRowSqlText, TextOrNull
  <2> QED
    BY <2>3, <2>4, <2>5 DEF SqliteInfoRow, row, pk, word
<1>5. {i \in DOMAIN rows : SqliteRowString(rows[i], "name") # None} = DOMAIN rows
  BY <1>1, <1>3, <1>4 DEF SqliteInfoRow
<1>6. SqliteHas(rows, "name") = rows
  BY <1>3, <1>5, HavingAll DEF SqliteHas
<1> QED
  BY <1>3, <1>4, <1>6

LEMMA PlaceInKey ==
  ASSUME NEW e, NEW r, IsRelation(e, r)
  PROVE  /\ \A x : InKey(r, x) => Place(r.key, x) \in 1 .. Len(r.key) /\ r.key[Place(r.key, x)] = x
         /\ \A k \in 1 .. Len(r.key) : InKey(r, r.key[k]) /\ Place(r.key, r.key[k]) = k
<1>1. DOMAIN r.key = 1 .. Len(r.key) /\ \A i, j \in DOMAIN r.key : r.key[i] = r.key[j] => i = j
  BY KeysOfRelations
<1>2. ASSUME NEW x, InKey(r, x)
      PROVE  Place(r.key, x) \in 1 .. Len(r.key) /\ r.key[Place(r.key, x)] = x
  <2>1. \E i \in DOMAIN r.key : r.key[i] = x
    BY <1>2 DEF InKey, RangeOf
  <2> QED
    BY <1>1, <2>1 DEF Place
<1>3. ASSUME NEW k \in 1 .. Len(r.key)
      PROVE  InKey(r, r.key[k]) /\ Place(r.key, r.key[k]) = k
  BY <1>1 DEF InKey, RangeOf, Place
<1> QED
  BY <1>2, <1>3

(* The key columns, put in the order of their positions, are the key.      *)
LEMMA SqliteKeyOfRelation ==
  ASSUME NEW r, IsRelation("sqlite", r), NEW rows, rows = SqliteTableInfo(r)
  PROVE  SqliteGetPrimaryKey(rows) = r.key
<1> DEFINE pos(row) == SqliteRowInteger(row, "pk", 0)
           at == {i \in DOMAIN rows : pos(rows[i]) > 0}
           keyed == Having(rows, at)
           g == InOrder(at, Ascending(at))
           m == Cardinality(at)
           n == Len(r.key)
           D == DOMAIN keyed
           before == {p \in D \X D : pos(keyed[p[1]]) < pos(keyed[p[2]])}
           order == InOrder(D, before)
           name(j) == SqliteRowString(keyed[j], "name")
           f == [k \in 1 .. n |-> CHOOSE j \in 1 .. m : name(j) = r.key[k]]
<1>1. /\ IsList(rows) /\ Len(rows) = Len(r.cols) /\ DOMAIN rows = 1 .. Len(r.cols)
      /\ \A i \in 1 .. Len(r.cols) : SqliteInfoRow(rows[i], r, i)
      /\ SqliteHas(rows, "name") = rows
  BY SqliteInfoRows
<1>2. /\ \A i, j \in 1 .. Len(r.cols) : r.cols[i].name = r.cols[j].name => i = j
      /\ DOMAIN r.cols = 1 .. Len(r.cols)
  BY ColumnsAreColumns
<1>3. /\ IsList(r.key) /\ n \in Nat /\ DOMAIN r.key = 1 .. n
      /\ \A k \in 1 .. n : \E i \in 1 .. Len(r.cols) : r.cols[i].name = r.key[k]
      /\ \A i, j \in 1 .. n : r.key[i] = r.key[j] => i = j
  BY <1>2, KeysOfRelations
<1>4. /\ \A x : InKey(r, x) => Place(r.key, x) \in 1 .. n /\ r.key[Place(r.key, x)] = x
      /\ \A k \in 1 .. n : InKey(r, r.key[k]) /\ Place(r.key, r.key[k]) = k
  BY PlaceInKey
<1>5. \A i \in 1 .. Len(r.cols) : /\ i \in at <=> InKey(r, r.cols[i].name)
                                  /\ i \in at => pos(rows[i]) = Place(r.key, r.cols[i].name)
                                  /\ SqliteRowString(rows[i], "name") = r.cols[i].name
  BY <1>1, <1>4 DEF SqliteInfoRow
<1>6. at \subseteq 1 .. Len(r.cols)
  BY <1>1
<1>7. /\ m \in Nat /\ IsList(keyed) /\ Len(keyed) = m
      /\ \A k \in 1 .. m : g[k] \in at /\ keyed[k] = rows[g[k]]
      /\ \A i \in at : \E k \in 1 .. m : g[k] = i
      /\ \A j, k \in 1 .. m : j < k => g[j] < g[k]
  <2>1. at \in SUBSET DOMAIN rows
    OBVIOUS
  <2> HIDE DEF at
  <2> QED
    BY <1>1, <2>1, HavingSome
<1>8. D = 1 .. m
  BY <1>7, ListDomain
<1> HIDE DEF g, m, at, keyed
<1>9. ASSUME NEW j \in 1 .. m
      PROVE  pos(keyed[j]) \in 1 .. n /\ r.key[pos(keyed[j])] = name(j)
  <2>1. g[j] \in at /\ g[j] \in 1 .. Len(r.cols) /\ keyed[j] = rows[g[j]]
    BY <1>7, <1>6
  <2> QED
    BY <1>4, <1>5, <2>1
<1>10. ASSUME NEW i \in 1 .. m, NEW j \in 1 .. m, name(i) = name(j)
       PROVE  i = j
  <2>1. /\ g[i] \in 1 .. Len(r.cols) /\ keyed[i] = rows[g[i]]
        /\ g[j] \in 1 .. Len(r.cols) /\ keyed[j] = rows[g[j]]
    BY <1>7, <1>6
  <2>2. r.cols[g[i]].name = r.cols[g[j]].name
    BY <1>5, <1>10, <2>1
  <2>3. g[i] = g[j]
    BY <1>2, <2>1, <2>2
  <2>4. g[i] \in Int
    BY <2>1
  <2> QED
    BY <1>7, <2>3, <2>4
<1>11. ASSUME NEW k \in 1 .. n
       PROVE  \E j \in 1 .. m : name(j) = r.key[k]
  <2>1. PICK i \in 1 .. Len(r.cols) : r.cols[i].name = r.key[k]
    BY <1>3
  <2>2. i \in at
    BY <1>4, <1>5, <2>1
  <2>3. PICK j \in 1 .. m : g[j] = i
    BY <1>7, <2>2
  <2> QED
    BY <1>5, <1>7, <2>1, <2>3
<1>12. ASSUME NEW k \in 1 .. n
       PROVE  f[k] \in 1 .. m /\ name(f[k]) = r.key[k] /\ pos(keyed[f[k]]) = k
  <2>1. f[k] \in 1 .. m /\ name(f[k]) = r.key[k]
    BY <1>11
  <2>2. pos(keyed[f[k]]) \in 1 .. n /\ r.key[pos(keyed[f[k]])] = r.key[k]
    BY <1>9, <2>1
  <2> QED
    BY <1>3, <2>1, <2>2
<1>13. \A i, j \in 1 .. m : <<i, j>> \in before <=> pos(keyed[i]) < pos(keyed[j])
  BY <1>8
<1>14. f = [k \in 1 .. n |-> f[k]]
  OBVIOUS
<1> HIDE DEF f, before, pos, name
<1>15. Orders(before, 1 .. m)
  <2>1. ASSUME NEW i \in 1 .. m, NEW j \in 1 .. m, pos(keyed[i]) = pos(keyed[j])
        PROVE  i = j
    BY <1>9, <1>10, <2>1
  <2>2. \A i \in 1 .. m : pos(keyed[i]) \in Int
    BY <1>9
  <2> QED
    BY <1>13, <2>1, <2>2 DEF Orders
<1>16. Lists(f, n, before, 1 .. m)
  <2>1. ASSUME NEW j \in 1 .. m PROVE \E k \in 1 .. n : f[k] = j
    <3>1. pos(keyed[j]) \in 1 .. n /\ r.key[pos(keyed[j])] = name(j)
      BY <1>9
    <3>2. f[pos(keyed[j])] \in 1 .. m /\ name(f[pos(keyed[j])]) = name(j)
      BY <1>12, <3>1
    <3> QED
      BY <1>10, <3>1, <3>2
  <2>2. ASSUME NEW j \in 1 .. n, NEW k \in 1 .. n, j < k PROVE <<f[j], f[k]>> \in before
    BY <1>12, <1>13, <2>2
  <2> QED
    BY <1>12, <1>14, <2>1, <2>2 DEF Lists
<1>17. order = f
  BY <1>3, <1>7, <1>8, <1>15, <1>16, OnlyOrder
<1>18. DOMAIN order = 1 .. n
  BY <1>14, <1>17
<1>19. Arranged(keyed, before) = [k \in 1 .. n |-> keyed[f[k]]]
  BY <1>17, <1>18 DEF Arranged
<1>20. Cells(Arranged(keyed, before), SqliteRowString, "name") = [k \in 1 .. n |-> r.key[k]]
  <2>1. \A k \in 1 .. n : SqliteRowString(keyed[f[k]], "name") = r.key[k]
    BY <1>12 DEF name
  <2> QED
    BY <1>19, <2>1 DEF Cells
<1>21. SqliteGetPrimaryKey(rows) = Cells(Arranged(keyed, before), SqliteRowString, "name")
  BY <1>1 DEF SqliteGetPrimaryKey, keyed, before, at, pos
<1>22. r.key = [k \in 1 .. n |-> r.key[k]]
  BY <1>3 DEF IsList
<1> QED
  BY <1>20, <1>21, <1>22

LEMMA SqliteKeyTold ==
  ASSUME NEW base, IsDatabase("sqlite", base), NEW t,
         NEW rows \in SqliteAnswers(base, Query("table_info", t))
  PROVE  SqliteGetPrimaryKey(rows) = KeyOfTable(base, t)
<1>1. CASE IsTable(base, t)
  <2>1. t \in DOMAIN base /\ IsRelation("sqlite", base[t])
    BY <1>1 DEF IsDatabase, IsTable
  <2>2. rows = SqliteTableInfo(base[t])
    BY <1>1 DEF SqliteAnswers, Query, SqliteOfTable
  <2> QED
    BY <2>1, <2>2, SqliteKeyOfRelation DEF KeyOfTable
<1>2. CASE ~IsTable(base, t)
  <2> DEFINE pos(row) == SqliteRowInteger(row, "pk", 0)
             keyed == Having(<<>>, {i \in DOMAIN <<>> : pos(<<>>[i]) > 0})
             before == {p \in (DOMAIN keyed) \X (DOMAIN keyed) : pos(keyed[p[1]]) < pos(keyed[p[2]])}
             cells == Cells(Arranged(<<>>, before), SqliteRowString, "name")
  <2>1. rows = <<>>
    BY <1>2 DEF SqliteAnswers, Query
  <2>2. SqliteHas(rows, "name") = <<>>
    BY <2>1, NothingHad DEF SqliteHas
  <2>3. keyed = <<>>
    BY NothingHad
  <2>4. SqliteGetPrimaryKey(rows) = cells
    BY <2>2, <2>3 DEF SqliteGetPrimaryKey
  <2>5. DOMAIN InOrder(DOMAIN <<>>, before) = DOMAIN <<>>
    <3>1. DOMAIN <<>> = {} /\ DOMAIN <<>> = 1 .. 0
      OBVIOUS
    <3>2. Cardinality(DOMAIN <<>>) = 0
      BY <3>1, FS_EmptySet
    <3> QED
      BY <3>1, <3>2 DEF InOrder
  <2>6. cells = [i \in DOMAIN <<>> |-> cells[i]]
    BY <2>5 DEF Cells, Arranged
  <2> HIDE DEF cells
  <2>7. cells = <<>>
    BY <2>6, MadeOfNothing
  <2>8. KeyOfTable(base, t) = <<>>
    <3>1. CASE t \in DOMAIN base
      <4>1. IsRelation("sqlite", base[t]) /\ base[t].kind = "view"
        BY <1>2, <3>1 DEF IsDatabase, IsTable, IsRelation
      <4>2. base[t].cols = <<>>
        BY <4>1 DEF IsRelation
      <4>3. DOMAIN <<>> = {}
        OBVIOUS
      <4>4. IsList(base[t].key) /\ DOMAIN base[t].key = 1 .. Len(base[t].key)
            /\ Len(base[t].key) \in Nat
            /\ \A i \in DOMAIN base[t].key : \E j \in DOMAIN base[t].cols : TRUE
        BY <4>1, KeysOfRelations
      <4>5. \A i \in DOMAIN base[t].key : FALSE
        BY <4>2, <4>3, <4>4
      <4>6. Len(base[t].key) = 0
        <5>1. Len(base[t].key) \in Nat /\ 1 \notin 1 .. Len(base[t].key)
          BY <4>4, <4>5
        <5> QED
          BY <5>1
      <4> QED
        BY <3>1, <4>4, <4>6 DEF KeyOfTable, IsList
    <3> QED
      BY <3>1 DEF KeyOfTable
  <2> QED
    BY <2>4, <2>7, <2>8
<1> QED
  BY <1>1, <1>2

(* AUTOINCREMENT in the text, and the first column of the key, make the    *)
(* column that fills itself, or one that is mistaken for it.               *)
LEMMA SqliteColumnsTold ==
  ASSUME NEW base, IsDatabase("sqlite", base), NEW t,
         NEW ddl \in SqliteAnswers(base, Query("sql", t)),
         NEW rows \in SqliteAnswers(base, Query("table_info", t))
  PROVE  TellsColumns("sqlite", SqliteGetColumns(ddl, rows), base, t)
<1> DEFINE r == base[t]
           infos == SqliteGetColumns(ddl, rows)
           uses == SqliteUsesAutoincrement(ddl)
<1>1. CASE IsTable(base, t)
  <2>1. t \in DOMAIN base /\ IsRelation("sqlite", r)
    BY <1>1 DEF IsDatabase, IsTable
  <2>2. rows = SqliteTableInfo(r) /\ ddl = SqliteSql(t, r)
    BY <1>1 DEF SqliteAnswers, Query, SqliteOfTable
  <2> HIDE DEF r
  <2>3. /\ DOMAIN rows = 1 .. Len(r.cols)
        /\ \A i \in 1 .. Len(r.cols) : SqliteInfoRow(rows[i], r, i)
        /\ SqliteHas(rows, "name") = rows
    BY <2>1, <2>2, SqliteInfoRows
  <2>4. /\ DOMAIN r.cols = 1 .. Len(r.cols) /\ Len(r.cols) \in Nat
        /\ \A i \in DOMAIN r.cols :
              /\ r.cols[i].type # "" /\ r.cols[i].type # None
              /\ r.cols[i].notNull \in BOOLEAN /\ r.cols[i].auto \in BOOLEAN
              /\ r.cols[i].auto => r.cols[i].type = "INTEGER" /\ r.key # <<>> /\ r.key[1] = r.cols[i].name
        /\ \A i, j \in DOMAIN r.cols : r.cols[i].name = r.cols[j].name => i = j
    BY <2>1, ColumnsAreColumns
  <2>5. /\ \A x : InKey(r, x) => Place(r.key, x) \in 1 .. Len(r.key) /\ r.key[Place(r.key, x)] = x
        /\ \A k \in 1 .. Len(r.key) : InKey(r, r.key[k]) /\ Place(r.key, r.key[k]) = k
        /\ IsList(r.key) /\ Len(r.key) \in Nat /\ DOMAIN r.key = 1 .. Len(r.key)
    BY <2>1, PlaceInKey, KeysOfRelations
  <2>6. uses <=> (\/ \E i \in DOMAIN r.cols : r.cols[i].auto
                  \/ SqliteWords(t, r) \cap Autoincrements # {})
    <3> DEFINE said == SqliteWords(t, r)
               word == said \cup (IF \E c \in RangeOf(r.cols) : c.auto
                                  THEN {"AUTOINCREMENT"} ELSE {})
    <3>1. ddl = <<[sql |-> Text(word)]>>
      BY <2>2 DEF SqliteSql
    <3> HIDE DEF word
    <3>2. ddl # <<>> /\ ddl[1]["sql"] = Text(word)
      BY <3>1
    <3>3. Text(word).type = "string" /\ Text(word).v = word
      BY DEF Text
    <3>4. uses <=> word \cap Autoincrements # {}
      BY <3>2, <3>3 DEF SqliteUsesAutoincrement
    <3> HIDE DEF said
    <3>5. word \cap Autoincrements # {} <=>
             (\/ \E c \in RangeOf(r.cols) : c.auto
              \/ said \cap Autoincrements # {})
      BY AutoincrementsAssumption DEF word
    <3>6. (\E c \in RangeOf(r.cols) : c.auto) <=> \E i \in DOMAIN r.cols : r.cols[i].auto
      BY DEF RangeOf
    <3> QED
      BY <3>4, <3>5, <3>6 DEF said
  <2>7. DOMAIN infos = 1 .. Len(r.cols) /\ \A i \in 1 .. Len(r.cols) :
           /\ infos[i].name = SqliteRowString(rows[i], "name")
           /\ infos[i].valueType = AffinityOf(SqliteRowString(rows[i], "type"))
           /\ infos[i].nullable = (SqliteRowInteger(rows[i], "notnull", 0) = 0)
           /\ infos[i].default = SqliteRowSqlText(rows[i], "dflt_value")
           /\ infos[i].pk = (SqliteRowInteger(rows[i], "pk", 0) > 0)
           /\ infos[i].auto = (/\ uses /\ SqliteRowInteger(rows[i], "pk", 0) = 1
                               /\ SqliteRowString(rows[i], "type") = "INTEGER")
           /\ infos[i].ordinal = SqliteRowInteger(rows[i], "cid", 0)
    BY <2>3 DEF SqliteGetColumns, ColumnInfo
  <2> HIDE DEF infos, uses
  <2>8. ASSUME NEW i \in 1 .. Len(r.cols) PROVE TellsColumn("sqlite", infos[i], t, r, i)
    <3> DEFINE x == r.cols[i].name
               pos == SqliteRowInteger(rows[i], "pk", 0)
    <3>1. SqliteInfoRow(rows[i], r, i)
      BY <2>3
    <3>2. pos > 0 <=> InKey(r, x)
      BY <2>5, <3>1 DEF SqliteInfoRow
    <3>3. ASSUME r.cols[i].auto PROVE pos = 1
      <4>1. r.key # <<>> /\ r.key[1] = x
        BY <2>4, <3>3
      <4>2. 1 \in 1 .. Len(r.key)
        BY <2>5, <4>1 DEF IsList
      <4>3. InKey(r, x) /\ Place(r.key, x) = 1
        BY <2>5, <4>1, <4>2
      <4> QED
        BY <3>1, <4>3 DEF SqliteInfoRow
    <3>4. ASSUME uses, pos = 1, r.cols[i].type = "INTEGER"
          PROVE  r.cols[i].auto \/ Misread("sqlite", t, r, i)
      <4>1. InKey(r, x) /\ Place(r.key, x) = 1
        BY <3>1, <3>2, <3>4 DEF SqliteInfoRow
      <4>2. r.key[1] = x /\ r.key # <<>>
        BY <2>5, <4>1
      <4>3. CASE SqliteWords(t, r) \cap Autoincrements # {}
        BY <3>4, <4>2, <4>3 DEF Misread
      <4>4. CASE \E j \in DOMAIN r.cols : r.cols[j].auto
        <5>1. PICK j \in DOMAIN r.cols : r.cols[j].auto
          BY <4>4
        <5>2. r.key[1] = r.cols[j].name
          BY <2>4, <5>1
        <5>3. i = j
          BY <2>4, <4>2, <5>2
        <5> QED
          BY <5>1, <5>3
      <4> QED
        BY <2>6, <3>4, <4>3, <4>4
    <3>5. ASSUME Misread("sqlite", t, r, i) PROVE uses /\ pos = 1 /\ r.cols[i].type = "INTEGER"
      <4>1. SqliteWords(t, r) \cap Autoincrements # {} /\ r.cols[i].type = "INTEGER"
        BY <3>5 DEF Misread
      <4>2. r.key # <<>> /\ r.key[1] = x
        BY <3>5 DEF Misread
      <4>3. 1 \in 1 .. Len(r.key)
        BY <2>5, <4>2 DEF IsList
      <4>4. InKey(r, x) /\ Place(r.key, x) = 1
        BY <2>5, <4>2, <4>3
      <4>5. pos = 1
        BY <3>1, <4>4 DEF SqliteInfoRow
      <4> QED
        BY <2>6, <4>1, <4>5
    <3>6. infos[i].auto = (\/ r.cols[i].auto \/ Misread("sqlite", t, r, i)
                           \/ "sqlite" = "postgres" /\ r.cols[i].default = "nextval")
      <4>1. infos[i].auto \in BOOLEAN /\ r.cols[i].auto \in BOOLEAN
        BY <2>4, <2>7
      <4>2. Misread("sqlite", t, r, i) \in BOOLEAN
        BY DEF Misread
      <4>3. infos[i].auto <=> (uses /\ pos = 1 /\ r.cols[i].type = "INTEGER")
        BY <2>7, <3>1 DEF SqliteInfoRow
      <4>4. r.cols[i].auto => uses /\ pos = 1 /\ r.cols[i].type = "INTEGER"
        BY <2>4, <2>6, <3>3
      <4>5. infos[i].auto <=> (r.cols[i].auto \/ Misread("sqlite", t, r, i))
        BY <3>4, <3>5, <4>3, <4>4
      <4> QED
        BY <4>1, <4>2, <4>5
    <3>7. infos[i].nullable = ~r.cols[i].notNull
      <4>1. r.cols[i].notNull \in BOOLEAN
        BY <2>4
      <4>2. (SqliteRowInteger(rows[i], "notnull", 0) = 0) = ~r.cols[i].notNull
        BY <3>1, <4>1 DEF SqliteInfoRow
      <4>3. infos[i].nullable = (SqliteRowInteger(rows[i], "notnull", 0) = 0)
        BY <2>7
      <4> QED
        BY <4>2, <4>3
    <3>8. infos[i].pk = (x \in RangeOf(r.key))
      <4>1. infos[i].pk = (pos > 0)
        BY <2>7
      <4>2. (pos > 0) = (x \in RangeOf(r.key))
        BY <3>2 DEF InKey
      <4> QED
        BY <4>1, <4>2
    <3>9. infos[i].name = x /\ infos[i].default = r.cols[i].default /\ infos[i].ordinal = i - 1
      BY <2>7, <3>1 DEF SqliteInfoRow
    <3>10. infos[i].valueType = ValueTypeOf("sqlite", r.cols[i].type)
      BY <2>7, <3>1 DEF SqliteInfoRow, ValueTypeOf
    <3> QED
      BY <3>6, <3>7, <3>8, <3>9, <3>10 DEF TellsColumn
  <2> QED
    BY <2>1, <2>4, <2>7, <2>8 DEF TellsColumns, r, infos
<1>2. CASE ~IsTable(base, t)
  <2>1. rows = <<>>
    BY <1>2 DEF SqliteAnswers, Query
  <2>2. SqliteHas(rows, "name") = <<>>
    BY <2>1, NothingHad DEF SqliteHas
  <2>3. infos = [i \in DOMAIN <<>> |-> infos[i]]
    BY <2>2 DEF SqliteGetColumns
  <2> HIDE DEF infos
  <2>4. infos = <<>>
    BY <2>3, MadeOfNothing
  <2>5. t \in DOMAIN base => base[t].cols = <<>>
    BY <1>2 DEF IsDatabase, IsTable, IsRelation
  <2>6. DOMAIN <<>> = {}
    OBVIOUS
  <2> QED
    BY <2>4, <2>5, <2>6 DEF TellsColumns, infos
<1> QED
  BY <1>1, <1>2

-------------------------------------------------------------------------------
(*                        get_indexes, on SQLite                           *)

SqliteIndexRow(ix) == [name |-> Text(ix.name), unique |-> Flag(ix.unique)]

(* index_list tells of every index once, in some order.                    *)
LEMMA SqliteIndexesListed ==
  ASSUME NEW r, IsRelation("sqlite", r),
         NEW rows \in AnyOrder({SqliteIndexRow(ix) : ix \in r.indexes})
  PROVE  \E sorted : /\ Enumerates(sorted, r.indexes)
                     /\ IsList(rows) /\ Len(rows) = Len(sorted)
                     /\ \A i \in 1 .. Len(sorted) : rows[i] = SqliteIndexRow(sorted[i])
<1> DEFINE S == r.indexes
           f == [ix \in S |-> SqliteIndexRow(ix)]
           T == {SqliteIndexRow(ix) : ix \in S}
           sorted == [i \in 1 .. Len(rows) |-> CHOOSE ix \in S : f[ix] = rows[i]]
<1>1. /\ IsFiniteSet(S) /\ \A ix, iy \in S : ix.name = iy.name => ix = iy
  BY DEF IsRelation
<1>2. \A ix \in S : f[ix] = SqliteIndexRow(ix) /\ f[ix].name = Text(ix.name)
  BY DEF SqliteIndexRow
<1>3. f \in [S -> T] /\ \A x \in T : \E ix \in S : f[ix] = x
  OBVIOUS
<1>4. rows \in AnyOrder(T)
  OBVIOUS
<1> HIDE DEF f, T, S
<1>5. ASSUME NEW ix \in S, NEW iy \in S, f[ix] = f[iy] PROVE ix = iy
  <2>1. \A x : Text(x).v = x
    BY DEF Text
  <2>2. Text(ix.name) = Text(iy.name)
    BY <1>2, <1>5
  <2>3. ix.name = iy.name
    BY <2>1, <2>2
  <2> QED
    BY <1>1, <2>3
<1>6. IsFiniteSet(T)
  BY <1>1, <1>3, FS_Surjection DEF Surjection
<1>7. Enumerates(rows, T)
  BY <1>4, <1>6, AnyOrderEnumerates
<1>8. /\ IsList(rows) /\ Len(rows) \in Nat
      /\ \A k \in 1 .. Len(rows) : rows[k] \in T
      /\ \A x \in T : \E k \in 1 .. Len(rows) : rows[k] = x
      /\ \A j, k \in 1 .. Len(rows) : rows[j] = rows[k] => j = k
  BY <1>7, Enumerated DEF Enumerates
<1>9. ASSUME NEW i \in 1 .. Len(rows)
      PROVE  sorted[i] \in S /\ f[sorted[i]] = rows[i]
  BY <1>3, <1>8
<1>10. IsList(sorted) /\ Len(sorted) = Len(rows) /\ DOMAIN sorted = 1 .. Len(rows)
  BY <1>8, MadeList
<1>11. \A j, k \in 1 .. Len(sorted) : sorted[j] = sorted[k] => j = k
  BY <1>8, <1>9, <1>10
<1>12. RangeOf(sorted) = S
  <2>1. \A x \in RangeOf(sorted) : x \in S
    BY <1>9, <1>10 DEF RangeOf
  <2>2. ASSUME NEW ix \in S PROVE ix \in RangeOf(sorted)
    <3>1. f[ix] \in T
      BY <1>3
    <3>2. PICK k \in 1 .. Len(rows) : rows[k] = f[ix]
      BY <1>8, <3>1
    <3>3. sorted[k] = ix
      BY <1>5, <1>9, <3>2
    <3> QED
      BY <1>10, <3>3 DEF RangeOf
  <2> QED
    BY <2>1, <2>2
<1> HIDE DEF sorted
<1>13. Enumerates(sorted, S)
  BY <1>10, <1>11, <1>12, ListEnumerates
<1>14. \A i \in 1 .. Len(sorted) : rows[i] = SqliteIndexRow(sorted[i])
  BY <1>2, <1>9, <1>10
<1> QED
  BY <1>8, <1>10, <1>13, <1>14 DEF S

(* The name of an index is enough to find its columns.                     *)
LEMMA SqliteIndexFound ==
  ASSUME NEW base, IsDatabase("sqlite", base), NEW t \in DOMAIN base, NEW ix \in base[t].indexes
  PROVE  SqliteIndexInfo(base, ix.name) = [i \in DOMAIN ix.cols |-> [name |-> Text(ix.cols[i])]]
<1> DEFINE found == {x \in UNION {base[u].indexes : u \in DOMAIN base} : x.name = ix.name}
<1>1. ASSUME NEW x \in found PROVE x = ix
  <2>1. PICK u \in DOMAIN base : x \in base[u].indexes
    OBVIOUS
  <2>2. u = t
    BY <1>1, <2>1 DEF IsDatabase
  <2>3. IsRelation("sqlite", base[t])
    BY DEF IsDatabase
  <2> QED
    BY <1>1, <2>1, <2>2, <2>3 DEF IsRelation
<1>2. ix \in found
  OBVIOUS
<1>3. found # {} /\ (CHOOSE x \in found : TRUE) = ix
  BY <1>1, <1>2
<1> QED
  BY <1>3 DEF SqliteIndexInfo, Rows

LEMMA SqliteIndexesTold ==
  ASSUME NEW base, IsDatabase("sqlite", base), NEW t, NEW answers,
         answers[1] \in SqliteAnswers(base, Query("index_list", t)),
         \A i \in DOMAIN SqliteIndexQueries(answers[1]) :
            answers[i + 1] \in SqliteAnswers(base, SqliteIndexQueries(answers[1])[i])
  PROVE  TellsIndexes(SqliteGetIndexes(answers), base, t)
<1> DEFINE r == base[t]
           rows == answers[1]
           infos == SqliteGetIndexes(answers)
           members(i) == Cells(SqliteHas(answers[i + 1], "name"), SqliteRowString, "name")
<1>1. CASE IsTable(base, t)
  <2>1. t \in DOMAIN base /\ IsRelation("sqlite", r)
    BY <1>1 DEF IsDatabase, IsTable
  <2>2. rows \in AnyOrder({SqliteIndexRow(ix) : ix \in r.indexes})
    BY <1>1 DEF SqliteAnswers, Query, SqliteOfTable, SqliteIndexRow
  <2> HIDE DEF r
  <2>3. PICK sorted : /\ Enumerates(sorted, r.indexes)
                      /\ IsList(rows) /\ Len(rows) = Len(sorted)
                      /\ \A i \in 1 .. Len(sorted) : rows[i] = SqliteIndexRow(sorted[i])
    BY <2>1, <2>2, SqliteIndexesListed
  <2> DEFINE n == Len(sorted)
  <2>4. n \in Nat /\ \A i \in 1 .. n : sorted[i] \in r.indexes
    BY <2>3, Enumerated DEF Enumerates
  <2>5. DOMAIN rows = 1 .. n
    BY <2>3, ListDomain
  <2>6. ASSUME NEW i \in 1 .. n
        PROVE  LET ix == sorted[i] IN
               /\ IsList(ix.cols) /\ \A j \in 1 .. Len(ix.cols) : ix.cols[j] # None
               /\ ix.name # None /\ ix.unique \in BOOLEAN
    BY <2>1, <2>4, IndexesAreIndexes
  <2>7. ASSUME NEW i \in 1 .. n
        PROVE  /\ SqliteRowString(rows[i], "name") = sorted[i].name
               /\ (SqliteRowInteger(rows[i], "unique", 0) # 0) = sorted[i].unique
    <3>1. rows[i]["name"] = Text(sorted[i].name)
          /\ rows[i]["unique"] = Num(IF sorted[i].unique THEN 1 ELSE 0)
      <4>1. rows[i] = SqliteIndexRow(sorted[i])
        BY <2>3
      <4> HIDE DEF rows
      <4>2. /\ SqliteIndexRow(sorted[i]).name = Text(sorted[i].name)
            /\ SqliteIndexRow(sorted[i]).unique = Num(IF sorted[i].unique THEN 1 ELSE 0)
        BY DEF SqliteIndexRow, Flag
      <4> QED
        BY <4>1, <4>2
    <3>2. /\ \A x : Text(x).type = "string" /\ Text(x).v = x
          /\ \A x : Num(x).type = "integer" /\ Num(x).v = x
      BY DEF Text, Num
    <3>3. SqliteRowInteger(rows[i], "unique", 0) = IF sorted[i].unique THEN 1 ELSE 0
      BY <3>1, <3>2 DEF SqliteRowInteger
    <3> QED
      BY <2>6, <3>1, <3>2, <3>3 DEF SqliteRowString
  <2>8. SqliteHas(rows, "name") = rows
    <3>1. {i \in DOMAIN rows : SqliteRowString(rows[i], "name") # None} = DOMAIN rows
      BY <2>5, <2>6, <2>7
    <3> QED
      BY <2>3, <3>1, HavingAll DEF SqliteHas
  <2>9. SqliteIndexQueries(rows) = [i \in 1 .. n |-> Query("index_info", sorted[i].name)]
    <3>1. SqliteIndexQueries(rows) =
             [i \in 1 .. n |-> Query("index_info", SqliteRowString(rows[i], "name"))]
      BY <2>5, <2>8 DEF SqliteIndexQueries
    <3> QED
      BY <2>7, <3>1
  <2>10. ASSUME NEW i \in 1 .. n PROVE members(i) = sorted[i].cols
    <3> DEFINE ix == sorted[i]
               m == Len(ix.cols)
               told == answers[i + 1]
    <3>1. told \in SqliteAnswers(base, Query("index_info", ix.name))
      BY <2>9
    <3>2. told = [j \in DOMAIN ix.cols |-> [name |-> Text(ix.cols[j])]]
      <4>1. told = SqliteIndexInfo(base, ix.name)
        BY <3>1 DEF SqliteAnswers, Query
      <4> QED
        BY <2>1, <2>4, <4>1, SqliteIndexFound DEF r
    <3>3. /\ IsList(ix.cols) /\ m \in Nat /\ DOMAIN ix.cols = 1 .. m
          /\ \A j \in 1 .. m : ix.cols[j] # None
      BY <2>6, ListDomain
    <3> HIDE DEF ix, told, m
    <3>4. IsList(told) /\ DOMAIN told = 1 .. m
      BY <3>2, <3>3, MadeList
    <3>5. ASSUME NEW j \in 1 .. m PROVE SqliteRowString(told[j], "name") = ix.cols[j]
      <4>1. told[j]["name"] = Text(ix.cols[j])
        BY <3>2, <3>3
      <4>2. \A x : Text(x).type = "string" /\ Text(x).v = x
        BY DEF Text
      <4> QED
        BY <4>1, <4>2 DEF SqliteRowString
    <3>6. SqliteHas(told, "name") = told
      <4>1. {j \in DOMAIN told : SqliteRowString(told[j], "name") # None} = DOMAIN told
        BY <3>3, <3>4, <3>5
      <4> QED
        BY <3>4, <4>1, HavingAll DEF SqliteHas
    <3>7. Cells(told, SqliteRowString, "name") = [j \in 1 .. m |-> ix.cols[j]]
      BY <3>4, <3>5 DEF Cells
    <3>8. ix.cols = [j \in 1 .. m |-> ix.cols[j]]
      BY <3>3 DEF IsList, m
    <3> QED
      BY <3>6, <3>7, <3>8 DEF ix, told
  <2>11. infos = [i \in 1 .. n |->
                    IndexInfo(SqliteRowString(rows[i], "name"),
                              SqliteRowInteger(rows[i], "unique", 0) # 0, members(i))]
    BY <2>5, <2>8 DEF SqliteGetIndexes
  <2> HIDE DEF infos, members
  <2>12. ASSUME NEW i \in 1 .. n
         PROVE  infos[i] = IndexInfo(sorted[i].name, sorted[i].unique, sorted[i].cols)
    BY <2>7, <2>10, <2>11
  <2>13. infos = [i \in 1 .. n |-> infos[i]]
    BY <2>11
  <2> QED
    BY <2>1, <2>3, <2>12, <2>13, IndexesTold DEF r, infos
<1>2. CASE ~IsTable(base, t)
  <2>1. rows = <<>>
    BY <1>2 DEF SqliteAnswers, Query
  <2>2. SqliteHas(rows, "name") = <<>>
    BY <2>1, NothingHad DEF SqliteHas
  <2>3. infos = [i \in DOMAIN <<>> |-> infos[i]]
    BY <2>2 DEF SqliteGetIndexes
  <2> HIDE DEF infos
  <2>4. infos = <<>>
    BY <2>3, MadeOfNothing
  <2>5. t \in DOMAIN base => base[t].indexes = {}
    BY <1>2 DEF IsDatabase, IsTable, IsRelation
  <2>6. DOMAIN <<>> = {} /\ IsList(<<>>) /\ Len(<<>>) = 0 /\ RangeOf(<<>>) = {}
    BY DEF IsList, RangeOf
  <2>7. Cardinality({}) = 0
    BY FS_EmptySet
  <2> QED
    BY <2>4, <2>5, <2>6, <2>7 DEF TellsIndexes, infos
<1> QED
  BY <1>1, <1>2

-------------------------------------------------------------------------------
(*                      get_foreign_keys, on SQLite                        *)

(* The lists of the columns, in the order of the ids.                      *)
FromLastToFirst(fks) == [a \in 1 .. Len(fks) |-> fks[Len(fks) + 1 - a].cols]

SqliteKeyRow(row, fk, a, j) ==
    /\ row["id"] = Num(a - 1) /\ row["seq"] = Num(j - 1) /\ row["table"] = Text(fk.refTable)
    /\ row["from"] = Text(fk.cols[j]) /\ row["to"] = TextOrNull(fk.refCols[j])
    /\ row["on_delete"] = Text(fk.onDelete) /\ row["on_update"] = Text(fk.onUpdate)

LEMMA KeyOfColumns ==
  ASSUME NEW r, IsRelation("sqlite", r)
  PROVE  LET lists == FromLastToFirst(r.fks)
             n == Len(r.fks)
         IN  /\ n \in Nat /\ DOMAIN r.fks = 1 .. n
             /\ \A i \in 1 .. n : r.fks[i] \in RangeOf(r.fks) /\ IsForeignKey("sqlite", r.fks[i])
             /\ AreLists(lists) /\ NoneIsEmpty(lists) /\ Len(lists) = n
             /\ \A a \in 1 .. n : /\ n + 1 - a \in 1 .. n
                                  /\ lists[a] = r.fks[n + 1 - a].cols
<1> DEFINE lists == FromLastToFirst(r.fks)
           n == Len(r.fks)
<1>1. n \in Nat /\ DOMAIN r.fks = 1 .. n
  BY ListDomain DEF IsRelation
<1>2. \A i \in 1 .. n : r.fks[i] \in RangeOf(r.fks)
  BY <1>1 DEF RangeOf
<1>3. \A i \in 1 .. n : IsForeignKey("sqlite", r.fks[i])
  BY <1>2 DEF IsRelation
<1>4. \A a \in 1 .. n : n + 1 - a \in 1 .. n
  BY <1>1
<1>5. /\ \A a \in 1 .. n : lists[a] = r.fks[n + 1 - a].cols
      /\ lists = [a \in 1 .. n |-> lists[a]]
  BY DEF FromLastToFirst
<1> HIDE DEF lists
<1>6. IsList(lists) /\ Len(lists) = n
  BY <1>1, <1>5, MadeList
<1>7. ASSUME NEW a \in 1 .. n
      PROVE  IsList(lists[a]) /\ Len(lists[a]) \in Nat \ {0}
  <2>1. IsForeignKey("sqlite", r.fks[n + 1 - a])
    BY <1>3, <1>4
  <2>2. IsList(lists[a]) /\ 1 \in 1 .. Len(lists[a])
    BY <1>5, <2>1, ColumnsOfKeys
  <2>3. Len(lists[a]) \in Nat
    BY <2>2, ListDomain
  <2> QED
    BY <2>2, <2>3
<1> QED
  BY <1>1, <1>2, <1>3, <1>4, <1>5, <1>6, <1>7 DEF AreLists, NoneIsEmpty, lists

(* Every row is the row of one place, and every place has one.             *)
LEMMA SqliteKeyRows ==
  ASSUME NEW r, IsRelation("sqlite", r)
  PROVE  LET lists == FromLastToFirst(r.fks)
             n == Len(r.fks)
             S == SqliteForeignKeyRows(r)
         IN  /\ IsFiniteSet(S)
             /\ \A x \in S : \E p \in PlacesOf(lists) :
                    SqliteKeyRow(x, r.fks[n + 1 - p[1]], p[1], p[2])
             /\ \A p \in PlacesOf(lists) : \E x \in S :
                    SqliteKeyRow(x, r.fks[n + 1 - p[1]], p[1], p[2])
             /\ \A x, y \in S : x["id"] = y["id"] /\ x["seq"] = y["seq"] => x = y
<1> DEFINE lists == FromLastToFirst(r.fks)
           n == Len(r.fks)
           S == SqliteForeignKeyRows(r)
           row(i, j) ==
              [id |-> Num(n - i), seq |-> Num(j - 1),
               table |-> Text(r.fks[i].refTable), from |-> Text(r.fks[i].cols[j]),
               to |-> TextOrNull(r.fks[i].refCols[j]),
               on_delete |-> Text(r.fks[i].onDelete), on_update |-> Text(r.fks[i].onUpdate)]
<1>1. /\ n \in Nat /\ DOMAIN r.fks = 1 .. n
      /\ \A i \in 1 .. n : IsForeignKey("sqlite", r.fks[i])
      /\ AreLists(lists) /\ Len(lists) = n
      /\ \A a \in 1 .. n : n + 1 - a \in 1 .. n /\ lists[a] = r.fks[n + 1 - a].cols
  BY KeyOfColumns
<1>2. S = UNION {{row(i, j) : j \in DOMAIN r.fks[i].cols} : i \in DOMAIN r.fks}
  BY DEF SqliteForeignKeyRows
<1>3. \A i \in 1 .. n : DOMAIN r.fks[i].cols = 1 .. Len(r.fks[i].cols)
  BY <1>1, ColumnsOfKeys
<1> HIDE DEF S, lists
<1>4. \A x : x \in S <=> \E i \in 1 .. n : \E j \in 1 .. Len(r.fks[i].cols) : x = row(i, j)
  <2> HIDE DEF row
  <2>1. \A x : x \in S <=> \E i \in DOMAIN r.fks : \E j \in DOMAIN r.fks[i].cols : x = row(i, j)
    BY <1>2
  <2> QED
    BY <1>1, <1>3, <2>1
<1>5. ASSUME NEW i \in 1 .. n, NEW j \in 1 .. Len(r.fks[i].cols)
      PROVE  SqliteKeyRow(row(i, j), r.fks[i], n + 1 - i, j)
  <2>1. (n + 1 - i) - 1 = n - i
    BY <1>1
  <2> QED
    BY <2>1 DEF SqliteKeyRow
<1>6. ASSUME NEW p \in PlacesOf(lists)
      PROVE  /\ p[1] \in 1 .. n /\ p[2] \in 1 .. Len(r.fks[n + 1 - p[1]].cols)
             /\ n + 1 - p[1] \in 1 .. n /\ n + 1 - (n + 1 - p[1]) = p[1]
  <2>1. p[1] \in 1 .. n /\ p[2] \in 1 .. Len(lists[p[1]])
    BY <1>1, IsPlace
  <2>2. n + 1 - p[1] \in 1 .. n /\ lists[p[1]] = r.fks[n + 1 - p[1]].cols
    BY <1>1, <2>1
  <2>3. n + 1 - (n + 1 - p[1]) = p[1]
    BY <1>1, <2>1
  <2> QED
    BY <2>1, <2>2, <2>3
<1>7. ASSUME NEW i \in 1 .. n, NEW j \in 1 .. Len(r.fks[i].cols)
      PROVE  /\ <<n + 1 - i, j>> \in PlacesOf(lists)
             /\ n + 1 - (n + 1 - i) = i
  <2>1. n + 1 - i \in 1 .. n /\ n + 1 - (n + 1 - i) = i
    BY <1>1
  <2>2. Len(lists[n + 1 - i]) = Len(r.fks[i].cols)
    BY <1>1, <2>1
  <2> QED
    BY <1>1, <2>1, <2>2, IsPlace
<1> HIDE DEF row
<1>8. ASSUME NEW x \in S
      PROVE  \E p \in PlacesOf(lists) : SqliteKeyRow(x, r.fks[n + 1 - p[1]], p[1], p[2])
  <2>1. PICK i \in 1 .. n : \E j \in 1 .. Len(r.fks[i].cols) : x = row(i, j)
    BY <1>4
  <2>2. PICK j \in 1 .. Len(r.fks[i].cols) : x = row(i, j)
    BY <2>1
  <2> DEFINE p == <<n + 1 - i, j>>
  <2>3. p[1] = n + 1 - i /\ p[2] = j /\ p \in PlacesOf(lists) /\ n + 1 - p[1] = i
    BY <1>7
  <2> QED
    BY <1>5, <2>2, <2>3
<1>9. ASSUME NEW p \in PlacesOf(lists)
      PROVE  \E x \in S : SqliteKeyRow(x, r.fks[n + 1 - p[1]], p[1], p[2])
  <2>1. row(n + 1 - p[1], p[2]) \in S
    BY <1>4, <1>6
  <2>2. SqliteKeyRow(row(n + 1 - p[1], p[2]), r.fks[n + 1 - p[1]], n + 1 - (n + 1 - p[1]), p[2])
    BY <1>5, <1>6
  <2> QED
    BY <1>6, <2>1, <2>2
<1>10. ASSUME NEW x \in S, NEW y \in S, x["id"] = y["id"], x["seq"] = y["seq"] PROVE x = y
  <2>1. PICK i \in 1 .. n : \E j \in 1 .. Len(r.fks[i].cols) : x = row(i, j)
    BY <1>4
  <2>2. PICK j \in 1 .. Len(r.fks[i].cols) : x = row(i, j)
    BY <2>1
  <2>3. PICK k \in 1 .. n : \E l \in 1 .. Len(r.fks[k].cols) : y = row(k, l)
    BY <1>4
  <2>4. PICK l \in 1 .. Len(r.fks[k].cols) : y = row(k, l)
    BY <2>3
  <2>5. x["id"] = Num((n + 1 - i) - 1) /\ x["seq"] = Num(j - 1)
    <3>1. SqliteKeyRow(x, r.fks[i], n + 1 - i, j)
      BY <1>5, <2>2
    <3> QED
      BY <3>1 DEF SqliteKeyRow
  <2>6. y["id"] = Num((n + 1 - k) - 1) /\ y["seq"] = Num(l - 1)
    <3>1. SqliteKeyRow(y, r.fks[k], n + 1 - k, l)
      BY <1>5, <2>4
    <3> QED
      BY <3>1 DEF SqliteKeyRow
  <2>7. \A v : Num(v).v = v
    BY DEF Num
  <2>8. (n + 1 - i) - 1 = (n + 1 - k) - 1 /\ j - 1 = l - 1
    <3>1. Num((n + 1 - i) - 1) = Num((n + 1 - k) - 1) /\ Num(j - 1) = Num(l - 1)
      BY <1>10, <2>5, <2>6
    <3>2. /\ Num((n + 1 - i) - 1).v = (n + 1 - i) - 1 /\ Num((n + 1 - k) - 1).v = (n + 1 - k) - 1
          /\ Num(j - 1).v = j - 1 /\ Num(l - 1).v = l - 1
      BY <2>7
    <3> QED
      BY <3>1, <3>2
  <2>9. i = k /\ j = l
    <3>1. i \in Int /\ k \in Int /\ n \in Int /\ j \in Int /\ l \in Int
      BY <1>1
    <3> QED
      BY <2>8, <3>1
  <2> QED
    BY <2>2, <2>4, <2>9
<1>11. IsFiniteSet(S)
  <2> DEFINE f == [p \in PlacesOf(lists) |-> row(n + 1 - p[1], p[2])]
  <2>1. IsFiniteSet(PlacesOf(lists))
    BY <1>1, PlacesAreFinite
  <2>2. \A p \in PlacesOf(lists) : f[p] \in S
    BY <1>4, <1>6
  <2>3. ASSUME NEW x \in S PROVE \E p \in PlacesOf(lists) : f[p] = x
    <3>1. PICK i \in 1 .. n : \E j \in 1 .. Len(r.fks[i].cols) : x = row(i, j)
      BY <1>4
    <3>2. PICK j \in 1 .. Len(r.fks[i].cols) : x = row(i, j)
      BY <3>1
    <3> DEFINE p == <<n + 1 - i, j>>
    <3>3. p[1] = n + 1 - i /\ p[2] = j /\ p \in PlacesOf(lists) /\ n + 1 - p[1] = i
      BY <1>7
    <3>4. f[p] = row(n + 1 - p[1], p[2])
      BY <3>3
    <3> QED
      BY <3>2, <3>3, <3>4
  <2>4. f \in Surjection(PlacesOf(lists), S)
    <3>1. f = [p \in PlacesOf(lists) |-> f[p]]
      OBVIOUS
    <3> HIDE DEF f
    <3>2. f \in [PlacesOf(lists) -> S]
      BY <2>2, <3>1
    <3> QED
      BY <2>3, <3>2 DEF Surjection
  <2> QED
    BY <2>1, <2>4, FS_Surjection
<1> QED
  BY <1>8, <1>9, <1>10, <1>11 DEF S, lists

(* However the rows come, sorting them by id and seq puts every key's rows *)
(* together, in the order of its columns.                                  *)
LEMMA SqliteKeyRowsSorted ==
  ASSUME NEW r, IsRelation("sqlite", r), NEW rows \in AnyOrder(SqliteForeignKeyRows(r))
  PROVE  LET lists == FromLastToFirst(r.fks)
             n == Len(r.fks)
             at == Places(lists)
             D == DOMAIN rows
             before == {p \in D \X D :
                          \/ rows[p[1]]["id"].v < rows[p[2]]["id"].v
                          \/ /\ rows[p[1]]["id"].v = rows[p[2]]["id"].v
                             /\ rows[p[1]]["seq"].v < rows[p[2]]["seq"].v}
             sorted == Arranged(rows, before)
         IN  /\ Entries(rows) = rows
             /\ IsList(sorted) /\ Len(sorted) = Len(at)
             /\ \A k \in 1 .. Len(at) :
                   SqliteKeyRow(sorted[k], r.fks[n + 1 - at[k][1]], at[k][1], at[k][2])
<1> DEFINE lists == FromLastToFirst(r.fks)
           n == Len(r.fks)
           S == SqliteForeignKeyRows(r)
           at == Places(lists)
           m == Len(at)
           N == Len(rows)
           D == DOMAIN rows
           before == {p \in D \X D :
                        \/ rows[p[1]]["id"].v < rows[p[2]]["id"].v
                        \/ /\ rows[p[1]]["id"].v = rows[p[2]]["id"].v
                           /\ rows[p[1]]["seq"].v < rows[p[2]]["seq"].v}
           sorted == Arranged(rows, before)
           OfPlace(x, p) == SqliteKeyRow(x, r.fks[n + 1 - p[1]], p[1], p[2])
           f == [k \in 1 .. m |-> CHOOSE i \in 1 .. N : OfPlace(rows[i], at[k])]
<1>1. /\ n \in Nat /\ AreLists(lists) /\ Len(lists) = n
      /\ \A i \in 1 .. n : IsForeignKey("sqlite", r.fks[i])
      /\ \A a \in 1 .. n : n + 1 - a \in 1 .. n /\ lists[a] = r.fks[n + 1 - a].cols
  BY KeyOfColumns
<1>2. /\ IsFiniteSet(S)
      /\ \A x \in S : \E p \in PlacesOf(lists) : OfPlace(x, p)
      /\ \A p \in PlacesOf(lists) : \E x \in S : OfPlace(x, p)
      /\ \A x, y \in S : x["id"] = y["id"] /\ x["seq"] = y["seq"] => x = y
  BY SqliteKeyRows
<1>3. /\ IsList(rows) /\ N \in Nat /\ D = 1 .. N
      /\ \A i \in 1 .. N : rows[i] \in S
      /\ \A x \in S : \E i \in 1 .. N : rows[i] = x
      /\ \A i, j \in 1 .. N : rows[i] = rows[j] => i = j
  <2>1. Enumerates(rows, S)
    BY <1>2, AnyOrderEnumerates
  <2> QED
    BY <2>1, Enumerated DEF Enumerates
<1>4. ArePlaces(at, lists)
  BY <1>1, PlacesListed
<1>5. \A p \in PlacesOf(lists) : /\ p[1] \in 1 .. n /\ p[2] \in 1 .. Len(lists[p[1]])
                                 /\ p = <<p[1], p[2]>>
                                 /\ p[1] \in Int /\ p[2] \in Int
  BY <1>1, IsPlace
<1> HIDE DEF lists, S
<1>6. /\ IsList(at) /\ m \in Nat /\ DOMAIN at = 1 .. m
      /\ \A k \in 1 .. m : at[k] \in PlacesOf(lists)
      /\ \A p \in PlacesOf(lists) : \E k \in 1 .. m : at[k] = p
      /\ \A j, k \in 1 .. m : j < k => <<at[j], at[k]>> \in ListByList(PlacesOf(lists))
  <2> HIDE DEF at
  <2> QED
    BY <1>4, ListDomain DEF ArePlaces, Lists
<1>7. \A i, j \in 1 .. N : <<i, j>> \in before <=>
                       \/ rows[i]["id"].v < rows[j]["id"].v
                       \/ rows[i]["id"].v = rows[j]["id"].v /\ rows[i]["seq"].v < rows[j]["seq"].v
  BY <1>3
<1>8. f = [k \in 1 .. m |-> f[k]]
  OBVIOUS
<1> HIDE DEF at, before
(* What a row of a place says.                                             *)
<1>9. \A x, p : OfPlace(x, p) => /\ x["id"] = Num(p[1] - 1) /\ x["seq"] = Num(p[2] - 1)
                                 /\ x["id"].v = p[1] - 1 /\ x["seq"].v = p[2] - 1
                                 /\ SqliteRowString(x, "table") = r.fks[n + 1 - p[1]].refTable
                                 /\ SqliteRowString(x, "from") = r.fks[n + 1 - p[1]].cols[p[2]]
  <2>1. /\ \A x : Text(x).type = "string" /\ Text(x).v = x
        /\ \A x : Num(x).v = x
    BY DEF Text, Num
  <2> QED
    BY <2>1 DEF SqliteKeyRow, SqliteRowString
<1> HIDE DEF OfPlace
<1>10. ASSUME NEW i \in 1 .. N, NEW j \in 1 .. N, NEW p, OfPlace(rows[i], p), OfPlace(rows[j], p)
       PROVE  i = j
  <2>1. rows[i]["id"] = rows[j]["id"] /\ rows[i]["seq"] = rows[j]["seq"]
    BY <1>9, <1>10
  <2>2. rows[i] = rows[j]
    BY <1>2, <1>3, <2>1
  <2> QED
    BY <1>3, <2>2
<1>11. ASSUME NEW k \in 1 .. m
       PROVE  f[k] \in 1 .. N /\ OfPlace(rows[f[k]], at[k])
  <2>1. PICK x \in S : OfPlace(x, at[k])
    BY <1>2, <1>6
  <2>2. \E i \in 1 .. N : OfPlace(rows[i], at[k])
    BY <1>3, <2>1
  <2> QED
    BY <2>2
<1> HIDE DEF f
<1>12. ASSUME NEW i \in 1 .. N
       PROVE  \E k \in 1 .. m : f[k] = i
  <2>1. PICK p \in PlacesOf(lists) : OfPlace(rows[i], p)
    BY <1>2, <1>3
  <2>2. PICK k \in 1 .. m : at[k] = p
    BY <1>6
  <2>3. f[k] \in 1 .. N /\ OfPlace(rows[f[k]], p)
    BY <1>11, <2>2
  <2>4. f[k] = i
    BY <1>10, <2>1, <2>3
  <2> QED
    BY <2>4
<1>13. ASSUME NEW j \in 1 .. m, NEW k \in 1 .. m, j < k
       PROVE  <<f[j], f[k]>> \in before
  <2>1. \/ at[j][1] < at[k][1]
        \/ at[j][1] = at[k][1] /\ at[j][2] < at[k][2]
    BY <1>6, <1>13 DEF ListByList
  <2>2. /\ at[j][1] \in Int /\ at[j][2] \in Int /\ at[k][1] \in Int /\ at[k][2] \in Int
    BY <1>5, <1>6
  <2>3. /\ rows[f[j]]["id"].v = at[j][1] - 1 /\ rows[f[j]]["seq"].v = at[j][2] - 1
        /\ rows[f[k]]["id"].v = at[k][1] - 1 /\ rows[f[k]]["seq"].v = at[k][2] - 1
        /\ f[j] \in 1 .. N /\ f[k] \in 1 .. N
    BY <1>9, <1>11
  <2>4. \/ at[j][1] - 1 < at[k][1] - 1
        \/ at[j][1] - 1 = at[k][1] - 1 /\ at[j][2] - 1 < at[k][2] - 1
    BY <2>1, <2>2
  <2>5. \/ rows[f[j]]["id"].v < rows[f[k]]["id"].v
        \/ rows[f[j]]["id"].v = rows[f[k]]["id"].v /\ rows[f[j]]["seq"].v < rows[f[k]]["seq"].v
    BY <2>3, <2>4
  <2> QED
    BY <1>7, <2>3, <2>5
<1>14. Lists(f, m, before, 1 .. N)
  BY <1>8, <1>11, <1>12, <1>13 DEF Lists
<1>15. Orders(before, 1 .. N)
  <2>1. ASSUME NEW i \in 1 .. N
        PROVE  rows[i]["id"].v \in Int /\ rows[i]["seq"].v \in Int
    <3>1. PICK p \in PlacesOf(lists) : OfPlace(rows[i], p)
      BY <1>2, <1>3
    <3>2. p[1] \in Int /\ p[2] \in Int
      BY <1>5
    <3>3. rows[i]["id"].v = p[1] - 1 /\ rows[i]["seq"].v = p[2] - 1
      BY <1>9, <3>1
    <3> QED
      BY <3>2, <3>3
  <2>2. ASSUME NEW i \in 1 .. N, NEW j \in 1 .. N,
               rows[i]["id"].v = rows[j]["id"].v, rows[i]["seq"].v = rows[j]["seq"].v
        PROVE  i = j
    <3>1. PICK p \in PlacesOf(lists) : OfPlace(rows[i], p)
      BY <1>2, <1>3
    <3>2. PICK q \in PlacesOf(lists) : OfPlace(rows[j], q)
      BY <1>2, <1>3
    <3>3. /\ rows[i]["id"] = Num(p[1] - 1) /\ rows[i]["seq"] = Num(p[2] - 1)
          /\ rows[j]["id"] = Num(q[1] - 1) /\ rows[j]["seq"] = Num(q[2] - 1)
      BY <1>9, <3>1, <3>2
    <3>4. /\ rows[i]["id"].v = p[1] - 1 /\ rows[i]["seq"].v = p[2] - 1
          /\ rows[j]["id"].v = q[1] - 1 /\ rows[j]["seq"].v = q[2] - 1
      BY <1>9, <3>1, <3>2
    <3>5. rows[i]["id"] = rows[j]["id"] /\ rows[i]["seq"] = rows[j]["seq"]
      BY <2>2, <3>3, <3>4
    <3> QED
      BY <1>2, <1>3, <3>5
  <2> DEFINE id(i) == rows[i]["id"].v
             seq(i) == rows[i]["seq"].v
  <2>3. /\ \A i \in 1 .. N : id(i) \in Int /\ seq(i) \in Int
        /\ \A i, j \in 1 .. N : id(i) = id(j) /\ seq(i) = seq(j) => i = j
        /\ \A i, j \in 1 .. N : <<i, j>> \in before <=>
              id(i) < id(j) \/ (id(i) = id(j) /\ seq(i) < seq(j))
    BY <1>7, <2>1, <2>2
  <2> HIDE DEF id, seq
  <2>4. \A i \in 1 .. N : <<i, i>> \notin before
    BY <2>3
  <2>5. \A i, j \in 1 .. N : i # j => <<i, j>> \in before \/ <<j, i>> \in before
    BY <2>3
  <2>6. \A i, j, k \in 1 .. N :
           <<i, j>> \in before /\ <<j, k>> \in before => <<i, k>> \in before
    BY <2>3
  <2> QED
    BY <2>4, <2>5, <2>6 DEF Orders
<1>16. InOrder(D, before) = f
  BY <1>3, <1>6, <1>14, <1>15, OnlyOrder
<1>17. sorted = [k \in 1 .. m |-> rows[f[k]]]
  <2>1. DOMAIN InOrder(D, before) = 1 .. m
    BY <1>8, <1>16
  <2> QED
    BY <1>16, <2>1 DEF Arranged
<1> HIDE DEF sorted
<1>18. IsList(sorted) /\ Len(sorted) = m
  BY <1>6, <1>17, MadeList
<1>19. \A k \in 1 .. m : OfPlace(sorted[k], at[k])
  BY <1>11, <1>17
<1>20. Entries(rows) = rows
  <2>1. ASSUME NEW i \in 1 .. N
        PROVE  SqliteRowString(rows[i], "table") # None /\ SqliteRowString(rows[i], "from") # None
    <3>1. PICK p \in PlacesOf(lists) : OfPlace(rows[i], p)
      BY <1>2, <1>3
    <3> DEFINE fk == r.fks[n + 1 - p[1]]
    <3>2. IsForeignKey("sqlite", fk) /\ p[2] \in 1 .. Len(fk.cols)
      BY <1>1, <1>5
    <3>3. fk.refTable # None /\ fk.cols[p[2]] # None
      BY <3>2, ColumnsOfKeys DEF IsForeignKey, IsReference
    <3> QED
      BY <1>9, <3>1, <3>3
  <2>2. {i \in DOMAIN rows : /\ SqliteRowString(rows[i], "table") # None
                             /\ SqliteRowString(rows[i], "from") # None} = DOMAIN rows
    BY <1>3, <2>1
  <2> QED
    BY <1>3, <2>2, HavingAll DEF Entries
<1> QED
  BY <1>18, <1>19, <1>20 DEF sorted, before, at, lists, OfPlace

(* The rows of one key, read.                                              *)
SqliteRunOf(run, fk) ==
    /\ IsList(run) /\ Len(run) = Len(fk.cols) /\ DOMAIN run = 1 .. Len(fk.cols)
    /\ \A j \in 1 .. Len(fk.cols) :
          /\ SqliteRowString(run[j], "table") = fk.refTable
          /\ SqliteRowString(run[j], "from") = fk.cols[j]
          /\ SqliteRowString(run[j], "to") = fk.refCols[j]
          /\ SqliteRowString(run[j], "on_delete") = fk.onDelete
          /\ SqliteRowString(run[j], "on_update") = fk.onUpdate

LEMMA SqliteRunsTold ==
  ASSUME NEW r, IsRelation("sqlite", r), NEW rows \in AnyOrder(SqliteForeignKeyRows(r))
  PROVE  LET runs == SqliteForeignKeyRuns(rows)
             n == Len(r.fks)
         IN  /\ IsList(runs) /\ Len(runs) = n
             /\ \A a \in 1 .. n : SqliteRunOf(runs[a], r.fks[n + 1 - a])
<1> DEFINE lists == FromLastToFirst(r.fks)
           n == Len(r.fks)
           at == Places(lists)
           before == {p \in (DOMAIN rows) \X (DOMAIN rows) :
                        \/ rows[p[1]]["id"].v < rows[p[2]]["id"].v
                        \/ /\ rows[p[1]]["id"].v = rows[p[2]]["id"].v
                           /\ rows[p[1]]["seq"].v < rows[p[2]]["seq"].v}
           sorted == Arranged(rows, before)
           runs == Runs(sorted, "id")
<1>1. /\ n \in Nat /\ AreLists(lists) /\ NoneIsEmpty(lists) /\ Len(lists) = n
      /\ \A i \in 1 .. n : IsForeignKey("sqlite", r.fks[i])
      /\ \A a \in 1 .. n : n + 1 - a \in 1 .. n /\ lists[a] = r.fks[n + 1 - a].cols
  BY KeyOfColumns
<1>2. /\ Entries(rows) = rows
      /\ IsList(sorted) /\ Len(sorted) = Len(at)
      /\ \A k \in 1 .. Len(at) :
            SqliteKeyRow(sorted[k], r.fks[n + 1 - at[k][1]], at[k][1], at[k][2])
  BY SqliteKeyRowsSorted
<1>3. SqliteForeignKeyRuns(rows) = runs
  BY <1>2 DEF SqliteForeignKeyRuns
<1>4. ArePlaces(at, lists)
  BY <1>1, PlacesListed
<1> HIDE DEF sorted, at, lists
<1>5. \A k \in 1 .. Len(at) : at[k][1] \in Int
  BY <1>1, <1>4, PlaceOrder
<1>6. Tells(sorted, "id", at)
  <2>1. \A k \in 1 .. Len(at) : sorted[k]["id"] = Num(at[k][1] - 1)
    BY <1>2 DEF SqliteKeyRow
  <2>2. \A x : Num(x).v = x
    BY DEF Num
  <2>3. ASSUME NEW k \in 1 .. Len(at), NEW l \in 1 .. Len(at)
        PROVE  sorted[k]["id"] = sorted[l]["id"] <=> at[k][1] = at[l][1]
    <3>1. sorted[k]["id"] = Num(at[k][1] - 1) /\ sorted[l]["id"] = Num(at[l][1] - 1)
      BY <2>1
    <3>2. Num(at[k][1] - 1).v = at[k][1] - 1 /\ Num(at[l][1] - 1).v = at[l][1] - 1
      BY <2>2
    <3>3. at[k][1] \in Int /\ at[l][1] \in Int
      BY <1>5
    <3>4. Num(at[k][1] - 1) = Num(at[l][1] - 1) => at[k][1] = at[l][1]
      BY <3>2, <3>3
    <3> QED
      BY <3>1, <3>4
  <2> QED
    BY <2>3 DEF Tells
<1>7. RunByRun(runs, sorted, at, lists)
  BY <1>1, <1>2, <1>4, <1>6, RunsOfPlaces
<1> HIDE DEF runs
<1>8. ASSUME NEW a \in 1 .. n PROVE SqliteRunOf(runs[a], r.fks[n + 1 - a])
  <2> DEFINE run == runs[a]
             fk == r.fks[n + 1 - a]
  <2>1. /\ IsList(run) /\ Len(run) = Len(fk.cols)
        /\ \A j \in 1 .. Len(fk.cols) :
              \E k \in 1 .. Len(at) : at[k] = <<a, j>> /\ run[j] = sorted[k]
    <3>1. /\ IsList(run) /\ Len(run) = Len(lists[a])
          /\ \A j \in 1 .. Len(lists[a]) :
                \E k \in 1 .. Len(at) : at[k] = <<a, j>> /\ run[j] = sorted[k]
      BY <1>1, <1>7 DEF RunByRun
    <3>2. lists[a] = fk.cols
      BY <1>1
    <3> QED
      BY <3>1, <3>2
  <2>2. ASSUME NEW j \in 1 .. Len(fk.cols) PROVE SqliteKeyRow(run[j], fk, a, j)
    <3>1. PICK k \in 1 .. Len(at) : at[k] = <<a, j>> /\ run[j] = sorted[k]
      BY <2>1
    <3>2. at[k][1] = a /\ at[k][2] = j
      BY <3>1
    <3> QED
      BY <1>2, <3>1, <3>2
  <2>3. DOMAIN run = 1 .. Len(fk.cols)
    BY <2>1, ListDomain
  <2> HIDE DEF run, fk
  <2>4. /\ \A x : Text(x).type = "string" /\ Text(x).v = x
        /\ Null.type = "null"
    BY DEF Text, Null
  <2>5. ASSUME NEW j \in 1 .. Len(fk.cols)
        PROVE  /\ SqliteRowString(run[j], "table") = fk.refTable
               /\ SqliteRowString(run[j], "from") = fk.cols[j]
               /\ SqliteRowString(run[j], "to") = fk.refCols[j]
               /\ SqliteRowString(run[j], "on_delete") = fk.onDelete
               /\ SqliteRowString(run[j], "on_update") = fk.onUpdate
    <3>1. /\ run[j]["table"] = Text(fk.refTable)
          /\ run[j]["from"] = Text(fk.cols[j]) /\ run[j]["to"] = TextOrNull(fk.refCols[j])
          /\ run[j]["on_delete"] = Text(fk.onDelete) /\ run[j]["on_update"] = Text(fk.onUpdate)
      BY <2>2 DEF SqliteKeyRow
    <3>2. SqliteRowString(run[j], "to") = fk.refCols[j]
      BY <2>4, <3>1 DEF SqliteRowString, TextOrNull
    <3> QED
      BY <2>4, <3>1, <3>2 DEF SqliteRowString
  <2> QED
    BY <2>1, <2>3, <2>5 DEF SqliteRunOf, run, fk
<1> QED
  BY <1>1, <1>3, <1>7, <1>8 DEF RunByRun

(* The position of a member among those before it.                         *)
Smaller(B, i) == {j \in B : j < i}
UpTo(B, i)    == {j \in B : j <= i}

LEMMA CountedUpTo ==
  ASSUME NEW n \in Nat, NEW B \in SUBSET (1 .. n), NEW i \in B, NEW k \in Nat,
         Cardinality(Smaller(B, i)) = k - 1
  PROVE  Cardinality(UpTo(B, i)) = k
<1> DEFINE T == {j \in B : j < i}
<1>1. IsFiniteSet(T)
  <2>1. IsFiniteSet(1 .. n)
    BY FS_Interval
  <2> QED
    BY <2>1, FS_Subset
<1>2. i \notin T
  OBVIOUS
<1>3. {j \in B : j <= i} = T \cup {i}
  <2>1. \A j \in B : j \in Int /\ i \in Int
    OBVIOUS
  <2>2. \A j \in B : j <= i <=> j < i \/ j = i
    BY <2>1
  <2> QED
    BY <2>2
<1> HIDE DEF T
<1>4. Cardinality(T \cup {i}) = Cardinality(T) + 1
  BY <1>1, <1>2, FS_AddElement
<1>5. Cardinality(T) = k - 1
  BY DEF T, Smaller
<1> QED
  BY <1>3, <1>4, <1>5 DEF UpTo

(* A key without target columns finds, among the answers, the primary key  *)
(* of its own target: the count of such keys up to it is its query.        *)
LEMMA SqliteTargetsTold ==
  ASSUME NEW base, IsDatabase("sqlite", base), NEW answers,
         NEW runs, IsList(runs), runs = SqliteForeignKeyRuns(answers[1]),
         \A i \in DOMAIN SqliteKeyQueries(answers[1]) :
            answers[i + 1] \in SqliteAnswers(base, SqliteKeyQueries(answers[1])[i]),
         NEW i \in 1 .. Len(runs), Implicit(runs[i])
  PROVE  LET nth == Cardinality({j \in 1 .. i : Implicit(runs[j])})
         IN  SqliteGetPrimaryKey(answers[nth + 1]) =
                KeyOfTable(base, SqliteRowString(runs[i][1], "table"))
<1> DEFINE B == {j \in DOMAIN runs : Implicit(runs[j])}
           bare == Having(runs, B)
           g == InOrder(B, Ascending(B))
           m == Cardinality(B)
           nth == Cardinality({j \in 1 .. i : Implicit(runs[j])})
           asked == SqliteKeyQueries(answers[1])
<1>1. DOMAIN runs = 1 .. Len(runs) /\ Len(runs) \in Nat
  BY ListDomain
<1>2. B \in SUBSET (1 .. Len(runs)) /\ B \in SUBSET DOMAIN runs /\ i \in B
  BY <1>1
<1>3. asked = [k \in DOMAIN bare |->
                 Query("table_info", SqliteRowString(bare[k][1], "table"))]
  BY DEF SqliteKeyQueries
<1>4. {j \in 1 .. i : Implicit(runs[j])} = {j \in B : j <= i}
  <2>1. \A j : j \in 1 .. i <=> j \in 1 .. Len(runs) /\ j <= i
    BY <1>1
  <2> QED
    BY <1>1, <2>1
<1> HIDE DEF B
<1>5. /\ m \in Nat /\ IsList(bare) /\ Len(bare) = m
      /\ \A k \in 1 .. m : g[k] \in B /\ bare[k] = runs[g[k]]
      /\ \A j \in B : \E k \in 1 .. m : g[k] = j
      /\ \A k \in 1 .. m : Cardinality({j \in B : j < g[k]}) = k - 1
  BY <1>2, HavingSome
<1> HIDE DEF g, bare, asked, m
<1>6. PICK k \in 1 .. m : g[k] = i
  BY <1>2, <1>5
<1>7. nth = k
  <2>1. Cardinality(Smaller(B, i)) = k - 1
    BY <1>5, <1>6 DEF Smaller
  <2>2. k \in Nat /\ Len(runs) \in Nat /\ B \in SUBSET (1 .. Len(runs)) /\ i \in B
    BY <1>1, <1>2, <1>5
  <2>3. Cardinality(UpTo(B, i)) = k
    BY <2>1, <2>2, CountedUpTo
  <2> QED
    BY <1>4, <2>3 DEF nth, UpTo
<1> HIDE DEF nth
<1>8. DOMAIN bare = 1 .. m /\ bare[k] = runs[i]
  BY <1>5, <1>6, ListDomain
<1>9. k \in DOMAIN asked /\ asked[k] = Query("table_info", SqliteRowString(runs[i][1], "table"))
  BY <1>3, <1>8
<1>10. answers[k + 1] \in SqliteAnswers(base, Query("table_info", SqliteRowString(runs[i][1], "table")))
  BY <1>9 DEF asked
<1>11. SqliteGetPrimaryKey(answers[k + 1]) = KeyOfTable(base, SqliteRowString(runs[i][1], "table"))
  BY <1>10, SqliteKeyTold
<1> QED
  BY <1>7, <1>11 DEF nth

LEMMA SqliteForeignKeysTold ==
  ASSUME NEW base, IsDatabase("sqlite", base), NEW t, NEW answers,
         answers[1] \in SqliteAnswers(base, Query("foreign_key_list", t)),
         \A i \in DOMAIN SqliteKeyQueries(answers[1]) :
            answers[i + 1] \in SqliteAnswers(base, SqliteKeyQueries(answers[1])[i])
  PROVE  TellsForeignKeys("sqlite", SqliteGetForeignKeys(answers), base, t)
<1> DEFINE r == base[t]
           rows == answers[1]
           n == Len(r.fks)
           fk(i) == r.fks[n + 1 - i]
           runs == SqliteForeignKeyRuns(rows)
           infos == SqliteGetForeignKeys(answers)
           nth(i) == Cardinality({j \in 1 .. i : Implicit(runs[j])})
           refCols(i) == IF Implicit(runs[i]) THEN SqliteGetPrimaryKey(answers[nth(i) + 1])
                         ELSE Cells(SqliteHas(runs[i], "to"), SqliteRowString, "to")
           action(i, col) == SqliteActionOf(SqliteRowString(runs[i][1], col))
<1>0. infos = [i \in DOMAIN runs |->
                 ForeignKeyInfo(None, Cells(runs[i], SqliteRowString, "from"),
                                SqliteRowString(runs[i][1], "table"), refCols(i),
                                action(i, "on_delete"), action(i, "on_update"))]
  BY DEF SqliteGetForeignKeys
<1>1. CASE IsTable(base, t)
  <2>1. t \in DOMAIN base /\ IsRelation("sqlite", r)
    BY <1>1 DEF IsDatabase, IsTable
  <2>2. rows \in AnyOrder(SqliteForeignKeyRows(r))
    BY <1>1 DEF SqliteAnswers, Query, SqliteOfTable
  <2>3. /\ n \in Nat /\ DOMAIN r.fks = 1 .. n
        /\ \A i \in 1 .. n : r.fks[i] \in RangeOf(r.fks) /\ IsForeignKey("sqlite", r.fks[i])
        /\ \A i \in 1 .. n : n + 1 - i \in 1 .. n
    BY <2>1, KeyOfColumns
  <2>4. /\ IsList(runs) /\ Len(runs) = n
        /\ \A i \in 1 .. n : SqliteRunOf(runs[i], fk(i))
    BY <2>1, <2>2, SqliteRunsTold
  <2>5. DOMAIN runs = 1 .. n
    BY <2>4, ListDomain
  <2> HIDE DEF infos, r
  <2>6. ASSUME NEW i \in 1 .. n
        PROVE  infos[i] = TrueKey("sqlite", base, fk(i))
    <3> DEFINE run == runs[i]
               key == fk(i)
               m == Len(key.cols)
    <3>1. IsForeignKey("sqlite", key)
      BY <2>3
    <3>2. SqliteRunOf(run, key)
      BY <2>4
    <3>3. infos[i] = ForeignKeyInfo(None, Cells(run, SqliteRowString, "from"),
                                    SqliteRowString(run[1], "table"), refCols(i),
                                    action(i, "on_delete"), action(i, "on_update"))
      BY <1>0, <2>5
    <3>4. /\ IsList(key.cols) /\ 1 \in 1 .. m
          /\ IsList(key.refCols) /\ Len(key.refCols) = m /\ DOMAIN key.refCols = 1 .. m
          /\ key.onDelete \in FkActions /\ key.onUpdate \in FkActions
          /\ None \notin RangeOf(key.refCols) \/ RangeOf(key.refCols) = {None}
      BY <3>1, ColumnsOfKeys DEF IsForeignKey, IsReference
    <3>5. Implicit(run) => refCols(i) = KeyOfTable(base, SqliteRowString(run[1], "table"))
      <4> HIDE DEF runs
      <4>1. ASSUME Implicit(runs[i])
            PROVE  SqliteGetPrimaryKey(answers[nth(i) + 1]) =
                      KeyOfTable(base, SqliteRowString(runs[i][1], "table"))
        BY <2>4, <4>1, SqliteTargetsTold DEF runs
      <4> QED
        BY <4>1
    <3>6. ~Implicit(run) => refCols(i) = Cells(SqliteHas(run, "to"), SqliteRowString, "to")
      OBVIOUS
    <3> DEFINE ref == refCols(i)
               onDelete == action(i, "on_delete")
               onUpdate == action(i, "on_update")
    <3>7. /\ onDelete = SqliteActionOf(SqliteRowString(run[1], "on_delete"))
          /\ onUpdate = SqliteActionOf(SqliteRowString(run[1], "on_update"))
      OBVIOUS
    <3> HIDE DEF ref, onDelete, onUpdate, run, key
    <3>8. /\ SqliteRowString(run[1], "table") = key.refTable
          /\ SqliteRowString(run[1], "to") = key.refCols[1]
          /\ SqliteRowString(run[1], "on_delete") = key.onDelete
          /\ SqliteRowString(run[1], "on_update") = key.onUpdate
      BY <3>2, <3>4 DEF SqliteRunOf
    <3>9. Cells(run, SqliteRowString, "from") = key.cols
      <4>1. Cells(run, SqliteRowString, "from") = [j \in 1 .. m |-> key.cols[j]]
        BY <3>2 DEF SqliteRunOf, Cells
      <4> QED
        BY <3>4, <4>1 DEF IsList
    <3>10. onDelete = key.onDelete /\ onUpdate = key.onUpdate
      <4>1. \A a \in FkActions : SqliteActionOf(a) = a
        BY DEF FkActions, SqliteActionOf
      <4> QED
        BY <3>4, <3>7, <3>8, <4>1
    <3>11. Implicit(run) <=> key.refCols[1] = None
      BY <3>8 DEF Implicit
    <3>12. ref = IF key.refCols[1] = None THEN KeyOfTable(base, key.refTable) ELSE key.refCols
      <4>1. CASE Implicit(run)
        BY <3>5, <3>8, <3>11, <4>1 DEF ref, run
      <4>2. CASE ~Implicit(run)
        <5>1. \A j \in 1 .. m : key.refCols[j] # None
          <6>1. key.refCols[1] \in RangeOf(key.refCols)
            BY <3>4 DEF RangeOf
          <6>2. RangeOf(key.refCols) # {None}
            BY <3>11, <4>2, <6>1
          <6>3. None \notin RangeOf(key.refCols)
            BY <3>4, <6>2
          <6> QED
            BY <3>4, <6>3 DEF RangeOf
        <5>2. {j \in DOMAIN run : SqliteRowString(run[j], "to") # None} = DOMAIN run
          BY <3>2, <5>1 DEF SqliteRunOf
        <5>3. SqliteHas(run, "to") = run
          BY <3>2, <5>2, HavingAll DEF SqliteHas, SqliteRunOf
        <5>4. Cells(run, SqliteRowString, "to") = [j \in 1 .. m |-> key.refCols[j]]
          BY <3>2 DEF SqliteRunOf, Cells
        <5>5. Cells(run, SqliteRowString, "to") = key.refCols
          BY <3>4, <5>4 DEF IsList
        <5>6. ref = Cells(SqliteHas(run, "to"), SqliteRowString, "to")
          BY <3>6, <4>2 DEF ref, run
        <5> QED
          BY <3>11, <4>2, <5>3, <5>5, <5>6
      <4> QED
        BY <4>1, <4>2
    <3>13. infos[i] = ForeignKeyInfo(None, Cells(run, SqliteRowString, "from"),
                                     SqliteRowString(run[1], "table"), ref, onDelete, onUpdate)
      BY <3>3 DEF run, ref, onDelete, onUpdate
    <3> QED
      BY <3>8, <3>9, <3>10, <3>12, <3>13 DEF TrueKey, key
  <2>7. infos = [i \in 1 .. n |-> infos[i]]
    BY <1>0, <2>5 DEF infos
  <2>8. IsList(infos) /\ Len(infos) = n /\ DOMAIN infos = 1 .. n
    BY <2>3, <2>7, MadeList
  <2>9. RangeOf(infos) = {TrueKey("sqlite", base, x) : x \in RangeOf(r.fks)}
    <3>1. \A x \in RangeOf(infos) : x \in {TrueKey("sqlite", base, y) : y \in RangeOf(r.fks)}
      BY <2>3, <2>6, <2>8 DEF RangeOf
    <3>2. ASSUME NEW y \in RangeOf(r.fks) PROVE TrueKey("sqlite", base, y) \in RangeOf(infos)
      <4>1. PICK i \in 1 .. n : y = r.fks[i]
        BY <2>3 DEF RangeOf
      <4>2. n + 1 - i \in 1 .. n /\ n + 1 - (n + 1 - i) = i
        BY <2>3
      <4>3. infos[n + 1 - i] = TrueKey("sqlite", base, y)
        BY <2>6, <4>1, <4>2
      <4> QED
        BY <2>8, <4>2, <4>3 DEF RangeOf
    <3> QED
      BY <3>1, <3>2
  <2> QED
    BY <2>1, <2>8, <2>9 DEF TellsForeignKeys, r, infos
<1>2. CASE ~IsTable(base, t)
  <2>1. rows = <<>>
    BY <1>2 DEF SqliteAnswers, Query
  <2>2. Entries(rows) = <<>>
    BY <2>1, NothingHad DEF Entries
  <2>3. runs = <<>>
    <3> DEFINE before == {p \in (DOMAIN <<>>) \X (DOMAIN <<>>) :
                            \/ <<>>[p[1]]["id"].v < <<>>[p[2]]["id"].v
                            \/ /\ <<>>[p[1]]["id"].v = <<>>[p[2]]["id"].v
                               /\ <<>>[p[1]]["seq"].v < <<>>[p[2]]["seq"].v}
    <3>1. runs = Runs(Arranged(<<>>, before), "id")
      BY <2>2 DEF SqliteForeignKeyRuns
    <3> HIDE DEF before
    <3>2. DOMAIN InOrder(DOMAIN <<>>, before) = DOMAIN <<>>
      <4>1. DOMAIN <<>> = {} /\ DOMAIN <<>> = 1 .. 0
        OBVIOUS
      <4>2. Cardinality(DOMAIN <<>>) = 0
        BY <4>1, FS_EmptySet
      <4> QED
        BY <4>1, <4>2 DEF InOrder
    <3> DEFINE none == Arranged(<<>>, before)
    <3>3. none = [i \in DOMAIN <<>> |-> none[i]]
      BY <3>2 DEF Arranged
    <3> HIDE DEF none
    <3>4. none = <<>>
      BY <3>3, MadeOfNothing
    <3> QED
      BY <3>1, <3>4, NoRuns DEF none
  <2>4. infos = [i \in DOMAIN <<>> |-> infos[i]]
    BY <1>0, <2>3
  <2> HIDE DEF infos
  <2>5. infos = <<>>
    BY <2>4, MadeOfNothing
  <2>6. t \in DOMAIN base => base[t].fks = <<>>
    BY <1>2 DEF IsDatabase, IsTable, IsRelation
  <2>7. DOMAIN <<>> = {} /\ IsList(<<>>) /\ Len(<<>>) = 0 /\ RangeOf(<<>>) = {}
    BY DEF IsList, RangeOf
  <2> QED
    BY <2>5, <2>6, <2>7 DEF TellsForeignKeys, infos
<1> QED
  BY <1>1, <1>2

================================================================================
