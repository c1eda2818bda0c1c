------------------------------ MODULE NatOrder ------------------------------
(***************************************************************************)
(* Facts that several proofs use: products and quotients, the least and    *)
(* the greatest of some naturals, and what stable sorting returns.         *)
(***************************************************************************)
EXTENDS Ordering, FiniteSetTheorems, WellFoundedInduction, TLAPS

-----------------------------------------------------------------------------
(* Arithmetic: rounding down and products. *)

\* A quotient rounded down, in terms of products.
LEMMA Rounding ==
  ASSUME NEW a \in Nat, NEW b \in Nat \ {0}
  PROVE  /\ a \div b \in Nat
         /\ (a \div b) * b <= a
         /\ a < (a \div b + 1) * b
OBVIOUS

\* What is left when a quotient is rounded down.
LEMMA Remainder ==
  ASSUME NEW a \in Nat, NEW b \in Nat \ {0}
  PROVE  a % b \in 0 .. b - 1 /\ a = b * (a \div b) + (a % b)
OBVIOUS

\* A common positive factor is dropped from a strict inequality.
LEMMA Cancel ==
  ASSUME NEW a \in Int, NEW b \in Int, NEW s \in Nat \ {0}, a * s < b * s
  PROVE  a < b
OBVIOUS

\* Products keep the order.
LEMMA Scale ==
  ASSUME NEW a \in Int, NEW b \in Int, NEW s \in Nat, a <= b
  PROVE  a * s <= b * s
OBVIOUS

\* Products with a positive factor keep the strict order.
LEMMA ScaleStrict ==
  ASSUME NEW a \in Int, NEW b \in Int, NEW s \in Nat \ {0}, a < b
  PROVE  a * s < b * s
OBVIOUS

\* A product of a sum is the sum of the products.
LEMMA Distribute ==
  ASSUME NEW a \in Int, NEW b \in Int, NEW s \in Int
  PROVE  (a + b) * s = a * s + b * s
OBVIOUS

\* A product of naturals is a natural, in either order.
LEMMA Product == \A a, b \in Nat : a * b \in Nat /\ a * b = b * a
OBVIOUS

-----------------------------------------------------------------------------
(* Least and greatest elements. *)

\* A set of naturals that is not empty has a least element.
LEMMA LeastExists ==
  ASSUME NEW S, S \subseteq Nat, S # {}
  PROVE  \E x \in S : \A y \in S : x <= y
<1>1. PICK x \in S : \A y \in S : ~(<<y, x>> \in OpToRel(<, Nat))
  BY NatLessThanWellFounded, WFMin
<1>2. \A y \in S : ~(y < x)
  BY <1>1 DEF OpToRel
<1>3. QED
  BY <1>2

\* What holds of 0 and, with every number, of the next holds up to any number.
LEMMA UpTo ==
  ASSUME NEW N \in Nat, NEW G, 0 \in G, \A n \in 1 .. N : n - 1 \in G => n \in G
  PROVE  \A n \in 0 .. N : n \in G
<1> DEFINE Odd == {n \in 0 .. N : n \notin G}
<1> SUFFICES ASSUME Odd # {} PROVE FALSE
  OBVIOUS
<1>1. PICK k \in Odd : \A n \in Odd : k <= n
  <2>1. Odd \subseteq Nat
    OBVIOUS
  <2> HIDE DEF Odd
  <2>2. QED
    BY <2>1, LeastExists
<1>2. k \in 1 .. N /\ k \notin G
  OBVIOUS
<1>3. k - 1 \in 0 .. N /\ ~(k <= k - 1)
  BY <1>2
<1>4. k - 1 \in G
  BY <1>1, <1>3
<1>5. QED
  BY <1>2, <1>4

\* A set of naturals that has a bound and is not empty has a greatest element.
LEMMA GreatestExists ==
  ASSUME NEW S, NEW n \in Nat, S \subseteq 0 .. n, S # {}
  PROVE  \E x \in S : \A y \in S : y <= x
<1> DEFINE T == {n - x : x \in S}
<1>1. T \subseteq Nat /\ T # {}
  <2>1. \A x \in S : x \in 0 .. n /\ n - x \in Nat
    OBVIOUS
  <2>2. T \subseteq Nat
    BY <2>1
  <2>3. T # {}
    OBVIOUS
  <2>4. QED
    BY <2>2, <2>3
<1>2. PICK t \in T : \A r \in T : t <= r
  <2> HIDE DEF T
  <2> QED
    BY <1>1, LeastExists
<1>3. PICK x \in S : t = n - x
  OBVIOUS
<1>4. ASSUME NEW y \in S PROVE y <= x
  <2>1. n - y \in T
    OBVIOUS
  <2>2. n - x <= n - y
    BY <1>2, <1>3, <2>1
  <2>3. x \in 0 .. n /\ y \in 0 .. n
    OBVIOUS
  <2>4. QED
    BY <2>2, <2>3
<1>5. QED
  BY <1>4

\* Least picks the least element.
LEMMA LeastIsLeast ==
  ASSUME NEW S, S \subseteq Nat, S # {}
  PROVE  Least(S) \in S /\ \A y \in S : Least(S) <= y
<1>1. \E x \in S : \A y \in S : x <= y
  BY LeastExists
<1>2. QED
  BY <1>1 DEF Least

\* Greatest picks the greatest element.
LEMMA GreatestIsGreatest ==
  ASSUME NEW S, NEW n \in Nat, S \subseteq 0 .. n, S # {}
  PROVE  Greatest(S) \in S /\ \A y \in S : y <= Greatest(S)
<1>1. \E x \in S : \A y \in S : y <= x
  BY GreatestExists
<1>2. QED
  BY <1>1 DEF Greatest

\* There is one least element.
LEMMA LeastUnique ==
  ASSUME NEW S, S \subseteq Nat, NEW x \in S, \A y \in S : x <= y
  PROVE  Least(S) = x
<1>1. Least(S) \in S /\ \A y \in S : Least(S) <= y
  BY LeastIsLeast
<1>2. x <= Least(S) /\ Least(S) <= x /\ x \in Nat /\ Least(S) \in Nat
  BY <1>1
<1>3. QED
  BY <1>2

\* There is one greatest element.
LEMMA GreatestUnique ==
  ASSUME NEW S, NEW n \in Nat, S \subseteq 0 .. n, NEW x \in S, \A y \in S : y <= x
  PROVE  Greatest(S) = x
<1>1. Greatest(S) \in S /\ \A y \in S : y <= Greatest(S)
  BY GreatestIsGreatest
<1>2. x <= Greatest(S) /\ Greatest(S) <= x
  BY <1>1
<1>3. x \in 0 .. n /\ Greatest(S) \in 0 .. n
  BY <1>1
<1>4. QED
  BY <1>2, <1>3

-----------------------------------------------------------------------------
(* Stable sorting. *)

\* The m-th member is not sorted after the k-th.
NoLater(key, k, m) == key[k] < key[m] \/ (key[k] = key[m] /\ k <= m)

Earlier(key, m) == {k \in DOMAIN key : NoLater(key, k, m)}

\* The order of sorting is total.
LEMMA NoLaterTotal ==
  ASSUME NEW N \in Nat, NEW key \in [1 .. N -> Int]
  PROVE  /\ \A a, b \in 1 .. N : NoLater(key, a, b) \/ NoLater(key, b, a)
         /\ \A a, b \in 1 .. N : NoLater(key, a, b) /\ NoLater(key, b, a) => a = b
         /\ \A a, b, c \in 1 .. N : NoLater(key, a, b) /\ NoLater(key, b, c) => NoLater(key, a, c)
<1>1. \A a \in 1 .. N : key[a] \in Int /\ a \in Int
  OBVIOUS
<1>2. ASSUME NEW a \in 1 .. N, NEW b \in 1 .. N
      PROVE  /\ NoLater(key, a, b) \/ NoLater(key, b, a)
             /\ NoLater(key, a, b) /\ NoLater(key, b, a) => a = b
  BY <1>1 DEF NoLater
<1>3. ASSUME NEW a \in 1 .. N, NEW b \in 1 .. N, NEW c \in 1 .. N,
             NoLater(key, a, b), NoLater(key, b, c)
      PROVE  NoLater(key, a, c)
  BY <1>1, <1>3 DEF NoLater
<1>4. QED
  BY <1>2, <1>3

\* A place is a place in the sequence, and the later of two members has the
\* later place.
LEMMA PlaceRises ==
  ASSUME NEW N \in Nat, NEW key \in [1 .. N -> Int]
  PROVE  /\ \A m \in 1 .. N : Place(key, m) \in 1 .. N
         /\ \A a, b \in 1 .. N : a # b /\ NoLater(key, a, b) => Place(key, a) < Place(key, b)
<1>1. IsFiniteSet(1 .. N) /\ Cardinality(1 .. N) = N
  BY FS_Interval
<1>2. \A m : Earlier(key, m) \in SUBSET (1 .. N) /\ Place(key, m) = Cardinality(Earlier(key, m))
  BY DEF Earlier, Place, NoLater
<1>3. \A m \in 1 .. N : /\ IsFiniteSet(Earlier(key, m)) /\ Place(key, m) \in Nat
                       /\ Place(key, m) <= N
  BY <1>1, <1>2, FS_Subset, FS_CardinalityType
<1>4. \A m \in 1 .. N : m \in Earlier(key, m)
  BY NoLaterTotal DEF Earlier
<1>5. \A m \in 1 .. N : Place(key, m) # 0
  BY <1>2, <1>3, <1>4, FS_EmptySet
<1>6. ASSUME NEW a \in 1 .. N, NEW b \in 1 .. N, a # b, NoLater(key, a, b)
      PROVE  Place(key, a) < Place(key, b)
  <2>1. Earlier(key, a) \subseteq Earlier(key, b)
    BY <1>6, NoLaterTotal DEF Earlier
  <2>2. b \notin Earlier(key, a)
    BY <1>6, NoLaterTotal DEF Earlier
  <2>3. Earlier(key, a) # Earlier(key, b)
    BY <1>4, <2>2
  <2>4. Place(key, a) <= Place(key, b) /\ Place(key, a) # Place(key, b)
    BY <1>2, <1>3, <2>1, <2>3, FS_Subset
  <2>5. QED
    BY <1>3, <2>4
<1>7. QED
  BY <1>3, <1>5, <1>6

\* Every place is taken.
LEMMA PlaceTaken ==
  ASSUME NEW N \in Nat, NEW key \in [1 .. N -> Int]
  PROVE  \A n \in 1 .. N : \E m \in 1 .. N : Place(key, m) = n
<1> DEFINE f == [m \in 1 .. N |-> Place(key, m)]
<1>1. f \in [1 .. N -> 1 .. N] /\ \A m \in 1 .. N : f[m] = Place(key, m)
  BY PlaceRises
<1>2. ASSUME NEW a \in 1 .. N, NEW b \in 1 .. N, f[a] = f[b]
      PROVE  a = b
  <2>1. Place(key, a) = Place(key, b) /\ Place(key, a) \in 1 .. N
    BY <1>1, <1>2
  <2>2. ~(Place(key, a) < Place(key, b)) /\ ~(Place(key, b) < Place(key, a))
    BY <2>1
  <2>3. QED
    BY <2>2, PlaceRises, NoLaterTotal
<1> HIDE DEF f
<1>3. f \in Injection(1 .. N, 1 .. N)
  BY <1>1, <1>2 DEF Injection, IsInjective
<1>4. IsFiniteSet(1 .. N)
  BY FS_Interval
<1>5. f \in Surjection(1 .. N, 1 .. N)
  BY <1>3, <1>4, FS_Injection
<1>6. QED
  BY <1>1, <1>5 DEF Surjection

\* Sorting orders the indices by key, equal ones as they were, and leaves none
\* out.
LEMMA SortPermutes ==
  ASSUME NEW N \in Nat, NEW key \in [1 .. N -> Int]
  PROVE  LET order == StableSort(key)
         IN  /\ order \in [1 .. N -> 1 .. N]
             /\ \A n \in 1 .. N : Place(key, order[n]) = n
             /\ \A m \in 1 .. N : \E n \in 1 .. N : order[n] = m
             /\ \A p, q \in 1 .. N : p < q => order[p] # order[q] /\ NoLater(key, order[p], order[q])
<1> DEFINE order == StableSort(key)
<1>1. \A n \in 1 .. N : order[n] = CHOOSE m \in 1 .. N : Place(key, m) = n
  BY DEF StableSort
<1>2. \A n \in 1 .. N : order[n] \in 1 .. N /\ Place(key, order[n]) = n
  <2> SUFFICES ASSUME NEW n \in 1 .. N PROVE order[n] \in 1 .. N /\ Place(key, order[n]) = n
    OBVIOUS
  <2>1. \E m \in 1 .. N : Place(key, m) = n
    BY PlaceTaken
  <2>2. order[n] = CHOOSE m \in 1 .. N : Place(key, m) = n
    BY <1>1
  <2> HIDE DEF order
  <2>3. QED
    BY <2>1, <2>2
<1>3. order \in [1 .. N -> 1 .. N]
  <2>1. order = [n \in 1 .. N |-> order[n]]
    BY DEF StableSort
  <2>2. QED
    BY <1>2, <2>1
<1> HIDE DEF order
<1>4. ASSUME NEW m \in 1 .. N PROVE \E n \in 1 .. N : order[n] = m
  <2> DEFINE n == Place(key, m)
  <2>1. n \in 1 .. N
    BY PlaceRises
  <2>2. order[n] \in 1 .. N /\ Place(key, order[n]) = n
    BY <1>2, <2>1
  <2>3. ~(Place(key, m) < Place(key, order[n])) /\ ~(Place(key, order[n]) < Place(key, m))
    BY <2>1, <2>2
  <2>4. order[n] = m
    BY <2>2, <2>3, PlaceRises, NoLaterTotal
  <2>5. QED
    BY <2>1, <2>4
<1>5. ASSUME NEW p \in 1 .. N, NEW q \in 1 .. N, p < q
      PROVE  order[p] # order[q] /\ NoLater(key, order[p], order[q])
  <2>1. order[p] # order[q]
    BY <1>2, <1>5
  <2>2. ~(q < p)
    BY <1>5
  <2>3. ~(Place(key, order[q]) < Place(key, order[p]))
    BY <1>2, <2>2
  <2>4. QED
    BY <1>2, <2>1, <2>3, PlaceRises, NoLaterTotal
<1>6. QED
  BY <1>2, <1>3, <1>4, <1>5 DEF order

\* A sorted sequence has the members it had, in order.
LEMMA SortedOrder ==
  ASSUME NEW s \in Seq(Int)
  PROVE  /\ Sorted(s) \in Seq(Int) /\ Len(Sorted(s)) = Len(s)
         /\ \A p, q \in 1 .. Len(s) : p <= q => Sorted(s)[p] <= Sorted(s)[q]
         /\ \A n \in 1 .. Len(s) : \E m \in 1 .. Len(s) : Sorted(s)[n] = s[m]
         /\ \A m \in 1 .. Len(s) : \E n \in 1 .. Len(s) : Sorted(s)[n] = s[m]
<1> DEFINE N == Len(s)
           order == StableSort(s)
           t == Sorted(s)
<1>1. N \in Nat /\ s \in [1 .. N -> Int] /\ DOMAIN s = 1 .. N
  OBVIOUS
<1>2. t = [n \in 1 .. N |-> s[order[n]]]
  BY <1>1 DEF Sorted
<1> HIDE DEF N, order
<1>3. /\ order \in [1 .. N -> 1 .. N]
      /\ \A m \in 1 .. N : \E n \in 1 .. N : order[n] = m
      /\ \A p, q \in 1 .. N : p < q => NoLater(s, order[p], order[q])
  BY <1>1, SortPermutes DEF order
<1> HIDE DEF t
<1>4. \A n \in 1 .. N : order[n] \in 1 .. N /\ t[n] = s[order[n]] /\ s[order[n]] \in Int
  BY <1>1, <1>2, <1>3
<1>5. t \in Seq(Int) /\ Len(t) = N
  BY <1>1, <1>2, <1>4
<1>6. ASSUME NEW p \in 1 .. N, NEW q \in 1 .. N, p <= q PROVE t[p] <= t[q]
  <2>1. CASE p = q
    BY <1>4, <2>1
  <2>2. CASE p < q
    <3>1. NoLater(s, order[p], order[q])
      BY <1>3, <2>2
    <3>2. s[order[p]] < s[order[q]] \/ s[order[p]] = s[order[q]]
      BY <3>1 DEF NoLater
    <3>3. t[p] = s[order[p]] /\ t[q] = s[order[q]] /\ t[p] \in Int /\ t[q] \in Int
      BY <1>4
    <3>4. \A a, b \in Int : a < b \/ a = b => a <= b
      OBVIOUS
    <3>5. QED
      BY <3>2, <3>3, <3>4, Zenon
  <2>3. QED
    BY <1>6, <2>1, <2>2
<1>7. QED
  BY <1>3, <1>4, <1>5, <1>6 DEF N, t
=============================================================================
