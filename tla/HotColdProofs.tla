--------------------------- MODULE HotColdProofs ---------------------------
(***************************************************************************)
(* That RangeSmoother computes quantiles and that the colours of           *)
(* write_hot_cold follow the order of the errors, for any number of        *)
(* results and of limits.                                                  *)
(***************************************************************************)
EXTENDS HotCold, NatOrder

USE HotColdAssumption

-----------------------------------------------------------------------------
(* The scaled indices of RangeSmoother::new. *)

\* A scaled index is a product rounded down.
LEMMA ScaledBounds ==
  ASSUME Len(error_scores) \in Nat \ {0}, NEW i \in Nat
  PROVE  /\ Scaled(i) \in Nat
         /\ Scaled(i) * Steps <= i * Len(error_scores)
         /\ i * Len(error_scores) < (Scaled(i) + 1) * Steps
<1>1. i * Len(error_scores) \in Nat /\ Steps \in Nat \ {0}
  BY Product
<1>2. QED
  BY <1>1, Rounding DEF Scaled

\* Scaling does not turn the order of the indices round.
LEMMA ScaledMonotone ==
  ASSUME Len(error_scores) \in Nat \ {0}, NEW i \in Nat, NEW j \in Nat, i <= j
  PROVE  Scaled(i) <= Scaled(j)
<1> DEFINE n == Len(error_scores)
           p == i * n
           q == j * n
           a == Scaled(i)
           b == Scaled(j)
<1>1. n \in Nat /\ Steps \in Nat \ {0}
  OBVIOUS
<1>2. a \in Nat /\ b \in Nat /\ a * Steps <= p /\ q < (b + 1) * Steps
  BY ScaledBounds
<1>3. p \in Nat /\ q \in Nat /\ p <= q
  BY <1>1, Product, Scale
<1>4. a * Steps \in Nat /\ (b + 1) * Steps \in Nat /\ b + 1 \in Nat
  BY <1>1, <1>2, Product
<1> HIDE DEF n, p, q, a, b
<1>5. a * Steps < (b + 1) * Steps
  BY <1>2, <1>3, <1>4
<1>6. a < b + 1
  BY <1>1, <1>2, <1>4, <1>5, Cancel
<1>7. QED
  BY <1>2, <1>6 DEF a, b

\* One turn through all the limits is one turn through all the values.
LEMMA ScaledTurn ==
  ASSUME Len(error_scores) \in Nat \ {0}, NEW i \in Nat
  PROVE  Scaled(i + Steps) > Scaled(i)
<1> DEFINE n == Len(error_scores)
           a == Scaled(i)
           b == Scaled(i + Steps)
<1>1. n \in Nat \ {0} /\ Steps \in Nat \ {0} /\ i + Steps \in Nat
  OBVIOUS
<1>2. a \in Nat /\ b \in Nat /\ a * Steps <= i * n /\ (i + Steps) * n < (b + 1) * Steps
  BY <1>1, ScaledBounds
<1>3. /\ (i + Steps) * n = i * n + Steps * n
      /\ (a + n) * Steps = a * Steps + n * Steps
      /\ Steps * n = n * Steps
  BY <1>1, <1>2, Distribute, Product
<1>4. /\ i * n \in Nat /\ n * Steps \in Nat /\ a * Steps \in Nat
      /\ (b + 1) * Steps \in Nat /\ b + 1 \in Nat /\ a + n \in Nat
  BY <1>1, <1>2, Product, SMTT(30)
<1> HIDE DEF n, a, b
<1>5. (a + n) * Steps < (b + 1) * Steps
  BY <1>2, <1>3, <1>4
<1>6. a + n < b + 1
  BY <1>1, <1>4, <1>5, Cancel
<1>7. QED
  BY <1>1, <1>2, <1>6 DEF a, b

\* The inner loop ends, at the first place k where the scaled index increases.
LEMMA SourcePlace ==
  ASSUME Len(error_scores) \in Nat \ {0}, NEW i \in Nat
  PROVE  \E k \in Nat : /\ i < k
                        /\ SourceIndex(i) = Scaled(k) /\ Scaled(k) > Scaled(i)
                        /\ \A m \in Nat : i <= m /\ m < k => Scaled(m) = Scaled(i)
<1> DEFINE beyond == {j \in 0 .. Steps : Scaled(i + j) > Scaled(i)}
           first  == CHOOSE j \in beyond : \A k \in beyond : j <= k
<1>1. Steps \in beyond
  BY ScaledTurn
<1>2. beyond \subseteq Nat
  OBVIOUS
<1>3. first \in beyond /\ \A j \in beyond : first <= j
  <2> HIDE DEF beyond
  <2>1. \E j \in beyond : \A k \in beyond : j <= k
    BY <1>1, <1>2, LeastExists
  <2>2. QED
    BY <2>1
<1>4. SourceIndex(i) = Scaled(i + first)
  BY DEF SourceIndex
<1>5. first \in 0 .. Steps /\ Scaled(i + first) > Scaled(i)
  BY <1>3
<1> HIDE DEF first
<1>6. first # 0
  <2>1. first = 0 => i + first = i
    OBVIOUS
  <2>2. Scaled(i) \in Nat
    BY ScaledBounds
  <2>3. QED
    BY <1>5, <2>1, <2>2
<1>7. i + first \in Nat /\ i < i + first
  BY <1>5, <1>6
<1>8. ASSUME NEW m \in Nat, i <= m, m < i + first PROVE Scaled(m) = Scaled(i)
  <2>1. m - i \in 0 .. Steps /\ i + (m - i) = m /\ ~(first <= m - i)
    BY <1>5, <1>8
  <2>2. ~(Scaled(m) > Scaled(i))
    BY <1>3, <2>1
  <2>3. Scaled(i) <= Scaled(m) /\ Scaled(i) \in Nat /\ Scaled(m) \in Nat
    BY <1>8, ScaledMonotone, ScaledBounds
  <2>4. QED
    BY <2>2, <2>3
<1>9. QED
  BY <1>4, <1>5, <1>7, <1>8

\* The rank that the limit after i others is taken from: in the part of the
\* ranks that belongs to that limit.
LEMMA SourceRank ==
  ASSUME Len(error_scores) \in Nat \ {0}, NEW i \in Nat, i < Steps
  PROVE  LET n == Len(error_scores)
             r == SourceIndex(i)
         IN  /\ r \in 1 .. n
             /\ i * n < r * Steps
             /\ (r - 1) * Steps < (i + 1) * n
             /\ (i + 1) * n < (r + 1) * Steps
<1> DEFINE n == Len(error_scores)
           r == SourceIndex(i)
           q == Scaled(i)
           x == Scaled(i + 1)
<1>0. n \in Nat \ {0} /\ Steps \in Nat \ {0} /\ i + 1 \in Nat
  OBVIOUS
<1>1. PICK k \in Nat : /\ i < k /\ r = Scaled(k) /\ Scaled(k) > q
                       /\ \A m \in Nat : i <= m /\ m < k => Scaled(m) = q
  BY SourcePlace
<1>2. /\ q \in Nat /\ q * Steps <= i * n /\ i * n < (q + 1) * Steps
      /\ x \in Nat /\ x * Steps <= (i + 1) * n /\ (i + 1) * n < (x + 1) * Steps
      /\ r \in Nat /\ r * Steps <= k * n
  BY <1>0, <1>1, ScaledBounds
<1>3. x <= r /\ q < r
  <2>1. i + 1 <= k
    BY <1>1
  <2>2. Scaled(i + 1) <= Scaled(k)
    BY <1>0, <2>1, ScaledMonotone
  <2>3. QED
    BY <1>1, <1>2, <2>2
<1>4. /\ (i + 1) * n = i * n + n
      /\ i * n \in Nat /\ (i + 1) * n \in Nat /\ k * n \in Nat /\ Steps * n \in Nat
      /\ q * Steps \in Nat /\ (q + 1) * Steps = q * Steps + Steps
      /\ r * Steps \in Nat /\ (r + 1) * Steps = r * Steps + Steps
      /\ x * Steps \in Nat /\ (x + 1) * Steps = x * Steps + Steps
      /\ r - 1 \in Nat /\ (r - 1) * Steps \in Nat /\ (r - 1) * Steps + Steps = r * Steps
  <2> HIDE DEF n, q, r, x
  <2>1. r - 1 \in Nat
    BY <1>2, <1>3
  <2>2. \A a \in Int, b \in Int : (a + 1) * b = a * b + b
    OBVIOUS
  <2>3. (r - 1) + 1 = r
    BY <1>2
  <2>4. /\ i * n \in Nat /\ (i + 1) * n \in Nat /\ k * n \in Nat /\ Steps * n \in Nat
        /\ q * Steps \in Nat /\ r * Steps \in Nat /\ x * Steps \in Nat /\ (r - 1) * Steps \in Nat
    BY <1>0, <1>2, <2>1, Product
  <2>5. /\ (i + 1) * n = i * n + n /\ (q + 1) * Steps = q * Steps + Steps
        /\ (r + 1) * Steps = r * Steps + Steps /\ (x + 1) * Steps = x * Steps + Steps
        /\ ((r - 1) + 1) * Steps = (r - 1) * Steps + Steps
    BY <1>0, <1>2, <2>1, <2>2
  <2>6. QED
    BY <2>1, <2>3, <2>4, <2>5
<1> HIDE DEF n, q, r, x
<1>5. i * n < r * Steps
  <2>1. (q + 1) * Steps <= r * Steps
    <3>1. q + 1 <= r /\ q + 1 \in Int /\ r \in Int /\ Steps \in Nat
      BY <1>0, <1>2, <1>3
    <3>2. QED
      BY <3>1, Scale
  <2>2. \A a, b, c \in Nat : a < b /\ b <= c => a < c
    OBVIOUS
  <2>3. (q + 1) * Steps \in Nat
    BY <1>0, <1>2, <1>4
  <2>4. QED
    BY <1>2, <1>4, <2>1, <2>2, <2>3, Zenon
<1>6. (i + 1) * n < (r + 1) * Steps
  <2>1. x * Steps <= r * Steps
    <3>1. x \in Int /\ r \in Int /\ Steps \in Nat
      BY <1>0, <1>2
    <3>2. QED
      BY <1>3, <3>1, Scale
  <2>2. QED
    BY <1>0, <1>2, <1>4, <2>1
<1>7. q < n
  <2>1. i * n < Steps * n
    <3>1. i \in Int /\ Steps \in Int /\ n \in Nat \ {0}
      BY <1>0
    <3>2. QED
      BY <3>1, ScaleStrict
  <2>2. Steps * n = n * Steps
    BY <1>0, Product
  <2>3. q * Steps < n * Steps
    BY <1>2, <1>4, <2>1, <2>2, SMTT(30)
  <2>4. q \in Int /\ n \in Int
    BY <1>0, <1>2
  <2>5. QED
    BY <1>0, <2>3, <2>4, Cancel
<1>8. CASE k = i + 1
  <2>1. r * Steps <= (i + 1) * n
    BY <1>2, <1>8
  <2>2. (r - 1) * Steps < (i + 1) * n
    BY <1>0, <1>4, <2>1, SMTT(30)
  <2>3. r <= n
    <3>1. (i + 1) * n <= Steps * n
      <4>1. i + 1 <= Steps /\ i + 1 \in Int /\ Steps \in Int /\ n \in Nat
        BY <1>0
      <4>2. QED
        BY <4>1, Scale
    <3>2. Steps * n = n * Steps
      BY <1>0, Product
    <3>3. r * Steps < (n + 1) * Steps
      <4>1. (n + 1) * Steps = n * Steps + 1 * Steps
        BY <1>0, Distribute
      <4>2. 1 * Steps = Steps /\ Steps > 0
        BY <1>0
      <4>3. n * Steps \in Nat /\ Steps \in Nat
        BY <1>0, Product
      <4> DEFINE a == r * Steps
                 b == (i + 1) * n
                 c == n * Steps
                 d == (n + 1) * Steps
      <4>4. /\ a \in Nat /\ b \in Nat /\ c \in Nat
            /\ a <= b /\ b <= c /\ d = c + Steps
        BY <1>4, <2>1, <3>1, <3>2, <4>1, <4>2, <4>3
      <4> HIDE DEF a, b, c, d
      <4>5. a < d
        BY <4>2, <4>3, <4>4
      <4>6. QED
        BY <4>5 DEF a, d
    <3>4. r < n + 1
      <4>1. r \in Int /\ n + 1 \in Int
        BY <1>0, <1>2
      <4>2. QED
        BY <1>0, <3>3, <4>1, Cancel
    <3>5. QED
      BY <1>0, <1>2, <3>4
  <2>4. r \in 1 .. n
    BY <1>0, <1>2, <1>3, <2>3
  <2>5. QED
    BY <1>5, <1>6, <2>2, <2>4 DEF r, n
<1>9. CASE k # i + 1
  <2>1. x = q
    <3>1. i <= i + 1 /\ i + 1 < k
      BY <1>1, <1>9
    <3>2. QED
      BY <1>0, <1>1, <3>1 DEF x
  <2>2. n < Steps
    BY <1>0, <1>2, <1>4, <2>1
  <2>3. r = q + 1
    <3>1. k - 1 \in Nat /\ i <= k - 1 /\ k - 1 < k
      BY <1>1
    <3>2. Scaled(k - 1) = q
      BY <1>1, <3>1
    <3>3. (k - 1) * n < (q + 1) * Steps
      BY <1>0, <3>1, <3>2, ScaledBounds DEF n
    <3>4. (k - 1) * n \in Nat /\ k * n = (k - 1) * n + n
      <4>1. (k - 1) * n \in Nat
        BY <1>0, <3>1, Product
      <4>2. ((k - 1) + 1) * n = (k - 1) * n + 1 * n /\ 1 * n = n /\ (k - 1) + 1 = k
        BY <1>0, <3>1, Distribute
      <4>3. QED
        BY <4>1, <4>2
    <3>5. r * Steps < (q + 2) * Steps
      <4>1. (q + 2) * Steps = (q + 1) * Steps + Steps
        <5>1. (q + 2) * Steps = q * Steps + 2 * Steps /\ 2 * Steps = Steps + Steps
          BY <1>0, <1>2, Distribute
        <5>2. QED
          BY <1>0, <1>4, <5>1
      <4>2. QED
        BY <1>0, <1>2, <1>4, <2>2, <3>3, <3>4, <4>1
    <3>6. r < q + 2
      <4>1. r \in Int /\ q + 2 \in Int
        BY <1>2
      <4>2. QED
        BY <1>0, <3>5, <4>1, Cancel
    <3>7. QED
      BY <1>2, <1>3, <3>6
  <2>4. (r - 1) * Steps < (i + 1) * n
    <3>1. r - 1 = q
      BY <1>2, <2>3
    <3>2. QED
      BY <1>0, <1>2, <1>4, <3>1
  <2>5. r \in 1 .. n
    BY <1>0, <1>2, <1>7, <2>3
  <2>6. QED
    BY <1>5, <1>6, <2>4, <2>5 DEF r, n
<1>10. QED
  BY <1>8, <1>9

\* Later limits are taken from later ranks.
LEMMA SourceMonotone ==
  ASSUME Len(error_scores) \in Nat \ {0}, NEW i \in Nat, NEW j \in Nat, i <= j
  PROVE  SourceIndex(i) <= SourceIndex(j)
<1>1. PICK k \in Nat : /\ i < k /\ SourceIndex(i) = Scaled(k) /\ Scaled(k) > Scaled(i)
                       /\ \A m \in Nat : i <= m /\ m < k => Scaled(m) = Scaled(i)
  BY SourcePlace
<1>2. PICK l \in Nat : /\ j < l /\ SourceIndex(j) = Scaled(l)
                       /\ Scaled(l) > Scaled(j)
  BY SourcePlace
<1>3. Scaled(i) \in Nat /\ Scaled(j) \in Nat /\ Scaled(l) \in Nat /\ Scaled(k) \in Nat
  BY ScaledBounds
<1>4. Scaled(i) <= Scaled(j)
  BY ScaledMonotone
<1>5. k <= l
  <2> SUFFICES ASSUME l < k PROVE FALSE
    OBVIOUS
  <2>1. i <= l
    BY <1>2
  <2>2. Scaled(l) = Scaled(i)
    BY <1>1, <2>1
  <2>3. QED
    BY <1>2, <1>3, <1>4, <2>2
<1>6. Scaled(k) <= Scaled(l)
  BY <1>5, ScaledMonotone
<1>7. QED
  BY <1>1, <1>2, <1>6

-----------------------------------------------------------------------------
(***************************************************************************)
(* The inductive invariant: what each step has computed so far.  The       *)
(* properties of the limits and of the colours follow from it state by     *)
(* state.                                                                  *)
(***************************************************************************)
SortedInv ==
  /\ error_scores \in Seq(Int) /\ Len(error_scores) = Len(results)
  /\ \A i, j \in 1 .. Len(error_scores) : i <= j => error_scores[i] <= error_scores[j]
  /\ \A i \in 1 .. Len(error_scores) : \E k \in 1 .. Len(results) : error_scores[i] = results[k]

Shade == [red : Nat, green : Nat]

ColorsInv ==
  /\ results \in Seq(Int) /\ results # <<>>
  /\ error_scores # <<>> => SortedInv
  /\ data \in Seq(Int) /\ Len(data) <= Steps
  /\ data # <<>> => error_scores # <<>>
  /\ \A l \in 1 .. Len(data) : data[l] = error_scores[SourceIndex(l - 1)]
  /\ colors \in Seq(Shade) /\ Len(colors) <= Len(results)
  /\ colors # <<>> => Len(data) = Steps
  /\ \A k \in 1 .. Len(colors) : colors[k] = Color(results[k])

\* Nothing is computed yet.
LEMMA ColorsInit == Init => ColorsInv
<1> SUFFICES ASSUME Init PROVE ColorsInv
  OBVIOUS
<1>1. results \in Seq(Int) /\ results # <<>>
  BY DEF Init
<1>2. data \in Seq(Int) /\ Len(data) = 0 /\ Len(colors) = 0 /\ colors \in Seq(Shade)
  BY DEF Init
<1>3. Len(results) \in Nat
  BY <1>1
<1>4. QED
  BY <1>1, <1>2, <1>3 DEF Init, ColorsInv

\* Sorting keeps the errors and puts them in order.
LEMMA SortStep ==
  ASSUME ColorsInv, Sort
  PROVE  ColorsInv'
<1>1. /\ results \in Seq(Int) /\ Len(results) \in Nat /\ DOMAIN results = 1 .. Len(results)
      /\ UNCHANGED <<results, data, colors>> /\ data = <<>> /\ colors = <<>>
  <2>1. /\ results \in Seq(Int) /\ UNCHANGED <<results, data, colors>> /\ data = <<>>
        /\ colors # <<>> => Len(data) = Steps
    BY DEF ColorsInv, Sort
  <2>2. Len(data) # Steps
    BY <2>1
  <2>3. QED
    BY <2>1, <2>2
<1>2. error_scores' = Sorted(results)
  BY DEF Sort
<1>3. /\ error_scores' \in Seq(Int) /\ Len(error_scores') = Len(results)
      /\ \A i, j \in 1 .. Len(results) : i <= j => error_scores'[i] <= error_scores'[j]
      /\ \A i \in 1 .. Len(results) : \E k \in 1 .. Len(results) : error_scores'[i] = results[k]
  BY <1>1, <1>2, SortedOrder
<1>4. SortedInv'
  BY <1>1, <1>3, Zenon DEF SortedInv
<1>5. /\ data' = <<>> /\ colors' = <<>> /\ results' = results /\ results # <<>>
      /\ Len(data') = 0 /\ Len(colors') = 0 /\ data' \in Seq(Int) /\ colors' \in Seq(Shade)
  BY <1>1 DEF ColorsInv
<1>6. /\ \A l \in 1 .. Len(data') : data'[l] = error_scores'[SourceIndex(l - 1)']
      /\ \A k \in 1 .. Len(colors') : colors'[k] = Color(results[k])'
  BY <1>5
<1>7. QED
  BY <1>1, <1>4, <1>5, <1>6 DEF ColorsInv

\* A limit is the error at the source index.
LEMMA PushStep ==
  ASSUME ColorsInv, Push
  PROVE  ColorsInv'
<1> DEFINE n == Len(data)
<1>1. /\ UNCHANGED <<results, error_scores, colors>> /\ error_scores # <<>> /\ SortedInv
      /\ n < Steps /\ data' = Append(data, error_scores[SourceIndex(n)])
      /\ data \in Seq(Int) /\ n \in Nat /\ results \in Seq(Int) /\ results # <<>>
  BY DEF ColorsInv, Push
<1>2. Len(error_scores) \in Nat \ {0} /\ error_scores \in Seq(Int)
  BY <1>1 DEF SortedInv
<1>3. SourceIndex(n) \in 1 .. Len(error_scores)
  BY <1>1, <1>2, SourceRank
<1>4. error_scores[SourceIndex(n)] \in Int
  BY <1>2, <1>3
<1>5. /\ data' \in Seq(Int) /\ Len(data') = n + 1 /\ data' # <<>>
      /\ \A l \in 1 .. n : data'[l] = data[l]
      /\ data'[n + 1] = error_scores[SourceIndex(n)]
  BY <1>1, <1>4
<1>6. \A l \in 1 .. Len(data') : data'[l] = error_scores[SourceIndex(l - 1)]
  <2> SUFFICES ASSUME NEW l \in 1 .. n + 1 PROVE data'[l] = error_scores[SourceIndex(l - 1)]
    BY <1>5
  <2>1. CASE l \in 1 .. n
    BY <1>5, <2>1 DEF ColorsInv
  <2>2. CASE l = n + 1
    <3>1. l - 1 = n
      BY <1>1, <2>2
    <3>2. QED
      BY <1>5, <2>2, <3>1
  <2>3. QED
    BY <1>1, <2>1, <2>2
<1>7. colors = <<>>
  BY <1>1 DEF ColorsInv
<1>8. \A i : SourceIndex(i)' = SourceIndex(i)
  BY <1>1 DEF SourceIndex, Scaled
<1>9. SortedInv'
  BY <1>1 DEF SortedInv
<1>10. Len(data') <= Steps
  BY <1>1, <1>5
<1>11. Len(colors') = 0
  BY <1>1, <1>7
<1>12. QED
  BY <1>1, <1>2, <1>5, <1>6, <1>7, <1>8, <1>9, <1>10, <1>11, SMTT(30) DEF ColorsInv

\* Where the loop over the limits ends.
LEMMA LimitFound ==
  ASSUME data \in Seq(Int), Len(data) = Steps, NEW e \in Int
  PROVE  /\ LimitIndex(e) \in 1 .. Steps
         /\ LimitIndex(e) = Steps \/ e < data[LimitIndex(e)]
         /\ \A l \in 1 .. Steps : e < data[l] => LimitIndex(e) <= l
<1> DEFINE above == {l \in 1 .. Steps : e < data[l]}
<1>1. LimitIndex(e) = IF above = {} THEN Steps ELSE CHOOSE l \in above : \A m \in above : l <= m
  BY DEF LimitIndex
<1>2. CASE above = {}
  BY <1>1, <1>2
<1>3. CASE above # {}
  <2>1. above \subseteq Nat
    OBVIOUS
  <2>2. \E l \in above : \A m \in above : l <= m
    <3> HIDE DEF above
    <3> QED
      BY <1>3, <2>1, LeastExists
  <2>3. LimitIndex(e) \in above /\ \A m \in above : LimitIndex(e) <= m
    <3> HIDE DEF above
    <3> QED
      BY <1>1, <1>3, <2>2
  <2>4. QED
    BY <2>3
<1>4. QED
  BY <1>2, <1>3

\* The loop goes no less far for a worse result.
LEMMA LimitMonotone ==
  ASSUME data \in Seq(Int), Len(data) = Steps, NEW e \in Int, NEW f \in Int, e <= f
  PROVE  LimitIndex(e) <= LimitIndex(f)
<1>1. LimitIndex(e) \in 1 .. Steps /\ LimitIndex(f) \in 1 .. Steps
  BY LimitFound
<1>2. CASE LimitIndex(f) = Steps
  BY <1>1, <1>2
<1>3. CASE f < data[LimitIndex(f)]
  <2>1. data[LimitIndex(f)] \in Int
    BY <1>1
  <2>2. e < data[LimitIndex(f)]
    BY <1>3, <2>1
  <2>3. QED
    BY <1>1, <2>2, LimitFound
<1>4. QED
  BY <1>2, <1>3, LimitFound

\* What the conversion to a byte does: a value that fits is kept, the first that
\* does not becomes 0.
LEMMA Modulo ==
  ASSUME NEW b \in Nat \ {0}
  PROVE  /\ \A x \in Int : x % b \in Nat
         /\ \A x \in 0 .. b - 1 : x % b = x
         /\ b % b = 0
OBVIOUS

\* The bytes of a colour.
LEMMA ColorType ==
  ASSUME data \in Seq(Int), Len(data) = Steps, NEW e \in Int
  PROVE  Color(e) \in Shade
<1>1. LimitIndex(e) \in Int /\ Steps - LimitIndex(e) \in Int /\ ByteSize \in Nat \ {0}
  BY LimitFound, SMTT(30)
<1>2. LimitIndex(e) % ByteSize \in Nat /\ (Steps - LimitIndex(e)) % ByteSize \in Nat
  BY <1>1, Modulo
<1>3. QED
  BY <1>2 DEF Color, Shade

\* The next result is drawn in its colour.
LEMMA DrawStep ==
  ASSUME ColorsInv, Draw
  PROVE  ColorsInv'
<1> DEFINE n == Len(colors)
           c == Color(results[n + 1])
<1>1. /\ UNCHANGED <<results, error_scores, data>> /\ Len(data) = Steps /\ data \in Seq(Int)
      /\ n < Len(results) /\ colors' = Append(colors, c)
      /\ colors \in Seq(Shade) /\ results \in Seq(Int)
  BY DEF ColorsInv, Draw
<1>2. n \in Nat /\ Len(results) \in Nat /\ results[n + 1] \in Int
  BY <1>1
<1>3. c \in Shade
  BY <1>1, <1>2, ColorType
<1> HIDE DEF c
<1>4. /\ colors' \in Seq(Shade) /\ Len(colors') = n + 1
      /\ \A k \in 1 .. n : colors'[k] = colors[k]
      /\ colors'[n + 1] = c
  BY <1>1, <1>2, <1>3
<1>5. \A k \in 1 .. Len(colors') : colors'[k] = Color(results[k])
  <2> SUFFICES ASSUME NEW k \in 1 .. n + 1 PROVE colors'[k] = Color(results[k])
    BY <1>4
  <2>1. CASE k \in 1 .. n
    BY <1>4, <2>1 DEF ColorsInv
  <2>2. CASE k = n + 1
    BY <1>4, <2>2 DEF c
  <2>3. QED
    BY <1>2, <2>1, <2>2
<1>6. \A e : Color(e)' = Color(e) /\ SourceIndex(e)' = SourceIndex(e)
  BY <1>1 DEF Color, LimitIndex, SourceIndex, Scaled
<1>7. error_scores # <<>> => SortedInv'
  BY <1>1 DEF ColorsInv, SortedInv
<1>8. Len(colors') <= Len(results)
  BY <1>1, <1>2, <1>4
<1>9. QED
  BY <1>1, <1>4, <1>5, <1>6, <1>7, <1>8 DEF ColorsInv

\* Every step of write_hot_cold keeps what the earlier ones computed.
LEMMA ColorsInvariant == Spec => []ColorsInv
<1>1. ColorsInv /\ [Next]_vars => ColorsInv'
  <2> SUFFICES ASSUME ColorsInv, [Next]_vars PROVE ColorsInv'
    OBVIOUS
  <2>1. CASE UNCHANGED vars
    <3>1. \A e : Color(e)' = Color(e) /\ SourceIndex(e)' = SourceIndex(e)
      BY <2>1 DEF vars, Color, LimitIndex, SourceIndex, Scaled
    <3>2. QED
      BY <2>1, <3>1 DEF vars, ColorsInv, SortedInv
  <2>2. QED
    BY <2>1, SortStep, PushStep, DrawStep DEF Next
<1>2. QED
  BY <1>1, ColorsInit, PTL DEF Spec

-----------------------------------------------------------------------------
(* What the invariant says of the limits and of the colours. *)

\* The facts of a state in which a limit has been stored.
LEMMA LimitsKnown ==
  ASSUME ColorsInv, data # <<>>
  PROVE  /\ SortedInv /\ error_scores \in Seq(Int) /\ Len(error_scores) \in Nat \ {0}
         /\ DOMAIN error_scores = 1 .. Len(error_scores)
         /\ data \in Seq(Int) /\ DOMAIN data = 1 .. Len(data) /\ Len(data) \in Nat
         /\ Len(data) <= Steps
         /\ \A l \in 1 .. Len(data) : data[l] = error_scores[SourceIndex(l - 1)]
<1>1. SortedInv /\ error_scores # <<>>
  BY DEF ColorsInv
<1>2. error_scores \in Seq(Int)
  BY <1>1 DEF SortedInv
<1>3. Len(error_scores) \in Nat \ {0} /\ DOMAIN error_scores = 1 .. Len(error_scores)
  BY <1>1, <1>2
<1>4. data \in Seq(Int)
  BY DEF ColorsInv
<1>5. QED
  BY <1>1, <1>2, <1>3, <1>4 DEF ColorsInv

\* The limits are quantiles, for any number of errors and of limits: the inner
\* loop of RangeSmoother::new ends one past the rank it needs whether the
\* scaled index skips ranks or repeats them.
THEOREM LimitsAreQuantiles == Spec => []Quantiles
<1>1. ColorsInv => Quantiles
  <2> SUFFICES ASSUME ColorsInv, NEW l \in DOMAIN data
               PROVE  \E rank \in DOMAIN error_scores :
                        /\ data[l] = error_scores[rank]
                        /\ (l - 1) * Len(error_scores) < rank * Steps
                        /\ (rank - 1) * Steps < l * Len(error_scores)
                        /\ l * Len(error_scores) < (rank + 1) * Steps
    BY DEF Quantiles
  <2>1. data # <<>>
    OBVIOUS
  <2>2. /\ Len(error_scores) \in Nat \ {0} /\ DOMAIN error_scores = 1 .. Len(error_scores)
        /\ l \in 1 .. Len(data) /\ Len(data) \in Nat /\ Len(data) <= Steps
        /\ data[l] = error_scores[SourceIndex(l - 1)]
    BY <2>1, LimitsKnown
  <2>3. l - 1 \in Nat /\ l - 1 < Steps /\ (l - 1) + 1 = l
    BY <2>2
  <2> DEFINE rank == SourceIndex(l - 1)
  <2>4. /\ rank \in 1 .. Len(error_scores)
        /\ (l - 1) * Len(error_scores) < rank * Steps
        /\ (rank - 1) * Steps < l * Len(error_scores)
        /\ l * Len(error_scores) < (rank + 1) * Steps
    BY <2>2, <2>3, SourceRank
  <2> HIDE DEF rank
  <2>5. data[l] = error_scores[rank]
    BY <2>2 DEF rank
  <2>6. QED
    BY <2>2, <2>4, <2>5
<1>2. QED
  BY <1>1, ColorsInvariant, PTL

\* The facts of a result that has been drawn.
LEMMA DrawnKnown ==
  ASSUME ColorsInv, NEW k \in DOMAIN colors
  PROVE  /\ k \in DOMAIN results /\ results[k] \in Int
         /\ Len(data) = Steps /\ data \in Seq(Int) /\ data # <<>>
         /\ colors[k].red = LimitIndex(results[k]) % ByteSize
         /\ colors[k].green = (Steps - LimitIndex(results[k])) % ByteSize
         /\ LimitIndex(results[k]) \in 1 .. Steps
<1>1. /\ results \in Seq(Int) /\ colors \in Seq(Shade) /\ colors # <<>>
      /\ Len(colors) <= Len(results) /\ data \in Seq(Int) /\ Len(data) = Steps
  BY DEF ColorsInv
<1>2. k \in 1 .. Len(colors) /\ Len(colors) \in Nat /\ Len(results) \in Nat
  BY <1>1
<1>3. k \in DOMAIN results /\ results[k] \in Int
  BY <1>1, <1>2
<1>4. colors[k] = Color(results[k])
  BY <1>2 DEF ColorsInv
<1>5. LimitIndex(results[k]) \in 1 .. Steps
  BY <1>1, <1>3, LimitFound
<1>6. data # <<>>
  BY <1>1
<1>7. QED
  BY <1>1, <1>3, <1>4, <1>5, <1>6 DEF Color

\* A result is never drawn less green than a worse one, as long as the limits
\* are no more than a byte counts; the code has 256 of them.
THEOREM GreenFollowsRank ==
  ASSUME Steps <= ByteSize
  PROVE  Spec => []GreenByRank
<1>1. ColorsInv => GreenByRank
  <2> SUFFICES ASSUME ColorsInv, NEW k \in DOMAIN colors, NEW l \in DOMAIN colors,
                      results[k] <= results[l]
               PROVE  colors[k].green >= colors[l].green
    BY DEF GreenByRank
  <2> DEFINE a == LimitIndex(results[k])
             b == LimitIndex(results[l])
  <2>1. /\ results[k] \in Int /\ results[l] \in Int
        /\ Len(data) = Steps /\ data \in Seq(Int)
        /\ a \in 1 .. Steps /\ b \in 1 .. Steps
        /\ colors[k].green = (Steps - a) % ByteSize /\ colors[l].green = (Steps - b) % ByteSize
    BY DrawnKnown
  <2>2. a <= b
    BY <2>1, LimitMonotone
  <2> HIDE DEF a, b
  <2>3. Steps - a \in 0 .. ByteSize - 1 /\ Steps - b \in 0 .. ByteSize - 1
    BY <2>1, SMTT(30)
  <2>4. (Steps - a) % ByteSize = Steps - a /\ (Steps - b) % ByteSize = Steps - b
    BY <2>3, Modulo
  <2>5. colors[k].green = Steps - a /\ colors[l].green = Steps - b
    BY <2>1, <2>4
  <2>6. QED
    BY <2>1, <2>2, <2>5
<1>2. QED
  BY <1>1, ColorsInvariant, PTL
=============================================================================
