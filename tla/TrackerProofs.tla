------------------------------ MODULE TrackerProofs ------------------------------
(***************************************************************************)
(* What each method of the pass tracker does and preserves, for every      *)
(* tracker the type admits: its type, the partition of the segment ids     *)
(* over the four places a segment can be in, the absence of double misses, *)
(* and the fields each method touches.  The pipelines of one and of        *)
(* several objects use it.                                                 *)
(***************************************************************************)
EXTENDS PassTracker, FiniteSetTheorems, FunctionTheorems, TLAPS

-----------------------------------------------------------------------------
(* Sorted puts a finite set in order.  The order is given as a set of      *)
(* pairs; Ranked is Sorted for such an order.                              *)

IsOrder(S, R) ==
  /\ \A x \in S : <<x, x>> \notin R
  /\ \A x, y \in S : x # y => <<x, y>> \in R \/ <<y, x>> \in R
  /\ \A x, y, z \in S : <<x, y>> \in R /\ <<y, z>> \in R => <<x, z>> \in R

Below(S, R, x) == { y \in S : <<y, x>> \in R }

Ranked(S, R) ==
  [ n \in 1 .. Cardinality(S) |-> CHOOSE x \in S : Cardinality(Below(S, R, x)) = n - 1 ]

LEMMA BelowGrows ==
  ASSUME NEW S, IsFiniteSet(S), NEW R, IsOrder(S, R), NEW x \in S, NEW y \in S, <<x, y>> \in R
  PROVE  /\ Cardinality(Below(S, R, x)) \in Nat /\ Cardinality(Below(S, R, y)) \in Nat
         /\ Cardinality(Below(S, R, x)) < Cardinality(Below(S, R, y))
<1>1. Below(S, R, x) \subseteq Below(S, R, y)
  BY DEF Below, IsOrder
<1>2. x \in Below(S, R, y) /\ x \notin Below(S, R, x)
  BY DEF Below, IsOrder
<1>3. IsFiniteSet(Below(S, R, y)) /\ IsFiniteSet(Below(S, R, x))
  <2>1. Below(S, R, y) \in SUBSET S /\ Below(S, R, x) \in SUBSET S
    BY DEF Below
  <2> QED
    BY <2>1, FS_Subset
<1>4. /\ Cardinality(Below(S, R, x)) <= Cardinality(Below(S, R, y))
      /\ Cardinality(Below(S, R, x)) # Cardinality(Below(S, R, y))
  BY <1>1, <1>2, <1>3, FS_Subset
<1>5. Cardinality(Below(S, R, x)) \in Nat /\ Cardinality(Below(S, R, y)) \in Nat
  BY <1>3, FS_CardinalityType
<1> QED
  BY <1>4, <1>5

(* Every place of the order is taken by one member.                        *)
Lists(o, S, R) ==
  /\ Cardinality(S) \in Nat /\ DOMAIN o = 1 .. Cardinality(S)
  /\ \A n \in DOMAIN o : o[n] \in S
  /\ \A m, n \in DOMAIN o : m < n => <<o[m], o[n]>> \in R
  /\ \A x \in S : \E n \in DOMAIN o : o[n] = x

LEMMA RankedOrder ==
  ASSUME NEW S, IsFiniteSet(S), NEW R, IsOrder(S, R)
  PROVE  Lists(Ranked(S, R), S, R)
<1> DEFINE N    == Cardinality(S)
           rank == [ x \in S |-> Cardinality(Below(S, R, x)) ]
           o    == Ranked(S, R)
<1>1. N \in Nat
  BY FS_CardinalityType
<1>2. ASSUME NEW x \in S
      PROVE  rank[x] \in 0 .. (N - 1)
  <2>1. Below(S, R, x) \in SUBSET S /\ x \notin Below(S, R, x)
    BY DEF Below, IsOrder
  <2>2. /\ IsFiniteSet(Below(S, R, x)) /\ Cardinality(Below(S, R, x)) <= N
        /\ Cardinality(Below(S, R, x)) # N
    BY <2>1, FS_Subset
  <2>3. Cardinality(Below(S, R, x)) \in Nat
    BY <2>2, FS_CardinalityType
  <2> QED
    BY <1>1, <2>2, <2>3
<1>3. \A x, y \in S : <<x, y>> \in R => rank[x] < rank[y]
  BY BelowGrows
<1> HIDE DEF rank
<1>4. \A x, y \in S : rank[x] = rank[y] => x = y
  <2> TAKE x, y \in S
  <2>1. rank[x] \in Int /\ rank[y] \in Int
    BY <1>1, <1>2
  <2>2. ~ (rank[x] < rank[y]) \/ rank[x] # rank[y]
    BY <2>1
  <2>3. ~ (rank[y] < rank[x]) \/ rank[x] # rank[y]
    BY <2>1
  <2> QED
    BY <1>3, <2>2, <2>3 DEF IsOrder
<1>5. rank \in [S -> 0 .. (N - 1)]
  BY <1>2 DEF rank
<1>6. \A n \in 1 .. N : \E x \in S : rank[x] = n - 1
  <2>1. rank \in Injection(S, 0 .. (N - 1))
    BY <1>4, <1>5, Fun_IsInj
  <2>2. IsFiniteSet(0 .. (N - 1)) /\ Cardinality(0 .. (N - 1)) = N
    BY <1>1, FS_Interval
  <2>3. rank \in Surjection(S, 0 .. (N - 1))
    BY <2>1, <2>2, FS_Injection
  <2>4. \A n \in 1 .. N : n - 1 \in 0 .. (N - 1)
    BY <1>1
  <2> QED
    BY <2>3, <2>4 DEF Surjection
<1>7. o = [ n \in 1 .. N |-> CHOOSE x \in S : rank[x] = n - 1 ]
  BY DEF Ranked, rank
<1> HIDE DEF o, N
<1>8. DOMAIN o = 1 .. N
  BY <1>7
<1>9. \A n \in 1 .. N : o[n] \in S /\ rank[o[n]] = n - 1
  BY <1>6, <1>7
<1>10. \A m, n \in 1 .. N : m < n => <<o[m], o[n]>> \in R
  <2> SUFFICES ASSUME NEW m \in 1 .. N, NEW n \in 1 .. N, m < n PROVE <<o[m], o[n]>> \in R
    OBVIOUS
  <2>1. rank[o[m]] < rank[o[n]] /\ rank[o[m]] # rank[o[n]] /\ rank[o[m]] \in Int /\ rank[o[n]] \in Int
    BY <1>1, <1>9
  <2>2. ~ (<<o[n], o[m]>> \in R)
    BY <1>3, <1>9, <2>1
  <2> QED
    BY <1>9, <2>1, <2>2 DEF IsOrder
<1>11. \A x \in S : \E n \in 1 .. N : o[n] = x
  <2> TAKE x \in S
  <2>1. rank[x] + 1 \in 1 .. N /\ (rank[x] + 1) - 1 = rank[x]
    BY <1>1, <1>2
  <2> QED
    BY <1>4, <1>9, <2>1
<1> QED
  <2>1. DOMAIN o = 1 .. N
    BY <1>8
  <2> HIDE DEF o
  <2>2. Lists(o, S, R)
    BY <1>1, <1>9, <1>10, <1>11, <2>1 DEF Lists, N
  <2> QED
    BY <2>2 DEF o

(* The indices of a sequence in their order.                               *)
Precedes(I) == { p \in I \X I : p[1] < p[2] }

(* InOrder(s, I) reads s along o, which lists I from the least to the      *)
(* greatest.                                                               *)
ReadAlong(s, I, o) ==
  /\ InOrder(s, I) = [ k \in DOMAIN o |-> s[o[k]] ]
  /\ Cardinality(I) \in Nat /\ DOMAIN o = 1 .. Cardinality(I)
  /\ \A k \in DOMAIN o : o[k] \in I
  /\ \A k, l \in DOMAIN o : k < l => o[k] < o[l]
  /\ \A i \in I : \E k \in DOMAIN o : o[k] = i

LEMMA InOrderElements ==
  ASSUME NEW s, NEW n \in Nat, NEW I \in SUBSET (1 .. n)
  PROVE  ReadAlong(s, I, Ranked(I, Precedes(I)))
<1> DEFINE R == Precedes(I)
<1>1. IsFiniteSet(I)
  <2>1. IsFiniteSet(1 .. n)
    BY FS_Interval
  <2> QED
    BY <2>1, FS_Subset
<1>2. \A x, y \in I : <<x, y>> \in R <=> x < y
  BY DEF Precedes
<1>3. IsOrder(I, R)
  <2> HIDE DEF R
  <2>1. I \subseteq Int
    OBVIOUS
  <2> QED
    BY <1>2, <2>1 DEF IsOrder
<1>4. Sorted(I, LAMBDA i, j : i < j) = Ranked(I, R)
  <2>1. \A x \in I : Below(I, R, x) = { y \in I : y < x }
    BY <1>2 DEF Below
  <2>2. Sorted(I, LAMBDA i, j : i < j) =
          [ k \in 1 .. Cardinality(I) |->
              CHOOSE x \in I : Cardinality({ y \in I : y < x }) = k - 1 ]
    BY DEF Sorted
  <2> HIDE DEF R
  <2> QED
    BY <2>1, <2>2 DEF Ranked
<1>5. InOrder(s, I) = [ k \in DOMAIN Ranked(I, R) |-> s[Ranked(I, R)[k]] ]
  BY <1>4 DEF InOrder
<1>6. \A k, l \in I : <<k, l>> \in R => k < l
  BY <1>2
<1> HIDE DEF R
<1> QED
  <2> DEFINE o == Ranked(I, R)
  <2>1. Lists(o, I, R)
    BY <1>1, <1>3, RankedOrder
  <2>2. InOrder(s, I) = [ k \in DOMAIN o |-> s[o[k]] ]
    BY <1>5
  <2> HIDE DEF o
  <2>3. ReadAlong(s, I, o)
    BY <1>6, <2>1, <2>2 DEF Lists, ReadAlong
  <2> QED
    BY <2>3 DEF R, o

-----------------------------------------------------------------------------
(* The rolling buffer, in closed form: it holds the frames delivered so    *)
(* far that are not over the horizon and not crowded out.                  *)
LEMMA FiniteNewer ==
  ASSUME NEW S, IsFiniteSet(S), NEW T \in SUBSET S
  PROVE  /\ IsFiniteSet(T) /\ Cardinality(T) \in Nat /\ Cardinality(S) \in Nat
         /\ Cardinality(T) <= Cardinality(S)
BY FS_Subset, FS_CardinalityType

LEMMA FiniteFrames ==
  ASSUME NEW at \in Nat, NEW S \in SUBSET Nat, \A f \in S : f <= at
  PROVE  IsFiniteSet(S)
<1>1. S \in SUBSET (0 .. at)
  OBVIOUS
<1>2. IsFiniteSet(0 .. at)
  BY FS_Interval
<1> QED
  BY <1>1, <1>2, FS_Subset

LEMMA HeldInside ==
  ASSUME NEW S, NEW at, NEW h
  PROVE  Held(S, at, h) \subseteq S
BY DEF Held

LEMMA AppendedType ==
  ASSUME NEW b \in SUBSET Nat, IsFiniteSet(b), NEW ts \in Nat, NEW h
  PROVE  Appended(b, ts, h) \in SUBSET Nat /\ IsFiniteSet(Appended(b, ts, h))
<1>1. IsFiniteSet(b \cup {ts}) /\ b \cup {ts} \in SUBSET Nat
  BY FS_AddElement
<1>2. Appended(b, ts, h) \in SUBSET (b \cup {ts})
  BY HeldInside DEF Appended
<1> QED
  BY <1>1, <1>2, FiniteNewer

LEMMA HeldGoesOn ==
  ASSUME NEW S \in SUBSET Nat, IsFiniteSet(S), NEW at \in Nat, NEW ts \in Nat, at <= ts,
         \A f \in S : f < ts, NEW h \in Nat
  PROVE  Appended(Held(S, at, h), ts, h) = Held(S \cup {ts}, ts, h)
<1> DEFINE B == Held(S, at, h) \cup {ts}
           T == S \cup {ts}
<1>1. IsFiniteSet(T) /\ T \in SUBSET Nat /\ B \in SUBSET T
  BY FS_AddElement DEF Held
<1>2. ASSUME NEW f \in T, NEW g \in T, f < g, f \in B
      PROVE  g \in B
  <2>1. CASE g = ts
    BY <2>1
  <2>2. CASE g # ts /\ f # ts
    <3>1. g \in S /\ f \in Held(S, at, h) /\ f \in S
      BY <1>2, <2>2, HeldInside
    <3>2. Newer(S, g) \in SUBSET Newer(S, f)
      <4>1. \A k \in S : g < k => f < k
        <5> TAKE k \in S
        <5>1. k \in Int /\ g \in Int /\ f \in Int
          BY <1>1, <3>1
        <5> QED
          BY <1>2, <5>1
      <4> QED
        BY <4>1 DEF Newer
    <3>3. IsFiniteSet(Newer(S, f))
      <4>1. Newer(S, f) \in SUBSET S
        BY DEF Newer
      <4> QED
        BY <4>1, FiniteNewer
    <3>4. /\ Cardinality(Newer(S, g)) <= Cardinality(Newer(S, f))
          /\ Cardinality(Newer(S, g)) \in Nat /\ Cardinality(Newer(S, f)) \in Nat
      BY <3>2, <3>3, FiniteNewer
    <3>5. f >= at - h /\ Cardinality(Newer(S, f)) < MaxLen
      BY <3>1 DEF Held
    <3>6. g >= at - h
      BY <1>1, <1>2, <3>1, <3>5
    <3>7. Cardinality(Newer(S, g)) < MaxLen
      BY <3>4, <3>5, BufferAssumption
    <3> QED
      BY <3>1, <3>6, <3>7 DEF Held
  <2>3. CASE f = ts /\ g # ts
    BY <1>1, <1>2, <2>3
  <2> QED
    BY <2>1, <2>2, <2>3
<1>3. \A f \in B : Newer(B, f) = Newer(T, f)
  BY <1>1, <1>2 DEF Newer
<1>4. \A f \in B : f \in Held(B, ts, h) <=> f \in Held(T, ts, h)
  BY <1>1, <1>3 DEF Held
<1>5. ASSUME NEW f \in T, f \in Held(T, ts, h)
      PROVE  f \in B
  <2>1. CASE f = ts
    BY <2>1
  <2>2. CASE f # ts
    <3>1. f \in S /\ f \in Nat
      BY <1>1, <2>2
    <3>2. Newer(S, f) \in SUBSET Newer(T, f) /\ Newer(T, f) \in SUBSET T
      BY DEF Newer
    <3>3. IsFiniteSet(Newer(T, f))
      BY <1>1, <3>2, FiniteNewer
    <3>4. /\ Cardinality(Newer(S, f)) <= Cardinality(Newer(T, f))
          /\ Cardinality(Newer(S, f)) \in Nat /\ Cardinality(Newer(T, f)) \in Nat
      BY <3>2, <3>3, FiniteNewer
    <3>5. f >= ts - h /\ Cardinality(Newer(T, f)) < MaxLen
      BY <1>5 DEF Held
    <3>6. f >= at - h
      BY <3>1, <3>5
    <3>7. Cardinality(Newer(S, f)) < MaxLen
      BY <3>4, <3>5, BufferAssumption
    <3> QED
      BY <3>1, <3>6, <3>7 DEF Held
  <2> QED
    BY <2>1, <2>2
<1>6. Held(B, ts, h) = Held(T, ts, h)
  BY <1>1, <1>4, <1>5, HeldInside
<1> QED
  BY <1>6 DEF Appended

LEMMA HeldUnlessCrowded ==
  ASSUME NEW S \in SUBSET Nat, NEW at \in Nat, \A g \in S : g <= at, NEW h \in Nat,
         IsFiniteSet(S), NEW f \in S, f >= at - h
  PROVE  f \in Held(S, at, h) <=> ~ Crowded(S, f, h)
<1>1. { g \in Newer(S, f) : g <= f + h } = Newer(S, f)
  <2>1. \A g \in S : g <= f + h
    <3> TAKE g \in S
    <3>1. g \in Int /\ f \in Int /\ g <= at
      OBVIOUS
    <3> QED
      BY <3>1
  <2> QED
    BY <2>1 DEF Newer
<1>2. Newer(S, f) \in SUBSET S
  BY DEF Newer
<1>3. Cardinality(Newer(S, f)) \in Nat
  BY <1>2, FiniteNewer
<1>4. Crowded(S, f, h) <=> Cardinality(Newer(S, f)) >= MaxLen
  BY <1>1 DEF Crowded
<1>5. f \in Held(S, at, h) <=> Cardinality(Newer(S, f)) < MaxLen
  BY DEF Held
<1> QED
  BY <1>3, <1>4, <1>5, BufferAssumption

LEMMA CrowdedStays ==
  ASSUME NEW T, IsFiniteSet(T), NEW S \in SUBSET T, NEW f, NEW h, Crowded(S, f, h)
  PROVE  Crowded(T, f, h)
<1> DEFINE s == { g \in Newer(S, f) : g <= f + h }
           t == { g \in Newer(T, f) : g <= f + h }
<1>1. s \in SUBSET t /\ t \in SUBSET T
  BY DEF Newer
<1>2. Cardinality(s) >= MaxLen
  BY DEF Crowded
<1>3. t \in SUBSET T /\ IsFiniteSet(t)
  BY <1>1, FiniteNewer
<1> HIDE DEF s, t
<1>4. Cardinality(s) <= Cardinality(t) /\ Cardinality(s) \in Nat /\ Cardinality(t) \in Nat
  BY <1>1, <1>3, FiniteNewer
<1>5. Cardinality(t) >= MaxLen
  BY <1>2, <1>4, BufferAssumption
<1> QED
  BY <1>5 DEF Crowded, t

-----------------------------------------------------------------------------
(* The reservoir.                                                          *)
LEMMA Products ==
  ASSUME NEW a \in Int, NEW b \in Int, a <= b, NEW s \in Nat
  PROVE  a * s \in Int /\ b * s \in Int /\ a * s <= b * s
<1>1. PICK d \in Nat : d = b - a
  OBVIOUS
<1>2. b * s = a * s + d * s /\ d * s >= 0 /\ a * s \in Int /\ d * s \in Int
  BY <1>1
<1> QED
  BY <1>2

(* L of n frames are kept, one of every s.                                 *)
Covers(L, s, n) == n <= L * s /\ (L - 1) * s < n

LEMMA CoversMore ==
  ASSUME NEW L \in Nat, NEW s \in Nat \ {0}, NEW n \in Nat, Covers(L, s, n)
  PROVE  /\ n % s = 0 => n = L * s /\ Covers(L + 1, s, n + 1)
         /\ n % s # 0 => Covers(L, s, n + 1)
         /\ L <= n
<1>1. PICK q \in Nat, r \in 0 .. (s - 1) : n = q * s + r /\ r = n % s
  <2>1. n % s \in 0 .. (s - 1) /\ n \div s \in Nat /\ n = (n \div s) * s + (n % s)
    OBVIOUS
  <2> QED
    BY <2>1
<1>2. PICK ls \in Nat : ls = L * s
  OBVIOUS
<1>3. PICK qs \in Nat : qs = q * s
  OBVIOUS
<1>4. (L - 1) * s = ls - s /\ (L + 1) * s = ls + s /\ (q + 1) * s = qs + s
  BY <1>2, <1>3
<1>5. n <= ls /\ ls - s < n /\ n = qs + r
  BY <1>1, <1>2, <1>3, <1>4 DEF Covers
<1>6. L <= q => ls <= qs
  BY <1>2, <1>3, Products
<1>7. q + 1 <= L => qs + s <= ls
  <2> HAVE q + 1 <= L
  <2>1. (q + 1) * s <= L * s
    BY Products
  <2> QED
    BY <1>2, <1>4, <2>1
<1>8. q + 1 <= L - 1 => qs + s <= ls - s
  <2> HAVE q + 1 <= L - 1
  <2>1. (q + 1) * s <= (L - 1) * s
    BY Products
  <2> QED
    BY <1>4, <2>1
<1>9. n % s = 0 => n = ls
  <2> HAVE n % s = 0
  <2>1. r = 0 /\ n = qs
    BY <1>1, <1>5
  <2>2. ~ (q + 1 <= L)
    BY <1>5, <1>7, <2>1
  <2>3. L <= q
    BY <2>2
  <2> QED
    BY <1>5, <1>6, <2>1, <2>3
<1>10. n % s # 0 => n + 1 <= ls
  <2> HAVE n % s # 0
  <2>1. r \in Nat /\ r # 0 /\ r < s
    BY <1>1
  <2>2. ~ (L <= q)
    BY <1>5, <1>6, <2>1
  <2>3. qs + s <= ls
    BY <1>7, <2>2
  <2> QED
    BY <1>5, <2>1, <2>3
<1>11. L <= n
  <2>1. CASE L = 0
    BY <2>1
  <2>2. CASE L # 0
    <3>1. L - 1 \in Nat
      BY <2>2
    <3>2. PICK k \in Nat : k = L - 1
      BY <3>1
    <3>3. k * s >= k
      <4>1. PICK d \in Nat : s = d + 1
        <5>1. s - 1 \in Nat /\ s = (s - 1) + 1
          OBVIOUS
        <5> QED
          BY <5>1
      <4>2. k * s = k * d + k /\ k * d \in Nat
        BY <4>1
      <4> QED
        BY <4>2
    <3>4. k * s < n /\ k * s \in Nat
      BY <1>5, <1>4, <3>2
    <3> QED
      BY <3>2, <3>3, <3>4
  <2> QED
    BY <2>1, <2>2
<1>12. n % s = 0 => Covers(L + 1, s, n + 1)
  <2> HAVE n % s = 0
  <2>1. (L + 1) - 1 = L
    OBVIOUS
  <2>2. n + 1 <= ls + s /\ ls < n + 1
    BY <1>9
  <2> QED
    BY <1>2, <1>4, <2>1, <2>2 DEF Covers
<1>13. n % s # 0 => Covers(L, s, n + 1)
  <2> HAVE n % s # 0
  <2>1. n + 1 <= ls /\ ls - s < n + 1
    BY <1>5, <1>10
  <2> QED
    BY <1>2, <1>4, <2>1 DEF Covers
<1> QED
  BY <1>2, <1>9, <1>11, <1>12, <1>13

(* Dropping every other frame doubles the stride.                          *)
LEMMA CoversHalf ==
  ASSUME NEW K \in Nat, NEW s \in Nat \ {0}, NEW n \in Nat, Covers(K, s, n)
  PROVE  Covers((K + 1) \div 2, 2 * s, n)
<1>1. PICK h \in Nat : h = (K + 1) \div 2 /\ K <= 2 * h /\ 2 * h <= K + 1
  <2>1. (K + 1) \div 2 \in Nat /\ K <= 2 * ((K + 1) \div 2) /\ 2 * ((K + 1) \div 2) <= K + 1
    OBVIOUS
  <2> QED
    BY <2>1
<1>2. K * s <= (2 * h) * s /\ K * s \in Int /\ (2 * h) * s \in Int
  BY <1>1, Products
<1>3. (2 * h - 2) * s <= (K - 1) * s /\ (2 * h - 2) * s \in Int /\ (K - 1) * s \in Int
  BY <1>1, Products
<1>4. (2 * h) * s = h * (2 * s)
  OBVIOUS
<1>5. (2 * h - 2) * s = (h - 1) * (2 * s)
  OBVIOUS
<1>6. n <= h * (2 * s)
  BY <1>2, <1>4 DEF Covers
<1>7. (h - 1) * (2 * s) < n
  BY <1>3, <1>5 DEF Covers
<1> QED
  BY <1>1, <1>6, <1>7 DEF Covers

(* The frames kept are those at every s-th place of the frames fed.        *)
EveryNth(frames, fed, s) ==
  \A i \in 1 .. Len(frames) : frames[i] = fed[(i - 1) * s + 1]

LEMMA PlaceInside ==
  ASSUME NEW L \in Nat, NEW s \in Nat \ {0}, NEW n \in Nat, Covers(L, s, n), NEW i \in 1 .. L
  PROVE  (i - 1) * s + 1 \in 1 .. n
<1>1. PICK p \in Nat : p = (i - 1) * s
  OBVIOUS
<1>2. p <= (L - 1) * s /\ (L - 1) * s \in Int
  <2>1. (i - 1) * s <= (L - 1) * s /\ (L - 1) * s \in Int
    BY Products
  <2> QED
    BY <1>1, <2>1
<1>3. p < n
  BY <1>2 DEF Covers
<1> QED
  BY <1>1, <1>3

LEMMA NoFramesType == NoFrames \in Reservoir /\ NoFrames.fed = <<>>
<1>1. NoFrames \in [ fed : Seq(Nat), stride : Nat \ {0}, frames : Seq(Nat) ]
  BY DEF NoFrames
<1>2. NoFrames.fed = <<>> /\ NoFrames.stride = 1 /\ NoFrames.frames = <<>>
  BY DEF NoFrames
<1>3. Sampled(NoFrames)
  BY <1>2, TrackerAssumption DEF Sampled
<1> QED
  BY <1>1, <1>2, <1>3 DEF Reservoir

(* Sampled, for the fields of a reservoir.                                 *)
SampledFields(fed, s, frames) ==
  /\ Covers(Len(frames), s, Len(fed)) /\ EveryNth(frames, fed, s)
  /\ Len(frames) <= ReservoirCap
  /\ s = 1 \/ (Len(fed) > ReservoirCap /\ 2 * Len(frames) > ReservoirCap)

LEMMA ReservoirFields ==
  ASSUME NEW e
  PROVE  e \in Reservoir <=>
           /\ e \in [ fed : Seq(Nat), stride : Nat \ {0}, frames : Seq(Nat) ]
           /\ SampledFields(e.fed, e.stride, e.frames)
<1>1. e \in [ fed : Seq(Nat), stride : Nat \ {0}, frames : Seq(Nat) ]
        => DOMAIN e.frames = 1 .. Len(e.frames)
  OBVIOUS
<1> QED
  BY <1>1 DEF Reservoir, Sampled, SampledFields, Covers, EveryNth

LEMMA AppendPicks ==
  ASSUME NEW fed \in Seq(Nat), NEW s \in Nat \ {0}, NEW frames \in Seq(Nat), NEW f \in Nat,
         Covers(Len(frames), s, Len(fed)), EveryNth(frames, fed, s)
  PROVE  /\ EveryNth(frames, Append(fed, f), s)
         /\ Len(fed) = Len(frames) * s => EveryNth(Append(frames, f), Append(fed, f), s)
<1> DEFINE L == Len(frames)
           n == Len(fed)
           more == Append(fed, f)
           kept == Append(frames, f)
<1>1. L \in Nat /\ n \in Nat /\ Len(kept) = L + 1 /\ Len(more) = n + 1
  OBVIOUS
<1>2. /\ \A i \in 1 .. n : more[i] = fed[i]
      /\ more[n + 1] = f /\ kept[L + 1] = f
      /\ \A i \in 1 .. L : kept[i] = frames[i]
  OBVIOUS
<1>3. \A i \in 1 .. L : (i - 1) * s + 1 \in 1 .. n
  BY <1>1, PlaceInside
<1>4. \A i \in 1 .. L : frames[i] = fed[(i - 1) * s + 1]
  BY DEF EveryNth
<1> HIDE DEF L, n, more, kept
<1>5. \A i \in 1 .. L : frames[i] = more[(i - 1) * s + 1] /\ kept[i] = more[(i - 1) * s + 1]
  BY <1>2, <1>3, <1>4
<1>6. n = L * s => kept[L + 1] = more[((L + 1) - 1) * s + 1]
  BY <1>1, <1>2
<1>7. \A i \in 1 .. (L + 1) : i \in 1 .. L \/ i = L + 1
  BY <1>1
<1>8. EveryNth(frames, more, s)
  BY <1>5 DEF EveryNth, L
<1>9. n = L * s => EveryNth(kept, more, s)
  BY <1>1, <1>5, <1>6, <1>7 DEF EveryNth
<1> QED
  BY <1>8, <1>9 DEF L, n, more, kept

LEMMA EveryOtherPicks ==
  ASSUME NEW fed, NEW s \in Nat \ {0}, NEW frames \in Seq(Nat), EveryNth(frames, fed, s)
  PROVE  /\ EveryOther(frames) \in Seq(Nat)
         /\ Len(EveryOther(frames)) = (Len(frames) + 1) \div 2
         /\ EveryNth(EveryOther(frames), fed, 2 * s)
<1> DEFINE h == (Len(frames) + 1) \div 2
           o == EveryOther(frames)
<1>1. h \in Nat /\ 2 * h <= Len(frames) + 1 /\ Len(frames) \in Nat
  OBVIOUS
<1>2. o = [ i \in 1 .. h |-> frames[2 * i - 1] ]
  BY DEF EveryOther
<1> HIDE DEF h, o
<1>3. \A i \in 1 .. h : 2 * i - 1 \in 1 .. Len(frames)
  BY <1>1
<1>4. \A i \in 1 .. h : o[i] = frames[2 * i - 1] /\ o[i] \in Nat
  BY <1>2, <1>3
<1>5. o \in Seq(Nat) /\ Len(o) = h
  BY <1>1, <1>2, <1>4
<1>6. ASSUME NEW i \in 1 .. h
      PROVE  o[i] = fed[(i - 1) * (2 * s) + 1]
  <2>1. frames[2 * i - 1] = fed[((2 * i - 1) - 1) * s + 1]
    BY <1>3 DEF EveryNth
  <2>2. ((2 * i - 1) - 1) * s = (i - 1) * (2 * s)
    OBVIOUS
  <2> QED
    BY <1>4, <2>1, <2>2
<1>7. EveryNth(o, fed, 2 * s)
  BY <1>5, <1>6 DEF EveryNth
<1> QED
  BY <1>5, <1>7 DEF h, o

LEMMA AddFrameType ==
  ASSUME NEW e \in Reservoir, NEW f \in Nat
  PROVE  /\ AddFrame(e, f) \in Reservoir
         /\ AddFrame(e, f).fed = Append(e.fed, f)
<1> DEFINE a    == AddFrame(e, f)
           fed  == e.fed
           s    == e.stride
           old  == e.frames
           more == Append(fed, f)
           kept == IF Len(fed) % s = 0 THEN Append(old, f) ELSE old
           full == Len(kept) > ReservoirCap
           n    == Len(fed)
           L    == Len(old)
<1>1. /\ fed \in Seq(Nat) /\ s \in Nat \ {0} /\ old \in Seq(Nat)
      /\ SampledFields(fed, s, old)
  BY ReservoirFields
<1>2. a = [ fed |-> more, stride |-> IF full THEN 2 * s ELSE s,
            frames |-> IF full THEN EveryOther(kept) ELSE kept ]
  BY DEF AddFrame
<1>3. /\ more \in Seq(Nat) /\ kept \in Seq(Nat) /\ n \in Nat /\ L \in Nat /\ Len(more) = n + 1
      /\ n % s = 0 => kept = Append(old, f) /\ Len(kept) = L + 1
      /\ n % s # 0 => kept = old
  BY <1>1
<1>4. /\ Covers(L, s, n) /\ EveryNth(old, fed, s) /\ L <= ReservoirCap
      /\ s = 1 \/ (n > ReservoirCap /\ 2 * L > ReservoirCap)
  BY <1>1 DEF SampledFields
<1>5. full \in BOOLEAN /\ (full <=> Len(kept) > ReservoirCap)
  OBVIOUS
<1> HIDE DEF a, fed, s, old, more, kept, full
<1>6. /\ n % s = 0 => n = L * s /\ Covers(L + 1, s, n + 1)
      /\ n % s # 0 => Covers(L, s, n + 1)
      /\ L <= n
  <2> HIDE DEF n, L
  <2> QED
    BY <1>1, <1>3, <1>4, CoversMore
<1>7. EveryNth(old, more, s) /\ (n = L * s => EveryNth(Append(old, f), more, s))
  BY <1>1, <1>4, AppendPicks DEF more
<1> HIDE DEF n, L
<1>8. Covers(Len(kept), s, n + 1) /\ EveryNth(kept, more, s)
  BY <1>3, <1>6, <1>7 DEF L
<1>9. CASE ~ full
  <2>1. a = [ fed |-> more, stride |-> s, frames |-> kept ]
    BY <1>2, <1>9
  <2>2. Len(kept) <= ReservoirCap /\ L <= Len(kept)
    BY <1>3, <1>5, <1>9, TrackerAssumption DEF L
  <2>3. s = 1 \/ (n + 1 > ReservoirCap /\ 2 * Len(kept) > ReservoirCap)
    BY <1>3, <1>4, <2>2, TrackerAssumption
  <2>4. SampledFields(more, s, kept)
    BY <1>3, <1>8, <2>2, <2>3 DEF SampledFields
  <2>5. a \in [ fed : Seq(Nat), stride : Nat \ {0}, frames : Seq(Nat) ]
    BY <1>1, <1>3, <2>1
  <2>6. a.fed = more /\ a.stride = s /\ a.frames = kept
    BY <2>1
  <2>7. a \in Reservoir
    BY <2>4, <2>5, <2>6, ReservoirFields
  <2> QED
    BY <2>6, <2>7 DEF a, more, fed
<1>10. CASE full
  <2> DEFINE half == EveryOther(kept)
             K    == Len(kept)
  <2>1. a = [ fed |-> more, stride |-> 2 * s, frames |-> half ]
    BY <1>2, <1>10
  <2>2. /\ half \in Seq(Nat) /\ Len(half) = (K + 1) \div 2
        /\ EveryNth(half, more, 2 * s)
    BY <1>1, <1>3, <1>8, EveryOtherPicks
  <2>3. K = L + 1 /\ K = ReservoirCap + 1 /\ K <= n + 1
    <3>1. n % s = 0
      BY <1>3, <1>4, <1>5, <1>10, TrackerAssumption DEF L
    <3>2. n = L * s /\ L <= n /\ K = L + 1
      BY <1>3, <1>6, <3>1
    <3>3. K > ReservoirCap /\ L <= ReservoirCap
      BY <1>4, <1>5, <1>10
    <3>4. ReservoirCap \in Nat /\ L \in Nat /\ n \in Nat
      BY <1>3, TrackerAssumption
    <3> HIDE DEF K
    <3> QED
      BY <3>2, <3>3, <3>4
  <2> HIDE DEF half, K
  <2>4. Covers((K + 1) \div 2, 2 * s, n + 1)
    <3>1. n + 1 \in Nat /\ K \in Nat /\ s \in Nat \ {0}
      BY <1>1, <1>3, <2>3
    <3> QED
      BY <1>8, <3>1, CoversHalf DEF K
  <2>5. PICK h \in Nat : h = (K + 1) \div 2 /\ K <= 2 * h /\ 2 * h <= K + 1
    <3>1. K \in Nat
      BY <1>3, <2>3
    <3>2. (K + 1) \div 2 \in Nat /\ K <= 2 * ((K + 1) \div 2) /\ 2 * ((K + 1) \div 2) <= K + 1
      BY <3>1
    <3> QED
      BY <3>2
  <2>6. h <= ReservoirCap /\ 2 * h > ReservoirCap /\ n + 1 > ReservoirCap
    BY <1>3, <2>3, <2>5, TrackerAssumption
  <2>7. SampledFields(more, 2 * s, half)
    BY <1>3, <2>2, <2>4, <2>5, <2>6 DEF SampledFields
  <2>8. 2 * s \in Nat \ {0}
    BY <1>1
  <2>9. a \in [ fed : Seq(Nat), stride : Nat \ {0}, frames : Seq(Nat) ]
    BY <1>3, <2>1, <2>2, <2>8
  <2>10. a.fed = more /\ a.stride = 2 * s /\ a.frames = half
    BY <2>1
  <2>11. a \in Reservoir
    BY <2>7, <2>9, <2>10, ReservoirFields
  <2> QED
    BY <2>10, <2>11 DEF a, more, fed
<1> QED
  BY <1>5, <1>9, <1>10

(* The frames a segment was fed, and those it shows.                       *)
Fed(x) == Range(x.evidence.fed)

LEMMA AppendRange ==
  ASSUME NEW s \in Seq(Nat), NEW f \in Nat
  PROVE  Range(s) \in SUBSET Nat /\ Range(Append(s, f)) = Range(s) \cup {f}
<1>1. /\ DOMAIN s = 1 .. Len(s) /\ DOMAIN Append(s, f) = 1 .. (Len(s) + 1)
      /\ Len(s) \in Nat
      /\ \A i \in 1 .. Len(s) : Append(s, f)[i] = s[i] /\ s[i] \in Nat
      /\ Append(s, f)[Len(s) + 1] = f
  OBVIOUS
<1> DEFINE t == Append(s, f)
           n == Len(s)
<1> HIDE DEF t, n
<1>2. 1 .. (n + 1) = (1 .. n) \cup {n + 1}
  BY <1>1 DEF n
<1> QED
  BY <1>1, <1>2 DEF Range, t, n

(* A reservoir shows nothing it was not fed, and everything as long as it  *)
(* was fed no more than it holds.                                          *)
LEMMA ReservoirShows ==
  ASSUME NEW e \in Reservoir
  PROVE  /\ Range(e.fed) \in SUBSET Nat
         /\ Range(e.frames) \subseteq Range(e.fed)
         /\ ~ (Len(e.fed) > ReservoirCap) => Range(e.frames) = Range(e.fed)
<1>1. /\ e.fed \in Seq(Nat) /\ e.stride \in Nat \ {0} /\ e.frames \in Seq(Nat)
      /\ SampledFields(e.fed, e.stride, e.frames)
  BY ReservoirFields
<1> DEFINE n == Len(e.fed)
           L == Len(e.frames)
           s == e.stride
<1>2. n \in Nat /\ L \in Nat /\ DOMAIN e.fed = 1 .. n /\ DOMAIN e.frames = 1 .. L
      /\ \A i \in 1 .. n : e.fed[i] \in Nat
  BY <1>1
<1>3. /\ Covers(L, s, n) /\ \A i \in 1 .. L : e.frames[i] = e.fed[(i - 1) * s + 1]
      /\ s = 1 \/ n > ReservoirCap
  BY <1>1 DEF SampledFields, EveryNth
<1> HIDE DEF n, L, s
<1>4. \A i \in 1 .. L : (i - 1) * s + 1 \in 1 .. n
  BY <1>1, <1>2, <1>3, PlaceInside DEF s
<1>5. Range(e.frames) \subseteq Range(e.fed)
  BY <1>2, <1>3, <1>4 DEF Range
<1>6. ASSUME ~ (n > ReservoirCap)
      PROVE  Range(e.fed) \subseteq Range(e.frames)
  <2>1. s = 1
    BY <1>3, <1>6
  <2>2. n <= L
    BY <1>2, <1>3, <2>1 DEF Covers
  <2>3. \A i \in 1 .. n : i \in 1 .. L /\ (i - 1) * s + 1 = i
    BY <1>2, <2>1, <2>2
  <2> QED
    BY <1>2, <1>3, <2>3 DEF Range
<1> QED
  BY <1>2, <1>5, <1>6 DEF Range, n

-----------------------------------------------------------------------------
(* The pre-roll: what the buffer holds from a time on, in its order.       *)
AddRound(c, e, f) == AddFrame(e, f)

AddInv(c, k, e) == e \in Reservoir /\ Range(e.fed) = { c[i] : i \in 1 .. k }

AddLoop == INSTANCE Iteration WITH Op <- AddRound, Inv <- AddInv

Ascending(S) == Sorted(S, LAMBDA f, g : f < g)

LEMMA PreRolledIsFold ==
  ASSUME NEW b, NEW from
  PROVE  LET s == Ascending({ f \in b : f >= from })
         IN  PreRolled(b, from) = AddLoop!Fold(s, NoFrames, s)
BY DEF PreRolled, Ascending, AddLoop!Fold, AddLoop!Last, FoldLeft, MapThenFoldSet, Max, AddRound

LEMMA AscendingElements ==
  ASSUME NEW I \in SUBSET Nat, IsFiniteSet(I)
  PROVE  LET s == Ascending(I)
         IN  /\ Cardinality(I) \in Nat /\ DOMAIN s = 1 .. Cardinality(I)
             /\ \A k \in DOMAIN s : s[k] \in I
             /\ \A x \in I : \E k \in DOMAIN s : s[k] = x
<1> DEFINE R == Precedes(I)
<1>1. \A x, y \in I : <<x, y>> \in R <=> x < y
  BY DEF Precedes
<1>2. IsOrder(I, R)
  <2> HIDE DEF R
  <2> QED
    BY <1>1 DEF IsOrder
<1>3. Ascending(I) = Ranked(I, R)
  <2>1. \A x \in I : Below(I, R, x) = { y \in I : y < x }
    BY <1>1 DEF Below
  <2>2. Ascending(I) =
          [ k \in 1 .. Cardinality(I) |->
              CHOOSE x \in I : Cardinality({ y \in I : y < x }) = k - 1 ]
    BY DEF Ascending, Sorted
  <2> HIDE DEF R
  <2> QED
    BY <2>1, <2>2 DEF Ranked
<1> HIDE DEF R
<1>4. Lists(Ranked(I, R), I, R)
  BY <1>2, RankedOrder
<1> QED
  BY <1>3, <1>4 DEF Lists

LEMMA PreRolledType ==
  ASSUME NEW b \in SUBSET Nat, IsFiniteSet(b), NEW from \in Int
  PROVE  /\ PreRolled(b, from) \in Reservoir
         /\ Range(PreRolled(b, from).fed) = { f \in b : f >= from }
<1> DEFINE I == { f \in b : f >= from }
           s == Ascending(I)
           N == Cardinality(I)
           p == PreRolled(b, from)
<1>1. I \in SUBSET Nat /\ IsFiniteSet(I)
  <2>1. I \in SUBSET b
    OBVIOUS
  <2> QED
    BY <2>1, FiniteNewer
<1>2. p = AddLoop!Fold(s, NoFrames, s)
  BY PreRolledIsFold
<1> HIDE DEF I, p
<1>3. /\ N \in Nat /\ DOMAIN s = 1 .. N /\ \A k \in 1 .. N : s[k] \in I
      /\ \A x \in I : \E k \in 1 .. N : s[k] = x
  BY <1>1, AscendingElements
<1> HIDE DEF s, N
<1>4. AddInv(s, 0, NoFrames)
  <2>1. 1 .. 0 = {} /\ Range(<<>>) = {}
    BY DEF Range
  <2> QED
    BY <2>1, NoFramesType DEF AddInv
<1>5. ASSUME NEW i \in 1 .. N, NEW e, AddInv(s, i - 1, e)
      PROVE  AddInv(s, i, AddRound(s, e, s[i]))
  <2>1. e \in Reservoir /\ s[i] \in Nat /\ Range(e.fed) = { s[k] : k \in 1 .. (i - 1) }
    BY <1>1, <1>3, <1>5 DEF AddInv
  <2>2. AddFrame(e, s[i]) \in Reservoir /\ AddFrame(e, s[i]).fed = Append(e.fed, s[i])
    BY <2>1, AddFrameType
  <2>3. e.fed \in Seq(Nat)
    BY <2>1, ReservoirFields
  <2>4. Range(Append(e.fed, s[i])) = Range(e.fed) \cup {s[i]}
    BY <2>1, <2>3, AppendRange
  <2>5. 1 .. i = (1 .. (i - 1)) \cup {i}
    BY <1>3
  <2>6. { s[k] : k \in 1 .. i } = { s[k] : k \in 1 .. (i - 1) } \cup {s[i]}
    BY <2>5
  <2> QED
    BY <2>1, <2>2, <2>4, <2>6 DEF AddInv, AddRound
<1>6. AddInv(s, N, p)
  <2>1. AddInv(s, N, AddLoop!Fold(s, NoFrames, s))
    BY <1>3, <1>4, <1>5, AddLoop!FoldInvariant
  <2> QED
    BY <1>2, <2>1
<1>7. { s[k] : k \in 1 .. N } = I
  BY <1>3
<1> QED
  BY <1>6, <1>7 DEF AddInv, I, p

-----------------------------------------------------------------------------
(* The account of the segments.                                            *)
(* on_frame_ts pops at most the whole list.                                *)
LEMMA DueCountInRange ==
  ASSUME NEW T, NEW pending \in Seq(T), NEW ts
  PROVE  DueCount(pending, ts) \in 0 .. Len(pending)
<1> DEFINE due == { n \in 1 .. Len(pending) :
                      \A i \in 1 .. n : pending[i].deadline <= ts }
<1>1. Len(pending) \in Nat
  OBVIOUS
<1>2. IsFiniteSet(1 .. Len(pending)) /\ Cardinality(1 .. Len(pending)) = Len(pending)
  BY <1>1, FS_Interval
<1>3. IsFiniteSet(due) /\ Cardinality(due) <= Len(pending)
  BY <1>2, FS_Subset
<1>4. Cardinality(due) \in Nat
  BY <1>3, FS_CardinalityType
<1> QED
  BY <1>1, <1>3, <1>4 DEF DueCount

(* The burst of a miss: nothing but what the segment was fed and frames    *)
(* of the buffer after its close, and all of it unless it was thinned.     *)
LEMMA MissType ==
  ASSUME NEW w \in Waiting, NEW b \in SUBSET Nat
  PROVE  /\ Miss(w, b) \in Lost
         /\ Miss(w, b).id = w.id /\ Miss(w, b).open = w.open /\ Miss(w, b).close = w.close
         /\ Miss(w, b).evidence = w.evidence
         /\ Miss(w, b).frames =
              Range(w.evidence.frames) \cup { f \in b : w.close < f /\ f <= w.close + PostRoll }
<1> DEFINE m == Miss(w, b)
           F == Range(w.evidence.frames) \cup { f \in b : w.close < f /\ f <= w.close + PostRoll }
<1>1. w.evidence \in Reservoir
  BY DEF Waiting
<1>2. Range(w.evidence.frames) \in SUBSET Nat
  <2>1. /\ Range(w.evidence.fed) \in SUBSET Nat
        /\ Range(w.evidence.frames) \subseteq Range(w.evidence.fed)
    BY <1>1, ReservoirShows
  <2> QED
    BY <2>1
<1>3. F \in SUBSET Nat
  BY <1>2
<1>4. m = [ id |-> w.id, open |-> w.open, close |-> w.close, evidence |-> w.evidence,
            frames |-> F ]
  BY DEF Miss, WithPostRoll
<1> HIDE DEF F, m
<1>5. m \in Lost
  BY <1>3, <1>4 DEF Waiting, Lost
<1> QED
  BY <1>4, <1>5 DEF F, m

(* Finalizing the first k waiting misses moves their ids from the waiting  *)
(* to the missed ones and touches nothing else.                            *)
LEMMA FinalizeFirstType ==
  ASSUME NEW t, IsTracker(t), NEW k \in 0 .. Len(t.pending), NEW b \in SUBSET Nat
  PROVE  /\ IsTracker(FinalizeFirst(t, k, b))
         /\ FinalizeFirst(t, k, b).open = t.open
         /\ FinalizeFirst(t, k, b).recent = t.recent
         /\ FinalizeFirst(t, k, b).passes = t.passes
         /\ FinalizeFirst(t, k, b).merged = t.merged
         /\ FinalizeFirst(t, k, b).misses =
              t.misses \cup { Miss(t.pending[i], b) : i \in 1 .. k }
         /\ FinalizeFirst(t, k, b).pending = SubSeq(t.pending, k + 1, Len(t.pending))
<1> DEFINE f == FinalizeFirst(t, k, b)
<1>1. t.pending \in Seq(Waiting) /\ Len(t.pending) \in Nat
  BY DEF IsTracker
<1>2. SubSeq(t.pending, k + 1, Len(t.pending)) \in Seq(Waiting)
  BY <1>1
<1>3. \A i \in 1 .. k : Miss(t.pending[i], b) \in Lost
  <2> TAKE i \in 1 .. k
  <2>1. t.pending[i] \in Waiting
    BY <1>1
  <2> QED
    BY <2>1, MissType
<1>4. /\ f.open = t.open /\ f.recent = t.recent
      /\ f.passes = t.passes /\ f.merged = t.merged
      /\ f.misses = t.misses \cup { Miss(t.pending[i], b) : i \in 1 .. k }
      /\ f.pending = SubSeq(t.pending, k + 1, Len(t.pending))
  BY DEF FinalizeFirst, IsTracker
<1>5. { Miss(t.pending[i], b) : i \in 1 .. k } \in SUBSET Lost
  BY <1>3
<1>6. f.misses \in SUBSET Lost /\ f.pending \in Seq(Waiting)
  BY <1>2, <1>4, <1>5 DEF IsTracker
<1>7. IsTracker(f)
  BY <1>4, <1>6 DEF IsTracker, FinalizeFirst
<1> QED
  BY <1>4, <1>7

LEMMA FinalizeFirstAccounts ==
  ASSUME NEW t, IsTracker(t), NEW k \in 0 .. Len(t.pending), NEW b \in SUBSET Nat,
         NEW n \in Nat, AccountsFor(t, n), NoDoubleMiss(t)
  PROVE  /\ AccountsFor(FinalizeFirst(t, k, b), n)
         /\ NoDoubleMiss(FinalizeFirst(t, k, b))
         /\ MissedIds(FinalizeFirst(t, k, b)) =
              MissedIds(t) \cup { t.pending[i].id : i \in 1 .. k }
         /\ PendingIds(FinalizeFirst(t, k, b)) =
              { t.pending[i].id : i \in (k + 1) .. Len(t.pending) }
<1> DEFINE f == FinalizeFirst(t, k, b)
           L == Len(t.pending)
<1>1. L \in Nat /\ DOMAIN t.pending = 1 .. L
  BY DEF IsTracker
<1>2. f.pending = SubSeq(t.pending, k + 1, L)
      /\ f.misses = t.misses \cup { Miss(t.pending[i], b) : i \in 1 .. k }
      /\ f.open = t.open /\ f.passes = t.passes /\ f.merged = t.merged
  BY FinalizeFirstType
<1>3. DOMAIN f.pending = 1 .. (L - k)
      /\ \A i \in 1 .. (L - k) : f.pending[i] = t.pending[i + k]
  BY <1>1, <1>2
<1>4. PendingIds(f) = { t.pending[i].id : i \in (k + 1) .. L }
  <2>1. \A i \in 1 .. (L - k) : i + k \in (k + 1) .. L
    BY <1>1
  <2>2. \A i \in (k + 1) .. L : i - k \in 1 .. (L - k) /\ (i - k) + k = i
    BY <1>1
  <2>3. PendingIds(f) = { t.pending[j + k].id : j \in 1 .. (L - k) }
    BY <1>3 DEF PendingIds
  <2> QED
    BY <2>1, <2>2, <2>3
<1>5. MissedIds(f) = MissedIds(t) \cup { t.pending[i].id : i \in 1 .. k }
  <2>1. { m.id : m \in f.misses } = { m.id : m \in t.misses }
            \cup { m.id : m \in { Miss(t.pending[i], b) : i \in 1 .. k } }
    BY <1>2
  <2>2. { m.id : m \in { Miss(t.pending[i], b) : i \in 1 .. k } }
          = { t.pending[i].id : i \in 1 .. k }
    <3>1. \A i \in 1 .. k : Miss(t.pending[i], b).id = t.pending[i].id
      BY DEF Miss
    <3> QED
      BY <3>1
  <2> QED
    BY <2>1, <2>2 DEF MissedIds
<1>6. OpenIds(f) = OpenIds(t) /\ ReadIds(f) = ReadIds(t)
  BY <1>2 DEF OpenIds, ReadIds
<1>7. PendingIds(t) = { t.pending[i].id : i \in 1 .. k }
                        \cup { t.pending[i].id : i \in (k + 1) .. L }
  BY <1>1 DEF PendingIds
<1>8. { t.pending[i].id : i \in 1 .. k }
        \cap { t.pending[i].id : i \in (k + 1) .. L } = {}
  BY <1>1 DEF NoDoubleMiss
<1>9. AccountsFor(f, n)
  BY <1>4, <1>5, <1>6, <1>7, <1>8 DEF AccountsFor
<1>10. NoDoubleMiss(f)
  <2>1. \A i, j \in DOMAIN f.pending : f.pending[i].id = f.pending[j].id => i = j
    <3>1. \A i \in 1 .. (L - k) : i + k \in DOMAIN t.pending
      BY <1>1
    <3> SUFFICES ASSUME NEW i \in 1 .. (L - k), NEW j \in 1 .. (L - k),
                        t.pending[i + k].id = t.pending[j + k].id
                 PROVE  i = j
      BY <1>3
    <3>2. i + k = j + k
      BY <3>1 DEF NoDoubleMiss
    <3> QED
      BY <3>2
  <2>2. ASSUME NEW x \in f.misses, NEW y \in f.misses, x.id = y.id
        PROVE  x = y
    <3>1. CASE x \in t.misses /\ y \in t.misses
      BY <2>2, <3>1 DEF NoDoubleMiss
    <3>2. ASSUME NEW m \in t.misses, NEW i \in 1 .. k
          PROVE  m.id # Miss(t.pending[i], b).id
      <4>1. m.id \in MissedIds(t)
        BY DEF MissedIds
      <4>2. Miss(t.pending[i], b).id = t.pending[i].id
        BY DEF Miss
      <4>3. t.pending[i].id \in PendingIds(t)
        BY <1>1 DEF PendingIds
      <4>4. PendingIds(t) \cap MissedIds(t) = {}
        BY DEF AccountsFor
      <4> QED
        BY <4>1, <4>2, <4>3, <4>4
    <3>3. \A i, j \in 1 .. k :
            Miss(t.pending[i], b).id = Miss(t.pending[j], b).id => i = j
      BY <1>1 DEF NoDoubleMiss, Miss
    <3> QED
      BY <1>2, <2>2, <3>1, <3>2, <3>3
  <2> QED
    BY <2>1, <2>2 DEF NoDoubleMiss
<1> QED
  BY <1>4, <1>5, <1>9, <1>10

-----------------------------------------------------------------------------
(* Finalizing a segment puts its id with the waiting misses or with the    *)
(* reads, never with both and never with neither.                          *)

LEMMA RefreshIsWindow ==
  ASSUME NEW r, IsWindow(r), NEW E \in SUBSET Payloads, NEW close \in Nat
  PROVE  IsWindow(Refresh(r, E, close))
BY DEF IsWindow, Refresh

LEMMA SightingsOfSegment ==
  ASSUME NEW seg \in Segment, NEW close \in Nat, NEW P \in SUBSET Payloads
  PROVE  /\ { Sighting(seg, p, close) : p \in P } \in SUBSET Sighted
         /\ \A s \in { Sighting(seg, p, close) : p \in P } : s.id = seg.id
BY DEF Sighting, Segment, Sighted

LEMMA PendingMissType ==
  ASSUME NEW seg \in Segment, NEW close \in Nat
  PROVE  PendingMiss(seg, close) \in Waiting /\ PendingMiss(seg, close).id = seg.id
<1>1. close + PostRoll \in Nat
  BY TrackerAssumption
<1> QED
  BY <1>1 DEF PendingMiss, Segment, Waiting

LEMMA FinalizeSegmentAsMiss ==
  ASSUME NEW t, IsTracker(t), NEW seg \in Segment, NEW close \in Nat,
         Confirmed(seg) = {}
  PROVE  LET f == FinalizeSegment(t, seg, close)
         IN  /\ IsTracker(f)
             /\ f.open = t.open /\ f.passes = t.passes /\ f.merged = t.merged
             /\ f.misses = t.misses /\ f.recent = t.recent
             /\ f.pending = Append(t.pending, PendingMiss(seg, close))
             /\ PendingIds(f) = PendingIds(t) \cup {seg.id}
<1> DEFINE f == FinalizeSegment(t, seg, close)
           w == PendingMiss(seg, close)
<1>1. f = [ t EXCEPT !.pending = Append(@, w) ]
  BY DEF FinalizeSegment
<1>2. /\ f.open = t.open /\ f.passes = t.passes /\ f.merged = t.merged
      /\ f.misses = t.misses /\ f.recent = t.recent
      /\ f.pending = Append(t.pending, w)
  BY <1>1 DEF IsTracker
<1>3. w \in Waiting /\ w.id = seg.id
  BY PendingMissType
<1>4. t.pending \in Seq(Waiting) /\ Len(t.pending) \in Nat
      /\ DOMAIN t.pending = 1 .. Len(t.pending)
  BY DEF IsTracker
<1> HIDE DEF f, w
<1>5. f.pending \in Seq(Waiting)
  BY <1>2, <1>3, <1>4
<1>6. IsTracker(f)
  BY <1>1, <1>2, <1>5 DEF IsTracker
<1>7. /\ DOMAIN f.pending = DOMAIN t.pending \cup { Len(t.pending) + 1 }
      /\ \A i \in DOMAIN t.pending : f.pending[i] = t.pending[i]
      /\ f.pending[Len(t.pending) + 1] = w
  BY <1>2, <1>3, <1>4
<1>8. PendingIds(f) = PendingIds(t) \cup {seg.id}
  BY <1>3, <1>7 DEF PendingIds
<1> QED
  BY <1>2, <1>6, <1>8 DEF f, w

LEMMA FinalizeSegmentAsRead ==
  ASSUME NEW t, IsTracker(t), NEW seg \in Segment, NEW close \in Nat,
         Confirmed(seg) # {}
  PROVE  LET f == FinalizeSegment(t, seg, close)
         IN  /\ IsTracker(f)
             /\ f.open = t.open /\ f.pending = t.pending /\ f.misses = t.misses
             /\ ReadIds(f) = ReadIds(t) \cup {seg.id}
             /\ \E emit \in SUBSET Payloads, rest \in SUBSET Payloads :
                  /\ \A p \in emit : ~ IsRepeat(t, p, close)
                  /\ \A p \in rest : IsRepeat(t, p, close)
                  /\ f.passes = t.passes \cup { Sighting(seg, p, close) : p \in emit }
                  /\ f.merged = t.merged \cup { Sighting(seg, p, close) : p \in rest }
                  /\ f.recent = Refresh(t.recent, emit, close)
<1> DEFINE f    == FinalizeSegment(t, seg, close)
           emit == { p \in Confirmed(seg) : ~ IsRepeat(t, p, close) }
           rest == Confirmed(seg) \ emit
           new  == { Sighting(seg, p, close) : p \in emit }
           old  == { Sighting(seg, p, close) : p \in rest }
<1>1. emit \in SUBSET Payloads /\ rest \in SUBSET Payloads /\ emit \cup rest # {}
  BY DEF Confirmed
<1>2. f = [ t EXCEPT !.passes = @ \cup new, !.merged = @ \cup old,
                     !.recent = Refresh(@, emit, close) ]
  BY DEF FinalizeSegment
<1>3. /\ new \in SUBSET Sighted /\ old \in SUBSET Sighted
      /\ \A s \in new \cup old : s.id = seg.id
  BY <1>1, SightingsOfSegment
<1>4. new \cup old # {}
  BY <1>1
<1>5. IsWindow(Refresh(t.recent, emit, close))
  BY <1>1, RefreshIsWindow DEF IsTracker
<1>9. /\ \A p \in emit : ~ IsRepeat(t, p, close)
      /\ \A p \in rest : IsRepeat(t, p, close)
  OBVIOUS
<1> HIDE DEF f, emit, rest, new, old
<1>6. /\ f.open = t.open /\ f.pending = t.pending /\ f.misses = t.misses
      /\ f.passes = t.passes \cup new /\ f.merged = t.merged \cup old
      /\ f.recent = Refresh(t.recent, emit, close)
  BY <1>2 DEF IsTracker
<1>7. IsTracker(f)
  BY <1>2, <1>3, <1>5, <1>6 DEF IsTracker
<1>8. ReadIds(f) = ReadIds(t) \cup {seg.id}
  BY <1>3, <1>4, <1>6 DEF ReadIds
<1>10. \E E \in SUBSET Payloads, R \in SUBSET Payloads :
         /\ \A p \in E : ~ IsRepeat(t, p, close)
         /\ \A p \in R : IsRepeat(t, p, close)
         /\ f.passes = t.passes \cup { Sighting(seg, p, close) : p \in E }
         /\ f.merged = t.merged \cup { Sighting(seg, p, close) : p \in R }
         /\ f.recent = Refresh(t.recent, E, close)
  <2> USE <1>1
  <2> WITNESS emit \in SUBSET Payloads, rest \in SUBSET Payloads
  <2> QED
    BY <1>6, <1>9 DEF new, old
<1> QED
  BY <1>6, <1>7, <1>8, <1>10 DEF f

-----------------------------------------------------------------------------
(* The methods.  Accounted is what all of them preserve.                   *)

Accounted(t, n) == IsTracker(t) /\ AccountsFor(t, n) /\ NoDoubleMiss(t)

(* No outcome is taken back, and a waiting miss can only become a miss.    *)
Settles(t, f) ==
  /\ ReadIds(t) \subseteq ReadIds(f)
  /\ MissedIds(t) \subseteq MissedIds(f)
  /\ PendingIds(t) \subseteq PendingIds(f) \cup MissedIds(f)

LEMMA SettlesTransitive ==
  ASSUME NEW t, NEW f, NEW g, Settles(t, f), Settles(f, g)
  PROVE  Settles(t, g)
BY DEF Settles

(* Closing a segment moves its id out of the open ones; closing an unknown *)
(* id changes nothing.                                                     *)
LEMMA OnSegmentCloseAccounts ==
  ASSUME NEW t, NEW n \in Nat, Accounted(t, n), NEW id, NEW close \in Nat
  PROVE  LET f == OnSegmentClose(t, id, close)
         IN  /\ Accounted(f, n)
             /\ OpenIds(f) = OpenIds(t) \ {id}
             /\ Settles(t, f)
<1> DEFINE f    == OnSegmentClose(t, id, close)
           this == { seg \in t.open : seg.id = id }
           rest == [ t EXCEPT !.open = @ \ this ]
<1>1. CASE this = {}
  <2>1. f = t
    BY <1>1 DEF OnSegmentClose
  <2>2. id \notin OpenIds(t)
    BY <1>1 DEF OpenIds
  <2> QED
    BY <2>1, <2>2 DEF Settles
<1>2. CASE this # {}
  <2> DEFINE seg == CHOOSE x \in this : TRUE
  <2>1. seg \in t.open /\ seg.id = id
    BY <1>2
  <2>2. seg \in Segment /\ id \in OpenIds(t)
    BY <2>1 DEF Accounted, IsTracker, OpenIds
  <2>3. f = FinalizeSegment(rest, seg, close)
    BY <1>2 DEF OnSegmentClose
  <2>4. /\ rest.open = t.open \ this /\ rest.recent = t.recent
        /\ rest.pending = t.pending /\ rest.passes = t.passes
        /\ rest.merged = t.merged /\ rest.misses = t.misses
    BY DEF Accounted, IsTracker
  <2>5. IsTracker(rest)
    BY <2>4 DEF Accounted, IsTracker
  <2>6. OpenIds(rest) = OpenIds(t) \ {id}
    BY <2>4 DEF OpenIds
  <2>7. /\ PendingIds(rest) = PendingIds(t) /\ ReadIds(rest) = ReadIds(t)
        /\ MissedIds(rest) = MissedIds(t)
    BY <2>4 DEF PendingIds, ReadIds, MissedIds
  <2> HIDE DEF f, this, rest, seg
  <2>8. CASE Confirmed(seg) = {}
    <3>1. /\ IsTracker(f) /\ f.open = rest.open /\ f.passes = rest.passes
          /\ f.merged = rest.merged /\ f.misses = rest.misses
          /\ f.pending = Append(rest.pending, PendingMiss(seg, close))
          /\ PendingIds(f) = PendingIds(rest) \cup {seg.id}
      BY <2>2, <2>3, <2>5, <2>8, FinalizeSegmentAsMiss
    <3>2. OpenIds(f) = OpenIds(rest) /\ ReadIds(f) = ReadIds(rest)
          /\ MissedIds(f) = MissedIds(rest)
      BY <3>1 DEF OpenIds, ReadIds, MissedIds
    <3>3. AccountsFor(f, n)
      BY <2>1, <2>2, <2>6, <2>7, <3>1, <3>2 DEF Accounted, AccountsFor
    <3>4. PendingMiss(seg, close).id = id
      BY <2>1, <2>2, PendingMissType
    <3>5. t.pending \in Seq(Waiting) /\ PendingMiss(seg, close) \in Waiting
      BY <2>2, PendingMissType DEF Accounted, IsTracker
    <3>6. /\ DOMAIN f.pending = 1 .. Len(t.pending) + 1
          /\ DOMAIN t.pending = 1 .. Len(t.pending)
          /\ \A i \in 1 .. Len(t.pending) : f.pending[i] = t.pending[i]
          /\ f.pending[Len(t.pending) + 1] = PendingMiss(seg, close)
      BY <2>4, <3>1, <3>5
    <3>7. \A i \in 1 .. Len(t.pending) : f.pending[i].id # id
      BY <2>2, <3>6 DEF Accounted, AccountsFor, PendingIds
    <3>8. \A i, j \in DOMAIN f.pending : f.pending[i].id = f.pending[j].id => i = j
      BY <3>4, <3>5, <3>6, <3>7 DEF Accounted, NoDoubleMiss
    <3>9. NoDoubleMiss(f)
      BY <2>4, <3>1, <3>8 DEF Accounted, NoDoubleMiss
    <3> QED
      BY <2>6, <2>7, <3>1, <3>2, <3>3, <3>9 DEF Accounted, Settles, f
  <2>9. CASE Confirmed(seg) # {}
    <3>1. /\ IsTracker(f) /\ f.open = rest.open /\ f.pending = rest.pending
          /\ f.misses = rest.misses
          /\ ReadIds(f) = ReadIds(rest) \cup {seg.id}
      BY <2>2, <2>3, <2>5, <2>9, FinalizeSegmentAsRead
    <3>2. OpenIds(f) = OpenIds(rest) /\ PendingIds(f) = PendingIds(rest)
          /\ MissedIds(f) = MissedIds(rest)
      BY <3>1 DEF OpenIds, PendingIds, MissedIds
    <3>3. AccountsFor(f, n)
      BY <2>1, <2>2, <2>6, <2>7, <3>1, <3>2 DEF Accounted, AccountsFor
    <3>4. NoDoubleMiss(f)
      BY <2>4, <3>1 DEF Accounted, NoDoubleMiss
    <3> QED
      BY <2>6, <2>7, <3>1, <3>2, <3>3, <3>4 DEF Accounted, Settles, f
  <2> QED
    BY <2>8, <2>9
<1> QED
  BY <1>1, <1>2

(* Opening the next segment adds its id, whatever was open before.         *)
LEMMA OnSegmentOpenAccounts ==
  ASSUME NEW t, NEW n \in Nat, Accounted(t, n), NEW open \in Nat,
         NEW b \in SUBSET Nat, IsFiniteSet(b)
  PROVE  LET f == OnSegmentOpen(t, n + 1, open, b)
         IN  /\ Accounted(f, n + 1)
             /\ OpenIds(f) = OpenIds(t) \cup {n + 1}
             /\ Settles(t, f)
<1> DEFINE c   == OnSegmentClose(t, n + 1, open)
           seg == [ id |-> n + 1, open |-> open,
                    reads    |-> [ p \in Payloads |-> 0 ],
                    evidence |-> PreRolled(b, open - PreRoll) ]
           f   == OnSegmentOpen(t, n + 1, open, b)
<1>1. Accounted(c, n) /\ OpenIds(c) = OpenIds(t) \ {n + 1} /\ Settles(t, c)
  BY OnSegmentCloseAccounts
<1>2. n + 1 \notin OpenIds(t)
  BY DEF Accounted, AccountsFor
<1>3. seg \in Segment /\ seg.id = n + 1
  <2>1. [ p \in Payloads |-> 0 ] \in [Payloads -> Nat]
    OBVIOUS
  <2>2. PreRolled(b, open - PreRoll) \in Reservoir
    BY PreRolledType, TrackerAssumption
  <2> QED
    BY <2>1, <2>2 DEF Segment
<1>4. f = [ c EXCEPT !.open = @ \cup {seg} ]
  BY DEF OnSegmentOpen
<1> HIDE DEF c, seg, f
<1>5. /\ f.open = c.open \cup {seg} /\ f.recent = c.recent
      /\ f.pending = c.pending /\ f.passes = c.passes
      /\ f.merged = c.merged /\ f.misses = c.misses
  BY <1>1, <1>4 DEF Accounted, IsTracker
<1>6. IsTracker(f)
  BY <1>1, <1>3, <1>4, <1>5 DEF Accounted, IsTracker
<1>7. OpenIds(f) = OpenIds(c) \cup {n + 1}
  BY <1>3, <1>5 DEF OpenIds
<1>8. /\ PendingIds(f) = PendingIds(c) /\ ReadIds(f) = ReadIds(c)
      /\ MissedIds(f) = MissedIds(c)
  BY <1>5 DEF PendingIds, ReadIds, MissedIds
<1>9. 1 .. n + 1 = (1 .. n) \cup {n + 1} /\ n + 1 \notin 1 .. n
  OBVIOUS
<1>10. AccountsFor(f, n + 1)
  BY <1>1, <1>7, <1>8, <1>9 DEF Accounted, AccountsFor
<1>11. NoDoubleMiss(f)
  BY <1>1, <1>5 DEF Accounted, NoDoubleMiss
<1> QED
  BY <1>1, <1>2, <1>6, <1>7, <1>8, <1>10, <1>11 DEF Accounted, Settles, f

(* Rewriting the open segments without touching their ids changes nothing  *)
(* of the account.                                                         *)
LEMMA RewriteOpenAccounts ==
  ASSUME NEW t, NEW n \in Nat, Accounted(t, n),
         NEW S \in SUBSET Segment, { seg.id : seg \in S } = OpenIds(t)
  PROVE  LET f == [ t EXCEPT !.open = S ]
         IN  Accounted(f, n) /\ OpenIds(f) = OpenIds(t) /\ Settles(t, f)
<1> DEFINE f == [ t EXCEPT !.open = S ]
<1>1. /\ f.open = S /\ f.recent = t.recent
      /\ f.pending = t.pending /\ f.passes = t.passes
      /\ f.merged = t.merged /\ f.misses = t.misses
  BY DEF Accounted, IsTracker
<1>2. IsTracker(f)
  BY <1>1 DEF Accounted, IsTracker
<1> HIDE DEF f
<1>3. /\ OpenIds(f) = OpenIds(t) /\ PendingIds(f) = PendingIds(t)
      /\ ReadIds(f) = ReadIds(t) /\ MissedIds(f) = MissedIds(t)
  BY <1>1 DEF OpenIds, PendingIds, ReadIds, MissedIds
<1>4. AccountsFor(f, n) /\ NoDoubleMiss(f)
  BY <1>1, <1>3 DEF Accounted, AccountsFor, NoDoubleMiss
<1> QED
  BY <1>2, <1>3, <1>4 DEF Accounted, Settles, f

LEMMA OnDecodeAccounts ==
  ASSUME NEW t, NEW n \in Nat, Accounted(t, n), NEW id, NEW read
  PROVE  LET f == OnDecode(t, id, read)
         IN  Accounted(f, n) /\ OpenIds(f) = OpenIds(t) /\ Settles(t, f)
<1> DEFINE Step(seg) == IF seg.id = id
                        THEN [ seg EXCEPT !.reads = [ p \in Payloads |->
                                 IF p \in read THEN @[p] + 1 ELSE @[p] ] ]
                        ELSE seg
           S == { Step(seg) : seg \in t.open }
<1>1. t.open \in SUBSET Segment
  BY DEF Accounted, IsTracker
<1>2. ASSUME NEW seg \in t.open
      PROVE  Step(seg) \in Segment /\ Step(seg).id = seg.id
  <2>1. [ p \in Payloads |-> IF p \in read THEN seg.reads[p] + 1 ELSE seg.reads[p] ]
          \in [Payloads -> Nat]
    BY <1>1 DEF Segment
  <2> QED
    BY <1>1, <2>1 DEF Segment
<1>3. OnDecode(t, id, read) = [ t EXCEPT !.open = S ]
  BY DEF OnDecode, Accounted, IsTracker
<1> HIDE DEF Step
<1>4. S \in SUBSET Segment /\ { seg.id : seg \in S } = OpenIds(t)
  BY <1>2 DEF OpenIds
<1> HIDE DEF S
<1>5. LET f == [ t EXCEPT !.open = S ]
      IN  Accounted(f, n) /\ OpenIds(f) = OpenIds(t) /\ Settles(t, f)
  BY <1>4, RewriteOpenAccounts
<1> QED
  BY <1>3, <1>5

(* Finalizing a prefix of the waiting misses only turns them into misses.  *)
LEMMA FinalizeFirstSettles ==
  ASSUME NEW t, NEW n \in Nat, Accounted(t, n), NEW k \in 0 .. Len(t.pending),
         NEW b \in SUBSET Nat
  PROVE  Settles(t, FinalizeFirst(t, k, b))
<1> DEFINE f == FinalizeFirst(t, k, b)
<1>1. /\ MissedIds(f) = MissedIds(t) \cup { t.pending[i].id : i \in 1 .. k }
      /\ PendingIds(f) = { t.pending[i].id : i \in (k + 1) .. Len(t.pending) }
  BY FinalizeFirstAccounts DEF Accounted
<1>2. f.passes = t.passes /\ f.merged = t.merged
  BY FinalizeFirstType DEF Accounted
<1>3. Len(t.pending) \in Nat /\ DOMAIN t.pending = 1 .. Len(t.pending)
  BY DEF Accounted, IsTracker
<1> HIDE DEF f
<1>4. PendingIds(t) \subseteq PendingIds(f) \cup MissedIds(f)
  <2> SUFFICES ASSUME NEW i \in 1 .. Len(t.pending)
               PROVE  t.pending[i].id \in PendingIds(f) \cup MissedIds(f)
    BY <1>3 DEF PendingIds
  <2>1. i \in 1 .. k \/ i \in (k + 1) .. Len(t.pending)
    BY <1>3
  <2> QED
    BY <1>1, <2>1
<1> QED
  BY <1>1, <1>2, <1>4 DEF Settles, ReadIds, f

LEMMA FlushPendingAccounts ==
  ASSUME NEW t, NEW n \in Nat, Accounted(t, n), NEW b \in SUBSET Nat
  PROVE  LET f == FlushPending(t, b)
         IN  Accounted(f, n) /\ OpenIds(f) = OpenIds(t) /\ PendingIds(f) = {}
             /\ Settles(t, f)
<1> DEFINE L == Len(t.pending)
<1>1. L \in 0 .. Len(t.pending) /\ t.pending \in Seq(Waiting) /\ IsTracker(t)
  BY DEF Accounted, IsTracker
<1>2. Accounted(FinalizeFirst(t, L, b), n)
  BY <1>1, FinalizeFirstType, FinalizeFirstAccounts DEF Accounted
<1>3. /\ FinalizeFirst(t, L, b).open = t.open
      /\ FinalizeFirst(t, L, b).pending = SubSeq(t.pending, L + 1, L)
      /\ FinalizeFirst(t, L, b).misses =
           t.misses \cup { Miss(t.pending[i], b) : i \in 1 .. L }
  BY <1>1, FinalizeFirstType
<1>4. SubSeq(t.pending, L + 1, L) = <<>>
  BY <1>1
<1>5. PendingIds(FinalizeFirst(t, L, b)) = {}
  BY <1>3, <1>4 DEF PendingIds
<1> QED
  BY <1>2, <1>3, <1>5, FinalizeFirstSettles DEF FlushPending, OpenIds, Accounted

LEMMA OnFrameTsAccounts ==
  ASSUME NEW t, NEW n \in Nat, Accounted(t, n), NEW ts, NEW b \in SUBSET Nat
  PROVE  LET f == OnFrameTs(t, ts, b)
         IN  Accounted(f, n) /\ OpenIds(f) = OpenIds(t) /\ Settles(t, f)
<1> DEFINE k == DueCount(t.pending, ts)
<1>1. k \in 0 .. Len(t.pending) /\ IsTracker(t)
  BY DueCountInRange DEF Accounted, IsTracker
<1> HIDE DEF k
<1>2. Accounted(FinalizeFirst(t, k, b), n)
  BY <1>1, FinalizeFirstType, FinalizeFirstAccounts DEF Accounted
<1>3. /\ FinalizeFirst(t, k, b).open = t.open
      /\ FinalizeFirst(t, k, b).misses =
           t.misses \cup { Miss(t.pending[i], b) : i \in 1 .. k }
  BY <1>1, FinalizeFirstType
<1> QED
  BY <1>1, <1>2, <1>3, FinalizeFirstSettles DEF OnFrameTs, OpenIds, Accounted, k

LEMMA SegmentFed ==
  ASSUME NEW seg \in Segment, NEW ts \in Nat
  PROVE  LET s == [ seg EXCEPT !.evidence = AddFrame(@, ts) ]
         IN  /\ s \in Segment
             /\ s.id = seg.id /\ s.open = seg.open /\ s.reads = seg.reads
             /\ Fed(s) = Fed(seg) \cup {ts}
<1> DEFINE a == AddFrame(seg.evidence, ts)
           s == [ seg EXCEPT !.evidence = a ]
<1>1. seg.evidence \in Reservoir
  BY DEF Segment
<1>2. a \in Reservoir /\ a.fed = Append(seg.evidence.fed, ts)
  BY <1>1, AddFrameType
<1>3. seg.evidence.fed \in Seq(Nat)
  BY <1>1, ReservoirFields
<1>4. Range(a.fed) = Range(seg.evidence.fed) \cup {ts}
  BY <1>2, <1>3, AppendRange
<1> HIDE DEF a
<1>5. s \in Segment /\ s.id = seg.id /\ s.open = seg.open /\ s.reads = seg.reads /\ s.evidence = a
  BY <1>2 DEF Segment
<1> HIDE DEF s
<1>6. Fed(s) = Fed(seg) \cup {ts}
  BY <1>4, <1>5 DEF Fed
<1>7. s = [ seg EXCEPT !.evidence = AddFrame(@, ts) ]
  BY DEF s, a
<1> QED
  BY <1>5, <1>6, <1>7

LEMMA OnFrameAccounts ==
  ASSUME NEW t, NEW n \in Nat, Accounted(t, n), NEW ts \in Nat, NEW b \in SUBSET Nat
  PROVE  LET f == OnFrame(t, ts, b)
         IN  Accounted(f, n) /\ OpenIds(f) = OpenIds(t) /\ Settles(t, f)
<1> DEFINE S == { [ seg EXCEPT !.evidence = AddFrame(@, ts) ] : seg \in t.open }
           g == [ t EXCEPT !.open = S ]
<1>1. t.open \in SUBSET Segment
  BY DEF Accounted, IsTracker
<1>2. \A seg \in t.open : /\ [ seg EXCEPT !.evidence = AddFrame(@, ts) ] \in Segment
                          /\ [ seg EXCEPT !.evidence = AddFrame(@, ts) ].id = seg.id
  BY <1>1, SegmentFed
<1>3. S \in SUBSET Segment /\ { seg.id : seg \in S } = OpenIds(t)
  BY <1>2 DEF OpenIds
<1> HIDE DEF S
<1>4. Accounted(g, n) /\ OpenIds(g) = OpenIds(t) /\ Settles(t, g)
  BY <1>3, RewriteOpenAccounts
<1>5. OnFrame(t, ts, b) = OnFrameTs(g, ts, b)
  BY DEF OnFrame, Accounted, IsTracker, S
<1> HIDE DEF g
<1>6. LET f == OnFrameTs(g, ts, b)
      IN  Accounted(f, n) /\ OpenIds(f) = OpenIds(g) /\ Settles(g, f)
  BY <1>4, OnFrameTsAccounts
<1> QED
  BY <1>4, <1>5, <1>6, SettlesTransitive DEF g

-----------------------------------------------------------------------------
(* What the methods do, field by field.                                    *)

(* on_frame_ts finalizes the misses that are due up to the first one that  *)
(* is not: of a sorted list, all of them.                                  *)
LEMMA DueCountIsDue ==
  ASSUME NEW T, NEW pending \in Seq(T), NEW ts \in Nat
  PROVE  /\ \A i \in 1 .. DueCount(pending, ts) : pending[i].deadline <= ts
         /\ \A n \in 1 .. Len(pending) :
              (\A i \in 1 .. n : pending[i].deadline <= ts) => n <= DueCount(pending, ts)
<1> DEFINE L   == Len(pending)
           due == { n \in 1 .. L : \A i \in 1 .. n : pending[i].deadline <= ts }
           k   == DueCount(pending, ts)
<1>1. L \in Nat
  OBVIOUS
<1>2. k = Cardinality(due) /\ k \in 0 .. L
  BY DueCountInRange DEF DueCount
<1>3. IsFiniteSet(1 .. L) /\ due \subseteq 1 .. L
  BY <1>1, FS_Interval
<1>4. IsFiniteSet(due)
  BY <1>3, FS_Subset
<1> HIDE DEF L, k
<1>5. ASSUME NEW n \in 1 .. L, \A i \in 1 .. n : pending[i].deadline <= ts
      PROVE  n <= k
  <2>1. 1 .. n \subseteq due
    BY <1>1, <1>5
  <2>2. IsFiniteSet(1 .. n) /\ Cardinality(1 .. n) = n
    BY <1>1, FS_Interval
  <2>3. Cardinality(1 .. n) <= Cardinality(due)
    BY <1>4, <2>1, FS_Subset
  <2> QED
    BY <1>2, <2>2, <2>3
<1>6. ASSUME NEW i \in 1 .. k, ~ (pending[i].deadline <= ts)
      PROVE  FALSE
  <2>1. i \in 1 .. L
    BY <1>1, <1>2
  <2>2. due \subseteq 1 .. (i - 1)
    <3> SUFFICES ASSUME NEW n \in due PROVE n \in 1 .. (i - 1)
      OBVIOUS
    <3>1. ~ (i \in 1 .. n)
      BY <1>6
    <3> QED
      BY <1>1, <2>1, <3>1
  <2>3. IsFiniteSet(1 .. (i - 1)) /\ Cardinality(1 .. (i - 1)) = i - 1
    <3>1. i - 1 \in Nat /\ 1 \in Nat
      BY <2>1
    <3> QED
      BY <3>1, FS_Interval
  <2>4. Cardinality(due) <= i - 1
    BY <2>2, <2>3, FS_Subset
  <2>5. k <= i - 1
    BY <1>2, <2>4
  <2> QED
    BY <1>1, <1>2, <1>6, <2>1, <2>5
<1> QED
  BY <1>5, <1>6 DEF L, k

(* What becomes of the segment of an open id that closes: a waiting miss,  *)
(* or sightings, the repeats apart.                                        *)
CloseEffect(t, f, id, close) ==
  \E seg \in t.open :
    /\ seg.id = id
    /\ f.open = { s \in t.open : s.id # id } /\ f.misses = t.misses
    /\ \/ /\ Confirmed(seg) = {} /\ f.pending = Append(t.pending, PendingMiss(seg, close))
          /\ f.passes = t.passes /\ f.merged = t.merged /\ f.recent = t.recent
       \/ /\ Confirmed(seg) # {} /\ f.pending = t.pending
          /\ \E emit \in SUBSET Payloads, rest \in SUBSET Payloads :
               /\ \A p \in emit : ~ IsRepeat(t, p, close)
               /\ \A p \in rest : IsRepeat(t, p, close)
               /\ f.passes = t.passes \cup { Sighting(seg, p, close) : p \in emit }
               /\ f.merged = t.merged \cup { Sighting(seg, p, close) : p \in rest }
               /\ f.recent = Refresh(t.recent, emit, close)

LEMMA OnSegmentCloseEffect ==
  ASSUME NEW t, IsTracker(t), NEW id \in OpenIds(t), NEW close \in Nat
  PROVE  CloseEffect(t, OnSegmentClose(t, id, close), id, close)
<1> DEFINE f    == OnSegmentClose(t, id, close)
           this == { seg \in t.open : seg.id = id }
           rest == [ t EXCEPT !.open = @ \ this ]
           seg  == CHOOSE x \in this : TRUE
<1>1. this # {}
  BY DEF OpenIds
<1>2. seg \in t.open /\ seg.id = id
  BY <1>1
<1>3. seg \in Segment
  BY <1>2 DEF IsTracker
<1>4. f = FinalizeSegment(rest, seg, close)
  BY <1>1 DEF OnSegmentClose
<1>5. /\ rest.open = { s \in t.open : s.id # id } /\ rest.recent = t.recent
      /\ rest.pending = t.pending /\ rest.passes = t.passes
      /\ rest.merged = t.merged /\ rest.misses = t.misses
  BY DEF IsTracker
<1>6. IsTracker(rest)
  BY <1>5 DEF IsTracker
<1>7. \A p : IsRepeat(rest, p, close) <=> IsRepeat(t, p, close)
  BY <1>5 DEF IsRepeat
<1> HIDE DEF f, this, rest, seg
<1>8. CASE Confirmed(seg) = {}
  <2>1. /\ f.open = rest.open /\ f.passes = rest.passes /\ f.merged = rest.merged
        /\ f.misses = rest.misses /\ f.recent = rest.recent
        /\ f.pending = Append(rest.pending, PendingMiss(seg, close))
    BY <1>3, <1>4, <1>6, <1>8, FinalizeSegmentAsMiss
  <2> QED
    BY <1>2, <1>5, <1>8, <2>1 DEF f, CloseEffect
<1>9. CASE Confirmed(seg) # {}
  <2>1. /\ f.open = rest.open /\ f.pending = rest.pending /\ f.misses = rest.misses
        /\ \E E \in SUBSET Payloads, R \in SUBSET Payloads :
             /\ \A p \in E : ~ IsRepeat(rest, p, close)
             /\ \A p \in R : IsRepeat(rest, p, close)
             /\ f.passes = rest.passes \cup { Sighting(seg, p, close) : p \in E }
             /\ f.merged = rest.merged \cup { Sighting(seg, p, close) : p \in R }
             /\ f.recent = Refresh(rest.recent, E, close)
    BY <1>3, <1>4, <1>6, <1>9, FinalizeSegmentAsRead
  <2>2. \E E \in SUBSET Payloads, R \in SUBSET Payloads :
             /\ \A p \in E : ~ IsRepeat(t, p, close)
             /\ \A p \in R : IsRepeat(t, p, close)
             /\ f.passes = t.passes \cup { Sighting(seg, p, close) : p \in E }
             /\ f.merged = t.merged \cup { Sighting(seg, p, close) : p \in R }
             /\ f.recent = Refresh(t.recent, E, close)
    BY <1>5, <1>7, <2>1
  <2> QED
    BY <1>2, <1>5, <1>9, <2>1, <2>2 DEF f, CloseEffect
<1> QED
  BY <1>8, <1>9

LEMMA TrackerFields ==
  ASSUME NEW t, IsTracker(t)
  PROVE  /\ t.open \subseteq Segment
         /\ t.pending \in Seq(Waiting) /\ Len(t.pending) \in Nat
         /\ DOMAIN t.pending = 1 .. Len(t.pending)
         /\ \A i \in 1 .. Len(t.pending) : t.pending[i] \in Waiting
         /\ t.passes \subseteq Sighted /\ t.merged \subseteq Sighted
         /\ t.misses \subseteq Lost
         /\ IsWindow(t.recent)
<1>1. t.pending \in Seq(Waiting)
  BY DEF IsTracker
<1> QED
  BY <1>1 DEF IsTracker

(* The fields of on_frame's result.                                        *)
LEMMA OnFrameFields ==
  ASSUME NEW t, IsTracker(t), NEW ts \in Nat, NEW b \in SUBSET Nat
  PROVE  LET f == OnFrame(t, ts, b)
             v == FinalizeFirst(t, DueCount(t.pending, ts), b)
         IN  /\ f.open = { [ s EXCEPT !.evidence = AddFrame(@, ts) ] : s \in t.open }
             /\ f.pending = v.pending /\ f.misses = v.misses
             /\ f.passes = t.passes /\ f.merged = t.merged /\ f.recent = t.recent
<1> DEFINE O == { [ s EXCEPT !.evidence = AddFrame(@, ts) ] : s \in t.open }
           u == [ t EXCEPT !.open = O ]
           k == DueCount(t.pending, ts)
<1>1. k \in 0 .. Len(t.pending)
  BY DueCountInRange, TrackerFields
<1>2. /\ u.open = O /\ u.pending = t.pending /\ u.misses = t.misses
      /\ u.passes = t.passes /\ u.merged = t.merged /\ u.recent = t.recent
  BY DEF IsTracker
<1>3. \A s \in t.open : [ s EXCEPT !.evidence = AddFrame(@, ts) ] \in Segment
  BY TrackerFields, SegmentFed
<1>4. O \subseteq Segment
  BY <1>3
<1> HIDE DEF O
<1>5. IsTracker(u)
  BY <1>2, <1>4 DEF IsTracker
<1>6. OnFrame(t, ts, b) = FinalizeFirst(u, k, b)
  BY <1>2 DEF OnFrame, OnFrameTs, O
<1> HIDE DEF u, k
<1>7. k \in 0 .. Len(u.pending)
  BY <1>1, <1>2
<1>8. /\ FinalizeFirst(u, k, b).open = u.open
      /\ FinalizeFirst(u, k, b).recent = u.recent
      /\ FinalizeFirst(u, k, b).passes = u.passes
      /\ FinalizeFirst(u, k, b).merged = u.merged
      /\ FinalizeFirst(u, k, b).misses = u.misses \cup { Miss(u.pending[i], b) : i \in 1 .. k }
      /\ FinalizeFirst(u, k, b).pending = SubSeq(u.pending, k + 1, Len(u.pending))
  BY <1>5, <1>7, FinalizeFirstType
<1>9. /\ FinalizeFirst(t, k, b).misses = t.misses \cup { Miss(t.pending[i], b) : i \in 1 .. k }
      /\ FinalizeFirst(t, k, b).pending = SubSeq(t.pending, k + 1, Len(t.pending))
  BY <1>1, FinalizeFirstType
<1> QED
  BY <1>2, <1>6, <1>8, <1>9 DEF O, k

(* The decode results of a frame touch no time and no evidence.            *)
LEMMA OnDecodeFields ==
  ASSUME NEW t, IsTracker(t), NEW id, NEW read
  PROVE  LET f == OnDecode(t, id, read)
         IN  /\ f.pending = t.pending /\ f.misses = t.misses /\ f.recent = t.recent
             /\ f.passes = t.passes /\ f.merged = t.merged
             /\ \A s \in f.open : \E o \in t.open :
                  s.id = o.id /\ s.open = o.open /\ s.evidence = o.evidence
<1> DEFINE Step(seg) == IF seg.id = id
                        THEN [ seg EXCEPT !.reads = [ p \in Payloads |->
                                 IF p \in read THEN @[p] + 1 ELSE @[p] ] ]
                        ELSE seg
           f == OnDecode(t, id, read)
<1>1. ASSUME NEW seg \in t.open
      PROVE  Step(seg).id = seg.id /\ Step(seg).open = seg.open /\ Step(seg).evidence = seg.evidence
  <2>1. seg \in Segment
    BY TrackerFields
  <2> QED
    BY <2>1 DEF Segment
<1>2. /\ f.pending = t.pending /\ f.misses = t.misses /\ f.recent = t.recent
      /\ f.passes = t.passes /\ f.merged = t.merged
      /\ f.open = { Step(seg) : seg \in t.open }
  BY DEF OnDecode, IsTracker
<1> HIDE DEF Step, f
<1>3. \A s \in f.open : \E o \in t.open : s.id = o.id /\ s.open = o.open /\ s.evidence = o.evidence
  BY <1>1, <1>2
<1> QED
  BY <1>2, <1>3 DEF f
=============================================================================
