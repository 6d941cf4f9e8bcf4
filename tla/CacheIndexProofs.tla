-------------------------- MODULE CacheIndexProofs --------------------------
(***************************************************************************)
(* Lemmas about the index arithmetic of the group caches, for every modulus*)
(* M and counter range W that IndexAssumption admits.                      *)
(***************************************************************************)
EXTENDS CacheIndex, TLAPS

\* The remainder is determined by the division equation.
LEMMA ModUnique ==
  ASSUME NEW m \in Nat \ {0}, NEW q \in Int, NEW r \in 0..(m - 1)
  PROVE  (m * q + r) % m = r
OBVIOUS

\* A remainder lies below the modulus.
LEMMA ModRange ==
  ASSUME NEW m \in Nat \ {0}, NEW x \in Int
  PROVE  x % m \in 0..(m - 1)
OBVIOUS

\* Below the modulus a number is its own remainder.
LEMMA ModSmall ==
  ASSUME NEW m \in Nat \ {0}, NEW x \in 0..(m - 1)
  PROVE  x % m = x
OBVIOUS

\* Going back d <= m from x moves the remainder back d, once around at most.
LEMMA ModSub ==
  ASSUME NEW m \in Nat \ {0}, NEW x \in Int, NEW d \in 0..m
  PROVE  (x - d) % m = IF x % m >= d THEN (x % m) - d ELSE (x % m) - d + m
<1> DEFINE q == x \div m
           r == x % m
<1>1. r \in 0..(m - 1) /\ q \in Int /\ x = m * q + r
  OBVIOUS
<1>2. CASE r >= d
  <2>1. x - d = m * q + (r - d) /\ r - d \in 0..(m - 1)
    BY <1>1, <1>2
  <2>2. (m * q + (r - d)) % m = r - d
    BY <2>1, <1>1, ModUnique, Zenon
  <2> QED
    BY <2>1, <2>2, <1>2
<1>3. CASE ~(r >= d)
  <2>1. x - d = m * (q - 1) + (r - d + m) /\ r - d + m \in 0..(m - 1)
    BY <1>1, <1>3
  <2> HIDE DEF q, r
  <2>2. \A k \in Int, e \in 0..(m - 1) : (m * k + e) % m = e
    BY ModUnique
  <2>3. q - 1 \in Int
    BY <1>1
  <2>4. (m * (q - 1) + (r - d + m)) % m = r - d + m
    BY <2>1, <2>2, <2>3, Zenon
  <2> QED
    BY <2>1, <2>4, <1>3 DEF q, r
<1> QED
  BY <1>2, <1>3

\* A full turn does not change the remainder.
LEMMA ModTurn ==
  ASSUME NEW m \in Nat \ {0}, NEW x \in Int
  PROVE  (x + m) % m = x % m
<1> DEFINE q == x \div m
           r == x % m
<1>1. r \in 0..(m - 1) /\ q \in Int /\ x = m * q + r
  OBVIOUS
<1> HIDE DEF q, r
<1>2. x + m = m * (q + 1) + r /\ q + 1 \in Int
  BY <1>1
<1>3. \A k \in Int, e \in 0..(m - 1) : (m * k + e) % m = e
  BY ModUnique
<1> QED
  BY <1>1, <1>2, <1>3, Zenon DEF r

-----------------------------------------------------------------------------

\* An index is below the modulus.
LEMMA IndexRange ==
  /\ W % M \in 0..(M - 1)
  /\ \A x \in Int : Wrapped(x) \in 0..(M - 1)
  /\ \A x \in Int : UInt(x) \in 0..(W - 1)
<1>1. M \in Nat \ {0} /\ W \in Nat \ {0} /\ W \in Int
  BY IndexAssumption
<1>2. \A m \in Nat \ {0}, x \in Int : x % m \in 0..(m - 1)
  BY ModRange
<1> QED
  BY <1>1, <1>2 DEF Wrapped, UInt

\* Between two indices, the uint32_t distance is the distance around a circle
\* of M points: the subtraction never reaches the uint32_t boundary.
LEMMA DistanceOfIndices ==
  ASSUME NEW x \in 0..(M - 1), NEW s \in 0..(M - 1)
  PROVE  Distance(x, s) = IF x >= s THEN x - s ELSE x - s + M
<1> USE IndexAssumption
<1>1. x - s + M \in 0..(W - 1)
  OBVIOUS
<1>2. UInt(x - s + M) = x - s + M
  BY <1>1, ModSmall DEF UInt
<1>3. CASE x >= s
  <2>1. x - s \in 0..(M - 1)
    BY <1>3
  <2>2. (M * 1 + (x - s)) % M = x - s
    BY <2>1, ModUnique
  <2>3. x - s + M = M * 1 + (x - s)
    BY <2>1
  <2> QED
    BY <1>2, <1>3, <2>2, <2>3 DEF Distance
<1>4. CASE ~(x >= s)
  BY <1>2, <1>4, ModSmall DEF Distance
<1> QED
  BY <1>3, <1>4

\* The index d <= W % M pushes ago.  Before the counter has wrapped it lies d
\* points back on the circle; across the wrap it is counted from W % M.
LEMMA IndexBack ==
  ASSUME NEW p \in 0..(W - 1), NEW d \in 0..(W % M)
  PROVE  Wrapped(UInt(p - d)) =
           IF p >= d
           THEN IF Wrapped(p) >= d THEN Wrapped(p) - d ELSE Wrapped(p) - d + M
           ELSE (W % M) + p - d
<1> USE IndexAssumption
<1> DEFINE R == W % M
<1>1. R \in 0..(M - 1)
  BY IndexRange
<1>2. CASE p >= d
  <2>1. UInt(p - d) = p - d
    BY <1>2, <1>1, ModSmall DEF UInt
  <2> QED
    BY <1>2, <1>1, <2>1, ModSub DEF Wrapped
<1>3. CASE ~(p >= d)
  <2>1. p - d + W \in 0..(W - 1) /\ p < M
    BY <1>3, <1>1
  <2>2. W * (-1) + (p - d + W) = p - d
    BY <2>1, <1>1
  <2>3. UInt(p - d) = W - (d - p)
    BY <2>1, <2>2, <1>1, ModUnique DEF UInt
  <2>4. d - p \in 0..M /\ R >= d - p
    BY <1>3, <1>1
  <2>5. \A e \in 0..M : W % M >= e => (W - e) % M = (W % M) - e
    BY ModSub
  <2> QED
    BY <1>3, <1>1, <2>3, <2>4, <2>5 DEF Wrapped
<1> QED
  BY <1>2, <1>3
\* Going back no pushes gives the index itself.
LEMMA BackNone ==
  ASSUME NEW p \in 0..(W - 1)
  PROVE  UInt(p - 0) = p
BY IndexAssumption, ModSmall DEF UInt

\* One push later the same counter value lies one push further back.
LEMMA BackOneMore ==
  ASSUME NEW p \in 0..(W - 1), NEW d \in Nat
  PROVE  UInt(FetchAdd(p) - (d + 1)) = UInt(p - d)
<1> USE IndexAssumption
<1>1. CASE p < W - 1
  <2>1. FetchAdd(p) = p + 1
    BY <1>1, ModSmall DEF FetchAdd, UInt
  <2>2. (p + 1) - (d + 1) = p - d
    OBVIOUS
  <2> QED
    BY <2>1, <2>2
<1>2. CASE p = W - 1
  <2>1. FetchAdd(p) = 0
    BY <1>2, ModUnique DEF FetchAdd, UInt
  <2>2. 0 - (d + 1) \in Int /\ p - d = (0 - (d + 1)) + W
    BY <1>2
  <2>3. W \in Nat \ {0}
    OBVIOUS
  <2>4. (0 - (d + 1) + W) % W = (0 - (d + 1)) % W
    BY ONLY <2>2, <2>3, ModTurn, Zenon
  <2> QED
    BY <2>1, <2>2, <2>4 DEF UInt
<1> QED
  BY <1>1, <1>2

-----------------------------------------------------------------------------

\* A client that lags by lag <= M/2 pushes is handed the entry pushed k < lag
\* pushes ago, wherever the index and the counter wrapped in between.
LEMMA NewEntryInDelta ==
  ASSUME NEW p \in 0..(W - 1), NEW lag \in 0..(M \div 2), NEW k \in 0..(lag - 1)
  PROVE  InDelta(Wrapped(UInt(p - k)), Wrapped(UInt(p - lag)), Wrapped(p))
<1> USE IndexAssumption
<1> DEFINE R == W % M
           P == Wrapped(p)
           S == Wrapped(UInt(p - lag))
           E == Wrapped(UInt(p - k))
<1>1. R \in 0..(M - 1) /\ P \in 0..(M - 1) /\ lag < R /\ k < lag
  BY IndexRange
<1>2. p < M => P = p
  BY ModSmall DEF Wrapped
<1>3. S = IF p >= lag THEN IF P >= lag THEN P - lag ELSE P - lag + M
                      ELSE R + p - lag
  BY <1>1, IndexBack
<1>4. E = IF p >= k THEN IF P >= k THEN P - k ELSE P - k + M
                    ELSE R + p - k
  BY <1>1, IndexBack
<1>5. S \in 0..(M - 1) /\ E \in 0..(M - 1)
  BY <1>1, <1>2, <1>3, <1>4
<1>6. /\ Distance(P, S) = IF P >= S THEN P - S ELSE P - S + M
      /\ Distance(E, S) = IF E >= S THEN E - S ELSE E - S + M
  BY <1>1, <1>5, DistanceOfIndices, Zenon
<1> HIDE DEF R, P, S, E
<1>7. \/ Distance(E, S) <= Distance(P, S) /\ Distance(E, S) # 0
      \/ S # 0 /\ Distance(P, S) >= M \div 2
  BY <1>1, <1>2, <1>3, <1>4, <1>5, <1>6
<1> QED
  BY <1>7 DEF InDelta, EpochMismatch, P, S, E

\* A client with an index that gets no full refresh is not handed an entry it
\* has seen, unless that entry is W % M or more pushes old.
LEMMA SeenEntryNotInDelta ==
  ASSUME NEW p \in 0..(W - 1), NEW lag \in 0..(M \div 2), NEW k \in lag..((W % M) - 1),
         Wrapped(UInt(p - lag)) # 0,
         ~EpochMismatch(Wrapped(p), Wrapped(UInt(p - lag)))
  PROVE  ~InDelta(Wrapped(UInt(p - k)), Wrapped(UInt(p - lag)), Wrapped(p))
<1> USE IndexAssumption
<1> DEFINE R == W % M
           P == Wrapped(p)
           S == Wrapped(UInt(p - lag))
           E == Wrapped(UInt(p - k))
<1>1. R \in 0..(M - 1) /\ P \in 0..(M - 1) /\ lag < R /\ k < R /\ lag <= k
  BY IndexRange
<1>2. p < M => P = p
  BY ModSmall DEF Wrapped
<1>3. S = IF p >= lag THEN IF P >= lag THEN P - lag ELSE P - lag + M
                      ELSE R + p - lag
  BY <1>1, IndexBack
<1>4. E = IF p >= k THEN IF P >= k THEN P - k ELSE P - k + M
                    ELSE R + p - k
  BY <1>1, IndexBack
<1>5. S \in 0..(M - 1) /\ E \in 0..(M - 1)
  BY <1>1, <1>2, <1>3, <1>4
<1>6. /\ Distance(P, S) = IF P >= S THEN P - S ELSE P - S + M
      /\ Distance(E, S) = IF E >= S THEN E - S ELSE E - S + M
  BY <1>1, <1>5, DistanceOfIndices, Zenon
<1>7. S # 0 /\ ~(Distance(P, S) >= M \div 2)
  BY DEF EpochMismatch
<1> HIDE DEF R, P, S, E
<1>8. Distance(E, S) > Distance(P, S) \/ Distance(E, S) = 0
  BY <1>1, <1>2, <1>3, <1>4, <1>5, <1>6, <1>7
<1>9. Distance(E, S) \in Int /\ Distance(P, S) \in Int
  BY <1>1, <1>5, <1>6
<1>10. ~InDelta(E, S, P)
  BY <1>7, <1>8, <1>9 DEF InDelta, EpochMismatch
<1> QED
  BY <1>10 DEF P, S, E
=============================================================================
