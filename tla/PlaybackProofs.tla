--------------------------- MODULE PlaybackProofs ---------------------------
(***************************************************************************)
(* Theorems of Streaks, for every list of days; of Listening and of        *)
(* Playback, which extends it: for any number of players of the account    *)
(* and the child, any clocks, any reports and faults, any controls, and    *)
(* any number of changes by the parent, support and commerce.  A behaviour *)
(* of Playback interleaves that of Listening with its own steps, so what   *)
(* holds of Listening is used there.                                       *)
(***************************************************************************)
EXTENDS Playback, MCListening, FiniteSums

-----------------------------------------------------------------------------
(***************************************************************************)
(* Streaks.                                                                *)
(***************************************************************************)
\* The greatest number of a bounded set.
LEMMA MaxOf ==
    ASSUME NEW S \in SUBSET Int, NEW m \in S, \A x \in S : x <= m
    PROVE  Max(S) = m
<1>1. /\ Max(S) \in S
      /\ \A y \in S : Max(S) >= y
  BY DEF Max
<1>2. m \in Int /\ Max(S) \in Int /\ Max(S) >= m /\ Max(S) <= m
  BY <1>1
<1> QED
  BY <1>2

\* A bounded set of numbers has one.
LEMMA MaxExists ==
    ASSUME NEW n \in Nat, NEW S \in SUBSET (0 .. n), S # {}
    PROVE  Max(S) \in S /\ \A x \in S : x <= Max(S)
<1> DEFINE Q == {k \in Nat : \A T \in SUBSET (0 .. k) : T # {} => \E m \in T : \A x \in T : x <= m}
<1>1. 0 \in Q
  <2>1. ASSUME NEW T \in SUBSET (0 .. 0), T # {} PROVE \E m \in T : \A x \in T : x <= m
    <3>1. \A x \in T : x \in 0 .. 0
      OBVIOUS
    <3>2. \A x \in T : x <= 0 /\ x = 0
      BY <3>1
    <3>3. 0 \in T
      BY <2>1, <3>2
    <3> QED
      BY <3>2, <3>3
  <2> QED
    BY <2>1
<1>2. ASSUME NEW k \in Nat, k \in Q PROVE k + 1 \in Q
  <2> SUFFICES ASSUME NEW T \in SUBSET (0 .. k + 1), T # {} PROVE \E m \in T : \A x \in T : x <= m
    OBVIOUS
  <2>1. CASE k + 1 \in T
    BY <2>1
  <2>2. CASE k + 1 \notin T
    <3>1. T \in SUBSET (0 .. k)
      BY <2>2
    <3> QED
      BY <1>2, <3>1
  <2> QED
    BY <2>1, <2>2
<1> HIDE DEF Q
<1>3. n \in Q
  BY <1>1, <1>2, NatSetInduction
<1>4. PICK m \in S : \A x \in S : x <= m
  BY <1>3 DEF Q
<1>5. Max(S) = m
  BY <1>4, MaxOf
<1> QED
  BY <1>4, <1>5

\* s lists the days, the newest first.
Lists(s, n, days) ==
    /\ s \in [1 .. n -> days]
    /\ \A i, j \in 1 .. n : i < j => s[i] > s[j]
    /\ \A d \in days : \E i \in 1 .. n : s[i] = d

\* A day has as many newer ones as its place says: the count is an injection into
\* the places, and there are as many of these as days.
LEMMA NewestFirst ==
    ASSUME NEW days \in SUBSET Int, IsFiniteSet(days)
    PROVE  Cardinality(days) \in Nat /\ Lists(Normalized(days), Cardinality(days), days)
<1> DEFINE n == Cardinality(days)
           rank == [d \in days |-> Cardinality(Newer(days, d))]
           s == Normalized(days)
<1>1. n \in Nat
  BY FS_CardinalityType
<1>2. ASSUME NEW d \in days PROVE rank[d] \in 0 .. n - 1
  <2>1. Newer(days, d) \in SUBSET days /\ d \notin Newer(days, d)
    BY DEF Newer
  <2>2. /\ IsFiniteSet(Newer(days, d)) /\ Cardinality(Newer(days, d)) <= n
        /\ Cardinality(Newer(days, d)) # n
    BY <2>1, FS_Subset
  <2>3. Cardinality(Newer(days, d)) \in Nat
    BY <2>2, FS_CardinalityType
  <2> QED
    BY <1>1, <2>2, <2>3
<1>3. ASSUME NEW d \in days, NEW e \in days, d > e PROVE rank[d] < rank[e]
  <2>1. Newer(days, d) \in SUBSET Newer(days, e) /\ d \in Newer(days, e) /\ d \notin Newer(days, d)
    <3>1. \A x \in days : x > d => x > e
      BY <1>3
    <3>2. ~ d > d
      OBVIOUS
    <3> QED
      BY <1>3, <3>1, <3>2 DEF Newer
  <2>2. IsFiniteSet(Newer(days, e))
    BY FS_Subset DEF Newer
  <2>3. /\ Cardinality(Newer(days, d)) <= Cardinality(Newer(days, e))
        /\ Cardinality(Newer(days, d)) # Cardinality(Newer(days, e))
    BY <2>1, <2>2, FS_Subset
  <2>4. rank[d] \in Int /\ rank[e] \in Int
    BY <1>2
  <2> QED
    BY <2>3, <2>4
<1> HIDE DEF n
<1>4. rank \in Injection(days, 0 .. n - 1)
  <2>1. rank \in [days -> 0 .. n - 1]
    BY <1>2
  <2>2. \A d, e \in days : d # e => rank[d] # rank[e]
    <3> SUFFICES ASSUME NEW d \in days, NEW e \in days, d # e PROVE rank[d] # rank[e]
      OBVIOUS
    <3>1. d > e \/ e > d
      OBVIOUS
    <3>2. rank[d] \in Int /\ rank[e] \in Int
      BY <1>2
    <3> HIDE DEF rank
    <3> QED
      BY <1>3, <3>1, <3>2
  <2> HIDE DEF rank
  <2> QED
    BY <2>1, <2>2 DEF Injection, IsInjective
<1>5. IsFiniteSet(0 .. n - 1) /\ Cardinality(0 .. n - 1) = n
  <2>1. n - 1 \in Int /\ (IF 0 > n - 1 THEN 0 ELSE n - 1 - 0 + 1) = n
    BY <1>1
  <2>2. /\ IsFiniteSet(0 .. n - 1)
        /\ Cardinality(0 .. n - 1) = IF 0 > n - 1 THEN 0 ELSE n - 1 - 0 + 1
    BY <2>1, FS_Interval
  <2> QED
    BY <2>1, <2>2
<1>6. rank \in Surjection(days, 0 .. n - 1)
  BY <1>4, <1>5, FS_Injection DEF n
<1>7. ASSUME NEW i \in 1 .. n PROVE s[i] \in days /\ rank[s[i]] = i - 1
  <2>1. i - 1 \in 0 .. n - 1
    BY <1>1
  <2>2. \E d \in days : rank[d] = i - 1
    BY <1>6, <2>1 DEF Surjection
  <2>3. s[i] = CHOOSE d \in days : Cardinality(Newer(days, d)) = i - 1
    BY DEF Normalized, n
  <2>4. \E d \in days : Cardinality(Newer(days, d)) = i - 1
    BY <2>2
  <2>5. s[i] \in days /\ Cardinality(Newer(days, s[i])) = i - 1
    BY <2>3, <2>4
  <2> QED
    BY <2>5
<1>8. s = [i \in 1 .. n |-> s[i]]
  BY DEF Normalized, n
<1> HIDE DEF s
<1>9. s \in [1 .. n -> days]
  BY <1>7, <1>8
<1> HIDE DEF rank
<1>10. ASSUME NEW i \in 1 .. n, NEW j \in 1 .. n, i < j PROVE s[i] > s[j]
  <2>1. s[i] \in Int /\ s[j] \in Int /\ s[i] # s[j]
    <3>1. s[i] \in days /\ s[j] \in days /\ rank[s[i]] = i - 1 /\ rank[s[j]] = j - 1
      BY <1>7
    <3>2. i - 1 # j - 1
      BY <1>1, <1>10
    <3> QED
      BY <3>1, <3>2
  <2>2. ~ s[j] > s[i]
    <3>1. s[i] \in days /\ s[j] \in days /\ rank[s[i]] = i - 1 /\ rank[s[j]] = j - 1
      BY <1>7
    <3>2. ~ j - 1 < i - 1
      BY <1>1, <1>10
    <3> QED
      BY <1>3, <3>1, <3>2
  <2> QED
    BY <2>1, <2>2
<1>11. ASSUME NEW d \in days PROVE \E i \in 1 .. n : s[i] = d
  <2>1. rank[d] \in 0 .. n - 1 /\ rank[d] + 1 \in 1 .. n
    BY <1>1, <1>2
  <2>2. s[rank[d] + 1] \in days /\ rank[s[rank[d] + 1]] = rank[d]
    BY <1>7, <2>1
  <2>3. s[rank[d] + 1] = d
    BY <1>4, <2>2 DEF Injection, IsInjective
  <2> QED
    BY <2>1, <2>3
<1> QED
  BY <1>1, <1>9, <1>10, <1>11 DEF Lists, n, s

\* The recursion of Runs has a solution: it can be built up place by place.
LEMMA RunsRecur ==
    ASSUME NEW n \in Nat, NEW s, DOMAIN s = 1 .. n
    PROVE  /\ Runs(s) \in [1 .. n -> Nat]
           /\ \A i \in 1 .. n : Runs(s)[i] = IF NextDay(s, i) THEN Runs(s)[i - 1] + 1 ELSE 1
<1> DEFINE Value(g, i) == IF NextDay(s, i) THEN g[i - 1] + 1 ELSE 1
           UpTo(g, k) == g \in [1 .. k -> Nat] /\ \A i \in 1 .. k : g[i] = Value(g, i)
           Q == {k \in Nat : \E g : UpTo(g, k)}
<1>1. 0 \in Q
  <2>1. UpTo([i \in 1 .. 0 |-> 0], 0)
    OBVIOUS
  <2> QED
    BY <2>1
<1>2. ASSUME NEW k \in Nat, k \in Q PROVE k + 1 \in Q
  <2>1. PICK g : UpTo(g, k)
    BY <1>2
  <2> DEFINE h == [i \in 1 .. k + 1 |-> IF i = k + 1 THEN Value(g, i) ELSE g[i]]
  <2>2. \A i \in 1 .. k : h[i] = g[i]
    OBVIOUS
  <2>3. h[k + 1] = Value(g, k + 1) /\ Value(g, k + 1) \in Nat
    <3>1. NextDay(s, k + 1) => k \in 1 .. k
      BY DEF NextDay
    <3> QED
      BY <2>1, <3>1
  <2>4. h \in [1 .. k + 1 -> Nat]
    <3>1. \A i \in 1 .. k + 1 : i \in 1 .. k \/ i = k + 1
      OBVIOUS
    <3>2. h = [i \in 1 .. k + 1 |-> h[i]]
      OBVIOUS
    <3> HIDE DEF h, Value
    <3> QED
      BY <2>1, <2>2, <2>3, <3>1, <3>2
  <2> HIDE DEF h
  <2>5. ASSUME NEW i \in 1 .. k + 1 PROVE h[i] = Value(h, i)
    <3>1. NextDay(s, i) => i - 1 \in 1 .. k
      BY DEF NextDay
    <3>2. CASE i \in 1 .. k
      BY <2>1, <2>2, <3>1, <3>2
    <3>3. CASE i = k + 1
      BY <2>2, <2>3, <3>1, <3>3
    <3> QED
      BY <3>2, <3>3
  <2>6. UpTo(h, k + 1)
    BY <2>4, <2>5
  <2> HIDE DEF UpTo
  <2> QED
    BY <2>6
<1>3. n \in Q
  <2> HIDE DEF Q
  <2> QED
    BY <1>1, <1>2, NatSetInduction
<1>4. PICK g : UpTo(g, n)
  BY <1>3
<1> DEFINE Solves(f) == f = [i \in DOMAIN s |-> IF NextDay(s, i) THEN f[i - 1] + 1 ELSE 1]
<1>5. Solves(g)
  BY <1>4
<1>6. Runs(s) = CHOOSE f : Solves(f)
  BY DEF Runs
<1>7. Solves(Runs(s))
  <2> HIDE DEF Solves
  <2> QED
    BY <1>5, <1>6
<1> DEFINE r == Runs(s)
<1> HIDE DEF r
<1>8. \A i \in 1 .. n : r[i] = Value(r, i)
  BY <1>7 DEF r
<1>9. r = [i \in 1 .. n |-> r[i]]
  BY <1>7 DEF r
<1>10. \A i \in 1 .. n : r[i] \in Nat
  <2> DEFINE R == {k \in Nat : k \in 1 .. n => r[k] \in Nat}
  <2>1. 0 \in R
    OBVIOUS
  <2>2. ASSUME NEW k \in Nat, k \in R PROVE k + 1 \in R
    <3> SUFFICES ASSUME k + 1 \in 1 .. n PROVE r[k + 1] \in Nat
      OBVIOUS
    <3>1. NextDay(s, k + 1) => k \in 1 .. n
      BY DEF NextDay
    <3>2. r[k + 1] = Value(r, k + 1)
      BY <1>8
    <3> QED
      BY <2>2, <3>1, <3>2
  <2> HIDE DEF R
  <2>3. Nat \subseteq R
    BY <2>1, <2>2, NatSetInduction
  <2> QED
    BY <2>3 DEF R
<1> QED
  BY <1>8, <1>9, <1>10 DEF r

\* A run is a row of days: the run[i] - 1 places before the i-th are the days that follow.
LEMMA RunIsARow ==
    ASSUME NEW n \in Nat, NEW days \in SUBSET Int, NEW s, Lists(s, n, days), NEW i \in 1 .. n
    PROVE  Runs(s)[i] \in 1 .. i /\ \A k \in 0 .. Runs(s)[i] - 1 : s[i - k] = s[i] + k
<1> DEFINE r == Runs(s)
           IsARow(j) == r[j] \in 1 .. j /\ \A k \in 0 .. r[j] - 1 : s[j - k] = s[j] + k
           Q == {j \in Nat : j \in 1 .. n => IsARow(j)}
<1>1. s \in [1 .. n -> Int]
  BY DEF Lists
<1>2. r \in [1 .. n -> Nat] /\ \A j \in 1 .. n : r[j] = IF NextDay(s, j) THEN r[j - 1] + 1 ELSE 1
  BY <1>1, RunsRecur
<1> HIDE DEF r
<1>3. 0 \in Q
  OBVIOUS
<1>4. ASSUME NEW j \in Nat, j \in Q PROVE j + 1 \in Q
  <2> SUFFICES ASSUME j + 1 \in 1 .. n PROVE IsARow(j + 1)
    OBVIOUS
  <2>1. CASE NextDay(s, j + 1)
    <3>1. j \in 1 .. n /\ s[j] - 1 = s[j + 1]
      BY <2>1 DEF NextDay
    <3>2. r[j] \in 1 .. j /\ r[j + 1] = r[j] + 1 /\ s[j] \in Int /\ s[j + 1] \in Int
      BY <1>1, <1>2, <1>4, <2>1, <3>1
    <3>3. ASSUME NEW k \in 0 .. r[j + 1] - 1 PROVE s[j + 1 - k] = s[j + 1] + k
      <4>1. CASE k = 0
        BY <3>2, <4>1
      <4>2. CASE k # 0
        <5>1. k - 1 \in 0 .. r[j] - 1 /\ j - (k - 1) = j + 1 - k
          BY <3>2, <4>2
        <5>2. s[j - (k - 1)] = s[j] + (k - 1)
          BY <1>4, <3>1, <5>1
        <5> QED
          BY <3>1, <3>2, <5>1, <5>2
      <4> QED
        BY <4>1, <4>2
    <3>4. r[j + 1] \in 1 .. j + 1
      BY <3>2
    <3> QED
      BY <3>3, <3>4
  <2>2. CASE ~ NextDay(s, j + 1)
    <3>1. r[j + 1] = 1 /\ s[j + 1] \in Int
      BY <1>1, <1>2, <2>2
    <3>2. ASSUME NEW k \in 0 .. r[j + 1] - 1 PROVE s[j + 1 - k] = s[j + 1] + k
      <4>1. k = 0
        BY <3>1
      <4> QED
        BY <3>1, <4>1
    <3> QED
      BY <3>1, <3>2
  <2> QED
    BY <2>1, <2>2
<1> HIDE DEF Q
<1>5. i \in Q
  BY <1>3, <1>4, NatSetInduction
<1> QED
  BY <1>5 DEF Q, r

\* A row of m days, the last of them the p-th of the list, is a run at its far end.
LEMMA RowIsARun ==
    ASSUME NEW n \in Nat, NEW days \in SUBSET Int, NEW s, Lists(s, n, days),
           NEW p \in 1 .. n, NEW m \in Nat \ {0}, InARow(days, s[p], m)
    PROVE  p + m - 1 \in 1 .. n /\ Runs(s)[p + m - 1] >= m
<1> DEFINE r == Runs(s)
           Goes(k) == p + k \in 1 .. n /\ s[p + k] = s[p] - k /\ r[p + k] >= k + 1
           Q == {k \in Nat : k < m => Goes(k)}
<1>1. s \in [1 .. n -> Int]
  BY DEF Lists
<1>2. r \in [1 .. n -> Nat] /\ \A j \in 1 .. n : r[j] = IF NextDay(s, j) THEN r[j - 1] + 1 ELSE 1
  BY <1>1, RunsRecur
<1>3. \A j \in 1 .. n : r[j] >= 1
  BY RunIsARow
<1> HIDE DEF r
<1>4. 0 \in Q
  <2>1. p + 0 = p /\ s[p] - 0 = s[p] /\ r[p] >= 0 + 1
    BY <1>1, <1>3
  <2> QED
    BY <2>1
<1>5. ASSUME NEW k \in Nat, k \in Q PROVE k + 1 \in Q
  <2> SUFFICES ASSUME k + 1 < m PROVE Goes(k + 1)
    OBVIOUS
  <2> DEFINE j == p + k
  <2>1. j \in 1 .. n /\ j + 1 = p + (k + 1) /\ s[j] = s[p] - k /\ r[j] >= k + 1 /\ k + 1 \in 0 .. m - 1
    BY <1>5
  <2>2. s[p] \in Int /\ s[j] \in Int
    BY <1>1, <2>1
  <2> HIDE DEF j
  <2>3. s[p] - (k + 1) \in days
    BY <2>1 DEF InARow
  <2>4. PICK q \in 1 .. n : s[q] = s[j] - 1
    <3>1. s[p] - (k + 1) = s[j] - 1
      BY <2>1, <2>2
    <3> QED
      BY <2>3, <3>1 DEF Lists
  <2>5. q > j
    <3>1. q < j => s[q] > s[j]
      BY <2>1 DEF Lists
    <3>2. q # j /\ ~ s[q] > s[j]
      BY <2>2, <2>4
    <3> QED
      BY <2>1, <3>1, <3>2
  <2>6. j + 1 \in 1 .. n
    BY <2>1, <2>5
  <2>7. s[j + 1] \in Int /\ s[j] > s[j + 1] /\ (q # j + 1 => s[j + 1] > s[q])
    <3>1. j < j + 1 /\ (q # j + 1 => j + 1 < q)
      BY <2>1, <2>5
    <3> QED
      BY <1>1, <2>1, <2>6, <3>1 DEF Lists
  <2>8. s[j + 1] = s[j] - 1
    BY <2>2, <2>4, <2>7
  <2>9. NextDay(s, j + 1)
    BY <2>1, <2>2, <2>8 DEF NextDay
  <2>10. r[j + 1] = r[j] + 1 /\ r[j] \in Nat
    <3>1. j + 1 - 1 = j
      BY <2>1
    <3> QED
      BY <1>2, <2>1, <2>6, <2>9, <3>1
  <2>11. s[j + 1] = s[p] - (k + 1) /\ r[j + 1] >= (k + 1) + 1
    BY <2>1, <2>2, <2>8, <2>10
  <2> QED
    BY <2>1, <2>6, <2>11
<1> HIDE DEF Q
<1>6. m - 1 \in Q /\ m - 1 < m
  <2>1. Nat \subseteq Q
    BY <1>4, <1>5, NatSetInduction
  <2>2. m - 1 \in Nat /\ m - 1 < m
    OBVIOUS
  <2> QED
    BY <2>1, <2>2
<1>7. p + (m - 1) \in 1 .. n /\ r[p + (m - 1)] >= (m - 1) + 1
  BY <1>6 DEF Q
<1>8. p + (m - 1) = p + m - 1 /\ (m - 1) + 1 = m
  OBVIOUS
<1> QED
  BY <1>7, <1>8 DEF r

\* The days of a run are in a row, from the place where it began.
LEMMA RunEnds ==
    ASSUME NEW n \in Nat, NEW days \in SUBSET Int, NEW s, Lists(s, n, days), NEW i \in 1 .. n,
           NEW m, m = Runs(s)[i]
    PROVE  i - m + 1 \in 1 .. n /\ s[i - m + 1] \in days /\ InARow(days, s[i - m + 1], m)
<1>1. m \in 1 .. i /\ \A k \in 0 .. m - 1 : s[i - k] = s[i] + k
  BY RunIsARow
<1>2. s \in [1 .. n -> days] /\ s[i] \in Int
  BY DEF Lists
<1>3. i - m + 1 \in 1 .. n /\ i - m + 1 = i - (m - 1) /\ m - 1 \in 0 .. m - 1
  BY <1>1
<1> DEFINE d == s[i - m + 1]
<1>4. d = s[i] + (m - 1)
  BY <1>1, <1>3
<1> HIDE DEF d
<1>5. ASSUME NEW k \in 0 .. m - 1 PROVE d - k \in days
  <2> DEFINE j == m - 1 - k
  <2>1. j \in 0 .. m - 1 /\ m \in Int /\ k \in Int /\ j = m - 1 - k
    BY <1>1
  <2> HIDE DEF j
  <2>2. i - j \in 1 .. n
    BY <1>1, <2>1
  <2>3. s[i - j] = s[i] + j /\ s[i - j] \in days
    BY <1>1, <1>2, <2>1, <2>2
  <2>4. d - k = s[i] + j
    BY <1>2, <1>4, <2>1
  <2> QED
    BY <2>3, <2>4
<1> QED
  BY <1>2, <1>3, <1>5 DEF InARow, d

\* What it takes to be the most days in a row.
LEMMA MostIs ==
    ASSUME NEW days, NEW ends, Cardinality(days) \in Nat, NEW m \in 0 .. Cardinality(days),
           \E d \in ends : InARow(days, d, m),
           \A k \in 0 .. Cardinality(days), d \in ends : InARow(days, d, k) => k <= m
    PROVE  MostInARow(days, ends) = m
<1> DEFINE S == {k \in 0 .. Cardinality(days) : \E d \in ends : InARow(days, d, k)}
<1>1. S \in SUBSET Int /\ m \in S /\ \A k \in S : k <= m
  OBVIOUS
<1> HIDE DEF S
<1>2. Max(S) = m
  BY <1>1, MaxOf
<1> QED
  BY <1>2 DEF MostInARow, S

\* Where the last day is no day of listening, none are in a row.
LEMMA NoneInARow ==
    ASSUME NEW days, Cardinality(days) \in Nat, NEW ends \in SUBSET Int, ends # {}, ends \cap days = {}
    PROVE  MostInARow(days, ends) = 0
<1>1. \A d \in ends : InARow(days, d, 0)
  BY DEF InARow
<1>2. ASSUME NEW k \in 0 .. Cardinality(days), NEW d \in ends, InARow(days, d, k) PROVE k <= 0
  <2> SUFFICES ASSUME k > 0 PROVE FALSE
    OBVIOUS
  <2>1. 0 \in 0 .. k - 1 /\ d - 0 = d
    OBVIOUS
  <2> QED
    BY <1>2, <2>1 DEF InARow
<1>3. \E d \in ends : InARow(days, d, 0)
  <2>1. PICK d \in ends : TRUE
    OBVIOUS
  <2> QED
    BY <1>1, <2>1
<1>4. 0 \in 0 .. Cardinality(days)
  OBVIOUS
<1> QED
  BY <1>2, <1>3, <1>4, MostIs

\* For every list of days of which none lies in the future, Streaks says what its
\* rule says, whatever the gaps (library/service.go, Streaks).
THEOREM StreaksAreRight ==
    ASSUME NEW days \in SUBSET Int, IsFiniteSet(days), NEW today \in Int, \A d \in days : d <= today
    PROVE  FollowsTheRule(days, today)
<1> DEFINE n == Cardinality(days)
           s == Normalized(days)
           r == Runs(s)
           last == IF today \in days THEN today ELSE today - 1
<1>1. n \in Nat /\ Lists(s, n, days) /\ (n = 0 <=> days = {})
  BY NewestFirst, FS_EmptySet
<1>2. CASE days = {}
  <2>1. MostInARow(days, {last}) = 0 /\ MostInARow(days, days \cup {today}) = 0
    BY <1>1, <1>2, NoneInARow
  <2>2. StreaksOn(days, today) = [current |-> 0, longest |-> 0]
    BY <1>2 DEF StreaksOn
  <2> QED
    BY <2>1, <2>2 DEF FollowsTheRule
<1>3. CASE days # {}
  <2> DEFINE C == {i \in DOMAIN s : r[i] = i}
             L == {r[i] : i \in DOMAIN s}
  <2>1. StreaksOn(days, today) =
            [current |-> IF s[1] \in {today, today - 1} THEN Max(C) ELSE 0, longest |-> Max(L)]
    BY <1>3 DEF StreaksOn
  <2> HIDE DEF s, n
  <2>2. s \in [1 .. n -> days] /\ 1 \in 1 .. n /\ DOMAIN s = 1 .. n
    <3>1. s \in [1 .. n -> days]
      BY <1>1 DEF Lists
    <3>2. n # 0 /\ n \in Nat
      BY <1>1, <1>3
    <3> QED
      BY <3>1, <3>2
  <2>3. \A i \in 1 .. n : r[i] \in 1 .. i
    BY <1>1, RunIsARow
  <2> HIDE DEF r
  <2>4. MostInARow(days, days \cup {today}) = Max(L)
    <3>1. L \in SUBSET (0 .. n) /\ L # {}
      BY <1>1, <2>2, <2>3
    <3>2. Max(L) \in L /\ \A x \in L : x <= Max(L)
      <4> HIDE DEF L
      <4> QED
        BY <1>1, <3>1, MaxExists
    <3>3. PICK i \in 1 .. n : Max(L) = r[i]
      BY <2>2, <3>2
    <3>4. s[i - Max(L) + 1] \in days /\ InARow(days, s[i - Max(L) + 1], Max(L))
      BY <1>1, <3>3, RunEnds DEF r
    <3>5. ASSUME NEW k \in 0 .. n, NEW d \in days \cup {today}, InARow(days, d, k) PROVE k <= Max(L)
      <4>1. CASE k = 0
        BY <2>3, <3>3, <4>1
      <4>2. CASE k # 0
        <5>1. k \in Nat \ {0} /\ 0 \in 0 .. k - 1 /\ d \in Int /\ d - 0 = d
          BY <4>2
        <5>2. PICK p \in 1 .. n : s[p] = d
          BY <1>1, <3>5, <5>1 DEF InARow, Lists
        <5>3. p + k - 1 \in 1 .. n /\ r[p + k - 1] >= k
          BY <1>1, <3>5, <5>1, <5>2, RowIsARun DEF r
        <5>4. r[p + k - 1] <= Max(L) /\ r[p + k - 1] \in Int /\ Max(L) \in Int
          BY <2>2, <2>3, <3>2, <3>3, <5>3
        <5> QED
          BY <5>3, <5>4
      <4> QED
        BY <4>1, <4>2
    <3> HIDE DEF L
    <3> QED
      BY <1>1, <3>1, <3>2, <3>4, <3>5, MostIs DEF n
  <2>5. \A d \in days : d <= s[1]
    <3> SUFFICES ASSUME NEW d \in days PROVE d <= s[1]
      OBVIOUS
    <3>1. PICK i \in 1 .. n : s[i] = d
      BY <1>1 DEF Lists
    <3>2. s[1] \in days /\ s[1] \in Int /\ d \in Int
      BY <2>2
    <3>3. i = 1 \/ 1 < i
      OBVIOUS
    <3>4. i = 1 \/ s[1] > s[i]
      BY <1>1, <2>2, <3>3 DEF Lists
    <3> QED
      BY <3>1, <3>2, <3>4
  <2>6. CASE s[1] \in {today, today - 1}
    <3>1. last = s[1]
      <4>1. s[1] \in days /\ s[1] \in Int /\ s[1] <= today
        BY <2>2
      <4> QED
        BY <2>5, <2>6, <4>1
    <3>2. C \in SUBSET (0 .. n) /\ C # {}
      <4>1. r[1] = 1
        BY <2>2, <2>3
      <4> QED
        BY <2>2, <4>1
    <3>3. Max(C) \in C /\ \A x \in C : x <= Max(C)
      <4> HIDE DEF C
      <4> QED
        BY <1>1, <3>2, MaxExists
    <3>4. Max(C) \in 1 .. n /\ r[Max(C)] = Max(C)
      BY <2>2, <3>3
    <3>5. InARow(days, s[1], Max(C))
      <4>1. Max(C) - Max(C) + 1 = 1
        BY <3>4
      <4> QED
        BY <1>1, <3>4, <4>1, RunEnds DEF r
    <3>6. ASSUME NEW k \in 0 .. n, InARow(days, s[1], k) PROVE k <= Max(C)
      <4>1. CASE k = 0
        BY <3>4, <4>1
      <4>2. CASE k # 0
        <5>1. k \in Nat \ {0} /\ 1 + k - 1 = k
          BY <4>2
        <5>2. k \in 1 .. n /\ r[k] >= k
          BY <1>1, <2>2, <3>6, <5>1, RowIsARun DEF r
        <5>3. r[k] = k
          BY <2>3, <5>2
        <5> QED
          BY <2>2, <3>3, <5>2, <5>3
      <4> QED
        BY <4>1, <4>2
    <3>7. MostInARow(days, {last}) = Max(C)
      <4> HIDE DEF C, last
      <4>1. \A k \in 0 .. n, d \in {last} : InARow(days, d, k) => k <= Max(C)
        BY <3>1, <3>6
      <4> QED
        BY <1>1, <3>1, <3>4, <3>5, <4>1, MostIs DEF n
    <3> QED
      BY <2>1, <2>4, <2>6, <3>7 DEF FollowsTheRule
  <2>7. CASE s[1] \notin {today, today - 1}
    <3>1. s[1] \in Int /\ s[1] \in days /\ s[1] <= today
      BY <2>2
    <3>2. s[1] < today - 1
      BY <2>7, <3>1
    <3>3. today \notin days /\ today - 1 \notin days
      BY <2>5, <3>1, <3>2
    <3>4. {last} \in SUBSET Int /\ {last} # {} /\ {last} \cap days = {}
      BY <3>3
    <3>5. MostInARow(days, {last}) = 0
      <4> HIDE DEF last
      <4> QED
        BY <1>1, <3>4, NoneInARow DEF n
    <3> QED
      BY <2>1, <2>4, <2>7, <3>5 DEF FollowsTheRule
  <2> QED
    BY <2>6, <2>7
<1> QED
  BY <1>2, <1>3

-----------------------------------------------------------------------------
(***************************************************************************)
(* Listening.                                                              *)
(***************************************************************************)
USE ListeningAssumption

\* What a report carries: it was made in the past, SyncPosition gave it a time no
\* further ahead than it believes, and a right clock's time was left as it was.
StampsAreBelieved ==
    \A p \in Players :
        /\ sync[p].at # "idle" => sync[p].made <= now
        /\ sync[p].at \in Steps => sync[p].stamp <= now + Skew
        /\ sync[p].at = "upsert" /\ sync[p].drift = 0 => sync[p].made <= sync[p].stamp

\* Nothing was heard on a day that is still to come.
FutureIsSilent == \A f \in Profiles, d \in Days : d > Today => events[f][d] = 0

ReportsInv == ListeningTypeOK /\ StampsAreBelieved /\ PositionIsCurrent
ListeningInv == ReportsInv /\ FutureIsSilent

\* The days follow one another.
LEMMA DivBounds ==
    ASSUME NEW a \in Nat, NEW n \in Nat \ {0}
    PROVE  a \div n \in Nat /\ n * (a \div n) <= a /\ a < n * (a \div n) + n
OBVIOUS

LEMMA ProductMonotone ==
    ASSUME NEW p \in Nat, NEW q \in Nat, NEW n \in Nat, p <= q PROVE n * p <= n * q
OBVIOUS

LEMMA DivMonotone ==
    ASSUME NEW a \in Nat, NEW b \in Nat, NEW n \in Nat \ {0}, a <= b
    PROVE  a \div n <= b \div n
<1> DEFINE p == a \div n
           q == b \div n
<1>1. p \in Nat /\ q \in Nat /\ n * p <= a /\ b < n * q + n
  BY DivBounds
<1> HIDE DEF p, q
<1>2. SUFFICES ASSUME p > q PROVE FALSE
  BY <1>1 DEF p, q
<1>3. q + 1 <= p /\ q + 1 \in Nat
  BY <1>1, <1>2
<1>4. n * (q + 1) <= n * p
  BY <1>1, <1>3, ProductMonotone
<1>5. n * (q + 1) = n * q + n /\ n * q \in Nat /\ n * p \in Nat
  BY <1>1
<1> QED
  BY <1>1, <1>4, <1>5

LEMMA DayIsADay == ASSUME NEW n \in 0 .. MaxNow PROVE n \div Slots \in Days
<1>1. n \in Nat /\ MaxNow \in Nat /\ Slots \in Nat \ {0} /\ n <= MaxNow
  OBVIOUS
<1> QED
  BY <1>1, DivMonotone, DivBounds DEF Days

\* A report moves on and carries what it carried.
LEMMA ReportMoves ==
    ASSUME sync \in [Players -> Report], NEW p \in Players, NEW step \in Steps \cup {"idle", "made"},
           sync' = [sync EXCEPT ![p].at = step]
    PROVE  /\ sync' \in [Players -> Report]
           /\ sync'[p].at = step /\ sync'[p].made = sync[p].made /\ sync'[p].stamp = sync[p].stamp
           /\ sync'[p].drift = sync[p].drift
           /\ \A q \in Players \ {p} : sync'[q] = sync[q]
<1> DEFINE r == [sync[p] EXCEPT !.at = step]
<1>1. sync[p] \in Report
  OBVIOUS
<1>2. /\ r \in Report /\ r.at = step /\ r.made = sync[p].made /\ r.stamp = sync[p].stamp
      /\ r.drift = sync[p].drift
  BY <1>1 DEF Report
<1>3. sync' = [sync EXCEPT ![p] = r]
  OBVIOUS
<1> HIDE DEF r
<1>4. sync' \in [Players -> Report] /\ sync'[p] = r /\ \A q \in Players \ {p} : sync'[q] = sync[q]
  <2> HIDE DEF Report
  <2> QED
    BY <1>2, <1>3
<1> QED
  BY <1>2, <1>4

\* No report, no position and nothing heard at first.
LEMMA ReportsInit == ListeningInit => ReportsInv
BY DEF ListeningInit, ReportsInv, ListeningTypeOK, StampsAreBelieved, PositionIsCurrent, Report, NoReport,
       Steps, Profiles, Days

\* A report counts for no less than nothing.
LEMMA CountedIsNat == ASSUME NEW r \in Report PROVE Counted(r) \in Nat
BY DEF Report, Counted, Larger, Smaller

\* A time that SyncPosition gives a report.
LEMMA StampIsBelieved ==
    ASSUME NEW r \in Report, now \in Nat, r.made <= now
    PROVE  /\ DeviceUpdatedAt(r) \in Nat
           /\ DeviceUpdatedAt(r) <= now + Skew
           /\ r.drift = 0 => r.made <= DeviceUpdatedAt(r)
<1>1. Skew \in Nat /\ NoClock \notin Nat
  OBVIOUS
<1>2. r.made \in Nat /\ (r.drift \in Nat \/ r.drift = NoClock)
  BY DEF Report
<1>3. CASE r.drift = NoClock
  BY <1>1, <1>3 DEF DeviceUpdatedAt
<1>4. CASE r.drift \in Nat
  <2>1. DeviceUpdatedAt(r) = Clamp(r.made + r.drift)
    BY <1>1, <1>4 DEF DeviceUpdatedAt
  <2>2. PICK t \in Nat : t = r.made + r.drift
    BY <1>2, <1>4
  <2> QED
    BY <1>1, <1>2, <1>4, <2>1, <2>2 DEF Clamp
<1> QED
  BY <1>2, <1>3, <1>4

\* Every step of a player and of the statements of SyncPosition keeps ReportsInv.
LEMMA ReportsStep == ReportsInv /\ [ListeningNext]_listeningVars => ReportsInv'
<1> SUFFICES ASSUME ReportsInv, [ListeningNext]_listeningVars PROVE ReportsInv'
  OBVIOUS
<1>0. ListeningTypeOK /\ StampsAreBelieved /\ PositionIsCurrent
  BY DEF ReportsInv
<1>1. CASE Tick
  BY <1>0, <1>1 DEF Tick, dbVars, ReportsInv, ListeningTypeOK, StampsAreBelieved, PositionIsCurrent, Report
<1>2. CASE Lapse
  BY <1>0, <1>2 DEF Lapse, ReportsInv, ListeningTypeOK, StampsAreBelieved, PositionIsCurrent
<1>3. ASSUME NEW p \in Players, MakeReport(p) PROVE ReportsInv'
  <2>1. PICK drift \in Drifts, seconds \in Seconds :
           LET r == [at |-> "made", made |-> now, drift |-> drift, seconds |-> seconds, stamp |-> 0]
           IN  sync' = [sync EXCEPT ![p] = r] /\ told' = told + Counted(r)
    BY <1>3, Zenon DEF MakeReport
  <2> DEFINE r == [at |-> "made", made |-> now, drift |-> drift, seconds |-> seconds, stamp |-> 0]
  <2>2. sync' = [sync EXCEPT ![p] = r] /\ told' = told + Counted(r)
    BY <2>1
  <2>3. r \in Report
    <3>1. now \in Nat
      BY <1>0 DEF ListeningTypeOK
    <3>2. drift \in Drifts \cup {NoClock} /\ seconds \in Int
      OBVIOUS
    <3> QED
      BY <3>1, <3>2 DEF Report
  <2>4. Counted(r) \in Nat
    BY <2>3, CountedIsNat
  <2>5. r.at = "made" /\ r.made = now
    OBVIOUS
  <2> HIDE DEF r
  <2>6. ListeningTypeOK'
    BY <1>0, <1>3, <2>2, <2>3, <2>4 DEF MakeReport, dbVars, ListeningTypeOK
  <2>7. StampsAreBelieved'
    BY <1>0, <1>3, <2>2, <2>5 DEF MakeReport, ListeningTypeOK, StampsAreBelieved, Steps
  <2>8. PositionIsCurrent'
    BY <1>0, <1>3 DEF MakeReport, dbVars, PositionIsCurrent
  <2> QED
    BY <2>6, <2>7, <2>8 DEF ReportsInv
<1>4. ASSUME NEW p \in Players, SyncPosition(p) PROVE ReportsInv'
  <2>1. /\ sync[p] \in Report /\ now \in Nat /\ sync[p].made <= now
    BY <1>0, <1>4 DEF SyncPosition, ListeningTypeOK, StampsAreBelieved
  <2>2. PICK t \in Nat : /\ t = DeviceUpdatedAt(sync[p]) /\ t <= now + Skew
                         /\ sync[p].drift = 0 => sync[p].made <= t
    BY <2>1, StampIsBelieved
  <2> DEFINE r == [sync[p] EXCEPT !.at = "upsert", !.stamp = t]
  <2>3. sync' = [sync EXCEPT ![p] = r]
    BY <1>4, <2>2 DEF SyncPosition
  <2>4. /\ r \in Report /\ r.at = "upsert" /\ r.stamp = t
        /\ r.made = sync[p].made /\ r.drift = sync[p].drift
    BY <2>1 DEF Report, Steps
  <2> HIDE DEF r
  <2>5. UNCHANGED <<now, subscribed, hours, popularity, position, events, reports, faults, told, newest>>
    BY <1>4 DEF SyncPosition, dbVars
  <2>6. ListeningTypeOK'
    BY <1>0, <2>3, <2>4, <2>5 DEF ListeningTypeOK
  <2>7. StampsAreBelieved'
    BY <1>0, <2>1, <2>2, <2>3, <2>4, <2>5 DEF ListeningTypeOK, StampsAreBelieved, Steps
  <2>8. PositionIsCurrent'
    BY <1>0, <2>5 DEF PositionIsCurrent
  <2> QED
    BY <2>6, <2>7, <2>8 DEF ReportsInv
<1>5. ASSUME NEW p \in Players, UpsertPosition(p) PROVE ReportsInv'
  <2> DEFINE f == ProfileOf(p)
  <2>1. PICK step \in {"event", "answer"} : sync' = [sync EXCEPT ![p].at = step]
    BY <1>5 DEF UpsertPosition, Goto
  <2>2. /\ f \in Profiles
        /\ sync[p].stamp \in Nat /\ sync[p].made \in Nat /\ sync[p].at = "upsert"
        /\ position[f] \in Nat \cup {-1} /\ newest[f] \in Nat \cup {-1}
    BY <1>0, <1>5 DEF UpsertPosition, ListeningTypeOK, Report, ProfileOf, Profiles
  <2>3. /\ position' = [position EXCEPT ![f] = Upserted(position[f], sync[p].stamp)]
        /\ newest' = IF sync[p].drift = 0 THEN [newest EXCEPT ![f] = Larger(newest[f], sync[p].made)]
                     ELSE newest
        /\ UNCHANGED <<now, subscribed, hours, popularity, events, reports, faults, told>>
    BY <1>5, <2>2 DEF UpsertPosition, ListeningTypeOK
  <2> HIDE DEF f
  <2>4. ListeningTypeOK'
    <3>1. sync' \in [Players -> Report]
      BY <1>0, <2>1, ReportMoves DEF ListeningTypeOK, Steps
    <3>2. position' \in [Profiles -> Nat \cup {-1}] /\ newest' \in [Profiles -> Nat \cup {-1}]
      BY <1>0, <2>2, <2>3 DEF ListeningTypeOK, Upserted, Larger
    <3> QED
      BY <1>0, <2>3, <3>1, <3>2 DEF ListeningTypeOK
  <2>5. StampsAreBelieved'
    <3>1. /\ sync'[p].at = step /\ sync'[p].made = sync[p].made
          /\ sync'[p].stamp = sync[p].stamp /\ sync'[p].drift = sync[p].drift
          /\ \A q \in Players \ {p} : sync'[q] = sync[q]
      BY <1>0, <2>1, ReportMoves DEF ListeningTypeOK, Steps
    <3>2. /\ sync[p].made <= now /\ sync[p].stamp <= now + Skew
          /\ sync[p].drift = 0 => sync[p].made <= sync[p].stamp
      BY <1>0, <2>2 DEF StampsAreBelieved, Steps
    <3>3. now' = now
      BY <2>3
    <3> QED
      BY <1>0, <3>1, <3>2, <3>3 DEF StampsAreBelieved, Steps
  <2>6. PositionIsCurrent'
    <3>1. /\ sync[p].stamp <= now + Skew
          /\ sync[p].drift = 0 => sync[p].made <= sync[p].stamp
      BY <1>0, <2>2 DEF StampsAreBelieved, Steps
    <3>2. SUFFICES ASSUME NEW g \in Profiles
                   PROVE  newest'[g] <= position'[g] /\ position'[g] <= now' + Skew
      BY DEF PositionIsCurrent
    <3>3. newest[g] <= position[g] /\ position[g] <= now + Skew
      BY <1>0 DEF PositionIsCurrent
    <3>4. CASE g = f
      BY <1>0, <2>2, <2>3, <3>1, <3>3, <3>4 DEF ListeningTypeOK, Upserted, Larger
    <3>5. CASE g # f
      BY <1>0, <2>2, <2>3, <3>3, <3>5 DEF ListeningTypeOK
    <3> QED
      BY <3>4, <3>5
  <2> QED
    BY <2>4, <2>5, <2>6 DEF ReportsInv
<1>6. ASSUME NEW p \in Players,
             CreateListeningEvent(p) \/ RecordSubscriptionUsage(p) \/ RecordListen(p)
      PROVE  ReportsInv'
  <2>1. PICK step \in Steps : sync' = [sync EXCEPT ![p].at = step]
    BY <1>6 DEF CreateListeningEvent, RecordSubscriptionUsage, RecordListen, Goto, Steps
  <2>2. /\ Counted(sync[p]) \in Nat
        /\ sync[p].at \in Steps \ {"upsert"}
    BY <1>0, <1>6, CountedIsNat
    DEF CreateListeningEvent, RecordSubscriptionUsage, RecordListen, ListeningTypeOK, Steps
  <2>3. step # "upsert"
    BY <1>0, <1>6, <2>1
    DEF CreateListeningEvent, RecordSubscriptionUsage, RecordListen, Goto, ListeningTypeOK, Report
  <2>4. UNCHANGED <<now, subscribed, position, reports, faults, told, newest>>
    BY <1>6 DEF CreateListeningEvent, RecordSubscriptionUsage, RecordListen
  <2>5. ListeningTypeOK'
    <3>1. sync' \in [Players -> Report]
      BY <1>0, <2>1, ReportMoves DEF ListeningTypeOK
    <3>2. events' \in [Profiles -> [Days -> Nat]]
      BY <1>0, <1>6, <2>2 DEF CreateListeningEvent, RecordSubscriptionUsage, RecordListen,
         ListeningTypeOK
    <3>3. hours' \in Nat /\ popularity' \in Nat
      BY <1>0, <1>6, <2>2 DEF CreateListeningEvent, RecordSubscriptionUsage, RecordListen,
         ListeningTypeOK
    <3> QED
      BY <1>0, <2>4, <3>1, <3>2, <3>3 DEF ListeningTypeOK
  <2>6. StampsAreBelieved'
    <3>1. /\ sync'[p].at = step /\ sync'[p].made = sync[p].made
          /\ sync'[p].stamp = sync[p].stamp
          /\ \A q \in Players \ {p} : sync'[q] = sync[q]
      BY <1>0, <2>1, ReportMoves DEF ListeningTypeOK
    <3>2. sync[p].made <= now /\ sync[p].stamp <= now + Skew
      BY <1>0, <2>2 DEF StampsAreBelieved, Steps
    <3>3. now' = now
      BY <2>4
    <3> QED
      BY <1>0, <2>3, <3>1, <3>2, <3>3 DEF StampsAreBelieved
  <2>7. PositionIsCurrent'
    BY <1>0, <2>4 DEF PositionIsCurrent
  <2> QED
    BY <2>5, <2>6, <2>7 DEF ReportsInv
<1>7. ASSUME NEW p \in Players, Answer(p) \/ Fail(p) PROVE ReportsInv'
  <2>1. /\ \/ sync' = [sync EXCEPT ![p].at = "made"]
           \/ sync' = [sync EXCEPT ![p] = NoReport]
        /\ sync[p].at \in Steps
        /\ faults' \in 0 .. MaxFaults
        /\ UNCHANGED <<now, dbVars, reports, told, newest>>
    BY <1>0, <1>7 DEF Answer, Fail, ListeningTypeOK, Steps
  <2>2. NoReport \in Report /\ NoReport.at = "idle"
    BY DEF NoReport, Report
  <2>3. ListeningTypeOK'
    <3>1. CASE sync' = [sync EXCEPT ![p].at = "made"]
      <4>1. sync' \in [Players -> Report]
        BY <1>0, <3>1 DEF ListeningTypeOK, Report
      <4> QED
        BY <1>0, <2>1, <4>1 DEF dbVars, ListeningTypeOK
    <3>2. CASE sync' = [sync EXCEPT ![p] = NoReport]
      BY <1>0, <2>1, <2>2, <3>2 DEF dbVars, ListeningTypeOK
    <3> QED
      BY <2>1, <3>1, <3>2
  <2>4. StampsAreBelieved'
    <3>1. CASE sync' = [sync EXCEPT ![p].at = "made"]
      BY <1>0, <2>1, <3>1 DEF ListeningTypeOK, StampsAreBelieved, Report, Steps
    <3>2. CASE sync' = [sync EXCEPT ![p] = NoReport]
      BY <1>0, <2>1, <2>2, <3>2 DEF ListeningTypeOK, StampsAreBelieved, Steps
    <3> QED
      BY <2>1, <3>1, <3>2
  <2>5. PositionIsCurrent'
    BY <1>0, <2>1 DEF dbVars, PositionIsCurrent
  <2> QED
    BY <2>3, <2>4, <2>5 DEF ReportsInv
<1>8. CASE UNCHANGED listeningVars
  BY <1>0, <1>8 DEF listeningVars, dbVars, ReportsInv, ListeningTypeOK, StampsAreBelieved, PositionIsCurrent
<1> QED
  BY <1>1, <1>2, <1>3, <1>4, <1>5, <1>6, <1>7, <1>8 DEF ListeningNext, Sync

LEMMA ListeningInitInv == ListeningInit => ListeningInv
BY ReportsInit DEF ListeningInit, ListeningInv, FutureIsSilent, Days

\* Only CreateListeningEvent writes an event, and of the day it is.
LEMMA SilenceStep ==
    ListeningTypeOK /\ FutureIsSilent /\ [ListeningNext]_listeningVars => FutureIsSilent'
<1> SUFFICES ASSUME ListeningTypeOK, FutureIsSilent, [ListeningNext]_listeningVars,
                    NEW f \in Profiles, NEW d \in Days, d > Today'
             PROVE  events'[f][d] = 0
  BY DEF FutureIsSilent, Days
<1>1. CASE Tick
  <2>1. now \in Nat /\ now' = now + 1 /\ UNCHANGED events
    BY <1>1 DEF Tick, dbVars, ListeningTypeOK
  <2>2. Today <= Today' /\ Today \in Nat /\ Today' \in Nat
    BY <2>1, DivMonotone, DivBounds DEF Today
  <2>3. d \in Int
    BY DEF Days
  <2> QED
    BY <2>1, <2>2, <2>3 DEF FutureIsSilent
<1>2. ASSUME NEW p \in Players, CreateListeningEvent(p) PROVE events'[f][d] = 0
  <2>1. /\ events' = [events EXCEPT ![ProfileOf(p)][Today] = @ + Counted(sync[p])]
        /\ Today' = Today
    BY <1>2 DEF CreateListeningEvent, Today
  <2>2. Today \in Days
    BY DayIsADay DEF Today, ListeningTypeOK
  <2>3. d # Today
    BY <2>1, <2>2 DEF Days
  <2>4. events'[f][d] = events[f][d]
    BY <2>1, <2>2, <2>3 DEF ListeningTypeOK
  <2> QED
    BY <2>1, <2>4 DEF FutureIsSilent
<1>3. CASE UNCHANGED <<now, events>>
  BY <1>3 DEF FutureIsSilent, Today
<1>4. ASSUME NEW p \in Players, Sync(p), ~ CreateListeningEvent(p) PROVE UNCHANGED <<now, events>>
  BY <1>4 DEF Sync, MakeReport, SyncPosition, UpsertPosition, RecordSubscriptionUsage, RecordListen,
     Answer, Fail, dbVars
<1>5. CASE Lapse \/ UNCHANGED listeningVars
  BY <1>5, <1>3 DEF Lapse, listeningVars, dbVars
<1> QED
  BY <1>1, <1>2, <1>3, <1>4, <1>5 DEF ListeningNext

\* Every step of the players and of the clock keeps the invariant.
LEMMA ListeningStepInv == ListeningInv /\ [ListeningNext]_listeningVars => ListeningInv'
BY ReportsStep, SilenceStep DEF ListeningInv, ReportsInv

\* The clamp of SyncPosition and the condition of its upsert, over every schedule.
THEOREM ListeningInductive == ListeningSpec => []ListeningInv
BY ListeningInitInv, ListeningStepInv, PTL DEF ListeningSpec

\* The tables and the reports under way have their type.
THEOREM ListeningTypeCorrect == ListeningSpec => []ListeningTypeOK
BY ListeningInductive, PTL DEF ListeningInv, ReportsInv

\* A late report takes no position back, and a wrong clock pins it for no longer
\* than Skew, however many players report (SyncPosition, UpsertPosition).
THEOREM PositionSafe == ListeningSpec => []PositionIsCurrent
BY ListeningInductive, PTL DEF ListeningInv, ReportsInv

-----------------------------------------------------------------------------
(***************************************************************************)
(* The books on the seconds listened to: events, hours and popularity.     *)
(***************************************************************************)

\* What the reports that stand at one of the steps will still count for.
Due(steps) == [p \in Players |-> IF sync[p].at \in steps THEN Counted(sync[p]) ELSE 0]

Unheard  == SumOf(Due({"made", "upsert", "event"}), Players)
Unbilled == SumOf(Due({"usage"}), Players)
Unlisted == SumOf(Due({"usage", "popularity"}), Players)

\* TotalHeard, of the functions of the events.
AllHeard == SumOf(events["parent"], Days) + SumOf(events["child"], Days)

\* Every second of a report is counted, still to be counted by its next steps, or
\* lost to a fault; a fault adds no more than one report.
HoursInv ==
    /\ hours + Unbilled <= AllHeard
    /\ popularity + Unlisted <= AllHeard
    /\ AllHeard + Unheard <= told + faults * MaxReport
    /\ faults = 0 => /\ AllHeard + Unheard = told
                     /\ popularity + Unlisted = AllHeard
                     /\ subscribed => hours + Unbilled = AllHeard

\* Heard is a sum over the days.
LEMMA HeardSum == \A f : Heard(f) = SumOf(events[f], Days)
<1> SUFFICES ASSUME NEW f PROVE Heard(f) = SumOf(events[f], Days)
  OBVIOUS
<1> QED
  BY DEF Heard, MapThenSumSet, MapThenFoldSet, SumOf, AddsUp, Any

\* So is TotalHeard.
LEMMA AllIsTotal == AllHeard = TotalHeard
BY HeardSum DEF AllHeard, TotalHeard

\* There are finitely many days.
LEMMA DaysFinite == IsFiniteSet(Days)
<1>1. MaxNow \div Slots \in Nat
  BY DivBounds
<1> QED
  BY <1>1, FS_Interval DEF Days

\* What was heard is a number of seconds.
LEMMA HeardIsNat ==
    ASSUME ListeningTypeOK
    PROVE  \A f \in Profiles : /\ \A d \in Days : events[f][d] \in Nat
                               /\ SumOf(events[f], Days) \in Nat
<1>1. \A f \in Profiles : \A d \in Days : events[f][d] \in Nat
  BY DEF ListeningTypeOK
<1> QED
  BY <1>1, DaysFinite, SumNat

\* What is due is a number of seconds.
LEMMA DueIsNat ==
    ASSUME ListeningTypeOK, NEW steps
    PROVE  /\ \A p \in Players : Due(steps)[p] \in Nat
           /\ SumOf(Due(steps), Players) \in Nat
<1>1. \A p \in Players : Counted(sync[p]) \in Nat
  BY CountedIsNat DEF ListeningTypeOK
<1>2. \A p \in Players : Due(steps)[p] \in Nat
  BY <1>1 DEF Due
<1> QED
  BY <1>2, PlayersAssumption, SumNat

\* SyncPosition cuts a report off at maxSyncSeconds.
LEMMA CountedIsBounded == ASSUME NEW r \in Report PROVE Counted(r) <= MaxReport
BY DEF Report, Counted, Larger, Smaller

\* One report moves: the sums change by what it was and is due at.
LEMMA DueMoves ==
    ASSUME ListeningTypeOK, ListeningTypeOK', NEW p \in Players,
           \A q \in Players \ {p} : sync'[q] = sync[q],
           NEW steps
    PROVE  SumOf(Due(steps)', Players) = (SumOf(Due(steps), Players) - Due(steps)[p]) + Due(steps)'[p]
<1>1. \A q \in Players : Counted(sync[q]) \in Nat /\ Counted(sync'[q]) \in Nat
  BY CountedIsNat DEF ListeningTypeOK
<1>2. \A q \in Players : Due(steps)[q] \in Int /\ Due(steps)'[q] \in Int
  BY <1>1 DEF Due, Counted, Larger, Smaller
<1>3. \A q \in Players \ {p} : Due(steps)'[q] = Due(steps)[q]
  BY DEF Due, Counted
<1> QED
  BY <1>2, <1>3, PlayersAssumption, SumMoved

\* The event of a report adds its seconds to the day.
LEMMA HeardMoves ==
    ASSUME ListeningTypeOK, ListeningTypeOK', NEW p \in Players, CreateListeningEvent(p)
    PROVE  AllHeard' = AllHeard + Counted(sync[p])
<1> DEFINE f == ProfileOf(p)
           c == Counted(sync[p])
<1>1. Today \in Days
  BY DayIsADay DEF Today, ListeningTypeOK
<1>2. f \in Profiles /\ c \in Nat
  BY CountedIsNat DEF ListeningTypeOK, Profiles, ProfileOf
<1>3. events' = [events EXCEPT ![f][Today] = @ + c]
  BY DEF CreateListeningEvent
<1>4. \A g \in Profiles : \A d \in Days : events[g][d] \in Int /\ events'[g][d] \in Int
  BY DEF ListeningTypeOK
<1> HIDE DEF f, c
<1>5. /\ \A g \in Profiles \ {f} : events'[g] = events[g]
      /\ \A d \in Days \ {Today} : events'[f][d] = events[f][d]
      /\ events'[f][Today] = events[f][Today] + c
  BY <1>1, <1>2, <1>3 DEF ListeningTypeOK
<1>6. SumOf(events'[f], Days) = SumOf(events[f], Days) + c
  <2>1. SumOf(events'[f], Days) = (SumOf(events[f], Days) - events[f][Today]) + events'[f][Today]
    BY <1>1, <1>2, <1>4, <1>5, DaysFinite, SumMoved
  <2>2. events[f][Today] \in Int /\ SumOf(events[f], Days) \in Nat
    BY <1>1, <1>2, <1>4, HeardIsNat
  <2> QED
    BY <1>2, <1>5, <2>1, <2>2
<1>7. SumOf(events["parent"], Days) \in Nat /\ SumOf(events["child"], Days) \in Nat
  BY HeardIsNat DEF Profiles
<1>8. f = "parent" \/ f = "child"
  BY <1>2 DEF Profiles
<1>9. Days' = Days
  BY DEF Days
<1> QED
  BY <1>2, <1>5, <1>6, <1>7, <1>8, <1>9 DEF AllHeard, Profiles, c

\* The three sums when one report moves, by where it stands before and after.
LEMMA SumsMove ==
    ASSUME ListeningTypeOK, ListeningTypeOK', NEW p \in Players,
           \A q \in Players \ {p} : sync'[q] = sync[q]
    PROVE  /\ Unheard \in Nat /\ Unbilled \in Nat /\ Unlisted \in Nat
           /\ Unheard' = (Unheard - Due({"made", "upsert", "event"})[p]) + Due({"made", "upsert", "event"})'[p]
           /\ Unbilled' = (Unbilled - Due({"usage"})[p]) + Due({"usage"})'[p]
           /\ Unlisted' = (Unlisted - Due({"usage", "popularity"})[p]) + Due({"usage", "popularity"})'[p]
BY DueIsNat, DueMoves DEF Unheard, Unbilled, Unlisted

\* What a player's report is due at.
LEMMA DueAt ==
    ASSUME NEW p \in Players, NEW c, Counted(sync[p]) = c
    PROVE  /\ Due({"made", "upsert", "event"})[p] = IF sync[p].at \in {"made", "upsert", "event"} THEN c ELSE 0
           /\ Due({"usage"})[p] = IF sync[p].at = "usage" THEN c ELSE 0
           /\ Due({"usage", "popularity"})[p] = IF sync[p].at \in {"usage", "popularity"} THEN c ELSE 0
BY DEF Due

\* And after a step.
LEMMA DueAtNext ==
    ASSUME NEW p \in Players, NEW c, Counted(sync'[p]) = c
    PROVE  /\ Due({"made", "upsert", "event"})'[p] = IF sync'[p].at \in {"made", "upsert", "event"} THEN c ELSE 0
           /\ Due({"usage"})'[p] = IF sync'[p].at = "usage" THEN c ELSE 0
           /\ Due({"usage", "popularity"})'[p] = IF sync'[p].at \in {"usage", "popularity"} THEN c ELSE 0
BY DEF Due, Counted

\* A step that moves no report and writes none of the books.
LEMMA QuietHours ==
    ASSUME HoursInv, UNCHANGED <<sync, events, hours, popularity, told, faults>>, subscribed' => subscribed
    PROVE  HoursInv'
<1>1. /\ Due({"made", "upsert", "event"})' = Due({"made", "upsert", "event"})
      /\ Due({"usage"})' = Due({"usage"})
      /\ Due({"usage", "popularity"})' = Due({"usage", "popularity"})
  BY DEF Due, Counted
<1>2. UNCHANGED <<AllHeard, Unheard, Unbilled, Unlisted>>
  BY <1>1 DEF AllHeard, Unheard, Unbilled, Unlisted, Days
<1> QED
  BY <1>2 DEF HoursInv

\* The counters are numbers.
LEMMA BooksAreNumbers ==
    ASSUME ListeningTypeOK
    PROVE  /\ hours \in Nat /\ popularity \in Nat /\ told \in Nat /\ faults \in Nat /\ AllHeard \in Nat
           /\ MaxReport \in Nat /\ faults * MaxReport \in Nat
           /\ (faults + 1) * MaxReport = faults * MaxReport + MaxReport
<1>1. hours \in Nat /\ popularity \in Nat /\ told \in Nat /\ faults \in Nat /\ MaxReport \in Nat
  BY DEF ListeningTypeOK
<1>2. AllHeard \in Nat
  BY HeardIsNat DEF AllHeard, Profiles
<1>3. faults * MaxReport \in Nat /\ (faults + 1) * MaxReport = faults * MaxReport + MaxReport
  BY <1>1
<1> QED
  BY <1>1, <1>2, <1>3

\* A report that is made is told, and due at every one of the books.
LEMMA MakeBooks ==
    ASSUME ListeningTypeOK, ListeningTypeOK', HoursInv, NEW p \in Players, MakeReport(p)
    PROVE  HoursInv'
<1> DEFINE c == Counted(sync'[p])
<1>1. /\ sync[p].at = "idle" /\ sync'[p].at = "made" /\ told' = told + c
      /\ \A q \in Players \ {p} : sync'[q] = sync[q]
  <2>1. PICK drift \in Drifts, seconds \in Seconds :
            LET r == [at |-> "made", made |-> now, drift |-> drift, seconds |-> seconds, stamp |-> 0]
            IN  sync' = [sync EXCEPT ![p] = r] /\ told' = told + Counted(r)
    BY DEF MakeReport
  <2> DEFINE r == [at |-> "made", made |-> now, drift |-> drift, seconds |-> seconds, stamp |-> 0]
  <2>2. sync'[p] = r /\ \A q \in Players \ {p} : sync'[q] = sync[q]
    BY <2>1 DEF ListeningTypeOK
  <2>3. r.at = "made" /\ told' = told + Counted(r)
    BY <2>1
  <2> HIDE DEF r
  <2> QED
    BY <2>2, <2>3 DEF MakeReport
<1>2. UNCHANGED <<events, hours, popularity, subscribed, faults>>
  BY DEF MakeReport, dbVars
<1>3. AllHeard' = AllHeard
  BY <1>2 DEF AllHeard, Days
<1>4. c \in Nat
  BY CountedIsNat DEF ListeningTypeOK, Counted
<1> HIDE DEF c
<1>5. Unheard' = Unheard + c /\ Unbilled' = Unbilled /\ Unlisted' = Unlisted
  BY <1>1, <1>4, SumsMove, DueAt, DueAtNext DEF c
<1> QED
  BY <1>1, <1>2, <1>3, <1>4, <1>5, BooksAreNumbers, DueIsNat DEF HoursInv, Unheard, Unbilled, Unlisted

\* A report that moves on counts for what it counted for.
LEMMA GotoKeepsSeconds ==
    ASSUME ListeningTypeOK, NEW p \in Players, NEW step, Goto(p, step)
    PROVE  /\ sync'[p].at = step /\ Counted(sync'[p]) = Counted(sync[p])
           /\ \A q \in Players \ {p} : sync'[q] = sync[q]
<1>1. sync \in [Players -> Report] /\ sync' = [sync EXCEPT ![p].at = step]
  BY DEF ListeningTypeOK, Goto
<1>2. sync'[p] = [sync[p] EXCEPT !.at = step] /\ \A q \in Players \ {p} : sync'[q] = sync[q]
  BY <1>1
<1>3. sync[p] \in Report
  BY <1>1
<1>4. sync'[p].at = step /\ sync'[p].seconds = sync[p].seconds
  BY <1>2, <1>3 DEF Report
<1> QED
  BY <1>2, <1>4 DEF Counted

\* A step of SyncPosition that books nothing leaves what is due as it was.
LEMMA SyncBooks ==
    ASSUME ListeningTypeOK, ListeningTypeOK', HoursInv, NEW p \in Players,
           SyncPosition(p) \/ UpsertPosition(p) \/ Answer(p)
    PROVE  HoursInv'
<1> DEFINE c == Counted(sync[p])
           d == Counted(sync'[p])
<1>1. UNCHANGED <<events, hours, popularity, subscribed, told, faults>>
  BY DEF SyncPosition, UpsertPosition, Answer, dbVars
<1>2. AllHeard' = AllHeard
  BY <1>1 DEF AllHeard, Days
<1>3. c \in Nat /\ d \in Nat
  BY CountedIsNat DEF ListeningTypeOK, Counted
<1>4. /\ \A q \in Players \ {p} : sync'[q] = sync[q]
      /\ \/ sync[p].at \in {"made", "upsert"} /\ sync'[p].at \in {"upsert", "event"} /\ d = c
         \/ sync[p].at = "upsert" /\ sync'[p].at = "answer" /\ c = 0
         \/ sync[p].at = "answer" /\ sync'[p].at = "idle"
  <2>1. CASE SyncPosition(p)
    <3> DEFINE r == [sync[p] EXCEPT !.at = "upsert", !.stamp = DeviceUpdatedAt(sync[p])]
    <3>1. sync[p] \in Report
      BY DEF ListeningTypeOK
    <3>2. r.at = "upsert" /\ r.seconds = sync[p].seconds
      BY <3>1 DEF Report
    <3>3. sync[p].at = "made" /\ sync' = [sync EXCEPT ![p] = r]
      BY <2>1 DEF SyncPosition
    <3> HIDE DEF r
    <3>4. sync'[p] = r /\ \A q \in Players \ {p} : sync'[q] = sync[q]
      BY <3>3 DEF ListeningTypeOK
    <3> QED
      BY <3>2, <3>3, <3>4 DEF Counted
  <2>2. CASE UpsertPosition(p)
    <3>1. sync[p].at = "upsert" /\ Goto(p, IF c > 0 THEN "event" ELSE "answer")
      BY <2>2 DEF UpsertPosition
    <3> HIDE DEF c
    <3>2. CASE c > 0
      <4>1. Goto(p, "event")
        BY <3>1, <3>2
      <4> QED
        BY <3>1, <4>1, GotoKeepsSeconds DEF c
    <3>3. CASE ~ (c > 0)
      <4>1. Goto(p, "answer") /\ c = 0
        BY <1>3, <3>1, <3>3
      <4> QED
        BY <3>1, <4>1, GotoKeepsSeconds
    <3> QED
      BY <3>2, <3>3
  <2>3. CASE Answer(p)
    <3>1. sync[p].at = "answer" /\ sync' = [sync EXCEPT ![p] = NoReport]
      BY <2>3 DEF Answer
    <3>2. sync'[p] = NoReport /\ \A q \in Players \ {p} : sync'[q] = sync[q]
      BY <3>1 DEF ListeningTypeOK
    <3> QED
      BY <3>1, <3>2 DEF NoReport
  <2> QED
    BY <2>1, <2>2, <2>3
<1> HIDE DEF c, d
<1>5. Unheard' = Unheard /\ Unbilled' = Unbilled /\ Unlisted' = Unlisted
  BY <1>3, <1>4, SumsMove, DueAt, DueAtNext DEF c, d
<1> QED
  BY <1>1, <1>2, <1>5 DEF HoursInv

\* The event, the hours and the popularity: what was due is booked.
LEMMA RecordBooks ==
    ASSUME ListeningTypeOK, ListeningTypeOK', HoursInv, NEW p \in Players,
           CreateListeningEvent(p) \/ RecordSubscriptionUsage(p) \/ RecordListen(p)
    PROVE  HoursInv'
<1> DEFINE c == Counted(sync[p])
<1>1. UNCHANGED <<subscribed, told, faults>>
  BY DEF CreateListeningEvent, RecordSubscriptionUsage, RecordListen
<1>2. c \in Nat
  BY CountedIsNat DEF ListeningTypeOK
<1>3. CASE CreateListeningEvent(p)
  <2>1. sync[p].at = "event" /\ Goto(p, "usage") /\ UNCHANGED <<hours, popularity>>
    BY <1>3 DEF CreateListeningEvent
  <2>2. AllHeard' = AllHeard + c
    BY <1>3, HeardMoves
  <2> HIDE DEF c
  <2>3. sync'[p].at = "usage" /\ Counted(sync'[p]) = c /\ \A q \in Players \ {p} : sync'[q] = sync[q]
    BY <2>1, GotoKeepsSeconds DEF c
  <2>4. Unheard' = Unheard - c /\ Unbilled' = Unbilled + c /\ Unlisted' = Unlisted + c
    BY <1>2, <2>1, <2>3, SumsMove, DueAt, DueAtNext DEF c
  <2>5. Unheard \in Nat /\ Unbilled \in Nat /\ Unlisted \in Nat
    BY <2>3, SumsMove
  <2> QED
    BY <1>1, <1>2, <2>1, <2>2, <2>4, <2>5, BooksAreNumbers DEF HoursInv
<1>4. CASE RecordSubscriptionUsage(p)
  <2>1. /\ sync[p].at = "usage" /\ Goto(p, "popularity") /\ UNCHANGED <<events, popularity>>
        /\ hours' = IF subscribed THEN hours + c ELSE hours
    BY <1>4 DEF RecordSubscriptionUsage
  <2>2. AllHeard' = AllHeard
    BY <2>1 DEF AllHeard, Days
  <2> HIDE DEF c
  <2>3. sync'[p].at = "popularity" /\ Counted(sync'[p]) = c /\ \A q \in Players \ {p} : sync'[q] = sync[q]
    BY <2>1, GotoKeepsSeconds DEF c
  <2>4. Unheard' = Unheard /\ Unbilled' = Unbilled - c /\ Unlisted' = Unlisted
    BY <1>2, <2>1, <2>3, SumsMove, DueAt, DueAtNext DEF c
  <2>5. Unheard \in Nat /\ Unbilled \in Nat /\ Unlisted \in Nat
    BY <2>3, SumsMove
  <2> QED
    BY <1>1, <1>2, <2>1, <2>2, <2>4, <2>5, BooksAreNumbers DEF HoursInv
<1>5. CASE RecordListen(p)
  <2>1. /\ sync[p].at = "popularity" /\ Goto(p, "answer") /\ UNCHANGED <<events, hours>>
        /\ popularity' = popularity + c
    BY <1>5 DEF RecordListen
  <2>2. AllHeard' = AllHeard
    BY <2>1 DEF AllHeard, Days
  <2> HIDE DEF c
  <2>3. sync'[p].at = "answer" /\ Counted(sync'[p]) = c /\ \A q \in Players \ {p} : sync'[q] = sync[q]
    BY <2>1, GotoKeepsSeconds DEF c
  <2>4. Unheard' = Unheard /\ Unbilled' = Unbilled /\ Unlisted' = Unlisted - c
    BY <1>2, <2>1, <2>3, SumsMove, DueAt, DueAtNext DEF c
  <2>5. Unheard \in Nat /\ Unbilled \in Nat /\ Unlisted \in Nat
    BY <2>3, SumsMove
  <2> QED
    BY <1>1, <1>2, <2>1, <2>2, <2>4, <2>5, BooksAreNumbers DEF HoursInv
<1> QED
  BY <1>3, <1>4, <1>5

\* A fault has a report counted once more, or never.
LEMMA FailBooks ==
    ASSUME ListeningTypeOK, ListeningTypeOK', HoursInv, NEW p \in Players, Fail(p)
    PROVE  HoursInv'
<1> DEFINE c == Counted(sync[p])
           d == Counted(sync'[p])
<1>1. sync[p].at \in Steps /\ faults' = faults + 1 /\ UNCHANGED <<events, hours, popularity, told>>
  BY DEF Fail, dbVars
<1>2. AllHeard' = AllHeard
  BY <1>1 DEF AllHeard, Days
<1>3. c \in Nat /\ d \in Nat /\ d <= MaxReport
  BY CountedIsNat, CountedIsBounded DEF ListeningTypeOK, Counted
<1>4. sync'[p].at \in {"made", "idle"} /\ \A q \in Players \ {p} : sync'[q] = sync[q]
  <2>1. CASE sync' = [sync EXCEPT ![p].at = "made"]
    BY <2>1, GotoKeepsSeconds DEF Goto
  <2>2. CASE sync' = [sync EXCEPT ![p] = NoReport]
    BY <2>2 DEF ListeningTypeOK, NoReport
  <2> QED
    BY <2>1, <2>2 DEF Fail
<1> HIDE DEF c, d
<1>5. /\ Unheard \in Nat /\ Unbilled \in Nat /\ Unlisted \in Nat
      /\ Unheard' <= Unheard + d /\ Unbilled' <= Unbilled /\ Unlisted' <= Unlisted
      /\ Unheard' \in Int /\ Unbilled' \in Int /\ Unlisted' \in Int
  BY <1>1, <1>3, <1>4, SumsMove, DueAt, DueAtNext DEF c, d
<1>6. faults \in Nat /\ faults' # 0 /\ faults' * MaxReport = faults * MaxReport + MaxReport
  BY <1>1, BooksAreNumbers
<1> QED
  BY <1>1, <1>2, <1>3, <1>5, <1>6, BooksAreNumbers DEF HoursInv

\* No step of a player, of SyncPosition or of the clock upsets the books.
LEMMA HoursStep == ListeningInv /\ ListeningInv' /\ HoursInv /\ [ListeningNext]_listeningVars => HoursInv'
<1> SUFFICES ASSUME ListeningTypeOK, ListeningTypeOK', HoursInv, [ListeningNext]_listeningVars
             PROVE  HoursInv'
  BY DEF ListeningInv, ReportsInv
<1>1. CASE Tick \/ Lapse \/ UNCHANGED listeningVars
  <2>1. UNCHANGED <<sync, events, hours, popularity, told, faults>> /\ (subscribed' => subscribed)
    BY <1>1 DEF Tick, Lapse, listeningVars, dbVars
  <2> QED
    BY <2>1, QuietHours
<1>2. ASSUME NEW p \in Players, Sync(p) PROVE HoursInv'
  BY <1>2, MakeBooks, SyncBooks, RecordBooks, FailBooks DEF Sync
<1> QED
  BY <1>1, <1>2 DEF ListeningNext

\* Nothing is due of players that are idle.
LEMMA NothingDue ==
    ASSUME \A p \in Players : sync[p].at = "idle"
    PROVE  Unheard = 0 /\ Unbilled = 0 /\ Unlisted = 0
<1>1. ASSUME NEW steps, "idle" \notin steps PROVE SumOf(Due(steps), Players) = 0
  <2>1. \A p \in Players : Due(steps)[p] = 0
    BY <1>1 DEF Due
  <2> QED
    BY <2>1, PlayersAssumption, SumZero
<1> QED
  BY <1>1 DEF Unheard, Unbilled, Unlisted

\* Nothing is told and nothing is due at first.
LEMMA HoursInit == ListeningInit => HoursInv
<1> SUFFICES ASSUME ListeningInit PROVE HoursInv
  OBVIOUS
<1>1. \A p \in Players : sync[p].at = "idle"
  BY DEF ListeningInit, NoReport
<1>2. Unheard = 0 /\ Unbilled = 0 /\ Unlisted = 0
  BY <1>1, NothingDue
<1>3. AllHeard = 0
  <2>1. \A f \in Profiles : \A d \in Days : events[f][d] = 0
    BY DEF ListeningInit
  <2>2. \A f \in Profiles : SumOf(events[f], Days) = 0
    BY <2>1, DaysFinite, SumZero
  <2> QED
    BY <2>2 DEF AllHeard, Profiles
<1>4. hours = 0 /\ popularity = 0 /\ told = 0 /\ faults = 0 /\ MaxReport \in Nat
  BY DEF ListeningInit
<1> QED
  BY <1>2, <1>3, <1>4 DEF HoursInv

\* Hours and popularity never run ahead of the events, nor the events ahead of the
\* reports but by the faults, and without a fault nothing is missing in the end, for
\* any number of players and reports (SyncPosition).
THEOREM HoursSafe == ListeningSpec => []HoursFollowListening
<1>1. ListeningSpec => []HoursInv
  BY HoursInit, HoursStep, ListeningInductive, PTL DEF ListeningSpec
<1>2. ListeningTypeOK /\ HoursInv => HoursFollowListening
  <2> SUFFICES ASSUME ListeningTypeOK, HoursInv PROVE HoursFollowListening
    OBVIOUS
  <2>1. Unheard \in Nat /\ Unbilled \in Nat /\ Unlisted \in Nat
    BY DueIsNat DEF Unheard, Unbilled, Unlisted
  <2>2. hours <= AllHeard /\ popularity <= AllHeard /\ AllHeard <= told + faults * MaxReport
    BY <2>1, BooksAreNumbers DEF HoursInv
  <2>3. ASSUME faults = 0, \A p \in Players : sync[p].at = "idle"
        PROVE  AllHeard = told /\ popularity = told /\ (subscribed => hours = told)
    <3>1. Unheard = 0 /\ Unbilled = 0 /\ Unlisted = 0
      BY <2>3, NothingDue
    <3> QED
      BY <2>3, <3>1, BooksAreNumbers DEF HoursInv
  <2> QED
    BY <2>2, <2>3, AllIsTotal DEF HoursFollowListening
<1> QED
  BY <1>1, <1>2, ListeningTypeCorrect, PTL

\* Streaks keeps its rule on the days up to today, in every state and not in the
\* first ones only (StatsFor).
THEOREM StreaksSafe == ListeningSpec => []StreaksFollowTheRule
<1>1. ListeningTypeOK => StreaksFollowTheRule
  <2> SUFFICES ASSUME ListeningTypeOK, NEW days \in SUBSET (Today - 5 .. Today)
               PROVE  FollowsTheRule(days, Today)
    BY DEF StreaksFollowTheRule
  <2>1. Today \in Int
    BY DEF ListeningTypeOK, Today
  <2>2. IsFiniteSet(days)
    <3>1. IsFiniteSet(Today - 5 .. Today)
      BY <2>1, FS_Interval
    <3> QED
      BY <3>1, FS_Subset
  <2>3. days \in SUBSET Int /\ \A d \in days : d <= Today
    BY <2>1
  <2> QED
    BY <2>1, <2>2, <2>3, StreaksAreRight
<1> QED
  BY <1>1, ListeningTypeCorrect, PTL

-----------------------------------------------------------------------------
(***************************************************************************)
(* Playback.                                                               *)
(***************************************************************************)
USE PlaybackAssumption

(***************************************************************************)
(* The pure functions.                                                     *)
(***************************************************************************)
\* ClampRange "can never read past limit-1", and never before the file's start,
\* whatever a player asks for.
THEOREM ClampIsInside ==
    ASSUME NEW r \in RangeHeader, NEW limit \in Int, ClampRange(r, limit).ok
    PROVE  LET e == ClampRange(r, limit)
           IN  0 <= e.first /\ e.first <= e.last /\ e.last < limit
BY DEF RangeHeader, ClampRange, Served, Refused

\* "the number on the child's screen and the number the server enforces cannot
\* drift apart": the countdown is at zero when the limit refuses, and only then.
THEOREM CountdownIsTheLimit ==
    ASSUME NEW c \in Controls, NEW heard \in Nat
    PROVE  RemainingSecondsToday(c, heard) = 0 <=> ~ UnderLimit(c, heard)
BY DEF Controls, RemainingSecondsToday, UnderLimit

\* A window that crosses midnight is the complement of the one between its ends:
\* no slot is lost or allowed twice where the two meet (WithinAllowedHours).
THEOREM WindowsComplement ==
    ASSUME NEW c \in Controls, NEW slot \in Slot, c.from # c.to
    PROVE  WithinAllowedHours(c, slot)
             <=> ~ WithinAllowedHours([c EXCEPT !.from = c.to, !.to = c.from], slot)
<1> DEFINE d == [c EXCEPT !.from = c.to, !.to = c.from]
<1>1. d.from = c.to /\ d.to = c.from /\ c.from \in Int /\ c.to \in Int /\ slot \in Int
  BY DEF Controls, Slot
<1> HIDE DEF d
<1>2. WithinAllowedHours(c, slot) <=> ~ WithinAllowedHours(d, slot)
  BY <1>1 DEF WithinAllowedHours
<1> QED
  BY <1>2 DEF d

(***************************************************************************)
(* The inductive invariant.                                                *)
(***************************************************************************)
HeardToday == SecondsListenedToday("child")

\* A ground that is given now was last given now; none was given in the future.
SeenIsWatched == \A g \in Grounds : seen[g] <= now /\ (Given(g) => seen[g] = now)

\* What a playback request has read so far was a ground while it was under way.
\* The limit may have been refused by then, and a new day may lift it.
RecordOK(p, r) ==
    /\ r.at # "idle" => r.since <= now /\ now <= r.since + 1
    /\ r.at = "sign" => /\ r.max \in {0, edition.preview}
                        /\ r.max = 0 => r.since <= seen["access"]
    /\ p \in Children =>
          /\ r.at \in {"controls", "decision", "listening"} /\ r.active => r.since <= seen["active"]
          /\ r.at \in {"decision", "listening"} =>
                /\ r.controls \in Controls
                /\ r.controls.mode = "kids_catalog" /\ KidsFriendly => r.since <= seen["approved"]
                /\ UnderLimit(r.controls, HeardToday) => r.since <= seen["limit"]
          /\ r.at = "listening" =>
                /\ r.decision # "block" => r.since <= seen["notBlocked"]
                /\ r.decision = "allow" => r.since <= seen["approved"]
          /\ r.at \in {"owned", "subscription", "sign"} =>
                \A g \in Grounds \ {"access"} : r.since <= seen[g]

\* A token outlives its grounds by its TTL and the request that gave it.
TokenOK(p, t) ==
    t # NoRow => /\ t.max \in {0, edition.preview}
                 /\ t.max = 0 => t.expires <= seen["access"] + TTL + 1
                 /\ p \in Children =>
                       \A g \in Grounds \ {"access"} : t.expires <= seen[g] + TTL + 1

RequestsOK == \A p \in Players : RecordOK(p, play[p]) /\ TokenOK(p, token[p])

IInv == TypeOK /\ ListeningInv /\ SeenIsWatched /\ RequestsOK

-----------------------------------------------------------------------------
(* What a step of others does to the requests under way.                   *)

LEMMA AgeIsAnAge == ASSUME NEW age \in ChildAges \cup {0} PROVE age \in Ages
<1>1. CASE age = 0
  BY <1>1 DEF Ages
<1>2. CASE age \in ChildAges
  <2>1. ChildAges \subseteq Ages
    OBVIOUS
  <2> QED
    BY <1>2, <2>1
<1> QED
  BY <1>1, <1>2

LEMMA DefaultsAreControls == ASSUME NEW age \in Ages PROVE DefaultControls(age) \in Controls
BY DEF DefaultControls, Controls, Ages, Modes, Slot

LEMMA GivenIsState ==
    UNCHANGED <<listeningVars, edition, owned, householdVars>>
        => \A g \in Grounds : Given(g)' <=> Given(g)
BY DEF listeningVars, dbVars, householdVars, Given, HasCapacity, SecondsListenedToday, Today

\* Watch moves what was seen forward only, and keeps it true.
LEMMA WatchStep ==
    ASSUME TypeOK, SeenIsWatched, Watch, now' \in 0 .. MaxNow, now <= now'
    PROVE  /\ seen' \in [Grounds -> {Never} \cup 0 .. MaxNow]
           /\ SeenIsWatched'
           /\ \A g \in Grounds : seen[g] <= seen'[g]
<1>1. \A g \in Grounds : seen'[g] = IF Given(g)' THEN now' ELSE seen[g]
  BY DEF Watch
<1>2. \A g \in Grounds : seen[g] \in {Never} \cup 0 .. MaxNow /\ seen[g] <= now
  BY DEF TypeOK, SeenIsWatched
<1>3. Never \in Int /\ now \in Int
  BY DEF Never, TypeOK, ListeningTypeOK
<1>4. seen' \in [Grounds -> {Never} \cup 0 .. MaxNow]
  BY <1>2 DEF Watch
<1>5. \A g \in Grounds : seen[g] <= seen'[g] /\ seen'[g] <= now'
  BY <1>1, <1>2, <1>3
<1>6. SeenIsWatched'
  BY <1>1, <1>5 DEF SeenIsWatched
<1> QED
  BY <1>4, <1>5, <1>6

\* Listening today only grows, until the day is over.
LEMMA HeardStep ==
    ASSUME ListeningInv, [ListeningNext]_listeningVars
    PROVE  /\ HeardToday \in Nat /\ HeardToday' \in Nat
           /\ HeardToday <= HeardToday' \/ HeardToday' = 0
<1>0. ListeningTypeOK /\ ListeningTypeOK' /\ FutureIsSilent
  BY ListeningStepInv DEF ListeningInv, ReportsInv
<1>1. "child" \in Profiles /\ Today \in Days /\ Today' \in Days
  <2>1. now \in 0 .. MaxNow /\ now' \in 0 .. MaxNow
    BY <1>0 DEF ListeningTypeOK
  <2> QED
    BY <2>1, DayIsADay DEF Profiles, Today
<1>2. HeardToday \in Nat /\ HeardToday' \in Nat
  BY <1>0, <1>1 DEF HeardToday, SecondsListenedToday, ListeningTypeOK
<1>3. CASE Tick
  <2>1. now \in Nat /\ now' = now + 1 /\ UNCHANGED events
    BY <1>0, <1>3 DEF Tick, dbVars, ListeningTypeOK
  <2>2. Today <= Today' /\ Today \in Int /\ Today' \in Int
    BY <2>1, DivMonotone, DivBounds DEF Today
  <2>3. CASE Today' = Today
    BY <1>2, <2>1, <2>3 DEF HeardToday, SecondsListenedToday
  <2>4. CASE Today' > Today
    <3>1. PICK d \in Days : d = Today'
      BY <1>1
    <3>2. events["child"][d] = 0
      BY <1>0, <1>1, <2>4, <3>1 DEF FutureIsSilent
    <3>3. HeardToday' = events["child"][d]
      BY <2>1, <3>1 DEF HeardToday, SecondsListenedToday
    <3> QED
      BY <1>2, <3>2, <3>3
  <2> QED
    BY <2>2, <2>3, <2>4
<1>4. ASSUME NEW p \in Players, CreateListeningEvent(p) PROVE HeardToday <= HeardToday'
  <2>1. PICK n \in Nat : n = Counted(sync[p])
    BY <1>0, CountedIsNat DEF ListeningTypeOK
  <2>2. events' = [events EXCEPT ![ProfileOf(p)][Today] = @ + n] /\ Today' = Today
    BY <1>4, <2>1 DEF CreateListeningEvent, Today
  <2>3. events'["child"][Today] >= events["child"][Today]
    BY <1>0, <1>1, <2>1, <2>2 DEF ListeningTypeOK, ProfileOf, Profiles
  <2> QED
    BY <1>2, <2>2, <2>3 DEF HeardToday, SecondsListenedToday
<1>5. CASE UNCHANGED <<now, events>>
  BY <1>2, <1>5 DEF HeardToday, SecondsListenedToday, Today
<1>6. ASSUME NEW p \in Players, Sync(p), ~ CreateListeningEvent(p) PROVE UNCHANGED <<now, events>>
  BY <1>6 DEF Sync, MakeReport, SyncPosition, UpsertPosition, RecordSubscriptionUsage, RecordListen,
     Answer, Fail, dbVars
<1>7. CASE Lapse \/ UNCHANGED listeningVars
  BY <1>5, <1>7 DEF Lapse, listeningVars, dbVars
<1> QED
  BY <1>2, <1>3, <1>4, <1>5, <1>6, <1>7 DEF ListeningNext

\* A request and a token stay as good as they were while others move.
LEMMA RecordStep ==
    ASSUME TypeOK, NEW p \in Players, NEW r \in Play, RecordOK(p, r),
           now' \in Nat, now' = now \/ (now' = now + 1 /\ (r.at # "idle" => r.since = now)),
           edition' = edition,
           \A g \in Grounds : seen[g] \in Int /\ seen'[g] \in Int /\ seen[g] <= seen'[g],
           HeardToday \in Nat, HeardToday' \in Nat,
           r.at # "idle" => HeardToday <= HeardToday' \/ r.since <= seen'["limit"]
    PROVE  RecordOK(p, r)'
<1>0. now \in Nat /\ r.since \in Nat /\ {"access", "active", "notBlocked", "approved", "limit"} = Grounds
  BY DEF TypeOK, ListeningTypeOK, Play, Grounds
<1>1. (r.at # "idle" => r.since <= now /\ now <= r.since + 1)'
  BY <1>0 DEF RecordOK
<1>2. (r.at = "sign" => /\ r.max \in {0, edition.preview}
                        /\ r.max = 0 => r.since <= seen["access"])'
  BY <1>0 DEF RecordOK
<1>3. ASSUME p \in Children, r.at \in {"controls", "decision", "listening"}, r.active
      PROVE  r.since <= seen'["active"]
  BY <1>0, <1>3 DEF RecordOK
<1>4. ASSUME p \in Children, r.at \in {"decision", "listening"}
      PROVE  /\ r.controls \in Controls
             /\ r.controls.mode = "kids_catalog" /\ KidsFriendly => r.since <= seen'["approved"]
             /\ UnderLimit(r.controls, HeardToday)' => r.since <= seen'["limit"]
  <2>1. /\ r.controls \in Controls
        /\ r.controls.mode = "kids_catalog" /\ KidsFriendly => r.since <= seen["approved"]
        /\ UnderLimit(r.controls, HeardToday) => r.since <= seen["limit"]
    BY <1>4 DEF RecordOK
  <2>2. r.controls.limit \in Nat
    BY <2>1 DEF Controls
  <2>3. HeardToday <= HeardToday' /\ UnderLimit(r.controls, HeardToday)'
          => UnderLimit(r.controls, HeardToday)
    BY <2>2 DEF UnderLimit
  <2> QED
    BY <1>0, <1>4, <2>1, <2>3
<1>5. ASSUME p \in Children, r.at = "listening"
      PROVE  /\ r.decision # "block" => r.since <= seen'["notBlocked"]
             /\ r.decision = "allow" => r.since <= seen'["approved"]
  BY <1>0, <1>5 DEF RecordOK
<1>6. ASSUME p \in Children, r.at \in {"owned", "subscription", "sign"}, NEW g \in Grounds \ {"access"}
      PROVE  r.since <= seen'[g]
  BY <1>0, <1>6 DEF RecordOK
<1> QED
  BY <1>1, <1>2, <1>3, <1>4, <1>5, <1>6 DEF RecordOK

LEMMA TokenStep ==
    ASSUME NEW p \in Players, NEW t \in StreamToken \cup {NoRow}, TokenOK(p, t), edition' = edition,
           \A g \in Grounds : seen[g] \in Int /\ seen'[g] \in Int /\ seen[g] <= seen'[g]
    PROVE  TokenOK(p, t)'
<1>1. CASE t = NoRow
  BY <1>1 DEF TokenOK
<1>2. CASE t # NoRow /\ t \in StreamToken
  <2>1. t.expires \in Nat /\ TTL \in Nat /\ "access" \in Grounds
    BY <1>2 DEF StreamToken, Grounds
  <2> QED
    BY <1>2, <2>1 DEF TokenOK
<1> QED
  BY <1>1, <1>2

\* The two together, for all players whose request and token did not move.
LEMMA OthersStep ==
    ASSUME IInv, Watch, [ListeningNext]_listeningVars, edition' = edition,
           NEW p \in Players, play'[p] = play[p], token'[p] = token[p],
           now' = now \/ (now' = now + 1 /\ (play[p].at # "idle" => play[p].since = now)),
           HeardToday' = 0 => Given("limit")'
    PROVE  RecordOK(p, play[p])' /\ TokenOK(p, token[p])'
<1>1. TypeOK /\ SeenIsWatched /\ RecordOK(p, play[p]) /\ TokenOK(p, token[p]) /\ ListeningInv
  BY DEF IInv, RequestsOK
<1>2. now \in Nat /\ now' \in 0 .. MaxNow /\ now <= now'
  <2>1. ListeningTypeOK /\ ListeningTypeOK'
    BY <1>1, ListeningStepInv DEF ListeningInv, ReportsInv
  <2> QED
    BY <2>1 DEF ListeningTypeOK
<1>3. \A g \in Grounds : seen[g] \in Int /\ seen'[g] \in Int /\ seen[g] <= seen'[g]
  BY <1>1, <1>2, WatchStep DEF TypeOK, Never
<1>4. PICK r \in Play : r = play[p]
  BY <1>1 DEF TypeOK
<1>5. PICK t \in StreamToken \cup {NoRow} : t = token[p]
  BY <1>1 DEF TypeOK
<1>6. /\ HeardToday \in Nat /\ HeardToday' \in Nat
      /\ HeardToday <= HeardToday' \/ HeardToday' = 0
  BY <1>1, HeardStep
<1>7. HeardToday' = 0 => seen'["limit"] = now'
  BY <1>1, <1>2, WatchStep DEF SeenIsWatched, Grounds
<1>8. r.at # "idle" => r.since <= now
  BY <1>1, <1>4 DEF RecordOK
<1>9. r.since \in Nat
  BY <1>4 DEF Play
<1>10. RecordOK(p, r) /\ TokenOK(p, t)
  BY <1>1, <1>4, <1>5
<1>11. RecordOK(p, r)'
  BY <1>1, <1>2, <1>3, <1>4, <1>6, <1>7, <1>8, <1>9, <1>10, RecordStep
<1>12. TokenOK(p, t)'
  BY <1>3, <1>10, TokenStep
<1>13. r = play'[p] /\ t = token'[p]
  BY <1>4, <1>5
<1> QED
  BY <1>11, <1>12, <1>13
-----------------------------------------------------------------------------
\* A step of the clock, of the reports and of the subscription.
LEMMA AroundStep == IInv /\ Around /\ Watch => IInv'
<1> SUFFICES ASSUME IInv, Around, Watch PROVE IInv'
  OBVIOUS
<1>0. TypeOK /\ ListeningInv /\ SeenIsWatched /\ RequestsOK
  BY DEF IInv
<1>1. /\ [ListeningNext]_listeningVars
      /\ UNCHANGED <<edition, owned, profile, controls, decision, play, token, edits>>
  BY DEF Around, Time, ListeningNext, householdVars, requestVars
<1>2. ListeningInv' /\ ListeningTypeOK'
  BY <1>0, <1>1, ListeningStepInv DEF ListeningInv, ReportsInv
<1>3. now \in 0 .. MaxNow /\ now' \in 0 .. MaxNow
  BY <1>0, <1>2 DEF TypeOK, ListeningTypeOK
<1>4. now' = now \/ (now' = now + 1 /\ \A p \in Players : play[p].at # "idle" => play[p].since = now)
  <2>1. CASE Time
    BY <2>1 DEF Time, Tick
  <2>2. CASE Lapse
    BY <2>2 DEF Lapse
  <2>3. CASE \E p \in Players : Sync(p)
    BY <2>3 DEF Sync, MakeReport, SyncPosition, UpsertPosition, CreateListeningEvent,
       RecordSubscriptionUsage, RecordListen, Answer, Fail
  <2> QED
    BY <2>1, <2>2, <2>3 DEF Around
<1>5. seen' \in [Grounds -> {Never} \cup 0 .. MaxNow] /\ SeenIsWatched'
  BY <1>0, <1>3, <1>4, WatchStep
<1>6. TypeOK'
  BY <1>0, <1>1, <1>2, <1>5 DEF TypeOK
<1>7. HeardToday' = 0 => Given("limit")'
  <2>1. EffectiveControls(controls, profile.age).limit \in Nat
    <3>1. profile.age \in Ages
      BY <1>0, AgeIsAnAge DEF TypeOK, Profile
    <3> QED
      BY <1>0, <3>1, DefaultsAreControls DEF TypeOK, EffectiveControls, Controls
  <2> QED
    BY <1>1, <2>1 DEF Given, HeardToday, UnderLimit
<1>8. ASSUME NEW p \in Players PROVE RecordOK(p, play[p])' /\ TokenOK(p, token[p])'
  BY <1>1, <1>4, <1>7, OthersStep
<1> QED
  BY <1>2, <1>5, <1>6, <1>8 DEF IInv, RequestsOK

\* The parent, the refund desk, a purchase: what was seen stays seen.
LEMMA HouseholdStep == IInv /\ Household /\ Watch => IInv'
<1> SUFFICES ASSUME IInv, Household, Watch PROVE IInv'
  OBVIOUS
<1>0. TypeOK /\ ListeningInv /\ SeenIsWatched /\ RequestsOK
  BY DEF IInv
<1>1. UNCHANGED <<listeningVars, edition, play, token>>
  BY DEF Household, CreateProfile, CreateControls, UpdateProfile, DeleteProfile, UpdateControls,
     SetApproval, Entitle, Edit, requestVars
<1>2. ListeningInv' /\ ListeningTypeOK' /\ now' = now /\ now \in 0 .. MaxNow
  BY <1>0, <1>1, ListeningStepInv DEF ListeningInv, ReportsInv, listeningVars, ListeningTypeOK
<1>3. seen' \in [Grounds -> {Never} \cup 0 .. MaxNow] /\ SeenIsWatched'
  BY <1>0, <1>2, WatchStep
<1>4. /\ owned' \in BOOLEAN /\ profile' \in Profile /\ controls' \in Controls \cup {NoRow}
      /\ decision' \in Decisions /\ edits' \in 0 .. MaxEdits
  <2>1. CASE CreateProfile
    BY <1>0, <2>1 DEF CreateProfile, TypeOK, Profile
  <2>2. CASE CreateControls
    <3>1. profile.age \in Ages
      BY <1>0, AgeIsAnAge DEF TypeOK, Profile
    <3>2. DefaultControls(profile.age) \in Controls
      BY <3>1, DefaultsAreControls
    <3> QED
      BY <1>0, <2>2, <3>2 DEF CreateControls, TypeOK, Profile
  <2>3. CASE UpdateProfile
    BY <1>0, <2>3 DEF UpdateProfile, Edit, TypeOK, Profile
  <2>4. CASE DeleteProfile
    BY <1>0, <2>4 DEF DeleteProfile, Edit, TypeOK, Profile
  <2>5. CASE UpdateControls
    BY <1>0, <2>5 DEF UpdateControls, Edit, TypeOK
  <2>6. CASE SetApproval
    BY <1>0, <2>6 DEF SetApproval, Edit, TypeOK
  <2>7. CASE Entitle
    BY <1>0, <2>7 DEF Entitle, Edit, TypeOK, householdVars
  <2> QED
    BY <2>1, <2>2, <2>3, <2>4, <2>5, <2>6, <2>7 DEF Household
<1>5. TypeOK'
  BY <1>0, <1>1, <1>2, <1>3, <1>4 DEF TypeOK
<1>6. HeardToday' = 0 => Given("limit")'
  <2>1. EffectiveControls(controls', profile'.age).limit \in Nat
    <3>1. profile'.age \in Ages
      BY <1>4, AgeIsAnAge DEF Profile
    <3> QED
      BY <1>4, <3>1, DefaultsAreControls DEF EffectiveControls, Controls
  <2> QED
    BY <2>1 DEF Given, HeardToday, UnderLimit
<1>7. ASSUME NEW p \in Players PROVE RecordOK(p, play[p])' /\ TokenOK(p, token[p])'
  BY <1>1, <1>2, <1>6, OthersStep
<1> QED
  BY <1>2, <1>3, <1>5, <1>7 DEF IInv, RequestsOK
-----------------------------------------------------------------------------
(* The requests.                                                           *)

\* A step of one request that leaves a good record is a good step.
LEMMA StepKeeps ==
    ASSUME IInv, Watch, NEW p \in Players, NEW r \in Play, RecordOK(p, r), Step(p, r)
    PROVE  IInv'
<1>0. TypeOK /\ ListeningInv /\ SeenIsWatched /\ RequestsOK
  BY DEF IInv
<1>1. /\ UNCHANGED <<listeningVars, edition, owned, profile, controls, decision, token, edits>>
      /\ play' = [play EXCEPT ![p] = r]
  BY DEF Step, householdVars
<1>2. ListeningInv' /\ ListeningTypeOK' /\ now' = now /\ now \in 0 .. MaxNow
  BY <1>0, <1>1, ListeningStepInv DEF ListeningInv, ReportsInv, listeningVars, ListeningTypeOK
<1>3. seen' \in [Grounds -> {Never} \cup 0 .. MaxNow] /\ SeenIsWatched'
  BY <1>0, <1>2, WatchStep
<1>4. \A g \in Grounds : seen[g] \in Int /\ seen'[g] \in Int /\ seen[g] <= seen'[g]
  BY <1>0, <1>2, WatchStep DEF TypeOK, Never
<1>5. TypeOK'
  BY <1>0, <1>1, <1>2, <1>3 DEF TypeOK
<1>6. HeardToday \in Nat /\ HeardToday' \in Nat /\ HeardToday' = HeardToday
  BY <1>0, <1>1, HeardStep DEF HeardToday, SecondsListenedToday, Today, listeningVars, dbVars
<1>7. ASSUME NEW q \in Players PROVE RecordOK(q, play[q])' /\ TokenOK(q, token[q])'
  <2>1. PICK x \in Play : x = play'[q] /\ RecordOK(q, x)
    BY <1>0, <1>1 DEF TypeOK, RequestsOK
  <2>2. PICK t \in StreamToken \cup {NoRow} : t = token[q] /\ TokenOK(q, t)
    BY <1>0 DEF TypeOK, RequestsOK
  <2>3. RecordOK(q, x)'
    BY <1>0, <1>1, <1>2, <1>4, <1>6, <2>1, RecordStep
  <2>4. TokenOK(q, t)'
    BY <1>1, <1>4, <2>2, TokenStep
  <2>5. t = token'[q]
    BY <1>1, <2>2
  <2> QED
    BY <2>1, <2>3, <2>4, <2>5
<1> QED
  BY <1>2, <1>3, <1>5, <1>7 DEF IInv, RequestsOK

\* What the request of a player has to its credit when commerce is asked.
Cleared(p, since) ==
    /\ since \in Nat /\ since <= now /\ now <= since + 1
    /\ p \in Children => \A g \in Grounds \ {"access"} : since <= seen[g]

LEMMA DenyStep == ASSUME IInv, Watch, NEW p \in Players, Deny(p) PROVE IInv'
<1>1. NoPlay \in Play /\ RecordOK(p, NoPlay)
  BY DEF NoPlay, Play, Decisions, RecordOK
<1> QED
  BY <1>1, StepKeeps DEF Deny

LEMMA AskCommerceStep ==
    ASSUME IInv, Watch, NEW p \in Players, NEW since, Cleared(p, since), AskCommerce(p, since)
    PROVE  IInv'
<1> DEFINE r == [NoPlay EXCEPT !.at = IF edition.free THEN "sign" ELSE "owned", !.since = since]
<1>1. /\ r \in Play /\ r.since = since /\ r.max = 0
      /\ r.at = IF edition.free THEN "sign" ELSE "owned"
  BY DEF NoPlay, Play, Decisions, Cleared
<1>2. Step(p, r)
  BY DEF AskCommerce
<1> HIDE DEF r
<1>3. edition.free => since <= seen["access"]
  BY DEF IInv, SeenIsWatched, Given, Grounds, Cleared
<1>4. RecordOK(p, r)
  BY <1>1, <1>3 DEF RecordOK, Cleared
<1> QED
  BY <1>1, <1>2, <1>4, StepKeeps

LEMMA GrantStep ==
    ASSUME IInv, Watch, NEW p \in Players, Cleared(p, play[p].since), NEW max \in Nat, Grant(p, max),
           (max = edition.preview /\ max # 0) \/ (max = 0 /\ Given("access"))
    PROVE  IInv'
<1> DEFINE r == [NoPlay EXCEPT !.at = "sign", !.since = play[p].since, !.max = max]
<1>1. r \in Play /\ r.since = play[p].since /\ r.max = max /\ r.at = "sign"
  BY DEF NoPlay, Play, Decisions, Cleared
<1>2. Step(p, r)
  BY DEF Grant
<1> HIDE DEF r
<1>3. max = 0 => play[p].since <= seen["access"]
  BY DEF IInv, SeenIsWatched, Grounds, Cleared
<1>4. RecordOK(p, r)
  BY <1>1, <1>3 DEF RecordOK, Cleared
<1> QED
  BY <1>1, <1>2, <1>4, StepKeeps
\* Every statement of PlaybackURL, and its failures.
LEMMA RequestStep ==
    ASSUME IInv, Watch, NEW p \in Players, Request(p)
    PROVE  IInv'
<1>0. TypeOK /\ ListeningTypeOK /\ SeenIsWatched /\ RecordOK(p, play[p]) /\ play[p] \in Play /\ now \in Nat
  BY DEF IInv, RequestsOK, TypeOK, ListeningTypeOK
<1>1. CASE RequestPlayback(p)
  <2>1. CASE p \in Children
    <3> DEFINE r == [NoPlay EXCEPT !.at = "profile", !.since = now]
    <3>1. r \in Play /\ r.since = now /\ r.at = "profile"
      BY <1>0 DEF NoPlay, Play, Decisions
    <3>2. Step(p, r)
      BY <1>1, <2>1 DEF RequestPlayback
    <3> HIDE DEF r
    <3>3. RecordOK(p, r)
      BY <1>0, <3>1 DEF RecordOK
    <3> QED
      BY <3>1, <3>2, <3>3, StepKeeps
  <2>2. CASE p \notin Children
    BY <1>0, <1>1, <2>2, AskCommerceStep DEF RequestPlayback, Cleared
  <2> QED
    BY <2>1, <2>2
<1>2. CASE ReadProfile(p)
  <2>1. CASE profile.state = "none"
    BY <1>2, <2>1, DenyStep DEF ReadProfile
  <2>2. CASE profile.state # "none"
    <3> DEFINE r == [play[p] EXCEPT !.at = "controls", !.age = profile.age,
                                    !.active = profile.state = "active"]
    <3>1. r.at = "controls" /\ r.since = play[p].since /\ (r.active <=> profile.state = "active")
      BY <1>0 DEF Play
    <3>2. r \in Play
      BY <1>0 DEF Play, TypeOK, Profile
    <3>3. Step(p, r)
      BY <1>2, <2>2 DEF ReadProfile
    <3> HIDE DEF r
    <3>4. profile.state = "active" => seen["active"] = now
      BY <1>0 DEF SeenIsWatched, Given, Grounds
    <3>5. play[p].at = "profile"
      BY <1>2 DEF ReadProfile
    <3>6. RecordOK(p, r)
      BY <1>0, <3>1, <3>4, <3>5 DEF RecordOK
    <3> QED
      BY <3>2, <3>3, <3>6, StepKeeps
  <2> QED
    BY <2>1, <2>2
<1>3. CASE ReadControls(p)
  <2> DEFINE e == EffectiveControls(controls, play[p].age)
             r == [play[p] EXCEPT !.at = "decision", !.controls = e]
  <2>1. e \in Controls
    <3>1. play[p].age \in Ages
      BY <1>0, AgeIsAnAge DEF Play
    <3> QED
      BY <1>0, <3>1, DefaultsAreControls DEF TypeOK, EffectiveControls
  <2>2. /\ r \in Play /\ r.at = "decision" /\ r.since = play[p].since
        /\ r.controls = e /\ r.active = play[p].active
    BY <1>0, <2>1 DEF Play
  <2>3. Step(p, r) /\ play[p].at = "controls"
    BY <1>3 DEF ReadControls
  <2>4. e.mode = "kids_catalog" /\ KidsFriendly => seen["approved"] = now
    BY <1>0 DEF SeenIsWatched, Given, Grounds, Approved, EffectiveControls, DefaultControls
  <2>5. UnderLimit(e, HeardToday) => seen["limit"] = now
    BY <1>0 DEF SeenIsWatched, Given, Grounds, UnderLimit, EffectiveControls, DefaultControls, HeardToday
  <2> HIDE DEF e, r
  <2>6. RecordOK(p, r)
    BY <1>0, <2>1, <2>2, <2>3, <2>4, <2>5 DEF RecordOK
  <2> QED
    BY <2>2, <2>3, <2>6, StepKeeps
<1>4. CASE ReadDecision(p)
  <2> DEFINE r == [play[p] EXCEPT !.at = "listening", !.decision = decision]
  <2>1. /\ r \in Play /\ r.at = "listening" /\ r.since = play[p].since /\ r.decision = decision
        /\ r.controls = play[p].controls /\ r.active = play[p].active
    BY <1>0 DEF Play, TypeOK
  <2>2. Step(p, r) /\ play[p].at = "decision"
    BY <1>4 DEF ReadDecision
  <2>3. /\ decision # "block" => seen["notBlocked"] = now
        /\ decision = "allow" => seen["approved"] = now
    BY <1>0 DEF SeenIsWatched, Given, Grounds, Approved
  <2> HIDE DEF r
  <2>4. RecordOK(p, r)
    BY <1>0, <2>1, <2>2, <2>3 DEF RecordOK
  <2> QED
    BY <2>1, <2>2, <2>4, StepKeeps
<1>5. CASE CheckPlayback(p)
  <2>1. CASE ~ EvaluatePlayback(play[p].controls, play[p].active, play[p].age, KidsFriendly,
                                play[p].decision, SecondsListenedToday("child"), now % Slots)
    BY <1>5, <2>1, DenyStep DEF CheckPlayback
  <2>2. CASE EvaluatePlayback(play[p].controls, play[p].active, play[p].age, KidsFriendly,
                              play[p].decision, SecondsListenedToday("child"), now % Slots)
    <3>1. play[p].at = "listening" /\ AskCommerce(p, play[p].since)
      BY <1>5, <2>2 DEF CheckPlayback
    <3>2. /\ play[p].active /\ play[p].decision # "block"
          /\ play[p].decision = "allow" \/ (play[p].controls.mode = "kids_catalog" /\ KidsFriendly)
          /\ UnderLimit(play[p].controls, HeardToday)
      BY <2>2 DEF EvaluatePlayback, Approved, HeardToday
    <3>3. p \in Children => /\ play[p].since <= seen["active"] /\ play[p].since <= seen["notBlocked"]
                            /\ play[p].since <= seen["approved"] /\ play[p].since <= seen["limit"]
      BY <1>0, <3>1, <3>2 DEF RecordOK
    <3>4. Cleared(p, play[p].since)
      BY <1>0, <3>1, <3>3 DEF Cleared, RecordOK, Grounds, Play
    <3> QED
      BY <3>1, <3>4, AskCommerceStep
  <2> QED
    BY <2>1, <2>2
<1>6. play[p].at \in {"owned", "subscription"} => Cleared(p, play[p].since)
  BY <1>0 DEF RecordOK, Cleared, Play
<1>7. CASE ReadEntitlement(p)
  <2>1. CASE owned
    BY <1>6, <1>7, <2>1, GrantStep DEF ReadEntitlement, Given
  <2>2. CASE ~ owned
    <3> DEFINE r == [play[p] EXCEPT !.at = "subscription"]
    <3>1. r \in Play /\ r.at = "subscription" /\ r.since = play[p].since
      BY <1>0 DEF Play
    <3>2. Step(p, r) /\ play[p].at = "owned"
      BY <1>7, <2>2 DEF ReadEntitlement
    <3> HIDE DEF r
    <3>3. RecordOK(p, r)
      BY <1>6, <3>1, <3>2 DEF RecordOK, Cleared
    <3> QED
      BY <3>1, <3>2, <3>3, StepKeeps
  <2> QED
    BY <2>1, <2>2
<1>8. CASE ReadSubscription(p)
  <2>1. CASE HasCapacity
    BY <1>6, <1>8, <2>1, GrantStep DEF ReadSubscription, Given
  <2>2. CASE ~ HasCapacity /\ edition.preview <= 0
    BY <1>8, <2>2, DenyStep DEF ReadSubscription
  <2>3. CASE ~ HasCapacity /\ ~ edition.preview <= 0
    <3>1. edition.preview \in Nat /\ edition.preview # 0
      BY <1>0, <2>3 DEF TypeOK
    <3> QED
      BY <1>6, <1>8, <2>3, <3>1, GrantStep DEF ReadSubscription
  <2> QED
    BY <2>1, <2>2, <2>3
<1>9. CASE GiveUp(p)
  BY <1>9, DenyStep DEF GiveUp
<1>10. CASE Sign(p)
  <2> DEFINE t == [expires |-> now + TTL, max |-> play[p].max]
  <2>1. /\ UNCHANGED <<listeningVars, edition, owned, profile, controls, decision, edits>>
        /\ token' = [token EXCEPT ![p] = t] /\ play' = [play EXCEPT ![p] = NoPlay]
        /\ play[p].at = "sign"
    BY <1>10 DEF Sign, householdVars
  <2>2. t \in StreamToken /\ t.expires = now + TTL /\ t.max = play[p].max
    BY <1>0 DEF StreamToken, Play
  <2> HIDE DEF t
  <2>3. NoPlay \in Play /\ RecordOK(p, NoPlay)
    BY DEF NoPlay, Play, Decisions, RecordOK
  <2>4. ListeningInv' /\ ListeningTypeOK' /\ now' = now /\ now \in 0 .. MaxNow
    BY <2>1, ListeningStepInv DEF IInv, ListeningInv, ReportsInv, listeningVars, ListeningTypeOK
  <2>5. seen' \in [Grounds -> {Never} \cup 0 .. MaxNow] /\ SeenIsWatched'
    BY <1>0, <2>4, WatchStep
  <2>6. \A g \in Grounds : seen[g] \in Int /\ seen'[g] \in Int /\ seen[g] <= seen'[g]
    BY <1>0, <2>4, WatchStep DEF TypeOK, Never
  <2>7. TypeOK'
    BY <1>0, <2>1, <2>2, <2>3, <2>4, <2>5 DEF TypeOK
  <2>8. TokenOK(p, t)
    BY <1>0, <2>1, <2>2, <2>6 DEF TokenOK, RecordOK, Play, Grounds
  <2>9. HeardToday \in Nat /\ HeardToday' \in Nat /\ HeardToday' = HeardToday
    BY <2>1, HeardStep DEF IInv, HeardToday, SecondsListenedToday, Today, listeningVars, dbVars
  <2>10. ASSUME NEW q \in Players PROVE RecordOK(q, play[q])' /\ TokenOK(q, token[q])'
    <3>1. PICK x \in Play : x = play'[q] /\ RecordOK(q, x)
      BY <1>0, <2>1, <2>3 DEF TypeOK, IInv, RequestsOK
    <3>2. PICK u \in StreamToken \cup {NoRow} : u = token'[q] /\ TokenOK(q, u)
      BY <1>0, <2>1, <2>2, <2>8 DEF TypeOK, IInv, RequestsOK
    <3>3. RecordOK(q, x)'
      BY <1>0, <2>1, <2>4, <2>6, <2>9, <3>1, RecordStep
    <3>4. TokenOK(q, u)'
      BY <2>1, <2>6, <3>2, TokenStep
    <3> QED
      BY <3>1, <3>2, <3>3, <3>4
  <2> QED
    BY <2>4, <2>5, <2>7, <2>10 DEF IInv, RequestsOK
<1> QED
  BY <1>1, <1>2, <1>3, <1>4, <1>5, <1>7, <1>8, <1>9, <1>10 DEF Request
-----------------------------------------------------------------------------
(* The theorems.                                                           *)

\* At first nothing is asked for and no URL is out.
LEMMA PlaybackInit == Init => IInv
<1> SUFFICES ASSUME Init PROVE IInv
  OBVIOUS
<1>1. ListeningInv /\ ListeningTypeOK /\ now = 0 /\ MaxNow \in Nat
  BY ListeningInitInv DEF Init, ListeningInv, ReportsInv, ListeningInit
<1>2. Never \in Int /\ Never <= 0
  BY DEF Never
<1>3. SeenIsWatched
  BY <1>1, <1>2 DEF Init, SeenIsWatched
<1>4. seen \in [Grounds -> {Never} \cup 0 .. MaxNow]
  BY <1>1 DEF Init
<1>5. NoPlay \in Play /\ NoPlay.at = "idle" /\ profile \in Profile /\ decision \in Decisions
  BY DEF Init, NoPlay, Play, Decisions, Profile
<1>6. TypeOK
  BY <1>1, <1>4, <1>5 DEF Init, TypeOK
<1>7. RequestsOK
  BY <1>5 DEF Init, RequestsOK, RecordOK, TokenOK
<1> QED
  BY <1>1, <1>3, <1>6, <1>7 DEF IInv

\* Every step of the composition keeps the invariant.
LEMMA PlaybackStep == IInv /\ [Next]_vars => IInv'
<1> SUFFICES ASSUME IInv, [Next]_vars PROVE IInv'
  OBVIOUS
<1>1. CASE Next
  BY <1>1, AroundStep, HouseholdStep, RequestStep DEF Next
<1>2. CASE UNCHANGED vars
  <2>1. UNCHANGED <<listeningVars, edition, owned, profile, controls, decision, play, token, edits, seen>>
    BY <1>2 DEF vars, householdVars, requestVars
  <2>2. ListeningInv' /\ ListeningTypeOK' /\ now' = now
    BY <2>1, ListeningStepInv DEF IInv, ListeningInv, ReportsInv, listeningVars
  <2>3. \A g \in Grounds : Given(g)' <=> Given(g)
    BY <2>1, GivenIsState DEF householdVars
  <2>4. SeenIsWatched'
    BY <2>1, <2>2, <2>3 DEF IInv, SeenIsWatched
  <2>5. TypeOK'
    BY <2>1, <2>2 DEF IInv, TypeOK
  <2>6. HeardToday' = HeardToday
    BY <2>1 DEF HeardToday, SecondsListenedToday, Today, listeningVars, dbVars
  <2>7. RequestsOK'
    BY <2>1, <2>2, <2>6 DEF IInv, RequestsOK, RecordOK, TokenOK, UnderLimit
  <2> QED
    BY <2>2, <2>4, <2>5, <2>7 DEF IInv
<1> QED
  BY <1>1, <1>2

\* Requests, tokens, rules and reports stay in step, whatever overtakes what.
THEOREM Inductive == Spec => []IInv
BY PlaybackInit, PlaybackStep, PTL DEF Spec

\* The whole composition has its type.
THEOREM TypeCorrect == Spec => []TypeOK
BY Inductive, PTL DEF IInv

\* A URL of the whole edition outlives its last ground by at most its TTL and
\* the request that gave it (PlaybackURL, IsEntitledToEdition, OpenAsset).
THEOREM UrlSafe == Spec => []UrlEndsWithAccess
<1>1. IInv => UrlEndsWithAccess
  <2> SUFFICES ASSUME IInv, NEW p \in Players, Verify(token[p]), token[p].max = 0
               PROVE  now - seen["access"] <= TTL + 1
    BY DEF UrlEndsWithAccess
  <2>1. token[p] # NoRow /\ now <= token[p].expires /\ token[p] \in StreamToken
    BY DEF Verify, IInv, TypeOK
  <2>2. token[p].expires <= seen["access"] + TTL + 1
    BY <2>1 DEF IInv, RequestsOK, TokenOK
  <2>3. seen["access"] \in Int /\ now \in Int /\ token[p].expires \in Int
    BY <2>1 DEF IInv, TypeOK, ListeningTypeOK, Never, Grounds, StreamToken
  <2> QED
    BY <2>1, <2>2, <2>3
<1> QED
  BY <1>1, Inductive, PTL

\* A child's URL outlives each of the household's rules by no more than that
\* (CheckPlayback).
THEOREM ChildUrlSafe == Spec => []ChildUrlEndsWithTheRules
<1>1. IInv => ChildUrlEndsWithTheRules
  <2> SUFFICES ASSUME IInv, NEW p \in Children, NEW g \in Grounds \ {"access"}, Verify(token[p])
               PROVE  now - seen[g] <= TTL + 1
    BY DEF ChildUrlEndsWithTheRules
  <2>1. p \in Players /\ token[p] # NoRow /\ now <= token[p].expires
    BY DEF Verify
  <2>2. token[p] \in StreamToken
    BY <2>1 DEF IInv, TypeOK
  <2>3. token[p].expires <= seen[g] + TTL + 1
    BY <2>1 DEF IInv, RequestsOK, TokenOK
  <2>4. seen[g] \in Int /\ now \in Int /\ token[p].expires \in Int
    BY <2>2 DEF IInv, TypeOK, ListeningTypeOK, Never, StreamToken
  <2> QED
    BY <2>1, <2>3, <2>4
<1> QED
  BY <1>1, Inductive, PTL

\* Without a ground for the whole edition no byte past the preview is served
\* (clampRange, and the MaxSeconds of a token).
THEOREM PreviewSafe == Spec => []PreviewIsAPrefix
<1>1. IInv => PreviewIsAPrefix
  <2> SUFFICES ASSUME IInv, seen["access"] = Never, NEW p \in Players, NEW r \in Ranges,
                      Verify(token[p]), OpenAsset(token[p], r).ok
               PROVE  OpenAsset(token[p], r).last < PreviewByteLimit(edition.preview, Kbps)
    BY DEF PreviewIsAPrefix
  <2>1. token[p] # NoRow /\ now <= token[p].expires /\ token[p] \in StreamToken
    BY DEF Verify, IInv, TypeOK
  <2>2. token[p].expires \in Nat /\ token[p].max \in Nat /\ now \in Nat
    BY <2>1 DEF StreamToken, IInv, TypeOK, ListeningTypeOK
  <2>3. token[p].max \in {0, edition.preview} /\ (token[p].max = 0 => token[p].expires <= Never + TTL + 1)
    BY <2>1 DEF IInv, RequestsOK, TokenOK
  <2>4. token[p].max = edition.preview /\ edition.preview > 0
    BY <2>1, <2>2, <2>3 DEF Never
  <2> DEFINE limit == PreviewByteLimit(edition.preview, Kbps)
             e == ClampRange(r, limit)
  <2>5. limit \in Int
    BY <2>2, <2>4 DEF PreviewByteLimit
  <2>6. OpenAsset(token[p], r) = [e EXCEPT !.last = IF @ = -1 \/ @ > Whole THEN Whole ELSE @]
    BY <2>4 DEF OpenAsset
  <2>7. e \in [ok : BOOLEAN, first : Int, last : Int]
    BY <2>5 DEF ClampRange, Served, Refused, RangeHeader
  <2>8. e.ok
    BY <2>6, <2>7
  <2>9. 0 <= e.first /\ e.first <= e.last /\ e.last < limit
    BY <2>5, <2>8, ClampIsInside
  <2> HIDE DEF e, limit
  <2>10. OpenAsset(token[p], r).last = IF e.last > Whole THEN Whole ELSE e.last
    BY <2>6, <2>7, <2>9
  <2>11. Whole \in Int
    OBVIOUS
  <2>12. OpenAsset(token[p], r).last < limit
    BY <2>5, <2>7, <2>9, <2>10, <2>11
  <2> QED
    BY <2>12 DEF limit
<1> QED
  BY <1>1, Inductive, PTL

\* Playback leaves the listening of module Listening as it is: what holds of the
\* reports alone holds of the composition.
THEOREM ListeningComposed == Spec => ListeningSpec
<1>1. Init => ListeningInit
  BY DEF Init
<1>2. [Next]_vars => [ListeningNext]_listeningVars
  <2> SUFFICES ASSUME [Next]_vars PROVE [ListeningNext]_listeningVars
    OBVIOUS
  <2>1. CASE Around
    BY <2>1 DEF Around, Time, ListeningNext
  <2>2. CASE Household
    BY <2>2 DEF Household, CreateProfile, CreateControls, UpdateProfile, DeleteProfile,
       UpdateControls, SetApproval, Entitle, Edit
  <2>3. ASSUME NEW p \in Players, Request(p) PROVE UNCHANGED listeningVars
    BY <2>3 DEF Request, RequestPlayback, ReadProfile, ReadControls, ReadDecision, CheckPlayback,
       ReadEntitlement, ReadSubscription, Sign, GiveUp, Deny, Grant, AskCommerce, Step
  <2>4. CASE UNCHANGED vars
    BY <2>4 DEF vars
  <2> QED
    BY <2>1, <2>2, <2>3, <2>4 DEF Next
<1> QED
  BY <1>1, <1>2, PTL DEF Spec, ListeningSpec
=============================================================================
