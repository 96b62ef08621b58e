---------------------------- MODULE LoadClientProofs ----------------------------
(***************************************************************************)
(* Proofs about the load client: its books, and that the percentiles it    *)
(* reports are percentiles, for any number of requests, slots and tokens.  *)
(***************************************************************************)
EXTENDS LoadClient, FiniteSetTheorems, TLAPS

-------------------------------------------------------------------------------
(***************************************************************************)
(* Sorting.  How many come before a worker is its place; no two share one, *)
(* so the places of a finite set are 0 up to its size less one.            *)
(***************************************************************************)
Place(f, S, i) == Cardinality(Before(f, S, i))

LEMMA PlacesAscend ==
    ASSUME NEW S, S \subseteq Int, IsFiniteSet(S), NEW f, \A i \in S : f[i] \in Int,
           NEW i \in S, NEW j \in S,
           f[i] < f[j] \/ (f[i] = f[j] /\ i < j)
    PROVE  /\ Place(f, S, i) \in Nat /\ Place(f, S, j) \in Nat
           /\ Place(f, S, i) < Place(f, S, j)
<1>1. IsFiniteSet(Before(f, S, i)) /\ IsFiniteSet(Before(f, S, j))
  <2>1. Before(f, S, i) \in SUBSET S /\ Before(f, S, j) \in SUBSET S
    BY DEF Before
  <2> QED
    BY <2>1, FS_Subset
<1>2. Before(f, S, i) \cup {i} \subseteq Before(f, S, j)
  <2>1. /\ i \in Int /\ j \in Int /\ f[i] \in Int /\ f[j] \in Int
        /\ i \in Before(f, S, j)
    BY DEF Before
  <2>2. ASSUME NEW k \in Before(f, S, i) PROVE k \in Before(f, S, j)
    <3>1. k \in S /\ k \in Int /\ f[k] \in Int /\ (f[k] < f[i] \/ (f[k] = f[i] /\ k < i))
      BY <2>2 DEF Before
    <3> QED
      BY <2>1, <3>1 DEF Before
  <2> QED
    BY <2>1, <2>2
<1>3. i \notin Before(f, S, i)
  BY DEF Before
<1>4. /\ IsFiniteSet(Before(f, S, i) \cup {i})
      /\ Cardinality(Before(f, S, i) \cup {i}) = Cardinality(Before(f, S, i)) + 1
  BY <1>1, <1>3, FS_AddElement
<1>5. Cardinality(Before(f, S, i) \cup {i}) <= Cardinality(Before(f, S, j))
  BY <1>1, <1>2, FS_Subset
<1> QED
  BY <1>1, <1>4, <1>5, FS_CardinalityType DEF Place

LEMMA PlacesAreAll ==
    ASSUME NEW S, S \subseteq Int, IsFiniteSet(S), NEW f, \A i \in S : f[i] \in Int
    PROVE  /\ \A i \in S : Place(f, S, i) \in 0..(Cardinality(S) - 1)
           /\ \A i, j \in S : Place(f, S, i) = Place(f, S, j) => i = j
           /\ 0..(Cardinality(S) - 1) \subseteq {Place(f, S, i) : i \in S}
<1> DEFINE N == Cardinality(S)
           place == [i \in S |-> Place(f, S, i)]
           Taken == {place[i] : i \in S}
<1>1. N \in Nat
  BY FS_CardinalityType
<1>2. \A i \in S : Place(f, S, i) \in 0..(N - 1)
  <2> SUFFICES ASSUME NEW i \in S PROVE Place(f, S, i) \in 0..(N - 1)
    OBVIOUS
  <2>1. Before(f, S, i) \subseteq S \ {i}
    BY DEF Before
  <2>2. IsFiniteSet(S \ {i}) /\ Cardinality(S \ {i}) = N - 1
    BY FS_RemoveElement
  <2>3. IsFiniteSet(Before(f, S, i)) /\ Cardinality(Before(f, S, i)) <= N - 1
    BY <2>1, <2>2, FS_Subset
  <2> QED
    BY <1>1, <2>3, FS_CardinalityType DEF Place
<1>3. ASSUME NEW i \in S, NEW j \in S, i # j PROVE Place(f, S, i) # Place(f, S, j)
  <2>1. /\ i \in Int /\ j \in Int /\ f[i] \in Int /\ f[j] \in Int
        /\ Place(f, S, i) \in Nat /\ Place(f, S, j) \in Nat
    BY <1>1, <1>2
  <2>2. ASSUME f[i] < f[j] \/ (f[i] = f[j] /\ i < j) PROVE Place(f, S, i) < Place(f, S, j)
    BY <2>2, PlacesAscend
  <2>3. ASSUME f[j] < f[i] \/ (f[j] = f[i] /\ j < i) PROVE Place(f, S, j) < Place(f, S, i)
    BY <2>3, PlacesAscend
  <2> QED
    BY <1>3, <2>1, <2>2, <2>3
<1>4. place \in Injection(S, 0..(N - 1))
  <2>1. place \in [S -> 0..(N - 1)]
    BY <1>2
  <2> QED
    BY <1>3, <2>1 DEF Injection, IsInjective
<1>5. IsFiniteSet(0..(N - 1)) /\ Cardinality(0..(N - 1)) = N
  <2>1. N - 1 \in Int /\ 0 \in Int
    BY <1>1
  <2> QED
    BY <1>1, <2>1, FS_Interval
<1>6. place \in Surjection(S, 0..(N - 1))
  BY <1>4, <1>5, FS_Injection
<1> QED
  BY <1>2, <1>3, <1>6 DEF Surjection

\* What InOrder lists: all of S, each once, in ascending order of f.
LEMMA InOrderSorts ==
    ASSUME NEW S, S \subseteq Int, IsFiniteSet(S), NEW f, \A i \in S : f[i] \in Int
    PROVE  /\ InOrder(f, S) \in [1..Cardinality(S) -> S]
           /\ \A i \in S : /\ Place(f, S, i) \in 0..(Cardinality(S) - 1)
                          /\ InOrder(f, S)[Place(f, S, i) + 1] = i
           /\ \A k, m \in 1..Cardinality(S) :
                  k <= m => f[InOrder(f, S)[k]] <= f[InOrder(f, S)[m]]
<1> DEFINE N == Cardinality(S)
           list == InOrder(f, S)
<1>0. /\ \A i \in S : Place(f, S, i) \in 0..(N - 1)
      /\ \A i, j \in S : Place(f, S, i) = Place(f, S, j) => i = j
      /\ 0..(N - 1) \subseteq {Place(f, S, i) : i \in S}
  BY PlacesAreAll
<1>1. N \in Nat
  BY FS_CardinalityType
<1>2. ASSUME NEW k \in 1..N PROVE list[k] \in S /\ Place(f, S, list[k]) = k - 1
  <2>1. k - 1 \in 0..(N - 1)
    BY <1>1
  <2>2. \E i \in S : Place(f, S, i) = k - 1
    BY <1>0, <2>1
  <2>3. list[k] = CHOOSE i \in S : Place(f, S, i) = k - 1
    BY DEF InOrder, Place
  <2> QED
    BY <2>2, <2>3
<1>3. list \in [1..N -> S]
  BY <1>2 DEF InOrder
<1>4. ASSUME NEW i \in S PROVE Place(f, S, i) \in 0..(N - 1) /\ list[Place(f, S, i) + 1] = i
  <2>1. Place(f, S, i) \in 0..(N - 1)
    BY <1>0
  <2>2. Place(f, S, i) + 1 \in 1..N /\ (Place(f, S, i) + 1) - 1 = Place(f, S, i)
    BY <1>1, <2>1
  <2>3. /\ list[Place(f, S, i) + 1] \in S
        /\ Place(f, S, list[Place(f, S, i) + 1]) = Place(f, S, i)
    BY <1>2, <2>2
  <2> QED
    BY <1>0, <2>2, <2>3
<1>5. ASSUME NEW k \in 1..N, NEW m \in 1..N, k <= m PROVE f[list[k]] <= f[list[m]]
  <2>1. /\ list[k] \in S /\ list[m] \in S /\ list[k] \in Int /\ list[m] \in Int
        /\ f[list[k]] \in Int /\ f[list[m]] \in Int
        /\ Place(f, S, list[k]) = k - 1 /\ Place(f, S, list[m]) = m - 1
    BY <1>2
  <2>2. ASSUME f[list[m]] < f[list[k]] PROVE Place(f, S, list[m]) < Place(f, S, list[k])
    BY <2>1, <2>2, PlacesAscend
  <2> QED
    BY <1>1, <1>5, <2>1, <2>2
<1> QED
  BY <1>2, <1>3, <1>4, <1>5

-------------------------------------------------------------------------------
(***************************************************************************)
(* Percentiles.  Pct lies between two neighbours of the sorted list, so    *)
(* whatever is smaller has a place up to the first, and whatever is larger *)
(* one after it.                                                           *)
(***************************************************************************)
IsAscending(list, last) ==
    /\ last \in Nat /\ list \in [1..(last + 1) -> Int]
    /\ \A k, m \in 1..(last + 1) : k <= m => list[k] <= list[m]

LEMMA Between ==
    ASSUME NEW low \in Int, NEW high \in Int, low <= high, NEW part \in 0..99
    PROVE  /\ 100 * low + (high - low) * part \in Int
           /\ 100 * low <= 100 * low + (high - low) * part
           /\ 100 * low + (high - low) * part <= 100 * high
<1>1. PICK gap \in Nat : gap = high - low
  OBVIOUS
<1>2. gap * part \in Nat /\ gap * part <= gap * 100
  OBVIOUS
<1> QED
  BY <1>1, <1>2

\* x is the lo-th of the list or between it and the next, and lo is the place
\* that pct percent of the way to the last comes to.
LiesAt(x, list, last, pct, lo) ==
    /\ x \in Int
    /\ 100 * lo <= last * pct /\ last * pct < 100 * lo + 100
    /\ 100 * list[lo + 1] <= x
    /\ x = 100 * list[lo + 1] \/ (lo + 1 <= last /\ x <= 100 * list[lo + 2])

LEMMA PctBetween ==
    ASSUME NEW last \in Nat, NEW list, IsAscending(list, last), Len(list) = last + 1,
           NEW pct \in {50, 95}
    PROVE  \E lo \in 0..last : LiesAt(Pct(list, pct), list, last, pct, lo)
<1> DEFINE lo == (last * pct) \div 100
           part == (last * pct) % 100
           hi == IF lo + 1 < last THEN lo + 1 ELSE last
<1>1. /\ lo \in 0..last /\ part \in 0..99
      /\ last * pct = 100 * lo + part
  OBVIOUS
<1>2. part = 0 \/ lo + 1 <= last
  BY <1>1
<1>3. hi \in 0..last /\ lo <= hi
  BY <1>1
<1>4. list[lo + 1] \in Int /\ list[hi + 1] \in Int /\ list[lo + 1] <= list[hi + 1]
  BY <1>1, <1>3 DEF IsAscending
<1>5. Pct(list, pct) = 100 * list[lo + 1] + (list[hi + 1] - list[lo + 1]) * part
  BY DEF Pct
<1>6. /\ Pct(list, pct) \in Int
      /\ 100 * list[lo + 1] <= Pct(list, pct) /\ Pct(list, pct) <= 100 * list[hi + 1]
  <2>1. PICK low \in Int, high \in Int, rest \in 0..99 :
            low = list[lo + 1] /\ high = list[hi + 1] /\ rest = part
    <3>1. list[lo + 1] \in Int /\ list[hi + 1] \in Int /\ part \in 0..99
      BY <1>1, <1>4
    <3> HIDE DEF lo, part, hi
    <3> QED
      BY <3>1
  <2>2. low <= high
    BY <1>4, <2>1
  <2>3. /\ 100 * low + (high - low) * rest \in Int
        /\ 100 * low <= 100 * low + (high - low) * rest
        /\ 100 * low + (high - low) * rest <= 100 * high
    BY <2>2, Between
  <2> HIDE DEF lo, part, hi
  <2>4. Pct(list, pct) = 100 * low + (high - low) * rest
    BY <1>5, <2>1
  <2> QED
    BY <2>1, <2>3, <2>4
<1>7. ASSUME part = 0 \/ lo + 1 > last PROVE Pct(list, pct) = 100 * list[lo + 1]
  BY <1>1, <1>2, <1>4, <1>5, <1>7
<1>8. ASSUME lo + 1 <= last PROVE hi + 1 = lo + 2
  BY <1>1, <1>8
<1> HIDE DEF lo, part, hi
<1>9. LiesAt(Pct(list, pct), list, last, pct, lo)
  BY <1>1, <1>2, <1>6, <1>7, <1>8 DEF LiesAt
<1> QED
  BY <1>1, <1>9

LEMMA ListLength ==
    ASSUME NEW n \in Nat, NEW list, list \in [1..n -> Int]
    PROVE  Len(list) = n
  OBVIOUS

\* So the list has each success at its place, smaller values first.
LEMMA ValuesAscend ==
    ASSUME IsFiniteSet(Succeeded), Succeeded \subseteq Int, Succeeded # {},
           NEW f, \A i \in Succeeded : f[i] \in Int
    PROVE  \E last \in Nat :
               /\ IsAscending(ValuesOf(f), last) /\ Len(ValuesOf(f)) = last + 1
               /\ last = Cardinality(Succeeded) - 1
               /\ \A i \in Succeeded : /\ Place(f, Succeeded, i) \in 0..last
                                      /\ ValuesOf(f)[Place(f, Succeeded, i) + 1] = f[i]
<1> DEFINE S == Succeeded
           last == Cardinality(S) - 1
           list == InOrder(f, S)
           values == ValuesOf(f)
<1>1. last \in Nat
  BY FS_CardinalityType, FS_EmptySet
<1>2. Cardinality(S) = last + 1
  BY FS_CardinalityType
<1>3. /\ list \in [1..Cardinality(S) -> S]
      /\ \A i \in S : /\ Place(f, S, i) \in 0..(Cardinality(S) - 1)
                     /\ list[Place(f, S, i) + 1] = i
      /\ \A k, m \in 1..Cardinality(S) : k <= m => f[list[k]] <= f[list[m]]
  BY InOrderSorts
<1>4. values = [k \in 1..Cardinality(S) |-> f[list[k]]]
  BY DEF ValuesOf
<1> HIDE DEF list, values, last, S
<1>5. list \in [1..(last + 1) -> S] /\ values = [k \in 1..(last + 1) |-> f[list[k]]]
  BY <1>2, <1>3, <1>4
<1>6. \A i \in S : Place(f, S, i) \in 0..last /\ list[Place(f, S, i) + 1] = i
  BY <1>1, <1>2, <1>3
<1>7. \A k, m \in 1..(last + 1) : k <= m => f[list[k]] <= f[list[m]]
  BY <1>2, <1>3
<1>8. \A i \in S : f[i] \in Int
  BY DEF S
<1>9. values \in [1..(last + 1) -> Int]
  BY <1>5, <1>8
<1>10. IsAscending(values, last) /\ Len(values) = last + 1
  <2>1. Len(values) = last + 1
    BY <1>1, <1>9, ListLength
  <2> QED
    BY <1>1, <1>5, <1>7, <1>9, <2>1 DEF IsAscending
<1>11. \A i \in S : Place(f, S, i) \in 0..last /\ values[Place(f, S, i) + 1] = f[i]
  BY <1>1, <1>5, <1>6
<1> QED
  BY <1>1, <1>10, <1>11 DEF last, S, values

\* The successes below, and those above, have their places on their side.
LEMMA PctIsRank ==
    ASSUME IsFiniteSet(Succeeded), Succeeded \subseteq Int, Succeeded # {},
           NEW f, \A i \in Succeeded : f[i] \in Int, NEW pct \in {50, 95}
    PROVE  IsPercentile(Pct(ValuesOf(f), pct), f, pct)
<1> DEFINE S == Succeeded
           values == ValuesOf(f)
           x == Pct(values, pct)
           below == {i \in S : 100 * f[i] < x}
           above == {i \in S : 100 * f[i] > x}
           place == [i \in S |-> Place(f, S, i)]
<1>1. PICK last \in Nat :
          /\ IsAscending(values, last) /\ Len(values) = last + 1
          /\ last = Cardinality(S) - 1
          /\ \A i \in S : Place(f, S, i) \in 0..last /\ values[Place(f, S, i) + 1] = f[i]
  BY ValuesAscend
<1>2. \A i \in S : f[i] \in Int
  OBVIOUS
<1>3. \A i, j \in S : place[i] = place[j] => i = j
  <2>1. \A i, j \in S : Place(f, S, i) = Place(f, S, j) => i = j
    BY PlacesAreAll
  <2> QED
    BY <2>1
<1> HIDE DEF S, values
<1>4. PICK lo \in 0..last : LiesAt(x, values, last, pct, lo)
  BY <1>1, PctBetween
<1> HIDE DEF x
<1>5. /\ lo \in 0..last /\ x \in Int
      /\ 100 * lo <= last * pct /\ last * pct < 100 * lo + 100
      /\ 100 * values[lo + 1] <= x
      /\ x = 100 * values[lo + 1] \/ (lo + 1 <= last /\ x <= 100 * values[lo + 2])
  BY <1>4 DEF LiesAt
<1>6. ASSUME NEW i \in S
      PROVE  /\ f[i] \in Int /\ place[i] \in 0..last
             /\ f[i] = values[place[i] + 1]
  BY <1>1, <1>2, <1>6
<1>7. ASSUME NEW k \in 1..(last + 1), NEW m \in 1..(last + 1), k <= m
      PROVE  values[k] \in Int /\ values[m] \in Int /\ values[k] <= values[m]
  BY <1>1, <1>7 DEF IsAscending
<1>8. ASSUME NEW i \in below PROVE place[i] \in 0..lo
  <2>1. /\ i \in S /\ 100 * f[i] < x /\ f[i] \in Int /\ place[i] \in 0..last
        /\ f[i] = values[place[i] + 1]
    BY <1>6, <1>8
  <2>2. ASSUME place[i] > lo PROVE FALSE
    <3>1. /\ lo + 1 <= last /\ lo + 2 \in 1..(last + 1) /\ lo + 1 \in 1..(last + 1)
          /\ place[i] + 1 \in 1..(last + 1) /\ lo + 2 <= place[i] + 1
      BY <1>5, <2>1, <2>2
    <3>2. values[lo + 2] \in Int /\ values[lo + 2] <= f[i]
      BY <1>7, <2>1, <3>1
    <3>3. values[lo + 1] \in Int /\ values[lo + 1] <= values[lo + 2]
      BY <1>5, <1>7, <3>1
    <3> QED
      BY <1>5, <2>1, <3>2, <3>3
  <2> QED
    BY <1>5, <2>1, <2>2
<1>9. ASSUME NEW i \in above PROVE place[i] \in (lo + 1)..last
  <2>1. /\ i \in S /\ 100 * f[i] > x /\ f[i] \in Int /\ place[i] \in 0..last
        /\ f[i] = values[place[i] + 1]
    BY <1>6, <1>9
  <2>2. ASSUME place[i] <= lo PROVE FALSE
    <3>1. lo + 1 \in 1..(last + 1) /\ place[i] + 1 \in 1..(last + 1) /\ place[i] + 1 <= lo + 1
      BY <1>5, <2>1, <2>2
    <3>2. values[lo + 1] \in Int /\ f[i] <= values[lo + 1]
      BY <1>7, <2>1, <3>1
    <3> QED
      BY <1>5, <2>1, <3>2
  <2> QED
    BY <1>5, <2>1, <2>2
<1>10. Cardinality(below) \in Nat /\ Cardinality(below) <= lo + 1
  <2>1. IsFiniteSet(0..lo) /\ Cardinality(0..lo) = lo + 1
    <3>1. lo \in Nat
      BY <1>5
    <3>2. IsFiniteSet(0..lo) /\ Cardinality(0..lo) = IF 0 > lo THEN 0 ELSE lo - 0 + 1
      BY <3>1, FS_Interval
    <3> QED
      BY <3>1, <3>2
  <2>2. [i \in below |-> place[i]] \in Injection(below, 0..lo)
    BY <1>8, <1>3 DEF Injection, IsInjective
  <2>3. IsFiniteSet(below) /\ Cardinality(below) <= Cardinality(0..lo)
    BY <2>1, <2>2, FS_Injection
  <2> QED
    BY <2>1, <2>3, FS_CardinalityType
<1>11. Cardinality(above) \in Nat /\ Cardinality(above) <= last - lo
  <2>1. IsFiniteSet((lo + 1)..last) /\ Cardinality((lo + 1)..last) = last - lo
    <3>1. lo + 1 \in Int /\ last \in Int
      BY <1>5
    <3>2. /\ IsFiniteSet((lo + 1)..last)
          /\ Cardinality((lo + 1)..last) = IF lo + 1 > last THEN 0 ELSE last - (lo + 1) + 1
      BY <3>1, FS_Interval
    <3> QED
      BY <1>5, <3>2
  <2>2. [i \in above |-> place[i]] \in Injection(above, (lo + 1)..last)
    BY <1>9, <1>3 DEF Injection, IsInjective
  <2>3. IsFiniteSet(above) /\ Cardinality(above) <= Cardinality((lo + 1)..last)
    BY <2>1, <2>2, FS_Injection
  <2> QED
    BY <2>1, <2>3, FS_CardinalityType
<1>12. 100 * Cardinality(below) <= last * pct + 100
  BY <1>5, <1>10
<1>13. 100 * Cardinality(above) < last * (100 - pct) + 100
  BY <1>5, <1>11
<1> QED
  BY <1>1, <1>12, <1>13 DEF IsPercentile, x, values, S

\* The 95th percentile is beyond the neighbours that hold the 50th, or shares
\* them and is further on the way from one to the other.
LEMMA PctGrows ==
    ASSUME NEW last \in Nat, NEW list, IsAscending(list, last), Len(list) = last + 1
    PROVE  Pct(list, 50) <= Pct(list, 95)
<1>1. PICK lo \in 0..last : LiesAt(Pct(list, 50), list, last, 50, lo)
  BY PctBetween
<1>2. PICK up \in 0..last : LiesAt(Pct(list, 95), list, last, 95, up)
  BY PctBetween
<1>3. lo <= up
  BY <1>1, <1>2 DEF LiesAt
<1>4. /\ lo + 1 \in 1..(last + 1) /\ up + 1 \in 1..(last + 1)
      /\ list[lo + 1] \in Int /\ list[up + 1] \in Int
      /\ list[lo + 1] <= list[up + 1]
  BY <1>3 DEF IsAscending
<1>5. CASE lo < up
  <2>1. /\ lo + 2 \in 1..(last + 1) /\ lo + 2 <= up + 1 /\ list[lo + 2] \in Int
        /\ list[lo + 2] <= list[up + 1]
    BY <1>5 DEF IsAscending
  <2> QED
    BY <1>1, <1>2, <1>4, <2>1 DEF LiesAt
<1>6. CASE lo = up
  <2> DEFINE hi == IF lo + 1 < last THEN lo + 1 ELSE last
             gap == list[hi + 1] - list[lo + 1]
  <2>1. /\ (last * 50) \div 100 = lo /\ (last * 50) % 100 = last * 50 - 100 * lo
        /\ (last * 95) \div 100 = lo /\ (last * 95) % 100 = last * 95 - 100 * lo
    BY <1>1, <1>2, <1>6 DEF LiesAt
  <2>2. /\ Pct(list, 50) = 100 * list[lo + 1] + gap * (last * 50 - 100 * lo)
        /\ Pct(list, 95) = 100 * list[lo + 1] + gap * (last * 95 - 100 * lo)
    BY <2>1 DEF Pct
  <2>3. hi + 1 \in 1..(last + 1) /\ lo <= hi
    OBVIOUS
  <2>4. gap \in Nat
    BY <1>4, <2>3 DEF IsAscending
  <2>5. PICK low \in Int, wide \in Nat, near \in Int, far \in Int :
            /\ low = list[lo + 1] /\ wide = gap /\ near <= far
            /\ near = last * 50 - 100 * lo /\ far = last * 95 - 100 * lo
    <3>1. /\ last * 50 - 100 * lo \in Int /\ last * 95 - 100 * lo \in Int
          /\ last * 50 - 100 * lo <= last * 95 - 100 * lo
      OBVIOUS
    <3> HIDE DEF gap
    <3> QED
      BY <1>4, <2>4, <3>1
  <2> HIDE DEF gap
  <2>6. wide * near <= wide * far /\ wide * near \in Int /\ wide * far \in Int
    BY <2>5
  <2>7. Pct(list, 50) = 100 * low + wide * near /\ Pct(list, 95) = 100 * low + wide * far
    BY <2>2, <2>5
  <2> QED
    BY <2>6, <2>7
<1> QED
  BY <1>3, <1>5, <1>6

-------------------------------------------------------------------------------
(***************************************************************************)
(* The inductive invariant.  The semaphore is fair and the workers ask for *)
(* it at once, so that those waiting are the last in their own order, and  *)
(* each of the others runs or has reported.                                *)
(***************************************************************************)
Reported == {results[n] : n \in DOMAIN results}

Timed(f) == f \in [Workers -> Nat] /\ \A i \in Workers : f[i] <= clock

FieldInv ==
    /\ clock \in 0..MaxTime
    /\ Timed(began) /\ Timed(ttft) /\ Timed(total)
    /\ tokens \in [Workers -> 0..2 * MaxTokens] /\ ok \in [Workers -> BOOLEAN]

PlaceInv ==
    /\ queue \in Seq(Workers) /\ results \in Seq(Workers)
    /\ Len(queue) <= Requests
    /\ \A n \in 1..Len(queue) : queue[n] = Requests - Len(queue) + n
    /\ running \cup Reported = 1..(Requests - Len(queue))

BooksInv ==
    /\ IsFiniteSet(running)
    /\ free \in Nat /\ free + Cardinality(running) = Concurrency
    /\ Len(queue) + Len(results) + Cardinality(running) = Requests

LoadInv == FieldInv /\ PlaceInv /\ BooksInv

LEMMA Counts == Requests \in Nat /\ Concurrency \in Nat /\ MaxTokens \in Nat /\ MaxTime \in Nat
  BY LoadAssumption

LEMMA InitLoad == Init => LoadInv
<1> SUFFICES ASSUME Init PROVE LoadInv
  OBVIOUS
<1>1. FieldInv
  BY Counts DEF Init, FieldInv, Timed
<1>2. queue \in [1..Requests -> Workers] /\ queue \in Seq(Workers) /\ Len(queue) = Requests
  BY Counts DEF Init, Workers
<1>3. results = <<>> /\ Reported = {} /\ Len(results) = 0 /\ results \in Seq(Workers)
  BY DEF Init, Reported
<1>4. PlaceInv
  BY <1>2, <1>3, Counts DEF Init, PlaceInv, Workers
<1>5. BooksInv
  BY <1>2, <1>3, Counts, FS_EmptySet DEF Init, BooksInv
<1> QED
  BY <1>1, <1>4, <1>5 DEF LoadInv

LEMMA BeginStep ==
    ASSUME LoadInv, NEW i \in Workers, Begin(i)
    PROVE  LoadInv'
<1>1. Requests \in Nat /\ clock \in Nat /\ Len(queue) \in Nat \ {0} /\ i = Requests - Len(queue) + 1
  <2>1. queue \in Seq(Workers) /\ queue # <<>> /\ Head(queue) = i
    BY DEF LoadInv, PlaceInv, Begin
  <2>2. Len(queue) \in Nat \ {0} /\ queue[1] = i
    BY <2>1
  <2>3. queue[1] = Requests - Len(queue) + 1
    BY <2>2 DEF LoadInv, PlaceInv
  <2> QED
    BY <2>2, <2>3, Counts DEF LoadInv, FieldInv
<1>2. FieldInv'
  <2>1. began' = [began EXCEPT ![i] = clock] /\ UNCHANGED <<clock, ttft, total, tokens, ok>>
    BY DEF Begin, frameVars
  <2>2. Timed(began)'
    BY <1>1, <2>1 DEF LoadInv, FieldInv, Timed
  <2> QED
    BY <2>1, <2>2 DEF LoadInv, FieldInv, Timed
<1>3. /\ queue' \in Seq(Workers) /\ Len(queue') = Len(queue) - 1
      /\ \A n \in 1..Len(queue') : queue'[n] = queue[n + 1]
  BY <1>1 DEF LoadInv, PlaceInv, Begin
<1>4. running' \cup Reported' = 1..(Requests - Len(queue'))
  <2>1. running' \cup Reported' = (running \cup Reported) \cup {i}
    BY DEF Begin, Reported
  <2>2. running \cup Reported = 1..(i - 1) /\ Requests - Len(queue') = i
    BY <1>1, <1>3 DEF LoadInv, PlaceInv
  <2> QED
    BY <1>1, <2>1, <2>2 DEF Workers
<1>5. PlaceInv'
  BY <1>1, <1>3, <1>4 DEF LoadInv, PlaceInv, Begin
<1>6. i \notin running
  BY <1>1 DEF LoadInv, PlaceInv
<1>7. IsFiniteSet(running') /\ Cardinality(running') = Cardinality(running) + 1
  BY <1>6, FS_AddElement DEF LoadInv, BooksInv, Begin
<1>8. BooksInv'
  <2>1. Cardinality(running) \in Nat /\ Len(results) \in Nat
    BY FS_CardinalityType DEF LoadInv, BooksInv, PlaceInv
  <2>2. free' = free - 1 /\ free' \in Nat
    BY DEF LoadInv, BooksInv, Begin
  <2>3. Len(results') = Len(results)
    BY DEF Begin
  <2>4. /\ free + Cardinality(running) = Concurrency
        /\ Len(queue) + Len(results) + Cardinality(running) = Requests
    BY DEF LoadInv, BooksInv
  <2>5. /\ free' + Cardinality(running') = Concurrency
        /\ Len(queue') + Len(results') + Cardinality(running') = Requests
    <3>1. free \in Nat
      BY DEF LoadInv, BooksInv
    <3>2. Len(queue) \in Nat /\ Len(queue') = Len(queue) - 1
      BY <1>1, <1>3
    <3>3. Cardinality(running') = Cardinality(running) + 1
      BY <1>7
    <3>4. free' + Cardinality(running') = Concurrency
      BY <2>1, <2>2, <2>4, <3>1, <3>3
    <3>5. Len(queue') + Len(results') + Cardinality(running') = Requests
      BY <2>1, <2>3, <2>4, <3>2, <3>3
    <3> QED
      BY <3>4, <3>5
  <2> QED
    BY <1>7, <2>2, <2>5 DEF BooksInv
<1> QED
  BY <1>2, <1>5, <1>8 DEF LoadInv

LEMMA ReportStep ==
    ASSUME LoadInv, NEW i \in running, NEW success \in BOOLEAN, Report(i, success)
    PROVE  LoadInv'
<1>0. i \in Workers
  <2>1. i \in 1..(Requests - Len(queue)) /\ Len(queue) \in Nat
    BY DEF LoadInv, PlaceInv
  <2> QED
    BY <2>1, Counts DEF Workers
<1>1. clock \in Nat /\ began[i] \in Nat /\ began[i] <= clock
  BY <1>0, Counts DEF LoadInv, FieldInv, Timed
<1>2. FieldInv'
  <2>1. Timed(total)'
    BY <1>0, <1>1 DEF LoadInv, FieldInv, Timed, Report
  <2> QED
    BY <2>1 DEF LoadInv, FieldInv, Timed, Report, frameVars
<1>3. /\ results' \in Seq(Workers) /\ Len(results') = Len(results) + 1
      /\ Reported' = Reported \cup {i}
  <2>1. results \in Seq(Workers) /\ results' = Append(results, i)
    BY DEF LoadInv, PlaceInv, Report
  <2>2. /\ results' \in Seq(Workers) /\ Len(results') = Len(results) + 1
        /\ DOMAIN results = 1..Len(results) /\ DOMAIN results' = 1..(Len(results) + 1)
        /\ \A n \in 1..Len(results) : results'[n] = results[n]
        /\ results'[Len(results) + 1] = i
    BY <1>0, <2>1
  <2>3. Len(results) \in Nat
    BY <2>1
  <2>4. Reported' = Reported \cup {i}
    BY <2>2, <2>3 DEF Reported
  <2> QED
    BY <2>2, <2>4
<1>4. PlaceInv'
  BY <1>3 DEF LoadInv, PlaceInv, Report
<1>5. IsFiniteSet(running') /\ Cardinality(running') = Cardinality(running) - 1
  BY FS_RemoveElement DEF LoadInv, BooksInv, Report
<1>6. BooksInv'
  <2>1. Cardinality(running) \in Nat /\ Len(results) \in Nat /\ Len(queue) \in Nat
    BY FS_CardinalityType DEF LoadInv, BooksInv, PlaceInv
  <2> QED
    BY <1>3, <1>5, <2>1, Counts DEF LoadInv, BooksInv, Report
<1> QED
  BY <1>2, <1>4, <1>6 DEF LoadInv

LEMMA LoadStep == LoadInv /\ [Next]_vars => LoadInv'
<1> SUFFICES ASSUME LoadInv, [Next]_vars PROVE LoadInv'
  OBVIOUS
<1>1. ASSUME NEW i \in Workers, TokenFrame(i) PROVE LoadInv'
  <2>1. clock \in Nat /\ began[i] \in Nat /\ began[i] <= clock /\ tokens[i] \in Nat
    BY Counts DEF LoadInv, FieldInv, Timed
  <2>2. Timed(ttft)'
    BY <1>1, <2>1 DEF LoadInv, FieldInv, Timed, TokenFrame
  <2>3. tokens' \in [Workers -> 0..2 * MaxTokens]
    BY <1>1, <2>1, Counts DEF LoadInv, FieldInv, TokenFrame
  <2> QED
    BY <1>1, <2>2, <2>3
       DEF LoadInv, FieldInv, Timed, PlaceInv, Reported, BooksInv, TokenFrame
<1>2. ASSUME NEW i \in Workers, FinalFrame(i) PROVE LoadInv'
  BY <1>2 DEF LoadInv, FieldInv, Timed, PlaceInv, Reported, BooksInv, FinalFrame
<1>3. ASSUME Tick PROVE LoadInv'
  <2>1. /\ clock' \in 0..MaxTime /\ clock \in Nat /\ clock' = clock + 1
        /\ UNCHANGED <<queue, free, running, began, ttft, tokens, total, ok, results>>
    BY <1>3, Counts DEF LoadInv, FieldInv, Tick, frameVars
  <2>2. Timed(began)' /\ Timed(ttft)' /\ Timed(total)'
    BY <2>1 DEF LoadInv, FieldInv, Timed
  <2> QED
    BY <2>1, <2>2 DEF LoadInv, FieldInv, PlaceInv, Reported, BooksInv
<1>4. CASE UNCHANGED vars
  BY <1>4 DEF LoadInv, FieldInv, Timed, PlaceInv, Reported, BooksInv, vars, frameVars
<1>5. ASSUME NEW i \in Workers, Done(i) \/ Fail(i) PROVE LoadInv'
  BY <1>5, ReportStep DEF Done, Fail
<1> QED
  BY <1>1, <1>2, <1>3, <1>4, <1>5, BeginStep DEF Next

LEMMA LoadInvariance == Spec => []LoadInv
  BY InitLoad, LoadStep, PTL DEF Spec

-------------------------------------------------------------------------------
(***************************************************************************)
(* The client's books: each worker waits, runs or has reported, no slot of *)
(* the semaphore is lost or used twice, and no time is before its request  *)
(* began (load_client.py:69-135).                                          *)
(***************************************************************************)
THEOREM LoadTypeCorrect == Spec => []TypeOK
<1>1. LoadInv => TypeOK
  <2> SUFFICES ASSUME LoadInv PROVE TypeOK
    OBVIOUS
  <2>1. Cardinality(running) \in Nat /\ Len(results) \in Nat /\ Len(queue) \in Nat
    BY FS_CardinalityType DEF LoadInv, BooksInv, PlaceInv
  <2>2. {queue[n] : n \in DOMAIN queue} = (Requests - Len(queue) + 1)..Requests
    <3>1. DOMAIN queue = 1..Len(queue) /\ Len(queue) <= Requests
          /\ \A n \in 1..Len(queue) : queue[n] = Requests - Len(queue) + n
      BY DEF LoadInv, PlaceInv
    <3>2. ASSUME NEW i \in (Requests - Len(queue) + 1)..Requests
          PROVE  i \in {queue[n] : n \in DOMAIN queue}
      <4>1. i - (Requests - Len(queue)) \in 1..Len(queue)
        BY <2>1, Counts
      <4>2. queue[i - (Requests - Len(queue))] = i
        BY <2>1, <3>1, <4>1, Counts
      <4> QED
        BY <3>1, <4>1, <4>2
    <3>3. ASSUME NEW n \in DOMAIN queue
          PROVE  queue[n] \in (Requests - Len(queue) + 1)..Requests
      BY <2>1, <3>1, Counts
    <3> QED
      BY <3>2, <3>3
  <2>3. running \cup Reported = 1..(Requests - Len(queue)) /\ Len(queue) <= Requests
    BY DEF LoadInv, PlaceInv
  <2>4. /\ running \subseteq Workers
        /\ {queue[n] : n \in DOMAIN queue} \cup {results[n] : n \in DOMAIN results} \cup running
                = Workers
    <3>1. {queue[n] : n \in DOMAIN queue} \cup (running \cup Reported) = Workers
      BY <2>1, <2>2, <2>3, Counts DEF Workers
    <3> QED
      BY <3>1 DEF Reported
  <2>5. \A i \in Workers : ttft[i] \in 0..clock /\ total[i] \in 0..clock
    BY Counts DEF LoadInv, FieldInv, Timed
  <2>6. free \in 0..Concurrency /\ free + Cardinality(running) = Concurrency
    BY <2>1, Counts DEF LoadInv, BooksInv
  <2> QED
    BY <2>4, <2>5, <2>6 DEF LoadInv, FieldInv, BooksInv, TypeOK
<1> QED
  BY LoadInvariance, <1>1, PTL

(***************************************************************************)
(* In whatever order the requests end and whatever they took, the figures  *)
(* reported as p50 and p95 are percentiles of the successful ones, and in  *)
(* order (load_client.py:38-66).                                           *)
(***************************************************************************)
THEOREM PercentilesAreTrue == Spec => []PercentilesAreRanks
<1>1. LoadInv => PercentilesAreRanks
  <2> SUFFICES ASSUME LoadInv, Succeeded # {}, NEW f \in {total, ttft}
               PROVE  /\ \A pct \in {50, 95} : IsPercentile(Pct(ValuesOf(f), pct), f, pct)
                      /\ Pct(ValuesOf(f), 50) <= Pct(ValuesOf(f), 95)
    BY DEF PercentilesAreRanks
  <2>1. Succeeded \subseteq Workers /\ Workers \subseteq Int
    <3>1. results \in Seq(Workers)
      BY DEF LoadInv, PlaceInv
    <3> QED
      BY <3>1, Counts DEF Succeeded, Workers
  <2>2. IsFiniteSet(Succeeded)
    <3>1. IsFiniteSet(Workers)
      BY Counts, FS_Interval DEF Workers
    <3> QED
      BY <2>1, <3>1, FS_Subset
  <2>3. \A i \in Succeeded : f[i] \in Int
    BY <2>1 DEF LoadInv, FieldInv, Timed
  <2>4. \A pct \in {50, 95} : IsPercentile(Pct(ValuesOf(f), pct), f, pct)
    BY <2>1, <2>2, <2>3, PctIsRank
  <2>5. PICK last \in Nat : IsAscending(ValuesOf(f), last) /\ Len(ValuesOf(f)) = last + 1
    BY <2>1, <2>2, <2>3, ValuesAscend
  <2> QED
    BY <2>4, <2>5, PctGrows
<1> QED
  BY LoadInvariance, <1>1, PTL
=================================================================================
