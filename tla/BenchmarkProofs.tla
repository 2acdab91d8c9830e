--------------------------- MODULE BenchmarkProofs ---------------------------
(***************************************************************************)
(* Proofs about Benchmark, for any workers, limit and bounds.               *)
(***************************************************************************)
EXTENDS Benchmark, MCPercentiles, FiniteSetTheorems, TLAPS

\* The index percentile_value looks up is one of the values, and a higher percentage
\* never looks up an earlier one: p50 <= p95 <= p99 needs only that the values are sorted.
THEOREM PercentileIndexes ==
    ASSUME NEW count \in Nat \ {0}
    PROVE  /\ \A percent \in {50, 95, 99} : PercentileIndex(count, percent) \in 0 .. count - 1
           /\ PercentileIndex(count, 50) <= PercentileIndex(count, 95)
           /\ PercentileIndex(count, 95) <= PercentileIndex(count, 99)
  BY DEF PercentileIndex

-----------------------------------------------------------------------------
\* A set of naturals that is not empty has a least element.
LEMMA LeastElement ==
    ASSUME NEW S \in SUBSET Nat, S # {}
    PROVE  \E least \in S : \A n \in S : least <= n
<1>1. PICK least \in S : \A n \in S : ~(<<n, least>> \in OpToRel(<, Nat))
  BY NatLessThanWellFounded, WFMin
<1>2. \A n \in S : ~(n < least)
  BY <1>1 DEF OpToRel
<1> QED
  BY <1>2

\* A walk along a list, from a start and by a step for each value, exists.
Walks(X, Y, first, step, values, n) ==
    {walk \in [0 .. n -> X] :
       /\ walk[0] = first
       /\ \A k \in 1 .. n : walk[k] = step[<<walk[k - 1], values[k]>>]}

LEMMA WalkExists ==
    ASSUME NEW X, NEW Y, NEW first \in X, NEW step \in [X \X Y -> X], NEW values \in Seq(Y)
    PROVE  Walks(X, Y, first, step, values, Len(values)) # {}
<1> DEFINE Stuck == {n \in 0 .. Len(values) : Walks(X, Y, first, step, values, n) = {}}
<1> SUFFICES ASSUME Stuck # {} PROVE FALSE
  BY DEF Walks
<1>1. PICK n \in Stuck : \A k \in Stuck : n <= k
  <2>1. Stuck \in SUBSET Nat
    OBVIOUS
  <2> HIDE DEF Stuck
  <2> QED
    BY <2>1, LeastElement
<1>2. CASE n = 0
  <2>1. [k \in 0 .. 0 |-> first] \in Walks(X, Y, first, step, values, 0)
    BY DEF Walks
  <2> QED
    BY <1>1, <1>2, <2>1
<1>3. CASE n # 0
  <2>1. n - 1 \in 0 .. Len(values) /\ n \in 1 .. Len(values) /\ n - 1 \notin Stuck
    BY <1>1, <1>3
  <2>2. PICK walk \in Walks(X, Y, first, step, values, n - 1) : TRUE
    BY <2>1
  <2> DEFINE longer == [k \in 0 .. n |-> IF k < n THEN walk[k] ELSE step[<<walk[n - 1], values[n]>>]]
  <2>3. walk \in [0 .. n - 1 -> X] /\ walk[0] = first
        /\ \A k \in 1 .. n - 1 : walk[k] = step[<<walk[k - 1], values[k]>>]
    BY <2>2 DEF Walks
  <2>4. walk[n - 1] \in X /\ values[n] \in Y
    BY <2>1, <2>3
  <2>5. longer \in [0 .. n -> X]
    BY <2>1, <2>3, <2>4
  <2>6. longer[0] = first
    BY <2>1, <2>3
  <2>7. ASSUME NEW k \in 1 .. n PROVE longer[k] = step[<<longer[k - 1], values[k]>>]
    <3>1. longer[k - 1] = walk[k - 1] /\ n \in Nat
      BY <2>1
    <3>2. CASE k = n
      BY <3>1, <3>2
    <3>3. CASE k # n
      BY <2>3, <3>1, <3>3
    <3> QED
      BY <3>2, <3>3
  <2>8. longer \in Walks(X, Y, first, step, values, n)
    <3> HIDE DEF longer
    <3> QED
      BY <2>5, <2>6, <2>7 DEF Walks
  <2> QED
    BY <1>1, <2>8
<1> QED
  BY <1>2, <1>3

-----------------------------------------------------------------------------
Place(sorted, v) == Min({k \in 1 .. Len(sorted) : sorted[k] > v} \cup {Len(sorted) + 1})

LEMMA PlaceIs ==
    ASSUME NEW sorted \in Seq(Nat), NEW v \in Nat
    PROVE  /\ Place(sorted, v) \in 1 .. Len(sorted) + 1
           /\ \A k \in 1 .. Len(sorted) : k < Place(sorted, v) => sorted[k] <= v
           /\ Place(sorted, v) <= Len(sorted) => v < sorted[Place(sorted, v)]
<1> DEFINE S == {k \in 1 .. Len(sorted) : sorted[k] > v} \cup {Len(sorted) + 1}
<1>1. S \in SUBSET Nat /\ S # {} /\ S \subseteq 1 .. Len(sorted) + 1
  OBVIOUS
<1>2. Place(sorted, v) \in S /\ \A k \in S : Place(sorted, v) <= k
  <2>1. Place(sorted, v) = CHOOSE x \in S : \A y \in S : x =< y
    BY DEF Place, Min
  <2> HIDE DEF S
  <2>2. \E x \in S : \A y \in S : x =< y
    BY <1>1, LeastElement
  <2> QED
    BY <2>1, <2>2
<1> QED
  BY <1>1, <1>2

LEMMA SecondOfTwo ==
    ASSUME NEW X, NEW s \in Seq(X), NEW t \in Seq(X), NEW k \in 1 .. Len(t)
    PROVE  (s \o t)[Len(s) + k] = t[k]
<1> DEFINE place == Len(s) + k
<1>1. place \in 1 .. Len(s) + Len(t) /\ place > Len(s) /\ place - Len(s) = k
  OBVIOUS
<1> HIDE DEF place
<1>2. (s \o t)[place] = t[place - Len(s)]
  BY <1>1
<1> QED
  BY <1>1, <1>2 DEF place

LEMMA InsertIs ==
    ASSUME NEW sorted \in Seq(Nat), NEW v \in Nat
    PROVE  /\ Insert(sorted, v) \in Seq(Nat)
           /\ Len(Insert(sorted, v)) = Len(sorted) + 1
           /\ \A k \in 1 .. Len(sorted) + 1 :
                Insert(sorted, v)[k] = IF k < Place(sorted, v) THEN sorted[k]
                                       ELSE IF k = Place(sorted, v) THEN v ELSE sorted[k - 1]
<1> DEFINE p == Place(sorted, v)
           left == SubSeq(sorted, 1, p - 1)
           right == SubSeq(sorted, p, Len(sorted))
<1>1. p \in 1 .. Len(sorted) + 1
  BY PlaceIs
<1>2. Insert(sorted, v) = (left \o <<v>>) \o right
  BY DEF Insert, InsertAt, Place
<1> HIDE DEF p
<1>3. left \in Seq(Nat) /\ Len(left) = p - 1 /\ \A k \in 1 .. p - 1 : left[k] = sorted[k]
  BY <1>1
<1>4. right \in Seq(Nat) /\ Len(right) = Len(sorted) + 1 - p
      /\ \A k \in 1 .. Len(sorted) + 1 - p : right[k] = sorted[p + k - 1]
  BY <1>1
<1> HIDE DEF left, right
<1> DEFINE start == left \o <<v>>
<1>5. start \in Seq(Nat) /\ Len(start) = p /\ (\A k \in 1 .. p - 1 : start[k] = sorted[k]) /\ start[p] = v
  <2>1. p \in Nat /\ p - 1 \in Nat /\ left \in Seq(Nat) /\ Len(left) = p - 1
    BY <1>1, <1>3
  <2>2. start \in Seq(Nat) /\ Len(start) = p
    BY <2>1
  <2>3. start[p] = v
    BY <2>1
  <2>4. ASSUME NEW k \in 1 .. p - 1 PROVE start[k] = sorted[k]
    <3>1. start[k] = left[k]
      BY <2>1
    <3> QED
      BY <1>3, <3>1
  <2> QED
    BY <2>2, <2>3, <2>4
<1> HIDE DEF start
<1>6. Insert(sorted, v) \in Seq(Nat) /\ Len(Insert(sorted, v)) = Len(sorted) + 1
  BY <1>1, <1>2, <1>4, <1>5 DEF start
<1>7. ASSUME NEW k \in 1 .. Len(sorted) + 1
      PROVE  Insert(sorted, v)[k] = IF k < p THEN sorted[k] ELSE IF k = p THEN v ELSE sorted[k - 1]
  <2>1. CASE k <= p
    BY <1>1, <1>2, <1>4, <1>5, <2>1 DEF start
  <2>2. CASE k > p
    <3> DEFINE j == k - p
    <3>1. j \in 1 .. Len(sorted) + 1 - p /\ k = p + j /\ p + j - 1 = k - 1
      BY <1>1, <2>2
    <3>2. (start \o right)[p + j] = right[j]
      <4>1. Len(start) = p /\ Len(right) = Len(sorted) + 1 - p /\ p \in Nat /\ Len(sorted) \in Nat
        BY <1>1, <1>4, <1>5
      <4>2. j \in 1 .. Len(right)
        BY <3>1, <4>1
      <4> HIDE DEF j
      <4>3. start \in Seq(Nat) /\ right \in Seq(Nat)
        BY <1>4, <1>5
      <4>4. (start \o right)[Len(start) + j] = right[j]
        BY <4>2, <4>3, SecondOfTwo
      <4> QED
        BY <4>1, <4>4
    <3>3. right[j] = sorted[p + j - 1]
      BY <1>4, <3>1
    <3>4. Insert(sorted, v)[k] = sorted[k - 1]
      BY <1>2, <3>1, <3>2, <3>3 DEF start
    <3> QED
      BY <1>1, <3>4, <2>2
  <2> QED
    BY <1>1, <2>1, <2>2
<1> QED
  BY <1>6, <1>7 DEF p

-----------------------------------------------------------------------------
Ascending(values) == \A i, j \in 1 .. Len(values) : i <= j => values[i] <= values[j]

\* Where the first n values went: each place has one of them, no two the same.
Origins(sorted, values, n) ==
    {origin \in [1 .. n -> 1 .. n] :
       /\ \A i, j \in 1 .. n : origin[i] = origin[j] => i = j
       /\ \A i \in 1 .. n : sorted[i] = values[origin[i]]}

IsSorting(sorted, values, n) ==
    /\ sorted \in Seq(Nat) /\ Len(sorted) = n
    /\ Ascending(sorted)
    /\ Origins(sorted, values, n) # {}

LEMMA InsertSorts ==
    ASSUME NEW values \in Seq(Nat), NEW n \in 1 .. Len(values), NEW sorted,
           IsSorting(sorted, values, n - 1)
    PROVE  IsSorting(Insert(sorted, values[n]), values, n)
<1> DEFINE v == values[n]
           p == Place(sorted, v)
           longer == Insert(sorted, v)
<1>1. /\ v \in Nat /\ n \in Nat /\ n >= 1
      /\ sorted \in Seq(Nat) /\ Len(sorted) = n - 1 /\ Len(sorted) + 1 = n
      /\ Ascending(sorted)
  BY DEF IsSorting
<1>0. n \in Nat /\ n >= 1 /\ v \in Nat
  BY <1>1
<1>2. /\ \A k \in 1 .. n - 1 : sorted[k] \in Nat
      /\ \A i, j \in 1 .. n - 1 : i <= j => sorted[i] <= sorted[j]
  <2>1. 1 .. n - 1 = 1 .. Len(sorted)
    BY <1>1
  <2>2. ASSUME NEW k \in 1 .. n - 1 PROVE sorted[k] \in Nat
    <3>1. sorted \in Seq(Nat) /\ k \in 1 .. Len(sorted)
      BY <1>1, <2>1
    <3> QED
      BY <3>1
  <2>3. \A i, j \in 1 .. n - 1 : i <= j => sorted[i] <= sorted[j]
    BY <1>1, <2>1 DEF Ascending
  <2> QED
    BY <2>2, <2>3
<1>3. /\ p \in 1 .. n
      /\ \A k \in 1 .. n - 1 : k < p => sorted[k] <= v
      /\ p <= n - 1 => v < sorted[p]
  BY <1>1, PlaceIs
<1>4. /\ longer \in Seq(Nat) /\ Len(longer) = n
      /\ \A k \in 1 .. n : longer[k] = IF k < p THEN sorted[k] ELSE IF k = p THEN v ELSE sorted[k - 1]
  BY <1>1, InsertIs
<1> HIDE DEF v, p, longer
<1>5. ASSUME NEW k \in 1 .. n
      PROVE  /\ k < p => k \in 1 .. n - 1 /\ longer[k] = sorted[k]
             /\ k = p => longer[k] = v
             /\ k > p => k - 1 \in 1 .. n - 1 /\ longer[k] = sorted[k - 1]
  BY <1>1, <1>3, <1>4
<1>6. ASSUME NEW i \in 1 .. n, NEW j \in 1 .. n, i <= j PROVE longer[i] <= longer[j]
  <2>1. i = p \/ i < p \/ i > p
    BY <1>0, <1>3
  <2>2. j = p \/ j < p \/ j > p
    BY <1>0, <1>3
  <2>3. CASE j < p
    <3>1. i < p
      BY <1>0, <1>3, <1>6, <2>3
    <3> QED
      BY <1>2, <1>5, <1>6, <2>3, <3>1
  <2>4. CASE j = p
    <3>1. longer[j] = v
      BY <1>5, <2>4
    <3>2. i \in Int /\ p \in Int
      BY <1>0, <1>3
    <3>3. CASE i = p
      BY <1>0, <3>1, <3>3, <2>4
    <3>4. CASE i < p
      BY <1>3, <1>5, <3>1, <3>4
    <3> QED
      BY <1>6, <2>1, <2>4, <3>2, <3>3, <3>4
  <2>5. CASE j > p
    <3>1. j - 1 \in 1 .. n - 1 /\ longer[j] = sorted[j - 1] /\ p <= j - 1 /\ p \in 1 .. n - 1
      BY <1>0, <1>3, <1>5, <2>5
    <3>2. v < sorted[p] /\ sorted[p] <= sorted[j - 1] /\ sorted[p] \in Nat /\ sorted[j - 1] \in Nat
      BY <1>2, <1>3, <3>1
    <3>3. CASE i < p
      <4>1. sorted[i] <= v /\ sorted[i] \in Nat /\ longer[i] = sorted[i]
        BY <1>2, <1>3, <1>5, <3>3
      <4>2. sorted[i] <= sorted[j - 1]
        BY <1>0, <3>2, <4>1
      <4> QED
        BY <3>1, <4>1, <4>2
    <3>4. CASE i = p
      <4>1. longer[i] = v
        BY <1>5, <3>4
      <4>2. v <= sorted[j - 1]
        BY <1>0, <3>2
      <4> QED
        BY <3>1, <4>1, <4>2
    <3>5. CASE i > p
      <4>1. i - 1 \in 1 .. n - 1 /\ i - 1 <= j - 1 /\ longer[i] = sorted[i - 1]
        BY <1>5, <1>6, <3>5
      <4> QED
        BY <1>2, <3>1, <4>1
    <3> QED
      BY <2>1, <3>3, <3>4, <3>5
  <2> QED
    BY <2>2, <2>3, <2>4, <2>5
<1>7. PICK origin \in [1 .. n - 1 -> 1 .. n - 1] :
        /\ \A i, j \in 1 .. n - 1 : origin[i] = origin[j] => i = j
        /\ \A i \in 1 .. n - 1 : sorted[i] = values[origin[i]]
  BY DEF IsSorting, Origins
<1> DEFINE from == [k \in 1 .. n |-> IF k < p THEN origin[k] ELSE IF k = p THEN n ELSE origin[k - 1]]
<1>8. ASSUME NEW k \in 1 .. n
      PROVE  /\ k < p => k \in 1 .. n - 1 /\ from[k] = origin[k]
             /\ k = p => from[k] = n
             /\ k > p => k - 1 \in 1 .. n - 1 /\ from[k] = origin[k - 1]
             /\ k < p \/ k = p \/ k > p
  BY <1>0, <1>3, <1>5
<1>9. \A k \in 1 .. n - 1 : origin[k] \in 1 .. n /\ origin[k] < n
  BY <1>0, <1>7
<1>10. from \in [1 .. n -> 1 .. n]
  <2>1. ASSUME NEW k \in 1 .. n PROVE from[k] \in 1 .. n
    <3>1. n \in 1 .. n
      BY <1>1
    <3> QED
      BY <1>8, <1>9, <3>1
  <2> QED
    BY <2>1
<1> HIDE DEF from
<1>11. ASSUME NEW i \in 1 .. n, NEW j \in 1 .. n, from[i] = from[j] PROVE i = j
  <2>1. CASE from[i] = n
    <3>1. \A k \in 1 .. n : from[k] = n => k = p
      <4> SUFFICES ASSUME NEW k \in 1 .. n, from[k] = n, k # p PROVE FALSE
        OBVIOUS
      <4>1. PICK b \in 1 .. n - 1 : from[k] = origin[b]
        BY <1>8
      <4> QED
        BY <1>9, <1>0, <4>1
    <3>2. i = p /\ j = p
      BY <1>11, <2>1, <3>1
    <3> QED
      BY <3>2
  <2>2. CASE from[i] # n
    <3>1. i # p /\ j # p
      BY <1>8, <1>11, <2>2
    <3> DEFINE a == IF i < p THEN i ELSE i - 1
               b == IF j < p THEN j ELSE j - 1
    <3>2. a \in 1 .. n - 1 /\ origin[a] = from[i]
      BY <1>8, <3>1
    <3>3. b \in 1 .. n - 1 /\ origin[b] = from[j]
      BY <1>8, <3>1
    <3>4. a = b
      <4> HIDE DEF a, b
      <4> QED
        BY <1>7, <1>11, <3>2, <3>3
    <3>5. i \in Int /\ j \in Int /\ p \in Int
      BY <1>3
    <3> QED
      BY <3>1, <3>4, <3>5
  <2> QED
    BY <2>1, <2>2
<1>12. ASSUME NEW i \in 1 .. n PROVE longer[i] = values[from[i]]
  <2>1. CASE i < p
    BY <1>5, <1>7, <1>8, <2>1
  <2>2. CASE i = p
    BY <1>5, <1>8, <2>2 DEF v
  <2>3. CASE i > p
    <3> DEFINE k == i - 1
    <3>1. k \in 1 .. n - 1 /\ longer[i] = sorted[k] /\ from[i] = origin[k]
      BY <1>5, <1>8, <2>3
    <3> HIDE DEF k
    <3> QED
      BY <1>7, <3>1
  <2> QED
    BY <1>8, <2>1, <2>2, <2>3
<1>13. from \in Origins(longer, values, n)
  BY <1>10, <1>11, <1>12 DEF Origins
<1>14. Ascending(longer)
  BY <1>4, <1>6 DEF Ascending
<1> QED
  BY <1>4, <1>13, <1>14 DEF IsSorting, longer, v

\* percentile_value sorts a copy: the same values, ascending.
LEMMA SortSorts ==
    ASSUME NEW values \in Seq(Nat)
    PROVE  IsSorting(SortValues(values), values, Len(values))
<1> DEFINE L == Len(values)
           step == [given \in Seq(Nat) \X Nat |-> Insert(given[1], given[2])]
           sorted == CHOOSE g : g = [n \in 0 .. L |-> IF n = 0 THEN <<>> ELSE Insert(g[n - 1], values[n])]
<1>1. SortValues(values) = sorted[L]
  BY DEF SortValues
<1>2. step \in [Seq(Nat) \X Nat -> Seq(Nat)]
  <2>1. \A given \in Seq(Nat) \X Nat : Insert(given[1], given[2]) \in Seq(Nat)
    BY InsertIs
  <2> QED
    BY <2>1
<1>3. PICK walk : walk \in Walks(Seq(Nat), Nat, <<>>, step, values, L)
  <2>1. <<>> \in Seq(Nat)
    OBVIOUS
  <2> HIDE DEF step
  <2>2. Walks(Seq(Nat), Nat, <<>>, step, values, L) # {}
    BY <1>2, <2>1, WalkExists
  <2> QED
    BY <2>2
<1>4. walk \in [0 .. L -> Seq(Nat)] /\ walk[0] = <<>>
      /\ \A n \in 1 .. L : walk[n] = step[<<walk[n - 1], values[n]>>]
  BY <1>3 DEF Walks
<1>5. ASSUME NEW n \in 1 .. L PROVE walk[n] = Insert(walk[n - 1], values[n])
  <2>1. n - 1 \in 0 .. L /\ values[n] \in Nat
    OBVIOUS
  <2>2. walk[n - 1] \in Seq(Nat)
    BY <1>4, <2>1
  <2>3. <<walk[n - 1], values[n]>> \in Seq(Nat) \X Nat
    BY <2>1, <2>2
  <2> QED
    BY <1>4, <2>3
<1>6. walk = [n \in 0 .. L |-> IF n = 0 THEN <<>> ELSE Insert(walk[n - 1], values[n])]
  BY <1>4, <1>5
<1>7. sorted = [n \in 0 .. L |-> IF n = 0 THEN <<>> ELSE Insert(sorted[n - 1], values[n])]
  BY <1>6
<1> HIDE DEF sorted, step
<1>8. L \in Nat /\ sorted[0] = <<>> /\ \A n \in 1 .. L : sorted[n] = Insert(sorted[n - 1], values[n])
  <2>1. L \in Nat /\ 0 \in 0 .. L /\ \A n \in 1 .. L : n \in 0 .. L /\ n # 0
    OBVIOUS
  <2> HIDE DEF L
  <2>2. sorted[0] = <<>>
    BY <1>7, <2>1
  <2>3. \A n \in 1 .. L : sorted[n] = Insert(sorted[n - 1], values[n])
    BY <1>7, <2>1
  <2> QED
    BY <2>1, <2>2, <2>3
<1> DEFINE Wrong == {n \in 0 .. L : ~IsSorting(sorted[n], values, n)}
<1>9. Wrong = {}
  <2> SUFFICES ASSUME Wrong # {} PROVE FALSE
    OBVIOUS
  <2>1. PICK n \in Wrong : \A k \in Wrong : n <= k
    <3>1. Wrong \in SUBSET Nat
      OBVIOUS
    <3> HIDE DEF Wrong
    <3> QED
      BY <3>1, LeastElement
  <2>2. n \in 0 .. L /\ ~IsSorting(sorted[n], values, n)
    BY <2>1
  <2>3. n # 0
    <3>1. <<>> \in Seq(Nat) /\ Len(<<>>) = 0 /\ Ascending(<<>>)
      BY DEF Ascending
    <3>2. <<>> \in Origins(<<>>, values, 0)
      BY DEF Origins
    <3> QED
      BY <1>8, <2>2, <3>1, <3>2 DEF IsSorting
  <2>4. n - 1 \in 0 .. L /\ n - 1 \notin Wrong /\ n \in 1 .. L
    BY <2>1, <2>3
  <2>5. IsSorting(sorted[n - 1], values, n - 1)
    BY <2>4
  <2>6. IsSorting(sorted[n], values, n)
    BY <1>8, <2>4, <2>5, InsertSorts
  <2> QED
    BY <2>2, <2>6
<1> QED
  BY <1>1, <1>8, <1>9

-----------------------------------------------------------------------------
Below(values, value) == {k \in 1 .. Len(values) : values[k] < value}
UpTo(values, value) == {k \in 1 .. Len(values) : values[k] <= value}

LEMMA Counts ==
    ASSUME NEW values \in Seq(Nat), NEW value
    PROVE  /\ IsFiniteSet(Below(values, value)) /\ Cardinality(Below(values, value)) \in Nat
           /\ IsFiniteSet(UpTo(values, value)) /\ Cardinality(UpTo(values, value)) \in Nat
<1>1. IsFiniteSet(1 .. Len(values))
  BY FS_Interval
<1>2. Below(values, value) \subseteq 1 .. Len(values) /\ UpTo(values, value) \subseteq 1 .. Len(values)
  BY DEF Below, UpTo
<1>3. IsFiniteSet(Below(values, value)) /\ IsFiniteSet(UpTo(values, value))
  BY <1>1, <1>2, FS_Subset
<1> QED
  BY <1>3, FS_CardinalityType

\* The m-th of the sorted values has fewer than m below it, and not fewer than m up to it.
LEMMA RankOfSorted ==
    ASSUME NEW values \in Seq(Nat), NEW sorted, IsSorting(sorted, values, Len(values)),
           NEW m \in 1 .. Len(values)
    PROVE  /\ sorted[m] \in Nat /\ sorted[m] \in ToSet(values)
           /\ Cardinality(Below(values, sorted[m])) <= m - 1
           /\ m <= Cardinality(UpTo(values, sorted[m]))
<1> DEFINE n == Len(values)
           x == sorted[m]
<1>1. n \in Nat /\ m \in Nat /\ m >= 1 /\ m <= n /\ m - 1 \in Nat
  OBVIOUS
<1>2. sorted \in Seq(Nat) /\ Len(sorted) = n /\ Ascending(sorted)
  BY DEF IsSorting
<1>3. \A k \in 1 .. n : sorted[k] \in Nat
  <2>1. ASSUME NEW k \in 1 .. n PROVE sorted[k] \in Nat
    <3>1. sorted \in Seq(Nat) /\ k \in 1 .. Len(sorted)
      BY <1>2
    <3> QED
      BY <3>1
  <2> QED
    BY <2>1
<1>4. \A i, j \in 1 .. n : i <= j => sorted[i] <= sorted[j]
  BY <1>2 DEF Ascending
<1>5. PICK origin \in [1 .. n -> 1 .. n] :
        /\ \A i, j \in 1 .. n : origin[i] = origin[j] => i = j
        /\ \A i \in 1 .. n : sorted[i] = values[origin[i]]
  BY DEF IsSorting, Origins
<1>6. x \in ToSet(values)
  <2>1. origin[m] \in DOMAIN values /\ x = values[origin[m]]
    BY <1>5
  <2> QED
    BY <2>1 DEF ToSet
<1> HIDE DEF n
<1>7. m <= Cardinality(UpTo(values, x))
  <2> DEFINE first == [i \in 1 .. m |-> origin[i]]
             many == UpTo(values, x)
  <2>1. ASSUME NEW i \in 1 .. m PROVE first[i] \in many
    <3>1. i \in 1 .. n /\ i <= m /\ m \in 1 .. n
      BY <1>1
    <3>2. origin[i] \in 1 .. n /\ values[origin[i]] = sorted[i] /\ sorted[i] <= x
      BY <1>4, <1>5, <3>1
    <3> QED
      BY <3>2 DEF UpTo, n
  <2>2. \A i, j \in 1 .. m : first[i] = first[j] => i = j
    <3>1. \A i \in 1 .. m : i \in 1 .. n /\ first[i] = origin[i]
      BY <1>1
    <3> QED
      BY <1>5, <3>1
  <2>3. first \in Injection(1 .. m, many)
    <3>1. first \in [1 .. m -> many]
      BY <2>1
    <3> HIDE DEF first, many
    <3> QED
      BY <2>2, <3>1 DEF Injection, IsInjective
  <2>4. IsFiniteSet(many)
    BY Counts
  <2>5. Cardinality(1 .. m) = m
    BY <1>1, FS_Interval
  <2>6. Cardinality(1 .. m) <= Cardinality(many)
    <3> HIDE DEF first, many
    <3> QED
      BY <2>3, <2>4, FS_Injection
  <2> QED
    BY <2>5, <2>6
<1>8. origin \in Surjection(1 .. n, 1 .. n)
  <2>1. origin \in Injection(1 .. n, 1 .. n)
    BY <1>5 DEF Injection, IsInjective
  <2>2. IsFiniteSet(1 .. n)
    BY <1>1, FS_Interval
  <2> QED
    BY <2>1, <2>2, FS_Injection
<1>9. Cardinality(Below(values, x)) <= m - 1
  <2> DEFINE few == {origin[i] : i \in 1 .. m - 1}
             first == [i \in 1 .. m - 1 |-> origin[i]]
  <2>1. ASSUME NEW k \in Below(values, x) PROVE k \in few
    <3>1. k \in 1 .. n /\ values[k] < x
      BY DEF Below, n
    <3>2. PICK i \in 1 .. n : origin[i] = k
      BY <1>8, <3>1 DEF Surjection
    <3>3. sorted[i] < x /\ sorted[i] \in Nat /\ x \in Nat
      BY <1>1, <1>3, <1>5, <3>1, <3>2
    <3>4. ~(m <= i)
      BY <1>1, <1>4, <3>3
    <3>5. i \in 1 .. m - 1
      BY <1>1, <3>4
    <3> QED
      BY <3>2, <3>5
  <2>2. first \in Surjection(1 .. m - 1, few)
    BY DEF Surjection
  <2>3. IsFiniteSet(1 .. m - 1) /\ Cardinality(1 .. m - 1) = m - 1
    <3> DEFINE j == m - 1
    <3>1. j \in Nat
      BY <1>1
    <3> HIDE DEF j
    <3>2. IsFiniteSet(1 .. j) /\ Cardinality(1 .. j) = j
      BY <3>1, FS_Interval
    <3> QED
      BY <3>2 DEF j
  <2> HIDE DEF few, first
  <2>4. IsFiniteSet(few) /\ Cardinality(few) <= m - 1
    BY <2>2, <2>3, FS_Surjection
  <2>5. Cardinality(Below(values, x)) <= Cardinality(few)
    BY <2>1, <2>4, FS_Subset
  <2>6. Cardinality(few) \in Nat /\ Cardinality(Below(values, x)) \in Nat
    BY <2>4, FS_CardinalityType, Counts
  <2> QED
    BY <1>1, <2>4, <2>5, <2>6
<1> QED
  BY <1>1, <1>3, <1>6, <1>7, <1>9

\* percentile_value returns the value of that rank, of any list of values.
THEOREM PercentileIsRank ==
    ASSUME NEW values \in Seq(Nat), values # <<>>, NEW percent \in {50, 95, 99}
    PROVE  /\ percentile_value(values, percent) \in Nat
           /\ IsRank(values, percent, percentile_value(values, percent))
<1> DEFINE n == Len(values)
           m == PercentileIndex(n, percent) + 1
           x == SortValues(values)[m]
<1>1. percentile_value(values, percent) = x
  BY DEF percentile_value
<1>2. n \in Nat \ {0}
  OBVIOUS
<1> HIDE DEF n
<1>3. m \in 1 .. n /\ 100 * (m - 1) <= percent * (n - 1) /\ percent * (n - 1) < 100 * m
  BY <1>2 DEF PercentileIndex
<1>4. IsSorting(SortValues(values), values, n)
  BY SortSorts DEF n
<1> HIDE DEF m
<1>5. /\ x \in Nat /\ x \in ToSet(values)
      /\ Cardinality(Below(values, x)) <= m - 1 /\ m <= Cardinality(UpTo(values, x))
  BY <1>3, <1>4, RankOfSorted DEF n
<1>6. Cardinality(Below(values, x)) \in Nat /\ Cardinality(UpTo(values, x)) \in Nat
  BY Counts
<1> HIDE DEF x
<1>7. 100 * Cardinality(Below(values, x)) <= percent * (n - 1)
      /\ percent * (n - 1) < 100 * Cardinality(UpTo(values, x))
  <2>1. percent \in Nat /\ m \in Nat /\ percent * (n - 1) \in Int
    BY <1>2, <1>3
  <2> QED
    BY <1>3, <1>5, <1>6, <2>1
<1> QED
  BY <1>1, <1>5, <1>7 DEF IsRank, Below, UpTo, n

\* Hence the percentiles of every list the run percentiles has, and of every list its
\* constants allow, are ranks: percentile_value neither misses nor invents a value.
THEOREM RanksAreExact == ListSpec => []RankIsExact
<1> DEFINE Good == list \in Seq(Nat)
<1>1. ListInit => Good
  <2> SUFFICES ASSUME ListInit PROVE Good
    OBVIOUS
  <2>1. CASE list = <<>>
    BY <2>1
  <2>2. ASSUME NEW n \in MaxLength + 1 .. MaxCount, list = Mixed(n) PROVE Good
    <3>1. n \in Nat \ {0}
      BY PercentilesAssumption
    <3>2. \A k \in 1 .. n : k * 7919 \in Nat
      BY <3>1
    <3>3. \A i \in Nat : i % n \in Nat
      BY <3>1
    <3> QED
      BY <2>2, <3>1, <3>2, <3>3 DEF Mixed
  <2> QED
    BY <2>1, <2>2 DEF ListInit
<1>2. Good /\ [ListNext]_list => Good'
  <2>1. \A v \in 0 .. MaxValue : v \in Nat
    BY PercentilesAssumption
  <2> QED
    BY <2>1 DEF ListNext
<1>3. Good => RankIsExact
  BY PercentileIsRank DEF RankIsExact
<1> QED
  BY <1>1, <1>2, <1>3, PTL DEF ListSpec

-----------------------------------------------------------------------------
(***************************************************************************)
(* Two lists, each value of one at most the value of the other at its place. *)
(***************************************************************************)
AtMost(lower, upper) ==
    /\ lower \in Seq(Nat) /\ upper \in Seq(Nat) /\ Len(lower) = Len(upper)
    /\ \A k \in 1 .. Len(lower) : lower[k] <= upper[k]

LEMMA ExtremesAre ==
    ASSUME NEW values \in Seq(Nat), values # <<>>
    PROVE  /\ Min(ToSet(values)) \in ToSet(values) /\ Max(ToSet(values)) \in ToSet(values)
           /\ \A v \in ToSet(values) : v \in Nat /\ Min(ToSet(values)) <= v /\ v <= Max(ToSet(values))
<1> DEFINE S == ToSet(values)
           n == Len(values)
           top == SortValues(values)[n]
<1>1. S \in SUBSET Nat /\ S # {}
  <2>1. 1 \in DOMAIN values /\ \A k \in DOMAIN values : values[k] \in Nat
    OBVIOUS
  <2> QED
    BY <2>1 DEF ToSet
<1>2. \E least \in S : \A v \in S : least <= v
  <2> HIDE DEF S
  <2> QED
    BY <1>1, LeastElement
<1>3. top \in S /\ n <= Cardinality(UpTo(values, top))
  <2>1. n \in 1 .. Len(values)
    OBVIOUS
  <2> QED
    BY <2>1, SortSorts, RankOfSorted
<1>4. UpTo(values, top) = 1 .. n
  <2>1. n \in Nat /\ 1 \in Int /\ n \in Int /\ n # 0
    OBVIOUS
  <2>2. UpTo(values, top) \subseteq 1 .. n
    BY DEF UpTo
  <2>3. Cardinality(UpTo(values, top)) \in Nat
    BY Counts
  <2> HIDE DEF n, top
  <2>4. IsFiniteSet(1 .. n) /\ Cardinality(1 .. n) = n
    BY <2>1, FS_Interval
  <2>5. Cardinality(UpTo(values, top)) <= n
    BY <2>2, <2>4, FS_Subset
  <2>6. Cardinality(UpTo(values, top)) = n
    BY <1>3, <2>1, <2>3, <2>5
  <2> QED
    BY <2>2, <2>4, <2>6, FS_Subset
<1>5. \A v \in S : top >= v
  <2>1. ASSUME NEW v \in S PROVE top >= v
    <3>1. PICK k \in 1 .. n : values[k] = v
      BY DEF ToSet
    <3>2. values[k] <= top
      BY <1>4 DEF UpTo
    <3>3. v \in Nat /\ top \in Nat
      BY <1>1, <1>3
    <3> HIDE DEF top
    <3> QED
      BY <3>1, <3>2, <3>3
  <2> QED
    BY <2>1
<1> HIDE DEF top, S
<1>6. Min(S) \in S /\ \A v \in S : Min(S) <= v
  BY <1>2 DEF Min
<1>7. Max(S) \in S /\ \A v \in S : Max(S) >= v
  BY <1>3, <1>5 DEF Max
<1>8. ASSUME NEW v \in S PROVE v \in Nat /\ Min(S) <= v /\ v <= Max(S)
  BY <1>1, <1>6, <1>7
<1> QED
  BY <1>6, <1>7, <1>8 DEF S

LEMMA ExtremesOrdered ==
    ASSUME NEW lower, NEW upper, AtMost(lower, upper), lower # <<>>
    PROVE  /\ Min(ToSet(lower)) <= Min(ToSet(upper))
           /\ Max(ToSet(lower)) <= Max(ToSet(upper))
<1>1. /\ lower \in Seq(Nat) /\ upper \in Seq(Nat) /\ upper # <<>>
      /\ DOMAIN lower = DOMAIN upper
      /\ \A k \in DOMAIN lower : lower[k] <= upper[k]
  BY DEF AtMost
<1>2. PICK k \in DOMAIN upper : upper[k] = Min(ToSet(upper))
  BY <1>1, ExtremesAre DEF ToSet
<1>3. PICK j \in DOMAIN lower : lower[j] = Max(ToSet(lower))
  BY <1>1, ExtremesAre DEF ToSet
<1>4. lower[k] \in ToSet(lower) /\ upper[j] \in ToSet(upper)
  BY <1>1 DEF ToSet
<1>5. /\ Min(ToSet(lower)) <= lower[k] /\ upper[j] <= Max(ToSet(upper))
      /\ Min(ToSet(lower)) \in Nat /\ Min(ToSet(upper)) \in Nat /\ lower[k] \in Nat
      /\ Max(ToSet(lower)) \in Nat /\ Max(ToSet(upper)) \in Nat /\ upper[j] \in Nat
  BY <1>1, <1>4, ExtremesAre
<1>6. lower[k] <= upper[k] /\ lower[j] <= upper[j]
  BY <1>1
<1> QED
  BY <1>2, <1>3, <1>5, <1>6

\* total[n] is the sum of the first n values.
LEMMA TotalSums ==
    ASSUME NEW values \in Seq(Nat)
    PROVE  \E total \in [0 .. Len(values) -> Nat] :
             /\ total[0] = 0
             /\ \A n \in 1 .. Len(values) : total[n] = total[n - 1] + values[n]
             /\ Total(values) = total[Len(values)]
<1> DEFINE L == Len(values)
           step == [given \in Nat \X Nat |-> given[1] + given[2]]
           total == CHOOSE g : g = [n \in 0 .. L |-> IF n = 0 THEN 0 ELSE g[n - 1] + values[n]]
<1>1. Total(values) = total[L]
  BY DEF Total
<1>2. step \in [Nat \X Nat -> Nat]
  OBVIOUS
<1>3. PICK walk : walk \in Walks(Nat, Nat, 0, step, values, L)
  <2> HIDE DEF step
  <2>1. Walks(Nat, Nat, 0, step, values, L) # {}
    BY <1>2, WalkExists
  <2> QED
    BY <2>1
<1>4. walk \in [0 .. L -> Nat] /\ walk[0] = 0
      /\ \A n \in 1 .. L : walk[n] = step[<<walk[n - 1], values[n]>>]
  BY <1>3 DEF Walks
<1>5. ASSUME NEW n \in 1 .. L PROVE walk[n] = walk[n - 1] + values[n]
  <2>1. n - 1 \in 0 .. L /\ values[n] \in Nat
    OBVIOUS
  <2>2. walk[n - 1] \in Nat
    BY <1>4, <2>1
  <2>3. <<walk[n - 1], values[n]>> \in Nat \X Nat
    BY <2>1, <2>2
  <2> QED
    BY <1>4, <2>3
<1>6. walk = [n \in 0 .. L |-> IF n = 0 THEN 0 ELSE walk[n - 1] + values[n]]
  BY <1>4, <1>5
<1>7. total = [n \in 0 .. L |-> IF n = 0 THEN 0 ELSE total[n - 1] + values[n]]
  BY <1>6
<1> HIDE DEF total, step
<1>8. L \in Nat /\ 0 \in 0 .. L /\ \A n \in 1 .. L : n \in 0 .. L /\ n # 0 /\ n - 1 \in 0 .. L
  OBVIOUS
<1> HIDE DEF L
<1>9. total[0] = 0 /\ \A n \in 1 .. L : total[n] = total[n - 1] + values[n]
  BY <1>7, <1>8
<1>10. \A n \in 0 .. L : total[n] \in Nat
  <2> DEFINE Wrong == {n \in 0 .. L : total[n] \notin Nat}
  <2> SUFFICES ASSUME Wrong # {} PROVE FALSE
    OBVIOUS
  <2>1. PICK n \in Wrong : \A k \in Wrong : n <= k
    <3>1. Wrong \in SUBSET Nat
      OBVIOUS
    <3> HIDE DEF Wrong
    <3> QED
      BY <3>1, LeastElement
  <2>2. n \in 0 .. L /\ n # 0
    BY <1>9, <2>1
  <2>3. n \in 1 .. L /\ n - 1 \in 0 .. L /\ n - 1 \notin Wrong
    BY <1>8, <2>1, <2>2
  <2>4. total[n - 1] \in Nat /\ values[n] \in Nat
    BY <2>3 DEF L
  <2> QED
    BY <1>9, <2>1, <2>3, <2>4
<1>11. total \in [0 .. L -> Nat]
  BY <1>7, <1>10
<1> QED
  BY <1>1, <1>9, <1>11 DEF L

LEMMA TotalsOrdered ==
    ASSUME NEW lower, NEW upper, AtMost(lower, upper)
    PROVE  Total(lower) <= Total(upper)
<1> DEFINE L == Len(lower)
<1>1. /\ L \in Nat /\ Len(upper) = L /\ lower \in Seq(Nat) /\ upper \in Seq(Nat)
      /\ \A k \in 1 .. L : lower[k] <= upper[k]
  BY DEF AtMost
<1>2. \A k \in 1 .. L : lower[k] \in Nat /\ upper[k] \in Nat
  BY <1>1
<1>3. PICK a \in [0 .. L -> Nat] :
        /\ a[0] = 0 /\ Total(lower) = a[L]
        /\ \A n \in 1 .. L : a[n] = a[n - 1] + lower[n]
  BY <1>1, TotalSums
<1> HIDE DEF L
<1>4. PICK b \in [0 .. L -> Nat] :
        /\ b[0] = 0 /\ Total(upper) = b[L]
        /\ \A n \in 1 .. L : b[n] = b[n - 1] + upper[n]
  BY <1>1, TotalSums
<1> DEFINE Wrong == {n \in 0 .. L : ~(a[n] <= b[n])}
<1>5. Wrong = {}
  <2> SUFFICES ASSUME Wrong # {} PROVE FALSE
    OBVIOUS
  <2>1. PICK n \in Wrong : \A k \in Wrong : n <= k
    <3>1. Wrong \in SUBSET Nat
      OBVIOUS
    <3> HIDE DEF Wrong
    <3> QED
      BY <3>1, LeastElement
  <2>2. n \in 0 .. L /\ n # 0
    BY <1>3, <1>4, <2>1
  <2>3. n \in 1 .. L /\ n - 1 \in 0 .. L /\ n - 1 \notin Wrong
    BY <1>1, <2>1, <2>2
  <2>4. a[n - 1] \in Nat /\ b[n - 1] \in Nat /\ a[n - 1] <= b[n - 1]
    BY <2>3
  <2>5. lower[n] \in Nat /\ upper[n] \in Nat /\ lower[n] <= upper[n]
    BY <1>1, <1>2, <2>3
  <2>6. a[n] = a[n - 1] + lower[n] /\ b[n] = b[n - 1] + upper[n]
    BY <1>3, <1>4, <2>3
  <2>7. a[n] <= b[n]
    BY <2>4, <2>5, <2>6
  <2> QED
    BY <2>1, <2>7
<1>6. L \in 0 .. L /\ a[L] <= b[L]
  <2>1. L \in 0 .. L
    BY <1>1
  <2> QED
    BY <1>5, <2>1
<1> QED
  BY <1>3, <1>4, <1>6

LEMMA PercentilesOrdered ==
    ASSUME NEW lower, NEW upper, AtMost(lower, upper), lower # <<>>, NEW percent \in {50, 95, 99}
    PROVE  percentile_value(lower, percent) <= percentile_value(upper, percent)
<1> DEFINE a == percentile_value(lower, percent)
           b == percentile_value(upper, percent)
           n == Len(lower)
<1>1. /\ n \in Nat /\ Len(upper) = n /\ lower \in Seq(Nat) /\ upper \in Seq(Nat) /\ upper # <<>>
      /\ \A k \in 1 .. n : lower[k] <= upper[k]
  BY DEF AtMost
<1>2. \A k \in 1 .. n : lower[k] \in Nat /\ upper[k] \in Nat
  BY <1>1
<1>3. a \in Nat /\ 100 * Cardinality(Below(lower, a)) <= percent * (n - 1)
  <2>1. a \in Nat /\ IsRank(lower, percent, a)
    BY <1>1, PercentileIsRank
  <2> HIDE DEF a
  <2> QED
    BY <2>1 DEF IsRank, Below
<1>4. b \in Nat /\ percent * (n - 1) < 100 * Cardinality(UpTo(upper, b))
  <2>1. b \in Nat /\ IsRank(upper, percent, b)
    BY <1>1, PercentileIsRank
  <2> HIDE DEF b
  <2>2. percent * (Len(upper) - 1) < 100 * Cardinality(UpTo(upper, b))
    BY <2>1 DEF IsRank, UpTo
  <2> QED
    BY <1>1, <2>1, <2>2
<1> HIDE DEF a, b
<1> SUFFICES ASSUME b < a PROVE FALSE
  BY <1>3, <1>4 DEF a, b
<1>5. UpTo(upper, b) \subseteq Below(lower, a)
  <2>1. ASSUME NEW k \in UpTo(upper, b) PROVE k \in Below(lower, a)
    <3>1. k \in 1 .. n /\ upper[k] <= b
      BY <1>1 DEF UpTo
    <3>2. lower[k] < a
      BY <1>1, <1>2, <1>3, <1>4, <3>1
    <3> QED
      BY <3>1, <3>2 DEF Below
  <2> QED
    BY <2>1
<1>6. /\ IsFiniteSet(Below(lower, a)) /\ Cardinality(Below(lower, a)) \in Nat
      /\ Cardinality(UpTo(upper, b)) \in Nat
  BY <1>1, Counts
<1>7. Cardinality(UpTo(upper, b)) <= Cardinality(Below(lower, a))
  BY <1>5, <1>6, FS_Subset
<1>8. percent * (n - 1) \in Int
  BY <1>1
<1> HIDE DEF n
<1> QED
  BY <1>3, <1>4, <1>6, <1>7, <1>8

Figures == {"count", "min_ns", "max_ns", "total", "p50_ns", "p95_ns", "p99_ns"}

LEMMA SummariesOrdered ==
    ASSUME NEW lower, NEW upper, AtMost(lower, upper)
    PROVE  /\ DOMAIN summarize_phase(upper) = Figures
           /\ summarize_phase(lower).count = Len(lower)
           /\ \A figure \in Figures :
                summarize_phase(lower)[figure] <= summarize_phase(upper)[figure]
<1>1. lower \in Seq(Nat) /\ upper \in Seq(Nat) /\ Len(lower) = Len(upper) /\ Len(lower) \in Nat
  BY DEF AtMost
<1>2. CASE lower = <<>>
  <2>1. upper = <<>>
    BY <1>1, <1>2
  <2>2. DOMAIN summarize_phase(<<>>) = Figures
        /\ \A figure \in Figures : summarize_phase(<<>>)[figure] = 0
    BY DEF summarize_phase, Figures
  <2> QED
    BY <1>2, <2>1, <2>2 DEF Figures
<1>3. CASE lower # <<>>
  <2>1. upper # <<>>
    BY <1>1, <1>3
  <2> DEFINE S(values) ==
        [count  |-> Len(values),
         min_ns |-> Min(ToSet(values)),
         max_ns |-> Max(ToSet(values)),
         total  |-> Total(values),
         p50_ns |-> percentile_value(values, 50),
         p95_ns |-> percentile_value(values, 95),
         p99_ns |-> percentile_value(values, 99)]
  <2>2. summarize_phase(lower) = S(lower) /\ summarize_phase(upper) = S(upper)
    BY <1>3, <2>1 DEF summarize_phase
  <2>3. /\ Min(ToSet(lower)) <= Min(ToSet(upper))
        /\ Max(ToSet(lower)) <= Max(ToSet(upper))
    BY <1>3, ExtremesOrdered
  <2>4. Total(lower) <= Total(upper)
    BY TotalsOrdered
  <2>5. \A percent \in {50, 95, 99} :
          percentile_value(lower, percent) <= percentile_value(upper, percent)
    BY <1>3, PercentilesOrdered
  <2>6. DOMAIN S(upper) = Figures /\ S(lower).count = Len(lower)
    BY DEF Figures
  <2>7. \A figure \in Figures : S(lower)[figure] <= S(upper)[figure]
    BY <1>1, <2>3, <2>4, <2>5 DEF Figures
  <2> HIDE DEF S
  <2> QED
    BY <2>2, <2>6, <2>7
<1> QED
  BY <1>2, <1>3

-----------------------------------------------------------------------------
Busy(w) == pc[w] \in DOMAIN Following \cup {"record"}

\* What a request's times are when a step is to come: 0 for that step and those after it.
TimedUpTo(step, times) ==
    /\ step = "parse" => times = Untimed
    /\ step \in {"parse", "normalize_validate"} => times["normalize_validate"] = 0
    /\ step \in {"parse", "normalize_validate", "retrieve", "no_bid"} => times["retrieve"] = 0
    /\ step \in {"parse", "normalize_validate", "retrieve", "decide", "no_bid"} => times["decide"] = 0
    /\ step \in {"parse", "normalize_validate", "retrieve", "decide", "response_build", "no_bid"} =>
          times["response_build"] = 0
    /\ step \in DOMAIN Following => times["response_stage"] = 0

\* The times of a request at any point, those of the phase to come not yet known.
TimesFit ==
    /\ \A w \in Workers : Busy(w) => Sum(timing[w]) <= elapsed[w]
    /\ \A w \in Workers : TimedUpTo(pc[w], timing[w])

\* A request is taken from a connection that has no reply pending.
RoomForReply == \A w \in Workers : Busy(w) => pending[w] < MaxPending

\* The printed summary is that of the list as it is now: no worker is left to add to it.
Reported ==
    summary # NoSummary =>
        /\ \A w \in Workers : pc[w] = "ended"
        /\ summary = summarize

\* The inductive invariant is IInv with RoomForReply, which only Record needs, and Reported.
IInv == TypeOK /\ TimesFit /\ PhasesWithinTotal /\ LimitIsSeen

-----------------------------------------------------------------------------
LEMMA SumTypes ==
    ASSUME NEW times \in [Phases -> 0 .. MaxTime]
    PROVE  \A phase \in Phases : times[phase] \in Nat
  BY BenchmarkAssumption

LEMMA PhaseWithinSum ==
    ASSUME NEW times \in [Phases -> 0 .. MaxTime], NEW phase \in Phases
    PROVE  times[phase] \in Nat /\ Sum(times) \in Nat /\ times[phase] <= Sum(times)
<1>1. \A p \in Phases : times[p] \in Nat
  BY SumTypes
<1> QED
  BY <1>1 DEF Sum, Phases

LEMMA StepsFollow ==
    /\ DOMAIN Following = {"parse", "normalize_validate", "retrieve", "decide",
                           "response_build", "no_bid", "response_stage"}
    /\ \A step \in DOMAIN Following : PhaseOf(step) \in Phases /\ Following[step] \subseteq Steps
  BY DEF Following, PhaseOf, Phases, Steps

LEMMA InitInv == Init => IInv
<1> SUFFICES ASSUME Init PROVE IInv
  OBVIOUS
<1> USE BenchmarkAssumption DEF Init
<1>1. Untimed \in [Phases -> 0 .. MaxTime]
  BY DEF Untimed
<1>2. TypeOK
  <2>1. pc \in [Workers -> Steps]
    BY DEF Steps
  <2>2. /\ elapsed \in [Workers -> 0 .. MaxTime]
        /\ timing \in [Workers -> [Phases -> 0 .. MaxTime]]
        /\ pending \in [Workers -> 0 .. MaxPending]
        /\ received \in 0 .. MaxRequests /\ requests \in Seq(Records)
    BY <1>1
  <2> QED
    BY <2>1, <2>2 DEF TypeOK
<1>3. TimesFit
  BY StepsFollow DEF TimesFit, Busy, TimedUpTo
<1>4. PhasesWithinTotal
  BY DEF PhasesWithinTotal
<1>5. LimitIsSeen
  BY DEF LimitIsSeen, LimitPassed
<1> QED
  BY <1>2, <1>3, <1>4, <1>5 DEF IInv

\* A phase that has no time yet adds its time to the sum.
LEMMA SumWithPhase ==
    ASSUME NEW times \in [Phases -> 0 .. MaxTime], NEW phase \in Phases, NEW length \in Nat,
           times[phase] = 0
    PROVE  Sum([times EXCEPT ![phase] = length]) = Sum(times) + length
<1>1. \A p \in Phases : times[p] \in Nat
  BY SumTypes
<1>2. \A p \in Phases : [times EXCEPT ![phase] = length][p] = IF p = phase THEN length ELSE times[p]
  OBVIOUS
<1> DEFINE later == [times EXCEPT ![phase] = length]
<1> HIDE DEF later
<1> QED
  BY <1>1, <1>2 DEF Sum, Phases, later

LEMMA NextPhaseUntimed ==
    ASSUME NEW times \in [Phases -> 0 .. MaxTime], NEW step \in DOMAIN Following,
           NEW next \in Following[step], NEW length, TimedUpTo(step, times)
    PROVE  /\ times[PhaseOf(step)] = 0
           /\ TimedUpTo(next, [times EXCEPT ![PhaseOf(step)] = length])
<1> DEFINE later == [times EXCEPT ![PhaseOf(step)] = length]
<1>1. \A p \in Phases : later[p] = IF p = PhaseOf(step) THEN length ELSE times[p]
  BY StepsFollow
<1>2. times[PhaseOf(step)] = 0
  BY StepsFollow DEF TimedUpTo, PhaseOf, Untimed, Phases
<1> HIDE DEF later
<1>3. TimedUpTo(next, later)
  <2>1. CASE step = "parse"
    BY <1>1, <2>1, StepsFollow DEF TimedUpTo, PhaseOf, Phases, Following, Untimed
  <2>2. CASE step = "normalize_validate"
    BY <1>1, <2>2, StepsFollow DEF TimedUpTo, PhaseOf, Phases, Following
  <2>3. CASE step = "retrieve"
    BY <1>1, <2>3, StepsFollow DEF TimedUpTo, PhaseOf, Phases, Following
  <2>4. CASE step = "decide"
    BY <1>1, <2>4, StepsFollow DEF TimedUpTo, PhaseOf, Phases, Following
  <2>5. CASE step = "response_build"
    BY <1>1, <2>5, StepsFollow DEF TimedUpTo, PhaseOf, Phases, Following
  <2>6. CASE step = "no_bid"
    BY <1>1, <2>6, StepsFollow DEF TimedUpTo, PhaseOf, Phases, Following
  <2>7. CASE step = "response_stage"
    BY <1>1, <2>7, StepsFollow DEF TimedUpTo, PhaseOf, Phases, Following
  <2> QED
    BY <2>1, <2>2, <2>3, <2>4, <2>5, <2>6, <2>7, StepsFollow
<1> QED
  BY <1>2, <1>3 DEF later

-----------------------------------------------------------------------------
LEMMA BeginInv ==
    ASSUME IInv, NEW w \in Workers, Begin(w)
    PROVE  IInv'
<1> USE DEF Begin
<1>1. Untimed \in [Phases -> 0 .. MaxTime] /\ Sum(Untimed) = 0
  BY BenchmarkAssumption DEF Untimed, Sum, Phases
<1>2. TypeOK'
  <2>1. pc' \in [Workers -> Steps]
    BY StepsFollow DEF IInv, TypeOK, Steps
  <2>2. timing' \in [Workers -> [Phases -> 0 .. MaxTime]]
    BY <1>1 DEF IInv, TypeOK
  <2>3. elapsed' \in [Workers -> 0 .. MaxTime] /\ received' \in 0 .. MaxRequests
    BY BenchmarkAssumption DEF IInv, TypeOK
  <2> QED
    BY <2>1, <2>2, <2>3 DEF IInv, TypeOK
<1>3. TimesFit'
  <2>1. ASSUME NEW v \in Workers PROVE (Busy(v)' => Sum(timing'[v]) <= elapsed'[v])
                                      /\ TimedUpTo(pc'[v], timing'[v])
    <3>1. CASE v = w
      BY <1>1, <3>1, StepsFollow DEF IInv, TypeOK, TimedUpTo, Untimed, Phases
    <3>2. CASE v # w
      <4>1. pc'[v] = pc[v] /\ timing'[v] = timing[v] /\ elapsed'[v] = elapsed[v]
        BY <3>2 DEF IInv, TypeOK
      <4> QED
        BY <4>1 DEF IInv, TimesFit, Busy
    <3> QED
      BY <3>1, <3>2
  <2> QED
    BY <2>1 DEF TimesFit, Busy
<1>4. PhasesWithinTotal'
  BY DEF IInv, PhasesWithinTotal
<1>5. LimitIsSeen'
  BY DEF IInv, TypeOK, LimitIsSeen, LimitPassed
<1> QED
  BY <1>2, <1>3, <1>4, <1>5 DEF IInv

LEMMA TimePhaseInv ==
    ASSUME IInv, NEW w \in Workers, NEW gap \in 0 .. MaxTime, NEW length \in 0 .. MaxTime,
           NEW next \in Steps, TimePhase(w, gap, length, next)
    PROVE  IInv'
<1> DEFINE step == pc[w]
           phase == PhaseOf(step)
           later == [timing[w] EXCEPT ![phase] = length]
<1>1. /\ step \in DOMAIN Following /\ next \in Following[step] /\ phase \in Phases
      /\ timing[w] \in [Phases -> 0 .. MaxTime] /\ elapsed[w] \in Nat
      /\ elapsed[w] + gap + length \in 0 .. MaxTime
  <2>1. step \in DOMAIN Following /\ next \in Following[step]
        /\ elapsed[w] + gap + length <= MaxTime
    BY DEF TimePhase
  <2>2. timing[w] \in [Phases -> 0 .. MaxTime] /\ elapsed[w] \in 0 .. MaxTime
    BY DEF IInv, TypeOK
  <2>3. elapsed[w] \in Nat /\ elapsed[w] + gap + length \in 0 .. MaxTime
    BY <2>1, <2>2, BenchmarkAssumption
  <2> QED
    BY <2>1, <2>2, <2>3, StepsFollow
<1>2. /\ timing' = [timing EXCEPT ![w] = later]
      /\ elapsed' = [elapsed EXCEPT ![w] = elapsed[w] + gap + length]
      /\ pc' = [pc EXCEPT ![w] = next]
      /\ UNCHANGED <<pending, received, requests, shutdown, summary, lost>>
  BY DEF TimePhase
<1>3. TimedUpTo(step, timing[w]) /\ Sum(timing[w]) <= elapsed[w]
  BY <1>1 DEF IInv, TimesFit, Busy
<1>4. timing[w][phase] = 0 /\ TimedUpTo(next, later)
  BY <1>1, <1>3, NextPhaseUntimed
<1>5. Sum(later) = Sum(timing[w]) + length
  BY <1>1, <1>4, SumWithPhase
<1>6. Sum(timing[w]) \in Nat
  BY <1>1, SumTypes DEF Sum, Phases
<1>7. later \in [Phases -> 0 .. MaxTime]
  BY <1>1
<1> HIDE DEF step, phase, later
<1>8. TypeOK'
  BY <1>1, <1>2, <1>7 DEF IInv, TypeOK
<1>9. TimesFit'
  <2>1. ASSUME NEW v \in Workers PROVE (Busy(v)' => Sum(timing'[v]) <= elapsed'[v])
                                      /\ TimedUpTo(pc'[v], timing'[v])
    <3>1. CASE v = w
      <4>1. pc'[v] = next /\ timing'[v] = later /\ elapsed'[v] = elapsed[w] + gap + length
        BY <1>2, <3>1 DEF IInv, TypeOK
      <4>2. Sum(later) <= elapsed[w] + gap + length
        BY <1>1, <1>3, <1>5, <1>6
      <4> QED
        BY <1>4, <4>1, <4>2
    <3>2. CASE v # w
      <4>1. pc'[v] = pc[v] /\ timing'[v] = timing[v] /\ elapsed'[v] = elapsed[v]
        BY <1>2, <3>2 DEF IInv, TypeOK
      <4> QED
        BY <4>1 DEF IInv, TimesFit, Busy
    <3> QED
      BY <3>1, <3>2
  <2> QED
    BY <2>1 DEF TimesFit, Busy
<1>10. PhasesWithinTotal'
  BY <1>2 DEF IInv, PhasesWithinTotal
<1>11. LimitIsSeen'
  <2>1. ASSUME NEW v \in Workers, pc[v] \in {"check", "signal"} PROVE pc'[v] = pc[v]
    BY <1>1, <1>2, <2>1, StepsFollow DEF IInv, TypeOK, step
  <2> QED
    BY <1>2, <2>1 DEF IInv, LimitIsSeen, LimitPassed
<1> QED
  BY <1>8, <1>9, <1>10, <1>11 DEF IInv

\* A worker that is at no phase, before and after, and whose times stay.
LEMMA TimesStay ==
    ASSUME IInv, NEW w \in Workers, UNCHANGED <<elapsed, timing>>,
           NEW step \in Steps \ (DOMAIN Following \cup {"record"}), pc' = [pc EXCEPT ![w] = step]
    PROVE  TimesFit' /\ pc' \in [Workers -> Steps]
<1>1. pc \in [Workers -> Steps]
  BY DEF IInv, TypeOK
<1>2. ASSUME NEW v \in Workers PROVE (Busy(v)' => Sum(timing'[v]) <= elapsed'[v])
                                    /\ TimedUpTo(pc'[v], timing'[v])
  <2>1. CASE v = w
    BY <1>1, <2>1, StepsFollow DEF TimedUpTo, Busy
  <2>2. CASE v # w
    BY <1>1, <2>2 DEF IInv, TimesFit, Busy
  <2> QED
    BY <2>1, <2>2
<1> QED
  BY <1>1, <1>2 DEF TimesFit, Busy

LEMMA RecordInv ==
    ASSUME IInv, NEW w \in Workers, Record(w), pending[w] < MaxPending
    PROVE  IInv'
<1> DEFINE record == [timing |-> timing[w], total |-> elapsed[w]]
<1>1. /\ requests' = Append(requests, record) /\ requests \in Seq(Records)
      /\ pc' = [pc EXCEPT ![w] = "wait"] /\ pending' = [pending EXCEPT ![w] = pending[w] + 1]
      /\ pending \in [Workers -> 0 .. MaxPending]
      /\ UNCHANGED <<elapsed, timing, received, shutdown, summary, lost>>
  BY DEF Record, IInv, TypeOK
<1>2. record \in Records
  BY DEF Records, IInv, TypeOK
<1>3. Sum(record.timing) <= record.total
  BY DEF Record, IInv, TimesFit, Busy
<1> HIDE DEF record
<1>4. TimesFit' /\ pc' \in [Workers -> Steps]
  BY <1>1, TimesStay, StepsFollow DEF Steps
<1>5. TypeOK'
  <2>1. pending' \in [Workers -> 0 .. MaxPending]
    BY <1>1, BenchmarkAssumption
  <2>2. requests' \in Seq(Records)
    BY <1>1, <1>2
  <2> QED
    BY <1>1, <1>4, <2>1, <2>2 DEF IInv, TypeOK
<1>6. PhasesWithinTotal'
  <2>1. ASSUME NEW n \in 1 .. Len(requests') PROVE Sum(requests'[n].timing) <= requests'[n].total
    BY <1>1, <1>2, <1>3 DEF IInv, PhasesWithinTotal
  <2> QED
    BY <2>1 DEF PhasesWithinTotal
<1>7. LimitIsSeen'
  <2>1. pending'[w] > 0
    BY <1>1
  <2> QED
    BY <2>1 DEF LimitIsSeen
<1> QED
  BY <1>4, <1>5, <1>6, <1>7 DEF IInv

LEMMA FlushInv ==
    ASSUME IInv, NEW w \in Workers, Flush(w) \/ Lose(w)
    PROVE  IInv'
<1>1. /\ pending' = [pending EXCEPT ![w] = pending[w] - 1] /\ pending[w] > 0
      /\ pc[w] = "wait" /\ pc' = [pc EXCEPT ![w] = pc'[w]] /\ pc'[w] \in {"wait", "check"}
      /\ UNCHANGED <<elapsed, timing, received, requests, shutdown, summary>>
      /\ lost' \in BOOLEAN
  BY DEF Flush, Lose, IInv, TypeOK
<1>2. TimesFit' /\ pc' \in [Workers -> Steps]
  <2> DEFINE step == pc'[w]
  <2>1. step \in Steps \ (DOMAIN Following \cup {"record"}) /\ pc' = [pc EXCEPT ![w] = step]
    BY <1>1, StepsFollow DEF Steps
  <2> HIDE DEF step
  <2> QED
    BY <1>1, <2>1, TimesStay
<1>3. pending' \in [Workers -> 0 .. MaxPending]
  BY <1>1, BenchmarkAssumption DEF IInv, TypeOK
<1>4. TypeOK'
  BY <1>1, <1>2, <1>3 DEF IInv, TypeOK
<1>5. PhasesWithinTotal'
  BY <1>1 DEF IInv, PhasesWithinTotal
<1>6. LimitIsSeen'
  <2>1. CASE Flush(w)
    <3>1. pc'[w] = "check"
      BY <2>1 DEF Flush, IInv, TypeOK
    <3> QED
      BY <3>1 DEF LimitIsSeen
  <2>2. CASE Lose(w)
    BY <2>2 DEF Lose, LimitIsSeen
  <2> QED
    BY <2>1, <2>2
<1> QED
  BY <1>2, <1>4, <1>5, <1>6 DEF IInv

LEMMA LookInv ==
    ASSUME IInv, NEW w \in Workers, Check(w) \/ Signal(w) \/ End(w)
    PROVE  IInv'
<1>1. /\ pc[w] \in {"check", "signal", "wait"}
      /\ pc' = [pc EXCEPT ![w] = pc'[w]] /\ pc'[w] \in {"wait", "signal", "ended"}
      /\ UNCHANGED <<elapsed, timing, pending, received, requests, summary, lost>>
      /\ shutdown' \in BOOLEAN
  BY DEF Check, Signal, End, IInv, TypeOK
<1>2. TimesFit' /\ pc' \in [Workers -> Steps]
  <2> DEFINE step == pc'[w]
  <2>1. step \in Steps \ (DOMAIN Following \cup {"record"}) /\ pc' = [pc EXCEPT ![w] = step]
    BY <1>1, StepsFollow DEF Steps
  <2> HIDE DEF step
  <2> QED
    BY <1>1, <2>1, TimesStay
<1>3. TypeOK'
  BY <1>1, <1>2 DEF IInv, TypeOK
<1>4. PhasesWithinTotal'
  BY <1>1 DEF IInv, PhasesWithinTotal
<1>5. LimitIsSeen'
  <2>1. CASE Check(w)
    <3>1. LimitPassed => pc'[w] = "signal"
      BY <2>1 DEF Check, request_limit_reached, LimitPassed, IInv, TypeOK
    <3>2. LimitPassed' = LimitPassed
      BY <1>1 DEF LimitPassed
    <3> QED
      BY <3>1, <3>2 DEF LimitIsSeen
  <2>2. CASE Signal(w)
    BY <2>2 DEF Signal, LimitIsSeen
  <2>3. CASE End(w)
    BY <2>3 DEF End, LimitIsSeen
  <2> QED
    BY <2>1, <2>2, <2>3
<1> QED
  BY <1>2, <1>3, <1>4, <1>5 DEF IInv

LEMMA OtherInv ==
    ASSUME IInv, RequestShutdown \/ PrintSummary \/ UNCHANGED vars
    PROVE  IInv'
<1>1. /\ UNCHANGED <<pc, elapsed, timing, pending, received, requests, lost>>
      /\ shutdown' = shutdown \/ shutdown' = TRUE
  BY DEF RequestShutdown, PrintSummary, vars
<1>2. TypeOK'
  BY <1>1 DEF IInv, TypeOK
<1>3. TimesFit' /\ PhasesWithinTotal'
  BY <1>1 DEF IInv, TimesFit, Busy, PhasesWithinTotal
<1>4. LimitIsSeen'
  BY <1>1 DEF IInv, LimitIsSeen, LimitPassed
<1> QED
  BY <1>2, <1>3, <1>4 DEF IInv

LEMMA RoomInv ==
    ASSUME IInv, RoomForReply, [Next]_vars
    PROVE  RoomForReply'
<1> USE DEF RoomForReply, Busy
<1>0. pc \in [Workers -> Steps] /\ pending \in [Workers -> 0 .. MaxPending]
  BY DEF IInv, TypeOK
<1>1. ASSUME NEW w \in Workers, Begin(w) PROVE RoomForReply'
  BY <1>0, <1>1, StepsFollow DEF Begin
<1>2. ASSUME NEW w \in Workers, HandleStep(w) PROVE RoomForReply'
  BY <1>0, <1>2, StepsFollow DEF HandleStep, TimePhase
<1>3. ASSUME NEW w \in Workers, Record(w) \/ Flush(w) \/ Lose(w) \/ Check(w) \/ Signal(w) \/ End(w)
      PROVE  RoomForReply'
  <2>1. pc' = [pc EXCEPT ![w] = pc'[w]] /\ pc'[w] \notin DOMAIN Following \cup {"record"}
    BY <1>0, <1>3, StepsFollow DEF Record, Flush, Lose, Check, Signal, End
  <2>2. \A v \in Workers : v # w => pending'[v] = pending[v] /\ pc'[v] = pc[v]
    BY <1>0, <1>3 DEF Record, Flush, Lose, Check, Signal, End
  <2> QED
    BY <2>1, <2>2
<1>4. CASE RequestShutdown \/ PrintSummary \/ UNCHANGED vars
  BY <1>4 DEF RequestShutdown, PrintSummary, vars
<1> QED
  BY <1>1, <1>2, <1>3, <1>4 DEF Next, Worker

LEMMA ReportedInv == Reported /\ [Next]_vars => Reported'
<1> SUFFICES ASSUME Reported, [Next]_vars PROVE Reported'
  OBVIOUS
<1>1. ASSUME NEW w \in Workers, Worker(w) PROVE Reported'
  <2>1. pc[w] # "ended" /\ UNCHANGED summary
    BY <1>1, StepsFollow DEF Worker, Begin, HandleStep, TimePhase, Record, Flush, Lose, Check, Signal, End
  <2> QED
    BY <2>1 DEF Reported
<1>2. CASE PrintSummary
  <2>1. summarize' = summarize
    BY <1>2 DEF PrintSummary, summarize, ValuesOf
  <2> QED
    BY <1>2, <2>1 DEF PrintSummary, Reported
<1>3. CASE RequestShutdown \/ UNCHANGED vars
  <2>1. UNCHANGED <<pc, requests, summary>>
    BY <1>3 DEF RequestShutdown, vars
  <2>2. summarize' = summarize
    BY <2>1 DEF summarize, ValuesOf
  <2> QED
    BY <2>1, <2>2 DEF Reported
<1> QED
  BY <1>1, <1>2, <1>3 DEF Next

\* Every value of a phase is at most the total of its request.
LEMMA PhaseAtMostTotal ==
    ASSUME IInv, NEW phase \in Phases
    PROVE  AtMost(ValuesOf(phase), ValuesOf("total_internal")) /\ Len(ValuesOf(phase)) = Len(requests)
<1> DEFINE n == Len(requests)
           lower == [k \in 1 .. n |-> requests[k].timing[phase]]
           upper == [k \in 1 .. n |-> requests[k].total]
<1>1. n \in Nat /\ requests \in Seq(Records)
  BY DEF IInv, TypeOK
<1>2. ASSUME NEW k \in 1 .. n
      PROVE  /\ requests[k].timing[phase] \in Nat /\ requests[k].total \in Nat
             /\ requests[k].timing[phase] <= requests[k].total
  <2> DEFINE times == requests[k].timing
  <2>1. requests[k] \in Records
    BY <1>1
  <2>2. times \in [Phases -> 0 .. MaxTime] /\ requests[k].total \in 0 .. MaxTime
    BY <2>1 DEF Records
  <2>3. requests[k].total \in Nat
    BY <2>2, BenchmarkAssumption
  <2>4. Sum(times) <= requests[k].total
    BY DEF IInv, PhasesWithinTotal
  <2> HIDE DEF times
  <2>5. times[phase] \in Nat /\ Sum(times) \in Nat /\ times[phase] <= Sum(times)
    BY <2>2, PhaseWithinSum
  <2> QED
    BY <2>3, <2>4, <2>5 DEF times
<1>3. phase # "total_internal"
  BY DEF Phases
<1>4. ValuesOf(phase) = lower /\ ValuesOf("total_internal") = upper
  BY <1>3 DEF ValuesOf
<1>5. lower \in [1 .. n -> Nat] /\ upper \in [1 .. n -> Nat]
  BY <1>2
<1>6. lower \in Seq(Nat) /\ upper \in Seq(Nat) /\ Len(lower) = n /\ Len(upper) = n
  BY <1>1, <1>5
<1>7. \A k \in 1 .. n : lower[k] <= upper[k]
  BY <1>2
<1> HIDE DEF lower, upper
<1> QED
  BY <1>4, <1>6, <1>7 DEF AtMost

LEMMA StepInv == IInv /\ RoomForReply /\ [Next]_vars => IInv'
<1> SUFFICES ASSUME IInv, RoomForReply, [Next]_vars PROVE IInv'
  OBVIOUS
<1>1. ASSUME NEW w \in Workers, Worker(w) PROVE IInv'
  <2>1. CASE Begin(w)
    BY <2>1, BeginInv
  <2>2. CASE HandleStep(w)
    BY <2>2, TimePhaseInv DEF HandleStep
  <2>3. CASE Record(w)
    <3>1. pending[w] < MaxPending
      BY <2>3 DEF Record, RoomForReply, Busy
    <3> QED
      BY <2>3, <3>1, RecordInv
  <2>4. CASE Flush(w) \/ Lose(w)
    BY <2>4, FlushInv
  <2>5. CASE Check(w) \/ Signal(w) \/ End(w)
    BY <2>5, LookInv
  <2> QED
    BY <1>1, <2>1, <2>2, <2>3, <2>4, <2>5 DEF Worker
<1>2. CASE RequestShutdown \/ PrintSummary \/ UNCHANGED vars
  BY <1>2, OtherInv
<1> QED
  BY <1>1, <1>2 DEF Next

-----------------------------------------------------------------------------
\* The invariant of the benchmark, for any workers, limit and bounds.
THEOREM BenchmarkInvariant == Spec => []IInv
<1>1. Init => RoomForReply
  BY StepsFollow DEF Init, RoomForReply, Busy
<1>2. IInv /\ RoomForReply /\ [Next]_vars => IInv' /\ RoomForReply'
  BY StepInv, RoomInv
<1> QED
  BY <1>1, <1>2, InitInv, PTL DEF Spec

\* The recorder's list and the workers' state have their types.
THEOREM BenchmarkTypeCorrect == Spec => []TypeOK
<1>1. IInv => TypeOK
  BY DEF IInv
<1> QED
  BY <1>1, BenchmarkInvariant, PTL

\* Whatever time the phases of process_ready_frames and handle_request take, and whichever
\* of them a request goes through, they add up to no more than its total.
THEOREM PhasesFitTheTotal == Spec => []PhasesWithinTotal
<1>1. IInv => PhasesWithinTotal
  BY DEF IInv
<1> QED
  BY <1>1, BenchmarkInvariant, PTL

\* However many workers record and look at the limit at once, the last look that follows the
\* record of the limit's request sees it: request_limit_reached compares by >=.
THEOREM LimitIsNotOverlooked == Spec => []LimitIsSeen
<1>1. IInv => LimitIsSeen
  BY DEF IInv
<1> QED
  BY <1>1, BenchmarkInvariant, PTL

\* However the requests went and whatever the values, no figure of a phase that
\* print_summary shows is above the same figure of the total: the least, the greatest, the
\* sum and the percentiles, each phase sorted on its own, over all the requests recorded.
THEOREM SummaryIsConsistent == Spec => []SummariesAgree
<1>1. IInv /\ Reported => SummariesAgree
  <2> SUFFICES ASSUME IInv, Reported, summary # NoSummary
               PROVE  \A phase \in Phases :
                        /\ \A figure \in DOMAIN summary["total_internal"] :
                              summary[phase][figure] <= summary["total_internal"][figure]
                        /\ summary[phase].count = Len(requests)
    BY DEF SummariesAgree
  <2> TAKE phase \in Phases
  <2>1. summary[phase] = summarize_phase(ValuesOf(phase))
        /\ summary["total_internal"] = summarize_phase(ValuesOf("total_internal"))
    BY DEF Reported, summarize
  <2> QED
    BY <2>1, PhaseAtMostTotal, SummariesOrdered
<1>2. Init => Reported
  BY DEF Init, Reported
<1> QED
  BY <1>1, <1>2, ReportedInv, BenchmarkInvariant, PTL DEF Spec
=============================================================================
