------------------------------ MODULE SlaProofs ------------------------------
(***************************************************************************)
(* The availability reports, for any tables, spans and numbers of targets: *)
(* the interval arithmetic of stats.rs counts the seconds it should, and   *)
(* what a page shows is still true of the tables when it is shown, though  *)
(* they went on changing while it was built.                               *)
(***************************************************************************)
EXTENDS Sla, FiniteSetTheorems, SequenceTheorems, NaturalsInduction, WellFoundedInduction, TLAPS

\* A set of numbers that is not empty has a least one.
LEMMA LeastNumber ==
    ASSUME NEW S \in SUBSET Nat, S # {}
    PROVE  \E m \in S : \A n \in S : m <= n
<1>1. PICK m \in S : \A n \in S : ~(<<n, m>> \in OpToRel(<, Nat))
  BY NatLessThanWellFounded, WFMin
<1>2. \A n \in S : ~(n < m)
  BY <1>1 DEF OpToRel
<1> QED BY <1>2

\* Induction, over a set of numbers instead of a predicate.
LEMMA Counting ==
    ASSUME NEW S, 0 \in S, \A n \in Nat : n \in S => n + 1 \in S
    PROVE  Nat \subseteq S
<1> DEFINE rest == Nat \ S
<1>1. SUFFICES ASSUME rest # {} PROVE FALSE
  OBVIOUS
<1>2. PICK m \in rest : \A n \in rest : m <= n
  <2> HIDE DEF rest
  <2>1. rest \in SUBSET Nat
    BY DEF rest
  <2> QED BY <1>1, <2>1, LeastNumber
<1>3. m # 0 /\ m \in Nat
  OBVIOUS
<1>4. m - 1 \in Nat /\ ~(m <= m - 1) /\ (m - 1) + 1 = m
  BY <1>3
<1>5. m - 1 \in S
  BY <1>2, <1>4
<1> QED BY <1>4, <1>5

\* The greater and the lesser of two numbers.
LEMMA MaxMin ==
    ASSUME NEW a \in Int, NEW b \in Int
    PROVE  /\ Max({a, b}) = IF a >= b THEN a ELSE b
           /\ Min({a, b}) = IF a <= b THEN a ELSE b
<1>1. \A x \in {a, b} : (\A y \in {a, b} : x >= y) <=> x = (IF a >= b THEN a ELSE b)
  OBVIOUS
<1>2. Max({a, b}) = IF a >= b THEN a ELSE b
  <2>1. PICK m : m = IF a >= b THEN a ELSE b
    OBVIOUS
  <2>2. m \in {a, b} /\ \A y \in {a, b} : m >= y
    BY <2>1
  <2>3. \A x \in {a, b} : (\A y \in {a, b} : x >= y) => x = m
    BY <2>1
  <2> QED BY <2>1, <2>2, <2>3 DEF Max
<1>3. Min({a, b}) = IF a <= b THEN a ELSE b
  <2>1. PICK m : m = IF a <= b THEN a ELSE b
    OBVIOUS
  <2>2. m \in {a, b} /\ \A y \in {a, b} : m =< y
    BY <2>1
  <2>3. \A x \in {a, b} : (\A y \in {a, b} : x =< y) => x = m
    BY <2>1
  <2> QED BY <2>1, <2>2, <2>3 DEF Min
<1> QED BY <1>2, <1>3
----------------------------------------------------------------------------
(* Sums.                                                                   *)

\* What Total tabulates.
Sums(numbers, n, f) ==
    f = [k \in 0 .. n |-> IF k = 0 THEN 0 ELSE f[k - 1] + numbers[k]]

\* There is a table of the partial sums, however many numbers there are.
LEMMA SumsExist ==
    ASSUME NEW numbers
    PROVE  \A n \in Nat : \E f : Sums(numbers, n, f)
<1> DEFINE S == {n \in Nat : \E f : Sums(numbers, n, f)}
<1>1. 0 \in S
  <2> DEFINE f == [k \in 0 .. 0 |-> 0]
  <2>1. Sums(numbers, 0, f)
    BY DEF Sums
  <2> QED BY <2>1
<1>2. ASSUME NEW n \in Nat, n \in S PROVE n + 1 \in S
  <2>1. PICK f : Sums(numbers, n, f)
    BY <1>2
  <2> DEFINE Turn(h, k) == IF k = 0 THEN 0 ELSE h[k - 1] + numbers[k]
             g == [k \in 0 .. n + 1 |-> Turn(f, k)]
  <2>2. f = [k \in 0 .. n |-> Turn(f, k)]
    BY <2>1 DEF Sums
  <2>3. ASSUME NEW k \in 0 .. n PROVE g[k] = f[k]
    <3>1. k \in 0 .. n + 1
      OBVIOUS
    <3> HIDE DEF Turn
    <3>2. g[k] = Turn(f, k) /\ f[k] = Turn(f, k)
      BY <2>2, <3>1
    <3> QED BY <3>2
  <2>4. ASSUME NEW k \in 0 .. n + 1 PROVE Turn(f, k) = Turn(g, k)
    <3>1. CASE k = 0
      BY <3>1
    <3>2. CASE k # 0
      <4>1. k - 1 \in 0 .. n
        BY <3>2
      <4>2. g[k - 1] = f[k - 1]
        BY <2>3, <4>1
      <4> HIDE DEF g
      <4> QED BY <4>2
    <3> QED BY <3>1, <3>2
  <2>5. g = [k \in 0 .. n + 1 |-> Turn(g, k)]
    <3> HIDE DEF Turn
    <3>1. g = [k \in 0 .. n + 1 |-> Turn(f, k)]
      OBVIOUS
    <3> HIDE DEF g
    <3> QED BY <2>4, <3>1
  <2>6. Sums(numbers, n + 1, g)
    <3> HIDE DEF g
    <3> QED BY <2>5 DEF Sums
  <2> QED BY <2>6
<1>3. Nat \subseteq S
  <2> HIDE DEF S
  <2> QED BY <1>1, <1>2, Counting
<1> QED BY <1>3

\* Total is the last entry of such a table.
LEMMA TotalTable ==
    ASSUME NEW numbers, NEW n \in Nat, n = Len(numbers)
    PROVE  \E f : /\ f[0] = 0 /\ \A k \in 1 .. n : f[k] = f[k - 1] + numbers[k]
                  /\ Total(numbers) = f[n]
<1> DEFINE f == CHOOSE g : Sums(numbers, n, g)
<1>1. Total(numbers) = f[n]
  BY DEF Total, Sums
<1>2. Sums(numbers, n, f)
  BY SumsExist
<1> HIDE DEF f
<1>3. f[0] = 0
  BY <1>2 DEF Sums
<1>4. ASSUME NEW k \in 1 .. n PROVE f[k] = f[k - 1] + numbers[k]
  <2>1. k \in 0 .. n /\ k # 0
    OBVIOUS
  <2> QED BY <1>2, <2>1 DEF Sums
<1> QED BY <1>1, <1>3, <1>4

\* The sum of the sizes of sets that have nothing in common is the size of
\* their union.
LEMMA DisjointTotal ==
    ASSUME NEW numbers, NEW n \in Nat, n = Len(numbers), NEW sets,
           \A i \in 1 .. n : IsFiniteSet(sets[i]) /\ Cardinality(sets[i]) = numbers[i],
           \A i, j \in 1 .. n : i # j => sets[i] \cap sets[j] = {}
    PROVE  /\ IsFiniteSet(UNION {sets[i] : i \in 1 .. n})
           /\ Total(numbers) = Cardinality(UNION {sets[i] : i \in 1 .. n})
<1> DEFINE Joint(k) == UNION {sets[i] : i \in 1 .. k}
<1>1. PICK f : /\ f[0] = 0 /\ \A k \in 1 .. n : f[k] = f[k - 1] + numbers[k]
               /\ Total(numbers) = f[n]
  BY TotalTable
<1> DEFINE S == {k \in Nat : k <= n => IsFiniteSet(Joint(k)) /\ Cardinality(Joint(k)) = f[k]}
<1>2. 0 \in S
  <2>1. Joint(0) = {}
    OBVIOUS
  <2> QED BY <1>1, <2>1, FS_EmptySet
<1>3. ASSUME NEW k \in Nat, k \in S PROVE k + 1 \in S
  <2>1. SUFFICES ASSUME k + 1 <= n
                 PROVE  IsFiniteSet(Joint(k + 1)) /\ Cardinality(Joint(k + 1)) = f[k + 1]
    OBVIOUS
  <2>2. PICK m \in 1 .. n : m = k + 1 /\ m - 1 = k /\ k <= n
    BY <2>1
  <2>3. Joint(m) = Joint(k) \cup sets[m]
    <3>1. 1 .. m = (1 .. k) \cup {m}
      BY <2>2
    <3> QED BY <3>1
  <2>4. Joint(k) \cap sets[m] = {}
    <3>1. ASSUME NEW i \in 1 .. k PROVE sets[i] \cap sets[m] = {}
      <4>1. i \in 1 .. n /\ i # m
        BY <2>2
      <4> QED BY <4>1
    <3> QED BY <3>1
  <2>5. IsFiniteSet(Joint(k)) /\ Cardinality(Joint(k)) = f[k]
    BY <1>3, <2>2
  <2>6. IsFiniteSet(sets[m]) /\ Cardinality(sets[m]) = numbers[m]
    BY <2>2
  <2>7. f[m] = f[k] + numbers[m]
    BY <1>1, <2>2
  <2> HIDE DEF Joint
  <2>8. IsFiniteSet(Joint(m))
    <3>1. IsFiniteSet(Joint(k) \cup sets[m])
      BY <2>5, <2>6, FS_Union
    <3> QED BY <2>3, <3>1
  <2>9. Cardinality(Joint(m)) = Cardinality(Joint(k)) + Cardinality(sets[m])
    <3>1. Cardinality(Joint(k)) \in Nat /\ Cardinality(sets[m]) \in Nat
      BY <2>5, <2>6, FS_CardinalityType
    <3>2. Cardinality(Joint(k) \cup sets[m])
            = Cardinality(Joint(k)) + Cardinality(sets[m]) - Cardinality(Joint(k) \cap sets[m])
      BY <2>5, <2>6, FS_Union
    <3>3. Cardinality(Joint(k) \cap sets[m]) = 0
      BY <2>4, FS_EmptySet
    <3> QED BY <2>3, <3>1, <3>2, <3>3
  <2> QED BY <2>2, <2>5, <2>6, <2>7, <2>8, <2>9
<1>4. Nat \subseteq S
  <2> HIDE DEF S
  <2> QED BY <1>2, <1>3, Counting
<1>5. n \in S
  <2> HIDE DEF S
  <2> QED BY <1>4
<1>6. n <= n
  OBVIOUS
<1>7. IsFiniteSet(Joint(n)) /\ Cardinality(Joint(n)) = f[n]
  <2> HIDE DEF Joint
  <2> QED BY <1>5, <1>6
<1> QED BY <1>1, <1>7
----------------------------------------------------------------------------
(* Sequences of ranges that lie apart, and the seconds they cover.         *)

Spans == [start : Int, end : Int]

Within(r, x) == r.start <= x /\ x < r.end

Covers(ranges, n, x) == \E i \in 1 .. n : Within(ranges[i], x)

Cover(ranges) == {x \in Int : Covers(ranges, Len(ranges), x)}

Apart(ranges) ==
    /\ ranges \in Seq(Spans)
    /\ \A i \in 1 .. Len(ranges) : ranges[i].start < ranges[i].end
    /\ \A i, j \in 1 .. Len(ranges) : i < j => ranges[i].end <= ranges[j].start

\* The seconds of a range, and how many they are (Range::len).
LEMMA SecondsOf ==
    ASSUME NEW r \in Spans
    PROVE  /\ Seconds(r) = {x \in Int : Within(r, x)}
           /\ IsFiniteSet(Seconds(r)) /\ Cardinality(Seconds(r)) = Length(r)
<1>1. r.start \in Int /\ r.end \in Int
  BY DEF Spans
<1>2. Seconds(r) = {x \in Int : Within(r, x)}
  BY <1>1 DEF Seconds, Within
<1>3. PICK b \in Int : b = r.end - 1
  BY <1>1
<1>4. /\ IsFiniteSet(r.start .. b)
      /\ Cardinality(r.start .. b) = IF r.start > b THEN 0 ELSE b - r.start + 1
  BY <1>1, FS_Interval
<1>5. PICK d \in Int : d = r.end - r.start
  BY <1>1
<1>6. Length(r) = IF d >= 0 THEN d ELSE 0
  BY <1>5, MaxMin DEF Length
<1>7. Seconds(r) = r.start .. b
  BY <1>3 DEF Seconds
<1>8. (IF r.start > b THEN 0 ELSE b - r.start + 1) = IF d >= 0 THEN d ELSE 0
  BY <1>1, <1>3, <1>5
<1> QED BY <1>2, <1>4, <1>6, <1>7, <1>8

\* total_seconds counts what the ranges cover, when they lie apart.
LEMMA TotalCounts ==
    ASSUME NEW ranges, Apart(ranges)
    PROVE  /\ IsFiniteSet(Cover(ranges))
           /\ TotalSeconds(ranges) = Cardinality(Cover(ranges))
<1> DEFINE n == Len(ranges)
           numbers == [i \in DOMAIN ranges |-> Length(ranges[i])]
           sets == [i \in 1 .. n |-> Seconds(ranges[i])]
<1>1. ranges \in Seq(Spans) /\ n \in Nat /\ DOMAIN ranges = 1 .. n
  BY DEF Apart
<1>2. \A i \in 1 .. n : ranges[i] \in Spans
  BY <1>1
<1>3. Len(numbers) = n
  <2>1. numbers \in [1 .. n -> {Length(ranges[i]) : i \in 1 .. n}]
    BY <1>1
  <2>2. numbers \in Seq({Length(ranges[i]) : i \in 1 .. n})
    BY <1>1, <2>1, SeqDef
  <2>3. DOMAIN numbers = 1 .. Len(numbers) /\ Len(numbers) \in Nat
    <3> HIDE DEF numbers
    <3> QED BY <2>2
  <2> QED BY <1>1, <2>3
<1>4. \A i \in 1 .. n : IsFiniteSet(sets[i]) /\ Cardinality(sets[i]) = numbers[i]
  BY <1>1, <1>2, SecondsOf
<1>5. ASSUME NEW i \in 1 .. n, NEW j \in 1 .. n, i # j PROVE sets[i] \cap sets[j] = {}
  <2>1. ranges[i].end <= ranges[j].start \/ ranges[j].end <= ranges[i].start
    BY <1>1, <1>5 DEF Apart
  <2>2. ranges[i] \in Spans /\ ranges[j] \in Spans
    BY <1>2
  <2>3. \A x \in Int : ~(Within(ranges[i], x) /\ Within(ranges[j], x))
    BY <2>1, <2>2 DEF Within, Spans
  <2> QED BY <2>2, <2>3, SecondsOf
<1>6. UNION {sets[i] : i \in 1 .. n} = Cover(ranges)
  <2>1. \A i \in 1 .. n : sets[i] = {x \in Int : Within(ranges[i], x)}
    BY <1>2, SecondsOf
  <2> HIDE DEF sets
  <2> QED BY <2>1 DEF Cover, Covers
<1>7. /\ IsFiniteSet(UNION {sets[i] : i \in 1 .. n})
      /\ Total(numbers) = Cardinality(UNION {sets[i] : i \in 1 .. n})
  <2> HIDE DEF numbers, sets, n
  <2> QED BY <1>1, <1>3, <1>4, <1>5, DisjointTotal, SMTT(60)
<1> QED BY <1>6, <1>7 DEF TotalSeconds

\* One range more at the end.
LEMMA Appending ==
    ASSUME NEW ranges, Apart(ranges), NEW r \in Spans, r.start < r.end,
           \A i \in 1 .. Len(ranges) : ranges[i].end <= r.start
    PROVE  LET out == Append(ranges, r)
           IN /\ Apart(out) /\ Len(out) = Len(ranges) + 1 /\ Last(out) = r
              /\ \A i \in 1 .. Len(ranges) : out[i] = ranges[i]
              /\ \A x \in Int : x \in Cover(out) <=> x \in Cover(ranges) \/ Within(r, x)
<1> DEFINE out == Append(ranges, r)
           n == Len(ranges)
<1>1. ranges \in Seq(Spans) /\ n \in Nat
  BY DEF Apart
<1>2. PICK m \in Nat : m = n + 1
  BY <1>1
<1>3. /\ out \in Seq(Spans) /\ Len(out) = m /\ out[m] = r
      /\ \A i \in 1 .. n : out[i] = ranges[i]
  BY <1>1, <1>2
<1>4. Last(out) = r
  BY <1>3 DEF Last
<1>5. 1 .. m = (1 .. n) \cup {m}
  BY <1>1, <1>2
<1> HIDE DEF out
<1>6. \A i \in 1 .. m : out[i].start < out[i].end
  BY <1>3, <1>5 DEF Apart
<1>7. ASSUME NEW i \in 1 .. m, NEW j \in 1 .. m, i < j PROVE out[i].end <= out[j].start
  <2>1. i \in 1 .. n
    BY <1>1, <1>2, <1>7
  <2>2. CASE j = m
    BY <1>3, <2>1, <2>2
  <2>3. CASE j # m
    <3>1. j \in 1 .. n
      BY <1>5, <2>3
    <3> QED BY <1>3, <1>7, <2>1, <3>1 DEF Apart
  <2> QED BY <2>2, <2>3
<1>8. Apart(out)
  BY <1>3, <1>6, <1>7 DEF Apart
<1>9. ASSUME NEW x \in Int PROVE x \in Cover(out) <=> x \in Cover(ranges) \/ Within(r, x)
  <2>1. Covers(out, m, x) <=> Covers(ranges, n, x) \/ Within(r, x)
    BY <1>3, <1>5 DEF Covers
  <2> QED BY <1>3, <2>1 DEF Cover
<1> QED BY <1>2, <1>3, <1>4, <1>8, <1>9 DEF out

\* merge_intervals takes in the next range.
LEMMA Merging ==
    ASSUME NEW ranges, Apart(ranges), NEW r \in Spans, r.start < r.end,
           ranges # <<>> => Last(ranges).start <= r.start
    PROVE  LET out == Merged(ranges, r)
           IN /\ Apart(out) /\ out # <<>> /\ Last(out).start <= r.start
              /\ \A x \in Int : x \in Cover(out) <=> x \in Cover(ranges) \/ Within(r, x)
<1> DEFINE out == Merged(ranges, r)
           n == Len(ranges)
<1>1. ranges \in Seq(Spans) /\ n \in Nat /\ DOMAIN ranges = 1 .. n
  BY DEF Apart
<1>2. r.start \in Int /\ r.end \in Int
  BY DEF Spans
<1>3. CASE ~(ranges # <<>> /\ r.start <= Last(ranges).end)
  <2>1. out = Append(ranges, r)
    BY <1>3 DEF Merged
  <2>2. \A i \in 1 .. n : ranges[i].end <= r.start
    <3>1. SUFFICES ASSUME NEW i \in 1 .. n PROVE ranges[i].end <= r.start
      OBVIOUS
    <3>2. n \in 1 .. n /\ ranges # <<>> /\ Last(ranges) = ranges[n]
      BY <1>1 DEF Last
    <3>3. ranges[n] \in Spans /\ ranges[i] \in Spans
      BY <1>1, <3>2
    <3>4. ranges[n].end < r.start
      BY <1>2, <1>3, <3>2, <3>3 DEF Spans
    <3>5. ranges[n].start < ranges[n].end
      BY <3>2 DEF Apart
    <3>6. CASE i = n
      BY <1>2, <3>3, <3>4, <3>6 DEF Spans
    <3>7. CASE i # n
      <4>1. i < n
        <5>1. n \in Nat
          BY <1>1
        <5> HIDE DEF n
        <5> QED BY <3>7, <5>1
      <4>2. ranges[i].end <= ranges[n].start
        BY <3>2, <4>1 DEF Apart
      <4> QED BY <1>2, <3>3, <3>4, <3>5, <4>2 DEF Spans
    <3> QED BY <3>6, <3>7
  <2>3. Apart(out) /\ Len(out) = n + 1 /\ Last(out) = r
        /\ \A x \in Int : x \in Cover(out) <=> x \in Cover(ranges) \/ Within(r, x)
    BY <2>1, <2>2, Appending
  <2>4. out # <<>>
    BY <1>1, <2>1
  <2> HIDE DEF out
  <2> QED BY <1>2, <2>3, <2>4 DEF out
<1>4. CASE ranges # <<>> /\ r.start <= Last(ranges).end
  <2>1. n \in 1 .. n /\ Last(ranges) = ranges[n] /\ ranges[n] \in Spans
    BY <1>1, <1>4 DEF Last
  <2>2. PICK e \in Int : e = Max({ranges[n].end, r.end})
                         /\ e = IF ranges[n].end >= r.end THEN ranges[n].end ELSE r.end
    BY <1>2, <2>1, MaxMin DEF Spans
  <2>3. out = [ranges EXCEPT ![n].end = e]
    BY <1>4, <2>2 DEF Merged
  <2>4. PICK last \in Spans : /\ last = [ranges[n] EXCEPT !.end = e]
                              /\ last.start = ranges[n].start /\ last.end = e
    <3>1. PICK s \in Int : s = ranges[n].start
      BY <2>1 DEF Spans
    <3>2. ranges[n] = [start |-> s, end |-> ranges[n].end]
      BY <2>1, <3>1 DEF Spans
    <3>3. [ranges[n] EXCEPT !.end = e] = [start |-> s, end |-> e]
      BY <3>2
    <3>4. [start |-> s, end |-> e] \in Spans
      BY DEF Spans
    <3> QED BY <3>1, <3>3, <3>4
  <2>5. out = [ranges EXCEPT ![n] = last]
    BY <2>3, <2>4
  <2>6. /\ out \in Seq(Spans) /\ Len(out) = n /\ out[n] = last
        /\ \A i \in 1 .. n : i # n => out[i] = ranges[i]
    BY <1>1, <2>1, <2>4, <2>5
  <2>7. out # <<>> /\ Last(out) = last
    BY <2>1, <2>6 DEF Last
  <2> HIDE DEF out
  <2>8. /\ ranges[n].start <= r.start /\ r.start <= ranges[n].end
        /\ ranges[n].start < ranges[n].end
        /\ ranges[n].start \in Int /\ ranges[n].end \in Int
    BY <1>4, <2>1 DEF Apart, Spans
  <2>9. last.start <= r.start /\ last.start < last.end
    BY <1>2, <2>2, <2>4, <2>8
  <2>10. Apart(out)
    <3>1. \A i \in 1 .. n : out[i].start < out[i].end
      BY <2>6, <2>9 DEF Apart
    <3>2. ASSUME NEW i \in 1 .. n, NEW j \in 1 .. n, i < j PROVE out[i].end <= out[j].start
      <4>1. i # n
        <5>1. n \in Nat
          BY <1>1
        <5> HIDE DEF n
        <5> QED BY <3>2, <5>1
      <4>3. out[i] = ranges[i]
        BY <2>6, <4>1
      <4>2. out[j].start = ranges[j].start
        BY <2>4, <2>6
      <4> QED BY <3>2, <4>2, <4>3 DEF Apart
    <3> QED BY <2>6, <3>1, <3>2 DEF Apart
  <2>11. ASSUME NEW x \in Int PROVE x \in Cover(out) <=> x \in Cover(ranges) \/ Within(r, x)
    <3>1. Within(last, x) <=> Within(ranges[n], x) \/ Within(r, x)
      BY <1>2, <2>2, <2>4, <2>8 DEF Within
    <3>2. Covers(out, n, x) <=> (\E i \in 1 .. n : i # n /\ Within(ranges[i], x)) \/ Within(last, x)
      BY <2>1, <2>6 DEF Covers
    <3>3. Covers(ranges, n, x) <=>
             (\E i \in 1 .. n : i # n /\ Within(ranges[i], x)) \/ Within(ranges[n], x)
      BY <2>1 DEF Covers
    <3> QED BY <2>6, <3>1, <3>2, <3>3 DEF Cover
  <2> QED BY <2>7, <2>9, <2>10, <2>11 DEF out
<1> QED BY <1>3, <1>4
----------------------------------------------------------------------------
(* merge_intervals.                                                        *)

\* What Union tabulates.
Merges(ranges, n, f) ==
    f = [k \in 0 .. n |-> IF k = 0 THEN [left |-> ranges, out |-> <<>>] ELSE MergeNext(f[k - 1])]

\* There is such a table, however many ranges there are.
LEMMA MergesExist ==
    ASSUME NEW ranges
    PROVE  \A n \in Nat : \E f : Merges(ranges, n, f)
<1> DEFINE S == {n \in Nat : \E f : Merges(ranges, n, f)}
           Turn(h, k) == IF k = 0 THEN [left |-> ranges, out |-> <<>>] ELSE MergeNext(h[k - 1])
<1>1. 0 \in S
  <2> DEFINE f == [k \in 0 .. 0 |-> [left |-> ranges, out |-> <<>>]]
  <2>1. Merges(ranges, 0, f)
    BY DEF Merges
  <2> QED BY <2>1
<1>2. ASSUME NEW n \in Nat, n \in S PROVE n + 1 \in S
  <2>1. PICK f : Merges(ranges, n, f)
    BY <1>2
  <2> DEFINE g == [k \in 0 .. n + 1 |-> Turn(f, k)]
  <2>2. f = [k \in 0 .. n |-> Turn(f, k)]
    BY <2>1 DEF Merges
  <2>3. ASSUME NEW k \in 0 .. n PROVE g[k] = f[k]
    <3>1. k \in 0 .. n + 1
      OBVIOUS
    <3> HIDE DEF Turn
    <3>2. g[k] = Turn(f, k) /\ f[k] = Turn(f, k)
      BY <2>2, <3>1
    <3> QED BY <3>2
  <2>4. ASSUME NEW k \in 0 .. n + 1 PROVE Turn(f, k) = Turn(g, k)
    <3>1. CASE k = 0
      BY <3>1
    <3>2. CASE k # 0
      <4>1. k - 1 \in 0 .. n
        BY <3>2
      <4>2. g[k - 1] = f[k - 1]
        BY <2>3, <4>1
      <4> HIDE DEF g
      <4> QED BY <4>2
    <3> QED BY <3>1, <3>2
  <2>5. g = [k \in 0 .. n + 1 |-> Turn(g, k)]
    <3> HIDE DEF Turn
    <3>1. g = [k \in 0 .. n + 1 |-> Turn(f, k)]
      OBVIOUS
    <3> HIDE DEF g
    <3> QED BY <2>4, <3>1
  <2>6. Merges(ranges, n + 1, g)
    <3> HIDE DEF g
    <3> QED BY <2>5 DEF Merges
  <2> QED BY <2>6
<1>3. Nat \subseteq S
  <2> HIDE DEF S
  <2> QED BY <1>1, <1>2, Counting
<1> QED BY <1>3

\* Ranges that are not empty.
Solid(ranges) == ranges \in SUBSET Spans /\ \A r \in ranges : r.start < r.end

\* The range with the least start is found, and none starts before it.
LEMMA EarliestOfAll ==
    ASSUME NEW ranges \in SUBSET Spans, IsFiniteSet(ranges), ranges # {}
    PROVE  /\ Earliest(ranges) \in ranges
           /\ \A r \in ranges : Earliest(ranges).start <= r.start
<1> DEFINE S == {T \in SUBSET ranges : T # {} =>
                    \E r \in T : \A s \in T : r.start <= s.start}
           Sizes == {n \in Nat : \A T \in SUBSET ranges : Cardinality(T) = n => T \in S}
<1>1. 0 \in Sizes
  <2>1. \A T \in SUBSET ranges : Cardinality(T) = 0 => T = {}
    BY FS_EmptySet, FS_Subset
  <2>2. \A T \in SUBSET ranges : T = {} => T \in S
    OBVIOUS
  <2> HIDE DEF S
  <2> QED BY <2>1, <2>2
<1>2. ASSUME NEW n \in Nat, n \in Sizes PROVE n + 1 \in Sizes
  <2>1. SUFFICES ASSUME NEW T \in SUBSET ranges, Cardinality(T) = n + 1
                 PROVE  T \in S
    OBVIOUS
  <2>2. PICK r \in T : TRUE
    <3>1. IsFiniteSet(T) /\ T # {}
      BY <2>1, FS_Subset, FS_EmptySet
    <3> QED BY <3>1
  <2>3. PICK U : U = T \ {r}
    OBVIOUS
  <2>4. U \in SUBSET ranges /\ Cardinality(U) = n
    <3>1. IsFiniteSet(T)
      BY FS_Subset
    <3>2. Cardinality(U) = Cardinality(T) - 1
      BY <2>2, <2>3, <3>1, FS_RemoveElement
    <3> QED BY <2>1, <2>3, <3>2
  <2>5. U \in S
    <3> HIDE DEF S
    <3> QED BY <1>2, <2>4
  <2>6. r.start \in Int /\ \A s \in U : s.start \in Int
    BY <2>3 DEF Spans
  <2>7. CASE U = {}
    <3>1. T = {r}
      BY <2>2, <2>3, <2>7
    <3> QED BY <2>6, <3>1
  <2>8. CASE U # {}
    <3>1. PICK u \in U : \A s \in U : u.start <= s.start
      BY <2>5, <2>8
    <3>2. CASE u.start <= r.start
      <4>1. u \in T /\ \A s \in T : u.start <= s.start
        BY <2>2, <2>3, <3>1, <3>2
      <4> QED BY <4>1
    <3>3. CASE ~(u.start <= r.start)
      <4>1. \A s \in U : r.start <= s.start
        BY <2>6, <3>1, <3>3
      <4>2. \A s \in T : r.start <= s.start
        BY <2>3, <2>6, <4>1
      <4> QED BY <4>2
    <3> QED BY <3>2, <3>3
  <2> QED BY <2>7, <2>8
<1>3. Nat \subseteq Sizes
  <2> HIDE DEF Sizes
  <2> QED BY <1>1, <1>2, Counting
<1>4. ranges \in S
  <2> HIDE DEF S
  <2> QED BY <1>3, FS_CardinalityType
<1>5. \E r \in ranges : \A s \in ranges : r.start <= s.start
  BY <1>4
<1> QED BY <1>5 DEF Earliest

\* The union of some ranges lies apart and covers what they cover.
LEMMA UnionCovers ==
    ASSUME NEW ranges, Solid(ranges), IsFiniteSet(ranges)
    PROVE  /\ Apart(Union(ranges))
           /\ \A x \in Int : x \in Cover(Union(ranges)) <=> \E r \in ranges : Within(r, x)
<1> DEFINE c == Cardinality(ranges)
           f == CHOOSE g : Merges(ranges, c, g)
<1>1. c \in Nat
  BY FS_CardinalityType
<1>2. Union(ranges) = f[c].out
  BY DEF Union, Merges
<1>3. Merges(ranges, c, f)
  BY <1>1, MergesExist
<1> HIDE DEF f
<1>4. f[0] = [left |-> ranges, out |-> <<>>]
  BY <1>1, <1>3 DEF Merges
<1>5. ASSUME NEW k \in 1 .. c PROVE f[k] = MergeNext(f[k - 1])
  <2>1. k \in 0 .. c /\ k # 0
    BY <1>1
  <2> QED BY <1>3, <2>1 DEF Merges
<1> DEFINE Good(left, out, n) ==
              /\ left \subseteq ranges /\ Cardinality(left) = c - n
              /\ Apart(out)
              /\ out # <<>> => \A r \in left : Last(out).start <= r.start
              /\ \A x \in Int : x \in Cover(out) <=> \E r \in ranges \ left : Within(r, x)
           S == {n \in Nat : n <= c => Good(f[n].left, f[n].out, n)}
<1>6. 0 \in S
  <2>1. Apart(<<>>) /\ \A x \in Int : ~(x \in Cover(<<>>))
    BY DEF Apart, Cover, Covers
  <2>2. ranges \ ranges = {} /\ c - 0 = c
    BY <1>1
  <2>3. Good(ranges, <<>>, 0)
    BY <2>1, <2>2
  <2> HIDE DEF Good
  <2> QED BY <1>4, <2>3
<1>7. ASSUME NEW n \in Nat, n \in S PROVE n + 1 \in S
  <2>1. SUFFICES ASSUME n + 1 <= c PROVE Good(f[n + 1].left, f[n + 1].out, n + 1)
    <3> HIDE DEF Good
    <3> QED OBVIOUS
  <2>2. PICK m \in 1 .. c : m = n + 1 /\ m - 1 = n /\ n <= c /\ c - n # 0 /\ c - m = (c - n) - 1
    BY <1>1, <2>1
  <2>3. PICK left, out : left = f[n].left /\ out = f[n].out
    OBVIOUS
  <2>4. Good(left, out, n)
    <3> HIDE DEF Good
    <3> QED BY <1>7, <2>2, <2>3
  <2>5. PICK r : r = Earliest(left)
    OBVIOUS
  <2>6. IsFiniteSet(left) /\ left # {} /\ left \in SUBSET Spans
    <3>1. IsFiniteSet(left)
      BY <2>4, FS_Subset
    <3> QED BY <2>2, <2>4, <3>1, FS_EmptySet DEF Solid
  <2>7. r \in left /\ \A s \in left : r.start <= s.start
    BY <2>5, <2>6, EarliestOfAll
  <2>8. r \in Spans /\ r.start < r.end
    BY <2>4, <2>7 DEF Solid
  <2>9. f[m].left = left \ {r} /\ f[m].out = Merged(out, r)
    <3>1. f[m] = MergeNext(f[n])
      BY <1>5, <2>2
    <3> QED BY <2>3, <2>5, <3>1 DEF MergeNext
  <2>10. PICK more : more = Merged(out, r)
    OBVIOUS
  <2>11. /\ Apart(more) /\ more # <<>> /\ Last(more).start <= r.start
         /\ \A x \in Int : x \in Cover(more) <=> x \in Cover(out) \/ Within(r, x)
    BY <2>4, <2>7, <2>8, <2>10, Merging
  <2>12. Cardinality(left \ {r}) = c - m
    BY <2>2, <2>4, <2>6, <2>7, FS_RemoveElement
  <2>13. \A s \in left \ {r} : Last(more).start <= s.start
    <3>1. Last(more).start \in Int
      <4>1. more \in Seq(Spans)
        BY <2>11 DEF Apart
      <4>2. Last(more) \in Spans
        BY <2>11, <4>1 DEF Last
      <4> QED BY <4>2 DEF Spans
    <3>2. r.start \in Int /\ \A s \in left : s.start \in Int
      BY <2>6, <2>8 DEF Spans
    <3> QED BY <2>7, <2>11, <3>1, <3>2
  <2>14. ranges \ (left \ {r}) = (ranges \ left) \cup {r}
    BY <2>4, <2>7
  <2>15. \A x \in Int : x \in Cover(more) <=> \E s \in ranges \ (left \ {r}) : Within(s, x)
    BY <2>4, <2>11, <2>14
  <2>16. Good(left \ {r}, more, m)
    BY <2>4, <2>11, <2>12, <2>13, <2>15
  <2> HIDE DEF Good
  <2> QED BY <2>2, <2>9, <2>10, <2>16
<1>8. Nat \subseteq S
  <2> HIDE DEF S
  <2> QED BY <1>6, <1>7, Counting
<1>9. c \in S /\ c <= c
  <2> HIDE DEF S
  <2> QED BY <1>1, <1>8
<1>10. PICK left, out : left = f[c].left /\ out = f[c].out
  OBVIOUS
<1>11. Good(left, out, c)
  <2> HIDE DEF Good
  <2> QED BY <1>9, <1>10
<1>12. left = {}
  <2>1. IsFiniteSet(left) /\ Cardinality(left) = 0
    BY <1>1, <1>11, FS_Subset
  <2> QED BY <2>1, FS_EmptySet
<1>13. ranges \ left = ranges
  BY <1>12
<1> QED BY <1>2, <1>10, <1>11, <1>13
----------------------------------------------------------------------------
(* subtract_intervals.                                                     *)

\* What WithRest tabulates.
Cuts(result, m, subtrahend, n, f) ==
    f = [k \in 0 .. n |-> IF k = 0 THEN [at |-> m.start, out |-> result]
                          ELSE Cut(m, f[k - 1], subtrahend[k])]

\* There is such a table, however many ranges are subtracted.
LEMMA CutsExist ==
    ASSUME NEW result, NEW m, NEW subtrahend
    PROVE  \A n \in Nat : \E f : Cuts(result, m, subtrahend, n, f)
<1> DEFINE S == {n \in Nat : \E f : Cuts(result, m, subtrahend, n, f)}
           Turn(h, k) == IF k = 0 THEN [at |-> m.start, out |-> result]
                         ELSE Cut(m, h[k - 1], subtrahend[k])
<1>1. 0 \in S
  <2> DEFINE f == [k \in 0 .. 0 |-> [at |-> m.start, out |-> result]]
  <2>1. Cuts(result, m, subtrahend, 0, f)
    BY DEF Cuts
  <2> QED BY <2>1
<1>2. ASSUME NEW n \in Nat, n \in S PROVE n + 1 \in S
  <2>1. PICK f : Cuts(result, m, subtrahend, n, f)
    BY <1>2
  <2> DEFINE g == [k \in 0 .. n + 1 |-> Turn(f, k)]
  <2>2. f = [k \in 0 .. n |-> Turn(f, k)]
    BY <2>1 DEF Cuts
  <2>3. ASSUME NEW k \in 0 .. n PROVE g[k] = f[k]
    <3>1. k \in 0 .. n + 1
      OBVIOUS
    <3> HIDE DEF Turn
    <3>2. g[k] = Turn(f, k) /\ f[k] = Turn(f, k)
      BY <2>2, <3>1
    <3> QED BY <3>2
  <2>4. ASSUME NEW k \in 0 .. n + 1 PROVE Turn(f, k) = Turn(g, k)
    <3>1. CASE k = 0
      BY <3>1
    <3>2. CASE k # 0
      <4>1. k - 1 \in 0 .. n
        BY <3>2
      <4>2. g[k - 1] = f[k - 1]
        BY <2>3, <4>1
      <4> HIDE DEF g
      <4> QED BY <4>2
    <3> QED BY <3>1, <3>2
  <2>5. g = [k \in 0 .. n + 1 |-> Turn(g, k)]
    <3> HIDE DEF Turn
    <3>1. g = [k \in 0 .. n + 1 |-> Turn(f, k)]
      OBVIOUS
    <3> HIDE DEF g
    <3> QED BY <2>4, <3>1
  <2>6. Cuts(result, m, subtrahend, n + 1, g)
    <3> HIDE DEF g
    <3> QED BY <2>5 DEF Cuts
  <2> QED BY <2>6
<1>3. Nat \subseteq S
  <2> HIDE DEF S
  <2> QED BY <1>1, <1>2, Counting
<1> QED BY <1>3

\* What Subtract tabulates.
Rests(minuend, subtrahend, n, f) ==
    f = [k \in 0 .. n |-> IF k = 0 THEN <<>> ELSE WithRest(f[k - 1], minuend[k], subtrahend)]

\* There is such a table, however many ranges there are to subtract from.
LEMMA RestsExist ==
    ASSUME NEW minuend, NEW subtrahend
    PROVE  \A n \in Nat : \E f : Rests(minuend, subtrahend, n, f)
<1> DEFINE S == {n \in Nat : \E f : Rests(minuend, subtrahend, n, f)}
           Turn(h, k) == IF k = 0 THEN <<>> ELSE WithRest(h[k - 1], minuend[k], subtrahend)
<1>1. 0 \in S
  <2> DEFINE f == [k \in 0 .. 0 |-> <<>>]
  <2>1. Rests(minuend, subtrahend, 0, f)
    BY DEF Rests
  <2> QED BY <2>1
<1>2. ASSUME NEW n \in Nat, n \in S PROVE n + 1 \in S
  <2>1. PICK f : Rests(minuend, subtrahend, n, f)
    BY <1>2
  <2> DEFINE g == [k \in 0 .. n + 1 |-> Turn(f, k)]
  <2>2. f = [k \in 0 .. n |-> Turn(f, k)]
    BY <2>1 DEF Rests
  <2>3. ASSUME NEW k \in 0 .. n PROVE g[k] = f[k]
    <3>1. k \in 0 .. n + 1
      OBVIOUS
    <3> HIDE DEF Turn
    <3>2. g[k] = Turn(f, k) /\ f[k] = Turn(f, k)
      BY <2>2, <3>1
    <3> QED BY <3>2
  <2>4. ASSUME NEW k \in 0 .. n + 1 PROVE Turn(f, k) = Turn(g, k)
    <3>1. CASE k = 0
      BY <3>1
    <3>2. CASE k # 0
      <4>1. k - 1 \in 0 .. n
        BY <3>2
      <4>2. g[k - 1] = f[k - 1]
        BY <2>3, <4>1
      <4> HIDE DEF g
      <4> QED BY <4>2
    <3> QED BY <3>1, <3>2
  <2>5. g = [k \in 0 .. n + 1 |-> Turn(g, k)]
    <3> HIDE DEF Turn
    <3>1. g = [k \in 0 .. n + 1 |-> Turn(f, k)]
      OBVIOUS
    <3> HIDE DEF g
    <3> QED BY <2>4, <3>1
  <2>6. Rests(minuend, subtrahend, n + 1, g)
    <3> HIDE DEF g
    <3> QED BY <2>5 DEF Rests
  <2> QED BY <2>6
<1>3. Nat \subseteq S
  <2> HIDE DEF S
  <2> QED BY <1>1, <1>2, Counting
<1> QED BY <1>3

\* What the first n ranges leave of m in front of `at`, and nothing of it lost
\* behind.
Carved(result, m, subtrahend, n, acc) ==
    /\ acc.at \in Int /\ m.start <= acc.at /\ Apart(acc.out)
    /\ \A i \in 1 .. Len(acc.out) : acc.out[i].end <= acc.at /\ acc.out[i].end <= m.end
    /\ acc.at # m.start => \A k \in 1 .. Len(subtrahend) : n < k => acc.at <= subtrahend[k].start
    /\ \A x \in Int : x \in Cover(acc.out) <=>
          x \in Cover(result) \/ (Within(m, x) /\ x < acc.at /\ ~Covers(subtrahend, n, x))
    /\ \A x \in Int : Within(m, x) /\ acc.at <= x => ~Covers(subtrahend, n, x)

\* One turn of the inner loop of subtract carves out one range more.
LEMMA Cutting ==
    ASSUME NEW subtrahend, Apart(subtrahend), NEW m \in Spans, m.start < m.end, NEW result,
           NEW n \in Nat, NEW k \in 1 .. Len(subtrahend), k = n + 1,
           NEW acc, Carved(result, m, subtrahend, n, acc)
    PROVE  Carved(result, m, subtrahend, k, Cut(m, acc, subtrahend[k]))
<1>1. PICK s \in Spans : s = subtrahend[k] /\ s.start < s.end
  BY DEF Apart
<1>2. PICK at \in Int : at = acc.at
  BY DEF Carved
<1>3. PICK out : out = acc.out
  OBVIOUS
<1>4. PICK new : new = Cut(m, acc, s)
  OBVIOUS
<1>5. /\ s.start \in Int /\ s.end \in Int /\ m.start \in Int /\ m.end \in Int
      /\ \A x \in Int : Within(s, x) <=> s.start <= x /\ x < s.end
      /\ \A x \in Int : Within(m, x) <=> m.start <= x /\ x < m.end
  BY DEF Spans, Within
<1>6. \A x \in Int : Covers(subtrahend, k, x) <=> Covers(subtrahend, n, x) \/ Within(s, x)
  <2>1. 1 .. k = (1 .. n) \cup {k}
    OBVIOUS
  <2> QED BY <1>1, <2>1 DEF Covers
<1>7. /\ m.start <= at /\ Apart(out)
      /\ \A i \in 1 .. Len(out) : out[i].end <= at /\ out[i].end <= m.end
      /\ at # m.start => at <= s.start
      /\ at # m.start => \A j \in 1 .. Len(subtrahend) : n < j => at <= subtrahend[j].start
  <2>1. n < k
    OBVIOUS
  <2> QED BY <1>1, <1>2, <1>3, <2>1 DEF Carved
<1>cover. \A x \in Int : x \in Cover(out) <=>
             x \in Cover(result) \/ (Within(m, x) /\ x < at /\ ~Covers(subtrahend, n, x))
  BY <1>2, <1>3 DEF Carved
<1>behind. \A x \in Int : Within(m, x) /\ at <= x => ~Covers(subtrahend, n, x)
  BY <1>2 DEF Carved
<1>ends. \A i \in 1 .. Len(out) : out[i].end \in Int
  <2>1. \A i \in 1 .. Len(out) : out[i] \in Spans
    BY <1>7 DEF Apart
  <2> QED BY <2>1 DEF Spans
<1>8. \A x \in Int : Within(m, x) /\ x < at => ~Within(s, x)
  BY <1>5, <1>7
<1>9. CASE s.end <= at \/ s.start >= m.end
  <2>1. new = acc
    BY <1>2, <1>4, <1>9 DEF Cut
  <2>2. \A x \in Int : Within(m, x) => ~Within(s, x)
    BY <1>5, <1>8, <1>9
  <2>3. \A x \in Int : Within(m, x) => (Covers(subtrahend, k, x) <=> Covers(subtrahend, n, x))
    BY <1>6, <2>2
  <2>4. at # m.start => \A j \in 1 .. Len(subtrahend) : k < j => at <= subtrahend[j].start
    <3>1. \A j \in 1 .. Len(subtrahend) : k < j => n < j
      OBVIOUS
    <3> QED BY <1>7, <3>1
  <2>5. \A x \in Int : x \in Cover(out) <=>
            x \in Cover(result) \/ (Within(m, x) /\ x < at /\ ~Covers(subtrahend, k, x))
    <3>1. SUFFICES ASSUME NEW x \in Int
          PROVE  x \in Cover(out) <=>
                    x \in Cover(result) \/ (Within(m, x) /\ x < at /\ ~Covers(subtrahend, k, x))
      OBVIOUS
    <3>2. x \in Cover(out) <=>
             x \in Cover(result) \/ (Within(m, x) /\ x < at /\ ~Covers(subtrahend, n, x))
      BY <1>cover
    <3>3. Within(m, x) => (Covers(subtrahend, k, x) <=> Covers(subtrahend, n, x))
      BY <2>3
    <3> QED BY <3>2, <3>3, Zenon
  <2>6. \A x \in Int : Within(m, x) /\ at <= x => ~Covers(subtrahend, k, x)
    BY <1>behind, <2>3
  <2>7. Carved(result, m, subtrahend, k, acc)
    BY <1>2, <1>3, <1>7, <2>4, <2>5, <2>6 DEF Carved
  <2> QED BY <1>1, <1>4, <2>1, <2>7
<1>10. CASE ~(s.end <= at \/ s.start >= m.end)
  <2>1. at < s.end /\ s.start < m.end
    BY <1>5, <1>10
  <2>2. Max({s.end, at}) = s.end /\ Min({s.start, m.end}) = s.start
    <3>1. /\ Max({s.end, at}) = IF s.end >= at THEN s.end ELSE at
          /\ Min({s.start, m.end}) = IF s.start <= m.end THEN s.start ELSE m.end
      BY <1>5, MaxMin
    <3> QED BY <1>5, <2>1, <3>1
  <2>3. PICK piece : piece = [start |-> at, end |-> s.start]
    OBVIOUS
  <2>4. new = [at |-> s.end, out |-> IF s.start > at THEN Append(out, piece) ELSE out]
    BY <1>2, <1>3, <1>4, <1>10, <2>2, <2>3 DEF Cut
  <2>5. PICK grown : grown = IF s.start > at THEN Append(out, piece) ELSE out
    OBVIOUS
  <2>6. new.at = s.end /\ new.out = grown
    BY <2>4, <2>5
  <2>7. /\ Apart(grown)
        /\ \A i \in 1 .. Len(grown) : grown[i].end <= s.end /\ grown[i].end <= m.end
        /\ \A x \in Int : x \in Cover(grown) <=> x \in Cover(out) \/ (at <= x /\ x < s.start)
    <3>1. CASE s.start > at
      <4>1. piece \in Spans /\ piece.start < piece.end /\ piece.start = at /\ piece.end = s.start
        BY <1>5, <2>3, <3>1 DEF Spans
      <4>2. \A i \in 1 .. Len(out) : out[i].end <= piece.start
        BY <1>7, <4>1
      <4>3. /\ Apart(grown) /\ Len(grown) = Len(out) + 1 /\ Last(grown) = piece
            /\ \A i \in 1 .. Len(out) : grown[i] = out[i]
            /\ \A x \in Int : x \in Cover(grown) <=> x \in Cover(out) \/ Within(piece, x)
        BY <1>7, <2>5, <3>1, <4>1, <4>2, Appending
      <4>4. PICK l \in Nat : l = Len(out)
        BY <1>7 DEF Apart
      <4>5. grown[l + 1] = piece
        BY <4>3, <4>4 DEF Last
      <4>6. ASSUME NEW i \in 1 .. Len(grown) PROVE grown[i].end <= s.end /\ grown[i].end <= m.end
        <5>1. CASE i \in 1 .. l
          <6>1. grown[i] = out[i] /\ out[i].end <= at /\ out[i].end <= m.end
            BY <1>7, <4>3, <4>4, <5>1
          <6>2. out[i].end \in Int
            BY <1>ends, <4>4, <5>1
          <6> QED BY <1>5, <2>1, <6>1, <6>2
        <5>2. CASE i \notin 1 .. l
          <6>1. i = l + 1
            BY <4>3, <4>4, <5>2
          <6> QED BY <1>1, <1>5, <2>1, <4>1, <4>5, <6>1
        <5> QED BY <5>1, <5>2
      <4>7. \A x \in Int : Within(piece, x) <=> at <= x /\ x < s.start
        BY <4>1 DEF Within
      <4> QED BY <4>3, <4>6, <4>7
    <3>2. CASE ~(s.start > at)
      <4>1. grown = out
        BY <2>5, <3>2
      <4>2. \A x \in Int : ~(at <= x /\ x < s.start)
        BY <1>5, <3>2
      <4>3. \A i \in 1 .. Len(out) : out[i].end <= s.end /\ out[i].end <= m.end
        BY <1>5, <1>7, <1>ends, <2>1
      <4> QED BY <1>7, <4>1, <4>2, <4>3
    <3> QED BY <3>1, <3>2
  <2>8. m.start <= s.end
    BY <1>5, <1>7, <2>1
  <2>9. \A j \in 1 .. Len(subtrahend) : k < j => s.end <= subtrahend[j].start
    BY <1>1 DEF Apart
  <2>10. ASSUME NEW x \in Int
         PROVE  x \in Cover(grown) <=>
                   x \in Cover(result) \/ (Within(m, x) /\ x < s.end /\ ~Covers(subtrahend, k, x))
    <3>1. CASE x < at
      <4>1. x \in Cover(grown) <=> x \in Cover(out)
        BY <2>7, <3>1
      <4>2. x < s.end
        BY <1>5, <2>1, <3>1
      <4>3. Within(m, x) => (Covers(subtrahend, k, x) <=> Covers(subtrahend, n, x))
        BY <1>6, <1>8, <3>1
      <4>4. x \in Cover(out) <=>
               x \in Cover(result) \/ (Within(m, x) /\ x < at /\ ~Covers(subtrahend, n, x))
        BY <1>cover
      <4> QED BY <3>1, <4>1, <4>2, <4>3, <4>4, Zenon
    <3>2. CASE ~(x < at) /\ x < s.start
      <4>1. x \in Cover(grown)
        BY <2>7, <3>2
      <4>2. Within(m, x) /\ x < s.end
        BY <1>1, <1>5, <1>7, <2>1, <3>2
      <4>3. ~Covers(subtrahend, k, x)
        <5>1. at <= x /\ ~Within(s, x)
          BY <1>5, <3>2
        <5> QED BY <1>6, <1>behind, <4>2, <5>1
      <4> QED BY <4>1, <4>2, <4>3
    <3>3. CASE ~(x < at) /\ ~(x < s.start)
      <4>1. x \in Cover(grown) <=> x \in Cover(result)
        <5>1. x \in Cover(grown) <=> x \in Cover(out)
          BY <2>7, <3>3
        <5>2. x \in Cover(out) <=>
                 x \in Cover(result) \/ (Within(m, x) /\ x < at /\ ~Covers(subtrahend, n, x))
          BY <1>cover
        <5> QED BY <3>3, <5>1, <5>2, Zenon
      <4>2. x < s.end => Covers(subtrahend, k, x)
        <5>1. s.start <= x
          BY <1>5, <3>3
        <5>2. x < s.end => Within(s, x)
          BY <1>5, <5>1
        <5>3. Covers(subtrahend, k, x) <=> Covers(subtrahend, n, x) \/ Within(s, x)
          BY <1>6
        <5> QED BY <5>2, <5>3, Zenon
      <4> QED BY <4>1, <4>2
    <3> QED BY <3>1, <3>2, <3>3
  <2>11. ASSUME NEW x \in Int, Within(m, x), s.end <= x PROVE ~Covers(subtrahend, k, x)
    <3>1. at <= x /\ ~Within(s, x)
      BY <1>5, <2>1, <2>11
    <3> QED BY <1>6, <1>behind, <2>11, <3>1
  <2>12. Carved(result, m, subtrahend, k, new)
    BY <1>5, <2>6, <2>7, <2>8, <2>9, <2>10, <2>11 DEF Carved
  <2> QED BY <1>1, <1>4, <2>12
<1> QED BY <1>9, <1>10

\* What subtract_intervals does with one range of the minuend.
LEMMA Resting ==
    ASSUME NEW subtrahend, Apart(subtrahend), NEW m \in Spans, m.start < m.end,
           NEW result, Apart(result), \A i \in 1 .. Len(result) : result[i].end <= m.start
    PROVE  LET out == WithRest(result, m, subtrahend)
           IN /\ Apart(out) /\ \A i \in 1 .. Len(out) : out[i].end <= m.end
              /\ \A x \in Int : x \in Cover(out) <=>
                    x \in Cover(result) \/ (Within(m, x) /\ x \notin Cover(subtrahend))
<1> DEFINE n == Len(subtrahend)
           f == CHOOSE g : Cuts(result, m, subtrahend, n, g)
           whole == WithRest(result, m, subtrahend)
<1>1. n \in Nat
  BY DEF Apart
<1>2. whole = IF f[n].at < m.end
              THEN Append(f[n].out, [start |-> f[n].at, end |-> m.end]) ELSE f[n].out
  BY DEF WithRest, Cuts
<1>3. Cuts(result, m, subtrahend, n, f)
  BY <1>1, CutsExist
<1> HIDE DEF f, whole
<1>4. f[0] = [at |-> m.start, out |-> result]
  BY <1>1, <1>3 DEF Cuts
<1>5. ASSUME NEW k \in 1 .. n PROVE f[k] = Cut(m, f[k - 1], subtrahend[k])
  <2>1. k \in 0 .. n /\ k # 0
    BY <1>1
  <2> QED BY <1>3, <2>1 DEF Cuts
<1> DEFINE S == {k \in Nat : k <= n => Carved(result, m, subtrahend, k, f[k])}
<1>6. m.start \in Int /\ m.end \in Int
  BY DEF Spans
<1>7. 0 \in S
  <2>1. PICK acc : acc = f[0] /\ acc.at = m.start /\ acc.out = result
    BY <1>4
  <2>2. \A i \in 1 .. Len(result) : result[i].end <= m.end
    <3>1. \A i \in 1 .. Len(result) : result[i] \in Spans
      BY DEF Apart
    <3> QED BY <1>6, <3>1 DEF Spans
  <2>3. \A x \in Int : ~Covers(subtrahend, 0, x)
    BY DEF Covers
  <2>4. \A x \in Int : ~(Within(m, x) /\ x < m.start)
    BY <1>6 DEF Within
  <2>5. Carved(result, m, subtrahend, 0, acc)
    BY <1>6, <2>1, <2>2, <2>3, <2>4 DEF Carved
  <2> QED BY <2>1, <2>5
<1>8. ASSUME NEW i \in Nat, i \in S PROVE i + 1 \in S
  <2>1. SUFFICES ASSUME i + 1 <= n PROVE Carved(result, m, subtrahend, i + 1, f[i + 1])
    OBVIOUS
  <2>2. PICK k \in 1 .. n : k = i + 1 /\ k - 1 = i /\ i <= n
    BY <1>1, <2>1
  <2>3. PICK acc : acc = f[i]
    OBVIOUS
  <2>4. Carved(result, m, subtrahend, i, acc)
    BY <1>8, <2>2, <2>3
  <2>5. f[k] = Cut(m, acc, subtrahend[k])
    BY <1>5, <2>2, <2>3
  <2>6. Carved(result, m, subtrahend, k, Cut(m, acc, subtrahend[k]))
    BY <2>2, <2>4, Cutting
  <2> QED BY <2>2, <2>5, <2>6
<1>9. Nat \subseteq S
  <2> HIDE DEF S
  <2> QED BY <1>7, <1>8, Counting
<1>10. n \in S /\ n <= n
  <2> HIDE DEF S
  <2> QED BY <1>1, <1>9
<1>11. PICK acc : acc = f[n]
  OBVIOUS
<1>12. Carved(result, m, subtrahend, n, acc)
  BY <1>10, <1>11
<1>13. PICK at \in Int : at = acc.at /\ m.start <= at
  BY <1>12 DEF Carved
<1>14. PICK out : out = acc.out
  OBVIOUS
<1>15. Apart(out) /\ \A i \in 1 .. Len(out) : out[i].end <= at /\ out[i].end <= m.end
  BY <1>12, <1>13, <1>14 DEF Carved
<1>cover. \A x \in Int : x \in Cover(out) <=>
             x \in Cover(result) \/ (Within(m, x) /\ x < at /\ ~Covers(subtrahend, n, x))
  BY <1>12, <1>13, <1>14 DEF Carved
<1>behind. \A x \in Int : Within(m, x) /\ at <= x => ~Covers(subtrahend, n, x)
  BY <1>12, <1>13 DEF Carved
<1>16. \A x \in Int : x \in Cover(subtrahend) <=> Covers(subtrahend, n, x)
  BY DEF Cover
<1>17. \A x \in Int : Within(m, x) <=> m.start <= x /\ x < m.end
  BY DEF Within
<1>18. CASE at < m.end
  <2>1. PICK piece : piece = [start |-> at, end |-> m.end]
    OBVIOUS
  <2>2. piece \in Spans /\ piece.start = at /\ piece.end = m.end
    BY <1>6, <2>1 DEF Spans
  <2>3. whole = Append(out, piece)
    BY <1>2, <1>11, <1>13, <1>14, <1>18, <2>1
  <2>4. \A i \in 1 .. Len(out) : out[i].end <= piece.start
    BY <1>15, <2>2
  <2>5. piece.start < piece.end
    BY <1>18, <2>2
  <2>6. /\ Apart(whole) /\ Len(whole) = Len(out) + 1 /\ Last(whole) = piece
        /\ \A i \in 1 .. Len(out) : whole[i] = out[i]
        /\ \A x \in Int : x \in Cover(whole) <=> x \in Cover(out) \/ Within(piece, x)
    BY <1>15, <2>2, <2>3, <2>4, <2>5, Appending
  <2>7. PICK l \in Nat : l = Len(out)
    BY <1>15 DEF Apart
  <2>8. whole[l + 1] = piece
    BY <2>6, <2>7 DEF Last
  <2>9. ASSUME NEW i \in 1 .. Len(whole) PROVE whole[i].end <= m.end
    <3>1. CASE i \in 1 .. l
      BY <1>15, <2>6, <2>7, <3>1
    <3>2. CASE i \notin 1 .. l
      <4>1. i = l + 1
        BY <2>6, <2>7, <3>2
      <4> QED BY <1>6, <2>2, <2>8, <4>1
    <3> QED BY <3>1, <3>2
  <2>10. ASSUME NEW x \in Int
         PROVE  x \in Cover(whole) <=>
                   x \in Cover(result) \/ (Within(m, x) /\ x \notin Cover(subtrahend))
    <3>1. Within(piece, x) <=> Within(m, x) /\ ~(x < at)
      BY <1>6, <1>13, <2>2 DEF Within
    <3>2. x \in Cover(whole) <=> x \in Cover(out) \/ Within(piece, x)
      BY <2>6
    <3>3. x \in Cover(out) <=>
             x \in Cover(result) \/ (Within(m, x) /\ x < at /\ ~Covers(subtrahend, n, x))
      BY <1>cover
    <3>4. Within(m, x) /\ ~(x < at) => ~Covers(subtrahend, n, x)
      BY <1>behind
    <3>5. x \in Cover(subtrahend) <=> Covers(subtrahend, n, x)
      BY <1>16
    <3> QED BY <3>1, <3>2, <3>3, <3>4, <3>5, Zenon
  <2> QED BY <2>6, <2>9, <2>10 DEF whole
<1>19. CASE ~(at < m.end)
  <2>1. whole = out
    BY <1>2, <1>11, <1>13, <1>14, <1>19
  <2>2. ASSUME NEW x \in Int
        PROVE  x \in Cover(out) <=>
                   x \in Cover(result) \/ (Within(m, x) /\ x \notin Cover(subtrahend))
    <3>1. Within(m, x) => x < at
      BY <1>6, <1>19 DEF Within
    <3>3. x \in Cover(out) <=>
             x \in Cover(result) \/ (Within(m, x) /\ x < at /\ ~Covers(subtrahend, n, x))
      BY <1>cover
    <3>5. x \in Cover(subtrahend) <=> Covers(subtrahend, n, x)
      BY <1>16
    <3> QED BY <3>1, <3>3, <3>5, Zenon
  <2> QED BY <1>15, <2>1, <2>2 DEF whole
<1> QED BY <1>18, <1>19

\* Subtracting ranges that lie apart leaves ranges that lie apart, and these
\* cover the difference.
LEMMA SubtractCovers ==
    ASSUME NEW minuend, Apart(minuend), NEW subtrahend, Apart(subtrahend)
    PROVE  /\ Apart(Subtract(minuend, subtrahend))
           /\ Cover(Subtract(minuend, subtrahend)) = Cover(minuend) \ Cover(subtrahend)
<1> DEFINE n == Len(minuend)
           f == CHOOSE g : Rests(minuend, subtrahend, n, g)
<1>1. n \in Nat
  BY DEF Apart
<1>2. Subtract(minuend, subtrahend) = f[n]
  BY DEF Subtract, Rests
<1>3. Rests(minuend, subtrahend, n, f)
  BY <1>1, RestsExist
<1> HIDE DEF f
<1>4. f[0] = <<>>
  BY <1>1, <1>3 DEF Rests
<1>5. ASSUME NEW k \in 1 .. n PROVE f[k] = WithRest(f[k - 1], minuend[k], subtrahend)
  <2>1. k \in 0 .. n /\ k # 0
    BY <1>1
  <2> QED BY <1>3, <2>1 DEF Rests
<1> DEFINE Good(k, out) ==
              /\ Apart(out)
              /\ \A j \in 1 .. n : k < j =>
                    \A i \in 1 .. Len(out) : out[i].end <= minuend[j].start
              /\ \A x \in Int : x \in Cover(out) <=>
                    Covers(minuend, k, x) /\ x \notin Cover(subtrahend)
           S == {k \in Nat : k <= n => Good(k, f[k])}
<1>6. 0 \in S
  <2>1. Apart(<<>>) /\ Len(<<>>) = 0 /\ \A x \in Int : ~(x \in Cover(<<>>))
    BY DEF Apart, Cover, Covers
  <2>2. \A x \in Int : ~Covers(minuend, 0, x)
    BY DEF Covers
  <2>3. Good(0, <<>>)
    BY <2>1, <2>2
  <2> HIDE DEF Good
  <2> QED BY <1>4, <2>3
<1>7. ASSUME NEW i \in Nat, i \in S PROVE i + 1 \in S
  <2>1. SUFFICES ASSUME i + 1 <= n PROVE Good(i + 1, f[i + 1])
    <3> HIDE DEF Good
    <3> QED OBVIOUS
  <2>2. PICK k \in 1 .. n : k = i + 1 /\ k - 1 = i /\ i <= n /\ i < k
    BY <1>1, <2>1
  <2>3. PICK out : out = f[i]
    OBVIOUS
  <2>4. Good(i, out)
    <3> HIDE DEF Good
    <3> QED BY <1>7, <2>2, <2>3
  <2>5. PICK m \in Spans : m = minuend[k] /\ m.start < m.end
    BY DEF Apart
  <2>6. PICK more : more = WithRest(out, m, subtrahend)
    OBVIOUS
  <2>7. f[k] = more
    BY <1>5, <2>2, <2>3, <2>5, <2>6
  <2>8. \A j \in 1 .. Len(out) : out[j].end <= m.start
    BY <2>2, <2>4, <2>5
  <2>9. /\ Apart(more) /\ \A j \in 1 .. Len(more) : more[j].end <= m.end
        /\ \A x \in Int : x \in Cover(more) <=>
              x \in Cover(out) \/ (Within(m, x) /\ x \notin Cover(subtrahend))
    BY <2>4, <2>5, <2>6, <2>8, Resting
  <2>10. ASSUME NEW j \in 1 .. n, k < j, NEW h \in 1 .. Len(more)
         PROVE  more[h].end <= minuend[j].start
    <3>1. m.end <= minuend[j].start
      BY <2>5, <2>10 DEF Apart
    <3>2. more[h] \in Spans /\ minuend[j] \in Spans
      BY <2>9 DEF Apart
    <3>3. more[h].end <= m.end
      BY <2>9
    <3> QED BY <2>5, <3>1, <3>2, <3>3 DEF Spans
  <2>11. ASSUME NEW x \in Int
         PROVE  x \in Cover(more) <=> Covers(minuend, k, x) /\ x \notin Cover(subtrahend)
    <3>1. Covers(minuend, k, x) <=> Covers(minuend, i, x) \/ Within(m, x)
      <4>1. 1 .. k = (1 .. i) \cup {k}
        BY <2>2
      <4> QED BY <2>5, <4>1 DEF Covers
    <3>2. x \in Cover(out) <=> Covers(minuend, i, x) /\ x \notin Cover(subtrahend)
      BY <2>4
    <3>3. x \in Cover(more) <=>
              x \in Cover(out) \/ (Within(m, x) /\ x \notin Cover(subtrahend))
      BY <2>9
    <3> QED BY <3>1, <3>2, <3>3, Zenon
  <2>12. Good(k, more)
    BY <2>9, <2>10, <2>11
  <2> HIDE DEF Good
  <2> QED BY <2>2, <2>7, <2>12
<1>8. Nat \subseteq S
  <2> HIDE DEF S
  <2> QED BY <1>6, <1>7, Counting
<1>9. n \in S /\ n <= n
  <2> HIDE DEF S
  <2> QED BY <1>1, <1>8
<1>10. PICK out : out = f[n]
  OBVIOUS
<1>11. Good(n, out)
  <2> HIDE DEF Good
  <2> QED BY <1>9, <1>10
<1>12. ASSUME NEW x \in Int
       PROVE  x \in Cover(out) <=> x \in Cover(minuend) /\ x \notin Cover(subtrahend)
  <2>1. x \in Cover(out) <=> Covers(minuend, n, x) /\ x \notin Cover(subtrahend)
    BY <1>11
  <2>2. x \in Cover(minuend) <=> Covers(minuend, n, x)
    BY DEF Cover
  <2> QED BY <2>1, <2>2, Zenon
<1>13. Cover(out) \subseteq Int /\ Cover(minuend) \subseteq Int
  BY DEF Cover
<1>14. Cover(out) = Cover(minuend) \ Cover(subtrahend)
  BY <1>12, <1>13
<1> QED BY <1>2, <1>10, <1>11, <1>14
----------------------------------------------------------------------------
(* The figures of a report.                                                *)

\* A finite set has finitely many images.
LEMMA Images ==
    ASSUME NEW S, IsFiniteSet(S), NEW f
    PROVE  IsFiniteSet({f[x] : x \in S})
<1> DEFINE T == {f[x] : x \in S}
           g == [x \in S |-> f[x]]
<1>1. g \in Surjection(S, T)
  BY DEF Surjection
<1> HIDE DEF g, T
<1>2. IsFiniteSet(T)
  BY <1>1, FS_Surjection
<1> QED BY <1>2 DEF T

\* Range::intersect keeps the part of the ranges that lies in w.
LEMMA Clipping ==
    ASSUME NEW ranges \in SUBSET Spans, IsFiniteSet(ranges), NEW w \in Spans
    PROVE  /\ Solid(Clip(ranges, w)) /\ IsFiniteSet(Clip(ranges, w))
           /\ \A x \in Int : (\E r \in Clip(ranges, w) : Within(r, x)) <=>
                 (Within(w, x) /\ \E r \in ranges : Within(r, x))
<1> DEFINE cut == [r \in ranges |-> [start |-> Max({r.start, w.start}), end |-> Min({r.end, w.end})]]
           T == {cut[r] : r \in ranges}
<1>1. Clip(ranges, w) = {r \in T : r.start < r.end}
  BY DEF Clip
<1>2. IsFiniteSet(Clip(ranges, w))
  <2>1. IsFiniteSet(T)
    <3> HIDE DEF cut
    <3> QED BY Images
  <2> HIDE DEF T
  <2>2. Clip(ranges, w) \in SUBSET T
    BY <1>1
  <2> QED BY <2>1, <2>2, FS_Subset
<1>3. w.start \in Int /\ w.end \in Int
  BY DEF Spans
<1>4. ASSUME NEW r \in ranges
      PROVE  /\ cut[r] \in Spans
             /\ cut[r].start = IF r.start >= w.start THEN r.start ELSE w.start
             /\ cut[r].end = IF r.end <= w.end THEN r.end ELSE w.end
  <2>1. r.start \in Int /\ r.end \in Int
    BY DEF Spans
  <2>2. Max({r.start, w.start}) = IF r.start >= w.start THEN r.start ELSE w.start
    BY <1>3, <2>1, MaxMin
  <2>3. Min({r.end, w.end}) = IF r.end <= w.end THEN r.end ELSE w.end
    BY <1>3, <2>1, MaxMin
  <2>4. cut[r] = [start |-> Max({r.start, w.start}), end |-> Min({r.end, w.end})]
    OBVIOUS
  <2>5. Max({r.start, w.start}) \in Int /\ Min({r.end, w.end}) \in Int
    BY <1>3, <2>1, <2>2, <2>3
  <2> HIDE DEF cut
  <2> QED BY <2>2, <2>3, <2>4, <2>5 DEF Spans
<1>5. ASSUME NEW r \in ranges, NEW x \in Int
      PROVE  Within(cut[r], x) <=> (Within(w, x) /\ Within(r, x))
  <2>1. r.start \in Int /\ r.end \in Int
    BY DEF Spans
  <2> HIDE DEF cut
  <2> QED BY <1>3, <1>4, <2>1 DEF Within
<1> HIDE DEF cut
<1>6. Solid(Clip(ranges, w))
  BY <1>1, <1>4 DEF Solid
<1>7. ASSUME NEW x \in Int
      PROVE  (\E r \in Clip(ranges, w) : Within(r, x)) <=>
                (Within(w, x) /\ \E r \in ranges : Within(r, x))
  <2>1. ASSUME NEW c \in Clip(ranges, w), Within(c, x)
        PROVE  Within(w, x) /\ \E r \in ranges : Within(r, x)
    <3>1. PICK r \in ranges : c = cut[r]
      BY <1>1
    <3> QED BY <1>5, <2>1, <3>1
  <2>2. ASSUME Within(w, x), NEW r \in ranges, Within(r, x)
        PROVE  \E c \in Clip(ranges, w) : Within(c, x)
    <3>1. PICK c : c = cut[r]
      OBVIOUS
    <3>2. Within(c, x) /\ c \in Spans
      BY <1>4, <1>5, <2>2, <3>1
    <3>3. c.start < c.end
      BY <3>2 DEF Within, Spans
    <3>4. c \in Clip(ranges, w)
      BY <1>1, <3>1, <3>3
    <3> QED BY <3>2, <3>4
  <2> QED BY <2>1, <2>2
<1> QED BY <1>2, <1>6, <1>7

\* An incident is open at x.
OpenAt(i, x) == i.opened <= x /\ (i.resolved = None \/ x < i.resolved)

Met(incidents, x) == \E k \in DOMAIN incidents : OpenAt(incidents[k], x)

\* Incidents as a query gives them.
Given(incidents) ==
    /\ IsFiniteSet(DOMAIN incidents)
    /\ \A k \in DOMAIN incidents :
          /\ incidents[k].opened \in Int
          /\ incidents[k].resolved \in Int \cup {None}

\* union over incident_ranges covers the seconds of the window that an incident
\* met, each once.
LEMMA OutagesCover ==
    ASSUME NEW incidents, Given(incidents), NEW w \in Spans
    PROVE  /\ Apart(Union(IncidentRanges(incidents, w)))
           /\ Cover(Union(IncidentRanges(incidents, w))) =
                 {x \in Int : Within(w, x) /\ Met(incidents, x)}
<1> DEFINE span == [k \in DOMAIN incidents |->
                      [start |-> incidents[k].opened,
                       end |-> IF incidents[k].resolved = None THEN w.end
                               ELSE incidents[k].resolved]]
           ranges == {span[k] : k \in DOMAIN incidents}
           union == Union(IncidentRanges(incidents, w))
<1>1. IncidentRanges(incidents, w) = Clip(ranges, w)
  <2>1. ranges = {[start |-> i.opened, end |-> IF i.resolved = None THEN w.end ELSE i.resolved] :
                     i \in Range(incidents)}
    BY DEF Range
  <2> HIDE DEF ranges
  <2> QED BY <2>1 DEF IncidentRanges
<1>2. w.start \in Int /\ w.end \in Int
  BY DEF Spans
<1>3. ASSUME NEW k \in DOMAIN incidents
      PROVE  /\ span[k] \in Spans /\ span[k].start = incidents[k].opened
             /\ span[k].end = IF incidents[k].resolved = None THEN w.end ELSE incidents[k].resolved
  BY <1>2 DEF Given, Spans
<1>4. ASSUME NEW k \in DOMAIN incidents, NEW x \in Int
      PROVE  Within(w, x) => (Within(span[k], x) <=> OpenAt(incidents[k], x))
  <2> HIDE DEF span
  <2>1. CASE incidents[k].resolved = None
    BY <1>2, <1>3, <2>1 DEF Within, OpenAt
  <2>2. CASE incidents[k].resolved # None
    BY <1>3, <2>2 DEF Within, OpenAt
  <2> QED BY <2>1, <2>2
<1> HIDE DEF span
<1>5. ranges \in SUBSET Spans /\ IsFiniteSet(ranges)
  BY <1>3, Images DEF Given
<1>6. \A x \in Int : Within(w, x) => ((\E r \in ranges : Within(r, x)) <=> Met(incidents, x))
  BY <1>4 DEF Met
<1> HIDE DEF ranges
<1>7. PICK clipped : clipped = Clip(ranges, w)
  OBVIOUS
<1>8. /\ Solid(clipped) /\ IsFiniteSet(clipped)
      /\ \A x \in Int : (\E r \in clipped : Within(r, x)) <=>
            (Within(w, x) /\ \E r \in ranges : Within(r, x))
  BY <1>5, <1>7, Clipping
<1>9. union = Union(clipped)
  BY <1>1, <1>7
<1>10. /\ Apart(union)
       /\ \A x \in Int : x \in Cover(union) <=> \E r \in clipped : Within(r, x)
  <2> HIDE DEF union
  <2> QED BY <1>8, <1>9, UnionCovers
<1> HIDE DEF union
<1>11. ASSUME NEW x \in Int
       PROVE  x \in Cover(union) <=> (Within(w, x) /\ Met(incidents, x))
  BY <1>6, <1>8, <1>10
<1>12. Cover(union) \subseteq Int
  BY DEF Cover
<1>13. Cover(union) = {x \in Int : Within(w, x) /\ Met(incidents, x)}
  BY <1>11, <1>12
<1> QED BY <1>10, <1>13 DEF union

\* union over maintenance_ranges covers the seconds of the window that lie in one
\* of the maintenance windows.
LEMMA QuietCover ==
    ASSUME NEW windows, IsFiniteSet(windows),
           \A m \in windows : m.start \in Int /\ m.end \in Int, NEW w \in Spans
    PROVE  /\ Apart(Union(MaintenanceRanges(windows, w)))
           /\ Cover(Union(MaintenanceRanges(windows, w))) =
                 {x \in Int : Within(w, x) /\ \E m \in windows : Within(m, x)}
<1> DEFINE span == [m \in windows |-> [start |-> m.start, end |-> m.end]]
           ranges == {span[m] : m \in windows}
           union == Union(MaintenanceRanges(windows, w))
<1>1. MaintenanceRanges(windows, w) = Clip(ranges, w)
  <2>1. ranges = {[start |-> m.start, end |-> m.end] : m \in windows}
    OBVIOUS
  <2> HIDE DEF ranges
  <2> QED BY <2>1 DEF MaintenanceRanges
<1>3. ASSUME NEW m \in windows
      PROVE  span[m] \in Spans /\ span[m].start = m.start /\ span[m].end = m.end
  BY DEF Spans
<1> HIDE DEF span
<1>5. ranges \in SUBSET Spans /\ IsFiniteSet(ranges)
  BY <1>3, Images
<1>6. \A x \in Int : (\E r \in ranges : Within(r, x)) <=> \E m \in windows : Within(m, x)
  BY <1>3 DEF Within
<1> HIDE DEF ranges
<1>7. PICK clipped : clipped = Clip(ranges, w)
  OBVIOUS
<1>8. /\ Solid(clipped) /\ IsFiniteSet(clipped)
      /\ \A x \in Int : (\E r \in clipped : Within(r, x)) <=>
            (Within(w, x) /\ \E r \in ranges : Within(r, x))
  BY <1>5, <1>7, Clipping
<1>9. union = Union(clipped)
  BY <1>1, <1>7
<1>10. /\ Apart(union)
       /\ \A x \in Int : x \in Cover(union) <=> \E r \in clipped : Within(r, x)
  <2> HIDE DEF union
  <2> QED BY <1>8, <1>9, UnionCovers
<1> HIDE DEF union
<1>11. ASSUME NEW x \in Int
       PROVE  x \in Cover(union) <=> (Within(w, x) /\ \E m \in windows : Within(m, x))
  BY <1>6, <1>8, <1>10
<1>12. Cover(union) \subseteq Int
  BY DEF Cover
<1>13. Cover(union) = {x \in Int : Within(w, x) /\ \E m \in windows : Within(m, x)}
  BY <1>11, <1>12
<1> QED BY <1>10, <1>13 DEF union

\* The figures of a report in which the seconds of `downs` were spent in an
\* incident and those of `quiet` in an excluding window.
Figures(r, downs, quiet) ==
    /\ r.downtime = Cardinality(downs)
    /\ r.excluded = Cardinality(quiet)
    /\ r.sla = IF Seconds(r) \subseteq quiet THEN None
               ELSE Ratio(Cardinality(Seconds(r) \ (quiet \cup downs)),
                          Cardinality(Seconds(r) \ quiet))

DownIn(w, incidents) == {x \in Int : Within(w, x) /\ Met(incidents, x)}

QuietIn(w, windows) == {x \in Int : Within(w, x) /\ \E m \in windows : Within(m, x)}

\* compute_sla gives the figures of what it was handed.
LEMMA Computed ==
    ASSUME NEW t, NEW w \in Spans, w.start < w.end,
           NEW incidents, Given(incidents),
           NEW windows, IsFiniteSet(windows),
           \A m \in windows : m.start \in Int /\ m.end \in Int
    PROVE  LET r == ComputeSla(t, w, incidents, windows)
           IN /\ r.target = t /\ r.start = w.start /\ r.end = w.end /\ r.seen = window
              /\ r.count = Cardinality(DOMAIN incidents)
              /\ Figures(r, DownIn(w, incidents), QuietIn(w, windows))
<1> DEFINE r == ComputeSla(t, w, incidents, windows)
<1>1. PICK outages, quiet : outages = Union(IncidentRanges(incidents, w))
                            /\ quiet = Union(MaintenanceRanges(windows, w))
  OBVIOUS
<1>2. PICK D, Q : /\ D = {x \in Int : Within(w, x) /\ Met(incidents, x)}
                  /\ Q = {x \in Int : Within(w, x) /\ \E m \in windows : Within(m, x)}
  OBVIOUS
<1>3. Apart(outages) /\ Cover(outages) = D
  BY <1>1, <1>2, OutagesCover
<1>4. Apart(quiet) /\ Cover(quiet) = Q
  BY <1>1, <1>2, QuietCover
<1>5. PICK W : W = Seconds(w)
  OBVIOUS
<1>6. w.start \in Int /\ w.end \in Int
  BY DEF Spans
<1>7. PICK whole \in Int : whole = w.end - w.start /\ whole > 0
  BY <1>6
<1>8. W = {x \in Int : Within(w, x)} /\ IsFiniteSet(W) /\ Cardinality(W) = whole
  <2>1. Length(w) = whole
    <3>1. Max({whole, 0}) = whole
      BY <1>7, MaxMin
    <3> QED BY <1>7, <3>1 DEF Length
  <2> QED BY <1>5, <2>1, SecondsOf
<1>9. D \subseteq W /\ Q \subseteq W
  BY <1>2, <1>8
<1>10. TotalSeconds(outages) = Cardinality(D) /\ IsFiniteSet(D)
  BY <1>3, TotalCounts
<1>11. TotalSeconds(quiet) = Cardinality(Q) /\ IsFiniteSet(Q)
  BY <1>4, TotalCounts
<1>12. TotalSeconds(Subtract(outages, quiet)) = Cardinality(D \ Q)
  <2>1. PICK rest : rest = Subtract(outages, quiet)
    OBVIOUS
  <2>2. Apart(rest) /\ Cover(rest) = D \ Q
    BY <1>3, <1>4, <2>1, SubtractCovers
  <2>3. TotalSeconds(rest) = Cardinality(D \ Q)
    BY <2>2, TotalCounts
  <2> QED BY <2>1, <2>3
<1>13. /\ IsFiniteSet(W \ Q) /\ Cardinality(W \ Q) = whole - Cardinality(Q)
       /\ Cardinality(W \ Q) \in Nat
  <2>1. W \cap Q = Q
    BY <1>9
  <2>2. IsFiniteSet(W \ Q) /\ Cardinality(W \ Q) = Cardinality(W) - Cardinality(W \cap Q)
    BY <1>8, FS_Difference
  <2> QED BY <1>8, <2>1, <2>2, FS_CardinalityType
<1>14. Cardinality(W \ (Q \cup D)) = Cardinality(W \ Q) - Cardinality(D \ Q)
  <2>1. (W \ Q) \ D = W \ (Q \cup D) /\ (W \ Q) \cap D = D \ Q
    BY <1>9
  <2>2. Cardinality((W \ Q) \ D) = Cardinality(W \ Q) - Cardinality((W \ Q) \cap D)
    BY <1>13, FS_Difference
  <2> QED BY <2>1, <2>2
<1>15. Cardinality(W \ Q) = 0 <=> W \subseteq Q
  <2>1. Cardinality(W \ Q) = 0 <=> W \ Q = {}
    BY <1>13, FS_EmptySet
  <2> QED BY <2>1
<1>16. PICK effective : effective = Max({whole - Cardinality(Q), 0})
  OBVIOUS
<1>17. effective = Cardinality(W \ Q)
  <2>1. PICK e \in Int : e = whole - Cardinality(Q) /\ e >= 0
    BY <1>13
  <2>2. Max({e, 0}) = e
    BY <2>1, MaxMin
  <2> QED BY <1>13, <1>16, <2>1, <2>2
<1>18. r = [target |-> t, start |-> w.start, end |-> w.end,
            downtime |-> Cardinality(D), excluded |-> Cardinality(Q),
            sla |-> IF effective = 0 THEN None
                    ELSE Ratio(effective - Cardinality(D \ Q), effective),
            count |-> Cardinality(DOMAIN incidents), mttr |-> Mttr(incidents),
            seen |-> window]
  BY <1>1, <1>7, <1>10, <1>11, <1>12, <1>16 DEF ComputeSla
<1> HIDE DEF r
<1>19. r.start = w.start /\ r.end = w.end
  BY <1>18
<1>20. Seconds(r) = W
  BY <1>5, <1>19 DEF Seconds
<1>21. r.sla = IF W \subseteq Q THEN None
               ELSE Ratio(Cardinality(W \ (Q \cup D)), Cardinality(W \ Q))
  <2>1. r.sla = IF effective = 0 THEN None ELSE Ratio(effective - Cardinality(D \ Q), effective)
    BY <1>18
  <2>2. (effective = 0) = (W \subseteq Q)
    BY <1>15, <1>17
  <2> QED BY <1>14, <1>17, <2>1, <2>2
<1>22. r.downtime = Cardinality(D) /\ r.excluded = Cardinality(Q)
  BY <1>18
<1>23. Figures(r, D, Q)
  BY <1>20, <1>21, <1>22 DEF Figures
<1>24. /\ r.target = t /\ r.seen = window /\ r.count = Cardinality(DOMAIN incidents)
  BY <1>18
<1>25. Figures(r, DownIn(w, incidents), QuietIn(w, windows))
  BY <1>2, <1>23 DEF DownIn, QuietIn
<1> QED BY <1>19, <1>24, <1>25 DEF r
----------------------------------------------------------------------------
(* Incidents over time.  What a report reads of them lies before its clock, *)
(* and there they do not change any more.                                  *)

KeysOf(rows, start, end) ==
    {k \in DOMAIN rows : /\ rows[k].opened < end
                         /\ rows[k].resolved = None \/ rows[k].resolved > start}

\* What a history says of each of its rows.
LEMMA Rows ==
    ASSUME NEW time \in Nat, NEW rows, History(rows, time)
    PROVE  /\ Len(rows) \in Nat /\ DOMAIN rows = 1 .. Len(rows) /\ Given(rows)
           /\ \A k \in DOMAIN rows :
                 /\ rows[k] \in Row(time)
                 /\ rows[k].opened \in 0 .. time
                 /\ rows[k].resolved \in (0 .. time) \cup {None}
                 /\ rows[k].resolved = None => k = Len(rows)
<1>1. /\ Len(rows) \in Nat /\ DOMAIN rows = 1 .. Len(rows)
      /\ \A k \in DOMAIN rows : rows[k] \in Row(time)
  BY DEF History
<1>2. \A k \in DOMAIN rows :
         rows[k].opened \in 0 .. time /\ rows[k].resolved \in (0 .. time) \cup {None}
  BY <1>1 DEF Row
<1>3. IsFiniteSet(DOMAIN rows)
  BY <1>1, FS_Interval
<1>4. Given(rows)
  BY <1>2, <1>3 DEF Given
<1> QED BY <1>1, <1>2, <1>4 DEF History

\* A history stays one as time passes.
LEMMA HistoryGoesOn ==
    ASSUME NEW time \in Nat, NEW later \in Nat, time <= later, NEW rows, History(rows, time)
    PROVE  History(rows, later)
<1>1. rows \in Seq(Row(later))
  <2>1. Row(time) \subseteq Row(later)
    BY DEF Row
  <2>2. rows \in Seq(Row(time))
    BY DEF History
  <2> QED BY <2>1, <2>2
<1> QED BY <1>1 DEF History

\* The same seconds were met, and the same rows meet every span.
SamePast(more, rows, time) ==
    /\ \A x \in Int : x < time => (Met(more, x) <=> Met(rows, x))
    /\ \A start, end \in Int : start < end /\ end <= time =>
          KeysOf(more, start, end) = KeysOf(rows, start, end)

\* A row is added to a history whose incidents are over; one that is dated now
\* changes nothing before now.
LEMMA Opening ==
    ASSUME NEW time \in Nat, NEW rows, History(rows, time),
           rows # <<>> => Last(rows).resolved # None,
           NEW row \in Row(time), row.resolved = None,
           NEW more, more = Append(rows, row)
    PROVE  /\ History(more, time)
           /\ row.opened = time => SamePast(more, rows, time)
<1>1. PICK n \in Nat : n = Len(rows) /\ DOMAIN rows = 1 .. n
  BY Rows
<1>2. rows \in Seq(Row(time))
  BY DEF History
<1>3. row \in Row(time) /\ row.resolved = None
  OBVIOUS
<1>4. /\ more \in Seq(Row(time)) /\ Len(more) = n + 1 /\ DOMAIN more = 1 .. n + 1 /\ more[n + 1] = row
      /\ \A k \in 1 .. n : more[k] = rows[k]
  BY <1>1, <1>2, <1>3
<1>5. \A k \in 1 .. n : rows[k].resolved # None
  <2>1. ASSUME NEW k \in 1 .. n, rows[k].resolved = None PROVE FALSE
    <3>1. k = n
      BY <1>1, <2>1, Rows
    <3>2. rows # <<>> /\ Last(rows) = rows[n]
      BY <1>1, <1>2, <2>1, <3>1 DEF Last
    <3> QED BY <2>1, <3>1, <3>2
  <2> QED BY <2>1
<1>6. 1 .. n + 1 = (1 .. n) \cup {n + 1}
  BY <1>1
<1>7. History(more, time)
  <2>1. \A k \in 1 .. n + 1 : more[k].resolved = None => k = n + 1
    BY <1>4, <1>5, <1>6
  <2> QED BY <1>4, <2>1 DEF History
<1>8. ASSUME row.opened = time, NEW x \in Int, x < time PROVE Met(more, x) <=> Met(rows, x)
  <2>1. ~OpenAt(row, x)
    BY <1>8 DEF OpenAt
  <2> QED BY <1>1, <1>4, <1>6, <2>1 DEF Met
<1>9. ASSUME row.opened = time, NEW start \in Int, NEW end \in Int, end <= time
      PROVE  KeysOf(more, start, end) = KeysOf(rows, start, end)
  <2>1. ~(more[n + 1].opened < end)
    BY <1>4, <1>9
  <2> QED BY <1>1, <1>4, <1>6, <2>1 DEF KeysOf
<1> QED BY <1>7, <1>8, <1>9 DEF SamePast

\* Two fields of a row are replaced.
LEMMA TwoFields ==
    ASSUME NEW S, NEW T, NEW U, NEW i \in [opened : S, resolved : T, duration : U],
           NEW a \in T, NEW b \in U
    PROVE  LET j == [i EXCEPT !.resolved = a, !.duration = b]
           IN /\ j \in [opened : S, resolved : T, duration : U]
              /\ j.opened = i.opened /\ j.resolved = a
OBVIOUS

\* A row gets an end, and keeps its place and its begin.  Where the incident was
\* open and ends now, nothing before now changes.
LEMMA Resolving ==
    ASSUME NEW time \in Nat, NEW rows, History(rows, time), NEW i \in DOMAIN rows,
           NEW row \in Row(time), row.opened = rows[i].opened, row.resolved # None,
           NEW more, more = [rows EXCEPT ![i] = row]
    PROVE  /\ History(more, time)
           /\ rows[i].resolved = None /\ row.resolved = time => SamePast(more, rows, time)
<1>1. PICK n \in Nat : n = Len(rows) /\ DOMAIN rows = 1 .. n
  BY Rows
<1>2. rows \in Seq(Row(time))
  BY DEF History
<1>3. i \in 1 .. n /\ rows[i] \in Row(time)
  BY <1>1, <1>2
<1>4. PICK since \in 0 .. time : since = rows[i].opened /\ row.opened = since
  BY <1>3 DEF Row
<1>5. /\ more \in Seq(Row(time)) /\ Len(more) = n /\ DOMAIN more = 1 .. n /\ more[i] = row
      /\ \A k \in 1 .. n : k # i => more[k] = rows[k]
  BY <1>1, <1>2, <1>3
<1>6. History(more, time)
  <2>1. ASSUME NEW k \in 1 .. n, more[k].resolved = None PROVE k = n
    <3>1. k # i
      BY <1>5, <2>1
    <3> QED BY <1>1, <1>5, <2>1, <3>1, Rows
  <2> QED BY <1>5, <2>1 DEF History
<1>7. ASSUME rows[i].resolved = None, row.resolved = time, NEW x \in Int, x < time
      PROVE  Met(more, x) <=> Met(rows, x)
  <2>1. OpenAt(row, x) <=> OpenAt(rows[i], x)
    BY <1>4, <1>7 DEF OpenAt
  <2> QED BY <1>1, <1>3, <1>5, <2>1 DEF Met
<1>8. ASSUME rows[i].resolved = None, row.resolved = time,
             NEW start \in Int, NEW end \in Int, start < end, end <= time
      PROVE  KeysOf(more, start, end) = KeysOf(rows, start, end)
  <2>1. more[i].opened = rows[i].opened /\ more[i].resolved > start
    BY <1>4, <1>5, <1>8
  <2> QED BY <1>1, <1>3, <1>5, <1>8, <2>1 DEF KeysOf
<1> QED BY <1>6, <1>7, <1>8 DEF SamePast
----------------------------------------------------------------------------
(* The tables.                                                             *)

WindowRow(m) ==
    /\ m.start \in Int /\ m.end \in Int
    /\ m = [start |-> m.start, end |-> m.end, tag |-> m.tag, target |-> m.target,
            exclude |-> m.exclude, meant |-> m.meant]

Tables ==
    /\ now \in Nat
    /\ DOMAIN incident = Targets
    /\ \A t \in Targets : History(incident[t], now)
    /\ \A c \in sent : c.target \in Targets /\ c.at \in 0 .. now
    /\ IsFiniteSet(window) /\ \A m \in window : WindowRow(m)
    /\ deleted \subseteq Targets

\* What a step leaves of the targets' past, and of what is known of it.
PastKept ==
    /\ now <= now'
    /\ page.pc # "Idle" => altered \subseteq altered'
    /\ \A t \in Targets \ altered' : SamePast(incident'[t], incident[t], now)

\* The windows that are created are rows of the table.
LEMMA CreatedRows ==
    ASSUME NEW windows, windows \subseteq Windows, IsFiniteSet(windows)
    PROVE  IsFiniteSet(Created(windows)) /\ \A m \in Created(windows) : WindowRow(m)
<1> DEFINE row == [w \in windows |->
                     [start |-> w.start, end |-> w.end, tag |-> w.tag, target |-> w.target,
                      exclude |-> w.exclude, meant |-> w.target]]
<1>1. Created(windows) = {row[w] : w \in windows}
  BY DEF Created
<1>2. ASSUME NEW w \in windows PROVE WindowRow(row[w])
  BY ReportAssumption DEF WindowRow
<1> HIDE DEF row
<1> QED BY <1>1, <1>2, Images

\* The tables are in order at the start.
LEMMA TablesInit == Init => Tables
<1> SUFFICES ASSUME Init PROVE Tables
  OBVIOUS
<1>1. PICK s \in Situations : incident = s.incident /\ window = Created(s.windows)
  BY DEF Init
<1>2. now = StartClock /\ now \in Nat /\ deleted = {}
  BY ReportAssumption DEF Init
<1>3. /\ s.windows \subseteq Windows /\ IsFiniteSet(s.windows)
      /\ DOMAIN s.incident = Targets
      /\ \A t \in Targets : History(s.incident[t], StartClock)
  BY ReportAssumption
<1>4. IsFiniteSet(window) /\ \A m \in window : WindowRow(m)
  <2>1. PICK w : w = s.windows
    OBVIOUS
  <2> QED BY <1>1, <1>3, <2>1, CreatedRows
<1>5. sent = {}
  BY DEF Init
<1> QED BY <1>1, <1>2, <1>3, <1>4, <1>5 DEF Tables

\* One target's incidents change as they may, and the past stays as it was unless
\* the target counts as altered.
LEMMA OneTarget ==
    ASSUME Tables, NEW t \in Targets, NEW rows,
           incident' = [incident EXCEPT ![t] = rows],
           now' = now, window' = window, deleted' = deleted,
           sent' \subseteq sent, altered \subseteq altered',
           History(rows, now), t \notin altered' => SamePast(rows, incident[t], now)
    PROVE  Tables' /\ PastKept
<1>1. /\ DOMAIN incident' = Targets /\ incident'[t] = rows
      /\ \A u \in Targets : u # t => incident'[u] = incident[u]
  BY DEF Tables
<1>2. \A u \in Targets : History(incident'[u], now)
  BY <1>1 DEF Tables
<1>3. Tables'
  BY <1>1, <1>2 DEF Tables
<1>4. ASSUME NEW u \in Targets \ altered' PROVE SamePast(incident'[u], incident[u], now)
  <2>1. CASE u = t
    BY <1>1, <2>1
  <2>2. CASE u # t
    BY <1>1, <2>2 DEF SamePast
  <2> QED BY <2>1, <2>2
<1>5. now <= now'
  BY DEF Tables
<1> QED BY <1>3, <1>4, <1>5 DEF PastKept

\* Nothing of the incidents changes.
LEMMA Unmoved ==
    ASSUME now \in Nat, now' \in Nat, now <= now', incident' = incident,
           page.pc # "Idle" => altered \subseteq altered'
    PROVE  PastKept
BY DEF PastKept, SamePast

\* An INSERT arrives.
LEMMA OpenStep ==
    ASSUME Tables, NEW c \in sent, Open(c)
    PROVE  Tables' /\ PastKept
<1>1. PICK t, rows, time, at : t = c.target /\ rows = incident[t] /\ time = now /\ at = c.at
  OBVIOUS
<1>2. t \in Targets /\ time \in Nat /\ at \in 0 .. time /\ History(rows, time)
  BY <1>1 DEF Tables
<1>3. /\ now' = now /\ window' = window /\ deleted' = deleted /\ sent' \subseteq sent
      /\ altered' = IF at < time THEN altered \cup {t} ELSE altered
  BY <1>1 DEF Open, Lands
<1>4. CASE IsOpen(t) \/ t \in deleted
  <2>1. incident' = incident
    BY <1>1, <1>4 DEF Open
  <2>2. Tables'
    BY <1>3, <2>1 DEF Tables
  <2> QED BY <1>1, <1>2, <1>3, <2>1, <2>2, Unmoved
<1>5. CASE ~(IsOpen(t) \/ t \in deleted)
  <2>1. PICK row : row = [opened |-> at, resolved |-> None, duration |-> None]
    OBVIOUS
  <2>2. PICK more : more = Append(rows, row)
    OBVIOUS
  <2>3. incident' = [incident EXCEPT ![t] = more]
    BY <1>1, <1>5, <2>1, <2>2 DEF Open
  <2>4. rows # <<>> => Last(rows).resolved # None
    BY <1>1, <1>5 DEF IsOpen
  <2>5. row \in Row(time) /\ row.opened = at /\ row.resolved = None
    BY <1>2, <2>1 DEF Row
  <2>6. /\ History(more, time)
        /\ at = time => SamePast(more, rows, time)
    BY <1>2, <2>2, <2>4, <2>5, Opening
  <2>7. t \notin altered' => at = time
    BY <1>2, <1>3
  <2> QED BY <1>1, <1>2, <1>3, <2>3, <2>6, <2>7, OneTarget
<1> QED BY <1>4, <1>5

\* An end is stored in row k.
LEMMA EndStep ==
    ASSUME Tables, NEW t \in Targets, NEW k \in DOMAIN incident[t], NEW at \in 0 .. now,
           incident' = [incident EXCEPT ![t] = Ended(incident[t], k, at)],
           now' = now, window' = window, deleted' = deleted, sent' \subseteq sent,
           altered \subseteq altered',
           t \notin altered' => at = now /\ incident[t][k].resolved = None
    PROVE  Tables' /\ PastKept
<1>1. PICK rows, i, time : rows = incident[t] /\ i = k /\ time = now
  OBVIOUS
<1>2. time \in Nat /\ History(rows, time) /\ i \in DOMAIN rows /\ at \in 0 .. time
  BY <1>1 DEF Tables
<1>3. PICK last : last = rows[i]
  OBVIOUS
<1>4. PICK row : row = [last EXCEPT !.resolved = at, !.duration = at - last.opened]
  OBVIOUS
<1>5. PICK more : more = [rows EXCEPT ![i] = row]
  OBVIOUS
<1>6. last \in Row(time) /\ last.opened \in 0 .. time
  BY <1>2, <1>3, Rows
<1>7. row \in Row(time) /\ row.opened = last.opened /\ row.resolved = at
  <2>1. PICK lasted \in Int \cup {None} : lasted = at - last.opened
    BY <1>2, <1>6
  <2>2. PICK S, T, U : S = 0 .. time /\ T = (0 .. time) \cup {None} /\ U = Int \cup {None}
    OBVIOUS
  <2>3. last \in [opened : S, resolved : T, duration : U] /\ at \in T /\ lasted \in U
    BY <1>2, <1>6, <2>1, <2>2 DEF Row
  <2>4. row = [last EXCEPT !.resolved = at, !.duration = lasted]
    BY <1>4, <2>1
  <2>5. row \in [opened : S, resolved : T, duration : U]
        /\ row.opened = last.opened /\ row.resolved = at
    BY <2>3, <2>4, TwoFields
  <2> QED BY <2>2, <2>5 DEF Row
<1>8. at # None
  BY <1>2, ReportAssumption
<1>9. /\ History(more, time)
      /\ last.resolved = None /\ at = time => SamePast(more, rows, time)
  <2>1. row.opened = rows[i].opened /\ row.resolved # None
    BY <1>3, <1>7, <1>8
  <2> QED BY <1>2, <1>3, <1>5, <1>7, <2>1, Resolving
<1>10. Ended(rows, i, at) = more
  <2>1. Ended(rows, i, at) =
           [rows EXCEPT ![i] = [rows[i] EXCEPT !.resolved = at, !.duration = at - rows[i].opened]]
    BY Zenon DEF Ended
  <2> QED BY <1>3, <1>4, <1>5, <2>1
<1>11. incident' = [incident EXCEPT ![t] = more]
  BY <1>1, <1>10
<1>12. t \notin altered' => SamePast(more, rows, time)
  BY <1>1, <1>3, <1>9
<1> QED BY <1>1, <1>9, <1>11, <1>12, OneTarget

\* The UPDATE of an administrator arrives.
LEMMA ResolveStep ==
    ASSUME Tables, NEW c \in sent, Resolve(c)
    PROVE  Tables' /\ PastKept
<1>1. PICK t, k, at : t = c.target /\ k = c.key /\ at = c.at
  OBVIOUS
<1>2. /\ t \in Targets /\ now \in Nat /\ at \in 0 .. now
      /\ now' = now /\ window' = window /\ deleted' = deleted /\ sent' \subseteq sent
      /\ altered \subseteq altered'
  BY <1>1 DEF Tables, Resolve, Lands
<1>3. CASE k \in DOMAIN incident[t]
  <2>1. incident' = [incident EXCEPT ![t] = Ended(incident[t], k, at)]
    BY <1>1, <1>3 DEF Resolve
  <2>2. t \notin altered' => at = now /\ incident[t][k].resolved = None
    BY <1>1, <1>2, <1>3 DEF Resolve, Lands
  <2> QED BY <1>2, <1>3, <2>1, <2>2, EndStep
<1>4. CASE k \notin DOMAIN incident[t]
  <2>1. incident' = incident
    BY <1>1, <1>4 DEF Resolve
  <2>2. Tables'
    BY <1>2, <2>1 DEF Tables
  <2> QED BY <1>2, <2>1, <2>2, Unmoved
<1> QED BY <1>3, <1>4

\* The UPDATE of the monitor arrives.
LEMMA AutoResolveStep ==
    ASSUME Tables, NEW c \in sent, AutoResolve(c)
    PROVE  Tables' /\ PastKept
<1>1. PICK t, k, at : t = c.target /\ k = Len(incident[t]) /\ at = c.at
  OBVIOUS
<1>2. /\ t \in Targets /\ now \in Nat /\ at \in 0 .. now
      /\ now' = now /\ window' = window /\ deleted' = deleted /\ sent' \subseteq sent
      /\ altered' = IF at < now THEN altered \cup {t} ELSE altered
  BY <1>1 DEF Tables, AutoResolve, Lands
<1>3. CASE IsOpen(t)
  <2>1. incident' = [incident EXCEPT ![t] = Ended(incident[t], k, at)]
    BY <1>1, <1>3 DEF AutoResolve
  <2>2. k \in DOMAIN incident[t] /\ incident[t][k].resolved = None
    <3>1. PICK rows, time : rows = incident[t] /\ time = now
      OBVIOUS
    <3>2. rows \in Seq(Row(time)) /\ rows # <<>> /\ Last(rows).resolved = None
      BY <1>2, <1>3, <3>1 DEF Tables, History, IsOpen
    <3>3. Len(rows) \in DOMAIN rows /\ rows[Len(rows)].resolved = None
      BY <3>2 DEF Last
    <3> QED BY <1>1, <3>1, <3>3
  <2>3. t \notin altered' => at = now
    BY <1>2
  <2> QED BY <1>2, <2>1, <2>2, <2>3, EndStep
<1>4. CASE ~IsOpen(t)
  <2>1. incident' = incident
    BY <1>1, <1>4 DEF AutoResolve
  <2>2. Tables'
    BY <1>2, <2>1 DEF Tables
  <2> QED BY <1>2, <2>1, <2>2, Unmoved
<1> QED BY <1>3, <1>4

\* A target is deleted, its incidents with it.
LEMMA DeleteStep ==
    ASSUME Tables, NEW t \in Targets, DeleteTarget(t)
    PROVE  Tables' /\ PastKept
<1>1. /\ t \notin deleted /\ deleted' = deleted \cup {t} /\ now' = now
      /\ altered' = altered \cup {t} /\ sent' = sent
      /\ incident' = [incident EXCEPT ![t] = <<>>]
      /\ window' = {IF m.target = t THEN [m EXCEPT !.target = None] ELSE m : m \in window}
  BY DEF DeleteTarget
<1>2. /\ DOMAIN incident' = Targets /\ incident'[t] = <<>>
      /\ \A u \in Targets : u # t => incident'[u] = incident[u]
  BY <1>1 DEF Tables
<1>3. IsFiniteSet(window') /\ \A m \in window' : WindowRow(m)
  <2> DEFINE freed == [m \in window |-> IF m.target = t THEN [m EXCEPT !.target = None] ELSE m]
  <2>1. window' = {freed[m] : m \in window}
    BY <1>1
  <2>2. ASSUME NEW m \in window PROVE WindowRow(freed[m])
    <3>1. /\ m.start \in Int /\ m.end \in Int
          /\ m = [start |-> m.start, end |-> m.end, tag |-> m.tag, target |-> m.target,
                  exclude |-> m.exclude, meant |-> m.meant]
      BY DEF Tables, WindowRow
    <3>2. [m EXCEPT !.target = None] =
             [start |-> m.start, end |-> m.end, tag |-> m.tag, target |-> None,
              exclude |-> m.exclude, meant |-> m.meant]
      BY <3>1
    <3>3. PICK free : free = [start |-> m.start, end |-> m.end, tag |-> m.tag,
                              target |-> None, exclude |-> m.exclude, meant |-> m.meant]
      OBVIOUS
    <3>4. WindowRow(free)
      BY <3>1, <3>3 DEF WindowRow
    <3>5. WindowRow(m)
      BY DEF Tables
    <3> QED BY <3>2, <3>3, <3>4, <3>5
  <2> HIDE DEF freed
  <2>3. IsFiniteSet(window)
    BY DEF Tables
  <2>4. IsFiniteSet({freed[m] : m \in window})
    <3>1. PICK W, f : W = window /\ f = freed
      OBVIOUS
    <3>2. IsFiniteSet({f[m] : m \in W})
      BY <2>3, <3>1, Images
    <3> QED BY <3>1, <3>2
  <2> QED BY <2>1, <2>2, <2>4
<1>4. History(<<>>, now)
  BY DEF History
<1>5. \A u \in Targets : History(incident'[u], now)
  BY <1>2, <1>4 DEF Tables
<1>6. Tables'
  BY <1>1, <1>2, <1>3, <1>5 DEF Tables
<1>7. ASSUME NEW u \in Targets \ altered' PROVE SamePast(incident'[u], incident[u], now)
  <2>1. incident'[u] = incident[u]
    BY <1>1, <1>2
  <2> QED BY <2>1 DEF SamePast
<1>8. now <= now'
  BY <1>1 DEF Tables
<1> QED BY <1>1, <1>6, <1>7, <1>8 DEF PastKept

\* Every step keeps the tables in order, and the past of all but the altered
\* targets.
LEMMA TablesStep ==
    ASSUME Tables, [Next]_vars
    PROVE  Tables' /\ PastKept
<1>1. now \in Nat /\ DOMAIN incident = Targets
      /\ \A t \in Targets : History(incident[t], now)
  BY DEF Tables
<1>2. ASSUME now' = now, incident' = incident, window' = window, deleted' = deleted,
             sent' = sent, page.pc # "Idle" => altered \subseteq altered'
      PROVE  Tables' /\ PastKept
  <2>1. Tables'
    BY <1>2 DEF Tables
  <2> QED BY <1>1, <1>2, <2>1, Unmoved
<1>3. ASSUME NEW kind, NEW t \in Targets, NEW k, Stamp(kind, t, k)
      PROVE  Tables' /\ PastKept
  <2>1. /\ now' = now /\ incident' = incident /\ window' = window /\ deleted' = deleted
        /\ altered' = altered
        /\ sent' = sent \cup {[kind |-> kind, target |-> t, key |-> k, at |-> now,
                               turn |-> moves]}
    BY <1>3 DEF Stamp, tables
  <2>2. Tables'
    BY <1>1, <2>1 DEF Tables
  <2> QED BY <1>1, <2>1, <2>2, Unmoved
<1>4. ASSUME NEW c \in sent, Open(c) \/ Resolve(c) \/ AutoResolve(c)
      PROVE  Tables' /\ PastKept
  BY <1>4, OpenStep, ResolveStep, AutoResolveStep
<1>5. ASSUME NEW t \in Targets, DeleteTarget(t) PROVE Tables' /\ PastKept
  BY <1>5, DeleteStep
<1>6. ASSUME NEW w \in Windows, CreateWindow(w) PROVE Tables' /\ PastKept
  <2>1. /\ window' = window \cup Created({w}) /\ now' = now /\ incident' = incident
        /\ deleted' = deleted /\ altered' = altered /\ sent' = sent
    BY <1>6 DEF CreateWindow
  <2>2. IsFiniteSet(Created({w})) /\ \A m \in Created({w}) : WindowRow(m)
    BY CreatedRows, FS_Singleton
  <2>3. IsFiniteSet(window')
    <3>1. PICK old, new : old = window /\ new = Created({w})
      OBVIOUS
    <3>2. IsFiniteSet(old) /\ IsFiniteSet(new)
      BY <2>2, <3>1 DEF Tables
    <3>3. IsFiniteSet(old \cup new)
      BY <3>2, FS_Union
    <3> QED BY <2>1, <3>1, <3>3
  <2>4. Tables'
    BY <2>1, <2>2, <2>3 DEF Tables
  <2> QED BY <1>1, <2>1, <2>4, Unmoved
<1>7. CASE Tick
  <2>1. /\ now' = now + 1 /\ incident' = incident /\ window' = window
        /\ deleted' = deleted /\ altered' = altered /\ sent' = sent
    BY <1>7 DEF Tick, tables
  <2>2. \A t \in Targets : History(incident[t], now + 1)
    <3>1. PICK time \in Nat : time = now
      BY <1>1
    <3>2. PICK later \in Nat : later = now + 1 /\ time <= later
      BY <1>1, <3>1
    <3>3. ASSUME NEW t \in Targets PROVE History(incident[t], later)
      <4>1. PICK rows : rows = incident[t]
        OBVIOUS
      <4>2. History(rows, time)
        BY <1>1, <3>1, <4>1
      <4>3. History(rows, later)
        BY <3>2, <4>2, HistoryGoesOn
      <4> QED BY <4>1, <4>3
    <3> QED BY <3>2, <3>3
  <2>3. \A c \in sent : c.target \in Targets /\ c.at \in 0 .. now + 1
    BY <1>1 DEF Tables
  <2>4. Tables'
    BY <1>1, <2>1, <2>2, <2>3 DEF Tables
  <2>5. now' \in Nat /\ now <= now'
    BY <1>1, <2>1
  <2> QED BY <1>1, <2>1, <2>4, <2>5, Unmoved
<1>8. CASE Building
  BY <1>2, <1>8 DEF Building, ListTargets, ReadTarget, ReadIncidents, ReadWindows, Complete, tables
<1>9. ASSUME NEW c \in Callers, NEW width \in Asked,
             AskSummary(c, width) \/ \E t \in Targets : AskDetail(c, t, width)
      PROVE  Tables' /\ PastKept
  BY <1>2, <1>9 DEF AskSummary, AskDetail, tables
<1>10. CASE UNCHANGED vars
  BY <1>2, <1>10 DEF vars, tables
<1> QED BY <1>3, <1>4, <1>5, <1>6, <1>7, <1>8, <1>9, <1>10 DEF Next
----------------------------------------------------------------------------
(* The page.                                                               *)

Tasks == [target : Targets, width : Nat \ {0}]

IsSeq(s) == \E S : s \in Seq(S)

\* A report of a span that is over.
Dated(r) ==
    /\ r.target \in Targets /\ r.start \in Int /\ r.end \in Int
    /\ r.start < r.end /\ r.end <= now

\* The report is true of the tables as they are now.
Told(r) ==
    /\ Figures(r, DownSeconds(r), QuietSeconds(r))
    /\ r.count = Cardinality(KeysOf(incident[r.target], r.start, r.end))

\* So are the incidents that were found for it.
Accurate(t, span, found) ==
    /\ \A x \in Int : Within(span, x) => (Met(found, x) <=> Met(incident[t], x))
    /\ DOMAIN found = KeysOf(incident[t], span.start, span.end)

Fields == {"pc", "kind", "caller", "width", "todo", "at", "found", "reports", "summary",
           "listing"}

Shape ==
    /\ DOMAIN page = Fields
    /\ page.pc \in {"Idle", "List", "Build", "Incidents", "Windows", "Done"}
    /\ page.kind \in {"none", "summary", "detail"}
    /\ page.todo \in Seq(Tasks) /\ IsSeq(page.reports)
    /\ page.pc \in {"Idle", "List"} => page.todo = <<>> /\ page.reports = <<>>
    /\ page.pc = "List" => page.kind = "summary" /\ page.width \in Nat \ {0}
    /\ page.pc \in {"Incidents", "Windows"} => page.todo # <<>> /\ page.at \in 0 .. now
    /\ page.pc # "Done" => page.summary = None
    /\ page.summary # None => page.kind = "summary" /\ page.summary = Summary(page.reports)

\* The reports so far: each is true, and was built by a clock that had not gone
\* back.
Standing ==
    /\ \A i \in 1 .. Len(page.reports) : Dated(page.reports[i])
    /\ \A i, j \in 1 .. Len(page.reports) :
          i < j => page.reports[i].end <= page.reports[j].end
    /\ \A i \in 1 .. Len(page.reports) :
          page.reports[i].target \notin altered => Told(page.reports[i])

\* One target throughout.
OfOne(reports, todo) ==
    \E t \in Targets : /\ \A i \in 1 .. Len(reports) : reports[i].target = t
                       /\ \A i \in 1 .. Len(todo) : todo[i].target = t

\* No target twice.
Separate(reports, todo) ==
    /\ \A i, j \in 1 .. Len(reports) : i # j => reports[i].target # reports[j].target
    /\ \A i, j \in 1 .. Len(todo) : i # j => todo[i].target # todo[j].target
    /\ \A i \in 1 .. Len(reports), j \in 1 .. Len(todo) : reports[i].target # todo[j].target

Allowed(c, reports, todo) ==
    /\ \A i \in 1 .. Len(reports) : c \in Admins \/ Owner[reports[i].target] = c
    /\ \A i \in 1 .. Len(todo) : c \in Admins \/ Owner[todo[i].target] = c

Assigned ==
    /\ page.kind = "detail" => OfOne(page.reports, page.todo)
    /\ page.kind = "summary" => /\ Separate(page.reports, page.todo)
                                /\ Allowed(page.caller, page.reports, page.todo)

\* The report being built.
Current ==
    /\ page.pc \in {"Incidents", "Windows"} =>
          \A i \in 1 .. Len(page.reports) : page.reports[i].end <= page.at
    /\ page.pc = "Windows" =>
          /\ Given(page.found)
          /\ Head(page.todo).target \notin altered =>
                Accurate(Head(page.todo).target, Span, page.found)

PageInv == Shape /\ Standing /\ Assigned /\ Current

\* A report that is true stays true while the past is kept.
LEMMA ToldKept ==
    ASSUME now \in Nat, PastKept, NEW r, Dated(r), r.target \notin altered', Told(r)
    PROVE  Told(r)'
<1>1. r.target \in Targets \ altered' /\ r.start \in Int /\ r.end \in Int
      /\ r.start < r.end /\ r.end <= now
  BY DEF Dated
<1>2. PICK t \in Targets \ altered' : t = r.target
  BY <1>1
<1>3. SamePast(incident'[t], incident[t], now)
  BY DEF PastKept
<1>4. KeysOf(incident'[t], r.start, r.end) = KeysOf(incident[t], r.start, r.end)
  BY <1>1, <1>3 DEF SamePast
<1>5. \A x \in Seconds(r) : Met(incident'[t], x) <=> Met(incident[t], x)
  <2>1. \A x \in Seconds(r) : x \in Int /\ x < now
    BY <1>1 DEF Seconds
  <2> QED BY <1>3, <2>1 DEF SamePast
<1>6. DownSeconds(r)' = DownSeconds(r)
  <2>1. DownSeconds(r) = {x \in Seconds(r) : Met(incident[t], x)}
    BY <1>2 DEF DownSeconds, Met, OpenAt
  <2>2. DownSeconds(r)' = {x \in Seconds(r) : Met(incident'[t], x)}
    BY <1>2 DEF DownSeconds, Met, OpenAt
  <2> QED BY <1>5, <2>1, <2>2
<1>7. QuietSeconds(r)' = QuietSeconds(r)
  BY DEF QuietSeconds
<1> QED BY <1>2, <1>4, <1>6, <1>7 DEF Told

\* So do the incidents that were found for one.
LEMMA AccurateKept ==
    ASSUME now \in Nat, PastKept, NEW t \in Targets \ altered', NEW span \in Spans,
           span.start < span.end, span.end <= now, NEW found, Accurate(t, span, found)
    PROVE  Accurate(t, span, found)'
<1>1. SamePast(incident'[t], incident[t], now)
  BY DEF PastKept
<1>2. KeysOf(incident'[t], span.start, span.end) = KeysOf(incident[t], span.start, span.end)
  BY <1>1 DEF SamePast, Spans
<1>3. \A x \in Int : Within(span, x) => x < now
  BY DEF Within, Spans
<1>4. \A x \in Int : Within(span, x) => (Met(found, x) <=> Met(incident'[t], x))
  BY <1>1, <1>3 DEF Accurate, SamePast
<1> QED BY <1>2, <1>4 DEF Accurate

\* The report being built has a target and a span that is over.
LEMMA SpanOf ==
    ASSUME now \in Nat, Shape, page.pc \in {"Incidents", "Windows"}
    PROVE  /\ page.todo # <<>> /\ Head(page.todo) \in Tasks /\ Head(page.todo).target \in Targets
           /\ Span \in Spans /\ Span.start < Span.end
           /\ Span.end = page.at /\ Span.end <= now /\ page.at \in Nat
<1>1. page.todo # <<>> /\ page.todo \in Seq(Tasks) /\ page.at \in 0 .. now
  BY DEF Shape
<1>2. Head(page.todo) \in Tasks
  BY <1>1
<1>3. PICK width \in Nat \ {0} : width = Head(page.todo).width
  BY <1>2 DEF Tasks
<1>4. PICK at \in Nat : at = page.at /\ at <= now
  BY <1>1
<1>5. Span = [start |-> at - width, end |-> at]
  BY <1>3, <1>4 DEF Span
<1>6. Span \in Spans /\ Span.start = at - width /\ Span.end = at
  BY <1>5 DEF Spans
<1> QED BY <1>1, <1>2, <1>4, <1>6 DEF Tasks

\* A page that has not been asked for is in order.
LEMMA PageInit == Init => PageInv
<1> SUFFICES ASSUME Init PROVE PageInv
  OBVIOUS
<1>1. /\ DOMAIN page = Fields /\ page.pc = "Idle" /\ page.kind = "none" /\ page.todo = <<>>
      /\ page.reports = <<>> /\ page.summary = None
  BY DEF Init, Blank, Fields
<1>2. <<>> \in Seq(Tasks) /\ IsSeq(<<>>) /\ Len(<<>>) = 0
  BY DEF IsSeq
<1> QED BY <1>1, <1>2 DEF PageInv, Shape, Standing, Assigned, Current

\* The reports of a page stand while the past is kept.
LEMMA StandingKept ==
    ASSUME now \in Nat, now' \in Nat, PageInv, PastKept, page'.reports = page.reports
    PROVE  Standing'
<1>1. now <= now' /\ (page.reports # <<>> => altered \subseteq altered')
  BY DEF PastKept, PageInv, Shape
<1>2. ASSUME NEW i \in 1 .. Len(page.reports)
      PROVE  /\ Dated(page.reports[i])'
             /\ (page.reports[i].target \notin altered => Told(page.reports[i]))'
  <2>1. PICK r : r = page.reports[i]
    OBVIOUS
  <2>2. Dated(r) /\ (r.target \notin altered => Told(r))
    BY <2>1 DEF PageInv, Standing
  <2>3. r = page'.reports[i] /\ altered \subseteq altered'
    BY <1>1, <2>1
  <2>4. Dated(r)'
    BY <1>1, <2>2 DEF Dated
  <2>5. (r.target \notin altered => Told(r))'
    <3>1. SUFFICES ASSUME r.target \notin altered' PROVE Told(r)'
      OBVIOUS
    <3> QED BY <2>2, <2>3, <3>1, ToldKept
  <2> QED BY <2>3, <2>4, <2>5
<1> QED BY <1>2 DEF PageInv, Standing

\* The tables move on, and the page stays.
LEMMA PageWaits ==
    ASSUME now \in Nat, now' \in Nat, PageInv, PastKept, page' = page
    PROVE  PageInv'
<1>1. now <= now' /\ (page.pc # "Idle" => altered \subseteq altered')
  BY DEF PastKept
<1>2. Shape'
  <2>1. 0 .. now \subseteq 0 .. now'
    BY <1>1
  <2> QED BY <2>1 DEF PageInv, Shape
<1>3. Standing'
  BY StandingKept
<1>4. Assigned'
  BY DEF PageInv, Assigned
<1>5. Current'
  <2>2. ASSUME page.pc = "Windows", Head(page.todo).target \notin altered'
        PROVE  Accurate(Head(page.todo).target, Span, page.found)'
    <3>1. PICK t, span, found : t = Head(page.todo).target /\ span = Span /\ found = page.found
      OBVIOUS
    <3>2. t \in Targets /\ span \in Spans /\ span.start < span.end /\ span.end <= now
      BY <2>2, <3>1, SpanOf DEF PageInv
    <3>3. Accurate(t, span, found)
      BY <1>1, <2>2, <3>1 DEF PageInv, Current
    <3>4. Accurate(t, span, found)'
      BY <2>2, <3>1, <3>2, <3>3, AccurateKept
    <3>5. Span' = span /\ Head(page.todo)' = Head(page.todo) /\ page.found' = found
      BY <3>1 DEF Span
    <3> QED BY <3>1, <3>4, <3>5
  <2> QED BY <2>2 DEF PageInv, Current
<1> QED BY <1>2, <1>3, <1>4, <1>5 DEF PageInv

\* SetToSeq lists every element of a finite set once.
LEMMA Listing ==
    ASSUME NEW S, IsFiniteSet(S)
    PROVE  /\ Cardinality(S) \in Nat
           /\ SetToSeq(S) \in [1 .. Cardinality(S) -> S]
           /\ \A i, j \in 1 .. Cardinality(S) : i # j => SetToSeq(S)[i] # SetToSeq(S)[j]
<1>1. Cardinality(S) \in Nat /\ ExistsBijection(1 .. Cardinality(S), S)
  BY FS_CardinalityType
<1>2. PICK f \in Bijection(1 .. Cardinality(S), S) : TRUE
  BY <1>1 DEF ExistsBijection
<1>3. f \in [1 .. Cardinality(S) -> S] /\ IsInjective(f)
  BY <1>2 DEF Bijection, Injection, IsInjective
<1>4. SetToSeq(S) \in [1 .. Cardinality(S) -> S] /\ IsInjective(SetToSeq(S))
  BY <1>3 DEF SetToSeq
<1> QED BY <1>1, <1>4 DEF IsInjective

\* A summary is asked for: no report yet, no target yet.
LEMMA AskSummaryStep ==
    ASSUME now \in Nat, now' \in Nat, PageInv, PastKept,
           NEW c \in Callers, NEW width \in Asked, AskSummary(c, width)
    PROVE  PageInv'
<1>1. /\ DOMAIN page = Fields /\ page.pc = "Idle" /\ page.todo = <<>> /\ page.reports = <<>>
      /\ page.summary = None
  BY DEF PageInv, Shape, AskSummary
<1>2. /\ DOMAIN page' = Fields /\ page'.pc = "List" /\ page'.kind = "summary"
      /\ page'.width = width /\ page'.todo = <<>> /\ page'.reports = page.reports
      /\ page'.summary = None
  BY <1>1 DEF AskSummary, Fields
<1>3. width \in Nat \ {0}
  BY ReportAssumption
<1>4. Shape'
  BY <1>1, <1>2, <1>3 DEF PageInv, Shape
<1>5. Standing'
  BY <1>2, StandingKept
<1>6. Assigned'
  BY <1>1, <1>2 DEF Assigned, Separate, Allowed
<1>7. Current'
  BY <1>2 DEF Current
<1> QED BY <1>4, <1>5, <1>6, <1>7 DEF PageInv

\* The detail page is asked for: every report of it is of the same target.
LEMMA AskDetailStep ==
    ASSUME now \in Nat, now' \in Nat, PageInv, PastKept,
           NEW c \in Callers, NEW t \in Targets, NEW width \in Asked, AskDetail(c, t, width)
    PROVE  PageInv'
<1> DEFINE more == [i \in DOMAIN Compared |-> Task(t, Compared[i])]
           line == <<Task(t, width)>> \o more
<1>1. /\ DOMAIN page = Fields /\ page.pc = "Idle" /\ page.reports = <<>> /\ page.summary = None
  BY DEF PageInv, Shape, AskDetail
<1>2. /\ DOMAIN page' = Fields /\ page'.pc = "Build" /\ page'.kind = "detail"
      /\ page'.todo = line /\ page'.reports = page.reports /\ page'.summary = None
  BY <1>1 DEF AskDetail, Fields
<1>3. line \in Seq({k \in Tasks : k.target = t})
  <2>1. \A w \in Nat \ {0} : Task(t, w) \in {k \in Tasks : k.target = t}
    BY DEF Task, Tasks
  <2>2. width \in Nat \ {0} /\ Compared \in Seq(Nat \ {0})
    BY ReportAssumption
  <2>3. \A i \in DOMAIN Compared : Compared[i] \in Nat \ {0}
    BY <2>2
  <2>4. more \in [1 .. Len(Compared) -> {k \in Tasks : k.target = t}] /\ Len(Compared) \in Nat
    BY <2>1, <2>2, <2>3
  <2>5. more \in Seq({k \in Tasks : k.target = t})
    <3> HIDE DEF more
    <3> QED BY <2>4, SeqDef
  <2>6. <<Task(t, width)>> \in Seq({k \in Tasks : k.target = t})
    BY <2>1, <2>2
  <2> HIDE DEF more
  <2> QED BY <2>5, <2>6
<1> HIDE DEF line
<1>4. line \in Seq(Tasks) /\ \A i \in 1 .. Len(line) : line[i].target = t
  BY <1>3
<1>5. Shape'
  BY <1>1, <1>2, <1>4 DEF PageInv, Shape
<1>6. Standing'
  BY <1>2, StandingKept
<1>7. Assigned'
  BY <1>1, <1>2, <1>4 DEF Assigned, OfOne
<1>8. Current'
  BY <1>2 DEF Current
<1> QED BY <1>5, <1>6, <1>7, <1>8 DEF PageInv

\* The targets of a summary: visible to the caller, and none of them twice.
LEMMA ListTargetsStep ==
    ASSUME now \in Nat, now' \in Nat, PageInv, PastKept, ListTargets
    PROVE  PageInv'
<1>1. /\ DOMAIN page = Fields /\ page.pc = "List" /\ page.reports = <<>> /\ page.summary = None
      /\ page.kind = "summary" /\ page.width \in Nat \ {0}
  BY DEF PageInv, Shape, ListTargets
<1>0. PICK width \in Nat \ {0} : width = page.width
  BY <1>1
<1>2. PICK S, c : S = Visible(page.caller) /\ c = page.caller
  OBVIOUS
<1>3. PICK n : n = Cardinality(S)
  OBVIOUS
<1>4. S \subseteq Targets /\ \A t \in S : c \in Admins \/ Owner[t] = c
  BY <1>2 DEF Visible
<1>5. PICK seq : seq = SetToSeq(S)
  OBVIOUS
<1>6. /\ n \in Nat /\ seq \in [1 .. n -> S]
      /\ \A i, j \in 1 .. n : i # j => seq[i] # seq[j]
  <2>1. IsFiniteSet(S)
    BY <1>4, ReportAssumption, FS_Subset
  <2> QED BY <1>3, <1>5, <2>1, Listing
<1> DEFINE line == [i \in 1 .. n |-> Task(seq[i], width)]
<1>7. /\ DOMAIN page' = Fields /\ page'.pc = "Build" /\ page'.kind = "summary"
      /\ page'.todo = line /\ page'.reports = page.reports /\ page'.summary = None
      /\ page'.caller = c
  BY <1>0, <1>1, <1>2, <1>3, <1>5 DEF ListTargets, Fields
<1>8. \A i \in 1 .. n : line[i] \in Tasks /\ line[i].target = seq[i]
  BY <1>4, <1>6 DEF Task, Tasks
<1>9. line \in Seq(Tasks) /\ Len(line) = n
  <2>1. line \in [1 .. n -> Tasks]
    BY <1>8
  <2> HIDE DEF line
  <2>2. line \in Seq(Tasks)
    BY <1>6, <2>1, SeqDef
  <2> QED BY <1>6, <2>1, <2>2
<1> HIDE DEF line
<1>10. Shape'
  BY <1>1, <1>7, <1>9 DEF PageInv, Shape
<1>11. Standing'
  BY <1>7, StandingKept
<1>12. Assigned'
  <2>1. Separate(<<>>, line)
    BY <1>6, <1>8, <1>9 DEF Separate
  <2>2. Allowed(c, <<>>, line)
    BY <1>4, <1>6, <1>8, <1>9 DEF Allowed
  <2> QED BY <1>1, <1>7, <2>1, <2>2 DEF Assigned
<1>13. Current'
  BY <1>7 DEF Current
<1> QED BY <1>10, <1>11, <1>12, <1>13 DEF PageInv

\* The clock of a report is read after those of the reports before it.
LEMMA ReadTargetStep ==
    ASSUME now \in Nat, now' = now, PageInv, PastKept, ReadTarget
    PROVE  PageInv'
<1>1. /\ DOMAIN page = Fields /\ page.pc = "Build" /\ page.todo # <<>> /\ page.summary = None
  BY DEF PageInv, Shape, ReadTarget
<1>2. CASE Head(page.todo).target \in deleted
  <2>1. page' = Blank
    BY <1>2 DEF ReadTarget
  <2>2. /\ DOMAIN page' = Fields /\ page'.pc = "Idle" /\ page'.kind = "none"
        /\ page'.todo = <<>> /\ page'.reports = <<>> /\ page'.summary = None
    BY <2>1 DEF Blank, Fields
  <2>3. <<>> \in Seq(Tasks) /\ IsSeq(<<>>) /\ Len(<<>>) = 0
    BY DEF IsSeq
  <2> QED BY <2>2, <2>3 DEF PageInv, Shape, Standing, Assigned, Current
<1>3. CASE Head(page.todo).target \notin deleted
  <2>1. page' = [page EXCEPT !.pc = "Incidents", !.at = now]
    BY <1>3 DEF ReadTarget
  <2>2. /\ DOMAIN page' = Fields /\ page'.pc = "Incidents" /\ page'.at = now
        /\ page'.kind = page.kind /\ page'.caller = page.caller /\ page'.todo = page.todo
        /\ page'.reports = page.reports /\ page'.summary = None
    BY <1>1, <2>1 DEF Fields
  <2>3. Shape'
    BY <1>1, <2>2 DEF PageInv, Shape
  <2>4. Standing'
    BY <2>2, StandingKept
  <2>5. Assigned'
    BY <2>2 DEF PageInv, Assigned
  <2>6. Current'
    BY <2>2 DEF PageInv, Standing, Dated, Current
  <2> QED BY <2>3, <2>4, <2>5, <2>6 DEF PageInv
<1> QED BY <1>2, <1>3

\* The incidents found are those that meet the span, as the table has them now.
LEMMA ReadIncidentsStep ==
    ASSUME Tables, Tables', PageInv, PastKept, ReadIncidents
    PROVE  PageInv'
<1>1. /\ DOMAIN page = Fields /\ page.pc = "Incidents" /\ page.todo # <<>> /\ page.summary = None
  BY DEF PageInv, Shape, ReadIncidents
<1>2. /\ now' = now /\ incident' = incident /\ altered' = altered
  BY DEF ReadIncidents, tables
<1>3. PICK t, span, found : /\ t = Head(page.todo).target /\ span = Span
                            /\ found = ListIncidents(t, span.start, span.end)
  OBVIOUS
<1>4. /\ DOMAIN page' = Fields /\ page'.pc = "Windows" /\ page'.found = found
      /\ page'.kind = page.kind /\ page'.caller = page.caller /\ page'.todo = page.todo
      /\ page'.reports = page.reports /\ page'.summary = None /\ page'.at = page.at
  BY <1>1, <1>3 DEF ReadIncidents, Fields
<1>5. now \in Nat
  BY DEF Tables
<1>6. t \in Targets /\ span \in Spans /\ span.start < span.end /\ span.end <= now
  BY <1>1, <1>3, <1>5, SpanOf DEF PageInv
<1>7. Span' = span
  BY <1>3, <1>4 DEF Span
<1>0. PICK rows : rows = incident[t]
  OBVIOUS
<1>8. PICK time \in Nat : rows = incident[t] /\ time = now /\ History(rows, time)
  BY <1>0, <1>5, <1>6 DEF Tables
<1>9. /\ DOMAIN found = KeysOf(rows, span.start, span.end)
      /\ \A k \in DOMAIN found : found[k] = rows[k]
  BY <1>3, <1>8 DEF ListIncidents, Listed, KeysOf
<1>10. Given(rows)
  BY <1>8, Rows
<1>11. Given(found)
  <2>1. DOMAIN found \subseteq DOMAIN rows
    BY <1>9 DEF KeysOf
  <2>2. IsFiniteSet(DOMAIN found)
    BY <1>10, <2>1, FS_Subset DEF Given
  <2> QED BY <1>9, <1>10, <2>1, <2>2 DEF Given
<1>12. ASSUME t \notin altered PROVE Accurate(t, span, found)
  <2>1. ASSUME NEW x \in Int, Within(span, x) PROVE Met(found, x) <=> Met(rows, x)
    <3>1. ASSUME NEW k \in DOMAIN rows, OpenAt(rows[k], x)
          PROVE  k \in KeysOf(rows, span.start, span.end)
      <4>1. /\ rows[k].opened <= x /\ (rows[k].resolved = None \/ x < rows[k].resolved)
            /\ rows[k].opened \in Int /\ rows[k].resolved \in Int \cup {None}
        BY <1>10, <3>1 DEF OpenAt, Given
      <4>2. span.start \in Int /\ span.end \in Int /\ span.start <= x /\ x < span.end
        BY <1>6, <2>1 DEF Within, Spans
      <4>3. rows[k].opened < span.end
        BY <4>1, <4>2
      <4>4. rows[k].resolved = None \/ rows[k].resolved > span.start
        BY <4>1, <4>2
      <4> QED BY <4>3, <4>4 DEF KeysOf
    <3>2. DOMAIN found \subseteq DOMAIN rows
      BY <1>9 DEF KeysOf
    <3> QED BY <1>9, <3>1, <3>2 DEF Met
  <2> QED BY <1>8, <1>9, <2>1 DEF Accurate
<1>13. ASSUME t \notin altered' PROVE Accurate(t, span, found)'
  <2>1. t \notin altered
    BY <1>2, <1>13
  <2> QED BY <1>2, <1>12, <2>1 DEF Accurate
<1>14. Shape'
  BY <1>1, <1>2, <1>4 DEF PageInv, Shape
<1>15. Standing'
  BY <1>2, <1>4, <1>5, StandingKept
<1>16. Assigned'
  BY <1>4 DEF PageInv, Assigned
<1>17. Current'
  <2>1. Head(page'.todo).target = t
    BY <1>3, <1>4
  <2>2. \A i \in 1 .. Len(page.reports) : page.reports[i].end <= page.at
    BY <1>1 DEF PageInv, Current
  <2> QED BY <1>4, <1>7, <1>11, <1>13, <2>1, <2>2 DEF Current
<1> QED BY <1>14, <1>15, <1>16, <1>17 DEF PageInv

\* The page is complete: its summary is that of its reports.
LEMMA CompleteStep ==
    ASSUME now \in Nat, now' \in Nat, PageInv, PastKept, Complete
    PROVE  PageInv'
<1>1. DOMAIN page = Fields /\ page.pc = "Build"
  BY DEF PageInv, Shape, Complete
<1>2. /\ DOMAIN page' = Fields /\ page'.pc = "Done"
      /\ page'.kind = page.kind /\ page'.caller = page.caller /\ page'.todo = page.todo
      /\ page'.reports = page.reports
      /\ page'.summary = IF page.kind = "summary" THEN Summary(page.reports) ELSE None
  BY <1>1 DEF Complete, Fields
<1>3. Shape'
  BY <1>1, <1>2 DEF PageInv, Shape, Summary, Recovered, Effective
<1>4. Standing'
  BY <1>2, StandingKept
<1>5. Assigned'
  BY <1>2 DEF PageInv, Assigned
<1>6. Current'
  BY <1>2 DEF Current
<1> QED BY <1>3, <1>4, <1>5, <1>6 DEF PageInv

\* The next report, of the head of the line.
Follows(reports, todo, r, more, rest) ==
    /\ IsSeq(more) /\ rest \in Seq(Tasks)
    /\ Len(reports) \in Nat /\ Len(more) = Len(reports) + 1
    /\ \A i \in 1 .. Len(reports) : more[i] = reports[i]
    /\ more[Len(reports) + 1] = r
    /\ OfOne(reports, todo) => OfOne(more, rest)
    /\ Separate(reports, todo) => Separate(more, rest)
    /\ \A c : Allowed(c, reports, todo) => Allowed(c, more, rest)

\* Taking the head of the line keeps who is in it.
LEMMA NextInLine ==
    ASSUME NEW reports, IsSeq(reports), NEW todo \in Seq(Tasks), todo # <<>>,
           NEW r, r.target = Head(todo).target,
           NEW more, more = Append(reports, r), NEW rest, rest = Tail(todo)
    PROVE  Follows(reports, todo, r, more, rest)
<1>1. PICK S : reports \in Seq(S)
  BY DEF IsSeq
<1>2. PICK n \in Nat : n = Len(reports)
  BY <1>1
<1>3. PICK R : R = S \cup {r}
  OBVIOUS
<1>4. reports \in Seq(R) /\ r \in R
  BY <1>1, <1>3
<1>5. /\ more \in Seq(R) /\ Len(more) = n + 1 /\ more[n + 1] = r
      /\ \A i \in 1 .. n : more[i] = reports[i]
  BY <1>2, <1>4
<1>6. PICK l \in Nat : l + 1 = Len(todo)
  <2>1. Len(todo) \in Nat /\ Len(todo) # 0
    OBVIOUS
  <2>2. Len(todo) - 1 \in Nat /\ (Len(todo) - 1) + 1 = Len(todo)
    BY <2>1
  <2> QED BY <2>2
<1>7. /\ rest \in Seq(Tasks) /\ Len(rest) = l /\ Head(todo) = todo[1]
      /\ \A i \in 1 .. l : rest[i] = todo[i + 1]
  BY <1>6
<1>8. \A i \in 1 .. l : i + 1 \in 1 .. l + 1 /\ i + 1 # 1
  OBVIOUS
<1>9. 1 \in 1 .. l + 1 /\ 1 .. n + 1 = (1 .. n) \cup {n + 1}
  OBVIOUS
<1>10. ASSUME OfOne(reports, todo) PROVE OfOne(more, rest)
  BY <1>2, <1>5, <1>6, <1>7, <1>8, <1>9, <1>10 DEF OfOne
<1>11. ASSUME Separate(reports, todo) PROVE Separate(more, rest)
  <2>1. \A i \in 1 .. n : reports[i].target # r.target
    BY <1>2, <1>6, <1>7, <1>9, <1>11 DEF Separate
  <2>2. \A i \in 1 .. l : rest[i].target # r.target
    BY <1>6, <1>7, <1>8, <1>9, <1>11 DEF Separate
  <2>3. \A i, j \in 1 .. n : i # j => more[i].target # more[j].target
    BY <1>2, <1>5, <1>11 DEF Separate
  <2>4. \A i, j \in 1 .. n + 1 : i # j => more[i].target # more[j].target
    BY <1>5, <1>9, <2>1, <2>3
  <2>5. ASSUME NEW i \in 1 .. l, NEW j \in 1 .. l, i # j PROVE rest[i].target # rest[j].target
    <3>1. i + 1 # j + 1 /\ i + 1 \in 1 .. l + 1 /\ j + 1 \in 1 .. l + 1
      BY <1>8, <2>5
    <3> QED BY <1>6, <1>7, <1>11, <3>1 DEF Separate
  <2>6. \A i \in 1 .. n, j \in 1 .. l : more[i].target # rest[j].target
    BY <1>2, <1>5, <1>6, <1>7, <1>8, <1>11 DEF Separate
  <2>7. \A i \in 1 .. n + 1, j \in 1 .. l : more[i].target # rest[j].target
    BY <1>5, <1>9, <2>2, <2>6
  <2> QED BY <1>5, <1>7, <2>4, <2>5, <2>7 DEF Separate
<1>12. ASSUME NEW c, Allowed(c, reports, todo) PROVE Allowed(c, more, rest)
  <2>1. c \in Admins \/ Owner[r.target] = c
    BY <1>6, <1>7, <1>9, <1>12 DEF Allowed
  <2>2. \A i \in 1 .. n + 1 : c \in Admins \/ Owner[more[i].target] = c
    BY <1>2, <1>5, <1>9, <1>12, <2>1 DEF Allowed
  <2>3. \A i \in 1 .. l : c \in Admins \/ Owner[rest[i].target] = c
    BY <1>6, <1>7, <1>8, <1>12 DEF Allowed
  <2> QED BY <1>5, <1>7, <2>2, <2>3 DEF Allowed
<1> QED BY <1>2, <1>5, <1>7, <1>10, <1>11, <1>12 DEF IsSeq, Follows

\* A report is true when it is built.
LEMMA BuiltTrue ==
    ASSUME Tables, NEW t \in Targets, NEW span \in Spans, span.start < span.end,
           NEW found, Given(found), t \notin altered => Accurate(t, span, found),
           NEW r, r = ComputeSla(t, span, found, ListWindows(t, span.start, span.end))
    PROVE  /\ r.target = t /\ r.start = span.start /\ r.end = span.end
           /\ t \notin altered => Told(r)
<1>1. PICK windows : windows = ListWindows(t, span.start, span.end)
  OBVIOUS
<1>2. windows \subseteq window
  BY <1>1 DEF ListWindows
<1>3. /\ IsFiniteSet(windows) /\ \A m \in windows : m.start \in Int /\ m.end \in Int
  BY <1>2, FS_Subset DEF Tables, WindowRow
<1>4. PICK D, Q : /\ D = {x \in Int : Within(span, x) /\ Met(found, x)}
                  /\ Q = {x \in Int : Within(span, x) /\ \E m \in windows : Within(m, x)}
  OBVIOUS
<1>5. /\ r.target = t /\ r.start = span.start /\ r.end = span.end /\ r.seen = window
      /\ r.count = Cardinality(DOMAIN found)
      /\ Figures(r, DownIn(span, found), QuietIn(span, windows))
  <2>1. r = ComputeSla(t, span, found, windows)
    BY <1>1
  <2> QED BY <1>3, <2>1, Computed
<1>6. Figures(r, D, Q)
  BY <1>4, <1>5 DEF DownIn, QuietIn
<1>7. \A x : x \in Seconds(r) <=> x \in Int /\ Within(span, x)
  BY <1>5 DEF Seconds, Within, Spans
<1>8. Q = QuietSeconds(r)
  <2>1. ASSUME NEW x \in Int, Within(span, x)
        PROVE  (\E m \in windows : Within(m, x)) <=>
                  \E m \in window : m.exclude /\ Applies(m, t) /\ x \in Seconds(m)
    <3>1. ASSUME NEW m \in window
          PROVE  m \in windows /\ Within(m, x) <=> m.exclude /\ Applies(m, t) /\ x \in Seconds(m)
      <4>1. m.start \in Int /\ m.end \in Int
        BY DEF Tables, WindowRow
      <4>2. x \in Seconds(m) <=> Within(m, x)
        BY <4>1 DEF Seconds, Within
      <4>3. Within(m, x) => m.start < span.end /\ m.end > span.start
        BY <2>1, <4>1 DEF Within, Spans
      <4>4. m \in windows <=>
               m.exclude /\ m.start < span.end /\ m.end > span.start /\ Applies(m, t)
        BY <1>1 DEF ListWindows
      <4> QED BY <4>2, <4>3, <4>4, Zenon
    <3> QED BY <1>2, <3>1
  <2>2. QuietSeconds(r) = {x \in Seconds(r) : \E m \in window :
                              m.exclude /\ Applies(m, t) /\ x \in Seconds(m)}
    BY <1>5 DEF QuietSeconds
  <2> QED BY <1>4, <1>7, <2>1, <2>2
<1>9. ASSUME t \notin altered PROVE Told(r)
  <2>1. /\ \A x \in Int : Within(span, x) => (Met(found, x) <=> Met(incident[t], x))
        /\ DOMAIN found = KeysOf(incident[t], span.start, span.end)
    BY <1>9 DEF Accurate
  <2>2. D = DownSeconds(r)
    <3>1. DownSeconds(r) = {x \in Seconds(r) : Met(incident[t], x)}
      BY <1>5 DEF DownSeconds, Met, OpenAt
    <3> QED BY <1>4, <1>7, <2>1, <3>1
  <2>3. r.count = Cardinality(KeysOf(incident[r.target], r.start, r.end))
    BY <1>5, <2>1
  <2> QED BY <1>6, <1>8, <2>2, <2>3 DEF Told
<1> QED BY <1>5, <1>9

\* A report is added, true of the tables as they are by now.
LEMMA ReadWindowsStep ==
    ASSUME Tables, Tables', PageInv, PastKept, ReadWindows
    PROVE  PageInv'
<1>1. /\ DOMAIN page = Fields /\ page.pc = "Windows" /\ page.todo # <<>> /\ page.summary = None
      /\ page.todo \in Seq(Tasks) /\ IsSeq(page.reports)
  BY DEF PageInv, Shape, ReadWindows
<1>2. now' = now /\ incident' = incident /\ altered' = altered
  BY DEF ReadWindows, tables
<1>3. now \in Nat
  BY DEF Tables
<1>4. PICK t, span, found : t = Head(page.todo).target /\ span = Span /\ found = page.found
  OBVIOUS
<1>5. /\ t \in Targets /\ span \in Spans /\ span.start < span.end /\ span.end <= now
      /\ span.end = page.at
  BY <1>1, <1>3, <1>4, SpanOf DEF PageInv
<1>6. Given(found) /\ (t \notin altered => Accurate(t, span, found))
  BY <1>1, <1>4 DEF PageInv, Current
<1>7. PICK r : r = ComputeSla(t, span, found, ListWindows(t, span.start, span.end))
  OBVIOUS
<1>8. /\ r.target = t /\ r.start = span.start /\ r.end = span.end
      /\ t \notin altered => Told(r)
  BY <1>5, <1>6, <1>7, BuiltTrue
<1>9. Dated(r)
  BY <1>5, <1>8 DEF Dated, Spans
<1>10. PICK reports, todo, more, rest :
          /\ reports = page.reports /\ todo = page.todo
          /\ more = Append(reports, r) /\ rest = Tail(todo)
  OBVIOUS
<1>11. /\ DOMAIN page' = Fields /\ page'.pc = "Build" /\ page'.todo = rest
       /\ page'.reports = more /\ page'.kind = page.kind /\ page'.caller = page.caller
       /\ page'.summary = None
  BY <1>1, <1>4, <1>7, <1>10 DEF ReadWindows, Fields
<1>12. PICK n \in Nat : n = Len(reports)
  BY <1>1, <1>10 DEF IsSeq
<1>13. /\ IsSeq(more) /\ rest \in Seq(Tasks) /\ Len(more) = n + 1
       /\ \A i \in 1 .. n : more[i] = reports[i]
       /\ more[n + 1] = r
       /\ OfOne(reports, todo) => OfOne(more, rest)
       /\ Separate(reports, todo) => Separate(more, rest)
       /\ \A c : Allowed(c, reports, todo) => Allowed(c, more, rest)
  <2>1. r.target = Head(todo).target /\ todo # <<>>
    BY <1>1, <1>4, <1>8, <1>10
  <2>2. IsSeq(reports) /\ todo \in Seq(Tasks)
    BY <1>1, <1>10
  <2>3. /\ IsSeq(more) /\ rest \in Seq(Tasks) /\ Len(more) = Len(reports) + 1
        /\ \A i \in 1 .. Len(reports) : more[i] = reports[i]
        /\ more[Len(reports) + 1] = r
        /\ OfOne(reports, todo) => OfOne(more, rest)
        /\ Separate(reports, todo) => Separate(more, rest)
        /\ \A c : Allowed(c, reports, todo) => Allowed(c, more, rest)
    <3>1. Follows(reports, todo, r, more, rest)
      BY <1>10, <2>1, <2>2, NextInLine
    <3> QED BY <3>1 DEF Follows
  <2> QED BY <1>12, <2>3
<1>14. Shape'
  BY <1>1, <1>11, <1>13 DEF PageInv, Shape
<1>15. Standing'
  <2>1. /\ \A i \in 1 .. n : Dated(reports[i])
        /\ \A i, j \in 1 .. n : i < j => reports[i].end <= reports[j].end
        /\ \A i \in 1 .. n : reports[i].target \notin altered => Told(reports[i])
        /\ \A i \in 1 .. n : reports[i].end <= page.at
    BY <1>1, <1>10, <1>12 DEF PageInv, Standing, Current
  <2>2. 1 .. n + 1 = (1 .. n) \cup {n + 1}
    OBVIOUS
  <2>3. \A i \in 1 .. n + 1 : Dated(more[i])
    BY <1>9, <1>13, <2>1, <2>2
  <2>4. ASSUME NEW i \in 1 .. n + 1, NEW j \in 1 .. n + 1, i < j PROVE more[i].end <= more[j].end
    <3>1. i \in 1 .. n
      BY <2>4
    <3>2. CASE j = n + 1
      BY <1>5, <1>8, <1>13, <2>1, <3>1, <3>2
    <3>3. CASE j \in 1 .. n
      BY <1>13, <2>1, <2>4, <3>1, <3>3
    <3> QED BY <2>2, <3>2, <3>3
  <2>5. \A i \in 1 .. n + 1 : more[i].target \notin altered => Told(more[i])
    BY <1>8, <1>13, <2>1, <2>2
  <2>6. \A i \in 1 .. n + 1 : /\ Dated(more[i])'
                              /\ more[i].target \notin altered' => Told(more[i])'
    <3>1. ASSUME NEW i \in 1 .. n + 1
          PROVE  Dated(more[i])' /\ (more[i].target \notin altered' => Told(more[i])')
      <4>1. PICK q : q = more[i]
        OBVIOUS
      <4>2. Dated(q) /\ (q.target \notin altered => Told(q))
        BY <2>3, <2>5, <4>1
      <4>3. Dated(q)'
        BY <1>2, <4>2 DEF Dated
      <4>4. q.target \notin altered' => Told(q)'
        BY <1>2, <1>3, <4>2, ToldKept
      <4> QED BY <4>1, <4>3, <4>4
    <3> QED BY <3>1
  <2> QED BY <1>11, <1>13, <2>4, <2>6 DEF Standing
<1>16. Assigned'
  BY <1>10, <1>11, <1>13 DEF PageInv, Assigned
<1>17. Current'
  BY <1>11 DEF Current
<1> QED BY <1>14, <1>15, <1>16, <1>17 DEF PageInv

\* The tables are as they may be, and the page is true of them.
Inv == Tables /\ PageInv

\* The invariant holds throughout.
LEMMA Invariance == Spec => []Inv
<1>1. Init => Inv
  BY TablesInit, PageInit DEF Inv
<1>2. Inv /\ [Next]_vars => Inv'
  <2> SUFFICES ASSUME Inv, [Next]_vars PROVE Inv'
    OBVIOUS
  <2>1. Tables /\ PageInv
    BY DEF Inv
  <2>2. Tables' /\ PastKept
    BY <2>1, TablesStep
  <2>3. now \in Nat /\ now' \in Nat
    BY <2>1, <2>2 DEF Tables
  <2>4. ASSUME NEW c \in Callers, NEW width \in Asked,
               AskSummary(c, width) \/ \E t \in Targets : AskDetail(c, t, width)
        PROVE  PageInv'
    <3>1. CASE AskSummary(c, width)
      BY <2>1, <2>2, <2>3, <3>1, AskSummaryStep
    <3>2. ASSUME NEW t \in Targets, AskDetail(c, t, width) PROVE PageInv'
      BY <2>1, <2>2, <2>3, <3>2, AskDetailStep
    <3> QED BY <2>4, <3>1, <3>2
  <2>5. ASSUME ListTargets PROVE PageInv'
    BY <2>1, <2>2, <2>3, <2>5, ListTargetsStep
  <2>6. ASSUME ReadTarget PROVE PageInv'
    <3>1. now' = now
      BY <2>6 DEF ReadTarget
    <3> QED BY <2>1, <2>2, <2>3, <2>6, <3>1, ReadTargetStep
  <2>7. ASSUME ReadIncidents PROVE PageInv'
    BY <2>1, <2>2, <2>7, ReadIncidentsStep
  <2>8. ASSUME ReadWindows PROVE PageInv'
    BY <2>1, <2>2, <2>8, ReadWindowsStep
  <2>9. ASSUME Complete PROVE PageInv'
    BY <2>1, <2>2, <2>3, <2>9, CompleteStep
  <2>10. ASSUME page' = page PROVE PageInv'
    BY <2>1, <2>2, <2>3, <2>10, PageWaits
  <2>11. ASSUME NEW t \in Targets,
                DeleteTarget(t) \/ \E kind, k : Stamp(kind, t, k)
         PROVE  page' = page
    BY <2>11 DEF DeleteTarget, Stamp
  <2>16. ASSUME NEW c \in sent, Open(c) \/ Resolve(c) \/ AutoResolve(c)
         PROVE  page' = page
    BY <2>16 DEF Open, Resolve, AutoResolve
  <2>12. ASSUME NEW w \in Windows, CreateWindow(w) PROVE page' = page
    BY <2>12 DEF CreateWindow
  <2>13. Tick => page' = page
    BY DEF Tick
  <2>14. UNCHANGED vars => page' = page
    BY DEF vars
  <2>15. PageInv'
    BY <2>4, <2>5, <2>6, <2>7, <2>8, <2>9, <2>10, <2>11, <2>12, <2>13, <2>14, <2>16 DEF Next, Building
  <2> QED BY <2>2, <2>15 DEF Inv
<1> QED BY <1>1, <1>2, PTL DEF Spec
----------------------------------------------------------------------------
(* What the pages promise.                                                 *)

\* The reports of a page, by their place.
LEMMA Placed ==
    ASSUME Inv
    PROVE  /\ Len(page.reports) \in Nat /\ DOMAIN page.reports = 1 .. Len(page.reports)
           /\ Reports = {page.reports[i] : i \in 1 .. Len(page.reports)}
           /\ \A r \in Reports : Dated(r) /\ (r.target \notin altered => Told(r))
<1>1. Len(page.reports) \in Nat /\ DOMAIN page.reports = 1 .. Len(page.reports)
  BY DEF Inv, PageInv, Shape, IsSeq
<1>2. Reports = {page.reports[i] : i \in 1 .. Len(page.reports)}
  BY <1>1 DEF Reports, ToSet
<1>3. \A r \in Reports : Dated(r) /\ (r.target \notin altered => Told(r))
  BY <1>2 DEF Inv, PageInv, Standing
<1> QED BY <1>1, <1>2, <1>3

\* A report gives the seconds of its window that were spent in an open incident
\* and in no excluding window, though the tables went on changing after its
\* clock was read, but for the past of the target itself (`altered`: stats.rs,
\* compute_sla, over the rows build_report read).
THEOREM CountedBySecondHolds == Spec => []CountedBySecond
<1>1. Inv => CountedBySecond
  BY Placed DEF CountedBySecond, Told, Figures
<1> QED BY <1>1, Invariance, PTL

\* An earlier start and a later clock find no fewer seconds and no fewer rows.
LEMMA WiderSpan ==
    ASSUME Tables, NEW t \in Targets, NEW near, NEW far,
           near.target = t, far.target = t,
           near.start \in Int, near.end \in Int, far.start \in Int, far.end \in Int,
           far.start <= near.start, near.end <= far.end
    PROVE  /\ Cardinality(DownSeconds(near)) <= Cardinality(DownSeconds(far))
           /\ Cardinality(KeysOf(incident[t], near.start, near.end))
                 <= Cardinality(KeysOf(incident[t], far.start, far.end))
<1>1. PICK A, B : A = DownSeconds(near) /\ B = DownSeconds(far)
  OBVIOUS
<1>2. A \subseteq B /\ B \subseteq far.start .. far.end - 1
  BY <1>1 DEF DownSeconds, Seconds
<1>3. IsFiniteSet(B)
  <2>1. PICK last \in Int : last = far.end - 1
    OBVIOUS
  <2>2. IsFiniteSet(far.start .. last)
    BY FS_Interval
  <2> QED BY <1>2, <2>1, <2>2, FS_Subset
<1>4. Cardinality(A) <= Cardinality(B)
  BY <1>2, <1>3, FS_Subset
<1>5. PICK K, L, rows : /\ K = KeysOf(rows, near.start, near.end)
                        /\ L = KeysOf(rows, far.start, far.end)
                        /\ rows = incident[t]
  OBVIOUS
<1>6. PICK time \in Nat : time = now /\ History(rows, time)
  BY <1>5 DEF Tables
<1>7. /\ Len(rows) \in Nat /\ DOMAIN rows = 1 .. Len(rows)
      /\ \A k \in DOMAIN rows :
            rows[k].opened \in Int /\ (rows[k].resolved # None => rows[k].resolved \in Int)
  BY <1>6, Rows
<1>8. K \subseteq L /\ L \subseteq 1 .. Len(rows)
  BY <1>5, <1>7 DEF KeysOf
<1>9. IsFiniteSet(L)
  <2>1. PICK n \in Nat : n = Len(rows)
    BY <1>7
  <2>2. IsFiniteSet(1 .. n)
    BY FS_Interval
  <2> QED BY <1>8, <2>1, <2>2, FS_Subset
<1>10. Cardinality(K) <= Cardinality(L)
  BY <1>8, <1>9, FS_Subset
<1> QED BY <1>1, <1>4, <1>5, <1>10

\* On the detail page a report whose window begins no later than that of one
\* built before it shows no less downtime and no fewer incidents (api/stats.rs
\* and ui/stats.rs build each with a clock of its own).
THEOREM WiderSeesMoreHolds == Spec => []WiderSeesMore
<1>1. ASSUME Inv PROVE WiderSeesMore
  <2>1. SUFFICES ASSUME NEW i \in 1 .. Len(page.reports), NEW j \in 1 .. Len(page.reports),
                        page.kind = "detail", page.reports[i].target \notin altered,
                        i < j, page.reports[j].start <= page.reports[i].start
                 PROVE  /\ page.reports[i].downtime <= page.reports[j].downtime
                        /\ page.reports[i].count <= page.reports[j].count
    <3>1. DOMAIN page.reports = 1 .. Len(page.reports)
      BY <1>1, Placed
    <3> QED BY <3>1 DEF WiderSeesMore
  <2>2. PICK near, far : near = page.reports[i] /\ far = page.reports[j]
    OBVIOUS
  <2>3. PICK t \in Targets : near.target = t /\ far.target = t
    BY <1>1, <2>1, <2>2 DEF Inv, PageInv, Assigned, OfOne
  <2>4. /\ Dated(near) /\ Dated(far) /\ near.end <= far.end /\ far.start <= near.start
        /\ t \notin altered
        /\ t \notin altered => Told(near) /\ Told(far)
    BY <1>1, <2>1, <2>2, <2>3 DEF Inv, PageInv, Standing
  <2>5. /\ Cardinality(DownSeconds(near)) <= Cardinality(DownSeconds(far))
        /\ Cardinality(KeysOf(incident[t], near.start, near.end))
              <= Cardinality(KeysOf(incident[t], far.start, far.end))
    BY <1>1, <2>3, <2>4, WiderSpan DEF Inv, Dated
  <2>6. /\ near.downtime = Cardinality(DownSeconds(near))
        /\ far.downtime = Cardinality(DownSeconds(far))
        /\ near.count = Cardinality(KeysOf(incident[t], near.start, near.end))
        /\ far.count = Cardinality(KeysOf(incident[t], far.start, far.end))
    BY <2>3, <2>4 DEF Told, Figures
  <2> QED BY <2>2, <2>5, <2>6
<1> QED BY <1>1, Invariance, PTL

\* The places of different tags, and parts of them.
Marked(tags, parts, n) == UNION {{tags[i]} \X parts[i] : i \in 1 .. n}

\* A sum over different tags counts what is marked with them.
LEMMA MarkedTotal ==
    ASSUME NEW n \in Nat, NEW tags, NEW parts,
           \A i, j \in 1 .. n : i # j => tags[i] # tags[j],
           NEW numbers, numbers = [i \in 1 .. n |-> numbers[i]],
           \A i \in 1 .. n : IsFiniteSet(parts[i]) /\ Cardinality(parts[i]) = numbers[i]
    PROVE  /\ IsFiniteSet(Marked(tags, parts, n))
           /\ Total(numbers) = Cardinality(Marked(tags, parts, n))
<1> DEFINE sets == [i \in 1 .. n |-> {tags[i]} \X parts[i]]
<1>1. Len(numbers) = n
  <2>1. numbers \in [1 .. n -> {numbers[i] : i \in 1 .. n}]
    OBVIOUS
  <2>2. numbers \in Seq({numbers[i] : i \in 1 .. n})
    BY <2>1, SeqDef
  <2>3. DOMAIN numbers = 1 .. Len(numbers) /\ Len(numbers) \in Nat
    BY <2>2
  <2>4. DOMAIN numbers = 1 .. n
    BY <2>1
  <2> QED BY <2>3, <2>4
<1>2. ASSUME NEW i \in 1 .. n
      PROVE  IsFiniteSet(sets[i]) /\ Cardinality(sets[i]) = numbers[i]
  <2>1. PICK a, S, T : a = tags[i] /\ S = {a} /\ T = parts[i]
    OBVIOUS
  <2>2. IsFiniteSet(S) /\ Cardinality(S) = 1
    BY <2>1, FS_Singleton
  <2>3. IsFiniteSet(T) /\ Cardinality(T) = numbers[i]
    BY <2>1
  <2>4. IsFiniteSet(S \X T) /\ Cardinality(S \X T) = Cardinality(S) * Cardinality(T)
    BY <2>2, <2>3, FS_Product
  <2>5. Cardinality(T) \in Nat
    BY <2>3, FS_CardinalityType
  <2> QED BY <2>1, <2>2, <2>3, <2>4, <2>5
<1>3. ASSUME NEW i \in 1 .. n, NEW j \in 1 .. n, i # j PROVE sets[i] \cap sets[j] = {}
  <2>1. tags[i] # tags[j]
    BY <1>3
  <2> QED BY <2>1
<1>4. UNION {sets[i] : i \in 1 .. n} = Marked(tags, parts, n)
  BY DEF Marked
<1>5. /\ IsFiniteSet(UNION {sets[i] : i \in 1 .. n})
      /\ Total(numbers) = Cardinality(UNION {sets[i] : i \in 1 .. n})
  <2> HIDE DEF sets
  <2> QED BY <1>1, <1>2, <1>3, DisjointTotal
<1> QED BY <1>4, <1>5

\* The outage comes back from its share of the seconds it was a share of.
LEMMA Recovering ==
    ASSUME NEW d \in Nat, NEW e \in Nat, e > 0
    PROVE  (d * e) \div e = d
OBVIOUS

\* The sums of a summary, one report at a time: the seconds of the outages that
\* count come back from the ratio.
LEMMA Contribution ==
    ASSUME NEW r, Dated(r), Told(r)
    PROVE  /\ IsFiniteSet(Seconds(r)) /\ Cardinality(Seconds(r)) = r.end - r.start
           /\ DownSeconds(r) \subseteq Seconds(r) /\ QuietSeconds(r) \subseteq Seconds(r)
           /\ r.downtime = Cardinality(DownSeconds(r))
           /\ r.excluded = Cardinality(QuietSeconds(r))
           /\ Recovered(r) = Cardinality(DownSeconds(r) \ QuietSeconds(r))
<1>1. PICK S, D, Q : S = Seconds(r) /\ D = DownSeconds(r) /\ Q = QuietSeconds(r)
  OBVIOUS
<1>2. PICK from \in Int : from = r.start
  BY DEF Dated
<1>3. PICK to \in Int : to = r.end /\ from < to
  BY <1>2 DEF Dated
<1>4. IsFiniteSet(S) /\ Cardinality(S) = to - from
  <2>1. PICK b \in Int : b = to - 1
    OBVIOUS
  <2>2. /\ IsFiniteSet(from .. b)
        /\ Cardinality(from .. b) = IF from > b THEN 0 ELSE b - from + 1
    BY FS_Interval
  <2>3. S = from .. b
    BY <1>1, <1>2, <1>3, <2>1 DEF Seconds
  <2> QED BY <1>3, <2>1, <2>2, <2>3
<1>5. D \subseteq S /\ Q \subseteq S
  BY <1>1 DEF DownSeconds, QuietSeconds
<1>6. /\ r.downtime = Cardinality(D) /\ r.excluded = Cardinality(Q)
      /\ r.sla = IF S \subseteq Q THEN None
                 ELSE Ratio(Cardinality(S \ (Q \cup D)), Cardinality(S \ Q))
  BY <1>1 DEF Told, Figures
<1>7. PICK rest, good, lost : rest = S \ Q /\ good = S \ (Q \cup D) /\ lost = D \ Q
  OBVIOUS
<1>8. IsFiniteSet(rest) /\ IsFiniteSet(Q)
  BY <1>4, <1>5, <1>7, FS_Subset
<1>9. PICK e \in Nat : e = Cardinality(rest)
  BY <1>8, FS_CardinalityType
<1>10. PICK q \in Nat : q = Cardinality(Q)
  BY <1>8, FS_CardinalityType
<1>11. to - from = e + q
  <2>1. Cardinality(S \ Q) = Cardinality(S) - Cardinality(S \cap Q)
    BY <1>4, FS_Difference
  <2>2. S \cap Q = Q
    BY <1>5
  <2>3. Cardinality(S \cap Q) = q /\ Cardinality(S \ Q) = e
    BY <1>7, <1>9, <1>10, <2>2
  <2> QED BY <1>4, <2>1, <2>3
<1>12. Effective(r) = e
  <2>1. (to - from) - q = e
    BY <1>11
  <2>2. Max({e, 0}) = e
    BY MaxMin
  <2> QED BY <1>2, <1>3, <1>6, <1>10, <2>1, <2>2 DEF Effective
<1>13. Recovered(r) = Cardinality(lost)
  <2>1. CASE S \subseteq Q
    <3>1. lost = {}
      BY <1>5, <1>7, <2>1
    <3> QED BY <1>6, <2>1, <3>1, FS_EmptySet DEF Recovered
  <2>2. CASE ~(S \subseteq Q)
    <3>1. e > 0
      <4>1. rest # {}
        BY <1>7, <2>2
      <4> QED BY <1>8, <1>9, <4>1, FS_EmptySet
    <3>2. lost \subseteq rest /\ IsFiniteSet(lost)
      BY <1>5, <1>7, <1>8, FS_Subset
    <3>3. PICK d \in Nat : d = Cardinality(lost)
      BY <3>2, FS_CardinalityType
    <3>4. Cardinality(good) = e - d
      <4>1. good = rest \ lost /\ rest \cap lost = lost
        BY <1>5, <1>7
      <4>2. Cardinality(rest \ lost) = Cardinality(rest) - Cardinality(rest \cap lost)
        BY <1>8, FS_Difference
      <4> QED BY <1>9, <3>3, <4>1, <4>2
    <3>5. r.sla = Ratio(e - d, e)
      BY <1>6, <1>7, <1>9, <2>2, <3>4
    <3>6. r.sla # None /\ r.sla.part = e - d /\ r.sla.whole = e
      <4>1. Ratio(e - d, e) \in [part : Int, whole : Int]
        BY DEF Ratio
      <4>2. r.sla # None
        BY <3>5, <4>1, ReportAssumption
      <4> QED BY <3>5, <4>2 DEF Ratio
    <3>7. Recovered(r) = ((e - (e - d)) * e) \div e
      BY <1>12, <3>6 DEF Recovered
    <3>8. e - (e - d) = d
      OBVIOUS
    <3> QED BY <1>7, <3>1, <3>3, <3>7, <3>8, Recovering
  <2> QED BY <2>1, <2>2
<1> QED BY <1>1, <1>2, <1>3, <1>4, <1>5, <1>6, <1>7, <1>13

\* The four sums of a summary.
Adding(reports, whole, excluded, downtime, recovered) ==
    /\ Total([i \in DOMAIN reports |-> reports[i].end - reports[i].start]) = whole
    /\ Total([i \in DOMAIN reports |-> reports[i].excluded]) = excluded
    /\ Total([i \in DOMAIN reports |-> reports[i].downtime]) = downtime
    /\ Total([i \in DOMAIN reports |-> Recovered(reports[i])]) = recovered

\* What SummaryAddsUp asks of the figures.
AddsUp(summary, all, quiet, downs) ==
    /\ summary.gross.part * Cardinality(all) = summary.gross.whole * Cardinality(all \ downs)
    /\ summary.sla = None <=> (all # {} /\ all \subseteq quiet)
    /\ summary.sla # None =>
           summary.sla.part * Cardinality(all \ quiet)
               = summary.sla.whole * Cardinality((all \ quiet) \ downs)

\* Ratios of sizes: what Summary makes of the sums.
LEMMA Ratios ==
    ASSUME NEW all, NEW quiet, NEW downs,
           IsFiniteSet(all), quiet \subseteq all, downs \subseteq all,
           NEW reports,
           Adding(reports, Cardinality(all), Cardinality(quiet), Cardinality(downs),
                  Cardinality(downs \ quiet)),
           NEW summary, summary = Summary(reports)
    PROVE  AddsUp(summary, all, quiet, downs)
<1>1. IsFiniteSet(quiet) /\ IsFiniteSet(downs) /\ IsFiniteSet(all \ quiet)
  BY FS_Subset
<1>2. PICK w \in Nat : w = Cardinality(all)
  BY FS_CardinalityType
<1>3. PICK q \in Nat : q = Cardinality(quiet)
  BY <1>1, FS_CardinalityType
<1>4. PICK d \in Nat : d = Cardinality(downs)
  BY <1>1, FS_CardinalityType
<1>5. PICK e \in Nat : e = Cardinality(all \ quiet)
  BY <1>1, FS_CardinalityType
<1>6. IsFiniteSet(downs \ quiet)
  BY <1>1, FS_Subset
<1>7. PICK l \in Nat : l = Cardinality(downs \ quiet)
  BY <1>6, FS_CardinalityType
<1>8. e = w - q
  <2>1. all \cap quiet = quiet
    OBVIOUS
  <2>2. Cardinality(all \cap quiet) = q
    BY <1>3, <2>1
  <2>3. Cardinality(all \ quiet) = Cardinality(all) - Cardinality(all \cap quiet)
    BY FS_Difference
  <2> QED BY <1>2, <1>5, <2>2, <2>3
<1>9. Cardinality(all \ downs) = w - d
  <2>1. all \cap downs = downs
    OBVIOUS
  <2>2. Cardinality(all \cap downs) = d
    BY <1>4, <2>1
  <2>3. Cardinality(all \ downs) = Cardinality(all) - Cardinality(all \cap downs)
    BY FS_Difference
  <2> QED BY <1>2, <2>2, <2>3
<1>10. Cardinality((all \ quiet) \ downs) = e - l
  <2>1. PICK rest : rest = all \ quiet
    OBVIOUS
  <2>2. rest \cap downs = downs \ quiet
    BY <2>1
  <2>3. Cardinality(rest \cap downs) = l
    BY <1>7, <2>2
  <2>4. Cardinality(rest \ downs) = Cardinality(rest) - Cardinality(rest \cap downs)
    BY <1>1, <2>1, FS_Difference
  <2> QED BY <1>5, <2>1, <2>3, <2>4
<1>11. Max({w - q, 0}) = e
  <2>1. Max({e, 0}) = e
    BY MaxMin
  <2> QED BY <1>8, <2>1
<1>12. summary = [gross |-> IF w = 0 THEN Perfect ELSE Ratio(w - d, w),
                  sla |-> IF w = 0 THEN Perfect ELSE IF e = 0 THEN None ELSE Ratio(e - l, e)]
  <2>1. Adding(reports, w, q, d, l)
    BY <1>2, <1>3, <1>4, <1>7
  <2> QED BY <1>11, <2>1 DEF Summary, Adding
<1>13. w = 0 <=> all = {}
  BY <1>2, FS_EmptySet
<1>14. e = 0 <=> all \subseteq quiet
  <2>1. e = 0 <=> all \ quiet = {}
    BY <1>1, <1>5, FS_EmptySet
  <2> QED BY <2>1
<1>15. /\ Perfect # None /\ Perfect.part = 1 /\ Perfect.whole = 1
       /\ \A a, b \in Int : /\ Ratio(a, b) # None
                            /\ Ratio(a, b).part = a /\ Ratio(a, b).whole = b
  <2>1. ASSUME NEW a \in Int, NEW b \in Int
        PROVE  Ratio(a, b) # None /\ Ratio(a, b).part = a /\ Ratio(a, b).whole = b
    <3>1. Ratio(a, b) \in [part : Int, whole : Int]
      BY DEF Ratio
    <3> QED BY <3>1, ReportAssumption DEF Ratio
  <2> QED BY <2>1 DEF Perfect
<1>16. \A a, b \in Int : a * b = b * a
  OBVIOUS
<1>17. CASE w = 0
  <2>1. d = 0 /\ e = 0 /\ l = 0
    <3>1. all = {} /\ downs = {} /\ all \ quiet = {} /\ downs \ quiet = {}
      BY <1>13, <1>17
    <3> QED BY <1>4, <1>5, <1>7, <3>1, FS_EmptySet
  <2>2. summary.gross = Perfect /\ summary.sla = Perfect
    BY <1>12, <1>17
  <2> QED BY <1>2, <1>5, <1>9, <1>10, <1>13, <1>15, <1>17, <2>1, <2>2 DEF AddsUp
<1>18. CASE w # 0
  <2>1. summary.gross = Ratio(w - d, w)
    BY <1>12, <1>18
  <2>2. summary.gross.part * w = summary.gross.whole * (w - d)
    <3>1. PICK b \in Int : b = w - d
      OBVIOUS
    <3> QED BY <1>15, <1>16, <2>1, <3>1
  <2>3. CASE e = 0
    <3>1. summary.sla = None
      BY <1>12, <1>18, <2>3
    <3> QED BY <1>2, <1>9, <1>13, <1>14, <1>18, <2>2, <2>3, <3>1 DEF AddsUp
  <2>4. CASE e # 0
    <3>1. summary.sla = Ratio(e - l, e)
      BY <1>12, <1>18, <2>4
    <3>2. PICK b \in Int : b = e - l
      OBVIOUS
    <3>3. summary.sla # None /\ summary.sla.part * e = summary.sla.whole * b
      BY <1>15, <1>16, <3>1, <3>2
    <3> QED BY <1>2, <1>5, <1>9, <1>10, <1>14, <2>2, <2>4, <3>2, <3>3 DEF AddsUp
  <2> QED BY <2>3, <2>4
<1> QED BY <1>17, <1>18

\* The overall figures are those of all the targets' seconds together, and no
\* foreign target is among them, though the outages are recovered from ratios
\* and the reports were built by several clocks (api/stats.rs, aggregate_sla).
THEOREM SummaryAddsUpHolds == Spec => []SummaryAddsUp
<1>1. ASSUME Inv PROVE SummaryAddsUp
  <2>1. SUFFICES ASSUME page.summary # None, \A r \in Reports : r.target \notin altered
                 PROVE  SummaryAddsUp
    BY DEF SummaryAddsUp
  <2>2. PICK reports : reports = page.reports
    OBVIOUS
  <2>3. PICK n \in Nat : n = Len(reports)
    BY <1>1, <2>2, Placed
  <2>4. /\ DOMAIN reports = 1 .. n /\ Reports = {reports[i] : i \in 1 .. n}
        /\ \A i \in 1 .. n : reports[i] \in Reports
    BY <1>1, <2>2, <2>3, Placed
  <2>5. \A i \in 1 .. n : Dated(reports[i]) /\ Told(reports[i])
    BY <1>1, <2>1, <2>4, Placed
  <2>6. /\ page.summary = Summary(reports)
        /\ \A i, j \in 1 .. n : i # j => reports[i].target # reports[j].target
        /\ \A i \in 1 .. n : page.caller \in Admins \/ Owner[reports[i].target] = page.caller
    BY <1>1, <2>1, <2>2, <2>3 DEF Inv, PageInv, Shape, Assigned, Separate, Allowed
  <2>7. PICK tag, S, Q, D, L :
           /\ tag = [i \in 1 .. n |-> reports[i].target]
           /\ S = [i \in 1 .. n |-> Seconds(reports[i])]
           /\ Q = [i \in 1 .. n |-> QuietSeconds(reports[i])]
           /\ D = [i \in 1 .. n |-> DownSeconds(reports[i])]
           /\ L = [i \in 1 .. n |-> DownSeconds(reports[i]) \ QuietSeconds(reports[i])]
    OBVIOUS
  <2>8. ASSUME NEW i \in 1 .. n
        PROVE  /\ IsFiniteSet(S[i]) /\ D[i] \subseteq S[i] /\ Q[i] \subseteq S[i]
               /\ L[i] = D[i] \ Q[i]
               /\ Cardinality(S[i]) = reports[i].end - reports[i].start
               /\ Cardinality(Q[i]) = reports[i].excluded
               /\ Cardinality(D[i]) = reports[i].downtime
               /\ Cardinality(L[i]) = Recovered(reports[i])
    BY <2>5, <2>7, Contribution
  <2>9. ASSUME NEW i \in 1 .. n
        PROVE  IsFiniteSet(Q[i]) /\ IsFiniteSet(D[i]) /\ IsFiniteSet(L[i])
    <3>1. L[i] \subseteq S[i]
      BY <2>8
    <3> QED BY <2>8, <3>1, FS_Subset
  <2>10. \A i, j \in 1 .. n : i # j => tag[i] # tag[j]
    BY <2>6, <2>7
  <2>11. PICK all, quiet, downs :
            all = Marked(tag, S, n) /\ quiet = Marked(tag, Q, n) /\ downs = Marked(tag, D, n)
    OBVIOUS
  <2>12. Marked(tag, L, n) = downs \ quiet
    <3>1. \A t, x : <<t, x>> \in downs <=> \E i \in 1 .. n : t = tag[i] /\ x \in D[i]
      BY <2>11 DEF Marked
    <3>2. \A t, x : <<t, x>> \in quiet <=> \E i \in 1 .. n : t = tag[i] /\ x \in Q[i]
      BY <2>11 DEF Marked
    <3>3. ASSUME NEW i \in 1 .. n, NEW x
          PROVE  <<tag[i], x>> \in downs \ quiet <=> x \in D[i] \ Q[i]
      <4>1. \A j \in 1 .. n : tag[i] = tag[j] => j = i
        BY <2>10
      <4> QED BY <3>1, <3>2, <4>1
    <3>4. Marked(tag, L, n) \subseteq downs \ quiet
      BY <2>8, <3>3 DEF Marked
    <3>5. ASSUME NEW p \in downs \ quiet PROVE p \in Marked(tag, L, n)
      <4>1. PICK i \in 1 .. n : p \in {tag[i]} \X D[i]
        BY <2>11, <3>5 DEF Marked
      <4>2. PICK x : p = <<tag[i], x>>
        BY <4>1
      <4>3. x \in L[i]
        BY <2>8, <3>3, <3>5, <4>2
      <4> QED BY <4>2, <4>3 DEF Marked
    <3> QED BY <3>4, <3>5
  <2>13. quiet \subseteq all /\ downs \subseteq all
    BY <2>8, <2>11 DEF Marked
  <2>14. /\ IsFiniteSet(all)
         /\ Total([i \in DOMAIN reports |-> reports[i].end - reports[i].start]) = Cardinality(all)
    <3>1. PICK numbers : numbers = [i \in 1 .. n |-> reports[i].end - reports[i].start]
      OBVIOUS
    <3>2. /\ numbers = [i \in 1 .. n |-> numbers[i]]
          /\ \A i \in 1 .. n : IsFiniteSet(S[i]) /\ Cardinality(S[i]) = numbers[i]
      BY <2>8, <3>1
    <3>3. IsFiniteSet(Marked(tag, S, n)) /\ Total(numbers) = Cardinality(Marked(tag, S, n))
      BY <2>10, <3>2, MarkedTotal
    <3> QED BY <2>4, <2>11, <3>1, <3>3
  <2>15. Total([i \in DOMAIN reports |-> reports[i].excluded]) = Cardinality(quiet)
    <3>1. PICK numbers : numbers = [i \in 1 .. n |-> reports[i].excluded]
      OBVIOUS
    <3>2. /\ numbers = [i \in 1 .. n |-> numbers[i]]
          /\ \A i \in 1 .. n : IsFiniteSet(Q[i]) /\ Cardinality(Q[i]) = numbers[i]
      BY <2>8, <2>9, <3>1
    <3>3. Total(numbers) = Cardinality(Marked(tag, Q, n))
      BY <2>10, <3>2, MarkedTotal
    <3> QED BY <2>4, <2>11, <3>1, <3>3
  <2>16. Total([i \in DOMAIN reports |-> reports[i].downtime]) = Cardinality(downs)
    <3>1. PICK numbers : numbers = [i \in 1 .. n |-> reports[i].downtime]
      OBVIOUS
    <3>2. /\ numbers = [i \in 1 .. n |-> numbers[i]]
          /\ \A i \in 1 .. n : IsFiniteSet(D[i]) /\ Cardinality(D[i]) = numbers[i]
      BY <2>8, <2>9, <3>1
    <3>3. Total(numbers) = Cardinality(Marked(tag, D, n))
      BY <2>10, <3>2, MarkedTotal
    <3> QED BY <2>4, <2>11, <3>1, <3>3
  <2>17. Total([i \in DOMAIN reports |-> Recovered(reports[i])]) = Cardinality(downs \ quiet)
    <3>1. PICK numbers : numbers = [i \in 1 .. n |-> Recovered(reports[i])]
      OBVIOUS
    <3>2. /\ numbers = [i \in 1 .. n |-> numbers[i]]
          /\ \A i \in 1 .. n : IsFiniteSet(L[i]) /\ Cardinality(L[i]) = numbers[i]
      BY <2>8, <2>9, <3>1
    <3>3. Total(numbers) = Cardinality(Marked(tag, L, n))
      BY <2>10, <3>2, MarkedTotal
    <3> QED BY <2>4, <2>12, <3>1, <3>3
  <2>18. PICK summary : summary = Summary(reports) /\ summary = page.summary
    BY <2>6
  <2>19. AddsUp(summary, all, quiet, downs)
    <3>1. Adding(reports, Cardinality(all), Cardinality(quiet), Cardinality(downs),
                 Cardinality(downs \ quiet))
      BY <2>14, <2>15, <2>16, <2>17 DEF Adding
    <3> QED BY <2>13, <2>14, <2>18, <3>1, Ratios
  <2>20. /\ UNION {{r.target} \X Seconds(r) : r \in Reports} = all
         /\ UNION {{r.target} \X QuietSeconds(r) : r \in Reports} = quiet
         /\ UNION {{r.target} \X DownSeconds(r) : r \in Reports} = downs
    <3>1. UNION {{r.target} \X Seconds(r) : r \in Reports} = all
      BY <2>4, <2>7, <2>11, ZenonT(60) DEF Marked
    <3>2. UNION {{r.target} \X QuietSeconds(r) : r \in Reports} = quiet
      BY <2>4, <2>7, <2>11, ZenonT(60) DEF Marked
    <3>3. UNION {{r.target} \X DownSeconds(r) : r \in Reports} = downs
      BY <2>4, <2>7, <2>11, ZenonT(60) DEF Marked
    <3> QED BY <3>1, <3>2, <3>3
  <2>21. \A r \in Reports : page.caller \in Admins \/ Owner[r.target] = page.caller
    BY <2>4, <2>6
  <2> QED BY <2>18, <2>19, <2>20, <2>21 DEF SummaryAddsUp, AddsUp
<1> QED BY <1>1, Invariance, PTL
=============================================================================
