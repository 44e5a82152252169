-------------------------- MODULE ChainWalkProofs --------------------------
(***************************************************************************)
(* The verifier's whole walk, walk_chain, over any finite table: that the  *)
(* recursive function which computes it exists, what every turn keeps the  *)
(* walk keeps, that it ends, and what it reaches of a table whose digests  *)
(* are all of rows of their own.                                           *)
(***************************************************************************)
EXTENDS ChainWalk, FiniteSetTheorems, NaturalsInduction, WellFoundedInduction, TLAPS

\* A set of numbers that is not empty has a least one.
LEMMA LeastNumber ==
    ASSUME NEW S \in SUBSET Nat, S # {}
    PROVE  \E m \in S : \A n \in S : m <= n
<1>1. PICK m \in S : \A n \in S : ~(<<n, m>> \in OpToRel(<, Nat))
  BY NatLessThanWellFounded, WFMin
<1>2. \A n \in S : ~(n < m)
  BY <1>1 DEF OpToRel
<1> QED BY <1>2

\* Induction, over a set of numbers instead of a predicate.
LEMMA Counting ==
    ASSUME NEW S, 0 \in S, \A n \in Nat : n \in S => n + 1 \in S
    PROVE  Nat \subseteq S
<1> DEFINE rest == Nat \ S
<1>1. SUFFICES ASSUME rest # {} PROVE FALSE
  OBVIOUS
<1>2. PICK m \in rest : \A n \in rest : m <= n
  <2> HIDE DEF rest
  <2>1. rest \in SUBSET Nat
    BY DEF rest
  <2> QED BY <1>1, <2>1, LeastNumber
<1>3. m # 0 /\ m \in Nat
  OBVIOUS
<1>4. m - 1 \in Nat /\ ~(m <= m - 1) /\ (m - 1) + 1 = m
  BY <1>3
<1>5. m - 1 \in S
  BY <1>2, <1>4
<1> QED BY <1>4, <1>5
----------------------------------------------------------------------------
(* TurnsOf turn by turn.                                                   *)

Onward(rows, walk) == IF Ended(rows, walk) THEN walk ELSE Visit(rows, walk)

Advance(rows, walks) == {Onward(rows, walk) : walk \in walks}

Single(walks) == \E walk : walks = {walk}

\* What TurnsOf tabulates.
Table(rows, n, f) ==
    f = [k \in 0..n |->
            IF k = 0 THEN {WalkStart}
            ELSE {IF Ended(rows, walk) THEN walk ELSE Visit(rows, walk) : walk \in f[k - 1]}]

\* What such a table says of its entries.
LEMMA TableRows ==
    ASSUME NEW rows, NEW n \in Nat, NEW f, Table(rows, n, f)
    PROVE  /\ f[0] = {WalkStart}
           /\ \A k \in 1..n : f[k] = Advance(rows, f[k - 1])
<1>1. f[0] = {WalkStart}
  BY DEF Table
<1>2. ASSUME NEW k \in 1..n
      PROVE  f[k] = Advance(rows, f[k - 1])
  <2>1. k \in 0..n /\ k # 0
    OBVIOUS
  <2>2. f[k] = {IF Ended(rows, walk) THEN walk ELSE Visit(rows, walk) : walk \in f[k - 1]}
    BY <2>1 DEF Table
  <2> QED BY <2>2 DEF Onward, Advance
<1> QED BY <1>1, <1>2

\* There is such a table of every length,
LEMMA TableExists ==
    ASSUME NEW rows
    PROVE  \A n \in Nat : \E f : Table(rows, n, f)
<1> DEFINE S == {n \in Nat : \E f : Table(rows, n, f)}
<1>1. 0 \in S
  <2> DEFINE f == [k \in 0..0 |-> {WalkStart}]
  <2>1. Table(rows, 0, f)
    BY DEF Table
  <2> QED BY <2>1
<1>2. ASSUME NEW n \in Nat, n \in S PROVE n + 1 \in S
  <2>1. PICK f : Table(rows, n, f)
    BY <1>2
  <2> DEFINE Turn(h, k) ==
               IF k = 0 THEN {WalkStart}
               ELSE {IF Ended(rows, walk) THEN walk ELSE Visit(rows, walk) : walk \in h[k - 1]}
             g == [k \in 0..n + 1 |-> Turn(f, k)]
  <2>2. f = [k \in 0..n |-> Turn(f, k)]
    BY <2>1 DEF Table
  <2>3. ASSUME NEW k \in 0..n PROVE g[k] = f[k]
    <3>1. k \in 0..n + 1
      OBVIOUS
    <3> HIDE DEF Turn
    <3>2. g[k] = Turn(f, k) /\ f[k] = Turn(f, k)
      BY <2>2, <3>1
    <3> QED BY <3>2
  <2>4. ASSUME NEW k \in 0..n + 1 PROVE Turn(f, k) = Turn(g, k)
    <3>1. CASE k = 0
      BY <3>1
    <3>2. CASE k # 0
      <4>1. k - 1 \in 0..n
        BY <3>2
      <4>2. g[k - 1] = f[k - 1]
        BY <2>3, <4>1
      <4> HIDE DEF g
      <4> QED BY <4>2
    <3> QED BY <3>1, <3>2
  <2>5. g = [k \in 0..n + 1 |-> Turn(g, k)]
    <3> HIDE DEF Turn
    <3>1. g = [k \in 0..n + 1 |-> Turn(f, k)]
      OBVIOUS
    <3> HIDE DEF g
    <3> QED BY <2>4, <3>1
  <2>6. Table(rows, n + 1, g)
    <3> HIDE DEF g
    <3> QED BY <2>5 DEF Table
  <2> QED BY <2>6
<1>3. Nat \subseteq S
  <2> HIDE DEF S
  <2> QED BY <1>1, <1>2, Counting
<1> QED BY <1>3

\* and tables of different lengths agree.
LEMMA TablesAgree ==
    ASSUME NEW rows, NEW m \in Nat, NEW f, Table(rows, m, f),
           NEW n \in Nat, NEW g, Table(rows, n, g)
    PROVE  \A k \in Nat : k <= m /\ k <= n => f[k] = g[k] /\ Single(f[k])
<1> DEFINE S == {k \in Nat : k <= m /\ k <= n => f[k] = g[k] /\ Single(f[k])}
<1>0. /\ f[0] = {WalkStart} /\ g[0] = {WalkStart}
      /\ \A k \in 1..m : f[k] = Advance(rows, f[k - 1])
      /\ \A k \in 1..n : g[k] = Advance(rows, g[k - 1])
  <2>1. /\ f[0] = {WalkStart}
        /\ \A k \in 1..m : f[k] = Advance(rows, f[k - 1])
    BY ONLY TableRows, m \in Nat, Table(rows, m, f)
  <2>2. /\ g[0] = {WalkStart}
        /\ \A k \in 1..n : g[k] = Advance(rows, g[k - 1])
    BY ONLY TableRows, n \in Nat, Table(rows, n, g)
  <2> QED BY <2>1, <2>2
<1>1. 0 \in S
  BY <1>0 DEF Single
<1>2. ASSUME NEW k \in Nat, k \in S PROVE k + 1 \in S
  <2>1. SUFFICES ASSUME k + 1 <= m, k + 1 <= n
                 PROVE  f[k + 1] = g[k + 1] /\ Single(f[k + 1])
    OBVIOUS
  <2>2. k + 1 \in 1..m /\ k + 1 \in 1..n /\ (k + 1) - 1 = k /\ k <= m /\ k <= n
    BY <2>1
  <2>3. f[k] = g[k] /\ Single(f[k])
    BY <1>2, <2>2
  <2>4. /\ f[k + 1] = Advance(rows, f[k])
        /\ g[k + 1] = Advance(rows, g[k])
    <3>1. /\ f[k + 1] = Advance(rows, f[(k + 1) - 1])
          /\ g[k + 1] = Advance(rows, g[(k + 1) - 1])
      BY <1>0, <2>2
    <3> QED BY <2>2, <3>1
  <2>5. PICK walk : f[k] = {walk}
    BY <2>3 DEF Single
  <2>6. f[k + 1] = {Onward(rows, walk)}
    BY <2>4, <2>5 DEF Advance
  <2>7. Single(f[k + 1])
    BY <2>6 DEF Single
  <2> QED BY <2>3, <2>4, <2>7
<1>3. Nat \subseteq S
  <2> HIDE DEF S
  <2> QED BY <1>1, <1>2, Counting
<1> QED BY <1>3

\* TurnsOf is the last entry of the table of its length.
LEMMA TurnsTable ==
    ASSUME NEW rows, NEW n \in Nat
    PROVE  \E f : Table(rows, n, f) /\ f[n] = {TurnsOf(rows, n)}
<1> DEFINE f == CHOOSE g : Table(rows, n, g)
<1>1. TurnsOf(rows, n) = CHOOSE walk \in f[n] : TRUE
  BY DEF TurnsOf, Table
<1>2. Table(rows, n, f)
  BY TableExists
<1> HIDE DEF f
<1>3. PICK walk : f[n] = {walk}
  <2>1. \A k \in Nat : k <= n /\ k <= n => f[k] = f[k] /\ Single(f[k])
    BY <1>2, TablesAgree, Zenon
  <2>2. n <= n
    OBVIOUS
  <2> QED BY <2>1, <2>2 DEF Single
<1>4. TurnsOf(rows, n) = walk
  BY <1>1, <1>3
<1> QED BY <1>2, <1>3, <1>4

\* No turn is none, and each goes on from the one before.
LEMMA Turns ==
    ASSUME NEW rows
    PROVE  /\ TurnsOf(rows, 0) = WalkStart
           /\ \A n \in Nat : TurnsOf(rows, n + 1) = Onward(rows, TurnsOf(rows, n))
<1>1. TurnsOf(rows, 0) = WalkStart
  <2>1. PICK f : Table(rows, 0, f) /\ f[0] = {TurnsOf(rows, 0)}
    BY TurnsTable
  <2>2. f[0] = {WalkStart}
    BY <2>1, TableRows
  <2> QED BY <2>1, <2>2
<1>2. ASSUME NEW n \in Nat
      PROVE  TurnsOf(rows, n + 1) = Onward(rows, TurnsOf(rows, n))
  <2>1. PICK m \in Nat : m = n + 1
    OBVIOUS
  <2>2. n <= n /\ n <= m /\ m \in 1..m /\ m - 1 = n
    BY <2>1
  <2>3. PICK f : Table(rows, n, f) /\ f[n] = {TurnsOf(rows, n)}
    BY TurnsTable, Zenon
  <2>4. PICK g : Table(rows, m, g) /\ g[m] = {TurnsOf(rows, m)}
    BY TurnsTable, Zenon
  <2>5. f[n] = g[n]
    <3>1. \A k \in Nat : k <= n /\ k <= m => f[k] = g[k] /\ Single(f[k])
      BY <2>3, <2>4, TablesAgree, Zenon
    <3> QED BY <2>2, <3>1
  <2>6. g[m] = Advance(rows, g[n])
    <3>1. Table(rows, m, g)
      BY <2>4
    <3>2. g[0] = {WalkStart} /\ \A k \in 1..m : g[k] = Advance(rows, g[k - 1])
      BY ONLY <3>1, TableRows, m \in Nat
    <3> QED BY <2>2, <3>2
  <2>7. TurnsOf(rows, m) = Onward(rows, TurnsOf(rows, n))
    BY <2>3, <2>4, <2>5, <2>6 DEF Advance
  <2> QED BY <2>1, <2>7
<1> QED BY <1>1, <1>2

\* What holds of the start and outlasts a turn holds after any number of turns.
LEMMA TurnsKeep ==
    ASSUME NEW rows, NEW Good, WalkStart \in Good,
           \A walk \in Good : ~Ended(rows, walk) => Visit(rows, walk) \in Good
    PROVE  \A n \in Nat : TurnsOf(rows, n) \in Good
<1> DEFINE S == {n \in Nat : TurnsOf(rows, n) \in Good}
<1>1. 0 \in S
  BY Turns
<1>2. ASSUME NEW n \in Nat, n \in S PROVE n + 1 \in S
  BY <1>2, Turns DEF Onward
<1>3. Nat \subseteq S
  <2> HIDE DEF S
  <2> QED BY <1>1, <1>2, Counting
<1> QED BY <1>3
----------------------------------------------------------------------------
(* The walk over a finite table, whatever its digests: it ends.            *)

\* The tiebreak decides: rows can be told apart by time and id.
Timed(rows) == \A r \in rows : Hashed(r) => r.id \in Nat /\ r.time \in Nat

\* First is the row that comes before all the others.
LEMMA FirstLeast ==
    ASSUME NEW C, C # {}, \A r \in C : r.id \in Nat /\ r.time \in Nat
    PROVE  First(C) \in C /\ \A s \in C : Precedes(First(C), s)
<1>1. PICK t \in {r.time : r \in C} : \A n \in {r.time : r \in C} : t <= n
  <2> DEFINE S == {r.time : r \in C}
  <2>1. S \in SUBSET Nat /\ S # {}
    OBVIOUS
  <2> HIDE DEF S
  <2>2. \E m \in S : \A n \in S : m <= n
    BY <2>1, LeastNumber
  <2> QED BY <2>2 DEF S
<1> DEFINE earliest == {r \in C : r.time = t}
<1>2. PICK i \in {r.id : r \in earliest} : \A n \in {r.id : r \in earliest} : i <= n
  <2> DEFINE S == {r.id : r \in earliest}
  <2>1. S \in SUBSET Nat /\ S # {}
    BY <1>1
  <2> HIDE DEF S
  <2>2. \E m \in S : \A n \in S : m <= n
    BY <2>1, LeastNumber
  <2> QED BY <2>2 DEF S
<1>3. PICK r \in C : r.time = t /\ r.id = i
  BY <1>2
<1>4. ASSUME NEW s \in C PROVE Precedes(r, s)
  <2>1. t <= s.time /\ t \in Nat /\ s.time \in Nat
    BY <1>1
  <2>2. CASE s.time = t
    <3>1. i <= s.id
      BY <1>2, <2>2
    <3> QED BY <1>3, <2>2, <3>1 DEF Precedes
  <2>3. CASE s.time # t
    <3>1. t < s.time
      BY <2>1, <2>3
    <3> QED BY <1>3, <3>1 DEF Precedes
  <2> QED BY <2>2, <2>3
<1> QED BY <1>4 DEF First

\* Of rows with ids of their own there is one that precedes the others.
LEMMA FirstUnique ==
    ASSUME NEW C, \A s \in C : s.id \in Nat /\ s.time \in Nat,
           \A s, u \in C : s.id = u.id => s = u,
           NEW r \in C, \A s \in C : Precedes(r, s)
    PROVE  First(C) = r
<1> DEFINE f == First(C)
<1>1. f \in C /\ \A s \in C : Precedes(f, s)
  BY FirstLeast
<1>2. Precedes(f, r) /\ Precedes(r, f)
  BY <1>1
<1> HIDE DEF f
<1>3. f.id = r.id
  BY <1>1, <1>2 DEF Precedes
<1> QED BY <1>1, <1>3 DEF f

Walks(rows) == [expected : {Genesis} \cup {r.hash : r \in rows},
                reached : SUBSET {r \in rows : Hashed(r)},
                cycle : {Null} \cup {r.id : r \in {s \in rows : Hashed(s)}},
                forked : BOOLEAN]

\* The row a turn looks at is one of the table's that continue the chain.
LEMMA Considered ==
    ASSUME NEW rows, Timed(rows), NEW walk, ~Ended(rows, walk)
    PROVE  LET row == First(Candidates(rows, walk.expected))
           IN  /\ row \in rows /\ Hashed(row) /\ row.prev = walk.expected
               /\ row.id \in Nat
<1> DEFINE C == Candidates(rows, walk.expected)
<1>1. C # {}
  BY DEF Ended
<1>2. \A r \in C : r \in rows /\ Hashed(r) /\ r.prev = walk.expected /\ r.id \in Nat /\ r.time \in Nat
  BY DEF Candidates, Timed
<1> HIDE DEF C
<1>3. First(C) \in C
  BY <1>1, <1>2, FirstLeast
<1> QED BY <1>2, <1>3 DEF C

\* A turn of the loop makes a walk of a walk.
LEMMA VisitKeeps ==
    ASSUME NEW rows, Timed(rows), NEW walk \in Walks(rows), ~Ended(rows, walk)
    PROVE  Visit(rows, walk) \in Walks(rows)
<1> DEFINE C == Candidates(rows, walk.expected)
           row == First(C)
<1>1. row \in rows /\ Hashed(row)
  BY Considered
<1>2. (walk.forked \/ Cardinality(C) > 1) \in BOOLEAN
  OBVIOUS
<1>3. PICK forked \in BOOLEAN : forked = (walk.forked \/ Cardinality(C) > 1)
  OBVIOUS
<1>4. Visit(rows, walk) =
        IF row \in walk.reached
        THEN [walk EXCEPT !.cycle = row.id, !.forked = forked]
        ELSE [walk EXCEPT !.expected = row.hash, !.reached = @ \cup {row}, !.forked = forked]
  BY <1>3 DEF Visit
<1> HIDE DEF row
<1> QED BY <1>1, <1>4, ZenonT(60) DEF Walks

\* So does any number of turns.
LEMMA TurnsTyped ==
    ASSUME NEW rows, Timed(rows)
    PROVE  \A n \in Nat : TurnsOf(rows, n) \in Walks(rows)
<1>1. WalkStart \in Walks(rows)
  BY DEF WalkStart, Walks
<1>2. \A walk \in Walks(rows) : ~Ended(rows, walk) => Visit(rows, walk) \in Walks(rows)
  BY VisitKeeps
<1> DEFINE Good == Walks(rows)
<1> HIDE DEF Good
<1>3. WalkStart \in Good /\ \A walk \in Good : ~Ended(rows, walk) => Visit(rows, walk) \in Good
  BY <1>1, <1>2 DEF Good
<1>4. \A n \in Nat : TurnsOf(rows, n) \in Good
  BY <1>3, TurnsKeep
<1> QED BY <1>4 DEF Good

\* Each turn reaches a row more, or ends the walk.
LEMMA TurnsReach ==
    ASSUME NEW rows, IsFiniteSet(rows), Timed(rows)
    PROVE  \A n \in Nat : \/ Ended(rows, TurnsOf(rows, n))
                          \/ Cardinality(TurnsOf(rows, n).reached) = n
<1> DEFINE T(n) == TurnsOf(rows, n)
           S == {n \in Nat : Ended(rows, T(n)) \/ Cardinality(T(n).reached) = n}
<1>1. 0 \in S
  <2>1. T(0).reached = {}
    BY Turns DEF WalkStart
  <2> HIDE DEF T
  <2> QED BY <2>1, FS_EmptySet
<1>2. ASSUME NEW n \in Nat, n \in S PROVE n + 1 \in S
  <2>1. PICK walk : walk = T(n)
    OBVIOUS
  <2>2. PICK next : next = T(n + 1)
    OBVIOUS
  <2>3. next = Onward(rows, walk)
    BY <2>1, <2>2, Turns
  <2>4. walk \in Walks(rows)
    BY <2>1, TurnsTyped
  <2> HIDE DEF T
  <2>5. CASE Ended(rows, walk)
    BY <2>1, <2>2, <2>3, <2>5 DEF Onward
  <2>6. CASE ~Ended(rows, walk)
    <3> DEFINE row == First(Candidates(rows, walk.expected))
    <3>1. row \in rows /\ row.id \in Nat
      BY <2>6, Considered
    <3>2. next = Visit(rows, walk)
      BY <2>3, <2>6 DEF Onward
    <3>3. Cardinality(walk.reached) = n
      BY <1>2, <2>1, <2>6
    <3>4. CASE row \in walk.reached
      <4>1. next.cycle = row.id
        BY <2>4, <3>2, <3>4 DEF Visit, Walks
      <4>2. Ended(rows, next)
        BY <3>1, <4>1 DEF Ended, Null
      <4> QED BY <2>2, <4>2
    <3>5. CASE row \notin walk.reached
      <4>1. next.reached = walk.reached \cup {row}
        BY <2>4, <3>2, <3>5 DEF Visit, Walks
      <4>2. IsFiniteSet(walk.reached)
        <5>1. walk.reached \subseteq rows
          BY <2>4 DEF Walks
        <5> QED BY <5>1, FS_Subset
      <4>3. Cardinality(next.reached) = n + 1
        BY <3>3, <3>5, <4>1, <4>2, FS_AddElement
      <4> QED BY <2>2, <4>3
    <3> QED BY <3>4, <3>5
  <2> QED BY <2>5, <2>6
<1>3. Nat \subseteq S
  <2> HIDE DEF S
  <2> QED BY <1>1, <1>2, Counting
<1> QED BY <1>3

\* As many turns as the table has rows and one more end every walk.
LEMMA WalkEnds ==
    ASSUME NEW rows, IsFiniteSet(rows), Timed(rows)
    PROVE  Walk(rows) \in Walks(rows) /\ Ended(rows, Walk(rows))
<1>1. PICK n \in Nat : n = Cardinality(rows)
  BY FS_CardinalityType
<1>2. PICK m \in Nat : m = n + 1
  BY <1>1
<1>3. PICK walk : walk = TurnsOf(rows, m)
  OBVIOUS
<1>4. walk \in Walks(rows)
  BY <1>3, TurnsTyped
<1>5. walk = Walk(rows)
  BY <1>1, <1>2, <1>3 DEF Walk
<1>6. Ended(rows, walk)
  <2>1. SUFFICES ASSUME Cardinality(walk.reached) = m PROVE FALSE
    BY <1>3, TurnsReach
  <2>2. walk.reached \subseteq rows
    BY <1>4 DEF Walks
  <2>3. Cardinality(walk.reached) <= n
    BY <1>1, <2>2, FS_Subset
  <2> QED BY <1>2, <2>1, <2>3
<1> QED BY <1>4, <1>5, <1>6

\* A walk that has ended stays as it is.
LEMMA TurnsStay ==
    ASSUME NEW rows, NEW n \in Nat, Ended(rows, TurnsOf(rows, n))
    PROVE  \A m \in Nat : n <= m => TurnsOf(rows, m) = TurnsOf(rows, n)
<1> DEFINE S == {k \in Nat : TurnsOf(rows, n + k) = TurnsOf(rows, n)}
<1>1. 0 \in S
  OBVIOUS
<1>2. ASSUME NEW k \in Nat, k \in S PROVE k + 1 \in S
  <2>1. PICK m \in Nat : m = n + k
    OBVIOUS
  <2>2. TurnsOf(rows, m) = TurnsOf(rows, n)
    BY <1>2, <2>1
  <2>3. TurnsOf(rows, m + 1) = Onward(rows, TurnsOf(rows, m))
    BY Turns
  <2>4. TurnsOf(rows, m + 1) = TurnsOf(rows, n)
    BY <2>2, <2>3 DEF Onward
  <2>5. n + (k + 1) = m + 1
    BY <2>1
  <2> QED BY <2>4, <2>5
<1>3. Nat \subseteq S
  <2> HIDE DEF S
  <2> QED BY <1>1, <1>2, Counting
<1>4. ASSUME NEW m \in Nat, n <= m PROVE TurnsOf(rows, m) = TurnsOf(rows, n)
  <2>1. m - n \in Nat /\ n + (m - n) = m
    BY <1>4
  <2>2. PICK k \in Nat : k = m - n
    BY <2>1
  <2>3. TurnsOf(rows, n + k) = TurnsOf(rows, n) /\ n + k = m
    BY <1>3, <2>1, <2>2
  <2> QED BY <2>3
<1> QED BY <1>4

\* Wherever the turns end, it is where Walk ends.
LEMMA EndIsWalk ==
    ASSUME NEW rows, IsFiniteSet(rows), Timed(rows),
           NEW n \in Nat, Ended(rows, TurnsOf(rows, n))
    PROVE  TurnsOf(rows, n) = Walk(rows)
<1>1. PICK m \in Nat : m = Cardinality(rows) + 1
  BY FS_CardinalityType
<1>2. TurnsOf(rows, m) = Walk(rows)
  BY <1>1 DEF Walk
<1>3. Ended(rows, TurnsOf(rows, m))
  BY <1>2, WalkEnds
<1>4. CASE n <= m
  BY <1>2, <1>4, TurnsStay
<1>5. CASE m <= n
  BY <1>2, <1>3, <1>5, TurnsStay
<1> QED BY <1>4, <1>5
----------------------------------------------------------------------------
(* The walk over a table whose digests are all of rows of their own, as    *)
(* the program writes them: no two chained rows have one id, and a chained *)
(* row's digest is its own, whatever was deleted or altered since.         *)

Clean(rows) ==
    /\ IsFiniteSet(rows)
    /\ \A r \in rows : \/ Legacy(r)
                       \/ /\ r.id \in Nat \ {0} /\ r.time \in Nat
                          /\ r.hash = r.id /\ r.prev \in Nat
    /\ \A r, s \in rows : Hashed(r) /\ Hashed(s) /\ r.id = s.id => r = s

\* The digests a set of rows can be continued from.
Ends(X) == {Genesis} \cup {r.hash : r \in X}

\* The set holds the first row of the chain, and with a row the one that
\* continues it.
Closed(rows, X) ==
    \A d \in Ends(X) : Candidates(rows, d) # {} => First(Candidates(rows, d)) \in X

\* What a clean table says of a chained row.
LEMMA CleanRows ==
    ASSUME NEW rows, Clean(rows), NEW r \in rows, Hashed(r)
    PROVE  r.id \in Nat \ {0} /\ r.time \in Nat /\ r.hash = r.id /\ r.prev \in Nat
BY DEF Clean, Legacy, Hashed

\* The first candidate is a chained row of the table, and precedes the others.
LEMMA CleanFirst ==
    ASSUME NEW rows, Clean(rows), NEW d, Candidates(rows, d) # {}
    PROVE  LET row == First(Candidates(rows, d))
           IN  /\ row \in Candidates(rows, d)
               /\ row \in rows /\ Hashed(row) /\ row.prev = d
               /\ \A s \in Candidates(rows, d) : Precedes(row, s)
<1> DEFINE C == Candidates(rows, d)
<1>1. \A r \in C : r \in rows /\ Hashed(r) /\ r.prev = d
  BY DEF Candidates
<1>2. \A r \in C : r.id \in Nat /\ r.time \in Nat
  BY <1>1, CleanRows
<1>3. C # {}
  OBVIOUS
<1> HIDE DEF C
<1>4. First(C) \in C /\ \A s \in C : Precedes(First(C), s)
  BY <1>2, <1>3, FirstLeast
<1> QED BY <1>1, <1>4 DEF C

\* The first of the candidates is the one that precedes the others.
LEMMA CleanFirstIs ==
    ASSUME NEW rows, Clean(rows), NEW d, NEW r \in Candidates(rows, d),
           \A s \in Candidates(rows, d) : Precedes(r, s)
    PROVE  First(Candidates(rows, d)) = r
<1> DEFINE C == Candidates(rows, d)
<1>1. \A s \in C : s \in rows /\ Hashed(s)
  BY DEF Candidates
<1>2. \A s \in C : s.id \in Nat /\ s.time \in Nat
  BY <1>1, CleanRows
<1>3. \A s, u \in C : s.id = u.id => s = u
  BY <1>1 DEF Clean
<1>4. r \in C /\ \A s \in C : Precedes(r, s)
  OBVIOUS
<1> HIDE DEF C
<1>5. First(C) = r
  BY <1>2, <1>3, <1>4, FirstUnique
<1> QED BY <1>5 DEF C

\* What every turn keeps: the walk has come back to nothing, every row it
\* reached is the first to continue another it reached, and only the digest
\* it stands on is not continued by one of them.
OnChain(rows, walk) ==
    /\ walk \in Walks(rows)
    /\ walk.cycle = Null
    /\ walk.expected \in Ends(walk.reached)
    /\ \A r \in walk.reached :
          r.prev \in Ends(walk.reached) \ {walk.expected}
    /\ \A d \in Ends(walk.reached) \ {walk.expected} :
          First(Candidates(rows, d)) \in walk.reached

\* The walk starts on the chain.
LEMMA OnChainStart == ASSUME NEW rows PROVE OnChain(rows, WalkStart)
BY DEF OnChain, WalkStart, Walks, Ends

\* A turn of the loop stays on the chain and reaches the first candidate.
LEMMA OnChainVisit ==
    ASSUME NEW rows, Clean(rows), NEW walk, OnChain(rows, walk), ~Ended(rows, walk)
    PROVE  LET row == First(Candidates(rows, walk.expected))
               next == Visit(rows, walk)
           IN  /\ OnChain(rows, next)
               /\ next.reached = walk.reached \cup {row}
<1>1. PICK row : row = First(Candidates(rows, walk.expected))
  OBVIOUS
<1>2. PICK next : next = Visit(rows, walk)
  OBVIOUS
<1>3. row \in rows /\ Hashed(row) /\ row.prev = walk.expected
  BY <1>1, CleanFirst DEF Ended
<1>4. row.id \in Nat \ {0} /\ row.hash = row.id
  BY <1>3, CleanRows
<1>5. row \notin walk.reached
  BY <1>3 DEF OnChain
<1>6. /\ next.expected = row.hash
      /\ next.reached = walk.reached \cup {row}
      /\ next.cycle = Null
  BY <1>1, <1>2, <1>5 DEF Visit, OnChain, Walks
<1>7. Timed(rows)
  BY CleanRows DEF Timed
<1>8. next \in Walks(rows)
  BY <1>2, <1>7, VisitKeeps DEF OnChain
<1>9. Ends(next.reached) = Ends(walk.reached) \cup {row.hash}
  BY <1>6 DEF Ends
<1>10. row.hash \notin Ends(walk.reached)
  <2>1. row.hash # Genesis
    BY <1>4 DEF Genesis
  <2>2. ASSUME NEW s \in walk.reached PROVE s.hash # row.hash
    <3>1. s \in rows /\ Hashed(s)
      BY DEF OnChain, Walks
    <3>2. s.hash = s.id
      BY <3>1, CleanRows
    <3> QED BY <1>3, <1>4, <1>5, <3>1, <3>2 DEF Clean
  <2> QED BY <2>1, <2>2 DEF Ends
<1>11. next.expected \in Ends(next.reached)
  BY <1>6, <1>9
<1>12. ASSUME NEW r \in next.reached
       PROVE  r.prev \in Ends(next.reached) \ {next.expected}
  BY <1>3, <1>6, <1>9, <1>10 DEF OnChain
<1>13. ASSUME NEW d \in Ends(next.reached) \ {next.expected}
       PROVE  First(Candidates(rows, d)) \in next.reached
  <2>1. d \in Ends(walk.reached)
    BY <1>6, <1>9
  <2>2. CASE d = walk.expected
    BY <1>1, <1>6, <2>2
  <2>3. CASE d # walk.expected
    BY <1>6, <2>1, <2>3 DEF OnChain
  <2> QED BY <2>2, <2>3
<1>14. OnChain(rows, next)
  BY <1>6, <1>8, <1>11, <1>12, <1>13 DEF OnChain
<1> QED BY <1>1, <1>2, <1>6, <1>14

\* The verifier's whole walk over a clean table: it closes no cycle, it ends
\* at a digest nothing continues, it reaches one row for each it reached
\* before and the first of the chain, and nothing that a closed set leaves out.
LEMMA CleanWalk ==
    ASSUME NEW rows, Clean(rows)
    PROVE  /\ Walk(rows).cycle = Null
           /\ Walk(rows).expected \in Ends(Walk(rows).reached)
           /\ Candidates(rows, Walk(rows).expected) = {}
           /\ Walk(rows).reached \subseteq {r \in rows : Hashed(r)}
           /\ Closed(rows, Walk(rows).reached)
           /\ \A X : Closed(rows, X) => Walk(rows).reached \subseteq X
<1>1. Timed(rows) /\ IsFiniteSet(rows)
  BY CleanRows DEF Timed, Clean
<1>2. PICK n \in Nat : n = Cardinality(rows) + 1
  BY <1>1, FS_CardinalityType
<1>3. PICK walk : walk = Walk(rows)
  OBVIOUS
<1>4. walk = TurnsOf(rows, n)
  BY <1>2, <1>3 DEF Walk
<1>5. walk \in Walks(rows) /\ Ended(rows, walk)
  BY <1>1, <1>3, WalkEnds
<1>6. OnChain(rows, walk)
  <2> DEFINE Good == {w \in Walks(rows) : OnChain(rows, w)}
  <2>1. WalkStart \in Good
    BY OnChainStart DEF OnChain
  <2>2. \A w \in Good : ~Ended(rows, w) => Visit(rows, w) \in Good
    BY OnChainVisit DEF OnChain
  <2> HIDE DEF Good
  <2>3. TurnsOf(rows, n) \in Good
    BY <2>1, <2>2, TurnsKeep
  <2> QED BY <1>4, <2>3 DEF Good
<1>7. Candidates(rows, walk.expected) = {}
  BY <1>5, <1>6 DEF Ended, OnChain
<1>8. Closed(rows, walk.reached)
  BY <1>6, <1>7 DEF Closed, OnChain
<1>9. ASSUME NEW X, Closed(rows, X) PROVE walk.reached \subseteq X
  <2> DEFINE Good == {w \in Walks(rows) : OnChain(rows, w) /\ w.reached \subseteq X}
  <2>1. WalkStart \in Good
    BY OnChainStart DEF OnChain, WalkStart
  <2>2. ASSUME NEW w \in Good, ~Ended(rows, w) PROVE Visit(rows, w) \in Good
    <3>1. OnChain(rows, w) /\ w.reached \subseteq X
      OBVIOUS
    <3>2. PICK row : row = First(Candidates(rows, w.expected))
      OBVIOUS
    <3>3. PICK next : next = Visit(rows, w)
      OBVIOUS
    <3>4. OnChain(rows, next) /\ next.reached = w.reached \cup {row}
      BY <2>2, <3>1, <3>2, <3>3, OnChainVisit
    <3>5. w.expected \in Ends(X)
      BY <3>1 DEF OnChain, Ends
    <3>6. row \in X
      BY <2>2, <3>1, <3>2, <3>5, <1>9 DEF Closed, Ended, OnChain
    <3>7. next \in Walks(rows)
      BY <3>4 DEF OnChain
    <3> QED BY <3>1, <3>3, <3>4, <3>6, <3>7
  <2> HIDE DEF Good
  <2>3. TurnsOf(rows, n) \in Good
    BY <2>1, <2>2, TurnsKeep
  <2> QED BY <1>4, <2>3 DEF Good
<1>10. walk.reached \subseteq {r \in rows : Hashed(r)}
  BY <1>5 DEF Walks
<1> QED BY <1>3, <1>6, <1>7, <1>8, <1>9, <1>10 DEF OnChain

\* A row about to be appended: a new id, that nothing refers to.
Fresh(rows, row) ==
    /\ row.id \in Nat \ {0} /\ row.time \in Nat
    /\ row.hash = row.id /\ row.prev \in Nat /\ row.prev # row.id
    /\ \A r \in rows : Hashed(r) => r.id # row.id /\ r.prev # row.id

\* A table is clean after an append too, and only the candidates for what the
\* new row refers to change.
Appended(rows, row, after) ==
    /\ Clean(after) /\ Hashed(row) /\ row \notin rows
    /\ Candidates(after, row.prev) = Candidates(rows, row.prev) \cup {row}
    /\ \A d : d # row.prev => Candidates(after, d) = Candidates(rows, d)
    /\ Candidates(rows, row.id) = {}

\* A fresh row leaves a clean table clean.
LEMMA AppendClean ==
    ASSUME NEW rows, Clean(rows), NEW row, Fresh(rows, row),
           NEW after, after = rows \cup {row}
    PROVE  Appended(rows, row, after)
<1>1. Hashed(row) /\ ~Legacy(row)
  BY DEF Fresh, Hashed, Legacy, Null
<1>2. Clean(after)
  <2>1. IsFiniteSet(rows \cup {row})
    BY FS_AddElement DEF Clean
  <2>2. \A r, s \in rows \cup {row} : Hashed(r) /\ Hashed(s) /\ r.id = s.id => r = s
    BY DEF Clean, Fresh
  <2> QED BY <2>1, <2>2 DEF Clean, Fresh
<1>3. row \notin rows
  BY <1>1 DEF Fresh
<1> QED BY <1>1, <1>2, <1>3 DEF Appended, Candidates, Fresh

\* Appending puts no row on the chain but the new one,
LEMMA AppendReachesNoMore ==
    ASSUME NEW rows, Clean(rows), NEW row, Fresh(rows, row)
    PROVE  Walk(rows \cup {row}).reached \subseteq Walk(rows).reached \cup {row}
<1>1. PICK after : after = rows \cup {row}
  OBVIOUS
<1>2. /\ Clean(after) /\ Hashed(row) /\ row \notin rows
      /\ Candidates(after, row.prev) = Candidates(rows, row.prev) \cup {row}
      /\ \A d : d # row.prev => Candidates(after, d) = Candidates(rows, d)
      /\ Candidates(rows, row.id) = {}
  <2>1. Appended(rows, row, after)
    BY <1>1, AppendClean
  <2> QED BY <2>1 DEF Appended
<1>3. PICK reached : reached = Walk(rows).reached
  OBVIOUS
<1>4. Closed(rows, reached)
  BY <1>3, CleanWalk
<1>5. Closed(after, reached \cup {row})
  <2>1. SUFFICES ASSUME NEW d \in Ends(reached \cup {row}), Candidates(after, d) # {}
                 PROVE  First(Candidates(after, d)) \in reached \cup {row}
    BY DEF Closed
  <2>2. d # row.id
    BY <1>2, <2>1 DEF Fresh
  <2>3. d \in Ends(reached)
    BY <2>2 DEF Ends, Fresh
  <2>4. CASE d # row.prev
    BY <1>2, <1>4, <2>1, <2>3, <2>4 DEF Closed
  <2>5. CASE d = row.prev
    <3>1. PICK f : f = First(Candidates(after, d))
      OBVIOUS
    <3>2. f \in Candidates(after, d) /\ \A s \in Candidates(after, d) : Precedes(f, s)
      BY <1>2, <2>1, <3>1, CleanFirst
    <3>3. CASE f = row
      BY <3>1, <3>3
    <3>4. CASE f # row
      <4>1. f \in Candidates(rows, d) /\ \A s \in Candidates(rows, d) : Precedes(f, s)
        BY <1>2, <2>5, <3>2, <3>4
      <4>2. First(Candidates(rows, d)) = f
        BY <4>1, CleanFirstIs
      <4> QED BY <1>4, <2>3, <3>1, <4>1, <4>2 DEF Closed
    <3> QED BY <3>3, <3>4
  <2> QED BY <2>4, <2>5
<1> QED BY <1>1, <1>2, <1>3, <1>5, CleanWalk

\* and a row chained to the head that the verifier's walk yields takes none
\* off it and is reached itself.
LEMMA AppendAtHead ==
    ASSUME NEW rows, Clean(rows), NEW row, Fresh(rows, row),
           row.prev = Walk(rows).expected
    PROVE  Walk(rows).reached \cup {row} \subseteq Walk(rows \cup {row}).reached
<1>1. PICK after : after = rows \cup {row}
  OBVIOUS
<1>2. /\ Clean(after) /\ Hashed(row) /\ row \notin rows
      /\ Candidates(after, row.prev) = Candidates(rows, row.prev) \cup {row}
      /\ \A d : d # row.prev => Candidates(after, d) = Candidates(rows, d)
  <2>1. Appended(rows, row, after)
    BY <1>1, AppendClean
  <2> QED BY <2>1 DEF Appended
<1>3. PICK walk : walk = Walk(rows)
  OBVIOUS
<1>4. /\ walk.expected \in Ends(walk.reached)
      /\ Candidates(rows, row.prev) = {}
      /\ \A X : Closed(rows, X) => walk.reached \subseteq X
  BY <1>3, CleanWalk
<1>5. PICK reached : reached = Walk(after).reached
  OBVIOUS
<1>6. Closed(after, reached)
  BY <1>2, <1>5, CleanWalk
<1>7. Closed(rows, reached \ {row})
  <2>1. SUFFICES ASSUME NEW d \in Ends(reached \ {row}), Candidates(rows, d) # {}
                 PROVE  First(Candidates(rows, d)) \in reached \ {row}
    BY DEF Closed
  <2>2. Candidates(after, d) = Candidates(rows, d)
    BY <1>2, <1>4, <2>1
  <2>3. d \in Ends(reached)
    BY DEF Ends
  <2>4. First(Candidates(rows, d)) \in reached
    BY <1>6, <2>1, <2>2, <2>3 DEF Closed
  <2>5. First(Candidates(rows, d)) \in rows
    BY <2>1, CleanFirst
  <2> QED BY <1>2, <2>4, <2>5
<1>8. walk.reached \subseteq reached
  BY <1>4, <1>7
<1>9. row \in reached
  <2>1. row.prev \in Ends(reached)
    BY <1>3, <1>4, <1>8 DEF Ends
  <2>2. Candidates(after, row.prev) = {row}
    BY <1>2, <1>4
  <2>3. First({row}) = row
    BY <1>2, <2>2, CleanFirst, SMTT(60)
  <2> QED BY <1>6, <2>1, <2>2, <2>3 DEF Closed
<1> QED BY <1>1, <1>3, <1>5, <1>8, <1>9
=============================================================================
