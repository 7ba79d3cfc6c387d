--------------------------- MODULE InternTableProof ---------------------------
(***************************************************************************)
(* Proofs about InternTable, for any strings, hashes and sizes: a probe    *)
(* ends, a string that was interned is found again through every growth,   *)
(* and the table implements the abstract interner.                         *)
(***************************************************************************)
EXTENDS InternTable, FiniteSetTheorems, WellFoundedInduction, TLAPS

-----------------------------------------------------------------------------
(* Induction over the natural numbers, for a set of them. *)

\* A set of naturals that is not empty has a smallest element.
LEMMA Smallest ==
  ASSUME NEW T, T \subseteq Nat, T # {}
  PROVE  \E m \in T : \A n \in T : m <= n
<1>1. PICK m \in T : \A n \in T : ~ (<<n, m>> \in OpToRel(<, Nat))
  BY NatLessThanWellFounded, WFMin
<1>2. ASSUME NEW n \in T PROVE m <= n
  <2>1. <<n, m>> \notin OpToRel(<, Nat)
    BY <1>1
  <2>2. n \in Nat /\ m \in Nat
    OBVIOUS
  <2>3. ~ (n < m)
    BY <2>1, <2>2 DEF OpToRel
  <2> QED BY <2>2, <2>3
<1> QED BY <1>1, <1>2

LEMMA SetInduction ==
  ASSUME NEW T, 0 \in T, \A k \in Nat : k \in T => k + 1 \in T
  PROVE  Nat \subseteq T
<1> DEFINE Missing == {k \in Nat : k \notin T}
<1> SUFFICES ASSUME Missing # {} PROVE FALSE
  OBVIOUS
<1>1. PICK m \in Missing : \A n \in Missing : m <= n
  BY Smallest
<1>2. m # 0 /\ m \in Nat /\ m \notin T
  OBVIOUS
<1>3. m - 1 \in Nat /\ m - 1 \notin Missing
  BY <1>1, <1>2
<1>4. m - 1 \in T
  BY <1>3
<1>5. (m - 1) + 1 \in T
  BY <1>3, <1>4
<1> QED BY <1>2, <1>5

\* Sequence f begins with a and goes on with F, m times.
Iterates(f, a, F, m) ==
    /\ f = [k \in 0..m |-> f[k]]
    /\ f[0] = a
    /\ \A k \in 1..m : f[k] = F[<<k, f[k - 1]>>]

\* What begins with a and goes on with F, m times, is a function.
LEMMA IterationExists ==
  ASSUME NEW a, NEW F, NEW m \in Nat
  PROVE  \E f : Iterates(f, a, F, m)
<1> DEFINE Follows(f, n) == f = [k \in 0..n |-> IF k = 0 THEN a ELSE F[<<k, f[k - 1]>>]]
           T == {n \in Nat : \E f : Follows(f, n)}
<1>1. 0 \in T
  <2> DEFINE f == [k \in 0..0 |-> a]
  <2>1. Follows(f, 0)
    OBVIOUS
  <2> HIDE DEF f
  <2> QED BY <2>1
<1>2. ASSUME NEW n \in Nat, n \in T PROVE n + 1 \in T
  <2>1. PICK f : Follows(f, n)
    BY <1>2
  <2> DEFINE g == [k \in 0..(n + 1) |-> IF k = 0 THEN a ELSE F[<<k, f[k - 1]>>]]
  <2>2. ASSUME NEW k \in 0..n PROVE g[k] = f[k]
    BY <2>1
  <2>3. ASSUME NEW k \in 1..(n + 1) PROVE g[k - 1] = f[k - 1]
    BY <2>2
  <2>4. ASSUME NEW k \in 0..(n + 1)
        PROVE  g[k] = IF k = 0 THEN a ELSE F[<<k, g[k - 1]>>]
    <3>1. CASE k = 0
      BY <3>1
    <3>2. CASE k # 0
      <4>1. k \in 1..(n + 1)
        BY <3>2
      <4>2. g[k - 1] = f[k - 1]
        BY <4>1, <2>3
      <4>3. g[k] = F[<<k, f[k - 1]>>]
        BY <3>2
      <4> QED BY <4>2, <4>3, <3>2
    <3> QED BY <3>1, <3>2
  <2>5. Follows(g, n + 1)
    BY <2>4
  <2> HIDE DEF g
  <2> QED BY <2>5
<1> HIDE DEF T
<1>3. Nat \subseteq T
  BY <1>1, <1>2, SetInduction
<1>4. PICK f : Follows(f, m)
  BY <1>3 DEF T
<1>5. ASSUME NEW k \in 1..m PROVE f[k] = F[<<k, f[k - 1]>>]
  BY <1>4
<1>6. f = [k \in 0..m |-> f[k]] /\ f[0] = a
  BY <1>4
<1> QED BY <1>5, <1>6 DEF Iterates

LEMMA IterationStays ==
  ASSUME NEW S, NEW a \in S, NEW m \in Nat, NEW F \in [Nat \X S -> S], NEW f,
         Iterates(f, a, F, m)
  PROVE  \A k \in 0..m : f[k] \in S
<1> DEFINE T == {k \in Nat : k <= m => f[k] \in S}
<1>1. 0 \in T
  BY DEF Iterates
<1>2. ASSUME NEW k \in Nat, k \in T PROVE k + 1 \in T
  <2> SUFFICES ASSUME k + 1 <= m PROVE f[k + 1] \in S
    OBVIOUS
  <2>1. k \in 0..m /\ k + 1 \in 1..m /\ (k + 1) - 1 = k /\ k + 1 \in Nat
    OBVIOUS
  <2>2. f[k] \in S
    BY <1>2, <2>1
  <2>3. f[k + 1] = F[<<k + 1, f[k]>>]
    BY <2>1 DEF Iterates
  <2> QED BY <2>1, <2>2, <2>3
<1> HIDE DEF T
<1>3. Nat \subseteq T
  BY <1>1, <1>2, SetInduction
<1> QED BY <1>3 DEF T

-----------------------------------------------------------------------------
(* Probing. *)

Table(n) == [0..(n - 1) -> {Free} \cup {Entry(s, i) : s \in Str, i \in Nat}]

Taken(t) == {i \in DOMAIN t : t[i] # Free}

\* A string is in one slot at most.
Once(t) == \A i, j \in DOMAIN t : t[i] # Free /\ t[i].str = t[j].str => i = j

\* No empty slot is on the way from the hash of a string to its slot.
Chained(t, n) == \A i \in Taken(t) : \E k \in 0..(n - 1) :
    /\ Slot(t[i].str, k, n) = i
    /\ \A j \in 0..(k - 1) : t[Slot(t[i].str, j, n)] # Free

Good(t, n) == t \in Table(n) /\ Once(t) /\ Chained(t, n)

\* An empty slot has no string, and a taken one has.
LEMMA FreeHasNoString ==
  ASSUME NEW n \in Nat, NEW t \in Table(n), NEW i \in 0..(n - 1)
  PROVE  /\ t[i] = Free <=> t[i].str = Null
         /\ t[i] # Free => t[i].str \in Str /\ t[i].offset \in Nat
                           /\ t[i] = Entry(t[i].str, t[i].offset)
         /\ ~ Skipped(t[i]) <=> t[i] # Free
<1>1. t[i] \in {Free} \cup {Entry(s, j) : s \in Str, j \in Nat}
  BY DEF Table
<1>2. CASE t[i] = Free
  BY <1>2 DEF Free, Skipped
<1>3. CASE t[i] # Free
  <2>1. PICK s \in Str, j \in Nat : t[i] = Entry(s, j)
    BY <1>1, <1>3
  <2>2. t[i].str = s /\ t[i].offset = j
    BY <2>1 DEF Entry
  <2>3. s # Null /\ (Length[s] = 0 => Hash[s] # 0)
    BY InternAssumption
  <2> QED BY <1>3, <2>1, <2>2, <2>3 DEF Skipped
<1> QED BY <1>2, <1>3

LEMMA SlotType ==
  ASSUME NEW n \in Nat \ {0}, NEW s \in Str, NEW k \in Nat
  PROVE  Slot(s, k, n) \in 0..(n - 1)
BY InternAssumption DEF Slot

LEMMA Remainder ==
  ASSUME NEW n \in Nat \ {0}, NEW q \in Nat, NEW i \in 0..(n - 1)
  PROVE  (q * n + i) % n = i
OBVIOUS

\* n probes visit all of the n slots.
LEMMA ProbesVisitAll ==
  ASSUME NEW n \in Nat \ {0}, NEW s \in Str, NEW i \in 0..(n - 1)
  PROVE  \E k \in 0..(n - 1) : Slot(s, k, n) = i
<1>0. Hash[s] \in Nat
  BY InternAssumption
<1> DEFINE h == Hash[s]  q == h \div n  r == h % n
<1>1. q \in Nat /\ r \in 0..(n - 1) /\ h = q * n + r
  BY <1>0
<1> HIDE DEF h, q, r
<1>2. CASE r <= i
  <2>1. i - r \in 0..(n - 1) /\ h + (i - r) = q * n + i
    BY <1>1, <1>2
  <2>2. (q * n + i) % n = i
    BY <1>1, Remainder
  <2>3. Slot(s, i - r, n) = i
    BY <2>1, <2>2 DEF Slot, h
  <2> QED BY <2>1, <2>3
<1>3. CASE i < r
  <2>1. i - r + n \in 0..(n - 1) /\ h + (i - r + n) = (q + 1) * n + i
    BY <1>1, <1>3
  <2>2. ((q + 1) * n + i) % n = i
    BY <1>1, Remainder
  <2>3. Slot(s, i - r + n, n) = i
    BY <2>1, <2>2 DEF Slot, h
  <2> QED BY <2>1, <2>3
<1> QED BY <1>1, <1>2, <1>3

\* A probe of a table with an empty slot ends, at the first slot that stops it.
LEMMA ProbeStops ==
  ASSUME NEW n \in Nat \ {0}, NEW t \in Table(n), NEW s \in Str,
         \E i \in 0..(n - 1) : t[i] = Free
  PROVE  \E k \in 0..(n - 1) :
            /\ Probe(t, n, s) = Slot(s, k, n)
            /\ Stops(t[Slot(s, k, n)], s)
            /\ \A j \in 0..(k - 1) : ~ Stops(t[Slot(s, j, n)], s)
<1> DEFINE Stopping == {k \in 0..(n - 1) : Stops(t[Slot(s, k, n)], s)}
<1>1. PICK i \in 0..(n - 1) : t[i] = Free
  OBVIOUS
<1>2. PICK e \in 0..(n - 1) : Slot(s, e, n) = i
  BY ProbesVisitAll
<1>3. e \in Stopping
  BY <1>1, <1>2 DEF Stops, Free
<1>4. PICK m \in Stopping : \A k \in Stopping : m <= k
  <2>1. Stopping \subseteq Nat /\ Stopping # {}
    BY <1>3
  <2> HIDE DEF Stopping
  <2> QED BY <2>1, Smallest
<1> DEFINE First(k) == /\ Stops(t[Slot(s, k, n)], s)
                       /\ \A j \in 0..(k - 1) : ~ Stops(t[Slot(s, j, n)], s)
<1>5. First(m)
  <2> SUFFICES ASSUME NEW j \in 0..(m - 1), Stops(t[Slot(s, j, n)], s)
               PROVE  FALSE
    BY <1>4
  <2>1. j \in Stopping /\ j < m
    OBVIOUS
  <2> QED BY <1>4, <2>1
<1>6. m \in 0..(n - 1)
  OBVIOUS
<1> HIDE DEF First, Stopping
<1>7. First(CHOOSE k \in 0..(n - 1) : First(k)) /\ (CHOOSE k \in 0..(n - 1) : First(k)) \in 0..(n - 1)
  BY <1>5, <1>6
<1>8. Probe(t, n, s) = Slot(s, CHOOSE k \in 0..(n - 1) : First(k), n)
  BY DEF Probe, First
<1> QED BY <1>7, <1>8 DEF First

\* The probe for a string that is in the table finds it.
LEMMA ProbeFinds ==
  ASSUME NEW n \in Nat \ {0}, NEW t, Good(t, n), NEW i \in Taken(t),
         \E e \in 0..(n - 1) : t[e] = Free
  PROVE  Probe(t, n, t[i].str) = i
<1> DEFINE s == t[i].str
<1>0. t \in Table(n) /\ i \in 0..(n - 1) /\ t[i] # Free
  BY DEF Good, Taken, Table
<1>1. s \in Str
  BY <1>0, FreeHasNoString
<1>2. PICK k \in 0..(n - 1) :
         /\ Probe(t, n, s) = Slot(s, k, n)
         /\ Stops(t[Slot(s, k, n)], s)
         /\ \A j \in 0..(k - 1) : ~ Stops(t[Slot(s, j, n)], s)
  BY <1>0, <1>1, ProbeStops
<1>3. PICK c \in 0..(n - 1) : /\ Slot(s, c, n) = i
                              /\ \A j \in 0..(c - 1) : t[Slot(s, j, n)] # Free
  BY DEF Good, Chained
<1>4. CASE k < c
  <2>1. t[Slot(s, k, n)] # Free /\ Slot(s, k, n) \in 0..(n - 1)
    BY <1>1, <1>3, <1>4, SlotType
  <2>2. t[Slot(s, k, n)].str = s
    BY <1>0, <1>2, <2>1, FreeHasNoString DEF Stops, Same
  <2>3. Slot(s, k, n) = i
    BY <1>0, <2>1, <2>2 DEF Good, Once, Table
  <2> QED BY <1>2, <2>3
<1>5. CASE c < k
  <2>1. ~ Stops(t[i], s)
    BY <1>2, <1>3, <1>5
  <2> QED BY <2>1 DEF Stops, Same
<1> QED BY <1>2, <1>3, <1>4, <1>5

\* A probe for a string that is not in the table finds an empty slot, and what is
\* put there leaves the table good.
LEMMA InsertKeepsGood ==
  ASSUME NEW n \in Nat \ {0}, NEW t, Good(t, n),
         NEW s \in Str, NEW offset \in Nat,
         \E e \in 0..(n - 1) : t[e] = Free,
         \A i \in Taken(t) : t[i].str # s
  PROVE  LET p == Probe(t, n, s)
             u == [t EXCEPT ![p] = Entry(s, offset)]
         IN  /\ p \in 0..(n - 1) /\ t[p] = Free
             /\ Good(u, n)
             /\ Taken(u) = Taken(t) \cup {p}
<1> DEFINE p == Probe(t, n, s)
           e == Entry(s, offset)
           u == [t EXCEPT ![p] = e]
<1>0. t \in Table(n) /\ DOMAIN t = 0..(n - 1)
  BY DEF Good, Table
<1>1. PICK k \in 0..(n - 1) :
         /\ p = Slot(s, k, n)
         /\ Stops(t[Slot(s, k, n)], s)
         /\ \A j \in 0..(k - 1) : ~ Stops(t[Slot(s, j, n)], s)
  BY <1>0, ProbeStops
<1>2. p \in 0..(n - 1)
  BY <1>1, SlotType
<1>3. t[p] = Free
  <2>1. t[p] # Free => t[p].str # s
    BY <1>0, <1>2 DEF Taken
  <2> QED BY <1>0, <1>1, <1>2, <2>1, FreeHasNoString DEF Stops, Same
<1>4. e.str = s /\ e # Free /\ e \in {Entry(r, i) : r \in Str, i \in Nat}
  BY InternAssumption DEF Entry, Free
<1> HIDE DEF p, e
<1>5. u \in Table(n) /\ DOMAIN u = 0..(n - 1)
  BY <1>0, <1>2, <1>4 DEF Table
<1>6. \A i \in 0..(n - 1) : u[i] = IF i = p THEN e ELSE t[i]
  BY <1>0, <1>2
<1> HIDE DEF u
<1>7. Taken(u) = Taken(t) \cup {p}
  BY <1>0, <1>2, <1>4, <1>5, <1>6 DEF Taken
<1>8. Once(u)
  <2> SUFFICES ASSUME NEW i \in 0..(n - 1), NEW j \in 0..(n - 1),
                      u[i] # Free, u[i].str = u[j].str
               PROVE  i = j
    BY <1>5 DEF Once
  <2>0. u[j] # Free
    BY <1>5, FreeHasNoString
  <2>1. CASE i = p /\ j # p
    BY <1>0, <1>4, <1>6, <2>0, <2>1 DEF Taken
  <2>2. CASE i # p /\ j = p
    BY <1>0, <1>4, <1>6, <2>2 DEF Taken
  <2>3. CASE i # p /\ j # p
    BY <1>0, <1>6, <2>3 DEF Good, Once
  <2> QED BY <2>1, <2>2, <2>3
<1>9. Chained(u, n)
  <2> SUFFICES ASSUME NEW i \in Taken(u)
               PROVE  \E c \in 0..(n - 1) :
                         /\ Slot(u[i].str, c, n) = i
                         /\ \A j \in 0..(c - 1) : u[Slot(u[i].str, j, n)] # Free
    BY DEF Chained
  <2>1. CASE i = p
    <3>1. ASSUME NEW j \in 0..(k - 1) PROVE u[Slot(s, j, n)] # Free
      <4>1. Slot(s, j, n) \in 0..(n - 1)
        BY SlotType
      <4>2. t[Slot(s, j, n)] # Free
        BY <1>1 DEF Stops, Free
      <4> QED BY <1>4, <1>6, <4>1, <4>2
    <3>2. u[i].str = s
      BY <1>2, <1>4, <1>6, <2>1
    <3> QED BY <1>1, <2>1, <3>1, <3>2
  <2>2. CASE i # p
    <3>1. i \in Taken(t) /\ i \in 0..(n - 1) /\ u[i] = t[i]
      BY <1>0, <1>6, <1>7, <2>2 DEF Taken
    <3>2. t[i].str \in Str
      BY <1>0, <3>1, FreeHasNoString DEF Taken
    <3>3. PICK c \in 0..(n - 1) : /\ Slot(t[i].str, c, n) = i
                                  /\ \A j \in 0..(c - 1) : t[Slot(t[i].str, j, n)] # Free
      BY <3>1 DEF Good, Chained
    <3>4. ASSUME NEW j \in 0..(c - 1) PROVE u[Slot(t[i].str, j, n)] # Free
      <4>1. Slot(t[i].str, j, n) \in 0..(n - 1)
        BY <3>2, SlotType
      <4> QED BY <1>4, <1>6, <3>3, <4>1
    <3> QED BY <3>1, <3>3, <3>4
  <2> QED BY <2>1, <2>2
<1> QED BY <1>2, <1>3, <1>5, <1>7, <1>8, <1>9 DEF Good, p, e, u

\* A table with fewer taken slots than slots has an empty one.
LEMMA RoomIsLeft ==
  ASSUME NEW n \in Nat, NEW t \in Table(n), Cardinality(Taken(t)) < n
  PROVE  \E i \in 0..(n - 1) : t[i] = Free
<1> SUFFICES ASSUME \A i \in 0..(n - 1) : t[i] # Free PROVE FALSE
  OBVIOUS
<1>1. Taken(t) = 0..(n - 1)
  BY DEF Taken, Table
<1>2. Cardinality(0..(n - 1)) = n
  BY FS_Interval
<1> QED BY <1>1, <1>2

LEMMA TakenIsFinite ==
  ASSUME NEW n \in Nat, NEW t \in Table(n)
  PROVE  IsFiniteSet(Taken(t)) /\ Cardinality(Taken(t)) \in Nat
<1>1. IsFiniteSet(0..(n - 1)) /\ Taken(t) \in SUBSET (0..(n - 1))
  BY FS_Interval DEF Taken, Table
<1>2. IsFiniteSet(Taken(t))
  BY <1>1, FS_Subset
<1> QED BY <1>2, FS_CardinalityType

-----------------------------------------------------------------------------
(* Growing the table. *)

LEMMA MoveType ==
  ASSUME size \in Nat, table \in Table(size), NEW n \in Nat, NEW t \in Table(n), NEW k \in 1..size
  PROVE  Move(t, n, table[k - 1]) \in Table(n)
<1>1. k - 1 \in 0..(size - 1)
  OBVIOUS
<1>2. table[k - 1] \in {Free} \cup {Entry(s, i) : s \in Str, i \in Nat}
  BY <1>1 DEF Table
<1> DEFINE V == {Free} \cup {Entry(s, i) : s \in Str, i \in Nat}
           e == table[k - 1]
           p == Probe(t, n, e.str)
<1>3. t \in [0..(n - 1) -> V] /\ e \in V
  BY <1>2 DEF Table
<1> HIDE DEF V, e, p
<1>4. [t EXCEPT ![p] = e] \in [0..(n - 1) -> V]
  BY <1>3
<1> QED BY <1>3, <1>4 DEF Move, Table, V, e, p

\* The loop of str_table_grow: what the new table is after each round.
LEMMA RehashRuns ==
  ASSUME size \in Nat, table \in Table(size), NEW n \in Nat
  PROVE  \E f : /\ f = [k \in 0..size |-> IF k = 0 THEN [i \in 0..(n - 1) |-> Free]
                                          ELSE Move(f[k - 1], n, table[k - 1])]
                /\ Rehash(n) = f[size]
<1> DEFINE Def(f) == f = [k \in 0..size |-> IF k = 0 THEN [i \in 0..(n - 1) |-> Free]
                                            ELSE Move(f[k - 1], n, table[k - 1])]
<1>1. \E f : Def(f)
  <2> DEFINE a == [i \in 0..(n - 1) |-> Free]
             F == [x \in Nat \X Table(n) |->
                     IF x[1] \in 1..size THEN Move(x[2], n, table[x[1] - 1]) ELSE x[2]]
  <2>1. a \in Table(n)
    BY DEF Table
  <2>2. F \in [Nat \X Table(n) -> Table(n)]
    BY MoveType
  <2>3. PICK f : Iterates(f, a, F, size)
    <3> HIDE DEF a, F
    <3> QED BY IterationExists
  <2>4. \A k \in 0..size : f[k] \in Table(n)
    <3> HIDE DEF a, F
    <3> QED BY <2>1, <2>2, <2>3, IterationStays
  <2>5. ASSUME NEW k \in 1..size
        PROVE  F[<<k, f[k - 1]>>] = Move(f[k - 1], n, table[k - 1])
    <3>1. k - 1 \in 0..size /\ k \in Nat
      OBVIOUS
    <3> QED BY <2>4, <3>1
  <2>6. f = [k \in 0..size |-> f[k]] /\ f[0] = a
    BY <2>3 DEF Iterates
  <2>7. ASSUME NEW k \in 1..size PROVE f[k] = Move(f[k - 1], n, table[k - 1])
    BY <2>3, <2>5 DEF Iterates
  <2> HIDE DEF F, a
  <2>8. ASSUME NEW k \in 0..size
        PROVE  f[k] = IF k = 0 THEN a ELSE Move(f[k - 1], n, table[k - 1])
    <3>1. CASE k = 0
      BY <2>6, <3>1
    <3>2. CASE k # 0
      <4>1. k \in 1..size
        BY <3>2
      <4> QED BY <2>7, <3>2, <4>1
    <3> QED BY <3>1, <3>2
  <2>9. Def(f)
    BY <2>6, <2>8 DEF a
  <2> QED BY <2>9
<1>2. Def(CHOOSE f : Def(f))
  BY <1>1
<1>3. Rehash(n) = (CHOOSE f : Def(f))[size]
  BY DEF Rehash
<1> QED BY <1>2, <1>3

\* The entries that are in the first k slots of the table.
Before(k) == {i \in Taken(table) : i < k}

\* What holds of the new table after k rounds.
Copied(t, n, k) ==
    /\ Good(t, n)
    /\ Cardinality(Taken(t)) = Cardinality(Before(k))
    /\ \A i \in Taken(t) : \E j \in Before(k) : table[j] = t[i]
    /\ \A j \in Before(k) : \E i \in Taken(t) : t[i] = table[j]

LEMMA BeforeIsFinite ==
  ASSUME size \in Nat, table \in Table(size), NEW k \in 0..size
  PROVE  /\ IsFiniteSet(Before(k)) /\ Cardinality(Before(k)) \in 0..k
<1>1. IsFiniteSet(0..(k - 1)) /\ Cardinality(0..(k - 1)) = k
  BY FS_Interval
<1>2. Before(k) \in SUBSET (0..(k - 1))
  BY DEF Before, Taken, Table
<1>3. IsFiniteSet(Before(k)) /\ Cardinality(Before(k)) <= k
  BY <1>1, <1>2, FS_Subset
<1> QED BY <1>3, FS_CardinalityType

LEMMA OneRound ==
  ASSUME size \in Nat, Good(table, size), NEW n \in Nat, size < n,
         NEW k \in 0..(size - 1), NEW t, Copied(t, n, k)
  PROVE  Copied(Move(t, n, table[k]), n, k + 1)
<1> DEFINE e == table[k]
<1>0. /\ table \in Table(size) /\ DOMAIN table = 0..(size - 1) /\ t \in Table(n)
      /\ DOMAIN t = 0..(n - 1) /\ k \in 0..(size - 1) /\ k \in 0..size
  BY DEF Copied, Good, Table
<1>1. CASE e = Free
  <2>1. Before(k + 1) = Before(k)
    BY <1>0, <1>1 DEF Before, Taken
  <2>2. Move(t, n, e) = t
    BY <1>0, <1>1, FreeHasNoString DEF Move
  <2> QED BY <2>1, <2>2 DEF Copied
<1>2. CASE e # Free
  <2>1. Before(k + 1) = Before(k) \cup {k} /\ k \notin Before(k)
    BY <1>0, <1>2 DEF Before, Taken
  <2>2. e.str \in Str /\ e.offset \in Nat /\ e = Entry(e.str, e.offset) /\ ~ Skipped(e)
    BY <1>0, <1>2, FreeHasNoString
  <2>3. Cardinality(Taken(t)) < n
    BY <1>0, BeforeIsFinite DEF Copied
  <2>4. \E i \in 0..(n - 1) : t[i] = Free
    BY <1>0, <2>3, RoomIsLeft
  <2>5. ASSUME NEW i \in Taken(t), t[i].str = e.str PROVE FALSE
    <3>1. PICK j \in Before(k) : table[j] = t[i]
      BY DEF Copied
    <3>2. j \in 0..(size - 1) /\ table[j] # Free /\ j # k
      BY <1>0, <3>1 DEF Before, Taken
    <3> QED BY <1>0, <1>2, <2>5, <3>1, <3>2 DEF Good, Once
  <2> DEFINE p == Probe(t, n, e.str)
             u == [t EXCEPT ![p] = e]
  <2>6. Good(t, n) /\ n \in Nat \ {0}
    BY <1>0 DEF Copied
  <2>7. /\ p \in 0..(n - 1) /\ t[p] = Free
        /\ Good(u, n)
        /\ Taken(u) = Taken(t) \cup {p}
    <3> DEFINE s == e.str
               offset == e.offset
               w == [t EXCEPT ![Probe(t, n, s)] = Entry(s, offset)]
    <3>1. s \in Str /\ offset \in Nat /\ \A i \in Taken(t) : t[i].str # s
      BY <2>2, <2>5
    <3>2. u = w
      BY <2>2
    <3> HIDE DEF e, s, offset
    <3>3. /\ Probe(t, n, s) \in 0..(n - 1) /\ t[Probe(t, n, s)] = Free
          /\ Good(w, n)
          /\ Taken(w) = Taken(t) \cup {Probe(t, n, s)}
      BY <2>4, <2>6, <3>1, InsertKeepsGood
    <3> QED BY <3>2, <3>3 DEF s
  <2>8. Move(t, n, e) = u
    BY <2>2 DEF Move
  <2>9. u[p] = e /\ \A i \in Taken(t) : i # p /\ u[i] = t[i]
    BY <1>0, <2>7 DEF Taken
  <2> HIDE DEF e, p, u
  <2>10. Cardinality(Taken(u)) = Cardinality(Before(k + 1))
    <3>1. p \notin Taken(t)
      BY <2>9
    <3>2. Cardinality(Taken(u)) = Cardinality(Taken(t)) + 1
      BY <1>0, <2>7, <3>1, TakenIsFinite, FS_AddElement
    <3>3. Cardinality(Before(k + 1)) = Cardinality(Before(k)) + 1
      BY <1>0, <2>1, BeforeIsFinite, FS_AddElement
    <3> QED BY <3>2, <3>3 DEF Copied
  <2>11. ASSUME NEW i \in Taken(u) PROVE \E j \in Before(k + 1) : table[j] = u[i]
    <3>1. CASE i = p
      BY <2>1, <2>9, <3>1 DEF e
    <3>2. CASE i \in Taken(t)
      BY <2>1, <2>9, <3>2 DEF Copied
    <3> QED BY <2>7, <3>1, <3>2
  <2>12. ASSUME NEW j \in Before(k + 1) PROVE \E i \in Taken(u) : u[i] = table[j]
    <3>1. CASE j = k
      BY <2>7, <2>9, <3>1 DEF e
    <3>2. CASE j \in Before(k)
      BY <2>7, <2>9, <3>2 DEF Copied
    <3> QED BY <2>1, <3>1, <3>2
  <2>13. Copied(u, n, k + 1)
    BY <2>7, <2>10, <2>11, <2>12 DEF Copied
  <2> QED BY <2>8, <2>13 DEF e
<1> QED BY <1>1, <1>2

\* A larger table holds the same entries, each where a probe finds it.
LEMMA RehashCopies ==
  ASSUME size \in Nat, Good(table, size), NEW n \in Nat, size < n
  PROVE  Copied(Rehash(n), n, size)
<1>0. table \in Table(size)
  BY DEF Good
<1>1. PICK f : /\ f = [k \in 0..size |-> IF k = 0 THEN [i \in 0..(n - 1) |-> Free]
                                         ELSE Move(f[k - 1], n, table[k - 1])]
               /\ Rehash(n) = f[size]
  BY <1>0, RehashRuns
<1> DEFINE T == {k \in Nat : k <= size => Copied(f[k], n, k)}
<1>2. 0 \in T
  <2> DEFINE a == [i \in 0..(n - 1) |-> Free]
  <2>1. f[0] = a
    BY <1>1
  <2>2. a \in Table(n) /\ Taken(a) = {} /\ DOMAIN a = 0..(n - 1)
    BY DEF Table, Taken
  <2>3. Before(0) = {}
    BY <1>0 DEF Before, Taken, Table
  <2>4. Good(a, n)
    BY <2>2 DEF Good, Once, Chained, Taken
  <2> HIDE DEF a
  <2>5. Copied(a, n, 0)
    BY <2>2, <2>3, <2>4 DEF Copied
  <2> QED BY <2>1, <2>5
<1>3. ASSUME NEW k \in Nat, k \in T PROVE k + 1 \in T
  <2> SUFFICES ASSUME k + 1 <= size PROVE Copied(f[k + 1], n, k + 1)
    OBVIOUS
  <2>1. k \in 0..(size - 1) /\ Copied(f[k], n, k)
    BY <1>3
  <2>2. f[k + 1] = Move(f[k], n, table[k])
    <3>1. k + 1 \in 0..size /\ k + 1 # 0 /\ (k + 1) - 1 = k
      BY <2>1
    <3> QED BY <1>1, <3>1
  <2> QED BY <2>1, <2>2, OneRound
<1> HIDE DEF T
<1>4. Nat \subseteq T
  BY <1>2, <1>3, SetInduction
<1>5. Copied(f[size], n, size)
  BY <1>4 DEF T
<1> QED BY <1>1, <1>5

-----------------------------------------------------------------------------
(* The buffer of strings. *)

\* Doubling never makes the buffer smaller, and makes it as large as needed.
LEMMA CapacitiesGrow ==
  ASSUME cap \in Nat \ {0}, NEW n \in Nat
  PROVE  /\ \A c \in Capacities(n) : c \in Nat /\ c >= cap
         /\ \E c \in Capacities(n) : c >= n
<1> DEFINE F == [x \in Nat \X Nat |-> 2 * x[2]]
           Def(f) == f = [k \in 0..n |-> IF k = 0 THEN cap ELSE 2 * f[k - 1]]
<1>1. F \in [Nat \X Nat -> Nat] /\ cap \in Nat /\ \A k, x \in Nat : F[<<k, x>>] = 2 * x
  OBVIOUS
<1> HIDE DEF F
<1>2. \E f : Def(f)
  <2>1. PICK f : Iterates(f, cap, F, n)
    BY IterationExists
  <2>2. \A k \in 0..n : f[k] \in Nat
    BY <1>1, <2>1, IterationStays
  <2>3. ASSUME NEW k \in 1..n PROVE f[k] = 2 * f[k - 1]
    <3>1. k \in Nat /\ k - 1 \in 0..n
      OBVIOUS
    <3> QED BY <1>1, <2>1, <2>2, <3>1 DEF Iterates
  <2>4. f = [k \in 0..n |-> f[k]] /\ f[0] = cap
    BY <2>1 DEF Iterates
  <2>5. ASSUME NEW k \in 0..n PROVE f[k] = IF k = 0 THEN cap ELSE 2 * f[k - 1]
    <3>1. CASE k = 0
      BY <2>4, <3>1
    <3>2. CASE k # 0
      <4>1. k \in 1..n
        BY <3>2
      <4> QED BY <2>3, <3>2, <4>1
    <3> QED BY <3>1, <3>2
  <2> QED BY <2>4, <2>5
<1> DEFINE f == CHOOSE f : Def(f)
<1>3. Def(f)
  BY <1>2
<1>4. Capacities(n) = {f[k] : k \in 0..n}
  BY DEF Capacities
<1> HIDE DEF f
<1>5. f[0] = cap /\ \A k \in 1..n : f[k] = 2 * f[k - 1]
  BY <1>3
<1> DEFINE T == {k \in Nat : k <= n => f[k] \in Nat /\ f[k] >= cap /\ f[k] > k}
<1>6. 0 \in T
  BY <1>5
<1>7. ASSUME NEW k \in Nat, k \in T PROVE k + 1 \in T
  <2> SUFFICES ASSUME k + 1 <= n
               PROVE  f[k + 1] \in Nat /\ f[k + 1] >= cap /\ f[k + 1] > k + 1
    OBVIOUS
  <2>1. f[k] \in Nat /\ f[k] >= cap /\ f[k] > k
    BY <1>7
  <2>2. k + 1 \in 1..n /\ (k + 1) - 1 = k
    OBVIOUS
  <2>3. f[k + 1] = 2 * f[k]
    BY <1>5, <2>2
  <2> QED BY <2>1, <2>3
<1> HIDE DEF T
<1>8. Nat \subseteq T
  BY <1>6, <1>7, SetInduction
<1>9. \A k \in 0..n : f[k] \in Nat /\ f[k] >= cap /\ f[k] > k
  BY <1>8 DEF T
<1>10. f[n] \in Capacities(n) /\ f[n] >= n
  BY <1>4, <1>9
<1> QED BY <1>4, <1>9, <1>10

LEMMA DoubledIsEnough ==
  ASSUME cap \in Nat \ {0}, NEW n \in Nat
  PROVE  Doubled(n) \in Nat /\ n <= Doubled(n) /\ cap <= Doubled(n)
<1> DEFINE Enough == {c \in Capacities(n) : n <= c}
<1>1. Enough \subseteq Nat /\ Enough # {} /\ \A c \in Enough : c >= cap /\ n <= c
  BY CapacitiesGrow
<1>2. \E m \in Enough : \A c \in Enough : m <= c
  <2> HIDE DEF Enough
  <2> QED BY <1>1, Smallest
<1>3. \E c \in Capacities(n) : n <= c /\ \A d \in Capacities(n) : n <= d => c <= d
  BY <1>2
<1>4. Doubled(n) \in Capacities(n) /\ n <= Doubled(n)
  BY <1>3 DEF Doubled
<1>5. Doubled(n) \in Enough
  BY <1>4
<1> QED BY <1>1, <1>5

-----------------------------------------------------------------------------
(* The invariant: the table is good, never more than three quarters full, its *)
(* count exact, and no two strings share an offset in the buffer.             *)

\* The offsets of the strings of a table: below the end of the buffer, and different.
Offsets(t) ==
    /\ \A i \in Taken(t) : t[i].offset \in 1..(len - 1)
    /\ \A i, j \in Taken(t) : t[i].offset = t[j].offset => i = j

\* What insertion relies on: table t of n slots has the strings that are counted.
Ready(t, n) ==
    /\ n \in Nat \ {0} /\ n % 4 = 0
    /\ Good(t, n) /\ Cardinality(Taken(t)) = count
    /\ Offsets(t)

Bytes ==
    /\ len \in Nat \ {0} /\ cap \in Nat /\ len <= cap
    /\ answer \in [str : Str \cup {Null}, id : 0..(len - 1) \cup {Null}]

IInv == Ready(table, size) /\ 4 * count <= 3 * size /\ count \in Nat /\ Bytes

LEMMA IInvInit == Init => IInv
<1> SUFFICES ASSUME Init PROVE IInv
  OBVIOUS
<1>1. table \in Table(size) /\ Taken(table) = {} /\ size = InitSlots /\ count = 0
  BY DEF Init, Table, Taken
<1>2. Cardinality(Taken(table)) = 0
  BY <1>1, FS_EmptySet
<1>3. Good(table, size) /\ Offsets(table)
  BY <1>1 DEF Good, Once, Chained, Offsets, Taken
<1>4. Bytes
  BY InternAssumption DEF Init, Bytes
<1> QED BY <1>1, <1>2, <1>3, <1>4, InternAssumption DEF IInv, Ready

\* A table that is not full has an empty slot, and a probe of it an end.
LEMMA ReadyHasRoom ==
  ASSUME NEW t, NEW n, Ready(t, n), count \in Nat, 4 * count <= 3 * n
  PROVE  /\ t \in Table(n) /\ DOMAIN t = 0..(n - 1) /\ n \in Nat \ {0}
         /\ \E i \in 0..(n - 1) : t[i] = Free
<1>1. t \in Table(n) /\ n \in Nat \ {0}
  BY DEF Ready, Good
<1>2. Cardinality(Taken(t)) < n
  BY <1>1 DEF Ready
<1> QED BY <1>1, <1>2, RoomIsLeft DEF Table

\* The table after growth is ready for one more string.
LEMMA RehashIsReady ==
  ASSUME IInv
  PROVE  /\ Ready(Rehash(2 * size), 2 * size)
         /\ Copied(Rehash(2 * size), 2 * size, size)
         /\ 4 * (count + 1) <= 3 * (2 * size)
<1>1. size \in Nat \ {0} /\ size % 4 = 0 /\ Good(table, size) /\ count \in Nat
  BY DEF IInv, Ready
<1>2. 2 * size \in Nat \ {0} /\ size < 2 * size /\ (2 * size) % 4 = 0 /\ size >= 4
  BY <1>1
<1>3. Copied(Rehash(2 * size), 2 * size, size)
  BY <1>1, <1>2, RehashCopies
<1>4. Before(size) = Taken(table)
  BY <1>1 DEF Before, Taken, Good, Table
<1>5. Offsets(Rehash(2 * size))
  <2> DEFINE t == Rehash(2 * size)
  <2> HIDE DEF t
  <2>1. ASSUME NEW i \in Taken(t) PROVE \E j \in Taken(table) : table[j] = t[i]
    BY <1>3, <1>4 DEF Copied, t
  <2>2. \A i \in Taken(t) : t[i].offset \in 1..(len - 1)
    BY <2>1 DEF IInv, Ready, Offsets
  <2>3. ASSUME NEW i \in Taken(t), NEW j \in Taken(t), t[i].offset = t[j].offset
        PROVE  i = j
    <3>1. PICK a \in Taken(table) : table[a] = t[i]
      BY <2>1
    <3>2. PICK b \in Taken(table) : table[b] = t[j]
      BY <2>1
    <3>3. a = b
      BY <2>3, <3>1, <3>2 DEF IInv, Ready, Offsets
    <3>4. t[i].str = t[j].str
      BY <3>1, <3>2, <3>3
    <3> QED BY <1>3, <3>4 DEF Copied, Good, Once, Taken, t
  <2> QED BY <2>2, <2>3 DEF Offsets, t
<1>6. 4 * (count + 1) <= 3 * (2 * size)
  BY <1>1, <1>2 DEF IInv
<1> QED BY <1>1, <1>2, <1>3, <1>4, <1>5, <1>6 DEF Ready, Copied, IInv

\* What arena_intern finds when it begins to look s up.
LEMMA LookupIsReady ==
  ASSUME IInv, NEW s \in Str, Intern(s)
  PROVE  \E t, n : /\ Lookup(s, t, n)
                   /\ Ready(t, n) /\ 4 * (count + 1) <= 3 * n
                   /\ (t = table /\ n = size) \/ Copied(t, n, size)
<1>1. CASE ~ Crowded /\ Lookup(s, table, size)
  <2>1. count \in Nat /\ size \in Nat /\ size % 4 = 0 /\ count * 4 < size * 3
    BY <1>1 DEF Crowded, IInv, Ready
  <2>2. 4 * (count + 1) <= 3 * size
    BY <2>1
  <2> QED BY <1>1, <2>2 DEF IInv
<1>2. CASE Crowded /\ Lookup(s, Rehash(2 * size), 2 * size)
  BY <1>2, RehashIsReady
<1> QED BY <1>1, <1>2 DEF Intern

\* Looking s up in table t, and putting it there if it is new.
LEMMA LookupKeepsIInv ==
  ASSUME IInv, NEW s \in Str, NEW t, NEW n, Ready(t, n), 4 * (count + 1) <= 3 * n,
         Lookup(s, t, n)
  PROVE  IInv'
<1> DEFINE slot == Probe(t, n, s)
<1>0. /\ n \in Nat \ {0} /\ n % 4 = 0 /\ count \in Nat /\ 4 * count <= 3 * n
      /\ len \in Nat \ {0} /\ cap \in Nat \ {0} /\ len <= cap
      /\ Needed(s) \in Nat /\ Needed(s) > len
  <2>1. Length[s] \in Nat
    BY InternAssumption
  <2> QED BY <2>1 DEF IInv, Ready, Bytes, Needed
<1>1. /\ t \in Table(n) /\ DOMAIN t = 0..(n - 1)
      /\ \E i \in 0..(n - 1) : t[i] = Free
  BY <1>0, ReadyHasRoom
<1>2. PICK k \in 0..(n - 1) : /\ slot = Slot(s, k, n)
                              /\ Stops(t[slot], s)
  BY <1>0, <1>1, ProbeStops
<1>3. slot \in 0..(n - 1)
  <2>1. k \in Nat
    OBVIOUS
  <2> QED BY <1>0, <1>2, <2>1, SlotType
<1>4. CASE Same(t[slot], s) /\ Answer(s, t[slot].offset) /\ table' = t
           /\ size' = n /\ UNCHANGED <<count, bufferVars>>
  <2>1. slot \in Taken(t)
    BY <1>1, <1>3, <1>4, InternAssumption DEF Taken, Same, Free
  <2>2. t[slot].offset \in 1..(len - 1)
    BY <2>1 DEF Ready, Offsets
  <2>3. Ready(table, size)'
    BY <1>4 DEF Ready, Offsets, bufferVars
  <2>4. Bytes'
    BY <1>0, <1>4, <2>2 DEF Bytes, Answer, bufferVars
  <2> QED BY <1>0, <1>4, <2>3, <2>4 DEF IInv, bufferVars
<1>5. CASE /\ t[slot].str = Null
           /\ table' = [t EXCEPT ![slot] = Entry(s, len)]
           /\ size' = n /\ count' = count + 1
           /\ cap' = Doubled(Needed(s)) /\ len' = Needed(s)
           /\ Answer(s, len)
  <2>1. ASSUME NEW i \in Taken(t), t[i].str = s PROVE FALSE
    <3>1. Probe(t, n, t[i].str) = i
      BY <1>0, <1>1, ProbeFinds DEF Ready
    <3>2. i = slot
      BY <2>1, <3>1
    <3> QED BY <1>5, <2>1, <3>2, InternAssumption
  <2>2. /\ t[slot] = Free
        /\ Good(table', n)
        /\ Taken(table') = Taken(t) \cup {slot}
    BY <1>0, <1>1, <1>5, <2>1, InsertKeepsGood, ZenonT(30) DEF Ready
  <2>3. slot \notin Taken(t) /\ table'[slot] = Entry(s, len)
        /\ \A i \in Taken(t) : table'[i] = t[i]
    BY <1>1, <1>3, <1>5, <2>2 DEF Taken
  <2>4. Cardinality(Taken(table')) = count + 1
    BY <1>1, <1>0, <2>2, <2>3, TakenIsFinite, FS_AddElement DEF Ready
  <2>5. ASSUME NEW i \in Taken(table') PROVE table'[i].offset \in 1..(len' - 1)
    <3>1. CASE i = slot
      BY <1>0, <1>5, <2>3, <3>1 DEF Entry
    <3>2. CASE i \in Taken(t)
      BY <1>0, <1>5, <2>3, <3>2 DEF Ready, Offsets
    <3> QED BY <2>2, <3>1, <3>2
  <2>6. ASSUME NEW i \in Taken(table'), NEW j \in Taken(table'),
               table'[i].offset = table'[j].offset
        PROVE  i = j
    <3>1. table'[slot].offset = len
      BY <2>3 DEF Entry
    <3>2. \A a \in Taken(t) : table'[a].offset \in 1..(len - 1)
      BY <2>3 DEF Ready, Offsets
    <3>3. CASE i = slot \/ j = slot
      BY <1>0, <2>2, <2>6, <3>1, <3>2, <3>3
    <3>4. CASE i \in Taken(t) /\ j \in Taken(t)
      BY <2>3, <2>6, <3>4 DEF Ready, Offsets
    <3> QED BY <2>2, <3>3, <3>4
  <2>7. Ready(table, size)'
    BY <1>0, <1>5, <2>2, <2>4, <2>5, <2>6 DEF Ready, Offsets
  <2>8. Bytes'
    <3>1. Doubled(Needed(s)) \in Nat /\ Needed(s) <= Doubled(Needed(s))
      BY <1>0, DoubledIsEnough
    <3> QED BY <1>0, <1>5, <3>1 DEF Bytes, Answer
  <2> QED BY <1>0, <1>5, <2>7, <2>8 DEF IInv
<1>6. CASE /\ \E c \in Capacities(Needed(s)) : cap' = c
           /\ Answer(s, Null)
           /\ table' = t /\ size' = n /\ UNCHANGED <<count, len>>
  <2>1. cap' \in Nat /\ cap' >= cap
    BY <1>0, <1>6, CapacitiesGrow
  <2>2. Ready(table, size)'
    BY <1>6 DEF Ready, Offsets
  <2>3. Bytes'
    BY <1>0, <1>6, <2>1 DEF Bytes, Answer
  <2> QED BY <1>0, <1>6, <2>2, <2>3 DEF IInv
<1> QED BY <1>4, <1>5, <1>6 DEF Lookup

LEMMA IInvNext == IInv /\ [Next]_vars => IInv'
<1> SUFFICES ASSUME IInv, [Next]_vars PROVE IInv'
  OBVIOUS
<1>1. ASSUME NEW s \in Str, Intern(s) PROVE IInv'
  BY <1>1, LookupIsReady, LookupKeepsIInv
<1>2. ASSUME NEW s \in Str, InternFails(s) PROVE IInv'
  BY <1>2 DEF InternFails, Answer, IInv, Ready, Offsets, Bytes, bufferVars
<1>3. CASE UNCHANGED vars
  BY <1>3 DEF vars, IInv, Ready, Offsets, Bytes, bufferVars
<1> QED BY <1>1, <1>2, <1>3 DEF Next

LEMMA IInvHolds == Spec => []IInv
BY IInvInit, IInvNext, PTL DEF Spec

-----------------------------------------------------------------------------
(* The invariants that TLC checks. *)

\* Every probe ends, and that for a string that was interned ends at its slot, through
\* every growth of the table.
THEOREM InternFindsAgain == Spec => []InternedIsReachable
<1>1. ASSUME IInv PROVE InternedIsReachable
  <2>0. ProbesEnd
    BY <1>1, ReadyHasRoom DEF IInv, ProbesEnd
  <2> SUFFICES ASSUME NEW i \in DOMAIN table, table[i].str \in Str
               PROVE  Holds(Probe(table, size, table[i].str), table[i].str)
    BY <2>0 DEF InternedIsReachable, Interned, Holds
  <2>1. i \in Taken(table)
    BY <1>1, InternAssumption DEF Taken, Free
  <2>2. Probe(table, size, table[i].str) = i
    BY <1>1, <2>1, ReadyHasRoom, ProbeFinds DEF IInv, Ready
  <2> QED BY <2>2 DEF Holds
<1> QED BY <1>1, IInvHolds, PTL

\* The count that decides on growth is that of the taken slots, and every entry's
\* offset is in the part of the buffer that is filled.
THEOREM InternTableConsistent == Spec => []TableIsConsistent
<1>1. ASSUME IInv PROVE TableIsConsistent
  <2>1. /\ table \in Table(size) /\ DOMAIN table = 0..(size - 1)
        /\ size \in Nat \ {0} /\ count \in Nat /\ 4 * count <= 3 * size
    BY <1>1, ReadyHasRoom DEF IInv
  <2>2. CountIsExact
    BY <1>1 DEF IInv, Ready, Taken, CountIsExact
  <2>3. ASSUME NEW i \in 0..(size - 1)
        PROVE  table[i] \in {Free} \cup {Entry(s, o) : s \in Str, o \in 1..(len - 1)}
    BY <1>1, <2>1, FreeHasNoString DEF IInv, Ready, Offsets, Taken
  <2>4. table = [i \in 0..(size - 1) |-> table[i]]
    BY <2>1 DEF Table
  <2>5. table \in [0..(size - 1) -> {Free} \cup {Entry(s, o) : s \in Str, o \in 1..(len - 1)}]
    BY <2>3, <2>4
  <2>6. count \in 0..size
    BY <2>1
  <2> QED BY <1>1, <2>1, <2>2, <2>5, <2>6 DEF TableIsConsistent, TypeOK, IInv, Bytes
<1> QED BY <1>1, IInvHolds, PTL

-----------------------------------------------------------------------------
(* The table implements the interner. *)

\* The id of a string, as a table gives it.
IdOf(t) == [s \in Str |-> IF s \in {r \in Str : \E i \in DOMAIN t : t[i].str = r}
                          THEN t[CHOOSE i \in DOMAIN t : t[i].str = s].offset
                          ELSE Null]

\* The strings of a table are those of its taken slots, each with that slot's offset.
LEMMA IdOfTaken ==
  ASSUME NEW n \in Nat \ {0}, NEW t, Good(t, n)
  PROVE  /\ \A i \in Taken(t) : t[i].str \in Str /\ IdOf(t)[t[i].str] = t[i].offset
         /\ \A s \in Str : (\A i \in Taken(t) : t[i].str # s) => IdOf(t)[s] = Null
<1>0. t \in Table(n) /\ DOMAIN t = 0..(n - 1)
  BY DEF Good, Table
<1>1. ASSUME NEW i \in Taken(t)
      PROVE  t[i].str \in Str /\ IdOf(t)[t[i].str] = t[i].offset
  <2> DEFINE s == t[i].str
             j == CHOOSE j \in DOMAIN t : t[j].str = s
  <2>1. i \in DOMAIN t /\ t[i] # Free /\ s \in Str
    BY <1>0, FreeHasNoString DEF Taken
  <2>2. j \in DOMAIN t /\ t[j].str = s
    BY <2>1
  <2>3. j = i
    BY <2>1, <2>2 DEF Good, Once
  <2>4. IdOf(t)[s] = t[j].offset
    BY <2>1 DEF IdOf
  <2> QED BY <2>1, <2>3, <2>4
<1>2. ASSUME NEW s \in Str, \A i \in Taken(t) : t[i].str # s PROVE IdOf(t)[s] = Null
  <2>1. \A i \in DOMAIN t : t[i].str # s
    BY <1>2, InternAssumption DEF Taken, Free
  <2> QED BY <2>1 DEF IdOf
<1> QED BY <1>1, <1>2

\* Growth changes no id.
LEMMA CopyKeepsIds ==
  ASSUME IInv, NEW n \in Nat \ {0}, NEW t, Copied(t, n, size)
  PROVE  IdOf(t) = IdOf(table)
<1>0. size \in Nat \ {0} /\ Good(table, size) /\ Good(t, n)
  BY DEF IInv, Ready, Copied
<1>1. Before(size) = Taken(table)
  BY <1>0 DEF Before, Taken, Good, Table
<1>2. ASSUME NEW s \in Str PROVE IdOf(t)[s] = IdOf(table)[s]
  <2>1. CASE \E j \in Taken(table) : table[j].str = s
    <3>1. PICK j \in Taken(table) : table[j].str = s
      BY <2>1
    <3>2. PICK i \in Taken(t) : t[i] = table[j]
      BY <1>1 DEF Copied
    <3> QED BY <1>0, <3>1, <3>2, IdOfTaken
  <2>2. CASE \A j \in Taken(table) : table[j].str # s
    <3>1. \A i \in Taken(t) : t[i].str # s
      BY <1>1, <2>2 DEF Copied
    <3> QED BY <1>0, <2>2, <3>1, IdOfTaken
  <2> QED BY <2>1, <2>2
<1> QED BY <1>2 DEF IdOf

Ids == IdOf(table)

LEMMA LookupImplements ==
  ASSUME IInv, NEW s \in Str, NEW t, NEW n, Ready(t, n), 4 * (count + 1) <= 3 * n,
         Lookup(s, t, n), IdOf(t) = Ids
  PROVE  \/ Ids[s] # Null /\ answer' = [str |-> s, id |-> Ids[s]] /\ Ids' = Ids
         \/ /\ Ids[s] = Null
            /\ answer'.id \in Nat /\ \A other \in Str : Ids[other] # answer'.id
            /\ answer' = [str |-> s, id |-> answer'.id]
            /\ Ids' = [Ids EXCEPT ![s] = answer'.id]
         \/ answer' = [str |-> s, id |-> Null] /\ Ids' = Ids
<1> DEFINE slot == Probe(t, n, s)
<1>0. /\ n \in Nat \ {0} /\ count \in Nat /\ 4 * count <= 3 * n
      /\ len \in Nat \ {0} /\ Good(t, n)
  BY DEF IInv, Ready, Bytes
<1>1. /\ t \in Table(n) /\ DOMAIN t = 0..(n - 1)
      /\ \E i \in 0..(n - 1) : t[i] = Free
  BY <1>0, ReadyHasRoom
<1>2. slot \in 0..(n - 1)
  <2>1. PICK k \in 0..(n - 1) : slot = Slot(s, k, n)
    BY <1>0, <1>1, ProbeStops
  <2>2. k \in Nat
    OBVIOUS
  <2> QED BY <1>0, <2>1, <2>2, SlotType
<1>3. CASE Same(t[slot], s) /\ Answer(s, t[slot].offset) /\ table' = t
  <2>1. slot \in Taken(t) /\ t[slot].str = s
    BY <1>1, <1>2, <1>3, InternAssumption DEF Taken, Same, Free
  <2>2. Ids[s] = t[slot].offset /\ t[slot].offset \in Nat
    BY <1>0, <2>1, IdOfTaken DEF Ready, Offsets
  <2>3. Ids' = Ids
    BY <1>3 DEF Ids
  <2> QED BY <1>3, <2>2, <2>3, InternAssumption DEF Answer
<1>4. CASE t[slot].str = Null /\ table' = [t EXCEPT ![slot] = Entry(s, len)] /\ Answer(s, len)
  <2>1. ASSUME NEW i \in Taken(t), t[i].str = s PROVE FALSE
    <3>1. Probe(t, n, t[i].str) = i
      BY <1>0, <1>1, ProbeFinds
    <3>2. i = slot
      BY <2>1, <3>1
    <3> QED BY <1>4, <2>1, <3>2, InternAssumption
  <2>2. /\ t[slot] = Free
        /\ Good(table', n)
        /\ Taken(table') = Taken(t) \cup {slot}
    <3>1. /\ len \in Nat /\ n \in Nat \ {0} /\ Good(t, n)
          /\ \A i \in Taken(t) : t[i].str # s
          /\ \E e \in 0..(n - 1) : t[e] = Free
      BY <1>0, <1>1, <2>1
    <3> DEFINE offset == len
               u == [t EXCEPT ![Probe(t, n, s)] = Entry(s, offset)]
    <3> HIDE DEF offset
    <3>2. /\ t[Probe(t, n, s)] = Free
          /\ Good(u, n)
          /\ Taken(u) = Taken(t) \cup {Probe(t, n, s)}
      <4>1. offset \in Nat
        BY <3>1 DEF offset
      <4> QED BY <3>1, <4>1, InsertKeepsGood
    <3>3. table' = u
      BY <1>4 DEF offset
    <3> QED BY <3>2, <3>3
  <2>3. /\ slot \notin Taken(t) /\ table'[slot] = Entry(s, len)
        /\ \A i \in Taken(t) : table'[i] = t[i]
    BY <1>1, <1>2, <1>4, <2>2 DEF Taken
  <2>4. Ids[s] = Null
    BY <1>0, <2>1, IdOfTaken
  <2>5. ASSUME NEW other \in Str PROVE Ids[other] # len
    <3>1. CASE \E i \in Taken(t) : t[i].str = other
      <4>1. PICK i \in Taken(t) : t[i].str = other
        BY <3>1
      <4>2. Ids[other] = t[i].offset /\ t[i].offset \in 1..(len - 1)
        BY <1>0, <4>1, IdOfTaken DEF Ready, Offsets
      <4> QED BY <1>0, <4>2
    <3>2. CASE \A i \in Taken(t) : t[i].str # other
      <4>1. Ids[other] = Null
        BY <1>0, <3>2, IdOfTaken
      <4> QED BY <1>0, <4>1, InternAssumption
    <3> QED BY <3>1, <3>2
  <2>6. IdOf(table')[s] = len
    <3>1. slot \in Taken(table') /\ table'[slot].str = s /\ table'[slot].offset = len
      BY <2>2, <2>3 DEF Entry
    <3> QED BY <1>0, <2>2, <3>1, IdOfTaken
  <2>7. ASSUME NEW other \in Str, other # s PROVE IdOf(table')[other] = IdOf(t)[other]
    <3>1. CASE \E i \in Taken(t) : t[i].str = other
      <4>1. PICK i \in Taken(t) : t[i].str = other
        BY <3>1
      <4>2. i \in Taken(table') /\ table'[i] = t[i]
        BY <2>2, <2>3
      <4> QED BY <1>0, <2>2, <4>1, <4>2, IdOfTaken
    <3>2. CASE \A i \in Taken(t) : t[i].str # other
      <4>1. \A i \in Taken(table') : table'[i].str # other
        BY <2>2, <2>3, <2>7, <3>2 DEF Entry
      <4> QED BY <1>0, <2>2, <3>2, <4>1, IdOfTaken
    <3> QED BY <3>1, <3>2
  <2>8. Ids' = IdOf(table')
    BY DEF Ids, IdOf
  <2>9. Ids' = [Ids EXCEPT ![s] = len]
    <3> DEFINE new == IdOf(table')  old == IdOf(t)
    <3>1. new = [r \in Str |-> new[r]] /\ old = [r \in Str |-> old[r]]
      BY DEF IdOf
    <3>2. new[s] = len /\ \A r \in Str : r # s => new[r] = old[r]
      BY <2>6, <2>7
    <3>3. Ids' = new /\ Ids = old
      BY <2>8
    <3> HIDE DEF new, old
    <3> QED BY <3>1, <3>2, <3>3
  <2>10. answer' = [str |-> s, id |-> len] /\ answer'.id = len
    BY <1>4 DEF Answer
  <2> QED BY <1>0, <2>4, <2>5, <2>9, <2>10
<1>5. CASE Answer(s, Null) /\ table' = t
  <2>1. Ids' = Ids
    BY <1>5 DEF Ids
  <2> QED BY <1>5, <2>1 DEF Answer
<1> QED BY <1>3, <1>4, <1>5 DEF Lookup

\* An id is one string's for good, whatever grows and whatever fails: arena_intern
\* implements the abstract interner.
THEOREM InternImplementsInterner == Spec => ImplementsInterner
<1>1. Init => Interner!InternerInit
  <2> SUFFICES ASSUME Init PROVE Interner!InternerInit
    OBVIOUS
  <2>1. Interned = {}
    BY InternAssumption DEF Init, Interned, Holds, Free
  <2> QED BY <2>1 DEF Init, Interner!InternerInit
<1>2. IInv /\ [Next]_vars => [Interner!InternerNext]_(Interner!internerVars)
  <2> SUFFICES ASSUME IInv, [Next]_vars
               PROVE  [Interner!InternerNext]_(Interner!internerVars)
    OBVIOUS
  <2>0. Ids' = IdOf(table)'
    BY DEF Ids
  <2>1. ASSUME NEW s \in Str, Intern(s) PROVE Interner!InternerNext
    <3>1. PICK t, n : /\ Lookup(s, t, n)
                      /\ Ready(t, n) /\ 4 * (count + 1) <= 3 * n
                      /\ (t = table /\ n = size) \/ Copied(t, n, size)
      BY <2>1, LookupIsReady
    <3>2. IdOf(t) = Ids
      BY <3>1, CopyKeepsIds DEF Ready, Ids
    <3>3. \/ Ids[s] # Null /\ answer' = [str |-> s, id |-> Ids[s]] /\ Ids' = Ids
          \/ /\ Ids[s] = Null
             /\ answer'.id \in Nat /\ \A other \in Str : Ids[other] # answer'.id
             /\ answer' = [str |-> s, id |-> answer'.id]
             /\ Ids' = [Ids EXCEPT ![s] = answer'.id]
          \/ answer' = [str |-> s, id |-> Null] /\ Ids' = Ids
      BY <3>1, <3>2, LookupImplements
    <3>4. /\ Interner!Old(s) <=> /\ Ids[s] # Null /\ answer' = [str |-> s, id |-> Ids[s]]
                                 /\ Ids' = Ids
          /\ Interner!Fails(s) <=> answer' = [str |-> s, id |-> Null] /\ Ids' = Ids
      BY <2>0 DEF Ids, IdOf, Interned, Holds, Interner!Old, Interner!Fails
    <3>5. Interner!New(s) <=> /\ Ids[s] = Null
                              /\ answer'.id \in Nat /\ \A other \in Str : Ids[other] # answer'.id
                              /\ answer' = [str |-> s, id |-> answer'.id]
                              /\ Ids' = [Ids EXCEPT ![s] = answer'.id]
      BY <2>0 DEF Ids, IdOf, Interned, Holds, Interner!New
    <3> QED BY <3>3, <3>4, <3>5 DEF Interner!InternerNext
  <2>2. ASSUME NEW s \in Str, InternFails(s) PROVE Interner!InternerNext
    <3>1. answer' = [str |-> s, id |-> Null] /\ table' = table
      BY <2>2 DEF InternFails, Answer
    <3> QED BY <3>1 DEF Interner!InternerNext, Interner!Fails, Interned, Holds
  <2>3. CASE UNCHANGED vars
    BY <2>3 DEF vars, Interner!internerVars, Interned, Holds
  <2> QED BY <2>1, <2>2, <2>3 DEF Next
<1> QED BY <1>1, <1>2, IInvHolds, PTL DEF Spec, ImplementsInterner, Interner!InternerSpec
=============================================================================
