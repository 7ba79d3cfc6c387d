--------------------------- MODULE AstPoolsProof ---------------------------
(***************************************************************************)
(* Proofs about AstPools: for any initial sizes, any width of a count and  *)
(* any sequence of allocations and growths, every child list reads back as *)
(* it was built, and the arena loses no array and frees none twice, until  *)
(* a growth fails half-way or hands out slots that are in use.             *)
(*                                                                         *)
(* A list is only an index and a count, and the pool moves when it grows.  *)
(* The invariant says what keeps lists apart: each one owns a run of slots *)
(* below childCount, no two runs meet, and every slot of a run holds what  *)
(* was put there, from the first slot on that no failed commit overwrote.  *)
(* It includes the slots past the 16-bit count, which nobody reads but     *)
(* which the copy has filled.  A list that such a commit handed out (Stray)*)
(* lies over others, but its slots are all filled and nobody pushes there. *)
(***************************************************************************)
EXTENDS AstPools, FiniteSetTheorems, SequenceTheorems, TLAPS

Ids == 0..(MaxNodes - 1)
List == [start : Nat, count : Nat, given : Seq(Ids)]

Types ==
    /\ nodeCount \in 1..MaxNodes /\ nodeCap \in Nat \ {0} /\ nodeCount <= nodeCap /\ spanCap = nodeCap
    /\ Capacity \in Nat /\ childCount \in 0..Capacity
    /\ pool \in [0..(Capacity - 1) -> Ids]
    /\ lists \in Seq(List)
    /\ halfGrown \in BOOLEAN /\ spoiled \in 0..childCount

\* Every pointer is to an allocation of its own.
Pointers ==
    /\ made \in Nat /\ live \subseteq 1..made
    /\ {nodes, spans, childPool} \subseteq 1..made
    /\ childPool \notin {nodes, spans}
    /\ destroyed \in BOOLEAN
    /\ DestroyFreesEverything

\* A list's run of slots, what they hold, and how much of it is counted.
Placed(l) == l.start + Len(l.given) <= childCount
Holding(l) == \A k \in 1..Len(l.given) : pool[l.start + k - 1] = l.given[k]
Counted(l) ==
    /\ l.count <= Len(l.given)
    /\ l.count = Len(l.given) \/ (l.count = MaxCount /\ MaxCount < Len(l.given))
Stray(l) == l.start < spoiled /\ \A k \in 1..Len(l.given) : l.given[k] # NullNode
Apart(l, m) == l.start + Len(l.given) <= m.start \/ m.start + Len(m.given) <= l.start

\* What a list has to do with the pool, and with another list.
Sound(l) ==
    /\ Counted(l) /\ (Placed(l) \/ Stray(l))
    /\ l.start >= spoiled => Holding(l)
Separate(l, m) == Apart(l, m) \/ Stray(l) \/ Stray(m)

Runs ==
    /\ \A i \in DOMAIN lists : Sound(lists[i])
    /\ \A i, j \in DOMAIN lists : i # j => Separate(lists[i], lists[j])

PInv == Types /\ Pointers /\ Runs

-----------------------------------------------------------------------------
LEMMA CapacityIs ==
  ASSUME NEW n \in Nat, NEW p, DOMAIN p = 0..(n - 1)
  PROVE  Cardinality(DOMAIN p) = n
BY FS_Interval

\* What arena_alloc_children and the copy into it leave in an array.
LEMMA WrittenIs ==
  ASSUME NEW n \in Nat, NEW p \in [0..(n - 1) -> Ids], NEW start \in Nat, NEW s \in Seq(Ids)
  PROVE  /\ Written(p, start, s) \in [0..(n - 1) -> Ids]
         /\ \A i \in 0..(n - 1) : i < start \/ i >= start + Len(s) => Written(p, start, s)[i] = p[i]
         /\ \A k \in 1..Len(s) : start + k - 1 < n => Written(p, start, s)[start + k - 1] = s[k]
<1>1. Len(s) \in Nat /\ DOMAIN s = 1..Len(s)
  BY LenProperties
<1>2. ASSUME NEW i \in 0..(n - 1), i \in start..(start + Len(s) - 1)
      PROVE  s[i - start + 1] \in Ids
  <2>1. i - start + 1 \in 1..Len(s)
    BY <1>1, <1>2
  <2> QED BY <2>1, ElementOfSeq
<1>3. Written(p, start, s) = [i \in 0..(n - 1) |->
         IF i \in start..(start + Len(s) - 1) THEN s[i - start + 1] ELSE p[i]]
  BY DEF Written
<1>4. Written(p, start, s) \in [0..(n - 1) -> Ids]
  BY <1>2, <1>3
<1>5. ASSUME NEW k \in 1..Len(s), start + k - 1 < n
      PROVE  Written(p, start, s)[start + k - 1] = s[k]
  <2>1. /\ start + k - 1 \in 0..(n - 1) /\ start + k - 1 \in start..(start + Len(s) - 1)
        /\ (start + k - 1) - start + 1 = k
    BY <1>1, <1>5
  <2> QED BY <1>3, <2>1
<1>6. ASSUME NEW i \in 0..(n - 1), i < start \/ i >= start + Len(s)
      PROVE  Written(p, start, s)[i] = p[i]
  BY <1>1, <1>3, <1>6
<1> QED BY <1>4, <1>5, <1>6

LEMMA ListTypes ==
  ASSUME Types, NEW i \in DOMAIN lists
  PROVE  /\ lists[i] \in List /\ lists[i].start \in Nat /\ lists[i].count \in Nat
         /\ lists[i].given \in Seq(Ids) /\ Len(lists[i].given) \in Nat
         /\ DOMAIN lists[i].given = 1..Len(lists[i].given)
<1>1. lists[i] \in List
  BY ElementOfSeq, LenProperties DEF Types
<1> QED BY <1>1, LenProperties DEF List

LEMMA InitPInv == PoolsInit => PInv
<1> SUFFICES ASSUME PoolsInit PROVE PInv
  OBVIOUS
<1>1. /\ InitNodes \in Nat \ {0} /\ InitChildren \in Nat \ {0} /\ MaxNodes \in Nat \ {0}
  BY PoolsAssumption
<1>2. pool = [i \in 0..(InitChildren - 1) |-> 0] /\ Capacity = InitChildren
  BY <1>1, CapacityIs DEF PoolsInit, Zeros, NullNode, Capacity
<1>3. 0 \in Ids
  BY <1>1 DEF Ids
<1>4. lists = << >> /\ DOMAIN lists = {} /\ lists \in Seq(List)
  BY DEF PoolsInit
<1>5. Types
  BY <1>1, <1>2, <1>3, <1>4 DEF Types, PoolsInit
<1>6. Pointers
  <2>1. made = 3 /\ live = 1..3 /\ nodes = 1 /\ spans = 2 /\ childPool = 3
    BY DEF PoolsInit
  <2>2. {nodes, spans, childPool} = live /\ live \subseteq 1..made /\ made \in Nat
    BY <2>1
  <2>3. childPool \notin {nodes, spans} /\ destroyed = FALSE
    BY <2>1 DEF PoolsInit
  <2>4. DestroyFreesEverything
    BY <2>2, <2>3 DEF DestroyFreesEverything
  <2> QED BY <2>2, <2>3, <2>4 DEF Pointers
<1>7. Runs
  BY <1>4 DEF Runs
<1> QED BY <1>5, <1>6, <1>7 DEF PInv

-----------------------------------------------------------------------------
(* Nodes. *)

LEMMA NodesKeep ==
  ASSUME PInv, AllocNode \/ GrowNodes \/ GrowNodesFails \/ Destroy
  PROVE  PInv'
<1>1. /\ Types /\ Pointers /\ Runs
      /\ MaxNodes \in Nat
  BY PoolsAssumption DEF PInv
<1>2. UNCHANGED childVars /\ Capacity' = Capacity
  BY DEF AllocNode, GrowNodes, GrowNodesFails, Destroy, childVars, Capacity
<1>3. UNCHANGED spoiled /\ halfGrown' \in BOOLEAN
  BY <1>1 DEF AllocNode, GrowNodes, GrowNodesFails, Destroy, Types, history
<1>4. Runs'
  BY <1>1, <1>2, <1>3
  DEF Runs, Sound, Separate, Placed, Holding, Counted, Stray, Apart, childVars
<1>5. Types'
  <2>1. /\ nodeCount' \in 1..MaxNodes /\ nodeCap' \in Nat \ {0} /\ nodeCount' <= nodeCap'
        /\ spanCap' = nodeCap'
    <3>1. CASE AllocNode
      BY <1>1, <3>1 DEF Types, AllocNode, NodesFull
    <3>2. CASE GrowNodes
      BY <1>1, <3>2 DEF Types, GrowNodes, NodesFull
    <3>3. CASE GrowNodesFails \/ Destroy
      BY <1>1, <3>3 DEF Types, GrowNodesFails, Destroy, nodeVars
    <3> QED BY <3>1, <3>2, <3>3
  <2> QED BY <1>1, <1>2, <1>3, <2>1 DEF Types, childVars
<1>6. Pointers'
  <2> USE <1>1 DEF Pointers, DestroyFreesEverything, childVars, heapVars, nodeVars, history
  <2>1. CASE AllocNode
    BY <2>1 DEF AllocNode
  <2>2. CASE GrowNodes
    <3>1. /\ nodes' = made + 1 /\ spans' = made + 2 /\ made' = made + 2 /\ childPool' = childPool
          /\ live' = (live \ {nodes, spans}) \cup {made + 1, made + 2}
          /\ ~destroyed /\ UNCHANGED <<destroyed, halfGrown>>
      BY <2>2 DEF GrowNodes
    <3>2. \A a \in 1..made : a \in 1..made' /\ a # made + 1 /\ a # made + 2
      BY <3>1
    <3>3. made' \in Nat /\ {made + 1, made + 2} \subseteq 1..made'
      BY <3>1
    <3> QED BY <3>1, <3>2, <3>3
  <2>3. CASE GrowNodesFails
    <3>1. /\ UNCHANGED <<nodes, spans, childPool, destroyed>>
          /\ halfGrown' \/ UNCHANGED <<heapVars, halfGrown>>
      BY <2>3 DEF GrowNodesFails
    <3>2. made' \in Nat /\ live' \subseteq 1..made' /\ 1..made \subseteq 1..made'
      <4>1. CASE UNCHANGED heapVars
        BY <4>1
      <4>2. CASE made' = made + 1 /\ live' \subseteq live \cup {made + 1}
        BY <4>2
      <4> QED BY <2>3, <4>1, <4>2 DEF GrowNodesFails
    <3> QED BY <3>1, <3>2
  <2>4. CASE Destroy
    BY <2>4 DEF Destroy
  <2> QED BY <2>1, <2>2, <2>3, <2>4
<1> QED BY <1>4, <1>5, <1>6 DEF PInv

-----------------------------------------------------------------------------
(* Children. *)

\* A list handed out over slots that were not in use leaves the others alone.
LEMMA HandKeeps ==
  ASSUME Types, Runs, NEW l \in List,
         lists' = Append(lists, l),
         childCount <= childCount', childCount' \in Nat,
         \A i \in 0..(childCount - 1) : pool'[i] = pool[i], UNCHANGED spoiled,
         Placed(l)', Holding(l)', Counted(l),
         (Len(l.given) = 0 /\ l.start = 0) \/ childCount <= l.start
  PROVE  Runs'
<1>1. /\ Len(lists) \in Nat /\ DOMAIN lists = 1..Len(lists) /\ lists \in Seq(List)
      /\ childCount \in Nat
  BY LenProperties DEF Types
<1>2. /\ DOMAIN lists' = 1..(Len(lists) + 1) /\ lists'[Len(lists) + 1] = l
      /\ \A i \in DOMAIN lists : lists'[i] = lists[i]
  BY <1>1, AppendProperties
<1>3. l.start \in Nat /\ l.count \in Nat /\ l.given \in Seq(Ids) /\ Len(l.given) \in Nat
  BY LenProperties DEF List
<1>4. ASSUME NEW i \in DOMAIN lists
      PROVE  Sound(lists[i])'
  <2>1. Sound(lists[i]) /\ lists'[i] = lists[i]
    BY <1>2 DEF Runs
  <2>2. lists[i].start \in Nat /\ Len(lists[i].given) \in Nat
    BY ListTypes
  <2>3. (Counted(lists[i]) /\ (Stray(lists[i]) => Stray(lists[i])))'
    BY <2>1 DEF Sound, Counted
  <2>4. ASSUME Placed(lists[i]) PROVE Placed(lists[i])'
    BY <1>1, <2>1, <2>2, <2>4 DEF Placed
  <2>5. Stray(lists[i]) => Stray(lists[i])'
    BY <2>1 DEF Stray
  <2>6. ASSUME lists[i].start >= spoiled PROVE Holding(lists[i])'
    <3>1. Placed(lists[i]) /\ Holding(lists[i])
      BY <2>1, <2>2, <2>6 DEF Sound, Stray, Types
    <3>2. \A k \in 1..Len(lists[i].given) : lists[i].start + k - 1 \in 0..(childCount - 1)
      BY <1>1, <2>2, <3>1 DEF Placed
    <3> QED BY <2>1, <3>1, <3>2 DEF Holding
  <2> QED BY <2>1, <2>3, <2>4, <2>5, <2>6 DEF Sound
<1>5. ASSUME NEW i \in DOMAIN lists
      PROVE  Stray(lists[i])' \/ (Apart(lists[i], l) /\ Apart(l, lists[i]))
  <2> SUFFICES ASSUME Placed(lists[i])
               PROVE  Apart(lists[i], l) /\ Apart(l, lists[i])
    BY <1>2 DEF Runs, Sound, Stray
  <2> DEFINE m == Len(lists[i].given)
             g == Len(l.given)
  <2>2. m \in Nat /\ lists[i].start \in Nat /\ lists[i].start + m <= childCount /\ g \in Nat
    BY <1>3, ListTypes DEF Placed
  <2>3. (g = 0 /\ l.start = 0) \/ childCount <= l.start
    OBVIOUS
  <2> HIDE DEF m, g
  <2>4. l.start + g <= lists[i].start \/ lists[i].start + m <= l.start
    <3>1. CASE g = 0 /\ l.start = 0
      BY <2>2, <3>1
    <3>2. CASE childCount <= l.start
      <4>1. childCount \in Nat /\ l.start \in Nat
        BY <1>1, <1>3
      <4> QED BY <2>2, <3>2, <4>1
    <3> QED BY <2>3, <3>1, <3>2
  <2> QED BY <2>4 DEF Apart, m, g
<1>6. ASSUME NEW i \in DOMAIN lists'
      PROVE  Sound(lists[i])'
  <2>1. CASE i \in DOMAIN lists
    BY <1>4, <2>1
  <2>2. CASE i = Len(lists) + 1
    BY <1>2, <2>2 DEF Sound, Placed, Holding, Counted
  <2> QED BY <1>1, <1>2, <2>1, <2>2
<1>7. ASSUME NEW i \in DOMAIN lists', NEW j \in DOMAIN lists', i # j
      PROVE  Separate(lists[i], lists[j])'
  <2>1. CASE i \in DOMAIN lists /\ j \in DOMAIN lists
    BY <1>2, <1>7, <2>1 DEF Runs, Separate, Apart, Stray
  <2>2. CASE i = Len(lists) + 1 /\ j \in DOMAIN lists
    BY <1>2, <1>5, <2>2 DEF Separate, Apart
  <2>3. CASE i \in DOMAIN lists /\ j = Len(lists) + 1
    BY <1>2, <1>5, <2>3 DEF Separate, Apart
  <2> QED BY <1>1, <1>2, <1>7, <2>1, <2>2, <2>3
<1> QED BY <1>6, <1>7 DEF Runs

LEMMA CommitKeeps ==
  ASSUME PInv, NEW s \in Seq(Ids), NEW n \in Nat,
         n <= Len(s), n = Len(s) \/ (n = MaxCount /\ MaxCount < Len(s)), Commit(s, n)
  PROVE  PInv'
<1>1. /\ Types /\ Pointers /\ Runs /\ childCount \in Nat
      /\ MaxNodes \in Nat \ {0} /\ 0 \in Ids /\ pool \in [0..(Capacity - 1) -> Ids]
      /\ lists \in Seq(List) /\ Capacity \in Nat /\ childCount <= Capacity
  BY PoolsAssumption DEF PInv, Types, Ids
<1>2. Len(s) \in Nat /\ UNCHANGED <<nodeVars, destroyed, halfGrown, spoiled>> /\ ~destroyed
  BY LenProperties DEF Commit, history
<1>3. ASSUME Pointers', Types', NEW l \in List, lists' = Append(lists, l),
             childCount <= childCount', childCount' \in Nat,
             \A i \in 0..(childCount - 1) : pool'[i] = pool[i],
             Placed(l)', Holding(l)', l.count = n, l.given = s,
             (Len(s) = 0 /\ l.start = 0) \/ childCount <= l.start
      PROVE  PInv'
  <2>1. Counted(l)
    BY <1>3 DEF Counted
  <2>2. Runs'
    BY <1>1, <1>2, <1>3, <2>1, HandKeeps
  <2> QED BY <1>3, <2>2 DEF PInv
<1>4. ASSUME NEW start \in Nat
      PROVE  [start |-> start, count |-> n, given |-> s] \in List
  BY DEF List
<1>5. ASSUME NEW l \in List, lists' = Append(lists, l), Capacity' \in Nat, childCount' \in 0..Capacity',
             childCount <= childCount', pool' \in [0..(Capacity' - 1) -> Ids]
      PROVE  Types'
  <2>1. lists' \in Seq(List)
    BY <1>1, <1>5, AppendProperties
  <2>2. spoiled' \in 0..childCount' /\ halfGrown' \in BOOLEAN
    <3>1. spoiled \in 0..childCount /\ halfGrown \in BOOLEAN /\ spoiled' = spoiled /\ halfGrown' = halfGrown
      BY <1>1, <1>2 DEF Types
    <3>2. childCount' \in Nat /\ childCount <= childCount'
      BY <1>5
    <3> QED BY <1>1, <3>1, <3>2
  <2>3. /\ nodeCount' \in 1..MaxNodes /\ nodeCap' \in Nat \ {0} /\ nodeCount' <= nodeCap'
        /\ spanCap' = nodeCap'
    BY <1>1, <1>2 DEF Types, nodeVars
  <2> QED BY <1>5, <2>1, <2>2, <2>3 DEF Types
<1>6. ASSUME UNCHANGED <<childPool, heapVars>>
      PROVE  Pointers'
  BY <1>1, <1>2, <1>6 DEF Pointers, DestroyFreesEverything, nodeVars, heapVars
<1>7. CASE Len(s) = 0 /\ Hand(0, 0, s) /\ UNCHANGED <<childPool, pool, childCount, heapVars>>
  <2> DEFINE l == [start |-> 0, count |-> n, given |-> s]
  <2>1. n = 0
    BY <1>7
  <2>2. l \in List /\ lists' = Append(lists, l) /\ UNCHANGED <<pool, childCount>> /\ Capacity' = Capacity
    BY <1>4, <1>7, <2>1 DEF Hand, Capacity
  <2>3. Types'
    <3> HIDE DEF l
    <3>1. /\ Capacity' \in Nat /\ childCount' \in 0..Capacity' /\ childCount <= childCount'
          /\ pool' \in [0..(Capacity' - 1) -> Ids]
      BY <1>1, <2>2
    <3> QED BY <1>5, <2>2, <3>1
  <2>4. Placed(l)' /\ Holding(l)'
    BY <1>1, <1>7, <2>2 DEF Placed, Holding
  <2>5. Pointers'
    BY <1>6, <1>7
  <2> HIDE DEF l
  <2>6. l.count = n /\ l.given = s /\ l.start = 0
    BY DEF l
  <2> QED BY <1>1, <1>3, <1>7, <2>2, <2>3, <2>4, <2>5, <2>6
<1>8. CASE /\ Len(s) > 0 /\ Fits(Len(s))
           /\ pool' = Written(pool, childCount, s)
           /\ childCount' = childCount + Len(s)
           /\ Hand(childCount, n, s)
           /\ UNCHANGED <<childPool, heapVars>>
  <2>0. PICK l \in List : l = [start |-> childCount, count |-> n, given |-> s]
    BY <1>1, <1>4
  <2>1. lists' = Append(lists, l) /\ l.count = n /\ l.given = s /\ l.start = childCount
    BY <1>8, <2>0 DEF Hand
  <2>2. /\ pool' \in [0..(Capacity - 1) -> Ids]
        /\ \A i \in 0..(Capacity - 1) : i < childCount \/ i >= childCount + Len(s) => pool'[i] = pool[i]
        /\ \A k \in 1..Len(s) : childCount + k - 1 < Capacity => pool'[childCount + k - 1] = s[k]
    BY <1>1, <1>8, WrittenIs
  <2>3. Capacity' = Capacity
    BY <1>1, <2>2 DEF Capacity
  <2>4. childCount' \in 0..Capacity /\ childCount <= childCount'
    BY <1>1, <1>2, <1>8 DEF Fits
  <2>5. Types'
    BY <1>1, <1>5, <2>1, <2>2, <2>3, <2>4
  <2>6. Placed(l)' /\ Holding(l)'
    BY <1>1, <1>2, <1>8, <2>1, <2>2, <2>4 DEF Placed, Holding
  <2>7. \A i \in 0..(childCount - 1) : pool'[i] = pool[i]
    BY <1>1, <2>2
  <2>8. Pointers'
    BY <1>6, <1>8
  <2> QED BY <1>1, <1>2, <1>3, <1>8, <2>1, <2>4, <2>5, <2>6, <2>7, <2>8
<1>9. CASE /\ ~Fits(Len(s))
           /\ childPool' = made + 1 /\ made' = made + 1
           /\ live' = (live \ {childPool}) \cup {made + 1}
           /\ pool' = Written([i \in 0..(NewCapacity(childCount + Len(s)) - 1) |->
                                  IF i < Capacity THEN pool[i] ELSE NullNode], childCount, s)
           /\ childCount' = childCount + Len(s)
           /\ Hand(childCount, n, s)
  <2> DEFINE c == NewCapacity(childCount + Len(s))
             p == [i \in 0..(c - 1) |-> IF i < Capacity THEN pool[i] ELSE NullNode]
  <2>0. PICK l \in List : l = [start |-> childCount, count |-> n, given |-> s]
    BY <1>1, <1>4
  <2>1. lists' = Append(lists, l) /\ l.count = n /\ l.given = s /\ l.start = childCount
    BY <1>9, <2>0 DEF Hand
  <2>2. c \in Nat /\ childCount + Len(s) <= c /\ Capacity <= c
    BY <1>1, <1>2 DEF NewCapacity
  <2> HIDE DEF c
  <2>3. p \in [0..(c - 1) -> Ids] /\ \A i \in 0..(Capacity - 1) : p[i] = pool[i]
    BY <1>1, <2>2 DEF NullNode
  <2>4. pool' = Written(p, childCount, s)
    BY <1>9 DEF c
  <2> HIDE DEF p
  <2>5. /\ pool' \in [0..(c - 1) -> Ids]
        /\ \A i \in 0..(c - 1) : i < childCount \/ i >= childCount + Len(s) => pool'[i] = p[i]
        /\ \A k \in 1..Len(s) : childCount + k - 1 < c => pool'[childCount + k - 1] = s[k]
    BY <1>1, <2>2, <2>3, <2>4, WrittenIs, SMTT(20)
  <2>6. Capacity' = c
    BY <2>2, <2>5, CapacityIs DEF Capacity
  <2>7. childCount' \in 0..c /\ childCount <= childCount'
    BY <1>1, <1>2, <1>9, <2>2
  <2>8. Types'
    BY <1>5, <2>1, <2>2, <2>5, <2>6, <2>7
  <2>9. Placed(l)' /\ Holding(l)'
    BY <1>1, <1>2, <1>9, <2>1, <2>2, <2>5 DEF Placed, Holding
  <2>10. \A i \in 0..(childCount - 1) : pool'[i] = pool[i]
    BY <1>1, <2>2, <2>3, <2>5
  <2>11. Pointers'
    <3>1. /\ made \in Nat /\ live \subseteq 1..made /\ {nodes, spans, childPool} \subseteq 1..made
          /\ destroyed \in BOOLEAN
          /\ childPool \notin {nodes, spans} /\ UNCHANGED <<nodes, spans, destroyed, halfGrown>>
          /\ ~halfGrown => {nodes, spans, childPool} = live
      BY <1>1, <1>2 DEF Pointers, DestroyFreesEverything, nodeVars
    <3>2. made' \in Nat /\ 1..made \subseteq 1..made' /\ made + 1 \in 1..made' /\ made + 1 \notin 1..made
      BY <1>9, <3>1
    <3>3. {nodes', spans', childPool'} \subseteq 1..made' /\ live' \subseteq 1..made'
      BY <1>9, <3>1, <3>2
    <3>4. childPool' \notin {nodes', spans'}
      BY <1>9, <3>1, <3>2
    <3>5. ~halfGrown => {nodes', spans', childPool'} = live'
      BY <1>9, <3>1, <3>2
    <3> QED BY <1>2, <3>1, <3>2, <3>3, <3>4, <3>5 DEF Pointers, DestroyFreesEverything
  <2> QED BY <1>1, <1>2, <1>3, <1>9, <2>1, <2>7, <2>8, <2>9, <2>10, <2>11
<1> QED BY <1>7, <1>8, <1>9 DEF Commit

LEMMA CommitChildrenKeeps == ASSUME PInv, CommitChildren PROVE PInv'
<1>1. PICK n \in 0..MaxLength : \E s \in [1..n -> 1..(nodeCount - 1)] : Commit(s, Short(n))
  BY DEF CommitChildren
<1>2. PICK s \in [1..n -> 1..(nodeCount - 1)] : Commit(s, Short(n))
  BY <1>1
<1>3. /\ n \in Nat /\ MaxCount \in Nat /\ MaxNodes \in Nat \ {0} /\ nodeCount \in 1..MaxNodes
  BY PoolsAssumption DEF PInv, Types
<1>4. s \in [1..n -> Ids]
  BY <1>3 DEF Ids
<1>5. s \in Seq(Ids) /\ Len(s) = n
  BY <1>3, <1>4, SeqDef, LenProperties
<1>6. /\ Short(n) \in Nat /\ Short(n) <= n
      /\ Short(n) = n \/ (Short(n) = MaxCount /\ MaxCount < n)
  BY <1>3 DEF Short
<1> QED BY <1>2, <1>5, <1>6, CommitKeeps

LEMMA AllocChildrenKeeps == ASSUME PInv, AllocChildren PROVE PInv'
<1>1. PICK n \in 1..MaxLength : Commit([i \in 1..n |-> NullNode], n)
  BY DEF AllocChildren
<1> DEFINE s == [i \in 1..n |-> NullNode]
<1>2. n \in Nat /\ MaxNodes \in Nat \ {0}
  BY PoolsAssumption
<1>3. s \in [1..n -> Ids]
  BY <1>2 DEF Ids, NullNode
<1>4. s \in Seq(Ids) /\ Len(s) = n
  BY <1>2, <1>3, SeqDef, LenProperties
<1> QED BY <1>1, <1>2, <1>4, CommitKeeps

\* The pool could not grow: the list lies over the first slots, and those that begin
\* there are spoiled.
LEMMA CommitChildrenFailsKeeps == ASSUME PInv, CommitChildrenFails PROVE PInv'
<1> DEFINE Failing(n, s) ==
        /\ ~Fits(n) /\ n <= Capacity
        /\ pool' = Written(pool, 0, s)
        /\ Hand(0, Short(n), s)
        /\ spoiled' = IF InUse(n) > spoiled THEN InUse(n) ELSE spoiled
        /\ UNCHANGED <<nodeVars, childPool, childCount, heapVars, destroyed, halfGrown>>
<1>0. PICK n \in 1..MaxLength : \E s \in [1..n -> 1..(nodeCount - 1)] : Failing(n, s)
  BY DEF CommitChildrenFails
<1>1. PICK s \in [1..n -> 1..(nodeCount - 1)] : Failing(n, s)
  BY <1>0
<1>2. /\ n \in Nat \ {0} /\ MaxCount \in Nat /\ MaxNodes \in Nat \ {0} /\ Types /\ Pointers /\ Runs
      /\ nodeCount \in 1..MaxNodes /\ Capacity \in Nat /\ pool \in [0..(Capacity - 1) -> Ids]
      /\ lists \in Seq(List) /\ childCount \in 0..Capacity /\ spoiled \in 0..childCount
  BY PoolsAssumption DEF PInv, Types
<1>3. s \in [1..n -> Ids] /\ \A k \in 1..n : s[k] # NullNode
  BY <1>2 DEF Ids, NullNode
<1>4. s \in Seq(Ids) /\ Len(s) = n /\ Short(n) \in Nat
  BY <1>2, <1>3, SeqDef, LenProperties DEF Short
<1>5. /\ pool' \in [0..(Capacity - 1) -> Ids]
      /\ \A i \in 0..(Capacity - 1) : i >= n => pool'[i] = pool[i]
  <2>0. ASSUME NEW c \in Nat, NEW p \in [0..(c - 1) -> Ids], NEW start \in Nat
        PROVE  /\ Written(p, start, s) \in [0..(c - 1) -> Ids]
               /\ \A i \in 0..(c - 1) : i >= start + Len(s) => Written(p, start, s)[i] = p[i]
    BY <1>4, WrittenIs
  <2>1. /\ Written(pool, 0, s) \in [0..(Capacity - 1) -> Ids]
        /\ \A i \in 0..(Capacity - 1) : i >= 0 + Len(s) => Written(pool, 0, s)[i] = pool[i]
    BY <1>2, <2>0
  <2>2. pool' = Written(pool, 0, s)
    BY <1>1
  <2> QED BY <1>2, <1>4, <2>1, <2>2
<1>6. Capacity' = Capacity
  BY <1>2, <1>5 DEF Capacity
<1>7. PICK l \in List : l = [start |-> 0, count |-> Short(n), given |-> s]
  BY <1>4 DEF List
<1>8. lists' = Append(lists, l) /\ l.start = 0 /\ l.count = Short(n) /\ l.given = s
  BY <1>1, <1>7 DEF Hand
<1>9. /\ DOMAIN lists = 1..Len(lists) /\ Len(lists) \in Nat /\ lists' \in Seq(List)
      /\ DOMAIN lists' = 1..(Len(lists) + 1) /\ lists'[Len(lists) + 1] = l
      /\ \A i \in DOMAIN lists : lists'[i] = lists[i]
  BY <1>2, <1>8, AppendProperties, LenProperties
\* The pool is not empty, so that the new list begins in a spoiled slot.
<1>10. /\ spoiled' \in 1..childCount /\ spoiled <= spoiled' /\ UNCHANGED childCount
       /\ n <= spoiled' \/ spoiled' = childCount
  BY <1>1, <1>2, <1>4 DEF Fits, InUse
<1>11. Types'
  BY <1>1, <1>2, <1>5, <1>6, <1>9, <1>10 DEF Types, nodeVars
<1>12. Pointers'
  BY <1>1, <1>2 DEF Pointers, DestroyFreesEverything, nodeVars, heapVars
<1>13. (Sound(l) /\ Stray(l))'
  <2>1. Stray(l)'
    BY <1>3, <1>4, <1>8, <1>10 DEF Stray
  <2>2. Counted(l)'
    BY <1>2, <1>4, <1>8 DEF Counted, Short
  <2>3. ~(l.start >= spoiled')
    BY <1>8, <1>10
  <2> QED BY <2>1, <2>2, <2>3 DEF Sound
<1>14. ASSUME NEW i \in DOMAIN lists
       PROVE  Sound(lists[i])' /\ (Stray(lists[i]) => Stray(lists[i])')
  <2>1. Sound(lists[i]) /\ lists'[i] = lists[i] /\ lists[i].start \in Nat /\ Len(lists[i].given) \in Nat
    BY <1>2, <1>9, ListTypes DEF Runs
  <2>2. (Counted(lists[i]) => Counted(lists[i])') /\ (Placed(lists[i]) => Placed(lists[i])')
    BY <1>10, <2>1 DEF Counted, Placed
  <2>3. Stray(lists[i]) => Stray(lists[i])'
    BY <1>2, <1>10, <2>1 DEF Stray
  <2>4. ASSUME lists[i].start >= spoiled' PROVE Holding(lists[i])'
    <3>1. Placed(lists[i]) /\ Holding(lists[i])
      BY <1>2, <1>10, <2>1, <2>4 DEF Sound, Stray
    <3>2. ASSUME NEW k \in 1..Len(lists[i].given)
          PROVE  lists[i].start + k - 1 \in 0..(Capacity - 1) /\ lists[i].start + k - 1 >= n
      <4> DEFINE x == lists[i].start
                 m == Len(lists[i].given)
      <4>1. x \in Nat /\ m \in Nat /\ k \in 1..m /\ x + m <= childCount /\ x >= spoiled'
        BY <2>1, <2>4, <3>1 DEF Placed
      <4> HIDE DEF x, m
      <4>2. x + k - 1 \in 0..(Capacity - 1) /\ x + k - 1 >= n
        BY <1>2, <1>10, <4>1
      <4> QED BY <4>2 DEF x
    <3>3. \A k \in 1..Len(lists[i].given) :
             pool'[lists[i].start + k - 1] = pool[lists[i].start + k - 1]
      BY <1>5, <3>2
    <3> QED BY <2>1, <3>1, <3>3 DEF Holding
  <2> QED BY <2>1, <2>2, <2>3, <2>4 DEF Sound
<1>15. Runs'
  <2>1. \A i \in DOMAIN lists' : Sound(lists[i])'
    <3>1. ASSUME NEW i \in DOMAIN lists' PROVE Sound(lists[i])'
      <4>1. CASE i \in DOMAIN lists
        BY <1>14, <4>1
      <4>2. CASE i = Len(lists) + 1
        BY <1>9, <1>13, <4>2 DEF Sound, Counted, Placed, Holding, Stray
      <4> QED BY <1>9, <4>1, <4>2
    <3> QED BY <3>1
  <2>2. ASSUME NEW i \in DOMAIN lists', NEW j \in DOMAIN lists', i # j
        PROVE  Separate(lists[i], lists[j])'
    <3>1. CASE i \in DOMAIN lists /\ j \in DOMAIN lists
      BY <1>2, <1>9, <1>14, <2>2, <3>1 DEF Runs, Separate, Apart
    <3>2. CASE i = Len(lists) + 1 \/ j = Len(lists) + 1
      BY <1>9, <1>13, <3>2 DEF Separate, Stray
    <3> QED BY <1>9, <3>1, <3>2
  <2> QED BY <2>1, <2>2 DEF Runs
<1> QED BY <1>11, <1>12, <1>15 DEF PInv

LEMMA PushChildKeeps == ASSUME PInv, PushChild PROVE PInv'
<1>0. PICK l \in 1..Len(lists), child \in 1..(nodeCount - 1) : \E i \in 1..lists[l].count :
        /\ ~destroyed
        /\ lists[l].given[i] = NullNode /\ lists[l].start + i - 1 < childCount
        /\ pool' = [pool EXCEPT ![lists[l].start + i - 1] = child]
        /\ lists' = [lists EXCEPT ![l].given[i] = child]
        /\ UNCHANGED <<nodeVars, childPool, childCount, heapVars, destroyed, history>>
  BY DEF PushChild
<1>1. PICK i \in 1..lists[l].count :
        /\ ~destroyed
        /\ lists[l].given[i] = NullNode /\ lists[l].start + i - 1 < childCount
        /\ pool' = [pool EXCEPT ![lists[l].start + i - 1] = child]
        /\ lists' = [lists EXCEPT ![l].given[i] = child]
        /\ UNCHANGED <<nodeVars, childPool, childCount, heapVars, destroyed, history>>
  BY <1>0
<1>2. /\ MaxNodes \in Nat \ {0} /\ Types /\ Pointers /\ Runs
      /\ nodeCount \in 1..MaxNodes /\ Capacity \in Nat /\ pool \in [0..(Capacity - 1) -> Ids]
      /\ lists \in Seq(List) /\ childCount \in 0..Capacity
  BY PoolsAssumption DEF PInv, Types
<1>3. DOMAIN lists = 1..Len(lists) /\ lists[l] \in List /\ child \in Ids
  BY <1>2, LenProperties, ElementOfSeq DEF Ids
<1> DEFINE given == [lists[l].given EXCEPT ![i] = child]
           slot == lists[l].start + i - 1
<1>4. /\ lists[l].given \in Seq(Ids) /\ lists[l].start \in Nat /\ lists[l].count \in Nat
      /\ Len(lists[l].given) \in Nat /\ DOMAIN lists[l].given = 1..Len(lists[l].given)
  BY <1>2, <1>3, ListTypes
<1>5. given \in Seq(Ids) /\ Len(given) = Len(lists[l].given)
  <2>1. lists[l].given \in [1..Len(lists[l].given) -> Ids]
    BY <1>4, LenProperties
  <2>2. given \in [1..Len(lists[l].given) -> Ids]
    BY <1>3, <2>1
  <2> QED BY <1>4, <2>2, SeqDef, LenProperties
<1>6. lists' = [lists EXCEPT ![l] = [lists[l] EXCEPT !.given = given]]
  BY <1>1
<1> HIDE DEF given
<1>7. /\ [start |-> lists[l].start, count |-> lists[l].count, given |-> given] \in List
      /\ [lists[l] EXCEPT !.given = given]
           = [start |-> lists[l].start, count |-> lists[l].count, given |-> given]
  <2>1. PICK r \in List : r = lists[l]
    BY <1>3
  <2>2. \A g \in Seq(Ids) : /\ [start |-> r.start, count |-> r.count, given |-> g] \in List
                            /\ [r EXCEPT !.given = g] = [start |-> r.start, count |-> r.count, given |-> g]
    BY DEF List
  <2> QED BY <1>5, <2>1, <2>2
<1>70. PICK m \in List : m = [lists[l] EXCEPT !.given = given]
  BY <1>7
<1>71. m.start = lists[l].start /\ m.count = lists[l].count /\ m.given = given
  BY <1>7, <1>70
<1>8. /\ lists' \in Seq(List) /\ DOMAIN lists' = DOMAIN lists
      /\ lists'[l] = m /\ \A j \in DOMAIN lists : j # l => lists'[j] = lists[j]
  BY <1>2, <1>3, <1>6, <1>70, ExceptSeq
<1>9. /\ pool' \in [0..(Capacity - 1) -> Ids] /\ Capacity' = Capacity
      /\ \A k \in 0..(Capacity - 1) : pool'[k] = IF k = slot THEN child ELSE pool[k]
  BY <1>1, <1>2, <1>3 DEF Capacity
<1>10. Types'
  BY <1>1, <1>2, <1>8, <1>9 DEF Types, nodeVars, history
<1>11. Pointers'
  BY <1>1, <1>2 DEF Pointers, DestroyFreesEverything, nodeVars, heapVars, history
\* A slot that is still null is in no stray list, and in no other list's run.
<1>12. Runs'
  <2>1. Sound(lists[l]) /\ i \in 1..Len(lists[l].given) /\ ~Stray(lists[l]) /\ Placed(lists[l])
    <3>1. Sound(lists[l])
      BY <1>2, <1>3 DEF Runs
    <3>2. i \in 1..Len(lists[l].given)
      BY <1>4, <3>1 DEF Sound, Counted
    <3>3. ~Stray(lists[l])
      BY <1>1, <3>2 DEF Stray
    <3> QED BY <3>1, <3>2, <3>3 DEF Sound
  <2>2. UNCHANGED <<spoiled, childCount>>
    BY <1>1 DEF history
  <2>3. ASSUME NEW j \in DOMAIN lists, j # l
        PROVE  /\ lists'[j] = lists[j] /\ Sound(lists[j])
               /\ Apart(lists[j], lists[l]) \/ Stray(lists[j])
               /\ lists[j].start \in Nat /\ Len(lists[j].given) \in Nat
    BY <1>2, <1>3, <1>8, <2>1, <2>3, ListTypes DEF Runs, Separate
  <2>4. ASSUME NEW j \in DOMAIN lists, j # l, lists[j].start >= spoiled
        PROVE  Holding(lists[j])'
    <3>1. Placed(lists[j]) /\ Holding(lists[j]) /\ Apart(lists[j], lists[l])
      BY <1>2, <2>3, <2>4 DEF Sound, Stray, Types
    <3>2. ASSUME NEW k \in 1..Len(lists[j].given)
          PROVE  /\ lists[j].start + k - 1 \in 0..(Capacity - 1)
                 /\ lists[j].start + k - 1 # slot
      <4> DEFINE x == lists[j].start
                 n == Len(lists[j].given)
                 y == lists[l].start
                 o == Len(lists[l].given)
      <4>1. /\ x \in Nat /\ n \in Nat /\ y \in Nat /\ o \in Nat /\ k \in 1..n /\ i \in 1..o
            /\ x + n <= childCount /\ (x + n <= y \/ y + o <= x)
        BY <1>4, <2>1, <2>3, <2>4, <3>1, <3>2 DEF Placed, Apart
      <4> HIDE DEF x, n, y, o
      <4>2. x + k - 1 \in 0..(Capacity - 1) /\ x + k - 1 # y + i - 1
        BY <1>2, <4>1
      <4> QED BY <4>2 DEF x, y
    <3> HIDE DEF slot
    <3>3. \A k \in 1..Len(lists[j].given) :
             pool'[lists[j].start + k - 1] = pool[lists[j].start + k - 1]
      BY <1>9, <3>2
    <3> QED BY <2>3, <2>4, <3>1, <3>3 DEF Holding
  <2>5. ASSUME lists[l].start >= spoiled PROVE Holding(m)'
    <3>1. Holding(lists[l])
      BY <2>1, <2>5 DEF Sound
    <3>2. ASSUME NEW k \in 1..Len(lists[l].given)
          PROVE  /\ lists[l].start + k - 1 \in 0..(Capacity - 1)
                 /\ (lists[l].start + k - 1 = slot <=> k = i)
      <4> DEFINE y == lists[l].start
                 o == Len(lists[l].given)
      <4>1. y \in Nat /\ o \in Nat /\ k \in 1..o /\ i \in 1..o /\ y + o <= childCount
        BY <1>4, <2>1, <3>2 DEF Placed
      <4> HIDE DEF y, o
      <4>2. y + k - 1 \in 0..(Capacity - 1) /\ (y + k - 1 = y + i - 1 <=> k = i)
        BY <1>2, <4>1
      <4> QED BY <4>2 DEF y
    <3>3. \A k \in 1..Len(lists[l].given) : given[k] = IF k = i THEN child ELSE lists[l].given[k]
      BY <1>4, <2>1 DEF given
    <3> HIDE DEF slot
    <3>4. \A k \in 1..Len(lists[l].given) : pool'[lists[l].start + k - 1] = given[k]
      BY <1>9, <3>1, <3>2, <3>3 DEF Holding
    <3> QED BY <1>5, <1>71, <3>4 DEF Holding
  <2>6. Sound(m)' /\ Placed(m)'
    <3>1. Counted(m) /\ (Placed(m) <=> Placed(lists[l]))
      BY <1>5, <1>71, <2>1 DEF Sound, Counted, Placed
    <3>2. Placed(m)' /\ Counted(m)'
      BY <2>1, <2>2, <3>1 DEF Placed, Counted
    <3>3. m.start >= spoiled' => Holding(m)'
      BY <1>71, <2>2, <2>5
    <3> QED BY <3>2, <3>3 DEF Sound
  <2>7. ASSUME NEW j \in DOMAIN lists, j # l
        PROVE  Sound(lists[j])' /\ (Stray(lists[j]) => Stray(lists[j])')
    <3>1. /\ Counted(lists[j])' <=> Counted(lists[j])
          /\ Placed(lists[j])' <=> Placed(lists[j])
          /\ Stray(lists[j])' <=> Stray(lists[j])
      BY <2>2, <2>3, <2>7 DEF Counted, Placed, Stray
    <3>2. lists'[j].start >= spoiled' => Holding(lists[j])'
      BY <2>2, <2>3, <2>4, <2>7
    <3> QED BY <2>3, <2>7, <3>1, <3>2 DEF Sound
  <2>8. \A j \in DOMAIN lists' : Sound(lists[j])'
    <3>1. Sound(lists[l])'
      BY <1>8, <2>6 DEF Sound, Counted, Placed, Stray, Holding
    <3> QED BY <1>8, <2>7, <3>1
  <2>9. ASSUME NEW j \in DOMAIN lists, NEW k \in DOMAIN lists, j # k
        PROVE  Separate(lists[j], lists[k])'
    <3>1. ASSUME NEW x \in DOMAIN lists
          PROVE  lists'[x].start = lists[x].start /\ Len(lists'[x].given) = Len(lists[x].given)
      BY <1>5, <1>71, <1>8
    <3>2. Apart(lists[j], lists[k]) => Apart(lists[j], lists[k])'
      BY <3>1 DEF Apart
    <3>3. Separate(lists[j], lists[k])
      BY <1>2, <2>9 DEF Runs
    <3>4. \A x \in DOMAIN lists : Stray(lists[x]) => Stray(lists[x])'
      BY <2>1, <2>7
    <3> QED BY <3>2, <3>3, <3>4 DEF Separate
  <2> QED BY <1>8, <2>8, <2>9 DEF Runs
<1> QED BY <1>10, <1>11, <1>12 DEF PInv

LEMMA NextPInv == PInv /\ [PoolsNext]_poolVars => PInv'
<1> SUFFICES ASSUME PInv, [PoolsNext]_poolVars PROVE PInv'
  OBVIOUS
<1>1. CASE AllocNode \/ GrowNodes \/ GrowNodesFails \/ Destroy
  BY <1>1, NodesKeep
<1>2. CASE CommitChildren
  BY <1>2, CommitChildrenKeeps
<1>3. CASE CommitChildrenFails
  BY <1>3, CommitChildrenFailsKeeps
<1>4. CASE AllocChildren
  BY <1>4, AllocChildrenKeeps
<1>5. CASE PushChild
  BY <1>5, PushChildKeeps
<1>6. CASE UNCHANGED poolVars
  <2>1. UNCHANGED <<nodeVars, childVars, heapVars, destroyed, halfGrown, spoiled>> /\ Capacity' = Capacity
    BY <1>6 DEF poolVars, childVars, history, Capacity
  <2>2. Types' <=> Types
    BY <2>1 DEF Types, nodeVars, childVars
  <2>3. Pointers' <=> Pointers
    BY <2>1 DEF Pointers, DestroyFreesEverything, nodeVars, childVars, heapVars
  <2>4. Runs' <=> Runs
    BY <2>1 DEF Runs, Sound, Separate, Placed, Holding, Counted, Stray, Apart, childVars
  <2> QED BY <2>1, <2>2, <2>3, <2>4 DEF PInv
<1> QED BY <1>1, <1>2, <1>3, <1>4, <1>5, <1>6 DEF PoolsNext

LEMMA PInvHolds == PoolsSpec => []PInv
BY InitPInv, NextPInv, PTL DEF PoolsSpec

-----------------------------------------------------------------------------
(* The properties. *)

\* The counts stay within the arrays, arena_alloc_node keeps the spans beside the
\* nodes, and arena_destroy frees every array of the arena exactly once, whatever
\* grew before and whichever growth failed, until one of the arrays of nodes moves and the
\* other does not.
THEOREM PoolsNeverLoseAnArray == PoolsSpec => []PoolsAreSound
<1>1. PInv => PoolsAreSound
  BY DEF PInv, Types, Pointers, PoolsAreSound, PoolsTypeOK, Ids
<1> QED BY <1>1, PInvHolds, PTL

\* A list that arena_commit_children or arena_alloc_children handed out reads back as what
\* was put in it, as far as its count goes, however often the pool moved and whatever was
\* committed or pushed since, unless it begins in a slot that a commit for which the pool
\* could not grow has overwritten.  The count is the length of the list, or the largest.
THEOREM PoolsKeepChildren == PoolsSpec => []ListsReadBack
<1>1. ASSUME PInv PROVE ListsReadBack
  <2> SUFFICES ASSUME NEW i \in 1..Len(lists), lists[i].start >= spoiled
               PROVE  /\ Children(lists[i]) \subseteq DOMAIN pool
                      /\ ReadBack(lists[i]) = SubSeq(lists[i].given, 1, lists[i].count)
                      /\ Counted(lists[i])
    BY DEF ListsReadBack, Counted
  <2> DEFINE l == lists[i]
  <2>1. /\ Types /\ Runs /\ i \in DOMAIN lists /\ childCount \in Nat /\ Capacity \in Nat
        /\ childCount <= Capacity /\ pool \in [0..(Capacity - 1) -> Ids] /\ spoiled \in Nat
    BY <1>1, LenProperties DEF PInv, Types
  <2>2. /\ l.start \in Nat /\ l.given \in Seq(Ids) /\ Len(l.given) \in Nat /\ l.count \in Nat
        /\ Placed(l) /\ Holding(l) /\ Counted(l)
    BY <2>1, ListTypes DEF Runs, Sound, Stray
  <2>3. l.count <= Len(l.given) /\ \A k \in 1..l.count : k \in 1..Len(l.given)
    BY <2>2 DEF Counted
  <2>4. \A k \in 1..l.count : l.start + k - 1 \in DOMAIN pool
    BY <2>1, <2>2, <2>3 DEF Placed
  <2>5. ReadBack(l) = [k \in 1..l.count |-> l.given[k]]
    BY <2>2, <2>3 DEF ReadBack, Holding
  <2>6. SubSeq(l.given, 1, l.count) = [k \in 1..l.count |-> l.given[k]]
    BY <2>2, <2>3
  <2> QED BY <2>2, <2>4, <2>5, <2>6 DEF Children
<1> QED BY <1>1, PInvHolds, PTL
=============================================================================
