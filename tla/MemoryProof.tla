---------------------------- MODULE MemoryProof ----------------------------
(***************************************************************************)
(* Proofs about the arena mode of Memory: for any alignment, block size    *)
(* and sequence of requests, what is handed out is aligned, inside of a    *)
(* block and nobody else's, and no block is lost.                          *)
(*                                                                         *)
(* That a new region is disjoint from the ones before is no fact about the *)
(* regions alone: the invariant places each of them below the offset of a  *)
(* block, and the next region begins at the offset.  The block after a     *)
(* reset is the same one, with no region left in it.                       *)
(*                                                                         *)
(* The code does no arithmetic that could wrap as long as requests and     *)
(* addresses are far from SIZE_MAX; NothingWraps says so, and near         *)
(* SIZE_MAX the theorem is false, since ALIGN_UP(size) is 0 there.         *)
(***************************************************************************)
EXTENDS Memory, RefCountProof, FiniteSetTheorems, SequenceTheorems, TLAPS

\* The sizes a block may have.
BlockSizes == {InitialSize, DefaultSize} \cup {A!Wanted(size) : size \in Sizes}

NothingWraps == \A size \in Sizes :
    /\ A!AtLeastOne(size) + Align <= Word
    /\ \A base \in Bases, b \in BlockSizes : base + b + A!Wanted(size) < Word

Block == [base : Bases, bump : Nat, size : BlockSizes \ {0}]

\* A block's offset is inside of it and aligned.
IsBlock(b) == b \in Block /\ b.bump \in b.base..(b.base + b.size) /\ b.bump % Align = 0

\* One ends before the other begins.
Apart(b, c) == b.base + b.size <= c.base \/ c.base + c.size <= b.base

\* A region lies in what a block has given out.
GivenOut(r, b) == b.base <= r.base /\ r.base + r.size <= b.bump

\* The chain and what finds it again; this needs no assumption about sizes.
Slab == [base : Bases, bump : Nat, size : Nat]
Linked ==
    /\ chain \in Seq(Slab)
    /\ chain = << >> => first = 0 /\ blockSize = 0 /\ mallocs = {}
    /\ chain # << >> => first = chain[Len(chain)].base /\ blockSize \in {InitialSize, DefaultSize} \ {0}
    /\ mallocs = {chain[i].base : i \in DOMAIN chain}

Chain ==
    /\ chain \in Seq(Block)
    /\ \A i \in DOMAIN chain : IsBlock(chain[i])
    /\ \A i, j \in DOMAIN chain : i # j => Apart(chain[i], chain[j])

Regions ==
    /\ live \subseteq [base : Nat, size : {A!AtLeastOne(size) : size \in Sizes}]
    /\ \A r \in live : r.base % Align = 0 /\ \E i \in DOMAIN chain : GivenOut(r, chain[i])
    /\ \A r, s \in live : r # s => Apart(r, s)

ArenaInv == Chain /\ Regions

-----------------------------------------------------------------------------
(* Rounding. *)

LEMMA SumOfMultiples ==
  ASSUME NEW d \in Nat \ {0}, NEW a \in Nat, NEW b \in Nat, a % d = 0, b % d = 0
  PROVE  (a + b) % d = 0
<1> DEFINE q == a \div d
           r == b \div d
<1>1. a = q * d /\ b = r * d /\ q \in Nat /\ r \in Nat
  OBVIOUS
<1> HIDE DEF q, r
<1>2. a + b = (q + r) * d /\ q + r \in Nat
  BY <1>1
<1>3. \A k \in Nat : (k * d) % d = 0
  OBVIOUS
<1> QED BY <1>2, <1>3

\* Rounding up gives a multiple of the alignment, no less than what is rounded.
LEMMA RoundedUp ==
  ASSUME NothingWraps, NEW size \in Sizes
  PROVE  /\ A!AtLeastOne(size) \in Nat \ {0}
         /\ A!Wanted(size) \in Nat /\ A!Wanted(size) % Align = 0
         /\ A!AtLeastOne(size) <= A!Wanted(size)
<1> DEFINE n == A!AtLeastOne(size)
           k == n + Align - 1
           q == k \div Align
<1>1. Align \in Nat \ {0} /\ Word \in Nat /\ size \in Nat /\ n + Align <= Word
  BY MemoryAssumption DEF NothingWraps, A!ArenaParameters
<1>2. n \in Nat \ {0}
  BY <1>1 DEF A!AtLeastOne
<1> HIDE DEF n
<1>3. k \in Nat /\ k % Word = k
  BY <1>1, <1>2
<1>4. A!Wanted(size) = q * Align
  BY <1>3 DEF A!Wanted, A!AlignUp, n
<1> HIDE DEF k
<1>5. q \in Nat /\ k < q * Align + Align
  BY <1>1, <1>3
<1> HIDE DEF q
<1>6. q * Align \in Nat /\ (q * Align) % Align = 0
  BY <1>1, <1>5
<1>7. n <= q * Align
  BY <1>1, <1>2, <1>5, <1>6 DEF k
<1> QED BY <1>2, <1>4, <1>6, <1>7 DEF n

-----------------------------------------------------------------------------
(* The chain. *)

\* The newest block changes.
LEMMA HeadChanged ==
  ASSUME NEW S, NEW s \in Seq(S), s # << >>, NEW b \in S
  PROVE  LET t == <<b>> \o Tail(s) IN
         /\ t \in Seq(S) /\ t # << >> /\ Len(t) = Len(s) /\ DOMAIN t = DOMAIN s
         /\ 1 \in DOMAIN s /\ Head(s) = s[1] /\ t[1] = b
         /\ \A i \in DOMAIN s : i # 1 => t[i] = s[i]
         /\ Len(s) \in DOMAIN s
<1> DEFINE t == <<b>> \o Tail(s)
<1>1. Len(s) \in Nat /\ Len(s) > 0 /\ DOMAIN s = 1..Len(s)
  BY EmptySeq, LenProperties
<1>2. Tail(s) \in Seq(S) /\ Len(Tail(s)) = Len(s) - 1 /\ \A i \in 1..(Len(s) - 1) : Tail(s)[i] = s[i + 1]
  BY <1>1, HeadTailProperties
<1>3. <<b>> \in Seq(S) /\ Len(<<b>>) = 1 /\ <<b>>[1] = b
  OBVIOUS
<1>4. /\ t \in Seq(S) /\ Len(t) = Len(s)
      /\ \A i \in 1..Len(s) : t[i] = IF i <= 1 THEN <<b>>[i] ELSE Tail(s)[i - 1]
  BY <1>1, <1>2, <1>3, ConcatProperties
<1>5. DOMAIN t = 1..Len(s)
  BY <1>4, LenProperties
<1>6. t[1] = b /\ \A i \in DOMAIN s : i # 1 => t[i] = s[i]
  BY <1>1, <1>2, <1>3, <1>4
<1>7. t # << >>
  BY <1>1, <1>4
<1> QED BY <1>1, <1>4, <1>5, <1>6, <1>7

\* A block is put before the others.
LEMMA Prepended ==
  ASSUME NEW S, NEW s \in Seq(S), NEW b \in S
  PROVE  LET t == <<b>> \o s IN
         /\ t \in Seq(S) /\ t # << >> /\ Len(s) \in Nat /\ Len(t) = Len(s) + 1 /\ t[1] = b
         /\ DOMAIN t = 1..(Len(s) + 1) /\ DOMAIN s = 1..Len(s)
         /\ \A i \in DOMAIN s : t[i + 1] = s[i]
<1> DEFINE t == <<b>> \o s
<1>1. Len(s) \in Nat /\ DOMAIN s = 1..Len(s)
  BY LenProperties
<1>2. <<b>> \in Seq(S) /\ Len(<<b>>) = 1 /\ <<b>>[1] = b
  OBVIOUS
<1>3. /\ t \in Seq(S) /\ Len(t) = Len(s) + 1
      /\ \A i \in 1..(Len(s) + 1) : t[i] = IF i <= 1 THEN <<b>>[i] ELSE s[i - 1]
  BY <1>1, <1>2, ConcatProperties
<1>4. DOMAIN t = 1..(Len(s) + 1)
  BY <1>3, LenProperties
<1>5. t[1] = b /\ \A i \in DOMAIN s : t[i + 1] = s[i]
  BY <1>1, <1>2, <1>3
<1>6. t # << >>
  BY <1>1, <1>3
<1> QED BY <1>1, <1>3, <1>4, <1>5, <1>6

\* A block stays a block, wherever its offset wraps to.
LEMMA AdvancedSlab ==
  ASSUME NEW b \in Slab, NEW size \in Sizes
  PROVE  A!Advance(b, size) \in Slab /\ A!Advance(b, size).base = b.base /\ A!Wanted(size) \in Nat
<1>1. Align \in Nat \ {0} /\ Word \in Nat \ {0} /\ size \in Nat
  BY MemoryAssumption DEF A!ArenaParameters
<1> DEFINE n == A!AtLeastOne(size) + Align - 1
           q == (n % Word) \div Align
<1>2. n \in Nat
  BY <1>1 DEF A!AtLeastOne
<1> HIDE DEF n
<1>3. n % Word \in Nat
  BY <1>1, <1>2
<1>4. q \in Nat
  BY <1>1, <1>3
<1>5. A!Wanted(size) = q * Align
  BY DEF A!Wanted, A!AlignUp, n
<1> HIDE DEF q
<1>6. A!Wanted(size) \in Nat
  BY <1>1, <1>4, <1>5
<1>7. (b.bump + A!Wanted(size)) % Word \in Nat
  BY <1>1, <1>6 DEF Slab
<1> QED BY <1>6, <1>7 DEF A!Advance, Slab

LEMMA LinkedKept ==
  ASSUME Linked, A!Next
  PROVE  Linked'
<1>1. chain \in Seq(Slab) /\ mallocs = {chain[i].base : i \in DOMAIN chain}
  BY DEF Linked
<1>2. Bases \subseteq Nat /\ {InitialSize, DefaultSize} \subseteq Nat /\ DefaultSize > 0
  BY MemoryAssumption DEF A!ArenaParameters
<1>3. CASE A!New
  <2>1. PICK base \in Bases, size \in {IF InitialSize = 0 THEN DefaultSize ELSE InitialSize} :
           /\ chain' = <<A!NewBlock(base, size)>>
           /\ first' = base /\ blockSize' = size /\ mallocs' = {base}
    BY <1>3 DEF A!New
  <2> DEFINE b == A!NewBlock(base, size)
  <2>2. b \in Slab /\ b.base = base /\ size \in {InitialSize, DefaultSize} \ {0}
    BY <1>2 DEF A!NewBlock, Slab
  <2> HIDE DEF b
  <2>3. chain' = <<b>>
    BY <2>1 DEF b
  <2>4. chain' \in Seq(Slab) /\ DOMAIN chain' = {1} /\ chain'[1] = b /\ Len(chain') = 1 /\ chain' # << >>
    BY <2>2, <2>3
  <2> QED BY <2>1, <2>2, <2>4 DEF Linked
<1>4. ASSUME NEW size \in Sizes, A!Alloc(size) PROVE Linked'
  <2>1. chain # << >> /\ chain' = <<A!Advance(Head(chain), size)>> \o Tail(chain)
    BY <1>4 DEF A!Alloc, A!Current
  <2> DEFINE c == A!Advance(Head(chain), size)
  <2>2. 1 \in DOMAIN chain /\ Head(chain) = chain[1]
    BY <1>1, <2>1, HeadChanged
  <2>3. chain[1] \in Slab
    BY <1>1, <2>2, ElementOfSeq
  <2>4. c \in Slab /\ c.base = chain[1].base
    BY <2>2, <2>3, AdvancedSlab
  <2> HIDE DEF c
  <2>5. /\ chain' \in Seq(Slab) /\ chain' # << >> /\ Len(chain') = Len(chain)
        /\ DOMAIN chain' = DOMAIN chain /\ chain'[1] = c
        /\ \A i \in DOMAIN chain : i # 1 => chain'[i] = chain[i]
        /\ Len(chain) \in DOMAIN chain
    BY <1>1, <2>1, <2>4, HeadChanged DEF c
  <2>6. \A i \in DOMAIN chain : chain'[i].base = chain[i].base
    BY <2>4, <2>5
  <2>7. UNCHANGED <<first, blockSize, mallocs>>
    BY <1>4 DEF A!Alloc
  <2> QED BY <2>1, <2>5, <2>6, <2>7 DEF Linked
<1>5. ASSUME NEW size \in Sizes, A!AllocBlock(size) PROVE Linked'
  <2> DEFINE n == A!BlockSizeFor(size)
  <2>1. PICK base \in Bases :
           /\ chain' = <<A!Advance(A!NewBlock(base, n), size)>> \o chain
           /\ mallocs' = mallocs \cup {base}
           /\ UNCHANGED <<first, blockSize>> /\ chain # << >>
    BY <1>5 DEF A!AllocBlock
  <2> DEFINE b == A!NewBlock(base, n)
             c == A!Advance(b, size)
  <2>2. blockSize \in {InitialSize, DefaultSize} \ {0} /\ first = chain[Len(chain)].base
    BY <2>1 DEF Linked
  <2>3. A!Wanted(size) \in Nat
    <3>1. [base |-> base, bump |-> 0, size |-> 0] \in Slab
      BY DEF Slab
    <3> QED BY <3>1, AdvancedSlab
  <2>4. n \in Nat
    BY <1>2, <2>2, <2>3 DEF A!BlockSizeFor
  <2> HIDE DEF n
  <2>5. b \in Slab /\ b.base = base
    BY <1>2, <2>4 DEF A!NewBlock, Slab
  <2> HIDE DEF b
  <2>6. c \in Slab /\ c.base = base
    BY <2>5, AdvancedSlab
  <2>7. chain' = <<c>> \o chain
    BY <2>1 DEF b
  <2> HIDE DEF c
  <2>8. /\ chain' \in Seq(Slab) /\ chain' # << >> /\ Len(chain) \in Nat
        /\ Len(chain') = Len(chain) + 1 /\ chain'[1] = c
        /\ DOMAIN chain' = 1..(Len(chain) + 1) /\ DOMAIN chain = 1..Len(chain)
        /\ \A i \in DOMAIN chain : chain'[i + 1] = chain[i]
    BY <1>1, <2>6, <2>7, Prepended
  <2>9. first' = chain'[Len(chain')].base
    <3>1. Len(chain) \in DOMAIN chain
      BY <1>1, <2>1, HeadChanged
    <3> QED BY <2>1, <2>2, <2>8, <3>1
  <2>10. mallocs' = {chain'[i].base : i \in DOMAIN chain'}
    <3>1. 1 \in DOMAIN chain' /\ \A i \in DOMAIN chain : i + 1 \in DOMAIN chain'
      BY <2>8
    <3>2. \A i \in DOMAIN chain' : i = 1 \/ (i - 1 \in DOMAIN chain /\ chain'[i] = chain[i - 1])
      BY <2>8
    <3>3. \A m \in mallocs' : \E i \in DOMAIN chain' : m = chain'[i].base
      BY <1>1, <2>1, <2>6, <2>8, <3>1
    <3>4. \A i \in DOMAIN chain' : chain'[i].base \in mallocs'
      BY <1>1, <2>1, <2>6, <2>8, <3>2
    <3> QED BY <3>3, <3>4
  <2> QED BY <2>1, <2>2, <2>8, <2>9, <2>10 DEF Linked
<1>6. CASE A!Reset
  <2>1. /\ chain # << >> /\ UNCHANGED <<first, blockSize, mallocs>>
        /\ chain' = [i \in DOMAIN chain |-> [chain[i] EXCEPT !.bump = chain[i].base]]
    BY <1>6 DEF A!Reset
  <2>2. Len(chain) \in Nat /\ DOMAIN chain = 1..Len(chain) /\ Len(chain) \in DOMAIN chain
    BY <1>1, <2>1, LenProperties, HeadChanged
  <2>3. \A i \in DOMAIN chain : chain'[i] \in Slab /\ chain'[i].base = chain[i].base
    <3> SUFFICES ASSUME NEW i \in DOMAIN chain
                 PROVE  chain'[i] \in Slab /\ chain'[i].base = chain[i].base
      OBVIOUS
    <3>a. chain[i] \in Slab
      BY <1>1, <2>2, ElementOfSeq
    <3>1. chain[i] \in Slab /\ chain[i].base \in Nat
      BY <1>2, <3>a DEF Slab
    <3>2. chain'[i] = [chain[i] EXCEPT !.bump = chain[i].base]
      BY <2>1
    <3> QED BY <3>1, <3>2 DEF Slab
  <2>4. DOMAIN chain' = DOMAIN chain /\ chain' # << >>
    BY <2>1, <2>2
  <2>5. chain' \in [1..Len(chain) -> Slab]
    BY <2>1, <2>2, <2>3, <2>4
  <2>6. chain' \in Seq(Slab)
    BY <2>2, <2>5, SeqDef
  <2>7. Len(chain') = Len(chain)
    BY <2>2, <2>4, <2>6, LenProperties
  <2> QED BY <2>1, <2>2, <2>3, <2>4, <2>6, <2>7 DEF Linked
<1>7. CASE A!Free
  <2>1. mallocs' = {} /\ chain' = << >> /\ first' = 0 /\ blockSize' = 0
    BY <1>1, <1>7 DEF A!Free
  <2>2. DOMAIN chain' = {} /\ chain' \in Seq(Slab)
    BY <2>1
  <2> QED BY <2>1, <2>2 DEF Linked
<1> QED BY <1>3, <1>4, <1>5, <1>6, <1>7 DEF A!Next

LEMMA InitArena == A!Init => ArenaInv
<1> SUFFICES ASSUME A!Init PROVE ArenaInv
  OBVIOUS
<1>1. chain = << >> /\ DOMAIN chain = {}
  BY DEF A!Init
<1> QED BY <1>1 DEF A!Init, ArenaInv, Chain, Regions

LEMMA NewKeeps ==
  ASSUME NothingWraps, ArenaInv, A!New
  PROVE  ArenaInv'
<1>1. PICK base \in Bases, size \in {IF InitialSize = 0 THEN DefaultSize ELSE InitialSize} :
         /\ chain = << >> /\ chain' = <<A!NewBlock(base, size)>>
         /\ first' = base /\ blockSize' = size /\ mallocs' = {base} /\ live' = live
  BY DEF A!New
<1> DEFINE b == A!NewBlock(base, size)
<1>2. /\ Align \in Nat \ {0} /\ base \in Nat /\ base % Align = 0
      /\ size \in {InitialSize, DefaultSize} \ {0} /\ size \in Nat
  BY MemoryAssumption DEF A!ArenaParameters
<1>3. IsBlock(b)
  BY <1>2 DEF IsBlock, Block, BlockSizes, A!NewBlock
<1>4. b.base = base
  BY DEF A!NewBlock
<1> HIDE DEF b
<1>5. chain' \in Seq(Block) /\ DOMAIN chain' = {1} /\ chain'[1] = b /\ Len(chain') = 1 /\ chain' # << >>
  BY <1>1, <1>3 DEF IsBlock, b
<1>6. live = {}
  BY <1>1 DEF ArenaInv, Regions
<1>7. Chain'
  BY <1>3, <1>5 DEF Chain
<1>9. Regions'
  BY <1>1, <1>6 DEF Regions
<1> QED BY <1>7, <1>9 DEF ArenaInv

\* In a block with room, nothing wraps.
LEMMA NoSumWraps ==
  ASSUME NothingWraps, NEW b, IsBlock(b), NEW size \in Sizes
  PROVE  /\ b.base \in Nat /\ b.bump \in Nat /\ b.size \in Nat \ {0} /\ Align \in Nat \ {0}
         /\ b.base <= b.bump /\ b.bump <= b.base + b.size
         /\ (b.bump + A!Wanted(size)) % Word = b.bump + A!Wanted(size)
<1>1. /\ Align \in Nat \ {0} /\ Word \in Nat /\ Bases \subseteq Nat
      /\ {InitialSize, DefaultSize} \subseteq Nat
  BY MemoryAssumption DEF A!ArenaParameters
<1>2. A!Wanted(size) \in Nat /\ BlockSizes \subseteq Nat
  BY <1>1, RoundedUp DEF BlockSizes
<1>3. b.base \in Bases /\ b.bump \in Nat /\ b.size \in BlockSizes \ {0}
  BY DEF IsBlock, Block
<1>4. b.base <= b.bump /\ b.bump <= b.base + b.size
  BY <1>1, <1>2, <1>3 DEF IsBlock
<1>5. b.base + b.size + A!Wanted(size) < Word
  BY <1>3 DEF NothingWraps
<1>a. b.base \in Nat /\ b.size \in Nat
  BY <1>1, <1>2, <1>3
<1>6. b.bump + A!Wanted(size) \in Nat /\ b.bump + A!Wanted(size) < Word
  BY <1>1, <1>2, <1>3, <1>4, <1>5, <1>a
<1>7. \A n, w \in Nat : n < w => n % w = n
  OBVIOUS
<1> QED BY <1>1, <1>2, <1>3, <1>4, <1>6, <1>7

\* The region handed out in a block, whatever the offset it begins at.
LEMMA NewRegion ==
  ASSUME NothingWraps, NEW b, IsBlock(b), NEW size \in Sizes,
         b.bump + A!Wanted(size) <= b.base + b.size
  PROVE  LET c == A!Advance(b, size)
             r == A!Region(b.bump, size) IN
         /\ IsBlock(c) /\ c.base = b.base /\ c.size = b.size
         /\ c.bump \in Nat /\ b.bump <= c.bump
         /\ r \in [base : Nat, size : {A!AtLeastOne(k) : k \in Sizes}] /\ r.base % Align = 0
         /\ r.base = b.bump /\ r.size \in Nat /\ r.base + r.size <= c.bump
<1> DEFINE c == A!Advance(b, size)
           r == A!Region(b.bump, size)
           w == A!Wanted(size)
           n == A!AtLeastOne(size)
<1>1. b \in Block /\ b.bump % Align = 0
  BY DEF IsBlock
<1>2. /\ b.base \in Nat /\ b.bump \in Nat /\ b.size \in Nat \ {0} /\ Align \in Nat \ {0}
      /\ b.base <= b.bump /\ b.bump <= b.base + b.size /\ (b.bump + w) % Word = b.bump + w
  BY NoSumWraps
<1>3. n \in Nat \ {0} /\ w \in Nat /\ w % Align = 0 /\ n <= w
  BY RoundedUp
<1>4. c = [b EXCEPT !.bump = (b.bump + w) % Word]
  BY DEF A!Advance
<1>5. r.base = b.bump /\ r.size = n /\ r = [base |-> b.bump, size |-> n]
  BY DEF A!Region
<1> HIDE DEF c, r, w
<1>6. c = [b EXCEPT !.bump = b.bump + w]
  BY <1>2, <1>4
<1>7. c.base = b.base /\ c.size = b.size /\ c.bump = b.bump + w /\ c \in Block
  BY <1>1, <1>2, <1>3, <1>6 DEF Block
<1>8. (b.bump + w) % Align = 0
  BY <1>1, <1>2, <1>3, SumOfMultiples
<1>9. IsBlock(c)
  BY <1>2, <1>3, <1>7, <1>8 DEF IsBlock, w
<1>10. r \in [base : Nat, size : {A!AtLeastOne(k) : k \in Sizes}]
  BY <1>2, <1>5
<1> HIDE DEF n
<1>11. b.bump <= c.bump /\ c.bump \in Nat /\ r.base + r.size <= c.bump /\ r.size \in Nat
  BY <1>2, <1>3, <1>5, <1>7
<1> QED BY <1>1, <1>5, <1>7, <1>9, <1>10, <1>11 DEF c, r

\* The types of what is compared.
LEMMA ChainTypes ==
  ASSUME NothingWraps, ArenaInv
  PROVE  /\ \A i \in DOMAIN chain : /\ IsBlock(chain[i]) /\ chain[i] \in Block
                                    /\ chain[i].base \in Nat /\ chain[i].bump \in Nat
                                    /\ chain[i].size \in Nat \ {0}
                                    /\ chain[i].bump <= chain[i].base + chain[i].size
         /\ \A r \in live : r.base \in Nat /\ r.size \in Nat \ {0}
<1>1. Bases \subseteq Nat /\ {InitialSize, DefaultSize} \subseteq Nat
  BY MemoryAssumption DEF A!ArenaParameters
<1>2. BlockSizes \subseteq Nat
  BY <1>1, RoundedUp DEF BlockSizes
<1>3. ASSUME NEW i \in DOMAIN chain
      PROVE  /\ IsBlock(chain[i]) /\ chain[i] \in Block
             /\ chain[i].base \in Nat /\ chain[i].bump \in Nat /\ chain[i].size \in Nat \ {0}
             /\ chain[i].bump <= chain[i].base + chain[i].size
  <2>1. IsBlock(chain[i]) /\ chain[i] \in Block
    BY DEF ArenaInv, Chain, IsBlock
  <2>2. chain[i].base \in Nat /\ chain[i].bump \in Nat /\ chain[i].size \in Nat \ {0}
    BY <1>1, <1>2, <2>1 DEF Block
  <2> QED BY <2>1, <2>2 DEF IsBlock
<1>4. \A r \in live : r.base \in Nat /\ r.size \in Nat \ {0}
  BY RoundedUp DEF ArenaInv, Regions
<1> QED BY <1>3, <1>4

LEMMA AllocKeeps ==
  ASSUME NothingWraps, ArenaInv, NEW size \in Sizes, A!Alloc(size)
  PROVE  ArenaInv'
<1> DEFINE b == chain[1]
           c == A!Advance(b, size)
           r == A!Region(b.bump, size)
<1>1. /\ chain \in Seq(Block) /\ chain # << >>
      /\ UNCHANGED <<first, blockSize, mallocs>>
  BY DEF ArenaInv, Chain, A!Alloc
<1>2. 1 \in DOMAIN chain /\ Head(chain) = b
  BY <1>1, HeadChanged
<1>3. IsBlock(b) /\ b \in Block
  BY <1>2, ChainTypes
<1>4. b.bump + A!Wanted(size) <= b.base + b.size
  BY <1>2, <1>3, NoSumWraps DEF A!Alloc, A!Room, A!Current
<1>5. /\ IsBlock(c) /\ c \in Block /\ c.base = b.base /\ c.size = b.size
      /\ c.bump \in Nat /\ b.bump <= c.bump
      /\ r \in [base : Nat, size : {A!AtLeastOne(k) : k \in Sizes}] /\ r.base % Align = 0
      /\ r.base = b.bump /\ r.size \in Nat /\ r.base + r.size <= c.bump
  BY <1>3, <1>4, NewRegion DEF IsBlock
<1>6. chain' = <<c>> \o Tail(chain) /\ live' = live \cup {r}
  BY <1>2 DEF A!Alloc, A!Current
<1> HIDE DEF c, r
<1>7. /\ chain' \in Seq(Block) /\ chain' # << >> /\ Len(chain') = Len(chain)
      /\ DOMAIN chain' = DOMAIN chain /\ chain'[1] = c
      /\ \A i \in DOMAIN chain : i # 1 => chain'[i] = chain[i]
      /\ Len(chain) \in DOMAIN chain
  BY <1>1, <1>5, <1>6, HeadChanged
<1>8. \A i \in DOMAIN chain : chain'[i].base = chain[i].base /\ chain'[i].size = chain[i].size
  BY <1>5, <1>7
<1>9. Chain'
  BY <1>5, <1>7, <1>8 DEF ArenaInv, Chain, Apart
<1>11. \A s \in live : \E i \in DOMAIN chain : GivenOut(s, chain[i])
  BY DEF ArenaInv, Regions
<1>12. GivenOut(r, c) /\ c.base <= r.base
  BY <1>2, <1>3, <1>5, NoSumWraps DEF GivenOut
<1>13. \A s \in live' : s.base % Align = 0 /\ \E i \in DOMAIN chain' : GivenOut(s, chain'[i])
  <2>1. ASSUME NEW s \in live PROVE \E i \in DOMAIN chain' : GivenOut(s, chain'[i])
    <3>1. PICK i \in DOMAIN chain : GivenOut(s, chain[i])
      BY <1>11
    <3>2. CASE i = 1
      BY <1>2, <1>5, <1>7, <3>1, <3>2, ChainTypes DEF GivenOut
    <3>3. CASE i # 1
      BY <1>7, <3>1, <3>3
    <3> QED BY <3>2, <3>3
  <2>2. \A s \in live : s.base % Align = 0
    BY DEF ArenaInv, Regions
  <2> QED BY <1>2, <1>5, <1>6, <1>7, <1>12, <2>1, <2>2
<1>14. ASSUME NEW s \in live PROVE Apart(r, s) /\ Apart(s, r)
  <2>1. PICK i \in DOMAIN chain : GivenOut(s, chain[i])
    BY <1>11
  <2>2. CASE i = 1
    BY <1>2, <1>5, <2>1, <2>2, ChainTypes DEF GivenOut, Apart
  <2>3. CASE i # 1
    <3>1. Apart(chain[i], b) /\ Apart(b, chain[i])
      BY <1>2, <2>3 DEF ArenaInv, Chain
    <3>2. /\ b.base <= r.base /\ r.base + r.size <= b.base + b.size
          /\ chain[i].base <= s.base /\ s.base + s.size <= chain[i].base + chain[i].size
      <4>1. c.bump <= b.base + b.size
        BY <1>3, <1>5, NoSumWraps
      <4> QED BY <1>2, <1>5, <1>12, <2>1, <4>1, ChainTypes DEF GivenOut
    <3> QED BY <1>2, <1>5, <3>1, <3>2, ChainTypes DEF Apart
  <2> QED BY <2>2, <2>3
<1>15. Regions'
  BY <1>5, <1>6, <1>13, <1>14 DEF ArenaInv, Regions
<1> QED BY <1>9, <1>15 DEF ArenaInv

\* A slab away from every block is apart from it.
LEMMA FreshIsApart ==
  ASSUME NothingWraps, ArenaInv, NEW base \in Nat, NEW size \in Nat \ {0},
         A!FreshBlock(base, size), NEW i \in DOMAIN chain
  PROVE  base + size <= chain[i].base \/ chain[i].base + chain[i].size <= base
<1> DEFINE b == chain[i].base
           n == chain[i].size
<1>1. b \in Nat /\ n \in Nat \ {0}
  BY ChainTypes
<1>2. base..(base + size - 1) \cap b..(b + n - 1) = {}
  BY DEF A!FreshBlock
<1> HIDE DEF b, n
<1>3. ~(base <= b /\ b < base + size)
  <2> SUFFICES ASSUME base <= b, b < base + size PROVE FALSE
    OBVIOUS
  <2>1. b \in base..(base + size - 1) /\ b \in b..(b + n - 1)
    BY <1>1
  <2> QED BY <1>2, <2>1
<1>4. ~(b <= base /\ base < b + n)
  <2> SUFFICES ASSUME b <= base, base < b + n PROVE FALSE
    OBVIOUS
  <2>1. base \in base..(base + size - 1) /\ base \in b..(b + n - 1)
    BY <1>1
  <2> QED BY <1>2, <2>1
<1>5. base + size <= b \/ b + n <= base
  BY <1>1, <1>3, <1>4
<1> QED BY <1>5 DEF b, n

LEMMA AllocBlockKeeps ==
  ASSUME NothingWraps, Linked, ArenaInv, NEW size \in Sizes, A!AllocBlock(size)
  PROVE  ArenaInv'
<1> DEFINE n == A!BlockSizeFor(size)
<1>1. PICK base \in Bases :
         /\ A!FreshBlock(base, n)
         /\ chain' = <<A!Advance(A!NewBlock(base, n), size)>> \o chain
         /\ live' = live \cup {A!Region(base, size)}
         /\ mallocs' = mallocs \cup {base}
         /\ UNCHANGED <<first, blockSize>> /\ chain # << >>
  BY DEF A!AllocBlock
<1>2. /\ Align \in Nat \ {0} /\ base \in Nat /\ base % Align = 0
      /\ {InitialSize, DefaultSize} \subseteq Nat
  BY MemoryAssumption DEF A!ArenaParameters
<1>3. A!AtLeastOne(size) \in Nat \ {0} /\ A!Wanted(size) \in Nat /\ A!AtLeastOne(size) <= A!Wanted(size)
  BY RoundedUp
<1>4. blockSize \in {InitialSize, DefaultSize} \ {0}
  BY <1>1 DEF Linked
<1>5. n \in BlockSizes \ {0} /\ n \in Nat \ {0} /\ A!Wanted(size) <= n
  BY <1>2, <1>3, <1>4 DEF A!BlockSizeFor, BlockSizes
<1> HIDE DEF n
<1> DEFINE b == A!NewBlock(base, n)
           c == A!Advance(b, size)
           r == A!Region(b.bump, size)
<1>6. b = [base |-> base, bump |-> base, size |-> n]
  BY DEF A!NewBlock
<1>7. b.base = base /\ b.bump = base /\ b.size = n
  BY <1>6
<1>8. chain' = <<c>> \o chain /\ live' = live \cup {r}
  BY <1>1, <1>7
<1>9. IsBlock(b)
  BY <1>2, <1>5, <1>6 DEF IsBlock, Block
<1> HIDE DEF b
<1>10. b.bump + A!Wanted(size) <= b.base + b.size
  BY <1>2, <1>3, <1>5, <1>7
<1>11. /\ IsBlock(c) /\ c \in Block /\ c.base = base /\ c.size = n /\ c.bump \in Nat
       /\ r \in [base : Nat, size : {A!AtLeastOne(k) : k \in Sizes}] /\ r.base % Align = 0
       /\ r.base = base /\ r.size \in Nat /\ r.base + r.size <= c.bump
  BY <1>7, <1>9, <1>10, NewRegion DEF IsBlock
<1> HIDE DEF c, r
<1>12. chain \in Seq(Block)
  BY DEF ArenaInv, Chain
<1>13. /\ chain' \in Seq(Block) /\ chain' # << >> /\ Len(chain) \in Nat
       /\ Len(chain') = Len(chain) + 1 /\ chain'[1] = c
       /\ DOMAIN chain' = 1..(Len(chain) + 1) /\ DOMAIN chain = 1..Len(chain)
       /\ \A i \in DOMAIN chain : chain'[i + 1] = chain[i]
  BY <1>8, <1>11, <1>12, Prepended
<1>14. \A i \in DOMAIN chain' : i = 1 \/ (i - 1 \in DOMAIN chain /\ chain'[i] = chain[i - 1])
  BY <1>13
<1>15. \A i \in DOMAIN chain : Apart(c, chain[i]) /\ Apart(chain[i], c)
  BY <1>1, <1>2, <1>5, <1>11, FreshIsApart DEF Apart
<1>16. Chain'
  <2>1. \A i \in DOMAIN chain' : IsBlock(chain'[i])
    BY <1>11, <1>13, <1>14 DEF ArenaInv, Chain
  <2>2. \A i, j \in DOMAIN chain' : i # j => Apart(chain'[i], chain'[j])
    BY <1>13, <1>14, <1>15 DEF ArenaInv, Chain
  <2> QED BY <1>13, <2>1, <2>2 DEF Chain
<1>18. ASSUME NEW s \in live
       PROVE  /\ Apart(r, s) /\ Apart(s, r) /\ s.base % Align = 0
              /\ \E i \in DOMAIN chain' : GivenOut(s, chain'[i])
  <2>1. PICK i \in DOMAIN chain : GivenOut(s, chain[i])
    BY DEF ArenaInv, Regions
  <2>2. i + 1 \in DOMAIN chain' /\ chain'[i + 1] = chain[i]
    BY <1>13
  <2>3. /\ chain[i].base <= s.base /\ s.base + s.size <= chain[i].base + chain[i].size
        /\ base <= r.base /\ r.base + r.size <= base + n
    <3>1. c.bump <= base + n
      BY <1>2, <1>11, NoSumWraps
    <3> QED BY <1>2, <1>5, <1>11, <2>1, <3>1, ChainTypes DEF GivenOut
  <2>4. Apart(r, s) /\ Apart(s, r)
    BY <1>2, <1>5, <1>11, <1>15, <2>3, ChainTypes DEF Apart
  <2> QED BY <2>1, <2>2, <2>4 DEF ArenaInv, Regions
<1>19. GivenOut(r, chain'[1]) /\ 1 \in DOMAIN chain'
  BY <1>2, <1>11, <1>13 DEF GivenOut
<1>20. Regions'
  BY <1>8, <1>11, <1>18, <1>19 DEF ArenaInv, Regions
<1> QED BY <1>16, <1>20 DEF ArenaInv

LEMMA ResetKeeps ==
  ASSUME NothingWraps, ArenaInv, A!Reset
  PROVE  ArenaInv'
<1>1. /\ chain # << >> /\ chain \in Seq(Block) /\ live' = {}
      /\ chain' = [i \in DOMAIN chain |-> [chain[i] EXCEPT !.bump = chain[i].base]]
      /\ UNCHANGED <<first, blockSize, mallocs>>
  BY DEF A!Reset, ArenaInv, Chain
<1>2. Len(chain) \in Nat /\ DOMAIN chain = 1..Len(chain) /\ Len(chain) \in DOMAIN chain
  BY <1>1, LenProperties, HeadChanged
<1>3. ASSUME NEW i \in DOMAIN chain
      PROVE  IsBlock(chain'[i]) /\ chain'[i] \in Block
             /\ chain'[i].base = chain[i].base /\ chain'[i].size = chain[i].size
  <2>1. /\ chain[i] \in Block /\ chain[i].base \in Bases
        /\ chain[i].base \in Nat /\ chain[i].size \in Nat \ {0} /\ chain[i].base % Align = 0
    BY ChainTypes, MemoryAssumption DEF Block, A!ArenaParameters
  <2>2. chain'[i] = [chain[i] EXCEPT !.bump = chain[i].base]
    BY <1>1
  <2>3. /\ chain'[i] \in Block /\ chain'[i].base = chain[i].base
        /\ chain'[i].bump = chain[i].base /\ chain'[i].size = chain[i].size
    BY <2>1, <2>2 DEF Block
  <2> QED BY <2>1, <2>3 DEF IsBlock
<1>4. DOMAIN chain' = DOMAIN chain
  BY <1>1
<1>5. chain' \in Seq(Block) /\ Len(chain') = Len(chain)
  <2>1. chain' \in [1..Len(chain) -> Block]
    BY <1>1, <1>2, <1>3, <1>4
  <2>2. chain' \in Seq(Block)
    BY <1>2, <2>1, SeqDef
  <2> QED BY <1>2, <1>4, <2>2, LenProperties
<1>7. Chain'
  BY <1>3, <1>4, <1>5 DEF ArenaInv, Chain, Apart
<1>9. Regions'
  BY <1>1 DEF Regions
<1> QED BY <1>7, <1>9 DEF ArenaInv

LEMMA FreeKeeps ==
  ASSUME ArenaInv, A!Free
  PROVE  ArenaInv'
<1>1. chain' = << >> /\ live' = {}
  BY DEF A!Free
<1>2. DOMAIN chain' = {} /\ chain' \in Seq(Block)
  BY <1>1
<1> QED BY <1>1, <1>2 DEF ArenaInv, Chain, Regions

LEMMA LinkedHolds == MemorySpec => []Linked
<1>1. MemoryInit => Linked
  <2> SUFFICES ASSUME MemoryInit PROVE Linked
    OBVIOUS
  <2>1. chain = << >> /\ DOMAIN chain = {} /\ chain \in Seq(Slab)
    BY EmptySeq DEF MemoryInit, A!Init
  <2> QED BY <2>1 DEF MemoryInit, A!Init, Linked
<1>2. Linked /\ [MemoryNext]_memoryVars => Linked'
  <2> SUFFICES ASSUME Linked, [MemoryNext]_memoryVars PROVE Linked'
    OBVIOUS
  <2>1. CASE ArenaStep
    BY <2>1, LinkedKept DEF ArenaStep
  <2>2. CASE UNCHANGED arenaVars
    BY <2>2 DEF arenaVars, Linked
  <2> QED BY <2>1, <2>2 DEF MemoryNext, memoryVars, RefCountStep, CollectorStep, ThreadContinues, ProgramStep
<1> QED BY <1>1, <1>2, PTL DEF MemorySpec

LEMMA ArenaInvHolds ==
  ASSUME NothingWraps
  PROVE  MemorySpec => []ArenaInv
<1>1. MemoryInit => ArenaInv
  BY InitArena DEF MemoryInit
<1>2. Linked /\ ArenaInv /\ [MemoryNext]_memoryVars => ArenaInv'
  <2> SUFFICES ASSUME Linked, ArenaInv, [MemoryNext]_memoryVars PROVE ArenaInv'
    OBVIOUS
  <2>1. CASE ArenaStep
    BY <2>1, NewKeeps, AllocKeeps, AllocBlockKeeps, ResetKeeps, FreeKeeps DEF ArenaStep, A!Next
  <2>2. CASE UNCHANGED arenaVars
    BY <2>2 DEF arenaVars, ArenaInv, Chain, Regions
  <2> QED BY <2>1, <2>2 DEF MemoryNext, memoryVars, RefCountStep, CollectorStep, ThreadContinues, ProgramStep
<1> QED BY <1>1, <1>2, LinkedHolds, PTL DEF MemorySpec

\* What ul_arena_alloc returns is the caller's alone, until the arena is reset or freed:
\* aligned, inside of one block, and disjoint from every region returned before.
THEOREM MemoryRegionsAreDisjoint ==
  ASSUME NothingWraps
  PROVE  MemorySpec => []RegionsAreDisjoint
<1>1. Linked /\ ArenaInv => RegionsAreDisjoint
  <2> SUFFICES ASSUME Linked, ArenaInv PROVE RegionsAreDisjoint
    OBVIOUS
  <2>1. /\ Word \in Nat /\ {InitialSize, DefaultSize} \cup Bases \subseteq 0..(Word - 1)
    BY MemoryAssumption DEF A!ArenaParameters
  <2>2. ASSUME NEW i \in DOMAIN chain
        PROVE  /\ chain[i].base \in Bases /\ chain[i].size \in 1..Word
               /\ chain[i].bump \in chain[i].base..(chain[i].base + chain[i].size)
    <3>1. /\ chain[i].base \in Bases /\ chain[i].size \in BlockSizes
          /\ chain[i].base \in Nat /\ chain[i].size \in Nat \ {0}
          /\ chain[i].bump \in chain[i].base..(chain[i].base + chain[i].size)
      BY ChainTypes DEF Block, IsBlock
    <3>2. ASSUME NEW size \in Sizes PROVE chain[i].size < Word
      BY <2>1, <3>1, RoundedUp DEF NothingWraps
    <3>3. chain[i].size < Word
      BY <2>1, <3>1, <3>2 DEF BlockSizes
    <3> QED BY <2>1, <3>1, <3>3
  <2>3. ASSUME NEW r \in live
        PROVE  /\ r.base \in 0..Word /\ r.base % Align = 0
               /\ \E i \in DOMAIN chain : A!Bytes(r) \subseteq A!Bytes(chain[i])
    <3>1. PICK i \in DOMAIN chain : GivenOut(r, chain[i])
      BY DEF ArenaInv, Regions
    <3>2. /\ chain[i].base <= r.base /\ r.base + r.size <= chain[i].base + chain[i].size
          /\ r.base \in Nat /\ r.size \in Nat \ {0}
          /\ chain[i].base \in Nat /\ chain[i].size \in Nat
      BY <3>1, ChainTypes DEF GivenOut
    <3>3. A!Bytes(r) \subseteq A!Bytes(chain[i])
      BY <3>2 DEF A!Bytes
    <3>4. PICK size \in Sizes : TRUE
      BY DEF ArenaInv, Regions
    <3>5. chain[i].base + chain[i].size < Word
      BY <2>1, <3>2, ChainTypes, RoundedUp DEF NothingWraps, Block
    <3>6. r.base \in 0..Word
      BY <2>1, <3>2, <3>5
    <3> QED BY <3>3, <3>6 DEF ArenaInv, Regions
  <2>4. A!TypeOK
    <3>1. first \in Bases \cup {0} /\ blockSize \in 0..(Word - 1) /\ mallocs \subseteq Bases
      <4>1. chain # << >> => Len(chain) \in DOMAIN chain
        BY HeadChanged DEF ArenaInv, Chain
      <4>2. 0 \in 0..(Word - 1)
        BY MemoryAssumption DEF A!ArenaParameters
      <4> QED BY <2>1, <2>2, <4>1, <4>2 DEF Linked
    <3>2. live \subseteq [base : 0..Word, size : {A!AtLeastOne(size) : size \in Sizes}]
      BY <2>3 DEF ArenaInv, Regions
    <3> QED BY <2>2, <3>1, <3>2 DEF A!TypeOK
  <2>5. A!RegionsAreDisjoint
    <3>1. ASSUME NEW r \in live, NEW s \in live, r # s PROVE A!Bytes(r) \cap A!Bytes(s) = {}
      <4>1. Apart(r, s) /\ r.base \in Nat /\ r.size \in Nat /\ s.base \in Nat /\ s.size \in Nat
        BY <3>1, ChainTypes DEF ArenaInv, Regions
      <4> QED BY <4>1 DEF Apart, A!Bytes
    <3> QED BY <2>3, <3>1 DEF A!RegionsAreDisjoint
  <2> QED BY <2>4, <2>5 DEF RegionsAreDisjoint
<1> QED BY <1>1, LinkedHolds, ArenaInvHolds, PTL

\* ul_arena_free finds every block by walking from the newest, whatever was allocated and
\* reset before, and first stays the last of them.  This holds for sizes that wrap as well.
THEOREM MemoryNothingLeaks == MemorySpec => []NothingLeaks
<1>1. Linked => NothingLeaks
  BY DEF Linked, NothingLeaks, A!NothingLeaks
<1> QED BY <1>1, LinkedHolds, PTL

-----------------------------------------------------------------------------
(* The composition runs each runtime as it is specified: a step of another  *)
(* mode leaves its state alone.                                             *)

\* A step of the program is a step of the runtime of its mode and of no other, so each
\* runtime behaves as in its own module, whichever mode is chosen: ul_memory.h defines one
\* set of macros.
LEMMA MemoryRunsOneRuntime == MemorySpec => Spec /\ A!Spec /\ G!Spec
<1>1. MemoryInit => Init /\ A!Init /\ G!Init
  BY DEF MemoryInit
<1>2. [MemoryNext]_memoryVars => [Next]_vars
  BY DEF MemoryNext, memoryVars, RefCountStep, ArenaStep, CollectorStep, ThreadContinues, ProgramStep
<1>3. [MemoryNext]_memoryVars => [A!Next]_(A!vars)
  BY DEF MemoryNext, memoryVars, RefCountStep, ArenaStep, CollectorStep, ThreadContinues,
         ProgramStep, arenaVars, A!vars
<1>4. [MemoryNext]_memoryVars => [G!Next]_(G!vars)
  BY DEF MemoryNext, memoryVars, RefCountStep, ArenaStep, CollectorStep, ThreadContinues,
         ProgramStep, gcVars, G!vars, G!heapVars, G!flagVars, G!Next
<1> QED BY <1>1, <1>2, <1>3, <1>4, PTL DEF MemorySpec, Spec, A!Spec, G!Spec

\* In a program of any mode, no reference dangles, no object is destroyed twice and every
\* count is exact: ul_retain and ul_release keep this in their mode, and no other mode
\* touches a header.
THEOREM MemoryReferencesAreSound ==
  MemorySpec => [](DataLiveWhileStrong /\ NoDanglingHeader /\ OneDestroyer /\ CountsExact)
BY MemoryRunsOneRuntime, NoUseAfterDestroy, NoUseAfterFree, DestroyedOnce, CountsCorrect, PTL

\* In a program of any mode the counted objects live as ObjectLifetime says: the counts
\* of ul_retain and ul_release implement the sets of owners and watchers.
THEOREM MemoryImplementsLifetime == MemorySpec => ImplementsLifetime
BY MemoryRunsOneRuntime, Refinement, PTL
=============================================================================
