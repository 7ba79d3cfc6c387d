-------------------------------- MODULE Arena --------------------------------
(***************************************************************************)
(* The arena of the "memory: arena" mode (Compiler/Runtime/ul_arena.c): a  *)
(* chain of blocks, newest first, of which only the newest is allocated    *)
(* from.  Addresses and sizes are size_t: they wrap at Word.               *)
(***************************************************************************)
EXTENDS Naturals, Sequences, FiniteSets

CONSTANTS
    Word,           \* 2^width of size_t
    Align,          \* UL_ARENA_ALIGN
    InitialSize,    \* the argument of ul_arena_new
    DefaultSize,    \* UL_ARENA_DEFAULT_BLOCK_SIZE
    Sizes,          \* sizes a program asks for
    Bases,          \* addresses mi_malloc may return for a block
    BlockMax        \* bound: blocks in the chain

\* What the constants are.
ArenaParameters ==
    /\ Align \in Nat \ {0} /\ Word \in Nat /\ Word % Align = 0
    /\ {InitialSize, DefaultSize} \cup Sizes \cup Bases \subseteq 0..(Word - 1)
    /\ DefaultSize > 0 /\ 0 \notin Bases
    /\ \A base \in Bases : base % Align = 0
    /\ BlockMax \in Nat

VARIABLES
    chain,      \* blocks from arena->current along next; << >> without an arena
    first,      \* arena->first: the base of its block
    blockSize,  \* arena->default_block_size
    mallocs,    \* bases of the blocks mi_malloc handed out and has not got back
    live        \* regions returned since the last reset

vars == <<chain, first, blockSize, mallocs, live>>

Current == Head(chain)

\* What a pointer refers to, as the addresses it may use.
Bytes(r) == r.base..(r.base + r.size - 1)

Init ==
    /\ chain = << >> /\ first = 0 /\ blockSize = 0
    /\ mallocs = {} /\ live = {}

\* ALIGN_UP, in size_t.
AlignUp(n) == (((n + Align - 1) % Word) \div Align) * Align

\* A zero-size request is one byte.
AtLeastOne(size) == IF size = 0 THEN 1 ELSE size
Wanted(size) == AlignUp(AtLeastOne(size))

\* What the caller of ul_arena_alloc may use.
Region(base, size) == [base |-> base, size |-> AtLeastOne(size)]

\* ul_arena_new_block: a slab away from every other one.
FreshBlock(base, size) ==
    /\ base + size <= Word
    /\ \A i \in DOMAIN chain : base..(base + size - 1) \cap
                               chain[i].base..(chain[i].base + chain[i].size - 1) = {}

NewBlock(base, size) == [base |-> base, bump |-> base, size |-> size]

\* ul_arena_new
New ==
    /\ chain = << >>
    /\ \E base \in Bases, size \in {IF InitialSize = 0 THEN DefaultSize ELSE InitialSize} :
          /\ FreshBlock(base, size)
          /\ chain' = <<NewBlock(base, size)>>
          /\ first' = base
          /\ blockSize' = size
          /\ mallocs' = {base}
    /\ UNCHANGED live

\* Mutant: the bound is off.
RoomPastEnd(size) ==
    (Current.bump + Wanted(size)) % Word <= Current.base + Current.size + Align

\* bump + aligned <= end
Room(size) == (Current.bump + Wanted(size)) % Word <= Current.base + Current.size

\* bump += aligned
Advance(block, size) == [block EXCEPT !.bump = (@ + Wanted(size)) % Word]

\* ul_arena_alloc in the current block...
Alloc(size) ==
    /\ chain # << >> /\ Room(size)
    /\ live' = live \cup {Region(Current.bump, size)}
    /\ chain' = <<Advance(Current, size)>> \o Tail(chain)
    /\ UNCHANGED <<first, blockSize, mallocs>>

\* Mutant: the new block has the default size, whatever is asked for.
BlockSizeFixed(size) == blockSize

\* UL_MAX(default_block_size, aligned)
BlockSizeFor(size) == IF blockSize > Wanted(size) THEN blockSize ELSE Wanted(size)

\* ... and in a new one, which is prepended to the chain.
AllocBlock(size) ==
    /\ chain # << >> /\ ~Room(size) /\ Len(chain) < BlockMax
    /\ \E base \in Bases :
          /\ FreshBlock(base, BlockSizeFor(size))
          /\ chain' = <<Advance(NewBlock(base, BlockSizeFor(size)), size)>> \o chain
          /\ live' = live \cup {Region(base, size)}
          /\ mallocs' = mallocs \cup {base}
    /\ UNCHANGED <<first, blockSize>>

\* ul_arena_reset rewinds every block; current stays the newest.
Reset ==
    /\ chain # << >>
    /\ chain' = [i \in DOMAIN chain |-> [chain[i] EXCEPT !.bump = chain[i].base]]
    /\ live' = {}
    /\ UNCHANGED <<first, blockSize, mallocs>>

\* Mutant: the walk starts at first, which has no next.
FreeFromFirst ==
    /\ chain # << >>
    /\ mallocs' = mallocs \ {first}
    /\ chain' = << >> /\ first' = 0 /\ blockSize' = 0
    /\ live' = {}

\* ul_arena_free returns every block and clears the header.
Free ==
    /\ chain # << >>
    /\ mallocs' = mallocs \ {chain[i].base : i \in DOMAIN chain}
    /\ chain' = << >> /\ first' = 0 /\ blockSize' = 0
    /\ live' = {}

Next == New \/ Reset \/ Free \/ \E size \in Sizes : Alloc(size) \/ AllocBlock(size)

Spec == Init /\ [][Next]_vars

-----------------------------------------------------------------------------
TypeOK ==
    /\ \A i \in DOMAIN chain :
          /\ chain[i].base \in Bases /\ chain[i].size \in 1..Word
          /\ chain[i].bump \in chain[i].base..(chain[i].base + chain[i].size)
    /\ first \in Bases \cup {0} /\ blockSize \in 0..(Word - 1)
    /\ mallocs \subseteq Bases
    /\ live \subseteq [base : 0..Word, size : {AtLeastOne(size) : size \in Sizes}]

\* The memory returned for a request is the caller's alone: aligned, inside a
\* block, and disjoint from what was returned before ("Allocates `size` bytes").
RegionsAreDisjoint ==
    /\ \A r \in live : /\ r.base % Align = 0
                       /\ \E i \in DOMAIN chain : Bytes(r) \subseteq Bytes(chain[i])
    /\ \A r, s \in live : r # s => Bytes(r) \cap Bytes(s) = {}

\* Every block is reachable from the arena, so that none leaks, and none once the
\* arena is freed; first is the oldest.
NothingLeaks ==
    /\ mallocs = {chain[i].base : i \in DOMAIN chain}
    /\ chain # << >> => first = chain[Len(chain)].base
=============================================================================
