----------------------------- MODULE InternTable -----------------------------
(***************************************************************************)
(* arena_intern of the C syntax tree (ast_arena.c): an open-addressing     *)
(* hash table with linear probing that doubles at three quarters full, and *)
(* a buffer of null-terminated strings, in which the offset of a string is *)
(* its id.  realloc and calloc may fail.                                   *)
(***************************************************************************)
EXTENDS Naturals, FiniteSets

CONSTANTS
    Str, Null,
    Hash,           \* fnv1a, as a function of the string
    Length,
    InitSlots,      \* UL_INIT_STRTBL
    InitBytes,      \* UL_INIT_STRBUF
    MayFail         \* may calloc and realloc fail?

ASSUME InternAssumption ==
    /\ Null \notin Str /\ Null \notin Nat
    /\ Hash \in [Str -> Nat] /\ Length \in [Str -> Nat]
    \* fnv1a of the empty string is 2166136261: an entry that is all zero is
    \* no string's.
    /\ \A s \in Str : Length[s] = 0 => Hash[s] # 0
    /\ InitSlots \in Nat \ {0} /\ InitSlots % 4 = 0 /\ InitBytes \in Nat \ {0}
    /\ MayFail \in BOOLEAN

VARIABLES
    table,      \* str_table: what each of its str_table_cap slots holds
    size,       \* str_table_cap
    count,      \* str_table_count
    len, cap,   \* str_len and str_cap
    answer      \* the last call: the string and the id it returned

bufferVars == <<len, cap>>
vars == <<table, size, count, bufferVars, answer>>

Free == [str |-> Null, offset |-> 0]
Entry(s, offset) == [str |-> s, offset |-> offset]

Init ==
    /\ size = InitSlots
    /\ table = [i \in 0..(InitSlots - 1) |-> Free]
    /\ count = 0
    /\ len = 1 /\ cap = InitBytes
    /\ answer = [str |-> Null, id |-> Null]

-----------------------------------------------------------------------------
\* Mutant: two strings are the same if their hashes are.
SameHash(e, s) == e.str # Null /\ Hash[e.str] = Hash[s]

\* The hash, the length and the bytes are compared.
Same(e, s) == e.str = s

Stops(e, s) == e.str = Null \/ Same(e, s)

\* The first slot at or after the hash, modulo the n slots of t, that stops a
\* probe.  A probe that none stops does not end.
Slot(s, k, n) == (Hash[s] + k) % n

\* str_table_find: an empty slot, or the one that holds s.
Probe(t, n, s) ==
    Slot(s, CHOOSE k \in 0..(n - 1) :
                /\ Stops(t[Slot(s, k, n)], s)
                /\ \A j \in 0..(k - 1) : ~Stops(t[Slot(s, j, n)], s), n)

\* Mutant: the hash is not looked at.
SkippedByLength(e) == e.str = Null \/ Length[e.str] = 0

\* The test by which str_table_grow skips an entry: its length and hash are 0.
Skipped(e) == e.str = Null \/ (Length[e.str] = 0 /\ Hash[e.str] = 0)

\* Mutant: the entries stay in the slots they had.
RehashCopy(n) == [i \in 0..(n - 1) |-> IF i < size THEN table[i] ELSE Free]

\* One round of str_table_grow: table t of n slots with entry e.
Move(t, n, e) == IF Skipped(e) THEN t ELSE [t EXCEPT ![Probe(t, n, e.str)] = e]

\* str_table_grow: the old entries, in the order of their slots, into n new ones.
Rehash(n) ==
    LET Moved[k \in 0..size] == IF k = 0 THEN [i \in 0..(n - 1) |-> Free]
                                        ELSE Move(Moved[k - 1], n, table[k - 1])
    IN  Moved[size]

\* Mutant: the table grows only when it is full.
CrowdedWhenFull == count > size

\* Load above three quarters.
Crowded == count * 4 >= size * 3

Answer(s, id) == answer' = [str |-> s, id |-> id]

\* The capacities that doubling goes through, and the first that holds n bytes.
Capacities(n) ==
    LET Doubling[k \in 0..n] == IF k = 0 THEN cap ELSE 2 * Doubling[k - 1]
    IN  {Doubling[k] : k \in 0..n}
Doubled(n) == CHOOSE c \in Capacities(n) : n <= c /\ \A d \in Capacities(n) : n <= d => c <= d

Needed(s) == len + Length[s] + 1

\* Look s up in table t of n slots, and insert it if it is new.
Lookup(s, t, n) ==
    LET slot == Probe(t, n, s) IN
    /\ size' = n
    /\ \/ /\ Same(t[slot], s)
          /\ Answer(s, t[slot].offset)
          /\ table' = t /\ UNCHANGED <<count, bufferVars>>
       \/ /\ t[slot].str = Null
          /\ table' = [t EXCEPT ![slot] = Entry(s, len)]
          /\ count' = count + 1
          /\ cap' = Doubled(Needed(s))
          /\ len' = Needed(s)
          /\ Answer(s, len)
       \* A realloc of the buffer fails, after none or some that did not.
       \/ /\ MayFail /\ t[slot].str = Null
          /\ \E c \in Capacities(Needed(s)) : c < Needed(s) /\ cap' = c
          /\ Answer(s, Null)
          /\ table' = t /\ UNCHANGED <<count, len>>

\* arena_intern: grow first, then look up.
Intern(s) ==
    \/ ~Crowded /\ Lookup(s, table, size)
    \/ Crowded /\ \E t \in {Rehash(2 * size)} : Lookup(s, t, 2 * size)

\* The table cannot grow.
InternFails(s) ==
    /\ MayFail /\ Crowded
    /\ Answer(s, Null)
    /\ UNCHANGED <<table, size, count, bufferVars>>

Next == \E s \in Str : Intern(s) \/ InternFails(s)

Spec == Init /\ [][Next]_vars

-----------------------------------------------------------------------------
TypeOK ==
    /\ size \in Nat /\ count \in 0..size
    /\ table \in [0..(size - 1) -> {Free} \cup {Entry(s, i) : s \in Str, i \in 1..(len - 1)}]
    /\ len \in Nat /\ cap \in Nat /\ len <= cap
    /\ answer \in [str : Str \cup {Null}, id : 0..(len - 1) \cup {Null}]

Holds(i, s) == table[i].str = s
Interned == {s \in Str : \E i \in DOMAIN table : Holds(i, s)}

\* A probe always meets an empty slot in the end: str_table_find has no other bound.
ProbesEnd == \E i \in DOMAIN table : table[i] = Free

\* Every call of str_table_find returns, through every growth; for a string that was
\* interned it returns its slot: the probe meets no empty one on the way.
InternedIsReachable == ProbesEnd /\ \A s \in Interned : Holds(Probe(table, size, s), s)

\* The count that decides about growth is that of the taken slots, whatever was moved or
\* failed on the way.
CountIsExact == count = Cardinality({i \in DOMAIN table : table[i] # Free})
TableIsConsistent == TypeOK /\ CountIsExact

\* An id is one string's for good, whatever grows and whatever fails.
Interner == INSTANCE StringInterner
    WITH ids <- [s \in Str |-> IF s \in Interned
                               THEN table[CHOOSE i \in DOMAIN table : Holds(i, s)].offset
                               ELSE Null]
ImplementsInterner == Interner!InternerSpec
=============================================================================
