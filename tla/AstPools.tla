------------------------------ MODULE AstPools ------------------------------
(***************************************************************************)
(* The node and child pools of the C syntax tree arena (ast_arena.c).      *)
(* Nodes and their spans are two arrays that grow together; the children   *)
(* of every node are runs of one packed array.  An array is known by the   *)
(* number of the allocation that made it.                                  *)
(***************************************************************************)
EXTENDS Naturals, Sequences, FiniteSets

CONSTANTS
    InitNodes, InitChildren,    \* UL_INIT_NODES and UL_INIT_CHILDREN
    MaxCount,                   \* the largest count of UL_Children, 16 bits wide
    MaxNodes, MaxLists,         \* bounds: nodes allocated, lists made
    MaxLength                   \* bound: the length of a list

ASSUME PoolsAssumption ==
    /\ {InitNodes, InitChildren, MaxCount, MaxNodes, MaxLists, MaxLength} \subseteq Nat \ {0}

VARIABLES
    nodeCount, nodeCap, spanCap,
    nodes, spans, childPool,    \* the allocations that a->nodes, ... point to
    pool, childCount,           \* the contents of the child pool: its domain is the capacity
    live, made,                 \* the allocations not freed, and how many were made
    lists,                      \* every list the callers hold, and what they put in it
    destroyed,
    halfGrown,                  \* history: one of the arrays of nodes moved and the other did not
    spoiled                     \* history: how many slots failed commits overwrote, from 0 on

nodeVars == <<nodeCount, nodeCap, spanCap, nodes, spans>>
childVars == <<childPool, pool, childCount, lists>>
heapVars == <<live, made>>
history == <<halfGrown, spoiled>>
poolVars == <<nodeVars, childVars, heapVars, destroyed, history>>

NullNode == 0
Zeros(n) == [i \in 0..(n - 1) |-> NullNode]

PoolsInit ==
    /\ nodeCount = 1 /\ nodeCap = InitNodes /\ spanCap = InitNodes
    /\ nodes = 1 /\ spans = 2 /\ childPool = 3
    /\ live = 1..3 /\ made = 3
    /\ pool = Zeros(InitChildren) /\ childCount = 0
    /\ lists = <<>>
    /\ destroyed = FALSE /\ halfGrown = FALSE /\ spoiled = 0

-----------------------------------------------------------------------------

NodesFull == nodeCount >= nodeCap

\* arena_alloc_node, with room.
AllocNode ==
    /\ ~destroyed /\ nodeCount < MaxNodes /\ ~NodesFull
    /\ nodeCount' = nodeCount + 1
    /\ UNCHANGED <<nodeCap, spanCap, nodes, spans, childVars, heapVars, destroyed, history>>

\* arena_alloc_node grows both arrays.
GrowNodes ==
    /\ ~destroyed /\ nodeCount < MaxNodes /\ NodesFull
    /\ {nodes, spans} \subseteq live   \* else realloc is undefined
    /\ nodes' = made + 1 /\ spans' = made + 2 /\ made' = made + 2
    /\ live' = (live \ {nodes, spans}) \cup {made + 1, made + 2}
    /\ nodeCap' = 2 * nodeCap /\ spanCap' = 2 * nodeCap
    /\ nodeCount' = nodeCount + 1
    /\ UNCHANGED <<childVars, destroyed, history>>

\* arena_alloc_node: the first realloc, the second or both fail, and what the
\* other returned is forgotten.
GrowNodesFails ==
    /\ ~destroyed /\ nodeCount < MaxNodes /\ NodesFull
    /\ \/ UNCHANGED <<heapVars, halfGrown>>
       \/ \E array \in {nodes, spans} :
            /\ {nodes, spans} \subseteq live
            /\ live' = (live \ {array}) \cup {made + 1} /\ made' = made + 1
            /\ halfGrown' = TRUE
    /\ UNCHANGED <<nodeVars, childVars, destroyed, spoiled>>

-----------------------------------------------------------------------------
Capacity == Cardinality(DOMAIN pool)

\* Mutant: the pool is doubled whatever is needed.
NewCapacityDoubled(need) == 2 * Capacity

NewCapacity(need) == IF 2 * Capacity < need THEN 2 * need ELSE 2 * Capacity

Fits(n) == childCount + n <= Capacity

\* p with the values of the sequence s from index start on, as far as p reaches.
Written(p, start, s) ==
    [i \in DOMAIN p |-> IF i \in start..(start + Len(s) - 1) THEN s[i - start + 1] ELSE p[i]]

\* The caller gets a list of n slots at start, and has put s in it.
Hand(start, n, s) == lists' = Append(lists, [start |-> start, count |-> n, given |-> s])

Short(n) == IF n > MaxCount THEN MaxCount ELSE n

\* arena_alloc_children, then the copy of s into the slots it returned.
Commit(s, n) ==
    /\ ~destroyed /\ Len(lists) < MaxLists
    /\ \/ /\ Len(s) = 0
          /\ Hand(0, 0, s)
          /\ UNCHANGED <<childPool, pool, childCount, heapVars>>
       \/ /\ Len(s) > 0 /\ Fits(Len(s))
          /\ pool' = Written(pool, childCount, s)
          /\ childCount' = childCount + Len(s)
          /\ Hand(childCount, n, s)
          /\ UNCHANGED <<childPool, heapVars>>
       \/ /\ ~Fits(Len(s))
          /\ childPool' = made + 1 /\ made' = made + 1
          /\ live' = (live \ {childPool}) \cup {made + 1}
          /\ pool' = Written([i \in 0..(NewCapacity(childCount + Len(s)) - 1) |->
                                 IF i < Capacity THEN pool[i] ELSE NullNode], childCount, s)
          /\ childCount' = childCount + Len(s)
          /\ Hand(childCount, n, s)
    /\ UNCHANGED <<nodeVars, destroyed, history>>

\* arena_commit_children: the count it returns is 16 bits wide.
CommitChildren == \E n \in 0..MaxLength : \E s \in [1..n -> 1..(nodeCount - 1)] :
    Commit(s, Short(n))

\* Of the first n slots, those that are in use.
InUse(n) == IF n < childCount THEN n ELSE childCount

\* realloc fails: arena_alloc_children returns 0, which is a list's index too, and
\* the copy goes there.  Past the end of the pool that is undefined, and left out.
CommitChildrenFails == \E n \in 1..MaxLength : \E s \in [1..n -> 1..(nodeCount - 1)] :
    /\ ~destroyed /\ Len(lists) < MaxLists
    /\ ~Fits(n) /\ n <= Capacity
    /\ pool' = Written(pool, 0, s)
    /\ Hand(0, Short(n), s)
    /\ spoiled' = IF InUse(n) > spoiled THEN InUse(n) ELSE spoiled
    /\ UNCHANGED <<nodeVars, childPool, childCount, heapVars, destroyed, halfGrown>>

\* arena_alloc_children, whose slots are zero.
AllocChildren == \E n \in 1..MaxLength : Commit([i \in 1..n |-> NullNode], n)

\* arena_push_child into a list that arena_alloc_children returned.
PushChild == \E l \in 1..Len(lists), child \in 1..(nodeCount - 1) :
    \E i \in 1..lists[l].count :
        /\ ~destroyed
        /\ lists[l].given[i] = NullNode /\ lists[l].start + i - 1 < childCount
        /\ pool' = [pool EXCEPT ![lists[l].start + i - 1] = child]
        /\ lists' = [lists EXCEPT ![l].given[i] = child]
        /\ UNCHANGED <<nodeVars, childPool, childCount, heapVars, destroyed, history>>

\* Mutant: the spans are left.
DestroyNodes ==
    /\ ~destroyed /\ destroyed' = TRUE
    /\ live' = live \ {nodes, childPool}
    /\ UNCHANGED <<nodeVars, childVars, made, history>>

\* arena_destroy.
Destroy ==
    /\ ~destroyed /\ destroyed' = TRUE
    /\ live' = live \ {nodes, spans, childPool}
    /\ UNCHANGED <<nodeVars, childVars, made, history>>

PoolsNext == AllocNode \/ GrowNodes \/ GrowNodesFails
            \/ CommitChildren \/ CommitChildrenFails \/ AllocChildren \/ PushChild \/ Destroy

PoolsSpec == PoolsInit /\ [][PoolsNext]_poolVars

-----------------------------------------------------------------------------
\* The counts stay within the arrays, and the spans beside the nodes.
PoolsTypeOK ==
    /\ nodeCount \in 1..MaxNodes /\ nodeCount <= nodeCap /\ spanCap = nodeCap
    /\ childCount \in 0..Capacity
    /\ pool \in [0..(Capacity - 1) -> 0..(MaxNodes - 1)]
    /\ made \in Nat /\ live \subseteq 1..made
    /\ {nodes, spans, childPool} \subseteq 1..made
    /\ destroyed \in BOOLEAN /\ halfGrown \in BOOLEAN /\ spoiled \in 0..childCount

\* The children that UL_CHILDREN_FOREACH goes through.
Children(l) == {l.start + i - 1 : i \in 1..l.count}
ReadBack(l) == [i \in 1..l.count |-> pool[l.start + i - 1]]

\* Every child list reads back as it was built, as far as its count goes, whatever was
\* allocated, committed or grown since and whatever became of the nodes (ast_arena.h:
\* arena_commit_children copies "a local NodeId buffer into the child pool").  The count
\* is that of the list unless it was cut to MaxCount.  A commit for which the pool cannot
\* grow overwrites the lists that begin in the slots it is copied to, and no other.
ListsReadBack == \A l \in {lists[i] : i \in 1..Len(lists)} : l.start >= spoiled =>
    /\ Children(l) \subseteq DOMAIN pool /\ ReadBack(l) = SubSeq(l.given, 1, l.count)
    /\ l.count = Len(l.given) \/ (l.count = MaxCount /\ MaxCount < Len(l.given))

\* The arena frees "all backing arrays" (ast_arena.h, arena_destroy): no array is lost,
\* and none it still points to was freed before, as long as the two arrays of nodes moved
\* together, or neither did, and whatever became of the children.
DestroyFreesEverything == ~halfGrown =>
    /\ destroyed => live = {}
    /\ ~destroyed => {nodes, spans, childPool} = live
PoolsAreSound == PoolsTypeOK /\ DestroyFreesEverything
=============================================================================
