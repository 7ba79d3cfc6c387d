--------------------------- MODULE ObjectLifetime ---------------------------
(***************************************************************************)
(* What "memory: refcount" promises a program, with no counts and no calls *)
(* in progress: each object has a set of owners and a set of watchers, it  *)
(* lives exactly while it has an owner, is destroyed once, and its block   *)
(* is reclaimed only when neither owners nor watchers are left.            *)
(***************************************************************************)
CONSTANTS Object, Ref

VARIABLES phase, owners, watchers

lifeVars == <<phase, owners, watchers>>

LifeInit ==
    /\ phase = [o \in Object |-> "free"]
    /\ owners = [o \in Object |-> {}]
    /\ watchers = [o \in Object |-> {}]

\* A free block becomes a live object with one owner.
Create(o, r) ==
    /\ phase[o] = "free" /\ owners[o] = {} /\ watchers[o] = {}
    /\ phase' = [phase EXCEPT ![o] = "live"]
    /\ owners' = [owners EXCEPT ![o] = {r}]
    /\ UNCHANGED watchers

\* A live object gains an owner: a copy of a strong reference, or a weak one
\* promoted.  A dying object never does.
Own(o, r) ==
    /\ phase[o] = "live" /\ owners[o] # {} /\ r \notin owners[o]
    /\ owners' = [owners EXCEPT ![o] = @ \cup {r}]
    /\ UNCHANGED <<phase, watchers>>

\* An owner lets go; the last one takes the object from life to dying.
Disown(o, r) ==
    /\ phase[o] = "live" /\ r \in owners[o]
    /\ owners' = [owners EXCEPT ![o] = @ \ {r}]
    /\ phase' = [phase EXCEPT ![o] = IF owners[o] = {r} THEN "dying" ELSE "live"]
    /\ UNCHANGED watchers

\* The data of a dying object is destroyed.
Destroy(o) ==
    /\ phase[o] = "dying" /\ owners[o] = {}
    /\ phase' = [phase EXCEPT ![o] = "dead"]
    /\ UNCHANGED <<owners, watchers>>

Watch(o, r) ==
    /\ phase[o] # "free" /\ r \notin watchers[o]
    /\ watchers' = [watchers EXCEPT ![o] = @ \cup {r}]
    /\ UNCHANGED <<phase, owners>>

Unwatch(o, r) ==
    /\ phase[o] # "free" /\ r \in watchers[o]
    /\ watchers' = [watchers EXCEPT ![o] = @ \ {r}]
    /\ UNCHANGED <<phase, owners>>

\* The block of a dead object returns to the heap.
Reclaim(o) ==
    /\ phase[o] = "dead" /\ owners[o] = {} /\ watchers[o] = {}
    /\ phase' = [phase EXCEPT ![o] = "free"]
    /\ UNCHANGED <<owners, watchers>>

LifeNext ==
    \E o \in Object :
        \/ Destroy(o) \/ Reclaim(o)
        \/ \E r \in Ref :
              Create(o, r) \/ Own(o, r) \/ Disown(o, r) \/ Watch(o, r) \/ Unwatch(o, r)

LifeSpec == LifeInit /\ [][LifeNext]_lifeVars
=============================================================================
