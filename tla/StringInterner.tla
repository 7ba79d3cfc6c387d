--------------------------- MODULE StringInterner ---------------------------
(* What arena_intern of the C syntax tree promises: a string has one id, for *)
(* good, and no two strings share one.  A call may fail, and returns Null.   *)
EXTENDS Naturals

CONSTANTS Str, Null

VARIABLES
    ids,        \* ids[s]: the id of s, Null before it is interned
    answer      \* the last call: the string and what was returned

internerVars == <<ids, answer>>

InternerInit ==
    /\ ids = [s \in Str |-> Null]
    /\ answer = [str |-> Null, id |-> Null]

Old(s) == ids[s] # Null /\ answer' = [str |-> s, id |-> ids[s]] /\ UNCHANGED ids

New(s) ==
    /\ ids[s] = Null
    /\ answer'.id \in Nat /\ \A other \in Str : ids[other] # answer'.id
    /\ answer' = [str |-> s, id |-> answer'.id]
    /\ ids' = [ids EXCEPT ![s] = answer'.id]

Fails(s) == answer' = [str |-> s, id |-> Null] /\ UNCHANGED ids

InternerNext == \E s \in Str : Old(s) \/ New(s) \/ Fails(s)

InternerSpec == InternerInit /\ [][InternerNext]_internerVars
=============================================================================
