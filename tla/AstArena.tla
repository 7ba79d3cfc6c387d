------------------------------ MODULE AstArena ------------------------------
(***************************************************************************)
(* The whole arena of the C syntax tree (UL_Arena of ast_arena.h): the     *)
(* table of strings and the pools of nodes and children.  They are fields  *)
(* of one structure but share no variable, so that an operation of one     *)
(* says nothing of the other: a behaviour works on the strings or on the   *)
(* pools.                                                                  *)
(***************************************************************************)
EXTENDS InternTable, AstPools

VARIABLE part

arenaVars == <<vars, poolVars, part>>

ArenaInit == Init /\ PoolsInit /\ part \in {"strings", "pools"}

StringStep == part = "strings" /\ Next /\ UNCHANGED <<poolVars, part>>
PoolStep == part = "pools" /\ PoolsNext /\ UNCHANGED <<vars, part>>

ArenaSpec == ArenaInit /\ [][StringStep \/ PoolStep]_arenaVars
=============================================================================
