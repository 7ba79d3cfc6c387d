-------------------------------- MODULE Fifo --------------------------------
(***************************************************************************)
(* What the collector needs of its gray queue: objects come out in the     *)
(* order they went in, each once.  GC uses the queue at this level.        *)
(***************************************************************************)
EXTENDS Sequences

CONSTANT Object

VARIABLES queue, out

fifoVars == <<queue, out>>

FifoInit == queue = << >> /\ out \notin Object

Enqueue(o) == queue' = Append(queue, o) /\ UNCHANGED out
Dequeue    == queue # << >> /\ out' = Head(queue) /\ queue' = Tail(queue)

FifoNext == Dequeue \/ \E o \in Object : Enqueue(o)

FifoSpec == FifoInit /\ [][FifoNext]_fifoVars
=============================================================================
