--------------------------- MODULE MCOrchestrator ---------------------------
(* A small task list for Orchestrator. *)
EXTENDS Orchestrator, TLC

CONSTANT Titles  \* of the tasks the human may add

Task(title, forHuman, priority) == [title |-> title, human |-> forHuman, priority |-> priority]

\* An ordinary task, a more urgent one, and a decision for the human.
ThreeTasks == <<Task("a", FALSE, 2), Task("b", FALSE, 1), Task("d", TRUE, 1)>>
OneTask == <<Task("a", FALSE, 2)>>
TwoDecisions == {Task(t, TRUE, 3) : t \in Titles}

SymmetricWorkers == Permutations(Worker)
Symmetric == SymmetricWorkers \cup Permutations(Titles)
=============================================================================
