------------------------- MODULE OrchestratorProof -------------------------
(***************************************************************************)
(* Proofs about Orchestrator, for any number of workers, tasks, calls in   *)
(* flight, failing saves and kills: what the server hands out is one       *)
(* worker's, and what it acknowledged is remembered.                       *)
(*                                                                         *)
(* None of the checked invariants is inductive.  Whether a worker's report *)
(* may still arrive, or an answer is still to be read, decides what the    *)
(* tasks must say, so KInv follows a task from get_next_task through the   *)
(* call to the worker's hand and back (Holds), and relates three copies of *)
(* what is known: memory, the file and the human's list of blockers.  The  *)
(* last is where it can go wrong.  A task that was added but not saved,    *)
(* because the save raised, is on her list, a restart forgets it, and its  *)
(* id names the next task that is added: resolving the old entry makes the *)
(* new task pending while a worker is at work on it.  This, IdGivenAgain,  *)
(* is the only way: in every behaviour without it the invariants hold,     *)
(* with any faults and tasks.  The last three theorems add when it cannot  *)
(* come about: StaleIdsAreHarmless.  That an id which was saved keeps its  *)
(* task needs no such assumption (TInv and NInv).                          *)
(***************************************************************************)
EXTENDS Orchestrator, FiniteSetTheorems, SequenceTheorems, TLAPS

\* Where the server is in the middle of a request, or of the save at start-up.
Busying == {"truncate", "write", "respond"}
Value == Ids \cup {None, "ok", "not found"}
Op == {"next", "done", "blocked", "resolve", "add", "tests", None}

\* What a restart would load.
Disk == IF file = Absent THEN InitialTasks ELSE file

\* Tasks are numbered by their place.
TaskList(ts) == ts \in Seq(Record) /\ \A i \in DOMAIN ts : ts[i].id = i

\* The types of the records.
ServerState ==
    [at : {"down", "idle"} \cup Busying, client : Client \cup {Nobody}, value : Value, saves : 0..2]
CallState ==
    [kind : {"none", "request", "served", "answer", "dropped"}, op : Op,
     arg : Ids \cup Extra \cup {None}, value : Value]
WorkerState ==
    [at : {"idle", "asking", "working", "finishing", "escalating", "stopped", "dead"},
     task : Ids \cup {None}]
HumanState ==
    [blockers : SUBSET Ids, toAdd : SUBSET Extra, notes : 0..NoteMax, resolves : 0..ResolveMax]

Shapes ==
    /\ server \in ServerState
    /\ net \in [Client -> CallState]
    /\ worker \in [Worker -> WorkerState]
    /\ human \in HumanState
    /\ finished \subseteq Ids /\ added \subseteq Ids \X {new.title : new \in Extra}

\* Every list of tasks is numbered, and leaves room for the tasks still to be added.
ToCome == Cardinality(human.toAdd)
            + (IF net[Human].kind = "request" /\ net[Human].op = "add" THEN 1 ELSE 0)
Sound(ts) == TaskList(ts) /\ Len(ts) + ToCome <= Len(Initial) + Cardinality(Extra)

Lists == Sound(tasks) /\ (file # Torn => Sound(Disk))

\* Who may call what.
Calls == \A c \in Client : net[c].kind # "none" =>
    /\ c = Human => net[c].op \in {"resolve", "add", "tests"}
    /\ c # Human => net[c].op \in {"next", "done", "blocked"}
    /\ net[c].op \in {"done", "blocked", "resolve"} => net[c].arg \in Ids
    /\ net[c].op = "add" => net[c].arg \in Extra
    /\ net[c].kind = "answer" =>
          /\ net[c].op = "next" => net[c].value \in Ids \cup {None}
          /\ net[c].op = "add" => net[c].value \in Ids

Workers == \A w \in Worker :
    /\ worker[w].at \in {"idle", "working", "stopped"} => net[w].kind = "none"
    /\ worker[w].at = "asking" => net[w].kind # "none" /\ net[w].op = "next"
    /\ worker[w].at = "finishing" =>
          net[w].kind # "none" /\ net[w].op = "done" /\ net[w].arg = worker[w].task
    /\ worker[w].at = "escalating" =>
          net[w].kind # "none" /\ net[w].op = "blocked" /\ net[w].arg = worker[w].task
    /\ worker[w].at \in {"working", "finishing"} => worker[w].task \in Ids

\* One call is served at a time, by a server that is saving or about to answer.
Serving ==
    /\ \A c \in Client : net[c].kind = "served" <=> server.at \in Busying /\ server.client = c
    /\ server.at \in Busying /\ server.client \in Client
            /\ net[server.client].op \in {"next", "add"} => server.value \in Ids
    /\ server.at \in {"truncate", "write"} => server.saves > 0

TInv == Shapes /\ Lists /\ Calls /\ Workers /\ Serving

-----------------------------------------------------------------------------
(* What a task's status, assignee and mark have to do with the clients. *)

Takeable(t) == t.status = "pending" /\ ~t.human

\* w has task id in hand, or will have when it reads its answer, or its report about
\* the task is still to be handled.
Holds(w, id) ==
    \/ worker[w].at \in {"working", "finishing"} /\ worker[w].task = id
    \/ net[w].kind = "request" /\ net[w].op \in {"done", "blocked"} /\ net[w].arg = id
    \/ net[w].kind = "answer" /\ net[w].op = "next" /\ net[w].value = id
Held == {p \in Worker \X Ids : Holds(p[1], p[2])}

\* What has been answered, whether or not the answer has been read.
Completed ==
    finished \cup {worker[w].task : w \in {v \in Worker :
                                       worker[v].at = "finishing" /\ net[v].kind = "answer"}}
Announced ==
    added \cup (IF net[Human].kind = "answer" /\ net[Human].op = "add"
                THEN {<<net[Human].value, net[Human].arg.title>>} ELSE {})

\* The tasks the human may still have resolved on the strength of her last look.
Resolving == net[Human].kind = "request" /\ net[Human].op = "resolve"
Listed == human.blockers \cup (IF Resolving THEN {net[Human].arg} ELSE {})

\* A list of tasks says of each task what was answered about it ...
Durable(ts, held, completed, announced) ==
    /\ \A p \in held : /\ p[2] \in DOMAIN ts /\ ts[p[2]].to = p[1]
                       /\ ts[p[2]].status \in {"in_progress", "done"} /\ ~ts[p[2]].human
    /\ \A id \in completed :
          id \in DOMAIN ts /\ ts[id].status = "done" /\ ~ts[id].human
    /\ \A a \in announced : a[1] \in DOMAIN ts /\ ts[a[1]].title = a[2]

\* ... and what the human saw blocked nobody can take meanwhile.
Unlisted(ts, listed) == \A id \in listed : id \in DOMAIN ts => ~Takeable(ts[id])

Up == server.at # "down"
Restartable == file # Torn /\ ("crash" \in Faults \/ ~Up)

\* Memory, file and blocker list agree with what was answered.
Knowledge ==
    /\ Up => Durable(tasks, Held, Completed, Announced) /\ Unlisted(tasks, Listed)
    /\ file # Torn => Durable(Disk, Held, Completed, Announced)
    /\ Restartable => Unlisted(Disk, Listed)

\* A task is held by one worker, who still has it to report, and cannot be resolved.
Ownership ==
    /\ \A p, q \in Held : p[2] = q[2] => p = q
    /\ \A p \in Held : p[2] \notin finished /\ p[2] \notin Listed
    /\ Completed \cap Listed = {}
    /\ Resolving => human.blockers = {}

\* What a handler that is saving has done.
Underway ==
    server.at \in Busying /\ server.client \in Client =>
        LET c == server.client
            id == server.value IN
        /\ net[c].op = "next" =>
              /\ id \in DOMAIN tasks /\ tasks[id].to = c /\ tasks[id].status = "in_progress"
              /\ ~tasks[id].human /\ id \notin Listed
        /\ net[c].op = "done" =>
              net[c].arg \in DOMAIN tasks /\ tasks[net[c].arg].status = "done"
        /\ net[c].op = "add" => id \in DOMAIN tasks /\ tasks[id].title = net[c].arg.title

\* How far the file may lag behind.
Saved ==
    /\ server.at = "respond" => file = tasks
    /\ server.at = "idle" /\ "raise" \notin Faults => file = tasks
    /\ Up /\ file # Torn =>
          /\ Len(Disk) <= Len(tasks)
          /\ \A i \in DOMAIN Disk :
                /\ tasks[i].human => Disk[i].human
                /\ tasks[i].status = "blocked" => Disk[i].status # "pending"

\* A task that needs no human is about to be added under an id that the human still has
\* on her list: it named a task that a restart forgot.
IdGivenAgain ==
    /\ server.at = "idle" /\ net[Human].kind = "request" /\ net[Human].op = "add"
    /\ Len(tasks) + 1 \in human.blockers /\ ~net[Human].arg.human

KInv == Knowledge /\ Ownership /\ Underway /\ Saved

-----------------------------------------------------------------------------
(* Lists of tasks, and what the handlers do to them. *)

LEMMA TaskListFacts ==
  ASSUME NEW ts, TaskList(ts)
  PROVE  /\ Len(ts) \in Nat /\ DOMAIN ts = 1..Len(ts)
         /\ \A i \in DOMAIN ts : ts[i] \in Record /\ ts[i].id = i
BY LenProperties, ElementOfSeq DEF TaskList

LEMMA InitialTaskList == TaskList(InitialTasks) /\ Len(InitialTasks) = Len(Initial)
<1>1. /\ Len(Initial) \in Nat /\ DOMAIN Initial = 1..Len(Initial)
      /\ \A i \in DOMAIN Initial : Initial[i] \in Created
  BY OrchestratorAssumption, LenProperties, ElementOfSeq
<1>2. \A i \in DOMAIN Initial : NewTask(i, Initial[i]) \in Record
  BY <1>1, OrchestratorAssumption DEF NewTask, Record, Statuses
<1>3. InitialTasks \in [1..Len(Initial) -> Record]
  BY <1>1, <1>2 DEF InitialTasks
<1>4. InitialTasks \in Seq(Record)
  BY <1>1, <1>3, SeqDef
<1>5. \A i \in DOMAIN InitialTasks : InitialTasks[i].id = i
  BY DEF InitialTasks, NewTask
<1>6. Len(InitialTasks) = Len(Initial)
  BY <1>1, <1>3, <1>4, LenProperties
<1> QED BY <1>4, <1>5, <1>6 DEF TaskList

LEMMA FindTask ==
  ASSUME TaskList(tasks), NEW id
  PROVE  /\ Matching(id) # {} <=> id \in DOMAIN tasks
         /\ id \in DOMAIN tasks => Find(id) = id
<1>1. \A i \in DOMAIN tasks : tasks[i].id = i
  BY DEF TaskList
<1>2. ASSUME id \in DOMAIN tasks PROVE Matching(id) = {id} /\ id <= id
  BY <1>1, <1>2, TaskListFacts DEF Matching
<1>3. id \in DOMAIN tasks => Find(id) = id
  BY <1>2 DEF Find
<1> QED BY <1>1, <1>2, <1>3 DEF Matching

\* Task i has a new status, assignee and mark; its title and all other tasks are kept.
Updated(i, status, to, forHuman) ==
    /\ TaskList(tasks') /\ Len(tasks') = Len(tasks) /\ DOMAIN tasks' = DOMAIN tasks
    /\ i \in DOMAIN tasks
    /\ tasks'[i] = [tasks[i] EXCEPT !.status = status, !.to = to, !.human = forHuman]
    /\ \A j \in DOMAIN tasks : j # i => tasks'[j] = tasks[j]

LEMMA UpdateTask ==
  ASSUME TaskList(tasks), NEW i \in DOMAIN tasks, NEW status \in Statuses,
         NEW to \in Worker \cup {Nobody}, NEW forHuman \in BOOLEAN,
         tasks' = [tasks EXCEPT ![i] = [tasks[i] EXCEPT !.status = status, !.to = to,
                                                        !.human = forHuman]]
  PROVE  Updated(i, status, to, forHuman)
<1> DEFINE t == [tasks[i] EXCEPT !.status = status, !.to = to, !.human = forHuman]
<1>1. tasks \in Seq(Record) /\ i \in 1..Len(tasks) /\ tasks[i] \in Record /\ tasks[i].id = i
  BY TaskListFacts DEF TaskList
<1>2. t \in Record /\ t.id = i
  BY <1>1 DEF Record
<1> HIDE DEF t
<1>3. /\ tasks' \in Seq(Record) /\ Len(tasks') = Len(tasks)
      /\ \A j \in 1..Len(tasks) : tasks'[j] = IF j = i THEN t ELSE tasks[j]
  BY <1>1, <1>2, ExceptSeq DEF t
<1>4. DOMAIN tasks' = DOMAIN tasks /\ DOMAIN tasks = 1..Len(tasks)
  BY <1>1, <1>3, LenProperties
<1>5. \A j \in DOMAIN tasks' : tasks'[j].id = j
  BY <1>2, <1>3, <1>4 DEF TaskList
<1> QED BY <1>1, <1>3, <1>4, <1>5 DEF Updated, TaskList, t

LEMMA NextTaskUpdates ==
  ASSUME TaskList(tasks), NEW c \in Worker, GetNextTask(c)
  PROVE  \E i \in DOMAIN tasks :
            /\ Takeable(tasks[i]) /\ Updated(i, "in_progress", c, FALSE)
            /\ Saving(c, i, 2)
<1>1. PICK i \in DOMAIN tasks :
         /\ IsNext(i)
         /\ tasks' = [tasks EXCEPT ![i].status = "in_progress", ![i].to = c]
         /\ Saving(c, tasks[i].id, 2)
  BY DEF GetNextTask
<1>2. Takeable(tasks[i]) /\ tasks[i] \in Record /\ tasks[i].id = i
  BY <1>1, TaskListFacts DEF IsNext, Pending, Takeable
<1>3. tasks' = [tasks EXCEPT ![i] = [tasks[i] EXCEPT !.status = "in_progress", !.to = c,
                                                    !.human = FALSE]]
  BY <1>1, <1>2 DEF Takeable, Record
<1>4. Updated(i, "in_progress", c, FALSE)
  BY <1>3, UpdateTask DEF Statuses
<1> QED BY <1>1, <1>2, <1>4

LEMMA DoneUpdates ==
  ASSUME TaskList(tasks), NEW c, MarkTaskDone(c)
  PROVE  LET id == net[c].arg IN
         id \in DOMAIN tasks /\ Updated(id, "done", tasks[id].to, tasks[id].human)
<1> DEFINE id == net[c].arg
<1>1. id \in DOMAIN tasks /\ Find(id) = id /\ tasks[id] \in Record
  BY FindTask, TaskListFacts DEF MarkTaskDone
<1>2. tasks' = [tasks EXCEPT ![id].status = "done"]
  BY <1>1 DEF MarkTaskDone
<1> HIDE DEF id
<1>3. tasks' = [tasks EXCEPT ![id] = [tasks[id] EXCEPT !.status = "done", !.to = tasks[id].to,
                                                      !.human = tasks[id].human]]
  BY <1>1, <1>2 DEF Record
<1>4. Updated(id, "done", tasks[id].to, tasks[id].human)
  BY <1>1, <1>3, UpdateTask DEF Statuses, Record
<1> QED BY <1>1, <1>4 DEF id

LEMMA BlockedUpdates ==
  ASSUME TaskList(tasks), NEW c, MarkTaskBlocked(c)
  PROVE  LET id == net[c].arg IN
         id \in DOMAIN tasks /\ Updated(id, "blocked", tasks[id].to, tasks[id].human)
<1> DEFINE id == net[c].arg
<1>1. id \in DOMAIN tasks /\ Find(id) = id /\ tasks[id] \in Record
  BY FindTask, TaskListFacts DEF MarkTaskBlocked
<1>2. tasks' = [tasks EXCEPT ![id].status = "blocked"]
  BY <1>1 DEF MarkTaskBlocked
<1> HIDE DEF id
<1>3. tasks' = [tasks EXCEPT ![id] = [tasks[id] EXCEPT !.status = "blocked", !.to = tasks[id].to,
                                                      !.human = tasks[id].human]]
  BY <1>1, <1>2 DEF Record
<1>4. Updated(id, "blocked", tasks[id].to, tasks[id].human)
  BY <1>1, <1>3, UpdateTask DEF Statuses, Record
<1> QED BY <1>1, <1>4 DEF id

LEMMA ResolveUpdates ==
  ASSUME TaskList(tasks), NEW c, ResolveBlocked(c)
  PROVE  LET id == net[c].arg IN
         id \in DOMAIN tasks /\ Updated(id, "pending", tasks[id].to, FALSE)
<1> DEFINE id == net[c].arg
<1>1. id \in DOMAIN tasks /\ Find(id) = id /\ tasks[id] \in Record
  BY FindTask, TaskListFacts DEF ResolveBlocked
<1>2. tasks' = [tasks EXCEPT ![id].status = "pending", ![id].human = FALSE]
  BY <1>1 DEF ResolveBlocked
<1> HIDE DEF id
<1>3. tasks' = [tasks EXCEPT ![id] = [tasks[id] EXCEPT !.status = "pending", !.to = tasks[id].to,
                                                      !.human = FALSE]]
  BY <1>1, <1>2 DEF Record
<1>4. Updated(id, "pending", tasks[id].to, FALSE)
  BY <1>1, <1>3, UpdateTask DEF Statuses, Record
<1> QED BY <1>1, <1>4 DEF id

LEMMA AddAppends ==
  ASSUME TaskList(tasks), NEW c, AddTask(c), net[c].arg \in Extra
  PROVE  LET id == Len(tasks) + 1 IN
         /\ TaskList(tasks') /\ Len(tasks') = id /\ Len(tasks) \in Nat
         /\ DOMAIN tasks' = DOMAIN tasks \cup {id} /\ id \notin DOMAIN tasks
         /\ tasks'[id] = NewTask(id, net[c].arg)
         /\ \A j \in DOMAIN tasks : tasks'[j] = tasks[j]
         /\ Saving(c, id, 2)
<1> DEFINE id == Len(tasks) + 1
           t == NewTask(id, net[c].arg)
<1>1. Len(tasks) \in Nat /\ DOMAIN tasks = 1..Len(tasks) /\ tasks \in Seq(Record)
  BY TaskListFacts DEF TaskList
<1>2. tasks' = Append(tasks, t) /\ Saving(c, id, 2)
  BY DEF AddTask
<1>3. t \in Record /\ t.id = id
  BY <1>1, OrchestratorAssumption DEF NewTask, Record, Statuses, Created
<1> HIDE DEF t
<1>4. /\ tasks' \in Seq(Record) /\ Len(tasks') = id
      /\ \A j \in 1..Len(tasks) : tasks'[j] = tasks[j]
      /\ tasks'[id] = t
  BY <1>1, <1>2, <1>3, AppendProperties
<1>5. DOMAIN tasks' = 1..id
  BY <1>4, LenProperties
<1>6. \A j \in DOMAIN tasks' : tasks'[j].id = j
  BY <1>1, <1>3, <1>4, <1>5 DEF TaskList
<1> QED BY <1>1, <1>2, <1>4, <1>5, <1>6 DEF TaskList, t

-----------------------------------------------------------------------------
(* Types: every step keeps TInv. *)

LEMMA ToComeType ==
  ASSUME Shapes
  PROVE  ToCome \in Nat /\ Cardinality(human.toAdd) \in Nat /\ IsFiniteSet(human.toAdd)
<1>1. human.toAdd \in SUBSET Extra
  BY DEF Shapes, HumanState
<1>2. IsFiniteSet(human.toAdd) /\ Cardinality(human.toAdd) \in Nat
  BY <1>1, OrchestratorAssumption, FS_Subset, FS_CardinalityType
<1> QED BY <1>2 DEF ToCome

Adding == net[Human].kind = "request" /\ net[Human].op = "add"

LEMMA ToComeKept ==
  ASSUME Shapes, human'.toAdd = human.toAdd, Adding' => Adding
  PROVE  ToCome' \in Nat /\ ToCome' <= ToCome
<1>1. Cardinality(human.toAdd) \in Nat
  BY ToComeType
<1> QED BY <1>1 DEF ToCome, Adding

LEMMA ListsKept ==
  ASSUME Shapes, Lists, ToCome' \in Nat, ToCome' <= ToCome, UNCHANGED tasks,
         file' # Torn => file # Torn /\ UNCHANGED file
  PROVE  Lists'
<1>1. ToCome \in Nat /\ Len(Initial) \in Nat /\ Cardinality(Extra) \in Nat
  BY ToComeType, OrchestratorAssumption, LenProperties, FS_CardinalityType
<1>2. Sound(tasks)'
  <2>1. TaskList(tasks) /\ Len(tasks) + ToCome <= Len(Initial) + Cardinality(Extra)
    BY DEF Lists, Sound
  <2>2. Len(tasks) \in Nat
    BY <2>1, TaskListFacts
  <2>3. Len(tasks) + ToCome' <= Len(Initial) + Cardinality(Extra)
    BY <1>1, <2>1, <2>2
  <2> QED BY <2>1, <2>3 DEF Sound, TaskList
<1>3. file' # Torn => Sound(Disk)'
  <2> SUFFICES ASSUME file' # Torn PROVE Sound(Disk)'
    OBVIOUS
  <2>1. Sound(Disk) /\ Disk' = Disk
    BY DEF Lists, Disk
  <2>2. Len(Disk) \in Nat
    BY <2>1, TaskListFacts DEF Sound
  <2>3. Len(Disk) + ToCome' <= Len(Initial) + Cardinality(Extra)
    BY <1>1, <2>1, <2>2 DEF Sound
  <2> QED BY <2>1, <2>3 DEF Sound, TaskList
<1> QED BY <1>2, <1>3 DEF Lists

LEMMA InitTInv == Init => TInv
<1> SUFFICES ASSUME Init PROVE TInv
  OBVIOUS
<1>1. Shapes
  <2>1. server = [at |-> "down", client |-> Nobody, value |-> None, saves |-> 0]
    BY DEF Init, Idle
  <2>2. server \in ServerState
    BY <2>1 DEF ServerState, Value
  <2>3. NoCall \in CallState
    BY DEF NoCall, Value, Op, CallState
  <2>4. [at |-> "idle", task |-> None] \in WorkerState
    BY DEF WorkerState
  <2>5. human \in HumanState
    BY OrchestratorAssumption DEF Init, HumanState
  <2> QED BY <2>2, <2>3, <2>4, <2>5 DEF Init, Shapes
<1> USE DEF Init
<1>2. Lists
  <2>1. /\ Len(Initial) \in Nat /\ Cardinality(Extra) \in Nat
        /\ ToCome = Cardinality(Extra)
    BY OrchestratorAssumption, LenProperties, FS_CardinalityType DEF ToCome, NoCall, Client
  <2>2. Sound(InitialTasks)
    BY <2>1, InitialTaskList DEF Sound
  <2>3. Sound(<< >>)
    BY <2>1, EmptySeq DEF Sound, TaskList
  <2> QED BY <2>2, <2>3 DEF Lists, Disk
<1>3. Calls
  BY DEF Calls, NoCall, Client
<1>4. Workers
  BY DEF Workers, NoCall, Client
<1>5. Serving
  BY DEF Serving, NoCall, Client, Idle, Busying
<1> QED BY <1>1, <1>2, <1>3, <1>4, <1>5 DEF TInv

LEMMA SavingStep ==
  ASSUME TInv, NEW c \in Client, server.at = "idle", net[c].kind = "request",
         NEW v \in Value, NEW n \in 1..2, Saving(c, v, n),
         net[c].op \in {"next", "add"} => v \in Ids
  PROVE  /\ Shapes' /\ Calls' /\ Workers' /\ Serving'
         /\ ToCome' \in Nat /\ ToCome' <= ToCome
         /\ c = Human /\ net[c].op = "add" => ToCome' + 1 <= ToCome
<1> USE DEF TInv
<1>1. /\ server' = [at |-> "truncate", client |-> c, value |-> v, saves |-> n]
      /\ net' = [net EXCEPT ![c].kind = "served"]
      /\ UNCHANGED <<file, worker, human, finished, added, crashes>>
  BY DEF Saving, clientVars
<1>2. net' \in [Client -> CallState]
  BY <1>1 DEF Shapes, CallState
<1>3. Shapes'
  BY <1>1, <1>2 DEF Shapes, ServerState, Busying
<1>4. Calls'
  BY <1>1 DEF Calls, Shapes, CallState
<1>5. Workers'
  BY <1>1 DEF Workers, Shapes, CallState, Client
<1>6. Serving'
  BY <1>1 DEF Serving, Shapes, CallState, Busying
<1>7. ToCome' \in Nat /\ ToCome' <= ToCome
  BY <1>1, ToComeKept DEF Adding, Shapes, CallState, Client
<1>8. c = Human /\ net[c].op = "add" => ToCome' + 1 <= ToCome
  BY <1>1, ToComeType DEF ToCome, Shapes, CallState, Client
<1> QED BY <1>3, <1>4, <1>5, <1>6, <1>7, <1>8

LEMMA ReplyStep ==
  ASSUME TInv, NEW c \in Client, net[c].kind = "request", server.at = "idle",
         NEW v \in Value, Reply(c, v),
         net[c].op = "next" => v = None, net[c].op # "add"
  PROVE  TInv'
<1> USE DEF TInv
<1>1. /\ net' = [net EXCEPT ![c].kind = "answer", ![c].value = v]
      /\ UNCHANGED <<tasks, file, server, worker, human, finished, added, crashes>>
  BY DEF Reply, Answered, clientVars
<1>2. net' \in [Client -> CallState]
  BY <1>1 DEF Shapes, CallState
<1>3. Shapes'
  BY <1>1, <1>2 DEF Shapes
<1>4. Calls'
  BY <1>1 DEF Calls, Shapes, CallState
<1>5. Workers'
  BY <1>1 DEF Workers, Shapes, CallState, Client
<1>6. Serving'
  BY <1>1 DEF Serving, Shapes, CallState, Busying
<1>7. ToCome' \in Nat /\ ToCome' <= ToCome
  BY <1>1, ToComeKept DEF Adding, Shapes, CallState, Client
<1>8. Lists'
  BY <1>1, <1>7, ListsKept
<1> QED BY <1>3, <1>4, <1>5, <1>6, <1>8

\* A new list in memory is sound if it is no longer than what it replaces, or by
\* one when a task to come has come.
LEMMA ListsUpdated ==
  ASSUME Shapes, Lists, UNCHANGED file, TaskList(tasks'), ToCome' \in Nat, ToCome' <= ToCome,
         Len(tasks') + ToCome' <= Len(tasks) + ToCome
  PROVE  Lists'
<1>1. /\ ToCome \in Nat /\ Len(Initial) \in Nat /\ Cardinality(Extra) \in Nat
      /\ Len(tasks) \in Nat /\ Len(tasks') \in Nat
  BY ToComeType, OrchestratorAssumption, LenProperties, FS_CardinalityType, TaskListFacts
  DEF Lists, Sound
<1>2. Sound(tasks)'
  BY <1>1 DEF Lists, Sound, TaskList
<1>3. file' # Torn => Sound(Disk)'
  <2> SUFFICES ASSUME file # Torn PROVE Sound(Disk)'
    OBVIOUS
  <2>1. Sound(Disk) /\ Disk' = Disk
    BY DEF Lists, Disk
  <2>2. Len(Disk) \in Nat
    BY <2>1, TaskListFacts DEF Sound
  <2>3. Len(Disk) + ToCome' <= Len(Initial) + Cardinality(Extra)
    BY <1>1, <2>1, <2>2 DEF Sound
  <2> QED BY <2>1, <2>3 DEF Sound, TaskList
<1> QED BY <1>2, <1>3 DEF Lists

LEMMA HandleTInv ==
  ASSUME TInv, NEW c \in Client, Handle(c)
  PROVE  TInv'
<1> Shapes /\ Lists /\ Calls /\ Workers /\ Serving
  BY DEF TInv
<1>1. TaskList(tasks) /\ Len(tasks) \in Nat /\ DOMAIN tasks \subseteq Ids
  <2>1. TaskList(tasks) /\ Len(tasks) + ToCome <= Len(Initial) + Cardinality(Extra)
    BY DEF Lists, Sound
  <2>2. Len(Initial) \in Nat /\ Cardinality(Extra) \in Nat /\ ToCome \in Nat
    BY ToComeType, OrchestratorAssumption, LenProperties, FS_CardinalityType
  <2> QED BY <2>1, <2>2, TaskListFacts DEF Ids
<1>2. c # Human => c \in Worker
  BY DEF Client
<1>ok. "ok" \in Value /\ 1 \in 1..2 /\ 2 \in 1..2
  BY DEF Value
<1>3. ASSUME NEW i \in DOMAIN tasks, NEW status, NEW to, NEW h, Updated(i, status, to, h),
             ToCome' \in Nat, ToCome' <= ToCome, UNCHANGED file
      PROVE  Lists'
  BY <1>1, <1>3, ListsUpdated, ToComeType DEF Updated
<1>4. CASE GetNextTask(c)
  <2>1. /\ server.at = "idle" /\ net[c].kind = "request" /\ net[c].op = "next"
    BY <1>4 DEF GetNextTask, Takes
  <2>2. c \in Worker
    BY <1>2, <2>1 DEF Calls
  <2>3. PICK i \in DOMAIN tasks : Updated(i, "in_progress", c, FALSE) /\ Saving(c, i, 2)
    BY <1>1, <1>4, <2>2, NextTaskUpdates
  <2>4. i \in Ids /\ i \in Value
    BY <1>1 DEF Value
  <2>5. UNCHANGED file
    BY <2>3 DEF Saving
  <2>6. Shapes' /\ Calls' /\ Workers' /\ Serving' /\ ToCome' \in Nat /\ ToCome' <= ToCome
    BY <1>ok, <2>1, <2>3, <2>4, SavingStep
  <2>7. Lists'
    BY <1>3, <2>3, <2>5, <2>6
  <2> QED BY <2>6, <2>7 DEF TInv
<1>5. CASE NoNextTask(c)
  <2>1. server.at = "idle" /\ net[c].kind = "request" /\ net[c].op = "next" /\ Reply(c, None)
    BY <1>5 DEF NoNextTask, Takes
  <2> QED BY <2>1, ReplyStep DEF Value
<1>6. CASE NotFound(c)
  <2>1. /\ server.at = "idle" /\ net[c].kind = "request" /\ Reply(c, "not found")
        /\ net[c].op \in {"done", "blocked", "resolve"}
    BY <1>6 DEF NotFound
  <2> QED BY <2>1, ReplyStep DEF Value
<1>7. CASE MarkTaskDone(c)
  <2>1. /\ server.at = "idle" /\ net[c].kind = "request" /\ net[c].op = "done"
        /\ Saving(c, "ok", 2) /\ UNCHANGED file
    BY <1>7 DEF MarkTaskDone, Takes, Saving
  <2>2. PICK i \in DOMAIN tasks : Updated(i, "done", tasks[i].to, tasks[i].human)
    BY <1>1, <1>7, DoneUpdates
  <2>3. Shapes' /\ Calls' /\ Workers' /\ Serving' /\ ToCome' \in Nat /\ ToCome' <= ToCome
    BY <1>ok, <2>1, SavingStep
  <2>4. Lists'
    BY <1>3, <2>1, <2>2, <2>3
  <2> QED BY <2>3, <2>4 DEF TInv
<1>8. CASE MarkTaskBlocked(c)
  <2>1. /\ server.at = "idle" /\ net[c].kind = "request" /\ net[c].op = "blocked"
        /\ Saving(c, "ok", 2) /\ UNCHANGED file
    BY <1>8 DEF MarkTaskBlocked, Takes, Saving
  <2>2. PICK i \in DOMAIN tasks : Updated(i, "blocked", tasks[i].to, tasks[i].human)
    BY <1>1, <1>8, BlockedUpdates
  <2>3. Shapes' /\ Calls' /\ Workers' /\ Serving' /\ ToCome' \in Nat /\ ToCome' <= ToCome
    BY <1>ok, <2>1, SavingStep
  <2>4. Lists'
    BY <1>3, <2>1, <2>2, <2>3
  <2> QED BY <2>3, <2>4 DEF TInv
<1>9. CASE ResolveBlocked(c)
  <2>1. /\ server.at = "idle" /\ net[c].kind = "request" /\ net[c].op = "resolve"
        /\ Saving(c, "ok", 2) /\ UNCHANGED file
    BY <1>9 DEF ResolveBlocked, Takes, Saving
  <2>2. PICK i \in DOMAIN tasks : Updated(i, "pending", tasks[i].to, FALSE)
    BY <1>1, <1>9, ResolveUpdates
  <2>3. Shapes' /\ Calls' /\ Workers' /\ Serving' /\ ToCome' \in Nat /\ ToCome' <= ToCome
    BY <1>ok, <2>1, SavingStep
  <2>4. Lists'
    BY <1>3, <2>1, <2>2, <2>3
  <2> QED BY <2>3, <2>4 DEF TInv
<1>10. CASE AddTask(c)
  <2> DEFINE id == Len(tasks) + 1
  <2>1. server.at = "idle" /\ net[c].kind = "request" /\ net[c].op = "add" /\ c = Human
    BY <1>10 DEF AddTask, Takes, Calls
  <2>2. net[c].arg \in Extra
    BY <2>1 DEF Calls
  <2>3. TaskList(tasks') /\ Len(tasks') = id /\ Saving(c, id, 2) /\ UNCHANGED file
    BY <1>1, <1>10, <2>2, AddAppends DEF Saving
  <2>4. id \in Ids
    <3>1. /\ Len(tasks) + ToCome <= Len(Initial) + Cardinality(Extra)
          /\ Len(Initial) \in Nat /\ Cardinality(Extra) \in Nat /\ ToCome \in Nat
      BY ToComeType, OrchestratorAssumption, LenProperties, FS_CardinalityType DEF Lists, Sound
    <3>2. ToCome >= 1
      BY <2>1, ToComeType DEF ToCome
    <3> QED BY <1>1, <3>1, <3>2 DEF Ids
  <2>5. /\ Shapes' /\ Calls' /\ Workers' /\ Serving'
        /\ ToCome' \in Nat /\ ToCome' <= ToCome /\ ToCome' + 1 <= ToCome
    <3>1. id \in Value
      BY <2>4 DEF Value
    <3> QED BY <1>ok, <2>1, <2>3, <2>4, <3>1, SavingStep
  <2>6. Lists'
    BY <1>1, <2>3, <2>5, ListsUpdated, ToComeType
  <2> QED BY <2>5, <2>6 DEF TInv
<1>11. CASE UpdateTests(c)
  <2>1. /\ server.at = "idle" /\ net[c].kind = "request" /\ net[c].op = "tests"
        /\ Saving(c, "ok", 1) /\ UNCHANGED <<tasks, file>>
    BY <1>11 DEF UpdateTests, Takes, Saving
  <2>3. Shapes' /\ Calls' /\ Workers' /\ Serving' /\ ToCome' \in Nat /\ ToCome' <= ToCome
    BY <1>ok, <2>1, SavingStep
  <2>4. Lists'
    BY <2>1, <2>3, ListsKept
  <2> QED BY <2>3, <2>4 DEF TInv
<1> QED BY <1>4, <1>5, <1>6, <1>7, <1>8, <1>9, <1>10, <1>11 DEF Handle

LEMMA ShapesKept ==
  ASSUME Shapes, server' \in ServerState, net' \in [Client -> CallState],
         UNCHANGED <<worker, human, finished, added>>
  PROVE  Shapes'
BY DEF Shapes

LEMMA NobodyIsNoClient == Nobody \notin Client /\ Human \in Client /\ Worker \subseteq Client
BY OrchestratorAssumption DEF Client

LEMMA SaveTInv ==
  ASSUME TInv, Save \/ Raise \/ Crash
  PROVE  TInv'
<1> Shapes /\ Lists /\ Calls /\ Workers /\ Serving
  BY DEF TInv
<1> USE DEF ServerState, CallState, Busying
<1>1. CASE Truncate
  <2>1. /\ server.at = "truncate" /\ file' = Torn /\ server' = [server EXCEPT !.at = "write"]
        /\ UNCHANGED <<tasks, net, worker, human, finished, added>>
    BY <1>1 DEF Truncate, clientVars
  <2>a. server' \in ServerState
    BY <2>1 DEF Shapes
  <2>2. Shapes'
    BY <2>1, <2>a, ShapesKept DEF Shapes
  <2>3. Calls' /\ Workers' /\ Serving'
    BY <2>1 DEF Calls, Workers, Serving, Shapes
  <2>4. Lists'
    BY <2>1, ToComeKept, ListsKept DEF Adding
  <2> QED BY <2>2, <2>3, <2>4 DEF TInv
<1>2. CASE Write
  <2>1. /\ server.at = "write" /\ file' = tasks
        /\ server' = [server EXCEPT !.at = IF server.saves > 1 THEN "truncate" ELSE "respond",
                                    !.saves = server.saves - 1]
        /\ UNCHANGED <<tasks, net, worker, human, finished, added>>
    BY <1>2 DEF Write, clientVars
  <2>a. server.saves \in 1..2
    BY <2>1 DEF Shapes, Serving
  <2>b. server' = [at |-> IF server.saves > 1 THEN "truncate" ELSE "respond",
                   client |-> server.client, value |-> server.value, saves |-> server.saves - 1]
    BY <2>1 DEF Shapes
  <2>c. server.saves - 1 \in 0..2
    BY <2>a
  <2>d. server' \in ServerState
    BY <2>b, <2>c DEF Shapes
  <2>2. Shapes'
    BY <2>1, <2>d, ShapesKept DEF Shapes
  <2>3. Calls' /\ Workers' /\ Serving'
    BY <2>1 DEF Calls, Workers, Serving, Shapes
  <2>4. Sound(tasks) /\ tasks # Absent
    BY OrchestratorAssumption DEF Lists, Sound, TaskList
  <2>5. ToCome' = ToCome
    BY <2>1 DEF ToCome
  <2>6. Lists'
    BY <2>1, <2>4, <2>5 DEF Lists, Sound, TaskList, Disk
  <2> QED BY <2>2, <2>3, <2>6 DEF TInv
<1>3. CASE Respond
  <2>1. /\ server.at = "respond" /\ server' = Idle
        /\ UNCHANGED <<tasks, file, worker, human, finished, added>>
        /\ server.client \in Client =>
              net' = [net EXCEPT ![server.client].kind = "answer",
                                 ![server.client].value = server.value]
        /\ server.client \notin Client => net' = net
    BY <1>3 DEF Respond, clientVars, Answered
  <2>2. server' = [at |-> "idle", client |-> Nobody, value |-> None, saves |-> 0]
    BY <2>1 DEF Idle
  <2>3. server.value \in Value
    BY DEF Shapes
  <2>a. server' \in ServerState
    BY <2>2 DEF Value
  <2>b. net' \in [Client -> CallState]
    BY <2>1, <2>3 DEF Shapes
  <2>4. Shapes'
    BY <2>1, <2>a, <2>b, ShapesKept
  <2>5. Calls'
    BY <2>1 DEF Calls, Shapes, Serving, Client
  <2>6. Workers'
    BY <2>1 DEF Workers, Shapes, Client, Serving
  <2>7. Serving'
    BY <2>1, <2>2 DEF Serving, Shapes
  <2>8. ToCome' \in Nat /\ ToCome' <= ToCome
    BY <2>1, ToComeKept DEF Adding, Shapes, Client
  <2>9. Lists'
    BY <2>1, <2>8, ListsKept
  <2> QED BY <2>4, <2>5, <2>6, <2>7, <2>9 DEF TInv
<1>4. CASE Start
  <2>1. /\ server.at = "down" /\ file # Torn /\ tasks' = Disk
        /\ server' = [Idle EXCEPT !.at = "truncate", !.saves = 1]
        /\ UNCHANGED <<file, net, worker, human, finished, added>>
    BY <1>4 DEF Start, clientVars, Disk
  <2>2. server' = [at |-> "truncate", client |-> Nobody, value |-> None, saves |-> 1]
    BY <2>1 DEF Idle
  <2>a. server' \in ServerState
    BY <2>2 DEF Value
  <2>b. net' \in [Client -> CallState]
    BY <2>1 DEF Shapes
  <2>3. Shapes'
    BY <2>1, <2>a, <2>b, ShapesKept
  <2>4. Calls' /\ Workers'
    BY <2>1 DEF Calls, Workers
  <2>c. \A c \in Client : net[c].kind # "served" /\ c # Nobody
    BY <2>1, NobodyIsNoClient DEF Serving
  <2>5. Serving'
    <3>1. server'.client = Nobody /\ server'.saves = 1 /\ server'.at = "truncate"
      BY <2>2
    <3>2. net' = net
      BY <2>1
    <3> QED BY <2>c, <3>1, <3>2, NobodyIsNoClient DEF Serving
  <2>6. ToCome' = ToCome /\ Disk' = Disk
    BY <2>1 DEF ToCome, Disk
  <2>7. Lists'
    BY <2>1, <2>6 DEF Lists, Sound, TaskList
  <2> QED BY <2>3, <2>4, <2>5, <2>7 DEF TInv
<1>5. CASE Raise
  <2>1. /\ server.at \in {"truncate", "write"} /\ server.client \in Client
        /\ net' = [net EXCEPT ![server.client].kind = "dropped"] /\ server' = Idle
        /\ UNCHANGED <<tasks, file, worker, human, finished, added>>
    BY <1>5 DEF Raise, clientVars
  <2>2. server' = [at |-> "idle", client |-> Nobody, value |-> None, saves |-> 0]
    BY <2>1 DEF Idle
  <2>a. server' \in ServerState
    BY <2>2 DEF Value
  <2>b. net' \in [Client -> CallState]
    BY <2>1 DEF Shapes
  <2>3. Shapes'
    BY <2>1, <2>a, <2>b, ShapesKept
  <2>4. Calls'
    BY <2>1 DEF Calls, Shapes, Serving
  <2>5. Workers'
    BY <2>1 DEF Workers, Shapes, Client, Serving
  <2>6. Serving'
    BY <2>1, <2>2 DEF Serving, Shapes
  <2>7. ToCome' \in Nat /\ ToCome' <= ToCome
    BY <2>1, ToComeKept DEF Adding, Shapes, Client
  <2>8. Lists'
    BY <2>1, <2>7, ListsKept
  <2> QED BY <2>3, <2>4, <2>5, <2>6, <2>8 DEF TInv
<1>6. CASE Crash
  <2>1. /\ tasks' = << >> /\ server' = [Idle EXCEPT !.at = "down"]
        /\ net' = [c \in Client |-> IF net[c].kind \in {"request", "served"}
                                    THEN [net[c] EXCEPT !.kind = "dropped"] ELSE net[c]]
        /\ UNCHANGED <<file, worker, human, finished, added>>
    BY <1>6 DEF Crash, clientVars
  <2>2. server' = [at |-> "down", client |-> Nobody, value |-> None, saves |-> 0]
    BY <2>1 DEF Idle
  <2>a. server' \in ServerState
    BY <2>2 DEF Value
  <2>b. net' \in [Client -> CallState]
    BY <2>1 DEF Shapes
  <2>3. Shapes'
    BY <2>1, <2>a, <2>b, ShapesKept
  <2>4. Calls'
    BY <2>1 DEF Calls, Shapes
  <2>5. Workers'
    BY <2>1 DEF Workers, Shapes, Client
  <2>6. Serving'
    BY <2>1, <2>2 DEF Serving, Shapes
  <2>7. ToCome' \in Nat /\ ToCome' <= ToCome
    BY <2>1, ToComeKept DEF Adding, Shapes, Client
  <2>8. TaskList(tasks') /\ Len(tasks') = 0
    BY <2>1, EmptySeq DEF TaskList
  <2>9. Len(tasks) \in Nat /\ ToCome \in Nat
    BY TaskListFacts, ToComeType DEF Lists, Sound
  <2>10. Len(tasks') + ToCome' <= Len(tasks) + ToCome
    BY <2>7, <2>8, <2>9
  <2>11. Lists'
    BY <2>1, <2>7, <2>8, <2>10, ListsUpdated
  <2> QED BY <2>3, <2>4, <2>5, <2>6, <2>11 DEF TInv
<1> QED BY <1>1, <1>2, <1>3, <1>4, <1>5, <1>6 DEF Save

LEMMA WorkTInv ==
  ASSUME TInv, NEW w \in Worker, Work(w) \/ Die(w)
  PROVE  TInv'
<1> Shapes /\ Lists /\ Calls /\ Workers /\ Serving
  BY DEF TInv
<1> USE DEF CallState, WorkerState
<1>w. w \in Client /\ w # Human
  BY OrchestratorAssumption DEF Client
<1>1. ASSUME UNCHANGED <<tasks, file, server, human, finished, added>>,
             NEW call \in CallState, NEW state \in WorkerState,
             net' = [net EXCEPT ![w] = call], worker' = [worker EXCEPT ![w] = state],
             net[w].kind # "served",
             call.kind # "none" =>
                /\ call.op \in {"next", "done", "blocked"} /\ call.kind # "served"
                /\ call.op \in {"done", "blocked"} => call.arg \in Ids
                /\ call.kind = "answer" /\ call.op = "next" => call.value \in Ids \cup {None},
             state.at \in {"idle", "working", "stopped"} => call.kind = "none",
             state.at = "asking" => call.kind # "none" /\ call.op = "next",
             state.at = "finishing" =>
                call.kind # "none" /\ call.op = "done" /\ call.arg = state.task,
             state.at = "escalating" =>
                call.kind # "none" /\ call.op = "blocked" /\ call.arg = state.task,
             state.at \in {"working", "finishing"} => state.task \in Ids
      PROVE  TInv'
  <2>1. Shapes'
    BY <1>1 DEF Shapes
  <2>2. Calls'
    BY <1>1, <1>w DEF Calls, Shapes
  <2>3. Workers'
    BY <1>1, <1>w DEF Workers, Shapes, Client
  <2>4. Serving'
    BY <1>1, <1>w DEF Serving, Shapes
  <2>5. ToCome' \in Nat /\ ToCome' <= ToCome
    BY <1>1, <1>w, ToComeKept DEF Adding, Shapes, Client
  <2>6. Lists'
    BY <1>1, <2>5, ListsKept
  <2> QED BY <2>1, <2>2, <2>3, <2>4, <2>6 DEF TInv
<1> HIDE DEF TInv
<1>2. NoCall \in CallState /\ NoCall.kind = "none"
  BY DEF NoCall, Op, Value
<1>3. net[w] \in CallState /\ worker[w] \in WorkerState
  BY <1>w DEF Shapes
<1>r. ASSUME NEW at
      PROVE  [worker EXCEPT ![w].at = at] = [worker EXCEPT ![w] = [at |-> at, task |-> worker[w].task]]
  <2>1. [worker[w] EXCEPT !.at = at] = [at |-> at, task |-> worker[w].task]
    BY <1>3
  <2> QED BY <2>1
<1>4. ASSUME NEW op \in {"next", "done", "blocked"}, NEW arg \in Ids \cup {None}, Call(w, op, arg)
      PROVE  /\ net' = [net EXCEPT ![w] = [kind |-> "request", op |-> op, arg |-> arg, value |-> None]]
             /\ [kind |-> "request", op |-> op, arg |-> arg, value |-> None] \in CallState
             /\ net[w].kind = "none"
  BY <1>4 DEF Call, NoCall, Op, Value
<1>5. CASE Ask(w)
  <2>1. [at |-> "asking", task |-> worker[w].task] \in WorkerState
    BY <1>3
  <2>2. worker' = [worker EXCEPT ![w] = [at |-> "asking", task |-> worker[w].task]]
    BY <1>r, <1>5 DEF Ask
  <2>3. UNCHANGED <<tasks, file, server, human, finished, added>> /\ Call(w, "next", None)
    BY <1>5 DEF Ask
  <2> QED BY <1>1, <1>4, <2>1, <2>2, <2>3
<1>6. CASE GetsTask(w)
  <2>1. net[w].value \in Ids \cup {None}
    BY <1>6, <1>w DEF GetsTask, Ends, Calls, Workers
  <2>2. CASE net[w].value = None
    <3>1. [at |-> "stopped", task |-> None] \in WorkerState
      OBVIOUS
    <3> QED BY <1>1, <1>2, <1>6, <2>2, <3>1 DEF GetsTask, Ends
  <2>3. CASE net[w].value # None
    <3>1. [at |-> "working", task |-> net[w].value] \in WorkerState /\ net[w].value \in Ids
      BY <2>1, <2>3
    <3> QED BY <1>1, <1>2, <1>6, <2>3, <3>1 DEF GetsTask, Ends
  <2> QED BY <2>2, <2>3
<1>7. CASE Report(w)
  <2>1. worker[w].at = "working" /\ worker[w].task \in Ids
    BY <1>7 DEF Report, Workers
  <2>2. CASE Call(w, "done", worker[w].task) /\ worker' = [worker EXCEPT ![w].at = "finishing"]
    <3>1. [at |-> "finishing", task |-> worker[w].task] \in WorkerState
      BY <2>1
    <3>2. worker' = [worker EXCEPT ![w] = [at |-> "finishing", task |-> worker[w].task]]
      BY <1>r, <2>2
    <3>3. UNCHANGED <<tasks, file, server, human, finished, added>>
      BY <1>7 DEF Report
    <3> DEFINE call == [kind |-> "request", op |-> "done", arg |-> worker[w].task, value |-> None]
    <3>4. net' = [net EXCEPT ![w] = call] /\ call \in CallState /\ net[w].kind = "none"
      BY <1>4, <2>1, <2>2
    <3> QED BY <1>1, <2>1, <3>1, <3>2, <3>3, <3>4
  <2>3. CASE Call(w, "blocked", worker[w].task) /\ worker' = [worker EXCEPT ![w].at = "escalating"]
    <3>1. [at |-> "escalating", task |-> worker[w].task] \in WorkerState
      BY <2>1
    <3>2. worker' = [worker EXCEPT ![w] = [at |-> "escalating", task |-> worker[w].task]]
      BY <1>r, <2>3
    <3>3. UNCHANGED <<tasks, file, server, human, finished, added>>
      BY <1>7 DEF Report
    <3> DEFINE call == [kind |-> "request", op |-> "blocked", arg |-> worker[w].task, value |-> None]
    <3>4. net' = [net EXCEPT ![w] = call] /\ call \in CallState /\ net[w].kind = "none"
      BY <1>4, <2>1, <2>3
    <3> QED BY <1>1, <2>1, <3>1, <3>2, <3>3, <3>4
  <2> QED BY <1>7, <2>2, <2>3 DEF Report
<1>8. [at |-> "idle", task |-> None] \in WorkerState /\ [at |-> "dead", task |-> None] \in WorkerState
  OBVIOUS
<1>9. CASE Reported(w)
  <2>1. /\ net' = [net EXCEPT ![w] = NoCall] /\ net[w].kind = "answer"
        /\ worker' = [worker EXCEPT ![w] = [at |-> "idle", task |-> None]]
        /\ UNCHANGED <<tasks, file, server, human, added>>
    BY <1>9 DEF Reported, Ends
  <2>2. finished' \subseteq Ids
    BY <1>9 DEF Reported, Workers, Shapes
  <2>3. Shapes'
    BY <1>2, <1>8, <2>1, <2>2 DEF Shapes
  <2>4. Calls'
    BY <1>2, <2>1, <1>w DEF Calls, Shapes
  <2>5. Workers'
    BY <1>2, <2>1, <1>w DEF Workers, Shapes, Client
  <2>6. Serving'
    BY <1>2, <2>1, <1>w DEF Serving, Shapes
  <2>7. ToCome' \in Nat /\ ToCome' <= ToCome
    BY <2>1, <1>w, ToComeKept DEF Adding, Shapes, Client
  <2>8. Lists'
    BY <2>1, <2>7, ListsKept
  <2> QED BY <2>3, <2>4, <2>5, <2>6, <2>8 DEF TInv
<1>10. CASE Unanswered(w)
  <2>1. CASE worker[w].at = "finishing"
    <3>1. [at |-> "working", task |-> worker[w].task] \in WorkerState /\ worker[w].task \in Ids
      BY <1>3, <2>1 DEF Workers
    <3>2. worker' = [worker EXCEPT ![w].at = "working"]
      BY <1>10, <2>1 DEF Unanswered
    <3>3. worker' = [worker EXCEPT ![w] = [at |-> "working", task |-> worker[w].task]]
      BY <1>r, <3>2
    <3> QED BY <1>1, <1>2, <1>10, <3>1, <3>3 DEF Unanswered, Ends
  <2>2. CASE worker[w].at # "finishing"
    BY <1>1, <1>2, <1>8, <1>10, <2>2 DEF Unanswered, Ends
  <2> QED BY <2>1, <2>2
<1>11. CASE Die(w)
  <2>1. /\ worker' = [worker EXCEPT ![w] = [at |-> "dead", task |-> None]]
        /\ UNCHANGED <<tasks, file, server, net, human, finished, added>>
    BY <1>11 DEF Die
  <2>2. Shapes' /\ Calls' /\ Serving'
    BY <1>8, <2>1 DEF Shapes, Calls, Serving
  <2>3. Workers'
    BY <2>1 DEF Workers, Shapes
  <2>4. ToCome' \in Nat /\ ToCome' <= ToCome
    BY <2>1, ToComeKept DEF Adding
  <2>5. Lists'
    BY <2>1, <2>4, ListsKept
  <2> QED BY <2>2, <2>3, <2>5 DEF TInv
<1> QED BY <1>5, <1>6, <1>7, <1>9, <1>10, <1>11 DEF Work

LEMMA RefuseTInv ==
  ASSUME TInv, NEW c \in Client, Refuse(c)
  PROVE  TInv'
<1> Shapes /\ Lists /\ Calls /\ Workers /\ Serving
  BY DEF TInv
<1> USE DEF CallState
<1>1. /\ net[c].kind = "request" /\ net' = [net EXCEPT ![c].kind = "dropped"]
      /\ UNCHANGED <<tasks, file, server, worker, human, finished, added>>
  BY DEF Refuse, clientVars
<1>2. Shapes'
  BY <1>1 DEF Shapes
<1>3. Calls'
  BY <1>1 DEF Calls, Shapes
<1>4. Workers'
  BY <1>1 DEF Workers, Shapes, Client
<1>5. Serving'
  BY <1>1 DEF Serving, Shapes
<1>6. ToCome' \in Nat /\ ToCome' <= ToCome
  BY <1>1, ToComeKept DEF Adding, Shapes, Client
<1>7. Lists'
  BY <1>1, <1>6, ListsKept
<1> QED BY <1>2, <1>3, <1>4, <1>5, <1>7 DEF TInv

LEMMA ManageTInv ==
  ASSUME TInv, Manage
  PROVE  TInv'
<1> Shapes /\ Lists /\ Calls /\ Workers /\ Serving
  BY DEF TInv
<1> USE DEF CallState, HumanState
<1>h. Human \in Client /\ Human \notin Worker
  BY OrchestratorAssumption DEF Client
<1>1. ASSUME UNCHANGED <<tasks, file, server, worker, finished>>,
             NEW call \in CallState, human' \in HumanState,
             added' \subseteq Ids \X {new.title : new \in Extra},
             net' = [net EXCEPT ![Human] = call],
             net[Human].kind # "served",
             call.kind # "none" =>
                /\ call.op \in {"resolve", "add", "tests"} /\ call.kind = "request"
                /\ call.op = "resolve" => call.arg \in Ids
                /\ call.op = "add" => call.arg \in Extra,
             ToCome' \in Nat /\ ToCome' <= ToCome
      PROVE  TInv'
  <2>1. Shapes'
    BY <1>1 DEF Shapes
  <2>2. Calls'
    BY <1>1, <1>h DEF Calls, Shapes
  <2>3. Workers'
    BY <1>1, <1>h DEF Workers, Shapes, Client
  <2>4. Serving'
    BY <1>1, <1>h DEF Serving, Shapes
  <2>5. Lists'
    BY <1>1, ListsKept
  <2> QED BY <2>1, <2>2, <2>3, <2>4, <2>5 DEF TInv
<1>2. NoCall \in CallState /\ NoCall.kind = "none"
  BY DEF NoCall, Op, Value
<1>3. net[Human] \in CallState /\ human \in HumanState
  BY <1>h DEF Shapes
<1>4. ASSUME NEW op \in {"resolve", "add", "tests"}, NEW arg \in Ids \cup Extra \cup {None},
             Call(Human, op, arg)
      PROVE  /\ net' = [net EXCEPT ![Human] = [kind |-> "request", op |-> op, arg |-> arg,
                                               value |-> None]]
             /\ [kind |-> "request", op |-> op, arg |-> arg, value |-> None] \in CallState
             /\ net[Human].kind = "none" /\ net'[Human].op = op
  <2> DEFINE call == [kind |-> "request", op |-> op, arg |-> arg, value |-> None]
  <2>1. net' = [net EXCEPT ![Human] = call] /\ net[Human].kind = "none"
    BY <1>4 DEF Call, NoCall
  <2>2. call \in CallState
    BY DEF Op, Value
  <2>3. net'[Human].op = op
    BY <1>h, <2>1 DEF Shapes
  <2> QED BY <2>1, <2>2, <2>3
<1>5. CASE Look
  <2>1. UNCHANGED <<tasks, file, server, net, worker, added, finished>>
    BY <1>5 DEF Look
  <2>2. TaskList(tasks) /\ Len(tasks) + ToCome <= Len(Initial) + Cardinality(Extra)
    BY DEF Lists, Sound
  <2>3. DOMAIN tasks \subseteq Ids
    <3>1. Len(Initial) \in Nat /\ Cardinality(Extra) \in Nat /\ ToCome \in Nat
      BY ToComeType, OrchestratorAssumption, LenProperties, FS_CardinalityType
    <3> QED BY <2>2, <3>1, TaskListFacts DEF Ids
  <2> DEFINE listed == {tasks[i].id : i \in {j \in DOMAIN tasks :
                                                tasks[j].status = "blocked" \/ tasks[j].human}}
  <2>4. listed \subseteq Ids
    BY <2>2, <2>3, TaskListFacts
  <2>5. human' = [human EXCEPT !.blockers = listed]
    BY <1>5 DEF Look
  <2> HIDE DEF listed
  <2>6. human' \in HumanState /\ human'.toAdd = human.toAdd
    BY <1>3, <2>4, <2>5
  <2>7. ToCome' \in Nat /\ ToCome' <= ToCome
    BY <2>1, <2>6, ToComeKept DEF Adding
  <2>8. Shapes'
    BY <2>1, <2>6 DEF Shapes
  <2>9. Calls' /\ Workers' /\ Serving'
    BY <2>1 DEF Calls, Workers, Serving
  <2> QED BY <2>1, <2>7, <2>8, <2>9, ListsKept DEF TInv
<1>6. CASE NoteTests
  <2>1. /\ human.notes > 0 /\ Call(Human, "tests", None)
        /\ human' = [human EXCEPT !.notes = human.notes - 1]
        /\ UNCHANGED <<tasks, file, server, worker, finished, added>>
    BY <1>6 DEF NoteTests
  <2>2. human.notes - 1 \in 0..NoteMax
    BY <1>3, <2>1, OrchestratorAssumption
  <2>3. human' \in HumanState /\ human'.toAdd = human.toAdd
    BY <1>3, <2>1, <2>2
  <2>4. ToCome' \in Nat /\ ToCome' <= ToCome
    BY <1>4, <2>1, <2>3, ToComeKept DEF Adding
  <2> QED BY <1>1, <1>4, <2>1, <2>3, <2>4 DEF Shapes
<1>7. CASE HumanAnswered
  <2>1. /\ net' = [net EXCEPT ![Human] = NoCall] /\ net[Human].kind = "answer"
        /\ UNCHANGED <<tasks, file, server, worker, human, finished>>
    BY <1>7 DEF HumanAnswered, Ends
  <2>2. added' \subseteq Ids \X {new.title : new \in Extra}
    <3>1. CASE net[Human].op = "add"
      <4>1. net[Human].value \in Ids /\ net[Human].arg \in Extra
        BY <1>h, <2>1, <3>1 DEF Calls
      <4>2. added' = added \cup {<<net[Human].value, net[Human].arg.title>>}
        BY <1>7, <3>1 DEF HumanAnswered
      <4> QED BY <4>1, <4>2 DEF Shapes
    <3>2. CASE net[Human].op # "add"
      BY <1>7, <3>2 DEF HumanAnswered, Shapes
    <3> QED BY <3>1, <3>2
  <2>3. ~Adding'
    BY <1>2, <1>h, <2>1 DEF Adding, Shapes
  <2> QED BY <1>1, <1>2, <1>3, <2>1, <2>2, <2>3, ToComeKept
<1>8. CASE HumanUnanswered
  <2>1. /\ net' = [net EXCEPT ![Human] = NoCall] /\ net[Human].kind = "dropped"
        /\ UNCHANGED <<tasks, file, server, worker, human, finished, added>>
    BY <1>8 DEF HumanUnanswered, Ends
  <2>2. ~Adding'
    BY <1>2, <1>h, <2>1 DEF Adding, Shapes
  <2> QED BY <1>1, <1>2, <1>3, <2>1, <2>2, ToComeKept DEF Shapes
<1>9. ASSUME NEW id \in human.blockers, Resolve(id) PROVE TInv'
  <2>1. /\ human.resolves > 0 /\ Call(Human, "resolve", id)
        /\ human' = [human EXCEPT !.blockers = {}, !.resolves = human.resolves - 1]
        /\ UNCHANGED <<tasks, file, server, worker, finished, added>>
    BY <1>9 DEF Resolve
  <2>2. human.resolves - 1 \in 0..ResolveMax /\ id \in Ids
    BY <1>3, <2>1, OrchestratorAssumption
  <2>3. human' \in HumanState /\ human'.toAdd = human.toAdd
    BY <1>3, <2>1, <2>2
  <2>4. ToCome' \in Nat /\ ToCome' <= ToCome
    BY <1>4, <2>1, <2>2, <2>3, ToComeKept DEF Adding
  <2> DEFINE call == [kind |-> "request", op |-> "resolve", arg |-> id, value |-> None]
  <2>5. net' = [net EXCEPT ![Human] = call] /\ call \in CallState /\ net[Human].kind = "none"
    BY <1>4, <2>1, <2>2
  <2> QED BY <1>1, <2>1, <2>2, <2>3, <2>4, <2>5 DEF Shapes
<1>10. ASSUME NEW new \in human.toAdd, Add(new) PROVE TInv'
  <2>1. /\ Call(Human, "add", new)
        /\ human' = [human EXCEPT !.toAdd = human.toAdd \ {new}]
        /\ UNCHANGED <<tasks, file, server, worker, finished, added>>
    BY <1>10 DEF Add
  <2>2. human' \in HumanState /\ human'.toAdd = human.toAdd \ {new} /\ new \in Extra
    BY <1>3, <2>1
  <2> DEFINE call == [kind |-> "request", op |-> "add", arg |-> new, value |-> None]
  <2>3. net' = [net EXCEPT ![Human] = call] /\ call \in CallState /\ net[Human].kind = "none"
    BY <1>4, <2>1, <2>2
  <2>4. ToCome' \in Nat /\ ToCome' <= ToCome
    <3>1. IsFiniteSet(human.toAdd) /\ Cardinality(human.toAdd) \in Nat
      BY ToComeType
    <3>2. Cardinality(human.toAdd \ {new}) = Cardinality(human.toAdd) - 1
      BY <3>1, FS_RemoveElement
    <3>3. IsFiniteSet(human.toAdd \ {new})
      BY <3>1, FS_RemoveElement
    <3>4. Cardinality(human.toAdd \ {new}) \in Nat
      BY <3>3, FS_CardinalityType
    <3> QED BY <2>2, <2>3, <3>1, <3>2, <3>4 DEF ToCome
  <2> QED BY <1>1, <2>1, <2>2, <2>3, <2>4 DEF Shapes
<1> QED BY <1>5, <1>6, <1>7, <1>8, <1>9, <1>10 DEF Manage

LEMMA NextTInv ==
  ASSUME TInv, [Next]_vars
  PROVE  TInv'
<1>1. CASE UNCHANGED vars
  BY <1>1 DEF vars, clientVars, TInv, Shapes, Lists, Sound, TaskList, ToCome, Disk, Calls,
              Workers, Serving
<1>2. CASE Next
  BY <1>2, SaveTInv, ManageTInv, HandleTInv, RefuseTInv, WorkTInv DEF Next, Serve
<1> QED BY <1>1, <1>2

LEMMA TInvHolds == Spec => []TInv
BY InitTInv, NextTInv, PTL DEF Spec

-----------------------------------------------------------------------------
(* Names: what a file has held is never forgotten.  NInv follows the id of *)
(* an addition from the handler through the first save, which makes it a   *)
(* name, to the answer.                                                    *)

Titles == {new.title : new \in Created}

\* The human's addition is being saved, or about to be answered.
Announcing == net[Human].kind = "served" /\ net[Human].op = "add"
Announcement == <<server.value, net[Human].arg.title>>
SavedOnce == server.at = "respond" \/ server.saves < 2

NInv ==
    /\ named \subseteq Ids \X Titles
    /\ NamesLast
    /\ file = Absent /\ file # Torn => named = {}
    /\ Announced \subseteq named
    /\ Announcing => /\ Announcement \in Names(tasks)
                     /\ SavedOnce => Announcement \in named

LEMMA TasksAreTyped ==
  ASSUME TInv
  PROVE  /\ \A i \in DOMAIN tasks : IsTask(tasks[i])
         /\ file \in {Absent, Torn} \/ \A i \in DOMAIN file : IsTask(file[i])
<1>1. Lists /\ Len(Initial) \in Nat /\ Cardinality(Extra) \in Nat /\ ToCome \in Nat
  BY ToComeType, OrchestratorAssumption, LenProperties, FS_CardinalityType DEF TInv
<1>2. ASSUME NEW ts, Sound(ts) PROVE \A i \in DOMAIN ts : IsTask(ts[i])
  BY <1>1, <1>2, TaskListFacts DEF Sound, IsTask, Ids
<1> QED BY <1>1, <1>2 DEF Lists, Disk

\* The tasks in memory have one name for each id.
LEMMA NamesOfTasks ==
  ASSUME TInv
  PROVE  /\ Names(tasks) \subseteq Ids \X Titles
         /\ \A m, n \in Names(tasks) : m[1] = n[1] => m = n
<1>1. \A i \in DOMAIN tasks : tasks[i].id = i /\ tasks[i].id \in Ids /\ tasks[i].title \in Titles
  BY TasksAreTyped DEF TInv, Lists, Sound, TaskList, IsTask, Record, Titles
<1> QED BY <1>1 DEF Names

LEMMA UpdatedKeepsNames ==
  ASSUME TaskList(tasks), NEW i, NEW status, NEW to, NEW forHuman,
         Updated(i, status, to, forHuman)
  PROVE  Names(tasks) \subseteq Names(tasks)'
<1>1. \A j \in DOMAIN tasks : tasks[j] \in Record
  BY TaskListFacts
<1>2. \A j \in DOMAIN tasks : tasks'[j].id = tasks[j].id /\ tasks'[j].title = tasks[j].title
  BY <1>1 DEF Updated, Record
<1> QED BY <1>2 DEF Updated, Names

\* No name is forgotten by a handler, and an addition's is in memory at once.
LEMMA HandlerKeepsNames ==
  ASSUME TInv, NEW c \in Client, Handle(c)
  PROVE  /\ Names(tasks) \subseteq Names(tasks)'
         /\ Announcing' => (Announcement \in Names(tasks))' /\ ~SavedOnce'
<1>1. /\ TaskList(tasks) /\ Calls /\ net \in [Client -> CallState]
      /\ Human \in Client /\ Human \notin Worker
      /\ server.at = "idle" => net[Human].kind # "served"
  BY OrchestratorAssumption DEF TInv, Lists, Sound, Shapes, Client, Serving, Busying
<1>2. ASSUME NEW v, NEW n, server.at = "idle", Saving(c, v, n), net[c].op # "add"
      PROVE  ~Announcing'
  BY <1>1, <1>2 DEF Saving, Announcing, CallState
<1>3. ASSUME NEW v, server.at = "idle", Reply(c, v)
      PROVE  Names(tasks) \subseteq Names(tasks)' /\ ~Announcing'
  BY <1>1, <1>3 DEF Reply, Answered, Names, Announcing, CallState
<1>4. CASE GetNextTask(c)
  <2>1. net[c].op = "next" /\ server.at = "idle" /\ c \in Worker
    BY <1>1, <1>4 DEF GetNextTask, Takes, Calls, Client
  <2> QED BY <1>1, <1>2, <1>4, <2>1, NextTaskUpdates, UpdatedKeepsNames
<1>5. CASE MarkTaskDone(c)
  <2>1. net[c].op = "done" /\ server.at = "idle" /\ Saving(c, "ok", 2)
    BY <1>5 DEF MarkTaskDone, Takes
  <2> QED BY <1>1, <1>2, <1>5, <2>1, DoneUpdates, UpdatedKeepsNames
<1>6. CASE MarkTaskBlocked(c)
  <2>1. net[c].op = "blocked" /\ server.at = "idle" /\ Saving(c, "ok", 2)
    BY <1>6 DEF MarkTaskBlocked, Takes
  <2> QED BY <1>1, <1>2, <1>6, <2>1, BlockedUpdates, UpdatedKeepsNames
<1>7. CASE ResolveBlocked(c)
  <2>1. net[c].op = "resolve" /\ server.at = "idle" /\ Saving(c, "ok", 2)
    BY <1>7 DEF ResolveBlocked, Takes
  <2> QED BY <1>1, <1>2, <1>7, <2>1, ResolveUpdates, UpdatedKeepsNames
<1>8. CASE AddTask(c)
  <2> DEFINE id == Len(tasks) + 1
  <2>1. net[c].kind = "request" /\ net[c].op = "add" /\ c = Human /\ net[c].arg \in Extra
    BY <1>1, <1>8 DEF AddTask, Takes, Calls
  <2>2. /\ DOMAIN tasks' = DOMAIN tasks \cup {id} /\ tasks'[id] = NewTask(id, net[c].arg)
        /\ \A j \in DOMAIN tasks : tasks'[j] = tasks[j]
        /\ Saving(c, id, 2)
    BY <1>1, <1>8, <2>1, AddAppends
  <2>3. Names(tasks) \subseteq Names(tasks)'
    BY <2>2 DEF Names
  <2>4. server'.value = id /\ ~SavedOnce' /\ net'[Human].arg = net[c].arg
    BY <1>1, <2>1, <2>2 DEF Saving, SavedOnce, CallState
  <2>5. tasks'[id].id = id /\ tasks'[id].title = net[c].arg.title /\ id \in DOMAIN tasks'
    BY <2>2 DEF NewTask
  <2>6. (Announcement \in Names(tasks))'
    BY <2>4, <2>5 DEF Announcement, Names
  <2> QED BY <2>3, <2>4, <2>6
<1>9. CASE UpdateTests(c)
  <2>1. net[c].op = "tests" /\ server.at = "idle" /\ Saving(c, "ok", 1) /\ UNCHANGED tasks
    BY <1>9 DEF UpdateTests, Takes
  <2> QED BY <1>2, <2>1 DEF Names
<1>10. CASE NoNextTask(c)
  BY <1>3, <1>10 DEF NoNextTask, Takes
<1>11. CASE NotFound(c)
  BY <1>3, <1>11 DEF NotFound
<1> QED BY <1>4, <1>5, <1>6, <1>7, <1>8, <1>9, <1>10, <1>11 DEF Handle

\* A step that writes nothing, starts nothing, forgets no name and announces nothing new.
LEMMA QuietNInv ==
  ASSUME NInv, UNCHANGED named, file' # Torn => UNCHANGED file, Announced' \subseteq Announced,
         Up' => Up /\ Names(tasks) \subseteq Names(tasks)',
         Announcing' => /\ (Announcement \in Names(tasks))'
                        /\ SavedOnce' => Announcement' \in named
  PROVE  NInv'
<1>1. Announced' \subseteq named /\ added' \subseteq Announced'
  BY DEF NInv, Announced
<1>2. file' \notin {Absent, Torn} => named \subseteq Names(file)'
  BY DEF NInv, NamesLast, Names
<1>3. NamesLast'
  <2>1. Up' => named \subseteq Names(tasks)'
    BY DEF NInv, NamesLast, Up
  <2> QED BY <1>1, <1>2, <2>1 DEF NInv, NamesLast, Up
<1> QED BY <1>1, <1>3 DEF NInv

LEMMA InitNInv == Init => NInv
BY NobodyIsNoClient
DEF Init, NInv, NamesLast, Announced, Announcing, NoCall, Idle

\* What the human reads or sends announces nothing.
LEMMA CallsAnnounceNothing ==
  ASSUME UNCHANGED added,
         net'[Human] = net[Human] \/ net'[Human].kind \in {"none", "request", "dropped", "served"}
  PROVE  Announced' \subseteq Announced
BY DEF Announced

LEMMA NextNInv ==
  ASSUME TInv, NInv, [Next]_vars
  PROVE  NInv'
<1>1. /\ TaskList(tasks) /\ tasks # Absent
      /\ Calls /\ Serving /\ server \in ServerState
      /\ net \in [Client -> CallState]
      /\ Human \in Client /\ Human \notin Worker /\ Nobody \notin Client
  BY OrchestratorAssumption DEF TInv, Lists, Sound, TaskList, Shapes, Client
<1>2. Announcing <=> /\ server.at \in Busying /\ server.client = Human
                     /\ net[Human].op = "add"
  BY <1>1 DEF Serving, Announcing
\* A step of a client, who sends or reads.
<1>3. ASSUME UNCHANGED <<tasks, file, named, server>>, Announced' \subseteq Announced,
             net'[Human] = net[Human] \/ net'[Human].kind # "served"
      PROVE  NInv'
  BY <1>3, QuietNInv DEF NInv, Announcing, Announcement, SavedOnce, Names, Up
<1>4. CASE UNCHANGED vars
  BY <1>3, <1>4 DEF vars, clientVars, Announced
<1>5. CASE Look \/ NoteTests \/ HumanUnanswered \/ (\E new \in human.toAdd : Add(new))
             \/ (\E id \in human.blockers : Resolve(id))
  <2>1. /\ UNCHANGED <<tasks, file, named, server, added>>
        /\ net'[Human] = net[Human] \/ net'[Human].kind \in {"none", "request"}
    BY <1>1, <1>5 DEF Look, NoteTests, HumanUnanswered, Add, Resolve, Call, Ends, NoCall
  <2> QED BY <1>3, <2>1, CallsAnnounceNothing
<1>6. CASE HumanAnswered
  <2>1. /\ UNCHANGED <<tasks, file, named, server>>
        /\ net'[Human].kind = "none" /\ Announced' \subseteq Announced
    BY <1>1, <1>6 DEF HumanAnswered, Ends, NoCall, Announced
  <2> QED BY <1>3, <2>1
<1>7. ASSUME NEW w \in Worker, Work(w) \/ Die(w) PROVE NInv'
  <2>1. net'[Human] = net[Human] /\ UNCHANGED <<tasks, file, named, server, added>>
    BY <1>1, <1>7
    DEF Work, Die, Ask, GetsTask, Report, Reported, Unanswered, Call, Ends
  <2> QED BY <1>3, <2>1, CallsAnnounceNothing
<1>8. ASSUME NEW c \in Client, Refuse(c) PROVE NInv'
  <2>1. /\ UNCHANGED <<tasks, file, named, server, added>>
        /\ net'[Human] = net[Human] \/ net'[Human].kind = "dropped"
    BY <1>1, <1>8 DEF Refuse, clientVars, CallState
  <2> QED BY <1>3, <2>1, CallsAnnounceNothing
<1>9. ASSUME NEW c \in Client, Handle(c) PROVE NInv'
  <2> DEFINE Answers == /\ UNCHANGED <<file, named, added>> /\ (Up' <=> Up)
                        /\ Announced' \subseteq Announced
  <2>1. ASSUME NEW v, NEW n, server.at = "idle", Saving(c, v, n) PROVE Answers
    <3>1. net'[Human] = net[Human] \/ net'[Human].kind = "served"
      BY <1>1, <2>1 DEF Saving, CallState
    <3> QED BY <2>1, <3>1, CallsAnnounceNothing DEF Saving, clientVars, Up
  <2>2. ASSUME NEW v, net[c].op # "add", Reply(c, v) PROVE Answers
    BY <1>1, <2>2 DEF Reply, Answered, clientVars, CallState, Up, Announced
  <2>3. server.at = "idle"
    BY <1>9 DEF Handle, GetNextTask, NoNextTask, MarkTaskDone, MarkTaskBlocked,
                ResolveBlocked, AddTask, UpdateTests, NotFound, Takes
  <2>4. (\E v, n : Saving(c, v, n)) \/ (net[c].op # "add" /\ \E v : Reply(c, v))
    BY <1>9 DEF Handle, GetNextTask, NoNextTask, MarkTaskDone, MarkTaskBlocked,
                ResolveBlocked, AddTask, UpdateTests, NotFound, Takes
  <2>5. Answers
    BY <2>1, <2>2, <2>3, <2>4
  <2> QED BY <1>9, <2>5, HandlerKeepsNames, QuietNInv
<1>10. CASE Truncate
  <2>1. /\ UNCHANGED <<tasks, named, net, added>> /\ file' = Torn
        /\ server.at = "truncate" /\ server' = [server EXCEPT !.at = "write"]
    BY <1>10 DEF Truncate, clientVars
  <2>2. Up /\ server'.value = server.value /\ server'.saves = server.saves /\ server'.at = "write"
    BY <1>1, <2>1 DEF ServerState, Up
  <2>3. Announced' = Announced /\ Names(tasks)' = Names(tasks) /\ Announcement' = Announcement
        /\ Announcing' = Announcing /\ (SavedOnce' => SavedOnce)
    BY <2>1, <2>2 DEF Announced, Names, Announcement, Announcing, SavedOnce
  <2> QED BY <2>1, <2>2, <2>3, QuietNInv DEF NInv
<1>11. CASE Write
  <2>1. /\ UNCHANGED <<tasks, net, added>> /\ server.at = "write"
        /\ file' = tasks /\ named' = named \cup Names(tasks)
        /\ server' = [server EXCEPT !.at = IF server.saves > 1 THEN "truncate" ELSE "respond",
                                    !.saves = server.saves - 1]
    BY <1>11 DEF Write, clientVars
  <2>2. server'.value = server.value
    BY <1>1, <2>1 DEF ServerState
  <2>3. /\ Announced' = Announced /\ Names(tasks)' = Names(tasks) /\ Announcement' = Announcement
        /\ Announcing' = Announcing
    BY <2>1, <2>2 DEF Announced, Names, Announcement, Announcing
  <2>4. named' = Names(tasks)
    BY <2>1 DEF NInv, NamesLast
  <2>5. NamesLast'
    BY <2>1, <2>3, <2>4, NamesOfTasks DEF NInv, NamesLast, Names
  <2>6. Announced' \subseteq named' /\ named' \subseteq Ids \X Titles
    BY <2>1, <2>3, <2>4, NamesOfTasks DEF NInv
  <2>7. Announcing' => (Announcement \in Names(tasks))' /\ Announcement' \in named'
    BY <2>3, <2>4 DEF NInv
  <2> QED BY <1>1, <2>1, <2>5, <2>6, <2>7 DEF NInv
<1>12. CASE Respond
  <2>1. /\ UNCHANGED <<tasks, file, named, added>> /\ server.at = "respond" /\ server' = Idle
        /\ net' = IF server.client \in Client THEN Answered(server.client, server.value) ELSE net
    BY <1>12 DEF Respond, clientVars
  <2>2. ~Announcing'
    BY <1>1, <2>1 DEF Announcing, Serving, Answered, CallState, Busying
  <2>3. Announced' \subseteq Announced \cup (IF Announcing THEN {Announcement} ELSE {})
    BY <1>1, <1>2, <2>1 DEF Announced, Answered, Announcement, CallState, Busying
  <2>4. Announced' \subseteq named
    BY <2>1, <2>3 DEF NInv, SavedOnce
  <2>5. NamesLast'
    BY <2>1 DEF NInv, NamesLast, Names
  <2> QED BY <2>1, <2>2, <2>4, <2>5 DEF NInv
<1>13. CASE Raise
  <2>1. /\ UNCHANGED <<tasks, file, named, added>> /\ server.at \in Busying
        /\ net' = [net EXCEPT ![server.client].kind = "dropped"]
        /\ server.client \in Client
    BY <1>13 DEF Raise, clientVars, Busying
  <2>2. (net'[Human] = net[Human] /\ ~Announcing) \/ net'[Human].kind = "dropped"
    BY <1>1, <1>2, <2>1 DEF CallState
  <2>3. ~Announcing' /\ Announced' \subseteq Announced
    BY <2>1, <2>2, CallsAnnounceNothing DEF Announcing
  <2>4. Up /\ Names(tasks)' = Names(tasks)
    BY <2>1 DEF Up, Busying, Names
  <2> QED BY <2>1, <2>3, <2>4, QuietNInv
<1>14. CASE Crash
  <2>1. /\ UNCHANGED <<file, named, added>> /\ ~Up'
        /\ net' = [c \in Client |-> IF net[c].kind \in {"request", "served"}
                                    THEN [net[c] EXCEPT !.kind = "dropped"] ELSE net[c]]
    BY <1>14 DEF Crash, clientVars, Idle, Up
  <2>2. net'[Human].kind # "served" /\ (net'[Human] = net[Human] \/ net'[Human].kind = "dropped")
    BY <1>1, <2>1 DEF CallState
  <2>3. ~Announcing' /\ Announced' \subseteq Announced
    BY <2>1, <2>2, CallsAnnounceNothing DEF Announcing
  <2> QED BY <2>1, <2>3, QuietNInv
<1>15. CASE Start
  <2>1. /\ UNCHANGED <<file, named, added, net>> /\ ~Up /\ file # Torn
        /\ tasks' = IF file = Absent THEN InitialTasks ELSE file
        /\ server' = [Idle EXCEPT !.at = "truncate", !.saves = 1]
    BY <1>15 DEF Start, clientVars, Up
  <2>2. ~Announcing'
    BY <1>2, <2>1 DEF Announcing, Up, Busying
  <2>3. named \subseteq Names(tasks)'
    BY <2>1 DEF NInv, NamesLast, Names
  <2>4. Announced' = Announced /\ NamesLast'
    BY <2>1, <2>3 DEF Announced, NInv, NamesLast, Names
  <2> QED BY <2>1, <2>2, <2>4 DEF NInv
<1> QED BY <1>4, <1>5, <1>6, <1>7, <1>8, <1>9, <1>10, <1>11, <1>12, <1>13, <1>14, <1>15
        DEF Next, Manage, Save, Serve

LEMMA NInvHolds == Spec => [](TInv /\ NInv)
<1>1. Init => TInv /\ NInv
  BY InitTInv, InitNInv
<1>2. TInv /\ NInv /\ [Next]_vars => (TInv /\ NInv)'
  BY NextTInv, NextNInv
<1> QED BY <1>1, <1>2, PTL DEF Spec

\* An id that a state file has held names one task for good, in memory and in every file that
\* can be read, through failed saves, kills and restarts, and an addition is answered with such
\* an id: add_task numbers by the length of a list that only grows while the server runs, and
\* the server starts with the list it saved last, or not at all.
THEOREM OrchestratorNamesLast == Spec => []TasksAreSound
<1>1. TInv /\ NInv => TasksAreSound
  <2> SUFFICES ASSUME TInv, NInv PROVE TasksAreSound
    OBVIOUS
  <2>1. Shapes /\ Lists /\ NamesLast /\ named \subseteq Ids \X Titles
    BY DEF TInv, NInv
  <2>2. Numbered(tasks) /\ (file \notin {Absent, Torn} => Numbered(file))
    BY <2>1 DEF Lists, Sound, TaskList, Disk, Numbered
  <2>3. TypeOK
    BY <2>1, TasksAreTyped
    DEF TypeOK, Shapes, ServerState, CallState, WorkerState, HumanState, Busying, Titles
  <2> QED BY <2>1, <2>2, <2>3 DEF TasksAreSound
<1> QED BY <1>1, NInvHolds, PTL

-----------------------------------------------------------------------------
(* Knowledge: every step keeps KInv. *)

LEMMA DurableLess ==
  ASSUME NEW ts, NEW h, NEW k, NEW a, NEW h2, NEW k2, NEW a2, Durable(ts, h, k, a),
         h2 \subseteq h, k2 \subseteq k, a2 \subseteq a
  PROVE  Durable(ts, h2, k2, a2)
BY DEF Durable

LEMMA UnlistedLess ==
  ASSUME NEW ts, NEW l, NEW l2, Unlisted(ts, l), l2 \subseteq l
  PROVE  Unlisted(ts, l2)
BY DEF Unlisted

\* A step by which nothing is handed out, completed or listed that was not before.
Quiet ==
    /\ Held' \subseteq Held /\ Completed' \subseteq Completed /\ Announced' \subseteq Announced
    /\ Listed' \subseteq Listed
    /\ \A p \in Held' : p[2] \notin finished'
    /\ Resolving' => human'.blockers = {}

LEMMA QuietOwnership ==
  ASSUME Ownership, Quiet
  PROVE  Ownership'
BY DEF Ownership, Quiet

LEMMA QuietKnowledge ==
  ASSUME Knowledge, Quiet, UNCHANGED tasks, file' # Torn => file # Torn /\ UNCHANGED file,
         Up' <=> Up
  PROVE  Knowledge'
<1>1. file' # Torn => Disk' = Disk /\ file # Torn
  BY DEF Disk
<1>2. Up' => Durable(tasks', Held', Completed', Announced') /\ Unlisted(tasks', Listed')
  BY DurableLess, UnlistedLess DEF Knowledge, Quiet
<1>3. file' # Torn => Durable(Disk', Held', Completed', Announced')
  BY <1>1, DurableLess DEF Knowledge, Quiet
<1>4. Restartable' => Unlisted(Disk', Listed')
  <2> SUFFICES ASSUME Restartable' PROVE Unlisted(Disk', Listed')
    OBVIOUS
  <2>1. Restartable /\ Disk' = Disk
    BY <1>1 DEF Restartable
  <2>2. Unlisted(Disk, Listed)
    BY <2>1 DEF Knowledge
  <2> QED BY <2>1, <2>2, UnlistedLess DEF Quiet
<1> QED BY <1>2, <1>3, <1>4 DEF Knowledge

LEMMA InitKInv == Init => KInv
<1> SUFFICES ASSUME Init PROVE KInv
  OBVIOUS
<1>1. Held = {} /\ Completed = {} /\ Announced = {} /\ Listed = {} /\ ~Resolving /\ finished = {}
  BY NobodyIsNoClient
  DEF Init, NoCall, Held, Holds, Completed, Announced, Listed, Resolving, Client
<1>2. ~Up /\ server.at = "down"
  BY DEF Init, Idle, Up
<1>3. Knowledge
  BY <1>1, <1>2 DEF Knowledge, Durable, Unlisted
<1>4. Ownership
  BY <1>1 DEF Ownership
<1>5. Underway
  BY <1>2 DEF Underway, Busying
<1>6. Saved
  BY <1>2 DEF Saved, Up
<1> QED BY <1>3, <1>4, <1>5, <1>6 DEF KInv

\* Steps of one worker and of the calls it makes.
LEMMA WorkerView ==
  ASSUME TInv, NEW w \in Worker, NEW call, NEW state,
         net' = [net EXCEPT ![w] = call], worker' = [worker EXCEPT ![w] = state],
         UNCHANGED <<human, added>>,
         finished' = finished \/ finished' = finished \cup {worker[w].task},
         \A id \in Ids : Holds(w, id)' => Holds(w, id),
         finished' # finished =>
            /\ worker[w].at = "finishing" /\ net[w].kind = "answer"
            /\ \A id \in Ids : ~Holds(w, id)',
         state.at = "finishing" /\ call.kind = "answer" =>
            /\ worker[w].at = "finishing" /\ net[w].kind = "answer"
            /\ state.task = worker[w].task,
         Ownership
  PROVE  Quiet
<1>1. w \in Client /\ w # Human /\ Human \in Client
  BY OrchestratorAssumption DEF Client
<1>2. /\ net' \in [Client -> {net'[c] : c \in Client}] /\ net'[w] = call /\ worker'[w] = state
      /\ \A c \in Client : c # w => net'[c] = net[c]
      /\ \A v \in Worker : v # w => worker'[v] = worker[v]
  BY <1>1 DEF TInv, Shapes
<1>3. Held' \subseteq Held
  BY <1>1, <1>2 DEF Held, Holds, Client
<1>4. Completed' \subseteq Completed
  BY <1>1, <1>2 DEF Completed, Client
<1>5. Announced' = Announced /\ Listed' = Listed /\ Resolving' = Resolving
  BY <1>1, <1>2 DEF Announced, Listed, Resolving
<1>6. \A p \in Held' : p[2] \notin finished'
  <2> SUFFICES ASSUME NEW p \in Held', p[2] \in finished' PROVE FALSE
    OBVIOUS
  <2>1. p \in Held /\ p[2] \notin finished
    BY <1>3 DEF Ownership
  <2>2. finished' # finished /\ p[2] = worker[w].task
    BY <2>1
  <2>3. p[1] \in Worker /\ p[2] \in Ids /\ Holds(p[1], p[2])' /\ p = <<p[1], p[2]>>
    BY DEF Held
  <2>4. Holds(w, p[2])
    BY <2>2 DEF Holds
  <2>5. <<w, p[2]>> \in Held
    BY <2>3, <2>4 DEF Held
  <2>6. p[1] = w
    BY <2>1, <2>3, <2>5 DEF Ownership
  <2> QED BY <2>2, <2>3, <2>6
<1> QED BY <1>3, <1>4, <1>5, <1>6 DEF Quiet, Ownership

LEMMA WorkKInv ==
  ASSUME TInv, KInv, NEW w \in Worker, Work(w) \/ Die(w)
  PROVE  KInv'
<1> USE DEF KInv
<1>w. w \in Client /\ w # Human
  BY OrchestratorAssumption DEF Client
<1>1. /\ Workers /\ Calls /\ Shapes /\ Serving
      /\ worker \in [Worker -> WorkerState] /\ net \in [Client -> CallState]
  BY DEF TInv, Shapes
<1>2. ASSUME UNCHANGED <<tasks, file, server>>, net[w].kind # "served", net'[w].kind # "served",
             \A c \in Client : c # w => net'[c] = net[c], Quiet
      PROVE  KInv'
  <2>1. Knowledge' /\ Ownership'
    BY <1>2, QuietKnowledge, QuietOwnership DEF Up
  <2>2. Underway'
    <3>1. ASSUME server.at \in Busying, server.client \in Client
          PROVE  net'[server.client] = net[server.client]
      BY <1>1, <1>2, <3>1 DEF Serving
    <3> QED BY <1>2, <3>1 DEF Underway, Quiet
  <2>3. Saved'
    BY <1>2 DEF Saved, Up, Disk
  <2> QED BY <2>1, <2>2, <2>3
<1>3. NoCall.kind = "none"
  BY DEF NoCall
<1>4. CASE Ask(w)
  <2> DEFINE call == [kind |-> "request", op |-> "next", arg |-> None, value |-> None]
  <2>1. /\ net' = [net EXCEPT ![w] = call] /\ net[w].kind = "none"
        /\ worker' = [worker EXCEPT ![w] = worker'[w]] /\ worker'[w].at = "asking"
        /\ UNCHANGED <<tasks, file, server, human, finished, added>>
    BY <1>1, <1>3, <1>4 DEF Ask, Call
  <2>2. net'[w] = call /\ \A c \in Client : c # w => net'[c] = net[c]
    BY <1>1, <1>w, <2>1
  <2>3. \A id \in Ids : Holds(w, id)' => Holds(w, id)
    BY <2>1, <2>2 DEF Holds
  <2>4. Quiet
    BY <2>1, <2>3, WorkerView
  <2> QED BY <1>2, <2>1, <2>2, <2>4
<1>5. CASE GetsTask(w)
  <2>1. /\ net' = [net EXCEPT ![w] = NoCall] /\ net[w].kind = "answer" /\ net[w].op = "next"
        /\ worker' = [worker EXCEPT ![w] = worker'[w]]
        /\ worker'[w] = IF net[w].value = None THEN [at |-> "stopped", task |-> None]
                                               ELSE [at |-> "working", task |-> net[w].value]
        /\ UNCHANGED <<tasks, file, server, human, finished, added>>
    BY <1>1, <1>5 DEF GetsTask, Ends, Workers
  <2>2. net'[w] = NoCall /\ \A c \in Client : c # w => net'[c] = net[c]
    BY <1>1, <1>w, <2>1
  <2>3. \A id \in Ids : Holds(w, id)' => Holds(w, id)
    BY <1>3, <2>1, <2>2 DEF Holds
  <2>4. Quiet
    BY <1>3, <2>1, <2>3, WorkerView
  <2> QED BY <1>2, <1>3, <2>1, <2>2, <2>4
<1>6. CASE Report(w)
  <2>1. PICK op \in {"done", "blocked"} :
          /\ Call(w, op, worker[w].task)
          /\ worker'[w].at = IF op = "done" THEN "finishing" ELSE "escalating"
          /\ worker'[w].task = worker[w].task
          /\ worker' = [worker EXCEPT ![w] = worker'[w]]
    BY <1>1, <1>6 DEF Report, WorkerState
  <2> DEFINE call == [kind |-> "request", op |-> op, arg |-> worker[w].task, value |-> None]
  <2>2. /\ net' = [net EXCEPT ![w] = call] /\ net[w].kind = "none"
        /\ worker[w].at = "working"
        /\ UNCHANGED <<tasks, file, server, human, finished, added>>
    BY <1>1, <1>3, <1>6, <2>1 DEF Report, Call
  <2>3. net'[w] = call /\ \A c \in Client : c # w => net'[c] = net[c]
    BY <1>1, <1>w, <2>2
  <2>4. \A id \in Ids : Holds(w, id)' => Holds(w, id)
    BY <2>1, <2>2, <2>3 DEF Holds
  <2>5. Quiet
    BY <2>1, <2>2, <2>4, WorkerView
  <2> QED BY <1>2, <2>2, <2>3, <2>5
<1>7. CASE Reported(w)
  <2>1. /\ net' = [net EXCEPT ![w] = NoCall] /\ net[w].kind = "answer"
        /\ worker[w].at \in {"finishing", "escalating"}
        /\ worker' = [worker EXCEPT ![w] = [at |-> "idle", task |-> None]]
        /\ finished' = IF worker[w].at = "finishing" THEN finished \cup {worker[w].task}
                                                     ELSE finished
        /\ UNCHANGED <<tasks, file, server, human, added>>
    BY <1>7 DEF Reported, Ends
  <2>2. /\ net'[w] = NoCall /\ \A c \in Client : c # w => net'[c] = net[c]
        /\ worker'[w] = [at |-> "idle", task |-> None]
    BY <1>1, <1>w, <2>1
  <2>3. \A id \in Ids : ~Holds(w, id)'
    BY <1>3, <2>2 DEF Holds
  <2>4. Quiet
    BY <1>3, <2>1, <2>3, WorkerView
  <2> QED BY <1>2, <1>3, <2>1, <2>2, <2>4
<1>8. CASE Unanswered(w)
  <2>1. /\ net' = [net EXCEPT ![w] = NoCall] /\ net[w].kind = "dropped"
        /\ worker' = [worker EXCEPT ![w] = worker'[w]]
        /\ worker[w].at = "finishing" =>
              worker'[w].at = "working" /\ worker'[w].task = worker[w].task
        /\ worker[w].at # "finishing" => worker'[w].at = "idle"
        /\ UNCHANGED <<tasks, file, server, human, finished, added>>
    BY <1>1, <1>8 DEF Unanswered, Ends, WorkerState
  <2>2. net'[w] = NoCall /\ \A c \in Client : c # w => net'[c] = net[c]
    BY <1>1, <1>w, <2>1
  <2>3. \A id \in Ids : Holds(w, id)' => Holds(w, id)
    BY <1>3, <2>1, <2>2 DEF Holds
  <2>4. Quiet
    BY <1>3, <2>1, <2>3, WorkerView
  <2> QED BY <1>2, <1>3, <2>1, <2>2, <2>4
<1>9. CASE Die(w)
  <2>1. /\ worker' = [worker EXCEPT ![w] = [at |-> "dead", task |-> None]]
        /\ worker'[w] = [at |-> "dead", task |-> None]
        /\ UNCHANGED <<tasks, file, server, net, human, finished, added>>
    BY <1>1, <1>9 DEF Die
  <2>2. net' = [net EXCEPT ![w] = net[w]]
    BY <1>1, <2>1
  <2>3. \A id \in Ids : Holds(w, id)' => Holds(w, id)
    BY <2>1 DEF Holds
  <2>4. Quiet
    BY <2>1, <2>2, <2>3, WorkerView
  <2>5. Knowledge' /\ Ownership'
    BY <2>1, <2>4, QuietKnowledge, QuietOwnership DEF Up
  <2>6. Underway'
    BY <2>1, <2>4 DEF Underway, Quiet
  <2>7. Saved'
    BY <2>1 DEF Saved, Up, Disk
  <2> QED BY <2>5, <2>6, <2>7
<1> QED BY <1>4, <1>5, <1>6, <1>7, <1>8, <1>9 DEF Work

LEMMA ManageKInv ==
  ASSUME TInv, KInv, Manage
  PROVE  KInv'
<1> USE DEF KInv
<1>h. Human \in Client /\ Human \notin Worker
  BY OrchestratorAssumption DEF Client
<1>1. /\ Calls /\ Shapes /\ Serving /\ Lists
      /\ human \in HumanState /\ net \in [Client -> CallState]
  BY DEF TInv, Shapes
<1>2. ASSUME UNCHANGED <<tasks, file, server>>, net[Human].kind # "served", net'[Human].kind # "served",
             \A c \in Client : c # Human => net'[c] = net[c], Quiet
      PROVE  KInv'
  <2>1. Knowledge' /\ Ownership'
    BY <1>2, QuietKnowledge, QuietOwnership DEF Up
  <2>2. Underway'
    <3>1. ASSUME server.at \in Busying, server.client \in Client
          PROVE  net'[server.client] = net[server.client]
      BY <1>1, <1>2, <3>1 DEF Serving
    <3> QED BY <1>2, <3>1 DEF Underway, Quiet
  <2>3. Saved'
    BY <1>2 DEF Saved, Up, Disk
  <2> QED BY <2>1, <2>2, <2>3
<1>3. ASSUME NEW call, net' = [net EXCEPT ![Human] = call], UNCHANGED <<worker, finished>>
      PROVE  /\ Held' = Held /\ Completed' = Completed
             /\ net'[Human] = call /\ \A c \in Client : c # Human => net'[c] = net[c]
  <2>1. net'[Human] = call /\ \A c \in Client : c # Human => net'[c] = net[c]
    BY <1>1, <1>3, <1>h
  <2>2. \A w \in Worker : net'[w] = net[w]
    BY <1>h, <2>1 DEF Client
  <2> QED BY <1>3, <2>1, <2>2 DEF Held, Holds, Completed
<1>4. \A p \in Held : p[2] \notin finished
  BY DEF Ownership
<1>5. NoCall.kind = "none"
  BY DEF NoCall
<1>6. CASE Look
  <2>1. /\ server.at = "idle" /\ net[Human] = NoCall
        /\ human' = [human EXCEPT !.blockers = human'.blockers]
        /\ human'.blockers = {tasks[i].id : i \in {j \in DOMAIN tasks :
                                 tasks[j].status = "blocked" \/ tasks[j].human}}
        /\ UNCHANGED <<tasks, file, server, net, worker, added, finished>>
    BY <1>1, <1>6 DEF Look, HumanState
  <2>2. /\ Held' = Held /\ Completed' = Completed /\ Announced' = Announced
        /\ ~Resolving' /\ Listed' = human'.blockers
    BY <1>5, <2>1 DEF Held, Holds, Completed, Announced, Resolving, Listed
  <2>3. TaskList(tasks) /\ (file # Torn => TaskList(Disk))
    BY <1>1 DEF Lists, Sound
  <2>4. \A id \in Listed' : /\ id \in DOMAIN tasks
                            /\ tasks[id].status = "blocked" \/ tasks[id].human
    BY <2>1, <2>2, <2>3 DEF TaskList
  <2>5. Unlisted(tasks', Listed')
    BY <2>1, <2>4 DEF Unlisted, Takeable
  <2>6. Up /\ Up' /\ Disk' = Disk
    BY <2>1 DEF Up, Disk
  <2>7. Restartable' => Unlisted(Disk', Listed')
    <3> SUFFICES ASSUME Restartable', NEW id \in Listed',
                        id \in DOMAIN Disk'
                 PROVE  ~Takeable(Disk'[id])
      BY DEF Unlisted
    <3>1. file # Torn
      BY <2>1 DEF Restartable
    <3> QED BY <2>4, <2>6, <3>1 DEF Saved, Takeable
  <2>8. Knowledge'
    BY <2>1, <2>2, <2>5, <2>6, <2>7 DEF Knowledge
  <2>9. Durable(tasks, Held, Completed, Announced)
    BY <2>6 DEF Knowledge
  <2>10. Ownership'
    BY <2>1, <2>2, <2>4, <2>9 DEF Ownership, Durable
  <2>11. Underway'
    BY <2>1 DEF Underway, Busying
  <2>12. Saved'
    BY <2>1, <2>6 DEF Saved
  <2> QED BY <2>8, <2>10, <2>11, <2>12
<1>7. CASE NoteTests
  <2> DEFINE call == [kind |-> "request", op |-> "tests", arg |-> None, value |-> None]
  <2>1. /\ net' = [net EXCEPT ![Human] = call] /\ net[Human] = NoCall
        /\ human'.blockers = human.blockers
        /\ UNCHANGED <<tasks, file, server, worker, added, finished>>
    BY <1>1, <1>7 DEF NoteTests, Call, HumanState
  <2>2. Announced' \subseteq Announced /\ Listed' \subseteq Listed /\ ~Resolving'
    BY <1>3, <1>5, <2>1 DEF Announced, Listed, Resolving
  <2>3. Quiet
    BY <1>3, <1>4, <2>1, <2>2 DEF Quiet
  <2> QED BY <1>2, <1>3, <1>5, <2>1, <2>3
<1>8. CASE HumanAnswered
  <2>1. /\ net' = [net EXCEPT ![Human] = NoCall] /\ net[Human].kind = "answer"
        /\ added' = IF net[Human].op = "add"
                    THEN added \cup {<<net[Human].value, net[Human].arg.title>>} ELSE added
        /\ UNCHANGED <<tasks, file, server, worker, human, finished>>
    BY <1>8 DEF HumanAnswered, Ends
  <2>2. Announced' \subseteq Announced /\ Listed' \subseteq Listed /\ ~Resolving'
    BY <1>3, <1>5, <2>1 DEF Announced, Listed, Resolving
  <2>3. Quiet
    BY <1>3, <1>4, <2>1, <2>2 DEF Quiet
  <2> QED BY <1>2, <1>3, <1>5, <2>1, <2>3
<1>9. CASE HumanUnanswered
  <2>1. /\ net' = [net EXCEPT ![Human] = NoCall] /\ net[Human].kind = "dropped"
        /\ UNCHANGED <<tasks, file, server, worker, human, finished, added>>
    BY <1>9 DEF HumanUnanswered, Ends
  <2>2. Announced' \subseteq Announced /\ Listed' \subseteq Listed /\ ~Resolving'
    BY <1>3, <1>5, <2>1 DEF Announced, Listed, Resolving
  <2>3. Quiet
    BY <1>3, <1>4, <2>1, <2>2 DEF Quiet
  <2> QED BY <1>2, <1>3, <1>5, <2>1, <2>3
<1>10. ASSUME NEW id \in human.blockers, Resolve(id) PROVE KInv'
  <2> DEFINE call == [kind |-> "request", op |-> "resolve", arg |-> id, value |-> None]
  <2>1. /\ net' = [net EXCEPT ![Human] = call] /\ net[Human] = NoCall
        /\ human'.blockers = {}
        /\ UNCHANGED <<tasks, file, server, worker, finished, added>>
    BY <1>1, <1>10 DEF Resolve, Call, HumanState
  <2>2. Announced' \subseteq Announced /\ Listed' \subseteq Listed
    BY <1>3, <1>5, <2>1 DEF Announced, Listed, Resolving
  <2>3. Quiet
    BY <1>3, <1>4, <2>1, <2>2 DEF Quiet
  <2> QED BY <1>2, <1>3, <1>5, <2>1, <2>3
<1>11. ASSUME NEW new \in human.toAdd, Add(new) PROVE KInv'
  <2> DEFINE call == [kind |-> "request", op |-> "add", arg |-> new, value |-> None]
  <2>1. /\ net' = [net EXCEPT ![Human] = call] /\ net[Human] = NoCall
        /\ human'.blockers = human.blockers
        /\ UNCHANGED <<tasks, file, server, worker, finished, added>>
    BY <1>1, <1>11 DEF Add, Call, HumanState
  <2>2. Announced' \subseteq Announced /\ Listed' \subseteq Listed /\ ~Resolving'
    BY <1>3, <1>5, <2>1 DEF Announced, Listed, Resolving
  <2>3. Quiet
    BY <1>3, <1>4, <2>1, <2>2 DEF Quiet
  <2> QED BY <1>2, <1>3, <1>5, <2>1, <2>3
<1> QED BY <1>6, <1>7, <1>8, <1>9, <1>10, <1>11 DEF Manage

\* A call is taken, turned away or closed, or is answered with nothing in particular.
LEMMA ServingIsQuiet ==
  ASSUME TInv, Ownership, NEW c \in Client, NEW call,
         net' = [net EXCEPT ![c] = call], call.op = net[c].op, call.arg = net[c].arg,
         net[c].kind \in {"request", "served"}, call.kind \in {"served", "dropped", "answer"},
         call.kind = "answer" =>
            call.op \notin {"add", "done"} /\ (call.op = "next" => call.value \notin Ids),
         UNCHANGED <<worker, human, finished, added>>
  PROVE  Quiet /\ \A d \in Client : d # c => net'[d] = net[d]
<1>1. net'[c] = call /\ \A d \in Client : d # c => net'[d] = net[d]
  BY DEF TInv, Shapes
<1>2. Workers
  BY DEF TInv
<1>3. Held' \subseteq Held
  BY <1>1, NobodyIsNoClient DEF Held, Holds
<1>4. Completed' \subseteq Completed
  BY <1>1, <1>2, NobodyIsNoClient DEF Completed, Workers
<1>5. Announced' \subseteq Announced /\ Listed' \subseteq Listed /\ (Resolving' => Resolving)
  BY <1>1, NobodyIsNoClient DEF Announced, Listed, Resolving
<1> QED BY <1>1, <1>3, <1>4, <1>5 DEF Quiet, Ownership

\* What a handler, which leaves the file alone, has to show of the list in memory.
LEMMA HandlerKnowledge ==
  ASSUME Knowledge, Ownership, Quiet, UNCHANGED file, server.at = "idle", Up',
         Durable(tasks', Held', Completed', Announced'), Unlisted(tasks', Listed')
  PROVE  Knowledge' /\ Ownership'
<1>1. Disk' = Disk /\ (Restartable' => Restartable)
  BY DEF Disk, Restartable, Up
<1>2. file' # Torn => Durable(Disk', Held', Completed', Announced')
  BY <1>1, DurableLess DEF Knowledge, Quiet
<1>3. Restartable' => Unlisted(Disk', Listed')
  BY <1>1, UnlistedLess DEF Knowledge, Quiet
<1> QED BY <1>2, <1>3, QuietOwnership DEF Knowledge

LEMMA UpdateKInv ==
  ASSUME TInv, KInv, server.at = "idle", NEW c \in Client, net[c].kind = "request",
         NEW i, NEW status, NEW to, NEW h, Updated(i, status, to, h),
         NEW v, Saving(c, v, 2),
         h => tasks[i].human,
         (\E p \in Held' : p[2] = i) => status \in {"in_progress", "done"} /\ to = tasks[i].to,
         i \in Completed' => status = "done",
         i \in Listed' => ~(status = "pending" /\ ~h),
         status = "blocked" =>
            (file # Torn /\ i \in DOMAIN Disk => Disk[i].status # "pending")
  PROVE  Knowledge' /\ Ownership' /\ Saved' /\ Quiet
<1> USE DEF KInv
<1>1. /\ net' = [net EXCEPT ![c].kind = "served"] /\ server'.at = "truncate"
      /\ UNCHANGED <<file, worker, human, finished, added>>
  BY DEF Saving, clientVars
<1>2. Quiet
  <2> DEFINE call == [net[c] EXCEPT !.kind = "served"]
  <2>1. net[c] \in CallState
    BY DEF TInv, Shapes
  <2>2. call.kind = "served" /\ call.op = net[c].op /\ call.arg = net[c].arg
    BY <2>1 DEF CallState
  <2>3. net' = [net EXCEPT ![c] = call]
    BY <1>1
  <2> HIDE DEF call
  <2> QED BY <1>1, <2>2, <2>3, ServingIsQuiet
<1>3. TaskList(tasks) /\ (file # Torn => TaskList(Disk))
  BY DEF TInv, Lists, Sound
<1>4. /\ i \in DOMAIN tasks /\ DOMAIN tasks' = DOMAIN tasks /\ Len(tasks') = Len(tasks)
      /\ tasks[i] \in Record
      /\ tasks'[i].status = status /\ tasks'[i].to = to /\ tasks'[i].human = h
      /\ tasks'[i].title = tasks[i].title
      /\ \A j \in DOMAIN tasks : j # i => tasks'[j] = tasks[j]
  <2>1. tasks[i] \in Record
    BY <1>3, TaskListFacts DEF Updated
  <2> QED BY <2>1 DEF Updated, Record
<1>5. Durable(tasks, Held, Completed, Announced) /\ Unlisted(tasks, Listed) /\ Up /\ Up'
  BY <1>1 DEF Knowledge, Up
<1>6. Durable(tasks, Held', Completed', Announced') /\ Unlisted(tasks, Listed')
  BY <1>2, <1>5, DurableLess, UnlistedLess DEF Quiet
<1>7. Durable(tasks', Held', Completed', Announced')
  BY <1>4, <1>6 DEF Durable
<1>8. Unlisted(tasks', Listed')
  BY <1>4, <1>6 DEF Unlisted, Takeable
<1>9. Knowledge' /\ Ownership'
  BY <1>1, <1>2, <1>5, <1>7, <1>8, HandlerKnowledge
<1>10. Saved'
  <2> SUFFICES ASSUME file # Torn
               PROVE  /\ Len(Disk') <= Len(tasks')
                      /\ \A j \in DOMAIN Disk' :
                            /\ tasks'[j].human => Disk'[j].human
                            /\ tasks'[j].status = "blocked" => Disk'[j].status # "pending"
    BY <1>1 DEF Saved
  <2>1. /\ Disk' = Disk /\ Len(Disk) <= Len(tasks)
        /\ \A j \in DOMAIN Disk :
              /\ tasks[j].human => Disk[j].human
              /\ tasks[j].status = "blocked" => Disk[j].status # "pending"
    BY <1>1, <1>5 DEF Saved, Disk
  <2>2. DOMAIN Disk \subseteq DOMAIN tasks
    BY <1>3, <2>1, TaskListFacts
  <2> QED BY <1>4, <2>1, <2>2
<1> QED BY <1>2, <1>9, <1>10

\* Steps that leave the list, the file and the server's work alone.
LEMMA QuietKInv ==
  ASSUME KInv, Quiet, UNCHANGED <<tasks, file, server>>,
         server.at \in Busying => net' = net
  PROVE  KInv'
<1>1. Knowledge' /\ Ownership'
  BY QuietKnowledge, QuietOwnership DEF KInv, Up
<1>2. Underway'
  BY DEF KInv, Underway, Quiet
<1>3. Saved'
  BY DEF KInv, Saved, Up, Disk
<1> QED BY <1>1, <1>2, <1>3 DEF KInv

LEMMA ReplyKInv ==
  ASSUME TInv, KInv, NEW c \in Client, net[c].kind = "request", server.at = "idle",
         NEW v, Reply(c, v), net[c].op \notin {"add", "done"}, net[c].op = "next" => v \notin Ids
  PROVE  KInv'
<1> DEFINE call == [net[c] EXCEPT !.kind = "answer", !.value = v]
<1>1. net[c] \in CallState
  BY DEF TInv, Shapes
<1>2. call.kind = "answer" /\ call.op = net[c].op /\ call.arg = net[c].arg /\ call.value = v
  BY <1>1 DEF CallState
<1>3. net' = [net EXCEPT ![c] = call]
      /\ UNCHANGED <<tasks, file, server, worker, human, finished, added>>
  BY DEF Reply, Answered, clientVars
<1> HIDE DEF call
<1>4. Quiet
  BY <1>2, <1>3, ServingIsQuiet DEF KInv
<1> QED BY <1>3, <1>4, QuietKInv DEF Busying

LEMMA RefuseKInv ==
  ASSUME TInv, KInv, NEW c \in Client, Refuse(c)
  PROVE  KInv'
<1> DEFINE call == [net[c] EXCEPT !.kind = "dropped"]
<1>1. net[c] \in CallState
  BY DEF TInv, Shapes
<1>2. call.kind = "dropped" /\ call.op = net[c].op /\ call.arg = net[c].arg
  BY <1>1 DEF CallState
<1>3. /\ net' = [net EXCEPT ![c] = call] /\ net[c].kind = "request" /\ server.at = "down"
      /\ UNCHANGED <<tasks, file, server, worker, human, finished, added>>
  BY DEF Refuse, clientVars
<1> HIDE DEF call
<1>4. Quiet
  BY <1>2, <1>3, ServingIsQuiet DEF KInv
<1> QED BY <1>3, <1>4, QuietKInv DEF Busying

LEMMA HandleKInv ==
  ASSUME TInv, KInv, ~IdGivenAgain, NEW c \in Client, Handle(c)
  PROVE  KInv'
<1> USE DEF KInv
<1>1. /\ Shapes /\ Calls /\ Workers /\ Lists /\ net[c] \in CallState /\ net[c].kind = "request"
      /\ server.at = "idle" /\ Up /\ TaskList(tasks) /\ (file # Torn => TaskList(Disk))
  BY DEF TInv, Shapes, Lists, Sound, Handle, GetNextTask, NoNextTask, MarkTaskDone,
         MarkTaskBlocked, ResolveBlocked, AddTask, UpdateTests, NotFound, Takes, Up
<1>2. /\ Durable(tasks, Held, Completed, Announced) /\ Unlisted(tasks, Listed)
      /\ file # Torn => Durable(Disk, Held, Completed, Announced)
  BY <1>1 DEF Knowledge
<1>3. /\ c # Human => c \in Worker
      /\ \A p \in Held : p = <<p[1], p[2]>> /\ p[1] \in Worker /\ p[2] \in Ids
  BY DEF Client, Held
\* A worker's report is about a task it holds.
<1>4. ASSUME net[c].op \in {"done", "blocked"}
      PROVE  c \in Worker /\ <<c, net[c].arg>> \in Held /\ net[c].arg \in DOMAIN tasks
  <2>1. c \in Worker /\ net[c].arg \in Ids
    BY <1>1, <1>3, <1>4 DEF Calls
  <2>2. <<c, net[c].arg>> \in Held
    BY <1>1, <1>4, <2>1 DEF Held, Holds
  <2> QED BY <1>2, <2>1, <2>2 DEF Durable
<1>s. ASSUME NEW v, NEW n, Saving(c, v, n)
      PROVE  /\ Quiet /\ Up' /\ UNCHANGED <<file, worker, human>> /\ server'.at = "truncate"
             /\ server'.client = c /\ server'.value = v
             /\ net'[c].kind = "served" /\ net'[c].op = net[c].op /\ net'[c].arg = net[c].arg
  <2> DEFINE call == [net[c] EXCEPT !.kind = "served"]
  <2>1. call.kind = "served" /\ call.op = net[c].op /\ call.arg = net[c].arg
    BY <1>1 DEF CallState
  <2>2. /\ net' = [net EXCEPT ![c] = call] /\ UNCHANGED <<worker, human, finished, added, file>>
        /\ server' = [at |-> "truncate", client |-> c, value |-> v, saves |-> n]
    BY <1>s DEF Saving, clientVars
  <2>3. net'[c] = call
    BY <1>1, <2>2 DEF Shapes
  <2> HIDE DEF call
  <2> QED BY <1>1, <2>1, <2>2, <2>3, ServingIsQuiet DEF Up
<1>5. CASE GetNextTask(c)
  <2>1. net[c].op = "next" /\ c \in Worker
    BY <1>1, <1>3, <1>5 DEF GetNextTask, Takes, Calls
  <2>2. PICK i \in DOMAIN tasks :
           Takeable(tasks[i]) /\ Updated(i, "in_progress", c, FALSE) /\ Saving(c, i, 2)
    BY <1>1, <1>5, <2>1, NextTaskUpdates
  <2>3. i \notin Listed /\ i \notin Completed /\ \A p \in Held : p[2] # i
    BY <1>2, <2>2 DEF Unlisted, Durable, Takeable
  <2>4. /\ Held' \subseteq Held /\ Completed' \subseteq Completed /\ Listed' \subseteq Listed
        /\ net'[c].op = "next"
    BY <1>s, <2>1, <2>2 DEF Quiet
  <2>5. Knowledge' /\ Ownership' /\ Saved'
    BY <1>1, <2>2, <2>3, <2>4, UpdateKInv
  <2>6. Underway'
    <3>1. server'.client = c /\ server'.value = i
      BY <2>2 DEF Saving
    <3>2. i \in DOMAIN tasks' /\ tasks'[i].to = c /\ tasks'[i].status = "in_progress"
          /\ ~tasks'[i].human
      BY <1>1, <2>2, TaskListFacts DEF Updated, Record
    <3> QED BY <2>3, <2>4, <3>1, <3>2 DEF Underway
  <2> QED BY <2>5, <2>6
<1>6. CASE NoNextTask(c)
  BY <1>1, <1>6, ReplyKInv, OrchestratorAssumption DEF NoNextTask, Takes, Ids
<1>7. CASE NotFound(c)
  <2>1. net[c].op = "resolve" /\ Reply(c, "not found")
    BY <1>1, <1>4, <1>7, FindTask DEF NotFound
  <2> QED BY <1>1, <2>1, ReplyKInv
<1>8. CASE MarkTaskDone(c)
  <2> DEFINE i == net[c].arg
  <2>1. net[c].op = "done" /\ Saving(c, "ok", 2)
    BY <1>8 DEF MarkTaskDone, Takes
  <2>2. Updated(i, "done", tasks[i].to, tasks[i].human)
    BY <1>1, <1>8, DoneUpdates
  <2>3. Knowledge' /\ Ownership' /\ Saved'
    BY <1>1, <2>1, <2>2, UpdateKInv
  <2>4. Underway'
    <3>1. server'.client = c /\ net'[c].op = "done" /\ net'[c].arg = i
      BY <1>1, <2>1 DEF Saving, Shapes, CallState
    <3>2. i \in DOMAIN tasks' /\ tasks'[i].status = "done"
      BY <1>1, <2>2, TaskListFacts DEF Updated, Record
    <3> QED BY <3>1, <3>2 DEF Underway
  <2> QED BY <2>3, <2>4
<1>9. CASE MarkTaskBlocked(c)
  <2> DEFINE i == net[c].arg
  <2>1. net[c].op = "blocked" /\ Saving(c, "ok", 2)
    BY <1>9 DEF MarkTaskBlocked, Takes
  <2>2. Updated(i, "blocked", tasks[i].to, tasks[i].human)
    BY <1>1, <1>9, BlockedUpdates
  <2>3. c \in Worker /\ <<c, i>> \in Held
    BY <1>4, <2>1
  <2>4. /\ Held' \subseteq Held /\ Completed' \subseteq Completed
        /\ net'[c].op = "blocked" /\ net'[c].kind = "served" /\ UNCHANGED worker
    BY <1>s, <2>1 DEF Quiet
  <2>5. worker[c].at \notin {"working", "finishing"}
    BY <1>1, <2>1, <2>3 DEF Workers
  <2>6. \A p \in Held' : p[2] # i
    <3> SUFFICES ASSUME NEW p \in Held', p[2] = i PROVE FALSE
      OBVIOUS
    <3>1. p \in Held /\ p = <<p[1], p[2]>>
      BY <1>3, <2>4
    <3>2. p = <<c, i>>
      BY <2>3, <3>1 DEF Ownership
    <3> QED BY <2>4, <2>5, <3>2 DEF Held, Holds
  <2>7. i \notin Completed
    <3>1. i \notin finished
      BY <2>3 DEF Ownership
    <3>2. ASSUME NEW v \in Worker, worker[v].at = "finishing", net[v].kind = "answer",
                 worker[v].task = i
          PROVE  FALSE
      <4>1. <<v, i>> \in Held
        BY <1>3, <2>3, <3>2 DEF Held, Holds
      <4>2. v = c
        BY <2>3, <4>1 DEF Ownership
      <4> QED BY <1>1, <3>2, <4>2
    <3> QED BY <3>1, <3>2 DEF Completed
  <2>8. file # Torn => Disk[i].status # "pending"
    BY <1>2, <2>3 DEF Durable
  <2>9. Knowledge' /\ Ownership' /\ Saved'
    BY <1>1, <2>1, <2>2, <2>4, <2>6, <2>7, <2>8, UpdateKInv
  <2>10. Underway'
    <3>1. server'.client = c
      BY <2>1 DEF Saving
    <3> QED BY <2>4, <3>1 DEF Underway
  <2> QED BY <2>9, <2>10
<1>10. CASE ResolveBlocked(c)
  <2> DEFINE i == net[c].arg
  <2>1. net[c].op = "resolve" /\ Saving(c, "ok", 2) /\ c = Human
    BY <1>1, <1>10 DEF ResolveBlocked, Takes, Calls
  <2>2. Updated(i, "pending", tasks[i].to, FALSE)
    BY <1>1, <1>10, ResolveUpdates
  <2>3. Resolving /\ i \in Listed /\ human.blockers = {}
    BY <1>1, <2>1 DEF Resolving, Listed, Ownership
  <2>4. /\ Held' \subseteq Held /\ Completed' \subseteq Completed
        /\ net'[c].op = "resolve" /\ net'[c].kind = "served" /\ UNCHANGED human
    BY <1>s, <2>1 DEF Quiet
  <2>5. Listed' = {}
    BY <2>1, <2>3, <2>4 DEF Listed, Resolving
  <2>6. i \notin Completed' /\ \A p \in Held' : p[2] # i
    BY <2>3, <2>4 DEF Ownership
  <2>7. Knowledge' /\ Ownership' /\ Saved'
    BY <1>1, <2>1, <2>2, <2>5, <2>6, UpdateKInv
  <2>8. Underway'
    <3>1. server'.client = c
      BY <2>1 DEF Saving
    <3> QED BY <2>4, <3>1 DEF Underway
  <2> QED BY <2>7, <2>8
<1>11. CASE AddTask(c)
  <2> DEFINE id == Len(tasks) + 1
  <2>1. net[c].op = "add" /\ net[c].arg \in Extra
    BY <1>1, <1>11 DEF AddTask, Takes, Calls
  <2>b. /\ TaskList(tasks') /\ Len(tasks') = id /\ Len(tasks) \in Nat
        /\ DOMAIN tasks' = DOMAIN tasks \cup {id} /\ id \notin DOMAIN tasks
        /\ tasks'[id] = NewTask(id, net[c].arg)
        /\ \A j \in DOMAIN tasks : tasks'[j] = tasks[j]
        /\ Saving(c, id, 2)
    BY <1>1, <1>11, <2>1, AddAppends
  <2>2. /\ TaskList(tasks') /\ Len(tasks') = id /\ Len(tasks) \in Nat
        /\ DOMAIN tasks' = DOMAIN tasks \cup {id} /\ id \notin DOMAIN tasks
        /\ tasks'[id].title = net[c].arg.title /\ tasks'[id].human = net[c].arg.human
        /\ \A j \in DOMAIN tasks : tasks'[j] = tasks[j]
        /\ Saving(c, id, 2)
    BY <2>b DEF NewTask
  <2>a. Saving(c, id, 2)
    BY <2>2
  <2>3. Quiet /\ Up' /\ UNCHANGED file /\ server'.at = "truncate" /\ Disk' = Disk
    BY <1>s, <2>a DEF Disk
  <2>4. Durable(tasks, Held', Completed', Announced') /\ Unlisted(tasks, Listed')
    BY <1>2, <2>3, DurableLess, UnlistedLess DEF Quiet
  <2>5. Durable(tasks', Held', Completed', Announced')
    BY <2>2, <2>4 DEF Durable
  <2>6. Unlisted(tasks', Listed')
    <3>1. c = Human
      BY <1>1, <2>1 DEF Calls
    <3>2. id \in Listed => net[c].arg.human
      BY <1>1, <2>1, <3>1 DEF IdGivenAgain, Listed, Resolving
    <3>3. id \in Listed' => tasks'[id].human
      BY <2>2, <2>3, <3>2 DEF Quiet
    <3> QED BY <2>2, <2>4, <3>3 DEF Unlisted, Takeable
  <2>7. Knowledge' /\ Ownership'
    BY <1>1, <2>3, <2>5, <2>6, HandlerKnowledge
  <2>8. Underway'
    <3>1. /\ server'.client = c /\ server'.value = id
          /\ net'[c].op = "add" /\ net'[c].arg = net[c].arg
      BY <1>s, <2>1, <2>2
    <3> QED BY <2>2, <3>1 DEF Underway
  <2>9. Saved'
    <3> SUFFICES ASSUME file # Torn
                 PROVE  /\ Len(Disk) <= Len(tasks')
                        /\ \A j \in DOMAIN Disk :
                              /\ tasks'[j].human => Disk[j].human
                              /\ tasks'[j].status = "blocked" => Disk[j].status # "pending"
      BY <2>3 DEF Saved
    <3>1. /\ Len(Disk) <= Len(tasks)
          /\ \A j \in DOMAIN Disk :
                /\ tasks[j].human => Disk[j].human
                /\ tasks[j].status = "blocked" => Disk[j].status # "pending"
      BY <1>1 DEF Saved
    <3>2. DOMAIN Disk \subseteq DOMAIN tasks /\ Len(Disk) \in Nat
      BY <1>1, <3>1, TaskListFacts
    <3>3. Len(Disk) <= Len(tasks')
      BY <2>2, <3>1, <3>2
    <3> QED BY <2>2, <3>1, <3>2, <3>3
  <2> QED BY <2>7, <2>8, <2>9
<1>12. CASE UpdateTests(c)
  <2>1. net[c].op = "tests" /\ Saving(c, "ok", 1) /\ UNCHANGED tasks
    BY <1>12 DEF UpdateTests, Takes
  <2>2. /\ Quiet /\ Up' /\ UNCHANGED file /\ server'.at = "truncate" /\ Disk' = Disk
        /\ server'.client = c /\ net'[c].op = "tests"
    BY <1>s, <2>1 DEF Disk
  <2>3. Knowledge' /\ Ownership'
    BY <1>1, <2>1, <2>2, QuietKnowledge, QuietOwnership
  <2>4. Underway' /\ Saved'
    BY <1>1, <2>1, <2>2 DEF Underway, Saved
  <2> QED BY <2>3, <2>4
<1> QED BY <1>5, <1>6, <1>7, <1>8, <1>9, <1>10, <1>11, <1>12 DEF Handle

\* The clients see nothing of a step that leaves the net alone.
LEMMA UnseenIsQuiet ==
  ASSUME Ownership, UNCHANGED <<net, worker, human, finished, added>>
  PROVE  /\ Quiet /\ Held' = Held /\ Completed' = Completed
         /\ Announced' = Announced /\ Listed' = Listed
<1>1. Held' = Held /\ Completed' = Completed /\ Announced' = Announced
  BY DEF Held, Holds, Completed, Announced
<1>2. Listed' = Listed /\ Resolving' = Resolving
  BY DEF Listed, Resolving
<1> QED BY <1>1, <1>2 DEF Quiet, Ownership

LEMMA RespondKInv ==
  ASSUME TInv, KInv, Respond
  PROVE  KInv'
<1> USE DEF KInv
<1>1. /\ server.at = "respond" /\ server'.at = "idle" /\ Up /\ Up' /\ file = tasks
      /\ UNCHANGED <<tasks, file, worker, human, finished, added>>
  BY DEF Respond, clientVars, Idle, Up, Saved
<1>2. tasks # Absent /\ Disk = tasks /\ Disk' = tasks
  BY <1>1, OrchestratorAssumption DEF TInv, Lists, Sound, TaskList, Disk
<1>3. Durable(tasks, Held, Completed, Announced) /\ Unlisted(tasks, Listed)
  BY <1>1 DEF Knowledge
<1>4. Underway' /\ Saved'
  BY <1>1, <1>2 DEF Underway, Saved, Busying
<1>5. ASSUME Durable(tasks, Held', Completed', Announced'), Listed' \subseteq Listed
      PROVE  Knowledge'
  BY <1>1, <1>2, <1>3, <1>5, UnlistedLess DEF Knowledge
<1>6. CASE server.client \notin Client
  <2>1. UNCHANGED <<net, worker, human, finished, added>>
    BY <1>1, <1>6 DEF Respond
  <2>2. /\ Quiet /\ Held' = Held /\ Completed' = Completed
        /\ Announced' = Announced /\ Listed' = Listed
    BY <2>1, UnseenIsQuiet
  <2> QED BY <1>3, <1>4, <1>5, <2>2, QuietOwnership
<1>7. CASE server.client \in Client
  <2> DEFINE c == server.client
             id == server.value
             call == [net[c] EXCEPT !.kind = "answer", !.value = id]
  <2>1. /\ Workers /\ Calls /\ net[c] \in CallState /\ net[c].kind = "served"
        /\ net \in [Client -> CallState]
    BY <1>1, <1>7 DEF TInv, Shapes, Serving, Busying
  <2>2. /\ call.kind = "answer" /\ call.op = net[c].op /\ call.arg = net[c].arg
        /\ call.value = id /\ net' = [net EXCEPT ![c] = call]
    BY <1>7, <2>1 DEF CallState, Respond, Answered
  <2>3. net'[c] = call /\ \A d \in Client : d # c => net'[d] = net[d]
    BY <1>7, <2>1, <2>2
  <2> HIDE DEF call
  <2>4. /\ net[c].op = "next" =>
              /\ id \in DOMAIN tasks /\ tasks[id].to = c /\ tasks[id].status = "in_progress"
              /\ ~tasks[id].human /\ id \notin Listed
        /\ net[c].op = "done" =>
              net[c].arg \in DOMAIN tasks /\ tasks[net[c].arg].status = "done"
        /\ net[c].op = "add" => id \in DOMAIN tasks /\ tasks[id].title = net[c].arg.title
    BY <1>1, <1>7 DEF Underway, Busying
  <2>5. \A p \in Held' : p \in Held \/ (net[c].op = "next" /\ p = <<c, id>>)
    <3> SUFFICES ASSUME NEW w \in Worker, NEW k \in Ids, Holds(w, k)',
                        ~(net[c].op = "next" /\ w = c /\ k = id)
                 PROVE  Holds(w, k)
      BY DEF Held
    <3> QED BY <1>1, <2>2, <2>3, NobodyIsNoClient DEF Holds
  <2>6. \A k \in Completed' :
           \/ k \in Completed
           \/ net[c].op = "done" /\ k = net[c].arg /\ <<c, k>> \in Held
    <3> SUFFICES ASSUME NEW w \in Worker, worker[w].at = "finishing",
                        net'[w].kind = "answer", net[w].kind # "answer"
                 PROVE  /\ net[c].op = "done" /\ worker[w].task = net[c].arg
                        /\ <<c, worker[w].task>> \in Held
      BY <1>1 DEF Completed
    <3>1. w = c
      BY <2>3, NobodyIsNoClient
    <3> QED BY <2>1, <3>1 DEF Workers, Held, Holds
  <2>7. \A a \in Announced' :
           a \in Announced \/ (net[c].op = "add" /\ a = <<id, net[c].arg.title>>)
    BY <1>1, <2>2, <2>3, NobodyIsNoClient DEF Announced
  <2>8. Listed' \subseteq Listed /\ (Resolving' => Resolving)
    BY <1>1, <2>2, <2>3, NobodyIsNoClient DEF Listed, Resolving
  <2>9. Durable(tasks, Held', Completed', Announced')
    <3>1. \A p \in Held' : /\ p[2] \in DOMAIN tasks /\ tasks[p[2]].to = p[1]
                           /\ tasks[p[2]].status \in {"in_progress", "done"} /\ ~tasks[p[2]].human
      BY <1>3, <2>4, <2>5 DEF Durable
    <3>2. \A k \in Completed' :
             k \in DOMAIN tasks /\ tasks[k].status = "done" /\ ~tasks[k].human
      BY <1>3, <2>4, <2>6 DEF Durable
    <3>3. \A a \in Announced' : a[1] \in DOMAIN tasks /\ tasks[a[1]].title = a[2]
      BY <1>3, <2>4, <2>7 DEF Durable
    <3> QED BY <3>1, <3>2, <3>3 DEF Durable
  <2>10. Knowledge'
    BY <1>5, <2>8, <2>9
  <2>11. Ownership'
    <3>1. finished' = finished /\ finished \subseteq Completed /\ human' = human
      BY <1>1 DEF Completed
    <3>2. \A p \in Held' : p = <<p[1], p[2]>>
      BY DEF Held
    <3>3. \A p, q \in Held' : p[2] = q[2] => p = q
      BY <2>9, <3>2 DEF Durable
    <3>4. \A p \in Held' : p[2] \notin finished /\ p[2] \notin Listed
      BY <1>3, <2>4, <2>5, <3>1 DEF Ownership, Durable
    <3>5. Completed' \cap Listed = {}
      BY <2>6 DEF Ownership
    <3> QED BY <2>8, <3>1, <3>3, <3>4, <3>5 DEF Ownership
  <2> QED BY <1>4, <2>10, <2>11
<1> QED BY <1>6, <1>7

LEMMA SaveKInv ==
  ASSUME TInv, KInv, Save \/ Raise \/ Crash
  PROVE  KInv'
<1> USE DEF KInv
<1>1. tasks # Absent /\ TaskList(tasks) /\ Len(tasks) \in Nat
  BY OrchestratorAssumption, TaskListFacts DEF TInv, Lists, Sound, TaskList
<1>2. CASE Truncate
  <2>1. /\ server.at = "truncate" /\ file' = Torn /\ server' = [server EXCEPT !.at = "write"]
        /\ UNCHANGED <<tasks, net, worker, human, finished, added>>
    BY <1>2 DEF Truncate, clientVars
  <2>2. /\ server'.at = "write" /\ server'.client = server.client
        /\ server'.value = server.value /\ Up /\ Up'
    BY <2>1 DEF TInv, Shapes, ServerState, Up
  <2>3. Quiet /\ Listed' = Listed
    BY <2>1, UnseenIsQuiet
  <2>4. Knowledge' /\ Ownership'
    BY <2>1, <2>2, <2>3, QuietKnowledge, QuietOwnership
  <2>5. Underway'
    BY <2>1, <2>2, <2>3 DEF Underway, Busying
  <2>6. Saved'
    BY <2>1, <2>2 DEF Saved
  <2> QED BY <2>4, <2>5, <2>6
<1>3. CASE Write
  <2>1. /\ server.at = "write" /\ file' = tasks
        /\ UNCHANGED <<tasks, net, worker, human, finished, added>>
    BY <1>3 DEF Write, clientVars
  <2>2. /\ server'.at \in {"truncate", "respond"} /\ server'.client = server.client
        /\ server'.value = server.value /\ Up /\ Up'
    BY <1>3, <2>1 DEF Write, TInv, Shapes, ServerState, Up
  <2>3. /\ Quiet /\ Held' = Held /\ Completed' = Completed
        /\ Announced' = Announced /\ Listed' = Listed
    BY <2>1, UnseenIsQuiet
  <2>4. Disk' = tasks
    BY <1>1, <2>1 DEF Disk
  <2>5. Knowledge'
    BY <2>1, <2>2, <2>3, <2>4 DEF Knowledge
  <2>6. Underway'
    BY <2>1, <2>2, <2>3 DEF Underway, Busying
  <2>7. Saved'
    BY <1>1, <2>1, <2>2, <2>4 DEF Saved
  <2> QED BY <2>3, <2>5, <2>6, <2>7, QuietOwnership
<1>4. CASE Respond
  BY <1>4, RespondKInv
<1>5. CASE Start
  <2>1. /\ server.at = "down" /\ file # Torn /\ tasks' = Disk /\ file' = file
        /\ server'.at = "truncate" /\ server'.client = Nobody
        /\ UNCHANGED <<net, worker, human, finished, added>>
    BY <1>5 DEF Start, clientVars, Idle, Disk
  <2>2. ~Up /\ Up' /\ Restartable /\ Disk' = Disk
    BY <2>1 DEF Up, Restartable, Disk
  <2>3. /\ Quiet /\ Held' = Held /\ Completed' = Completed
        /\ Announced' = Announced /\ Listed' = Listed
    BY <2>1, UnseenIsQuiet
  <2>4. Knowledge'
    BY <2>1, <2>2, <2>3 DEF Knowledge
  <2>5. Underway'
    BY <2>1, NobodyIsNoClient DEF Underway
  <2>6. Len(Disk) \in Nat
    BY <2>1, TaskListFacts DEF TInv, Lists, Sound
  <2>7. Saved'
    BY <2>1, <2>2, <2>6 DEF Saved
  <2> QED BY <2>3, <2>4, <2>5, <2>7, QuietOwnership
<1>6. CASE Raise
  <2> DEFINE c == server.client
             call == [net[c] EXCEPT !.kind = "dropped"]
  <2>1. /\ server.at \in {"truncate", "write"} /\ c \in Client /\ "raise" \in Faults
        /\ net' = [net EXCEPT ![c] = call] /\ server'.at = "idle"
        /\ UNCHANGED <<tasks, file, worker, human, finished, added>>
    BY <1>6 DEF Raise, clientVars, Idle
  <2>2. net[c] \in CallState /\ net[c].kind = "served"
    BY <2>1 DEF TInv, Shapes, Serving, Busying
  <2>3. call.kind = "dropped" /\ call.op = net[c].op /\ call.arg = net[c].arg
    BY <2>2 DEF CallState
  <2>4. Up /\ Up' /\ Disk' = Disk
    BY <2>1 DEF Up, Disk
  <2> HIDE DEF call
  <2>5. Quiet
    BY <2>1, <2>2, <2>3, ServingIsQuiet
  <2>6. Knowledge' /\ Ownership'
    BY <2>1, <2>4, <2>5, QuietKnowledge, QuietOwnership
  <2>7. Underway' /\ Saved'
    BY <2>1, <2>4 DEF Underway, Saved, Busying
  <2> QED BY <2>6, <2>7
<1>7. CASE Crash
  <2>1. /\ server'.at = "down" /\ ~Up' /\ "crash" \in Faults
        /\ net' = [d \in Client |-> IF net[d].kind \in {"request", "served"}
                                    THEN [net[d] EXCEPT !.kind = "dropped"] ELSE net[d]]
        /\ UNCHANGED <<file, worker, human, finished, added>>
    BY <1>7 DEF Crash, clientVars, Idle, Up
  <2>2. \A d \in Client : net'[d] = net[d] \/ net'[d].kind = "dropped"
    BY <2>1 DEF TInv, Shapes, CallState
  <2>3. Quiet
    <3>1. Held' \subseteq Held
      BY <2>1, <2>2, NobodyIsNoClient DEF Held, Holds
    <3>2. Completed' \subseteq Completed
      BY <2>1, <2>2, NobodyIsNoClient DEF Completed
    <3>3. Announced' \subseteq Announced /\ Listed' \subseteq Listed /\ (Resolving' => Resolving)
      BY <2>1, <2>2, NobodyIsNoClient DEF Announced, Listed, Resolving
    <3> QED BY <2>1, <3>1, <3>2, <3>3 DEF Quiet, Ownership
  <2>4. Disk' = Disk /\ (file' # Torn => Restartable)
    BY <2>1 DEF Disk, Restartable
  <2>5. Knowledge'
    <3>1. file' # Torn => Durable(Disk', Held', Completed', Announced')
      BY <2>1, <2>3, <2>4, DurableLess DEF Knowledge, Quiet
    <3>2. file' # Torn => Unlisted(Disk', Listed')
      BY <2>3, <2>4, UnlistedLess DEF Knowledge, Quiet
    <3> QED BY <2>1, <3>1, <3>2 DEF Knowledge, Restartable
  <2>6. Underway' /\ Saved'
    BY <2>1 DEF Underway, Saved, Busying
  <2> QED BY <2>3, <2>5, <2>6, QuietOwnership
<1> QED BY <1>2, <1>3, <1>4, <1>5, <1>6, <1>7 DEF Save

LEMMA NextKInv ==
  ASSUME ~IdGivenAgain, TInv, KInv, [Next]_vars
  PROVE  KInv'
<1>1. CASE UNCHANGED vars
  <2>1. Quiet
    BY <1>1, UnseenIsQuiet DEF KInv, vars, clientVars
  <2> QED BY <1>1, <2>1, QuietKInv DEF vars, clientVars
<1>2. CASE Next
  BY <1>2, SaveKInv, ManageKInv, HandleKInv, RefuseKInv, WorkKInv DEF Next, Serve
<1> QED BY <1>1, <1>2

LEMMA KInvHolds == Spec /\ []~IdGivenAgain => [](TInv /\ KInv)
<1>1. Init => TInv /\ KInv
  BY InitTInv, InitKInv
<1>2. TInv /\ KInv /\ ~IdGivenAgain /\ [Next]_vars => (TInv /\ KInv)'
  BY NextTInv, NextKInv
<1> QED BY <1>1, <1>2, PTL DEF Spec

-----------------------------------------------------------------------------
(* What the invariants say of the workers, the file and the finished tasks. *)

LEMMA KInvOneWorker ==
  ASSUME TInv, KInv
  PROVE  OneWorkerPerTask
<1> SUFFICES ASSUME NEW v \in Worker, NEW w \in Worker,
                    Busy(v), Busy(w), worker[v].task = worker[w].task
             PROVE  v = w
  BY DEF OneWorkerPerTask
<1>1. worker[v].task \in Ids
  BY DEF TInv, Workers, Busy
<1>2. <<v, worker[v].task>> \in Held /\ <<w, worker[v].task>> \in Held
  BY <1>1 DEF Held, Holds, Busy
<1> QED BY <1>2 DEF KInv, Ownership

LEMMA KInvDurable ==
  ASSUME TInv, KInv
  PROVE  AcknowledgedIsDurable
<1> SUFFICES ASSUME file \notin {Absent, Torn} PROVE AcknowledgedIsDurable
  BY DEF AcknowledgedIsDurable
<1>1. Durable(file, Held, Completed, Announced)
  BY DEF KInv, Knowledge, Disk
<1>2. \A i \in DOMAIN file : file[i].id = i
  BY DEF TInv, Lists, Sound, TaskList, Disk
<1>3. \A w \in Worker : worker[w].at = "working" => <<w, worker[w].task>> \in Held
  BY DEF TInv, Workers, Held, Holds
<1>4. finished \subseteq Completed /\ added \subseteq Announced
  BY DEF Completed, Announced
<1>5. ASSUME NEW w \in Worker, worker[w].at = "working"
      PROVE  \E i \in DOMAIN file : /\ file[i].id = worker[w].task
                                    /\ file[i].status \in {"in_progress", "done"} /\ file[i].to = w
  BY <1>1, <1>2, <1>3, <1>5 DEF Durable
<1>6. \A id \in finished : \E i \in DOMAIN file : file[i].id = id /\ file[i].status = "done"
  BY <1>1, <1>2, <1>4 DEF Durable
<1>7. \A a \in added : \E i \in DOMAIN file : file[i].id = a[1] /\ file[i].title = a[2]
  BY <1>1, <1>2, <1>4 DEF Durable
<1> QED BY <1>5, <1>6, <1>7 DEF AcknowledgedIsDurable

\* DoneStaysDone, as a step.
DoneKept ==
    \A id \in finished : server'.at # "down" =>
        \A i \in DOMAIN tasks' : tasks'[i].id = id => tasks'[i].status = "done"

LEMMA KInvDoneKept ==
  ASSUME TInv', KInv', [Next]_vars
  PROVE  [DoneKept]_vars
<1>1. finished \subseteq finished'
  BY DEF Next, vars, clientVars, Save, Truncate, Write, Respond, Start, Raise, Crash, Manage,
         Look, NoteTests, HumanAnswered, HumanUnanswered, Resolve, Add, Serve, Refuse, Handle,
         GetNextTask, NoNextTask, MarkTaskDone, MarkTaskBlocked, ResolveBlocked, AddTask,
         UpdateTests, NotFound, Saving, Reply, Work, Ask, GetsTask, Report, Reported,
         Unanswered, Die
<1> SUFFICES ASSUME NEW id \in finished, server'.at # "down",
                    NEW i \in DOMAIN tasks', tasks'[i].id = id
             PROVE  tasks'[i].status = "done"
  BY DEF DoneKept
<1>2. id \in Completed'
  BY <1>1 DEF Completed
<1>3. Durable(tasks', Held', Completed', Announced')
  BY DEF KInv, Knowledge, Up
<1>4. i = id
  BY DEF TInv, Lists, Sound, TaskList
<1> QED BY <1>2, <1>3, <1>4 DEF Durable

\* However saves fail and the server is killed, whatever is added and however stale the
\* human's list of blockers is: as long as no ordinary task is given an id that is still on
\* that list, no two workers are at work on one task, because get_next_task marks what it
\* hands out and the mark is on disk before the answer is.
THEOREM OrchestratorNoIdGivenAgainOneWorker ==
  Spec /\ []~IdGivenAgain => []OneWorkerPerTask
BY KInvHolds, KInvOneWorker, PTL

\* ... and whatever the server has answered about an assignment, a completion or a new task
\* is in the state file, unless it was killed or raised in the middle of a save: every
\* handler saves before send_json.
THEOREM OrchestratorNoIdGivenAgainDurable ==
  Spec /\ []~IdGivenAgain => []AcknowledgedIsDurable
BY KInvHolds, KInvDurable, PTL

\* ... and a task whose /done was acknowledged stays done, in memory and across a restart:
\* no handler can reach it again, neither through a worker nor through the human's list.
THEOREM OrchestratorNoIdGivenAgainDone ==
  Spec /\ []~IdGivenAgain => DoneStaysDone
<1>1. (TInv /\ KInv)' /\ [Next]_vars => [DoneKept]_vars
  BY KInvDoneKept
<1>2. Spec /\ []~IdGivenAgain => [][DoneKept]_vars
  BY <1>1, KInvHolds, PTL DEF Spec
<1> QED BY <1>2 DEF DoneStaysDone, DoneKept

-----------------------------------------------------------------------------
(* When no id is given again while it is on the human's list. *)

\* An id that a restart took back may name another task later, while the human still
\* has it on her list: it must be one that only she can release.
OnlyDecisions == \A new \in Extra : new.human
StaleIdsAreHarmless == "raise" \in Faults /\ "crash" \in Faults => OnlyDecisions

\* What is on the human's list exists, and will exist after a restart.
Backed ==
    \/ OnlyDecisions
    \/ /\ Up => Listed \subseteq DOMAIN tasks
       /\ Restartable => Listed \subseteq DOMAIN Disk

LEMMA BackedIdsAreNew ==
  ASSUME TInv, Backed
  PROVE  ~IdGivenAgain
<1> SUFFICES ASSUME IdGivenAgain PROVE FALSE
  OBVIOUS
<1>1. net[Human].arg \in Extra
  BY OrchestratorAssumption DEF TInv, Calls, IdGivenAgain, Client
<1>2. Len(tasks) + 1 \in DOMAIN tasks
  BY <1>1 DEF Backed, OnlyDecisions, IdGivenAgain, Listed, Up
<1>3. Len(tasks) \in Nat /\ DOMAIN tasks = 1..Len(tasks)
  BY TaskListFacts DEF TInv, Lists, Sound
<1> QED BY <1>2, <1>3

LEMMA ListedKept ==
  ASSUME UNCHANGED human, net'[Human] = net[Human] \/ net'[Human].kind # "request"
  PROVE  Listed' \subseteq Listed
BY DEF Listed, Resolving

LEMMA InitBacked == Init => Backed
BY NobodyIsNoClient DEF Init, Idle, NoCall, Backed, Listed, Resolving, Up

LEMMA NextBacked ==
  ASSUME StaleIdsAreHarmless, TInv, KInv, Backed, [Next]_vars
  PROVE  Backed'
<1> DEFINE Goal == /\ Up' => Listed' \subseteq DOMAIN tasks'
                   /\ Restartable' => Listed' \subseteq DOMAIN Disk'
<1> SUFFICES ASSUME ~OnlyDecisions PROVE Goal
  BY DEF Backed, OnlyDecisions
<1>1. /\ Up => Listed \subseteq DOMAIN tasks
      /\ Restartable => Listed \subseteq DOMAIN Disk
  BY DEF Backed
<1>2. /\ TaskList(tasks) /\ tasks # Absent /\ Calls /\ Serving /\ Saved
      /\ net \in [Client -> CallState] /\ human \in HumanState
      /\ Human \in Client /\ Human \notin Worker
  BY OrchestratorAssumption DEF TInv, Lists, Sound, TaskList, Shapes, KInv, Client
<1>3. ASSUME Listed' \subseteq Listed, Up' <=> Up, DOMAIN tasks \subseteq DOMAIN tasks',
             file' # Torn => UNCHANGED file
      PROVE  Goal
  <2>1. Restartable' => Restartable /\ Disk' = Disk
    BY <1>3 DEF Restartable, Disk
  <2> QED BY <1>1, <1>3, <2>1
<1> HIDE DEF Goal
<1>4. CASE UNCHANGED vars
  BY <1>3, <1>4, ListedKept DEF vars, clientVars, Up
<1>5. CASE Look
  <2>1. /\ server.at = "idle" /\ net[Human] = NoCall
        /\ human'.blockers = {tasks[i].id : i \in {j \in DOMAIN tasks :
                                 tasks[j].status = "blocked" \/ tasks[j].human}}
        /\ UNCHANGED <<tasks, file, server, net>>
    BY <1>2, <1>5 DEF Look, HumanState
  <2>2. Listed' \subseteq DOMAIN tasks
    BY <1>2, <2>1 DEF TaskList, Listed, Resolving, NoCall
  <2>3. Restartable' => Disk' = tasks
    <3> SUFFICES ASSUME Restartable' PROVE Disk' = tasks
      OBVIOUS
    <3>1. "crash" \in Faults
      BY <2>1 DEF Restartable, Up
    <3>2. file = tasks
      BY <1>2, <2>1, <3>1 DEF StaleIdsAreHarmless, Saved
    <3> QED BY <1>2, <2>1, <3>2 DEF Disk
  <2> QED BY <2>1, <2>2, <2>3 DEF Goal
<1>6. CASE NoteTests \/ HumanAnswered \/ HumanUnanswered \/ \E new \in human.toAdd : Add(new)
  <2>1. human'.blockers = human.blockers /\ UNCHANGED <<tasks, file, server>>
    BY <1>2, <1>6 DEF NoteTests, HumanAnswered, HumanUnanswered, Add, HumanState
  <2>2. ~Resolving'
    BY <1>2, <1>6
    DEF NoteTests, HumanAnswered, HumanUnanswered, Add, Call, Ends, NoCall, Resolving
  <2>3. Listed' \subseteq Listed
    BY <2>1, <2>2 DEF Listed
  <2> QED BY <1>3, <2>1, <2>3 DEF Up
<1>7. ASSUME NEW id \in human.blockers, Resolve(id) PROVE Goal
  <2>1. human'.blockers = {} /\ net'[Human].arg = id /\ UNCHANGED <<tasks, file, server>>
    BY <1>2, <1>7 DEF Resolve, Call, HumanState
  <2>2. Listed' \subseteq Listed
    BY <2>1 DEF Listed
  <2> QED BY <1>3, <2>1, <2>2 DEF Up
<1>8. ASSUME NEW w \in Worker, Work(w) \/ Die(w) PROVE Goal
  <2>1. net'[Human] = net[Human] /\ UNCHANGED <<human, tasks, file, server>>
    BY <1>2, <1>8
    DEF Work, Die, Ask, GetsTask, Report, Reported, Unanswered, Call, Ends
  <2> QED BY <1>3, <2>1, ListedKept DEF Up
<1>9. ASSUME NEW c \in Client, Serve(c) PROVE Goal
  <2> DEFINE Answers == /\ UNCHANGED <<human, file>> /\ (Up' <=> Up)
                        /\ net'[Human] = net[Human] \/ net'[Human].kind # "request"
  <2>1. ASSUME NEW v, NEW n, server.at = "idle", Saving(c, v, n) PROVE Answers
    BY <1>2, <2>1 DEF Saving, clientVars, CallState, Up
  <2>2. ASSUME NEW v, Reply(c, v) PROVE Answers
    BY <1>2, <2>2 DEF Reply, Answered, clientVars, CallState, Up
  <2>3. ASSUME Refuse(c) PROVE Answers
    BY <1>2, <2>3 DEF Refuse, clientVars, CallState, Up
  <2>4. ASSUME Handle(c) PROVE Answers
    <3>1. server.at = "idle"
      BY <2>4 DEF Handle, GetNextTask, NoNextTask, MarkTaskDone, MarkTaskBlocked,
                  ResolveBlocked, AddTask, UpdateTests, NotFound, Takes
    <3>2. (\E v, n : Saving(c, v, n)) \/ (\E v : Reply(c, v))
      BY <2>4 DEF Handle, GetNextTask, NoNextTask, MarkTaskDone, MarkTaskBlocked,
                  ResolveBlocked, AddTask, UpdateTests, NotFound
    <3> QED BY <2>1, <2>2, <3>1, <3>2
  <2>5. Answers
    BY <1>9, <2>3, <2>4 DEF Serve
  <2>6. DOMAIN tasks \subseteq DOMAIN tasks'
    <3>1. CASE AddTask(c)
      <4>1. net[c].arg \in Extra
        BY <1>2, <3>1 DEF AddTask, Takes, Calls
      <4> QED BY <1>2, <3>1, <4>1, AddAppends
    <3>2. CASE ~AddTask(c)
      BY <1>9, <3>2
      DEF Serve, Refuse, Handle, GetNextTask, NoNextTask, MarkTaskDone, MarkTaskBlocked,
          ResolveBlocked, UpdateTests, NotFound, Reply
    <3> QED BY <3>1, <3>2
  <2> QED BY <1>3, <2>5, <2>6, ListedKept
<1>10. CASE Truncate \/ Respond \/ Raise
  <2>1. /\ UNCHANGED <<human, tasks>> /\ (file' # Torn => UNCHANGED file)
        /\ server.at # "down" /\ server'.at # "down"
    BY <1>10 DEF Truncate, Respond, Raise, clientVars, Idle, TInv, Shapes, ServerState
  <2>2. net'[Human] = net[Human] \/ net'[Human].kind # "request"
    BY <1>2, <1>10 DEF Truncate, Respond, Raise, Answered, CallState
  <2> QED BY <1>3, <2>1, <2>2, ListedKept DEF Up
<1>11. CASE Write
  <2>1. file' = tasks /\ server.at = "write" /\ UNCHANGED <<tasks, net, human>>
    BY <1>11 DEF Write, clientVars
  <2>2. Disk' = tasks /\ Up
    BY <1>2, <2>1 DEF Disk, Up
  <2> QED BY <1>1, <2>1, <2>2, ListedKept DEF Goal
<1>12. CASE Start
  <2>1. /\ ~Up /\ file # Torn /\ tasks' = Disk /\ Disk' = Disk /\ UNCHANGED <<net, human>>
    BY <1>12 DEF Start, Disk, clientVars, Up
  <2> QED BY <1>1, <2>1, ListedKept DEF Goal, Restartable
<1>13. CASE Crash
  <2>1. /\ "crash" \in Faults /\ ~Up' /\ UNCHANGED <<file, human>>
        /\ net'[Human] = net[Human] \/ net'[Human].kind # "request"
    BY <1>2, <1>13 DEF Crash, clientVars, Idle, Up, CallState
  <2>2. Disk' = Disk /\ (Restartable' => Restartable)
    BY <2>1 DEF Disk, Restartable
  <2> QED BY <1>1, <2>1, <2>2, ListedKept DEF Goal
<1> QED BY <1>4, <1>5, <1>6, <1>7, <1>8, <1>9, <1>10, <1>11, <1>12, <1>13
        DEF Next, Manage, Save

LEMMA NoIdIsGivenAgain ==
  ASSUME StaleIdsAreHarmless
  PROVE  Spec => []~IdGivenAgain
<1>1. Init => TInv /\ KInv /\ Backed
  BY InitTInv, InitKInv, InitBacked
<1>2. TInv /\ KInv /\ Backed /\ [Next]_vars => (TInv /\ KInv /\ Backed)'
  BY NextTInv, NextKInv, NextBacked, BackedIdsAreNew
<1>3. TInv /\ Backed => ~IdGivenAgain
  BY BackedIdsAreNew
<1> QED BY <1>1, <1>2, <1>3, PTL DEF Spec

\* No two workers are at work on one task, where saves and the server cannot both fail, or
\* only decisions are added.
THEOREM OrchestratorOneWorkerPerTask ==
  ASSUME StaleIdsAreHarmless
  PROVE  Spec => []OneWorkerPerTask
BY NoIdIsGivenAgain, OrchestratorNoIdGivenAgainOneWorker, PTL

\* There, what the server has answered is in the state file, unless a save was cut short.
THEOREM OrchestratorAcknowledgedIsDurable ==
  ASSUME StaleIdsAreHarmless
  PROVE  Spec => []AcknowledgedIsDurable
BY NoIdIsGivenAgain, OrchestratorNoIdGivenAgainDurable, PTL

\* There, a task whose /done was acknowledged stays done.
THEOREM OrchestratorDoneStaysDone ==
  ASSUME StaleIdsAreHarmless
  PROVE  Spec => DoneStaysDone
BY NoIdIsGivenAgain, OrchestratorNoIdGivenAgainDone, PTL
=============================================================================
