---------------------------- MODULE Orchestrator ----------------------------
(***************************************************************************)
(* The task server of the multi-agent dashboard                            *)
(* (Multi-Agent Dashboard/ul_orchestrator.py), the workers that follow     *)
(* ul_worker_prompt.md and one human who resolves blockers and adds tasks. *)
(*                                                                         *)
(* HTTPServer handles one request at a time.  A handler changes the state  *)
(* in memory, saves it to the state file by truncating and rewriting it,   *)
(* twice (log_event saves too), and answers.  It may raise while it saves, *)
(* and the server may be killed and restarted between any two steps.       *)
(* Times, results, descriptions and the test count decide nothing and are  *)
(* left out.                                                               *)
(***************************************************************************)
EXTENDS Naturals, Sequences, FiniteSets

CONSTANTS
    Worker, Human,  \* the clients
    Initial,        \* INITIAL_TASKS, as a sequence of [title, human, priority]
    Extra,          \* the tasks the human may add, such records too
    Nobody, Absent, Torn, None,
    Faults,         \* which of "raise", "crash", "die" may happen
    CrashMax,       \* bound: how often the server is killed
    NoteMax,        \* bound: how often the human notes a test count
    ResolveMax      \* bound: how many blockers the human resolves

Created == {Initial[i] : i \in DOMAIN Initial} \cup Extra

\* A task, whatever has become of it.
Statuses == {"pending", "in_progress", "done", "blocked"}
Record ==
    [id : Nat, title : {new.title : new \in Created}, human : BOOLEAN, priority : Nat,
     status : Statuses, to : Worker \cup {Nobody}]

ASSUME OrchestratorAssumption ==
    /\ Human \notin Worker /\ Nobody \notin Worker \cup {Human}
    /\ None \notin Nat /\ Absent \notin Seq(Record)
    /\ Initial \in Seq(Created) /\ IsFiniteSet(Extra)
    /\ \A new \in Created : new.human \in BOOLEAN /\ new.priority \in Nat
    /\ Faults \subseteq {"raise", "crash", "die"}
    /\ CrashMax \in Nat /\ {NoteMax, ResolveMax} \subseteq Nat

VARIABLES
    tasks,      \* state["tasks"] in memory
    file,       \* the state file: Absent, Torn (truncated) or the tasks it holds
    server,     \* its control point, the client it serves, the answer, saves to come
    net,        \* net[c]: c's call: none, request, served, answer or dropped
    worker,     \* worker[w]: control point and task in hand
    human,      \* ids the last GET /blockers listed, tasks to add, counts to note
    crashes,
    finished,   \* history: ids whose /done was acknowledged
    added,      \* history: titles whose /add_task was acknowledged, with their ids
    named       \* history: the ids and titles of all tasks that a state file has held

clientVars == <<worker, human, finished, added>>
vars == <<tasks, file, named, server, net, clientVars, crashes>>

Client == Worker \cup {Human}

NoCall == [kind |-> "none", op |-> None, arg |-> None, value |-> None]

\* A task as it is created.
NewTask(id, new) ==
    [id |-> id, title |-> new.title, human |-> new.human, priority |-> new.priority,
     status |-> "pending", to |-> Nobody]

InitialTasks == [i \in DOMAIN Initial |-> NewTask(i, Initial[i])]

Idle == [at |-> "idle", client |-> Nobody, value |-> None, saves |-> 0]

Init ==
    /\ tasks = << >> /\ file = Absent
    /\ server = [Idle EXCEPT !.at = "down"]
    /\ net = [c \in Client |-> NoCall]
    /\ worker = [w \in Worker |-> [at |-> "idle", task |-> None]]
    /\ human = [blockers |-> {}, toAdd |-> Extra, notes |-> NoteMax, resolves |-> ResolveMax]
    /\ crashes = 0
    /\ finished = {} /\ added = {} /\ named = {}

-----------------------------------------------------------------------------
(* Handlers.  Each one looks up its task, changes it, and starts to save. *)

\* The next((t for t in tasks if t["id"] == id), None) of the handlers.
Matching(id) == {i \in DOMAIN tasks : tasks[i].id = id}
Find(id) == CHOOSE i \in Matching(id) : \A j \in Matching(id) : i <= j

\* Mutant: every task nobody is working on counts as pending.
NotInProgress == {i \in DOMAIN tasks : tasks[i].status # "in_progress" /\ ~tasks[i].human}

Pending == {i \in DOMAIN tasks : tasks[i].status = "pending" /\ ~tasks[i].human}

\* The first of the most urgent: list.sort is stable.
IsNext(i) ==
    /\ i \in Pending
    /\ \A j \in Pending :
          \/ tasks[i].priority < tasks[j].priority
          \/ tasks[i].priority = tasks[j].priority /\ i <= j

\* The server takes c's request for op.
Takes(c, op) == server.at = "idle" /\ net[c].kind = "request" /\ net[c].op = op

\* The handler goes on to save n times and then to answer value.
Saving(c, value, n) ==
    /\ server' = [at |-> "truncate", client |-> c, value |-> value, saves |-> n]
    /\ net' = [net EXCEPT ![c].kind = "served"]
    /\ UNCHANGED <<file, named, clientVars, crashes>>

Answered(c, value) == [net EXCEPT ![c].kind = "answer", ![c].value = value]

Reply(c, value) ==
    /\ net' = Answered(c, value)
    /\ UNCHANGED <<tasks, file, named, server, clientVars, crashes>>

NotFound(c) ==
    /\ server.at = "idle" /\ net[c].kind = "request"
    /\ net[c].op \in {"done", "blocked", "resolve"}
    /\ Matching(net[c].arg) = {}
    /\ Reply(c, "not found")

\* Mutant: the task is handed out but its status is left pending.
GetNextTaskKeepsStatus(c) ==
    /\ Takes(c, "next")
    /\ \E i \in DOMAIN tasks :
          /\ IsNext(i)
          /\ tasks' = [tasks EXCEPT ![i].to = c]
          /\ Saving(c, tasks[i].id, 2)


GetNextTask(c) ==
    /\ Takes(c, "next")
    /\ \E i \in DOMAIN tasks :
          /\ IsNext(i)
          /\ tasks' = [tasks EXCEPT ![i].status = "in_progress", ![i].to = c]
          /\ Saving(c, tasks[i].id, 2)

\* Mutant: the last pending task is overlooked.
NoNextTaskOffByOne(c) ==
    /\ Takes(c, "next") /\ Cardinality(Pending) <= 1
    /\ Reply(c, None)

NoNextTask(c) ==
    /\ Takes(c, "next") /\ Pending = {}
    /\ Reply(c, None)

MarkTaskDone(c) ==
    /\ Takes(c, "done") /\ Matching(net[c].arg) # {}
    /\ tasks' = [tasks EXCEPT ![Find(net[c].arg)].status = "done"]
    /\ Saving(c, "ok", 2)

MarkTaskBlocked(c) ==
    /\ Takes(c, "blocked") /\ Matching(net[c].arg) # {}
    /\ tasks' = [tasks EXCEPT ![Find(net[c].arg)].status = "blocked"]
    /\ Saving(c, "ok", 2)

ResolveBlocked(c) ==
    /\ Takes(c, "resolve") /\ Matching(net[c].arg) # {}
    /\ tasks' = [tasks EXCEPT ![Find(net[c].arg)].status = "pending",
                              ![Find(net[c].arg)].human = FALSE]
    /\ Saving(c, "ok", 2)

\* Mutant: ids are numbered from the unfinished tasks.
AddTaskReusesId(c) ==
    /\ Takes(c, "add")
    /\ LET id == Len(SelectSeq(tasks, LAMBDA t : t.status # "done")) + 1 IN
         /\ tasks' = Append(tasks, NewTask(id, net[c].arg))
         /\ Saving(c, id, 2)

AddTask(c) ==
    /\ Takes(c, "add")
    /\ LET id == Len(tasks) + 1 IN
         /\ tasks' = Append(tasks, NewTask(id, net[c].arg))
         /\ Saving(c, id, 2)

\* /update_tests stores a count and saves once.
UpdateTests(c) ==
    /\ Takes(c, "tests")
    /\ UNCHANGED tasks
    /\ Saving(c, "ok", 1)

Handle(c) ==
    \/ GetNextTask(c) \/ NoNextTask(c) \/ MarkTaskDone(c) \/ MarkTaskBlocked(c)
    \/ ResolveBlocked(c) \/ AddTask(c) \/ UpdateTests(c) \/ NotFound(c)

-----------------------------------------------------------------------------
(* save_state and the answer. *)

\* Mutant: only the save at start-up is made.
TruncateAtStart ==
    /\ server.at = "truncate"
    /\ IF server.client \in Client
       THEN server' = [server EXCEPT !.at = "respond"] /\ UNCHANGED file
       ELSE server' = [server EXCEPT !.at = "write"] /\ file' = Torn
    /\ UNCHANGED <<tasks, named, net, clientVars, crashes>>

\* open(STATE_FILE, "w")
Truncate ==
    /\ server.at = "truncate"
    /\ file' = Torn
    /\ server' = [server EXCEPT !.at = "write"]
    /\ UNCHANGED <<tasks, named, net, clientVars, crashes>>

Names(ts) == {<<ts[i].id, ts[i].title>> : i \in DOMAIN ts}

\* json.dump and close
Write ==
    /\ server.at = "write"
    /\ file' = tasks /\ named' = named \cup Names(tasks)
    /\ server' = [server EXCEPT !.at = IF server.saves > 1 THEN "truncate" ELSE "respond",
                                !.saves = @ - 1]
    /\ UNCHANGED <<tasks, net, clientVars, crashes>>

\* send_json; after the save at start-up there is nobody to answer.
Respond ==
    /\ server.at = "respond"
    /\ net' = IF server.client \in Client THEN Answered(server.client, server.value) ELSE net
    /\ server' = Idle
    /\ UNCHANGED <<tasks, file, named, clientVars, crashes>>

-----------------------------------------------------------------------------
(* Faults and restarts. *)

\* A handler raises before or during a save (a full disk, an unprintable
\* result): the connection closes, and memory keeps the change.
Raise ==
    /\ "raise" \in Faults /\ server.at \in {"truncate", "write"} /\ server.client \in Client
    /\ net' = [net EXCEPT ![server.client].kind = "dropped"]
    /\ server' = Idle
    /\ UNCHANGED <<tasks, file, named, clientVars, crashes>>

\* The server is killed: memory and open connections are lost.
Crash ==
    /\ "crash" \in Faults /\ crashes < CrashMax /\ server.at # "down"
    /\ tasks' = << >>
    /\ server' = [Idle EXCEPT !.at = "down"]
    /\ net' = [c \in Client |-> IF net[c].kind \in {"request", "served"}
                               THEN [net[c] EXCEPT !.kind = "dropped"] ELSE net[c]]
    /\ crashes' = crashes + 1
    /\ UNCHANGED <<file, named, clientVars>>

\* Mutant: a file that cannot be read counts as none.
StartOver ==
    /\ server.at = "down"
    /\ tasks' = IF file \in {Absent, Torn} THEN InitialTasks ELSE file
    /\ server' = [Idle EXCEPT !.at = "truncate", !.saves = 1]
    /\ UNCHANGED <<file, named, net, clientVars, crashes>>

\* load_state at import, then log_event, which saves.  json.load of a truncated
\* file raises: the server does not come up.
Start ==
    /\ server.at = "down" /\ file # Torn
    /\ tasks' = IF file = Absent THEN InitialTasks ELSE file
    /\ server' = [Idle EXCEPT !.at = "truncate", !.saves = 1]
    /\ UNCHANGED <<file, named, net, clientVars, crashes>>

\* A call to a server that is down is refused.
Refuse(c) ==
    /\ server.at = "down" /\ net[c].kind = "request"
    /\ net' = [net EXCEPT ![c].kind = "dropped"]
    /\ UNCHANGED <<tasks, file, named, server, clientVars, crashes>>

-----------------------------------------------------------------------------
(* The workers: ask, work, report, ask again; stop at no_tasks. *)

\* c sends a request, or reads how its call ended.  A call that is refused, or
\* whose connection closes without an answer, is "dropped".
Call(c, op, arg) ==
    /\ net[c] = NoCall
    /\ net' = [net EXCEPT ![c] = [kind |-> "request", op |-> op, arg |-> arg, value |-> None]]
Ends(c, kind) == net[c].kind = kind /\ net' = [net EXCEPT ![c] = NoCall]

Ask(w) ==
    /\ worker[w].at = "idle"
    /\ Call(w, "next", None)
    /\ worker' = [worker EXCEPT ![w].at = "asking"]
    /\ UNCHANGED <<tasks, file, named, server, human, crashes, finished, added>>

GetsTask(w) ==
    /\ worker[w].at = "asking" /\ Ends(w, "answer")
    /\ worker' = [worker EXCEPT ![w] =
          IF net[w].value = None THEN [at |-> "stopped", task |-> None]
                                 ELSE [at |-> "working", task |-> net[w].value]]
    /\ UNCHANGED <<tasks, file, named, server, human, crashes, finished, added>>

Report(w) ==
    /\ worker[w].at = "working"
    /\ \/ Call(w, "done", worker[w].task) /\ worker' = [worker EXCEPT ![w].at = "finishing"]
       \/ Call(w, "blocked", worker[w].task) /\ worker' = [worker EXCEPT ![w].at = "escalating"]
    /\ UNCHANGED <<tasks, file, named, server, human, crashes, finished, added>>

Reported(w) ==
    /\ worker[w].at \in {"finishing", "escalating"} /\ Ends(w, "answer")
    /\ finished' = IF worker[w].at = "finishing" THEN finished \cup {worker[w].task}
                                                 ELSE finished
    /\ worker' = [worker EXCEPT ![w] = [at |-> "idle", task |-> None]]
    /\ UNCHANGED <<tasks, file, named, server, human, crashes, added>>

\* Without an answer a worker repeats /done or /next_task; it does not repeat
\* /blocked ("get the next task and continue").
Unanswered(w) ==
    /\ Ends(w, "dropped") /\ worker[w].at # "dead"
    /\ worker' = [worker EXCEPT ![w] =
          IF worker[w].at = "finishing" THEN [@ EXCEPT !.at = "working"]
                                        ELSE [at |-> "idle", task |-> None]]
    /\ UNCHANGED <<tasks, file, named, server, human, crashes, finished, added>>

Die(w) ==
    /\ "die" \in Faults /\ worker[w].at \notin {"stopped", "dead"}
    /\ worker' = [worker EXCEPT ![w] = [at |-> "dead", task |-> None]]
    /\ UNCHANGED <<tasks, file, named, server, net, human, crashes, finished, added>>

-----------------------------------------------------------------------------
(* The human: list the blockers, resolve one, add a task, note a count. *)

\* GET /blockers, a read that is answered in one step.
Look ==
    /\ server.at = "idle" /\ net[Human] = NoCall
    /\ human' = [human EXCEPT !.blockers =
          {tasks[i].id : i \in {j \in DOMAIN tasks : tasks[j].status = "blocked" \/ tasks[j].human}}]
    /\ UNCHANGED <<tasks, file, named, server, net, worker, crashes, finished, added>>

\* What was resolved is off the human's list, answered or not.
Resolve(id) ==
    /\ id \in human.blockers /\ human.resolves > 0 /\ Call(Human, "resolve", id)
    /\ human' = [human EXCEPT !.blockers = {}, !.resolves = @ - 1]
    /\ UNCHANGED <<tasks, file, named, server, worker, crashes, finished, added>>

Add(new) ==
    /\ new \in human.toAdd /\ Call(Human, "add", new)
    /\ human' = [human EXCEPT !.toAdd = @ \ {new}]
    /\ UNCHANGED <<tasks, file, named, server, worker, crashes, finished, added>>

NoteTests ==
    /\ human.notes > 0 /\ Call(Human, "tests", None)
    /\ human' = [human EXCEPT !.notes = @ - 1]
    /\ UNCHANGED <<tasks, file, named, server, worker, crashes, finished, added>>

HumanAnswered ==
    /\ Ends(Human, "answer")
    /\ added' = IF net[Human].op = "add" THEN added \cup {<<net[Human].value, net[Human].arg.title>>}
                                         ELSE added
    /\ UNCHANGED <<tasks, file, named, server, worker, human, crashes, finished>>

HumanUnanswered ==
    /\ Ends(Human, "dropped")
    /\ UNCHANGED <<tasks, file, named, server, worker, human, crashes, finished, added>>

-----------------------------------------------------------------------------
Serve(c) == Handle(c) \/ Refuse(c)
Save == Truncate \/ Write \/ Respond \/ Start
Work(w) == Ask(w) \/ GetsTask(w) \/ Report(w) \/ Reported(w) \/ Unanswered(w)
Manage ==
    \/ Look \/ NoteTests \/ HumanAnswered \/ HumanUnanswered
    \/ (\E id \in human.blockers : Resolve(id)) \/ (\E new \in human.toAdd : Add(new))

Next ==
    \/ Save \/ Raise \/ Crash \/ Manage
    \/ \E c \in Client : Serve(c)
    \/ \E w \in Worker : Work(w) \/ Die(w)

Spec == Init /\ [][Next]_vars

\* The server runs and accepts every waiting connection in its turn, a worker
\* goes on until it is told to stop, and the human reads answers.
FairSpec ==
    /\ Spec
    /\ WF_vars(Save)
    /\ \A c \in Client : SF_vars(Serve(c))
    /\ \A w \in Worker : WF_vars(Work(w))
    /\ WF_vars(HumanAnswered \/ HumanUnanswered)

-----------------------------------------------------------------------------
Ids == 1..(Len(Initial) + Cardinality(Extra))

IsTask(t) == t \in Record /\ t.id \in Ids

TypeOK ==
    /\ \A i \in DOMAIN tasks : IsTask(tasks[i])
    /\ file \in {Absent, Torn} \/ \A i \in DOMAIN file : IsTask(file[i])
    /\ server.at \in {"down", "idle", "truncate", "write", "respond"}
    /\ server.client \in Client \cup {Nobody} /\ server.saves \in 0..2
    /\ \A c \in Client : net[c].kind \in {"none", "request", "served", "answer", "dropped"}
    /\ \A w \in Worker : worker[w].task \in Ids \cup {None}
    /\ human.blockers \subseteq Ids /\ human.toAdd \subseteq Extra /\ human.notes \in 0..NoteMax
    /\ human.resolves \in 0..ResolveMax
    /\ finished \subseteq Ids /\ added \subseteq Ids \X {new.title : new \in Extra}
    /\ named \subseteq Ids \X {new.title : new \in Created}

\* w is at work on a task; one that escalates has put it down.
Busy(w) == worker[w].at \in {"working", "finishing"}

\* No two workers are at work on one task, whatever calls are in flight, however
\* often the server is killed: workers edit the same files, unsupervised.
OneWorkerPerTask ==
    \A v, w \in Worker : Busy(v) /\ Busy(w) /\ worker[v].task = worker[w].task => v = w

\* What was answered is on disk, unless a save was cut short: an assignment that
\* a worker is acting on, a completion, and the id of an added task.
AcknowledgedIsDurable ==
    file \notin {Absent, Torn} =>
        /\ \A w \in Worker : worker[w].at = "working" =>
              \E i \in DOMAIN file : /\ file[i].id = worker[w].task
                                    /\ file[i].status \in {"in_progress", "done"} /\ file[i].to = w
        /\ \A id \in finished : \E i \in DOMAIN file : file[i].id = id /\ file[i].status = "done"
        /\ \A a \in added : \E i \in DOMAIN file : file[i].id = a[1] /\ file[i].title = a[2]

\* Ids number the tasks in memory and in the state file.  An id that a state file has
\* ever held names one task for good, through failed saves, kills and restarts: its task
\* is in memory while the server runs and in every file that can be read.  The id that an
\* addition was answered with is such an id.  An id that no file has held, because the
\* save raised or the server was killed, may name another task after a restart.
Numbered(ts) == \A i \in DOMAIN ts : ts[i].id = i
NamesLast ==
    /\ \A m, n \in named : m[1] = n[1] => m = n
    /\ server.at # "down" => named \subseteq Names(tasks)
    /\ file \notin {Absent, Torn} => named \subseteq Names(file)
    /\ added \subseteq named
TasksAreSound ==
    /\ TypeOK /\ NamesLast
    /\ Numbered(tasks) /\ (file \notin {Absent, Torn} => Numbered(file))

\* A task that is done stays done, in memory and across a restart.
DoneStaysDone ==
    [][\A id \in finished : server'.at # "down" =>
          \A i \in DOMAIN tasks' : tasks'[i].id = id => tasks'[i].status = "done"]_vars

\* Every task that needs no human is worked on to its end or to a blocker,
\* although the queue is by priority, as long as the human does not put a more
\* urgent task back for ever.
InitialTasksAreAttempted ==
    \A id \in DOMAIN Initial :
        ~Initial[id].human =>
            <>(\E i \in DOMAIN tasks : tasks[i].id = id /\ tasks[i].status \in {"done", "blocked"})
=============================================================================
