# UniLogic verification project

TLA+ models of the parts of the UniLogic (UL) tool chain that keep state, run
concurrently, survive failures or transform programs; the TLC runs that check
them on small instances; and the theorems that TLAPS proves for all instances.
Paths are relative to the repository's `src/`.

## 1. The system

UniLogic is a language with several memory modes, a compiler written in Python,
transcoders from and to other languages, C runtimes for the memory modes, a C
syntax tree for a future compiler, and a small task server for the agents that
develop it.

| Component | Where | State | Operations | What is hard | What must hold |
|---|---|---|---|---|---|
| Reference counting runtime | `Compiler/Runtime/ul_refcount.*` | a header with a strong and a weak count per object | alloc, retain, release, weak retain, weak release, weak lock | threads interleave between any two atomic accesses; destructors nest | no use after destruction or free, one destruction, exact counts, no leak |
| Tracing collector | `Compiler/Runtime/ul_gc.*` | phase, colours, allocation list, flags | init, alloc, write barrier, shade, collect, background cycle, shutdown | marking runs beside the program; a barrier; a list shared with the sweep; busy waiting | tricolour invariant, the sweep frees nothing a kept object points to, a collection is a whole cycle, waiting ends |
| Gray queue | `Compiler/Runtime/ul_gc.c` 80-145 | growing, compacting array with head and tail | push, pop | growth and compaction at odd indices | it is a first-in first-out queue |
| Arena runtime | `Compiler/Runtime/ul_arena.*` | a chain of blocks with a bump offset each | new, alloc, reset, free | sizes wrap; blocks of different sizes; reset | regions are aligned, disjoint and inside their block; nothing leaks |
| Manual runtime | `ul_manual.*` | none | wrappers of mimalloc | - | - |
| Memory mode selection | `ul_memory.h` | which macro is defined | one mode per program | - | a program's objects live under one runtime only |
| C syntax tree arena | `Compiler/SynTree Def/c_implementation/ast_arena.*` | node, span and child arrays, string buffer, hash table | alloc node, alloc/push/commit children, intern, destroy | growth, and its failure half-way | ids and lists stay good through every growth |
| C node types, printer | `ast_nodes.h`, `ast_debug.c`, `ast_strings.*` | none | - | - | - |
| Task orchestrator | `Multi-Agent Dashboard/ul_orchestrator.py` | the task list in memory and in a JSON file | next_task, done, blocked, resolve, add_task, update_tests, blockers, start | killed at any point, exceptions while saving, lost answers | one worker per task; what was answered is durable; ids are unique; tasks get done |
| Workers, human | `ul_worker_prompt.md` | task in hand, call in flight | ask, work, report, resolve, add | die, lose answers, act on old lists | |
| Dashboard page | `ul_dashboard.html` | none | polls `/status` | - | - |
| Compiler driver | `Main.py` | files | compile, run, test | order of the passes | |
| Lexer, parser | `Compiler/Lexer/src2token.py`, `Compiler/AST Gen/token2ast.py` | position | tokenize, parse | statements have no separators: where one ends is decided by the token that follows; keywords end some blocks and begin others; six ways to write a loop, three a cast | what is read is what was written |
| Syntax tree | `Compiler/SynTree Def/ast_nodes.py` | the tree | constructors | mutated in place by the normalizer | |
| Normalizer | `Compiler/simplifycode.py` | level, counter of temporaries, the tree | one rewriting per construct, at four levels | order of evaluation of what is moved | meaning is kept; result is a normal form |
| Semantic checker | `Compiler/Semantic/semcheck.py` | scopes, tables | check | its scopes decide for back ends that have others; it runs after the normalizer | no accepted function reaches a name without a variable, or falls off its end; the normalizer changes no verdict |
| Source printer | `Compiler/ast2src.py` | none | print a tree | the inverse of a parser that has precedence and lookahead | what it prints is read as what it was given |
| Bytecode compiler | `Transcoder/Encoder/ul2ubi.py` | code, variable registers, temporaries, jumps to patch, pools | compile_expr, compile_stmt, serialize | stack discipline of temporaries; jumps of nested loops | the code means what the source means, in the frame it declares |
| Bytecode file | `ul2ubi.py` 80-360, 1700-2060, `Transcoder/Decoder/ubi2ul.py` | pools, tables; position in the file, tables read | serialize; parse, decompile | two programs agree on kinds, order, offsets and widths of some thirty fields; indices are cut to 16 and 8 bits | what was compiled is what is read, names, types and lines included |
| Front ends | `Transcoder/Encoder/py2ul.py`, `c2ul.py` | - | translate | semantics of two other languages | |
| Back ends | `Transcoder/Decoder/ul2c.py`, `ul2js.py`, `ul2llvm.py`, `ul2py.py` | text, declared names, loop and label counters, statements hoisted in front of others | generate text | semantics of four other languages; `?`, `match`, `try`, ranges and `continue` have no counterpart in some of them | the code does what the source says; blocks of LLVM IR are well formed |
| Pipelines | `Testing/(OUTSIDE LOG) Verify Testing/*.py`, `Testing/Tools/testchain.py` | logs | run stages | - | |

Interaction.  The driver calls lexer, parser, normalizer, checker and one
generator, in this order, on one tree.  Compiled programs link one memory
runtime; its callers are the program's threads, and the collector adds one
thread of its own.  The C tree's arena is called by one thread.  The server
handles one HTTP request at a time; workers and the human are its clients and
meet only through it.  The other directories of `Testing/` are corpora, their
outputs and copies of the tools.

## 2. Modules

Each module's comments say which code an action or an operator stands for;
`PROJECT.json` gives the lines.  Operators called mutants stand beside the
definition they replace; they are plausible mistakes that the checks must notice.

| Module | What it is |
|---|---|
| `RefCount` | the reference counts under every interleaving |
| `ObjectLifetime` | what they promise: owners and watchers as sets, no counts |
| `RefCountProof` | proofs: the safety invariants, and that it implements `ObjectLifetime` |
| `GC`, `GCProof` | the collector's thread, the barrier, the list, the flags; proofs |
| `GrayQueue`, `Fifo`, `GrayQueueProof` | the array of the gray queue; the queue it implements; proofs |
| `Arena` | the arena with wrapping addresses |
| `Memory`, `MemoryProof` | one program under one of the three modes that keep a state: composes `RefCount`, `Arena` and `GC`; proofs about the arena, and that a program runs each runtime as its own module says |
| `InternTable`, `StringInterner`, `InternTableProof` | the hash table of strings; what it promises; proofs |
| `AstPools`, `AstPoolsProof` | node, span and child pools; proofs |
| `AstArena` | table and pools, one beside the other: the C tree's arena has both, and they share nothing |
| `Orchestrator`, `OrchestratorProof` | server, state file, network, workers, human; proofs |
| `ULSyntax` | the tree nodes and what they consist of |
| `Tokens`, `Parser` | tokens; the parser of function bodies as operators on sequences of tokens |
| `Writing` | the reference for the parser: how a tree is written, in two styles |
| `SourcePrinter` | the printer of `--dry-run`, from trees to tokens |
| `Normalizer`, `FuncCompiler` | the normalizer and the bytecode compiler as operators on trees and on the compiler's state |
| `BytecodeFormat`, `BytecodeFormatProof` | the part of a `.ubi` file without the debug section, written and read entry by entry; proofs |
| `BytecodeFile` | a program on its way through a `.ubi` file: compiled, written with its debug section by `ul2ubi.py`, read by `ubi2ul.py`; extends `BytecodeFormat` |
| `SemCheck` | the verdict of the semantic checker |
| `Emitter` | the statements of a target language, and what the back ends share |
| `ULToPython`, `ULToJS`, `ULToC`, `ULToLLVM` | the four back ends: from a tree to code of the target |
| `ULMeaning` | the reference: what a function body means, exceptions and results included, and what code of the targets does |
| `Deviations` | the statements whose translation is known to do something else (section 6) |
| `Toolchain` | a function on its way through the normalizer and the bytecode compiler and through a machine, one instruction a step |
| `Pipeline` | a function on its way from its text through parser, normalizer, checker and each of the four back ends |
| `MC*` | constants for TLC |

### How state and actions correspond to the code

**RefCount.**  The processes are references, not threads: a reference is a
variable that can hold one counted pointer, with the control point of the library
call that works on it (`st`).  A thread is a program over some references, so
every schedule of any number of threads is a behaviour.  `ul_release` is
`DecStrong`, `DestructorRelease`/`DestructorReturn`, `ClearData`, `DropSentinel`,
`FreeBlock`, each of which other calls may come between; `ul_weak_lock` is
`LockLoad` and then `LockSwap`, `LockRetry` or `LockFail`.  Every object has one
pointer field that its destructor releases.  The C11 orderings (acquire-release
on the decrements, acquire on the promotion) are what justifies a sequentially
consistent model.  Callers follow the API: they release what they hold, once.

**GC.**  `gc.pc` is the control point of the background thread in
`gc_mark_roots` ... `gc_sweep`, `th[t].pc` that of a thread inside
`ul_gc_write_barrier`, `ul_gc_shade` or `ul_gc_collect`.  Code under
`gc_list_mutex` or `gc_queue_mutex` is one step, except for the sweep, which
excludes `ul_gc_alloc` while it goes from object to object.  `gc_mark_roots` is
a stub in the source and so it is here: only what a barrier or a direct
`ul_gc_shade` reached survives.  The queue is its contents here; `GrayQueue`
has the array.  `malloc` does give `ul_gc_init` its queue: the code does not look.
Two variables are history that the code does not have: `begun`, the
threads in whose present call the last cycle began, and `served`, those whose
`ul_gc_collect` has had such a cycle.

**Arena.**  Blocks with base, size and offset, newest first; requests are rounded
up and compared modulo `Word`.  `malloc` is external and returns any free base of
`Bases` at which the block fits.

**Memory.**  `ul_memory.h` refuses two modes in one program; `mode` is the one that
is defined, and a step is a step of that runtime.  The manual mode keeps no state.

**InternTable, AstPools, AstArena.**  One action per entry point and outcome (room,
growth, each failure).  Node contents decide nothing and are left out; an array is
the number of the allocation that made it.  Two variables are history: `halfGrown`,
whether one array of nodes ever moved and the other did not, and `spoiled`, how many
slots were overwritten by commits for which the pool could not grow.  `AstArena` begins as one of the two
parts: since they share no variable, a behaviour of both is an interleaving of one
of each.

**Orchestrator.**  A handler is: take the request and change the tasks in memory,
then `Truncate` and `Write` once for the change and once for the log entry, then
`Respond`.  Between any two the server may be killed (`Crash`), while it saves it
may raise (`Raise`).  `Start` is `load_state` and the log entry at start-up; a
truncated file stops it.  `Look` is `GET /blockers`.  A worker follows the
prompt's loop; the work itself is one step that ends in `done` or `blocked`.
`named` is history: the ids that a state file ever held, each with the title it had
there.

**Toolchain.**  `Simplify` is the driver's call of the normalizer, `Generate` that
of `ul2ubi.generate`; the actions after that are the opcodes, as the comments of
`ul2ubi.py` 18-81 describe them, on a machine that is not in this repository
(external).  `FuncCompiler` mirrors the compiler's own state: `vars`, `_var_regs`
(`owned`), `temp_base`, `temp_top`, `max_reg`, the code so far and the stacks of
jumps to patch.  Constants are immediate operands.  Indices outside of an array
read 0 and store nothing, in the machine and in the reference alike.  A called
function is any function of its arguments; calling it can be seen.

**BytecodeFile.**  A file is a sequence of fields, each with the kind by which it is
written or read (`u8`, `u32`, `uleb`, a string, an instruction, ...); sizes and
offsets are counted in fields.  `NameConstants`, `Register`, `CompileUnit` are the
passes of `compile_program`, one step for each function and method; `Serialize` hands
what they have gathered to `BytecodeFormat`, whose `GatherCode` ... `WriteCode` are
`serialize`: the code of each function, the header, each constant, each function, and
then all code with the debug section (`WriteCodeAndDebug`), unless an enum makes it
raise (`MembersRaise`).  `ReadHeader` ... `ReadCode` are `parse_ulb`, which fills
`found`, and `ReadDebugHeader` ... `Finish` are `parse_debug_section`, which fills
`info`; one step is one entry of a table.  A count of one byte that is too large
raises; counts of four bytes are taken to be enough.  `FormatInit` begins
with any pool and any functions, those that no compiler makes included.  `RegName`,
`SourceLine`, `TypeString` and `Callee` are what `FuncDecompiler` asks of the tables
at an instruction; the statement it prints for each opcode is left out.  `ImmMax`,
`JumpMax` and `RegMax` stand for the largest numbers of 16, 24 and 8 bits, scaled
down so that programs exceed them: `Encoded` cuts the index of a constant and the
offset of a conditional jump to the first, that of a jump to the second.

**Pipeline.**  The steps are those of `compile_file` in `Main.py`: `Parse`,
`Simplify` (which takes the level), `Check`, `Generate` (which takes the target).
`Execute` is the target's own compiler and machine, which are not in this
repository (external).  A back end here yields statements of the target as
records, in the vocabulary of `ULSyntax` wherever the target has the same
construct, with a kind of its own where it has not (JavaScript's `switch` and
`const` loop variable, C's jump buffers, Python's operators, LLVM's labels, slots and
branches), or `Broken` where the target's compiler
rejects it (`Refused`).  `ULMeaning` gives both meanings: that of the source, and,
with the switches that tell the targets apart (one block of variables, or one for
each block; what a C compiler keeps in a register over a `longjmp`), that of the
code.  LLVM IR is run block by block by `ULToLLVM!Exec`.

**Tokens, Parser.**  A token is a pair of kind and value.  Characters are left
out, but for the longest match of `--`.  A parsing function of `token2ast.py` is an
operator of the same name from the tokens that are left to a result and the
tokens then left; an exception of the code is a result that every caller passes
on.  Line numbers are kept as the parser uses them: whether two tokens are on one
line decides `else if`.

**SemCheck.**  Scopes are sets of names, a verdict is a Boolean per rule: names,
numbers of arguments, loops around `escape` and `continue`, a return on every
path.  Types are left to the operands that `ULSyntax` can tell apart.

## 3. Runs

| Run | Configuration and bounds | Checks |
|---|---|---|
| `memory` | reference counts: 4 variables, 2 objects with a field each; arena: requests of 0 to just under 3 units, up to 3 blocks, 128 addresses; collector: 2 objects, one thread, the queue may fail to grow, shutdown at any point between calls | `DataLiveWhileStrong`, `NoDanglingHeader`, `OneDestroyer`, `CountsExact`; that it implements `ObjectLifetime`; `UnreferencedIsFreed`; `RegionsAreDisjoint`, `NothingLeaks`; `CollectReturns` |
| `gc_synchronous` | 3 objects, one thread, which waits while a cycle runs | `Tricolor`, `MarkingIsExact` |
| `gc_race` | 2 objects, one thread that mutates, one that collects, shutdown at any point between calls | `HeapIsConsistent`, `GrayIsPending`, `CollectIsSynchronous`, `ExposedByStaleStores` |
| `gc_queue_failure` | 3 objects, the queue may fail to grow | `NoDanglingField` is violated (section 6) |
| `gray_queue` | capacity 2, doubling to 8, two values | `NoGarbage`; that it implements `Fifo` |
| `ast_arena` | table: 6 strings with colliding hashes, tables of 4, 8 and 16 slots; pools of 2 nodes and 1 child that grow, 3 lists of up to 3 children, counts of up to 2; any allocation may fail | `InternedIsReachable`, `TableIsConsistent`; that the table implements `StringInterner`; `ListsReadBack`, `PoolsAreSound` |
| `orchestrator_faults` | 2 workers who may die, 1 task, 2 additions (decisions) under either of two titles, any save may raise, 1 kill | `OneWorkerPerTask`, `AcknowledgedIsDurable`, `TasksAreSound`, `DoneStaysDone` |
| `orchestrator_live` | 2 workers, 3 tasks of two priorities, one of them a decision, 2 resolutions, no faults | `InitialTasksAreAttempted` |
| `compile` | about 2,600 function bodies, 4 levels, 2 inputs, 300 instructions each | `RunsAsWritten`, `FrameIsSafe`, `TempsBalance`, `NormalForm` |
| `bytecode_file` | about 180 programs, with and without debug section, immediates up to 15, jumps up to 31, registers up to 7 | `ProgramIsRead`, `DebugIsRead` |
| `pipeline` | about 700 function bodies, 2 styles, 4 levels, 4 targets, 2 inputs, at most 12 rounds of a loop | `ReadAsWritten`, `PrintedIsRead`, `DoesWhatItSays`, `CheckedNamesAreBound`, `CheckedMainReturns`, `VerdictIsKept`, `BlocksAreWellFormed` |
| `cases` | the bodies of `pipeline` that match cases of every kind | `CasesAreTold` is violated (section 6) |

Why these bounds are enough to mean something:

- `memory`, reference counts: a failure of counting needs one release that goes on after its
  decrement, one promotion and one weak release on the same object, and a third
  party that sees the result: four references.  Two objects make a destructor
  release another object, and make cycles.  The theorems cover all sizes.
- `gc_*`: three objects make a chain, a cycle and garbage at once, and a sweep
  with a predecessor, a victim and a successor.  In `gc_race` two objects are the
  least with a black parent and a white child.
- `gray_queue`: at capacity 2 the array grows with its head at the front and past
  it, and compacts with no, one and several entries.  The theorems cover the rest.
- `memory`, arena: requests fit, fill a block exactly, need a new block, and need one
  larger than the default.  `Word` leaves room for wrapping of small numbers; sizes
  near it are not requested (section 6).
- `ast_arena`: six strings are what makes the table grow twice; they collide before a
  growth and not after, after and not before, and always.  A list is longer than a
  count can say, one overflows a doubled pool, one ends exactly at the capacity;
  a third list is what a commit that could not grow the pool spares or overwrites.
  The theorems cover all sizes.
- `orchestrator_faults`: two workers are needed to share a task, two additions and
  one kill to give an id again, two titles to tell the tasks apart that have it, one
  worker's death to leave a task behind.  Workers and titles are symmetric.
- `compile`: `MCToolchain` has every expression of one operator over the operands
  that differ for the compiler (constant, variable, temporary, call, change of a
  variable, element at a constant and at a variable) and every kind of loop around
  every pair of simple statements.  300 instructions are several times what the
  longest terminating body needs.
- `bytecode_file`: `MCBytecodeFile` has a program for each kind of table and for each
  way in which two entries meet: one name for two functions or two types, constants
  that are shared, more constants than an immediate counts, bodies of loops and
  branches just within and just beyond what either kind of jump reaches, more variables than a
  register number, functions inside of functions, methods of an object with a parent,
  a variable declared again, statements on one line, on none and on decreasing lines.
- `pipeline`: `MCPipeline` has expressions that need brackets on either side,
  every kind of loop around a condition that does and does not leave it, matches
  with cases that are literals, negative literals, names and calls, results that
  are unwrapped in each position, `try` with no, one, a catching-all and several
  handlers and with and without `finally`, thrown to, passed through and left by
  each kind of jump, each way to declare a name before each way to use it, and
  blocks that end with any statement before each other statement.  Inputs make
  each branch go both ways.  Rounds are
  counted over all loops of a body; one that has not ended after 12 is taken for
  endless on both sides, and bounds of ranges and conditions are at most 4.

Deadlock is checked in all runs but those whose system may stop: an interned
cycle of references nobody can free, a collector that was shut down (`memory`, `gc_race`),
workers told to stop (`orchestrator_*`), an arena that was destroyed (`ast_arena`), a
file that was read (`bytecode_file`), a function that returned or was not translated
(`compile`, `pipeline`, `cases`).

### Fairness

Only what the code's scheduling gives.  `memory`: with reference counts, a thread
inside a call keeps running; nothing makes it begin one; with the collector, the background thread is
scheduled, and so is a thread inside a call; no fairness for beginning one, nor
for shutting down.  `orchestrator_live`: the server runs on, and accepts
connections in the order of the listen queue, so that a waiting client is served
in its turn (strong fairness per client, since the server is busy in between);
a worker goes on with its loop, as the prompt says; the human reads answers but
need not resolve anything.  Liveness of tasks is checked without faults because
with them it does not hold (section 6).

### The properties in words

- *ImplementsLifetime*: whatever way calls overlap, counts behave as the sets of
  references they stand for.  *UnreferencedIsFreed*: who is last frees.
- *RegionsAreDisjoint*, *NothingLeaks*: what an arena hands out is aligned, inside
  of a block and nobody else's; a freed arena frees every block, once.
- *HeapIsConsistent*: the allocation list holds each object that was allocated and
  not freed, once, whatever the sweep and an allocation do to it.
- *GrayIsPending*: a gray object is in the queue or in someone's hands, never
  forgotten.  *Tricolor*: while marking, nothing scanned points to
  what marking has not reached.  *NoDanglingField*: the sweep frees nothing that
  a kept object points to.  *MarkingIsExact*: marking neither adds
  to nor takes from what was reachable.  *CollectIsSynchronous*: `ul_gc_collect`
  returns only after a cycle that began after it was called.
  *ExposedByStaleStores*: while marking, a black object can come to point to a white
  one only by the store of a barrier that was entered before marking began (or where
  the pointer dangled already).
- *AcknowledgedIsDurable*: an assignment a worker acts on, a completion and an id
  that were answered are in the file, unless a save was cut short.
  *DoneStaysDone*, *OneWorkerPerTask*: across restarts.  *TasksAreSound*: ids number
  the tasks, and an id that a state file ever held names one task for good, in memory
  and in every readable file, through kills and restarts; whoever is told of an
  addition is told such an id.  An id that no file held may be given again
  (section 6).
- *TableIsConsistent*: the count that decides on growth is that of the entries.
  *InternedIsReachable*: a string is found by probing from its hash, and every probe
  comes to an end.  *PoolsAreSound*: every array an arena keeps is
  one it owns, and destroying it frees all, once, until one of the two arrays of nodes
  moves and the other does not.  *ListsReadBack*: every list of children reads back as
  it was built, as far as its count goes, unless it begins in a slot that a commit for
  which the pool could not grow has overwritten; its count is its length, or the
  largest there is.
- *RunsAsWritten*: what the machine puts out is what `ULMeaning` says of the
  source, at every level of normalization, unless the body has one of the seven
  constructs of `Deviates` (section 6).  The order of the calls within one
  statement is left open, as in C.  *FrameIsSafe*: no register above the declared
  count is written, none is read before it is written, and the program counter
  stays in the function.  *TempsBalance*: every function gives back all
  temporaries and patches all jumps.  *NormalForm*: normalizing twice changes
  nothing, and no call or cast is left inside of another where the documentation
  says it is taken out.
- *ProgramIsRead*: the reader finds every field where and as it was written, with
  its constants and functions (`FormatIsRead`); every
  function has its name, number of parameters and code, with the calls and all else
  of the program that was compiled, but for what does not fit: a constant is the one
  that was meant if, and only if, its index fits, a jump goes where it was to go if,
  and only if, its offset does, and registers fit their frame as long as their count
  does.
  *DebugIsRead*: at every instruction the decompiler has the line, the names and the
  types of the source, with the exceptions of section 6.
- *ReadAsWritten*: the parser makes of a text the tree that was written, exactly
  when none of the constructs of `MisreadIn` is in it.  *CasesAreTold*: what the
  comment on the cases of a match says (violated).  *PrintedIsRead*: the source
  that is printed of a tree is read as this tree, exactly when it has none of the
  constructs of `LosesIn`.
- *CheckedNamesAreBound*: an accepted function comes to no name without a
  variable, on any path and from any input.  *CheckedMainReturns*: nor to its end
  without a return, where the checker asks for one.  *VerdictIsKept*: what the
  checker says of the normalized tree, which is the only one it sees, is what it
  would say of the tree that was read.
- *BlocksAreWellFormed*: every block of LLVM IR ends in one branch or return and
  contains no other, every label a branch names is defined once.
- *DoesWhatItSays*: in each of the four languages the code puts out, and returns
  or throws, what the source means, unless a statement is one of those in
  `Deviations` (section 6).

## 4. Proofs

Eight modules hold the 34 theorems that `PROJECT.json` lists, each for every value of
the constants that the named assumptions allow.  TLC checks the same properties on
the instances above.

**RefCount** (assumption: finitely many objects and references, fewer references
than `INT32_MAX`).  `DataLiveWhileStrong`, `NoDanglingHeader`, `OneDestroyer`,
`CountsExact` and `TypeOK` are not inductive.  That a release which reads 1 is
the last one is a fact about how many references exist; that no promotion revives
a dying object needs what each control point knows.  `IInv` has therefore seven
parts: types; what each control point finds at the other end of its pointer
(`RefInv`); fields hold strong references of live objects (`FieldInv`); one
destruction, without strong competitors (`DeathInv`); live data has an owner or
a destroyer (`LiveInv`); a promotion reads through a weak reference that stays
(`LockInv`); each count is the cardinality of a set of references (`CountInv`).
Lemmas turn cardinalities into first-order facts (adding, removing, changing one
reference), so that the proof of each action is a case analysis.  Theorems
`TypeCorrect`, `NoUseAfterDestroy`, `NoUseAfterFree`, `DestroyedOnce`,
`CountsCorrect` follow from `IInv`; `Refinement` maps each action, under `IInv`,
to one action of `ObjectLifetime` or to a stuttering step.

**GrayQueue** (assumption: a positive initial capacity).  The invariant orders
head, tail and capacity and says that slots between head and tail were written;
`GrayQueueTypeCorrect`, `GrayQueueNoGarbage`, `GrayQueueIsFifo`.

**GC** (any objects and threads).  What needs less is proved first, and used by the
rest:
- `HInv` (types; which control points go with which flags; the list holds every
  allocated object once, and the sweep's predecessor stands right before its victim)
  gives `GCHeapIsConsistent`, with no condition on threads or failures.
- `GrayIsPending` is inductive beside `HInv`; `GCGrayIsPending`, under `QueueGrows`,
  since a failed growth loses it (section 6).
- `OneCycle` follows a request through the collector's loop; `GCCollectIsSynchronous`
  holds under `OneCaller`, since two callers share a flag (section 6).
- `BInv` says what the barrier guarantees, whatever races with it: a thread that has
  entered it since marking began has shaded what it is about to store (`Spared`), and
  nothing is black but what this cycle has marked (`Blacks`).  It gives
  `GCExposedByStaleStores`, again with no condition: the step that lets a black object
  point to a white one is the store of a barrier entered before marking began, or the
  pointer dangled already.
- What the code leaves to chance is then one thing, `Handshake`: no thread is inside a
  barrier or a direct shade when marking begins, when it ends, or during the sweep.
  With it and `QueueGrows`, for any number of threads, `Sound` (nothing black points to
  white; while sweeping, nothing kept points to what is to be swept) gives
  `GCTricolor` and `GCLeavesNothingDangling` (`NoDanglingField` until shutdown, which
  TLC checks only where it fails); `Held` and `Snapshot` (what is in the queue or in
  hand while marking is marked; a thread that is about to overwrite a pointer has seen
  to it that what it points to is marked) give `GCMarkingIsExact`, although threads overwrite fields
  that marking is about to scan.
- One thread waits while a cycle runs and so keeps the handshake: `GCStopsTheWorld`
  has all three for it, under `OneThread` and `QueueGrows` alone.

**Memory, its arena** (assumption: the alignment divides the size of the address
space and where `malloc` puts a block).  `Linked`: the chain ends with the first
block and has every block that was allocated; it holds for sizes that wrap too, and
gives `MemoryNothingLeaks`.  `Chain`: blocks are disjoint, their offsets aligned and
inside of them.  `Regions`: a region that is handed out lies below the offset of a
block, and no two overlap.  `MemoryRegionsAreDisjoint` needs `NothingWraps` (no
request rounds up beyond the address space): near `SIZE_MAX` the code rounds a size
up to zero and hands out a region that is not there (section 6).

**Memory, the composition.**  A step of one mode leaves the state of the others alone
(the lemma `MemoryRunsOneRuntime`), which is how the composition is made.  Through it
the theorems about `RefCount` hold of the composition:
`MemoryReferencesAreSound`, `MemoryImplementsLifetime`.

**InternTable** (assumption: the first table has a multiple of four slots; any hash
function but one that gives the empty string 0).  `IInv` says that each entry lies
on the probe path of its hash with no empty slot before it, that no string has two,
that no two share an offset, that the count is exact and that three quarters of the
table are never exceeded, so that a slot is empty.  It gives
`InternFindsAgain` (which includes that every probe ends), `InternTableConsistent`, and, step by step,
`InternImplementsInterner`.  The probe is the first slot that stops it.  A growth
and the doubling of the buffer are recursive functions: that they are what they say,
and keep what each round keeps, is an induction over the naturals, which
`SetInduction` gets from the least element of a set of naturals.

**AstPools** (assumption: positive initial sizes).  `PInv` has types, the ownership
of arrays (what the arena keeps is what it owns until one array of nodes moves and the
other does not) and runs: each list owns a run of slots below the pool's end, no two
meet, and every slot of a run from the first on that no failed commit overwrote, those
past what a count can say included, holds what was put there.  A list that such a
commit handed out (`Stray`) lies over others, but all its slots are filled, so that
`arena_push_child` goes to none of them.  `PoolsNeverLoseAnArray`, `PoolsKeepChildren`.

**Orchestrator** (assumption: finitely many tasks to add; any initial list, workers,
faults and bounds). `TInv` (types, who may call what, lists are numbered in memory, in
the file and in what a restart loads) and `NInv` give `OrchestratorNamesLast`, which
states `TasksAreSound`, without conditions. `NInv` follows the id of an addition from
the handler through the first save, which makes it a name, to the answer: what memory
says, and what the file says unless a kill cut it short, includes all of `named`, and an
answer is given only once its id is in it. A save writes memory, so it drops no name:
between two saves tasks are only added or change status. `OneWorkerPerTask`,
`AcknowledgedIsDurable` and `DoneStaysDone` are about one task seen from five places:
memory, file, the call in flight, the worker's hand and the human's list. `KInv` says
what each must say of it from the step that takes it in `get_next_task` to the
acknowledgement of `/done`: `Knowledge` (what was answered is in memory and in what a
restart loads, and nobody can take what the human has on her list), `Ownership` (a task
is in one hand, report or answer, and then on no list), `Underway` (what the handler in
the middle of its save is about to answer), `Saved` (how far the file lags behind). Its
one way to break is `IdGivenAgain`: an ordinary task is about to be added under an id
that the human still has on her list. `OrchestratorNoIdGivenAgainOneWorker`,
`...Durable` and `...Done` say that the three properties hold of every behaviour in
which that never happens, with any failures and kills. That it can happen is how the
first attempt at the proof failed: a task is added, its save raises, it appears in the
human's list; a kill forgets it; the next task to be added, an ordinary one, gets its
id; a worker takes it; the human resolves the old entry, and a second worker takes it
too. It takes all three of a save that raises, a kill, and an ordinary task to be added:
under `StaleIdsAreHarmless`, which excludes one of them, `Backed` (what the human has on
her list exists, and will exist after a restart) shows that no id is given again
(`NoIdIsGivenAgain`), and `OrchestratorOneWorkerPerTask`,
`OrchestratorAcknowledgedIsDurable` and `OrchestratorDoneStaysDone` follow with no
condition on the behaviour.

**BytecodeFormat** (assumption: a constant has one of the five types that the
generator gives out).  `FormatIsReadBack`: whatever the pool and the functions, the
reader finds each field to be of the kind it takes there, and in the end has every
constant with its type and every function with its own code; without a debug
section it leaves nothing unread.  No entry says how long it is.  The invariant
therefore has a place for every constant, each where the one before ends;
`Progress` says that the writer puts the next entry at that place (the file ends
there) and that the reader takes it from there (in the number of fields that the
tag it has just read calls for).  `Gathered` says where in the stream the code of
each function lies, which the reader cuts out by offset and count; that the sum of
the counts it has read is the length of the stream is what makes it find the
marker of a debug section behind the code.

Only model-checked:
- liveness (`UnreferencedIsFreed`, `CollectReturns`, `InitialTasksAreAttempted`),
  which needs fairness and ENABLED;
- `Toolchain`, `Pipeline` and what they use, which are recursive over trees and
  therefore beyond what can be proved here;
- `BytecodeFile` beyond `FormatIsRead`: its compiler is `FuncCompiler`, which is
  recursive too, so that neither the rest of `ProgramIsRead` nor `DebugIsRead` can be
  stated as a theorem in a module that reaches it.

## 5. Not modelled

`PROJECT.json` lists every component.

- *No state or behaviour to check, only data or text*: C node types and printer,
  manual runtime, dashboard page, the pipelines and test chain (scripts that run
  the tools over corpora and write logs).
- *Another language's meaning is the reference*: the front ends `py2ul.py` and
  `c2ul.py`.
- *Left out for now*: the source text the decompiler prints for each opcode; in the
  bytecode compiler fields of other objects than `self`, tuples, results, `spawn`,
  calls of builtins, and the contents of strings and floats.
- *In the parser, the checker, the printer and the back ends*: everything outside
  of function bodies (directives, imports, types, objects, enums, portals), and in
  bodies objects, tuples, strings, floats, generators, threads, profiling and
  memory annotations; the back ends' taking `change(e)` off a cast.  The parser's table has the pipe and the bitwise operators,
  no body uses them.  Characters are left out of the lexer, layout out of the
  printer.  A zero has no sign, and how a truth value is spelt in output is not
  told apart.
- *Called functions* are any function of their arguments; `fallible` returns an
  error, and `risky` throws, for odd or even arguments.
- *Machine*: weak memory beyond what C11 orderings justify; concurrent use of the
  arena and of the C tree (neither claims it).

## 6. What the code does that one might not expect

Each of these was met while modelling.  Two are shown by runs that expect a
violation; `RunsAsWritten`, `DoesWhatItSays`, `ReadAsWritten` and `PrintedIsRead`
name and except those of the compilers, the parser and the printer, and each
exception is needed: without it the property fails.  The others are why a
property is stated, or a run bounded, the way it is.

Collector:
- *`ul_gc.c:109`*: when the gray queue cannot grow, the object stays gray, is
  never scanned, and what it points to is swept (run `gc_queue_failure`).
- *`ul_gc.c:166`*: the barrier reads the phase once; if a mark begins before its
  store, a black object can come to point to a white one.  That is the only way
  (`ExposedByStaleStores`).  `Tricolor` and `NoDanglingField` are therefore checked
  where stores and cycles do not race, and proved where no barrier is under way at
  the two ends of marking and in the sweep: a handshake with the threads, which
  the code lacks.
- *`ul_gc.c:400`*: two callers of `ul_gc_collect` share one flag: the second can
  clear what the first waits for, or return with the first's cycle.  The runs and
  `GCCollectIsSynchronous` are about one caller.
- *`ul_gc.c:354`*: shutdown sweeps without marking.

Arena: after a reset only the newest block is used again, although
`ul_arena.h:96` speaks of reuse; a size near `SIZE_MAX` rounds up to a small one
(`ul_arena.c:85`).

C syntax tree: when the table cannot grow, a string it already holds is refused
(`ast_arena.c:238`); when one of two `realloc`s fails the arena keeps a pointer
to what the other freed (`:192`); when the child pool cannot grow, the list at
index 0 is overwritten (`:321`); counts of children are cut to 16 bits (`:353`).

Orchestrator: a worker that dies leaves its task in progress for ever
(`ul_orchestrator.py:412`); workers are told that nothing is left, and stop,
while blocked tasks may come back (`:407`); `/resolve` makes any task pending
(`:496`), so two humans, or one with a list from before a crash and an id given
out again, can have a task done twice; `/blockers` shows what is not saved yet
(`:541`), and an id that no state file held when the server was killed goes to the
next task (`:469`): whoever saw the first in the list may act on the second.  A kill
while the file is written leaves one that cannot be read, and then the server does
not start (`:387`).  A worker that does not get the answer to `/next_task` never
learns of its task, which stays in progress (`:417`).

Bytecode compiler and normalizer (`ul2ubi.py`, `simplifycode.py`):
- *LostResult* (`:1424`): an element read inside of a larger expression, at an
  index that needs a temporary, is overwritten: `a[0] + 1` computes `1 + 1`.  The
  same happens to fields of objects and to results.
- *StuckContinue* (`:1255`, `:1309`): `continue` in a `for` jumps behind the
  increment, so that the loop does not end.
- *Unsequenced*: operands are the registers of variables, read late, and the
  normalizer moves increments to the front: `x + x++` is not what it says.
- *EagerRight*: `and` and `or` evaluate both sides.
- *ElementUpdate* (`:1100`): the operator of a compound assignment to an element is
  forgotten, and `a[i]++` in an expression is not stored.  The normalizer repairs
  the first, and the second where it stands alone, but not in the bodies of a
  `match`, which it leaves as they are.
- *LiveBounds*: the end and the step of a range, the loop variable and an iterated
  array are read again in each round.
- *DownwardRange*: a range with a negative step is empty.

Bytecode files (`ul2ubi.py`, `ubi2ul.py`):
- An enum with members has them written as expressions, not numbers: `generate`
  raises, unless debug information is stripped (`ul2ubi.py:327`).
- Distances between lines are at least one instruction (`:435`): when a statement
  begins at instruction 0, as the first one does, every line is one instruction late.
- A register has one name, that of its last declaration, and none before it; loop
  variables and `self` have none.  The types that users declare are "unknown".
- Functions of one name share one index: two that are nested in different functions,
  or a method `m` of `A` and a function `A_m`.  Functions nested in nested ones are
  not compiled.
- An index of a constant and the offset of a conditional jump are cut to 16 bits
  (`:133`), the offset of a jump to 24 (`:138`), without a word: a branch over more
  than 32,767 instructions goes elsewhere.  `compile` runs the code before it is
  written, where offsets have no limit.  The number of registers is
  limited to 255 (`:994`) while a register beyond that makes `generate` raise.

Parser (`token2ast.py`; names in `Writing`):
- *TakesCase* (`:865`): after the first case of a match only a literal begins
  another; a name is read as a statement of the case before, although `:859` says
  "a bare literal or identifier" (run `cases`).  A case `-1` after an expression
  is a difference.
- *CutsReturn* (`:901`): the value of a return that begins with a bracket ends with
  it: `return (x - y) + 1` returns `x - y`.
- *TakesWhile* (`:767`): a `while` inside of `do ... while` ends the `do`; a `do` at
  the head of a `while` is taken for the word that opens its body.
- *TakesType*: a name that follows a bare `catch` is the type it catches.
- *JoinsNext*: a statement that begins with a minus or a bracket goes on with the
  expression before it, on another line too.

Source printer (`ast2src.py`; `LosesIn` in `Writing`): no brackets (`x - (y - 1)` is
shown as `x - y - 1`), `- -x` is shown as `--x`, comprehensions as a placeholder,
and loops with the condition at the end, C-like loops, `try`, `throw` and `@norm`
not at all.

Back ends (names in `Deviations`), all but LLVM:
- *EarlyProp*: `?` inside of an expression becomes statements before it: it is
  evaluated before what is to its left, in the condition of a loop once only, and
  to the right of `and` always.  *BareTry*: a `try` without handlers and `finally`
  is no statement of Python or JavaScript.

Python: *Shadows*: variables belong to the function, so that a declaration in a
block, a loop variable or a caught message overwrites the outer one.
*DivisionOf*: `/` of operands not known to be integers makes a float, and `//` and
`%` round downwards.  *OperandValue* (also JavaScript): `and` and `or` yield one of
the operands.  *IncrementInside*: `x++` in an expression, at level 0, is no
Python.  *OnlyNorm*: a body of `@norm` alone comes out empty.  `continue` in a `do` or a
C-like loop skips the condition or the update.  *CaseIsNoLiteral*: a name as a
case takes any value.  *CatchAllFrom*: a handler for all between two others is a
syntax error.

JavaScript: *ChangesItsVariable*: loop variables are constants.  *EscapeInMatch*:
`escape` leaves the `switch`.  *DeclaredTwice*: the cases of a `switch` are one
block.  *MessageTwice*: the message of a `throw` is evaluated twice.
*CatchAllFrom*: a handler for all becomes an `else` in the middle, or at the head, of
a ladder (in C as well).

C: *LiveBounds*, *EndAgain*: the end of a range is evaluated in each round.
*Stepped*: the step is dropped.  *OverParameter*: an array parameter has no length.
*SubjectAgain*: the subject of a match is evaluated once per case.  *Try_*: a block
left by `return`, `escape` or `continue` leaves its jump buffer behind, to which a
later `throw` jumps; `finally` runs only when nothing was thrown past it; without a
handler an exception is swallowed; a variable changed in the block is undefined in
a handler unless it is in memory.

LLVM: *NoCode*: `for` over anything but a local array, C-like loops, `try`, `throw`
and comprehensions produce nothing.  *OneBit*: arithmetic of truth values is of one
bit, and a number becomes a truth value by its lowest bit.  *PrintsSum*: `print`
of a sum prints the parts.  *EagerRight*.  `continue` in a `for` skips the
increment.  *SlotTwice*: a name declared twice has two definitions of one slot.
A function whose last statement is not a return may end without one.

Outside the checked programs: a variable named `_t0` is taken for a temporary of
the normalizer; a comprehension variable named like a local removes that local
(`:1717`); a default case that is not last falls through; an inline `@norm` also
governs the functions that follow; an array declared from its own elements is
zeroed first at level 3.

## 7. Plan

1. *Extend.*  The front ends as the other half of a round trip with the back ends
   (`ul2py` and then `py2ul`, which needs no semantics of Python but its syntax
   tree); objects, tuples and strings in `ULSyntax` and all that follows from it;
   the decompiler's statements, as a way back to source.  Several humans and
   restarts of dead workers in `Orchestrator`; roots in `GC` once the source scans
   them.
2. *Prove.*  The tables of the debug section, in a module between `BytecodeFormat` and
   `BytecodeFile`, by the same argument of places.  `FuncCompiler` with its recursion
   over trees as recursive functions, as a first step to `FrameIsSafe` and
   `TempsBalance`.  `GCMarkingIsExact` and the others with a handshake that the
   collector itself makes, once the source has one.
