----------------------------- MODULE Toolchain ------------------------------
(***************************************************************************)
(* A function on its way through the tool chain (Main.py, compile_file):   *)
(* the normalizer at some level, then the bytecode compiler; and its       *)
(* instructions, one by one, on the machine that runs them.  The machine   *)
(* is not in the repository: it is as ul2ubi.py describes its opcodes.     *)
(***************************************************************************)
EXTENDS Normalizer, FuncCompiler, Deviations

CONSTANTS
    Program,   \* the function bodies considered
    Inputs,    \* the values of the parameters: functions from names to values
    Params,    \* the parameters, in order
    MaxSteps   \* bound on the instructions executed

M == INSTANCE ULMeaning

VARIABLES program, level, input, stage, body, unit, pc, regs, out, steps

source == <<program, level, input>>
machine == <<pc, regs, out, steps>>
vars == <<program, level, input, stage, body, unit, pc, regs, out, steps>>

Init ==
    /\ program \in Program /\ level \in 0..3 /\ input \in Inputs
    /\ stage = "parsed" /\ body = program /\ unit = <<>>
    /\ pc = 0 /\ out = <<>> /\ steps = 0
    /\ regs = [r \in 0..(Len(Params) - 1) |-> input[Params[r + 1]]]

\* compile_file, with the level of the command line or of the file.
Simplify ==
    /\ stage = "parsed" /\ stage' = "normalized"
    /\ body' = Normalize(program, level)
    /\ UNCHANGED <<source, unit, machine>>

\* generate.
Generate ==
    /\ stage = "normalized" /\ stage' = "running"
    /\ unit' = Compile(Params, body)
    /\ UNCHANGED <<source, body, machine>>

-----------------------------------------------------------------------------
I == unit.code[pc + 1]

Fetch(ops) ==
    /\ stage = "running" /\ steps < MaxSteps /\ I.op \in ops /\ steps' = steps + 1
    /\ UNCHANGED <<source, body, unit>>
Goto(to) == pc' = to /\ UNCHANGED stage
SetReg(r, v) == regs' = (r :> v) @@ regs /\ UNCHANGED out

\* One register, from others or from an immediate value.
Compute ==
    /\ Fetch({"MOV", "LOAD_CONST", "NEG", "NOT", "CAST_BOOL", "LENGTH", "INC_REG", "DEC_REG"})
    /\ SetReg(I.a, CASE I.op = "MOV" -> regs[I.b]
                     [] I.op = "LOAD_CONST" -> I.b
                     [] I.op = "NEG" -> -regs[I.b]
                     [] I.op = "NOT" -> M!Truth(regs[I.b] = 0)
                     [] I.op = "CAST_BOOL" -> M!Truth(regs[I.b] # 0)
                     [] I.op = "LENGTH" -> Len(regs[I.b])
                     [] I.op = "INC_REG" -> regs[I.a] + 1
                     [] I.op = "DEC_REG" -> regs[I.a] - 1)
    /\ Goto(pc + 1)

Operator == [ADD |-> "+", SUB |-> "-", CMP_LT |-> "<", CMP_EQ |-> "==", AND |-> "and", OR |-> "or"]

Arithmetic ==
    /\ Fetch(DOMAIN Operator)
    /\ SetReg(I.a, M!Operate(Operator[I.op], regs[I.b], regs[I.c]))
    /\ Goto(pc + 1)

\* Arrays; an index outside of the array leaves it alone, or gives 0.
NewArray ==
    /\ Fetch({"NEW_ARRAY"})
    /\ SetReg(I.a, [i \in 1..regs[I.c] |-> 0]) /\ Goto(pc + 1)

IndexGet_ ==
    /\ Fetch({"INDEX_GET"})
    /\ SetReg(I.a, M!Element(regs[I.b], regs[I.c]))
    /\ Goto(pc + 1)

IndexSet ==
    /\ Fetch({"INDEX_SET"})
    /\ SetReg(I.a, M!Stored(regs[I.a], regs[I.b], regs[I.c]))
    /\ Goto(pc + 1)

Jump == Fetch({"JUMP"}) /\ Goto(pc + 1 + I.b) /\ UNCHANGED <<regs, out>>

JumpIfFalse ==
    /\ Fetch({"JUMP_IF_FALSE"})
    /\ Goto(IF regs[I.a] = 0 THEN pc + 1 + I.b ELSE pc + 1)
    /\ UNCHANGED <<regs, out>>

\* The arguments are I.c registers from I.a on, and I.a gets the result.
CallFunction ==
    /\ Fetch({"CALL"})
    /\ LET args == [i \in 1..I.c |-> regs[I.a + i - 1]]
       IN  /\ out' = Append(out, <<"call", I.b, args>>)
           /\ regs' = (I.a :> M!Apply(args)) @@ regs
    /\ Goto(pc + 1)

PrintReg ==
    /\ Fetch({"PRINT"})
    /\ out' = Append(out, <<"print", regs[I.a]>>) /\ UNCHANGED regs /\ Goto(pc + 1)

ReturnReg ==
    /\ Fetch({"RETURN", "RETURN_NONE"})
    /\ out' = IF I.op = "RETURN" THEN Append(out, <<"return", regs[I.a]>>) ELSE out
    /\ stage' = "returned" /\ UNCHANGED <<regs, pc>>

Next == \/ Simplify \/ Generate
        \/ Compute \/ Arithmetic \/ NewArray \/ IndexGet_ \/ IndexSet
        \/ Jump \/ JumpIfFalse \/ CallFunction \/ PrintReg \/ ReturnReg

Spec == Init /\ [][Next]_vars

-----------------------------------------------------------------------------
(***************************************************************************)
(* Where the code is known not to do what is written.                      *)
(***************************************************************************)
TempIndex(e) == e.k = "Index" /\ (e.index.k # "Id" \/ e.target.k # "Id")

\* An array is read at an index that needs a temporary, inside of an expression: the
\* register of the result is above temp_top and goes to the next temporary.
LostResult(s) ==
    \/ \E i \in DOMAIN Exprs(s) : \E j \in 2..Len(Nodes(Exprs(s)[i])) :
           TempIndex(Nodes(Exprs(s)[i])[j])
    \/ s.k = "Match" /\ \E i \in DOMAIN Exprs(s) : TempIndex(Exprs(s)[i])
    \/ s.k = "Assign" /\ s.op # "=" /\ TempIndex(s.target)

\* A compound assignment or an increment of an array element: the operator, or the
\* store, is forgotten.  The normalizer helps where the operation stands alone.
ElementUpdate(s) ==
    \/ s.k = "Assign" /\ s.target.k = "Index" /\ s.op # "="
          /\ (level = 0 \/ s \in InMatch(program))
    \/ \E i \in DOMAIN AllNodes(s) :
           LET e == AllNodes(s)[i] IN
           /\ e.k = "Post" /\ e.operand.k = "Index"
           /\ \/ level = 0 \/ s \in InMatch(program)
              \/ s.k # "ExprStmt" \/ i # 1 \/ TempIndex(e.operand)

\* "continue" in a for: it jumps behind the increment.
StuckContinue(s) == ContinueIn(s, {"For"})

\* A range with a negative step is taken for an empty one.
DownwardRange(s) == s.k = "For" /\ IsRange(s.iterable) /\ Len(s.iterable.args) = 3
                       /\ s.iterable.args[3].k = "Neg"

Deviates == \E s \in Statements(program) :
    \/ Unsequenced(s) \/ EagerRight(s) \/ LostResult(s) \/ ElementUpdate(s)
    \/ StuckContinue(s) \/ LiveBounds(s) \/ DownwardRange(s)

-----------------------------------------------------------------------------
\* The code puts out what the source means, at every level of normalization: the
\* pass "does not affect semantics or output correctness" (Docs,
\* UniLogic_Compiler_Features), apart from the known deviations.
RunsAsWritten ==
    stage = "returned" \/ steps = MaxSteps =>
        \/ stage = "returned" /\ M!Same(out, M!Meaning(program, input))
        \/ Deviates

\* The machine stays inside of the function and of the registers that its header
\* declares, and reads no register that nothing was put in.
FrameIsSafe ==
    stage = "running" =>
    /\ pc \in 0..(Len(unit.code) - 1)
    /\ \A r \in DOMAIN regs : r < unit.max
    /\  LET reads == CASE I.op \in {"MOV", "NEG", "NOT", "CAST_BOOL", "LENGTH"} -> {I.b}
                       [] I.op \in {"INC_REG", "DEC_REG", "JUMP_IF_FALSE", "PRINT", "RETURN"} -> {I.a}
                       [] I.op \in DOMAIN Operator \cup {"INDEX_GET"} -> {I.b, I.c}
                       [] I.op = "INDEX_SET" -> {I.a, I.b, I.c}
                       [] I.op = "NEW_ARRAY" -> {I.c}
                       [] I.op = "CALL" -> I.a..(I.a + I.c - 1)
                       [] OTHER -> {}
        IN  reads \subseteq DOMAIN regs

\* Compilation gives back every temporary it takes, and patches every jump of
\* every loop it leaves.
TempsBalance == stage = "running" =>
    unit.top = unit.base /\ unit.breaks = <<>> /\ unit.continues = <<>>

\* Normalized source is a fixed point ("--dry-run" prints it as source again), and
\* from level 2 on no call or cast is an operand of another of its kind.
OfItsKind(e) == \E i \in DOMAIN Operands(e) : Operands(e)[i].k = e.k
NormalForm == stage = "normalized" =>
    /\ Normalize(body, level) = body
    /\ level >= 2 => \A s \in Statements(body) \ InMatch(body) : s.k \notin {"While", "Match"} =>
           \A i \in DOMAIN Exprs(s) : \A e \in ToSet(Nodes(Exprs(s)[i])) :
               e.k \in {"Call", "Cast"} => ~OfItsKind(e)
=============================================================================
