---------------------------- MODULE FuncCompiler ----------------------------
(***************************************************************************)
(* FuncCompiler of Transcoder/Encoder/ul2ubi.py: the compilation of a      *)
(* function body to register code.  An operator takes the compiler's state *)
(* s and returns it; compile_expr returns the register of the result too.  *)
(*                                                                         *)
(*   code    the instructions; jumps are relative to the next one          *)
(*   vars    the register of each variable                                 *)
(*   owned   _var_regs                                                     *)
(*   base, top, max   temp_base, temp_top and max_reg                      *)
(*   breaks, continues   the jumps to patch, one set per enclosing loop    *)
(*   lines, locals   _debug_line_events and _debug_var_events              *)
(*   env     what names mean that are no variables                         *)
(***************************************************************************)
EXTENDS ULSyntax, TLC

\* Form A instructions have up to three registers, b and c of the others are an
\* immediate value or an offset; constants are values, and functions names, until the
\* code is put into a file.
Ins(o, a, b, c) == [op |-> o, a |-> a, b |-> b, c |-> c]

PC(s) == Len(s.code)
Emit(s, o, a, b, c) == [s EXCEPT !.code = Append(@, Ins(o, a, b, c))]
\* patch_jump and patch_jump_c.
Patch(s, i, pc) == [s EXCEPT !.code[i + 1].b = pc - i - 1]
PatchAll(s, jumps, pc) ==
    [s EXCEPT !.code = [i \in DOMAIN @ |-> IF i - 1 \in jumps THEN [@[i] EXCEPT !.b = pc - i] ELSE @[i]]]

\* Mutant: max_reg stays.
PushUncounted(s) == [s EXCEPT !.top = @ + 1]

\* push_temp, whose result is the top before it.
Push(s) == [s EXCEPT !.top = @ + 1, !.max = IF s.top + 1 > @ THEN s.top + 1 ELSE @]
Pop(s) == [s EXCEPT !.top = @ - 1]
IsTemp(s, r) == r >= s.base /\ r \notin s.owned
FreeIfTemp(s, r) == IF IsTemp(s, r) THEN Pop(s) ELSE s

\* A constant in a new temporary.
Load(s, n) == Emit(Push(s), "LOAD_CONST", s.top, n, 0)
Move(s, to, from) == IF to = from THEN s ELSE Emit(s, "MOV", to, from, 0)

Res(s, r) == [s |-> s, r |-> r]

\* The object in a method, and a program without constants and objects.
Self == "__self__"
Bare == [named |-> <<>>, fields |-> <<>>, sizes |-> <<>>]

\* The end of an expression that keeps only its result, in the first temporary it
\* took: saved_temp is s0.top.
Collapse(s0, s, r) == Res([Move(s, s0.top, r) EXCEPT !.top = s0.top + 1], s0.top)

\* An operation on one register, in place if that is a temporary.
InPlace(x, o) ==
    IF IsTemp(x.s, x.r) THEN Res(Emit(x.s, o, x.r, x.r, 0), x.r)
    ELSE Res(Emit(Push(x.s), o, x.s.top, x.r, 0), x.s.top)

\* Mutant: the right operand is not freed.
BinaryLeaky(x, y, o) ==
    IF IsTemp(y.s, x.r) THEN Res(Emit(y.s, o, x.r, x.r, y.r), x.r)
    ELSE IF IsTemp(y.s, y.r) THEN Res(Emit(y.s, o, y.r, x.r, y.r), y.r)
    ELSE Res(Emit(Push(y.s), o, y.s.top, x.r, y.r), y.s.top)

\* _compile_binop, from its operands.
Binary(x, y, o) ==
    IF IsTemp(y.s, x.r) THEN Res(FreeIfTemp(Emit(y.s, o, x.r, x.r, y.r), y.r), x.r)
    ELSE IF IsTemp(y.s, y.r) THEN Res(Emit(y.s, o, y.r, x.r, y.r), y.r)
    ELSE Res(Emit(Push(y.s), o, y.s.top, x.r, y.r), y.s.top)

\* x++ : a variable is copied and then changed, a temporary is changed itself.
PostOp(x, by) ==
    LET o == IF by = 1 THEN "INC_REG" ELSE "DEC_REG" IN
    IF IsTemp(x.s, x.r) THEN Res(Emit(x.s, o, x.r, 0, 0), x.r)
    ELSE Res(Emit(Emit(Push(x.s), "MOV", x.s.top, x.r, 0), o, x.r, 0, 0), x.s.top)

\* An index expression: the operands are freed after the result was pushed.
IndexGet(a, i) ==
    LET s == Emit(Push(i.s), "INDEX_GET", i.s.top, a.r, i.r)
    IN  Res(FreeIfTemp(FreeIfTemp(s, i.r), a.r), i.s.top)

\* An element, just compiled, goes to its place in the array in register a.
StoreElement(v, a, idx) == FreeIfTemp(Emit(v.s, "INDEX_SET", a, idx, v.r), v.r)

\* The area for n arguments, or for the result alone.
RECURSIVE PushN(_, _)
PushN(s, n) == IF n = 0 THEN s ELSE PushN(Push(s), n - 1)

RECURSIVE MoveArgs(_, _, _)
MoveArgs(s, first, regs) ==
    IF regs = <<>> THEN s
    ELSE MoveArgs(Move(s, first, Head(regs)), first + 1, Tail(regs))

\* A call, once its arguments are in registers.
CallArea(s0, args, fn) ==
    LET s == args.s
        n == Len(args.r)
        area == PushN(s, IF n > 1 THEN n ELSE 1)
    IN  Collapse(s0, Emit(MoveArgs(area, s.top, args.r), "CALL", s.top, fn, n), s.top)

OpCode(o) == CASE o = "+" -> "ADD" [] o = "-" -> "SUB" [] o = "<" -> "CMP_LT"
               [] o = "==" -> "CMP_EQ" [] o = "and" -> "AND" [] o = "or" -> "OR"

-----------------------------------------------------------------------------
RECURSIVE CompileExpr(_, _), CompileArgs(_, _), FillArray(_, _, _, _, _)

CompileArgs(es, s) ==
    IF es = <<>> THEN Res(s, <<>>)
    ELSE LET h == CompileExpr(Head(es), s)
             t == CompileArgs(Tail(es), h.s)
         IN  Res(t.s, <<h.r>> \o t.r)

\* The elements from number i on go to the array in register a; idx is the register
\* of the index.
FillArray(es, i, a, idx, s) ==
    IF es = <<>> THEN s
    ELSE FillArray(Tail(es), i + 1, a, idx,
             StoreElement(CompileExpr(Head(es), Emit(s, "LOAD_CONST", idx, i, 0)), a, idx))

\* _compile_array_literal: temporaries for size, array and index.
CompileArray(e, s0) ==
    LET size == Load(s0, Len(e.elements))
        arr == Emit(Push(size), "NEW_ARRAY", size.top, 0, s0.top)
        s == FillArray(e.elements, 0, size.top, arr.top, Push(arr))
    IN  Collapse(s0, s, size.top)

\* The start and the end of a range: 0 is the start of range(n).
BoundsFrom(a, end) == LET b == CompileExpr(end, a.s) IN [s |-> b.s, start |-> a.r, end |-> b.r]

CompileBounds(args, s) ==
    IF Len(args) = 1 THEN BoundsFrom(Res(Load(s, 0), s.top), args[1])
    ELSE BoundsFrom(CompileExpr(args[1], s), args[2])

\* The jump out of a loop when a < b fails, its second instruction.
Until(s, a, b) ==
    Pop(Emit(Emit(Push(s), "CMP_LT", s.top, a, b), "JUMP_IF_FALSE", s.top, 0, 0))

\* The jump back to start, which ends the loop that the instruction exit leaves.
Back(s, start, exit) ==
    LET t == Emit(s, "JUMP", 0, start - PC(s) - 1, 0) IN Patch(t, exit, PC(t))

\* The loop of a comprehension that fills the array in register a: the next register
\* is the index, and the one after it is the variable's for as long as the loop is
\* compiled.
FillComp(e, b, a, s) ==
    LET start == Emit([Push(s) EXCEPT !.vars = (e.var :> s.top) @@ @, !.owned = @ \cup {s.top}],
                      "MOV", s.top, b.start, 0)
        filled == StoreElement(CompileExpr(e.expr, Until(start, s.top, b.end)), a, a + 1)
        counted == Emit(Emit(filled, "INC_REG", a + 1, 0, 0), "INC_REG", s.top, 0, 0)
    IN  [Back(counted, PC(start), PC(start) + 1) EXCEPT
            !.vars = [x \in DOMAIN @ \ {e.var} |-> @[x]], !.owned = @ \ {s.top}]

\* _compile_array_comprehension over a range: temporaries for size, array and index.
CompArray(e, b, size, s0) ==
    LET array == Emit(Push(b.s), "SUB", size, b.end, b.start)
        index == Load(Emit(Push(array), "NEW_ARRAY", size + 1, 0, size), 0)
    IN  Collapse(s0, FillComp(e, b, size + 1, index), size + 1)

CompileComp(e, s) == LET b == CompileBounds(e.range, s) IN CompArray(e, b, b.s.top, s)

\* A name: a variable, a named constant, or a field of the object that a method is of.
CompileName(x, s) ==
    IF x \in DOMAIN s.vars THEN Res(s, s.vars[x])
    ELSE IF x \in DOMAIN s.env.named THEN Res(Load(s, s.env.named[x]), s.top)
    ELSE IndexGet(Res(s, s.vars[Self]), Res(Load(s, s.env.fields[x]), s.top))

\* compile_expr.
CompileExpr(e, s) ==
    CASE e.k = "Int" -> Res(Load(s, e.value), s.top)
      [] e.k = "Id" -> CompileName(e.name, s)
      [] e.k = "Bin" -> LET x == CompileExpr(e.left, s)
                            y == CompileExpr(e.right, x.s)
                        IN  Binary(x, y, OpCode(e.op))
      [] e.k = "Neg" -> InPlace(CompileExpr(e.operand, s), "NEG")
      [] e.k = "Not" -> InPlace(CompileExpr(e.operand, s), "NOT")
      [] e.k = "Cast" -> InPlace(CompileExpr(e.expr, s), "CAST_BOOL")
      [] IsChange(e) -> CompileExpr(e.args[1], s)
      [] e.k = "Call" /\ ~IsChange(e) -> CallArea(s, CompileArgs(e.args, s), e.fn)
      [] e.k = "Index" -> LET a == CompileExpr(e.target, s)
                              i == CompileExpr(e.index, a.s)
                          IN  IndexGet(a, i)
      [] e.k = "Array" -> CompileArray(e, s)
      [] e.k = "Comp" -> CompileComp(e, s)
      [] e.k = "Post" -> PostOp(CompileExpr(e.operand, s), e.by)

\* An expression whose value is used by one instruction and then dropped.
Use(x, s) == FreeIfTemp(s, x.r)

-----------------------------------------------------------------------------
\* The body of a loop has its own lists of breaks and continues.
EnterLoop(s) == [s EXCEPT !.breaks = <<{}>> \o @, !.continues = <<{}>> \o @]
\* They are patched at its end: breaks to there, continues to where it starts.
LeaveLoop(s, start) ==
    [PatchAll(PatchAll(s, Head(s.breaks), PC(s)), Head(s.continues), start) EXCEPT
        !.breaks = Tail(@), !.continues = Tail(@)]

RECURSIVE CompileBody(_, _), CompileStmt(_, _), CompileTracked(_, _), CompileCases(_, _, _, _)

CompileBody(stmts, s) ==
    IF stmts = <<>> THEN s ELSE CompileBody(Tail(stmts), CompileStmt(Head(stmts), s))

\* A variable gets the value of an expression.
CompileInto(r, e, s) ==
    LET x == CompileExpr(e, s) IN FreeIfTemp(Move(x.s, r, x.r), x.r)

\* _compile_assign.  The operator of a compound assignment to an array element is
\* not looked at.
CompileAssign(s0, target, o, e) ==
    IF target.k = "Id"
    THEN LET r == s0.vars[target.name]
             x == CompileExpr(e, s0)
         IN  IF o = "=" THEN CompileInto(r, e, s0)
             ELSE FreeIfTemp(Emit(x.s, IF o = "+=" THEN "ADD" ELSE "SUB", r, r, x.r), x.r)
    ELSE LET a == CompileExpr(target.target, s0)
             i == CompileExpr(target.index, a.s)
             x == CompileExpr(e, i.s)
         IN  FreeIfTemp(FreeIfTemp(FreeIfTemp(
                 Emit(x.s, "INDEX_SET", a.r, i.r, x.r), x.r), i.r), a.r)

\* _compile_if.
CompileIf(c, then, else, s0) ==
    LET x == CompileExpr(c, s0)
        exit == PC(x.s)
        t == CompileBody(then, FreeIfTemp(Emit(x.s, "JUMP_IF_FALSE", x.r, 0, 0), x.r))
        over == PC(t)
        f == CompileBody(else, Patch(Emit(t, "JUMP", 0, 0, 0), exit, over + 1))
    IN  IF else = <<>> THEN Patch(t, exit, over) ELSE Patch(f, over, PC(f))

\* _compile_while.
CompileWhile(c, body, s0) ==
    LET start == PC(s0)
        x == CompileExpr(c, EnterLoop(s0))
        exit == PC(x.s)
        b == CompileBody(body, FreeIfTemp(Emit(x.s, "JUMP_IF_FALSE", x.r, 0, 0), x.r))
    IN  LeaveLoop(Back(b, start, exit), start)

\* _compile_for_range: the loop on variable var, then what is before it.
NoStep == -1

RangeLoop(var, b, step, body) ==
    LET start == EnterLoop(Emit(step.s, "MOV", var, b.start, 0))
        end == CompileBody(body, Until(start, var, b.end))
        next == IF step.r = NoStep THEN Emit(end, "INC_REG", var, 0, 0)
                ELSE Emit(end, "ADD", var, var, step.r)
    IN  LeaveLoop(Back(next, PC(start), PC(start) + 1), PC(start))

CompileForRange(x, args, body, s) ==
    LET b == CompileBounds(args, s)
        step == IF Len(args) >= 3 THEN CompileExpr(args[3], b.s) ELSE Res(b.s, NoStep)
    IN  [RangeLoop(s.vars[x], b, step, body) EXCEPT !.top = s.top]

\* _compile_for_array: registers len and len + 1 are the length and the index.
ArrayLoop(var, array, len, body) ==
    LET start == EnterLoop(Load(Emit(Push(array.s), "LENGTH", len, array.r, 0), 0))
        element == Emit(Until(start, len + 1, len), "INDEX_GET", var, array.r, len + 1)
        next == Emit(CompileBody(body, element), "INC_REG", len + 1, 0, 0)
    IN  LeaveLoop(Back(next, PC(start), PC(start) + 1), PC(start))

CompileForArray(x, e, body, s) ==
    LET array == CompileExpr(e, s)
    IN  [ArrayLoop(s.vars[x], array, array.s.top, body) EXCEPT !.top = s.top]

\* _compile_escape and _compile_continue, which do nothing outside a loop.
CompileEscape(s) ==
    IF s.breaks = <<>> THEN s
    ELSE Emit([s EXCEPT !.breaks[1] = @ \cup {PC(s)}], "JUMP", 0, 0, 0)
CompileContinue(s) ==
    IF s.continues = <<>> THEN s
    ELSE Emit([s EXCEPT !.continues[1] = @ \cup {PC(s)}], "JUMP", 0, 0, 0)

\* The cases of _compile_match, then its default; ends are the jumps to the end.
CompileCases(m, r, ends, s) ==
    IF m.cases = <<>> THEN LET d == CompileBody(m.default, s) IN PatchAll(d, ends, PC(d))
    ELSE LET v == CompileExpr(Head(m.cases)[1], s)
             cond == v.s.top
             t == FreeIfTemp(Pop(Emit(Emit(Push(v.s), "CMP_EQ", cond, r, v.r),
                                      "JUMP_IF_FALSE", cond, 0, 0)), v.r)
             b == CompileBody(Head(m.cases)[2], t)
             j == Emit(b, "JUMP", 0, 0, 0)
         IN  CompileCases([m EXCEPT !.cases = Tail(@)], r, ends \cup {PC(b)},
                 Patch(j, PC(t) - 1, PC(j)))

\* _track_line.
Track(t, s) == IF LineOf(t) = 0 THEN s ELSE [s EXCEPT !.lines = Append(@, <<PC(s), LineOf(t)>>)]

\* _compile_var_decl.  An object is an array of its fields.
CompileDecl(t, s0) ==
    LET r == s0.vars[t.var]
        s == [s0 EXCEPT !.locals = Append(@, [slot |-> r, name |-> t.var, type |-> VarType(t), start |-> PC(s0)])]
    IN  IF VarType(t) \in DOMAIN s.env.sizes
        THEN Pop(Emit(Load(s, s.env.sizes[VarType(t)]), "NEW_ARRAY", r, 0, s.top))
        ELSE CompileInto(r, t.init, s)

\* compile_stmt.
CompileStmt(t, s) == CompileTracked(t, Track(t, s))

CompileTracked(t, s) ==
    CASE t.k = "Decl" -> CompileDecl(t, s)
      [] t.k = "Assign" -> CompileAssign(s, t.target, t.op, t.value)
      [] t.k = "Output" -> LET x == CompileExpr(t.value, s)
                           IN  Use(x, Emit(x.s, "PRINT", x.r, 0, 0))
      [] t.k = "Return" -> LET x == CompileExpr(t.value, s)
                           IN  Use(x, Emit(x.s, "RETURN", x.r, 0, 0))
      [] t.k = "ExprStmt" -> LET x == CompileExpr(t.expr, s) IN Use(x, x.s)
      [] t.k = "If" -> CompileIf(t.cond, t.then, t.else, s)
      [] t.k = "While" -> CompileWhile(t.cond, t.body, s)
      [] t.k = "For" /\ IsRange(t.iterable) -> CompileForRange(t.var, t.iterable.args, t.body, s)
      [] t.k = "For" /\ ~IsRange(t.iterable) -> CompileForArray(t.var, t.iterable, t.body, s)
      [] t.k = "Match" -> LET x == CompileExpr(t.subject, s)
                          IN  Use(x, CompileCases(t, x.r, {}, x.s))
      [] t.k = "Escape" -> CompileEscape(s)
      [] t.k = "Continue" -> CompileContinue(s)
      [] OTHER -> s

-----------------------------------------------------------------------------
\* _scan_vars: the variables declared in a body, in the order they are met.
RECURSIVE ScanVars(_, _)
ScanVars(stmts, found) ==
    IF stmts = <<>> THEN found
    ELSE LET t == Head(stmts)
             seen(x) == IF \E i \in DOMAIN found : found[i] = x THEN found ELSE Append(found, x)
             own == IF t.k \in {"Decl", "For"} THEN seen(t.var) ELSE found
         IN  ScanVars(Tail(stmts), ScanVars(FlattenSeq(Bodies(t)), own))

\* FuncCompiler.__init__: parameters first, then the variables.
InitState(params, stmts, env) ==
    LET names == ScanVars(stmts, params)
        n == Len(names)
    IN  [code |-> <<>>, breaks |-> <<>>, continues |-> <<>>,
         vars |-> [x \in ToSet(names) |-> (CHOOSE i \in 1..n : names[i] = x) - 1],
         owned |-> 0..(n - 1), base |-> n, top |-> n, max |-> n,
         lines |-> <<>>, locals |-> <<>>, env |-> env]

\* compile: what ends a function, and what ends main.
ReturnNone(s) == Emit(s, "RETURN_NONE", 0, 0, 0)
ReturnZero(s) == Pop(Emit(Load(s, 0), "RETURN", s.top, 0, 0))

CompileIn(env, params, stmts) == CompileBody(stmts, InitState(params, stmts, env))
Compile(params, stmts) == ReturnNone(CompileIn(Bare, params, stmts))
=============================================================================
