------------------------------ MODULE ULToLLVM ------------------------------
(***************************************************************************)
(* Transcoder/Decoder/ul2llvm.py: a function body as blocks of LLVM IR.    *)
(* The code is a sequence of labels, statements and branches; expressions  *)
(* are kept as trees, and are evaluated as ULMeaning does.  Every name has *)
(* one slot in the whole function.                                         *)
(*                                                                         *)
(* A state n has the label counter; the labels that continue and escape    *)
(* branch to (_loop_labels); the type of every slot (var_addrs); the       *)
(* lengths of the arrays that were declared (var_array_info); and whether  *)
(* the block is ended (block_terminated).                                  *)
(***************************************************************************)
EXTENDS ULSyntax, TLC

M == INSTANCE ULMeaning

Label(prefix, i) == <<prefix, i>>
L(l) == [k |-> "Label", label |-> l]
Br(l) == [k |-> "Br", to |-> l]
CondBr(e, then, else) == [k |-> "CondBr", cond |-> e, then |-> then, else |-> else]
SwitchBr(e, arms, default) == [k |-> "SwitchBr", subject |-> e, arms |-> arms, default |-> default]

-----------------------------------------------------------------------------
\* A value: its tree, and "i1", "i32" or another type.
Typed(e, t) == [e |-> e, t |-> t]

\* gen_binop: both operands are evaluated, and widened to the wider type
\* (promote_binop).  Arithmetic on truth values is that of single bits.
OfBits == [o \in {"+", "-", "<"} |-> o \o "1"]
Binary(o, l, r) ==
    CASE o \in {"and", "or"} -> Typed(Bin(IF o = "and" THEN "&" ELSE "|", l.e, r.e), "i1")
      [] o \in {"==", "<"} ->
            Typed(Bin(IF o = "<" /\ {l.t, r.t} = {"i1"} THEN OfBits[o] ELSE o, l.e, r.e), "i1")
      [] o \in {"+", "-"} /\ {l.t, r.t} = {"i1"} -> Typed(Bin(OfBits[o], l.e, r.e), "i1")
      [] OTHER -> Typed(Bin(o, l.e, r.e), "i32")

\* gen_unaryop: ensure_i1 and xor, and a subtraction in the type of the operand.
Unary(e, x) ==
    IF e.k = "Not" THEN Typed(Not(x.e), "i1")
    ELSE IF x.t = "i1" THEN Typed(Bin("-1", Int_(0), x.e), "i1") ELSE Typed(Neg(x.e), "i32")

\* gen_cast and cast_if_needed: an integer is truncated to a truth value.
CastTo(type, x) ==
    IF type = "bool" THEN Typed(IF x.t = "i1" THEN x.e ELSE LowBit(x.e), "i1") ELSE Typed(x.e, "i32")

\* gen_expr.  An array comprehension is not supported, and neither is the increment of
\* anything but a variable.
RECURSIVE GenExpr(_, _)
GenExpr(e, n) ==
    LET operands == [i \in DOMAIN Operands(e) |-> GenExpr(Operands(e)[i], n)] IN
    CASE e.k = "Bin" -> Binary(e.op, operands[1], operands[2])
      [] e.k \in {"Neg", "Not"} -> Unary(e, operands[1])
      [] e.k = "Cast" -> CastTo(e.type, operands[1])
      [] e.k = "Id" -> Typed(e, IF e.name \in DOMAIN n.slots THEN n.slots[e.name] ELSE "i32")
      [] e.k = "Post" /\ e.operand.k # "Id" -> Typed(Int_(0), "i32")
      [] e.k \in {"Comp", "Array"} -> Typed(NoValue, "i8*")
      [] OTHER -> Typed(WithOperands(e, [i \in DOMAIN operands |-> operands[i].e]), "i32")
Expr(e, n) == GenExpr(e, n).e

\* gen_print: what looks like a concatenation is printed part by part (_flatten_concat).
RECURSIVE FlattenConcat(_)
FlattenConcat(e) ==
    IF e.k = "Bin" /\ e.op = "+" THEN FlattenConcat(e.left) \o FlattenConcat(e.right) ELSE <<e>>
GenPrint(e, n) ==
    <<Printf([i \in DOMAIN FlattenConcat(e) |-> Expr(FlattenConcat(e)[i], n)])>>

-----------------------------------------------------------------------------
Code(out, n) == [out |-> out, n |-> n]
Adds(n, i) == [n EXCEPT !.labels = @ + i]
Open(n) == [n EXCEPT !.done = FALSE]
In(n, loop) == [n EXCEPT !.loop = loop, !.done = FALSE]

\* A slot for x, if it has none.
Slot(n, x, t) == [n EXCEPT !.slots = IF x \in DOMAIN @ THEN @ ELSE (x :> t) @@ @]

\* The block of that label, which goes on at another unless it is ended already.
Block(l, b, to) == <<L(l)>> \o b.out \o IF b.n.done THEN <<>> ELSE <<Br(to)>>

\* VarDecl; the type of an inferred one is that of the value.
GenDecl(s, n) ==
    IF s.init.k = "Array"
    THEN Code(<<Decl(s.var, Array([i \in DOMAIN s.init.elements |-> Expr(s.init.elements[i], n)]))>>,
              [Slot(n, s.var, "array") EXCEPT !.arrays = (s.var :> Len(s.init.elements)) @@ @])
    ELSE Code(<<Decl(s.var, Expr(s.init, n))>>,
              Slot(n, s.var, IF "auto" \in DOMAIN s THEN GenExpr(s.init, n).t ELSE "i32"))

\* Assign; an element of an array that is a parameter is stored whatever the operator.
GenAssign(s, n) ==
    IF s.target.k = "Id" THEN Code(<<Assign(s.target, s.op, Expr(s.value, n))>>, n)
    ELSE Code(<<Assign(Index(s.target.target, Expr(s.target.index, n)),
                       IF n.slots[s.target.target.name] = "pointer" THEN "=" ELSE s.op,
                       Expr(s.value, n))>>, n)

RECURSIVE GenStmt(_, _), GenBody(_, _)
Followed(h, t) == Code(h.out \o t.out, t.n)
BodyRest(h, stmts) == Followed(h, GenBody(stmts, h.n))
GenBody(stmts, n) ==
    IF stmts = <<>> THEN Code(<<>>, n) ELSE BodyRest(GenStmt(Head(stmts), n), Tail(stmts))

\* If: the blocks then, else if there is one, and end.
IfEnd(c, i, a, b, else) ==
    Code(<<CondBr(c, Label("then", i), Label(IF else THEN "else" ELSE "end", i))>>
           \o Block(Label("then", i), a, Label("end", i))
           \o (IF else THEN Block(Label("else", i), b, Label("end", i)) ELSE <<>>)
           \o <<L(Label("end", i))>>,
         Open(b.n))
IfElse(s, c, i, a) == IfEnd(c, i, a, GenBody(s.else, Open(a.n)), s.else # <<>>)
GenIf(s, n) == IfElse(s, Expr(s.cond, n), n.labels, GenBody(s.then, Open(Adds(n, 1))))

\* While: continue branches to the condition.
WhileEnd(s, i, n, b) ==
    Code(<<Br(Label("cond", i)), L(Label("cond", i)),
           CondBr(Expr(s.cond, n), Label("body", i), Label("end", i))>>
           \o Block(Label("body", i), b, Label("cond", i)) \o <<L(Label("end", i))>>,
         In(b.n, n.loop))
GenWhile(s, n) ==
    WhileEnd(s, n.labels, n,
             GenBody(s.body, In(Adds(n, 1), <<Label("cond", n.labels), Label("end", n.labels)>>)))

\* DoWhile.
DoWhileEnd(s, i, n, b) ==
    Code(<<Br(Label("body", i))>> \o Block(Label("body", i), b, Label("cond", i))
           \o <<L(Label("cond", i)), CondBr(Expr(s.cond, b.n), Label("body", i), Label("end", i)),
                L(Label("end", i))>>,
         In(b.n, n.loop))
GenDoWhile(s, n) ==
    DoWhileEnd(s, n.labels, n,
               GenBody(s.body, In(Adds(n, 1), <<Label("cond", n.labels), Label("end", n.labels)>>)))

\* For, over an array that was declared; over anything else, a range included, nothing
\* comes out.  The two slots are new, which they must be, and the increment is at the
\* end of the body.
ForEnd(s, i, n, counter, b) ==
    Code((IF s.var \in DOMAIN n.slots THEN <<Broken>> ELSE <<>>)
           \o <<Decl(counter, Int_(0)), Br(Label("cond", i)), L(Label("cond", i)),
                CondBr(Bin("<", Id(counter), Int_(n.arrays[s.iterable.name])),
                       Label("body", i), Label("end", i)),
                L(Label("body", i)), Decl(s.var, Index(s.iterable, Id(counter)))>>
           \o b.out
           \o (IF b.n.done THEN <<>> ELSE <<Assign(Id(counter), "+=", Int_(1)), Br(Label("cond", i))>>)
           \o <<L(Label("end", i))>>,
         In(b.n, n.loop))
GenFor(s, n) ==
    IF s.iterable.k # "Id" \/ s.iterable.name \notin DOMAIN n.arrays THEN Code(<<>>, n)
    ELSE ForEnd(s, n.labels, n, s.var \o "._i",
                GenBody(s.body, In(Slot(Adds(n, 1), s.var, "i32"),
                                   <<Label("cond", n.labels), Label("end", n.labels)>>)))

\* gen_match: the blocks of the cases, the default being the last.
RECURSIVE CaseBlocks(_, _, _, _, _)
CaseRest(b, bodies, heads, i, j) ==
    Followed(Code(heads[j] \o Block(Label("case", <<i, j>>), b, Label("end", i)), b.n),
             CaseBlocks(Tail(bodies), heads, i, j + 1, b.n))
CaseBlocks(bodies, heads, i, j, n) ==
    IF bodies = <<>> THEN Code(<<>>, n) ELSE CaseRest(GenBody(Head(bodies), Open(n)), bodies, heads, i, j)

\* A switch if all values are integer literals; else a chain of comparisons with the
\* subject, which is evaluated once.
AllInt(s) == \A i \in DOMAIN s.cases : s.cases[i][1].k = "Int"
Default(s, i) == IF s.default = <<>> THEN Label("end", i) ELSE Label("case", <<i, Len(s.cases) + 1>>)
Check(s, i, j) == IF j <= Len(s.cases) THEN Label("check", <<i, j>>) ELSE Default(s, i)
MatchHead(s, i, n) ==
    IF AllInt(s)
    THEN <<SwitchBr(Expr(s.subject, n),
                    [j \in DOMAIN s.cases |-> <<s.cases[j][1].value, Label("case", <<i, j>>)>>], Default(s, i))>>
    ELSE <<Decl("%" \o ToString(i), Expr(s.subject, n)), Br(Check(s, i, 1))>>
CaseHead(s, i, j, n) ==
    IF AllInt(s) \/ j > Len(s.cases) THEN <<>>
    ELSE <<L(Check(s, i, j)), CondBr(Bin("==", Id("%" \o ToString(i)), Expr(s.cases[j][1], n)),
                                     Label("case", <<i, j>>), Check(s, i, j + 1))>>
MatchEnd(s, i, n, b) ==
    Code(MatchHead(s, i, n) \o b.out \o <<L(Label("end", i))>>, Open(b.n))
GenMatch(s, n) ==
    MatchEnd(s, n.labels, n,
             CaseBlocks(IF s.default = <<>> THEN Front(Bodies(s)) ELSE Bodies(s),
                        [j \in 1..(Len(s.cases) + 1) |-> CaseHead(s, n.labels, j, n)],
                        n.labels, 1, Adds(n, 1)))

\* Return ends the block, and what follows in it is left out.
GenReturn(s, n) == Code(<<Return(Expr(s.value, n))>>, [n EXCEPT !.done = TRUE])

\* Mutant: what follows is in the same block.
GenBranchOnly(to, n) == Code(<<Br(to)>>, n)
\* Escape and Continue: a branch, and a label for what follows.
GenBranch(to, n) == Code(<<Br(to), L(Label("after", n.labels))>>, Adds(n, 1))

\* gen_stmt.  There is no case for a C-style for, for try and for throw.
GenStmt(s, n) ==
    CASE n.done -> Code(<<>>, n)
      [] ~n.done /\ s.k = "Decl" -> GenDecl(s, n)
      [] ~n.done /\ s.k = "Assign" -> GenAssign(s, n)
      [] ~n.done /\ s.k = "If" -> GenIf(s, n)
      [] ~n.done /\ s.k = "While" -> GenWhile(s, n)
      [] ~n.done /\ s.k = "DoWhile" -> GenDoWhile(s, n)
      [] ~n.done /\ s.k = "For" -> GenFor(s, n)
      [] ~n.done /\ s.k = "Return" -> GenReturn(s, n)
      [] ~n.done /\ s.k = "Output" -> Code(GenPrint(s.value, n), n)
      [] ~n.done /\ s.k = "ExprStmt" -> Code(<<ExprStmt(Expr(s.expr, n))>>, n)
      [] ~n.done /\ s.k = "Escape" -> GenBranch(n.loop[2], n)
      [] ~n.done /\ s.k = "Continue" -> GenBranch(n.loop[1], n)
      [] ~n.done /\ s.k = "Match" -> GenMatch(s, n)
      [] OTHER -> Code(<<>>, n)

\* gen_function: a block that is not ended at the end of the function returns 0, which
\* is not a result.
ReturnsResult(stmts) ==
    \E s \in Statements(stmts) :
        \/ s.k = "Return" /\ s.value.k \in {"Ok", "Error"}
        \/ \E i \in DOMAIN AllNodes(s) : AllNodes(s)[i].k = "Prop"
Ended(b, result) ==
    b.out \o IF b.n.done THEN <<>> ELSE IF result THEN <<Broken>> ELSE <<Return(Int_(0))>>
Function(types, stmts) ==
    Ended(GenBody(stmts, [labels |-> 0, loop |-> <<>>, done |-> FALSE, arrays |-> <<>>, slots |-> types]),
          ReturnsResult(stmts))

-----------------------------------------------------------------------------
\* What the code does, from its first block on.
RECURSIVE Exec(_, _, _)
At(code, l) == CHOOSE pc \in DOMAIN code : code[pc] = L(l)
\* A branch, which may be backwards.
Branch(code, pc, l, m) == Exec(code, At(code, l), IF At(code, l) < pc THEN M!Round(m) ELSE m)
Arm(i, c) ==
    CASE i.k = "CondBr" -> IF c.v # 0 THEN i.then ELSE i.else
      [] i.k = "SwitchBr" ->
            IF \E j \in DOMAIN i.arms : i.arms[j][1] = c.v
            THEN i.arms[CHOOSE j \in DOMAIN i.arms : i.arms[j][1] = c.v][2] ELSE i.default
Select(code, pc, c) == IF c.m.flow = "go" THEN Branch(code, pc, Arm(code[pc], c), c.m) ELSE c.m
Exec(code, pc, m) ==
    IF m.flow # "go" THEN m
    ELSE CASE code[pc].k = "Label" -> Exec(code, pc + 1, m)
           [] code[pc].k = "Br" -> Branch(code, pc, code[pc].to, m)
           [] code[pc].k = "CondBr" -> Select(code, pc, M!Eval(code[pc].cond, m))
           [] code[pc].k = "SwitchBr" -> Select(code, pc, M!Eval(code[pc].subject, m))
           [] OTHER -> Exec(code, pc + 1, M!RunStmt(code[pc], m))
=============================================================================
