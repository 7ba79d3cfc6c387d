----------------------------- MODULE Normalizer -----------------------------
(***************************************************************************)
(* Compiler/simplifycode.py: the rewriting of a function body into simpler *)
(* statements.  An operator takes the state n of the Normalizer, its level *)
(* and its counter of temporaries, and returns it with what it made: the   *)
(* statements to run before, pre, and the expression left, e.              *)
(***************************************************************************)
EXTENDS ULSyntax, TLC

\* Mutant: one name for all.
FreshOnce(n) == "_t"
\* _fresh.
Fresh(n) == "_t" \o ToString(n.counter)
Used(n) == [n EXCEPT !.counter = @ + 1]

Flat(pre, e, n) == [pre |-> pre, e |-> e, n |-> n]
After(pre, x) == [x EXCEPT !.pre = pre \o @]

\* Keeps e in a temporary, after pre, and puts the temporary in its place.
Extract(pre, e, n) == Flat(Append(pre, Auto(Fresh(n), e)), Id(Fresh(n)), Used(n))

-----------------------------------------------------------------------------
\* expand_post_inc_dec: x = x + 1, and in an expression the old value is saved.
Increment(p) == Assign(p.operand, "=", Bin(IF p.by = 1 THEN "+" ELSE "-", p.operand, Int_(1)))

ExpandPostIncDec(p, n) ==
    Flat(<<Auto(Fresh(n), p.operand), Increment(p)>>, Id(Fresh(n)), Used(n))

\* Mutant: calls stay where they are.
FlattenArgLeft(x) == x

\* flatten_call: an argument that is still a call goes to a temporary.
FlattenArg(x) == IF x.e.k = "Call" THEN Extract(x.pre, x.e, x.n) ELSE x

\* flatten_cast: so does a cast inside a cast, or in the change() that it is written with.
InCast(c, x) == [x EXCEPT !.e = [c EXCEPT !.expr = x.e]]
InChange(x) == [x EXCEPT !.e = Change(x.e)]
FlattenCast(c, x) ==
    IF x.e.k = "Cast" THEN InCast(c, Extract(x.pre, x.e, x.n))
    ELSE IF IsChange(x.e) /\ x.e.args[1].k = "Cast"
         THEN InCast(c, InChange(Extract(x.pre, x.e.args[1], x.n)))
    ELSE InCast(c, x)

\* The expression e with all that was made of its operands.
Rebuilt(e, all) ==
    IF e.k = "Cast" THEN FlattenCast(e, [all EXCEPT !.e = all.e[1]])
    ELSE [all EXCEPT !.e = WithOperands(e, all.e)]

RECURSIVE FlattenExpr(_, _), FlattenAll(_, _, _)
Then(h, t) == Flat(h.pre \o t.pre, <<h.e>> \o t.e, t.n)
FlattenRest(h, es, inCall) == Then(h, FlattenAll(es, inCall, h.n))

\* The expressions of es one after the other, each then treated by flatten_call if
\* they are the arguments of one; e is the sequence of what is left of them.
FlattenAll(es, inCall, n) ==
    IF es = <<>> THEN Flat(<<>>, <<>>, n)
    ELSE FlattenRest(IF inCall THEN FlattenArg(FlattenExpr(Head(es), n)) ELSE FlattenExpr(Head(es), n),
                     Tail(es), inCall)

\* flatten_expr.
FlattenExpr(e, n) ==
    CASE \/ e.k \in {"Bin", "Neg", "Not", "Index", "Array"}
         \/ e.k \in {"Call", "Cast"} /\ n.level >= 2 ->
             Rebuilt(e, FlattenAll(Operands(e), e.k = "Call", n))
      [] e.k = "Post" /\ n.level >= 1 -> ExpandPostIncDec(e, n)
      [] OTHER -> Flat(<<>>, e, n)

\* split_boolean: "a and b and c" keeps "a and b" in a temporary.
RECURSIVE SplitBoolean(_, _)
WithLeft(e, x) == [x EXCEPT !.e = [e EXCEPT !.left = x.e]]
SplitLeft(e, l) == WithLeft(e, Extract(l.pre, l.e, l.n))
SplitBoolean(e, n) ==
    IF /\ e.k = "Bin" /\ e.op \in {"and", "or"}
       /\ e.left.k = "Bin" /\ e.left.op = e.op
    THEN SplitLeft(e, SplitBoolean(e.left, n))
    ELSE Flat(<<>>, e, n)

\* expand_array_init: the elements are stored one by one unless all are literals.
ExpandArrayInit(d) ==
    LET es == d.init.elements IN
    IF \A i \in DOMAIN es : es[i].k = "Int" THEN <<d>>
    ELSE <<Decl(d.var, Array([i \in DOMAIN es |-> Int_(0)]))>>
            \o [i \in DOMAIN es |-> Assign(Index(Id(d.var), Int_(i - 1)), "=", es[i])]

-----------------------------------------------------------------------------
\* A statement list and the state after it.
Body(out, n) == [out |-> out, n |-> n]

RECURSIVE NormBody(_, _), NormStmt(_, _)

\* norm_body.
Before(h, t) == Body(h.out \o t.out, t.n)
NormRest(h, stmts) == Before(h, NormBody(stmts, h.n))
NormBody(stmts, n) ==
    IF stmts = <<>> THEN Body(<<>>, n) ELSE NormRest(NormStmt(Head(stmts), n), Tail(stmts))

\* The rest of norm_stmt, a kind of statement each: x is what flatten_expr made of the
\* statement's expression.

\* op_map, of expand_compound_assign.
OpMap == [o \in {"+=", "-="} |-> IF o = "+=" THEN "+" ELSE "-"]

\* Assignments: a compound one reads its target again.
NormAssign(s, x) ==
    Body(Append(x.pre, Assign(s.target, "=",
                              IF s.op = "=" THEN x.e ELSE Bin(OpMap[s.op], s.target, x.e))), x.n)

NormDecl(s, x) ==
    Body(x.pre \o (IF x.n.level >= 3 /\ x.e.k = "Array" THEN ExpandArrayInit(Decl(s.var, x.e))
                   ELSE <<[s EXCEPT !.init = x.e]>>), x.n)

\* A condition is split, and then the two branches are normalized.
Branches(c, then, else) == Body(Append(c.pre, If(c.e, then.out, else.out)), else.n)
ElseBranch(s, c, then) == Branches(c, then, NormBody(s.else, then.n))
ThenBranch(s, c) == ElseBranch(s, c, NormBody(s.then, c.n))
Split(x) == IF x.n.level >= 3 THEN After(x.pre, SplitBoolean(x.e, x.n)) ELSE x

\* Mutant: the condition is flattened before the loop.
HoistedLoop(x, b) == Body(Append(x.pre, While(x.e, b.out)), b.n)
HoistedRest(s, x) == HoistedLoop(x, NormBody(s.body, x.n))
NormWhileHoisted(s, n) == HoistedRest(s, FlattenExpr(s.cond, n))

\* The condition of a while is evaluated each time and stays in it.
WhileLoop(s, b) == Body(<<While(s.cond, b.out)>>, b.n)
NormWhile(s, n) == WhileLoop(s, NormBody(s.body, n))

ForLoop(s, x, b) == Body(Append(x.pre, For(s.var, x.e, b.out)), b.n)
NormFor(s, x) == ForLoop(s, x, NormBody(s.body, x.n))

\* A statement that holds one expression.
NormSimple(s, x) ==
    Body(Append(x.pre, IF s.k = "ExprStmt" THEN [s EXCEPT !.expr = x.e] ELSE [s EXCEPT !.value = x.e]),
         x.n)

\* norm_stmt, of a statement that evaluates an expression before anything else.
NormEvaluated(s, x) ==
    CASE s.k = "Decl" -> NormDecl(s, x)
      [] s.k = "Assign" -> NormAssign(s, x)
      [] s.k = "If" -> ThenBranch(s, Split(x))
      [] s.k = "For" -> NormFor(s, x)
      [] s.k \in {"Return", "Output", "ExprStmt"} -> NormSimple(s, x)

\* norm_stmt; match, escape and continue pass through.
NormStmt(s, n) ==
    CASE s.k = "Norm" -> Body(<<>>, [n EXCEPT !.level = s.level])
      [] s.k = "While" -> NormWhile(s, n)
      [] s.k = "ExprStmt" /\ s.expr.k = "Post" /\ n.level >= 1 -> Body(<<Increment(s.expr)>>, n)
      [] \/ s.k \in {"Decl", "If", "For", "Return", "Output"}
         \/ s.k = "ExprStmt" /\ ~(s.expr.k = "Post" /\ n.level >= 1)
         \/ s.k = "Assign" /\ (n.level >= 1 \/ s.op = "=") ->
             NormEvaluated(s, FlattenExpr(Last(Exprs(s)), n))
      [] OTHER -> Body(<<s>>, n)

\* normalize, for one function.  At level 0 the tree is left alone, @norm inside it
\* included.
Normalize(stmts, level) ==
    IF level = 0 THEN stmts ELSE NormBody(stmts, [level |-> level, counter |-> 0]).out
=============================================================================
