------------------------------ MODULE Emitter -------------------------------
(***************************************************************************)
(* The walk that the back ends ul2py.py, ul2js.py and ul2c.py have in      *)
(* common: gen_expr and gen_stmt of a node call themselves on its parts,   *)
(* and on the way put out the statements that an expression needs first.   *)
(* Node and Statement are what each makes of a node.                       *)
(*                                                                         *)
(* A state n has the counter of temporaries and the types of variables, as *)
(* far as a back end asks for them.  Of expressions, es are the texts and  *)
(* pres, for each one, the statements put out for it.                      *)
(***************************************************************************)
EXTENDS ULSyntax, TLC

CONSTANTS
    Node(_, _),          \* of an expression and its operands
    Statement(_, _, _)   \* of a statement, its expressions and its bodies

Made(pre, e, n) == [pre |-> pre, e |-> e, n |-> n]
Parts(pres, es, n) == [pres |-> pres, es |-> es, n |-> n]

\* ResultPropagation: the result is kept, and if it is an error it is returned.
Temp(n) == "_r" \o ToString(n.tmp)
Propagated(x) ==
    Made(x.pre \o <<Decl(Temp(x.n), x.e),
                    If(Not(IsOk(Id(Temp(x.n)))), <<Return(Error(Payload(Id(Temp(x.n)))))>>, <<>>)>>,
         Payload(Id(Temp(x.n))), [x.n EXCEPT !.tmp = @ + 1])

RECURSIVE GenExpr(_, _), GenAll(_, _)
Joined(h, t) == Parts(<<h.pre>> \o t.pres, <<h.e>> \o t.es, t.n)
GenRest(h, es) == Joined(h, GenAll(es, h.n))
GenAll(es, n) ==
    IF es = <<>> THEN Parts(<<>>, <<>>, n) ELSE GenRest(GenExpr(Head(es), n), Tail(es))
GenExpr(e, n) ==
    IF e.k = "Prop" THEN Propagated(GenExpr(e.expr, n)) ELSE Node(e, GenAll(Operands(e), n))

\* gen_function keeps the types of the parameters, gen_stmt that of a declaration.
TypeOf(s) == CASE "auto" \in DOMAIN s -> "auto"
               [] s.init.k \in {"Array", "Comp"} -> "array"
               [] OTHER -> "int"
Typed(s, x) == IF s.k = "Decl" THEN [x EXCEPT !.n.types = (s.var :> TypeOf(s)) @@ @] ELSE x

RECURSIVE GenStmt(_, _), GenBody(_, _), GenBodies(_, _)
Emitted(out, n) == [out |-> out, n |-> n]
Followed(h, t) == Emitted(h.out \o t.out, t.n)
BodyRest(h, stmts) == Followed(h, GenBody(stmts, h.n))
GenBody(stmts, n) ==
    IF stmts = <<>> THEN Emitted(<<>>, n) ELSE BodyRest(GenStmt(Head(stmts), n), Tail(stmts))

Listed(h, t) == Emitted(<<h.out>> \o t.out, t.n)
BodiesRest(h, bodies) == Listed(h, GenBodies(bodies, h.n))
GenBodies(bodies, n) ==
    IF bodies = <<>> THEN Emitted(<<>>, n) ELSE BodiesRest(GenBody(Head(bodies), n), Tail(bodies))

Done(s, x, bs) == Emitted(Statement(s, x, bs.out), bs.n)
WithBodies(s, x) == Done(s, x, GenBodies(Bodies(s), x.n))
GenStmt(s, n) == WithBodies(s, Typed(s, GenAll(Exprs(s), n)))

\* gen_function: the statements of a function whose parameters have these types.
Function(types, stmts) == GenBody(stmts, [tmp |-> 0, types |-> types]).out
Rejected(stmts) == Broken \in Statements(stmts)
=============================================================================
