------------------------------- MODULE ULToJS -------------------------------
(***************************************************************************)
(* Transcoder/Decoder/ul2js.py: a function body as JavaScript.  Division   *)
(* is truncated, "and" and "or" have the value of an operand, the variable *)
(* of a for loop is a constant, and match is a switch.  The sign of zero   *)
(* is left out.                                                            *)
(***************************************************************************)
EXTENDS ULSyntax

Hoisted(x) == FlattenSeq(x.pres)

\* op_map, and Math.trunc around the division of integers.
Operator == [o \in {"+", "-", "<", "==", "/", "%", "and", "or"} |->
                CASE o = "and" -> "&&" [] o = "or" -> "||" [] OTHER -> o]

\* gen_expr.
JsExpr(e, es) == IF e.k = "Bin" THEN Bin(Operator[e.op], es[1], es[2]) ELSE WithOperands(e, es)
JsNode(e, x) == [pre |-> Hoisted(x), e |-> JsExpr(e, x.es), n |-> x.n]

-----------------------------------------------------------------------------
\* let.
JsDecl(s, x) == <<Decl(s.var, x.es[1])>>
\* Assignments put out what the value needs before what the target does.
JsAssign(s, x) ==
    IF Len(x.es) = 1 THEN Hoisted(x) \o <<Assign(s.target, s.op, x.es[1])>>
    ELSE x.pres[2] \o x.pres[1] \o <<Assign(x.es[1], s.op, x.es[2])>>

JsIf(x, bs) == <<If(x.es[1], bs[1], bs[2])>>
JsWhile(x, bs) == <<While(x.es[1], bs[1])>>
\* The condition is outside of the block that what it needs is declared in.
JsDoWhile(x, bs) == <<DoWhile(bs[1] \o Hoisted(x), x.es[1])>>
\* for (const x of ...).
JsFor(s, x, bs) == <<ForConst(s.var, x.es[1], bs[1])>>
\* A for loop; whatever its three parts need is put out before it.
JsCFor(x, bs) ==
    Front(bs[1]) \o Hoisted(x) \o Front(bs[3]) \o <<CFor(Last(bs[1]), x.es[1], Last(bs[3]), bs[2])>>

\* Of the value of a return, as of any other.
JsReturn(x) == <<Return(x.es[1])>>

\* switch: "break" ends each case, the cases are one block, and nothing may be put out
\* before the first.
Declared(out) == {out[i].var : i \in {j \in DOMAIN out : out[j].k = "Decl"}}
JsMatch(s, x, bs) ==
    IF \/ \E i \in 2..Len(x.pres) : x.pres[i] # <<>>
       \/ \E i, j \in DOMAIN bs : i < j /\ Declared(bs[i]) \cap Declared(bs[j]) # {}
    THEN <<Broken>>
    ELSE <<Switch(x.es[1], [i \in DOMAIN s.cases |-> <<x.es[i + 1], bs[i]>>], Last(bs))>>

\* try: the handlers are a ladder on the type of the exception; an else comes last.
JsTry(s, bs) ==
    LET n == Len(s.handlers) IN
    IF \/ n = 0 /\ s.finally = <<>>
       \/ \E i \in 1..(n - 1) : s.handlers[i][1] = NoName
    THEN <<Broken>>
    ELSE <<Try(bs[1], [i \in 1..n |-> [s.handlers[i] EXCEPT ![3] = bs[i + 1]]], bs[n + 2])>>

\* The message is written twice, and evaluated twice.
JsThrow(s, x) == <<Throw(s.type, Both(x.es[1], x.es[1]))>>

\* gen_stmt.
JsStatement(s, x, bs) ==
    CASE s.k = "DoWhile" -> JsDoWhile(x, bs)
      [] s.k = "CFor" -> JsCFor(x, bs)
      [] s.k = "Assign" -> JsAssign(s, x)
      [] OTHER -> Hoisted(x) \o
         CASE s.k = "Decl" -> JsDecl(s, x)
           [] s.k = "If" -> JsIf(x, bs)
           [] s.k = "While" -> JsWhile(x, bs)
           [] s.k = "For" -> JsFor(s, x, bs)
           [] s.k = "Return" -> JsReturn(x)
           [] s.k = "Output" -> <<Output(x.es[1])>>
           [] s.k = "ExprStmt" -> <<ExprStmt(x.es[1])>>
           [] s.k \in {"Escape", "Continue"} -> <<s>>
           [] s.k = "Match" -> JsMatch(s, x, bs)
           [] s.k = "Try" -> JsTry(s, bs)
           [] s.k = "Throw" -> JsThrow(s, x)
           [] s.k = "Norm" -> <<>>

INSTANCE Emitter WITH Node <- JsNode, Statement <- JsStatement
=============================================================================
