----------------------------- MODULE ULToPython -----------------------------
(***************************************************************************)
(* Transcoder/Decoder/ul2py.py: a function body as Python, whose functions *)
(* are the only blocks of variables.  A result is a pair, "and" and "or"   *)
(* have the value of an operand, "//" and "%" round downwards, and a body  *)
(* with no statement in it is a syntax error.                              *)
(***************************************************************************)
EXTENDS ULSyntax

Hoisted(x) == FlattenSeq(x.pres)

\* _is_int_expr: a loop variable has no known type.
RECURSIVE IntExpr(_, _)
IntExpr(e, n) ==
    CASE e.k = "Int" -> TRUE
      [] e.k = "Id" -> e.name \in DOMAIN n.types /\ n.types[e.name] = "int"
      [] e.k = "Bin" -> IntExpr(e.left, n) /\ IntExpr(e.right, n)
      [] e.k = "Neg" -> IntExpr(e.operand, n)
      [] e.k = "Cast" -> e.type = "int"
      [] OTHER -> FALSE

\* BinaryOp; "/" of what are not known to be integers makes a float, which is not an
\* integer value any more.
Operator == [o \in {"+", "-", "<", "==", "%", "and", "or"} |->
                CASE o = "%" -> "%%" [] o = "and" -> "&&" [] o = "or" -> "||" [] OTHER -> o]
Binary(e, es, n) ==
    IF e.op # "/" THEN Bin(Operator[e.op], es[1], es[2])
    ELSE IF IntExpr(e.left, n) /\ IntExpr(e.right, n) THEN Bin("//", es[1], es[2])
    ELSE NoValue

\* gen_expr; an increment inside of an expression comes out as None.
PyExpr(e, es, n) ==
    CASE e.k = "Bin" -> Binary(e, es, n)
      [] e.k = "Post" -> NoValue
      [] OTHER -> WithOperands(e, es)
PyNode(e, x) == [pre |-> Hoisted(x), e |-> PyExpr(e, x.es, x.n), n |-> x.n]

-----------------------------------------------------------------------------
\* An indented block of statements, and one that is "pass" if there are none.
Suite(out) == IF out = <<>> THEN <<Broken>> ELSE out
SuiteOrPass(body, out) == IF body = <<>> THEN <<>> ELSE Suite(out)

PyDecl(s, x) == <<Decl(s.var, x.es[1])>>
PyAssign(s, x) ==
    <<Assign(IF Len(x.es) = 2 THEN x.es[1] ELSE s.target, s.op, x.es[Len(x.es)])>>
PyIf(s, x, bs) == <<If(x.es[1], Suite(bs[1]), IF s.else = <<>> THEN <<>> ELSE Suite(bs[2]))>>

\* The condition of a loop is hoisted only once, before it.
PyWhile(x, bs) == <<While(x.es[1], Suite(bs[1]))>>
\* while True, and the condition at the end of the body, which continue does not reach.
PyDoWhile(x, bs) ==
    <<While(Int_(1), bs[1] \o Hoisted(x) \o <<If(Not(x.es[1]), <<Escape>>, <<>>)>>)>>
PyFor(s, x, bs) == <<For(s.var, x.es[1], Suite(bs[1]))>>
\* A while loop, with the update at the end of its body.
PyCFor(x, bs) == bs[1] \o Hoisted(x) \o <<While(x.es[1], bs[2] \o bs[3])>>
PyReturn(x) == <<Return(x.es[1])>>

\* An increment that stands alone is an assignment.
PyExprStmt(s, x) ==
    <<IF s.expr.k = "Post" THEN Assign(s.expr.operand, IF s.expr.by = 1 THEN "+=" ELSE "-=", Int_(1))
      ELSE ExprStmt(x.es[1])>>

\* match: the pattern of a case is a literal, or a name, which takes any value.  Nothing
\* may be put out between the cases, and none may follow one that takes any value.
PyMatch(s, x, bs) ==
    LET n == Len(s.cases)
        cases == [i \in 1..n |-> <<x.es[i + 1], SuiteOrPass(s.cases[i][2], bs[i])>>]
        default == IF s.default = <<>> THEN <<>> ELSE Suite(bs[n + 1])
    IN  CASE \/ n = 0 /\ default = <<>>
             \/ \E i \in 1..n : x.pres[i + 1] # <<>> \/ ~(IsLiteral(cases[i][1]) \/ cases[i][1].k = "Id")
             \/ \E i \in 1..n : cases[i][1].k = "Id" /\ (i < n \/ default # <<>>) -> <<Broken>>
          [] n = 1 /\ cases[1][1].k = "Id" -> <<Decl(cases[1][1].name, x.es[1])>> \o cases[1][2]
          [] OTHER -> <<Match(x.es[1], cases, default)>>

\* try: the handlers are a ladder of if, elif and else on the type; the first is never
\* an else.
PyTry(s, bs) ==
    LET n == Len(s.handlers)
        handlers == [i \in 1..n |-> [s.handlers[i] EXCEPT ![3] = SuiteOrPass(@, bs[i + 1])]]
    IN  IF \/ n = 0 /\ s.finally = <<>>
           \/ \E i \in 2..(n - 1) : s.handlers[i][1] = NoName
        THEN <<Broken>>
        ELSE <<Try(SuiteOrPass(s.body, bs[1]), handlers,
                   IF s.finally = <<>> THEN <<>> ELSE Suite(bs[n + 2]))>>
PyThrow(s, x) == <<Throw(s.type, x.es[1])>>

\* gen_stmt.  What is hoisted comes first, but in a do-while and a C-style for.
PyStatement(s, x, bs) ==
    CASE s.k = "DoWhile" -> PyDoWhile(x, bs)
      [] s.k = "CFor" -> PyCFor(x, bs)
      [] OTHER -> Hoisted(x) \o
         CASE s.k = "Decl" -> PyDecl(s, x)
           [] s.k = "Assign" -> PyAssign(s, x)
           [] s.k = "If" -> PyIf(s, x, bs)
           [] s.k = "While" -> PyWhile(x, bs)
           [] s.k = "For" -> PyFor(s, x, bs)
           [] s.k = "Return" -> PyReturn(x)
           [] s.k = "Output" -> <<Output(x.es[1])>>
           [] s.k = "ExprStmt" -> PyExprStmt(s, x)
           [] s.k \in {"Escape", "Continue"} -> <<s>>
           [] s.k = "Match" -> PyMatch(s, x, bs)
           [] s.k = "Try" -> PyTry(s, bs)
           [] s.k = "Throw" -> PyThrow(s, x)
           [] s.k = "Norm" -> <<>>

INSTANCE Emitter WITH Node <- PyNode, Statement <- PyStatement
=============================================================================
