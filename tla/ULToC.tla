-------------------------------- MODULE ULToC -------------------------------
(***************************************************************************)
(* Transcoder/Decoder/ul2c.py: a function body as C, without the profiling *)
(* and the memory modes.  A range is counted with the loop variable, a     *)
(* match compares its subject again for each case, and exceptions are      *)
(* setjmp and longjmp with a stack of buffers.                             *)
(***************************************************************************)
EXTENDS ULSyntax, TLC

Hoisted(x) == FlattenSeq(x.pres)

\* for (int v = from; v < to; v++)
Count(v, from, to, body) ==
    CFor(Decl(v, from), Bin("<", Id(v), to), Assign(Id(v), "+=", Int_(1)), body)

\* range(...) as a first and a last value; a step is left out.
From(range) == IF Len(range) = 1 THEN Int_(0) ELSE range[1]
To(range) == IF Len(range) = 1 THEN range[1] ELSE range[2]

\* _gen_array_comprehension: an array of that size, and a loop that fills it; likewise
\* the initial value of a declaration.
Filled(a, i, e, pre, v, range) ==
    <<Decl(a, NewArray_(Bin("-", To(range), From(range)))), Decl(i, Int_(0)),
      Count(v, From(range), To(range),
            pre \o <<Assign(Index(Id(a), Id(i)), "=", e), Assign(Id(i), "+=", Int_(1))>>)>>
Comprehension(e, x) ==
    LET a == "_comp" \o ToString(x.n.tmp)
        i == "_ci" \o ToString(x.n.tmp)
    IN  [pre |-> FlattenSeq(Tail(x.pres)) \o Filled(a, i, x.es[1], x.pres[1], e.var, Tail(x.es)),
         e |-> Id(a), n |-> [x.n EXCEPT !.tmp = @ + 1]]

\* gen_expr.  The operators of C on integers are those of UniLogic.
CExpr(e, es) == WithOperands(e, es)
CNode(e, x) ==
    IF e.k = "Comp" THEN Comprehension(e, x)
    ELSE [pre |-> Hoisted(x), e |-> CExpr(e, x.es), n |-> x.n]

-----------------------------------------------------------------------------
CDecl(s, x) == <<Decl(s.var, x.es[1])>>
CAssign(s, x) == <<Assign(IF Len(x.es) = 2 THEN x.es[1] ELSE s.target, s.op, x.es[Len(x.es)])>>
CIf(x, bs) == <<If(x.es[1], bs[1], bs[2])>>
CWhile(x, bs) == <<While(x.es[1], bs[1])>>
\* The condition is outside of the block that what it needs is declared in.
CDoWhile(x, bs) == <<DoWhile(bs[1] \o Hoisted(x), x.es[1])>>

\* for: the end of a range is evaluated each time, as is the size of an array; that of
\* a parameter is the size of a pointer, two integers.
CForEach(s, x, bs) ==
    IF IsRange(s.iterable)
    THEN <<Count(s.var, From(x.es[1].args), To(x.es[1].args), bs[1])>>
    ELSE <<Count("_i", Int_(0), IF x.n.types[s.iterable.name] = "parameter" THEN Int_(2) ELSE Size(x.es[1]),
                 <<Decl(s.var, Index(x.es[1], Id("_i")))>> \o bs[1])>>

\* Mutant: the update is the end of the body.
CLoopAsWhile(x, bs) == <<If(Int_(1), bs[1] \o <<While(x.es[1], bs[2] \o bs[3])>>, <<>>)>>
\* { init; for (; c; update) { ... } }
CLoop(x, bs) ==
    <<If(Int_(1), Front(bs[1]) \o Hoisted(x) \o Front(bs[3])
                    \o <<CFor(Last(bs[1]), x.es[1], Last(bs[3]), bs[2])>>, <<>>)>>
CReturn(x) == <<Return(x.es[1])>>

\* match: a ladder of comparisons; nothing may be put out in the middle of it.
RECURSIVE Ladder(_, _, _)
Ladder(e, cases, default) ==
    IF cases = <<>> THEN default
    ELSE <<If(Bin("==", e, cases[1][1]), cases[1][2], Ladder(e, Tail(cases), default))>>
CMatch(s, x, bs) ==
    IF \E i \in 3..Len(x.pres) : x.pres[i] # <<>> THEN <<Broken>>
    ELSE Ladder(x.es[1], [i \in DOMAIN s.cases |-> <<x.es[i + 1], bs[i]>>], Last(bs))

\* try: the handlers are a ladder on the type of the exception; an else comes last.
CTry(s, bs) ==
    LET n == Len(s.handlers) IN
    IF \E i \in 1..(n - 1) : s.handlers[i][1] = NoName THEN <<Broken>>
    ELSE <<SetJmp(bs[1], [i \in 1..n |-> [s.handlers[i] EXCEPT ![3] = bs[i + 1]]], bs[n + 2])>>
CThrow(s, x) == <<Throw(s.type, x.es[1])>>

\* gen_stmt.
CStatement(s, x, bs) ==
    CASE s.k = "DoWhile" -> CDoWhile(x, bs)
      [] s.k = "CFor" -> CLoop(x, bs)
      [] OTHER -> Hoisted(x) \o
         CASE s.k = "Decl" -> CDecl(s, x)
           [] s.k = "Assign" -> CAssign(s, x)
           [] s.k = "If" -> CIf(x, bs)
           [] s.k = "While" -> CWhile(x, bs)
           [] s.k = "For" -> CForEach(s, x, bs)
           [] s.k = "Return" -> CReturn(x)
           [] s.k = "Output" -> <<Output(x.es[1])>>
           [] s.k = "ExprStmt" -> <<ExprStmt(x.es[1])>>
           [] s.k \in {"Escape", "Continue"} -> <<s>>
           [] s.k = "Match" -> CMatch(s, x, bs)
           [] s.k = "Try" -> CTry(s, bs)
           [] s.k = "Throw" -> CThrow(s, x)
           [] s.k = "Norm" -> <<>>

INSTANCE Emitter WITH Node <- CNode, Statement <- CStatement
=============================================================================
