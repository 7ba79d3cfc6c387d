------------------------------- MODULE Writing -------------------------------
(***************************************************************************)
(* How a programmer writes a tree, by the grammar the comments of the      *)
(* parser give: in the "least" style with the brackets that the precedence *)
(* of the operators asks for and the shorter form of each statement, in    *)
(* the "full" style with brackets around every operand that is an          *)
(* operation and the longer forms.                                         *)
(***************************************************************************)
EXTENDS ULSyntax, Tokens

Styles == {"least", "full"}

\* Precedence, from low to high.
Rank(e) ==
    CASE e.k = "Bin" /\ e.op = "or" -> 1
      [] e.k = "Bin" /\ e.op = "and" -> 2
      [] e.k = "Not" -> 3
      [] e.k = "Bin" /\ e.op \in {"==", "!=", "<", ">", "<=", ">="} -> 4
      [] e.k = "Bin" /\ e.op \in {"+", "-"} -> 5
      [] e.k = "Bin" /\ e.op \in {"*", "/", "%"} -> 6
      [] e.k = "Neg" -> 7
      [] OTHER -> 8

\* The least rank of the i-th operand of e without brackets; operations are grouped from
\* the left.
Needed(e, i) ==
    CASE e.k = "Bin" -> Rank(e) + i - 1
      [] e.k \in {"Neg", "Not"} -> Rank(e)
      [] e.k \in {"Post", "Prop"} \/ (e.k = "Index" /\ i = 1) -> 8
      [] OTHER -> 0
Bracketed(e, i, style) ==
    CASE style = "least" -> Rank(Operands(e)[i]) < Needed(e, i)
      [] style = "full" -> (Needed(e, i) > 0 \/ e.k = "Cast") /\ Rank(Operands(e)[i]) < 8

RECURSIVE Text(_, _)
Part(e, i, style) ==
    IF Bracketed(e, i, style) THEN In("(", Text(Operands(e)[i], style), ")") ELSE Text(Operands(e)[i], style)
Texts(es, style) == Commas([i \in DOMAIN es |-> Text(es[i], style)])
Text(e, style) ==
    CASE e.k = "Int" -> Numeral(e.value)
      [] e.k = "Id" -> Ident(e.name)
      [] e.k = "Bin" -> Part(e, 1, style) \o Word(e.op) \o Part(e, 2, style)
      [] e.k = "Neg" -> Word("-") \o Part(e, 1, style)
      [] e.k = "Not" -> Word("not") \o Part(e, 1, style)
      [] e.k = "Cast" ->
            IF style = "full" THEN Part(e, 1, style) \o Word("->") \o Word(e.type)
            ELSE Word("cast") \o In("(", Text(e.expr, style) \o Word(",") \o Word(e.type), ")")
      [] e.k = "Call" -> FunctionName(e.fn) \o In("(", Texts(e.args, style), ")")
      [] e.k = "Index" -> Part(e, 1, style) \o In("[", Text(e.index, style), "]")
      [] e.k = "Array" -> In("[", Texts(e.elements, style), "]")
      [] e.k = "Comp" ->
            In("[", Text(e.expr, style) \o Word("for") \o Ident(e.var) \o Word("in")
                       \o Text(Call("range", e.range), style), "]")
      [] e.k = "Post" -> Part(e, 1, style) \o Word(IF e.by = 1 THEN "++" ELSE "--")
      [] e.k = "Prop" -> Part(e, 1, style) \o Word("?")

-----------------------------------------------------------------------------
TypeOf(d) ==
    CASE "auto" \in DOMAIN d -> Word("auto")
      [] d.init.k \in {"Array", "Comp"} -> Word("array") \o Word("int")
      [] OTHER -> Word("int")

Result(e, style) ==
    CASE e = NoValue -> <<>>
      [] e.k = "Ok" -> Word("ok") \o Text(e.value, style)
      [] e.k = "Error" -> Word("error") \o Text(e.value, style)
      [] OTHER -> Text(e, style)

Catch(h, style) ==
    Word("catch")
      \o CASE h[1] = NoName /\ h[2] = NoName -> <<>>
           [] h[1] = NoName /\ h[2] # NoName -> Word("as") \o Ident(h[2])
           [] h[1] # NoName /\ style = "full" -> In("(", Ident(h[1]) \o (IF h[2] = NoName THEN <<>> ELSE Ident(h[2])), ")")
           [] OTHER -> Ident(h[1]) \o (IF h[2] = NoName THEN <<>> ELSE Word("as") \o Ident(h[2]))

Ending(word) == Line(Word("end") \o Word(word))
Colon(style) == IF style = "full" THEN Word(":") ELSE <<>>

RECURSIVE Written(_, _), Lines(_, _)
\* "else if" needs no "end if" of its own when the two are on one line.
ElseText(s, style) ==
    CASE s.else = <<>> -> Ending("if")
      [] style = "least" /\ Len(s.else) = 1 /\ s.else[1].k = "If" -> Line(Word("else") \o Written(s.else[1], style))
      [] OTHER -> Line(Word("else")) \o Lines(s.else, style) \o Ending("if")
CaseText(c, style) == Line(Text(c[1], style) \o Colon(style)) \o Lines(c[2], style)
CatchText(h, style) == Line(Catch(h, style)) \o Lines(h[3], style)

\* The text of a statement, from its first token on.
Written(s, style) ==
    CASE s.k = "Decl" -> TypeOf(s) \o Ident(s.var) \o Word("=") \o Text(s.init, style)
      [] s.k = "Assign" -> Text(s.target, style) \o Word(s.op) \o Text(s.value, style)
      [] s.k = "ExprStmt" -> Text(s.expr, style)
      [] s.k = "Output" -> Word("print") \o Text(s.value, style)
      [] s.k = "Return" -> Word("return") \o Result(s.value, style)
      [] s.k = "Throw" -> Word("throw") \o Ident(s.type) \o Text(s.message, style)
      [] s.k = "Escape" -> Word("escape")
      [] s.k = "Continue" -> Word("continue")
      [] s.k = "Norm" -> Word("@norm") \o Numeral(s.level)
      [] s.k = "If" -> Word("if") \o Text(s.cond, style) \o Lines(s.then, style) \o ElseText(s, style)
      [] s.k = "While" ->
            Word("while") \o Text(s.cond, style)
              \o (IF style = "full" THEN Word("do") \o Lines(s.body, style) \o Ending("do")
                  ELSE Lines(s.body, style) \o Ending("while"))
      [] s.k = "DoWhile" ->
            Word("do") \o Lines(s.body, style) \o Line(Word("while") \o Text(s.cond, style)) \o Ending("do")
      [] s.k = "For" ->
            Word("for") \o Word("each") \o Ident(s.var) \o Word("in") \o Text(s.iterable, style)
              \o Lines(s.body, style) \o Ending("for")
      [] s.k = "CFor" ->
            Word("for") \o Written(s.init, style) \o Word(IF style = "full" THEN "," ELSE "while")
              \o Text(s.cond, style) \o Word(IF style = "full" THEN "," ELSE "do") \o Written(s.update, style)
              \o Lines(s.body, style) \o Ending("for")
      [] s.k = "Match" ->
            Word("match")
              \o (IF Rank(s.subject) < 8 \/ (s.subject.k = "Cast" /\ style = "full")
                  THEN In("(", Text(s.subject, style), ")") ELSE Text(s.subject, style))
              \o FlattenSeq([i \in DOMAIN s.cases |-> CaseText(s.cases[i], style)])
              \o (IF s.default = <<>> THEN <<>>
                  ELSE Line(Word("default") \o Colon(style)) \o Lines(s.default, style))
              \o Ending("match")
      [] s.k = "Try" ->
            Word("try") \o Lines(s.body, style)
              \o FlattenSeq([i \in DOMAIN s.handlers |-> CatchText(s.handlers[i], style)])
              \o (IF s.finally = <<>> THEN <<>> ELSE Line(Word("finally")) \o Lines(s.finally, style))
              \o Ending("try")
Lines(body, style) == FlattenSeq([i \in DOMAIN body |-> Line(Written(body[i], style))])

\* A function, from its body on.
FunctionText(body, style) == Lines(body, style) \o Ending("function") \o EndOfFile

-----------------------------------------------------------------------------
\* Where the parser takes the text of a statement for something else.

\* The value of a return ends with the bracket that it begins with.
CutsReturn(s, style) ==
    s.k = "Return" /\ s.value # NoValue /\ Result(s.value, style)[1] = Word("(")[1]

\* A while ends the body of a do, and a do at the start of a while is part of its head.
TakesWhile(s, style) ==
    \/ s.k = "DoWhile" /\ \E i \in DOMAIN s.body : s.body[i].k = "While"
    \/ s.k = "While" /\ style = "least" /\ s.body # <<>> /\ s.body[1].k = "DoWhile"

\* After a catch without a type, a name that begins a statement is the type.
TakesType(s) ==
    s.k = "Try" /\ \E i \in DOMAIN s.handlers :
        /\ s.handlers[i][1] = NoName /\ s.handlers[i][2] = NoName
        /\ s.handlers[i][3] # <<>> /\ s.handlers[i][3][1].k \in {"Assign", "ExprStmt"}

\* A case after the first begins only with a literal, and a minus in front of it is that
\* of a difference when an expression comes before.
EndsInExpr(s) == s.k \in {"Decl", "Assign", "ExprStmt", "Output", "Return", "Throw"}
TakesCase(s, style) ==
    s.k = "Match" /\ \E i \in DOMAIN s.cases :
        /\ i > 1
        /\ \/ ~IsLiteral(s.cases[i][1])
           \/ /\ s.cases[i][1].k = "Neg"
              /\ IF s.cases[i - 1][2] = <<>> THEN style = "least" ELSE EndsInExpr(Last(s.cases[i - 1][2]))

\* What begins with a sign or a bracket goes on with the expression before it.
JoinsNext(body, style) ==
    \E i \in 1..(Len(body) - 1) :
        /\ EndsInExpr(body[i]) /\ body[i + 1].k = "ExprStmt"
        /\ Written(body[i + 1], style)[1] \in {Word("-")[1], Word("(")[1], Word("[")[1]}

Misread(s, style) ==
    \/ CutsReturn(s, style) \/ TakesWhile(s, style) \/ TakesType(s) \/ TakesCase(s, style)
    \/ \E i \in DOMAIN Bodies(s) : JoinsNext(Bodies(s)[i], style)
MisreadIn(body, style) ==
    JoinsNext(body, style) \/ \E s \in Statements(body) : Misread(s, style)

\* Where the source printer loses what a statement says: whole statements, comprehensions,
\* brackets, the space between two minus signs, and what would be misread.
LosesPart(e) ==
    \/ e.k = "Comp" \/ (e.k = "Neg" /\ e.operand.k = "Neg")
    \/ \E i \in DOMAIN Operands(e) : Bracketed(e, i, "least")
Loses(s) ==
    \/ s.k \in {"DoWhile", "CFor", "Try", "Throw", "Norm"}
    \/ \E e \in ToSet(AllNodes(s)) : LosesPart(e)
    \/ s.k = "Match" /\ Rank(s.subject) < 8
LosesIn(body) == MisreadIn(body, "least") \/ \E s \in Statements(body) : Loses(s)
=============================================================================
