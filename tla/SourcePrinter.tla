---------------------------- MODULE SourcePrinter ----------------------------
(***************************************************************************)
(* Compiler/ast2src.py: the source that --dry-run shows of a program after *)
(* the normalizer, as the tokens it would be read as again.                *)
(***************************************************************************)
EXTENDS ULSyntax, Tokens

\* _expr: no brackets but those of calls and indices; what has no case is "???".
RECURSIVE Shown(_)
ShownAll(es) == Commas([i \in DOMAIN es |-> Shown(es[i])])
Shown(e) ==
    CASE e.k = "Int" -> Numeral(e.value)
      [] e.k = "Id" -> Ident(e.name)
      [] e.k = "Bin" -> Shown(e.left) \o Word(e.op) \o Shown(e.right)
      [] e.k = "Neg" -> Glued(Shown(e.operand))
      [] e.k = "Not" -> Word("not") \o Shown(e.operand)
      [] e.k = "Call" -> FunctionName(e.fn) \o In("(", ShownAll(e.args), ")")
      [] e.k = "Cast" -> Word("cast") \o In("(", Shown(e.expr) \o Word(",") \o Word(e.type), ")")
      [] e.k = "Index" -> Shown(e.target) \o In("[", Shown(e.index), "]")
      [] e.k = "Array" -> In("[", ShownAll(e.elements), "]")
      [] e.k = "Post" -> Shown(e.operand) \o Word(IF e.by = 1 THEN "++" ELSE "--")
      [] e.k = "Ok" -> Word("ok") \o Shown(e.value)
      [] e.k = "Error" -> Word("error") \o Shown(e.value)
      [] e.k = "Prop" -> Shown(e.expr) \o Word("?")
      [] e.k = "NoValue" -> <<>>
      [] OTHER -> Word("?") \o Word("?") \o Word("?")

TypeName(d) ==
    CASE "auto" \in DOMAIN d -> Word("auto")
      [] d.init.k \in {"Array", "Comp"} -> Word("array") \o Word("int")
      [] OTHER -> Word("int")

\* Mutant: the else branch of an if is left out.
EmitElseNever(else) == <<>>

\* _emit_body: what has no case is left out.
RECURSIVE EmitBody(_)
Block(head, body, word) == Line(head) \o EmitBody(body) \o Line(Word("end") \o Word(word))
EmitElse(else) == IF else = <<>> THEN <<>> ELSE Line(Word("else")) \o EmitBody(else)
EmitCase(c) == Line(Shown(c[1])) \o EmitBody(c[2])
Emit(s) ==
    CASE s.k = "Decl" -> Line(TypeName(s) \o Ident(s.var) \o Word("=") \o Shown(s.init))
      [] s.k = "Assign" -> Line(Shown(s.target) \o Word(s.op) \o Shown(s.value))
      [] s.k = "If" ->
            Line(Word("if") \o Shown(s.cond)) \o EmitBody(s.then) \o EmitElse(s.else)
              \o Line(Word("end") \o Word("if"))
      [] s.k = "While" -> Block(Word("while") \o Shown(s.cond), s.body, "while")
      [] s.k = "For" ->
            Block(Word("for") \o Word("each") \o Ident(s.var) \o Word("in") \o Shown(s.iterable), s.body, "for")
      [] s.k = "Match" ->
            Line(Word("match") \o Shown(s.subject))
              \o FlattenSeq([i \in DOMAIN s.cases |-> EmitCase(s.cases[i])])
              \o (IF s.default = <<>> THEN <<>> ELSE Line(Word("default")) \o EmitBody(s.default))
              \o Line(Word("end") \o Word("match"))
      [] s.k = "Return" -> Line(Word("return") \o Shown(s.value))
      [] s.k = "Output" -> Line(Word("print") \o Shown(s.value))
      [] s.k = "ExprStmt" -> Line(Shown(s.expr))
      [] s.k = "Escape" -> Line(Word("escape"))
      [] s.k = "Continue" -> Line(Word("continue"))
      [] OTHER -> <<>>
EmitBody(stmts) == FlattenSeq([i \in DOMAIN stmts |-> Emit(stmts[i])])

\* unparse, of a function, from its body on.
Unparse(body) == EmitBody(body) \o Line(Word("end") \o Word("function")) \o EndOfFile
=============================================================================
