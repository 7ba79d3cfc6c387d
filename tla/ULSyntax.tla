------------------------------ MODULE ULSyntax ------------------------------
(***************************************************************************)
(* The part of the UniLogic syntax tree (ast_nodes.py) that the passes     *)
(* below treat node by node: integer expressions over local variables,     *)
(* calls, results, arrays and post-increments, and the statements of a     *)
(* function body.  Columns are left out.                                   *)
(***************************************************************************)
EXTENDS Integers, Sequences, SequencesExt

Int_(n) == [k |-> "Int", value |-> n]
Id(x) == [k |-> "Id", name |-> x]
Bin(o, l, r) == [k |-> "Bin", op |-> o, left |-> l, right |-> r]
Neg(e) == [k |-> "Neg", operand |-> e]
Not(e) == [k |-> "Not", operand |-> e]
Cast(e, type) == [k |-> "Cast", expr |-> e, type |-> type]
Call(f, args) == [k |-> "Call", fn |-> f, args |-> args]
Index(a, i) == [k |-> "Index", target |-> a, index |-> i]
Array(es) == [k |-> "Array", elements |-> es]
Comp(e, x, range) == [k |-> "Comp", expr |-> e, var |-> x, range |-> range]
\* PostIncrement (by 1) and PostDecrement (by -1).
Post(e, by) == [k |-> "Post", operand |-> e, by |-> by]

\* "ok e", "error e" and "e?", which unwraps a result or returns the error.
Ok(e) == [k |-> "Ok", value |-> e]
Error(e) == [k |-> "Error", value |-> e]
Prop(e) == [k |-> "Prop", expr |-> e]

Decl(x, e) == [k |-> "Decl", var |-> x, init |-> e]
\* A declaration of the normalizer, with the type auto.
Auto(x, e) == [k |-> "Decl", var |-> x, init |-> e, auto |-> TRUE]
Assign(target, o, e) == [k |-> "Assign", target |-> target, op |-> o, value |-> e]
ExprStmt(e) == [k |-> "ExprStmt", expr |-> e]
Output(e) == [k |-> "Output", value |-> e]
Return(e) == [k |-> "Return", value |-> e]
If(c, then, else) == [k |-> "If", cond |-> c, then |-> then, else |-> else]
While(c, body) == [k |-> "While", cond |-> c, body |-> body]
DoWhile(body, c) == [k |-> "DoWhile", body |-> body, cond |-> c]
\* for (init; c; update): the two are statements, init a declaration or an assignment.
CFor(init, c, update, body) ==
    [k |-> "CFor", init |-> init, cond |-> c, update |-> update, body |-> body]
For(x, iterable, body) == [k |-> "For", var |-> x, iterable |-> iterable, body |-> body]
\* cases are pairs <<value, body>>; the default case comes last.
Match(e, cases, default) == [k |-> "Match", subject |-> e, cases |-> cases, default |-> default]
Escape == [k |-> "Escape"]
Continue == [k |-> "Continue"]
\* handlers are triples <<type, binding, body>>, with NoName for no type (it catches
\* all) and for no binding; no finally is an empty one.
NoName == ""
Try(body, handlers, finally) ==
    [k |-> "Try", body |-> body, handlers |-> handlers, finally |-> finally]
Throw(type, e) == [k |-> "Throw", type |-> type, message |-> e]
Norm(level) == [k |-> "Norm", level |-> level]

\* A statement on a line, and a declaration of another type than int: said only where
\* it is looked at.
OnLine(line, s) == s @@ [line |-> line]
OfType(type, s) == s @@ [type |-> type]
LineOf(s) == IF "line" \in DOMAIN s THEN s.line ELSE 0
VarType(s) == IF "type" \in DOMAIN s THEN s.type ELSE "int"

\* change(e), from which "change(e)->type" is a cast.
Change(e) == Call("change", <<e>>)
IsChange(e) == e.k = "Call" /\ e.fn = "change" /\ Len(e.args) = 1
IsRange(e) == e.k = "Call" /\ e.fn = "range"
IsLiteral(e) == e.k = "Int" \/ (e.k = "Neg" /\ e.operand.k = "Int")

\* What only the programs have that UniLogic is translated to: whether a result is ok
\* and what it holds; e evaluated, and d after it; the length of an array; a switch,
\* which "escape" leaves; a loop with a constant for its variable; the try block of C;
\* the lowest bit of a number; several values printed as one; and what a compiler of
\* the target rejects.
IsOk(e) == [k |-> "IsOk", value |-> e]
Payload(e) == [k |-> "Payload", value |-> e]
Both(e, d) == [k |-> "Both", left |-> e, right |-> d]
Size(a) == [k |-> "Size", value |-> a]
NewArray_(e) == [k |-> "NewArray", value |-> e]
NoValue == [k |-> "NoValue"]
Switch(e, cases, default) ==
    [k |-> "Switch", subject |-> e, cases |-> cases, default |-> default]
ForConst(x, iterable, body) == [k |-> "ForConst", var |-> x, iterable |-> iterable, body |-> body]
SetJmp(body, handlers, finally) ==
    [k |-> "SetJmp", body |-> body, handlers |-> handlers, finally |-> finally]
LowBit(e) == [k |-> "LowBit", value |-> e]
Printf(es) == [k |-> "Printf", values |-> es]
Broken == [k |-> "Broken"]

-----------------------------------------------------------------------------
\* What an expression consists of, and which expressions a statement by itself
\* evaluates.
Operands(e) ==
    CASE e.k \in {"Bin", "Both"} -> <<e.left, e.right>>
      [] e.k \in {"Neg", "Not", "Post"} -> <<e.operand>>
      [] e.k \in {"Cast", "Prop"} -> <<e.expr>>
      [] e.k \in {"Ok", "Error", "IsOk", "Payload", "Size", "NewArray", "LowBit"} -> <<e.value>>
      [] e.k = "Call" -> e.args
      [] e.k = "Index" -> <<e.target, e.index>>
      [] e.k = "Array" -> e.elements
      [] e.k = "Comp" -> <<e.expr>> \o e.range
      [] OTHER -> <<>>

\* e with other operands.
WithOperands(e, es) ==
    CASE e.k = "Bin" -> [e EXCEPT !.left = es[1], !.right = es[2]]
      [] e.k \in {"Neg", "Not", "Post"} -> [e EXCEPT !.operand = es[1]]
      [] e.k \in {"Cast", "Prop"} -> [e EXCEPT !.expr = es[1]]
      [] e.k \in {"Ok", "Error"} -> [e EXCEPT !.value = es[1]]
      [] e.k = "Call" -> [e EXCEPT !.args = es]
      [] e.k = "Index" -> [e EXCEPT !.target = es[1], !.index = es[2]]
      [] e.k = "Array" -> [e EXCEPT !.elements = es]
      [] e.k = "Comp" -> [e EXCEPT !.expr = es[1], !.range = Tail(es)]
      [] OTHER -> e

RECURSIVE Nodes(_)
Nodes(e) == <<e>> \o FlattenSeq([i \in DOMAIN Operands(e) |-> Nodes(Operands(e)[i])])

Exprs(s) ==
    CASE s.k = "Decl" -> <<s.init>>
      [] s.k = "Assign" /\ s.op = "=" /\ s.target.k = "Id" -> <<s.value>>
      [] s.k = "Assign" /\ ~(s.op = "=" /\ s.target.k = "Id") -> <<s.target, s.value>>
      [] s.k = "ExprStmt" -> <<s.expr>>
      [] s.k \in {"Output", "Return"} -> <<s.value>>
      [] s.k \in {"If", "While", "DoWhile", "CFor"} -> <<s.cond>>
      [] s.k = "Throw" -> <<s.message>>
      [] s.k \in {"For", "ForConst"} -> <<s.iterable>>
      [] s.k \in {"Match", "Switch"} -> <<s.subject>> \o [i \in DOMAIN s.cases |-> s.cases[i][1]]
      [] OTHER -> <<>>

Bodies(s) ==
    CASE s.k = "If" -> <<s.then, s.else>>
      [] s.k \in {"While", "DoWhile", "For", "ForConst"} -> <<s.body>>
      [] s.k = "CFor" -> << <<s.init>>, s.body, <<s.update>> >>
      [] s.k \in {"Try", "SetJmp"} -> <<s.body>> \o [i \in DOMAIN s.handlers |-> s.handlers[i][3]] \o <<s.finally>>
      [] s.k \in {"Match", "Switch"} -> [i \in DOMAIN s.cases |-> s.cases[i][2]] \o <<s.default>>
      [] OTHER -> <<>>

\* The statements of a body, those inside other statements included.
RECURSIVE Statements(_)
Statements(body) ==
    UNION {{body[i]} \cup UNION {Statements(Bodies(body[i])[j]) : j \in DOMAIN Bodies(body[i])}
              : i \in DOMAIN body}

\* The nodes of the expressions in a statement by itself.
AllNodes(s) == FlattenSeq([i \in DOMAIN Exprs(s) |-> Nodes(Exprs(s)[i])])
=============================================================================
