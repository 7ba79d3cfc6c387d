------------------------------ MODULE SemCheck ------------------------------
(***************************************************************************)
(* Compiler/Semantic/semcheck.py, of a function body: the scopes of names  *)
(* and the numbers of arguments.  own are the names of the innermost scope *)
(* (Scope.vars), outer those of the scopes around it, which lookup goes    *)
(* through.                                                                *)
(***************************************************************************)
EXTENDS ULSyntax

CONSTANT Functions   \* the declared functions: from names to numbers of parameters

Builtins == {"range", "size", "change"}

\* check_expr, where these names are visible.
RECURSIVE ExprOK(_, _)
ExprOK(e, names) ==
    CASE e.k = "Id" -> e.name \in names \cup DOMAIN Functions
      [] e.k = "Comp" -> /\ \A i \in DOMAIN e.range : ExprOK(e.range[i], names)
                         /\ ExprOK(e.expr, names \cup {e.var})
      [] e.k = "Call" -> /\ e.fn \in DOMAIN Functions \cup Builtins
                         /\ e.fn \in DOMAIN Functions => Len(e.args) = Functions[e.fn]
                         /\ \A i \in DOMAIN e.args : ExprOK(e.args[i], names)
      [] OTHER -> \A i \in DOMAIN Operands(e) : ExprOK(Operands(e)[i], names)

\* Mutant: so does the variable of a loop.
DeclaresLoops(s) == IF s.k \in {"Decl", "For"} THEN {s.var} ELSE {}

\* What a statement declares in the scope it is in (Scope.declare).
Declares(s) == IF s.k = "Decl" THEN {s.var} ELSE {}

RECURSIVE StmtOK(_, _, _), BodyOK(_, _, _)

\* check_body: statement by statement; what follows a return is not looked at.
BodyOK(stmts, own, outer) ==
    \/ stmts = <<>>
    \/ /\ StmtOK(Head(stmts), own, outer)
       /\ \/ Head(stmts).k = "Return"
          \/ BodyOK(Tail(stmts), own \cup Declares(Head(stmts)), outer)

\* A block with a scope of its own, in which these names are declared first.
BlockOK(stmts, declared, own, outer) == BodyOK(stmts, declared, own \cup outer)

\* A for with three parts: all of it is one scope.
CForOK(s, names) ==
    /\ StmtOK(s.init, {}, names)
    /\ ExprOK(s.cond, Declares(s.init) \cup names)
    /\ StmtOK(s.update, Declares(s.init), names)
    /\ BodyOK(s.body, Declares(s.init) \cup Declares(s.update), names)

TryOK(s, own, outer) ==
    /\ BlockOK(s.body, {}, own, outer)
    /\ \A i \in DOMAIN s.handlers :
           BlockOK(s.handlers[i][3], {s.handlers[i][2]} \ {NoName}, own, outer)
    /\ BlockOK(s.finally, {}, own, outer)

\* check_stmt.
StmtOK(s, own, outer) ==
    CASE s.k = "CFor" -> CForOK(s, own \cup outer)
      [] s.k = "Try" -> TryOK(s, own, outer)
      [] s.k = "Assign" -> ExprOK(s.target, own \cup outer) /\ ExprOK(s.value, own \cup outer)
      [] OTHER ->
            /\ \A i \in DOMAIN Exprs(s) : ExprOK(Exprs(s)[i], own \cup outer)
            /\ s.k = "Decl" => s.var \notin own
            /\ \A i \in DOMAIN Bodies(s) :
                   BlockOK(Bodies(s)[i], IF s.k = "For" THEN {s.var} ELSE {}, own, outer)

\* _definitely_returns, which main has to.
RECURSIVE DefinitelyReturns(_)
\* Mutant: one branch is enough.
ReturningSometimes(s) ==
    \/ s.k = "Return"
    \/ s.k = "If" /\ (DefinitelyReturns(s.then) \/ DefinitelyReturns(s.else))
Returning(s) ==
    \/ s.k = "Return"
    \/ s.k = "If" /\ s.else # <<>> /\ DefinitelyReturns(s.then) /\ DefinitelyReturns(s.else)
    \/ /\ s.k = "Match" /\ s.default # <<>>
       /\ \A i \in DOMAIN Bodies(s) : DefinitelyReturns(Bodies(s)[i])
DefinitelyReturns(stmts) == \E i \in DOMAIN stmts : Returning(stmts[i])

\* check_function: the parameters are the names of the outermost scope.
Accepts(params, stmts) == BodyOK(stmts, params, {})
AcceptsMain(params, stmts) == Accepts(params, stmts) /\ DefinitelyReturns(stmts)
=============================================================================
