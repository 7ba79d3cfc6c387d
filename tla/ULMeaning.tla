----------------------------- MODULE ULMeaning ------------------------------
(***************************************************************************)
(* What a function body means, whatever it is compiled to: operands are    *)
(* evaluated from left to right and once, "and" and "or" stop early, "/"   *)
(* and "%" round towards zero, a range is fixed when its loop begins, an   *)
(* array is read as its loop goes on, a variable belongs to the block that *)
(* declares it (as in semcheck.py), "escape" leaves the innermost loop and *)
(* "continue" goes on with its next element, "e?" returns the error of e,  *)
(* and finally is always run.                                              *)
(*                                                                         *)
(* A state m has the blocks of variables in env, the innermost first; what *)
(* was put out so far (prints, and calls with their arguments); in flow    *)
(* how the last statement ended: "stuck" if it has no meaning, "unbound"   *)
(* if a name has none, and "loops" if it went on for too long; the value   *)
(* returned; and the exception thrown.                                     *)
(*                                                                         *)
(* Some nodes are only of the languages that UniLogic is translated to     *)
(* (ULSyntax).  In C, jmps counts the jump buffers that are pushed,        *)
(* and keeps says whether a variable keeps the value it got after setjmp,  *)
(* which the language leaves open.                                         *)
(***************************************************************************)
EXTENDS ULSyntax, TLC

MaxRounds == 12   \* bound on the rounds of the loops that may not end

Truth(b) == IF b THEN 1 ELSE 0
Abs(x) == IF x < 0 THEN -x ELSE x
Quotient(x, y) == IF (x < 0) = (y < 0) THEN Abs(x) \div Abs(y) ELSE -(Abs(x) \div Abs(y))

\* "//" and "%%" round downwards; "&&" and "||" have the value of an operand; "&" and
\* "|" evaluate both; and those with a 1 are of single bits, 1 being the lesser.
Operate(o, x, y) ==
    CASE o = "+" -> x + y [] o = "-" -> x - y
      [] o = "<" -> Truth(x < y) [] o = "==" -> Truth(x = y)
      [] o = "/" -> Quotient(x, y) [] o = "%" -> x - y * Quotient(x, y)
      [] o = "//" -> IF y > 0 THEN x \div y ELSE (-x) \div (-y)
      [] o = "%%" -> IF y > 0 THEN x % y ELSE -((-x) % (-y))
      [] o = "and" -> Truth(x # 0 /\ y # 0) [] o = "or" -> Truth(x # 0 \/ y # 0)
      [] o \in {"&&", "||"} -> y
      [] o = "&" -> Truth(x # 0 /\ y # 0) [] o = "|" -> Truth(x # 0 \/ y # 0)
      [] o = "+1" -> (x + y) % 2 [] o = "-1" -> (x - y) % 2 [] o = "<1" -> Truth(x > y)

\* What the called functions return; calling one can be seen.  fallible returns a
\* result and risky throws, each depending on its argument.
RECURSIVE Apply(_)
Apply(args) == IF args = <<>> THEN 1 ELSE 2 * Head(args) + Apply(Tail(args))
Result(ok, v) == [ok |-> ok, v |-> v]

\* The integers of range(a, b) and range(a, b, step).
RangeOf(vs) ==
    LET from == IF Len(vs) = 1 THEN 0 ELSE vs[1]
        to == IF Len(vs) = 1 THEN vs[1] ELSE vs[2]
        step == IF Len(vs) >= 3 THEN vs[3] ELSE 1
        n == CASE step > 0 /\ from < to -> (to - from + step - 1) \div step
               [] step < 0 /\ from > to -> (from - to - step - 1) \div (-step)
               [] OTHER -> 0
    IN  [i \in 1..n |-> from + (i - 1) * step]

Value(v, m) == [v |-> v, m |-> m]
Put(m, what) == [m EXCEPT !.out = Append(@, what)]
\* How an expression or a statement ends when it does not just go on.
Ends(m, how) == [m EXCEPT !.flow = how]
Raise(m, type, v) == [m EXCEPT !.flow = "throw", !.exc = <<type, v>>]
Returns(m, v) == [m EXCEPT !.flow = "return", !.ret = v]

\* A block of variables; where functions are the only blocks, it is the function's.
Enter(m) == IF m.blocks THEN [m EXCEPT !.env = <<(<<>>)>> \o @] ELSE m
Leave(m) == IF m.blocks THEN [m EXCEPT !.env = Tail(@)] ELSE m
\* A comprehension is a block of its own everywhere.
Inside(m) == [m EXCEPT !.env = <<(<<>>)>> \o @]
Bound(m, x) == \E i \in DOMAIN m.env : x \in DOMAIN m.env[i]
BlockOf(m, x) ==
    CHOOSE i \in DOMAIN m.env : x \in DOMAIN m.env[i] /\ \A j \in 1..(i - 1) : x \notin DOMAIN m.env[j]
Get(m, x) == m.env[BlockOf(m, x)][x]
Declare(m, x, v) == [m EXCEPT !.env[1] = (x :> v) @@ @]
Set(m, x, v) ==
    IF ~Bound(m, x) THEN Ends(m, "unbound")
    ELSE IF x \in m.fixed THEN Raise(m, "TypeError", 0)
    ELSE [m EXCEPT !.env[BlockOf(m, x)][x] = v]

\* An element of an array; one that is not there is 0, and stays so.
Element(a, i) == IF i + 1 \in DOMAIN a THEN a[i + 1] ELSE 0
Stored(a, i, v) == IF i + 1 \in DOMAIN a THEN [a EXCEPT ![i + 1] = v] ELSE a
Store(m, x, i, v) == Set(m, x, Stored(Get(m, x), i, v))

-----------------------------------------------------------------------------
\* A value made of the values of the operands.
Called(e, args, m) ==
    CASE e.fn = "fallible" -> Value(Result(args[1] % 2 = 0, args[1] + 1), m)
      [] e.fn = "risky" -> Value(0, IF args[1] % 2 = 0 THEN m ELSE Raise(m, "E", args[1]))
      [] OTHER -> Value(Apply(args), m)

Unwrap(r, m) == IF r.ok THEN Value(r.v, m) ELSE Value(0, Returns(m, r))

Combine(e, vs, m) ==
    CASE e.k \in {"Neg", "Not"} -> Value(IF e.k = "Neg" THEN -vs[1] ELSE Truth(vs[1] = 0), m)
      [] e.k = "Cast" -> Value(IF e.type = "bool" THEN Truth(vs[1] # 0) ELSE vs[1], m)
      [] e.k = "Bin" -> IF e.op \in {"/", "%", "//", "%%"} /\ vs[2] = 0 THEN Value(0, Ends(m, "stuck"))
                        ELSE Value(Operate(e.op, vs[1], vs[2]), m)
      [] IsChange(e) -> Value(vs[1], m)
      [] e.k = "Call" /\ ~IsChange(e) -> Called(e, vs, Put(m, <<"call", e.fn, vs>>))
      [] e.k = "Index" -> Value(Element(vs[1], vs[2]), m)
      [] e.k = "Array" -> Value(vs, m)
      [] e.k \in {"Ok", "Error"} -> Value(Result(e.k = "Ok", vs[1]), m)
      [] e.k = "Prop" -> Unwrap(vs[1], m)
      [] e.k = "IsOk" -> Value(Truth(vs[1].ok), m)
      [] e.k = "Payload" -> Value(vs[1].v, m)
      [] e.k = "LowBit" -> Value(vs[1] % 2, m)
      [] e.k = "Both" -> Value(vs[1], m)
      [] e.k = "Size" -> Value(Len(vs[1]), m)
      [] e.k = "NewArray" -> Value([i \in 1..vs[1] |-> 0], m)
      [] OTHER -> Value(0, Ends(m, "stuck"))

Stops(e, v) == \/ e.op \in {"and", "&&"} /\ v = 0
               \/ e.op \in {"or", "||"} /\ v # 0
Logical == {"and", "or", "&&", "||"}

RECURSIVE Eval(_, _), EvalAll(_, _), Collect(_, _, _)

Joined(v, t) == Value(<<v>> \o t.v, t.m)
EvalRest(h, es) == Joined(h.v, EvalAll(es, h.m))
EvalAll(es, m) ==
    IF es = <<>> \/ m.flow # "go" THEN Value(<<>>, m) ELSE EvalRest(Eval(Head(es), m), Tail(es))

\* The value of a comprehension, for each of the values vs of its variable.
CollectRest(e, vs, h) == Joined(h.v, Collect(e, vs, h.m))
Collect(e, vs, m) ==
    IF vs = <<>> \/ m.flow # "go" THEN Value(<<>>, m)
    ELSE CollectRest(e, Tail(vs), Eval(e.expr, Declare(m, e.var, Head(vs))))
Outside(x) == [x EXCEPT !.m.env = Tail(@)]

\* An operand that evaluation stopped at leaves the expression without a value.
Finish(e, a) == IF a.m.flow = "go" THEN Combine(e, a.v, a.m) ELSE Value(0, a.m)
ShortCircuit(e, x) ==
    IF x.m.flow = "go" /\ Stops(e, x.v)
    THEN Value(IF e.op \in {"and", "or"} THEN Truth(x.v # 0) ELSE x.v, x.m)
    ELSE Finish(e, Joined(x.v, EvalAll(<<e.right>>, x.m)))
PostElement(e, x, i) ==
    IF i.m.flow # "go" THEN Value(0, i.m)
    ELSE Value(Element(Get(i.m, x), i.v[1]), Store(i.m, x, i.v[1], Element(Get(i.m, x), i.v[1]) + e.by))
CollectFrom(e, r) ==
    IF r.m.flow # "go" THEN r ELSE Outside(Collect(e, RangeOf(r.v), Inside(r.m)))

Eval(e, m) ==
    CASE e.k = "Int" -> Value(e.value, m)
      [] e.k = "Id" -> IF Bound(m, e.name) THEN Value(Get(m, e.name), m) ELSE Value(0, Ends(m, "unbound"))
      [] e.k = "Bin" /\ e.op \in Logical -> ShortCircuit(e, Eval(e.left, m))
      [] e.k = "Comp" -> CollectFrom(e, EvalAll(e.range, m))
      [] e.k = "Post" /\ e.operand.k = "Id" ->
            IF ~Bound(m, e.operand.name) THEN Value(0, Ends(m, "unbound"))
            ELSE Value(Get(m, e.operand.name), Set(m, e.operand.name, Get(m, e.operand.name) + e.by))
      [] e.k = "Post" /\ e.operand.k = "Index" ->
            PostElement(e, e.operand.target.name, EvalAll(<<e.operand.index>>, m))
      [] OTHER -> Finish(e, EvalAll(Operands(e), m))

-----------------------------------------------------------------------------
RECURSIVE Run(_, _), RunStmt(_, _), RunWhile(_, _), RunDoWhile(_, _), RunFor(_, _, _), RunCFor(_, _),
          RunCases(_, _, _)

Run(stmts, m) ==
    IF stmts = <<>> \/ m.flow # "go" THEN m ELSE Run(Tail(stmts), RunStmt(Head(stmts), m))
RunBlock(stmts, m) == Leave(Run(stmts, Enter(m)))

\* A loop goes on after its body, unless the body left it some other way.
Resume(m) == IF m.flow = "continue" THEN Ends(m, "go") ELSE m
Escaped(m) == IF m.flow = "escape" THEN Ends(m, "go") ELSE m

\* Loops that may not end are given up after some rounds.
Round(m) == IF m.rounds = MaxRounds THEN Ends(m, "loops") ELSE [m EXCEPT !.rounds = @ + 1]

WhileRound(s, b) == IF b.flow = "go" THEN RunWhile(s, b) ELSE Escaped(b)
WhileBody(s, c) ==
    IF c.m.flow # "go" \/ c.v = 0 THEN c.m ELSE WhileRound(s, Resume(RunBlock(s.body, c.m)))
RunWhile(s, m) == WhileBody(s, Eval(s.cond, Round(m)))

DoWhileAgain(s, c) == IF c.m.flow # "go" \/ c.v = 0 THEN c.m ELSE RunDoWhile(s, c.m)
DoWhileRound(s, b) == IF b.flow = "go" THEN DoWhileAgain(s, Eval(s.cond, b)) ELSE Escaped(b)
RunDoWhile(s, m) == DoWhileRound(s, Resume(RunBlock(s.body, Round(m))))

CForRound(s, b) == IF b.flow = "go" THEN RunCFor(s, RunStmt(s.update, b)) ELSE Escaped(b)
CForBody(s, c) ==
    IF c.m.flow # "go" \/ c.v = 0 THEN c.m ELSE CForRound(s, Resume(RunBlock(s.body, c.m)))
RunCFor(s, m) == CForBody(s, Eval(s.cond, Round(m)))

\* For each of the values vs; those of an array variable are its indices, and the
\* elements are read as the loop gets to them.
Item(s, v, m) == IF s.iterable.k = "Id" THEN Element(Get(m, s.iterable.name), v) ELSE v
ForRound(s, vs, b) == IF b.flow = "go" THEN RunFor(s, vs, b) ELSE Escaped(b)
RunFor(s, vs, m) ==
    IF vs = <<>> THEN m
    ELSE ForRound(s, Tail(vs), Resume(Leave(Run(s.body, Declare(Enter(m), s.var, Item(s, Head(vs), m))))))
RunForConst(s, m) ==
    [RunFor(s, m.v, [m.m EXCEPT !.fixed = @ \cup {s.var}]) EXCEPT !.fixed = m.m.fixed]
ForEach(s, r) ==
    IF r.m.flow # "go" THEN r.m ELSE IF s.k = "ForConst" THEN RunForConst(s, r) ELSE RunFor(s, r.v, r.m)
Iterated(s, x) ==
    [x EXCEPT !.v = IF x.m.flow # "go" THEN <<>>
                    ELSE IF IsRange(s.iterable) THEN RangeOf(@)
                    ELSE IF s.iterable.k = "Id" THEN [i \in 1..Len(@) |-> i - 1] ELSE @]

CaseOr(s, v, c) ==
    IF c.m.flow # "go" THEN c.m
    ELSE IF c.v = v THEN RunBlock(Head(s.cases)[2], c.m)
    ELSE RunCases([s EXCEPT !.cases = Tail(@)], v, c.m)
RunCases(s, v, m) ==
    IF s.cases = <<>> THEN RunBlock(s.default, m) ELSE CaseOr(s, v, Eval(Head(s.cases)[1], m))
RunMatch(s, x) == IF x.m.flow = "go" THEN RunCases(s, x.v, x.m) ELSE x.m

\* The first handler that takes the exception; and finally, which keeps what was going
\* on unless it ends in some other way itself.
Takes(h, m) == h[1] \in {NoName, m.exc[1]}
Bind(h, m) == IF h[2] = NoName THEN m ELSE Declare(m, h[2], m.exc[2])
RECURSIVE Handle(_, _)
Handle(hs, m) ==
    IF hs = <<>> \/ m.flow # "throw" THEN m
    ELSE IF Takes(Head(hs), m) THEN Leave(Run(Head(hs)[3], Bind(Head(hs), Enter(Ends(m, "go")))))
    ELSE Handle(Tail(hs), m)
Pending(h, f) == IF f.flow = "go" THEN [f EXCEPT !.flow = h.flow, !.exc = h.exc, !.ret = h.ret] ELSE f
Finally(s, h) == IF h.flow \in {"stuck", "unbound", "loops"} THEN h ELSE Pending(h, RunBlock(s.finally, Ends(h, "go")))

\* The try block of C.  A throw goes to the buffer on top of the stack; that of a block
\* that was left by return, escape or continue is still there.  The finally statements
\* just follow.
Follow(s, h) == IF h.flow = "go" THEN RunBlock(s.finally, h) ELSE h
Longjmp(s, before, m) ==
    IF m.jmps # before.jmps + 1 THEN Ends(m, "stuck")
    ELSE Handle(s.handlers, [m EXCEPT !.jmps = before.jmps, !.env = IF m.keeps THEN @ ELSE before.env,
                                      !.flow = IF s.handlers = <<>> THEN "go" ELSE @])
Jumped(s, before, m) ==
    CASE m.flow = "go" -> Follow(s, [m EXCEPT !.jmps = @ - 1])
      [] m.flow = "throw" -> Follow(s, Longjmp(s, before, m))
      [] OTHER -> m

Combined(o, old, v) == CASE o = "=" -> v [] o = "+=" -> old + v [] o = "-=" -> old - v
AssignElement(s, a, x, i) ==
    IF i.m.flow # "go" THEN i.m
    ELSE Store(i.m, a, i.v[1], Combined(s.op, Element(Get(i.m, a), i.v[1]), x))
RunAssign(s, x) ==
    CASE s.target.k = "Index" -> AssignElement(s, s.target.target.name, x.v, EvalAll(<<s.target.index>>, x.m))
      [] s.target.k = "Id" /\ ~Bound(x.m, s.target.name) -> Ends(x.m, "unbound")
      [] OTHER -> Set(x.m, s.target.name, Combined(s.op, Get(x.m, s.target.name), x.v))

Printed(x) ==
    IF x.m.flow # "go" THEN x.m ELSE Put(x.m, IF Len(x.v) = 1 THEN <<"print", x.v[1]>> ELSE <<"prints", x.v>>)

\* A statement that evaluates one expression first, once it has.
After(s, x) ==
    IF x.m.flow # "go" THEN x.m
    ELSE CASE s.k = "Decl" -> Declare(x.m, s.var, x.v)
           [] s.k = "Assign" -> RunAssign(s, x)
           [] s.k = "ExprStmt" -> x.m
           [] s.k = "Output" -> Put(x.m, <<"print", x.v>>)
           [] s.k = "Return" -> Returns(x.m, x.v)
           [] s.k = "If" -> RunBlock(IF x.v # 0 THEN s.then ELSE s.else, x.m)
           [] s.k = "Throw" -> Raise(x.m, s.type, x.v)
           [] s.k = "Match" -> RunMatch(s, x)
           [] s.k = "Switch" -> Escaped(RunMatch(s, x))

RunStmt(s, m) ==
    CASE s.k \in {"Decl", "Assign", "ExprStmt", "Output", "Return", "If", "Throw", "Match", "Switch"} ->
            After(s, Eval(IF s.k \in {"Match", "Switch"} THEN s.subject ELSE Last(Exprs(s)), m))
      [] s.k = "While" -> RunWhile(s, m)
      [] s.k = "DoWhile" -> RunDoWhile(s, m)
      [] s.k = "CFor" -> Leave(RunCFor(s, RunStmt(s.init, Enter(m))))
      [] s.k \in {"For", "ForConst"} ->
            ForEach(s, Iterated(s, IF IsRange(s.iterable) THEN EvalAll(s.iterable.args, m) ELSE Eval(s.iterable, m)))
      [] s.k = "Try" -> Finally(s, Handle(s.handlers, RunBlock(s.body, m)))
      [] s.k = "SetJmp" -> Jumped(s, m, RunBlock(s.body, [m EXCEPT !.jmps = @ + 1]))
      [] s.k \in {"Escape", "Continue"} -> Ends(m, IF s.k = "Escape" THEN "escape" ELSE "continue")
      [] s.k = "Printf" -> Printed(EvalAll(s.values, m))
      [] s.k = "Norm" -> m
      [] OTHER -> Ends(m, "stuck")

\* The state in which a function begins, with blocks or without.
Begin(env, blocks) ==
    [env |-> <<env>>, out |-> <<>>, flow |-> "go", ret |-> 0, exc |-> <<NoName, 0>>,
     fixed |-> {}, blocks |-> blocks, rounds |-> 0, jmps |-> 0, keeps |-> TRUE]
\* All that one can see of a run: what it put out, and how it ended.
Shown(m) ==
    m.out \o CASE m.flow = "return" -> << <<"return", m.ret>> >>
               [] m.flow = "throw" -> IF m.jmps = 0 THEN << <<"uncaught", m.exc>> >> ELSE << <<"stuck">> >>
               [] m.flow \in {"stuck", "unbound", "loops"} -> << <<m.flow>> >>
               [] OTHER -> <<>>

\* What a body puts out, from these values of the variables.
Meaning(stmts, env) == Shown(Run(stmts, Begin(env, TRUE)))

\* The same output, up to the order of the calls between two other outputs: the
\* order of the calls in one statement is left open, as it is in C.
Same(o, p) ==
    LET times(q, what, i) == Len(SelectSeq(SubSeq(q, 1, i), LAMBDA w : w = what))
        fixed(i) == o[i][1] # "call" \/ p[i][1] # "call"
    IN  /\ Len(o) = Len(p)
        /\ \A i \in DOMAIN o : fixed(i) => o[i] = p[i]
        /\ \A i \in DOMAIN o : fixed(i) \/ i = Len(o) =>
               \A j \in 1..i : times(o, o[j], i) = times(p, o[j], i)
=============================================================================
