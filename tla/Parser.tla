------------------------------- MODULE Parser --------------------------------
(***************************************************************************)
(* Compiler/AST Gen/token2ast.py: the body of a function, read from its    *)
(* tokens.  There is none between one statement and the next.              *)
(*                                                                         *)
(* P(x, ts) is what a function of the parser returns: what it read, and    *)
(* the tokens that are left.  A syntax error leaves Failed, of which       *)
(* nothing can be read.  What ULSyntax has no node for is left out.        *)
(***************************************************************************)
EXTENDS ULSyntax, Tokens

P(x, ts) == [x |-> x, rest |-> ts]
Failed == << <<"ERROR", "", FALSE>> >>

\* peek, check, match and expect.
AtEnd(ts) == Head(ts)[1] \in {"EOF", "ERROR"}
SeesAny(ts, words) == Head(ts)[1] = "WORD" /\ Head(ts)[2] \in words
Sees(ts, word) == SeesAny(ts, {word})
SeesKind(ts, kind) == Head(ts)[1] = kind
Expect(p, word) == P(p.x, IF Sees(p.rest, word) THEN Tail(p.rest) ELSE Failed)
Name(ts) == IF SeesKind(ts, "IDENT") THEN P(Head(ts)[2], Tail(ts)) ELSE P(NoName, Failed)
Close(p, word) == Expect(Expect(p, "end"), word)

-----------------------------------------------------------------------------
\* The operators, from those that bind least; parse_not stands between "and" and the
\* bitwise ones.
Precedence == << {"|>"}, {"or"}, {"and"}, {"not"}, {"either1"}, {"diff"}, {"both1"},
                 {"==", "!=", "<", ">", "<=", ">=", "in"}, {"left", "right"}, {"+", "-"}, {"*", "/", "%"} >>

TypeWords == {"int", "bool", "string", "float", "auto", "array"}

RECURSIVE ParseLevel(_, _), Operations(_, _), ParseUnary(_), Postfixes(_), ListFrom(_, _, _)
ParseExpr(ts) == ParseLevel(1, ts)

\* parse_type: the type of an element is left out.
ParseType(ts) ==
    IF ~SeesAny(ts, TypeWords) THEN P(NoName, Failed)
    ELSE P(Head(ts)[2], IF Sees(ts, "array") THEN Tail(Tail(ts)) ELSE Tail(ts))

\* Mutant: operators of a level are grouped from the right.
OperationsRight(i, left) ==
    IF ~SeesAny(left.rest, Precedence[i]) THEN left
    ELSE LET right == ParseLevel(i, Tail(left.rest))
         IN  P(Bin(Head(left.rest)[2], left.x, right.x), right.rest)
\* The loop that groups the operators of a level from the left.
Combined(i, left, right) == Operations(i, P(Bin(Head(left.rest)[2], left.x, right.x), right.rest))
Operations(i, left) ==
    IF SeesAny(left.rest, Precedence[i]) THEN Combined(i, left, ParseLevel(i + 1, Tail(left.rest))) ELSE left

Negation(p) == P(Not(p.x), p.rest)
ParseLevel(i, ts) ==
    IF i > Len(Precedence) THEN ParseUnary(ts)
    ELSE IF Precedence[i] # {"not"} THEN Operations(i, ParseLevel(i + 1, ts))
    ELSE IF Sees(ts, "not") THEN Negation(ParseLevel(i, Tail(ts)))
    ELSE ParseLevel(i + 1, ts)

\* Expressions up to a closing bracket; p is the next of them.
ListFrom(es, p, close) ==
    IF Sees(p.rest, ",") THEN ListFrom(Append(es, p.x), ParseExpr(Tail(p.rest)), close)
    ELSE Expect(P(Append(es, p.x), p.rest), close)
ParseList(ts, close) ==
    IF Sees(ts, close) THEN P(<<>>, Tail(ts)) ELSE ListFrom(<<>>, ParseExpr(ts), close)

\* [e, ...], and [e for x in range(...)].
CompRange(e, x, p) == Expect(P(Comp(e, x, Operands(p.x)), p.rest), "]")
CompIn(e, x) == CompRange(e, x.x, ParseExpr(Expect(x, "in").rest))
Elements(p) == P(Array(p.x), p.rest)
ArrayFrom(p) ==
    IF Sees(p.rest, "for") THEN CompIn(p.x, Name(Tail(p.rest))) ELSE Elements(ListFrom(<<>>, p, "]"))

ParsePrimary(ts) ==
    CASE SeesKind(ts, "INT") -> P(Int_(Head(ts)[2]), Tail(ts))
      [] SeesKind(ts, "IDENT") \/ SeesAny(ts, Callable) -> P(Id(Head(ts)[2]), Tail(ts))
      [] Sees(ts, "(") -> Expect(ParseExpr(Tail(ts)), ")")
      [] Sees(ts, "[") ->
            IF Sees(Tail(ts), "]") THEN P(Array(<<>>), Tail(Tail(ts))) ELSE ArrayFrom(ParseExpr(Tail(ts)))
      [] OTHER -> P(NoValue, Failed)

\* cast(e, type), size(e), and a call; of what is not a name, it is a call of __expr__.
CastType(e, t) == Expect(P(Cast(e, t.x), t.rest), ")")
CastTo(p) == CastType(p.x, ParseType(Expect(p, ",").rest))
SizeOf(p) == Expect(P(Call("size", <<p.x>>), p.rest), ")")
CallOf(f, p) == P(Call(f, p.x), p.rest)
Called(e, ts) ==
    CASE e.k = "Id" /\ e.name = "cast" -> CastTo(ParseExpr(ts))
      [] e.k = "Id" /\ e.name = "size" -> SizeOf(ParseExpr(ts))
      [] OTHER -> CallOf(IF e.k = "Id" THEN e.name ELSE "__expr__", ParseList(ts, ")"))
Indexed(e, p) == Expect(P(Index(e, p.x), p.rest), "]")
Arrow(e, p) == P(Cast(e, p.x), p.rest)

Postfixes(p) ==
    CASE Sees(p.rest, "(") -> Postfixes(Called(p.x, Tail(p.rest)))
      [] Sees(p.rest, "[") -> Postfixes(Indexed(p.x, ParseExpr(Tail(p.rest))))
      [] Sees(p.rest, "->") -> Postfixes(Arrow(p.x, ParseType(Tail(p.rest))))
      [] Sees(p.rest, "++") -> Postfixes(P(Post(p.x, 1), Tail(p.rest)))
      [] Sees(p.rest, "--") -> Postfixes(P(Post(p.x, -1), Tail(p.rest)))
      [] Sees(p.rest, "?") -> Postfixes(P(Prop(p.x), Tail(p.rest)))
      [] OTHER -> p
ParsePostfix(ts) == Postfixes(ParsePrimary(ts))

Negative(p) == P(Neg(p.x), p.rest)
ParseUnary(ts) == IF Sees(ts, "-") THEN Negative(ParseUnary(Tail(ts))) ELSE ParsePostfix(ts)

-----------------------------------------------------------------------------
RECURSIVE ParseStatement(_), ParseBody(_, _), ParseIf(_), ParseCases(_, _), CaseBody(_), ParseHandlers(_, _)

\* parse_body: statements up to "end" or "else".
Stops == {"end", "else"}
Before(s, p) == P(<<s>> \o p.x, p.rest)
BodyFrom(s, stops) == Before(s.x, ParseBody(s.rest, stops))
ParseBody(ts, stops) ==
    IF AtEnd(ts) \/ SeesAny(ts, stops) THEN P(<<>>, ts) ELSE BodyFrom(ParseStatement(ts), stops)

\* if; "else if" on one line has one "end if".
IfElse(c, then, p) == Close(P(If(c, then, p.x), p.rest), "if")
IfChained(c, then, p) == P(If(c, then, <<p.x>>), p.rest)
IfThen(c, p) ==
    IF ~Sees(p.rest, "else") THEN IfElse(c, p.x, P(<<>>, p.rest))
    ELSE IF Sees(Tail(p.rest), "if") /\ ~p.rest[2][3] THEN IfChained(c, p.x, ParseIf(Tail(p.rest)))
    ELSE IfElse(c, p.x, ParseBody(Tail(p.rest), Stops))
IfCond(c) == IfThen(c.x, ParseBody(c.rest, Stops))
ParseIf(ts) == IfCond(ParseExpr(Tail(ts)))

\* while; with "do" it ends with "end do".
WhileBody(c, p, word) == Close(P(While(c, p.x), p.rest), word)
WhileCond(c) ==
    IF Sees(c.rest, "do") THEN WhileBody(c.x, ParseBody(Tail(c.rest), Stops), "do")
    ELSE WhileBody(c.x, ParseBody(c.rest, Stops), "while")

\* do: any "while" ends the body.
DoCond(body, c) == Close(P(DoWhile(body, c.x), c.rest), "do")
DoBody(p) == DoCond(p.x, ParseExpr(Expect(p, "while").rest))

\* for each, and for with three parts, between which are "while" and "do", or commas.
EachBody(x, e, p) == Close(P(For(x, e, p.x), p.rest), "for")
EachIn(x, e) == EachBody(x, e.x, ParseBody(e.rest, Stops))
Each(x) == EachIn(x.x, ParseExpr(Expect(x, "in").rest))
ThreeBody(i, c, u, p) == Close(P(CFor(i, c, u, p.x), p.rest), "for")
ThreeUpdate(i, c, u) == ThreeBody(i, c, u.x, ParseBody(u.rest, Stops))
ThreeCond(i, c, word) == ThreeUpdate(i, c.x, ParseStatement(Expect(c, word).rest))
Three(i) ==
    CASE Sees(i.rest, "while") -> ThreeCond(i.x, ParseExpr(Tail(i.rest)), "do")
      [] Sees(i.rest, ",") -> ThreeCond(i.x, ParseExpr(Tail(i.rest)), ",")
      [] OTHER -> ThreeBody(i.x, Int_(1), NoValue, ParseBody(i.rest, Stops))
ParseFor(ts) ==
    IF Sees(ts, "each") THEN Each(Name(Tail(ts))) ELSE Three(ParseStatement(ts))

\* match: a case begins where a literal stands that begins no statement.
IsCaseStart(ts) == SeesKind(ts, "INT") \/ (Sees(ts, "-") /\ SeesKind(Tail(ts), "INT"))
CaseFrom(s) == Before(s.x, CaseBody(s.rest))
CaseBody(ts) ==
    IF AtEnd(ts) \/ SeesAny(ts, {"end", "default"}) \/ IsCaseStart(ts) THEN P(<<>>, ts)
    ELSE CaseFrom(ParseStatement(ts))
PastColon(ts) == IF Sees(ts, ":") THEN Tail(ts) ELSE ts
WithDefault(m, p) == ParseCases([m EXCEPT !.default = p.x], p.rest)
WithCase(m, e, p) == ParseCases([m EXCEPT !.cases = Append(@, <<e, p.x>>)], p.rest)
CaseValue(m, e) == WithCase(m, e.x, CaseBody(PastColon(e.rest)))
ParseCases(m, ts) ==
    IF AtEnd(ts) \/ Sees(ts, "end") THEN Close(P(m, ts), "match")
    ELSE IF Sees(ts, "default") THEN WithDefault(m, CaseBody(PastColon(Tail(ts))))
    ELSE CaseValue(m, ParseExpr(ts))
\* The subject has no operator outside of brackets.
Subject(p) == ParseCases(Match(p.x, <<>>, <<>>), p.rest)

\* return; what follows a bracket that closes is not part of the value.
Result(p) == P(Return(p.x), p.rest)
OkOf(p) == P(Return(Ok(p.x)), p.rest)
ErrorOf(p) == P(Return(Error(p.x)), p.rest)
ParseReturn(ts) ==
    CASE Sees(ts, "ok") -> OkOf(ParseExpr(Tail(ts)))
      [] Sees(ts, "error") -> ErrorOf(ParseExpr(Tail(ts)))
      [] AtEnd(ts) \/ SeesAny(ts, Stops) -> P(Return(NoValue), ts)
      [] Sees(ts, "(") -> Result(Expect(ParseExpr(Tail(ts)), ")"))
      [] OTHER -> Result(ParseExpr(ts))

\* catch(Type name), catch as name, catch Type as name, catch Type, catch: whether there
\* is a type is seen from the next token alone.
Caught(type, x) == P(<<type, x.x>>, x.rest)
CatchAs(type, ts) == Caught(type, IF Sees(ts, "as") THEN Name(Tail(ts)) ELSE P(NoName, ts))
CatchIn(type, p) == Expect(P(<<type, p.x>>, p.rest), ")")
CatchType(t) == IF SeesKind(t.rest, "IDENT") THEN CatchIn(t.x, Name(t.rest)) ELSE CatchIn(t.x, P(NoName, t.rest))
CatchHead(ts) ==
    CASE Sees(ts, "(") -> CatchType(Name(Tail(ts)))
      [] SeesKind(ts, "IDENT") -> CatchAs(Head(ts)[2], Tail(ts))
      [] OTHER -> CatchAs(NoName, ts)

TryStops == Stops \cup {"catch", "finally"}
Finally(t, p) == Close(P([t EXCEPT !.finally = p.x], p.rest), "try")
HandlerBody(t, h, p) == ParseHandlers([t EXCEPT !.handlers = Append(@, h \o <<p.x>>)], p.rest)
Handler(t, h) == HandlerBody(t, h.x, ParseBody(h.rest, TryStops))
ParseHandlers(t, ts) ==
    IF Sees(ts, "catch") THEN Handler(t, CatchHead(Tail(ts)))
    ELSE IF Sees(ts, "finally") THEN Finally(t, ParseBody(Tail(ts), Stops))
    ELSE Finally(t, P(<<>>, ts))
TryBody(p) == ParseHandlers(Try(p.x, <<>>, <<>>), p.rest)

Message(t, e) == P(Throw(t, e.x), e.rest)
ParseThrow(t) == Message(t.x, ParseExpr(t.rest))

DeclInit(type, x, e) == P(IF type = "auto" THEN Auto(x, e.x) ELSE Decl(x, e.x), e.rest)
DeclName(type, x) ==
    DeclInit(type, x.x, IF Sees(x.rest, "=") THEN ParseExpr(Tail(x.rest)) ELSE P(NoValue, x.rest))
ParseVarDecl(t) == DeclName(t.x, Name(t.rest))

\* parse_assign_or_expr.
AssignOps == {"=", "+=", "-=", "*=", "/=", "%=", "left=", "right="}
Assigned(target, o, e) == P(Assign(target, o, e.x), e.rest)
AssignOrExpr(e) ==
    IF SeesAny(e.rest, AssignOps) THEN Assigned(e.x, Head(e.rest)[2], ParseExpr(Tail(e.rest)))
    ELSE P(ExprStmt(e.x), e.rest)

Printed(e) == P(Output(e.x), e.rest)
ParseStatement(ts) ==
    CASE Sees(ts, "@norm") -> P(Norm(ts[2][2]), Tail(Tail(ts)))
      [] Sees(ts, "if") -> ParseIf(ts)
      [] Sees(ts, "while") -> WhileCond(ParseExpr(Tail(ts)))
      [] Sees(ts, "do") -> DoBody(ParseBody(Tail(ts), Stops \cup {"while"}))
      [] Sees(ts, "for") -> ParseFor(Tail(ts))
      [] Sees(ts, "match") -> Subject(ParsePostfix(Tail(ts)))
      [] Sees(ts, "return") -> ParseReturn(Tail(ts))
      [] Sees(ts, "print") -> Printed(ParseExpr(Tail(ts)))
      [] Sees(ts, "escape") -> P(Escape, Tail(ts))
      [] Sees(ts, "continue") -> P(Continue, Tail(ts))
      [] Sees(ts, "try") -> TryBody(ParseBody(Tail(ts), TryStops))
      [] SeesAny(ts, {"throw", "error"}) -> ParseThrow(Name(Tail(ts)))
      [] SeesAny(ts, TypeWords) -> ParseVarDecl(ParseType(ts))
      [] OTHER -> AssignOrExpr(ParseExpr(ts))

\* parse_function, from its body on; nothing may follow.
Function(ts) == Close(ParseBody(ts, Stops), "function")
Parse(ts) == IF AtEnd(Function(ts).rest) THEN Function(ts) ELSE P(<<>>, Failed)
IsSource(p) == SeesKind(p.rest, "EOF")
=============================================================================
