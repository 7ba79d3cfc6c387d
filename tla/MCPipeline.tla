----------------------------- MODULE MCPipeline ------------------------------
(***************************************************************************)
(* Function bodies for Pipeline: expressions, loops of every kind around   *)
(* the statements that leave them, results, exceptions, and names in and   *)
(* out of their scopes.                                                    *)
(***************************************************************************)
EXTENDS Pipeline

One == Int_(1)
Two == Int_(2)
x == Id("x")
y == Id("y")
a == Id("a")
b == Id("b")
f(e) == Call("f", <<e>>)
Up == Assign(x, "+=", One)
RangeCall(es) == Call("range", es)
End == <<Output(x), Return(y)>>
Array_ == Decl("b", Array(<<Two, x, y>>))

\* Expressions of integers, and of truth values.
Ints == {One, x, Bin("-", x, y), Bin("+", x, Two), Bin("/", x, Two), Bin("%", Neg(y), Two), Bin("/", f(x), Neg(Two)),
         Neg(x), f(f(y)), Bin("-", Bin("-", x, y), One), Bin("-", x, Bin("-", y, One)), Bin("%", Bin("+", x, y), Two),
         Bin("-", Neg(Bin("-", x, y)), Bin("/", Bin("+", x, One), Two)), Neg(Neg(x)), Cast(Bin("<", x, y), "int"), Index(b, One), Post(x, 1), Post(Index(b, One), -1)}
Truths == {Bin("<", x, y), Bin("==", f(x), One), Not(Bin("<", y, x)), Bin("and", Bin("<", x, Two), Bin("==", f(y), One)),
           Bin("or", x, f(y)), Bin("and", Bin("or", x, y), Not(Bin("and", x, y))),
           Bin("==", Not(x), Bin("<", x, y)), Cast(y, "bool"), Bin("-", Bin("<", x, y), Bin("<", x, Two))}
Exprs_ ==
    {<<Array_, Output(e)>> \o End : e \in Ints \cup Truths}
      \cup {<<Array_, Decl("z", e), Output(Bin("/", Id("z"), Two)), Return(Id("z"))>> : e \in Ints}
      \cup {<<Array_, Assign(Index(b, e), o, f(x)), Return(Index(b, e))>> :
               e \in {One, Bin("-", Two, One)}, o \in {"=", "+="}}
      \cup {<<Assign(x, "=", Bin("+", e, f(d))), Return(x)>> : e, d \in {x, f(y), Post(x, -1)}}
      \cup {<<Decl("z", Comp(e, "c", es)), Output(Index(Id("z"), One)), Return(x)>> :
               e \in {Id("c"), f(Id("c")), Bin("+", Id("c"), x)}, es \in {<<Two>>, <<One, Int_(3)>>}}

\* Pairs of statements inside of loops and branches.
Simple == {Output(x), Up, Assign(y, "-=", One), ExprStmt(f(x)), ExprStmt(Post(y, -1)), Decl("z", f(y)),
           Escape, Continue, Return(x), Norm(2)}
Branch == {<<If(Bin("==", x, One), <<s>>, <<>>), t>> : s \in Simple, t \in {Output(y), Up, ExprStmt(Post(y, -1))}}
Around(body) ==
    {<<While(Bin("<", x, Two), <<Up>> \o body)>>,
     <<While(Bin("<", f(x), Int_(3)), <<Up>> \o body)>>,
     <<DoWhile(<<Up>> \o body, Bin("<", x, Two))>>,
     <<CFor(Decl("i", One), Bin("<", Id("i"), Int_(4)), Assign(Id("i"), "+=", One), body)>>,
     <<For("i", RangeCall(<<y>>), body \o <<Output(Id("i"))>>)>>,
     <<For("i", RangeCall(<<One, Int_(4), Two>>), body)>>,
     <<Array_, For("v", b, <<Output(Id("v"))>> \o body)>>,
     <<For("v", a, <<Output(Id("v"))>> \o body)>>,
     <<For("i", RangeCall(<<Int_(3)>>), <<Match(Id("i"), << <<One, body>> >>, <<Up>>)>>)>>,
     <<While(Bin("<", x, Two), <<Up, For("i", RangeCall(<<Two>>), body), Output(y)>>)>>}
Again(body) == {<<Array_, For("v", b, body), For("v", b, <<Output(Id("v"))>>)>>, <<For("i", RangeCall(<<Int_(3)>>), body)>>,
                <<For("i", RangeCall(<<f(y)>>), body), While(Bin("<", x, Two), <<Up, Match(x, << <<One, body>> >>, <<>>)>>)>>}
Loops ==
    UNION {{l \o End : l \in Around(body)} : body \in Branch}
      \cup {<<DoWhile(<<Up, If(Bin("==", x, One), <<Continue>>, <<>>), Output(x)>>, Bin("<", x, One))>> \o End}
      \cup UNION {{l \o End : l \in Again(<<s>>)} : s \in {Assign(Id("v"), "+=", One), Assign(Id("i"), "+=", One), Output(y), Up}}

Matches ==
    {<<Match(e, << <<c, s>>, <<d, <<Output(One)>> >> >>, t)>> \o End :
        e \in {x, f(x)}, c \in {Neg(One), x, f(y)}, d \in {Two, Neg(One), y},
        s \in {<<Output(x)>>, <<Return(y)>>, <<Decl("z", x), Output(Id("z"))>>}, t \in {<<>>, <<Output(y)>>}}

\* Results that are unwrapped or passed on.
Call1(fn, e) == Call(fn, <<e>>)
Unwrapped(e) == Prop(Call1("fallible", e))
Results ==
    {<<Decl("z", e), Output(Id("z")), Return(Ok(Id("z")))>> :
        e \in {Unwrapped(x), Bin("+", f(y), Unwrapped(x)), Bin("and", x, Unwrapped(y)), f(Unwrapped(f(x)))}}
      \cup {<<While(Bin("<", x, Two), <<Up, ExprStmt(Unwrapped(y))>>), Return(Ok(x))>>,
            <<While(Bin("<", Unwrapped(x), Two), <<Up>>), Return(Ok(x))>>,
            <<If(Bin("<", x, One), <<Return(Ok(x))>>, <<Return(Error(y))>>)>>,
            <<DoWhile(<<Up>>, Bin("<", Unwrapped(x), Two)), Return(Ok(x))>>}

\* Exceptions that are thrown, caught, passed on, and left behind.
Risky(e) == ExprStmt(Call1("risky", e))
Bodies_ == {<<Risky(x), Output(y)>>, <<Up, Risky(x), Return(y)>>, <<Up, Throw("F", f(x))>>, <<Return(x)>>}
Handlers == {<<>>, << <<"E", "m", <<Output(Id("m"))>> >> >>,
             << <<"F", NoName, <<Output(x)>> >>, <<NoName, "m", <<Throw("F", Id("m"))>> >> >>,
             << <<NoName, NoName, <<Output(y)>> >>, <<"E", "m", <<Up>> >> >>,
             << <<"F", "m", <<Up>> >>, <<NoName, NoName, <<Output(y)>> >>, <<"E", "m", <<Return(x)>> >> >>}
Tries == {Try(t, hs, fin) : t \in Bodies_, hs \in Handlers, fin \in {<<>>, <<Output(Two)>>}}
Exceptions ==
    {<<t>> \o End : t \in Tries}
      \cup {<<If(c, <<Throw("F", y)>>, <<>>)>> \o End : c \in {x, Bin("<", x, One)}}
      \cup {<<Try(<<t, Risky(One)>>, << <<"F", NoName, <<Output(One)>> >> >>, <<Up>>)>> \o End :
               t \in {r \in Tries : r.finally = <<>>}}
      \cup {<<While(Bin("<", x, Two), <<Up, Try(<<s>>, << <<NoName, NoName, <<Output(y)>> >> >>, <<Output(Two)>>)>>), Throw("F", x)>> :
               s \in {Escape, Continue, Risky(x)}}

\* Names that are declared here or there, and used here or there.
Z == Id("z")
Uses == {<<Output(Z)>>, <<Assign(Z, "+=", One)>>, <<Decl("z", Two), Output(Z)>>, <<For("z", RangeCall(<<Two>>), <<Output(Z)>>), Output(One)>>}
Scopes ==
    {<<d>> \o u \o End :
        u \in Uses,
        d \in {Decl("z", x), If(x, <<Decl("z", One)>>, <<Decl("z", Two)>>), For("z", RangeCall(<<Two>>), <<Output(Z)>>),
               While(Bin("<", x, Two), <<Up, Decl("z", x)>>), CFor(Decl("z", x), Bin("<", Z, Two), Assign(Z, "+=", One), <<Output(Z)>>),
               Match(x, << <<One, <<Decl("z", One)>> >> >>, <<Decl("z", Two)>>), ExprStmt(Z),
               Try(<<Risky(x), Decl("z", x)>>, << <<"E", "z", <<Output(Z)>> >> >>, <<Up>>),
               Decl("q", Comp(Z, "z", <<Two>>))}}
      \cup {<<Decl("z", One), If(x, u, <<>>), Output(Z), Return(x)>> : u \in Uses}

\* Functions that end in some other way.
FallsOff ==
    {<<If(x, <<Return(y)>>, s)>> : s \in {<<>>, <<Return(One)>>, <<Up>>, <<Throw("F", x)>>}}
      \cup {<<Match(x, << <<One, s>> >>, t)>> : s, t \in {<<Return(x)>>, <<Up>>, <<If(y, <<Return(x)>>, <<Return(y)>>)>>}}
      \cup {<<While(Bin("<", x, Two), <<Up, If(y, <<s>>, <<>>), Return(x)>>)>> : s \in {Escape, Continue}}

\* Statements inside of others, where what ends one may be taken for the other.
Inner == {Output(x), ExprStmt(f(y)), Up, While(Bin("<", x, Two), <<Up>>), DoWhile(<<Up>>, Bin("<", x, Two)),
          If(x, <<Up>>, <<If(y, <<Output(x)>>, <<Up>>)>>), If(x, <<If(y, <<Up>>, <<>>)>>, <<Output(y), Up>>),
          Try(<<Up>>, << <<NoName, NoName, <<Output(x)>> >> >>, <<>>), Match(y, << <<One, <<Up>> >> >>, <<Output(x)>>)}
Nested ==
    UNION {{<<While(Bin("<", x, Two), <<s, Up>>)>> \o End, <<DoWhile(<<Up, s>>, Bin("<", x, Two))>> \o End,
            <<DoWhile(<<If(x, <<s>>, <<>>), Up>>, Bin("<", x, Two))>> \o End, <<If(x, <<s>>, <<s>>)>> \o End,
            <<Match(x, << <<One, <<s>> >>, <<Neg(One), <<Output(One)>> >> >>, <<s>>)>> \o End,
            <<Match(Bin("-", x, y), << <<Neg(One), <<>> >>, <<Two, <<s>> >>, <<Neg(Two), <<>> >> >>, <<>>)>> \o End,
            <<Try(<<Risky(x)>>, << <<NoName, NoName, <<s>> >> >>, <<>>)>> \o End,
            <<Try(<<Risky(x)>>, << <<NoName, "m", <<s>> >> >>, <<Up>>)>> \o End} : s \in Inner}
      \cup {<<s, ExprStmt(Neg(f(y)))>> \o End : s \in {Up, Output(x), If(x, <<Up>>, <<>>)}}
      \cup {<<Up, Return(e)>> : e \in Ints \ {Index(b, One), Post(Index(b, One), -1)}}

Programs == Nested \cup Exprs_ \cup Loops \cup Matches \cup Results \cup Exceptions \cup Scopes \cup FallsOff
Starts == {[x |-> 0, y |-> 2, a |-> <<1, 0>>], [x |-> 1, y |-> 1, a |-> <<4, 2, 3>>]}
Types == [x |-> "int", y |-> "int", a |-> "parameter"]
Arities == [f |-> 1, fallible |-> 1, risky |-> 1]
AllLevels == 0..3
=============================================================================
