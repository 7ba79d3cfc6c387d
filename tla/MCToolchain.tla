---------------------------- MODULE MCToolchain -----------------------------
(***************************************************************************)
(* Function bodies for Toolchain: one statement with every expression of a *)
(* small grammar, and every kind of loop around pairs of statements.       *)
(***************************************************************************)
EXTENDS Toolchain

One == Int_(1)
x == Id("x")
y == Id("y")
a == Id("a")
f(e) == Call("f", <<e>>)

Atoms == {One, x, y}
Small == Atoms \cup {Bin("+", x, One), Bin("<", One, y), Bin("and", x, y), Neg(y), Cast(y, "bool"),
                     Post(x, 1), Post(y, -1), Array(<<x, One>>), Index(a, x), Index(a, One)}
           \cup {f(e) : e \in Atoms}
Values == {e \in Small : e.k # "Array"}
Large == {Bin(o, l, r) : o \in {"+", "or"}, l, r \in Values}
           \cup {Call("g", <<l, r>>) : l, r \in Values}
           \cup {Index(a, e) : e \in Values} \cup {Index(Array(<<x, e>>), y) : e \in Values}
           \cup {Neg(e) : e \in Values} \cup {Not(e) : e \in Values} \cup {Cast(e, "bool") : e \in Values}
           \cup {Index(Comp(e, "c", <<y>>), One) : e \in {Id("c"), f(Id("c")), Bin("+", Id("c"), x)}}
           \cup {Bin("and", Bin("and", l, r), x) : l, r \in {y, f(x), f(f(y)), Post(y, 1)}}

Show == <<Output(Bin("+", x, y)), Output(Index(a, y))>>

OfExpressions ==
    {<<Output(e)>> : e \in Large}
      \cup {<<If(e, <<Output(x)>>, <<Output(y)>>)>> : e \in {b \in Large : b.k = "Bin"}}
      \cup {<<Decl("z", Array(<<e, x>>))>> \o Show \o <<Output(Index(Id("z"), One))>> : e \in Values}
      \cup {<<Norm(2), ExprStmt(f(f(e))), Return(e)>> : e \in Values}

Simple == {Output(x), Assign(x, "=", Post(y, 1)), Assign(x, "+=", f(Cast(Cast(y, "bool"), "bool"))),
           Assign(Index(a, x), "+=", y), Assign(Index(a, One), "=", y), ExprStmt(Post(x, 1)),
           ExprStmt(f(f(x))), Output(Cast(Change(Cast(Change(y), "bool")), "bool")), ExprStmt(Post(Index(a, y), -1)), Decl("z", Array(<<x, f(y)>>)), Assign(y, "-=", One),
           Escape, Continue, Return(x)}
Blocks == {<<If(Bin("<", x, Int_(2)), <<s>>, <<>>), t>> : s, t \in Simple}
Upward == <<Assign(x, "+=", One)>>

Around(b) ==
    {<<While(Bin("<", x, Int_(3)), Upward \o b)>>,
     <<For("i", Call("range", <<y>>), b)>>,
     <<For("i", Call("range", <<One, Int_(4), Int_(2)>>), b \o <<Output(Id("i"))>>)>>,
     <<For("i", Call("range", <<Int_(2), One, Neg(One)>>), b)>>,
     <<For("v", a, <<Output(Id("v"))>> \o b)>>,
     <<While(Bin("<", Post(x, 1), Int_(2)), <<For("i", Call("range", <<Int_(2)>>), b), Output(y)>>)>>,
     <<For("i", Call("range", <<Int_(2)>>),
           <<Match(Id("i"), << <<x, b>>, <<One, <<Output(One)>> >> >>, <<Output(y)>>)>>)>>}
OfLoops == UNION {{l \o Show : l \in Around(b)} : b \in Blocks}

Programs == OfExpressions \cup OfLoops
Starts == {[x |-> 0, y |-> 2, a |-> <<4, 2, 3>>], [x |-> 1, y |-> 1, a |-> <<0, 1>>]}
XYA == <<"x", "y", "a">>
=============================================================================
