--------------------------- MODULE MCBytecodeFile ---------------------------
(* Programs for BytecodeFile: bodies of two statements in functions that are nested in  *)
(* others or belong to objects, with constants and types of several kinds.              *)
EXTENDS BytecodeFile

Tags == (101 :> "string") @@ (102 :> "bool") @@ (103 :> "empty") @@ (104 :> "float")

Var(n, t) == [name |-> n, type |-> t]
Function(name, params, returns, line, body) ==
    [name |-> name, params |-> params, returns |-> returns, line |-> line, body |-> body,
     nested |-> <<>>, builtin |-> FALSE]
Type(kind, name, fields) == [kind |-> kind, name |-> name, fields |-> fields, parent |-> NoName, methods |-> <<>>]

\* Statements on lines from n on.
Simple(n) == {
    OnLine(n, Decl("x", Int_(1))),
    OnLine(n, OfType("string", Decl("x", Int_(101)))),
    OnLine(n, Output(Id("x"))),
    OnLine(n, Output(Id("K"))),
    OnLine(n, Assign(Id("a"), "=", Bin("+", Id("x"), Int_(2)))),
    OnLine(n, ExprStmt(Call("g", <<Id("a")>>))),
    OnLine(n, OfType("P", Decl("q", Int_(0)))),
    OnLine(n, Norm(1)),
    Output(Id("a"))}
Blocks(n) == {
    OnLine(n, If(Id("a"), <<OnLine(n + 1, Decl("x", Int_(3)))>>, <<OnLine(n + 2, Output(Int_(103)))>>)),
    OnLine(n, For("i", Call("range", <<Int_(3)>>), <<OnLine(n + 1, Output(Id("i")))>>)),
    OnLine(n, While(Id("a"), <<OnLine(n + 1, Decl("y", Int_(4))), Escape>>)),
    OnLine(n, Decl("a", Int_(5)))}
Bodies2 == {<<s, t>> : s \in Simple(2) \cup Blocks(2), t \in Simple(5) \cup Blocks(5)}

First == OnLine(1, Decl("x", Int_(0)))
Consts == << [name |-> "K", value |-> 1], [name |-> "L", value |-> 102], [name |-> "M", value |-> 104],
             [name |-> "K", value |-> 101] >>
Get(x) == Function("get", <<>>, "int", 20, <<OnLine(21, Return(Id(x)))>>)
P == [Type("object", "P", <<Var("u", "int"), Var("v", "string")>>) EXCEPT !.methods = <<Get("v")>>]
Q == [Type("object", "Q", <<Var("w", "P")>>) EXCEPT !.parent = "P", !.methods =
         <<Get("v"), Function("put", <<Var("u", "int")>>, NoName, 25, <<OnLine(26, Output(Id("w")))>>)>>]
Structs == <<Type("enum", "C", <<>>), Type("type", "T", <<Var("u", "bool"), Var("t", "T")>>)>>
G == Function("g", <<Var("b", "T")>>, "result", 10, <<OnLine(11, Output(Id("b"))), Return(Int_(6))>>)
Main == Function("main", <<>>, "int", 30, <<OnLine(31, ExprStmt(Call("f", <<Int_(1)>>)))>>)

\* f with a body, and with g beside it or nested in it.
F(body) == Function("f", <<Var("a", "int")>>, "int", 1, body)
Beside(body) == <<F(body), G, Main>>
Inside(body) == <<Main, [F(body) EXCEPT !.nested = <<G>>], [G EXCEPT !.name = "wrap", !.builtin = TRUE]>>

Prog(consts, ts, fs, src) == [consts |-> consts, types |-> ts, functions |-> fs, source |-> src]
Ordinary == {Prog(Consts, Structs \o <<P, Q>>, Beside(<<First>> \o b), NoName) : b \in Bodies2}
Odd == {
    \* A child before its parent, the name of the source.
    Prog(Consts, <<[Q EXCEPT !.methods = SubSeq(@, 2, 2)], P>> \o Structs, Inside(<<First, OnLine(2, Output(Id("K")))>>), "src"),
    \* Statements without lines at first.
    Prog(Consts, <<P>>, Beside(<<Output(Id("a")), OnLine(2, Decl("x", Int_(1)))>>), NoName),
    \* Two functions of one name, and a method that is called like a function.
    Prog(<<>>, <<P>>, <<[Main EXCEPT !.nested = <<[G EXCEPT !.line = 7]>>], [F(<<First>>) EXCEPT !.nested = <<G>>],
                        Function("P_get", <<>>, NoName, 40, <<>>)>>, NoName),
    \* An enum with members.
    Prog(<<>>, <<Type("enum", "C", <<Var("red", "int")>>)>>, <<Main, F(<<>>)>>, NoName)}
\* More constants than an immediate counts, more registers than a frame, and a loop that
\* is too long for the jump out of it, or for the one back as well.
Loop(n) == <<OnLine(1, While(Id("a"), [i \in 1..n |-> OnLine(i + 1, Output(Id("a")))]))>>
Many(n) == [i \in 1..n |-> OnLine(i, Output(Int_(10 + i)))]
Deep(n) == [i \in 1..n |-> OnLine(i, Decl(<<"p", "q", "r", "s", "t", "u", "v", "w", "x">>[i], Int_(1)))]
Large == {Prog(<<>>, <<>>, <<F(Many(17)), Main>>, NoName)}
            \cup {Prog(<<>>, <<>>, <<F(Loop(n)), Main>>, NoName) : n \in {6, 7, 14, 15}}
            \cup {Prog(<<>>, <<>>, <<F(Deep(n)), Main>>, NoName) : n \in 5..9}

AllPrograms == Ordinary \cup Odd \cup Large
=============================================================================
