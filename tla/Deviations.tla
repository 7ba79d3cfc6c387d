----------------------------- MODULE Deviations -----------------------------
(***************************************************************************)
(* What statements look like whose translation is known to do something    *)
(* else than is written, whatever the reason.                              *)
(***************************************************************************)
EXTENDS ULSyntax

Has(e, kinds) == \E i \in DOMAIN Nodes(e) : Nodes(e)[i].k \in kinds
Calls(e) == Has(e, {"Call", "Post"})
HasNode(s, P(_)) == \E i \in DOMAIN AllNodes(s) : P(AllNodes(s)[i])

\* The statement changes a variable it also reads: its operands are registers, read
\* when the operation is done, and the normalizer moves the change to the front.
Unsequenced(s) == \E i, j \in DOMAIN AllNodes(s) :
    LET n == AllNodes(s) IN
    /\ n[i].k = "Post" /\ n[i].operand.k = "Id"
    /\ n[j].k = "Id" /\ n[j].name = n[i].operand.name /\ j # i + 1

\* The right operand of "and" or "or" has an effect: both are always evaluated.
IsLogical(e) == e.k = "Bin" /\ e.op \in {"and", "or"}
EagerRight(s) == HasNode(s, LAMBDA e : IsLogical(e) /\ Calls(e.right))

\* The bodies of a match, which the normalizer leaves as they are.
InMatch(stmts) ==
    UNION {Statements(FlattenSeq(Bodies(m))) : m \in {t \in Statements(stmts) : t.k = "Match"}}

\* The statements of a loop's body that are in no loop inside of it.
LoopKinds == {"While", "DoWhile", "For", "CFor"}
RECURSIVE InThisLoop(_)
InThisLoop(stmts) ==
    ToSet(stmts) \cup UNION {InThisLoop(FlattenSeq(Bodies(t))) :
                              t \in {u \in ToSet(stmts) : u.k \notin LoopKinds}}

\* "continue" in such a loop.
ContinueIn(s, kinds) == s.k \in kinds /\ Continue \in InThisLoop(s.body)

\* The variables, arrays included, that a statement by itself changes.
RootName(e) == IF e.k = "Id" THEN e.name ELSE e.target.name
Changes(t) ==
    {RootName(n.operand) : n \in {m \in ToSet(AllNodes(t)) : m.k = "Post"}}
      \cup (IF t.k \in {"Decl", "For"} THEN {t.var} ELSE {})
      \cup (IF t.k = "Assign" THEN {RootName(t.target)} ELSE {})
ChangedIn(body) == UNION {Changes(t) : t \in Statements(body)}

\* A for whose body changes the loop variable, or what it is about.
LiveBounds(s) ==
    /\ s.k = "For"
    /\ LET its == IF IsRange(s.iterable) THEN ToSet(s.iterable.args) ELSE {s.iterable}
       IN  ChangedIn(s.body) \cap ({s.var} \cup {e.name : e \in {t \in its : t.k = "Id"}}) # {}

-----------------------------------------------------------------------------
(***************************************************************************)
(* Results.                                                                *)
(***************************************************************************)
HasProp(e) == Has(e, {"Prop"})

\* "e?" becomes statements before its own: what is to be evaluated before it, or only
\* sometimes, or each time, is not.
EarlyProp(s) ==
    \/ s.k \in {"While", "DoWhile"} /\ HasProp(s.cond)
    \/ HasNode(s, LAMBDA e :
           \/ IsLogical(e) /\ HasProp(e.right)
           \/ \E i, j \in DOMAIN Operands(e) : i < j /\ Calls(Operands(e)[i]) /\ HasProp(Operands(e)[j]))

-----------------------------------------------------------------------------
(***************************************************************************)
(* Python.                                                                 *)
(***************************************************************************)
IsTruth(e) == \/ e.k = "Not"
              \/ e.k = "Cast" /\ e.type = "bool"
              \/ e.k = "Bin" /\ e.op \in {"<", "==", "and", "or"}

\* "and" and "or" have the value of an operand (in JavaScript as well).
OperandValue(s) == HasNode(s, LAMBDA e : IsLogical(e) /\ ~(IsTruth(e.left) /\ IsTruth(e.right)))

\* An increment that is not a statement, where the normalizer leaves it.
IncrementInside(s) ==
    /\ HasNode(s, LAMBDA e : e.k = "Post")
    /\ s.k # "ExprStmt" \/ s.expr.k # "Post"

\* "/" makes a float unless both operands are known to be integers, and rounds
\* downwards, as "%" does.
NotNegative(e, params) == (e.k = "Int" /\ e.value > 0) \/ (e.k = "Id" /\ e.name \in params)
DivisionOf(s, params) ==
    HasNode(s, LAMBDA e : /\ e.k = "Bin" /\ e.op \in {"/", "%"}
                          /\ ~(NotNegative(e.left, params) /\ NotNegative(e.right, params)))

\* A body of nothing but @norm.
OnlyNorm(s) ==
    \E i \in DOMAIN Bodies(s) : Bodies(s)[i] # <<>> /\ \A j \in DOMAIN Bodies(s)[i] : Bodies(s)[i][j].k = "Norm"

\* A name of the function that is declared again in a block of it.
Declared(t) == CASE t.k \in {"Decl", "For"} -> {t.var}
                 [] t.k = "Try" -> {t.handlers[i][2] : i \in DOMAIN t.handlers}
                 [] OTHER -> {}
DeclaredIn(s) == UNION {Declared(t) : t \in Statements(FlattenSeq(Bodies(s)))}
Shadows(stmts) == \E i, j \in DOMAIN stmts : stmts[i].k = "Decl" /\ stmts[i].var \in DeclaredIn(stmts[j])
                                                \cup (IF stmts[j].k = "For" THEN {stmts[j].var} ELSE {})

CaseIsNoLiteral(s) == s.k = "Match" /\ \E i \in DOMAIN s.cases : ~IsLiteral(s.cases[i][1])

\* A try with nothing but a body, and a handler for all that is not the last.
BareTry(s) == s.k = "Try" /\ s.handlers = <<>> /\ s.finally = <<>>
CatchAllFrom(s, i) == s.k = "Try" /\ \E j \in i..(Len(s.handlers) - 1) : s.handlers[j][1] = NoName

PythonDeviates(s, params) ==
    \/ EarlyProp(s) \/ OperandValue(s) \/ IncrementInside(s) \/ DivisionOf(s, params)
    \/ OnlyNorm(s) \/ ContinueIn(s, {"DoWhile", "CFor"}) \/ CaseIsNoLiteral(s)
    \/ BareTry(s) \/ CatchAllFrom(s, 2)

-----------------------------------------------------------------------------
(***************************************************************************)
(* JavaScript.                                                             *)
(***************************************************************************)
\* The loop variable of a for is a constant.
ChangesItsVariable(s) == s.k = "For" /\ s.var \in ChangedIn(s.body)
\* "escape" in a match, which is a switch; the cases of which are one block.
EscapeInMatch(s) == s.k = "Match" /\ Escape \in UNION {InThisLoop(Bodies(s)[i]) : i \in DOMAIN Bodies(s)}
Own(body) == {body[i].var : i \in {j \in DOMAIN body : body[j].k = "Decl"}}
DeclaredTwice(s) ==
    s.k = "Match" /\ \E i, j \in DOMAIN Bodies(s) : i < j /\ Own(Bodies(s)[i]) \cap Own(Bodies(s)[j]) # {}
\* The message is evaluated twice.
MessageTwice(s) == s.k = "Throw" /\ Calls(s.message)

\* moved: the normalizer has changed the function.
JSDeviates(s, moved) ==
    \/ EarlyProp(s) \/ OperandValue(s) \/ (moved /\ Unsequenced(s))
    \/ ChangesItsVariable(s) \/ EscapeInMatch(s) \/ DeclaredTwice(s)
    \/ MessageTwice(s) \/ BareTry(s) \/ CatchAllFrom(s, 1)

-----------------------------------------------------------------------------
(***************************************************************************)
(* C.                                                                      *)
(***************************************************************************)
\* A step is left out; the end of a range is evaluated each time.
Stepped(s) == s.k = "For" /\ IsRange(s.iterable) /\ Len(s.iterable.args) = 3
EndAgain(s) == s.k = "For" /\ Calls(s.iterable) /\ \E i \in DOMAIN Operands(s.iterable) : Calls(Operands(s.iterable)[i])
OverParameter(s, params) == s.k = "For" /\ s.iterable.k = "Id" /\ s.iterable.name \in params
\* The subject of a match is compared, and evaluated, for each case.
SubjectAgain(s) == s.k = "Match" /\ Calls(s.subject) /\ Len(s.cases) > 1

\* A try block that is left by a jump keeps its buffer; finally is only for those that
\* go on; a handler sees a variable that the block changed as it was, or as it is.
Leaves(body) == \E t \in Statements(body) : t.k \in {"Return", "Escape", "Continue"}
CanThrow(body) == \E t \in Statements(body) : t.k = "Throw" \/ HasNode(t, LAMBDA e : e.k = "Call")
Try_(s) ==
    /\ s.k = "Try"
    /\ \/ Leaves(s.body) \/ s.handlers = <<>> \/ CatchAllFrom(s, 1)
       \/ s.finally # <<>> /\ CanThrow(s.body)
       \/ ChangedIn(s.body) # {}

CDeviates(s, moved, params) ==
    \/ EarlyProp(s) \/ (moved /\ Unsequenced(s))
    \/ LiveBounds(s) \/ Stepped(s) \/ EndAgain(s) \/ OverParameter(s, params) \/ SubjectAgain(s) \/ Try_(s)

-----------------------------------------------------------------------------
(***************************************************************************)
(* LLVM IR.                                                                *)
(***************************************************************************)
NoCode(s, params) ==
    \/ s.k \in {"CFor", "Try", "Throw"}
    \/ s.k = "For" /\ (s.iterable.k # "Id" \/ s.iterable.name \in params)
    \/ HasNode(s, LAMBDA e : e.k = "Comp" \/ (e.k = "Post" /\ e.operand.k = "Index"))
\* A sum is printed part by part; arithmetic of truth values is of one bit, and so is a
\* number that becomes one.
OneBit(s) ==
    HasNode(s, LAMBDA e : \/ e.k = "Cast" /\ e.type = "bool" /\ ~IsTruth(e.expr)
                          \/ e.k = "Bin" /\ e.op \in {"+", "-"} /\ IsTruth(e.left) /\ IsTruth(e.right))
PrintsSum(s) == s.k = "Output" /\ s.value.k = "Bin" /\ s.value.op = "+"

LLVMDeviates(s, moved, params) ==
    \/ EagerRight(s) \/ (moved /\ Unsequenced(s)) \/ NoCode(s, params)
    \/ OneBit(s) \/ PrintsSum(s) \/ ContinueIn(s, {"For"})
\* The variable of a for that is a name of the function already.
SlotTwice(stmts) == \E s \in Statements(stmts) : s.k = "For" /\
    \E t \in Statements(stmts) \ {s} : s.var \in Declared(t)
=============================================================================
