------------------------------ MODULE Pipeline ------------------------------
(***************************************************************************)
(* A function on its way to the other languages (Main.py, compile_file):   *)
(* the parser, the normalizer, the semantic checker, and one of the back   *)
(* ends; and its code as the compiler of that language takes it.           *)
(***************************************************************************)
EXTENDS Normalizer, Deviations

CONSTANTS
    Program,     \* the function bodies that are written
    Levels,      \* the levels of normalization considered
    Inputs,      \* the values of the parameters: functions from names to values
    ParamTypes,  \* the parameters' types: "int", or "parameter" for an array
    Functions    \* the functions there are: from names to numbers of parameters

Writer == INSTANCE Writing
Reader == INSTANCE Parser
Printer == INSTANCE SourcePrinter
M == INSTANCE ULMeaning
Checker == INSTANCE SemCheck
Python == INSTANCE ULToPython
JS == INSTANCE ULToJS
C == INSTANCE ULToC
LLVM == INSTANCE ULToLLVM

Targets == {"python", "js", "c", "llvm"}
Params == DOMAIN ParamTypes
Slots == [x \in Params |-> IF ParamTypes[x] = "int" THEN "i32" ELSE "pointer"]

VARIABLES
    program,      \* what was written, and from the parser on what was read
    style, text,  \* how it is written, and the tokens it is written with
    stage, tree, target, code, input, final

vars == <<program, style, text, stage, tree, target, code, input, final>>
None == "none"

Init ==
    /\ program \in Program /\ style \in Writer!Styles
    /\ text = Writer!FunctionText(program, style)
    /\ stage = "written" /\ tree = <<>>
    /\ target = None /\ code = <<>> /\ input = None /\ final = None

\* parse, of the tokens of the file.
ReadAs(p) ==
    /\ stage' = IF Reader!IsSource(p) THEN "parsed" ELSE "unreadable"
    /\ tree' = IF Reader!IsSource(p) THEN p.x ELSE <<>>
Parse ==
    /\ stage = "written"
    /\ ReadAs(Reader!Parse(text))
    /\ UNCHANGED <<program, style, text, target, code, input, final>>

\* compile_file: the level is that of the command line or of the file.
Simplify ==
    /\ stage = "parsed" /\ stage' = "normalized"
    /\ \E level \in Levels : tree' = Normalize(tree, level)
    /\ program' = tree /\ style' = None /\ text' = <<>>
    /\ UNCHANGED <<target, code, input, final>>

\* check, of the normalized program.
Check ==
    /\ stage = "normalized"
    /\ stage' = IF Checker!Accepts(Params, tree) THEN "checked" ELSE "rejected"
    /\ UNCHANGED <<program, style, text, tree, target, code, input, final>>

\* load_codegen and generate.
GenerateFor(t) ==
    CASE t = "python" -> Python!Function(ParamTypes, tree)
      [] t = "js" -> JS!Function(ParamTypes, tree)
      [] t = "c" -> C!Function(ParamTypes, tree)
      [] t = "llvm" -> LLVM!Function(Slots, tree)
Generate ==
    /\ stage = "checked" /\ stage' = "generated"
    /\ \E t \in Targets : target' = t /\ code' = GenerateFor(t)
    /\ UNCHANGED <<program, style, text, tree, input, final>>

\* What the compiler of the target rejects.
Refused ==
    IF target = "llvm" THEN \E i \in DOMAIN code : code[i] = Broken
    ELSE Broken \in Statements(code)

\* The state in which the function ends, in the language of the target; in Python and in
\* LLVM IR a function has one block of variables; a C compiler may keep one in a register
\* or not.
Final(t, env, keeps) ==
    IF t = "llvm" THEN LLVM!Exec(code, 1, M!Begin(env, FALSE))
    ELSE M!Run(code, [M!Begin(env, t # "python") EXCEPT !.keeps = keeps])
Execute ==
    /\ stage = "generated"
    /\ IF Refused THEN stage' = "refused" /\ UNCHANGED <<input, final>>
       ELSE /\ stage' = "returned"
            /\ \E env \in Inputs, keeps \in IF target = "c" THEN BOOLEAN ELSE {TRUE} :
                  input' = env /\ final' = Final(target, env, keeps)
    /\ UNCHANGED <<program, style, text, tree, target, code>>

Next == Parse \/ Simplify \/ Check \/ Generate \/ Execute
Spec == Init /\ [][Next]_vars
-----------------------------------------------------------------------------
\* The parser makes of a text the tree it was written from, in either style, but for the
\* statements it is known to take for others.
ReadAsWritten ==
    stage \in {"parsed", "unreadable"} =>
        (stage = "parsed" /\ tree = program) = ~Writer!MisreadIn(program, style)

\* The next case of a match is "a bare literal or identifier" (token2ast.py:859): a match
\* of such cases is read with all of them.
IsBare(s) == s.k = "Match" => \A i \in DOMAIN s.cases : s.cases[i][1].k \in {"Int", "Id"}
CasesAreTold ==
    stage \in {"parsed", "unreadable"} /\ (\A s \in Statements(program) : IsBare(s)) =>
        stage = "parsed" /\ tree = program

\* The source that --dry-run shows is that of the normalized program: read again it is
\* the same, but for what the printer of source is known to lose.
ReadsBack(p) == Reader!IsSource(p) /\ p.x = tree
PrintedIsRead ==
    stage = "normalized" =>
        ReadsBack(Reader!Parse(Printer!Unparse(tree))) = ~Writer!LosesIn(tree)

\* How the function ends as it was read, from each of the inputs.
Ends(env) == M!Run(program, M!Begin(env, TRUE)).flow

\* What the back ends are known to do otherwise.
Moved == tree # program   \* by the normalizer
Known ==
    \/ \E s \in Statements(program) :
          CASE target = "python" -> PythonDeviates(s, Params)
            [] target = "js" -> JSDeviates(s, Moved)
            [] target = "c" -> CDeviates(s, Moved, Params)
            [] target = "llvm" -> LLVMDeviates(s, Moved, Params)
    \/ target \in {"python", "llvm"} /\ Shadows(program)
    \/ target = "llvm" /\ (SlotTwice(program) \/ Last(program).k # "Return")

\* A function that is accepted does in every language what it says, at every level of
\* normalization, except where the back end is known to do something else.
DoesWhatItSays ==
    stage \in {"refused", "returned"} =>
        \/ stage = "returned" /\ M!Same(M!Shown(final), M!Meaning(program, input))
        \/ Known

\* check: no accepted function ever comes to a name that has no variable, however it
\* goes; and one that passes for a main that returns does not fall off its end.
CheckedNamesAreBound ==
    stage = "checked" => \A env \in Inputs : Ends(env) # "unbound"
CheckedMainReturns ==
    stage = "checked" /\ Checker!DefinitelyReturns(program) => \A env \in Inputs : Ends(env) # "go"

\* The checker comes after the normalizer, and still decides about what was read: the
\* new temporaries clash with nothing, and are declared where they are used.
VerdictIsKept ==
    stage \in {"checked", "rejected"} => (stage = "checked") = Checker!Accepts(Params, program)

\* LLVM IR is a list of blocks: a label of its own, no branch but at the end, and that
\* to a label that there is.
Targets_(i) == CASE i.k = "Br" -> {i.to} [] i.k = "CondBr" -> {i.then, i.else}
                 [] i.k = "SwitchBr" -> {i.arms[j][2] : j \in DOMAIN i.arms} \cup {i.default} [] OTHER -> {}
IsLabel(i) == i.k = "Label"
IsTerminator(i) == i.k \in {"Br", "CondBr", "SwitchBr", "Return"}
BlocksAreWellFormed ==
    stage = "generated" /\ target = "llvm" /\ Broken \notin ToSet(code) =>
        /\ \A i, j \in DOMAIN code : IsLabel(code[i]) /\ code[i] = code[j] => i = j
        /\ \A i \in DOMAIN code : \A l \in Targets_(code[i]) : LLVM!L(l) \in ToSet(code)
        /\ \A i \in 1..(Len(code) - 1) : IsTerminator(code[i]) <=> IsLabel(code[i + 1])
        /\ IsTerminator(Last(code))
=============================================================================
