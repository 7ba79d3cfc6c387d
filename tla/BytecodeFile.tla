---------------------------- MODULE BytecodeFile ----------------------------
(***************************************************************************)
(* A program on its way through a .ubi file: the bytecode generator        *)
(* (BytecodeGen of ul2ubi.py) compiles it, function by function, and       *)
(* writes code, pools and debug tables; the decompiler (ubi2ul.py) reads   *)
(* them, entry by entry, and says what it found at each instruction.       *)
(* BytecodeFormat has the file without its debug section.                  *)
(***************************************************************************)
EXTENDS FuncCompiler, BytecodeFormat

CONSTANTS
    Programs,   \* the programs considered
    ImmMax,     \* the largest immediate of 16 bits
    JumpMax,    \* the largest immediate of 24 bits
    RegMax      \* the largest number of 8 bits

VARIABLES
    program, strip,
    compiled,                       \* the FuncCompilers, as they end
    funcNames, types,               \* of BytecodeGen
    vartab, functab, linetab,
    info                            \* DebugInfo, of the reader

source == <<program, strip>>
tables == <<vartab, functab, linetab>>
generator == <<compiled, funcNames, types, tables>>
ulb == <<offsets, instrs, file, pos, left, found>>
fileVars == <<source, generator, info, formatVars>>

NoInfo == [debug |-> FALSE, heap |-> <<>>, base |-> 0, at |-> <<>>,
           vars |-> <<>>, types |-> <<>>, funcs |-> <<>>, lines |-> <<>>]

Init ==
    /\ program \in Programs /\ strip \in BOOLEAN
    /\ stage = "constants"
    /\ compiled = <<>> /\ pool = <<>> /\ funcNames = <<>> /\ functions = <<>> /\ types = <<>>
    /\ vartab = <<>> /\ functab = <<>> /\ linetab = <<>>
    /\ offsets = <<>> /\ instrs = <<>> /\ file = <<>>
    /\ pos = 1 /\ left = 0 /\ found = NothingFound /\ info = NoInfo

-----------------------------------------------------------------------------
(* The program: constants, types, functions.  A name that is missing is    *)
(* NoName.                                                                 *)

\* x at the end of s, unless it is there already; and where it is.
Interned(s, x) == IF x \in ToSet(s) THEN s ELSE Append(s, x)
Place(s, x) == SelectInSeq(s, LAMBDA y : y = x) - 1

Unknown == 255
TypeTag(t) == IF t = NoName THEN TypeTags.empty
              ELSE IF t \in DOMAIN TypeTags THEN TypeTags[t] ELSE Unknown

Kind(k) == SelectSeq(program.types, LAMBDA d : d.kind = k)
Objects == Kind("object")

\* The fields of an object, among the objects that are known: its parent's own, then its own.
AllFields(d, known) ==
    LET p == SelectLastInSeq(known, LAMBDA o : o.name = d.parent)
    IN  (IF p = 0 THEN <<>> ELSE known[p].fields) \o d.fields

\* _object_layouts: the objects before an object are known, and so is it.
Layout(i) == [n \in {f.name : f \in ToSet(AllFields(Objects[i], SubSeq(Objects, 1, i)))} |->
    SelectLastInSeq(AllFields(Objects[i], SubSeq(Objects, 1, i)), LAMBDA f : f.name = n) - 1]

Named == [n \in {c.name : c \in ToSet(program.consts)} |->
    program.consts[SelectLastInSeq(program.consts, LAMBDA c : c.name = n)].value]
Sizes == [n \in {d.name : d \in ToSet(Objects)} |->
    Cardinality(DOMAIN Layout(SelectLastInSeq(Objects, LAMBDA d : d.name = n)))]

\* What is compiled: functions, each followed by those nested in it; then the methods.
\* An imported wrapper of a builtin is not.
Plain(f) == [fn |-> f, object |-> 0, in |-> f.name]
Nested(f) == [i \in DOMAIN f.nested |-> [fn |-> f.nested[i], object |-> 0, in |-> f.name]]
ToCompile == SelectSeq(program.functions, LAMBDA f : ~f.builtin)
Methods(i) == [m \in DOMAIN Objects[i].methods |->
    [fn |-> Objects[i].methods[m], object |-> i, in |-> NoName]]
Units == FlattenSeq([i \in DOMAIN ToCompile |-> <<Plain(ToCompile[i])>> \o Nested(ToCompile[i])])
             \o FlattenSeq([i \in DOMAIN Objects |-> Methods(i)])

UnitName(u) == IF u.object = 0 THEN u.fn.name ELSE Objects[u.object].name \o "_" \o u.fn.name
Names == [k \in DOMAIN Units |-> UnitName(Units[k])]
LastNamed(n) == SelectLastInSeq(Names, LAMBDA m : m = n) - 1

-----------------------------------------------------------------------------
(* compile_program.                                                        *)

\* The named constants.
NameConstants ==
    /\ stage = "constants" /\ stage' = "register"
    /\ pool' = FoldLeft(Interned, pool, [i \in DOMAIN program.consts |-> program.consts[i].value])
    /\ UNCHANGED <<source, generator, functions, ulb, info>>

\* emit_type: a name that is there is left.
EmitType(ts, d) ==
    IF \E i \in DOMAIN ts : ts[i].name = d.name THEN ts
    ELSE Append(ts, [name |-> d.name, kind |-> d.kind,
                     fields |-> IF d.kind = "object" THEN AllFields(d, Objects) ELSE d.fields])

TypeIndex(ts, n) == LET i == SelectInSeq(ts, LAMBDA t : t.name = n) IN IF i = 0 THEN 0 ELSE i - 1
Referring == {TypeTags[t] : t \in {"array", "type", "object", "result", "list"}}
TypeRef(t) == IF TypeTag(t) \in Referring THEN TypeIndex(types, t) ELSE 0

\* Forward calls need the indices of all functions before one is compiled.
Register ==
    /\ stage = "register" /\ stage' = "compile"
    /\ funcNames' = [n \in ToSet(Names) |-> LastNamed(n)]
    /\ types' = FoldLeft(EmitType, types, Kind("type") \o Objects \o Kind("enum"))
    /\ UNCHANGED <<source, compiled, tables, pool, functions, ulb, info>>

ParamNames(f) == [i \in DOMAIN f.params |-> f.params[i].name]
Receiver(u) == IF u.object = 0 THEN <<>> ELSE <<Self>>

Environment(u) == [named |-> Named, sizes |-> Sizes,
                   fields |-> IF u.object = 0 THEN <<>> ELSE Layout(u.object)]
Ended(u, s) == IF u.fn.name = "main" THEN ReturnZero(s) ELSE ReturnNone(s)

\* The constants of some code, in the order in which they are loaded.
Loaded(code) == LET loads == SelectSeq(code, LAMBDA i : i.op = "LOAD_CONST")
                IN  [i \in DOMAIN loads |-> loads[i].b]

\* Mutant: a jump without a condition is cut like one with.
EncodedAlike(i, p) == CASE i.op = "LOAD_CONST" -> [i EXCEPT !.b = Place(p, @) % (ImmMax + 1)]
                        [] i.op \in {"JUMP_IF_FALSE", "JUMP"} -> [i EXCEPT !.b = @ % (ImmMax + 1)]
                        [] i.op = "CALL" -> [i EXCEPT !.b = funcNames[@]]
                        [] OTHER -> i

\* An instruction with indices in place of constants and functions: an immediate is cut
\* to its 16 bits, that of a jump without a condition to 24.
Encoded(i, p) == CASE i.op = "LOAD_CONST" -> [i EXCEPT !.b = Place(p, @) % (ImmMax + 1)]
                   [] i.op = "JUMP_IF_FALSE" -> [i EXCEPT !.b = @ % (ImmMax + 1)]
                   [] i.op = "JUMP" -> [i EXCEPT !.b = @ % (JumpMax + 1)]
                   [] i.op = "CALL" -> [i EXCEPT !.b = funcNames[@]]
                   [] OTHER -> i

\* The operands of an encoded instruction that take a byte each.
Bytes(i) == CASE i.op \in {"LOAD_CONST", "JUMP_IF_FALSE"} -> {i.a}
              [] i.op \in {"JUMP", "RETURN_NONE"} -> {}
              [] OTHER -> {i.a, i.b, i.c}

\* to_func_info.
FuncInfo(u, s, code) ==
    [name |-> UnitName(u), params |-> Len(Receiver(u)) + Len(u.fn.params),
     regs |-> IF s.max > RegMax THEN RegMax ELSE s.max, code |-> code]

\* _register_func_debug.
Signature(k, u) ==
    LET self == [i \in DOMAIN Receiver(u) |-> [slot |-> 0, name |-> Self, tag |-> TypeTags.object, ref |-> 0]]
        f == u.fn
    IN  [index |-> k, name |-> UnitName(u), line |-> f.line,
         params |-> self \o [i \in DOMAIN f.params |->
             [slot |-> Len(self) + i - 1, name |-> f.params[i].name,
              tag |-> TypeTag(f.params[i].type), ref |-> TypeRef(f.params[i].type)]],
         tag |-> TypeTag(f.returns), ref |-> TypeRef(f.returns)]

Variable(k, slot, name, type, start) ==
    [index |-> k, slot |-> slot, name |-> name, tag |-> TypeTag(type), ref |-> TypeRef(type), start |-> start]

\* Mutant: the parameters of a method begin at 0.
VariablesFromZero(k, u, s) ==
    [i \in DOMAIN u.fn.params |-> Variable(k, i - 1, u.fn.params[i].name, u.fn.params[i].type, 0)]
        \o [i \in DOMAIN s.locals |->
               Variable(k, s.locals[i].slot, s.locals[i].name, s.locals[i].type, s.locals[i].start)]

\* flush_debug: parameters, then the declarations in the order of the code.
Variables(k, u, s) ==
    [i \in DOMAIN u.fn.params |->
        Variable(k, Len(Receiver(u)) + i - 1, u.fn.params[i].name, u.fn.params[i].type, 0)]
        \o [i \in DOMAIN s.locals |->
               Variable(k, s.locals[i].slot, s.locals[i].name, s.locals[i].type, s.locals[i].start)]

LinesOf(k) == IF k \in DOMAIN linetab THEN linetab[k] ELSE <<>>

\* One function or method, under the index that its name has.
CompileUnit ==
    /\ stage = "compile" /\ Len(functions) < Len(Units)
    /\ \E u \in {Units[Len(functions) + 1]} :
       \E body \in {CompileIn(Environment(u), Receiver(u) \o ParamNames(u.fn), u.fn.body)} :
       \E s \in {Ended(u, body)}, k \in {funcNames[UnitName(u)]} :
        /\ compiled' = Append(compiled, s)
        /\ pool' = FoldLeft(Interned, pool, Loaded(s.code))
        /\ \E code \in {[i \in DOMAIN s.code |-> Encoded(s.code[i], pool')]} :
            \/ /\ \A i \in DOMAIN code : \A b \in Bytes(code[i]) : b <= RegMax
               /\ functions' = Append(functions, FuncInfo(u, s, code))
               /\ functab' = Append(functab, Signature(k, u))
               /\ vartab' = vartab \o Variables(k, u, s)
               /\ linetab' = IF s.lines = <<>> THEN linetab ELSE (k :> (LinesOf(k) \o s.lines)) @@ linetab
               /\ UNCHANGED stage
            \* struct.pack raises.
            \/ /\ \E i \in DOMAIN code : \E b \in Bytes(code[i]) : b > RegMax
               /\ stage' = "raised"
               /\ UNCHANGED <<functions, tables>>
    /\ UNCHANGED <<source, funcNames, types, ulb, info>>

-----------------------------------------------------------------------------
(* serialize_debug_section.                                                *)

Uleb(v) == Field("uleb", v)

\* One sequence of fields for every element of s.
Each(s, Fields(_)) == FlattenSeq([i \in DOMAIN s |-> Fields(s[i])])

\* The variables by function and register; those of one register stay in their order.
Sorted == FlattenSeq([k \in DOMAIN functions |-> FlattenSeq([slot \in 1..(RegMax + 1) |->
              SelectSeq(vartab, LAMBDA v : v.index = k - 1 /\ v.slot = slot - 1)])])

\* The string heap, filled by the tables in the order in which they are written, the
\* name of the source first.
Heap == FoldLeft(Interned, <<>>,
    (IF program.source = NoName THEN <<>> ELSE <<program.source>>)
        \o [i \in DOMAIN Sorted |-> Sorted[i].name]
        \o Each(types, LAMBDA t : <<t.name>> \o [i \in DOMAIN t.fields |-> t.fields[i].name])
        \o Each(functab, LAMBDA f : <<f.name>> \o [i \in DOMAIN f.params |-> f.params[i].name]))
Name(n) == Field("name", Place(Heap, n))

VarTable == <<Uleb(Len(Sorted))>> \o Each(Sorted, LAMBDA v :
    <<Uleb(v.index), U8(v.slot), Name(v.name), U8(v.tag), Uleb(v.ref), Uleb(v.start), Uleb("whole")>>)

TypeKind == [type |-> 1, object |-> 2, enum |-> 6]
\* The members of an enum that has some are never written: see Serialize.
FieldsOf(t) == IF t.kind = "enum" THEN <<Uleb(0), Uleb(0)>>
    ELSE <<Uleb(Len(t.fields))>> \o FlattenSeq([j \in DOMAIN t.fields |->
             <<Uleb(j - 1), Name(t.fields[j].name), U8(TypeTag(t.fields[j].type)), Uleb(0), U8(0)>>])
TypeTable == <<Uleb(Len(types))>> \o FlattenSeq([i \in DOMAIN types |->
    <<Uleb(i - 1), U8(TypeKind[types[i].kind]), Name(types[i].name)>> \o FieldsOf(types[i])])

FuncTable == <<Uleb(Len(functab))>> \o Each(functab, LAMBDA f :
    <<Uleb(f.index), Name(f.name), U8(Len(f.params))>>
        \o Each(f.params, LAMBDA p : <<U8(p.slot), Name(p.name), U8(p.tag), Uleb(p.ref)>>)
        \o <<U8(f.tag), Uleb(f.ref), Uleb(f.line)>>)

\* Numbers in order.
Ascending(ns) == IF ns = {} THEN <<>>
    ELSE SelectSeq([i \in 1..(Max(ns) + 1) |-> i - 1], LAMBDA n : n \in ns)

\* The points of a function, by instruction, of which the first is kept: sorting is
\* needed where two functions share an index.
Points(k) ==
    LET Of(i) == SelectInSeq(linetab[k], LAMBDA e : e[1] = i)
        at == Ascending({e[1] : e \in ToSet(linetab[k])})
    IN  [i \in DOMAIN at |-> linetab[k][Of(at[i])]]

Zigzag(d) == IF d >= 0 THEN 2 * d ELSE 2 * (-d) - 1

\* A point, as its distance from the one before: at least one instruction.
PointFields(points, i) ==
    LET before == IF i = 1 THEN <<0, points[1][2]>> ELSE points[i - 1]
        delta == points[i][1] - before[1]
    IN  <<Uleb(IF delta < 1 THEN 1 ELSE delta), Uleb(Zigzag(points[i][2] - before[2]))>>

LineTable ==
    LET ks == Ascending(DOMAIN linetab)
    IN  <<Uleb(Len(ks))>> \o Each(ks, LAMBDA k : LET points == Points(k) IN
            <<Uleb(k), Uleb(Len(points)), Uleb(points[1][2])>>
                \o FlattenSeq([i \in DOMAIN points |-> PointFields(points, i)]))

\* Of the flags, only the one that is looked at.
SourceFlag == IF program.source = NoName THEN 0 ELSE 4

HeaderSize == 10
DebugSection ==
    LET typesAt == HeaderSize + Len(Heap) + Len(VarTable)
        funcsAt == typesAt + Len(TypeTable)
    IN  <<Field("marker", 0),
          U8(1), U8(SourceFlag), U16(0), U32(Len(Heap)), U32(HeaderSize + Len(Heap)), U32(typesAt),
          U32(funcsAt), U32(funcsAt + Len(FuncTable)), U32(0), U32(SourceFlag \div 4)>>
            \o [i \in DOMAIN Heap |-> Field("bytes", Heap[i])]
            \o VarTable \o TypeTable \o FuncTable \o LineTable

\* The value of an enum's member is the node of an expression, which is no number.
HasMembers == \E i \in DOMAIN types : types[i].kind = "enum" /\ types[i].fields # <<>>

WritesMembers == ~strip /\ HasMembers

\* Everything is compiled, and serialize begins.
Serialize ==
    /\ stage = "compile" /\ Len(functions) = Len(Units)
    /\ stage' = "layout"
    /\ UNCHANGED <<source, generator, pool, functions, ulb, info>>

WriteOrReadUlb == WriteOrRead /\ UNCHANGED <<source, generator, info>>

WriteCodeAndDebug ==
    /\ ~WritesMembers
    /\ WriteCode(IF strip THEN <<>> ELSE DebugSection)
    /\ UNCHANGED <<source, generator, info>>

\* to_bytes of the node raises, when all the rest is written.
MembersRaise ==
    /\ stage = "put_functions" /\ left = 0 /\ WritesMembers
    /\ stage' = "raised"
    /\ UNCHANGED <<source, generator, pool, functions, ulb, info>>

-----------------------------------------------------------------------------
(* parse_debug_section.                                                    *)

Repeat(n, kinds) == FlattenSeq([i \in 1..n |-> kinds])

DebugHeaderKinds == <<"marker", "u8", "u8", "u16", "u32", "u32", "u32", "u32", "u32", "u32", "u32">>
VarKinds == <<"uleb", "u8", "name", "u8", "uleb", "uleb", "uleb">>
TypeKinds == <<"uleb", "u8", "name", "uleb">> \o
    IF Number(2) = TypeKind.enum THEN <<"uleb">> ELSE Repeat(Number(4), <<"uleb", "name", "u8", "uleb", "u8">>)
FuncKinds == <<"uleb", "name", "u8">> \o Repeat(Number(3), <<"u8", "name", "u8", "uleb">>)
                 \o <<"u8", "uleb", "uleb">>
LineKinds == <<"uleb", "uleb", "uleb">> \o Repeat(Number(2), <<"uleb", "uleb">>)

Tables == {"vars", "types", "funcs", "lines"}

\* The fields that the reader takes next.
Kinds ==
    CASE stage = "debug" -> DebugHeaderKinds
      [] stage \in Tables /\ left < 0 -> <<"uleb">>
      [] stage = "vars" /\ left > 0 -> VarKinds
      [] stage = "types" /\ left > 0 -> TypeKinds
      [] stage = "funcs" /\ left > 0 -> FuncKinds
      [] stage = "lines" /\ left > 0 -> LineKinds
      [] OTHER -> <<>>

TakeEntry(at) == stage = at /\ left > 0 /\ Take(Kinds) /\ left' = left - 1 /\ UNCHANGED stage
ReadDebug == UNCHANGED <<source, generator, found>> /\ Read

\* The string heap is cut out, the tables begin at their offsets from the header.
ReadDebugHeader ==
    /\ stage = "debug" /\ Ahead(Kinds)
    /\ stage' = "vars" /\ left' = -1 /\ pos' = pos + 1 + V(6)
    /\ info' = [info EXCEPT !.debug = TRUE, !.base = pos + 1,
                    !.at = [types |-> V(7), funcs |-> V(8), lines |-> V(9)],
                    !.heap = [i \in 1..V(5) |-> V(11 + i)]]
    /\ ReadDebug

\* A table begins with the number of its entries.
ReadCount ==
    /\ stage \in Tables /\ left < 0 /\ Take(Kinds)
    /\ left' = V(1) /\ UNCHANGED <<stage, info>> /\ ReadDebug

String(i) == info.heap[V(i) + 1]

\* A later variable in the same register takes the place of an earlier one.
ReadVar ==
    /\ TakeEntry("vars")
    /\ info' = [info EXCEPT !.vars = (<<V(1), V(2)>> :>
                    [name |-> String(3), tag |-> V(4), ref |-> V(5), start |-> V(6)]) @@ @]
    /\ ReadDebug

ReadType ==
    /\ TakeEntry("types")
    /\ info' = [info EXCEPT !.types = (V(1) :>
                    [kind |-> V(2), name |-> String(3),
                     fields |-> [j \in 1..V(4) |-> [name |-> String(5 * j + 1), tag |-> V(5 * j + 2), ref |-> V(5 * j + 3)]]]) @@ @]
    /\ ReadDebug

ReadFunc ==
    /\ TakeEntry("funcs")
    /\ info' = [info EXCEPT !.funcs = (V(1) :>
                    [name |-> String(2),
                     params |-> [j \in 1..V(3) |-> [slot |-> V(4 * j), name |-> String(4 * j + 1),
                                                    tag |-> V(4 * j + 2), ref |-> V(4 * j + 3)]],
                     tag |-> V(4 * V(3) + 4), ref |-> V(4 * V(3) + 5), line |-> V(4 * V(3) + 6)]) @@ @]
    /\ ReadDebug

Unzigzag(n) == IF n % 2 = 0 THEN n \div 2 ELSE -(n \div 2) - 1

\* The points, by adding up the distances.
ReadLines ==
    /\ TakeEntry("lines")
    /\ info' = [info EXCEPT !.lines = (V(1) :> [i \in 1..V(2) |->
                    << FoldLeft(LAMBDA n, j : n + V(2 * j + 2), 0, [j \in 1..i |-> j]),
                       FoldLeft(LAMBDA n, j : n + Unzigzag(V(2 * j + 3)), V(3), [j \in 1..i |-> j]) >>]) @@ @]
    /\ ReadDebug

\* One table after the other, each at its offset from the header.
NextTable ==
    /\ \E turn \in {<<"vars", "types">>, <<"types", "funcs">>, <<"funcs", "lines">>} :
        Turn(turn[1], turn[2], -1) /\ pos' = info.base + info.at[turn[2]]
    /\ UNCHANGED info /\ ReadDebug
Finish == Turn("lines", "done", 0) /\ UNCHANGED <<pos, info>> /\ ReadDebug

Next ==
    \/ NameConstants \/ Register \/ CompileUnit
    \/ Serialize \/ WriteOrReadUlb \/ WriteCodeAndDebug \/ MembersRaise
    \/ ReadDebugHeader \/ ReadVar \/ ReadType \/ ReadFunc \/ ReadLines
    \/ ReadCount \/ NextTable \/ Finish

FileSpec == Init /\ [][Next]_fileVars

-----------------------------------------------------------------------------
(* FuncDecompiler: what it says of instruction i of function k, both from  *)
(* 0 on.  A register without a name is NoName.                             *)

RegName(k, slot, i) ==
    IF info.debug /\ <<k, slot>> \in DOMAIN info.vars /\ info.vars[<<k, slot>>].start <= i
    THEN info.vars[<<k, slot>>].name ELSE NoName

\* source_line: the last point that is not behind the instruction.
SourceLine(k, i) ==
    LET points == IF k \in DOMAIN info.lines THEN info.lines[k] ELSE <<>>
        p == SelectLastInSeq(points, LAMBDA q : q[1] <= i)
    IN  IF p = 0 THEN 0 ELSE points[p][2]

\* ul_type_str.
TypeString(tag, ref) ==
    IF tag = TypeTags.empty THEN NoName
    ELSE IF tag \in Referring /\ ref # 0 /\ ref \in DOMAIN info.types THEN info.types[ref].name
    ELSE IF \E t \in DOMAIN TypeTags : TypeTags[t] = tag THEN CHOOSE t \in DOMAIN TypeTags : TypeTags[t] = tag
    ELSE "unknown"

\* _const_str: an index past the pool is shown as such, here as nothing.
ConstString(i) == IF i < Len(found.pool) THEN found.pool[i + 1] ELSE <<>>

\* simm16, simm24: an immediate in the upper half stands for a negative number.
Signed(n, max) == IF n <= max \div 2 THEN n ELSE n - (max + 1)
Offset(i) == Signed(i.b, IF i.op = "JUMP" THEN JumpMax ELSE ImmMax)

\* The name of the function that a call is to.
Callee(i) == IF i < Len(found.functions) THEN found.functions[i + 1].name ELSE NoName

-----------------------------------------------------------------------------
\* Does the offset of a jump fit its immediate: 16 bits with a condition, 24 without?
Fits(i) == LET half == ((IF i.op = "JUMP" THEN JumpMax ELSE ImmMax) + 1) \div 2
           IN  -half <= i.b /\ i.b < half

\* A constant is found in the file if its index fits its 16 bits and not otherwise, and a
\* jump goes where it goes in the program if its offset fits and not otherwise.  Every
\* call finds its function, and the frame holds every register as long as their number
\* fits its 8 bits.
ReadAsMade(read, made) ==
    CASE made.op = "LOAD_CONST" ->
            /\ read.op = made.op /\ read.a = made.a
            /\ Place(pool, made.b) <= ImmMax <=>
                   ConstString(read.b) \in {<<ConstTag(made.b)>>, <<ConstTag(made.b), made.b>>}
      [] made.op \in {"JUMP", "JUMP_IF_FALSE"} ->
            /\ read.op = made.op /\ read.a = made.a
            /\ Fits(made) <=> Offset(read) = made.b
      [] made.op = "CALL" -> Callee(read.b) = made.b /\ [made EXCEPT !.b = read.b] = read
      [] OTHER -> read = made
Registers(code) == UNION {Bytes(i) : i \in {j \in ToSet(code) : j.op # "CALL"}}

FunctionIsRead(f, u, s) ==
    /\ f.name = UnitName(u) /\ f.params = Len(Receiver(u)) + Len(u.fn.params)
    /\ Len(CodeOf(f)) = Len(s.code)
    /\ \A i \in DOMAIN s.code : ReadAsMade(CodeOf(f)[i], s.code[i])
    /\ s.max <= RegMax => \A r \in Registers(CodeOf(f)) : r < f.regs

\* The file is read field by field as it was written, and the program in it is the one
\* that was compiled.
ProgramIsRead ==
    /\ FormatIsRead /\ Ahead(Kinds)
    /\ stage = "done" =>
        /\ Len(found.functions) = Len(Units)
        /\ \A k \in DOMAIN Units : FunctionIsRead(found.functions[k], Units[k], compiled[k])

\* Two functions of one name, nested in different ones, or a method and a function that is
\* called what the method is in code, share an index.
NamedTwice(u) == \E j, k \in DOMAIN Names : j < k /\ Names[j] = UnitName(u) /\ Names[k] = UnitName(u)

\* The types that users declare have no tag.
Declared(t) == IF t \in {NoName, "empty"} THEN NoName ELSE IF t \in DOMAIN TypeTags THEN t ELSE "unknown"

\* A variable has its name from its last declaration on, a parameter that is not declared
\* again has it everywhere; a variable that only a loop declares, and the object of a
\* method, never has it.  No register ever has the name of another.
HasName(x, u, s, i) ==
    LET d == SelectLastInSeq(s.locals, LAMBDA l : l.name = x)
    IN  IF d # 0 THEN i >= s.locals[d].start ELSE x \in ToSet(ParamNames(u.fn))
NamesAreRead(k, u, s) == \A i \in 0..(Len(s.code) - 1) :
    /\ \A x \in DOMAIN s.vars : RegName(k, s.vars[x], i) = IF HasName(x, u, s, i) THEN x ELSE NoName
    /\ \A r \in s.base..(s.max - 1) : RegName(k, r, i) = NoName
LocalTypesAreRead(k, s) == \A i \in DOMAIN s.locals :
    LET l == s.locals[i] IN
    (\A j \in (i + 1)..Len(s.locals) : s.locals[j].slot # l.slot) =>
        LET v == info.vars[<<k, l.slot>>] IN TypeString(v.tag, v.ref) = Declared(l.type)

SignatureIsRead(k, u) ==
    LET f == info.funcs[k]
        given == SelectSeq(f.params, LAMBDA p : p.name # Self)
    IN  /\ f.name = UnitName(u) /\ f.line = u.fn.line
        /\ TypeString(f.tag, f.ref) = Declared(u.fn.returns)
        /\ [i \in DOMAIN given |-> <<given[i].name, TypeString(given[i].tag, given[i].ref)>>]
               = [i \in DOMAIN u.fn.params |-> <<u.fn.params[i].name, Declared(u.fn.params[i].type)>>]

\* The line of the statement that an instruction belongs to: of those that begin at one
\* instruction, of the first.
Line(s, i) ==
    LET before == SelectSeq(s.lines, LAMBDA e : e[1] <= i)
    IN  IF before = <<>> THEN 0
        ELSE s.lines[SelectInSeq(s.lines, LAMBDA e : e[1] = before[Len(before)][1])][2]

\* An instruction has its line; or, since the first distance is at least one, that of the
\* instruction before it, if there is a statement at the first instruction.
LinesAreRead(k, s) == \A i \in 0..(Len(s.code) - 1) :
    LET late == s.lines # <<>> /\ s.lines[1][1] = 0
    IN  SourceLine(k, i) = IF ~late THEN Line(s, i) ELSE IF i = 0 THEN 0 ELSE Line(s, i - 1)

TypesAreRead == \A i \in DOMAIN types :
    LET t == info.types[i - 1] IN
    /\ t.name = types[i].name /\ t.kind = TypeKind[types[i].kind]
    /\ [j \in DOMAIN t.fields |-> <<t.fields[j].name, TypeString(t.fields[j].tag, t.fields[j].ref)>>]
           = [j \in DOMAIN types[i].fields |-> <<types[i].fields[j].name, Declared(types[i].fields[j].type)>>]

\* What the debug section says of a function, the decompiler finds: signature, types,
\* lines, and at every instruction the names of the registers.
DebugIsRead == stage = "done" =>
    /\ info.debug = ~strip
    /\ info.debug =>
        /\ TypesAreRead
        /\ \A k \in DOMAIN Units : ~NamedTwice(Units[k]) =>
            /\ SignatureIsRead(k - 1, Units[k])
            /\ NamesAreRead(k - 1, Units[k], compiled[k]) /\ LocalTypesAreRead(k - 1, compiled[k])
            /\ LinesAreRead(k - 1, compiled[k])
=============================================================================
