--------------------------- MODULE BytecodeFormat ---------------------------
(***************************************************************************)
(* The .ulb part of a .ubi file: how serialize (ul2ubi.py) writes the pool *)
(* of constants and the functions of a program, and how parse_ulb          *)
(* (ubi2ul.py) reads them back.  No entry says how long it is and the code *)
(* of all functions is one stream, so a reader that takes one field too    *)
(* many at any entry misreads all that follows.                            *)
(*                                                                         *)
(* A file is a sequence of fields, each with the kind by which it is       *)
(* written or read; a string is one field, its length included.  Sizes and *)
(* offsets are counted in fields.                                          *)
(***************************************************************************)
EXTENDS Integers, Sequences

CONSTANT
    TagOf       \* the types of those constants that are not int: constants are numbers

ASSUME FormatAssumption ==
    \A c \in DOMAIN TagOf : TagOf[c] \in {"int", "float", "string", "bool", "empty"}

VARIABLES
    stage,
    pool, functions,    \* of BytecodeGen: what is to be written
    offsets, instrs,    \* instr_offset of the functions so far, and all_instrs
    file,
    pos, left, found    \* of the reader; left counts for the writer too

formatVars == <<stage, pool, functions, offsets, instrs, file, pos, left, found>>

\* ULBFile, the number of functions, and what their instructions add up to.
NothingFound == [pool |-> <<>>, functions |-> <<>>, count |-> 0, size |-> 0, code |-> <<>>]

\* Any pool and any functions.
Instr == [op : STRING, a : Int, b : Int, c : Int]
Func == [name : STRING, params : Nat, regs : Nat, code : Seq(Instr)]
FormatInit ==
    /\ stage = "layout" /\ pool \in Seq(Int) /\ functions \in Seq(Func)
    /\ offsets = <<>> /\ instrs = <<>> /\ file = <<>>
    /\ pos = 1 /\ left = 0 /\ found = NothingFound

-----------------------------------------------------------------------------
(* serialize.                                                              *)

TypeTags == [int |-> 1, float |-> 2, string |-> 3, bool |-> 4, empty |-> 5,
             array |-> 6, type |-> 7, object |-> 8, result |-> 9, list |-> 10]
ConstTag(c) == TypeTags[IF c \in DOMAIN TagOf THEN TagOf[c] ELSE "int"]

Field(is, v) == [is |-> is, v |-> v]
U8(v) == Field("u8", v)
U16(v) == Field("u16", v)
U32(v) == Field("u32", v)

Written == UNCHANGED <<pool, functions, pos, found>>

\* A part of the file has been written or read, and the next begins.
Turn(from, to, n) == stage = from /\ left = 0 /\ stage' = to /\ left' = n

\* The next entry of a part is written.
Put(at, fields) ==
    /\ stage = at /\ left > 0 /\ left' = left - 1
    /\ file' = file \o fields
    /\ UNCHANGED <<stage, offsets, instrs>> /\ Written

\* Mutant: every function begins where the code does.
GatherAtFront ==
    /\ stage = "layout" /\ Len(offsets) < Len(functions)
    /\ offsets' = Append(offsets, 0)
    /\ instrs' = instrs \o functions[Len(offsets) + 1].code
    /\ UNCHANGED <<stage, file, left>> /\ Written

\* The code of one function after that of the others.
GatherCode ==
    /\ stage = "layout" /\ Len(offsets) < Len(functions)
    /\ offsets' = Append(offsets, Len(instrs))
    /\ instrs' = instrs \o functions[Len(offsets) + 1].code
    /\ UNCHANGED <<stage, file, left>> /\ Written

WriteHeader ==
    /\ stage = "layout" /\ Len(offsets) = Len(functions)
    /\ stage' = "put_consts" /\ left' = Len(pool)
    /\ file' = <<U32("ULBC"), U16(1), U16(0), U32(Len(pool)), U32(Len(functions)), U32(0), U32(0)>>
    /\ UNCHANGED <<offsets, instrs>> /\ Written

\* What follows the tag of a constant; nothing follows that of "empty".
Payloads == [int |-> <<"i64">>, float |-> <<"f64">>, string |-> <<"string">>, bool |-> <<"u8">>, empty |-> <<>>]
PayloadOf(tag) == Payloads[CHOOSE t \in DOMAIN Payloads : TypeTags[t] = tag]
ConstFields(i) == LET c == pool[i] IN
    <<U8(ConstTag(c))>> \o [j \in DOMAIN PayloadOf(ConstTag(c)) |-> Field(PayloadOf(ConstTag(c))[j], c)]
WriteConst == Put("put_consts", ConstFields(Len(pool) - left + 1))

BeginPutFunctions ==
    /\ Turn("put_consts", "put_functions", Len(functions))
    /\ UNCHANGED <<offsets, instrs, file>> /\ Written

FunctionFields(k) ==
    LET f == functions[k]
    IN  <<Field("string", f.name), U8(f.params), U8(f.regs), U32(offsets[k]), U32(Len(f.code)), U32(0), U16(0)>>
\* pack raises for a count of more than a byte, and then no file is written.
WriteFunction ==
    LET k == Len(functions) - left + 1
    IN  /\ k \in DOMAIN functions /\ functions[k].params < 256 /\ functions[k].regs < 256
        /\ Put("put_functions", FunctionFields(k))

\* The instructions, and the debug section if there is to be one.
WriteCode(section) ==
    /\ Turn("put_functions", "header", 0)
    /\ file' = file \o [i \in DOMAIN instrs |-> Field("code", instrs[i])] \o section
    /\ UNCHANGED <<offsets, instrs>> /\ Written

\* A debug section begins with its marker.
Section == {s \in Seq([is : STRING, v : Int \cup STRING \cup Instr]) : s # <<>> => s[1].is = "marker"}

-----------------------------------------------------------------------------
(* parse_ulb.                                                              *)

\* The value of field number i after the position, and whether the fields from there on
\* are of the kinds that are read.
V(i) == file[pos + i - 1].v
Ahead(kinds) == \A i \in DOMAIN kinds : pos + i - 1 <= Len(file) /\ file[pos + i - 1].is = kinds[i]
Number(i) == IF pos + i - 1 <= Len(file) /\ file[pos + i - 1].is \in {"u8", "uleb"} THEN V(i) ELSE 0

\* Fields of the right kinds are taken.
Take(kinds) == Ahead(kinds) /\ pos' = pos + Len(kinds)
Read == UNCHANGED <<pool, functions, offsets, instrs, file>>

HeaderKinds == <<"u32", "u16", "u16", "u32", "u32", "u32", "u32">>
\* A tag that is not known has no payload.
ConstKinds == <<"u8">> \o (IF \E t \in DOMAIN Payloads : TypeTags[t] = Number(1) THEN PayloadOf(Number(1)) ELSE <<>>)
FunctionKinds == <<"string", "u8", "u8", "u32", "u32", "u32", "u16">>

\* The fields that the reader takes next.
UlbKinds ==
    CASE stage = "header" -> HeaderKinds
      [] stage = "consts" /\ left > 0 -> ConstKinds
      [] stage = "functions" /\ left > 0 -> FunctionKinds
      [] OTHER -> <<>>

ReadHeader ==
    /\ stage = "header" /\ Take(HeaderKinds)
    /\ stage' = "consts" /\ left' = V(4)
    /\ found' = [found EXCEPT !.count = V(5)]
    /\ Read

ReadConst ==
    /\ stage = "consts" /\ left > 0 /\ Take(ConstKinds) /\ left' = left - 1
    /\ found' = [found EXCEPT !.pool = Append(@, IF Len(ConstKinds) = 1 THEN <<V(1)>> ELSE <<V(1), V(2)>>)]
    /\ UNCHANGED stage /\ Read

BeginFunctions == Turn("consts", "functions", found.count) /\ UNCHANGED <<pos, found>> /\ Read

ReadFunction ==
    /\ stage = "functions" /\ left > 0 /\ Take(FunctionKinds) /\ left' = left - 1
    /\ found' = [found EXCEPT !.size = @ + V(5), !.functions =
                    Append(@, [name |-> V(1), params |-> V(2), regs |-> V(3), offset |-> V(4), count |-> V(5)])]
    /\ UNCHANGED stage /\ Read

\* The code of all functions, and then the marker wherever it is.
ReadCode ==
    /\ stage = "functions" /\ left = 0
    /\ found' = [found EXCEPT !.code = [i \in 1..found.size |-> V(i)]]
    /\ \E markers \in {{i \in (pos + found.size)..Len(file) : file[i].is = "marker"}} :
        IF markers = {} THEN stage' = "done" /\ pos' = pos + found.size
        ELSE stage' = "debug" /\ \E i \in markers : pos' = i /\ \A j \in markers : i <= j
    /\ UNCHANGED left /\ Read

WriteOrRead ==
    \/ GatherCode \/ WriteHeader \/ WriteConst \/ BeginPutFunctions \/ WriteFunction
    \/ ReadHeader \/ ReadConst \/ BeginFunctions \/ ReadFunction \/ ReadCode

FormatNext == WriteOrRead \/ \E section \in Section : WriteCode(section)

FormatSpec == FormatInit /\ [][FormatNext]_formatVars

-----------------------------------------------------------------------------
\* _func_bytes of FuncDecompiler.
CodeOf(f) == SubSeq(found.code, f.offset + 1, f.offset + f.count)

\* What the reader has found is what was written: constants with their types, functions
\* with their code.
UlbIsRead ==
    /\ Len(found.pool) = Len(pool)
    /\ \A i \in DOMAIN pool :
          found.pool[i] = IF ConstTag(pool[i]) = TypeTags.empty THEN <<ConstTag(pool[i])>>
                                                               ELSE <<ConstTag(pool[i]), pool[i]>>
    /\ Len(found.functions) = Len(functions)
    /\ \A k \in DOMAIN functions :
          LET f == found.functions[k] IN
          /\ f.name = functions[k].name /\ f.params = functions[k].params /\ f.regs = functions[k].regs
          /\ CodeOf(f) = functions[k].code

\* The reader finds every field to be of the kind that it takes, for whatever was written,
\* and in the end has all of it and leaves nothing unread.
FormatIsRead ==
    /\ Ahead(UlbKinds)
    /\ stage \in {"debug", "done"} => UlbIsRead
    /\ stage = "done" => pos = Len(file) + 1
=============================================================================
