------------------------ MODULE BytecodeFormatProof ------------------------
(***************************************************************************)
(* Whatever is written by serialize is read back by parse_ulb, for any     *)
(* pool of constants and any functions.                                    *)
(*                                                                         *)
(* Entries have no length in the file, and constants have one or two       *)
(* fields.  The invariant therefore says that there is a place for every   *)
(* constant (at), each where the one before ends, that the file has at     *)
(* every place what was written there, and that the reader is at the place *)
(* of the entry that it takes next.  The writer finds the next place at    *)
(* the end of the file, the reader in the kinds of the fields it takes.    *)
(***************************************************************************)
EXTENDS BytecodeFormat, SequenceTheorems, TLAPS

\* All strings; the literals are named because no prover knows them for strings.
Kind == STRING \cup {"u8", "u16", "u32", "string", "i64", "f64", "code"}
Value == Int \cup STRING \cup {"ULBC"} \cup Instr
Fields == [is : Kind, v : Value]

M == Len(functions)
N == Len(pool)

-----------------------------------------------------------------------------
(* What is where in a file f.                                              *)

Has(f, p, is, v) == p \in 1..Len(f) /\ f[p] = Field(is, v)

HeaderIn(f) ==
    /\ Has(f, 1, "u32", "ULBC") /\ Has(f, 2, "u16", 1) /\ Has(f, 3, "u16", 0)
    /\ Has(f, 4, "u32", N) /\ Has(f, 5, "u32", M) /\ Has(f, 6, "u32", 0) /\ Has(f, 7, "u32", 0)

\* The length of a constant's entry.
Size(c) == 1 + Len(PayloadOf(ConstTag(c)))
ConstIn(f, p, c) ==
    /\ Has(f, p, "u8", ConstTag(c))
    /\ Size(c) = 2 => Has(f, p + 1, PayloadOf(ConstTag(c))[1], c)

\* The first n constants have their places.
Places == [1..(N + 1) -> Nat]
ConstsIn(f, at, n) ==
    /\ at \in Places /\ at[1] = 8
    /\ \A i \in 1..n : ConstIn(f, at[i], pool[i]) /\ at[i + 1] = at[i] + Size(pool[i])

FunctionIn(f, p, k) ==
    /\ Has(f, p, "string", functions[k].name)
    /\ Has(f, p + 1, "u8", functions[k].params) /\ Has(f, p + 2, "u8", functions[k].regs)
    /\ Has(f, p + 3, "u32", offsets[k]) /\ Has(f, p + 4, "u32", Len(functions[k].code))
    /\ Has(f, p + 5, "u32", 0) /\ Has(f, p + 6, "u16", 0)
FunctionsIn(f, p, n) == \A k \in 1..n : FunctionIn(f, p + 7 * (k - 1), k)

\* The code from p on, and nothing or a marker at its end.
CodeIn(f, p) == \A i \in 1..Len(instrs) : Has(f, p + i - 1, "code", instrs[i])
EndsIn(f, p) == /\ Len(f) >= p - 1
                /\ p <= Len(f) => f[p].is = "marker"

\* Where the code begins.
CodePlace(at) == at[N + 1] + 7 * M
WholeIn(f, at) ==
    /\ HeaderIn(f) /\ ConstsIn(f, at, N) /\ FunctionsIn(f, at[N + 1], M)
    /\ CodeIn(f, CodePlace(at)) /\ EndsIn(f, CodePlace(at) + Len(instrs))

-----------------------------------------------------------------------------
\* Where the code of the first n functions ends, once it is gathered.
End(n) == IF n < Len(offsets) THEN offsets[n + 1] ELSE Len(instrs)
Gathered ==
    /\ Len(offsets) = 0 => Len(instrs) = 0
    /\ Len(offsets) > 0 => offsets[1] = 0
    /\ \A k \in 1..Len(offsets) :
          /\ End(k) = offsets[k] + Len(functions[k].code)
          /\ End(k) <= Len(instrs)
          /\ \A i \in 1..Len(functions[k].code) : instrs[offsets[k] + i] = functions[k].code[i]

ULB == [pool : Seq(Seq(Value)),
        functions : Seq([name : Value, params : Value, regs : Value, offset : Value, count : Value]),
        count : Nat, size : Nat, code : Seq(Value)]

Types ==
    /\ pool \in Seq(Int) /\ functions \in Seq(Func)
    /\ offsets \in Seq(Nat) /\ instrs \in Seq(Instr) /\ Len(offsets) <= M
    /\ file \in Seq(Fields) /\ pos \in Nat \ {0} /\ left \in Nat
    /\ found \in ULB

\* What the reader has to show of a constant, and of a function.
Known(c) == IF ConstTag(c) = TypeTags.empty THEN <<ConstTag(c)>> ELSE <<ConstTag(c), c>>
PoolFound(n) == Len(found.pool) = n /\ \A i \in 1..n : found.pool[i] = Known(pool[i])
FunctionsFound(n) ==
    /\ Len(found.functions) = n
    /\ \A k \in 1..n : found.functions[k] =
          [name |-> functions[k].name, params |-> functions[k].params, regs |-> functions[k].regs,
           offset |-> offsets[k], count |-> Len(functions[k].code)]

\* The file ends with n constants, or with n functions; the reader comes to the constant or
\* the function after the n-th.
ConstsPut(n) == \E at \in Places : ConstsIn(file, at, n) /\ Len(file) = at[n + 1] - 1
FunctionsPut(n) ==
    \E at \in Places : /\ ConstsIn(file, at, N) /\ FunctionsIn(file, at[N + 1], n)
                       /\ Len(file) = at[N + 1] + 7 * n - 1
AtConst(n) == \E at \in Places : WholeIn(file, at) /\ pos = at[n + 1]
AtFunction(n) == \E at \in Places : WholeIn(file, at) /\ pos = at[N + 1] + 7 * n

Unread == pos = 1 /\ found = NothingFound
Complete == Len(offsets) = M

Stages == {"layout", "put_consts", "put_functions", "header", "consts", "functions", "debug", "done"}
Progress ==
    /\ stage \in Stages
    /\ stage # "layout" => Complete
    /\ stage = "layout" => left = 0 /\ Unread
    /\ stage = "put_consts" => left <= N /\ Unread /\ HeaderIn(file) /\ ConstsPut(N - left)
    /\ stage = "put_functions" => left <= M /\ Unread /\ HeaderIn(file) /\ FunctionsPut(M - left)
    /\ stage = "header" => Unread /\ \E at \in Places : WholeIn(file, at)
    /\ stage = "consts" =>
          /\ left <= N /\ AtConst(N - left)
          /\ PoolFound(N - left) /\ FunctionsFound(0) /\ found.count = M /\ found.size = 0
    /\ stage = "functions" =>
          /\ left <= M /\ AtFunction(M - left)
          /\ PoolFound(N) /\ FunctionsFound(M - left) /\ found.size = End(M - left)
    /\ stage \in {"debug", "done"} => PoolFound(N) /\ FunctionsFound(M) /\ found.code = instrs
    /\ stage = "done" => pos = Len(file) + 1

FInv == Types /\ Gathered /\ Progress

-----------------------------------------------------------------------------
(* Constants, and files that grow.                                         *)

LEMMA Single ==
  ASSUME NEW S, NEW e \in S
  PROVE  <<e>> \in Seq(S) /\ Len(<<e>>) = 1 /\ <<e>>[1] = e
OBVIOUS

LEMMA PayloadFacts ==
  ASSUME NEW c
  PROVE  /\ ConstTag(c) \in 1..5
         /\ \E t \in DOMAIN Payloads : TypeTags[t] = ConstTag(c)
         /\ PayloadOf(ConstTag(c)) \in Seq(Kind)
         /\ Size(c) = IF ConstTag(c) = TypeTags.empty THEN 1 ELSE 2
<1> DEFINE t == IF c \in DOMAIN TagOf THEN TagOf[c] ELSE "int"
<1>1. t \in {"int", "float", "string", "bool", "empty"}
  BY FormatAssumption
<1>2. ConstTag(c) = TypeTags[t]
  BY DEF ConstTag
<1> HIDE DEF t
<1>3. DOMAIN Payloads = {"int", "float", "string", "bool", "empty"}
  BY DEF Payloads
<1>4. \A u \in DOMAIN Payloads : TypeTags[u] = TypeTags[t] => u = t
  BY <1>1, <1>3 DEF TypeTags
<1>5. (CHOOSE u \in DOMAIN Payloads : TypeTags[u] = ConstTag(c)) = t
  BY <1>1, <1>2, <1>3, <1>4
<1>6. PayloadOf(ConstTag(c)) = Payloads[t]
  BY <1>5 DEF PayloadOf
<1>7. Payloads[t] \in Seq(Kind) /\ Len(Payloads[t]) = IF t = "empty" THEN 0 ELSE 1
  <2>1. \A k \in {"i64", "f64", "string", "u8"} : <<k>> \in Seq(Kind) /\ Len(<<k>>) = 1
    BY Single DEF Kind
  <2>2. <<>> \in Seq(Kind) /\ Len(<<>>) = 0
    BY EmptySeq
  <2>3. /\ Payloads["int"] = <<"i64">> /\ Payloads["float"] = <<"f64">> /\ Payloads["string"] = <<"string">>
        /\ Payloads["bool"] = <<"u8">> /\ Payloads["empty"] = <<>>
    BY DEF Payloads
  <2> DEFINE payload == Payloads[t]
  <2>4. CASE t = "empty"
    <3>1. payload = <<>>
      BY <2>3, <2>4
    <3> HIDE DEF payload
    <3>2. payload \in Seq(Kind) /\ Len(payload) = 0
      BY <2>2, <3>1
    <3> QED BY <2>4, <3>2 DEF payload
  <2>5. CASE t # "empty"
    <3>1. payload \in {<<"i64">>, <<"f64">>, <<"string">>, <<"u8">>}
      BY <1>1, <2>3, <2>5
    <3> HIDE DEF payload
    <3>2. payload \in Seq(Kind) /\ Len(payload) = 1
      BY <2>1, <3>1, Zenon
    <3> QED BY <2>5, <3>2 DEF payload
  <2> QED BY <2>4, <2>5
<1>8. TypeTags[t] \in 1..5 /\ (TypeTags[t] = TypeTags.empty <=> t = "empty")
  BY <1>1 DEF TypeTags
<1> QED BY <1>1, <1>2, <1>3, <1>6, <1>7, <1>8 DEF Size

LEMMA FieldsAre ==
  ASSUME NEW is \in Kind, NEW v \in Value
  PROVE  Field(is, v) \in Fields /\ Field(is, v).is = is /\ Field(is, v).v = v
BY DEF Field, Fields

\* A file that is longer has all that it had.
Grows(f, h) == Len(f) <= Len(h) /\ \A i \in 1..Len(f) : h[i] = f[i]

LEMMA MoreIsWritten ==
  ASSUME NEW f \in Seq(Fields), NEW g \in Seq(Fields)
  PROVE  /\ f \o g \in Seq(Fields) /\ Len(f \o g) = Len(f) + Len(g) /\ Grows(f, f \o g)
         /\ \A j \in 1..Len(g) : (f \o g)[Len(f) + j] = g[j]
<1>1. Len(f) \in Nat /\ Len(g) \in Nat
  BY LenProperties
<1>2. /\ f \o g \in Seq(Fields) /\ Len(f \o g) = Len(f) + Len(g)
      /\ \A i \in 1..Len(f) + Len(g) : (f \o g)[i] = IF i <= Len(f) THEN f[i] ELSE g[i - Len(f)]
  BY ConcatProperties
<1>3. ASSUME NEW j \in 1..Len(g) PROVE (f \o g)[Len(f) + j] = g[j]
  <2>1. Len(f) + j \in 1..Len(f) + Len(g) /\ ~(Len(f) + j <= Len(f)) /\ Len(f) + j - Len(f) = j
    BY <1>1
  <2> QED BY <1>2, <2>1
<1> QED BY <1>1, <1>2, <1>3 DEF Grows

LEMMA HasStill ==
  ASSUME NEW f \in Seq(Fields), NEW h \in Seq(Fields), Grows(f, h),
         NEW p, NEW is, NEW v, Has(f, p, is, v)
  PROVE  Has(h, p, is, v)
BY LenProperties DEF Grows, Has

LEMMA HeaderInStill ==
  ASSUME NEW f \in Seq(Fields), NEW h \in Seq(Fields), Grows(f, h), HeaderIn(f)
  PROVE  HeaderIn(h)
BY HasStill DEF HeaderIn

LEMMA ConstsInStill ==
  ASSUME NEW f \in Seq(Fields), NEW h \in Seq(Fields), Grows(f, h),
         NEW at, NEW n, ConstsIn(f, at, n)
  PROVE  ConstsIn(h, at, n)
BY HasStill DEF ConstsIn, ConstIn

LEMMA FunctionsInStill ==
  ASSUME NEW f \in Seq(Fields), NEW h \in Seq(Fields), Grows(f, h),
         NEW p, NEW n, FunctionsIn(f, p, n)
  PROVE  FunctionsIn(h, p, n)
BY HasStill DEF FunctionsIn, FunctionIn

-----------------------------------------------------------------------------
(* The steps of serialize.                                                 *)

LEMMA TypesGive ==
  ASSUME Types
  PROVE  /\ N \in Nat /\ M \in Nat /\ Len(offsets) \in Nat /\ Len(instrs) \in Nat /\ Len(file) \in Nat
         /\ \A i \in 1..N : pool[i] \in Int
         /\ \A k \in 1..M : /\ functions[k] \in Func /\ functions[k].code \in Seq(Instr)
                            /\ Len(functions[k].code) \in Nat
         /\ \A k \in 1..Len(offsets) : offsets[k] \in Nat
         /\ \A i \in 1..Len(instrs) : instrs[i] \in Instr
<1>1. N \in Nat /\ M \in Nat /\ Len(offsets) \in Nat /\ Len(instrs) \in Nat /\ Len(file) \in Nat
  BY LenProperties DEF Types, N, M
<1>2. \A i \in 1..N : pool[i] \in Int
  BY ElementOfSeq DEF Types, N
<1>3. \A k \in 1..M : functions[k] \in Func
  BY ElementOfSeq DEF Types, M
<1>4. ASSUME NEW k \in 1..M PROVE functions[k].code \in Seq(Instr) /\ Len(functions[k].code) \in Nat
  <2>1. functions[k].code \in Seq(Instr)
    BY <1>3 DEF Func
  <2> QED BY <2>1, LenProperties
<1>5. \A k \in 1..Len(offsets) : offsets[k] \in Nat
  BY ElementOfSeq DEF Types
<1>6. \A i \in 1..Len(instrs) : instrs[i] \in Instr
  BY ElementOfSeq DEF Types
<1> QED BY <1>1, <1>2, <1>3, <1>4, <1>5, <1>6

LEMMA InitFInv == FormatInit => FInv
<1> SUFFICES ASSUME FormatInit PROVE FInv
  OBVIOUS
<1>1. Types
  <2>1. <<>> \in Seq(Nat) /\ <<>> \in Seq(Instr) /\ <<>> \in Seq(Fields) /\ <<>> \in Seq(Value)
        /\ <<>> \in Seq(Seq(Value))
        /\ <<>> \in Seq([name : Value, params : Value, regs : Value, offset : Value, count : Value])
        /\ Len(<<>>) = 0
    BY EmptySeq
  <2>2. Len(functions) \in Nat
    BY LenProperties DEF FormatInit
  <2> QED BY <2>1, <2>2 DEF FormatInit, Types, ULB, NothingFound, M
<1>2. Gathered
  BY EmptySeq DEF FormatInit, Gathered
<1>3. Progress
  BY DEF FormatInit, Progress, Stages, Unread
<1> QED BY <1>1, <1>2, <1>3 DEF FInv

LEMMA GatherCodeFInv ==
  ASSUME FInv, GatherCode
  PROVE  FInv'
<1> DEFINE n == Len(offsets)
           code == functions[n + 1].code
<1>1. /\ n \in Nat /\ M \in Nat /\ n < M /\ code \in Seq(Instr) /\ Len(code) \in Nat /\ Len(instrs) \in Nat
  <2>1. Len(offsets) < M /\ Types
    BY DEF FInv, GatherCode, M
  <2>2. Len(offsets) + 1 \in 1..M
    BY <2>1, TypesGive
  <2> QED BY <2>1, <2>2, TypesGive
<1>2. /\ offsets' = Append(offsets, Len(instrs)) /\ instrs' = instrs \o code
      /\ stage = "layout" /\ stage' = "layout" /\ left' = left /\ file' = file
      /\ pool' = pool /\ functions' = functions /\ pos' = pos /\ found' = found
  BY DEF GatherCode, Written
<1>3. /\ offsets' \in Seq(Nat) /\ Len(offsets') = n + 1
      /\ (\A k \in 1..n : offsets'[k] = offsets[k]) /\ offsets'[n + 1] = Len(instrs)
  BY <1>1, <1>2, AppendProperties DEF FInv, Types
<1>4. /\ instrs' \in Seq(Instr) /\ Len(instrs') = Len(instrs) + Len(code)
      /\ \A i \in 1..Len(instrs) + Len(code) :
             instrs'[i] = IF i <= Len(instrs) THEN instrs[i] ELSE code[i - Len(instrs)]
  BY <1>1, <1>2, ConcatProperties DEF FInv, Types
<1> HIDE DEF n, code
<1>5. Types'
  BY <1>1, <1>2, <1>3, <1>4 DEF FInv, Types, M
<1>6. Gathered'
  <2>1. \A k \in 1..n : End(k)' = End(k) /\ End(k) <= Len(instrs)
    <3>1. SUFFICES ASSUME NEW k \in 1..n PROVE End(k)' = End(k) /\ End(k) <= Len(instrs)
      OBVIOUS
    <3>2. End(k) <= Len(instrs)
      BY <1>1 DEF FInv, Gathered, n
    <3>3. End(k)' = IF k < n + 1 THEN offsets'[k + 1] ELSE Len(instrs')
      BY <1>3 DEF End
    <3>4. CASE k < n
      <4>1. k + 1 \in 1..n /\ k < n + 1
        BY <1>1, <3>4
      <4>2. End(k) = offsets[k + 1]
        BY <3>4 DEF End, n
      <4> QED BY <1>3, <3>2, <3>3, <4>1, <4>2
    <3>5. CASE k = n
      BY <1>1, <1>3, <3>2, <3>3, <3>5 DEF End, n
    <3> QED BY <1>1, <3>4, <3>5
  <2>2. offsets'[1] = 0
    BY <1>1, <1>3 DEF FInv, Gathered, n
  <2>3. \A k \in 1..n : offsets[k] \in Nat
    BY TypesGive DEF FInv, n
  <2>4. ASSUME NEW k \in 1..n + 1
        PROVE  /\ End(k)' = offsets'[k] + Len(functions[k].code)
               /\ End(k)' <= Len(instrs')
               /\ \A i \in 1..Len(functions[k].code) : instrs'[offsets'[k] + i] = functions[k].code[i]
    <3>1. CASE k <= n
      <4>1. /\ End(k) = offsets[k] + Len(functions[k].code)
            /\ \A i \in 1..Len(functions[k].code) : instrs[offsets[k] + i] = functions[k].code[i]
        BY <1>1, <3>1 DEF FInv, Gathered, n
      <4>2. Len(functions[k].code) \in Nat
        BY <1>1, <3>1, TypesGive DEF FInv
      <4>3. offsets[k] \in Nat /\ End(k) <= Len(instrs) /\ End(k)' = End(k) /\ offsets'[k] = offsets[k]
        BY <1>1, <1>3, <2>1, <2>3, <3>1
      <4>4. ASSUME NEW i \in 1..Len(functions[k].code) PROVE instrs'[offsets[k] + i] = instrs[offsets[k] + i]
        <5>1. offsets[k] + i \in 1..Len(instrs) + Len(code) /\ offsets[k] + i <= Len(instrs)
          BY <1>1, <4>1, <4>2, <4>3
        <5> QED BY <1>4, <5>1
      <4> QED BY <1>1, <1>4, <4>1, <4>2, <4>3, <4>4
    <3>2. CASE k = n + 1
      <4>1. End(k)' = Len(instrs') /\ offsets'[k] = Len(instrs) /\ functions[k].code = code
        BY <1>1, <1>3, <3>2 DEF End, code
      <4>2. ASSUME NEW i \in 1..Len(code) PROVE instrs'[Len(instrs) + i] = code[i]
        BY <1>1, <1>4
      <4> QED BY <1>1, <1>4, <4>1, <4>2
    <3> QED BY <1>1, <3>1, <3>2
  <2>5. functions' = functions /\ Len(offsets') = n + 1 /\ Len(offsets') # 0
    BY <1>1, <1>2, <1>3
  <2> QED BY <2>2, <2>4, <2>5 DEF Gathered
<1>7. Progress'
  BY <1>2 DEF FInv, Progress, Unread, Stages
<1> QED BY <1>5, <1>6, <1>7 DEF FInv

LEMMA SevenFields ==
  ASSUME NEW a \in Fields, NEW b \in Fields, NEW c \in Fields, NEW d \in Fields,
         NEW e \in Fields, NEW f \in Fields, NEW g \in Fields
  PROVE  LET s == <<a, b, c, d, e, f, g>> IN
         /\ s \in Seq(Fields) /\ Len(s) = 7
         /\ s[1] = a /\ s[2] = b /\ s[3] = c /\ s[4] = d /\ s[5] = e /\ s[6] = f /\ s[7] = g
OBVIOUS

LEMMA WriteHeaderFInv ==
  ASSUME FInv, WriteHeader
  PROVE  FInv'
<1>1. /\ stage' = "put_consts" /\ left' = N /\ pos' = pos /\ found' = found
      /\ pool' = pool /\ functions' = functions /\ offsets' = offsets /\ instrs' = instrs
      /\ stage = "layout" /\ Len(offsets) = M
  BY DEF WriteHeader, Written, N, M
<1>0. file' = <<Field("u32", "ULBC"), Field("u16", 1), Field("u16", 0), Field("u32", N), Field("u32", M),
             Field("u32", 0), Field("u32", 0)>>
  BY DEF WriteHeader, N, M, U16, U32
<1>2. N \in Nat /\ M \in Nat
  BY TypesGive DEF FInv
<1>3. /\ file' \in Seq(Fields) /\ Len(file') = 7
      /\ file'[1] = Field("u32", "ULBC") /\ file'[2] = Field("u16", 1) /\ file'[3] = Field("u16", 0)
      /\ file'[4] = Field("u32", N) /\ file'[5] = Field("u32", M)
      /\ file'[6] = Field("u32", 0) /\ file'[7] = Field("u32", 0)
  <2>1. {"ULBC", 0, 1, N, M} \subseteq Value /\ {"u16", "u32"} \subseteq Kind
    BY <1>2 DEF Value, Kind
  <2>2. \A is \in {"u16", "u32"}, v \in {"ULBC", 0, 1, N, M} : Field(is, v) \in Fields
    BY <2>1, FieldsAre
  <2> HIDE DEF N, M
  <2> QED BY <1>0, <2>2, SevenFields
<1>4. Types'
  BY <1>1, <1>2, <1>3 DEF FInv, Types, M
<1>5. Gathered'
  BY <1>1 DEF FInv, Gathered, End
<1>6. Progress'
  <2>1. HeaderIn(file)'
    BY <1>1, <1>3 DEF HeaderIn, Has, N, M
  <2>2. ConstsPut(0)'
    <3>1. [i \in 1..(N' + 1) |-> 8] \in Places' /\ [i \in 1..(N' + 1) |-> 8][1] = 8
      BY <1>1, <1>2 DEF Places, N
    <3>2. PICK at : at \in Places' /\ at[1] = 8
      BY <3>1
    <3>3. ConstsIn(file, at, 0)' /\ Len(file') = at[0 + 1] - 1
      BY <1>3, <3>2 DEF ConstsIn
    <3> QED BY <3>2, <3>3 DEF ConstsPut
  <2>3. N' = N /\ N - left' = 0 /\ left' <= N
    BY <1>1, <1>2 DEF N
  <2>4. Unread' /\ Complete'
    BY <1>1 DEF FInv, Progress, Unread, Complete, M
  <2> QED BY <1>1, <2>1, <2>2, <2>3, <2>4 DEF Progress, Stages
<1> QED BY <1>4, <1>5, <1>6 DEF FInv

LEMMA ConstFieldsAre ==
  ASSUME Types, NEW i \in 1..N
  PROVE  /\ ConstFields(i) \in Seq(Fields) /\ Len(ConstFields(i)) = Size(pool[i])
         /\ ConstFields(i)[1] = Field("u8", ConstTag(pool[i]))
         /\ Size(pool[i]) = 2 => ConstFields(i)[2] = Field(PayloadOf(ConstTag(pool[i]))[1], pool[i])
<1> DEFINE c == pool[i]
           kinds == PayloadOf(ConstTag(c))
           payload == [j \in DOMAIN kinds |-> Field(kinds[j], c)]
           tag == <<Field("u8", ConstTag(c))>>
<1>1. c \in Value /\ ConstTag(c) \in Value /\ "u8" \in Kind
  <2>1. c \in Int
    BY TypesGive
  <2>2. ConstTag(c) \in 1..5
    BY PayloadFacts
  <2> QED BY <2>1, <2>2 DEF Value, Kind
<1>2. kinds \in Seq(Kind) /\ Size(c) = 1 + Len(kinds)
  BY PayloadFacts DEF Size
<1>3. Len(kinds) \in Nat /\ DOMAIN kinds = 1..Len(kinds) /\ \A j \in 1..Len(kinds) : kinds[j] \in Kind
  BY <1>2, LenProperties, ElementOfSeq
<1> HIDE DEF kinds
<1>4. \A j \in 1..Len(kinds) : Field(kinds[j], c) \in Fields
  BY <1>1, <1>3, FieldsAre
<1>5. payload \in Seq(Fields) /\ Len(payload) = Len(kinds) /\ \A j \in 1..Len(kinds) : payload[j] = Field(kinds[j], c)
  BY <1>3, <1>4
<1>6. tag \in Seq(Fields) /\ Len(tag) = 1 /\ tag[1] = Field("u8", ConstTag(c))
  BY <1>1, FieldsAre, Single
<1>7. ConstFields(i) = tag \o payload
  BY DEF ConstFields, U8, kinds
<1> HIDE DEF tag, payload
<1>8. /\ tag \o payload \in Seq(Fields) /\ Len(tag \o payload) = 1 + Len(kinds)
      /\ \A j \in 1..1 + Len(kinds) : (tag \o payload)[j] = IF j <= 1 THEN tag[j] ELSE payload[j - 1]
  BY <1>5, <1>6, ConcatProperties
<1>9. (tag \o payload)[1] = tag[1] /\ (Len(kinds) = 1 => (tag \o payload)[2] = payload[1])
  BY <1>3, <1>8
<1> QED BY <1>2, <1>3, <1>5, <1>6, <1>7, <1>8, <1>9 DEF kinds

LEMMA WriteConstFInv ==
  ASSUME FInv, WriteConst
  PROVE  FInv'
<1>0. PICK n : n = N - left
  OBVIOUS
<1> DEFINE c == pool[n + 1]
           g == ConstFields(n + 1)
<1>1. /\ stage = "put_consts" /\ stage' = stage /\ left > 0 /\ left' = left - 1 /\ file' = file \o g
      /\ pool' = pool /\ functions' = functions /\ offsets' = offsets /\ instrs' = instrs
      /\ pos' = pos /\ found' = found
  BY <1>0 DEF WriteConst, Put, Written, N
<1>2. /\ N \in Nat /\ left \in Nat /\ n \in Nat /\ n + 1 \in 1..N /\ c \in Int /\ Size(c) \in Nat
      /\ Len(file) \in Nat
  <2>1. left <= N
    BY <1>1 DEF FInv, Progress
  <2>2. N \in Nat /\ left \in Nat /\ Len(file) \in Nat
    BY TypesGive DEF FInv, Types
  <2>3. n + 1 \in 1..N
    BY <1>0, <1>1, <2>1, <2>2
  <2>4. Size(c) \in Nat
    BY PayloadFacts
  <2> QED BY <1>0, <1>1, <2>1, <2>2, <2>3, <2>4, TypesGive DEF FInv
<1>3. /\ g \in Seq(Fields) /\ Len(g) = Size(c) /\ g[1] = Field("u8", ConstTag(c))
      /\ Size(c) = 2 => g[2] = Field(PayloadOf(ConstTag(c))[1], c)
  BY <1>2, ConstFieldsAre DEF FInv
<1> HIDE DEF c, g
<1>4. /\ file' \in Seq(Fields) /\ Len(file') = Len(file) + Size(c) /\ Grows(file, file')
      /\ \A j \in 1..Size(c) : file'[Len(file) + j] = g[j]
  BY <1>1, <1>3, MoreIsWritten DEF FInv, Types
<1>5. Types'
  BY <1>1, <1>2, <1>4 DEF FInv, Types, M
<1>6. Gathered'
  BY <1>1 DEF FInv, Gathered, End
<1>7. N' - left' = n + 1 /\ left' <= N' /\ N' = N
  BY <1>0, <1>1, <1>2 DEF N
<1>8. HeaderIn(file)'
  <2>1. HeaderIn(file')
    BY <1>1, <1>4, HeaderInStill DEF FInv, Types, Progress
  <2> QED BY <1>1, <2>1 DEF HeaderIn, N, M
<1>9. ConstsPut(n + 1)'
  <2>1. PICK at \in Places : ConstsIn(file, at, n) /\ Len(file) = at[n + 1] - 1
    BY <1>0, <1>1 DEF FInv, Progress, ConstsPut
  <2>2. at[n + 1] \in Nat /\ at \in [1..(N + 1) -> Nat]
    BY <1>2, <2>1 DEF Places
  <2>3. [at EXCEPT ![n + 2] = at[n + 1] + Size(c)] \in Places
    BY <1>2, <2>2 DEF Places
  <2>4. PICK b : b = [at EXCEPT ![n + 2] = at[n + 1] + Size(c)]
    OBVIOUS
  <2>5. b \in Places /\ (\A i \in 1..n + 1 : b[i] = at[i]) /\ b[n + 2] = at[n + 1] + Size(c)
    BY <1>2, <2>2, <2>3, <2>4
  <2>6. ConstsIn(file', at, n)
    BY <1>4, <2>1, ConstsInStill DEF FInv, Types
  <2>7. ConstIn(file', b[n + 1], c)
    <3>1. Size(c) \in {1, 2}
      BY PayloadFacts
    <3>2. b[n + 1] = Len(file) + 1
      BY <1>2, <2>1, <2>2, <2>5
    <3>3. b[n + 1] \in 1..Len(file') /\ file'[b[n + 1]] = Field("u8", ConstTag(c))
      BY <1>2, <1>3, <1>4, <3>1, <3>2
    <3>4. Size(c) = 2 => /\ b[n + 1] + 1 \in 1..Len(file')
                         /\ file'[b[n + 1] + 1] = Field(PayloadOf(ConstTag(c))[1], c)
      BY <1>2, <1>3, <1>4, <3>2
    <3> QED BY <3>3, <3>4 DEF ConstIn, Has
  <2>8. ASSUME NEW i \in 1..n + 1
        PROVE  ConstIn(file', b[i], pool[i]) /\ b[i + 1] = b[i] + Size(pool[i])
    <3>1. CASE i = n + 1
      BY <1>2, <2>5, <2>7, <3>1 DEF c
    <3>2. CASE i <= n
      <4>1. i \in 1..n /\ i + 1 \in 1..n + 1
        BY <1>2, <3>2
      <4> QED BY <2>5, <2>6, <4>1 DEF ConstsIn
    <3> QED BY <1>2, <3>1, <3>2
  <2>9. ConstsIn(file', b, n + 1)
    <3>1. b[1] = 8
      BY <1>2, <2>1, <2>5 DEF ConstsIn
    <3> QED BY <2>5, <2>8, <3>1 DEF ConstsIn
  <2>10. ConstsIn(file, b, n + 1)' /\ b \in Places'
    BY <1>1, <2>5, <2>9 DEF ConstsIn, Places, N, ConstIn, Has
  <2>11. Len(file') = b[(n + 1) + 1] - 1
    BY <1>2, <1>4, <2>1, <2>2, <2>5
  <2> QED BY <2>10, <2>11 DEF ConstsPut
<1>10. Progress'
  BY <1>1, <1>7, <1>8, <1>9 DEF FInv, Progress, Unread, Complete, M
<1> QED BY <1>5, <1>6, <1>10 DEF FInv

LEMMA BeginPutFunctionsFInv ==
  ASSUME FInv, BeginPutFunctions
  PROVE  FInv'
<1>1. /\ stage = "put_consts" /\ left = 0 /\ stage' = "put_functions" /\ left' = M /\ file' = file
      /\ pool' = pool /\ functions' = functions /\ offsets' = offsets /\ instrs' = instrs
      /\ pos' = pos /\ found' = found
  BY DEF BeginPutFunctions, Turn, Written, M
<1>2. N \in Nat /\ M \in Nat /\ Len(file) \in Nat
  BY TypesGive DEF FInv
<1>3. Types'
  BY <1>1, <1>2 DEF FInv, Types, M
<1>4. Gathered'
  BY <1>1 DEF FInv, Gathered, End
<1>5. HeaderIn(file)'
  BY <1>1 DEF FInv, Progress, HeaderIn, Has, N, M
<1>6. FunctionsPut(0)'
  <2>1. ConstsPut(N)
    BY <1>1, <1>2 DEF FInv, Progress
  <2>2. PICK at \in Places : ConstsIn(file, at, N) /\ Len(file) = at[N + 1] - 1
    BY <2>1 DEF ConstsPut
  <2>3. at[N + 1] \in Nat
    BY <1>2, <2>2 DEF Places
  <2>4. ConstsIn(file, at, N)' /\ at \in Places'
    BY <1>1, <2>2 DEF ConstsIn, Places, N, ConstIn, Has
  <2>5. N' = N /\ Len(file') = at[N + 1] + 7 * 0 - 1
    BY <1>1, <2>2, <2>3 DEF N
  <2>6. FunctionsIn(file, at[N + 1], 0)'
    BY DEF FunctionsIn
  <2> QED BY <2>4, <2>5, <2>6 DEF FunctionsPut
<1>7. M' - left' = 0 /\ left' <= M'
  BY <1>1, <1>2 DEF M
<1>8. Progress'
  BY <1>1, <1>5, <1>6, <1>7 DEF FInv, Progress, Unread, Complete, M, Stages
<1> QED BY <1>3, <1>4, <1>8 DEF FInv

LEMMA FunctionFieldsAre ==
  ASSUME Types, Complete, NEW k \in 1..M
  PROVE  LET s == FunctionFields(k) IN
         /\ s \in Seq(Fields) /\ Len(s) = 7
         /\ s[1] = Field("string", functions[k].name)
         /\ s[2] = Field("u8", functions[k].params) /\ s[3] = Field("u8", functions[k].regs)
         /\ s[4] = Field("u32", offsets[k]) /\ s[5] = Field("u32", Len(functions[k].code))
         /\ s[6] = Field("u32", 0) /\ s[7] = Field("u16", 0)
<1> DEFINE f == functions[k]
<1>1. /\ f.name \in Value /\ f.params \in Value /\ f.regs \in Value
      /\ Len(f.code) \in Value /\ offsets[k] \in Value /\ 0 \in Value
      /\ {"u8", "u16", "u32", "string"} \subseteq Kind
  <2>1. f \in Func /\ Len(f.code) \in Nat /\ offsets[k] \in Nat
    BY TypesGive DEF Complete
  <2> HIDE DEF f
  <2> QED BY <2>1 DEF Func, Value, Kind
<1> HIDE DEF f
<1>2. /\ Field("string", f.name) \in Fields /\ Field("u8", f.params) \in Fields /\ Field("u8", f.regs) \in Fields
      /\ Field("u32", offsets[k]) \in Fields /\ Field("u32", Len(f.code)) \in Fields
      /\ Field("u32", 0) \in Fields /\ Field("u16", 0) \in Fields
  BY <1>1, FieldsAre
<1>3. FunctionFields(k) = <<Field("string", f.name), Field("u8", f.params), Field("u8", f.regs),
                            Field("u32", offsets[k]), Field("u32", Len(f.code)), Field("u32", 0), Field("u16", 0)>>
  BY DEF FunctionFields, U8, U16, U32, f
<1> QED BY <1>2, <1>3, SevenFields DEF f

LEMMA WriteFunctionFInv ==
  ASSUME FInv, WriteFunction
  PROVE  FInv'
<1>0. PICK n : n = M - left
  OBVIOUS
<1> DEFINE g == FunctionFields(n + 1)
<1>1. /\ stage = "put_functions" /\ stage' = stage /\ left > 0 /\ left' = left - 1 /\ file' = file \o g
      /\ pool' = pool /\ functions' = functions /\ offsets' = offsets /\ instrs' = instrs
      /\ pos' = pos /\ found' = found
  BY <1>0 DEF WriteFunction, Put, Written, M
<1>2. /\ N \in Nat /\ M \in Nat /\ left \in Nat /\ n \in Nat /\ n + 1 \in 1..M /\ Len(file) \in Nat /\ Complete
  <2>1. left <= M /\ Complete
    BY <1>1 DEF FInv, Progress
  <2>2. N \in Nat /\ M \in Nat /\ left \in Nat /\ Len(file) \in Nat
    BY TypesGive DEF FInv, Types
  <2> QED BY <1>0, <1>1, <2>1, <2>2
<1>3. /\ g \in Seq(Fields) /\ Len(g) = 7
      /\ g[1] = Field("string", functions[n + 1].name)
      /\ g[2] = Field("u8", functions[n + 1].params) /\ g[3] = Field("u8", functions[n + 1].regs)
      /\ g[4] = Field("u32", offsets[n + 1]) /\ g[5] = Field("u32", Len(functions[n + 1].code))
      /\ g[6] = Field("u32", 0) /\ g[7] = Field("u16", 0)
  BY <1>2, FunctionFieldsAre DEF FInv
<1> HIDE DEF g
<1>4. /\ file' \in Seq(Fields) /\ Len(file') = Len(file) + 7 /\ Grows(file, file')
      /\ \A j \in 1..7 : file'[Len(file) + j] = g[j]
  <2>1. file \in Seq(Fields) /\ g \in Seq(Fields) /\ Len(g) = 7 /\ file' = file \o g
    BY <1>1, <1>3 DEF FInv, Types
  <2>2. /\ file \o g \in Seq(Fields) /\ Len(file \o g) = Len(file) + Len(g) /\ Grows(file, file \o g)
        /\ \A j \in 1..Len(g) : (file \o g)[Len(file) + j] = g[j]
    BY <2>1, MoreIsWritten
  <2> QED BY <2>1, <2>2, Zenon
<1>5. Types'
  BY <1>1, <1>2, <1>4 DEF FInv, Types, M
<1>6. Gathered'
  BY <1>1 DEF FInv, Gathered, End
<1>7. M' - left' = n + 1 /\ left' <= M' /\ M' = M /\ N' = N
  BY <1>0, <1>1, <1>2 DEF M, N
<1>8. HeaderIn(file)'
  <2>1. HeaderIn(file')
    BY <1>1, <1>4, HeaderInStill DEF FInv, Types, Progress
  <2> QED BY <1>1, <2>1 DEF HeaderIn, N, M
<1>9. FunctionsPut(n + 1)'
  <2>1. PICK at \in Places : /\ ConstsIn(file, at, N) /\ FunctionsIn(file, at[N + 1], n)
                            /\ Len(file) = at[N + 1] + 7 * n - 1
    BY <1>0, <1>1 DEF FInv, Progress, FunctionsPut
  <2>2. PICK p : p = at[N + 1]
    OBVIOUS
  <2>3. p \in Nat /\ at \in Places
    BY <1>2, <2>1, <2>2 DEF Places
  <2>4. ConstsIn(file', at, N)
    BY <1>4, <2>1, ConstsInStill DEF FInv, Types
  <2>5. FunctionsIn(file', p, n)
    BY <1>4, <2>1, <2>2, FunctionsInStill DEF FInv, Types
  <2>6. FunctionIn(file', p + 7 * ((n + 1) - 1), n + 1)
    <3>1. PICK q : q = p + 7 * ((n + 1) - 1)
      OBVIOUS
    <3>2. q \in Int /\ q = Len(file) + 1
      BY <1>2, <2>1, <2>2, <2>3, <3>1
    <3>3. ASSUME NEW j \in 1..7 PROVE q + (j - 1) \in 1..Len(file') /\ file'[q + (j - 1)] = g[j]
      <4>1. q + (j - 1) = Len(file) + j
        BY <1>2, <3>2
      <4>2. Len(file) + j \in 1..Len(file')
        BY <1>2, <1>4
      <4>3. file'[Len(file) + j] = g[j]
        BY <1>4
      <4> QED BY <4>1, <4>2, <4>3
    <3>4. /\ q + (1 - 1) = q /\ q + (2 - 1) = q + 1 /\ q + (3 - 1) = q + 2 /\ q + (4 - 1) = q + 3
          /\ q + (5 - 1) = q + 4 /\ q + (6 - 1) = q + 5 /\ q + (7 - 1) = q + 6
      BY <3>2
    <3>5. /\ q \in 1..Len(file') /\ file'[q] = g[1]
          /\ q + 1 \in 1..Len(file') /\ file'[q + 1] = g[2]
          /\ q + 2 \in 1..Len(file') /\ file'[q + 2] = g[3]
          /\ q + 3 \in 1..Len(file') /\ file'[q + 3] = g[4]
          /\ q + 4 \in 1..Len(file') /\ file'[q + 4] = g[5]
          /\ q + 5 \in 1..Len(file') /\ file'[q + 5] = g[6]
          /\ q + 6 \in 1..Len(file') /\ file'[q + 6] = g[7]
      <4>1. {1, 2, 3, 4, 5, 6, 7} \subseteq 1..7
        OBVIOUS
      <4> QED BY <3>3, <3>4, <4>1
    <3>6. FunctionIn(file', q, n + 1)
      BY <1>3, <3>5, Zenon DEF FunctionIn, Has
    <3> QED BY <3>1, <3>6
  <2>7. FunctionsIn(file', p, n + 1)
    <3>1. ASSUME NEW k \in 1..n + 1 PROVE FunctionIn(file', p + 7 * (k - 1), k)
      BY <1>2, <2>5, <2>6 DEF FunctionsIn
    <3> QED BY <3>1 DEF FunctionsIn
  <2>8. ConstsIn(file, at, N)' /\ at \in Places'
    BY <1>1, <2>1, <2>4 DEF ConstsIn, Places, N, ConstIn, Has
  <2>9. FunctionsIn(file, p, n + 1)'
    BY <1>1, <2>7 DEF FunctionsIn, FunctionIn, Has
  <2>10. Len(file') = p + 7 * (n + 1) - 1
    BY <1>2, <1>4, <2>1, <2>2, <2>3
  <2> QED BY <1>7, <2>2, <2>8, <2>9, <2>10 DEF FunctionsPut
<1>10. Progress'
  BY <1>1, <1>7, <1>8, <1>9 DEF FInv, Progress, Unread, Complete, M
<1> QED BY <1>5, <1>6, <1>10 DEF FInv

\* What a file has to have stays the same once it is written.
LEMMA WholeStays ==
  ASSUME pool' = pool, functions' = functions, offsets' = offsets, instrs' = instrs, NEW f, NEW at
  PROVE  WholeIn(f, at)' <=> WholeIn(f, at)
<1>1. N' = N /\ M' = M /\ Places' = Places
  BY DEF N, M, Places
<1>2. HeaderIn(f)' <=> HeaderIn(f)
  BY <1>1 DEF HeaderIn, Has
<1>3. ConstsIn(f, at, N)' <=> ConstsIn(f, at, N)
  BY <1>1 DEF ConstsIn, ConstIn, Has
<1>4. FunctionsIn(f, at[N + 1], M)' <=> FunctionsIn(f, at[N + 1], M)
  BY <1>1 DEF FunctionsIn, FunctionIn, Has
<1>5. CodePlace(at)' = CodePlace(at)
  BY <1>1 DEF CodePlace
<1>6. CodeIn(f, CodePlace(at))' <=> CodeIn(f, CodePlace(at))
  BY <1>5 DEF CodeIn, Has
<1>7. EndsIn(f, CodePlace(at) + Len(instrs))' <=> EndsIn(f, CodePlace(at) + Len(instrs))
  BY <1>5 DEF EndsIn
<1> QED BY <1>2, <1>3, <1>4, <1>6, <1>7 DEF WholeIn

LEMMA WriteCodeFInv ==
  ASSUME FInv, NEW section \in Section, WriteCode(section)
  PROVE  FInv'
<1> DEFINE code == [i \in DOMAIN instrs |-> Field("code", instrs[i])]
           f == file \o code
<1>1. /\ stage = "put_functions" /\ left = 0 /\ stage' = "header" /\ left' = 0
      /\ pool' = pool /\ functions' = functions /\ offsets' = offsets /\ instrs' = instrs
      /\ pos' = pos /\ found' = found
  BY DEF WriteCode, Turn, Written
<1>2. file' = f \o section
  BY DEF WriteCode
<1>3. /\ N \in Nat /\ M \in Nat /\ Len(file) \in Nat /\ Len(instrs) \in Nat /\ file \in Seq(Fields)
      /\ DOMAIN instrs = 1..Len(instrs) /\ \A i \in 1..Len(instrs) : instrs[i] \in Value
  BY TypesGive, LenProperties DEF FInv, Types, Value
<1>4. /\ code \in Seq(Fields) /\ Len(code) = Len(instrs)
      /\ \A i \in 1..Len(instrs) : code[i] = Field("code", instrs[i])
  <2>1. \A i \in 1..Len(instrs) : Field("code", instrs[i]) \in Fields
    BY <1>3, FieldsAre DEF Kind
  <2> QED BY <1>3, <2>1
<1>5. section \in Seq(Fields) /\ Len(section) \in Nat /\ (Len(section) > 0 => section[1].is = "marker")
  <2>1. section \in Seq([is : STRING, v : Int \cup STRING \cup Instr]) /\ (section # <<>> => section[1].is = "marker")
    BY DEF Section
  <2>2. [is : STRING, v : Int \cup STRING \cup Instr] \subseteq Fields
    BY DEF Fields, Kind, Value
  <2> DEFINE S == [is : STRING, v : Int \cup STRING \cup Instr]
  <2> HIDE DEF S
  <2>3. \A s \in Seq(S) : Len(s) \in Nat /\ s \in [1..Len(s) -> S]
    BY LenProperties
  <2>4. \A s \in Seq(S) : S \subseteq Fields => s \in Seq(Fields)
    BY <2>3
  <2>5. section \in Seq(Fields) /\ Len(section) \in Nat
    BY <2>1, <2>2, <2>3, <2>4 DEF S
  <2>6. Len(section) > 0 => section # <<>>
    BY EmptySeq
  <2> QED BY <2>1, <2>5, <2>6
<1> HIDE DEF code, f
<1>6. /\ f \in Seq(Fields) /\ Len(f) = Len(file) + Len(instrs) /\ Grows(file, f)
      /\ \A j \in 1..Len(instrs) : f[Len(file) + j] = code[j]
  <2>1. f \in Seq(Fields) /\ Len(f) = Len(file) + Len(code) /\ Grows(file, f)
        /\ \A j \in 1..Len(code) : f[Len(file) + j] = code[j]
    BY <1>3, <1>4, MoreIsWritten DEF f
  <2> QED BY <1>4, <2>1
<1>7. PICK h : h = file'
  OBVIOUS
<1>8. /\ h \in Seq(Fields) /\ Len(h) = Len(f) + Len(section) /\ Grows(f, h)
      /\ \A j \in 1..Len(section) : h[Len(f) + j] = section[j]
  BY <1>2, <1>5, <1>6, <1>7, MoreIsWritten
<1>9. Types'
  BY <1>1, <1>3, <1>7, <1>8 DEF FInv, Types, M
<1>10. Gathered'
  BY <1>1 DEF FInv, Gathered, End
<1>11. PICK at \in Places : /\ ConstsIn(file, at, N) /\ FunctionsIn(file, at[N + 1], M)
                           /\ Len(file) = CodePlace(at) - 1
  <2>1. FunctionsPut(M)
    BY <1>1, <1>3 DEF FInv, Progress
  <2>2. PICK at \in Places : /\ ConstsIn(file, at, N) /\ FunctionsIn(file, at[N + 1], M)
                            /\ Len(file) = at[N + 1] + 7 * M - 1
    BY <2>1 DEF FunctionsPut
  <2>3. Len(file) = CodePlace(at) - 1
    <3>1. at[N + 1] \in Nat
      BY <1>3 DEF Places
    <3> QED BY <1>3, <2>2, <3>1 DEF CodePlace
  <2> QED BY <2>2, <2>3, Zenon
<1>12. PICK p : p = CodePlace(at)
  OBVIOUS
<1>13. p \in Nat /\ p = Len(file) + 1
  <2>1. at[N + 1] \in Nat
    BY <1>3 DEF Places
  <2> QED BY <1>3, <1>11, <1>12, <2>1 DEF CodePlace
<1>14. WholeIn(h, at)
  <2>1. HeaderIn(h)
    BY <1>1, <1>3, <1>6, <1>8, HeaderInStill DEF FInv, Progress
  <2>2. ConstsIn(h, at, N)
    BY <1>3, <1>6, <1>8, <1>11, ConstsInStill
  <2>3. FunctionsIn(h, at[N + 1], M)
    BY <1>3, <1>6, <1>8, <1>11, FunctionsInStill
  <2>4. CodeIn(h, p)
    <3>1. SUFFICES ASSUME NEW i \in 1..Len(instrs) PROVE Has(h, p + i - 1, "code", instrs[i])
      BY DEF CodeIn
    <3>2. p + i - 1 = Len(file) + i /\ Len(file) + i \in 1..Len(f)
      BY <1>3, <1>6, <1>13
    <3>3. Has(f, p + i - 1, "code", instrs[i])
      BY <1>4, <1>6, <3>2 DEF Has
    <3> QED BY <1>6, <1>8, <3>3, HasStill
  <2>5. EndsIn(h, p + Len(instrs))
    <3>1. p + Len(instrs) = Len(f) + 1 /\ Len(f) \in Nat
      BY <1>3, <1>6, <1>13
    <3>2. CASE Len(section) = 0
      BY <1>8, <3>1, <3>2 DEF EndsIn
    <3>3. CASE Len(section) > 0
      <4>1. h[Len(f) + 1] = section[1]
        BY <1>5, <1>8, <3>3
      <4> QED BY <1>5, <1>8, <3>1, <3>3, <4>1 DEF EndsIn
    <3> QED BY <1>5, <3>2, <3>3
  <2> QED BY <1>12, <2>1, <2>2, <2>3, <2>4, <2>5 DEF WholeIn
<1>15. WholeIn(file, at)' /\ at \in Places'
  <2>1. WholeIn(h, at)'
    BY <1>1, <1>14, WholeStays
  <2> QED BY <1>1, <1>7, <2>1 DEF Places, N
<1>16. Progress'
  BY <1>1, <1>15 DEF FInv, Progress, Unread, Complete, M, Stages
<1> QED BY <1>9, <1>10, <1>16 DEF FInv

-----------------------------------------------------------------------------
(* The steps of parse_ulb.                                                 *)

LEMMA Readable ==
  ASSUME Types, NEW is, NEW v, NEW i \in Nat, Has(file, pos + i - 1, is, v)
  PROVE  /\ pos + i - 1 <= Len(file) /\ file[pos + i - 1].is = is /\ V(i) = v
BY TypesGive DEF Has, Field, V

LEMMA HeaderAhead ==
  ASSUME Types, pos = 1, HeaderIn(file)
  PROVE  Ahead(HeaderKinds) /\ V(4) = N /\ V(5) = M
<1>1. /\ pos + 1 - 1 = 1 /\ pos + 2 - 1 = 2 /\ pos + 3 - 1 = 3 /\ pos + 4 - 1 = 4
      /\ pos + 5 - 1 = 5 /\ pos + 6 - 1 = 6 /\ pos + 7 - 1 = 7
  OBVIOUS
<1>2. /\ Has(file, pos + 1 - 1, "u32", "ULBC") /\ Has(file, pos + 2 - 1, "u16", 1) /\ Has(file, pos + 3 - 1, "u16", 0)
      /\ Has(file, pos + 4 - 1, "u32", N) /\ Has(file, pos + 5 - 1, "u32", M)
      /\ Has(file, pos + 6 - 1, "u32", 0) /\ Has(file, pos + 7 - 1, "u32", 0)
  BY <1>1, Zenon DEF HeaderIn
<1>3. /\ file[pos + 1 - 1].is = "u32" /\ file[pos + 2 - 1].is = "u16" /\ file[pos + 3 - 1].is = "u16"
      /\ file[pos + 4 - 1].is = "u32" /\ file[pos + 5 - 1].is = "u32"
      /\ file[pos + 6 - 1].is = "u32" /\ file[pos + 7 - 1].is = "u32"
      /\ V(4) = N /\ V(5) = M /\ 7 <= Len(file)
  BY <1>2, Readable
<1>4. Ahead(HeaderKinds)
  <2>1. HeaderKinds = <<"u32", "u16", "u16", "u32", "u32", "u32", "u32">>
    BY DEF HeaderKinds
  <2> QED BY <1>3, <2>1 DEF Ahead
<1> QED BY <1>3, <1>4

LEMMA ReadHeaderFInv ==
  ASSUME FInv, ReadHeader
  PROVE  FInv'
<1>1. /\ stage = "header" /\ stage' = "consts" /\ pos' = pos + Len(HeaderKinds)
      /\ left' = V(4) /\ found' = [found EXCEPT !.count = V(5)]
      /\ pool' = pool /\ functions' = functions /\ offsets' = offsets /\ instrs' = instrs /\ file' = file
  BY DEF ReadHeader, Take, Read
<1>2. Unread /\ \E at \in Places : WholeIn(file, at)
  BY <1>1 DEF FInv, Progress
<1>3. PICK at \in Places : WholeIn(file, at)
  BY <1>2
<1>4. pos = 1 /\ found = NothingFound /\ left' = N /\ found' = [NothingFound EXCEPT !.count = M] /\ pos' = 8
  <2>1. pos = 1 /\ found = NothingFound /\ HeaderIn(file)
    BY <1>2, <1>3 DEF Unread, WholeIn
  <2>2. V(4) = N /\ V(5) = M
    BY <2>1, HeaderAhead DEF FInv
  <2>3. Len(HeaderKinds) = 7
    BY DEF HeaderKinds
  <2> QED BY <1>1, <2>1, <2>2, <2>3
<1>5. N \in Nat /\ M \in Nat
  BY TypesGive DEF FInv
<1>6. /\ found'.pool = <<>> /\ found'.functions = <<>> /\ found'.count = M /\ found'.size = 0
      /\ found' \in ULB
  <2>1. NothingFound \in ULB /\ NothingFound.pool = <<>> /\ NothingFound.functions = <<>> /\ NothingFound.size = 0
    BY EmptySeq DEF NothingFound, ULB
  <2> HIDE DEF NothingFound
  <2> QED BY <1>4, <1>5, <2>1 DEF ULB
<1>7. Types'
  BY <1>1, <1>4, <1>5, <1>6 DEF FInv, Types, M
<1>8. Gathered'
  BY <1>1 DEF FInv, Gathered, End
<1>9. AtConst(0)'
  <2>1. WholeIn(file, at)'
    <3>1. PICK h : h = file
      OBVIOUS
    <3>2. WholeIn(h, at)'
      BY <1>1, <1>3, <3>1, WholeStays
    <3> QED BY <1>1, <3>1, <3>2
  <2>2. pos' = at[0 + 1] /\ at \in Places'
    BY <1>1, <1>3, <1>4 DEF WholeIn, ConstsIn, Places, N
  <2> QED BY <2>1, <2>2 DEF AtConst
<1>10. N' - left' = 0 /\ left' <= N' /\ M' = M
  BY <1>1, <1>4, <1>5 DEF N, M
<1>11. PoolFound(0)' /\ FunctionsFound(0)'
  BY <1>6, EmptySeq DEF PoolFound, FunctionsFound
<1>12. Progress'
  BY <1>1, <1>6, <1>9, <1>10, <1>11 DEF FInv, Progress, Complete, M, Stages
<1> QED BY <1>7, <1>8, <1>12 DEF FInv

\* The reader is at a constant: it takes one field or two, as the tag says.
LEMMA ConstAhead ==
  ASSUME Types, NEW c \in Int, ConstIn(file, pos, c)
  PROVE  /\ Ahead(ConstKinds) /\ Len(ConstKinds) = Size(c)
         /\ (IF Len(ConstKinds) = 1 THEN <<V(1)>> ELSE <<V(1), V(2)>>) = Known(c)
<1> DEFINE tag == ConstTag(c)
           kinds == PayloadOf(tag)
<1>1. pos \in Nat /\ pos + 1 - 1 = pos /\ pos + 2 - 1 = pos + 1
  BY DEF Types
<1>2. Has(file, pos + 1 - 1, "u8", tag) /\ (Size(c) = 2 => Has(file, pos + 2 - 1, kinds[1], c))
  BY <1>1 DEF ConstIn
<1> HIDE DEF tag, kinds
<1>3. pos + 1 - 1 <= Len(file) /\ file[pos + 1 - 1].is = "u8" /\ V(1) = tag
  BY <1>2, Readable
<1>4. Size(c) = 2 => pos + 2 - 1 <= Len(file) /\ file[pos + 2 - 1].is = kinds[1] /\ V(2) = c
  BY <1>2, Readable
<1>5. Number(1) = tag
  BY <1>3, Zenon DEF Number
<1>6. ConstKinds = <<"u8">> \o kinds
  BY <1>5, PayloadFacts DEF ConstKinds, tag, kinds
<1>7. /\ kinds \in Seq(Kind) /\ Size(c) = 1 + Len(kinds)
      /\ Size(c) = IF tag = TypeTags.empty THEN 1 ELSE 2
  BY PayloadFacts DEF Size, tag, kinds
<1>8. <<"u8">> \in Seq(Kind) /\ Len(<<"u8">>) = 1 /\ <<"u8">>[1] = "u8"
  BY Single DEF Kind
<1>9. /\ ConstKinds \in Seq(Kind) /\ Len(ConstKinds) = 1 + Len(kinds)
      /\ \A j \in 1..1 + Len(kinds) : ConstKinds[j] = IF j <= 1 THEN <<"u8">>[j] ELSE kinds[j - 1]
  BY <1>6, <1>7, <1>8, ConcatProperties
<1>10. Len(ConstKinds) = Size(c) /\ Size(c) \in {1, 2} /\ DOMAIN ConstKinds = 1..Size(c)
  BY <1>7, <1>9, LenProperties
<1>11. ConstKinds[1] = "u8" /\ (Size(c) = 2 => ConstKinds[2] = kinds[1])
  BY <1>7, <1>8, <1>9, <1>10
<1>12. Ahead(ConstKinds)
  <2>1. SUFFICES ASSUME NEW i \in 1..Size(c)
                 PROVE  pos + i - 1 <= Len(file) /\ file[pos + i - 1].is = ConstKinds[i]
    BY <1>10 DEF Ahead
  <2>2. i = 1 \/ (i = 2 /\ Size(c) = 2)
    BY <1>10
  <2> QED BY <1>3, <1>4, <1>11, <2>2
<1>13. (IF Len(ConstKinds) = 1 THEN <<V(1)>> ELSE <<V(1), V(2)>>) = Known(c)
  BY <1>3, <1>4, <1>7, <1>10 DEF Known, tag
<1> QED BY <1>10, <1>12, <1>13

LEMMA KnownIsValue ==
  ASSUME NEW c \in Int
  PROVE  Known(c) \in Seq(Value)
<1>1. c \in Value /\ ConstTag(c) \in Value
  BY PayloadFacts DEF Value
<1>2. <<ConstTag(c)>> \in Seq(Value) /\ <<ConstTag(c), c>> \in Seq(Value)
  BY <1>1
<1> QED BY <1>2 DEF Known

LEMMA ReadConstFInv ==
  ASSUME FInv, ReadConst
  PROVE  FInv'
<1>0. PICK n : n = N - left
  OBVIOUS
<1> DEFINE c == pool[n + 1]
<1>1. /\ stage = "consts" /\ stage' = stage /\ left > 0 /\ left' = left - 1 /\ pos' = pos + Len(ConstKinds)
      /\ pool' = pool /\ functions' = functions /\ offsets' = offsets /\ instrs' = instrs /\ file' = file
  BY DEF ReadConst, Take, Read
<1>2. /\ N \in Nat /\ M \in Nat /\ left \in Nat /\ n \in Nat /\ n + 1 \in 1..N /\ c \in Int /\ Size(c) \in Nat
      /\ pos \in Nat \ {0}
  <2>1. left <= N
    BY <1>1 DEF FInv, Progress
  <2>2. N \in Nat /\ M \in Nat /\ left \in Nat /\ pos \in Nat \ {0}
    BY TypesGive DEF FInv, Types
  <2>3. n \in Nat /\ n + 1 \in 1..N
    BY <1>0, <1>1, <2>1, <2>2
  <2>4. Size(c) \in Nat
    BY PayloadFacts
  <2> QED BY <2>2, <2>3, <2>4, TypesGive DEF FInv
<1> HIDE DEF c
<1>3. PICK at \in Places : WholeIn(file, at) /\ pos = at[n + 1]
  BY <1>0, <1>1 DEF FInv, Progress, AtConst
<1>4. ConstIn(file, pos, c) /\ at[n + 2] = at[n + 1] + Size(c)
  <2>1. ConstIn(file, at[n + 1], pool[n + 1]) /\ at[(n + 1) + 1] = at[n + 1] + Size(pool[n + 1])
    BY <1>2, <1>3 DEF WholeIn, ConstsIn
  <2>2. (n + 1) + 1 = n + 2
    BY <1>2
  <2> QED BY <1>3, <2>1, <2>2 DEF c
<1>5. /\ pos' = at[(n + 1) + 1] /\ pos' \in Nat \ {0}
      /\ found' = [found EXCEPT !.pool = Append(@, Known(c))]
  <2>1. /\ Len(ConstKinds) = Size(c)
        /\ (IF Len(ConstKinds) = 1 THEN <<V(1)>> ELSE <<V(1), V(2)>>) = Known(c)
    BY <1>2, <1>4, ConstAhead DEF FInv
  <2>2. found' = [found EXCEPT !.pool = Append(@, IF Len(ConstKinds) = 1 THEN <<V(1)>> ELSE <<V(1), V(2)>>)]
    BY DEF ReadConst
  <2>3. (n + 1) + 1 = n + 2
    BY <1>2
  <2>4. found' = [found EXCEPT !.pool = Append(@, Known(c))]
    BY <2>1, <2>2, Zenon
  <2> QED BY <1>1, <1>2, <1>3, <1>4, <2>1, <2>3, <2>4
<1>6. /\ found' \in ULB /\ found'.pool = Append(found.pool, Known(c))
      /\ found'.functions = found.functions /\ found'.count = found.count /\ found'.size = found.size
  <2>1. found \in ULB /\ found.pool \in Seq(Seq(Value))
    BY DEF FInv, Types, ULB
  <2>2. Append(found.pool, Known(c)) \in Seq(Seq(Value))
    BY <1>2, <2>1, KnownIsValue, AppendProperties
  <2> QED BY <1>5, <2>1, <2>2 DEF ULB
<1>7. Types'
  <2>1. pos' \in Nat \ {0} /\ left' \in Nat
    BY <1>1, <1>2, <1>5
  <2> QED BY <1>1, <1>6, <2>1 DEF FInv, Types, M
<1>8. Gathered'
  BY <1>1 DEF FInv, Gathered, End
<1>9. AtConst(n + 1)'
  <2>1. WholeIn(file, at)'
    <3>1. PICK h : h = file
      OBVIOUS
    <3>2. WholeIn(h, at)'
      BY <1>1, <1>3, <3>1, WholeStays
    <3> QED BY <1>1, <3>1, <3>2
  <2>2. at \in Places'
    BY <1>1, <1>3 DEF Places, N
  <2> QED BY <1>5, <2>1, <2>2 DEF AtConst
<1>10. N' - left' = n + 1 /\ left' <= N' /\ M' = M
  BY <1>0, <1>1, <1>2 DEF N, M
<1>11. PoolFound(n + 1)' /\ FunctionsFound(0)' /\ found'.count = M /\ found'.size = 0
  <2>1. PoolFound(n) /\ FunctionsFound(0) /\ found.count = M /\ found.size = 0
    BY <1>0, <1>1 DEF FInv, Progress
  <2>2. /\ Len(found'.pool) = n + 1 /\ (\A i \in 1..n : found'.pool[i] = found.pool[i])
        /\ found'.pool[n + 1] = Known(c)
    <3>1. found.pool \in Seq(Seq(Value)) /\ Len(found.pool) = n /\ Known(c) \in Seq(Value)
      BY <1>2, <2>1, KnownIsValue DEF FInv, Types, ULB, PoolFound
    <3> QED BY <1>6, <3>1, AppendProperties
  <2>3. \A i \in 1..n + 1 : found'.pool[i] = Known(pool[i])
    BY <1>2, <2>1, <2>2 DEF PoolFound, c
  <2>4. PoolFound(n + 1)'
    BY <1>1, <2>2, <2>3 DEF PoolFound
  <2>5. FunctionsFound(0)'
    BY <1>6, <2>1 DEF FunctionsFound
  <2> QED BY <1>6, <2>1, <2>4, <2>5
<1>12. Progress'
  BY <1>1, <1>9, <1>10, <1>11 DEF FInv, Progress, Complete, M
<1> QED BY <1>7, <1>8, <1>12 DEF FInv

LEMMA BeginFunctionsFInv ==
  ASSUME FInv, BeginFunctions
  PROVE  FInv'
<1>1. /\ stage = "consts" /\ left = 0 /\ stage' = "functions" /\ left' = found.count
      /\ pool' = pool /\ functions' = functions /\ offsets' = offsets /\ instrs' = instrs /\ file' = file
      /\ pos' = pos /\ found' = found
  BY DEF BeginFunctions, Turn, Read
<1>2. N \in Nat /\ M \in Nat /\ N - left = N
  BY <1>1, TypesGive DEF FInv
<1>3. AtConst(N) /\ PoolFound(N) /\ FunctionsFound(0) /\ found.count = M /\ found.size = 0 /\ Complete
  BY <1>1, <1>2 DEF FInv, Progress
<1>4. Types'
  BY <1>1, <1>2, <1>3 DEF FInv, Types, M
<1>5. Gathered'
  BY <1>1 DEF FInv, Gathered, End
<1>6. AtFunction(0)'
  <2>1. PICK at \in Places : WholeIn(file, at) /\ pos = at[N + 1]
    BY <1>3 DEF AtConst
  <2>2. WholeIn(file, at)'
    <3>1. PICK h : h = file
      OBVIOUS
    <3>2. WholeIn(h, at)'
      BY <1>1, <2>1, <3>1, WholeStays
    <3> QED BY <1>1, <3>1, <3>2
  <2>3. at \in Places' /\ at[N + 1] \in Nat /\ N' = N
    BY <1>1, <1>2, <2>1 DEF Places, N
  <2>4. pos' = at[N + 1] + 7 * 0
    BY <1>1, <2>1, <2>3
  <2> QED BY <2>2, <2>3, <2>4 DEF AtFunction
<1>7. M' - left' = 0 /\ left' <= M' /\ N' = N
  BY <1>1, <1>2, <1>3 DEF N, M
<1>8. PoolFound(N)' /\ FunctionsFound(0)'
  BY <1>1, <1>3, <1>7 DEF PoolFound, FunctionsFound
<1>9. found'.size = End(0)'
  <2>1. End(0) = 0
    BY <1>2, TypesGive DEF FInv, Gathered, End
  <2> QED BY <1>1, <1>3, <2>1 DEF End
<1>10. Progress'
  BY <1>1, <1>3, <1>6, <1>7, <1>8, <1>9 DEF FInv, Progress, Complete, M, Stages
<1> QED BY <1>4, <1>5, <1>10 DEF FInv

LEMMA FunctionAhead ==
  ASSUME Types, NEW k, FunctionIn(file, pos, k)
  PROVE  /\ Ahead(FunctionKinds) /\ Len(FunctionKinds) = 7
         /\ V(1) = functions[k].name /\ V(2) = functions[k].params /\ V(3) = functions[k].regs
         /\ V(4) = offsets[k] /\ V(5) = Len(functions[k].code)
<1>1. /\ pos + 1 - 1 = pos /\ pos + 2 - 1 = pos + 1 /\ pos + 3 - 1 = pos + 2 /\ pos + 4 - 1 = pos + 3
      /\ pos + 5 - 1 = pos + 4 /\ pos + 6 - 1 = pos + 5 /\ pos + 7 - 1 = pos + 6
  BY DEF Types
<1>2. /\ Has(file, pos + 1 - 1, "string", functions[k].name)
      /\ Has(file, pos + 2 - 1, "u8", functions[k].params) /\ Has(file, pos + 3 - 1, "u8", functions[k].regs)
      /\ Has(file, pos + 4 - 1, "u32", offsets[k]) /\ Has(file, pos + 5 - 1, "u32", Len(functions[k].code))
      /\ Has(file, pos + 6 - 1, "u32", 0) /\ Has(file, pos + 7 - 1, "u16", 0)
  BY <1>1, Zenon DEF FunctionIn
<1>3. /\ pos + 1 - 1 <= Len(file) /\ file[pos + 1 - 1].is = "string" /\ V(1) = functions[k].name
      /\ pos + 2 - 1 <= Len(file) /\ file[pos + 2 - 1].is = "u8" /\ V(2) = functions[k].params
      /\ pos + 3 - 1 <= Len(file) /\ file[pos + 3 - 1].is = "u8" /\ V(3) = functions[k].regs
      /\ pos + 4 - 1 <= Len(file) /\ file[pos + 4 - 1].is = "u32" /\ V(4) = offsets[k]
      /\ pos + 5 - 1 <= Len(file) /\ file[pos + 5 - 1].is = "u32" /\ V(5) = Len(functions[k].code)
      /\ pos + 6 - 1 <= Len(file) /\ file[pos + 6 - 1].is = "u32"
      /\ pos + 7 - 1 <= Len(file) /\ file[pos + 7 - 1].is = "u16"
  <2>1. \A is, v : \A i \in {1, 2, 3, 4, 5, 6, 7} :
           Has(file, pos + i - 1, is, v) =>
               pos + i - 1 <= Len(file) /\ file[pos + i - 1].is = is /\ V(i) = v
    BY Readable
  <2> QED BY <1>2, <2>1, ZenonT(60)
<1>4. /\ FunctionKinds[1] = "string" /\ FunctionKinds[2] = "u8" /\ FunctionKinds[3] = "u8"
      /\ FunctionKinds[4] = "u32" /\ FunctionKinds[5] = "u32" /\ FunctionKinds[6] = "u32"
      /\ FunctionKinds[7] = "u16"
      /\ Len(FunctionKinds) = 7 /\ DOMAIN FunctionKinds = 1..7
  BY DEF FunctionKinds
<1>5. Ahead(FunctionKinds)
  <2>1. SUFFICES ASSUME NEW i \in 1..7
                 PROVE  pos + i - 1 <= Len(file) /\ file[pos + i - 1].is = FunctionKinds[i]
    BY <1>4 DEF Ahead
  <2>2. i = 1 \/ i = 2 \/ i = 3 \/ i = 4 \/ i = 5 \/ i = 6 \/ i = 7
    OBVIOUS
  <2> QED BY <1>3, <1>4, <2>2, Zenon
<1> QED BY <1>3, <1>4, <1>5

LEMMA ReadFunctionFInv ==
  ASSUME FInv, ReadFunction
  PROVE  FInv'
<1>0. PICK n : n = M - left
  OBVIOUS
<1> DEFINE f == functions[n + 1]
           entry == [name |-> f.name, params |-> f.params, regs |-> f.regs, offset |-> offsets[n + 1], count |-> Len(f.code)]
<1>1. /\ stage = "functions" /\ stage' = stage /\ left > 0 /\ left' = left - 1 /\ pos' = pos + Len(FunctionKinds)
      /\ pool' = pool /\ functions' = functions /\ offsets' = offsets /\ instrs' = instrs /\ file' = file
  BY DEF ReadFunction, Take, Read
<1>2. /\ N \in Nat /\ M \in Nat /\ left \in Nat /\ n \in Nat /\ n + 1 \in 1..M /\ pos \in Nat \ {0}
      /\ f \in Func /\ Len(f.code) \in Nat /\ offsets[n + 1] \in Nat /\ Len(offsets) = M
  <2>1. left <= M /\ Len(offsets) = M
    BY <1>1 DEF FInv, Progress, Complete
  <2>2. N \in Nat /\ M \in Nat /\ left \in Nat /\ pos \in Nat \ {0}
    BY TypesGive DEF FInv, Types
  <2>3. n \in Nat /\ n + 1 \in 1..M
    BY <1>0, <1>1, <2>1, <2>2
  <2> QED BY <2>1, <2>2, <2>3, TypesGive DEF FInv
<1>3. PICK at \in Places : WholeIn(file, at) /\ pos = at[N + 1] + 7 * n
  BY <1>0, <1>1 DEF FInv, Progress, AtFunction
<1>4. at[N + 1] \in Nat
  BY <1>2 DEF Places
<1>5. /\ V(1) = f.name /\ V(2) = f.params /\ V(3) = f.regs /\ V(4) = offsets[n + 1] /\ V(5) = Len(f.code)
      /\ pos' = pos + 7
  <2>1. FunctionIn(file, at[N + 1] + 7 * ((n + 1) - 1), n + 1)
    BY <1>2, <1>3 DEF WholeIn, FunctionsIn
  <2>2. (n + 1) - 1 = n
    BY <1>2
  <2>3. FunctionIn(file, pos, n + 1)
    BY <1>3, <2>1, <2>2
  <2> QED BY <1>1, <2>3, FunctionAhead DEF FInv
<1> HIDE DEF f
<1>6. found' = [found EXCEPT !.size = @ + Len(f.code), !.functions = Append(@, entry)]
  BY <1>5, Zenon DEF ReadFunction
<1>7. entry \in [name : Value, params : Value, regs : Value, offset : Value, count : Value]
  BY <1>2 DEF Func, Value
<1> HIDE DEF entry
<1>8. /\ found' \in ULB /\ found'.functions = Append(found.functions, entry)
      /\ found'.pool = found.pool /\ found'.size = found.size + Len(f.code)
  <2> DEFINE Entry == [name : Value, params : Value, regs : Value, offset : Value, count : Value]
  <2>1. found \in ULB /\ found.functions \in Seq(Entry) /\ found.size \in Nat
    BY DEF FInv, Types, ULB
  <2>2. Append(found.functions, entry) \in Seq(Entry)
    BY <1>7, <2>1, AppendProperties
  <2>3. found.size + Len(f.code) \in Nat
    BY <1>2, <2>1
  <2> HIDE DEF Entry
  <2> QED BY <1>6, <2>1, <2>2, <2>3 DEF ULB, Entry
<1>9. Types'
  <2>1. pos' \in Nat \ {0} /\ left' \in Nat
    BY <1>1, <1>2, <1>5
  <2> QED BY <1>1, <1>8, <2>1 DEF FInv, Types, M
<1>10. Gathered'
  BY <1>1 DEF FInv, Gathered, End
<1>11. AtFunction(n + 1)'
  <2>1. WholeIn(file, at)'
    <3>1. PICK h : h = file
      OBVIOUS
    <3>2. WholeIn(h, at)'
      BY <1>1, <1>3, <3>1, WholeStays
    <3> QED BY <1>1, <3>1, <3>2
  <2>2. at \in Places' /\ N' = N
    BY <1>1, <1>3 DEF Places, N
  <2>3. pos' = at[N + 1] + 7 * (n + 1)
    BY <1>2, <1>3, <1>4, <1>5
  <2> QED BY <2>1, <2>2, <2>3 DEF AtFunction
<1>12. M' - left' = n + 1 /\ left' <= M' /\ N' = N
  BY <1>0, <1>1, <1>2 DEF N, M
<1>13. PoolFound(N) /\ FunctionsFound(n) /\ found.size = End(n)
  BY <1>0, <1>1 DEF FInv, Progress
<1>14. PoolFound(N)'
  BY <1>1, <1>8, <1>12, <1>13 DEF PoolFound
<1>15. FunctionsFound(n + 1)'
  <2>1. /\ Len(found'.functions) = n + 1 /\ (\A k \in 1..n : found'.functions[k] = found.functions[k])
        /\ found'.functions[n + 1] = entry
    <3> DEFINE Entry == [name : Value, params : Value, regs : Value, offset : Value, count : Value]
    <3>1. found.functions \in Seq(Entry) /\ Len(found.functions) = n
      BY <1>13 DEF FInv, Types, ULB, FunctionsFound
    <3>2. entry \in Entry
      BY <1>7
    <3> HIDE DEF Entry
    <3> QED BY <1>8, <3>1, <3>2, AppendProperties
  <2>2. ASSUME NEW k \in 1..n + 1
        PROVE  found'.functions[k] =
                 [name |-> functions[k].name, params |-> functions[k].params, regs |-> functions[k].regs,
                  offset |-> offsets[k], count |-> Len(functions[k].code)]
    <3>1. CASE k = n + 1
      BY <2>1, <3>1 DEF entry, f
    <3>2. CASE k \in 1..n
      BY <1>13, <2>1, <3>2 DEF FunctionsFound
    <3> QED BY <1>2, <3>1, <3>2
  <2> QED BY <1>1, <2>1, <2>2 DEF FunctionsFound
<1>16. found'.size = End(n + 1)'
  <2>1. End(n) = offsets[n + 1]
    BY <1>2 DEF End
  <2>2. End(n + 1) = offsets[n + 1] + Len(f.code)
    BY <1>2 DEF FInv, Gathered, f
  <2>3. End(n + 1)' = End(n + 1)
    BY <1>1 DEF End
  <2> QED BY <1>8, <1>13, <2>1, <2>2, <2>3
<1>17. Progress'
  BY <1>1, <1>11, <1>12, <1>14, <1>15, <1>16 DEF FInv, Progress, Complete, M
<1> QED BY <1>9, <1>10, <1>17 DEF FInv

LEMMA ReadCodeFInv ==
  ASSUME FInv, ReadCode
  PROVE  FInv'
<1>1. /\ stage = "functions" /\ left = 0 /\ left' = left
      /\ pool' = pool /\ functions' = functions /\ offsets' = offsets /\ instrs' = instrs /\ file' = file
      /\ found' = [found EXCEPT !.code = [i \in 1..found.size |-> V(i)]]
  BY DEF ReadCode, Read
<1>2. /\ N \in Nat /\ M \in Nat /\ Len(instrs) \in Nat /\ Len(file) \in Nat /\ pos \in Nat \ {0}
      /\ M - left = M /\ Complete
  BY <1>1, TypesGive DEF FInv, Types, Progress
<1>3. PoolFound(N) /\ FunctionsFound(M) /\ found.size = Len(instrs) /\ AtFunction(M)
  <2>1. PoolFound(N) /\ FunctionsFound(M) /\ found.size = End(M) /\ AtFunction(M)
    BY <1>1, <1>2 DEF FInv, Progress
  <2>2. End(M) = Len(instrs)
    BY <1>2 DEF End, Complete
  <2> QED BY <2>1, <2>2
<1>4. CodeIn(file, pos) /\ EndsIn(file, pos + Len(instrs))
  BY <1>3 DEF AtFunction, WholeIn, CodePlace
<1>5. [i \in 1..found.size |-> V(i)] = instrs
  <2>1. \A i \in 1..Len(instrs) : V(i) = instrs[i]
    <3>1. ASSUME NEW i \in 1..Len(instrs) PROVE V(i) = instrs[i]
      <4>1. Has(file, pos + i - 1, "code", instrs[i])
        BY <1>4 DEF CodeIn
      <4> QED BY <1>2, <4>1, Readable DEF FInv
    <3> QED BY <3>1
  <2>2. instrs = [i \in 1..Len(instrs) |-> instrs[i]]
    BY LenProperties DEF FInv, Types
  <2> QED BY <1>3, <2>1, <2>2
<1>6. /\ found' \in ULB /\ found'.code = instrs /\ found'.pool = found.pool
      /\ found'.functions = found.functions
  <2>1. found' = [found EXCEPT !.code = instrs]
    BY <1>1, <1>5
  <2>2. instrs \in Seq(Value)
    <3>1. instrs \in [1..Len(instrs) -> Instr] /\ Instr \subseteq Value
      BY LenProperties DEF FInv, Types, Value
    <3> QED BY <1>2, <3>1
  <2>3. found \in ULB
    BY DEF FInv, Types
  <2> QED BY <2>1, <2>2, <2>3 DEF ULB
<1>7. /\ stage' \in {"debug", "done"} /\ pos' \in Nat \ {0}
      /\ stage' = "done" => pos' = Len(file) + 1
  <2> DEFINE markers == {i \in (pos + found.size)..Len(file) : file[i].is = "marker"}
  <2>1. \/ markers = {} /\ stage' = "done" /\ pos' = pos + found.size
        \/ stage' = "debug" /\ pos' \in markers
    BY DEF ReadCode
  <2>2. CASE markers = {} /\ stage' = "done" /\ pos' = pos + found.size
    <3>1. ~(pos + Len(instrs) <= Len(file))
      BY <1>2, <1>3, <1>4, <2>2 DEF EndsIn
    <3>2. Len(file) >= pos + Len(instrs) - 1
      BY <1>2, <1>4 DEF EndsIn
    <3> QED BY <1>2, <1>3, <2>2, <3>1, <3>2
  <2>3. CASE stage' = "debug" /\ pos' \in markers
    BY <1>2, <1>3, <2>3
  <2> QED BY <2>1, <2>2, <2>3
<1>8. Types'
  BY <1>1, <1>2, <1>6, <1>7 DEF FInv, Types, M
<1>9. Gathered'
  BY <1>1 DEF FInv, Gathered, End
<1>10. PoolFound(N)' /\ FunctionsFound(M)' /\ Complete'
  BY <1>1, <1>2, <1>3, <1>6 DEF PoolFound, FunctionsFound, Complete, N, M
<1>11. Progress'
  BY <1>1, <1>6, <1>7, <1>10 DEF Progress, Stages
<1> QED BY <1>8, <1>9, <1>11 DEF FInv

-----------------------------------------------------------------------------
(* What the invariant says of the reader.                                  *)

LEMMA FunctionFoundIs ==
  ASSUME FunctionsFound(M), NEW k \in 1..M
  PROVE  LET e == found.functions[k] IN
         /\ e.name = functions[k].name /\ e.params = functions[k].params /\ e.regs = functions[k].regs
         /\ e.offset = offsets[k] /\ e.count = Len(functions[k].code)
<1>1. PICK e : e = found.functions[k]
  OBVIOUS
<1>2. e = [name |-> functions[k].name, params |-> functions[k].params, regs |-> functions[k].regs,
           offset |-> offsets[k], count |-> Len(functions[k].code)]
  BY <1>1 DEF FunctionsFound
<1>3. /\ e.name = functions[k].name /\ e.params = functions[k].params /\ e.regs = functions[k].regs
      /\ e.offset = offsets[k] /\ e.count = Len(functions[k].code)
  BY <1>2
<1> QED BY <1>1, <1>3, Zenon

LEMMA CodeOfIsCode ==
  ASSUME FInv, Complete, found.code = instrs, FunctionsFound(M), NEW k \in 1..M
  PROVE  CodeOf(found.functions[k]) = functions[k].code
<1> DEFINE code == functions[k].code
           m == offsets[k] + 1
           n == offsets[k] + Len(code)
<1>1. /\ code \in Seq(Instr) /\ Len(code) \in Nat /\ offsets[k] \in Nat /\ Len(instrs) \in Nat
      /\ k \in 1..Len(offsets) /\ \A i \in 1..Len(instrs) : instrs[i] \in Instr
  BY TypesGive DEF FInv, Complete
<1>2. n <= Len(instrs) /\ \A i \in 1..Len(code) : instrs[offsets[k] + i] = code[i]
  BY <1>1 DEF FInv, Gathered
<1>3. CodeOf(found.functions[k]) = SubSeq(instrs, m, n)
  <2>1. found.functions[k].offset = offsets[k] /\ found.functions[k].count = Len(code)
    BY FunctionFoundIs
  <2> QED BY <2>1 DEF CodeOf
<1> HIDE DEF code
<1>4. m \in Int /\ n \in Int /\ (\A i \in m..n : instrs[i] \in Instr) /\ n - m + 1 = Len(code)
  BY <1>1, <1>2
<1>5. /\ SubSeq(instrs, m, n) \in Seq(Instr)
      /\ Len(SubSeq(instrs, m, n)) = IF m <= n THEN n - m + 1 ELSE 0
      /\ \A i \in 1..n - m + 1 : SubSeq(instrs, m, n)[i] = instrs[m + i - 1]
  <2> HIDE DEF m, n
  <2> QED BY <1>4, SubSeqProperties
<1>6. Len(SubSeq(instrs, m, n)) = Len(code)
  BY <1>1, <1>4, <1>5
<1>7. \A i \in 1..Len(code) : SubSeq(instrs, m, n)[i] = code[i]
  <2>1. ASSUME NEW i \in 1..Len(code) PROVE SubSeq(instrs, m, n)[i] = code[i]
    <3>1. m + i - 1 = offsets[k] + i
      BY <1>1
    <3> HIDE DEF m, n
    <3>2. SubSeq(instrs, m, n)[i] = instrs[m + i - 1]
      BY <1>4, <1>5
    <3> QED BY <1>2, <3>1, <3>2
  <2> QED BY <2>1
<1> HIDE DEF m, n
<1>8. SubSeq(instrs, m, n) = code
  BY <1>1, <1>5, <1>6, <1>7, SeqEqual
<1> QED BY <1>3, <1>8 DEF code

LEMMA FInvReads ==
  ASSUME FInv
  PROVE  FormatIsRead
<1>1. Ahead(UlbKinds)
  <2>1. CASE stage = "header"
    <3>1. pos = 1 /\ HeaderIn(file)
      BY <2>1 DEF FInv, Progress, Unread, WholeIn
    <3>2. Ahead(HeaderKinds)
      BY <3>1, HeaderAhead DEF FInv
    <3> QED BY <2>1, <3>2 DEF UlbKinds
  <2>2. CASE stage = "consts" /\ left > 0
    <3>1. PICK n : n = N - left
      OBVIOUS
    <3>2. N \in Nat /\ left \in Nat /\ left <= N
      BY <2>2, TypesGive DEF FInv, Types, Progress
    <3>3. n + 1 \in 1..N /\ pool[n + 1] \in Int
      BY <2>2, <3>1, <3>2, TypesGive DEF FInv
    <3>4. ConstIn(file, pos, pool[n + 1])
      BY <2>2, <3>1, <3>3 DEF FInv, Progress, AtConst, WholeIn, ConstsIn
    <3>5. Ahead(ConstKinds)
      BY <3>3, <3>4, ConstAhead DEF FInv
    <3> QED BY <2>2, <3>5 DEF UlbKinds
  <2>3. CASE stage = "functions" /\ left > 0
    <3>1. PICK n : n = M - left
      OBVIOUS
    <3>2. M \in Nat /\ left \in Nat /\ left <= M
      BY <2>3, TypesGive DEF FInv, Types, Progress
    <3>3. n + 1 \in 1..M /\ (n + 1) - 1 = n
      BY <2>3, <3>1, <3>2
    <3>4. PICK at \in Places : WholeIn(file, at) /\ pos = at[N + 1] + 7 * n
      BY <2>3, <3>1 DEF FInv, Progress, AtFunction
    <3>5. FunctionIn(file, at[N + 1] + 7 * ((n + 1) - 1), n + 1)
      BY <3>3, <3>4 DEF WholeIn, FunctionsIn
    <3>6. FunctionIn(file, pos, n + 1)
      BY <3>3, <3>4, <3>5
    <3>7. Ahead(FunctionKinds)
      BY <3>6, FunctionAhead DEF FInv
    <3> QED BY <2>3, <3>7 DEF UlbKinds
  <2>4. CASE ~(stage = "header" \/ (stage \in {"consts", "functions"} /\ left > 0))
    <3>1. UlbKinds = <<>>
      BY <2>4 DEF UlbKinds
    <3> QED BY <3>1 DEF Ahead
  <2> QED BY <2>1, <2>2, <2>3, <2>4
<1>2. ASSUME stage \in {"debug", "done"} PROVE UlbIsRead
  <2>1. PoolFound(N) /\ FunctionsFound(M) /\ found.code = instrs /\ Complete
    BY <1>2 DEF FInv, Progress
  <2>2. DOMAIN pool = 1..N /\ DOMAIN functions = 1..M
    BY LenProperties DEF FInv, Types, N, M
  <2>3. \A k \in 1..M : CodeOf(found.functions[k]) = functions[k].code
    BY <2>1, CodeOfIsCode
  <2>4. \A k \in 1..M : LET f == found.functions[k] IN
           f.name = functions[k].name /\ f.params = functions[k].params /\ f.regs = functions[k].regs
    BY <2>1, FunctionFoundIs, Zenon
  <2>5. Len(found.pool) = Len(pool) /\ Len(found.functions) = Len(functions)
    BY <2>1 DEF PoolFound, FunctionsFound, N, M
  <2>6. \A i \in 1..N : found.pool[i] = Known(pool[i])
    BY <2>1 DEF PoolFound
  <2> HIDE DEF N, M
  <2> QED BY <2>2, <2>3, <2>4, <2>5, <2>6 DEF UlbIsRead, Known
<1>3. stage = "done" => pos = Len(file) + 1
  BY DEF FInv, Progress
<1> QED BY <1>1, <1>2, <1>3 DEF FormatIsRead

LEMMA FInvIsInductive == FInv /\ [FormatNext]_formatVars => FInv'
<1> SUFFICES ASSUME FInv, [FormatNext]_formatVars PROVE FInv'
  OBVIOUS
<1>1. CASE WriteOrRead
  BY <1>1, GatherCodeFInv, WriteHeaderFInv, WriteConstFInv, BeginPutFunctionsFInv, WriteFunctionFInv,
     ReadHeaderFInv, ReadConstFInv, BeginFunctionsFInv, ReadFunctionFInv, ReadCodeFInv DEF WriteOrRead
<1>2. CASE \E section \in Section : WriteCode(section)
  BY <1>2, WriteCodeFInv
<1>3. CASE UNCHANGED formatVars
  <2>1. /\ stage' = stage /\ left' = left /\ file' = file /\ pos' = pos /\ found' = found
        /\ pool' = pool /\ functions' = functions /\ offsets' = offsets /\ instrs' = instrs
    BY <1>3 DEF formatVars
  <2>2. Types' /\ Gathered'
    BY <2>1 DEF FInv, Types, Gathered, End, M
  <2>3. Progress'
    <3>1. N' = N /\ M' = M /\ Places' = Places /\ (Complete' <=> Complete) /\ (Unread' <=> Unread)
      BY <2>1 DEF N, M, Places, Complete, Unread
    <3>2. HeaderIn(file)' <=> HeaderIn(file)
      BY <2>1, <3>1 DEF HeaderIn, Has
    <3>3. \A at : WholeIn(file, at)' <=> WholeIn(file, at)
      <4>1. PICK h : h = file
        OBVIOUS
      <4>2. \A at : WholeIn(h, at)' <=> WholeIn(h, at)
        BY <2>1, WholeStays
      <4> QED BY <2>1, <4>1, <4>2
    <3>4. \A at, n : ConstsIn(file, at, n)' <=> ConstsIn(file, at, n)
      BY <2>1, <3>1 DEF ConstsIn, ConstIn, Has
    <3>5. \A q, n : FunctionsIn(file, q, n)' <=> FunctionsIn(file, q, n)
      BY <2>1 DEF FunctionsIn, FunctionIn, Has
    <3>6. \A n : (ConstsPut(n)' <=> ConstsPut(n)) /\ (AtConst(n)' <=> AtConst(n))
      BY <2>1, <3>1, <3>3, <3>4 DEF ConstsPut, AtConst
    <3>7. \A n : (FunctionsPut(n)' <=> FunctionsPut(n)) /\ (AtFunction(n)' <=> AtFunction(n))
      BY <2>1, <3>1, <3>3, <3>4, <3>5 DEF FunctionsPut, AtFunction
    <3>8. \A n : (PoolFound(n)' <=> PoolFound(n)) /\ (FunctionsFound(n)' <=> FunctionsFound(n)) /\ End(n)' = End(n)
      BY <2>1 DEF PoolFound, FunctionsFound, End
    <3> QED BY <2>1, <3>1, <3>2, <3>3, <3>6, <3>7, <3>8 DEF FInv, Progress
  <2> QED BY <2>2, <2>3 DEF FInv
<1> QED BY <1>1, <1>2, <1>3 DEF FormatNext

\* Whatever constants and functions serialize is given, with a debug section or without one,
\* parse_ulb takes every field as what it was written as, and finds in the end every constant
\* with its type and every function with its name, its registers and its own code.
THEOREM FormatIsReadBack == FormatSpec => []FormatIsRead
<1>1. FormatSpec => []FInv
  BY InitFInv, FInvIsInductive, PTL DEF FormatSpec
<1>2. FInv => FormatIsRead
  BY FInvReads
<1> QED BY <1>1, <1>2, PTL
=============================================================================
