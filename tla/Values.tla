------------------------------- MODULE Values -------------------------------
(***************************************************************************)
(* What the operators of the interpreter (interp/ops.rs) and the built-in  *)
(* operations that only read their operands (builtin/call.rs) compute.     *)
(* An object is a tree here: its elements are contents, so that sharing    *)
(* and ownership play no part; Machine adds them.  Vectors and matrices    *)
(* are left out.  A double is a number of quarters.  A text is a sequence  *)
(* of characters, in which a message or a number written out counts as one.*)
(***************************************************************************)
LOCAL INSTANCE Integers
LOCAL INSTANCE Sequences
LOCAL INSTANCE SequencesExt
LOCAL INSTANCE FiniteSets
LOCAL INSTANCE FiniteSetsExt
LOCAL INSTANCE TLC

CONSTANTS
    Lines,      \* the texts a user may type, a file may hold
    Evaluated,  \* the values a text given to eval, parse... may stand for
    Randoms     \* the random numbers that can be drawn, in quarters

Om == [kind |-> "om"]
Bool(b) == [kind |-> "bool", is |-> b]
Double(q) == [kind |-> "double", quarters |-> q]
Char(c) == [kind |-> "char", char |-> c]
Number(n) == [kind |-> "number", num |-> n]
Text(s) == [kind |-> "string", text |-> s]
List(s) == [kind |-> "list", elems |-> s]
SetObj(s) == [kind |-> "set", elems |-> s]
Tagged(k, tag, s) == [kind |-> k, tag |-> tag, elems |-> s]
Regex(p, anchored) == [kind |-> "regex", pattern |-> p, anchored |-> anchored]
File == [kind |-> "file"]

\* An operation that throws an exception, and one that stops at a Rust panic,
\* which leaves the exception of the program as it was.
Raise == [kind |-> "raise"]
Panic == [kind |-> "panic"]
Failures == {Raise, Panic}

Terms == {"term", "tterm", "ast"}
Containers == Terms \cup {"list", "set", "object"}
ObjKinds == Containers \cup {"number", "string", "regex", "file", "procedure"}
IsObj(v) == v.kind \in ObjKinds
IsText(v) == v.kind \in {"string", "char"}
IsNum(v) == v.kind \in {"number", "double"}

Infinity == Double(1000)

\* Literals, by the way they are written in a statement.
Literals ==
    ("om" :> Om) @@ ("true" :> Bool(TRUE)) @@ ("false" :> Bool(FALSE)) @@ ("" :> Text(<<>>))
    @@ ("@@@" :> Text(<<"@", "@", "@">>)) @@ ("INFINITY" :> Infinity) @@ ("REAL" :> Double(2))
    @@ [s \in {ToString(n) : n \in -1 .. 10 \cup {256}} |->
          Number(CHOOSE n \in -1 .. 10 \cup {256} : ToString(n) = s)]

----------------------------------------------------------------------------
(* Order (val_cmp): what equality, sets, max and min go by.                *)

Position(x, s) == CHOOSE i \in DOMAIN s : s[i] = x

\* The code of a character, or of a tag that counts as one, and the bytes it
\* takes in a text.
Words == <<"F", "H", "call", "f", "g", "minus", "not", "plus">>
Code(c) == CASE c = "-1" -> 45 [] c = "@" -> 64 [] c = "a" -> 97 [] c = "b" -> 98 [] c = "c" -> 99
             [] c \in ToSet(Words) -> 100 + Position(c, Words)
             [] c \in {"0", "1", "2", "3"} -> 48 + (CHOOSE n \in 0 .. 3 : ToString(n) = c)
             [] OTHER -> 200
Bytes(c) == IF c = "e-acute" THEN 2 ELSE 1

SignOf(n) == IF n < 0 THEN -1 ELSE IF n > 0 THEN 1 ELSE 0

ValRank(v) ==
    CASE v.kind \in {"bool", "double", "char"} -> Position(v.kind, <<"bool", "double", "char">>)
      [] IsObj(v) -> 8
      [] v.kind = "om" -> 10
      [] OTHER -> 7
ObjRank(v) == Position(v.kind, <<"ast", "list", "number", "set", "string", "term", "tterm",
                                 "regex", "object", "procedure", "file">>)
Quarters(v) == IF v.kind = "number" THEN 4 * v.num ELSE v.quarters

RECURSIVE Cmp(_, _)
CmpSeq(s, t) ==
    LET n == Min({Len(s), Len(t)})
        differ == {i \in 1 .. n : Cmp(s[i], t[i]) # 0}
    IN IF differ # {} THEN Cmp(s[Min(differ)], t[Min(differ)]) ELSE SignOf(Len(s) - Len(t))

CmpText(s, t) ==
    IF s = t THEN 0 ELSE CmpSeq([i \in DOMAIN s |-> Number(Code(s[i]))],
                                [i \in DOMAIN t |-> Number(Code(t[i]))])

CmpObj(a, b) ==
    CASE a.kind # b.kind -> SignOf(ObjRank(a) - ObjRank(b))
      [] a.kind = "number" -> SignOf(a.num - b.num)
      [] a.kind = "string" -> CmpText(a.text, b.text)
      [] a.kind \in {"list", "set"} -> CmpSeq(a.elems, b.elems)
      [] a.kind \in Terms ->
            IF a.tag = b.tag THEN CmpSeq(a.elems, b.elems) ELSE CmpText(a.tag, b.tag)
      [] OTHER -> 0

\* A number against a double compares the number with the double whichever side
\* it stands on, and a character equals every text that starts with it.
StartsWith(c, s) == s.kind = "string" /\ IsPrefix(<<c.char>>, s.text)
Cmp(a, b) ==
    CASE a.kind = "bool" /\ b.kind = "bool" -> IF a = b THEN 0 ELSE IF b.is THEN -1 ELSE 1
      [] a.kind = "double" /\ b.kind = "double" -> SignOf(a.quarters - b.quarters)
      [] a.kind = "number" /\ b.kind = "double" -> SignOf(Quarters(a) - Quarters(b))
      [] a.kind = "double" /\ b.kind = "number" -> SignOf(Quarters(b) - Quarters(a))
      [] a.kind = "char" /\ StartsWith(a, b) -> 0
      [] b.kind = "char" /\ StartsWith(b, a) -> 0
      [] IsObj(a) /\ IsObj(b) -> CmpObj(a, b)
      [] OTHER -> SignOf(ValRank(a) - ValRank(b))

Same(a, b) == Cmp(a, b) = 0
Has(s, v) == \E i \in DOMAIN s : Same(s[i], v)

\* BTreeSet::insert: the element that is there already stays.
SetAdd(s, v) ==
    IF Has(s, v) THEN s
    ELSE SelectSeq(s, LAMBDA x : Cmp(x, v) < 0) \o <<v>> \o SelectSeq(s, LAMBDA x : Cmp(x, v) > 0)
SetOf(s) == FoldLeft(SetAdd, <<>>, s)

----------------------------------------------------------------------------
(* Texts                                                                   *)

RECURSIVE Serialize(_)
Joined(s) == FoldLeft(LAMBDA acc, v : acc \o (IF acc = <<>> THEN <<>> ELSE <<",">>) \o Serialize(v),
                      <<>>, s)
Serialize(v) ==
    CASE v.kind = "string" -> v.text
      [] v.kind = "char" -> <<v.char>>
      [] v.kind = "number" -> <<ToString(v.num)>>
      [] v.kind = "double" -> <<ToString(v.quarters) \o "/4">>
      [] v.kind = "bool" -> <<IF v.is THEN "true" ELSE "false">>
      [] v.kind = "list" -> <<"[">> \o Joined(v.elems) \o <<"]">>
      [] v.kind = "set" -> <<"{">> \o Joined(v.elems) \o <<"}">>
      [] v.kind \in Terms -> v.tag \o <<"(">> \o Joined(v.elems) \o <<")">>
      [] OTHER -> <<v.kind>>

ParseInt(s) ==
    LET n == {k \in -1 .. 20 : s = <<ToString(k)>>} IN IF n = {} THEN Om ELSE Number(CHOOSE k \in n : TRUE)
ParseFloat(s) ==
    LET q == {k \in -4 .. 80 : s = <<ToString(k) \o "/4">>}
    IN IF q # {} THEN Double(CHOOSE k \in q : TRUE)
       ELSE IF ParseInt(s) # Om THEN Double(4 * ParseInt(s).num) ELSE Om

\* Where a pattern, taken literally, is first found in a text; -1 if it is not.
FirstMatch(p, s) ==
    LET at == {i \in 0 .. Len(s) - Len(p) : SubSeq(s, i + 1, i + Len(p)) = p}
    IN IF at = {} THEN -1 ELSE Min(at)
ByteLen(s) == FoldLeft(LAMBDA n, c : n + Bytes(c), 0, s)

\* The names a term constructor and the syntax tree give an operator.
TagTable == {<<"sum", 2, "plus">>, <<"difference", 2, "minus">>, <<"not", 1, "not">>}
AstTag(s, n) ==
    LET row == {t \in TagTable : s = <<t[1]>> /\ t[2] = n}
    IN IF row # {} THEN Text(<<(CHOOSE t \in row : TRUE)[3]>>)
       ELSE IF s = <<"call">> THEN Text(s) ELSE Om
TTermTag(s) ==
    LET row == {t \in TagTable : s = <<t[3]>>}
    IN IF row # {} THEN Text(<<(CHOOSE t \in row : TRUE)[1]>>)
       ELSE IF s = <<"call">> THEN Text(s) ELSE Om

----------------------------------------------------------------------------
(* Operators                                                               *)

LessOf(a, b) ==
    CASE a.kind = "set" /\ b.kind = "set" -> Bool(\A i \in DOMAIN a.elems : Has(b.elems, a.elems[i]))
      [] IsNum(a) /\ IsNum(b) -> Bool(Quarters(a) < Quarters(b))
      [] OTHER -> Raise

BothWhole(a, b) == a.kind = "number" /\ b.kind = "number"
PlusOf(a, b) ==
    CASE "string" \in {a.kind, b.kind} \/ {a.kind, b.kind} = {"char"} ->
            Text(Serialize(a) \o Serialize(b))
      [] a.kind = "list" /\ b.kind \in {"list", "set"} -> List(a.elems \o b.elems)
      [] a.kind = "set" /\ b.kind = "set" -> SetObj(SetOf(a.elems \o b.elems))
      [] a.kind = "set" /\ b.kind = "list" -> SetObj(SetOf(b.elems \o a.elems))
      [] BothWhole(a, b) -> Number(a.num + b.num)
      [] IsNum(a) /\ IsNum(b) -> Double(Quarters(a) + Quarters(b))
      [] IsObj(a) /\ IsObj(b) /\ {a.kind, b.kind} \cap Terms # {} -> Tagged("ast", <<"plus">>, <<a, b>>)
      [] OTHER -> Raise

MinusOf(a, b) ==
    CASE a.kind = "set" /\ b.kind = "set" -> SetObj(SelectSeq(a.elems, LAMBDA x : ~Has(b.elems, x)))
      [] BothWhole(a, b) -> Number(a.num - b.num)
      [] IsNum(a) /\ IsNum(b) -> Double(Quarters(a) - Quarters(b))
      [] OTHER -> Raise

Repeated(s, n) == IF n < 0 THEN Panic ELSE Text(FlattenSeq([i \in 1 .. n |-> s]))
MultOf(a, b) ==
    CASE a.kind = "set" /\ b.kind = "set" -> SetObj(SelectSeq(a.elems, LAMBDA x : Has(b.elems, x)))
      [] BothWhole(a, b) -> Number(a.num * b.num)
      [] IsNum(a) /\ IsNum(b) -> Double((Quarters(a) * Quarters(b)) \div 4)
      [] IsText(a) /\ b.kind = "number" -> Repeated(Serialize(a), b.num)
      [] a.kind = "number" /\ IsText(b) -> Repeated(Serialize(b), a.num)
      [] IsObj(a) /\ IsObj(b) -> Panic
      [] OTHER -> Raise

QuotOf(a, b) ==
    IF ~IsNum(a) \/ ~IsNum(b) THEN Raise
    ELSE IF Quarters(b) = 0 THEN Infinity
    ELSE Double((4 * Quarters(a) * SignOf(Quarters(b))) \div (Quarters(b) * SignOf(Quarters(b))))

\* BigInt's / and %, and what is left of a quotient of doubles cut to a whole
\* number: all go towards zero.  A double divided by zero is the largest number.
Truncated(a, b) == SignOf(a) * SignOf(b) * ((a * SignOf(a)) \div (b * SignOf(b)))
Largest == 1000
IntQuotOf(a, b) ==
    CASE BothWhole(a, b) -> IF b.num = 0 THEN Panic ELSE Number(Truncated(a.num, b.num))
      [] IsNum(a) /\ IsNum(b) /\ Quarters(b) = 0 -> Number(SignOf(Quarters(a)) * Largest)
      [] IsNum(a) /\ IsNum(b) -> Number(Truncated(Quarters(a), Quarters(b)))
      [] OTHER -> Raise
Remainder(a, b) == a - b * Truncated(a, b)
ModOf(a, b) ==
    CASE a.kind = "set" /\ b.kind = "set" ->
            SetObj(SetOf(SelectSeq(a.elems, LAMBDA x : ~Has(b.elems, x))
                           \o SelectSeq(b.elems, LAMBDA x : ~Has(a.elems, x))))
      [] BothWhole(a, b) -> IF b.num = 0 THEN Panic ELSE Number(Remainder(a.num, b.num))
      [] IsNum(a) /\ IsNum(b) ->
            Number(IF Quarters(b) = 0 THEN 0 ELSE Truncated(Remainder(Quarters(a), Quarters(b)), 4))
      [] OTHER -> Raise

----------------------------------------------------------------------------
(* Built-in operations that only read their operands                       *)

\* to_bool, to_str, to_num, to_f64: what is not of the type throws.
Logical(t, b) == IF \E i \in DOMAIN t : t[i].kind # "bool" THEN Raise ELSE Bool(b)
OfText(a, r) == IF IsText(a) THEN r ELSE {Raise}

AmountOf(a) ==
    CASE a.kind \in {"list", "set"} \cup Terms -> Number(Len(a.elems))
      [] a.kind = "string" -> Number(Len(a.text))
      [] a.kind = "char" -> Number(1)
      [] OTHER -> Raise

\* Half a number is rounded away from zero.
RoundOf(q) == IF q < 0 THEN -(4 * ((2 - q) \div 4)) ELSE 4 * ((q + 2) \div 4)
Rounded(f, a) ==
    CASE ~IsNum(a) -> Raise
      [] a = Infinity -> a
      [] f = "Round" -> Double(RoundOf(Quarters(a)))
      [] f = "Floor" -> Double(4 * (Quarters(a) \div 4))
      [] f = "Ceil" -> Double(-(4 * ((-Quarters(a)) \div 4)))

\* The functions whose value is some double; the gap after zero is a subtraction
\* that overflows, which stops the debug build and wraps in the release build.
RealFns == {"Ln", "Exp", "Sqrt", "Sin", "Cos", "Tan", "SinH", "CosH", "TanH", "Ulp"}
RealFn(f, a) ==
    IF ~IsNum(a) THEN {Raise}
    ELSE {Double(2)} \cup (IF f = "Ulp" /\ Quarters(a) = 0 THEN {Panic} ELSE {})

\* as u8 as char: the code modulo 256.
ToCharOf(a) ==
    IF a.kind # "number" \/ a.num < 0 THEN Raise
    ELSE LET c == {x \in {"0", "1", "@", "a", "b"} : Code(x) = a.num % 256}
         IN Char(IF c = {} THEN "other" ELSE CHOOSE x \in c : TRUE)

Prime(n) == n > 1 /\ \A d \in 2 .. (n - 1) : n % d # 0

\* An anchored pattern has to match the whole text.
Compiled(a, flags) == IF Head(Serialize(a) \o <<"">>) = "(" THEN Raise ELSE Regex(Serialize(a), flags.num = 1)
Matches(input, r) ==
    IF r.anchored THEN Serialize(input) = r.pattern ELSE FirstMatch(r.pattern, Serialize(input)) >= 0
GroupsOf(input, r) == List(IF Matches(input, r) THEN <<Text(r.pattern)>> ELSE <<>>)

\* The operations on files: each may fail.
FileOps == {"OpenAt", "ReadAll", "ReadAllList", "Write", "Delete"}
FileOp(f, t) ==
    {Raise} \cup
    CASE f = "OpenAt" -> OfText(t[2], {File})
      [] f = "ReadAll" -> Lines
      [] f = "ReadAllList" -> {List(<<l>>) : l \in Lines}
      [] f = "Write" -> OfText(t[2], {Om})
      [] f = "Delete" -> OfText(t[1], {Om})

\* Code in a text or a term: it may fail, print, or yield a value.
CodeOps == {"Eval", "ParseAst", "ParseAstBlock", "Execute", "EvalTerm"}
CodeOp(f, a) ==
    CASE f = "EvalTerm" -> Evaluated \cup {Om, Raise}
      [] f = "Execute" -> OfText(a, {Bool(TRUE), Raise})
      [] OTHER -> OfText(a, Evaluated \cup {Raise})

\* An element of a set or a list, or a part of a text.
ContainsOf(c, v) ==
    CASE c.kind \in {"set", "list"} -> Bool(Has(c.elems, v))
      [] c.kind = "string" -> Bool(FirstMatch(Serialize(v), c.text) >= 0)
      [] OTHER -> Raise

\* Two lists side by side, the pairs of two sets.
CartesianOf(a, b) ==
    CASE a.kind = "list" /\ b.kind = "list" ->
            List([i \in 1 .. Min({Len(a.elems), Len(b.elems)}) |-> List(<<a.elems[i], b.elems[i]>>)])
      [] a.kind = "set" /\ b.kind = "set" ->
            SetObj(FlattenSeq([i \in DOMAIN a.elems |->
                                 [j \in DOMAIN b.elems |-> List(<<a.elems[i], b.elems[j]>>)]]))
      [] OTHER -> Raise

\* 2 to the power of a set is the set of its subsets, a set to the power of 2 the
\* set of its pairs; a power of numbers is a double.
Masked(s, mask) ==
    SetObj(FoldLeft(LAMBDA acc, i : IF (mask \div (2 ^ (i - 1))) % 2 = 1 THEN Append(acc, s[i]) ELSE acc,
                    <<>>, [i \in DOMAIN s |-> i]))
PowOf(a, b) ==
    CASE IsNum(a) /\ IsNum(b) -> Double(2)
      [] IsNum(a) /\ Quarters(a) = 8 /\ b.kind = "set" ->
            SetObj(SortSeq([k \in 1 .. 2 ^ Len(b.elems) |-> Masked(b.elems, k - 1)],
                           LAMBDA x, y : Cmp(x, y) < 0))
      [] a.kind = "set" /\ IsNum(b) /\ Quarters(b) = 8 -> CartesianOf(a, a)
      [] OTHER -> Raise

\* to_i64: a double is cut.
WholeOf(a) == IF a.kind = "number" THEN a.num ELSE Truncated(a.quarters, 4)
RangeOf(a, b) ==
    IF ~IsNum(a) \/ ~IsNum(b) THEN Raise
    ELSE List([i \in 1 .. Max({0, WholeOf(b) - WholeOf(a) + 1}) |-> Number(WholeOf(a) + i - 1)])

Operations == {"plus", "minus", "mult", "quot", "intDiv", "mod", "less", "equal", "Contains", "Cartesian", "Pow",
               "ListRange"}
Arithmetic(f, a, b) ==
    CASE f = "plus" -> PlusOf(a, b)
      [] f = "minus" -> MinusOf(a, b)
      [] f = "mult" -> MultOf(a, b)
      [] f = "quot" -> QuotOf(a, b)
      [] f = "intDiv" -> IntQuotOf(a, b)
      [] f = "mod" -> ModOf(a, b)
      [] f = "less" -> LessOf(a, b)
      [] f = "equal" -> Bool(Same(a, b))
      [] f = "Contains" -> ContainsOf(a, b)
      [] f = "Cartesian" -> CartesianOf(a, b)
      [] f = "Pow" -> PowOf(a, b)
      [] f = "ListRange" -> RangeOf(a, b)

\* What an operation may yield for operands with these contents.
Results(f, t) ==
    CASE f \in Operations -> {Arithmetic(f, t[1], t[2])}
      [] f = "and" -> {Logical(t, \A i \in DOMAIN t : t[i] = Bool(TRUE))}
      [] f = "or" -> {Logical(t, \E i \in DOMAIN t : t[i] = Bool(TRUE))}
      [] f = "not" -> {Logical(t, t[1] = Bool(FALSE))}
      [] f = "Amount" -> {AmountOf(t[1])}
      [] f = "Copy" -> {t[1]}
      [] f = "SetRange" -> {IF RangeOf(t[1], t[2]) = Raise THEN Raise ELSE SetObj(RangeOf(t[1], t[2]).elems)}
      [] f = "AstNodeNew" -> {Tagged("ast", Serialize(t[1]), Tail(t))}
      [] f = "TermNew" -> OfText(t[1], {Tagged(IF t[3].is THEN "tterm" ELSE "term", Serialize(t[1]),
                                               [i \in 1 .. t[2].num |-> Om])})
      [] f = "AstNodeNewSized" -> {Tagged("ast", Serialize(t[1]), [i \in 1 .. t[2].num |-> Om])}
      [] f = "AstTagGet" -> OfText(t[1], {AstTag(Serialize(t[1]), t[2].num)})
      [] f = "AstTTermTagGet" -> OfText(t[1], {TTermTag(Serialize(t[1]))})
      [] f = "ListNew" -> {List(<<>>)}
      [] f = "SetNew" -> {SetObj(<<>>)}
      [] f = "RegexCompile" -> OfText(t[1], {Compiled(t[1], t[2])})
      [] f = "RegexMatch" -> OfText(t[1], {Bool(Matches(t[1], t[2]))})
      [] f = "Serialize" -> {Text(Serialize(t[1]))}
      [] f \in {"PrintStdout", "PrintStderr"} -> OfText(t[1], {Om})
      [] f \in CodeOps -> CodeOp(f, t[1])
      [] f \in FileOps -> FileOp(f, t)
      [] f \in RealFns -> RealFn(f, t[1])
      [] f \in {"Round", "Floor", "Ceil"} -> {Rounded(f, t[1])}
      [] f = "RndFloat" -> {Double(q) : q \in Randoms}
      [] f = "ToChar" -> {ToCharOf(t[1])}
      [] f = "Sleep" -> {Om}
      [] f = "UnixEpoch" -> {Number(7)}
      [] f = "Cmp" -> {Number(Cmp(t[1], t[2]))}
      [] f = "ParseInt" -> OfText(t[1], {ParseInt(Serialize(t[1]))})
      [] f = "ParseFloat" -> OfText(t[1], {ParseFloat(Serialize(t[1]))})
      [] f = "Cmd" -> {List(<<List(<<l>>), List(<<>>)>>) : l \in Lines}
      [] f \in {"IsPrime", "IsProbablePrime"} ->
            {IF t[1].kind = "number" THEN Bool(Prime(t[1].num)) ELSE Raise}
      [] f = "StrVal" -> OfText(t[1], {IF Serialize(t[1]) = <<>> THEN Raise
                                       ELSE Number(Code(Serialize(t[1])[1]))})
      [] f = "CacheClear" -> {IF t[1].kind = "procedure" THEN Om ELSE Panic}
=============================================================================
