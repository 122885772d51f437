------------------------------ MODULE Machine ------------------------------
(***************************************************************************)
(* The interpreter's machine as the predefined procedures see it: the      *)
(* registers and the blocks of one procedure, the objects on the heap, the *)
(* immediate heap that owns what the procedure has made (interp/heap.rs),  *)
(* the variables its parameters point to, and the built-in operations that *)
(* make, move and free objects (interp/assign.rs, interp/get.rs,           *)
(* builtin/call.rs).  References are never given out twice, so that one to *)
(* a freed object is seen for what it is.                                  *)
(***************************************************************************)
EXTENDS Code, Values, Integers, SequencesExt, FiniteSets, FiniteSetsExt, TLC

CONSTANTS
    Programs,    \* the procedures: name -> block -> sequence of statements
    Inputs,      \* the contents of the parameters each is called with
    Changes,     \* the parameters each may change: name -> set of positions
    Caches,      \* the results each may have kept from earlier calls
    MaxReads     \* how many lines the user types before the input ends

VARIABLES
    prog,    \* the procedure that runs
    input,   \* the contents of its parameters when it was called
    pc,      \* the block and the statement in it
    mem,     \* registers, objects, immediate heaps, frames, variables
    status   \* "running", or how it ended
vars == <<prog, input, pc, mem, status>>

----------------------------------------------------------------------------
(* Values of registers: atoms, references, and what points into an object. *)

Ref(r) == [kind |-> "ref", ref |-> r]
ToSlot(i) == [kind |-> "slot", at |-> i]
ToReg(x) == [kind |-> "reg", at |-> x]
ToElem(r, i) == [kind |-> "elem", ref |-> r, at |-> i]
ToChar(r, i) == [kind |-> "charof", ref |-> r, at |-> i]
Slice(r, from, take) == [kind |-> "slice", ref |-> r, from |-> from, take |-> take]
Iter(r, at, until) == [kind |-> "iter", ref |-> r, at |-> at, until |-> until]
ParamIter == [kind |-> "iter", at |-> 0, until |-> Len(input)]
Gone == [kind |-> "gone"]

\* A pointer to a local variable of the interpreter, and what runs on with it.
Local == [kind |-> "local"]
Stray == [kind |-> "stray"]
Pointers == {"slot", "reg", "elem"}

RefsIn(v) == IF "ref" \in DOMAIN v THEN {v.ref} ELSE {}
Kids(o) == IF o.kind \in Containers THEN UNION {RefsIn(o.elems[i]) : i \in DOMAIN o.elems} ELSE {}

\* The objects reachable from these references, the freed ones included.
RECURSIVE Under(_, _)
Under(objs, refs) ==
    LET more == refs \cup UNION {Kids(objs[r]) : r \in refs \cap DOMAIN objs}
    IN IF more = refs THEN refs ELSE Under(objs, more)
Live(m, v) ==
    CASE v.kind = "slot" -> m.slots[v.at] # Gone
      [] v.kind \in {"elem", "charof"} -> v.ref \in DOMAIN m.objs
      [] OTHER -> Under(m.objs, RefsIn(v)) \subseteq DOMAIN m.objs

\* Every object reached has one owner: one of these references, or one place
\* in one object.
Places(o) == IF o.kind \in Containers THEN {i \in DOMAIN o.elems : RefsIn(o.elems[i]) # {}} ELSE {}
Disjoint(objs, refs) ==
    LET all == Under(objs, refs)
    IN Cardinality(all) = Cardinality(refs)
         + Cardinality(UNION {{<<r, i>> : i \in Places(objs[r])} : r \in all \cap DOMAIN objs})

Cut(s, from, take) == SubSeq(s, from + 1, Min({Len(s), from + take}))

RECURSIVE Content(_, _)
Content(objs, v) ==
    IF v.kind \notin {"ref", "slice"} THEN v
    ELSE LET o == objs[v.ref]
         IN CASE v.kind = "slice" /\ o.kind = "string" -> Text(Cut(o.text, v.from, v.take))
              [] v.kind = "slice" -> List([i \in 1 .. v.take |-> Content(objs, o.elems[v.from + i])])
              [] o.kind \in Containers ->
                    [o EXCEPT !.elems = [i \in DOMAIN @ |-> Content(objs, @[i])]]
              [] OTHER -> o

----------------------------------------------------------------------------
(* Objects                                                                 *)

New(m, o) == [m |-> [m EXCEPT !.objs = (m.next :> o) @@ @, !.next = @ + 1], v |-> Ref(m.next)]

\* An object and everything in it, made from its content.
RECURSIVE Build(_, _)
BuildNext(acc, t) == LET b == Build(acc.m, t) IN [m |-> b.m, vs |-> Append(acc.vs, b.v)]
Build(m, t) ==
    CASE ~IsObj(t) -> [m |-> m, v |-> t]
      [] t.kind \in Containers ->
            LET in == FoldLeft(BuildNext, [m |-> m, vs |-> <<>>], t.elems)
            IN New(in.m, [t EXCEPT !.elems = in.vs])
      [] OTHER -> New(m, t)

Top(m) == Len(m.heaps)
MarkImmed(m, v) == [m EXCEPT !.heaps[Top(m)] = @ \cup (IF v.kind = "ref" THEN {v.ref} ELSE {})]
MarkPersist(m, v) == [m EXCEPT !.heaps[Top(m)] = @ \ (IF v.kind = "ref" THEN {v.ref} ELSE {})]

\* push_obj: what an operation makes is the immediate heap's.
Put(m, t) == LET b == Build(m, t) IN [m |-> MarkImmed(b.m, b.v), v |-> b.v]

\* Invalidate: the object and what it owns; of no effect on other values.
Invalidate(m, v) ==
    IF v.kind # "ref" THEN m
    ELSE LET gone == Under(m.objs, {v.ref})
         IN [MarkPersist(m, v) EXCEPT
               !.objs = [r \in DOMAIN @ \ gone |-> @[r]],
               !.wild = @ \/ ~gone \subseteq DOMAIN m.objs \/ ~Disjoint(m.objs, {v.ref})]

\* The immediate heap goes with everything it still owns.
DropHeap(m) ==
    LET gone == Under(m.objs, m.heaps[Top(m)])
    IN [m EXCEPT !.objs = [r \in DOMAIN @ \ gone |-> @[r]],
                 !.heaps = Front(@),
                 !.wild = @ \/ ~gone \subseteq DOMAIN m.objs \/ ~Disjoint(m.objs, m.heaps[Top(m)])]

----------------------------------------------------------------------------
(* Operands                                                                *)

\* Any word that is no literal stands for the message of one symbol it names.
Val(m, a) ==
    CASE a \in DOMAIN m.regs -> m.regs[a]
      [] a \in DOMAIN Literals -> Literals[a]
      [] a = "params" -> List([i \in DOMAIN input |-> Om])
      [] OTHER -> Text(<<a>>)
Tree(m, a) == Content(m.objs, Val(m, a))

\* What a pointer points to, and storing there: only a register's value stays
\* the immediate heap's.
Target(m, p) ==
    CASE p.kind = "slot" -> m.slots[p.at]
      [] p.kind = "reg" -> m.regs[p.at]
      [] p.kind = "elem" -> m.objs[p.ref].elems[p.at]
      [] p.kind = "charof" -> LET s == m.objs[p.ref].text
                              IN Char(IF p.at \in DOMAIN s THEN s[p.at] ELSE " ")
Write(m, p, v) ==
    CASE p.kind = "reg" -> [m EXCEPT !.regs[p.at] = v]
      [] p.kind = "slot" -> [MarkPersist(m, v) EXCEPT !.slots[p.at] = v]
      [] p.kind = "elem" -> [MarkPersist(m, v) EXCEPT !.objs[p.ref].elems[p.at] = v]

\* In the place of a character of a text comes what the value is written as.
WriteChar(m, p, v) ==
    [m EXCEPT !.objs[p.ref].text =
        SubSeq(@, 1, p.at - 1) \o Serialize(Content(m.objs, v)) \o SubSeq(@, p.at + 1, Len(@))]

----------------------------------------------------------------------------
(* Operations that hand out, move or keep references.  Each yields a memory *)
(* and a value, or a failure.                                               *)

Out(m, v) == {[m |-> m, v |-> v]}
Strayed(m) == Out([m EXCEPT !.wild = TRUE], Stray)
Made(m, t) == IF IsObj(t) THEN Out(Put(m, t).m, Put(m, t).v) ELSE Out(m, t)

\* TypeOf and the comparisons of its result: a character counts as a text, a
\* slice as what it is a part of.
KindOf(m, v) ==
    CASE v.kind \in {"ref", "slice"} -> m.objs[v.ref].kind
      [] v.kind = "char" -> "string"
      [] OTHER -> v.kind

\* Access array: counted from zero, for a term from one with the tag at zero;
\* below zero, from one past the end.  Through a pointer it yields a pointer.
\* Out of range a list or a term stops at a panic, a set or a text gives om.
Index(o, i) ==
    LET n == IF o.kind = "string" THEN Len(o.text) ELSE Len(o.elems)
    IN (IF i < 0 THEN i + n + 1 ELSE i) + (IF o.kind \in Terms THEN 0 ELSE 1)
ElemOf(m, v, i) ==
    IF v.kind = "slice" THEN
       LET e == IF KindOf(m, v) = "string" THEN Content(m.objs, v).text
                ELSE Cut(m.objs[v.ref].elems, v.from, v.take)
       IN Out(m, IF i + 1 \notin DOMAIN e THEN Om ELSE IF KindOf(m, v) = "string" THEN Char(e[i + 1]) ELSE e[i + 1])
    ELSE IF v.kind # "ref" THEN Out(m, Raise)
    ELSE LET o == m.objs[v.ref]
         IN CASE o.kind = "string" -> Out(m, IF i + 1 \in DOMAIN o.text THEN Char(o.text[i + 1]) ELSE Om)
              [] o.kind = "set" -> Out(m, IF i + 1 \in DOMAIN o.elems THEN o.elems[i + 1] ELSE Om)
              [] o.kind \in Terms /\ i = 0 -> Made(m, Text(o.tag))
              [] o.kind \in Terms \cup {"list"} ->
                    Out(m, IF Index(o, i) \in DOMAIN o.elems THEN o.elems[Index(o, i)] ELSE Panic)
              [] OTHER -> Out(m, Raise)
ElemPtr(m, p, i) ==
    LET v == Target(m, p)
    IN IF v.kind # "ref" THEN Out(m, Raise)
       ELSE LET o == m.objs[v.ref]
            IN CASE o.kind = "string" -> Out(m, ToChar(v.ref, Index(o, i)))
                 [] o.kind \in Terms /\ i = 0 -> Out(m, Raise)
                 [] o.kind \in Terms \cup {"list"} ->
                       Out(m, IF Index(o, i) \in DOMAIN o.elems THEN ToElem(v.ref, Index(o, i)) ELSE Panic)
                 [] OTHER -> Out(m, Raise)
AccessArray(m, v, n) ==
    IF v = Local \/ (v.kind \in Pointers /\ ~Live(m, Target(m, v))) THEN Strayed(m)
    ELSE IF ~IsNum(n) THEN Out(m, Raise)
    ELSE LET i == Quarters(n) \div 4
         IN IF v.kind \in Pointers THEN ElemPtr(m, v, i) ELSE ElemOf(m, v, i)

\* Slices of a text: from and take as they are given, a take below zero being
\* one without end; a slice of a slice takes no more than that one had.  Past
\* its end the subtraction stops the debug build and wraps in the release build.
Endless == 100
Take(n) == IF n < 0 THEN Endless ELSE n
SliceOf(m, v, lhs, rhs) ==
    LET from == Max({lhs, 0})
        take == Take(Max({rhs, 0}) - from)
        left == v.take - from
    IN IF v.kind = "slice" THEN
         IF left >= 0 THEN Out(m, Slice(v.ref, v.from + from, Min({left, take})))
         ELSE Out(m, Panic) \cup Out(m, Slice(v.ref, v.from + from, take))
       ELSE IF v.kind # "ref" THEN Out(m, Raise)
       ELSE LET o == m.objs[v.ref]
                to == Min({Max({rhs, 0}), Len(o.elems)})
            IN CASE o.kind = "string" -> Out(m, Slice(v.ref, from, take))
                 [] o.kind = "list" -> Out(m, IF from >= to THEN Slice(v.ref, Len(o.elems), 0)
                                              ELSE Slice(v.ref, from, to - from))
                 [] OTHER -> Out(m, Raise)

\* ListPush and SetInsert: the container owns the value from now on.  A set
\* keeps its own element when it has an equal one; nobody owns the other.
ListPush(m, l, v) ==
    Out([MarkPersist(m, v) EXCEPT !.objs[l.ref].elems = Append(@, v)], Om)
SetInsert(m, s, v) ==
    LET set == m.objs[s.ref].elems
        below == {i \in DOMAIN set : Cmp(Content(m.objs, set[i]), Content(m.objs, v)) < 0}
        equal == \E i \in DOMAIN set : Same(Content(m.objs, set[i]), Content(m.objs, v))
        kept == MarkPersist(m, v)
    IN CASE v = Om -> Out(kept, Om)
         [] equal -> Out([kept EXCEPT !.lost = @ \cup RefsIn(v)], Local)
         [] OTHER -> Out([kept EXCEPT !.objs[s.ref].elems = InsertAt(@, Cardinality(below) + 1, v)], Local)

\* The first or the last element of a set: borrowed, or taken out of it.
EndOf(s, first) == IF first THEN 1 ELSE Len(s)
SetBorrow(m, s, first) ==
    IF s.kind # "ref" \/ m.objs[s.ref].kind # "set" \/ m.objs[s.ref].elems = <<>> THEN Out(m, Raise)
    ELSE LET e == m.objs[s.ref].elems IN Out(m, e[EndOf(e, first)])
SetTake(m, s, first) ==
    UNION {IF o.v \in Failures THEN {o}
           ELSE Out([m EXCEPT !.objs[s.ref].elems = RemoveAt(@, EndOf(@, first))], o.v) :
             o \in SetBorrow(m, s, first)}

\* Pop: the last character, or the last element, which is no longer the collection's.
Pop(m, v) ==
    IF v.kind # "ref" THEN Out(m, Raise)
    ELSE LET o == m.objs[v.ref]
         IN CASE o.kind = "string" /\ o.text = <<>> -> Made(m, Text(<<>>))
              [] o.kind = "string" -> Made([m EXCEPT !.objs[v.ref].text = Front(@)], Text(<<Last(o.text)>>))
              [] o.kind \in {"list", "set"} /\ o.elems = <<>> -> Out(m, Om)
              [] o.kind \in {"list", "set"} ->
                    Out([m EXCEPT !.objs[v.ref].elems = Front(@)], Last(o.elems))
              [] OTHER -> Out(m, Raise)

\* Iterators borrow the elements, and give the characters of a text and pointers
\* to the variables the parameters are.
SizeOf(o) == IF o.kind = "string" THEN Len(o.text) ELSE Len(o.elems)
IterNew(m, v) ==
    Out(m, CASE v.kind = "slice" -> Iter(v.ref, v.from, Min({v.from + v.take, SizeOf(m.objs[v.ref])}))
             [] v.kind = "ref" /\ m.objs[v.ref].kind \in {"list", "set", "string"} ->
                  Iter(v.ref, 0, SizeOf(m.objs[v.ref]))
             [] OTHER -> Raise)
IterNext(m, x, p) ==
    LET i == m.regs[x]
        item == IF "ref" \notin DOMAIN i THEN ToSlot(i.at + 1)
                ELSE LET o == m.objs[i.ref]
                     IN IF o.kind = "string" THEN Char(o.text[i.at + 1]) ELSE o.elems[i.at + 1]
    IN IF i.at >= i.until THEN Out(m, Bool(FALSE))
       ELSE Out(Write([m EXCEPT !.regs[x].at = @ + 1], p, item), Bool(TRUE))

\* Where the pattern is found and how long the match is, in bytes.
RegexMatchLen(m, s, r, len, pos) ==
    LET at == FirstMatch(r.pattern, Serialize(s))
        l == Put(m, Number(ByteLen(r.pattern)))
        p == Put(Write(l.m, len, l.v), Number(ByteLen(SubSeq(Serialize(s), 1, at))))
    IN IF ~IsText(s) THEN Out(m, Raise)
       ELSE IF at < 0 THEN Out(m, Bool(FALSE))
       ELSE Out(Write(p.m, pos, p.v), Bool(TRUE))
RegexMatchGroups(m, s, r, matched) ==
    IF ~IsText(s) THEN Out(m, Raise)
    ELSE Made(Write(m, matched, Bool(Matches(s, r))), GroupsOf(s, r))

\* Throw: the exception owns the value; kind 3 ends the program.
Throw(m, kind, v) ==
    IF kind.num = 3 THEN Out(m, [kind |-> "exit"])
    ELSE LET b == Build(m, v)
         IN Out([MarkPersist(b.m, b.v) EXCEPT !.except = b.v], Raise)

\* A line, until the input ends, which ends the program.
ReadLineStdin(m, prompt) ==
    IF ~IsText(prompt) THEN Out(m, Raise)
    ELSE IF m.reads = MaxReads THEN Out(m, [kind |-> "exit"])
    ELSE UNION {Made([m EXCEPT !.reads = @ + 1], l) : l \in Lines}

----------------------------------------------------------------------------
(* Variables by name (interp/stack.rs): the entries of the frame that runs, *)
(* each with the slot of its own or the place it stands for.                *)

Named(m, n) == {i \in DOMAIN m.stack : m.stack[i].name = n}
Entry(m, n) == m.stack[Max(Named(m, n))]

\* stack_add: a variable begins with a copy of the one its name stood for.
StackAdd(m, n) ==
    LET seen == IF Named(m, n) = {} THEN Om ELSE Target(m, Entry(m, n).at)
        b == Build(m, Content(m.objs, seen))
        at == ToSlot(Len(m.slots) + 1)
    IN IF ~Live(m, seen) THEN Strayed(m)
       ELSE Out([b.m EXCEPT !.slots = Append(@, b.v), !.stack = Append(@, [name |-> n, at |-> at, own |-> TRUE])], at)
StackAlias(m, n, at) == Out([m EXCEPT !.stack = Append(@, [name |-> n, at |-> at, own |-> FALSE])], Om)
StackGetOrNew(m, n) == IF Named(m, n) = {} THEN StackAdd(m, n) ELSE Out(m, Entry(m, n).at)

\* stack_pop: the slot goes, and what it held is no one's.
StackPop(m, n) ==
    LET e == Entry(m, n)
        popped == [m EXCEPT !.stack = RemoveAt(@, Max(Named(m, n)))]
    IN CASE Named(m, n) = {} -> Out(m, Panic)
         [] e.own -> Out([popped EXCEPT !.slots[e.at.at] = Gone, !.lost = @ \cup RefsIn(m.slots[e.at.at])], Om)
         [] OTHER -> Out(popped, Om)

----------------------------------------------------------------------------
(* Pairs in a set, and results kept from earlier calls                      *)

PairsFor(m, s, key) ==
    LET e == m.objs[s.ref].elems
    IN {i \in DOMAIN e : LET p == Content(m.objs, e[i])
                         IN p.kind = "list" /\ Len(p.elems) > 1 /\ Same(p.elems[1], key)}
IsSet(m, v) == v.kind = "ref" /\ m.objs[v.ref].kind = "set"
SetGetTag(m, s, key) ==
    IF ~IsSet(m, s) THEN Out(m, Raise)
    ELSE LET at == PairsFor(m, s, key)
         IN Out(m, IF at = {} THEN Om ELSE ToElem(m.objs[s.ref].elems[Min(at)].ref, 2))
SetGetTagAll(m, s, key) ==
    IF ~IsSet(m, s) THEN Out(m, Raise)
    ELSE LET e == m.objs[s.ref].elems
             at == SetToSortSeq(PairsFor(m, s, key), <)
         IN Made(m, SetObj(SetOf([i \in DOMAIN at |-> Content(m.objs, e[at[i]]).elems[2]])))
ListResize(m, l, n) == Out([m EXCEPT !.objs[l.ref].elems = Cut(@, 0, n)], Om)

\* memoize.rs: one result for the values of the parameters.  A copy of it is no
\* heap's.
KeptFor(m, key) == {i \in DOMAIN m.cache : Same(m.cache[i].key, key)}
CacheLookup(m, out) ==
    LET at == KeptFor(m, List([i \in DOMAIN input |-> Content(m.objs, m.slots[i])]))
        b == Build(m, m.cache[Min(at)].result)
    IN IF at = {} THEN Out(m, Bool(FALSE)) ELSE Out([b.m EXCEPT !.regs[out.at] = b.v], Bool(TRUE))
CacheAdd(m, key, result) ==
    LET at == KeptFor(m, key)
    IN Out(IF at = {} THEN [m EXCEPT !.cache = Append(@, [key |-> key, result |-> result])]
           ELSE [m EXCEPT !.cache[Min(at)].result = result], Om)

Effects == {"at", "Slice", "ListPush", "SetInsert", "SetBorrow", "SetTake", "Pop", "IterNew", "IterNext",
            "RegexMatchLen", "RegexMatchGroups", "Throw", "ExceptionThrow", "ReadLineStdin", "Free",
            "MarkPersist", "MarkImmed", "StackAdd", "StackGetOrNew", "StackInScope", "StackPop", "SetGetTag",
            "SetGetTagAll", "ListResize", "CacheLookup", "CacheAdd"}
Effect(m, f, a) ==
    CASE f = "at" -> AccessArray(m, Val(m, a[1]), Tree(m, a[2]))
      [] f = "Slice" -> SliceOf(m, Val(m, a[1]), Tree(m, a[2]).num, Tree(m, a[3]).num)
      [] f = "ListPush" -> ListPush(m, Val(m, a[1]), Val(m, a[2]))
      [] f = "SetInsert" -> SetInsert(m, Val(m, a[1]), Val(m, a[2]))
      [] f = "SetBorrow" -> SetBorrow(m, Val(m, a[1]), Val(m, a[2]).is)
      [] f = "SetTake" -> SetTake(m, Val(m, a[1]), Val(m, a[2]).is)
      [] f = "Pop" -> Pop(m, Val(m, a[1]))
      [] f = "IterNew" -> IF a[1] = "params" THEN Out(m, ParamIter) ELSE IterNew(m, Val(m, a[1]))
      [] f = "IterNext" -> IterNext(m, a[1], Val(m, a[2]))
      [] f = "RegexMatchLen" -> RegexMatchLen(m, Tree(m, a[1]), Tree(m, a[2]), Val(m, a[3]), Val(m, a[4]))
      [] f = "RegexMatchGroups" -> RegexMatchGroups(m, Tree(m, a[1]), Tree(m, a[2]), Val(m, a[3]))
      [] f = "Throw" -> Throw(m, Val(m, a[1]), Val(m, a[2]))
      [] f = "ExceptionThrow" -> Out(m, Raise)
      [] f = "ReadLineStdin" -> ReadLineStdin(m, Tree(m, a[1]))
      [] f = "Free" -> Out(Invalidate(m, Val(m, a[1])), Om)
      [] f = "MarkPersist" -> Out(MarkPersist(m, Val(m, a[1])), Om)
      [] f = "MarkImmed" -> Out(MarkImmed(m, Val(m, a[1])), Om)
      [] f = "StackAdd" -> StackAdd(m, a[1])
      [] f = "StackGetOrNew" -> StackGetOrNew(m, a[1])
      [] f = "StackInScope" -> Out(m, Bool(Named(m, a[1]) # {}))
      [] f = "StackPop" -> StackPop(m, a[1])
      [] f = "SetGetTag" -> SetGetTag(m, Val(m, a[1]), Tree(m, a[2]))
      [] f = "SetGetTagAll" -> SetGetTagAll(m, Val(m, a[1]), Tree(m, a[2]))
      [] f = "ListResize" -> ListResize(m, Val(m, a[1]), Tree(m, a[2]).num)
      [] f = "CacheLookup" -> CacheLookup(m, Val(m, a[1]))
      [] f = "CacheAdd" -> CacheAdd(m, Tree(m, a[1]), Tree(m, a[2]))

\* The members of an object, looked up and gone through by pointers to them.
ObjectGet(m, v, name) ==
    IF v.kind # "ref" \/ m.objs[v.ref].kind # "object" THEN Out(m, Raise)
    ELSE LET at == {i \in DOMAIN m.objs[v.ref].names : m.objs[v.ref].names[i] = name}
         IN Out(m, IF at = {} THEN Om ELSE ToElem(v.ref, Min(at)))
ObjectIterNext(m, x, key, val) ==
    LET i == m.regs[x]
        k == Put(m, Text(m.objs[i.ref].names[i.at + 1]))
    IN IF i.at = i.until THEN Out(m, Bool(FALSE))
       ELSE Out(Write(Write([k.m EXCEPT !.regs[x].at = @ + 1], key, k.v), val, ToElem(i.ref, i.at + 1)),
                Bool(TRUE))

\* plus makes a node for a term only of an operand it was not lowered to expect
\* one of: the copies in it are the immediate heap's as well.
PlusTerm(m, a) ==
    LET l == Put(m, Tree(m, a[1]))
        r == Put(l.m, Tree(m, a[2]))
        node == New(r.m, Tagged("ast", <<"plus">>, <<l.v, r.v>>))
    IN Out(MarkImmed(node.m, node.v), node.v)

\* A method of the program: it yields some value or throws.
Call(m) == UNION {Made(m, t) : t \in Evaluated} \cup Out(m, Raise)

ObjectEffect(m, f, a) ==
    CASE f = "ObjectGet" -> ObjectGet(m, Val(m, a[1]), Tree(m, a[2]).text)
      [] f = "ObjectIterNew" -> Out(m, Iter(Val(m, a[1]).ref, 0, Len(m.objs[Val(m, a[1]).ref].names)))
      [] f = "ObjectIterNext" -> ObjectIterNext(m, a[1], Val(m, a[2]), Val(m, a[3]))
      [] f = "StackFrameAdd" -> Out([m EXCEPT !.frames = Append(@, {})], Om)
      [] f = "StackFramePop" -> Out([m EXCEPT !.frames = Front(@)], Om)
      [] f = "StackAlias" /\ m.frames = <<>> -> StackAlias(m, a[1], Val(m, a[2]))
      [] f = "StackAlias" -> Out([m EXCEPT !.frames = Append(Front(@), Last(@) \cup {Tree(m, a[1]).text})], Om)
      [] f = "Call" -> Call(m)
      [] f = "Rethrow" -> Out(m, Raise)
ObjectEffects == {"ObjectGet", "ObjectIterNew", "ObjectIterNext", "StackFrameAdd", "StackFramePop",
                  "StackAlias", "Call", "Rethrow"}

\* The result of a call is the immediate heap's; that of an operator is not.
Outcomes(m, f, a) ==
    CASE f = "at" -> Effect(m, f, a)
      [] f = "plus" /\ PlusOf(Tree(m, a[1]), Tree(m, a[2])).kind = "ast" -> PlusTerm(m, a)
      [] f \in ObjectEffects -> ObjectEffect(m, f, a)
      [] f = "Amount" /\ Val(m, a[1]).kind \in Pointers ->
            Made(m, AmountOf(Content(m.objs, Target(m, Val(m, a[1])))))
      [] f \in Effects -> {[o EXCEPT !.m = MarkImmed(o.m, o.v)] : o \in Effect(m, f, a)}
      [] OTHER -> UNION {Made(m, v) : v \in UNION {Results(f, t) : t \in {[i \in DOMAIN a |-> Tree(m, a[i])]}}}

----------------------------------------------------------------------------
(* Running                                                                 *)

\* The registers of a procedure: what its statements write or take the address of.
\* TLC evaluates a definition once, and a constant wherever it is read.
Procedures == Programs @@ <<>>
Statements(p) == UNION {ToSet(p[b]) : b \in DOMAIN p}
Written(stmts) == ({s.to : s \in {t \in stmts : "to" \in DOMAIN t}} \ {"_"})
                  \cup {s.of : s \in {t \in stmts : t.is = "address"}}
Registers == [n \in DOMAIN Procedures |-> Written(Statements(Procedures[n]))] @@ <<>>

Empty == [regs |-> <<>>, objs |-> <<>>, next |-> 1, heaps |-> <<{}>>, tries |-> <<>>, frames |-> <<>>,
          stack |-> <<>>, cache |-> <<>>, slots |-> <<>>, except |-> Om, result |-> Om, reads |-> 0, lost |-> {}, wild |-> FALSE]
Called(n, trees, cache) ==
    LET built == FoldLeft(BuildNext, [m |-> Empty, vs |-> <<>>], trees)
    IN [built.m EXCEPT !.slots = built.vs, !.regs = [x \in Registers[n] |-> Om], !.cache = cache]

Init ==
    /\ \E n \in DOMAIN Procedures : \E trees \in Inputs[n], cache \in Caches[n] :
         prog = n /\ input = trees /\ mem = Called(n, trees, cache)
    /\ pc = <<"init", 1>> /\ status = "running"

\* The statement the procedure is at, while it runs.
Current == {s \in {Procedures[prog][pc[1]][pc[2]]} : status = "running"}
Continue == pc' = <<pc[1], pc[2] + 1>> /\ UNCHANGED <<prog, input, status>>
Jump(b) == pc' = <<b, 1>> /\ UNCHANGED <<prog, input, status>>
Set(m, x, v) == IF x = "_" THEN m ELSE [m EXCEPT !.regs[x] = v]

\* The end of the procedure: its immediate heap is dropped.
End(m, how) == mem' = DropHeap(m) /\ status' = how /\ UNCHANGED <<prog, input, pc>>
Stops == ("raise" :> "raised") @@ ("panic" :> "panicked")

\* An exception ends the procedure, or the try it is thrown in with its heap.
Proceed(o, x) ==
    IF o.v.kind \in {"exit", "stray"} THEN mem' = o.m /\ status' = o.v.kind /\ UNCHANGED <<prog, input, pc>>
    ELSE IF o.v.kind \notin DOMAIN Stops THEN mem' = Set(o.m, x, o.v) /\ Continue
    ELSE IF o.m.tries = <<>> THEN End(o.m, Stops[o.v.kind])
    ELSE mem' = [DropHeap(o.m) EXCEPT !.tries = Front(@)] /\ Jump(Last(o.m.tries))

\* A freed operand is undefined behaviour: the run is not followed further.
Uses(s) == IF s.is = "do" THEN ToSet(s.args) ELSE {s[k] : k \in {"from", "of", "at"} \cap DOMAIN s}
Sound(s) == \A a \in Uses(s) : Live(mem, Val(mem, a))
Strays == mem' = [mem EXCEPT !.wild = TRUE] /\ status' = "stray" /\ UNCHANGED <<prog, input, pc>>

Compute(s) ==
    /\ s.is = "do"
    /\ IF Sound(s) THEN \E o \in Outcomes(mem, s.f, s.args) : Proceed(o, s.to) ELSE Strays

\* A constant becomes an object of the immediate heap, a register is copied.
Copy(s) ==
    /\ s.is = "let"
    /\ LET v == Val(mem, s.from)
       IN IF ~Sound(s) THEN Strays
          ELSE mem' = (IF IsObj(v) THEN Set(Put(mem, v).m, s.to, Put(mem, v).v) ELSE Set(mem, s.to, v)) /\ Continue

\* A parameter is a pointer to the caller's variable.
Parameter(s) ==
    /\ s.is = "param"
    /\ LET i == Tree(mem, s.at).num + 1
       IN IF i \in DOMAIN mem.slots THEN mem' = Set(mem, s.to, ToSlot(i)) /\ Continue
          ELSE Proceed([m |-> mem, v |-> Panic], "_")

Address(s) == s.is = "address" /\ mem' = Set(mem, s.to, ToReg(s.of)) /\ Continue
Load(s) ==
    /\ s.is = "deref"
    /\ IF Sound(s) THEN mem' = Set(mem, s.to, Target(mem, Val(mem, s.from))) /\ Continue ELSE Strays
Keep(s) ==
    /\ s.is = "store"
    /\ LET p == Val(mem, s.at)
           v == Val(mem, s.from)
       IN IF ~Sound(s) THEN Strays
          ELSE IF p.kind # "charof" THEN mem' = Write(mem, p, v) /\ Continue
          ELSE IF p.at \in DOMAIN mem.objs[p.ref].text THEN mem' = WriteChar(mem, p, v) /\ Continue
          ELSE Proceed([m |-> mem, v |-> Raise], "_")

\* A condition that is not a boolean throws.
Branch(s) ==
    /\ s.is = "if"
    /\ LET c == Val(mem, s.of)
       IN IF c.kind # "bool" THEN Proceed([m |-> mem, v |-> Raise], "_")
          ELSE Jump(IF c.is THEN s.yes ELSE s.no) /\ UNCHANGED mem

TestType(s) ==
    /\ s.is = "typein"
    /\ IF Sound(s) THEN mem' = Set(mem, s.to, Bool(KindOf(mem, Val(mem, s.of)) \in s.kinds)) /\ Continue ELSE Strays

GoOn(s) == s.is = "goto" /\ Jump(s.yes) /\ UNCHANGED mem

\* A try has a heap of its own.
TryBegin(s) ==
    /\ s.is = "try"
    /\ mem' = [mem EXCEPT !.heaps = Append(@, {}), !.tries = Append(@, s.catch)] /\ Jump(s.yes)
TryEndsKeeping(s) == s.is = "tryend" /\ mem' = [mem EXCEPT !.tries = Front(@)] /\ Jump(s.yes)
TryEnds(s) == s.is = "tryend" /\ mem' = [DropHeap(mem) EXCEPT !.tries = Front(@)] /\ Jump(s.yes)

\* The value is the caller's before the immediate heap goes.
Leave(s) ==
    /\ s.is = "return"
    /\ LET b == Build(mem, Val(mem, s.from))
       IN IF Sound(s) THEN End([MarkPersist(b.m, b.v) EXCEPT !.result = b.v], "returned") ELSE Strays

Next ==
    \E s \in Current :
       \/ Compute(s) \/ Copy(s) \/ Parameter(s) \/ Address(s) \/ Load(s) \/ Keep(s) \/ Branch(s) \/ TestType(s)
       \/ GoOn(s) \/ TryBegin(s) \/ TryEnds(s) \/ Leave(s)
Spec == Init /\ [][Next]_vars
=============================================================================
