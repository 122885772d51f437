------------------------------ MODULE Promises ------------------------------
(***************************************************************************)
(* What the predefined procedures promise: to the user, about the values   *)
(* they return; to the interpreter, about the objects and frames they      *)
(* leave behind.                                                           *)
(***************************************************************************)
EXTENDS Machine

Result == Content(mem.objs, mem.result)
Now(i) == Content(mem.objs, mem.slots[i])
Ended == {"returned", "raised", "panicked"}

\* Registers, objects and heaps have the shape the statements expect, and a
\* try has a heap of its own.
TypeOK ==
    /\ prog \in DOMAIN Procedures /\ input \in Inputs[prog]
    /\ \E p \in {Procedures[prog]} : pc[1] \in DOMAIN p /\ pc[2] \in DOMAIN p[pc[1]]
    /\ status \in Ended \cup {"running", "exit", "stray"}
    /\ DOMAIN mem.regs = Registers[prog] /\ DOMAIN mem.objs \subseteq 1 .. (mem.next - 1)
    /\ status = "running" => Len(mem.heaps) = Len(mem.tries) + 1

\* No statement reads a freed object, not in a container either, or frees one
\* twice; and what the immediate heaps will free is still there, and in one of
\* them only.
ReadsLive ==
    /\ ~mem.wild
    /\ \A h \in DOMAIN mem.heaps :
         /\ mem.heaps[h] \subseteq DOMAIN mem.objs
         /\ \A g \in DOMAIN mem.heaps : g # h => mem.heaps[g] \cap mem.heaps[h] = {}

\* Once a procedure has ended, every object on the heap has exactly one owner:
\* the variable it is in, the value returned, the exception, or
\* one place in one of these ("Each live heap object is owned by exactly one
\* entity").  The copies of equal elements, which no one owns, are left aside.
Settled ==
    status \in Ended =>
        LET owners == [i \in DOMAIN mem.slots |-> mem.slots[i]] \o <<mem.result, mem.except>>
            owned == UNION {RefsIn(owners[i]) : i \in DOMAIN owners}
        IN /\ Under(mem.objs, owned \cup mem.lost) = DOMAIN mem.objs
           /\ Disjoint(mem.objs, owned \cup mem.lost)
           /\ \A i, j \in DOMAIN owners : i # j => RefsIn(owners[i]) \cap RefsIn(owners[j]) = {}

\* The variables a procedure is given by reference are as the caller left them
\* at every moment, but for those it may change: the parameters declared rw.
ParamsKept ==
    \A i \in DOMAIN input \ Changes[prog] : Live(mem, mem.slots[i]) /\ Now(i) = input[i]

\* The method of an object that stands for log or exp runs with this and every
\* member in scope, and its frame is gone whichever way the procedure ends.
MethodScoped ==
    /\ \A s \in Current : s.is = "do" /\ s.f = "Call" =>
         Last(mem.frames) = {<<"this">>} \cup ToSet(mem.objs[mem.regs["obj"].ref].names)
    /\ status \in Ended => mem.frames = <<>> /\ mem.tries = <<>>

----------------------------------------------------------------------------
(* The values returned, by what the procedures are for.                    *)

Backwards(s) == [i \in DOMAIN s |-> s[Len(s) + 1 - i]]
IsPair(v) == v.kind = "list" /\ Len(v.elems) = 2
Components(s, i) == {p.elems[i] : p \in {e \in ToSet(s) : IsPair(e)}}
Sorted(s) == \A i, j \in DOMAIN s : i < j => Cmp(s[i], s[j]) < 0
IsSetOf(v, S) == v.kind = "set" /\ ToSet(v.elems) = S /\ Sorted(v.elems)

\* The pieces of a text between separators, put together again.
Glued(pieces, sep) ==
    FoldLeft(LAMBDA acc, p : acc \o (IF acc = <<>> THEN <<>> ELSE <<sep>>) \o <<p>>, <<>>, pieces)
Flat(pieces, sep) == FlattenSeq(Glued(pieces, sep))
Pieces(v) == [i \in DOMAIN v.elems |-> v.elems[i].text]

\* What is left of a collection and what was taken out of it make the whole.
Elements(v) ==
    CASE v.kind = "string" -> v.text
      [] v.kind = "char" -> <<v.char>>
      [] OTHER -> v.elems
Collection(v) == v.kind \in {"list", "set", "string"}
Taken(old, new, out, front) ==
    IF Elements(old) = <<>> THEN new = old
    ELSE Elements(old) = IF front THEN Elements(out) \o Elements(new) ELSE Elements(new) \o Elements(out)
AsOne(old, v) == IF old.kind = "string" THEN v ELSE List(<<v>>)

PromiseCollections(n, x, r) ==
    CASE ~Collection(x) /\ n \in {"first", "arb", "last", "from", "fromE", "fromB", "max", "min", "reverse"} -> TRUE
      [] n \in {"first", "arb"} -> r = IF Elements(x) = <<>> THEN Om ELSE
                                      IF x.kind = "string" THEN Char(Head(x.text)) ELSE Head(x.elems)
      [] n = "last" -> r = IF Elements(x) = <<>> THEN Om ELSE
                           IF x.kind = "string" THEN Char(Last(x.text)) ELSE Last(x.elems)
      [] n = "fromB" -> Taken(x, Now(1), AsOne(x, r), TRUE)
      [] n \in {"from", "fromE"} -> Taken(x, Now(1), AsOne(x, r), FALSE)
      [] n = "reverse" -> Elements(r) = Backwards(Elements(x))
      [] n = "domain" -> IsSetOf(r, Components(x.elems, 1))
      [] n = "range" -> IsSetOf(r, Components(x.elems, 2))
      [] n = "pow" -> /\ Len(r.elems) = 2 ^ Len(x.elems) /\ Sorted(r.elems)
                      /\ \A s \in ToSet(r.elems) : Sorted(s.elems) /\ ToSet(s.elems) \subseteq ToSet(x.elems)
      [] n \in {"max", "min"} ->
            IF x.kind = "string" THEN Len(x.text) < 2
            ELSE IF x.elems = <<>> THEN r = Om
            ELSE /\ r \in ToSet(x.elems)
                 /\ \A e \in ToSet(x.elems) : IF n = "max" THEN Cmp(e, r) <= 0 ELSE Cmp(e, r) >= 0
      [] n = "rnd" -> CASE IsNum(x) -> IsNum(r)
                        [] x.kind = "string" -> r = Om \/ r.char \in ToSet(x.text)
                        [] OTHER -> r = Om \/ r \in ToSet(x.elems)
      [] n = "args" -> r.elems = [i \in DOMAIN x.elems |-> IF x.elems[i] = Om THEN Text(<<"nil">>) ELSE x.elems[i]]
      [] OTHER -> TRUE
PromiseTwo(n, x, y, r) ==
    CASE n = "join" -> r.text = Flat([i \in DOMAIN Elements(x) |->
                                        IF x.kind = "string" THEN <<x.text[i]>> ELSE Serialize(x.elems[i])],
                                     Serialize(y))
      [] n = "makeTerm" -> r.kind \in {"term", "tterm", "ast"} /\ r.elems = y.elems
                           /\ (r.kind = "term" <=> ~IsPrefix(<<"@", "@", "@">>, x.text))
      [] n = "compare" -> (r.num = 0) = Same(x, y)
      [] n = "ask" -> \E e \in ToSet(y.elems) : r.text = Serialize(e)
      [] n = "split" -> Flat(Pieces(r), y.text) = x.text
                        /\ \A p \in ToSet(Pieces(r)) : FirstMatch(y.text, p) < 0
      [] OTHER -> TRUE

\* split, replace and replaceFirst: as the pieces of split are glued together.
RECURSIVE Replaced(_, _, _, _)
Replaced(t, p, r, once) ==
    LET at == FirstMatch(p, t)
        rest == SubSeq(t, at + Len(p) + 1, Len(t))
    IN IF at < 0 THEN t ELSE SubSeq(t, 1, at) \o r \o (IF once THEN rest ELSE Replaced(rest, p, r, once))

PromiseNumbers(n, x, r) ==
    CASE n = "signum" -> IsNum(x) /\ Quarters(x) * r.num >= 0 /\ (r.num = 0 <=> Quarters(x) = 0)
      [] n = "abs" /\ IsNum(x) -> Quarters(r) \in {Quarters(x), -Quarters(x)} /\ Quarters(r) >= 0
      [] n = "floor" -> Quarters(r) <= Quarters(x) /\ (x = Infinity \/ Quarters(x) < Quarters(r) + 4)
      [] n = "ceil" -> Quarters(r) >= Quarters(x) /\ (x = Infinity \/ Quarters(x) > Quarters(r) - 4)
      [] n = "round" -> x = Infinity \/ 2 * (Quarters(r) - Quarters(x)) \in -4 .. 4
      [] n = "isInfinite" -> r.is = (x = Infinity)
      [] n \in {"int", "read"} -> r = Om \/ r.kind # "number" \/ Serialize(r) \in {Serialize(x)} \cup {l.text : l \in Lines}
      [] OTHER -> TRUE

OneByte(x) == x.kind = "string" /\ \A i \in DOMAIN x.text : Bytes(x.text[i]) = 1

\* A procedure that returns gives what it promises; those that go by the
\* positions of matches do for texts whose characters take one byte.
ResultRight ==
    status = "returned" =>
        CASE prog \in {"replace", "replaceFirst"} ->
                OneByte(input[1]) =>
                    Result = Text(Replaced(input[1].text, input[2].text, input[3].text, prog = "replaceFirst"))
          [] prog = "split" -> OneByte(input[1]) => PromiseTwo(prog, input[1], input[2], Result)
          [] Len(input) = 2 -> PromiseTwo(prog, input[1], input[2], Result)
          [] Len(input) = 1 -> PromiseCollections(prog, input[1], Result) /\ PromiseNumbers(prog, input[1], Result)
          [] OTHER -> TRUE
=============================================================================
