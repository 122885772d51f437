# setlx-rs: specification and proofs

setlx-rs runs SetlX programs. A program is parsed into a syntax tree, the tree
is lowered to an intermediate representation (IR) of procedures made of blocks,
and an interpreter runs the blocks. This directory models the parts of that
pipeline where control flow, exceptions and ownership meet, checks the models
with TLC and proves the most important properties with TLAPS.

## The system

| component | code | state | operations | correct when |
|---|---|---|---|---|
| control machine | `interp/exec.rs` | native stack of `exec_proc` and `exec_try` calls, `block_idx`, immediate heaps | run a block, branch, open and close a try section, call, return, unwind | try sections are closed exactly once; a panic reaches the innermost one; heaps are dropped with their activation |
| IR | `ir/def.rs` | blocks and statements | built by the lowering, read by the machine | blocks end; sections are balanced |
| lowering of statements | `ir/lower/stmt`, `iter.rs`, `proc.rs`, `expr/call_expr.rs` | the current block, targets of `continue`, `break` and `return` | one function per statement | the blocks run the parts of the program in the order the statements say |
| exception state | `interp/except.rs`, throw and reset in `builtin/call.rs` | `EXCEPTION_KIND`, `EXCEPTION_VAL` (global) | set and panic, rethrow, reset | the kind belongs to the exception in flight |
| stack | `interp/stack.rs`, `interp/memoize.rs` | entries: boundary, variable, alias; images | push/pop/save/copy/restore a frame; get, add, alias, pop | registers and lookup by name agree; a caller's frames are there when it goes on |
| heap | `interp/heap.rs` | values owned by stack slots, containers, temporaries and immediate heaps | allocate, copy, invalidate, persist, mark | one owner per value; no value is freed twice or used after |
| calls, closures, constructors, methods | `ir/lower/proc.rs`, `expr/call_expr.rs`, `expr/access_expr.rs`, `stmt/class.rs` | which registers hold slots; the frames and names a call adds | enter, return, leave by an exception | every way in has its way out; closures keep what they captured |
| lowering of expressions and assignments | `ir/lower/expr`, `ir/lower/assign.rs` | temporaries and which of them own their value | one function per expression | each owned value is transferred or freed once on each path |
| match, scan, class statements | `ir/lower/stmt/match_stmt.rs`, `scan_stmt.rs`, `class.rs` | branches, patterns | try patterns in order, bind, backtrack | first matching branch runs |
| operators | `interp/ops.rs`, `get.rs`, `assign.rs`, lowered in `ir/lower/expr` (`op_expr.rs`, `unary_op_expr.rs`, `set_mem_ops.rs`, `term_expr.rs`) | temporaries that own their operands or borrow them | arithmetic, order on values, access; overloading by objects, nodes of the syntax tree for terms | the value is the one the operator stands for; an operand is freed once if the operator made it, and never otherwise |
| builtins, predefined procedures | `builtin/call.rs`, `builtin/stubs.rs` | class store, cache | one case per builtin | cache and class store agree with what they abbreviate |
| syntax tree passes | `cst/passes` | none | check, fold, split strings | programs the lowering relies on |
| parser, output, debugger, command line | `grammar.lalrpop`, `serialize.rs`, `dump.rs`, `dot.rs`, `debug.rs`, `cli.rs` | - | - | out of scope: generated, formatting or I/O |

The components call each other and share two things: the interpreter's stack
(passed by reference everywhere) and the global exception state. There is one
thread. What is hard is control: a panic may leave any operation, unwinds
through several Rust functions, and everything that was half done on the way
(open try sections, pushed frames and variables, values owned by temporaries)
has to be undone by someone. Frames and variables on the interpreter's stack
are undone by blocks of IR and not by Rust destructors, so which IR is emitted
on which path decides whether they are.

## Modules

| module | models |
|---|---|
| `IR` | statements and blocks of `ir/def.rs`; what it means that a procedure's try sections are balanced (a labelling of its blocks by the number of open sections) |
| `Exec` | `exec_proc`, `exec_try`, `exec`: one action per arm of their `match`, plus unwinding. Data is opaque: the constant operators `Eval`, `Cond`, `Enter`, `Leave`, `Result` say what statements do to it |
| `ExecLabelled` | `Exec` with the assumption that all procedures are labelled |
| `ExecPrograms`, `MCExec` | small programs and the instance for TLC |
| `Exec_proofs` | the inductive invariant of `Exec` and the theorems |
| `Source` | the abstract specification: a program as structured statements, whose state is the part (expression, condition, call) each active procedure ran last. It says what runs next, from a table of the parts that may follow one another |
| `Links` | that table for a program, by recursion on its statements |
| `Lower` | the lowering of statements and calls to blocks: `block_populate` and the functions it calls |
| `Interp` | `Exec` on the output of `Lower`, with the data control depends on: stack frames by name, the exception kind, the tested temporary. `RunsAsWritten` says that it implements `Source` |
| `BlockTypes` | types for blocks: what is known of the interpreter's data at each statement, and what it means that a program keeps to its types (`Typed`) |
| `MCTypes` | the types of a lowered program, computed by following its blocks |
| `Interp_proofs` | that the types of a well-typed program are true of its data in every reachable state, and the theorems that follow |
| `Stack` | the stack, its frames, variables and aliases, stack images, class objects and the values they own, as operators on one record (`frames`, `cells`, `objs`): one operator per method of `InterpStack` and `InterpObjRef` |
| `Scope` | what the code emitted for procedures, closures, constructors, method calls and assignments does to that record; any program over a few names |
| `MCScope` | the procedures and the vocabularies of its runs |
| `FiniteInduction`, `Folding` | induction over numbers and finite sets, and what a fold keeps, in the form the proofs below can use |
| `Stack_proofs` | what each operation of `Stack` keeps of the entries below, of slots, of objects and of their owners |
| `ScopeFrames_proofs` | the frames of the procedures that run: invariant and theorems |
| `ScopeOwners_proofs` | who owns each value, in programs without classes: invariant and theorems |
| `ScopeCallers_proofs` | what a procedure cannot change of the ones that wait for it |
| `Values` | values as the user sees them, and the operations of `interp/ops.rs`, `get.rs` and `builtin/call.rs` that only compute: order, arithmetic, serialising, matching, tags of terms |
| `Machine` | one activation on the heap: registers, references, slots and pointers, immediate heaps, try sections; what each assignment and each builtin operation does with the objects it is given |
| `Code` | the statements and branches the predefined procedures are written in |
| `StubsCollections`, `StubsTexts`, `StubsNumbers`, `Overload`, `Stubs` | the predefined procedures, block by block, and the methods of objects that stand for `log` and `exp` |
| `Promises`, `MCStubs` | what the procedures promise, and the parameters they are tried on |
| `Operators`, `Members` | expressions with an operator as the code lowers them: binary and unary ones, comparisons, the ones that evaluate their right side later, `+/` and `*/` over the members of a collection |
| `Patterns` | assignment to a pattern: variables, lists, sets, terms, nodes of operators and calls, literals, with and without a flag that says whether the value fits |
| `ExprCode` | expressions: variables, literals, operators, collections and ranges, comprehensions, quantifiers, the iterators under them, terms, access to members |
| `StmtCode` | assignment to patterns and members, `if`, `for`, `match`, `return`, and a procedure with its parameters, variables and cache |
| `LangPrograms` | procedures of the language that use each of these, as syntax trees and as blocks |
| `Semantics` | the same syntax evaluated over an environment: no blocks, no heap. It says what the blocks have to compute |
| `Meaning`, `MCExpressions` | the values expressions and procedures stand for, and the operands and parameters they are tried on |
| `InterpPrograms`, `MCInterp`, `MCFindings` | programs built from every statement nested in every other, and programs on which the code does not do what its documentation says |

### How the state corresponds to the code

`Exec.ctxs` is the native stack of the two functions: each record is one call of
`exec_proc` (`kind = "proc"`) or `exec_try` (`"try"`), with `block_idx`, the
position in the block and, for `exec_try`, `fail_idx`. The two functions have
the same loop twice, so most actions stand for two arms. `mode = "unwind"` is a
Rust panic on its way: `UnwindProc` leaves an `exec_proc` (its immediate heap is
dropped), `CatchUnwind` is `catch_unwind` returning `Err`, and the last
`exec_proc` ends in `exec`, which prints the error and exits ("aborted").
Assignments are atomic: what an operation does besides succeeding, panicking,
exiting or calling is a matter of the data. Debugger hooks and `Annotate`
statements are left out. `UnwindDropsMain`, `TryEndInPlace` and the other
definitions commented as slips are not part of any specification; they are
variants of the action below them that a mistake in the code would lead to, and
each is known to violate a property.

In `Lower` a block is named by the path of its statement and its role, where the
code takes the next node index; `Populate` returns the blocks the code would add
when it appends to a block. Only assignments control depends on are kept.

In `Stack` a slot (`Box<InterpVal>` in the code) is a member of `DOMAIN cells`
and a heap object a member of `DOMAIN objs`; a slot holds `Om` or the reference
of an object, and is deleted with the entry or object that owns it. `Invalidate`
frees an object. New slots and objects take the least free number, so that, as in
an allocator, what is freed is used again and a reference to it may refer to
something else. `Scope.acts` is the native stack seen from the outside: for each
running procedure the registers that hold slots (`defs`, the map `vars` of
`IRSharedProc`), temporaries that hold references in a method call or constructor
(`temps`), the open try sections, and, for the properties, the frames its caller
had. `Enter` is what `procedure_new` emits before the body, in that order: frame,
image, variables, parameters. `Raise` ends every activation above the
innermost open section; the handler a method call has is run for each of them.
The program is not fixed: in each state the running procedure executes any
statement over the names of the instance. `seen` and `left` are history variables.

In `Machine` an object of the heap is a record of `mem.objs`, and a register of
`mem.regs` holds what an `InterpVal` holds: a reference (`Ref`), a pointer to a
slot, a register, an element of a list or a character of a text (`ToSlot`,
`ToReg`, `ToElem`, `ToChar`), a slice, an iterator or a value. `mem.heaps` is
the stack of immediate heaps, one for the procedure and one for each open try
section; an object in one of them is freed when it ends. `mem.slots` are the
variables of the caller, which the parameters point to. `Do` runs one
statement: `Outcomes` gives all the results the operation may have (a line the
user may type, an answer of the file system, an exception), each with the state
after it. Reading or freeing an object that is gone sets `mem.wild`. Statements
that raise go where the innermost try section says, as in `Exec`.
`mem.lost` holds the copies `SetInsert` leaves without an owner when the element
is in the set already.

An expression is a procedure whose parameters are its operands. The code passes
a flag with each operand that says whether the operator owns it (it is the value
of a part of the expression) or borrows it (it is a variable); a program of
`MCExpressions` is an operator with these flags, and an operand it owns is a copy
made at the start. The blocks of an operator that occur inside another one
(an addition in a round of `+/`, the two halves of `<=`) have a prefix.

Programs of the language are lowered in the same way. A fragment of code starts at a
label `p`, goes on to `k`, and has labels and registers that start with `p`; where the
code appends to a block and returns the index of the last one, the module names the
label the last one jumps to. Statements, expressions and patterns contain one another, so
`StmtCode` lowers them through one recursive operator, `Fragment`. A step of `Machine` is
the statement at `pc`, by the action of its kind. `defs` is the list of definitions the lowering keeps: the
register with the pointer to each variable known by name. `mem.stack` is the frame of
the procedure, one entry per name added or aliased; slots beyond those of the parameters
are its variables. `mem.cache` is the results `memoize.rs` keeps for a procedure.

A procedure is a function from labels to blocks, which are sequences of
statements of `Code`; it is built as the code builds it, one block per
`block_get`, with the same registers. Where a function of the code appends the
same statements for several operators (`float_op_stub_new`, `num_op_stub_new`),
so does the module.

`Scope` and `Interp` are two views of the same machine. `Interp` has the blocks and
abstracts the stack to names; `Scope` has the stack and values and abstracts
blocks to the sequence of operations a construct emits on the path taken.

## What is checked

| run | instance | shows |
|---|---|---|
| `exec` | mains of three blocks: 152 with every well-labelled combination of terminators that opens a try section, and 900 that open one and go on in any way, so that the internal panics happen; the callee has a try section of its own; 5 activations | for labelled programs, sections are counted right: `AtDepth`, `TryDepth`, `NoTryMismatch`; for all, types, nesting of activations, one heap per activation, and delivery of panics, with fairness that each is delivered |
| `interp` | 1117 programs: every statement kind in every other around every way to leave it, with calls that may raise; try statements with `catchUsr` and `catchLng` clauses among them | the lowering is correct (`RunsAsWritten`), the exception kind is fresh, frames and variables match, no block runs off its end, no silent loop; and the lowered programs are well typed (`Typed`), which is what the theorems about `Interp` assume |
| `scope_calls` | a program with a list, a procedure variable, an rw and a value parameter; three activations, try sections, exceptions anywhere | frames, registers and names stay in step, a call returns to the stack it was made on, callers keep what is theirs |
| `scope_methods` | a class with a list and a method; the object is assigned, changed and replaced while methods and constructors run | aliases, members and `this` refer to what is there, and `this` ends with its method |
| `scope_closures` | a closure made and called where an object with a list is accessible, and given it by value | copies share nothing at any depth, and every call of the closure starts with what was captured |
| `stubs` | every predefined procedure, each with parameters of every type and with every answer of the user, of files and of chance | nothing freed is read, everything has one owner when the procedure ends, parameters are left as they were, the values returned are what the procedure is for, and its loops end |
| `expressions` | every operator on operands of every type that it tells apart, each side owned or borrowed, with terms, with objects that have the member, lack it, or have something else under its name, and with every answer of a method; and 37 procedures of the language with patterns, accesses, comprehensions, quantifiers, loops, `match` and a cache, on parameters that reach every branch | no value is read after it was freed, freed twice or left behind, and borrowed ones are left as they were; a method's frame goes with it, and the variables of a case go whichever way it is left; the value is the one the operator stands for, and a procedure ends as the evaluator says, with the value, the rw parameters and the kept results it says; `and`, `or` and `=>` do not evaluate the right side once the left decides |
| `do_while` | one program | a statement after a do-while is lost |
| `catch_lng` | one program | `catchLng` alone catches nothing |
| `catch_pop` | one program | a catch body that catches an exception from a procedure cannot take its variable off the stack |
| `method_setter` | a method that assigns a member of `this` | the member is lost when the method is called |
| `method_raise` | an exception in a method | the frame with `this` and the members' aliases is still there after it |

Bounds. `MaxDepth` is the size of the native stack; five activations hold two
calls with a section each and one more, which is where sections of different
calls meet; beyond it the model stops in "overflow", as the process would.
`MaxEntries` keeps a loop from going round when the interpreter's stack is that
long: each round of a for loop adds its variable. Three blocks allow a section
to be entered, left and entered again. Two nested statements around a last list
cover each pair of statement kinds and each way out through two levels. Around
`catchUsr` and `catchLng` clauses three of the lists are enough: a part that may raise
either kind and a `return`, one and a `break`, and a call that raises. A list with both
a call that raises and a part that raises a language exception is not among these: what
the types know of leftover frames is one fact for both exceptions, so that they reject it
inside a catch body although it runs as it should.

In `Scope`, `MaxCalls`, `MaxObjs`, `MaxEntries` and `MaxSections` bound the
activations, live objects, stack entries and open sections of an activation. Three
activations are a caller, a callee that itself waits and the procedure that runs,
so that a lookup may pass over a frame that is not the caller's, and an exception
may skip one activation. Four to six objects hold the procedure or closure, the
object with its member, the argument, its copy and a new value. Since freed
numbers are used again, a dangling reference shows within these bounds either as
`NoDangling` or as a second owner. A step beyond a bound is disabled, and the
bounds are the only reason for the program to stop; hence `CHECK_DEADLOCK FALSE`.
`Lists` has two values where properties compare contents of values that change in
place and one where they are about who owns what.

In `stubs` the parameters are of every type, and of every length that decides a
branch: empty, one, and more elements, a set and a list that hold lists, texts of
one and of two bytes per character, whole and fractional numbers of either sign.
Doubles are counted in quarters, a function on doubles gives any of a few values,
and the wording of messages is one symbol. `Lines` is what the user may type,
`Evaluated` what code given as text may evaluate to, `Randoms` the draws in quarters
of the interval, both ends included; `MaxReads` bounds the answers to `ask`.
Patterns are literal texts, and never empty (see below).

In `expressions` the operands are two values of each kind an operator tells apart,
negative and fractional numbers, sets that overlap and the empty set, and an object
with the method the operator looks for, without it, and with a number under its
name; a method returns a number, a boolean, om or an object, or raises. Two
inputs are left out, because the code shares an object between two owners there
and nothing can be said after that: an object without `sum` plus a term, and
`x +/ c` with an empty `c` and a variable `x` (see below).

The procedures of `expressions` are small, one for each construct and a few for their
combinations; nested loops, a return out of two of them, a case left by `break`,
`continue` and `return`, and a pattern that fails after it has bound a variable are
among them. Their parameters make each pattern fit, fail at every member, and meet a
value of another type. Left out are inputs after which two owners share an object or a
freed one is read, because nothing can be said after that (most are listed below under
what was seen): a set pattern in a `match` that is not the last case or has a
condition, or on a value the `match` owns; `m[k] := v` for a key that is missing;
a case of several patterns with variables; `[x, y] := x`, `x[1] := x` and the like;
assigning the variable that is iterated over; a position behind the end of a text as a
target; a variable as a default. Others are left out because the constructs are not
modelled: objects inside accesses, operators with a deferred right side inside larger
expressions, a pattern or a case that is neither a literal nor one of the patterns
above (`_` among them, where it stands for itself), terms accessed by index, and
parameters of an rw procedure for which the cache has an answer.

Fairness. The interpreter is one thread that never waits, so it keeps stepping
(`WF_vars(Step)`); nothing is assumed about the outcome of any operation. Loops
of the program itself may run for ever; `PanicDelivered` and `NoSilentLoop` do
not depend on their ending. In `stubs` fairness is only stated for the
procedures with a loop (`Looping`), which is what `Terminates` is about.

`RunsAsWritten` is a refinement: `Interp` carries history variables `calls` and
`sig` and is an instance of `Source` under them. `Source` gives a plain `catch`
the meaning the documentation gives it (user exceptions), and in `interp` it gives
the other clauses the meaning the code gives them, because with a `catchUsr` or
`catchLng` clause a try statement never does what is written (`catch.rs:303`).
`ClausesInEffect` of `InterpPrograms` has the clauses they come to:

| written | documented | in effect |
|---|---|---|
| `catch` | user exceptions | the same |
| `catchLng` | language exceptions | catches nothing |
| `catchUsr` | user exceptions | language exceptions |
| `catchLng`, `catch` | language exceptions, user exceptions | `catch` has language exceptions, `catchLng` nothing |
| `catchUsr`, `catch` | `catchUsr` has user exceptions | `catchUsr` has language exceptions, `catch` nothing |
| `catchUsr` and `catchLng` in either order | each its own | `catchUsr` has language exceptions, `catchLng` nothing |

What is not caught goes on to the statement around. So what `interp` says of these
programs is that this table is all there is to it, whatever the try statement is nested in
and however its parts are left; that it is not what is documented is the finding of
`catch_lng`. A do-while ends its statement list in `interp` for the same reason
(`do_while`).

One program is left out of `interp`: `try {...} catch (e) { try { r(); ... } catch (e)
{...} ... }`. An exception from `r` leaves its frame on the stack, and the pop of the
outer `e` then fails. `PopFinds` is about programs where this cannot happen (the types of
this one cannot be right, so that the theorem does not speak of it either), and
`catch_pop` shows it on this program.

## What is proved

Three groups of theorems: the control machine with any data (`Exec_proofs`), the
interpreter on well-typed programs (`Interp_proofs`), and the stack and the values on it
for programs made of any procedures over any names (`Stack_proofs` and the three modules
about `Scope`). They hold for every value of the constants, so for any number of
activations, calls, entries and objects.

### The control machine

For all programs, data and stack sizes, from `MaxDepthAssumption` and `ProgramsAssumption`
(procedures are labelled; TLC evaluates that assumption in `interp`, and in `exec` the
properties about sections are stated for the programs it holds of):

- `Invariance`: `IInv` is inductive. `TryDepth` alone is not: that the section count
  matches the label survives `CatchUnwind` only because the caller waits at the `Try`
  statement whose catch block it goes on at (`Nested`) and that block has the caller's
  depth (`AtDepth`).
- `TypeCorrect`, `TryDepthCorrect`, `NoInternalTryPanic`, `ResumesAtDepth`,
  `NestedCorrect`: conjuncts of it, `AtDepth` and `Nested` being the strengthening itself.
- `Delivery`: `CaughtByInnermost` as an action property, from `IInv`.
- `HeapPerActivationCorrect`: each activation has one immediate heap, and it is dropped
  once on each way out. `HeapsAreData` says what is needed of the constant operators: they
  record the heaps and nothing else, as those of `exec` do.

Lemmas say what each way of changing the activations (`Jump`, `Advance`, `Below`, append)
preserves; the proof of the step has one case per action.

### The interpreter

What `Lower` emits cannot be reasoned about for every program, because the lowering is a
recursive operator over data. What can be is any program whose blocks have types.
`BlockTypes` says of each statement of each block what is known when it is about to run:
whether the procedure's frame is on the stack, whether frames of procedures left by an
exception may be on top of it, how many entries each name has at least, and which
combinations of exception kind, tested temporary, part that ran last and its outcome may
occur; and of each block, the catch block that is open, and of each procedure, which kinds
of exceptions may leave it and whether it is tidy (returns with no frame left over it).
`ProgramTyped` looks at one statement and its successors at a time, and at a called
procedure by its types only. It plays the part of a bytecode verifier, for lowered
programs.

TLC checks the hypothesis: `Typed` in `interp` computes the types of all 1117 programs by
following their blocks until nothing new is found, and checks them. The other hypothesis,
`DataIsInterp`, says that the constant operators of `Exec` are the data of `Interp`, as
they are in the cfg. From these two and the assumptions above:

- `DataInvariance`: the types are true of every reachable state (`DataInv`). To be
  inductive it has to say what is true of the activations that wait: `Levels` and
  `Callers` give for each activation the call it is part of and the length of the stack
  when that call began; each caller waits at the call of the procedure above it, and what
  is known at that statement is true of the part of the stack below that procedure
  (`Awaits`), so that it is true again when the procedure comes back. While a panic is on
  its way, `ThrowsAs` says that the catch block that is open, or the caller if there is
  none, may be entered with the data as it is.
- `KindFreshCorrect`, `FramesMatchedCorrect`, `PopFindsCorrect`, `BlocksEndCorrect`: the
  invariants of `interp`.
- `RunsAsWrittenCorrect`: `Interp` implements `Source`. The initial state maps to an
  initial state; a step that runs a part maps to `Run`, `CallProc`, `Return` or `Raise` of
  `Source`, and every other step (branches, jumps, sections, frames, resets) to a stutter.
  That a part may follow another is what the types know of the part that ran last, checked
  against the links of the program.

The stack is counted with lemmas about cardinalities of positions (`Spots`, `Boundaries`):
what pushing, removing one entry and truncating do to them.

### The stack and its values

About `Scope`, from `CodeAssumption`, `MainAssumption` and `NamesAssumption` (the program
is made of procedures over names, and names are strings; that `"this"` is one has to be
said, because the provers do not know what a string literal is a member of). The program
itself is not fixed: in each state the running procedure executes any statement over the
names.

- `ScopeInvariant`: `ScopeInv` is inductive. It has the shape of the store, and for each
  activation how its frames start and end on top of those of its caller: the `base` of an
  activation is a prefix of the stack (`Nested`); behind it come the boundary and the
  entries its kind of call makes (`Begun`); the number of boundaries is that of the kinds
  of the activations plus what exceptions left (`Counted`). As long as no exception has
  left a procedure, the frames are exactly these (`Exact`), and each register is the slot
  of the last entry of its name (`Found`).
- `CallerFramesKeptCorrect`, `FramesCountedCorrect`, `NamesAgreeCorrect`,
  `ReturnRestoresCorrect` (an action property) follow for all programs, with classes and
  closures. `ThisScopedCorrect` is for programs without closures, exceptions and variables
  named `this` (`Plain`): a closure keeps `this` in its image, and finding 5 is about
  exceptions.
- `OwnersInvariant`: `OwnersInv` is `ScopeInv` with, for the store, that each value has
  one slot or image that holds it and each slot one variable (`Owned`, `Linked`); for each
  activation, that its registers hold slots of entries in its own frames, variables or
  aliases (`AllCalls`, `HeldDefs`); and that images hold what was recorded when they were
  made (`Captured`, `Recorded`). It was checked by TLC on instances without classes before
  it was proved.
- `TypeCorrect`, `NoDanglingCorrect`, `OneOwnerCorrect`, `PointersLiveCorrect`,
  `CapturesKeptCorrect` follow, and from it with one more invariant about the slots that
  are not shared with callers (`Waiting`), `CallersUntouchedCorrect`, an action property.

`OwnersInvariant` and what follows from it are for programs without classes (`ClassFree`). With classes the invariant
is not true of the code: a method with a setter and `o.x := o.x` each leave a value with
no owner or two (finding 4 and the list below), and members that are objects are
copied deeper than `Stack` goes. `scope_methods` and `scope_closures` check what holds
with classes.

Two parts of the model exist so that all this can be said: `Intact` (a statement that uses
a register whose slot is gone is not taken) and `Enterable` (a call whose image is gone,
or a method that sets members on something that is no object, is not taken). By
`PointersLiveCorrect` and `NoDanglingCorrect` neither ever disables a step of a program
without classes.

What a fold over a set of names does, in the copies and images of `Stack` and in
unwinding, is proved through `Folding`: the induction theorems of the library take an
operator as a parameter, which the provers cannot instantiate, so `FiniteInduction` states
them about sets, and `Folding` has constant operators that each use fills in with
`INSTANCE`.

### Only model-checked

- Liveness: `PanicDelivered`, `NoSilentLoop`, `Terminates`.
- Everything about `Lower`, which is recursive: that its programs are labelled
  (`ProgramsAssumption`) and well typed (`Typed`).
- `MembersKept` and `RaiseTearsDown`, which are findings, and ownership in programs with
  classes.
- The properties of `Promises` and `Meaning`: `Machine` runs long programs whose blocks
  are built by recursion, and the values expected are defined by recursion.

## Findings

Each of these is a violation run.

1. `ir/lower/stmt/mod.rs:185`: statements after a do-while are dropped.
2. `ir/lower/stmt/catch.rs:303`: the clause for language exceptions is chosen by
   `cst_catch_usr`; `catchLng` alone never handles anything, and no statement with a
   `catchUsr` or `catchLng` clause does what is written (table above).
3. `interp/stack.rs:299`: frames of procedures an exception left stay on the stack. When
   the exception is caught inside a catch body, the pop after that body does not find the
   catch variable, and its `unwrap` panics.
4. `ir/lower/proc.rs:908`: a method with `this.x := ...` replaces the slot of `x`
   on entry; the old value is lost and the alias of the old slot dangles.
   `scope_methods` has no such method, since nothing can be said after that.
5. `ir/lower/expr/access_expr.rs:448`: the handler of a method call pops one frame,
   which is the one the method itself left behind; the frame with `this` and the
   aliases stays. `scope_methods` has `Raising = FALSE` for that reason:
   `ThisScoped` is about methods that return.

Seen while modelling, without a run of their own:

- `ir/lower/assign.rs:789`: `o.x := o.x` frees the value and then copies it.
  `scope_methods` copies members to other members only.
- `interp/stack.rs:71`: `frame_save` copies the values of the frame and does not free
  the originals; `writeup/chapters/implementation.tex:345` describes a transfer of
  ownership.
- `stack_pop` removes an entry and does not free what it holds.
- `interp/ops.rs:222`: an object plus a term puts the copies of both in the node it
  returns and leaves them in the immediate heap, which frees them with the
  procedure. Other operators on terms go through `term_expr.rs` and do not.
- `ir/lower/expr/set_mem_ops.rs:68`: `x +/ []` returns the value of `x` itself.
- `ir/lower/assign.rs:1129`: a set pattern works on a copy of the value, which it
  leaves in the register it was given. In a `match` that is the register the next
  case is tried with: after a set pattern that fails midway, later cases see what is
  left of the copy; after one that succeeds, the copy is freed at line 1185 and
  again when the statement ends (`stmt/match_stmt.rs:914`). The comment above
  `assign_parse` says that `tmp` is invalidated after use if it is owned.
- `ir/lower/assign.rs:781`: `[x, y] := x`, `x[1] := x` and the like free the old
  value before the new one is copied from it.
- `builtin/call.rs:642`: `SetInsert` returns a pointer to its own local variable;
  `m[k] := v` on a set of pairs goes through it (`ir/lower/assign.rs:241`).
- `ir/lower/stmt/match_stmt.rs:85`: a case with several collection patterns takes
  the variables off the stack more often than it put them there.
- `interp/ops.rs:592`: integer division and modulo by zero stop the program with a
  panic of the number library, not with an exception of the language.
- `ir/lower/iter.rs:172`: every round of a loop adds its variables, and only a return
  takes one set of them off (line 180). A procedure called after the loop finds
  the variables of the last round.
- `ir/lower/iter.rs:123`: `for (x in l) { l := ...; }` frees the list under its iterator.
- `ir/lower/stmt/assign.rs:50`: in `x := [y, z] := [1, 2]` the inner target frees the
  list (`ir/lower/assign.rs:995`) the outer one then copies.
- `ir/lower/assign.rs:467`: a text that is too short for the position assigned to is
  extended by copies of `""` (the comment at line 113 says of `" "`), so it is not, and
  the statement throws; the old text has no owner then.
- `ir/lower/assign.rs:2284`: a call pattern stores into the variable of its name without
  freeing what was there, and `stmt/match_stmt.rs:129` adds that name a second time.
- `ir/lower/proc.rs:741`: a parameter begins as a copy of what its name stood for outside,
  which is overwritten without being freed; a default that is a variable
  (line 787) is shared with it; a rest parameter is always the empty list (line 808).
- `ir/lower/expr/access_expr.rs:806`: a slice of a slice by `x[2..3][1]` throws, since
  `interp/assign.rs:40` has no access through a pointer to a slice; `x[..-5]`
  before the start yields the first element; `t[1]` of a term counts from zero.
- `ir/lower/stmt/scan_stmt.rs:597`: `scan ... using` reports the position of a match in what
  is left of the text, which is always the first character of the first line.
- `builtin/stubs.rs:261`: `printErr` prints to standard output.
- `builtin/stubs.rs:3412`: `replace` and `split` do not end on a pattern that matches
  the empty text, and take positions in bytes for positions of characters.

## Plan

Done: control machine and statements, stack, ownership and calls, with the proofs
about them; the machine with its heap, the predefined procedures, the
operators on it, and procedures of the language as they are lowered. Next, in this order:

1. Proofs: ownership in programs with classes. It needs a model of members that hold
   objects, copied at any depth, and of the method setter and `o.x := o.x` as they are
   (see the findings), since each of them breaks the invariant that holds without classes.
2. The model: `scan`, which needs positions in a text and the rules about the
   longest match; calls between the procedures of `LangPrograms`, so that a leftover loop
   variable meets a lookup; objects inside accesses; the class store.
3. Pure algorithms: the passes on the syntax tree that fold literals and split
   strings.

## Not modelled

Parsing (generated), formatting of output, the interactive debugger, the command
line; code as data, which is a structural recursion over the whole grammar; of
values, vectors and matrices; of the stack, `frame_copy`, which no lowering emits,
and the member every object has for its class; of parameters, the rest parameter;
of statements, `scan`, and a case of `match` that is compared as code (the default arm
of `match_stmt.rs:177`). Files and the console are choices: any answer may come.
`Semantics` and `Meaning` are written for the procedures and operands of the
instance and are not a definition of the whole language.
