# João in TLA+

A specification of João, a tree-walking interpreter written in C++17: TLA+ modules
translated from the source, TLC runs over small instances of them, and proofs
checked by TLAPS. Paths are relative to the repository; every definition that
models code is listed with its lines in `PROJECT.json` ("map").

## 1. The system

| Part | State it keeps | Operations | What makes it correct |
|---|---|---|---|
| Interpreter (`AST.cpp`, `Interpreter.h`, `Scope.h`) | stack of `Scope`s, each a stack of scopelets; `BREAK_COUNTER`, `CONTINUE_FLAG`, `FORCE_RETURN`, `error`; the C++ recursion of `resolve()` | `resolve()` of each statement and expression, `execute()` | every exit pops what was pushed; a jump leaves exactly the loops it names; an error reaches the innermost `try`, if not raised in a catch block; a return runs nothing more |
| HashTable (`HashTable.h`) | one block of buckets, main and collision memory, `next`, `known_holes`, the count | insert, `operator[]`, remove, merge, ensure_capacity, copy, clear, iteration | it is a finite map; chains and holes are sound; no bucket serves two keys; references survive what does not move their entry |
| ObjectTree (`ObjectTree.h`, `Parser::generate_object_tree`) | `dir2node`, the property, method and metatables of the types | `append`, both propagations | a class inherits the nearest definition above it, whatever order classes are read in |
| Table (`Table.cpp`, `nativefuncs/tablelib.cpp`) | `t_array`, `t_hash` | index, assign, insert, remove, for-each | an index means one element, wherever the element is kept; inserting and removing shift exactly what follows |
| Value (`Value.h`, `Value.cpp`) | type tag, payload, `cached_ptrs`: the reference counts of all objects | construct, copy, move, destroy, assign | an object is freed exactly when its last Value goes |
| ImmutableString (`ImmutableString.h`) | interned characters and their counts | construct, copy, destroy | as above |
| Functions, objects, handles (`AST.h`, `Object.cpp`) | `Function::obj`, `t_args` (per Function, shared by all its calls), `Interpreter::tempvalue` | give_args, resolve, handle | a call sees its own receiver and arguments; a handle is used before it dangles |
| Scanner, Parser | tokens, `tokenheader`, the lowest operator of a line, class definitions, const expressions | scan, readStatement, the readers of expressions, parse | an expression has the tree of the grammar; rolling its constants changes nothing; order of evaluating const blocks |
| Binary and unary operations | none | one case per operator and pair of types | cases agree with one another; divisions are guarded; edges of the machine integers |
| Program, natives | the functions and types by name | registration, stateless functions | none of their own |
| Args, REPL, main, Daemon | one Interpreter per run, or per REPL | parse, execute, answer a request | a line that fails leaves the variables of the session alone; each request starts clean |
| Terminal, Directory, Error, FailureOr | none | formatting, path strings | none of their own |

**How they interact.** Everything is a call in one thread. `main()` (Args.cpp,
main.cpp) scans and parses a file; `Parser::parse` hands the classes to the
ObjectTree, then evaluates the const blocks on an Interpreter of its own; `main()`
then executes `/main` on another Interpreter. A `resolve()` calls the `resolve()` of
its operands and its blocks. Objects, tables, scopes, types and directories all
keep their contents in HashTables. Values refer to shared objects by a count.

**What is hard.** There are no threads and nothing is persisted, so there are no
crashes to recover from and no messages to lose. The difficulty lies in:

* *jumps by flag.* A break, a continue, a return and an error raise a flag
  which every `resolve()` on the way out must pass on, after popping the
  scopes it pushed. Some constructs look at all four flags, some at two, in
  different orders. A function called in the middle of an expression runs below
  code that does not look at flags at all.
* *order independence.* The classes are cooked in the order a hash table yields them.
* *state kept in two places.* A table's elements move between its array and its
  hash table; a hash table's entries move between main and collision memory.
* *long legal sequences.* Removal, promotion, copying and rehashing of the hash
  table each leave `known_holes` and `next` a little different.
* *parsing by position.* The readers of an expression search for operators between two
  positions while the readers of operands move the shared `tokenheader`.
* *many cases.* Some four hundred cases of operator and types are written out one by one.
* *stale references.* `Value&` handles, iterators and receivers outlive the state
  they were taken from.

The complete list, with lines, is "hazards" in `PROJECT.json`.

## 2. Modules

| Module | Models | Status |
|---|---|---|
| `Interpreter` | control flow of `resolve()`, scopes, errors, const blocks, `/main` | checked, proved |
| `SequenceFacts` | lemmas about `Front`, `Last`, `Append`, `EXCEPT`, `RemoveAt`, `InsertAt` on sequences; the least of a set of naturals; recursion and induction over the naturals and over a bounded part of them | proved |
| `InterpreterProofs` | the inductive invariants and the theorems about `Interpreter` | proved |
| `Dictionary` | abstract: the finite map a HashTable promises to be | refinement checked, proved |
| `HashTable` | the buckets; implements `Dictionary` by the mapping `Contents` | checked, proved |
| `HashTableProofs` | the inductive invariant, the theorems about `HashTable` and the refinement of `Dictionary` | proved |
| `ObjectTree` | inheritance, for every order of the classes | checked, proved |
| `ObjectTreeProofs` | the inductive invariant and the theorems about `ObjectTree` | proved |
| `Table` | the array and the hash part of a table, order of for-each | checked, proved |
| `TableProofs` | the invariant and the theorems about `Table` | proved |
| `Values` | reference counts of objects and strings | checked, proved |
| `ValuesProofs` | the inductive invariant and the theorems about `Values` | proved |
| `Calls` | the receiver that a Function keeps for its next call | checked, proved |
| `CallsProofs` | the inductive invariant and the theorems about `Calls` | proved |
| `Operations` | binary and unary operations on values of every type | checked (by `Repl`), proved |
| `Evaluation` | syntax trees, and `resolve()` and `handle()` of each kind of node on a line | checked (by `Repl`), proved |
| `Repl` | the interactive mode: typing, parsing, evaluating line after line, for any parser | checked, proved |
| `ReplProofs` | the theorems about `Operations`, the outcomes of every tree of `Evaluation`, the theorems about `Repl` | proved |
| `Expressions` | the parser's readers of a line, and the grammar they are held against | checked (by `Repl`) |
| `ReplGrammar` | `Repl` with the parser of `Expressions`: what is read is what the grammar has | checked |
| `MCInterpreter`, `MCHashTable`, `MCObjectTree`, `MCTable`, `MCValues`, `MCCalls`, `MCRepl` | the values TLC gives the constants | |

### Interpreter

The program is not fixed. Whenever a block may take another statement, any
construct in the constant `Constructs` may be it, so a behaviour of the module is
a run of *some* program built from them, and the invariants speak of all programs.

`stack` is the C++ recursion: one frame for every `resolve()` that is active, with
the part being evaluated (`at`) and how many statements it may still take (`left`,
bounded by `MaxBlock`). `ctl` says whether the last frame has just been entered
(`"exec"`) or a callee returned to it (`"back"`). `blockscope` has the number of
scopelets of every `Scope` on the function stack. The four flags keep their names
and their widths. Each action is what one `resolve()` does between two calls it
makes: for instance `LoopBreaks` is the branch on `BREAK_COUNTER` of the three
loops, which decrements the counter, pops one or two scopes and returns.
`WhileGoesOn`, `ForGoesOn` and `ForEachGoesOn` are different actions because the
three loops look at the flags in different orders. The order matters: a while
consumes a continue *before* it looks at the error.

`CallFunction` is the call of a João function from inside an expression. The
values of operands are abstracted to "yields something true", "yields something
false" and "raises an error"; a condition that raises an error counts as false,
as the null `Value` does.

History: `jump` records, when a break or a continue runs, whether it is legal
(names loops that exist, nothing else is pending) and how many loops it must
keep; `loops` and `entry` of a frame record the loops that are open and the scope
stack at its entry. No guard reads them.

`TransmuteConst`/`ConstDone` are the loop of `Parser::parse` over const blocks, on
one Interpreter, and `Execute` is `Interpreter::execute("/main")` on another.

### HashTable and Dictionary

The table is one record, because `rehash()` and `merge()` take it through several
steps of one operation; `Rehash` is the fold of `MoveOne` over the old block. The
loops of the code that follow `next_collision_bucket` are `Walk`: what 0, 1, 2, ... links lead to, up to the
number of buckets. That is far enough, because no chain meets a bucket twice, as the invariant of section 5 shows. `Chain`, `ChainEnd` and `At` read a walk; at_bucket's early end at an unused bucket is
part of `At`. A `Bucket*` is the index of the bucket; copying a table rebases the pointers and
leaves the indices as they are. The model has the swapped results of
`compute_real_capacities` (line 287): the comment at line 20 promises main memory
four fifths, a rehashed table gives it one fifth. (A C++20 build would compute
other capacities, by another branch; meson.build asks for C++17.)
The branch of `rehash()` that abandons a half-filled block is left out, and
the invariant `RehashFits` shows that nothing reaches it.

`Dictionary` is what users of the table rely on. `IsMap` states that
`HashTable` implements it under the mapping `dict <- Contents`, where `Contents`
is what `at_bucket` finds.

### ObjectTree

A directory is a sequence of names. `Init` chooses any set of classes, what
each defines and which are native (with a metatable, maybe tables), and each step
appends any class not yet appended: the hash table's order may be any. `append` has
four cases, an action each. The two walks over the tree, which the code writes as
recursion over the links, are the sets `Upstream` and `Downstream` of the classes
they meet; that is right because links join a directory to the one directly
above it, which is the invariant `RootsLinked`.

### Table

`t_array` and `t_hash` with the actions `Assign` (`at_ref`, with `talloc` where
the index is new), `Insert` (`/table/insert`) and `Free` (`tfree`,
`/table/remove`). The hash part is a finite map, which is what the refinement
of `Dictionary` allows. Whether it is more than four fifths full depends on its
capacity, so `Crowded` is either, from four entries on: the quotient is a `float`, and four of five, the
least capacity, is 0.8 rounded up to one, which is greater than the `double` it is compared with. `/table/insert` computes its
position as `index || as_int`, which is 0 or 1; the model does the same.
`Visits` is what a for-each loop sees if the table does not change meanwhile.

### Values

A *place* is anything that holds a Value: a cell (variable, argument, `tempvalue`,
a local of the C++ code) or an object, which holds one Value, enough for trees
and cycles of objects. The state is what each place holds, `cached_ptrs`, and which
objects and strings are allocated. `Dereference` is the whole chain of destructors
that one `--cached_ptrs[..] == 0` may start: `Drop` is what happens to one object or string, `Behind` what the
destructor of an object that goes lets go next, and `Fall` one turn of the two. `Next` has every way to construct, copy, move, assign
and destroy a Value, between any places the program can reach. The history `surplus`
counts what `operator=(Value&&)` loses when both sides hold the same thing: it empties
the source and does not count down (an element that `Table::tfree` shifts onto an equal one;
`tempvalue` assigned the same object twice).

`ReceiverValue` is `ParentGet`, the one place that makes a Value of an object that has
others already. It is part of `SpecWithReceivers` only, because nothing holds with it
(`values_receiver`).

### Calls

One frame for every call whose arguments are being evaluated, every construction and every
function that runs, with the receiver the program named (`For`) and the one the
body got (`self`). `obj` is `Function::obj`. `MethodHandle` sets it when `x.m(` is
evaluated, `Invoke` reads it when the arguments are there, `FunctionLeaves` resets it and
`NativeLeaves` does not. Arguments and statements may take any further step, name any method,
raise an error and catch one. Histories: `again` (the same Function was named while the
arguments were evaluated) and `left` (Functions that keep a receiver
because an argument failed or a handle was not called). `t_args` is not modelled: it
is given and taken within one step (`give_args`, `resolve`).

### Operations

The switch of `BinaryOperation` has a case for each operator and pair of types; the module has an
operator for each pair of types, and what the pairs of numbers share (`OnInts`, `Compared`) once. A
value is its type and a number: an Integer is itself, of `Width` bits (a `JoaoInt` is an `int`);
a Double is counted in halves; a String is its length. An operation is the set of its
outcomes. What needs more than that is left open: Double arithmetic may yield any Double, concatenation any
String, two Strings of the same length may compare either way. So are the
outcomes of undefined behaviour: a shift by a negative count yields any Integer, and a division
that the processor refuses yields any Integer or `Trap`, the end of the process. Overflowing sums and
products wrap, as the builds compute them. `OnOthers` is the default of the switch, with its oddity that an Object
beside another value answers with the truth of the other one.

### Expressions

A token is its text; a line is a sequence of tokens. Each `Read...` operator is the reader of that name: it
takes the positions *here* and *there*, and returns the tree with the `tokenheader` that the
code leaves behind, or `Rejected` for a `ParserError`. `ReadSearch` is the loop of `readBinExp`, one step per
token, and `ReadPowers` that of `readPower`. `Binary` is the constant folding inside it, which
calls `BinaryOperation`. `Derived`, `DerivedPower`, `DerivedLvalue`, `DerivedAccess` and `Documented` are not code: they are the
rules of `JoaoGrammar.txt` as a set of derivations, and `Rolled` folds the constants of a tree
afterwards.

### Repl

`interactive_mode()`: a line is typed token by token (`Type`), handed over (`Enter`: scanned and
parsed), evaluated (`Run`) and followed by the next prompt; the very text `quit()` ends the session,
and a string index out of range ends the process (phase `dead`). `locals` are the variables of the
frame `#repl`, and `error` is `Interpreter::error`; both stay from line to line. What the parser makes of a line is the
constant `Parse`; `ReplGrammar` composes `Repl` with the parser of `Expressions`, and the runs give `Parse` the value `ParseTokens`.

`Evaluation` has the trees (`Expression[n]` are those of at most n levels, `Tree` the lines of at most `Nesting`) and what
they do. `ResolveNode` and `HandleNode` are `resolve()` and `handle()` of one node, on the variables and the error they
find, as the set of their results, and `Of` is what the nodes below it do: where the code calls a virtual function on a child, the
module looks up `Of["resolve"][child][error]`. `Evaluated` ties the levels together, and `Resolve`
and `Handle` are the whole. This includes the order of evaluation, the
places that look at the error and those that do not (a declaration stores its value whatever error is pending), and
`get_or_throw`. What has no handle of its own (a literal, an operation) is reported by `ASTNode::handle()`, which in the
interactive mode goes on with null and no error.
No line can make an Object: table constructors and constructions are not among the tokens.
`EvaluateAssignment` refuses to overwrite a function, as builds without `DEBUG` do. `Quit` and `Enter` are
both possible for the tokens `quit ( )`, since blanks between them are not modelled.

## 3. Runs

| Run | Checks | Shows |
|---|---|---|
| `interp_jumps` | `TypeOK`, `ScopeBalance`, `JumpExact`, `CallsReturnClean` | break and continue out of every nesting of loops, ifs and functions leave exactly the loops they name and balance the scopes (for try, errors and const blocks, `ScopesBalance` is proved) |
| `interp_errors` | `ReturnUnwinds`, `ErrorToInnermostTry`, `UnwindingRunsDown`, `ErrorSettles` | return, throw, failing operands and const blocks: errors go to the innermost try, those raised in a catch block end the process; what a pending error lets run on gets less with every step; if there is no `while` (nor `foreach`), an error is caught or ends the program |
| `interp_settle` (violation) | `ErrorSettles` | a `while` that consumes a continue spins for ever with an error pending |
| `hashtable` | `TypeOK`, `ChainsSound`, `HolesFree`, `SizeExact`, `IterationExact`, `RehashFits`, `NothingLost`, `EntriesStay`, `IsMap` | chains, holes and counts after any sequence of operations; refinement of `Dictionary` |
| `objecttree` | `TypeOK`, `RootsLinked`, `HeirsInherit`, `OriginsSound`, `TopDownInherits` | the tree and what classes inherit, for every order; all of it when ancestors come first |
| `objecttree_order` (violation) | `OrderIndependent` | in another order a class may miss what an ancestor defines |
| `table` | `TypeOK`, `ForEachExact`, `AssignExact`, `FreeExact`, `InsertShifts`, `ShadowedByInsert` | the two halves of a table act as one; the one way to hide an entry |
| `values` | `TypeOK`, `HeldAlive`, `CountsHolders`, `Collected` | counts are exact up to what move-assignment loses; nothing held is deleted; what is unreachable is deleted at once, cycles and lost counts apart |
| `values_receiver` (violation) | `HeldAlive` | a Value of the receiver is not counted, and its end deletes an object that a variable holds |
| `calls` | `TypeOK`, `ReceiverUnlessNamedAgain`, `NoReceiverLeft` | a method gets its receiver unless an argument names the same method; a finished call leaves none behind |
| `repl` | `TypeOK`, `PlainParsesAsDocumented`, `RollingFaithful`, `OperationsSound`, `FailedLineLosesOnlyItsTarget` | every line of the bounded keyboards is read as the grammar has it and does what its tree says; a failing line spoils no other variable; operations of all pairs of values agree with one another |
| `repl_precedence` (violation) | `ParsedAsDocumented` | `1 - - 1` is read as `(1 - (-1)) - 1` |

`OperationsSound` is about the constants: the run evaluates it once, before a line is typed.

Every property of a passing run has a mutant: a changed definition (dropped
reset, missing guard, wrong order) under which TLC reports the property violated.

### Bounds, and why they are enough

* **Interpreter.** `MaxFrames` = 6 resp. 5 active `resolve()` calls, `MaxBlock` = 2
  statements or calls, `MaxBreak` = 2. `Begin` leaves every compound frame room
  for one more statement. Six frames hold `/main`, two nested loops, an `if` and
  an expression with a call, so a break can leave two of three constructs and a
  function can be called under a raised flag. Every action looks at the last frame only and the
  invariant relates neighbours only, so that deeper stacks repeat the same steps; for
  the proved properties no bound is needed at all.
  `interp_jumps` has no `try`, `throw` and `return` (its operands raise errors, which nothing
  catches), because jump exactness is about jumps; `interp_errors` has no `while`, `foreach`
  and `break`: `ErrorSettles` does not hold with `while` (see `interp_settle`), and the
  others only multiply the states. The proofs have no such split. One const block is enough to reach what a flag left by one
  const block does to what comes after it within the block.
* **HashTable.** Three keys that share a hash and one that meets them when main
  memory has one bucket or two; two values; tables up to 20 buckets (from 5 to 10 to
  20 is two doublings). With one collision bucket in the first table, three
  colliding keys overflow it, a chain has up to three buckets behind its first,
  and promotion, unlinking in the middle and at the end, and reuse of holes
  before and after a copy all happen.
* **ObjectTree.** A line of four directories and a branch in its middle: the line
  allows two dummies between a class and its ancestor (the least that
  goes wrong), the branch two heirs. One property suffices because properties do
  not interact.
* **Table.** Indices -1 to 4 and a String, an array of up to three elements: the
  hash part can hold five entries, which is when it may be crowded, and
  can continue the array by two.
* **Values.** Three objects with one Value each (chains of three, cycles of one to
  three), one string, three cells, one lost count: the largest count is 7, so that
  `CountBits` = 3 suffices where the code has 32.
* **Calls.** Four frames: `/main`, a call, a call in its arguments, and one in the arguments
  or the body of that. Two objects of one class, one of a subclass that overrides
  `color`, and a native method that all of them have.
* **Repl.** A session has a keyboard, a set of at most six tokens. Eight keyboards type one line of up to five to
  seven tokens: operators of every level next to each other, both unary positions, groups, calls with
  two arguments, elements and properties, three operators in a row; the least line that distinguishes associativity has
  five tokens, precedence the same. Five keyboards type two lines of up to five tokens with declarations, assignments, failures
  and string indices, so that a line meets the variables and the error of another. Integers have four
  bits (`Width`, 32 in the code), enough for a shift and a power to overflow; Doubles are -1/2 to 3/2 (`Halves`), Strings have
  at most two letters (`Lengths`). No line of seven tokens has a tree of more than seven levels (`Nesting`); TLC evaluates
  `ParserAssumption`, that every line which any of the keyboards can type and the parser accepts has a tree of `Tree`.

Symmetry is used for the objects and cells of `Values`, the two objects of a class in
`Calls`, the colliding keys (one hash, treated alike by all
constants) and for the values of a table (no operation looks at one).
`CHECK_DEADLOCK FALSE` is stated for ObjectTree, which stops when every class
is appended, and for Repl, whose sessions end. An interpreter that has ended stutters by the action `Ended`.

### Fairness

`FairSpec` has `WF_vars(Step)`: the interpreter is one thread that never waits,
so it always takes its next step. It does not assume that a program's
loop ends, that a condition is ever false, or that a called function is chosen
or avoided. That `ErrorSettles` holds with `for`, the loop of its run, is due to the code: with an
error pending it can only run a bounded number of further statements (`MaxBlock` bounds the calls in an
expression and the elseifs of an if, as the program's text does). For `foreach` and all other constructs but
`while` this is `UnwindingRunsDown`, which needs no fairness and is a theorem.

Recursion is another matter. A function that is called with an error pending still runs its first statement, which
may call it again: no flag ends such a recursion, in the model `MaxFrames` does, and
in the code the C++ stack. So `ErrorSettles` and `UnwindingRunsDown` are about programs that do not
recurse for ever while an error is pending; `MaxFrames` may be any number.

## 4. Findings

1. A `while` goes on with an error pending after a continue in an else-branch
   (`interp_settle`).
2. What a class inherits depends on the order of classes (`objecttree_order`).
3. The condition in `Value(Object*)` (Value.cpp:12) is inverted: a known object is inserted with
   1, which `insert` ignores, and so is not counted (`values_receiver`).
4. A sign after a binary operator is read within its operand and then again as an operator, so that
   `1 - - 1` is 1 (`repl_precedence`).

Seen while modelling, not stated as runs:

* `/table/insert` at the end of the array leaves an older entry of that index in the hash part
  (Table.cpp:154), which is readable again after `/table/remove` of the index, where docs/content.html:576
  promises the removal of the element. `ShadowedByInsert` has it as the only way to hide an entry.
* The receiver of a call is lost to a call of the same method in its arguments (AST.cpp:389): a native
  method runs on the wrong object (`t.implode(u.implode())`), a João method on none. `ReceiverUnlessNamedAgain` has it as the only way.
* `break n` with n too large is kept until the function returns; the next loop
  of the function takes it, and no BadBreak is raised (AST.cpp:293, against
  docs/content.html:443).
* A `return` whose operand fails leaves both flags up, and the catch block
  stops after its first statement (AST.cpp:363, against docs/content.html:461). If that statement is a
  `continue`, a `while` around the `try` goes on and runs its block once more with the return pending.
* `operator=(Value&&)` loses a count when both sides hold the same object (Value.cpp:223):
  the object is never deleted, against docs/content.html:406. Cycles are not either.
* A method called by its bare name or as `./m()` names no receiver (AST.cpp:728): it runs on
  whatever `Function::obj` holds, mostly nothing, and for a native method the object of
  the call before.
* An assignment to a property writes to the default of the class when the object has none of
  its own (Object.cpp:12), so that all its objects share it.
* A `return` in a const block leaves `FORCE_RETURN` up for the rest of the
  Interpreter that evaluates the other const blocks (Parser.cpp:131-142).
* An error in a catch block ends the process even inside another `try`
  (AST.cpp:876-879), where docs/content.html:420-421 has an error "transmitted up the stack until it is either
  caught in a try-catch block, or ascends beyond /main" and 461-462 has a `try` catch what comes from "any code executed
  within (or as a result of the code within) the try block". `ErrorToInnermostTry` has it as the only exception.
* An error raised while another is pending replaces it.
* Copying a HashTable forgets its holes (FIXME at line 423); a moved-from one has no
  block and cannot be used.
* `/table/insert` treats every position but 0 as 1 (tablelib.cpp:98), where
  docs/content.html:574 promises the index given; for-each skips
  negative Integers (AST.cpp:555), where docs/content.html:370 promises every element.
* A metatable is copied on the way up only (ObjectTree.h:94).
* `IndexAccess` keeps a handle to `tempvalue` while it evaluates the index (AST.cpp:794).
* The REPL never clears its Interpreter's error (Args.cpp:177-189): after one failing line every answer is that error,
  while declarations go on to store values. At the end of the input it prompts for ever (Args.cpp:241-247). Its
  lines never define a function (the test of the number of tokens in Parser.cpp:1280 is inverted), a declaration without
  assignment is no statement, and what follows a complete expression is dropped (`1 2` answers 1).
* An index outside a String ends the process (AST.cpp:811).
* A failing compound assignment leaves null in its variable (AST.cpp:108), a failing `=` leaves it alone.
* `~` has two entries in `str_to_precedence` (Scanner.h:462, 475), and the first counts, so that a line whose only operator is
  a binary `~` is not searched for one. `%=` is documented (docs/content.html:288) but no assignment operator.
* A property of the result of a call, `f().x`, is always rejected: readFuncAccess tests the `.` where it
  means the name (Parser.h:299).
* Division by a Bool or of one is not checked (BinaryOperations.cpp:355); the least Integer divided by -1 never is.
* `<<` and `>>` of an Integer by a Double take the count from the left operand (BinaryOperations.cpp:259).
* With one Object, `&&`, `||` and `~~` answer with the other operand's truth (BinaryOperations.cpp:902).

## 5. Proofs

`InterpreterProofs` proves, for every set of constructs, every set of errors and
every value of the bounds (assumptions `ConstructsAssumption`, `RaisedAssumption`,
`BoundsAssumption`, each evaluated by the runs):

| Theorem | States |
|---|---|
| `Invariant` | `Spec => []IInv` |
| `TypeCorrect` | `Spec => []TypeOK` |
| `ScopesBalance` | `Spec => []ScopeBalance` |
| `JumpsExact` | `Spec => []JumpExact` |
| `CallsClean` | `Spec => []CallsReturnClean` |
| `ReturnsUnwind` | `Spec => []ReturnUnwinds` |
| `ErrorsToInnermostTry` | `Spec => ErrorToInnermostTry` |
| `UnwindingsRunDown` | `Spec => UnwindingRunsDown` |

None of these is inductive alone. `IInv` adds `StackInv`: while the program is
in progress its frames *fit*, that is, each is at a place its kind has, each was
entered with exactly the scopes its caller holds (`Nested`: `callee.entry =
Held(caller)`), a callee of an expression is a function and a callee of a block is
not, loops are counted from the function's frame, the outermost frame is `/main` or a
const block, and the last frame holds `blockscope`. Without it, popping a scope on
the way out says nothing about the caller's scopes. `JumpExact` also needs that a
legal continue keeps at least the loop it stands in.

`ReturnUnwinds` follows by an induction of its own on top of `IInv`. The proof found that an earlier form of
it, without `while` among the constructs that take no notice of a return, is false: see section 4.
`ErrorToInnermostTry` is an action property: that an error disappears only into a catch block needs `IInv` and
`ErrorInBlock`, which says that no error outlives its const block, because the next const block would hide it
(`ErrorStep`). That it ends the process only in a catch block or where no `try` is open needs that the
frame of `/main` or of a const block that ends is the only one (`LastFrame`, by `Nested`).

`UnwindingRunsDown` is the part of `ErrorSettles` that is not temporal: with an error pending, every step of the
interpreter lowers a rank, except that a `while` goes on (finding 1). The rank is a list, compared from its front: how many const
blocks are to come, then for every frame, from the outermost, how much of its construct is left (`ToGo`: its part, and the
statements it may still begin). For the proof the list is read as the digits of a number (`Number`), so
that the prover need not compare lists: the first digit that differs decides (`PositionalLess` in
`SequenceFacts`). A step returns, goes on to a later part of the last frame, spends one of its statements or does so
by a call (`StepShape`); a call adds a digit behind one that got smaller. `FramesBounded` is the invariant that keeps
every digit below the base. A rank in the naturals cannot fall for ever, and TLC checks that no state is
without a step: with `WF_vars(Step)` that is why `ErrorSettles` holds, but this last step has `ENABLED` in it and
is left to TLC.

For `Interpreter`, the argument: three lemmas on the frames (`FitMove`: the last frame moves on and
the scopes move with it; `FitPush`: a `resolve()` is called; `FitPop`: it returns with
the scopes it was called with) rest on `SequenceFacts`. From them follow `Going`,
`Calling` and `Leaving`, the same for the whole invariant. Each action
of the module is then shown to be one of the three: `BeginStep`, `CallFunctionStep`,
`ExprStatementStep`, `ConditionStep`, `LoopLeavesStep`, `LoopGoesStep`, `BranchStep` and so on, one
per group of actions, each computing that what the action pops is what
its frame holds.

`ReplProofs` proves, for every width of the integers (two bits or more) and every set of Doubles and Strings
(`WidthAssumption`, `HalvesAssumption`, `LengthsAssumption`), every set of names and depth of nesting (`NestingAssumption`),
every set of keyboards (`KeyboardsAssumption`) and every parser that makes trees (`ParserAssumption`):

| Theorem | States |
|---|---|
| `LogicSound` | `LogicAgrees`: a logical operation answers with the truth of its operands' truths |
| `ComparisonsSound` | `ComparisonsConsistent`: the six comparisons agree with one another |
| `DivisionSound` | `DivisionGuarded`: which divisions can end the process, and that Integers by zero fail |
| `OperationsAreSound` | `Spec => []OperationsSound`: these three, in every session |
| `Invariant` | `Spec => []SessionInv` |
| `TypeCorrect` | `Spec => []TypeOK` |
| `FailedLinesLoseOnlyTheirTargets` | `Spec => FailedLineLosesOnlyItsTarget` |
| `RollingOneNode` | a literal that two others are rolled into does what their operation does; the parser finds a failure only where the evaluation may raise an error |

The first three are theorems about a function, not about behaviours. The argument follows the switch: the pairs of types are
grouped as the code groups them (numbers, Strings, null, Objects), each group is shown to reduce to one
formula (`NumbersCompared`: two numbers of any types are compared by the relation of their halves), and the
formula has the property.

The others rest on what a tree leaves. `BinaryType` and `UnaryType`: every case of both switches has values, `Failure` and
`Trap` among its outcomes and nothing else, so that no Integer leaves its width and no Double, String or Bool its set. `Outcomes`
says what an expression may leave: a value, with the variables as they were and the error as it was; or null
and an error; or the end of the process. `ResolveNodeSound` and `HandleNodeSound` show of each kind of node that
it has only such outcomes if its children do, and `ExpressionsSound` follows level by level. That `Expression` and
`Evaluated` have the levels their definitions promise is proved first (`ExpressionLevels`, `EvaluatedLevels`): as no set has all their
values, the recursive functions are put together from their restrictions to the first n levels.
`TargetsAreNames`: what an assignment finds without an error is a name, since elements and properties are those of Objects.
`LineAnswered` adds the two statements: the one place where a line changes a variable is the name it assigns
to or declares, and if the error is raised after that place was found, what is stored is the null of a failed operation.
`SessionInv` adds to `TypeOK` that what was parsed is a tree and that a line which is begun may still be entered.
`RollingOneNode` compares what `Binary` of `Expressions` makes of two literals (`RolledOutcomes`) with `EvaluateBinary` of them
(`BothLiterals`, `LiteralOutcomes`): it is the step of `RollingFaithful` at one node, for all values.
The proof found an outcome the model had wrong: a compound assignment whose
operation ends the process stored a value first.

`CallsProofs` proves, for every set of objects, names and methods and every depth of calls (`ObjectsAssumption` and
the other assumptions of `Calls`):

| Theorem | States |
|---|---|
| `Invariant` | `Spec => []IInv` |
| `TypeCorrect` | `Spec => []TypeOK` |
| `ReceiversExact` | `Spec => []ReceiverUnlessNamedAgain` |
| `NoneLeft` | `Spec => []NoReceiverLeft` |

The properties speak of bodies that run, but what a body gets is decided while its arguments are evaluated. So
`IInv` adds what holds until then: the receiver waits in `Function::obj` as long as the Function is not named again
(`ReceiverWaits`); whatever runs or is called above a call of the same Function has named it again (`NamedAbove`), so
that a frame that resets `obj` on its way out takes no receiver from a call that still waits for it; a receiver belongs to a call or
a body (`ReceiverHeld`), and not to a construction, which hands it over at once. `Callees` and `ReceiverHasIt` say that
constructors and methods are called as what they are.

`TableProofs` proves, for every set of indices and values and every length (`IndicesAssumption`, by which the
Strings are finitely many, and `NullAssumption`):

| Theorem | States |
|---|---|
| `Invariant` | `Spec => []TInv`: types, and the hash part is finite |
| `TypeCorrect` | `Spec => []TypeOK` |
| `AssignmentsExact` | `Spec => AssignExact` |
| `RemovalsExact` | `Spec => FreeExact` |
| `InsertionsShift` | `Spec => InsertShifts` |
| `ShadowsByInsert` | `Spec => ShadowedByInsert` |
| `ForEachesExact` | `Spec => []ForEachExact` |

The invariant is little more than the types: the content lies in the single steps. The hash part is finite, so that
the search for the first index that is neither in the array nor in the hash part ends (`GapFacts`, by counting). Moving what
continues the array into it changes no reading (`MovedReads`), so that `talloc` changes what its own index
reads and nothing else (`TallocFacts`). Each operation is then a move, one store, removal or insertion in the array, and a
removal from the hash part, whose effects on `Lookup` are composed (`AssignStep`, `InsertStep`, `FreeStep`, `EraseStep`).

`ObjectTreeProofs` proves, for every set of classes, whatever they define and in whatever order they come
(`PathsAssumption`: what is above a directory is a directory):

| Theorem | States |
|---|---|
| `Invariant` | `Spec => []Inv` |
| `TypeCorrect` | `Spec => []TypeOK` |
| `RootsAlwaysLinked` | `Spec => []RootsLinked` |
| `OriginsAlwaysSound` | `Spec => []OriginsSound` |
| `HeirsAlwaysInherit` | `Spec => []HeirsInherit` |
| `TopDownAlwaysInherits` | `Spec => []TopDownInherits` |

The four cases of `append` are shown to be two (`AppendSteps`): a line of directories is added below the lowest known
ancestor (`LineAdded`), or a dummy gets its class (`DummyFilled`). In both the class is cooked from exactly the classes above it
that came before (`Bases`), because every directory in the tree has all those above it in the tree (`Chain`,
`UpstreamFacts`), and what it gets reaches only classes below it (`DownstreamFacts`), with each also the linked children of
that one (`DownstreamClosed`). `Inv` adds to the invariants of the runs: a class has at least what it defines (`PropsSound`), a class yet
to come is untouched (`Untouched`), a metatable is that of a root above (`MetaRoots`), and, if no class came before one of its
ancestors, none of those appended still waits for one (`TopDone`), so that nothing is ever passed down.

`ValuesProofs` proves, for every number of objects, strings and cells and every structure they form
(`PlacesAssumption`, `BoundsAssumption`, `CountsFitAssumption`):

| Theorem | States |
|---|---|
| `MemorySound` | `Spec => []IInv` |
| `TypeCorrect` | `Spec => []TypeOK` |
| `HeldIsAlive` | `Spec => []HeldAlive` |
| `CountsAreHolders` | `Spec => []CountsHolders` |
| `UnreachableCollected` | `Spec => []Collected` |

`CountsFitAssumption` says that there are fewer places than a count can tell apart, with 32 bits in the code: memory
is full before. What the assumption excludes is a count that wraps; nothing else depends on it.

Within an operation the counts are wrong: a reference has left one place and has not arrived at the next, and a
destructor runs destructors. So the invariant is stated as `Sound(v, c, a, s, x, D)`, of a memory in which only the
places of `D` are counted and one more reference, to `x`, is on its way. `IInv` is the case in which nothing is. Every
operation is a sequence of the same few moves: a place is emptied or filled, a reference is gained or lost. Losing the last
reference deletes an object, which puts what the object held on its way, and leaves one object fewer: `Dereference`
therefore ends within as many turns as there are objects, with nothing on its way (`DereferenceSound`, by induction over the
turns). What an assignment still holds in its hands survives that, because its source is a cell or is reachable from one.
`Collected` needs no invariant of its own: an unreachable object that is allocated has a
holder, which is unreachable too; each holds one thing, so that holding is a bijection on the garbage, by counting.

`HashTableProofs` proves, for every set of keys and values, every hash, all lists, all capacities asked for and no bound
on the table (`DefaultAssumption`, `HashAssumption`, `RequestsAssumption`, `ListsAssumption`, which give the
constants their types):

| Theorem | States |
|---|---|
| `TypesHold` | `Spec => []TypeOK` |
| `ChainsAreSound` | `Spec => []ChainsSound` |
| `HolesAreFree` | `Spec => []HolesFree` |
| `SizeIsExact` | `Spec => []SizeExact` |
| `IterationsAreExact` | `Spec => []IterationExact` |
| `RehashesFit` | `Spec => []RehashFits` |
| `OnlyCopiesLose` | `Spec => NothingLost` |
| `EntriesAreStable` | `Spec => EntriesStay` |
| `ImplementsMap` | `Spec => IsMap`, the refinement of `Dictionary` |

The properties of the runs are not inductive: `ChainsSound` says what is on the chains, not that every used bucket is on
one, nor that a chain ends. The invariant `Sound` has three parts.

* `Good`. There is a position for every bucket (`Chained`): a used main bucket has position 0 and the hash of its key
  (`Homed`); a link leads to a used collision bucket of the same hash, one position further (`LeadsOn`); every used
  collision bucket is led to (`LedTo`); no key is twice (`Distinct`); what is unused is blank (`Blank`). Positions make a
  loop impossible, and a walk that is as long as the block would have met more buckets than there are: so a
  walk ends (by pigeonhole), and walking back from a bucket along `LedTo` arrives at its main bucket: so
  a walk finds it (`WalkFinds`). The holes are unused, distinct and of collision memory (`Pooled`).
* `Sized`. The block has five times a power of two buckets. That is what makes a rehash succeed: the next capacity is a
  power of two as well (`Powers`, the least set closed under doubling), and none lies between, so that asking
  for more than there is at least doubles both memories (`MainForGrows`). The new collision memory then
  has four fifths of at least twice the buckets, more than there are keys; and
  while the old block is moved no bucket is ever freed (`Compact`), so that there is one to take (`CompactHasRoom`).
* `Counted`. The count is the number of keys in used buckets.

Each operation is characterised by what it does to the map of its keys to values (`Placed`, `Rehashed`, `AddedTo`, `InsertedInto`,
`AssignedIn`, `Removed`, `Extended`), with `Sound` on either side. From these follow `NothingLost`, `EntriesStay` and,
with `Represents` (the contents are the used buckets, `At` finds what a walk finds), `IsMap`: one lemma per action
of `Dictionary`.

The recursions of the module (`Walk`, `MainFor`, `Rehash`, `InsertAll`, `Iteration`) and of `Values` (`Dereference`)
are recursive functions on numbers. That such a function exists at all is proved in `SequenceFacts`: as the prover cannot
instantiate a theorem that takes an operator, `PrimitiveRecursion` and `BoundedRecursion` take a
*function* that gives the step, `SetInduction` and `BoundedInduction` the *set* of the numbers that have
the property, and each proof defines the function or the set it needs.

Model-checked only: `ErrorSettles`, a liveness property under fairness, which is beyond the prover; and
`PlainParsesAsDocumented` and `RollingFaithful` of `ReplGrammar`, which compare the readers of `Expressions` with the derivations
of the grammar: both are recursive operators on positions of a line, which the prover cannot expand, and the
comparison would be an induction over lines (`RollingOneNode` proves the second for one node). Every other property of a passing run is a theorem.

## 6. Not modelled

* Values of variables, arithmetic and types in `Interpreter`: no property there tells them apart. `Repl` has them for expressions.
* What Double arithmetic yields, NaN and infinities, the rounding of large integers to Doubles, and the letters of Strings.
* In expressions: table constructors, constructions, directories, accesses to the parent and grandparent, const blocks; in
  the REPL, statements that begin with a keyword.
* Recursion limits and the other limits of JOAO_SAFE builds, thrown as C++ exceptions.
* Characters, includes and numerals in the scanner; `tempvalue` and properties of
  objects; the daemon and the other modes of the command line.
* The natives for files, mathematics and strings, formatting, the terminal: input,
  output, or functions without state.
* Table indices that are Doubles (rounded to an Integer first) or of other types (refused),
  and changing a table during a for-each loop over it.

## 7. What could follow

1. For-each over a table that its body changes, with `Table`'s actions as the body's.
2. Objects: properties of an object and of its class, `tempvalue` and other handles; tables in the lines of `Repl`.
3. Proofs: every safety property is a theorem but the two that compare the parser with the grammar. What is left is to compose them: `Table` with the map of
   `Dictionary` in place of its own hash part, and with it the for-each of 1. A table that changes under its iterator
   needs `EntriesAreStable` and the one exception in it.
