# Llama compiler: a TLA+ verification project

The Llama compiler (`src/src`) translates Llama, a small ML-like language, to
LLVM IR.  It is one sequential process.  `yyparse()` builds the syntax tree;
the start rule of the grammar (`parser.y:136-141`) calls `sem()` on it and then
`llvm_compile_and_dump()`; the process exits at the first error.  `do.sh` turns
the IR into an executable with `llc` and `clang`.

There are no threads and no messages, and the compiler keeps nothing from one
run to the next; only `do.sh` leaves files behind.  What makes this program hard
to get right is the *order* in which two recursive walks over the tree mutate
shared state, what each of them takes for granted of the other, and what the
code that they generate does when it runs:

* a symbol table with manual memory management and two intertwined linked
  lists, which is right only because of the order of its calls;
* two passes, each with a table of its own, which declare, rebind and forget
  names at different moments and must nevertheless mean the same by a name;
* one global `Builder` whose insert point every call of `codegen()` moves, and
  whose callers go on from wherever it was left;
* types that `sem()` gives to expressions, and LLVM types of their values,
  decided in different methods that have to fit together; some of the types are
  completed later, in place, while other expressions share them;
* generated code: words that some instructions take for signed and some do not,
  loops over them, and arrays whose layout is written in one place and read in
  four others;
* a scanner whose comments nest, and string literals that are rewritten in
  place until no escape is left;
* three stages with files between them, each of which may fail or be killed.

Each of these is a state machine here.

## 1. Inventory

| Component | State | Operations | What makes it correct |
|---|---|---|---|
| Symbol table (`symbol/`) | buckets, entries, scope list | `openScope`, `closeScope`, `newVariable/Function/Parameter`, `newLLVMValue`, `lookupEntry`, `endFunctionDef` | a lookup finds the innermost entry; nothing deleted is used; no loop runs forever; argument lists are in order |
| Definitions and scopes (`DefBlock`, `LetDef`, `LetInExpr`, `ImmutableDef*`, `Mutable*`, `Par*`, `ForExpr`, `StmtBlock`) | the table of the pass | `sem`, `recSem`, `decl`, `codegen`, `recCodegen`, `defCodeGen`, `funGen` | names have lexical meaning; both passes take the same definition |
| Control flow (`IfThenElseExpr`, `MatchExpr`, `ForExpr`, `WhileExpr`, `funGen`) | blocks, insert point | `codegen` | blocks are closed once, PHIs name the predecessors, definitions dominate uses |
| Types and operators (`types/`, `BinOpExpr`, `SigOpExpr`, references, arrays, calls) | types, values | `sem`, `codegen`, `equal_types`, `getLLVMType` | what `sem()` accepts becomes well-formed instructions |
| Library (`library/`, `codegenLibs`) | two tables of functions | `insertFunctionsToScope`, `codegenLibs` | signatures match prototypes |
| Module set-up (`AST.cpp`) | module, `main`, pass manager | `llvm_compile_and_dump` | what is printed was verified |
| Arrays and strings in generated code (`MutableArrayDef`, `IdHighPrioExpr`, `IdLowPrioExpr`, `StringHighPrioExpr`) | struct `{ptr, dims, dim...}` in the heap | definition, index, `:=`, `!`, `dim` | all agree on the layout; an element is one place |
| Arithmetic in generated code (`BinOpExpr`, `SigOpExpr`, `ForExpr`, `WhileExpr`, `incr`, `decr`) | 32-bit words | operators, loops | comparisons and bounds at the ends of the range |
| Lexer (`lexer.l`, the literals' constructors) | start condition, `comment_level` | flex rules, decoding of strings | tokens are those of the language; scanning ends |
| Parser (`parser.y`) | the tree | bison rules | which trees there are |
| Errors (`error/`) | none | `error`, `internal`, `fatal` | an error ends the run |
| Driver and tests (`do.sh`, `runTests.py`, `Makefile`) | files from run to run | stages, tests | success and verdicts are about the program at hand |
| Scripts (`updateAst.py`, `prettyPrint.py`) | none | | not part of the compiler |

They interact by calls: `sem()` and `codegen()` of a node call those of its
children; both work on a symbol table (`symbolTable` with 10000 buckets,
`LLVMValueStore` with 42), which they share with all nodes, and `codegen()` on
the one `Builder`.  `sem()` leaves a type in each expression, which `codegen()`
of definitions reads.

`PROJECT.json` lists the hazards, each at its line, with the properties that
would notice it going wrong.

## 2. Modules

### SymbolTable, ScopedEnv, SymbolTableProofs

`SymbolTable` is `src/symbol` with its memory.  `mem` is the heap of entries,
`live` the addresses that have not been deleted, `hashTable` the buckets,
`scopes` the list of open scopes.  A call is several steps: each iteration of
the loop of `lookupEntry()` (`WalkChain`) and of `closeScope()` (`CloseEntry`)
is an action, and `call` says which call runs and where its loop is.  Since the
compiler is sequential one call runs at a time; which call comes next is open,
up to what the callers guarantee: parameters are added, and `endFunctionDef()`
is called, by `ImmutableDefFunc::decl()` only, which opens a scope for a
function that `sem()` entered into the current one.  The lookup that `decl()`
and `DefBlock::codegen()` start with is part of the module (`Decl`, `Bind`).
The hash function is a constant, any function from names to buckets.

`ScopedEnv` says what a table promises: a stack of maps from names to what they
denote, without buckets, pointers or memory.  `SymbolTable!Implements` states
that the table implements it: `env` is the map of each open scope, a call
takes effect in its last step, or, for `closeScope()`, in its first.

`SymbolTableProofs` proves the safety properties for every set of names and
buckets, every hash function and every number of entries, and that the table
implements `ScopedEnv` (section 5).

### ControlFlow, ControlFlowInvariant, ControlFlowProofs

`ControlFlow` is what `codegen()` makes of expressions: basic blocks.  `blocks`
holds each block's function, what it branches to, its PHI and the values that
its instructions use; `at` is the insert block of `Builder`; `stack` holds the
calls of `codegen()` in progress with their local variables (`ThenBB`,
`AfterBB`, `PrevBB`, ...); `value` is what the last call returned.  The program
is not given: whenever `codegen()` of a child is called, any expression may be
there (`Enter`).  An action is the code between two such calls, so that
`IfCond`, `IfThen` and `IfElse` are the three parts of
`IfThenElseExpr::codegen()`.  A value is known by the block that defines it,
which is what the verifier needs in order to decide dominance.

`table` is `LLVMValueStore`: for each open scope the values that names of lets
have in it, without the names.  `LetInExpr` opens no scope, so that the value of
a let stays there when the let is over, until the scope of a function or of a
loop around it is closed or a definition overwrites the entry (`Name`: an entry
of any scope may be the one).  `Local` is any value that the table holds.
`strays` are the values that were found where their definition is not around
the use, or is in another function; `DefinitionsDominateUses` asks nothing of
them (section 4).  A value being known by its block, it asks nothing of other
uses of values of such a block either; programs without strays are among the
behaviours, and there it is asked of every use.

The constant `ElseBranches` excludes programs for which the code is known to be
wrong, so that `PhisMatchPredecessors` can be examined beyond
(section 4).  `ControlFlowInvariant` states what holds between any two steps, and
`ControlFlowProofs` proves from it, for programs of any size and depth, what the
run examines up to a number of blocks (section 5).

### Passes, PassesProofs

`Passes` is the two walks over the tree and the names in it.  A node gets its
kind and its names when it is first visited, so that all trees up to a size
are examined and no step is spent on trees that an error has made irrelevant.
The recursion of the methods is a stack of tasks: `SemLetRec` replaces the
visit of a `let rec` by visits of all its definitions, then the `decl()` of its
functions, then its body, as `recSem()` does.  A table is the stack of maps
that `SymbolTable` implements.  It maps a name to the node of a definition:
the one whose type the entry has in `sem()`, the one whose value it has in
`codegen()`.  `Lexical` is the reference: the definition that a name has where
it stands in the tree, by the usual rules of `let`, `let rec` and `and`.
`PassesProofs` proves for trees of any size that scopes are closed by what
opened them, that `codegen()` finds every name that is in scope, and that the
definition it finds is the right one (section 5).

### Typing, TypingProofs

`Typing` is, for every class of expression, the check of its `sem()` and the
LLVM type of what its `codegen()` returns.  Expressions are built from their
operands upwards, on a stack of values, each a pair of a type and an LLVM type.
A type is a base type with what is around it (`ref`, `array` with a number of
dimensions).  `LLVMOf` is `getLLVMType()`: it puts machine types for base types
and makes a struct of an array, whose first field is a pointer to what the LLVM
type of the element points to.  The constructor of an array type makes a `ref`
of its element, and this undoes it (`AST.cpp:196`): an array of what is no `ref`
would have another LLVM type, and so would one that is not unwrapped (the mutant
of `PointersHaveTheirTypes`).  `Signature` is the table of
`Library::insertFunctionsToScope()`, `Prototype` that of `codegenLibs()`.  A
step ends the compiler with `"rejected"` where `sem()` has a message, and with
the reason of the fault where an instruction is ill-formed; `operands` then are
what the instruction is made of.  No program is excluded.
`AcceptedIsWellFormed` says what a fault comes from: a type that `sem()` does
not look at (`Overlooked` lists them), or an operand whose value does not have
the type of its expression; `ValuesHaveTheirTypes` says which these are.
`MaxWraps`
bounds the refs and dimensions of the types that variables and arrays have, and
`MaxOperands` the stack; `TypingProofs` proves the properties whatever they are.

### TypeCells, TypeCellsProofs

`Typing` takes types as they read; `TypeCells` takes them as the objects that
they are.  A mutable variable without a type has the type `ref` of a null
pointer, and the first `:=` to it puts a pointer to the type of its right side
there (`setType()`), for all expressions that share the `ref`.  `cells` is the
heap of types; `MutableDef`, `MutableArrayDef`, `Deref`, `Index`, `Compare`
and `Assign` are the `sem()` of what makes, reads or compares such types, with
any expression that the program may have by then as operand.  The result of a
function without a type is completed in the same way, by `decl()`, when the body
has been checked (`FunctionSem`, `FunctionDecl`); it is held in a cell of its
own, in `results`.  `late` are the refs and results that were made without a
content: an expression may have asked one while it was unknown (`!x` before the
first `:=`, or a call of `g` in `let rec f .. = g .. and g .. = ..`, whose
result is known when `f` has been checked), and then keeps a null pointer for
good.  `equal_types()` and
`getLLVMType()` (with `typeName()`) are walks over the heap, one cell a step
(`EqualStep`, `LLVMStep`), so that a walk may fail, or not end.  After `EndSem`
the definitions are generated from whatever their types have become.
`GenUnchecked` is a value in a place where `sem()` looks at no type (such as an
index), and `GenEnd` the verifier's look at stores, returns and these places.
`TypeCellsProofs` proves the safety
properties for any number of types and assignments, with types that contain
themselves and without.

### CountedLoop, Counting, CountingProofs

`Counting` is arithmetic on words of `2 * Half` values and the loops that count
with it: `for .. to`, `for .. downto`, and a `while` that compares a variable
which its body passes to `incr` or `decr`.  `block` is where control is among
the blocks that `ForExpr::codegen()` makes, `Loop` the condition, `Body` the
body, which may change what the bound is computed from if `writes`.
Comparisons are those that `BinOpExpr` emits: `<` and `<=` unsigned, `>` and
`>=` signed.  `CountedLoop` is a loop over the integers.
`Counting!CountsAsWritten` says that each step of a loop is one of
`CountedLoop`, for the loops whose bound is not at a limit and has the sign of
the first value (`Regular`).

### ArrayStore, Arrays, ArraysProofs

`Arrays` is the heap of a running program, a sequence of words: `Allocate` is
what the code of an array definition, or of a string literal, does to it, with
the struct's fields in the order of the code; `Index`, `Assign`, `Deref` and
`Dim` are the code of `x[..]`, `:=`, `!` and `dim`.  `Offset` is the loop of
`IdHighPrioExpr::codegen()` from the last index to the first: `mulTemp` and
`accessEl` are the two variables of the loop, as functions of the round.
`ArrayStore` is
what they promise: arrays that are functions from indices to values, without
addresses; `Arrays!Implements` states that the heap is one (`Held`).
`ArraysProofs` proves it for any number of arrays and dimensions (section 5).  Elements are
scalars, indices are within the dimensions (the generated code does not check).

### Lexer

`Lexer` is the scanner: `InitialRules` and `CommentRules` are the rules of the
two start conditions of `lexer.l` in their order, each with the length of its
match, `Longest` is flex's choice among them, and the actions are the rules'
code.  There are two kinds of line comment, `--` to the end of the line and `%`
through a newline, which has to be there (`lexer.l:77`).  `Replace` is one round
of the loops by which the constructor of `StringHighPrioExpr` replaces escapes.
The whole program is given at the start and `rest` is what is left.  `Meaning` is
the reference: tokens, comments and strings as the language defines them, by
recursion over the characters.

### Driver, DriverProofs

`Driver` is `do.sh` and `runTests.py` with the files between the stages.  Of a
file only the version of the program it was made from matters, or that it is
missing or a part.  Any stage may fail, whatever its input, and leave the old
file, none or a part; `Killed` is an interrupt, which ends `do.sh` and its stage but not
the `system()` of `runTests.py`; `Edit` changes the program at any time.

### Which line is modelled where

`PROJECT.json` maps each definition to the lines it stands for.  State that no
property looks at is left out: line numbers, the text of messages, names of
LLVM values, printing.

## 3. Runs

All runs use two workers and finish within a few minutes.  Deadlock is checked
for `driver`, which can always go on; everywhere else the program stops, at its
end or with an error, and a run up to a bound stops there.

| Run | Instance | Distinct states | Shows |
|---|---|---|---|
| `symbol_table` | 3 names, two of which collide; 2 types, 3 entries, 2 scopes | 704 thousand | all safety properties, in the inductive invariant of the proofs; the refinement of `ScopedEnv`; every call returns |
| `control_flow` | 9 blocks, 3 nested calls, 2 clauses, 1 value of a let in a scope | 1.9 million | every rule of the verifier about blocks |
| `passes_lexical` | 3 names, one of the library; trees of 7 nodes | 1.4 million | both passes are lexical and agree |
| `typing` | 2 refs or dimensions around a base type, 3 operands | 321 thousand | values have their types, instructions are well formed |
| `type_cells` | 6 types, 3 of them written down; 2 assignments or functions, 1 unchecked place | 1.6 million | what is stored or returned fits in the end; equal types stay equal; walks end |
| `counting` | words of 4 bits, every first value and bound | 34 thousand | loops count as over the integers, and end; what operators mean |
| `arrays` | 2 arrays of 1 to 3 dimensions, 15 words | 26 thousand | the layout, and the refinement of `ArrayStore` |
| `lexer` | all programs of 3 characters, some of up to 7 | 96 thousand | tokens are the language's; scanning ends |
| `driver` | 3 versions: right, wrong, with an error | 10 thousand | success and verdicts are about the program at hand |
| `control_flow_else`, `passes_undeclared`, `type_cells_cycle` | | | counterexamples, section 4 |

Why the bounds are enough.  *Symbol table*: an error in the lists needs two
names in a bucket and one in another, a name that is declared again in an inner
scope, and a scope that is closed after an inner one; three entries in two
scopes, the outer of which is opened and closed too, have all of these, and the
theorems lift every bound.  *Control flow*:
nine blocks let one branching expression sit in each place of another (an
`if`, `for` or `while` takes three, a `match` of one clause four), or a `match` of two
clauses, which takes six, hold a function.  The calls interact through the insert
block only, which is one, and through the table, where one value of a let in
each scope is enough for a stray, and for an overwritten entry.  The theorems lift these
bounds.  *Passes*: a
disagreement needs two definitions of a name, or one that outlives its scope,
and a use; with seven nodes there is room for a function in a let, in a
function, with a use; the theorems lift this bound for scopes and for what
`codegen()` knows.  *Typing*: actions look at the outermost wrap of a type
only, two wraps tell it from what is inside; no action takes more than three
operands, and a two-dimensional index takes exactly
three; the theorems lift these bounds too.

*TypeCells*: sharing needs two references and two assignments, a walk that goes
wrong a type two deep; six cells are the three that are written down, which are
two deep already, and three that the program makes.  `ArrayDims = {1}` next to
the written array of two dimensions lets dimensions differ; the theorems lift
these bounds, and hold for `Cycles` too.  *Counting*: with
four bits all pairs of a first value and a bound are examined, among them every
combination of signs and limits; the theorems are for any width.  *Arrays*: two
arrays suffice for one to overwrite another; in `<<2, 1, 2>>` and `<<2, 3>>` the
dimensions differ from their neighbours and from their number, so that a field
or factor that is off by one shows; the theorems lift both bounds.  *Lexer*: the rules look at no more than
four characters at once, in seven two comments open and one of
them closes, and four characters of a
literal hold two escapes of which one replaces into another.  *Driver*: no
counter is bounded, runs and tests go on for ever; a third version is needed
for an executable that is neither of the program nor of an error.

Fairness.  Each is weak, and none says which operation comes next.

* `SymbolTable!FairSpec`, `WF_vars(Continue)`: the one thread of the compiler
  goes on with the call it is in.
* `TypeCells!FairSpec`, `WF_vars(EqualStep)` and `WF_vars(LLVMStep)`: the same,
  for a walk over a type.
* `Counting!FairSpec`, `WF_vars(Next)`: the generated program runs, and the
  bodies of its loops end.
* `Lexer!FairSpec`, `WF_vars(Next)`: `yyparse()` asks for tokens until the end.
* `Driver` has none: nothing is claimed to happen there.

Each property has a mutant: a changed definition, as a likely slip would
change it (`IfThen` with the block it began in, `GenLetRec` binding too late,
`CloseEntry` that frees without unlinking), for which TLC finds the property
violated.

## 4. Where the code disagrees

Found while writing the modules.  Three are runs with a counterexample.

* `control_flow_else`: the else part of an `if` that ends in another block than
  it began in (it has an `if`, `match` or loop) leaves a PHI with a wrong
  predecessor.  `IfThenElseExpr.cpp:72` uses `ElseBB`; line 58 refreshes
  `ThenBB`, and line 61 ff. forgets to do the same.
* `passes_undeclared`: `LetInExpr::sem()` opens no scope; names of a let can be
  used after it, up to the end of the function around it.
* `type_cells_cycle`: `x := x`, for an `x` that has no type yet, makes its type
  contain itself (`BinOpExpr.cpp:60`); the next comparison with it does not end.

Others have no run of their own.  Where a constant, or a condition of a property,
excludes them, it is named, and TLC finds them without it.

* A name gives whatever value `LLVMValueStore` has for it
  (`IdHighPrioExpr.cpp:34`), and that need not be defined where it is used.  A
  function that uses a variable of the function around it refers to an
  instruction of another function, as there are no closures.  And since
  `LetInExpr` opens no scope, `(if c then let x = read_int () in x else 0) + x`
  is accepted, and adds a value that only one of the branches computes.
  `DefinitionsDominateUses` of `ControlFlow` excepts such values (`strays`), and
  only those; it is violated without the exception.
* For definitions joined by `and`, `sem()` enters each name before the next
  definition, `codegen()` binds all of them at the end; and `codegen()` of a
  definition overwrites an existing entry in *any* scope, so that a let in a
  function changes the outer variable for good (`Passes`, `Redefine = TRUE`:
  `PassesAgree`, `CodegenIsLexical`).
* `sem()` does not look at indices, at the dimensions of arrays and at the first
  value of a loop; `codegen()` does.  A let in there leaves its names behind only
  in `codegen()`, where a later use outside of any scope takes them instead of
  what `sem()` has checked.  In `for x = (let f l = .. in 1) to (let f l = f ..) ..`
  the inner `f` is the second function for `sem()`, which declares a name before
  the body, and the first one for `codegen()`, which binds it after.
  `PassesAgree` excepts names that such a let defines (`Unchecked`).  It is false
  without this for trees of nine nodes, and for none smaller.
* The value of `e1; e2` is always unit, whatever its type, and that of a
  comparison a bit, though its type is `int`; `&&` and `||` of two integers have
  type `bool` and a word as value.  `==` and `!=` are accepted and not
  implemented (`BinOpExpr.cpp:108`).  These are the operands that do not have
  the value of their type, so that a function with such a body is accepted and
  becomes bad IR (`ValuesHaveTheirTypes` of `Typing`).
* `sem()` accepts an `int` as a condition, so that a number is compared with
  a bit (`IfThenElseExpr.cpp:23`), and
  an `if` without `else` whose then part is not unit: the PHI joins its value
  with that of unit (`IfThenElseExpr.cpp:27`, `70`).  It does not look at
  dimensions and indices (`ExprBlock::sem()` has no caller) nor at the first
  value of a loop, and the type of patterns is not compared with
  that of the scrutinee (`MatchExpr.cpp:11`).  `AcceptedIsWellFormed` excepts
  these (`Overlooked`), each for the instruction that is made there only, and
  nothing else but operands as above.
* A reference, or a result, of unknown type takes a value of unknown type without
  any check, and what the two become need not fit.  In
  `let f (a:int) = let mutable x in let y = !x in let z = (x := 1) in y` the body
  has no type (`ImmutableDefFunc.cpp:59`), so `f` is declared to return unit and
  returns an `i32` (`67`, `102`).  Where no type is looked at, a value of unknown
  type is as wrong as any.  An array that was never given a type
  crashes `typeName()`.  `StoresFit` excepts values of unknown type,
  `AcceptedCompiles` all of these where they do not fit, and only these.  `x[..]`
  crashes in `sem()` for a parameter without a type (the
  outcome `"crash in sem"` of `Index`).
* `<` and `<=` are unsigned, `>` and `>=` signed: `-1 < 1` is false and `1 > -1`
  is true.  `for i = a to -1` does not end for any `a`, neither does
  `for i = a downto` the smallest integer.  `ComparisonsAgree` and `AtLimit` say
  so exactly.  An upward loop from a negative value to a positive one makes no
  round.
* A unary plus inverts all bits (`Signs`), and `not` returns its operand as it is
  (`SigOpExpr.cpp`).
* The value of a character literal with an escape is a backslash
  (`lexer.l:75`).  A `\"` in a string ends it; escapes are replaced kind after
  kind, so that `\\n` becomes a backslash and a new line; `\0` is dropped.
  `Regular` of `Lexer` excludes these, and only these.  A file that ends inside
  a comment is accepted as if the comment had ended (`Eof`).
* `runTests.py` does not look at the status of `do.sh`: if that is interrupted,
  an executable of an earlier test passes in its place
  (`VerdictIsAboutProgram` has this exception).  `do.sh:3` sets `opimize`, so
  that `optimize` is whatever the environment says.
* The copy of a string literal writes its terminating zero beyond what was
  allocated for it; `Arrays` leaves the terminator out.

Outside of these, the passing runs show what holds.  With `Redefine = FALSE`
(no let defines a name that the table knows or that has a definition in scope)
the two passes agree on every
name, also on one that is used outside of its scope, but for lets that `sem()` has
not looked at; and `codegen()` can fail to
know a name only where `sem()` did not look.  In every program that `sem()`
accepts, a pointer points to what its type says.

## 5. Proofs

`SymbolTableProofs` holds the theorems about `Spec` of `SymbolTable`, for all
values of the constants.  Assumed of them: `HashAssumption` (`Hash` is a
function from names to buckets) and `SomeAssumption` (there is a name and a
type).  The bounds are not assumed to be anything.

| Theorem | States |
|---|---|
| `InductiveInvariant` | `Spec => []Inductive` |
| `TypeCorrect` | `TypeOK` |
| `LookupIsLexical` | `InnermostWins` |
| `NamesUniquePerScope` | `UniquePerScope` |
| `DeletesNothingInUse` | `NoDangling` |
| `DeclFindsItsOwn` | `DeclFindsItsFunction` |
| `InternalErrorsUnreachable` | `NoInternalError` |
| `ArgumentListsInOrder` | `ArgumentsInOrder` |

The argument.  `closeScope()` sets a bucket to the successor of the entry that
it frees.  That is right only if the entry is the first one of its bucket,
which no local reasoning shows.  `new` never reuses an address in the model, so
addresses grow with time and a list is described without recursion: an entry is
followed by the newest of the older ones.  `ChainsOrdered` says so of buckets,
`ScopeListsOrdered` of scope lists (up to the cursor of a `closeScope()` in
progress), and `LevelsGrow` that newer entries are not further out.  Together
they give the first-in-its-bucket fact: the entry at the cursor is the newest
of the innermost scope, hence the newest of all.  `WalkCovers` relates a lookup
in progress to the entries that are still ahead.  `FunctionOfCall`,
`OwnersInDefinition` and `NoArgumentsBefore` follow a function from `sem()` to
`endFunctionDef()`, for the argument lists.  `Inductive` is their conjunction;
TLC checks it as an invariant of `symbol_table`, and with it `TypeOK`,
`UniquePerScope` and `ArgumentsInOrder`, which are among its conjuncts.  There is a lemma for
each action; `Inserted`, `Opened` and `Closing` are shared by several.

`TableImplementsEnv` says that `Spec` implies `Implements`, with the same
assumptions: the table is a stack of maps.  The map
of a scope takes each name that is declared there to the type of its entry, and
`UniquePerScope` says that there is one (`MapIn`, `OneEach`).  Most steps of the
table are stutters of `ScopedEnv`, since a walk along a bucket changes no map;
there is a lemma for each operation of `ScopedEnv` (`Declares`, `Rebinds`,
`Finds`, ...) that says when a step of the table is one.  `closeScope()` drops
the innermost map in its first step and frees entries that are in no map any
more in the others.  A lookup answers what `ScopedEnv` answers because
`WalkCovers` makes the entry that it ends at the innermost one
(`InnermostFound`, `FoundIsDeepest`).

`ControlFlowProofs` holds the theorems about `Spec` of `ControlFlow`, for any
number of blocks, calls in progress and clauses; `ControlFlowInvariant` holds the
definitions of the three inductive invariants that it uses.  Assumed is `BoundsAssumption`,
which says of them that they are positive.

| Theorem | States |
|---|---|
| `AlwaysInductive` | `Spec => []Inductive` |
| `TypeCorrect` | `TypeOK` |
| `RegionsAlwaysNested` | `RegionsNested`, which contains `InsertPointOpen` |
| `BlocksAlwaysClosed` | `BlocksClosed` |
| `PhisAlwaysMatch` | `~ElseBranches` implies `PhisMatchPredecessors` |
| `DominatesAlways` | `~ElseBranches` implies `DefinitionsDominateUses` |
| `ControlAlwaysReaches` | `ControlReachesEverything`, for all programs |

`PhisAlwaysMatch` has the hypothesis because the property is false without: this is
what `control_flow_else` shows (section 4).  None of the properties is inductive.
Most of them speak of the finished program only, and `RegionsNested` of regions, not of
what keeps them apart: the blocks that a call in progress remembers in its local
variables.  `Inductive` is about these, frame by frame.  `Framed`, `Placed` and
`Region` say that the blocks of a frame were made since its call, are in the
function of the call, and that control enters what was made since the call from
its insert block only.  `Stacked` says that frames are nested: a frame's blocks
are older than the calls that it has made, and the insert block is never one
that a frame has reserved for later.  `OpenOnly` then says which blocks are open,
exactly: the insert block and those that frames have reserved.  So a block gets
its terminator once, and at the end none is open.  `Attached` and `Edges` do the
same for functions.  `PhiFacts` and `PhisDone` say what is missing of each PHI
that is still to be made, or, in a `for`, to be completed; `ElseStays` says that
an else part without branches stays in its block, which is what
`IfThenElseExpr::codegen()` relies on.

The proof follows the structure of the recursion.  A call of `codegen()` with mark
`m` changes only blocks newer than `m` and the insert block, which it ends with
branches to newer blocks (`Grown`).  Therefore everything that the frames below
know is kept, whatever they are (`LowerKept`, `StackedKept`, ...), and an action
has to be examined for the frame on top only.  A step of an expression
starts a call, goes on in it, or returns from it: `EntersSound`, `ProceedSound` and
`ReturnSound` have the conditions of the three on the top frame.  Then there
is one lemma for each action.

The next part of `ControlFlowProofs` is `DominatesAlways`, that `DefinitionsDominateUses`
holds of every finished program if `~ElseBranches`, the strays excepted that the
property itself names.  The hypothesis excludes programs for which it is false: a
PHI that names the wrong predecessor of the join (section 4).  Of a let that is
over nothing is assumed, nor of a name that is used by another function: the
value is then `Free`, like a constant, and `Avail` promises it to nobody.
The property is about every path from the entry of a function.  The proof does
not follow paths while the program is generated: it carries a solution `dom` of
the dataflow equations whose greatest solution are the dominators.  `dom[b]` is a
set of blocks that has `b`, has nothing but itself for an entry, and, `b` aside,
only what the sets of all blocks that branch to `b` have.  `Fits` says so of a
block, and that its operands are in its set and the values of its PHI in the
sets of the blocks they come from.  `dom` is not part of the state; `Dominance`
says that there is one (`Solves`) that the calls in progress agree with: `Avail`
is what a call may rely on in the code of its subexpression, such as the value
of the left operand or the header of the loop, and `Chain` says that the sets of
all blocks that are generated there have it.  Every step is shown to have a
solution afterwards that agrees with the one before on the old blocks (`Later`);
`ExtendSolves` gives it for new blocks, `BranchSolves` for a new terminator.
These steps are shown for a fixed set of strays; with more of them less is asked
of a solution (`StraysGrow`), so that `Local` may add one.  A value
that is in scope is held by a call in progress, hence available.  At
the end `NotReached` turns the solution into dominance: on a walk that starts at
the entry and avoids `d`, the first block with `d` in its set would have to
come after one that has it too.

The last part is `ControlAlwaysReaches`: no block is dead, and each leads to the end of its
function or is the trap of a `match`.  Paths are not followed here either.  A set of
blocks that has all entries and whatever its blocks branch to is `Upward`; every
block is in every `Upward` set exactly if control reaches it.  A set that has all
blocks with `ret` and whatever branches into it is `Backward`; it has every block
that leads to an end.  `Flow` is the invariant, about all such sets of the blocks so
far.  By `Forth`, a block is in each `Upward` set unless a call in progress still
`Hides` it, as `if` does its second branch and the join.  By `Back`, a block is in a
`Backward` set that has the insert block and the `Targets` of all calls in progress,
the trap of a `match` excepted.  A header of a loop would be in no `Backward` set by
itself, for what it leads to comes back to it, so `Loops` says that it is in one
with its exit alone.  An action is then
`Onward`, `Homeward` and `Turning`, about its new blocks and the top frame before
and after (`FlowKept`); `ProceedFlow`, `EnterFlow` and `ReturnFlow` serve the
three forms of a step, as above.  `FlowReaches` takes for the sets those of
`Reached` itself, of which `ReachedClosed` shows that as many rounds as there are
blocks close it: each round but the last adds a block.  TLC agrees that `Flow` is an invariant
for up to eight blocks.

`TypingProofs` holds the theorems about `Spec` of `Typing`, for any nesting of
refs and arrays, any number of dimensions and any number of operands.  Assumed
is `BoundsAssumption` only (there is room for one wrap and one operand).

| Theorem | States |
|---|---|
| `TypingCorrect` | `Spec => []TypingInv` |
| `TypingTypes` | `TypeOK` |
| `Values` | `ValuesHaveTheirTypes` |
| `Accepted` | `AcceptedIsWellFormed` |
| `Pointers` | `PointersHaveTheirTypes` |

Here the invariant is little more than the properties together: an operand is
`Good` if its value fits its type, or is one of the exceptions of
`ValuesHaveTheirTypes`; a pointer always fits.  `ReduceKeeps` and `StopKeeps` are
the two ways in which a step ends, `CheckAtKeeps` joins them, and the lemma of
an action says that its checks in `sem()` are enough: that if operands fit and
no type is overlooked there is no fault, and that what is accepted leaves a good
value.  `PrototypesAgree` compares the two declarations of
the library, which the code writes apart, function by function.

`CountingProofs` holds the theorems about `Spec` of `Counting`, for words of any
size.  Assumed is `HalfAssumption` (`Half` is a positive number).

| Theorem | States |
|---|---|
| `CountingCorrect` | `Spec => []IInv` |
| `CountingTypes` | `TypeOK` |
| `EndlessLoops` | `EndlessAtLimit`: a `for` at a limit never ends |
| `LoopsCount` | `CountsAsWritten` |
| `LessMeansGreater`, `SignsMean`, `OperatorsRight` | `OperatorsMean` and its two parts |

`IInv` adds to `TypeOK` that in the body the condition holds for the counter and
the bound, and `EndlessAtLimit`, which is inductive since at a limit the
condition is true of every word.  The former is what `LoopsCount` needs: a round
takes the counter one further in the integers only because it was not past the
bound, hence not at the end of its half of the words.  The rest is arithmetic
modulo `2 * Half`, which the SMT solver does not do for an unknown modulus: a
lemma determines the remainder from a quotient that is given to it
(`Remainder`), and `AddOne` and `SubOne` say what is next to a word.

`DriverProofs` holds the theorems about `Spec` of `Driver`, for any set of
versions.  Assumed is `VersionsAssumption` (correct versions are accepted,
accepted ones are versions).

| Theorem | States |
|---|---|
| `DriverCorrect` | `Spec => []IInv` |
| `DriverTypes` | `TypeOK` |
| `SuccessMeansFresh` | `SuccessIsFresh` |
| `VerdictsHold` | `VerdictIsAboutProgram` |

`IInv` adds `StageInputs`, that the file between two stages is of the version
that this run read, and `Judged`, what a test that executes may rely on.
Neither property is inductive without them: a file would be allowed to be of an
earlier run, and an executable would be judged without a run before it.

`PassesProofs` holds the theorems about `Spec` of `Passes`, for trees of any
size, any names and any redefinitions.  Assumed is `ConstantsAssumption` (the
library's names are names, and kinds are those that the classes have).

| Theorem | States |
|---|---|
| `TypeCorrect` | `TypeOK`, which contains `ScopesFollowTree` |
| `KnowsNames` | `CodegenKnowsNames` |
| `CodegenLexical` | `CodegenIsLexical`, if `~Redefine` |

The properties are about the scopes that are open when a task is next, so the
invariant has to foresee them: the scopes that a task finds are those that are
open now, less what the tasks before it close (`Closed`).  `Good` says of tree,
tasks and scopes that the tree has the shape that the grammar gives it, that
tasks are for nodes of their kind, and that every `close` meets the scope of its
node.  A step replaces the first task by others (`Instead`); if these leave the
scopes that were there for the tasks behind them (`Fit`), all is kept for the
latter (`Follows`), and only the new tasks have to be examined.

For the names, `Visible` gives to each node the set of names that have a
definition in scope.  It is not part of the state; `Seen` says that the tree has
it, and a tree that grows keeps it (`VisibleExtends`).  `Ready` is that each visit finds its
visible names in the scopes that will be open then, or that a `bind` before it, in
the same scope, will declare them (`Bound`).  The
second case is why the order of `recCodegen()` matters: its functions are
declared before anything is generated, its other definitions before the body.
`LetFinds` and `LetRecFinds` examine the two lists of tasks, `ServesJoined` joins
the parts of such a list.  `Stopped` is about the lookup that failed.  Finally
`LexicalVisible` identifies `Visible` with the recursive `Lexical`; both go from a
node to its parent, so that they agree at the least node if anywhere they do
not.  An action has one lemma for scopes and names together where both passes
share it or it is of `codegen()`, and one for scopes only in `sem()`.

`CodegenIsLexical` is proved for `~Redefine`.  Without this hypothesis it is
false: `DefBlock.cpp:95` overwrites the entry of an outer definition.  Knowing that a name is in the
table is not enough here, for a let leaves its entry in a scope that outlives
it, and the lookup must not end at an entry that some other let has left.
`Scoping` is what `~Redefine` gives: the names of a let differ, and none of them
is in scope around it (`Distinct`); then a name has at most one definition on
the way up from any node (`MeanLet`).  `Gives` says of the innermost `h` scopes
that whichever of them a lookup ends in, it has a given meaning there.  `Exact`
says of every visit to come that the table will give the name its meaning:
either the table does so now, and no task in between may take this away
(`Safe`: it binds no other definition of the name, and visits nothing but nodes
where the name is in scope, since only there no let can define it again), or one
of these tasks binds the definition and those after it are safe.  `Noted` is the
property, of all nodes that were looked up; `Lexed` is the conjunction, and with
the invariant about names it is inductive.  TLC agrees, on the trees of six
nodes.  `ExactFollows` replaces the first task, as `Follows` did for
scopes, under two conditions: `Calm`, that what is safe for the old task is safe
for the new ones and for what they do to the table, and `Binds`.
`ExactExtends` and `ScopingExtends` are about a tree that grows: that a let may be
chosen where a task before has relied on the name is what the guard of
`Heads` about names in scope excludes.  `OrderedArranged` is about
the order of `DefBlock::codegen()` and `recCodegen()`.

`ArraysProofs` holds the theorems about `Spec` of `Arrays`, for any values,
shapes, strings and bounds.  Assumed are `ShapesAssumption` (dimensions are
numbers, and there is one at least, as the grammar has it), `StringsAssumption`
(strings are sequences of values) and `BoundsAssumption` (the bounds are
numbers).

| Theorem | States |
|---|---|
| `ArraysTypes` | `TypeOK` |
| `LayoutAlwaysRight` | `LayoutRight` |
| `ArraysImplementStore` | `Implements` |

The argument has two parts.  The first is about numbers: the code computes an
index of an array as the value of digits in a mixed radix.  `Strides` and `Sums`
say what `mulTemp` and `accessEl` are after each round of the loop, and
`OffsetSums` that the code that finds its dimensions in the struct computes
them.  `SumsBelow`, `SumsUnique` and `SumsOnto` are three inductions
along the dimensions: sums are below the product of the dimensions, different
indices have different sums, and each number below the product is a sum;
`ProductStrides` says that the product that is
allocated, taken from the first dimension to the last, is the stride before the
first, taken from the last.  `OffsetRight` puts this together.  Induction is over
positions in a sequence, not over data, and the library's theorem for it cannot be
used: `Downward` and `Upward` prove it for a set of positions from `Least`, that a
set of numbers has a least element, which is proved from the well-founded order
of the library.

The second part is about the heap.  `IInv` says that each array lies where its
struct says, that arrays follow one another (`Sound`), and that the pointer
which the program holds was made from the indices that `of` remembers
(`Pointed`).  An allocation adds words at the end (`SoundNew`); an assignment
writes an element, which is no word of a struct (`Apart`), so that all structs
stay (`SoundKept`); the pointer stays what it was (`PointedKept`).  There
is a lemma for each action that it is the operation of `ArrayStore`
(`StoreDefine` to `StoreDim`); `ArrayWritten` needs that different indices have
different places, `StoreLiteral` that with one dimension the index is the place.

`TypeCellsProofs` holds the theorems about `FairSpec` of `TypeCells`, for any
number of types, dimensions and assignments.  Assumed is `BoundsAssumption` (there
is room for the types that are written down, and dimensions are positive); of
`Cycles` nothing is assumed, so that types may contain themselves.

| Theorem | States |
|---|---|
| `TypesAlwaysTypes` | `TypeOK` |
| `StoresAlwaysFit` | `StoresFit` |
| `AcceptedAlwaysCompiles` | `AcceptedCompiles` |
| `EqualStaysEqual` | `EqualForEver` |

The argument.  What a type is, is defined by a path of a fixed length, `equal_types()`
follows the pointers as long as it likes.  `Walked` relates the two: the call in
progress is `k` steps along both paths, which met refs and arrays of the same
classes so far, and `same` says whether the dimensions agreed; or it is on a way
that leads to no simple type.  `WalkGoesOn` keeps this, `WalkAccepts` and
`WalkRejects` say that the answer is right when there is one.  A path longer than
the heap has a type twice, hence no end: `TooLong` shows it from the cardinalities
of the two, with the pigeonhole principle of the library.  `PathGoes` shows that the
path is what its recursive definition says, by induction over positions from
`Least`, as in `ArraysProofs`.

`Grows` is all that `sem()` does to types: there are more of them, and a ref of
which nothing was known may get its content (`NextGrows`).  The path of a complete
type meets no such ref, so it stays (`CompleteKept`), and equal types stay equal
(`SameKept`).  An assignment is `Fine` if the reference has the type of the value,
in identity or as it reads; the former is kept also where the type is known in part
only, and is why it matters that `setType()` stores the pointer, not a copy.
Until `equal_types()` has answered, the assignment is `Pending`.  `IInv` says that
every assignment is one or the other, and so is what a function returns, since the
result is held in a ref (`ResultsOK`) and completed as one; values of unknown type are excepted here, and `EndsOK` says that
only they, or unchecked places, end in bad IR.  Of `getLLVMType()` it says that, if it met an
array, then this array is no more complete than what it still has to name
(`WalkOK`): a null pointer there means an array without a type.

Only model-checked: all liveness, which is beyond the prover; of `Passes`,
which definition a name gets in `sem()` (`SemIsLexical`) and that the two passes
agree, also on names that are used outside of their scope (`PassesAgree`); and
`Lexer`, whose reference is recursive over the text.

## 6. Not modelled

* Function types: a parameter of function type can be called without a check
  (`FunctionCall.cpp:26`), and `getLLVMType()` has no type for it.
* The lifetime of cells: a mutable in a loop has one cell for all rounds, and a
  reference may outlive its function; nothing in the repository says what is
  meant.
* In the lexer, keywords (they are scanned as identifiers are) and operators of
  two characters; the tables of the parser and the precedence of operators.
* Division, which is LLVM's; the optimisation passes; `lib.a`, a binary, behind
  the prototypes of the library; the `Makefile` and the scripts.
* The failure of an allocation.

## 7. Plan

1. `SymbolTable`, `ScopedEnv`, `ControlFlow`, `Passes`, `Typing`, and the proofs
   of the first and the last: done.
2. `TypeCells`, `Counting`, `Arrays`, `Lexer`, `Driver`, and the proofs of
   `Counting` and `Driver`: done.
3. Proofs of `ControlFlow` over its frames, and of the refinement of `ScopedEnv`
   step by step from `Inductive`: done.
   `DefinitionsDominateUses` of `ControlFlow` from a dataflow solution, and
   `ControlReachesEverything` from closed sets of blocks: done.
4. Proofs of `Passes`: `TypeOK`, which contains that scopes follow the tree, and
   `CodegenKnowsNames`, and `CodegenIsLexical`, for which `Exact` says which entry
   is found: done.  Proofs of `Arrays` and of its refinement of `ArrayStore`:
   done.
   Proofs of the safety properties of `TypeCells`: done.  Left: `SemIsLexical` of
   `Passes`, in the same way as `CodegenIsLexical`.
5. Composition: `Passes` over `SymbolTable` instead of maps, for small trees, if
   the state space allows; the refinement makes it redundant otherwise.
