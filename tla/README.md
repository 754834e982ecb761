# TLA+ models of godecompose

godecompose turns a compiled Go program back into Go source. It decodes the
`.text` section, cuts it into functions, keeps the user's functions, matches a
database of assembly patterns against their instructions, and writes what the
matched patterns expand to. This directory models the parts of it that carry
state or an algorithm, checks them with TLC and proves the central ones with
TLAPS. Paths are relative to the root of the repository.

## 1. The system

The program is sequential. `cmd/godecompose` parses arguments and calls
`actions`, which runs the pipeline below once per binary; nothing is persisted
between runs but the files it writes. The only lock is the `RWMutex` around the
registry of binary formats (`binary/binary.go`), filled by `init` functions. The
hard behaviour is therefore not in the interleaving of threads but in long loops
that carry state from one iteration to the next, in passes that rely on what an
earlier pass left, in results handed on by one component and assumed by
another, in sorts that are not stable and maps that are ranged over in any
order, and in panics that nothing recovers from.

    .hexpat -> lexer -> preprocessor -> parser -> evaluator -> database
                                                                  |
    binary -> sweep -> recovery -> walk -> matcher <--------------+
                          |                  |
                          +--> generator <---+--> flat listing / project

| component | state | operations | what makes it correct |
|---|---|---|---|
| linear sweep (`disasm/disasm.go`) | offset, instructions | decode, skip a byte | nothing decodable is lost, instructions are in order |
| function recovery (`function/pclntab.go`, `function/function.go`) | functions, user functions, packages, structs | by pclntab, by symbols, by heuristics; classify; refine by call graph; group | functions are in order and bounded by the next one; packages partition the user functions |
| pipeline (`actions/decompile.go`) | user instructions, visited | walk the user functions | the matcher is given exactly the user code, in order |
| pattern database (`database/database.go`) | patterns, index by opcode, syscall tables | load, register, deregister, find | the index and the list agree |
| matcher (`pattern/matcher/matcher.go`) | index, raw matches, bindings | index, scan, resolve conflicts | every match is found; the kept ones do not overlap; nothing is dropped for a worse one |
| control flow graph (`disasm/cfg.go`) | blocks, edges | cut, link | blocks tile the function and edges are its control flow |
| structuring (`disasm/structure.go`) | depth-first numbers, forest, buckets, dominators, kinds | dominators, post-dominators, loops, classify | what is named a dominator is one, or at least comes before; loops are loops |
| generator (`pattern/generate/generate.go`) | emitted blocks, labels, names, files | flat listing; project: packages, structs, functions, bodies | each block and match once; gotos have labels; names are unique |
| pattern language (`pattern/lang`) | token stream, macros, conditionals; position in the tokens; scopes; compiled patterns | lex, preprocess, parse, evaluate; validate, which only the `patterns` command calls (`actions/patterns.go:65`) | directives nest; what was written is what is read; parser and evaluator end; scopes are balanced; nothing of a pattern is lost |
| data flow analysis (`analysis/dfa`) | shared value nodes, register values, slot names, statements | parse, translate, optimise, emit; only its tests call it | values are those the instructions compute; simplifying changes no meaning; no store is dropped that is needed |
| binary formats (`binary`) | registry, open file | detect, open, read sections | — (readers over `debug/elf`, `debug/pe`, `debug/macho`) |

Components talk by return values: each stage hands a slice to the next. Two of
these slices are shared rather than copied: `Generate` sorts the matches it is
given in place, and `Database.AllPatterns` hands out its own array.

The hazards this code is exposed to are listed, each at its line, under
`hazards` in `PROJECT.json`, with the properties that would notice them.

## 2. The modules

State that the code keeps in local variables of a function is kept in
variables of the module, and one iteration of a loop is one step, so that what a
loop relies on at its head can be stated as an invariant. Pure functions are
operators under the name they have in the code. Definitions marked as faults or
as wrong are mistakes the code does not make: they are used to see that the
properties would notice them.

| module | models | how |
|---|---|---|
| `PatternMatch` | `tryMatch` and what it calls | operators, the loops as recursive functions; an operand is its kind, text, base and offset, and whether it begins with a `$` |
| `Matcher` | `New`, `Match`, `resolveConflicts` | one step per iteration; the unstable sort is a choice among the matches nothing left outranks |
| `MatchSelection` | what the matcher promises its caller | a set of matches, published once; `Matcher` implements it |
| `Ascending` | a slice of numbers that is sorted and free of duplicates | operators |
| `BasicBlocks` | `BuildControlFlowGraph` | operators |
| `FunctionBody` | `buildFunctionDecl`, `buildFunctionBody`, `buildCondBlock`, `buildPlainBlock`, `collectLabelUses` | one step per block; the body is the sequence of what is appended to it |
| `ControlStructure` | `StructureControlFlow` | one step per vertex, predecessor, successor or block of its loops; the recursion of `dfs` has a stack |
| `UserStream` | `DecodeStreamWithSymbols`, `recoverBySymbols`, `extractFunctionBlocks`, the walk of `DecompileBinary` | one step per byte, symbol and address |
| `SymbolNames` | `ParsePackageName`, `ClassifyFunction`, and the names the linker writes | operators; a name is the sequence of its parts |
| `Packages` | `FilterUserFunctions`, `RefinePackagesByCallGraph`, `BuildStructs`, `RefineStructPackages` | one step per function, call or struct; maps are ranged over in any order |
| `FlatOutput` | `Generate`, `emitRawRange` | one step per range, instruction and match; a listing is the sequence of its lines |
| `Project` | `WriteProject`, `writePackageAST`, `buildStructDecl`, the name `buildFunctionDecl` gives, `deduplicateName` | one step per declaration and file; each directory and file may fail, and may be there from an earlier run |
| `PatternLoading` | the preprocessor, `LoadPatternsFromDir`, `LoadFromFS`, `LoadFromSource`, `Register`, `Deregister`, `DeregisterLibrary`, `rebuildIndex`, `evalPattern` | one step per token, node and pattern; a definition is one token; parser and evaluator may hang |
| `Subsequences` | what a loop keeps of a slice | an operator, a recursive function that proofs can unfold |
| `PatternStore` | what the database promises its clients | a list of patterns; `PatternLoading` implements it |
| `Parser` | `parser.go`, the nodes of `ast.go`, the token types of `token.go` | operators; each function of the parser is a list of items, and `run` says what an item does with the tokens |
| `PatternText` | the grammar, from the other side | the tokens a syntax tree is written with; nothing of the code, the reference `Parser` is compared with |
| `PatternEvaluator` | `evaluator.go`: scopes, expressions, `evalPattern` with its bindings and template | operators on a stack of scopes |
| `PatternCompile` | `Parse`, `Evaluate`, `evalNode` | one step per definition, then per node; what is left to do of a node stands in a list |
| `Machine` | what instructions do to registers and stack slots | operators; the reference `DataFlow` is compared with |
| `DataFlow` | `translate.go`, `parse.go`, `value.go`, `optimize.go`, `simplifyValue` and the conditions of `analysis/dfa` | one step per instruction, two for the optimization; values are nodes of a heap, as the code shares and changes them |
| `MC*` | | instances for TLC |
| `MatcherProofs`, `FunctionBodyProofs`, `ControlStructureProofs`, `UserStreamProofs`, `PackagesProofs`, `FlatOutputProofs`, `ProjectProofs`, `PatternLoadingProofs` | | proofs |

How they fit together:

- `UserStream` ends with `userInstructions`; `UserStreamProofs` proves that it
  is in address order (`MatcherInputInOrder`), which is what `Matcher` assumes of
  its `Streams` (`StreamsAssumption`) and `FlatOutput` of the stream in its `Layouts`.
- `Matcher` ends with `kept`; `MatcherProofs` proves that the kept matches are
  disjoint (`KeptMatchesDisjoint`), which is what `FunctionBody` and `FlatOutput`
  assume of their `Layouts` (`LayoutsAssumption`).
- `UserStream` leaves recovered functions in address order, which is what
  `Packages` assumes of its `FunctionLists`; `Packages` ends with packages,
  `PackagePath` and structs, which are the `Projects` of `Project`.
  `PackagesArePartition` is what lets `Project` take a function's package for its
  place in the map of packages.
- `PatternLoading` ends with the list of patterns `FindPatterns` hands to the
  matcher: the `Databases` of `Matcher`. Its own index by opcode is not what the
  matcher searches, which builds another.
- `PatternCompile` is the step that `PatternLoading` takes as one: tokens that the
  preprocessor leaves go in, and a list of patterns comes out, which
  `PatternLoading` registers. What of it does not end is there a token of its own:
  on `stuck` the parser loops (the gen block of `pattern_compile_documented` is one such
  definition), `endless` is a function whose `while` the evaluator never leaves, and
  both lead to the state `hung`, from which no load returns. The instructions of a pattern are what `Matcher` has
  in its `Databases`, the template is what `FunctionBody`, `FlatOutput` and `Project`
  take as the text a match expands to.
- `DataFlow` stands alone: the generator does not call the analysis.
- The bodies of the functions `Project` declares are those of `FunctionBody`.
- `ControlStructure` leaves `pdom` at -1 everywhere and nothing fills `Loops`, so
  `FunctionBody` leaves out `buildLoop` and takes `findMergeBlock` for -1.
- `BasicBlocks!Panics` is what `UserStream!OffStream` says of a symbol:
  `BuildControlFlowGraph` indexes an empty block exactly when the entry point is
  no instruction's address (`PanicsOnlyOffStream`, a part of `BlocksAreTheFlow`).

Abstractions. The text of instructions is left out: operands are records of what
the matcher can tell apart, and whether a `CALL` is the one a pattern names
(`fuzzyMatchCall`) is given with the instruction. The confidence is an integer
multiple of 1/2520 where the code has a `float64`, so the code may order two
matches that the model leaves equal; the model allows both orders. Which symbol
is user code is given with the symbol in `UserStream` and worked out by
`ClassifyFunction` in `Packages`. What an instruction decodes to is given with the
bytes. A package path is one part of a name, dots included. A name in `Project` is
a text and the numbers `deduplicateName` puts behind it, so that a name the
program has with a number itself, `f_1`, can collide with one that is made. What
a template expands to is left out. Of a project directory only the files the run may
write are followed, each of which may be there from an earlier run, with its `go.mod`;
files of packages the program does not have are neither touched by the code nor
modelled. In `PatternLoading` a pattern definition is one
token with the opcodes its alternatives begin with, so directives inside a
definition and macros that stand for several tokens are left out; files that
cannot be read, lexed or parsed are all there.

In `Parser` a token is its spelling, and the lexer is left out. A loop whose body
takes no token runs forever in the code; in the model it leads to the position
`Hung`, which nothing leaves, and no step parses from there. A template is the
sequence of what its statements give, each a string, where the code puts spaces
between some of them; within a statement the text is put together as the code does
it, and `expandVariables` replaces in the string, one binding after the other.
`PatternEvaluator` leaves out floats and the printing function. Evaluation reports
no error (`evaluator.go` returns `nil` from every case), so there is none to model.
The lists by kind that a `Program` has beside `Nodes` are the same nodes again.

In `DataFlow` an operand is what `ParseOperand` makes of its text. Constants are
kept modulo 2^`Width`. What `emitValueGo` writes is an expression rather than a
string. Parameters and the layout of the emitted text are left out. The
analysis does not express every instruction, and does not claim to, so the
comparison with `Machine` is for blocks of `Expressible` instructions: 64 bits wide,
between registers, immediates and stack slots, with no slot written twice. The
other instructions are translated by the model as by the code, and only
`NodesKeepTheirMeaning` speaks of them.

`PatternStore` gives the database a meaning that knows nothing of the loops:
`Meaning` says of a file, of all its tokens at once, which patterns it
contributes, if any. It replaces includes as deep as there are files, takes the
tokens for which every open conditional holds, and puts for each opcode the last
definition before it. The store then only appends, whole files at a time, and
removes.

## 3. The runs

| run | bounds | shows |
|---|---|---|
| `matcher` | streams of up to 3 instructions of 6 kinds, one with a `$` operand, with a gap after the second, 4 databases, cap of 6 raw matches | the scan finds every match up to where it is cut, ranges and captures are right (`MatchesAreTrue`), the selection is right, `Match` returns, and it implements `MatchSelection` |
| `function_body` | 4 instructions with every choice of jump targets, 4 layouts of matches, simple blocks of up to 2 instructions | blocks tile and edges are the flow (`BlocksAreTheFlow`), each block once, gotos have labels and labels gotos (`LabelsFitGotos`), no match twice |
| `control_structure` | every graph of 5 blocks that code can have, two of 6 | the semi-dominators are right; the last pass finds an entry wherever it looks, and `DomTree` names only blocks that come before and lead there (`DomTreeClimbs`); loop heads lie on cycles; termination |
| `user_stream` | every section of 4 bytes, up to 3 symbols at 3 addresses | the sweep is lossless; the stream is the user code, in order |
| `packages` | every program of 3 functions out of 7 symbols, every set of up to 2 calls, some from before the first function | packages partition the user functions; moves are unanimous; exact names are safe; structs hold their methods and have a file |
| `flat_output` | streams of up to 4 instructions with and without a gap, any of them padding, up to 3 disjoint matches in every order | the listing is in order and whole |
| `project` | every program of up to 4 functions out of 10, in 2 packages, with names that have a number; every call that can fail; any of the files and a `go.mod` there before | names are unique; a run writes a `go.mod` exactly when it succeeds, and the project is whole then |
| `pattern_loading` | two files: one of up to 2 of 14 tokens or one of 54 with a conditional in a conditional, one to be included; walks over one or both, with and without includes; 2 calls; room for 24 tokens | conditionals nest; the index agrees with the list; the database is the list of patterns the files mean; files without circular includes are loaded to the end, unless parser or evaluator hang on what the file itself selects (`AcyclicLoadsEnd`) |
| `pattern_compile` | files written from syntax trees: every expression with one operator or form in another, statements two deep, every kind of definition, every pair of 10 operands, gen texts of up to 4 pieces; statements, definitions and patterns also cut off after every token | what was written is read; templates without strings keep their text; a pattern has every field of every operand of its last `instr` block, and the bindings written for it; every scope that is entered is left; parser and evaluator end |
| `data_flow` | 2 bits, 2 registers, 2 slots, stores of 0 and 3; blocks of up to 4 of 10 instructions, and every instruction of 150 in blocks of two | the values are those of the machine for every store; jumps have the condition they jump on; simplifying changes no meaning; no store is dropped that the returned value needs |

Why the bounds are enough: three instructions are the fewest in which an
alternative of two instructions and another can overlap on one side only and in
which one spans the gap; four instructions are the fewest in which two
conditional blocks can name one else target before and behind them. Up to five blocks `DomTree` only
leaves immediate dominators out; six are the fewest with which it names a block
that is none and a loop head is the target of no back edge, so two such graphs
are among those of the run. A simple block is at most 5
instructions in the code; `SimpleLimit` scales it down so that both sides
occur. The cap on raw matches is 10000 in the code and 6 in the run. Three
functions are the fewest in which two callers disagree about a third, and two
calls the fewest that do; four functions are the fewest in which a number has to
be tried twice because both the name and its first number are taken, with a
second package beside. Four instructions are the fewest that have one before,
between and behind two matches, and padding among them. Two tokens are the
fewest in which a directive acts on what follows it, the files with nested
conditionals have up to ten, and two calls are the fewest in which a
deregistration follows a load, or a load one that failed. 24 tokens (`MaxSource`)
are more than any file without a circular include grows to. An operator, cast, call,
index or ternary inside another is the least that shows which binds tighter
and to which side, and one operator of each of the eight levels is among them; an `if` in an `if` is the least that shows to which an `else`
belongs; a file cut off anywhere ends inside every loop of the parser.
Two pairs of braces with a captured variable between them need four pieces.
Two registers and two slots are the fewest in which a value outlives the place it was
taken from, and four instructions the fewest that store, change the register, read
the slot back and return it. With 2 bits, 0 and 3 are the values at which sums wrap
around and a sum, a difference, an AND, an OR and an XOR differ.

Two runs are expected to end in a violation. Each checks what a sentence of
the documentation says of the program and shows the code doing something else:

| run | says | does |
|---|---|---|
| `control_structure_documented` | `DomTree` has the immediate dominators (`disasm/structure.go:48`) | it names a block that is on one path from the entry and not on another (`structure.go:212`, `structure.go:222`) |
| `pattern_compile_documented` | a gen block has conditions, `@if ($platform == "linux") {` (`docs/pattern-language.md:327`) | the parser drops one parenthesis, does not find the brace behind the other and stays there (`parser.go:704`, `parser.go:713`) |

Seen while modelling and kept without a run of their own:

- The literal of an immediate operand in a pattern is not compared (`matcher.go:291`,
  against `docs/pattern-language.md:269`, literals must match exactly).
- A match on the last instruction of a block is dropped (`generate.go:580`, against
  `README.md:178`, matched patterns expand their templates).
- Evaluating a bucket stores `semi[u]` where Lengauer and Tarjan store `u`
  (`structure.go:212`), and the last pass compares with the semi-dominator of the
  semi-dominator (`structure.go:222`). What `DomTree` names is then not always a
  dominator; without a cycle in the graph too, from ten blocks on. A loop head may
  thus be the target of an edge that is no back edge, and `identifyLoops` misses
  loops (`structure.go:270`, against `docs/architecture.md:229`). What is left of
  the promise is `DomTreeClimbs` and `LoopHeadsOnCycles`.
- An operand whose text begins with a `$` matches any operand of a pattern, and takes
  over a capture that is bound, without being compared (`matcher.go:281`, where `&&`
  binds tighter than `||`). In the Intel syntax the matcher is given none is seen to
  begin so; the model has them, and `MatchesAreTrue` says what is left of a capture.
- `WriteProject` accepts a directory that is there (`generate.go:89`, `generate.go:146`)
  and removes nothing. After an error a `go.mod` of an earlier run may stand beside
  files of two runs and a file that is cut off; `GoModMeansWhole` speaks of the run's own.
- Architecture and platform act as filters (`docs/pattern-language.md:247`,
  `docs/architecture.md:314`), but the directives are nodes of their own (`parser.go:400`)
  which the evaluator passes over (`evaluator.go:226`): no pattern has either
  (`LoadingTypeOK`), and `FindPatterns` (`database.go:91`) leaves none out. `PatternStore`
  promises the list and says nothing of a filter.
- The expression parser has no level for `=`, `&`, `|` and `^`
  (`parser.go:1087`), so that the `while` loop of `docs/pattern-language.md:154`, whose
  body is `i = i + 1`, is never parsed to its end. `sizeof`, `addressof`,
  `typenameof` and `match` are keywords that `parsePrimary` does not reach as
  expressions; `(a)(b)` is read as a cast; the commas of
  the `for` loop in `docs/pattern-language.md:163` are not read as written.
- Other text the parser does not get past: attributes `[[...]]` of a struct
  (`docs/pattern-language.md:62`), a `struct` inside a function, a parameter list that
  does not end. A file that ends early is accepted without an error.
- A gen block is template text in which variables are substituted
  (`docs/pattern-language.md:321`). Its text is put together from the literals of tokens
  (`parser.go:683`), and that of a string has no quotes (`lexer.go:291`): the pattern
  `gen { panic("index out of range") }`, which is shipped
  (`patterns/golang/controlflow/runtime_extras.hexpat:25`), has the template
  `panic(index out of range)`.
- In templates, an `@` before a word is lost at the start of a statement
  (`parser.go:646`) and `return 0` becomes one word (`parser.go:683`), spaces not being
  tokens. In a string, `$c` is replaced in the middle of `$cd` too (`evaluator.go:408`),
  and what one binding put in can be replaced by the next. `TemplatesKeepTheText` speaks
  of texts with neither a string nor an `@`, and leaves the spaces aside.
- `_` as an operand is a capture of that name (against `docs/pattern-language.md:272`,
  where it is the wildcard); the wildcard the parser knows is `*`, which is how
  `PatternText` writes it.
- A `return` does not leave the function it is in (`evaluator.go:207` and around);
  `for`, `match` and `try` are parsed and not evaluated.
- In the data flow analysis, whether a store is dead is decided for its name and not
  for the store (`optimize.go:121`): a slot that is written twice, the second time
  read only by the returned expression, can lose a store that is read (against
  `docs/phase1-decompiler-rewrite.md:200`). Uses inside a negation do not count. A
  register that was loaded from a slot keeps the slot's name when the slot is written
  again. `CMP` takes registers as they were before the block, where `TEST` takes them
  as they are. `SETcc` always sets 1, a narrow move is taken for a whole one, a call
  changes no register but `AX`, the unsigned jumps are written as signed ones, and
  `RET` returns nothing when `AX` holds a plain register.
- The function at the highest address ends at 0 (`pclntab.go:279`), so none of its
  instructions reach the matcher (against `README.md:136`, exact function
  boundaries).
- A method of a second type, or one beside a function of its name, is called
  `f_1` (`generate.go:271`): methods draw their names from the same set as functions.
- Of several `instr` blocks the last is kept, and an empty first alternative is
  lost (`evaluator.go:274`, `parser.go:432`).
- Conditionals do not guard an `#include` (`preprocessor.go:119`), so the include
  guard known from C does not keep a file from including itself; an `#ifdef`
  without `#endif` is accepted.
- A label can be left without a goto, which the Go compiler refuses:
  `collectLabelUses` (`generate.go:863`) decides before any block is emitted.
  `LabelsAreForElse` says exactly when.
- `computePostDominators` runs before anything is an exit, so `PdomTree` names no
  merge point (`structure.go:137`, against `docs/architecture.md:225`).
- `ParsePackageName` cuts `example.com/pkg.T.M` at its last dot (`function.go:108`)
  where the comment on it gives receiver `T` (`function.go:90`). A method with a
  value receiver thus counts as a function of a package `example.com/pkg.T`, and
  may drag the unexported functions it calls there.
- The packages of callers are read before the refinement moves any of them
  (`pclntab.go:412`), so a function all of whose callers end in one package can
  stay in another.
- Types of one name in two packages share one struct, in one of the packages
  (`function.go:194`, against `docs/architecture.md:305`).
- A method called `main` that comes first makes the entry point `main_1`
  (`generate.go:271`, against `docs/architecture.md:303`).

Fairness. The program is one thread that runs until it returns, so the only
fairness there is to assume is that it takes a step while one is left.
`Matcher` and `ControlStructure` state it as `[]<>(pc = "done") \/ []<><<Next>>_vars`,
which is weak fairness of `Next` with its `ENABLED` written out: TLC takes too long
to evaluate `ENABLED` through the folds of these modules, and the search for
deadlocks shows that a step other than a stutter is enabled until the end.
`PatternLoading` states it of the steps of a load: a load that has begun is a loop
that goes on, while nothing says that a client makes a further call. A load may end in
`hung`, where the program still runs and no step is left to model.
`PatternCompile` assumes `WF_vars(Next)`: `LoadFromSource` runs the parser and then the
evaluator until they return. The other modules have no liveness property: each of
their steps moves a counter to its bound.
`PatternCompile` and `DataFlow` are checked without the search for deadlocks: a file
that is refused and a block that is optimized are where they stop.

## 4. The proofs

The type invariants of `Matcher`, `UserStream`, `Packages`, `Project`, `FlatOutput` and
`PatternLoading` are proved and checked by no run. The other properties that are
proved, `FunctionBody!TypeOK` among them, are checked by the run of their module as
well. The only assumptions are those the modules state of their constants.

`MatcherProofs` proves, for every database, every stream in address order and
every cap:

- `TypeCorrect`: `Spec => []TypeOK`;
- `KeptMatchesDisjoint`: `Spec => []NoOverlap`;
- `DropsAreJustified`: `Spec => []DroppedForABetterOne`;
- `ImplementsSelection`: `Spec => SelectsMatches`, the refinement of `MatchSelection`;
- `ScanMissesNothing`: `Spec => []ScanFindsEveryMatch`;
- `MatchesAreAlwaysTrue`: `Spec => []MatchesAreTrue`.

The inductive invariant is `ResolveInv`. Neither property is inductive alone:
that a match is dropped only for one it does not outrank needs `WalkDescends`,
that nothing still pending outranks anything already taken from the sorted list,
and both need `Phases`, which ties `pending` and `kept` to the phase.

The last two have the invariant `ScanInv`. A match is found only if the index names
its pattern, so `Indexed` says what `New` has entered when it stands at an
alternative, and `Passed` that what the three loops of `Match` have passed is
recorded where it is a match; `OnlyHits` is the converse. What a recorded match
says of its range and captures is a fact about `tryMatch`: its two loops are
recursive functions, whose values are shown to be there by induction on the set of
numbers for which they are (`SetInduction`; `BodyUnrolled` for one of them), and a
plain capture, once bound, stays bound to the same text or to that of a later operand
that begins with a `$` (`CapturesAgree`, `DollarTexts`). `DatabasesAssumption` has a
label in an alternative carry no opcode, as `parseInstructionPattern` leaves it.

`FunctionBodyProofs` proves, for every function and all disjoint matches:

- `FunctionBodyTypes`: `Spec => []TypeOK`;
- `BlocksAreAlwaysTheFlow`: `Spec => []BlocksAreTheFlow`;
- `EveryBlockIsEmittedOnce`: `Spec => []EveryBlockOnce`;
- `LabelsAlwaysFitGotos`: `Spec => []LabelsFitGotos`;
- `MatchesAreUsedOnce`: `Spec => []MatchesOnce`.

The inductive invariant is `BodyInv`. The properties speak of the finished body, and
its items are appended several at a time, so the invariant counts: how often the body
holds a block, a label, a goto and a match when the loop stands at block `i`
(`BlocksInv`, `MatchesInv`). What was emitted ahead of the loop, as somebody's else
branch, is simple (`LoopInv`), and a goto never leads to such a block. That blocks tile the
function is a fact about sorted leaders, which `InOrder` of `Ascending` gives: the
lemmas on it say that it has the members it should, in order. That matches are
used once rests on `LayoutsAssumption`, disjointness, and on each match lying in one
block.

`ControlStructureProofs` proves, for every control flow graph:

- `DominatorTreeClimbs`: `Spec => []DomTreeClimbs`;
- `LoopHeadsLieOnCycles`: `Spec => []LoopHeadsOnCycles`;
- `SemiDominatorsAreRight`: `Spec => []SemiDominatorsRight`.

For the first two the inductive invariant is `ClimbInv`; the theorem `Climbing` says
that it holds.
While `dfs` runs (`SearchInv`), `parent` is a tree of edges that lead to higher
numbers, a block that was left has its successors reached, and a vertex that is not
the last either has the next one as its child or has nothing ahead. So no vertex an
edge leads up from is a leaf (`EdgesInv`). That is what makes the buckets work: a
vertex waits in the bucket of its semi-dominator, and the bucket of a vertex is
emptied when one of its children is linked, so that each semi-dominator must have a
child whose turn is still to come (`SemiInv`, `BucketInv`), or else the last pass would
meet -1 and index out of range. `AncestorInv` and `LabelInv` say of the forest what
`Eval` keeps when it compresses a path: links go to lower numbers and a label leads to
its vertex. The mistakes in the second half do not break this, and what is left then
is enough for the walk of `dominates` to end (`Rises(idom)`). A loop head has an edge
from a block it is on the walk up from, and each entry of that walk leads to the one
below, so the edge closes a cycle (`FirstStep` takes the first edge of the way).

For the third it is `SemiDominatorInv`, relative to `ClimbInv`. `Over` orders the blocks
by the search tree, and `ShapeInv` is what makes a depth-first search one: what is
under a block is numbered without a gap from it on (`Interval`), and an edge to a higher
number leads down the tree (`Forward`); both hold because whatever is over the top of the
stack is on the stack (`StackInv`). From them follows the theorem of Lengauer and
Tarjan the algorithm rests on, in two halves: what precedes a block u after w, and u
being over a predecessor of w, precedes w (`PrecedesThrough`), and what precedes w does
so by an edge or in this way, u being the lowest block inside the path
(`PrecedesSplit`). `Precedes` is a path whose inner blocks come after w, stated as
membership in every closed set; `SpreadCloses` shows that the rounds of `ReachableIn`
compute it. `ForestInv` says of the forest what makes `Eval` right: of the blocks between a
linked block and the one its link names, all are linked and the label has the lowest
semi-dominator, so the best label of a path is the best of everything over its lower
end, below the root (`BestIsLowest`), and compression keeps this
(`EvalKeepsForest`). `OfferInv` says of a vertex that is looked at that `semi` is not above
anything the predecessors seen so far offer.

`UserStreamProofs` proves, for every section and every symbol table:

- `StreamTypeCorrect`: `Spec => []TypeOK`;
- `SweepIsLossless`: `Spec => []SweepLosesNothing`;
- `MatcherInputInOrder`: `Spec => []StreamInOrder`;
- `MatcherInputIsUserCode`: `Spec => []StreamIsUserCode`.

The inductive invariant is `StreamInv`. That the gathered stream is in order is not
inductive: an instruction is appended when the walk meets it, and it lies
behind everything gathered only because decoded instructions are disjoint
(`Swept`), functions come in order and two of them have the same range or
disjoint ones (`Recovered`), and what was visited is exactly what lies in the
functions before this one and in this one before the current address
(`Gathered`).

`PackagesProofs` proves, for every program, list of calls and division of names
into classes:

- `PackagesTypeCorrect`: `Spec => []TypeOK`;
- `PackagesArePartition`: `Spec => []PackagesPartitionUsers`;
- `OnlyUnanimousMoves`: `Spec => []MovesAreUnanimous`;
- `ExactNamesAreSafe`: `Spec => []ExactNamesStay`;
- `StructsHoldTheirMethods`: `Spec => []StructsHoldMethods`.

The inductive invariant is `PackagesInv`. That a move was unanimous is known only
at the time of the move, from the set of packages that was gathered before: the
invariant therefore says what that set holds at every point of the scan
(`Scanned`) and that a function which has another package than its name says had
all of it (`Moved`). `Filtered` and `Grouped` say how far the loops that fill the
packages are, before and after the refinement. `StructsHoldTheirMethods` adds `StructsInv`: the
functions that `BuildStructs` has passed are in the struct of their receiver, in
order and no others (`Collected`), a struct that has its place is in a package that
leads among its methods (`Placed`), and a method has a package at all
(`MethodsHavePackages`), so that the package it leads to has functions.

`FlatOutputProofs` proves, for every stream in address order and all disjoint
matches:

- `ListingTypeCorrect`: `Spec => []TypeOK`, of lines, places and the list of matches;
- `ListingIsInOrder`: `Spec => []LinesInOrder`;
- `ListingTellsAll`: `Spec => []ListingIsWhole`.

The inductive invariant is `ListingInv`: the matches are sorted (`Sorted`), the
loops stand behind the last match or before the first instruction (`Place`),
what was passed is written and nothing else (`Commented`, `Expanded`), and no
line lies ahead (`Behind`). That an instruction in the range between two matches
is covered by none of the others is the lemma `RangeIsFree`.

`ProjectProofs` proves, for every program and every way the calls may fail:

- `ProjectTypeCorrect`: `Spec => []TypeOK`;
- `NamesAreUnique`: `Spec => []NamesUnique`;
- `GoModSaysWhole`: `Spec => []GoModMeansWhole`.

A directory that holds files and a `go.mod` of an earlier run is among the initial
states, so the last is a theorem about `goMod = "complete"`, the one this run wrote. The
inductive invariant is `ProjectInv`. That the loop of `deduplicateName` finds a
number, and one not above the number of names in use, is the lemma `NameIsNew`: of
the first n + 1 numbers one is free of n names, by the pigeonhole principle.

`PatternLoadingProofs` proves, for all files, directories and sequences of calls:

- `LoadingTypeOK`: `Spec => []TypeOK`;
- `LoadingConditionalsNest`: `Spec => []ConditionalsNest`;
- `LoadingIndexAgrees`: `Spec => []IndexAgrees`;
- `ImplementsPatternStore`: `Spec => IsPatternStore`, the refinement of `PatternStore`.

The inductive invariant of the first three is `LoadingInv`: beside the three it says
that the loops over patterns are within bounds (`Looping`) and that the file that is
worked at is the head of the queue (`AtFile`). `IndexAgrees` is stated of the patterns that
were seen, which makes it inductive through a rebuild; entering a pattern once for
each of its alternatives extends it by one (`IndexedPattern`, `EnteringAgrees`).

The refinement compares two accounts of a file. `Meaning` takes all its tokens at
once: it replaces every include, level by level, and asks of each token which
conditionals are open there and which macros are defined. The preprocessor has the
tokens behind it, a stack, a table and an output, and replaces an include where it
meets it. The inductive invariant is `StoreInv` (theorem `StoreInvariant`), with
these parts:

- `WholeIs`: if no include is left when those of the file are replaced, what comes
  of it is the tokens behind the preprocessor, without their includes, followed by
  what comes of those ahead. It is conditional because a file that includes itself,
  or one that is missing, has no such sequence.
- `WholeEnds`: if the includes of what is ahead can all be replaced, so can those of
  the file. It is carried forward and used at the end, where nothing is ahead: a file
  the preprocessor got through has no include in a circle, which no step can
  see on its own.
- `PastIs`: the output is the selection of the tokens behind, the macros are those
  defined there, the entries of the stack belong to the conditionals that are open
  (`Stacked`), and there is nothing wrong so far. The lemmas `ProcessedText`,
  `ProcessedIf` and `ProcessedEndif` carry it over a token: that counting `#endif`
  against `#if` from each conditional on is what a stack does.
- `AtNodes`, `NoneWaits`, `KeptIs`: what the evaluator, the calls and
  `DeregisterLibrary` are at.

`Meaning` stops replacing at as many levels as there are files. That this is deep
enough is the lemma `DeepestResolves`: the files whose includes n levels resolve grow
with n, a level that adds none is the last that does, and there are only so many files;
for this the assumption on `FileSystems` says that they are finitely many. The proof
needs induction, over levels and along sequences; it is done with sets of numbers
(`SetInduction`, from the well-foundedness of `<` on the naturals), which asks for no
operator as a parameter.

Only model-checked: `Termination`, `AcyclicLoadsEnd`, `CompileEnds` and everything else
under fairness, and all of `PatternCompile` and `DataFlow`, where syntax trees and
expressions are walked with recursive operators and machine words are cut with
`Bitwise`: no theorem can be stated of either module.

## 5. Not modelled

The lexer, the printers and the readers of binary formats convert text and bytes; a
model of them would repeat them. The validator keeps no state, and the loader does not
ask it. The signature heuristics look at the text of instructions. The syscall tables are data. `buildLoop`, the rest of
`computePostDominators`, `DetectJumpTable` and `extractSingleCondition` are not
reached by the program.

## 6. Plan

In this order:

1. `FunctionRecovery`: the choice among pclntab, symbols and heuristics, and the
   module name; the functions are in the order `Packages` assumes.
2. `Signatures`: parameters, results and struct fields of `function/signature.go`.
3. The array `AllPatterns` shares with `Deregister` (`database.go:268`).
4. An abstract selection of user code, which `UserStream` implements.
