# Verification of the qe-qasm parser

TLA+ specifications of parts of the OpenQASM 3 lexer and parser in this
repository, TLC configurations that check them on small instances, and proofs
(TLAPS) of their main properties for every instance. Paths are relative to the
repository (`src/`).

The parser runs in one thread and in one process. What makes it hard is not
concurrency: it is that a Flex scanner and a Bison parser, two machines that
advance at different moments, share global mutable singletons, and that the
scanner changes them when it meets a *keyword* while the parser changes them
back when it reduces the *production* of the whole construct. Nothing in the
code ties a change to its undoing. The specifications state what has to hold
between the two for the program to be right.

## Inventory

| component | state | operations | interacts with |
|---|---|---|---|
| declaration contexts: `ASTDeclarationContext.{h,cpp}` | scopes (type, parent, alive or dead), stack `CCV`, next index `CIX`, two static scopes | create, pop, set calibration, set type | scanner opens, productions close, symbol table and scope controller read |
| scanner: `QasmScanner.l` | start conditions, brace matchers, pending flags of `else` | one rule per token, with side effects on nearly every singleton | runs ahead of the parser by at most one token |
| parser: `QasmParser.y`, `ASTProductionFactory.cpp` | Bison's stack, lists under construction | one `ProductionRule_n` per production | reads and resets what the scanner set |
| brace matchers: `ASTBraceMatcher.h` | a pair of counters per kind of scope | count, reset | scanner counts; scanner and productions reset; type discovery reads |
| context flags: cal, defcal, gate, angle, function, kernel, annotation | one Boolean each | open, close | keyword opens, production closes, semantic checks read |
| diagnostic emitter: `QasmDiagnosticEmitter.cpp` | counters of errors, warnings, internal errors; handler | emit | default handler exits, a handler of an embedding program may return |
| symbol table: `ASTSymbolTable.{h,cpp}` | global, local, undefined, qubit, gate, function, defcal... tables | insert, look up, erase, transfer at the end of a scope | every declaration, every production that closes a scope |
| scope controller: `ASTScopeController.cpp` | none | is a symbol visible here | reads scopes and entries |
| identifiers and their types | reference lists, type controllers | create, resolve indices | symbol table |
| if, else if, else: builders, trackers, graph controller | maps from keys to tokens and statement lists, the current `if` | push, pair, validate | scanner and productions |
| statement lists, loops, switch, boxes, declarations, parameters: builders | "current list" and a map of finished lists | new list, append, release | productions |
| expressions, type discovery, casts, multi-precision numbers, arrays, bits | mostly none | evaluate, convert | AST builder |
| gates, functions, kernels, defcals, OpenPulse objects | data of their AST nodes | build | symbol table, mangler |
| mangler | the encoding under construction | start, type, identifier, end | symbol table keys |
| object tracker, heap sizes | pointers to release at exit | register, release | every node |
| version tracker, line context | stacks of include locations | push, pop | scanner, diagnostics |
| preprocessor: `QasmPP.cpp` | statics of the passes, temporary files | expand includes | driver, before parsing |
| driver: `QasmDriver.cpp`, `QasmParser.y` (epilogue) | global stream, result of the parser | open, preprocess, parse, conclude a unit | preprocessor, version tracker, emitter |

What would make each component correct:

* declaration contexts: there is always a current scope; the parents of an open
  scope are the open scopes below it; dead means popped, for ever.
* scanner and parser: a production closes the scope that its own keyword
  opened; the counters and flags read by a rule mean what the rule takes them
  to mean; no assertion about the current scope fails.
* flags: up exactly inside their construct.
* emitter: no error is lost without the caller being able to tell.
* symbol table and scope controller: a look-up returns the innermost visible
  declaration; nothing declared in a dead scope is visible.
* if trackers: an `else` is paired with the `if` the grammar pairs it with.
* statement lists: a statement ends up in the list of its construct, once.
* preprocessor: expansion is complete; no temporary file is left; a second
  translation unit behaves as a first one.
* driver: every unit is answered, and a root means there was no error.
* version tracker: a unit is parsed as the version it declares.
* object tracker: everything is released once.

`PROJECT.json` lists every component with its sources and how far it is
modelled, and the hazards with their lines. Of the table above, declaration
contexts, scanner and parser, brace matchers, pulse flags, diagnostic emitter,
driver, version tracker, preprocessor, if statements and statement lists are
modelled in the parts that change state; the rest is not (last section).

## Modules

| module | models |
|---|---|
| `DeclarationContext` | `ASTDeclarationContextTracker`: `CIX`, `DC` (the map `M` of scopes with type, parent and state), `CCV` |
| `ScopeProtocol` | extends it with the parser's stack of constructs (`open`), the brace matchers (`matcher`), and whether an error was reported or the process ended |
| `ScopeInvariant` | the inductive invariant of `ScopeProtocol` |
| `PulseContexts` | extends `ScopeProtocol` with the flags of cal and defcal |
| `IfStatements` | builders and trackers of if, else if and else, with the scanner's rules that look past a right brace |
| `StatementTree` | abstract: each construct's body is what was written in it |
| `StatementLists` | the lists of the builders, which implement `StatementTree` |
| `IncludeExpansion` | abstract: directives give way to the text of their files |
| `Preprocessor` | `QasmPP.cpp`, which implements `IncludeExpansion` |
| `VersionScan` | the search for the version of a unit |
| `Driver` | `ParseAST`, `yyparse`, `ExecParse` and the diagnostic emitter |
| `TranslationUnit` | composes `Driver` and `VersionScan`: units given to one process |
| `MCScopeProtocol`, `MCPulseContexts`, `MCPreprocessor`, `MCTranslationUnit` | instances for TLC |
| `*_proof` | theorems about the module they are named after |

**DeclarationContext.** One action per member function that changes the
tracker. A scope's name, its random string and the symbols registered with it
are left out. Indices are naturals; the calibration scope's index `~0x0` is
`-1`. `ContextSpec` drives the tracker with any operation in any order.

**ScopeProtocol.** A step is a token delivered by the scanner together with the
parser's shift, or a reduction. `open` is the part of Bison's stack that
matters: which constructs have been started, and where in its construct the
parser is (`head`, `body`, `single`, `list`, `after`, `tail`, `reduce`).
`opened`, `scope` and `depth` of an entry are history, read by properties
only. Correspondence:

* keywords `gate opaque def defcal if else-if else for do switch`: `OpenScope`;
  `cal`: `CalKeyword`; `extern`: `ExternKeyword`; `while`: `WhileKeyword` and,
  when it ends a `do`, `DoTail`; `case default`: `LabelKeyword`; `break`:
  `Break`;
* braces: `LeftCurly` and `RightCurly` for the body of a construct,
  `OtherLeftCurly` and `OtherRightCurly` for initializer lists, `durationof`,
  sets of a `for` and boxes. Every brace is counted in the matcher of the type
  of the *current scope*, as the scanner does. A right brace that an `else`
  follows is matched by other rules of the scanner, which count nothing; the
  model lets any brace that ends a statement go uncounted when the program may
  contain an `else` (a little more than the scanner does);
* productions that close a construct: `Reduce` (and `CloseLabel` inside it, for
  a label, whose scope is made after its body has been parsed),
  `ReduceBareLabel`, `PortOrFrame`; those that report an error: `ReduceError`,
  `OtherError`; a failed assertion: `Abort`.

Expressions and simple statements move no scope and are one step
(`SimpleStatement`) or none. A kernel is an `extern` with a body. The
grammar has no production for `while` or `do` without braces. The scopes made
by the type system at start-up are created and popped in pairs before the first
token (`ASTTypeSystemBuilder.cpp`, `ASTBuiltinFunctionsBuilder.cpp`): they leave
`Init` but for the number of the next scope.

`Forms` names the exceptional shapes of programs on which scanner and parser do
not agree; every run and theorem says which it includes:

| form | shape | what happens |
|---|---|---|
| `BracesInDo` | braces of an initializer list, `durationof` or box directly in the body of a `do` | a `while` after them takes itself for the tail of the `do` and opens no scope (`QasmScanner.l:2794-2806`), against the comment "A while loop may exist inside or outside a do-while loop."; its production pops the scope of the `do` |
| `ExternNotOpened` | an `extern` function in a cal block | its production pops the scope of the cal block |
| `PortInDefcal` | `extern port` or `extern frame` in a defcal | its keyword opens a scope that the production of the defcal pops in place of its own |
| `NestedPulse` | a cal block or a defcal inside another | accepted: the check "A calibration can only be declared at global context." (`ASTProductionFactory.cpp:19525`) is made on the parent of the one calibration scope, which is the global scope by construction, so that it never fails |

**PulseContexts.** The flags `CX`, `CCS`, `DCS` and `DBS` of four singletons, set
by the keyword and cleared by the production. `nestedClosed` remembers that a
pulse construct inside another has been closed: from then on the Booleans, cleared by
the inner one, are down in the outer one, whose later pulse statements are
rejected (`ASTProductionFactory.cpp:19565`); the properties say what holds until
then. `DefcalCall` is a call that resolves to a defcal, wherever it stands: it
clears `DCS` (`ASTProductionFactory.cpp:29557`), in the body of a defcal too,
where a name of a cal block is rejected from then on (`NamesVisible`,
`ASTScopeController.cpp:889-901`; run `defcal_call`). `called` remembers that
there has been such a call since the last defcal was begun. Calls are allowed
everywhere in every run; `CalibrationNamesUsable` says what holds in a defcal
until it makes one, and in all other places whatever was called. Loops and switch touch no flag and are excluded by `PulseAssumption`, as
are handlers that return.

**IfStatements.** `node` holds the nodes of if, else if and else with their
parents, chains and pending flags; `CIF`, `IL`, `CEI`, `ECIF` and the three flags
are the trackers; `Tokens` and `ISC` the builder's keys. Actions: the keywords
(`OpenIf`, `OpenElseIf`, `OpenElse`, with the scanner's look at the declaration
context), other constructs with bodies (`OpenBody`), right braces with what
follows them (`RightBrace`), and productions 3000 to 3031 (`ReduceIf`,
`ReducePlainElseIf`, `ReduceElseIf`, `ReducePlainElse`, `ReduceElse`,
`ReduceBody`). Where the code reports an error `status` says so; `undefined` is
`begin() - 1` on an empty container, `hang` the walk over the parents that does
not end. The module was validated by replaying the shapes of all the if and
else tests under `src/tests`: the model accepts each of them. Programs
are laid out as the tests are: a brace is on the line of its keyword. Left out
unless named in `Forms`, each met while modelling:

| form | shape | what the code does |
|---|---|---|
| `IfInBranch` | an if in an else if or else | if it holds an if of its own, the two become each other's parent and the parser hangs (run `if_in_branch`) |
| `IfInPlainIf` | an if as the body of an if without braces | internal error, as the outer one's key is taken, or a wrong parent |
| `PlainIf` | an if without braces within an if, else if, else or case | later branches go to the wrong if |
| `PlainAfterBrace` | an else or else if without braces after a right brace | wrong if, `begin() - 1`, or a hang |
| `IfInBody` | an if in a loop or case that is within an if | wrong parent |
| `OddElse` | an else with braces inside another construct, after three, five... right braces since the innermost if began | production 3021 tells an if from the one around it by the parity of these braces (`ASTProductionFactory.cpp:26690`): in `if {if {if {if {if {}}}} else {}}` the else goes to the third if and not to the second |

`ASTIfBraceMatcher`, which `OddElse` is about, also counts the braces of boxes,
initializer lists and `durationof` in the body of an if
(`QasmScanner.l:3661`, `3743`); the programs of this module have none.

In `if (a) x; else if (b) { if (c) {..} } else if (d) {..}`, which is of the form
`IfInBranch`, the last branch is attached to the inner if. `OddElse` was met
while proving: it takes five constructs and six nodes, more than the run has,
and without it the induction fails.

**StatementLists.** `static` are the lists of the builders with one list,
cleared at each start (`BeginStatic`); `new` the lists of the other builders,
one per start, of which the builder of for loops remembers `newest`; `program`
the program's list with the map of addresses that keeps declarations, appended
twice, single. A node holds a copy of its list or points to it. `EndFor` clears
the newest list, whichever it is. `EndPlainFor` stands for six productions, one
for each grammar rule of a for without braces (`QasmParser.y:3183-3232`). Five
(3201, 3202, 3205, 3207, 3209) make a list of the only statement; the sixth,
`ProductionRule_3211`, makes a list and leaves it empty: `PlainForBodies` has
both. Forms left out of `statement_lists` and of the theorems:

| form | shape | what the code does |
|---|---|---|
| `SameInSame` | a box, or the like, somewhere in another | the empty start of the inner one wipes the statements of the outer one (`QasmParser.y:1011`) |
| `PlainForInFor` | a for without braces in the body of a for with braces that holds no earlier for with braces | the statements before it are lost (run `plain_for_in_for`) |
| `PlainRangeFor` | a for without braces, with a typed variable and an operator in its range, as `for int i in [0 : n - 1] h q;` | its statement is lost (`ASTProductionFactory.cpp:28648`, run `plain_range_for`) |

**Preprocessor.** One unit after another through both overloads of `Preprocess`;
a pass copies the text and replaces directives until a pass meets none. Texts
are sequences of lines, of which only what the code tells apart is kept: the
version line, comments and their delimiters, directives, text of a file. `disk`,
`kept` and `TmpFilenames` follow the temporary files; every open may fail when
`OpenFails`. What the units of the runs do not contain, since the code does not
treat it as the language would: an include above or without the version line
(a unit without one is copied whole, directives included); a directive on the
line below a C comment that a directive opened; the rest of a comment opened on
the line of a *repeated* directive, which becomes code as the directive is
dropped with the opening (`QasmPP.cpp:514`); and a line of one character within
a comment, which acts on the comment flags as an empty line does
(`QasmPP.cpp:186`).

**TranslationUnit.** Extends `Driver` (emitter, `ParseAST`, `yyparse`,
`ExecParse`) and `VersionScan` (the scan for the version line with its two
static comment flags, and the preprocessor's guess), and joins their actions:
the stages of the scan happen while the driver prepares the unit. `shown`,
`erred`, `failures` are history. A version line below a C comment is missed by
the scan, whose flags are never reset; the units of the run have only comments
of two slashes above it.

## Runs

| run | question | result |
|---|---|---|
| `scopes` | loops, `do`, `switch`, labels, stray braces, pulse constructs, four deep, assertions on: scanner and parser in step until an error is reported, the tracker's invariants also after it | holds |
| `pulse` | gates, functions, defcals, externs, ifs, cal blocks, four deep, nested pulse constructs and calls of defcals included: scopes in step, flags of cal and defcal, names of cal blocks | holds |
| `preprocess` | termination, expansion, refinement of `IncludeExpansion` and flags left behind, one unit over two files | holds |
| `preprocess_files` | temporary files and statics over two units, opens that fail, a handler that returns | holds |
| `translation_unit` | two units, limits 1 to 3, both handlers: errors shown, results, versions, every unit answered | holds |
| `if_statements` | an else or else if belongs to the if before it in its list; nothing correct is rejected | holds |
| `statement_lists` | the builders' lists implement `StatementTree`, over several units | holds |
| `assert_in_do` | no assertion fails, with `BracesInDo` | violated |
| `defcal_call` | names of cal blocks are usable throughout a defcal, without nested pulse constructs | violated |
| `if_in_branch` | no correct program is rejected or hangs the parser, with `IfInBranch` | violated |
| `plain_for_in_for` | no statement is lost, with `PlainForInFor` | violated |
| `plain_range_for` | no statement is lost, with `PlainRangeFor` | violated |

Bounds, by module:

* `ScopeProtocol`, `PulseContexts`: `MaxIndex` (scopes created), `MaxDepth`
  (pushes of the calibration scope), `MaxNesting` (open constructs), `MaxBraces`
  (stray braces counted; after an error, any). The state that couples
  constructs is the top of the stack and the counters of one kind of scope, so
  that a disagreement needs two constructs of a kind and one between them: three
  deep, four for a `while` in a label of a `switch` in a `do`. `MaxIndex` lets
  three scopes be created beside the two static ones, with reuse of counters by
  a construct that follows one of its kind; stray braces and the calibration
  scope take none, and a label only at its end, so that constructs nest four
  deep. `MaxBraces` of 2 distinguishes none, one and several;
  the code only tells 0 from the rest. The properties proved below do not
  depend on the bounds.
* `IfStatements`: `MaxNodes` 5 (an if with two else ifs and an else around or
  beside another if), `MaxNesting` 4, `MaxScopes` 7. Two else ifs are what
  chaining needs; a nested if with its own branches within an if that goes on
  needs four or five nodes. The properties are proved for any bounds.
* `StatementLists`: `MaxStatements` 6 and `MaxNesting` 4, so that a construct can
  have statements before, in and after one that is nested in it, with a third
  between them, over units that follow one another.
* `Preprocessor`: `MaxUnits`, `MaxPasses` 5 (more than two files can cause, by
  `PassesBounded`, so that the bound never stops a unit), two pieces to a unit. `preprocess` takes one unit and
  two files, that may include each other or themselves; `preprocess_files` two
  units and one file, for what the streams and files of a unit leave to the next.
  That the comment flags are down after a unit (`FreshStart`) needs no second
  one; the theorem is for any number. `Readings`, over which `ResultIsExpansion`
  speaks, are those that give each file texts of files, each at most once: when
  every file is named once its reading is one of them. The theorem is for any
  set of readings.
* `TranslationUnit`: two units, limits of 1 to 3 errors, `MaxDiagnostics` 2 in a
  unit: with the parser's own errors that passes each limit, in one unit or
  across both.

There are no symmetric sets: kinds of constructs behave differently.

Deadlock is checked in the runs of `ScopeProtocol` and `PulseContexts`: a program
may end at any point at top level (`EndOfInput`), and a finished process
stutters (`Terminated`). The other runs stop at their bounds, or when the
process has ended, and do not check it.

Fairness. `Preprocessor` and `TranslationUnit` assume weak fairness of the steps
within a unit: they are loops of one thread, no step waits for another party,
and the text of a unit is finite. Nothing is assumed of the caller, who may stop
giving units. On it rest `Terminates`, with files that include one another in a
circle, `EveryUnitReturns`, and `ExpansionGoesOn`, the fairness of the abstract
`IncludeExpansion`.
A parser makes the next step when it has the next token; the other modules are
about safety only.

Refinement. `ImplementsExpansion` maps the rest of the text and what has been
copied to the text of `IncludeExpansion`: passes, comments and files disappear.
It is the safety part, and proved; `ExpansionGoesOn` is the rest and is checked.
`BodiesAsWritten` maps `StatementLists` to `StatementTree`: an open construct to
what its builder's list holds, a node to what a reader of the tree finds.
`PulseContexts` implements `ScopeProtocol` (proved, `PulseImplementsProtocol`).

## What the violated runs show

1. `assert_in_do`. An initializer list or box in the body of a `do` counts a
   right brace; a `while` after it opens no scope, its production pops the scope
   of the `do`, and the production of the `do` then retypes the global
   scope, which `SetContextType` asserts cannot happen
   (`ASTDeclarationContext.h:103`). The default build is Release
   (`CMakeLists.txt:49`), in which the global scope is retyped in silence.
2. `if_in_branch`. An if with an if in its body, within an else if: the inner
   one's parent is the current if, which by then is the inner one itself, and
   the production of the else if walks the parents for ever
   (`ASTProductionFactory.cpp:26360`).
3. `plain_for_in_for`. Every for ends with a clear of the builder's newest list.
   A for without braces made none, so that the list of the for around it is
   cleared, and the statements before it are in no part of the tree
   (`ASTProductionFactory.cpp:27724`).
4. `plain_range_for`. `ProductionRule_3211` makes a list for the body of the for
   and never appends the statement (`ASTProductionFactory.cpp:28648`), as the
   other five productions of a for without braces do (27681, 27773, 28075,
   28266, 28450): the statement is in no part of the tree, and nothing is
   reported.
5. `defcal_call`. The production of a call clears the defcal flag when the call
   resolves to a defcal (`ASTProductionFactory.cpp:29557`). In the body of a
   defcal, names declared in cal blocks, which could be used before the call,
   are reported after it: "Not in Calibration or Defcal Context."
   (`ASTScopeController.cpp:892`). Pulse statements go on being accepted, since
   they ask another flag (`PulseAccepted` holds).

## Proofs

All with TLAPS, for every value of the constants that satisfies the named
assumptions of the modules: bounds and limits are naturals, options are
Booleans, and the texts that units and files may have are sequences of the
kinds of line the modules distinguish (`UnitsAssumption`, `TextsAssumption`), as
are those that files may read as (`ReadingsAssumption`).

**Tracker** (`DeclarationContext_proof`). `ContextInv` is the conjunction of the
type invariant, `StackChain`, `AliveIffOpen` and, to make them inductive,
`StaticsAlive`: the two static scopes never die. `StackChain` carries the order
of the indices on the stack for the same reason: without it a pop could kill a
scope that is on the stack twice. Each operation is shown to preserve the
invariant in a lemma of its own; `TrackerTypes`, `LookupChain`, `LiveScopes` and
`PermanentScopes` follow. `CreateEffect`, `CalibrateEffect` and `PopEffect` state
what each operation does to `CCV` and `DC`; with the lemmas on the invariant they
are what the later modules use of it.

**Protocol, any program** (`ScopeProtocol_proof`). `TypesAndScopes` adds the
types of the parser's state to `ContextInv`. It holds whatever the forms, the
handler and the errors: `ProtocolTypes`, `ParserLookupChain`,
`ParserLiveScopes`. `BreakClosesNothing` needs one more invariant, that no
current scope has one of the types `break` looks for: scopes of labels are
popped by the production that makes them, and no rule creates the types named
after loops.

**Protocol, programs without errors** (`ScopeInvariant_proof`), assuming
`Forms \subseteq {"NestedPulse"}`. That the top of the stack is the innermost
construct's scope is not inductive: a pop exposes the scope below, of which it
says nothing. `InStep` says it of every open construct: each lies one scope
above the construct it is in if its keyword opened one, at the same scope if
not, and the scope is still there with the type it was opened with. For
`while`, it ties the right braces counted in `do` scopes to the place of the
parser: one when the innermost construct is a `do` past its body, none
otherwise, and to know that, that labels are directly in a switch, that stray
braces are not in a `do`, and that only the innermost construct can be past its
body. From `ProtocolInStep` follow `ProductionsPopTheirScope`,
`EveryWhileOpens`, `NoAssertionFails` and `CalibrationTypeKept`. The assumption
cannot be dropped for any of the other three forms: `assert_in_do` refutes it
for `BracesInDo`, and `ExternNotOpened` and `PortInDefcal` break the match of
scopes and constructs at once.

**Pulse flags** (`PulseContexts_proof`). `PulseImplementsProtocol` first: each
step of `PulseNext` is a step of `Next`, and all the theorems above hold of
`PulseSpec`. The flags need an invariant of their own, `FlagInv`: that a flag
which is up has an open construct (`FlagsHaveConstructs`, the property itself),
and the converse, that until a nested pulse construct has been closed every open
one still has its flags up (`ConstructsHaveFlags`). The converse alone is not
inductive without the first: the production that clears a flag must know that no
other construct needs it, which holds because a construct that could is one that
encloses it, and then the clearing is what `nestedClosed` remembers. Of `DCS` the
converse says that it is up in a defcal that has called none (`called`).
`PulseTypes`, `FlagsEndWithConstructs`, `PulseStatementsAccepted` and
`NamesUsable` follow, for all programs with nested pulse constructs and calls;
what `NamesUsable` excepts is what `defcal_call` refutes.

**Statement lists** (`StatementLists_proof`), assuming `Forms = {}`. The
refinement of the tree is proved, not only checked: `ListsImplementTree` says
that each construct and each node of a program of any length and depth has the
statements written in it, and `ListsTypes` the types. Both rest on `ListsInv`.
That the lists hold the right statements is not inductive, because a step that
clears or extends a list must not touch a body anybody else still reads. So the
invariant says who refers to a list: the list of an open construct is younger
than those around it and, where the builder's newest list is cleared at the end
of a `for`, no older construct has it (`OwnLists`); no node has the newest list
or an open one (`NodesApart`); a static list is in use once (`SharedOnce`). The
assumption cannot be dropped: `plain_for_in_for` and `plain_range_for` show what
is lost without it.

**Translation units** (`TranslationUnit_proof`). `UnitInvariant` joins an
invariant of the driver and emitter with one of the versions. The first adds
`RootIsAnswer` to the properties: a parser that returns 0 has, with the default
handler and a limit of at most two, counted no error; `ParseAST`, which then
returns the root, looks at that result only. The second adds `VersionOnTheWay`: a default or a stated
version is in force before the unit is parsed. One lemma on `EmitDiagnostic`
carries `ErrorsAreShown`, `ErrorsAreCounted`, `ProcessEndsAtLimit` and
`RootWithoutErrors` for any limit and number of diagnostics. `GuessTakesEffect` holds for all texts.
`DeclarationTakesEffect` assumes `CommentsBelow`, that in every unit the block
comments come below the first line of code, are closed, and no line both opens
and closes one: the scan's flags are static, and a comment left open makes the
scan of the next unit pass over its version line. It rests on an invariant of
the scan, `ScanInv`, and, since the scan looks for the first line that is not a
comment, on the least element of a set of lines.

`UnitsComeToAnEnd` is how long a unit takes: a natural number made of the lines
left to look through, the diagnostics left and the stages of the driver is zero
exactly when the unit is answered or the process has ended, and every step of a
unit lowers it. An error the handler returns from therefore leads on, never back.
That a unit not yet answered can take a step, the rest of `EveryUnitReturns`, is
left to TLC.

**Preprocessor** (`Preprocessor_proof`). `FilesInv` follows the temporary files
through units, passes and failures to open: the static vector of streams counts
the passes of the unit (`StreamsInStep`), the names on the list are distinct and
their files exist (`NamesListed`), and every other file is the file cleaner's or
lost (`FilesAccounted`). Without the second, removing the names but the last
could remove the result. `StreamIsLast`, `TemporariesRemoved`, `ResultIsThere`
follow, and, with the types of texts, `PreprocessorTypes`.

`OnceInv` is for `InsertedOnce`, whatever the texts: what is still to be read and
what is copied together hold no line of a file that is not yet on the unit's
list of files seen, and of one that is no more than the file has. A file gives
way only while it is not on the list, which lasts through all passes of a unit.

What the passes make of the text is proved of texts in which the directives are
apart (`DirectivesApart`: every directive is below a version line, and the
comment one opens behind it ends before the next) and with a handler that exits
on an error (`ExitOnError`). Both can be false of an input: without the first,
a directive above the version line, or right behind another's comment, is left
for the parser; without the second, a unit that fails in the middle of a comment
leaves the flags up for the next one, so that `FreshStart` speaks of units that
were preprocessed. `CommentsInv` says that down to the version line no comment is open
and nothing has been replaced, and that below it each directive, in what is
still to be read as in what is copied, has a version line before it and the end
of its comment behind it; while a comment is open it ends before the next
directive, and a pass that has replaced nothing has copied no directive. From it
follow `DirectivesHandled` and `FlagsAreDown`, and it is what `PassesExpand`, the
refinement, needs, so that a step of a pass changes the text of
`IncludeExpansion` by one directive, at its place, or not at all. Lemmas on what
a recursive function makes of a text are inductions over its length, made on
the set of lengths of which the lemma is known (`Inductive`): the library's
theorems on induction take an operator and cannot be used.

`ExpandedInPlace` is what the user sees: when no two directives of the unit and
the files name the same file (`NamedOnce`), the result is the unit with every
directive replaced by what its file reads as, with the directives in it replaced
in their turn. To any depth, this is recursion over files that may name one
another. It is said without recursion over files: a *reading* gives each file a
text, it is `Consistent` if each file inserted reads as its own text with the
directives in it replaced by what the reading gives for their files, and
`ResultIsExpansion` is that the result is the unit read so, for every consistent
reading. `ReadingExists` shows that there always is one, so that this says what
the result is. `ReadingInv` carries both: the text at hand names each file once
and none inserted before, the files still to come name others (`TextApart`,
`RestApart`), a reading right so far reads the text at hand as it reads the unit
(`ReadAsUnit`), and one can be chosen whatever the files not yet inserted read as
(`HasReading`). To replace a directive adds one equation to `Consistent`, which is
what makes the text before and after read alike; that the equation has a solution
next to the others is `SameReading`: a text reads the same by two readings that
agree on the files it names, and the file being inserted names neither itself nor
one inserted before. Where a file is named twice the second directive gives way
to nothing, in the order of the passes, not of the text: `PassesExpand` still
says which step does it, `ResultIsExpansion` says nothing.

How long it takes is proved too, for finitely many files. By `PassInv` a pass that
replaces directives either inserts a file not seen before, or drops the
directives that are left, so that the next is the last: `PassesAreBounded`, at
most two passes more than files. The bound is met by a unit that names the first
of files each of which names the next, and the last the first. With it every step
that does not end the unit lowers the triple of passes left, stages left in the
pass and lines left (`PassesComeToAnEnd`), which cannot go on for ever. That a
unit not at its end can take a step, the rest of `Terminates`, is left to TLC.

**If statements** (`IfStatements_proof`). `TypeInv`, for all programs and forms,
is the type of the trackers, of the stack of constructs and of the graph they
draw: what the trackers tell are ifs, parents are ifs or none. `IfTypesHold`
follows. It needs that the walk over the parents, where it ends, ends at an if
(`WalkEnds`).

The pairing is proved for programs without the exceptional forms, `Forms = {}`,
of any length and nesting, with ifs in ifs, functions and loops outside ifs:
`BranchesBelong`, `ParsedWithoutError` and `ChainsInOrder`. None of the three is
inductive by itself. `PairingInv` joins

* how constructs nest (`StackInv`): around a list with an if in it there are only
  constructs with braces, and no else or else if;
* the lists (`ListsInv`): an if is followed by its else ifs, in order, and then
  its else, and these follow nothing else (`Tidy`); a node is in one list once
  (`ItemsApart`); an if knows its scope, and in the program or a function has no
  parent (`AtHome`);
* the graph (`GraphInv`): the chain of each if, and `BranchBelongs` itself;
* the trackers (`TrackerInv`). This is the core. Of the constructs around the
  place of the parser, those that are an else or else if, and the innermost one
  where one may follow, have as current if the last if of the list they stand in
  (`Current`): it has no else yet, its parent is none or pending, so that the
  walk over the parents ends at once, and the current else if is the last of its
  chain. Without braces the current if is also the only one pushed
  (`PlainCurrent`). An else with braces finds it pending, and finds an odd number
  of right braces only where it has no parent: here `OddElse` comes in;
* the keys (`KeysInv`): the next key of a token is free, unless the innermost
  if has no braces and holds it.

Each action preserves it in a lemma of its own (`PairingOpenIf` to
`PairingReduceElse`); `BranchOpens`, `BranchJoins` and `TrackersLeft` are what the
keywords, the productions of branches and all productions have in common.
`if_in_branch` shows that the assumption cannot be dropped; the table of forms
says what happens in each of the others.

Only model-checked: `Terminates`, `ExpansionGoesOn` and `EveryUnitReturns`, which
are liveness and out of the prover's reach; and the five violations. Every
invariant and every action property of the passing runs is a theorem.

## Not modelled, and why

* Symbol table, scope controller, identifiers. `FindOrCreateASTIdentifierNode`
  (`ASTBuilder.cpp:3050-3420`) and `TransferLocalContextSymbols`
  (`ASTSymbolTable.h:4257-4303`) go through a dozen tables selected by type and
  by the kind of the current scope, with special cases for each pair, and depend
  on the whole type of each declaration. The scopes they read are modelled and
  proved; the tables would be next: insert, look up, erase and transfer over
  `DeclarationContext`, against a stack of finite maps.
* Type discovery, which reads the brace matchers to tell a redeclaration
  (`ASTTypeDiscovery.cpp:161`): needs the symbol table.
* The flags of gate, angle, function, kernel and annotation: as in
  `PulseContexts`, with no nesting that the grammar allows.
* Declarations and parameters, gates, functions, kernels and OpenPulse objects,
  the mangler, the AST builder: data of nodes. Most of the repository's 137
  thousand lines are this kind of code, one case per type, and the share of the
  source the models cover is therefore small: they cover the code that keeps
  state from one token or one unit to the next.
* Object tracker: a set of pointers released at exit.
* Pure algorithms on bits and the precedence of operators: bit strings of a
  library of their own; planned against reference definitions.
* Left out for good: multi-precision arithmetic (a library's), printing, command
  line and file reading, examples and tests.
