# Verification of ccmock

ccmock reads one C or C++ source file with clang and writes a file of mocks:
definitions of the functions and variables that the source file uses and does
not define, so that it can be linked into a unit test. This directory holds
TLA+ models of the program, the TLC configurations that check them on small
instances, and theorems about them that TLAPS proves for every instance.

File names below are relative to the program's `src/` directory.

## The system

| Part | Code | State it keeps | Operations |
|---|---|---|---|
| Program start | `main.cpp` | the configuration, the current directory | parse, read files, apply options, dump, prepare paths, load the database, run the tool |
| Configuration | `Config.cpp`, `Config.hpp` | 29 options in six sections | defaults, `read`, `write`, validation |
| Compilation database | `CompilationDatabase.cpp` | the loaded database, an index | `load`, `detect`, `getCompileCommands` |
| Action | `MockAction.cpp` | the configuration | find the resource directory, create the backend |
| Collection | `output/OutputGenerator.cpp` (`ASTVisitor`) | names, patterns, the visited set | the three `Visit` handlers, `dispatch`, `isVisited` |
| Generator base | `output/OutputGenerator.*` | the collected functions and variables, the variadic flag | `addDecl`, `createContextMap`, file header, `write` |
| GMock backend | `output/GMock.cpp` | the context map | mock class, pointers, fixture, mock functions |
| FFF backend | `output/FFF.cpp` | the table of typedefs | settings, list of fakes, typedefs, fakes |
| CMocka backend | `output/CMocka.cpp` | none | mock functions with checks and copies |
| Raw backend | `output/Raw.cpp` | the context map, the access specifier written last | one recursion over the map |
| Printing | `output/OutputWriter.cpp`, `util/Decl.cpp` | the output buffer | types, names, specifiers |
| Generated code | text in `output/GMock.cpp` | a mock pointer per context and thread | `SetUp`, `TearDown`, the mock functions |

`ccmock_main` puts the configuration together and hands it to clang's tool.
The tool changes to the directory of the compile command and runs the action,
which creates the backend's generator. When the translation unit is parsed the
generator runs the visitor, which calls back `addDecl`; then the backend's
`run()` writes into a buffer, and `write()` puts the buffer into the file. The
program is one sequential process; the code it generates for GMock is part of
another program, which may have threads. What makes it hard:

- **agreement of independent code**: the parts of a generated file refer to
  each other by names that each part derives again, from the same map;
- **order**: loops over hash tables of pointers, so the order differs from run
  to run; many handlers and early returns that must add up to one rule;
- **stale state**: a reference into a map that calls below might grow, paths
  that are resolved after the directory changed, merged configurations;
- **early exits**: the program may stop in the middle of each phase, and an
  old output must survive that;
- **life times**: the generated functions can be called at any time and on any
  thread, the mock objects live as long as the fixture of one test.

What has to be right, per part: the collection takes every entity the source
needs and no option rules out, once; the context map has exactly the contexts
above the collected functions; a generated file declares what it uses, before
it uses it, once, whichever backend wrote it; a function called in a test finds
the mock of that test; the effective configuration follows one precedence; the
compiler runs the selected command with the adjusted arguments; one output is
written, where the user meant it. `PROJECT.json` lists the hazards line by line.

## The modules

| Module | Models |
|---|---|
| `MockSelection` | What the collection promises: a growing set of wanted declarations, complete at the end, or a failure for a reason. |
| `Collector` | `ASTVisitor`: its constructor, the handlers, `dispatch`, `isVisited`, `addDecl`. |
| `MCCollector` | A small program for it, and properties the code does not have. |
| `CollectorProofs` | Theorems about `Collector`. |
| `Contexts` | `createContextMap`. |
| `OutputWriter` | The names of mock methods, the names and types of parameters. |
| `OutputGenerator` | What all backends share: the lists, the buffer, the macro, the variables; and what it means that a file's parts fit. |
| `ContextWalk` | The recursion over the context map that GMock and Raw have in common. |
| `GMock`, `FFF`, `CMocka`, `Raw` | `run()` of the four backends. |
| `MCGMock` | A small tree of contexts for the GMock backend, and a property the code does not have. |
| `MockFile` | What a run promises for a translation unit: one file with exactly the wanted entities, or a failure for a reason. Where it comes to depend on undefined behaviour, it may end either way. |
| `Generation` | `HandleTranslationUnit`: `Collector`, then one of the four backends, then the file. |
| `MCGeneration` | Eleven translation units for it. |
| `MockRuntime` | The generated code of the GMock backend at run time, under GoogleTest and on several threads. |
| `MCMockRuntime` | Two tests, three threads, two contexts. |
| `GMockProofs` | Theorems about `Contexts`, `ContextWalk` and `GMock`. |
| `OutputProofs` | Lemmas about the context map and the buffer of any backend. |
| `CBackendProofs` | Theorems about `FFF` and `CMocka`. |
| `RawProofs` | Theorems about `Raw`. |
| `GenerationProofs` | Theorems about `Generation`. |
| `MockRuntimeProofs` | Theorems about `MockRuntime`. |
| `Config` | The options, YAML input over earlier values, YAML output, command line assignments. |
| `Startup` | `ccmock_main` with the compilation database, the argument adjusters, the action and `write`. |
| `MCStartup` | A few configuration files and command lines, and properties the code does not have. |
| `StartupProofs` | Theorems about `Config` and `Startup`. |

**Collector.** A translation unit is the sequence of expressions the traversal
visits. `Calls` gives the dispatch calls a handler makes for an expression;
`visit` and `call` say where the traversal is. Each early return of `dispatch`
is a named condition (`BuiltinSkipped`, `NameSkipped`, `GlobSkipped`, ...), in
the order of the code; `MarkFunction` is the insertion into `Visited_`, which
happens before the tests for variadic functions. The variables are the members
of `ASTVisitor` and `OutputGenerator` (`Blacklist_`, `GlobBlacklist_`,
`Visited_`, `FunctionDecls_`, `VarDecls_`, `AnyVariadic_`). Declarations are
model values with the attributes the code asks clang for; a redeclaration is a
declaration of its own with the same name, as in clang.

What is wanted is said without the handlers, in three definitions. `Promised`
follows the comment on the call of the visitor ("Collect all undefined function
and variable declarations") and the descriptions of the options: every
declaration that the main file uses, in a call, a construction or by taking its
value or address, and does not define, unless a blacklist entry, the option
about its kind of builtin or the one about variadic functions rules it out.
`Overlooked` are the promised ones that the code does not collect: functions
that are only referred to, and builtins that are asked for while the option
about the C library (or, for namespace `std`, the C++ library) is off.
`Surplus` are the ones it collects without a promise: variables that the file
defines, and variables that a pattern of the blacklist matches. `Needed` is what
is promised and not overlooked, and the surplus. So the two deviations are
stated where a reader can object to them, and each comes with a run that TLC
refutes or with a hazard.

**Contexts, ContextWalk and GMock.** `Parent` and `Primary` describe a tree of
contexts. `NextFunction` and `Climb` are the two loops of `createContextMap`.
The output is a sequence of items; an item says which symbols its text declares
and which it uses, and a symbol of a context carries the context's path. A mock
method is a symbol made of its name and the types of its parameters
(`Signature`), so overloads and operators are told apart as the compiler of the
generated file does it; the parameters of a definition are symbols too
(`Local`), since the definition and the call make up names for unnamed ones
separately.

A linkage specification is a context without a name (`IsUnnamed`), and so is an
export declaration. For each context on the way up the code asks for a name
with `clang::cast<NamedDecl>`, which is invalid there (`CastIsInvalid`): a build
with assertions stops, and without them the behaviour is undefined. The model
lets the generator stop (`AbortAtEntry`, `AbortAtFunction`) or go on with some
name. `writeMockPointerAccess` casts with `dyn_cast` instead, and writes the
pointer of the translation unit (`AccessPath`). `NamedContext` are the contexts
above which no such context stands, whichever of their declarations one starts
from; `AllNamed` says that the collected functions stand in them. A namespace
that is reopened inside a linkage specification does not stand in the entity
that its first declaration stands in; `RedeclarationAssumption` allows that.

`stack` holds the active calls of the recursion, each with the
children it has still to write; it takes any child that is left. A loop over
the map takes the entries in an arbitrary order; one run of the program
iterates over one unchanged table, so all loops of a run share the order
(`order`).

**FFF, CMocka, Raw.** Each action is one iteration of a loop of `run()` or one
of its parts. `FFF` keeps the table of typedefs, keyed by the type without
qualifiers as in the code; `parm` is the inner loop's index. In `CMocka` two
scans of a function's parameters decide separately whether `mock_ptr` is
declared and where it is used. `Raw` remembers the access specifier written
last in one variable for all records; `scopes` is not in the code: it is the
access a compiler gives to the next member, read off what has been written. What
`Raw` assumes of clang (`ContextKinds`) includes that two declarations of an
entity are both members of a record or neither is.

**Generation.** `Collector` and the backends are instances over shared
variables, so the lists the backends read are the ones the visitor has filled,
in its order. `backend` and `writable` are the environment's choices. The file
gets the whole buffer in one step, after `run()` has returned. If GMock stops at
an invalid cast, the buffer is lost (`StopInBackend`).

**MockRuntime.** The main thread goes through the stages of GoogleTest: global
constructors, and for each test the fixture's constructor, `SetUp`, the body,
`TearDown` and the destructor, then global destructors. A fixture owns its mock
objects, so a mock pointer is the number of a test or null; `pointer` has one
per thread and context, as `thread_local` makes it. A call goes through the
steps of the generated body: the test of the pointer (constructors and
destructors only), the access through it, the mock method, whose action may
call again. The main thread makes calls only where code of the user runs;
other threads call at any time, also while `SetUp` and `TearDown` run. The use
of a null pointer sets `fault` and stops the program.

**Config and Startup.** A configuration is one flat record, since the keys of
the sections are distinct; a document is the set of options a file mentions.
`Read` overlays lists element by element, as LLVM's YAML input does. `Sets`
keeps the difference between options that an empty value does not set and
options that any occurrence sets. Relative and absolute paths are told apart,
and `cwd` is the one current directory of the process, which the tool changes.
What the environment decides is free: whether a database loads and which
commands it knows, whether the resource directory is found, whether the
source has errors, whether the generator rejects something. `Valid` stands for
the `validate` functions of the sections: `Config::read` refuses what they
refuse. What the command line gives is not validated, so a dump may have to
write a value that is not valid, or a backend that has no name in a file
(`Writable`): LLVM's YAML output asserts that there is none, so a build with
assertions stops with an empty file, and one without writes the value, or some
text.

Definitions whose comment says "A slip" are not used by any specification. Each
is a plausible mistake in the definition it precedes; `PROJECT.json` pairs it
with the property that fails when it takes that definition's place.

## What TLC checks

Passing runs (deadlock is checked in each; the final states repeat):

| Run | Properties | Instance and why it is enough |
|---|---|---|
| `Collector` | `TypeOK`, `CollectedOnce`, `AnyVariadicExact`, `MockableVariadics`, `FirstUseOrder`, `SelectsMocks` | Every sequence of up to two (`MaxExprs`) of 25 expressions, with one declaration for each reason to mock or to skip; all 16 settings of the options without a blacklist, and five blacklists with the options all on or all off. An expression makes up to five dispatch calls, so two expressions already revisit declarations through all pairs of handlers. |
| `GMock` | `TypeOK`, `MapExact`, `UsesDeclared`, `MembersDeclared`, `DeclaresOnce`, `FunctionsMocked`, `RecursionCreatesNothing`, `Terminates` | A translation unit, a namespace with three declarations, one of them in a linkage specification, records nested in each other, an overload, operators, a variadic function with an unnamed last parameter, and variables of each form. Every list of up to two (`MaxFunctions`) functions and four longer ones, in every iteration order. Two functions meet in every way in the tree; the longer lists combine three branches. |
| `Generation` | `TypeOK`, `UsesDeclared`, `DeclaresOnce`, `FunctionPointersNamed`, `AccessFaithful`, `PublishesMocks` | Eleven translation units, five of them in C: function pointers shared by functions and with a typedef of the source, output parameters, variadic functions, variables of each form, records of each kind with members of each access, in a namespace, in a record, on their own, and a linkage specification. Three blacklists, one malformed; the output can be opened or not. Each backend gets the units that have something for it, GMock and Raw the linkage specification too: 16,224 states. |
| `MockRuntime` | `TypeOK`, `NoDanglingPointer`, `MocksOutliveCalls`, `StructorsSafe`, `TestBodiesSafe` | Two tests, so that a pointer of the first could survive into the second; the main thread and two others; the translation unit with a function, a namespace with a method and a destructor. Up to three nested calls (`MaxDepth`) and three calls of the main thread per stage (`MaxCalls`): enough for a destructor called by a mock's action, and for calls before and after every stage. |
| `Startup` | `TypeOK`, `EffectiveOptions`, `DumpReadsBack`, `OutputWhereExpected`, `OneOutcome`, `CompilerInvocation` | Up to two (`MaxConfigs`) of five files, two of them unusable, four environments, seven command lines, one with a backend and one with a resource directory that no file may give, four command lists, an index of two bits (`IndexWidth`). With the environment, three sources give one option. |

What they show:

- `SelectsMocks` is a refinement: the collection implements `MockSelection` with
  the wanted set computed from the translation unit and the options alone, in
  the terms of `Promised`, `Overlooked` and `Surplus` above. It does not say that
  the code does all that is promised: that it does not is what the runs
  `UndefinedReferences` and `BuiltinOptions` show. It says that the code deviates
  from the promise there and nowhere else.
- `FirstUseOrder`: the order of the mock functions is the order of first use.
- `UsesDeclared`, `DeclaresOnce`, `MembersDeclared` and `FunctionsMocked`
  together say that the parts of a generated file fit, for names: nothing
  undeclared, nothing declared twice, each function with a pointer that is set
  before a test and reset after it. The first two are `DeclaredBeforeUse` and
  `DeclaredOnce` of `OutputGenerator`, for files into which no name of a context
  without one went (`AllNamed`), as is what the last says about pointers.
- `RecursionCreatesNothing`: no recursive call grows the map under a reference.
- `PublishesMocks` is a refinement of the composition: whichever backend runs,
  the file appears once, at the end, with exactly the functions and variables
  the translation unit needs and the options leave, or not at all and for a
  reason; and one of the two happens. For FFF a function counts only if it is
  on the list that resets the fakes. With GMock a needed function in a context
  without a name (`NamelessContext`) is a reason, since the cast may stop the
  program; it need not, so the file may appear all the same.
- `UsesDeclared` and `DeclaresOnce` hold for all four backends with the
  lists the visitor makes. `FunctionPointersNamed`: no fake has a spelled out
  function pointer for a parameter, and its typedef is one of the same type,
  also if it came with another function. `AccessFaithful`: read by a compiler,
  the output of Raw gives every function its access.
- `NoDanglingPointer`, `MocksOutliveCalls`, `StructorsSafe`, `TestBodiesSafe`: at
  run time no call reaches a mock of another test or a destroyed one,
  constructors and destructors are safe always, and calls of a test body on its
  own thread always have a mock. What is not claimed, because it does not hold:
  that calls of ordinary functions on other threads, or outside a test, have one.
- `EffectiveOptions`: the precedence the code implements, including the
  environment and options of the command line that are empty. For a list it
  says that the list of the last source comes first; a longer list from an
  earlier file keeps its tail behind it.
- `DumpReadsBack`: a dumped configuration is one that `Config::read` accepts,
  parsing and validation included, and reading it restores every option. The two
  exceptions are part of the property: the command line may give a backend that
  no file knows (`GivesBackend`) or a resource directory that is not a directory
  (`GivesResourceDirectory`), since neither is validated; then the dump may be
  refused when it is read, give another backend, or be cut off when written.
- `OutputWhereExpected`, `OneOutcome`, `CompilerInvocation`: what reaches the
  compiler and the file system.

**Instances and what they leave out.** In `Startup` the indices fit the width
they are stored in. In the passing run of `GMock` the name of the member for the
translation unit is the default, and every context is a translation unit,
namespace, record or linkage specification; two of the runs below show what
happens otherwise. Left out of the instances because a property would fail on
them:

- methods that differ in `const` alone, and conversion operators, whose mocks
  have the same signature or no name (`DeclaresOnce`; the hypothesis
  `NamesApart` of its theorems);
- overloads with the backend FFF, whose fakes and typedefs are named by the
  identifier alone (`DeclaresOnce`; the hypothesis `OwnIdentifiers`).

A parameter called `arg2` before an unnamed second one, or called `mock_ptr`, is
left out as well. What one item declares is a set, so `DeclaresOnce` compares
different items only, and a clash within one function is seen neither by a run
nor by a theorem.

The properties themselves except: variables that are arrays or objects of a
class without a default constructor, which no backend can define, and for Raw
variables and functions of contexts it passes over (`PublishesMocks`); files of
GMock with the name of a context without one (`UsesDeclared`, `DeclaresOnce`,
`FunctionsMocked`: what that name is, is undefined); members of nested records
(`AccessFaithful`: the outer record's specifier is still remembered when the
first of them is written); parameters whose type is the
name of a typedef (`FunctionPointersNamed`: FFF prints such types in full).
Contexts and declarations are told apart by their roles, so no symmetry is
declared.

Runs that TLC refutes. Each states what a comment, an option or a test of the
repository says and the code does not do:

| Run | Property | What happens |
|---|---|---|
| `Redeclarations` | `MockedOnce` | A function called through two of its declarations is defined twice. |
| `UndefinedReferences` | `CollectsUndefined` | An undefined function whose address is taken is not collected. |
| `BuiltinOptions` | `BuiltinOptionsDecide` | `MockBuiltins` and `MockC++StdLib` need `MockCStdLib` to have an effect. |
| `GlobalNamespace` | `MembersDeclared` | A `GlobalNamespaceName` other than `_` makes a fixture that does not compile. |
| `ContextKinds` | `KeysAreClasses` | Contexts of other kinds, such as class template specializations or linkage specifications, are in the map; functions of the first get no mock method, and of the second the code asks for a name they do not have. |
| `HeaderPath` | `HeaderNamesInput` | A relative input is resolved in the compile command's directory. |
| `RemovedArguments` | `RemovalSucceeds` | More arguments to remove than there are end the program. |

`EffectiveOptions` says which configuration file wins: the last one. The list in
the comment at `main.cpp:368` has the first file before the second, "from highest
to lowest"; the property follows the code.

**Fairness.** `GMock`, `FFF`, `CMocka`, `Raw` and `Generation` assume weak
fairness of `Next`. The program is one thread that waits for nothing, so it keeps
taking steps as long as it can; nothing more is assumed. Two properties need it:
`Terminates` of `GMock`, which depends on the climb from a function to the root
and on the recursion over the map, and `PublishesMocks`, by which a run comes to
an end one way or the other. The other specifications assume no fairness and
their properties are about safety: a traversal of a finite list, or a line of
statements, ends whatever this code does. In `MockRuntime` every thread may stop
anywhere.

## What TLAPS proves

The constants' assumptions are the named `ASSUME`s of the modules. Those of
`Collector`, `Contexts`, `OutputWriter`, `OutputGenerator`, `ContextWalk` and
`GMock` say what the clang structures are: variables are not functions, the
parent of a context is a context or null, no context is inside itself
(`TreeAssumption`), declarations of one entity share a primary context, stand
in one entity, unless one of them is in a linkage specification, and have one
name (`PrimaryAssumption`, `RedeclarationAssumption`, `NameAssumption`), functions are of the kinds of
functions, a function in the translation unit itself is no member of a class
(`MemberAssumption`), parameters form a list. `Generation` assumes the same of
the constants it gives to its instances, and what `Raw` needs
(`RawAssumption`): that a namespace does not stand in a record, and that a
redeclared context keeps its kind and its being a member of a record
(`ContextKinds`), and that members of a record have an
access and functions of namespaces none (`AccessOfMembers`; a function declared
only as a friend is outside it: clang gives it the namespace as its context and
yet an access). Those of `Config` and `Startup`
say that options, files and the command line give values of the options' types
(`Text` stands for strings) and that the default name of the fixture has no
underscore, and that a database is a list of commands with a directory and
arguments (`DatabaseAssumption`); `MockRuntime` assumes that the main thread is
a thread. No finiteness is assumed; the bounds of `MockRuntime` and the width of
the index are any numbers. A power of two is a positive number by assumption,
since the provers cannot derive it.

`CollectorProofs`:

- `TypeCorrect`, `NothingTwice`, `VariadicFlagExact`, `VariadicsMockable`:
  `TypeOK`, `CollectedOnce`, `AnyVariadicExact` and `MockableVariadics` always
  hold. `CollectedOnce` is not inductive: the invariant adds that everything
  collected is in `Visited`.
- `Refinement`: `Spec` implements `MockSelection`, with what is promised, less
  what is overlooked, and the surplus as what is wanted. That the early
  returns of the handlers amount to this is `NeededAreLetThrough`. The invariant
  adds that the two blacklists hold the configuration's entries up to `entry`,
  that everything collected is wanted, and that the wanted declarations of every
  expression already visited, and of the calls already made for the current
  one, are collected. The last step and the exits then map to the abstract ones.
- `InOrderOfUse`: `FirstUseOrder` always holds. The invariant adds that every
  collected function is needed by an expression visited so far; a function that
  is added now is then first needed by the current one, since everything the
  earlier ones need has been collected (the invariant of `Refinement`).

`GMockProofs`, about the context map and the recursion over it:

- `TypeCorrect`: `TypeOK` always holds.
- `ContextMapExact`: `MapExact` always holds. `MapExact` speaks of the finished
  map. While the map is built, one context may be in it without being recorded
  under its parent: the one about to be recorded. `MapInv` says so, and that
  every entry's children are children of that entry.
- `IterationSafe`: `RecursionCreatesNothing` always holds. `StackInv` adds that
  the map was complete before the first call and that what a call has left to
  write is part of its entry. A child that is a class is then no function, so
  by `MapInv` it is a key of the map.

About the items that are written:

- `DeclaredAbove`: `UsesDeclared` always holds if `OrdinaryInput` does: every
  key of the map is a translation unit, namespace or record, and a collected
  variadic function has a parameter. The first part does not always hold, as
  the run `ContextKinds` shows, and a function of another context is then
  written without a method to call; the second is what `VariadicsMockable`
  proves of the collected functions.
- `AllMocked`: `FunctionsMocked` always holds: when the generator has finished,
  every collected function has its definition, and one whose contexts have names
  has a pointer that is set and reset. Of a function in a linkage specification
  nothing is said about the pointer: the code may stop before it writes one, and
  `SetUp` sets that of the translation unit.
- `FixtureComplete`: `MembersDeclared` always holds if `GlobalNamespaceName` is
  `_`; the run `GlobalNamespace` shows that it has to be.

None of the three is inductive. `ItemInv` follows `run()`. While the classes are
written, the names of the active calls are the path of the innermost one
(`StackPaths`), every child a call has dealt with has its method, and a set of
contexts that have still to be visited is such that each is a child of another
one in the set or waits in an active call (`Unvisited`). When no call is active
the set is empty, because the contexts are a tree (`NoneUnvisited`), so every
class is finished. From then on each loop over the map has written its symbol
for the entries it has passed (`LoopInv`), the loops before it for all entries,
and the functions that have been passed have their bodies (`FunctionInv`).
Above each key of the map there is an outermost one, which has the pointer that
the key's functions call through (`OutermostKey`).

The recursion and the loops go up in different ways: the recursion follows the
map, from primary context to primary context, and writes the class of a context
at its `WalkPath`; the loops and the functions ask the context itself for the
contexts around it (`Around`, `Path`). In contexts with names both agree
(`NamedPath`, from `PathOfPrimary`). With a namespace that is reopened in a
linkage specification they need not, which is why `AllNamed` stands in the
properties.

- `GMockDeclaresOnce`: `DeclaresOnce` always holds if the lists have no entry
  twice (`ListedOnce`) and the names in the source can be told apart in the
  generated file (`NamesApart`): two contexts in one context by their
  identifiers, two functions in one context by the signatures of their
  `MOCK_METHOD`s, which are written without the qualifiers, and the member of an
  outermost context by a name other than `_`. Where one of them fails, as for
  two declarations of one function (the run `Redeclarations`) or methods that
  differ in `const` alone, the file does declare something twice.

The invariant of the last (`GMockOnce`) accounts for every symbol by what has
been passed (`GMockAccounted`). In the loops that is enough, since the order of
the table has no entry twice and what the loop stands at is not before it. In
the recursion it takes an argument of its own (`WalkOnce`): only one active call
iterates over a context, what a call has left has not been declared, and nothing
in a class is declared before the class. When a child is taken, its symbol is
that of no other child (`ChildSymbolsApart`), because no two contexts have the
same path (`PathInjective`): of those that share their path with another one,
one stands in none of them, so its parent has a path of its own, the other one
stands in that same parent, and the two have different names.

`Around` is a recursive function. That it has a value at all is the lemma
`AroundUnfolds`: every context has exactly one chain of parents (`ChainExists`,
from the tree by a least counterexample, which needs no induction theorem), and
the chains solve the recursion. `WalkPath` is defined by the chains of primary
contexts, and unfolds as the recursion over the map does (`WalkPathUnfolds`).

`StartupProofs`:

- `TypeCorrect`: `TypeOK` always holds: every option has a value of its type,
  after any number of files and any command line, and the name of the fixture
  and the kind of mock, which are validated and which only files set, are valid.
  That the resource directory is one is not claimed: the command line's is not
  validated.
- `OptionsInEffect`: `EffectiveOptions` always holds if `--cc-index` is less than
  two to the `IndexWidth` (`IndexFits`); a larger one is truncated. The
  invariant says for each option what the sources read so far make of it
  (`ValuesRead`); a list that is read over a longer one is a prefix of the
  result (`OverlayPrefix`).
- `AtMostOneOutput`, `OutputPlaced`: `OneOutcome` and `OutputWhereExpected`
  always hold. The invariants add that at most one command is pending and none
  once something is written (`Outcome`), and that the path is resolved before
  the tool changes the directory (`PathInv`).
- `DumpRestores`: `DumpReadsBack` always holds, without a hypothesis: its two
  exceptions are part of it. The invariant (`DumpInv`) adds that unless one of
  them is given (`Restorable`) every value is one that its parser takes and the
  resource directory is a directory (`Accepted`).
- `CompilerRuns`: `CompilerInvocation` always holds under `IndexFits`. The
  invariant follows the list of commands from the database to the tool
  (`CommandInv`): the command that is pending is the one at the index in effect,
  and its arguments, when the action runs, are those that are asked for
  (`Requested`). What the loop of `RemoveArgumentsAdjuster` keeps of any
  arguments is the lemma `KeptArguments`: the loop is a recursive function over
  the rounds, and the smallest number of rounds after which the claim failed
  (`LeastNat`) would be followed from the one before.

`MockRuntimeProofs`:

- `TypeCorrect`, `PointersLive`, `CallsOutlived`, `GuardSuffices`,
  `BodiesServed`: the five invariants of the run always hold. None of them is
  inductive. The invariant adds that only the main thread ever has a pointer
  (`WorkersUnset`), what its pointers are in each stage (`MainPointers`: in
  `SetUp` those already done lead to the current test, in `TearDown` they are
  null), that the main thread has no active call while GoogleTest or the
  fixture runs (`MainIdle`), and that a constructor or destructor that is past
  its test still finds its pointer set (`GuardHolds`): the pointers of a thread
  change only while that thread is in no call.

`CBackendProofs`, on the lemmas about the buffer in `OutputProofs`:

- `PointersNamed`: `FunctionPointersNamed` always holds. The invariant adds
  that a typedef in the table has been written and was made from a parameter of
  its type (`TypedefsMade`), and that the table has every type that needs one
  for all parameters the loops have passed (`TypedefsComplete`).
- `FFFUsesDeclared`, `CMockaUsesDeclared`: `DeclaredBeforeUse` always holds of
  the backend on its own, for every list of functions and variables. For CMocka
  this rests on the body of one function being complete in itself
  (`FunctionSelfContained`).
- `FFFDeclaresOnce`: `DeclaredOnce` always holds of FFF on its own if the lists
  have no entry twice (`ListedOnce`) and no two functions share an identifier
  (`OwnIdentifiers`): FFF names its typedefs after the identifier and the
  position of a parameter. Every symbol is accounted for by what the loops have
  passed (`FFFAccounted`); a typedef, which only the first parameter of its type
  gets, by a parameter that has been passed (`TypedefPassed`). Of CMocka, whose
  symbols are all of one declaration in the list, the same is an invariant that
  `NothingDeclaredTwice` uses (`CMockaOnce`) and no theorem: it says that the
  lists have no entry twice, and nothing of the names in one function.

`RawProofs`, about one call of `run()` for any list of functions, any tree of
contexts and any order of the walk. The theorems assume what `Raw` needs of
clang (`ContextKinds`, `AccessOfMembers`).

- `AccessesOfRaw`: `AccessFaithful` always holds. It is far from inductive.
  `RawInv` follows the recursion: each active call stands in the one below it
  on the stack and the map (`StackLinked`, `MapLinked`), it has an access in
  effect exactly if it writes a record (`ScopesTyped`), and the access that
  `Raw` remembers is none outside records, and in a record that is in no record
  either none or the one in effect (`AccessRemembered`). In a nested record
  nothing can be said, which is why its members are excepted.
- `DeclaresWalked`: when `run()` returns, the functions it has declared are the
  collected ones whose contexts are namespaces and records all the way up to
  the translation unit (`Walked`), no less and no more. `RawWritten` adds that
  every active call is for a walked context of the map and has left some of its
  children (`CallsInMap`), that what it has dealt with is declared or, a class,
  entered (`ChildrenVisited`), and that nothing is declared that is not walked
  (`DeclaredWalked`). When no call is active, every walked context of the map
  has been entered: one that has not would stand in another one that has not,
  and of any set of contexts one stands outside it (`TreeAssumption`). So the
  functions in walked contexts are declared. `Walked` is a recursive function
  as `Path` is, and has a value for the same reason (`WalkedUnfolds`).
- `RawDeclaresOnce`: `DeclaredOnce` always holds, whatever the names. `RawOnce`
  adds that only one active call iterates over a context (`CallsDistinct`), that
  what a call has left has not been declared (`PendingNew`), and that everything
  that is declared stands in a context that has been opened (`OpenedAround`), so
  that nothing of a context is declared when it is entered.

`GenerationProofs`, about the composition. Its invariant (`Inv`) has three
phases: while the visitor runs its invariant holds and no state of a backend
has been touched; the header brings the chosen backend into its own invariant,
for the lists the visitor has made; from then on the lists stay, and each step
keeps that backend's invariant. `CollectorProofs`, `CBackendProofs`,
`RawProofs` and `GMockProofs` are instances here, and cited for the lists of
all lengths: what they prove of one step from their invariant holds of the
composition's step (`SameVisitor`, `SameFFF`, `SameCMocka`, `SameRaw`,
`SameGMock`). A backend leaves the symbols of another one unwritten (`Without`).

- `TypeCorrect`, `PointersNamed`, `AccessesFaithful`, `DeclaredAbove`: `TypeOK`,
  `FunctionPointersNamed` and `AccessFaithful` always hold, and `UsesDeclared`
  does if every context is a translation unit, namespace or record or has no
  name. The other half of what GMock needs, a parameter in every collected
  variadic function, is what the visitor's invariant says.
- `PublishesSafely`: `Generation` starts in an initial state of `MockFile`, and
  each of its steps is a step of `MockFile` or leaves its state alone. That is
  `PublishesMocks` without its liveness. The step that matters puts the buffer
  into the file: there the file has to provide exactly what is needed and what
  the backend can provide (`BufferProvides`). The visitor's invariant says that
  the lists hold the needed declarations when it is done, and that it exits only
  for a reason (`VisitorEnds`). A backend that stops is GMock, with a collected
  function in a context without a name (`Stopped`, `StopsAtCast`): where all
  contexts have names every cast is valid (`CastsValid`, `AbortNameless` in
  `GMockProofs`). What is collected is needed, so the promise knows of it. Each backend's invariant says which entries of
  the lists have been written (`GMockWritten`, `FFFWritten`, `CMockaWritten`: in
  each loop those it has passed, without the variables that cannot be defined;
  `RawWritten`). So at the end the bodies, the entries of FFF's list and the
  variables in the buffer are those of the lists (`WrittenByOthers`), and for
  Raw the declarations of the walked functions (`WrittenByRaw`). Every other
  step leaves the file and the outcome (`RefinementStep`), and none changes what
  is wanted (`PromiseKept`).

- `NothingDeclaredTwice`: `DeclaresOnce` always holds with every backend, if the
  names the backend forms differ (`NamesDiffer`: `NamesApart` for GMock,
  `OwnIdentifiers` for FFF). It compares different items of the output: the
  parameters and variables of one definition are a set. That the lists have no entry twice is no hypothesis
  here: the visitor's invariant says so. A second invariant (`OnceInv`) has each
  backend's own, and the header's symbol is one that no backend forms
  (`OnceBegins`).

Every safety property of a run is stated by a theorem. Where one has a
hypothesis, the code does not have the property without it, and the runs that
TLC refutes or the list of what the instances leave out say where; an exception
is `IndexFits`, for which the hazard at `main.cpp:398` is listed. Only
model-checked is liveness: `Terminates` of `GMock`, and of `PublishesMocks` that a
run comes to an end. Induction over a sequence is within
reach only as above, by the smallest counterexample among the natural numbers;
the library's induction theorems take an operator, which the provers cannot
instantiate. `tlapm` takes about ten minutes for `GenerationProofs`, about five
for `GMockProofs` and two or three at most for each of the others.

## What is not modelled

How types, specifiers and qualifiers are spelled, `std::move`, layout and
comments of the output; the other lines of the file header; which check and
return macros CMocka's functions use; diagnostics, colours, and the build and
packaging files. FFF's typedef of a `const` function pointer keeps the `const`
that the code removes from all other parameters: the model's types carry their
`const`, and no property is about it. The dedicated tests and the vendored
`fff.h` are not part of the program. clang, LLVM's YAML and command line
libraries, GoogleTest and the file system are modelled from how the code uses
them. The argument adjusters that `ClangTool` has by default run before those of
`main.cpp` and are left out: they remove arguments about outputs and ask for
syntax alone, so the number at which the reservation in `RemoveArgumentsAdjuster` wraps around
is another one in the program than in the run `RemovedArguments`. The command
that `detect` makes up runs in the directory part of the input; a bare name has
none, and `ClangTool` ends the program since it cannot change to it
(`CannotEnter`).

## Plan

Done: 1. `MockSelection`, `Collector` and their proofs. 2. `Contexts`, `GMock`
and the proofs about the map. 3. `Config`, `Startup`. 4. `MockRuntime` and its
proofs. 5. `OutputWriter`, `OutputGenerator`, `ContextWalk` and the other three
backends, with proofs about FFF and CMocka. 6. `Generation`.

7. Proofs about the items of `GMock`, the order of the collection, and `Startup`.
8. `GenerationProofs`: the components' invariants in the composition, and the
access specifiers of `Raw`. 9. `RawProofs`, and the safety part of
`PublishesMocks` with every backend. 10. `CompilerInvocation` for all databases,
and `DeclaredOnce` of each backend and of the composition. 11. Linkage
specifications and their invalid casts, the promise of the collection apart from
what it does, and the validation of dumps.

What could follow:

1. The instances that `DeclaresOnce` fails on, as runs of their own, if the
   documentation comes to promise what the code does not do there.
2. The clash of names within one function of CMocka: items whose symbols are a
   sequence, so that a parameter called `mock_ptr` is seen.
