------------------------------- MODULE GMock -------------------------------
(***************************************************************************)
(* GMock::run of GMock.cpp: what the GMock backend writes for the          *)
(* collected functions and variables, and in which order.                  *)
(*                                                                         *)
(* A symbol of a context carries the context's path: the names of the      *)
(* contexts around it, without the translation unit.  DenseMap iterates in *)
(* an order that depends on addresses: every order is considered.          *)
(***************************************************************************)
EXTENDS ContextWalk

CONSTANTS
    GlobalNamespaceName,   \* options of the configuration
    WriteMain

\* The members of a class have their class as context.
ASSUME MemberAssumption ==
    \A f \in FunctionDecl : Parent[f] = TranslationUnit => Kind[f] = "Function"

VARIABLE order    \* the order in which loops over the map take its entries

vars == <<generatorVars, stack, order>>

-----------------------------------------------------------------------------
(***************************************************************************)
(* Names.                                                                  *)
(***************************************************************************)

\* collectAllContexts, from the outermost context inwards, and their names.
Around[c \in Context] ==
    IF c = TranslationUnit THEN <<>> ELSE Append(Around[Parent[c]], c)

Path == [c \in Context |-> [i \in DOMAIN Around[c] |-> Identifier[Around[c][i]]]]

\* A name is asked of every context by clang::cast<NamedDecl>, which is invalid
\* for some: undefined behaviour, and an assertion in builds with assertions.
CastIsInvalid(c) == \E i \in DOMAIN Around[c] : IsUnnamed(Around[c][i])

\* writeMockPointerAccess casts with dyn_cast, and writes the pointer of the
\* translation unit if the outermost context has no name.
AccessPath(c) ==
    IF Around[c] = <<>> \/ IsUnnamed(Head(Around[c])) THEN <<>>
    ELSE <<Identifier[Head(Around[c])]>>

isGlobalContext(c) == c = TranslationUnit \/ Parent[c] = TranslationUnit

containsFunctionDecls(S) == \E c \in S : Kind[c] = "Function"

\* A slip: the translation unit never has a mock pointer.
requiresPointerVariableNamed(c, S) == isGlobalContext(c) /\ c # TranslationUnit

\* Only the outermost contexts have a mock pointer; the translation unit has
\* one if a function stands in it directly.
requiresPointerVariable(c, S) ==
    /\ isGlobalContext(c)
    /\ c = TranslationUnit => containsFunctionDecls(S)

\* The outermost context around a context.
Outermost(path) == IF path = <<>> THEN <<>> ELSE <<Head(path)>>

Class(path) == <<"class", path>>
Method(path, f) == <<"method", path, Signature(f)>>
Pointer(path) == <<"pointer", path>>
Definition(path) == <<"definition", path>>
Member(name) == <<"member", name>>
SetUp(path) == <<"set up", path>>
TearDown(path) == <<"tear down", path>>

UsesVaList(f) == IF HasVaList(f) THEN {VaList} ELSE {}

-----------------------------------------------------------------------------
Init ==
    /\ InitContexts
    /\ InitGenerator
    /\ pc = "map"
    /\ stack = <<>> /\ order = <<>>

MapStep ==
    /\ pc = "map"
    /\ CreateContextMap
    /\ UNCHANGED <<VarDecls, AnyVariadic, pc, stack, order, next, out>>

\* A slip: <cstdarg> is never included.
IncludedNever == {Framework}

\* <cstdarg>, gmock.h and gtest.h.
Included == {Framework} \cup IF AnyVariadic THEN {VaList} ELSE {}

StartMockClass ==
    /\ StartWalk
    /\ out' = out \o <<Item(Included, {}), MacroItem, Item({Class(<<>>)}, {})>>
    /\ UNCHANGED order

\* The path of the class being written, from the active calls.
StackPath == [i \in 1 .. Len(stack) - 1 |-> Identifier[stack[i + 1].context]]

WriteNestedClass ==
    /\ InClass
    /\ \E c \in Active.children :
        /\ Enter(c)
        /\ Write(Item({Class(Append(StackPath, Identifier[c]))}, {Class(StackPath)}))
    /\ UNCHANGED order

\* A slip: the method is a member of the outermost class.
MethodItemAtTop(f) ==
    Item({Method(Outermost(StackPath), f)},
         {Class(StackPath), Framework} \cup UsesVaList(f))

MethodItem(f) ==
    Item({Method(StackPath, f)}, {Class(StackPath), Framework} \cup UsesVaList(f))

\* A child of any other kind is left out.
WriteMockMethod ==
    /\ InClass
    /\ \E f \in Active.children :
        /\ Visit(f)
        /\ IF Kind[f] \in FunctionKind THEN Write(MethodItem(f)) ELSE UNCHANGED out
    /\ UNCHANGED order

\* The static member that points to the mock, then the end of the class.
CloseClass ==
    /\ Leave
    /\ IF requiresPointerVariable(Active.context, Map[Active.context])
       THEN Write(Item({Pointer(StackPath)}, {Class(StackPath), Framework}))
       ELSE UNCHANGED out
    /\ UNCHANGED order

-----------------------------------------------------------------------------
(***************************************************************************)
(* The loops over the map: the definitions of the mock pointers, the two   *)
(* functions of the fixture and its members.                               *)
(***************************************************************************)
DefinitionItem(c) ==
    Item({Definition(Path[c])}, {Class(Path[c]), Pointer(Path[c])})

\* A slip: the translation unit is treated like a context with a name.
VariableAccessByPath(c) == Member(Path[c])

\* writeFixtureVariableAccess
VariableAccess(c) ==
    Member(IF c = TranslationUnit THEN <<GlobalNamespaceName>> ELSE Path[c])

SetUpItem(c) ==
    Item({SetUp(AccessPath(c))}, {Definition(AccessPath(c)), VariableAccess(c)})

TearDownItem(c) ==
    Item({TearDown(AccessPath(c))}, {Definition(AccessPath(c))})

\* The member of the translation unit has a fixed name.
VariableItem(c) ==
    Item({Member(IF c = TranslationUnit THEN <<"_">> ELSE <<Identifier[c]>>)},
         {Class(Path[c])})

\* run()'s order.
Successor ==
    [definitions |-> "setup", setup |-> "teardown",
     teardown |-> "variables", variables |-> "functions"]

LoopItem(c) ==
    CASE pc = "definitions" -> DefinitionItem(c)
      [] pc = "setup" -> SetUpItem(c)
      [] pc = "teardown" -> TearDownItem(c)
      [] pc = "variables" -> VariableItem(c)

Looping == pc \in {"definitions", "setup", "teardown", "variables"}

\* The class is complete; the map does not change from here on.
EndMockClass ==
    /\ pc = "class" /\ stack = <<>>
    /\ order' \in SetToSeqs(DOMAIN Map)
    /\ pc' = "definitions"
    /\ UNCHANGED <<contextVars, VarDecls, AnyVariadic, stack, next, out>>

WriteEntry ==
    /\ Looping /\ next <= Len(order)
    /\ next' = next + 1
    /\ IF requiresPointerVariable(order[next], Map[order[next]])
       THEN Write(LoopItem(order[next]))
       ELSE UNCHANGED out
    /\ UNCHANGED <<contextVars, VarDecls, AnyVariadic, pc, stack, order>>

\* The assertion of an invalid cast, or a crash.
Abort ==
    /\ pc' = "aborted"
    /\ UNCHANGED <<contextVars, VarDecls, AnyVariadic, stack, order, next, out>>

\* TearDown asks no context for its name.
AbortAtEntry ==
    /\ Looping /\ pc # "teardown" /\ next <= Len(order)
    /\ requiresPointerVariable(order[next], Map[order[next]])
    /\ CastIsInvalid(order[next])
    /\ Abort

EndLoop ==
    /\ Looping /\ next > Len(order)
    /\ pc' = Successor[pc]
    /\ next' = 1
    /\ UNCHANGED <<contextVars, VarDecls, AnyVariadic, stack, order, out>>

-----------------------------------------------------------------------------
\* A slip: the position counts from zero.
ArgumentFromZero(f, i) ==
    LET name == Parameters[f][i].name
    IN  Local(f, IF name = NoName THEN ArgName(i - 1) ELSE name)

\* writeMockCall makes up the names of unnamed parameters again.
Argument(f, i) ==
    LET name == Parameters[f][i].name
    IN  Local(f, IF name = NoName THEN ArgName(i) ELSE name)

\* va_start gets the last parameter, which writeFunctionBody names once more.
UsesLast(f) ==
    IF f \in Variadic THEN {VaList, Argument(f, Len(Parameters[f]))} ELSE {}

\* A constructor or destructor tests the pointer before it is used.
UsesTested(f) ==
    IF Kind[f] \in {"CXXConstructor", "CXXDestructor"}
    THEN {Definition(AccessPath(Parent[f]))} ELSE {}

\* A mock function of the generated file, with CCMOCK_LINKAGE if it has C
\* linkage: it calls the mock method through the pointer of the outermost
\* context.
FunctionItem(f) ==
    LET path == Path[Parent[f]]
    IN  Item({Body(f)} \cup ParameterLocals(f),
             {Linkage, Definition(Outermost(path)), Method(path, f)}
                 \cup UsesTested(f)
                 \cup {Argument(f, i) : i \in DOMAIN Parameters[f]}
                 \cup UsesLast(f))

WriteFunction ==
    /\ pc = "functions" /\ next <= Len(FunctionDecls)
    /\ Write(FunctionItem(FunctionDecls[next]))
    /\ next' = next + 1
    /\ UNCHANGED <<contextVars, VarDecls, AnyVariadic, pc, stack, order>>

AbortAtFunction ==
    /\ pc = "functions" /\ next <= Len(FunctionDecls)
    /\ CastIsInvalid(Parent[FunctionDecls[next]])
    /\ Abort

EndFunctions ==
    /\ pc = "functions" /\ next > Len(FunctionDecls)
    /\ pc' = "globals"
    /\ next' = 1
    /\ UNCHANGED <<contextVars, VarDecls, AnyVariadic, stack, order, out>>

WriteGlobals ==
    /\ WriteGlobalVariable \/ EndGlobalVariables("main")
    /\ UNCHANGED <<stack, order>>

MainItem == Item({<<"main">>}, {Framework})

Finish ==
    /\ pc = "main"
    /\ IF WriteMain THEN Write(MainItem) ELSE UNCHANGED out
    /\ pc' = "done"
    /\ UNCHANGED <<contextVars, VarDecls, AnyVariadic, stack, order, next>>

Terminated == pc \in {"done", "aborted"} /\ UNCHANGED vars

Next ==
    \/ MapStep \/ StartMockClass
    \/ WriteNestedClass \/ WriteMockMethod \/ CloseClass \/ EndMockClass
    \/ WriteEntry \/ AbortAtEntry \/ EndLoop
    \/ WriteFunction \/ AbortAtFunction \/ EndFunctions
    \/ WriteGlobals \/ Finish
    \/ Terminated

\* The program is sequential and no step waits for anything outside it.
Spec == Init /\ [][Next]_vars /\ WF_vars(Next)

-----------------------------------------------------------------------------
(***************************************************************************)
(* Properties.                                                             *)
(***************************************************************************)
TypeOK ==
    /\ ContextsTypeOK
    /\ VarDecls \in VariableLists /\ AnyVariadic \in BOOLEAN
    /\ pc \in {"map", "class", "functions", "globals", "main", "done", "aborted"}
              \cup {"definitions", "setup", "teardown", "variables"}
    /\ stack \in Seq([context : Context, children : SUBSET DeclContext])
    /\ \A i \in DOMAIN stack : stack[i].context \in DOMAIN Map
    /\ Range(order) \subseteq DOMAIN Map
    /\ next \in Nat \ {0}

\* The contexts with a name that stand in such contexts, and whose first
\* declarations do: the largest set that holds with a context those it names.
NamedContext ==
    UNION {S \in SUBSET Context :
              \A c \in S \ {TranslationUnit} :
                  ~IsUnnamed(c) /\ {Parent[c], Primary[c]} \subseteq S}

\* No collected function makes a cast invalid.
AllNamed == \A f \in Range(FunctionDecls) : Parent[f] \in NamedContext

\* What the text uses is declared above it, and nothing is declared twice,
\* unless the names of contexts without one went into it.
UsesDeclared == AllNamed => DeclaredBeforeUse
DeclaresOnce == AllNamed => DeclaredOnce

\* The assignments of SetUp take the address of members the fixture has.
MembersDeclared ==
    pc = "done" =>
        \A n \in DOMAIN out : \A symbol \in out[n].uses :
            FixtureMember(symbol) => symbol \in Declared

\* Each collected function ends up with its definition, and the pointer it
\* calls through is set before each test and reset after it, whatever other
\* functions are collected.
FunctionsMocked ==
    pc = "done" =>
        \A f \in Range(FunctionDecls) :
            LET path == Outermost(Path[Parent[f]])
            IN  /\ Body(f) \in Declared
                /\ Parent[f] \in NamedContext =>
                      {SetUp(path), TearDown(path)} \subseteq Declared

\* The generator finishes, or is aborted.
Terminates == <>(pc \in {"done", "aborted"})
=============================================================================
