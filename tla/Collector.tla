----------------------------- MODULE Collector -----------------------------
(***************************************************************************)
(* The collection phase of ccmock: ASTVisitor of OutputGenerator.cpp walks *)
(* one translation unit and decides which functions and global variables   *)
(* the generated file has to provide.                                      *)
(*                                                                         *)
(* A translation unit is the sequence of the call, construct and reference *)
(* expressions the traversal visits, in visiting order.  A handler makes a *)
(* fixed sequence of dispatch calls for its expression (Calls); `visit' is *)
(* the index of the expression being handled and `call' the index of the   *)
(* dispatch call that is next.  The inputs never change once chosen.       *)
(***************************************************************************)
EXTENDS Integers, Sequences, Functions

CONSTANTS
    FunctionDecl,        \* function declarations, redeclarations included
    VarDecl,             \* variable declarations
    NoDecl,              \* the null declaration pointer
    Name,                \* fully qualified names
    NameOf,              \* printQualifiedName
    Defined,             \* what this translation unit defines itself
    ErrnoLocation,       \* the functions with identifier __errno_location
    Builtin,             \* functions with a builtin ID
    BuiltinPrefixed,     \* functions whose identifier starts with __builtin_
    InStdNamespace,      \* functions of namespace std
    Variadic,            \* functions declared with an ellipsis
    ParamEmpty,          \* functions without a named parameter
    ExternallyVisible,   \* variables with external linkage
    CtorsOf,             \* the constructors of a variable's class, <<>> if none
    DtorOf,              \* the destructor of a constructor's class, or NoDecl
    InternalBlacklist,   \* names of variables every standard library provides
    Pattern,             \* blacklist entries with one of the characters ?*[
    Malformed,           \* patterns that GlobPattern::create refuses
    Glob,                \* the names a well formed pattern matches
    TranslationUnits,    \* the translation units considered
    Configurations       \* the configurations considered

Decl == FunctionDecl \cup VarDecl

\* One entry of Mocking.Blacklist: a name, or a pattern.  A name such as
\* operator[] is both.
Entry == Name \cup Pattern

\* An expression the visitor is called for.  A call through a function
\* pointer has no callee: NoDecl.
Expr ==
    [kind : {"call"}, decl : FunctionDecl \cup {NoDecl}, inMainFile : BOOLEAN]
        \cup [kind : {"construct"}, decl : DOMAIN DtorOf, inMainFile : BOOLEAN]
        \cup [kind : {"declref"}, decl : Decl, inMainFile : BOOLEAN]

\* The options of Config::MockingSection that the visitor reads.
MockingSection ==
    [Blacklist : Seq(Entry),
     MockBuiltins : BOOLEAN, MockCStdLib : BOOLEAN, MockCXXStdLib : BOOLEAN,
     MockVariadicFunctions : BOOLEAN]

ASSUME DeclAssumption ==
    /\ NoDecl \notin Decl
    /\ FunctionDecl \cap VarDecl = {}
    /\ NameOf \in [Decl -> Name]

\* Variables have neither a builtin ID nor parameters.  A variable that no
\* other translation unit can see is defined in this one.
ASSUME FunctionAssumption ==
    /\ ErrnoLocation \cup Builtin \cup Variadic \subseteq FunctionDecl
    /\ Defined \subseteq Decl
    /\ VarDecl \ ExternallyVisible \subseteq Defined

ASSUME ClassAssumption ==
    /\ CtorsOf \in [VarDecl -> Seq(FunctionDecl)]
    /\ DOMAIN DtorOf \subseteq FunctionDecl
    /\ \A ctor \in DOMAIN DtorOf : DtorOf[ctor] \in FunctionDecl \cup {NoDecl}
    /\ \A v \in VarDecl : Range(CtorsOf[v]) \subseteq DOMAIN DtorOf
    /\ ExternallyVisible \subseteq VarDecl

ASSUME InputAssumption ==
    /\ TranslationUnits \subseteq Seq(Expr)
    /\ Configurations \subseteq MockingSection

VARIABLES
    exprs,          \* the translation unit
    Mocking,        \* the configuration
    pc,             \* "construct", "traverse", "done" or "exit"
    entry,          \* index of the next blacklist entry (constructor)
    visit,          \* index of the expression being visited
    call,           \* index of the next dispatch call of its handler
    Blacklist,      \* Blacklist_: the exact names
    GlobBlacklist,  \* GlobBlacklist_: the compiled patterns
    Visited,        \* Visited_: the declarations already decided on
    FunctionDecls,  \* FunctionDecls_ of OutputGenerator
    VarDecls,       \* VarDecls_ of OutputGenerator
    AnyVariadic     \* AnyVariadic_ of OutputGenerator

input == <<exprs, Mocking>>
blacklists == <<Blacklist, GlobBlacklist>>
collected == <<FunctionDecls, VarDecls, AnyVariadic>>
vars == <<input, pc, entry, visit, call, blacklists, Visited, collected>>

-----------------------------------------------------------------------------
(***************************************************************************)
(* The handlers.  A dispatch call names the declaration it is about, and   *)
(* the constructor whose definition makes doVisitDeclRefExpr leave it out. *)
(***************************************************************************)
Dispatched(d, ctor) == [decl |-> d, unless |-> ctor]

VisitCallExpr(e) == <<Dispatched(e.decl, NoDecl)>>

\* A slip: the destructor of a constructed object is forgotten.
VisitCXXConstructExprWithoutDtor(e) == <<Dispatched(e.decl, NoDecl)>>

VisitCXXConstructExpr(e) ==
    <<Dispatched(e.decl, NoDecl), Dispatched(DtorOf[e.decl], NoDecl)>>

\* The undefined constructors of the class of an external object, each
\* followed by the destructor, then the variable itself.
VisitDeclRefExpr(e) ==
    LET ctors == CtorsOf[e.decl]
        last == 2 * Len(ctors) + 1
        Ctor(k) == ctors[(k + 1) \div 2]
    IN  [k \in 1 .. last |->
            IF k = last THEN Dispatched(e.decl, NoDecl)
            ELSE Dispatched(IF k % 2 = 1 THEN Ctor(k) ELSE DtorOf[Ctor(k)],
                            Ctor(k))]

\* References to functions, and to variables no other translation unit can
\* see, are left alone.
IsExternalReference(e) == e.decl \in ExternallyVisible

Calls(e) ==
    CASE e.kind = "call" -> VisitCallExpr(e)
      [] e.kind = "construct" -> VisitCXXConstructExpr(e)
      [] e.kind = "declref" ->
            IF IsExternalReference(e) THEN VisitDeclRefExpr(e) ELSE <<>>

-----------------------------------------------------------------------------
(***************************************************************************)
(* The early returns of dispatch, in their order in the code.              *)
(***************************************************************************)

\* The three rules for functions with a builtin ID.
BuiltinSkipped(d) ==
    /\ d \in Builtin
    /\ \/ d \in BuiltinPrefixed /\ ~Mocking.MockBuiltins
       \/ d \in InStdNamespace /\ ~Mocking.MockCXXStdLib
       \/ ~Mocking.MockCStdLib

NameSkipped(d) == NameOf[d] \in Blacklist

GlobSkipped(d) == \E p \in GlobBlacklist : NameOf[d] \in Glob[p]

\* dispatch reaches isVisited.
FunctionDispatched(e, c) ==
    /\ c.decl # NoDecl
    /\ e.inMainFile
    /\ c.decl \notin Defined
    /\ c.unless \notin Defined
    /\ c.decl \notin ErrnoLocation
    /\ ~BuiltinSkipped(c.decl)
    /\ ~NameSkipped(c.decl)
    /\ ~GlobSkipped(c.decl)

\* doVisitDeclRefExpr reaches isVisited.
VariableDispatched(e, c) ==
    /\ e.inMainFile
    /\ NameOf[c.decl] \notin InternalBlacklist
    /\ ~NameSkipped(c.decl)

-----------------------------------------------------------------------------
(***************************************************************************)
(* The constructor of ASTVisitor: the blacklist of the configuration is    *)
(* split into names and patterns.                                          *)
(***************************************************************************)
Init ==
    /\ exprs \in TranslationUnits
    /\ Mocking \in Configurations
    /\ pc = "construct"
    /\ entry = 1 /\ visit = 1 /\ call = 1
    /\ Blacklist = {} /\ GlobBlacklist = {}
    /\ Visited = {}
    /\ FunctionDecls = <<>> /\ VarDecls = <<>> /\ AnyVariadic = FALSE

\* A slip the properties must notice: the pattern test never matches.
isPatternNever(e) == FALSE

\* util::glob::isPattern
isPattern(e) == e \in Pattern

Constructing == pc = "construct" /\ entry <= Len(Mocking.Blacklist)

CurrentEntry == Mocking.Blacklist[entry]

AddName ==
    /\ Constructing /\ ~isPattern(CurrentEntry)
    /\ Blacklist' = Blacklist \cup {CurrentEntry}
    /\ entry' = entry + 1
    /\ UNCHANGED <<input, pc, visit, call, GlobBlacklist, Visited, collected>>

AddGlob ==
    /\ Constructing /\ isPattern(CurrentEntry)
    /\ CurrentEntry \notin Malformed
    /\ GlobBlacklist' = GlobBlacklist \cup {CurrentEntry}
    /\ entry' = entry + 1
    /\ UNCHANGED <<input, pc, visit, call, Blacklist, Visited, collected>>

\* A malformed pattern ends the program.
RejectGlob ==
    /\ Constructing /\ isPattern(CurrentEntry)
    /\ CurrentEntry \in Malformed
    /\ pc' = "exit"
    /\ UNCHANGED <<input, entry, visit, call, blacklists, Visited, collected>>

StartTraversal ==
    /\ pc = "construct" /\ entry > Len(Mocking.Blacklist)
    /\ pc' = "traverse"
    /\ UNCHANGED <<input, entry, visit, call, blacklists, Visited, collected>>

-----------------------------------------------------------------------------
(***************************************************************************)
(* TraverseDecl: every visited expression makes its dispatch calls.        *)
(***************************************************************************)
Visiting == pc = "traverse" /\ visit <= Len(exprs)

CurrentExpr == exprs[visit]

Dispatching == Visiting /\ call <= Len(Calls(CurrentExpr))

CurrentCall == Calls(CurrentExpr)[call]

\* The traversal goes on with the next call.
Return == call' = call + 1 /\ UNCHANGED <<input, pc, entry, visit, blacklists>>

\* All calls of the handler are made.
LeaveExpr ==
    /\ Visiting /\ call > Len(Calls(CurrentExpr))
    /\ visit' = visit + 1
    /\ call' = 1
    /\ UNCHANGED <<input, pc, entry, blacklists, Visited, collected>>

\* A slip: declarations are not remembered.
IsVisitedNever(d) == FALSE

\* isVisited
IsVisited(d) == d \in Visited

SkipFunction ==
    /\ Dispatching /\ CurrentCall.decl \notin VarDecl
    /\ FunctionDispatched(CurrentExpr, CurrentCall) => IsVisited(CurrentCall.decl)
    /\ Return
    /\ UNCHANGED <<Visited, collected>>

\* dispatch gets past isVisited, which marks the declaration.
MarkFunction(d) ==
    /\ Dispatching /\ CurrentCall.decl = d
    /\ FunctionDispatched(CurrentExpr, CurrentCall)
    /\ ~IsVisited(d)
    /\ Visited' = Visited \cup {d}

SkipVariadic ==
    /\ \E d \in Variadic : MarkFunction(d)
    /\ ~Mocking.MockVariadicFunctions
    /\ Return
    /\ UNCHANGED collected

\* A slip: the parameter list is not looked at.
UnmockableNever(d) == FALSE

Unmockable(d) == d \in Variadic /\ d \in ParamEmpty

\* A variadic function without a parameter that va_start could name ends the
\* program.
RejectVariadic ==
    /\ \E d \in FunctionDecl : MarkFunction(d) /\ Unmockable(d)
    /\ Mocking.MockVariadicFunctions
    /\ pc' = "exit"
    /\ UNCHANGED <<input, entry, visit, call, blacklists, collected>>

\* A slip: the flag describes the last function only.
addFunctionDeclLast(d) ==
    /\ FunctionDecls' = Append(FunctionDecls, d)
    /\ AnyVariadic' = (d \in Variadic)
    /\ UNCHANGED VarDecls

\* A slip: functions are added at the front.
addFunctionDeclFirst(d) ==
    /\ FunctionDecls' = <<d>> \o FunctionDecls
    /\ AnyVariadic' = (AnyVariadic \/ d \in Variadic)
    /\ UNCHANGED VarDecls

addFunctionDecl(d) ==
    /\ FunctionDecls' = Append(FunctionDecls, d)
    /\ AnyVariadic' = (AnyVariadic \/ d \in Variadic)
    /\ UNCHANGED VarDecls

AddFunctionDecl ==
    \E d \in FunctionDecl :
        /\ MarkFunction(d)
        /\ d \in Variadic => Mocking.MockVariadicFunctions
        /\ ~Unmockable(d)
        /\ addFunctionDecl(d)
        /\ Return

SkipVariable ==
    /\ Dispatching /\ CurrentCall.decl \in VarDecl
    /\ VariableDispatched(CurrentExpr, CurrentCall) => IsVisited(CurrentCall.decl)
    /\ Return
    /\ UNCHANGED <<Visited, collected>>

AddVarDecl ==
    \E v \in VarDecl :
        /\ Dispatching /\ CurrentCall.decl = v
        /\ VariableDispatched(CurrentExpr, CurrentCall)
        /\ ~IsVisited(v)
        /\ Visited' = Visited \cup {v}
        /\ VarDecls' = Append(VarDecls, v)
        /\ UNCHANGED <<FunctionDecls, AnyVariadic>>
        /\ Return

Finish ==
    /\ pc = "traverse" /\ visit > Len(exprs)
    /\ pc' = "done"
    /\ UNCHANGED <<input, entry, visit, call, blacklists, Visited, collected>>

Terminated == pc \in {"done", "exit"} /\ UNCHANGED vars

Next ==
    \/ AddName \/ AddGlob \/ RejectGlob \/ StartTraversal
    \/ LeaveExpr \/ SkipFunction \/ SkipVariadic \/ RejectVariadic
    \/ AddFunctionDecl \/ SkipVariable \/ AddVarDecl \/ Finish
    \/ Terminated

Spec == Init /\ [][Next]_vars
-----------------------------------------------------------------------------
(***************************************************************************)
(* Properties.                                                             *)
(***************************************************************************)
TypeOK ==
    /\ exprs \in TranslationUnits
    /\ Mocking \in Configurations
    /\ pc \in {"construct", "traverse", "done", "exit"}
    /\ entry \in Nat \ {0} /\ visit \in Nat \ {0} /\ call \in Nat \ {0}
    /\ Blacklist \subseteq Name \ Pattern
    /\ GlobBlacklist \subseteq Pattern \ Malformed
    /\ Visited \subseteq Decl
    /\ FunctionDecls \in Seq(FunctionDecl)
    /\ VarDecls \in Seq(VarDecl)
    /\ AnyVariadic \in BOOLEAN

\* No declaration is collected twice, however often and through whichever
\* handler it is reached: a second copy would define its mock twice.
CollectedOnce == IsInjective(FunctionDecls) /\ IsInjective(VarDecls)

\* AnyVariadic is true exactly if a variadic function was collected, so that
\* <cstdarg> is included when, and only when, a mock body needs va_list.
AnyVariadicExact ==
    AnyVariadic <=> \E d \in Range(FunctionDecls) : d \in Variadic

\* A collected variadic function has a last parameter: writeFunctionBody
\* passes Parameters.back() to va_start without looking.
MockableVariadics ==
    \A d \in Range(FunctionDecls) : d \in Variadic => d \notin ParamEmpty

\* The expression makes the translation unit call the declaration or, if it
\* names an external object, define that object and so construct it.
References(e, d) ==
    /\ e.inMainFile
    /\ CASE e.kind = "call" -> d = e.decl
         [] e.kind = "construct" -> d \in {e.decl, DtorOf[e.decl]}
         [] e.kind = "declref" ->
                /\ e.decl \in ExternallyVisible
                /\ \/ d = e.decl
                   \/ \E ctor \in Range(CtorsOf[e.decl]) \ Defined :
                         d \in {ctor, DtorOf[ctor]}

\* The mock functions come in the order in which the source first needs
\* them: the generated file does not change from run to run.
FirstUseOrder ==
    \A i, j \in DOMAIN FunctionDecls :
        i < j => \E m \in DOMAIN exprs :
                    /\ References(exprs[m], FunctionDecls[i])
                    /\ \A n \in DOMAIN exprs :
                          References(exprs[n], FunctionDecls[j]) => m <= n

\* The expression cannot be linked without the declaration's definition: it
\* calls it, constructs or destroys with it, or takes its value or address.
Uses(e, d) ==
    References(e, d) \/ (e.inMainFile /\ e.kind = "declref" /\ d = e.decl)

\* An entry of the blacklist names the entity, or is a pattern its name
\* matches, be it a function or a variable.
Named(d) == NameOf[d] \in Range(Mocking.Blacklist) \ Pattern
Matched(d) ==
    \E p \in Range(Mocking.Blacklist) \cap (Pattern \ Malformed) :
        NameOf[d] \in Glob[p]

\* Each of the three kinds of builtin has an option of its own.
BuiltinAskedFor(d) ==
    d \in Builtin =>
        IF d \in BuiltinPrefixed THEN Mocking.MockBuiltins
        ELSE IF d \in InStdNamespace THEN Mocking.MockCXXStdLib
        ELSE Mocking.MockCStdLib

\* "All undefined function and variable declarations" the main file uses, but
\* those the options rule out and those the code says it never mocks.
Promised ==
    {d \in Decl :
        /\ \E n \in DOMAIN exprs : Uses(exprs[n], d)
        /\ d \notin Defined
        /\ ~Named(d) /\ ~Matched(d) /\ BuiltinAskedFor(d)
        /\ d \in Variadic => Mocking.MockVariadicFunctions
        /\ d \notin ErrnoLocation
        /\ d \in VarDecl => NameOf[d] \notin InternalBlacklist}

\* Where the code falls short of that: functions the file only refers to, and
\* builtins that are asked for while MockCStdLib, or for those of namespace
\* std MockC++StdLib, is off.
Overlooked ==
    {d \in Promised :
        \/ \A n \in DOMAIN exprs : ~References(exprs[n], d)
        \/ /\ d \in Builtin
           /\ \/ ~Mocking.MockCStdLib
              \/ d \in InStdNamespace /\ ~Mocking.MockCXXStdLib}

\* Where it does more: a variable is collected although the file defines it,
\* or although it matches a pattern of the blacklist.
Surplus ==
    {v \in ExternallyVisible :
        /\ \E n \in DOMAIN exprs : References(exprs[n], v)
        /\ v \in Defined \/ Matched(v)
        /\ ~Named(v) /\ NameOf[v] \notin InternalBlacklist}

\* The declarations that get a mock or a definition.
Needed == (Promised \ Overlooked) \cup Surplus

\* A blacklist entry that is no pattern, or a needed function without a
\* parameter to start its variable arguments from.
Obstacle ==
    \/ Range(Mocking.Blacklist) \cap Pattern \cap Malformed # {}
    \/ \E d \in Needed : Unmockable(d)

Collected == Range(FunctionDecls) \cup Range(VarDecls)

Outcome ==
    CASE pc = "done" -> "complete" [] pc = "exit" -> "failed" [] OTHER -> "running"

Wanted == {d \in Needed : ~Unmockable(d)}

Selection == INSTANCE MockSelection
    WITH wanted <- Wanted, obstacle <- Obstacle,
         selected <- Collected, outcome <- Outcome

\* The traversal with its two blacklists and its Visited set collects the
\* undefined declarations the main file uses and the options leave, apart from
\* the two kinds it overlooks and the two it takes in addition, and nothing
\* else; it ends with an error only because of an obstacle.
SelectsMocks == Selection!Spec
=============================================================================
