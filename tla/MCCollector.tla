---------------------------- MODULE MCCollector ----------------------------
(***************************************************************************)
(* A small program for the collector.  Each declaration stands for one     *)
(* reason to mock or to skip; every translation unit has up to MaxExprs of *)
(* the expressions below, in every order, under every setting of the       *)
(* boolean options and each of the blacklists.                             *)
(***************************************************************************)
EXTENDS Collector, SequencesExt

CONSTANTS
    f, fAgain,         \* an undefined function and a redeclaration of it
    inlined,           \* a function with a body
    errno,             \* __errno_location
    expect,            \* __builtin_expect
    memcpy, move,      \* a C and a C++ standard library function
    printf,            \* a variadic C standard library function
    log, variadic0,    \* variadic functions with and without parameters
    subscript,         \* operator[], a name that is also a malformed pattern
    Obj, ObjCopy,      \* an undefined and a defined constructor of a class
    ObjDtor,           \* and its destructor
    Plain,             \* an undefined constructor; the class has no destructor
    counter,           \* an external variable
    obj,               \* an external object of the class with two constructors
    stdout,            \* a variable of the internal blacklist
    hidden,            \* a variable with internal linkage
    limit,             \* an external variable this translation unit defines
    none,              \* no declaration
    globF, globCounter, \* the patterns f* and count*
    MaxExprs           \* bound on the length of a translation unit

MCVarDecl == {counter, obj, stdout, hidden, limit}
MCFunctionDecl ==
    {f, fAgain, inlined, errno, expect, memcpy, move, printf, log, variadic0,
     subscript, Obj, ObjCopy, ObjDtor, Plain}
MCDecl == MCFunctionDecl \cup MCVarDecl

MCDefined == {inlined, ObjCopy, hidden, limit}
MCErrnoLocation == {errno}
MCBuiltin == {expect, memcpy, move, printf}
MCBuiltinPrefixed == {expect}
MCInStdNamespace == {move}
MCVariadic == {printf, log, variadic0}
MCParamEmpty == {variadic0, errno, ObjDtor}
MCExternallyVisible == MCVarDecl \ {hidden}
MCCtorsOf == [v \in MCVarDecl |-> IF v = obj THEN <<ObjCopy, Obj>> ELSE <<>>]
MCDtorOf ==
    [c \in {Obj, ObjCopy, Plain} |-> IF c = Plain THEN none ELSE ObjDtor]

\* A redeclaration is the same entity, and has its name.
EntityOf == [d \in MCDecl |-> IF d = fAgain THEN f ELSE d]
MCNameOf == EntityOf
MCName == MCDecl \ {fAgain}
MCInternalBlacklist == {stdout}

MCPattern == {globF, globCounter, subscript}
MCMalformed == {subscript}
MCGlob ==
    [p \in {globF, globCounter} |-> IF p = globF THEN {f} ELSE {counter}]

Expression(k, d, main) == [kind |-> k, decl |-> d, inMainFile |-> main]

Expressions ==
    {Expression("call", d, TRUE) :
        d \in (MCFunctionDecl \ {Obj, ObjCopy, ObjDtor, Plain}) \cup {none}}
    \cup {Expression("construct", c, TRUE) : c \in {Obj, ObjCopy, Plain}}
    \cup {Expression("declref", d, TRUE) : d \in MCVarDecl \cup {f, log}}
    \cup {Expression("call", f, FALSE), Expression("construct", Obj, FALSE),
          Expression("declref", obj, FALSE)}

MCTranslationUnits == BoundedSeq(Expressions, MaxExprs)

Blacklists ==
    {<<>>, <<f>>, <<globF>>, <<globCounter, log>>, <<counter, ObjDtor>>,
     <<f, subscript>>}

\* Every setting of the options without a blacklist; with one, all on or off.
MCConfigurations ==
    {m \in [Blacklist : Blacklists,
            MockBuiltins : BOOLEAN, MockCStdLib : BOOLEAN,
            MockCXXStdLib : BOOLEAN, MockVariadicFunctions : BOOLEAN] :
        m.Blacklist # <<>> =>
            {m.MockBuiltins, m.MockCStdLib, m.MockCXXStdLib}
                = {m.MockVariadicFunctions}}

-----------------------------------------------------------------------------
(***************************************************************************)
(* What comments and options of the repository say, and the code does not  *)
(* do.                                                                     *)
(***************************************************************************)

\* No function gets two mocks.  The generated file is to be included in the
\* unit test's source file, which then defines every mock function once.
MockedOnce ==
    \A i, j \in DOMAIN FunctionDecls :
        EntityOf[FunctionDecls[i]] = EntityOf[FunctionDecls[j]] => i = j

\* All undefined functions and variables are collected: whatever the main file
\* uses and does not define has to come from the generated file, and no
\* option excludes it.
CollectsUndefined == pc = "done" => Promised \ Builtin \subseteq Collected

\* Each of the three options about builtins decides about its own kind: a
\* builtin whose option asks for a mock gets one.
BuiltinOptionsDecide ==
    pc = "done" =>
        \A n \in DOMAIN exprs :
            LET d == exprs[n].decl
            IN  /\ exprs[n].kind = "call" /\ exprs[n].inMainFile
                /\ d \in Builtin /\ d \notin Variadic /\ Mocking.Blacklist = <<>>
                /\ IF d \in BuiltinPrefixed THEN Mocking.MockBuiltins
                   ELSE IF d \in InStdNamespace THEN Mocking.MockCXXStdLib
                   ELSE Mocking.MockCStdLib
                => d \in Range(FunctionDecls)
=============================================================================
